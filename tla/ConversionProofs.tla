-------------------------- MODULE ConversionProofs --------------------------
(***************************************************************************)
(* Proofs about Uploads, NsjailRunner and Conversion for any requests,     *)
(* lists of files, output limits and amounts of output.                    *)
(***************************************************************************)
EXTENDS Conversion, ConverterProofs, ListingProofs

-----------------------------------------------------------------------------
(* The standard output of a command                                        *)

(* One field of the record of a command changes within its range.          *)
LEMMA CallField ==
  ASSUME NEW c \in Call
  PROVE  /\ \A x \in {"idle", "running", "ok", "error"} : [c EXCEPT !.stage = x] \in Call
         /\ \A x \in {0, DefaultStdout, LargeStdout} : [c EXCEPT !.limit = x] \in Call
         /\ \A x \in {"running", "stuck", "succeeded", "failed"} : [c EXCEPT !.child = x] \in Call
         /\ \A x \in BOOLEAN : /\ [c EXCEPT !.expired = x] \in Call
                               /\ [c EXCEPT !.forced = x] \in Call
                               /\ [c EXCEPT !.truncated = x] \in Call
         /\ \A x \in 0..MaxStdout : /\ [c EXCEPT !.written = x] \in Call
                                    /\ [c EXCEPT !.kept = x] \in Call
BY DEF Call

(* Nothing is lost without a trace, and no result is taken with the trace. *)
Traced(c) ==
  /\ c \in Call
  /\ c.kept <= c.written
  /\ c.limit > 0 /\ ~c.truncated => c.kept = c.written
  /\ c.stage = "ok" /\ c.limit > 0 => ~c.truncated

LEMMA NoCallTraced == Traced(NoCall)
BY StdoutAssumption DEF Traced, NoCall, Call

(* A command that starts, or does not.                                     *)
LEMMA StartTraced ==
  ASSUME NEW limit \in {0, DefaultStdout, LargeStdout}, Execute(limit) \/ NotStarted
  PROVE  Traced(call')
<1>1. NoCall \in Call /\ NoCall.kept = 0 /\ NoCall.written = 0
  BY StdoutAssumption DEF NoCall, Call
<1>2. ASSUME NEW x \in {"running", "error"}
      PROVE  Traced([NoCall EXCEPT !.stage = x])
  BY <1>1 DEF Traced, Call
<1>3. CASE Execute(limit)
  <2> DEFINE c == [NoCall EXCEPT !.stage = "running"]
             d == [c EXCEPT !.limit = limit]
             e == [d EXCEPT !.child = "running"]
  <2>1. c \in Call /\ c.kept = 0 /\ c.written = 0 /\ c.stage = "running"
    BY <1>1 DEF Call
  <2> HIDE DEF c
  <2>2. d \in Call /\ d.kept = 0 /\ d.written = 0 /\ d.stage = "running"
    BY <2>1 DEF Call
  <2> HIDE DEF d
  <2>3. Traced(e)
    BY <2>2 DEF Traced, Call
  <2>. QED BY <1>3, <2>3 DEF Execute, c, d
<1>4. CASE NotStarted
  BY <1>2, <1>4 DEF NotStarted
<1>. QED BY <1>3, <1>4

(* A unit of output: it is kept, or the truncation is remembered.          *)
LEMMA WriteTraced ==
  ASSUME Traced(call), ToolWrites
  PROVE  Traced(call')
<1> DEFINE k == IF call.kept < call.limit THEN call.kept + 1 ELSE call.kept
           t == call.truncated \/ call.kept >= call.limit
           c == [call EXCEPT !.kept = k]
           d == [c EXCEPT !.truncated = t]
           e == [d EXCEPT !.written = d.written + 1]
<1>1. /\ call \in Call /\ call.limit \in Nat /\ call.kept \in Nat /\ call.written \in Nat
      /\ call.kept <= call.written /\ call.written < MaxStdout
      /\ call.limit > 0 /\ ~call.truncated => call.kept = call.written
      /\ call.truncated \in BOOLEAN /\ call.stage = "running"
  BY StdoutAssumption DEF Traced, ToolWrites, InCall, Call
<1>2. k \in 0..MaxStdout /\ k <= call.written + 1 /\ t \in BOOLEAN
  BY <1>1, StdoutAssumption
<1>3. c \in Call /\ c.kept = k /\ c.limit = call.limit /\ c.written = call.written /\ c.stage = "running"
  BY <1>1, <1>2 DEF Call
<1>4. call.limit > 0 /\ ~t => k = call.written + 1
  BY <1>1
<1> HIDE DEF c, k, t
<1>5. d \in Call /\ d.kept = k /\ d.limit = call.limit /\ d.written = call.written
      /\ d.stage = "running" /\ d.truncated = t
  BY <1>2, <1>3 DEF Call
<1> HIDE DEF d
<1>6. call.written + 1 \in 0..MaxStdout
  BY <1>1, StdoutAssumption
<1>7. e \in Call /\ e.kept = k /\ e.limit = call.limit /\ e.written = call.written + 1
      /\ e.stage = "running" /\ e.truncated = t
  BY <1>5, <1>6 DEF Call
<1> HIDE DEF e
<1>8. Traced(e)
  BY <1>2, <1>4, <1>7 DEF Traced
<1>9. call' = e
  BY DEF ToolWrites, Write, c, d, e, k, t
<1>. QED BY <1>8, <1>9

(* The process ends, is killed, or its result is taken.                    *)
LEMMA OtherTraced ==
  ASSUME Traced(call), ToolExits \/ ContextDone \/ KilledProcessDies \/ SecondKill \/ Return
  PROVE  Traced(call')
<1>1. CASE ToolExits
  BY <1>1 DEF ToolExits, Traced, Call
<1>2. CASE ContextDone
  <2>1. PICK child \in {"running", "stuck", "succeeded", "failed"} :
          call' = [call EXCEPT !.expired = TRUE, !.child = child]
    BY <1>2 DEF ContextDone
  <2> DEFINE c == [call EXCEPT !.expired = TRUE]
  <2>2. Traced(c)
    BY DEF Traced, Call
  <2> HIDE DEF c
  <2>3. Traced([c EXCEPT !.child = child])
    BY <2>2 DEF Traced, Call
  <2>. QED BY <2>1, <2>3 DEF c
<1>3. CASE KilledProcessDies
  BY <1>3 DEF KilledProcessDies, Traced, Call
<1>4. CASE SecondKill
  BY <1>4 DEF SecondKill, Traced, Call
<1>5. CASE Return
  BY <1>5 DEF Return, Result, Traced, Call
<1>. QED BY <1>1, <1>2, <1>3, <1>4, <1>5

CallTraced == Traced(call)

LEMMA ConvInit_Traced == ConvInit => CallTraced
BY NoCallTraced DEF ConvInit, CallTraced

LEMMA ConvNext_Traced == CallTraced /\ [ConvNext]_vars => CallTraced'
<1> SUFFICES ASSUME Traced(call), [ConvNext]_vars PROVE CallTraced'
  BY DEF CallTraced
<1>1. CASE StartCommand
  BY <1>1, StartTraced DEF StartCommand, StdoutLimit, CallTraced
<1>2. CASE CommandRuns
  BY <1>2, WriteTraced, OtherTraced DEF CommandRuns, CallStep, CallTraced
<1>3. CASE FinishCommand
  BY <1>3, NoCallTraced DEF FinishCommand, CallTraced
<1>4. CASE /\ UploadSide \/ CleanerSide \/ HostSide \/ UNCHANGED vars
           /\ ~StartCommand /\ ~FinishCommand
  <2>1. UNCHANGED call
    BY <1>4 DEF UploadSide, CleanerSide, HostSide, vars, StartJob, CheckStep, FailStep, PanicStep, PrepareStep,
         HostStep, CopyStep, RemoveStep, UseStep, SkipStep, RecordStep, ManifestStep, ListingStep,
         EndOfJob
  <2>. QED BY <2>1 DEF CallTraced
<1>. QED BY <1>1, <1>2, <1>3, <1>4 DEF ConvNext, HostSide

(* A command whose result is taken never lost a byte to the limit of its   *)
(* buffer: truncated output, though the tool succeeded, is an error.       *)
THEOREM StdoutCorrect == ConvSpec => []StdoutWhole
<1>1. CallTraced => StdoutWhole
  BY DEF CallTraced, Traced, StdoutWhole
<1>. QED BY <1>1, ConvInit_Traced, ConvNext_Traced, PTL DEF ConvSpec

-----------------------------------------------------------------------------
(* Refused uploads                                                         *)

Clean == DOMAIN disk = {} /\ ~jobDir

(* Before the form has passed the disk is clean, and after a refusal too   *)
(* unless MkdirAll or RemoveAll failed.                                    *)
CleanWhileOutside ==
  /\ stage = "form" => Clean
  /\ stage = "refused" /\ ~osFailed => Clean

LEMMA ConvInit_Clean == ConvInit => CleanWhileOutside
BY DEF ConvInit, UploadInit, CleanWhileOutside, Clean

(* A removal that does not fail leaves nothing.                            *)
LEMMA RefuseAndRemove_Clean ==
  ASSUME NEW files, RefuseAndRemove(files)
  PROVE  CleanWhileOutside'
BY DEF RefuseAndRemove, CleanWhileOutside, Clean

(* The handler refuses before it has made the directory, or removes it.    *)
LEMMA UploadStep_Clean ==
  ASSUME CleanWhileOutside, UploadStep
  PROVE  CleanWhileOutside'
<1>1. CASE ReceiveForm
  BY <1>1 DEF ReceiveForm, RefuseForm, CleanWhileOutside, Clean
<1>2. CASE MakeJobDir
  BY <1>2 DEF MakeJobDir, CleanWhileOutside, Clean
<1>3. CASE StoreFile
  <2>1. stage' \in {"storing", "searching"} \/ \E files : RefuseAndRemove(files)
    BY <1>3 DEF StoreFile
  <2>. QED BY <2>1, RefuseAndRemove_Clean DEF CleanWhileOutside
<1>4. CASE SubmitJob
  <2>1. stage' = "queued" \/ RefuseAndRemove(disk)
    BY <1>4 DEF SubmitJob
  <2>. QED BY <2>1, RefuseAndRemove_Clean DEF CleanWhileOutside
<1>. QED BY <1>1, <1>2, <1>3, <1>4 DEF UploadStep

(* The converter never takes a request back to the handler.                *)
LEMMA HostSide_Outside ==
  ASSUME HostSide
  PROVE  stage' \notin {"form", "refused"}
BY DEF HostSide, StartJob, CheckStep, FailStep, PanicStep, PrepareStep, HostStep, CopyStep,
   RemoveStep, UseStep, SkipStep, RecordStep, ManifestStep, ListingStep, EndOfJob, StartCommand,
   FinishCommand, IsCommand, At, AtStep, Advance, FailJob, uploadVars

LEMMA ConvNext_Clean == CleanWhileOutside /\ [ConvNext]_vars => CleanWhileOutside'
<1> SUFFICES ASSUME CleanWhileOutside, [ConvNext]_vars PROVE CleanWhileOutside'
  OBVIOUS
<1>1. CASE UploadSide
  BY <1>1, UploadStep_Clean DEF UploadSide
<1>2. CASE HostSide
  BY <1>2, HostSide_Outside DEF CleanWhileOutside
<1>3. CASE CommandRuns \/ UNCHANGED vars
  <2>1. UNCHANGED <<stage, jobDir, disk, osFailed>>
    BY <1>3 DEF CommandRuns, vars, uploadVars
  <2>. QED BY <2>1 DEF CleanWhileOutside, Clean
<1>4. CASE CleanerSide
  BY <1>4, RefuseAndRemove_Clean DEF CleanerSide, SearchCutOff
<1>. QED BY <1>1, <1>2, <1>3, <1>4 DEF ConvNext

(* A refused upload leaves no file and no directory, however many of its   *)
(* files were on disk when it was refused, unless the MkdirAll or the      *)
(* RemoveAll of its handler failed, whose errors the handlers only answer  *)
(* or ignore.                                                              *)
THEOREM RefusedCorrect == ConvSpec => []RefusedLeavesNothing
<1>1. CleanWhileOutside => RefusedLeavesNothing
  BY DEF CleanWhileOutside, Clean, RefusedLeavesNothing
<1>. QED BY <1>1, ConvInit_Clean, ConvNext_Clean, PTL DEF ConvSpec

-----------------------------------------------------------------------------
(* Accepted uploads                                                        *)

(* The state of an upload between its form and the queue: as many files on *)
(* disk as were stored, each checked; the pages of a list are numbered.    *)
Stored ==
  /\ q \in Request
  /\ IsFiniteSet(DOMAIN disk) /\ Cardinality(DOMAIN disk) = Len(stored)
  /\ stored \in Seq(DOMAIN disk)
  /\ Len(stored) <= Len(q.files)
  /\ \A i \in 1..Len(stored) : Accepts(q.type, q.files[i])
  /\ q.type \in {"pdf_merge", "image_to_pdf"} =>
       \A name \in DOMAIN disk : \E i \in 1..Len(stored) : name = <<"input", "page", <<i>>>>

Counted == q.type \in Several => Len(q.files) \in 1..MaxFileCount(q.type)

(* Only the QR code is made without a file.                                *)
HasFile == Len(q.files) = 0 => q.type = "qr_code"

UploadInv ==
  /\ q \in Request
  /\ Len(stored) <= Len(q.files)
  /\ stage = "form" => DOMAIN disk = {} /\ stored = <<>>
  /\ stage \in {"storing", "searching", "queued"} => Stored /\ Counted /\ HasFile
  /\ stage = "searching" =>
       Len(stored) < Len(q.files) /\ ~SearchEnds(q.files[Len(stored) + 1])
  /\ stage = "queued" => Len(stored) = Len(q.files)

(* Where the search for a free name ends, the name is free.                *)
LEMMA FreeName ==
  ASSUME NEW file, file.spare \in Nat, q.type = "archive", SearchEnds(file)
  PROVE  UniqueName(file) \notin DOMAIN disk
<1> DEFINE name == ArchiveName(file)
           Free == FreeSuffixes(file)
           first == CHOOSE i \in Free : \A j \in Free : i <= j
<1>1. CASE ~Taken(file)
  BY <1>1 DEF UniqueName, Taken
<1>2. CASE Taken(file)
  <2>1. Free # {}
    BY <1>2 DEF SearchEnds
  <2>2. Free \subseteq Nat
    BY DEF FreeSuffixes
  <2>3. \E i \in Free : \A j \in Free : i <= j
    <3> HIDE DEF Free
    <3>. QED BY <2>1, <2>2, LeastNumber
  <2>4. first \in Free
    <3> HIDE DEF Free
    <3>. QED BY <2>3
  <2>5. Suffixed(name, first) \notin DOMAIN disk
    <3> HIDE DEF first
    <3>. QED BY <2>4 DEF FreeSuffixes
  <2>. QED BY <1>2, <2>5 DEF UniqueName
<1>. QED BY <1>1, <1>2

(* Where it does not end, the name and all of its suffixed names that fit  *)
(* are on disk, each once: there are fewer of them than stored files.      *)
LEMMA LongName ==
  ASSUME Stored, NEW file, file.spare \in Nat, file.suffix \in Seq(Nat), ~SearchEnds(file)
  PROVE  q.type = "archive" /\ file.spare < Len(stored)
<1>1. q.type = "archive" /\ Taken(file) /\ FreeSuffixes(file) = {}
  BY DEF SearchEnds
<1> DEFINE name == ArchiveName(file)
           Others == DOMAIN disk \ {name}
           f == [i \in 1..file.spare |-> Suffixed(name, i)]
<1>2. \A i \in 1..file.spare : Suffixed(name, i) \in DOMAIN disk
  BY <1>1 DEF FreeSuffixes
<1>3. \A i \in 1..file.spare : Suffixed(name, i) # name
  <2> SUFFICES ASSUME NEW i \in 1..file.spare, Suffixed(name, i) = name PROVE FALSE
    OBVIOUS
  <2>1. Append(file.suffix, i) = file.suffix
    BY DEF Suffixed, ArchiveName
  <2>2. Len(Append(file.suffix, i)) = Len(file.suffix) + 1 /\ Len(file.suffix) \in Nat
    BY AppendProperties, LenProperties
  <2>. QED BY <2>1, <2>2
<1>4. f \in [1..file.spare -> Others]
  BY <1>2, <1>3
<1>5. \A i, j \in 1..file.spare : f[i] = f[j] => i = j
  <2> SUFFICES ASSUME NEW i \in 1..file.spare, NEW j \in 1..file.spare, f[i] = f[j]
               PROVE  i = j
    OBVIOUS
  <2>1. Append(file.suffix, i) = Append(file.suffix, j)
    BY DEF Suffixed, ArchiveName
  <2>. QED BY <2>1, AppendInjective
<1>6. IsFiniteSet(Others) /\ Cardinality(Others) = Len(stored) - 1
  BY <1>1, FS_RemoveElement DEF Stored, Taken
<1> HIDE DEF f, Others
<1>7. PICK k \in Nat : k = file.spare
  OBVIOUS
<1>8. IsFiniteSet(1..k) /\ Cardinality(1..k) = k
  <2>1. IsFiniteSet(1..k) /\ Cardinality(1..k) = IF 1 > k THEN 0 ELSE k - 1 + 1
    <3>1. 1 \in Int /\ k \in Int
      OBVIOUS
    <3>. QED BY ONLY <3>1, FS_Interval
  <2>. QED BY <2>1
<1>9. ~(Cardinality(Others) < Cardinality(1..k))
  BY <1>4, <1>5, <1>6, <1>7, <1>8, FS_PigeonHole
<1>10. PICK m \in Nat : m = Len(stored)
  BY LenProperties DEF Stored
<1>11. ~(m - 1 < k)
  BY <1>6, <1>8, <1>9, <1>10
<1>12. k < m
  BY <1>11
<1>. QED BY <1>1, <1>7, <1>10, <1>12

(* The name of the next file is never the name of one that is there.       *)
LEMMA NextNameFree ==
  ASSUME Stored, Len(stored) < Len(q.files), SearchEnds(q.files[Len(stored) + 1])
  PROVE  NameFor(Len(stored) + 1) \notin DOMAIN disk
<1>1. Len(stored) + 1 \in DOMAIN q.files /\ Len(q.files) \in Nat /\ Len(stored) \in Nat
  BY RequestAssumption, LenProperties DEF Stored
<1>2. CASE q.type = "archive"
  BY <1>1, <1>2, FreeName, RequestAssumption DEF NameFor, Stored
<1>3. CASE q.type \in {"pdf_merge", "image_to_pdf"}
  BY <1>1, <1>3 DEF NameFor, Stored
<1>4. CASE q.type \notin Several
  <2>1. Len(stored) = 0
    BY <1>1, <1>4, RequestAssumption DEF Stored
  <2>. QED BY <2>1, FS_EmptySet DEF Stored
<1>. QED BY <1>2, <1>3, <1>4 DEF Several

(* A file is stored: one more on disk, under a name of its own.            *)
LEMMA StoreFile_Stored ==
  ASSUME Stored, Counted, stage = "storing", StoreFile, stage' = "storing"
  PROVE  Stored' /\ Counted'
<1> DEFINE i == Len(stored) + 1
           name == NameFor(i)
<1>1. /\ Len(stored) < Len(q.files) /\ Accepts(q.type, q.files[i]) /\ SearchEnds(q.files[i])
      /\ stored' = Append(stored, name) /\ disk' = Put(disk, name, 0) /\ UNCHANGED q
  BY DEF StoreFile, RefuseAndRemove
<1>2. name \notin DOMAIN disk
  BY <1>1, NextNameFree
<1>3. DOMAIN disk' = DOMAIN disk \cup {name}
  BY <1>1 DEF Put
<1>4. IsFiniteSet(DOMAIN disk') /\ Cardinality(DOMAIN disk') = Cardinality(DOMAIN disk) + 1
  BY <1>2, <1>3, FS_AddElement DEF Stored
<1>5. Len(stored) \in Nat /\ Len(q.files) \in Nat
  BY RequestAssumption, LenProperties DEF Stored
<1>6. stored \in Seq(DOMAIN disk') /\ name \in DOMAIN disk'
  BY <1>3, SeqMonotonic DEF Stored
<1>7. stored' \in Seq(DOMAIN disk') /\ Len(stored') = i
  BY <1>1, <1>6, AppendProperties
<1>8. q.type \in {"pdf_merge", "image_to_pdf"} => name = <<"input", "page", <<i>>>>
  BY DEF NameFor
<1> HIDE DEF name
<1>9. Stored'
  <2>1. \A j \in 1..i : Accepts(q.type, q.files[j])
    BY <1>1, <1>5 DEF Stored
  <2>2. q.type \in {"pdf_merge", "image_to_pdf"} =>
          \A n \in DOMAIN disk' : \E j \in 1..i : n = <<"input", "page", <<j>>>>
    BY <1>3, <1>5, <1>8 DEF Stored
  <2>. QED BY <1>1, <1>4, <1>5, <1>7, <2>1, <2>2 DEF Stored, Accepts
<1>. QED BY <1>1, <1>9 DEF Counted

LEMMA ConvInit_Upload == ConvInit => UploadInv
BY DEF ConvInit, UploadInit, UploadInv

LEMMA UploadStep_Upload ==
  ASSUME UploadInv, UploadStep
  PROVE  UploadInv'
<1>1. CASE ReceiveForm
  BY <1>1 DEF ReceiveForm, RefuseForm, UploadInv
<1>2. CASE MakeJobDir
  <2>1. CASE stage' = "storing"
    <3>1. stored = <<>> /\ DOMAIN disk = {} /\ q \in Request /\ PassesForm /\ UNCHANGED <<q, stored, disk>>
      BY <1>2, <2>1 DEF MakeJobDir, UploadInv
    <3>2. Stored
      BY <3>1, FS_EmptySet, EmptySeq, RequestAssumption DEF Stored
    <3>3. Counted
      BY <3>1 DEF Counted, PassesForm
    <3>4. HasFile
      <4>1. q.type \in Several => Len(q.files) # 0
        BY <3>1, CountAssumption DEF PassesForm, MaxFileCount
      <4>. QED BY <3>1, <4>1 DEF PassesForm, HasFile
    <3>5. Len(stored) <= Len(q.files)
      BY <3>2 DEF Stored
    <3>. QED BY <2>1, <3>1, <3>2, <3>3, <3>4, <3>5 DEF UploadInv, Stored, Counted, Accepts, HasFile
  <2>2. CASE stage' = "refused"
    BY <1>2, <2>2 DEF MakeJobDir, UploadInv
  <2>. QED BY <1>2, <2>1, <2>2 DEF MakeJobDir
<1>3. CASE StoreFile
  <2>1. CASE stage' = "storing"
    <3>1. UNCHANGED q /\ stage = "storing"
      BY <1>3, <2>1 DEF StoreFile, RefuseAndRemove
    <3>2. HasFile'
      BY <1>3, <3>1 DEF UploadInv, HasFile
    <3>. QED BY <1>3, <2>1, <3>1, <3>2, StoreFile_Stored DEF UploadInv, Stored
  <2>2. CASE stage' = "refused"
    BY <1>3, <2>2 DEF StoreFile, RefuseAndRemove, UploadInv
  <2>3. CASE stage' = "searching"
    <3>1. /\ stage = "storing" /\ UNCHANGED <<q, stored, disk>>
          /\ Len(stored) < Len(q.files) /\ ~SearchEnds(q.files[Len(stored) + 1])
      BY <1>3, <2>3 DEF StoreFile, RefuseAndRemove
    <3>2. ~SearchEnds(q.files[Len(stored) + 1])'
      BY <3>1 DEF SearchEnds, Taken, FreeSuffixes
    <3>3. Stored' /\ Counted' /\ HasFile'
      BY <3>1 DEF UploadInv, Stored, Counted, HasFile, Accepts
    <3>. QED BY <2>3, <3>1, <3>2, <3>3 DEF UploadInv, Stored
  <2>. QED BY <1>3, <2>1, <2>2, <2>3 DEF StoreFile, RefuseAndRemove
<1>4. CASE SubmitJob
  BY <1>4 DEF SubmitJob, RefuseAndRemove, UploadInv, Stored, Counted, HasFile, Accepts
<1>. QED BY <1>1, <1>2, <1>3, <1>4 DEF UploadStep

(* The converter never brings a request back to the queue.                 *)
LEMMA HostSide_Queued ==
  ASSUME HostSide
  PROVE  /\ stage' \notin {"form", "storing", "searching", "queued"}
         /\ UNCHANGED <<q, stored, jobDir, osFailed>>
BY DEF HostSide, StartJob, CheckStep, FailStep, PanicStep, PrepareStep, HostStep, CopyStep,
   RemoveStep, UseStep, SkipStep, RecordStep, ManifestStep, ListingStep, EndOfJob, StartCommand,
   FinishCommand, IsCommand, At, AtStep, Advance, FailJob, SameUpload, uploadVars

LEMMA ConvNext_Upload == UploadInv /\ [ConvNext]_vars => UploadInv'
<1> SUFFICES ASSUME UploadInv, [ConvNext]_vars PROVE UploadInv'
  OBVIOUS
<1>1. CASE UploadSide
  BY <1>1, UploadStep_Upload DEF UploadSide
<1>2. CASE HostSide
  BY <1>2, HostSide_Queued DEF UploadInv
<1>3. CASE CommandRuns \/ UNCHANGED vars
  BY <1>3 DEF CommandRuns, vars, uploadVars, UploadInv, Stored, Counted, HasFile, Accepts,
     SearchEnds, Taken, FreeSuffixes
<1>4. CASE CleanerSide
  BY <1>4 DEF CleanerSide, SearchCutOff, RefuseAndRemove, UploadInv
<1>. QED BY <1>1, <1>2, <1>3, <1>4 DEF ConvNext

(* A queued job has all of its files, each checked, no more than allowed,  *)
(* and each under a name of its own: no uploaded file replaced another.    *)
THEOREM AcceptedCorrect == ConvSpec => []AcceptedIsComplete
<1>1. UploadInv => AcceptedIsComplete
  <2> SUFFICES ASSUME UploadInv, stage = "queued"
               PROVE  /\ Cardinality(DOMAIN disk) = Len(q.files)
                      /\ \A i \in DOMAIN q.files :
                           Accepts(q.type, q.files[i]) /\ stored[i] \in DOMAIN disk
                      /\ q.type \in Several => Len(q.files) \in 1..MaxFileCount(q.type)
    BY DEF AcceptedIsComplete
  <2>1. Stored /\ Counted /\ Len(stored) = Len(q.files)
    BY DEF UploadInv
  <2>2. \A i \in 1..Len(stored) : stored[i] \in DOMAIN disk
    BY <2>1, ElementOfSeq DEF Stored
  <2>3. DOMAIN q.files = 1..Len(stored)
    BY <2>1, RequestAssumption DEF Stored
  <2>. QED BY <2>1, <2>2, <2>3 DEF Stored, Counted
<1>. QED BY <1>1, ConvInit_Upload, ConvNext_Upload, PTL DEF ConvSpec

(* Only for a name so long that fewer suffixes fit than files were stored  *)
(* before it does the search for a free name not end.                      *)
THEOREM SearchCorrect == ConvSpec => []OnlyLongNamesSearch
<1>1. UploadInv => OnlyLongNamesSearch
  <2> SUFFICES ASSUME UploadInv, stage = "searching"
               PROVE  q.type = "archive" /\ q.files[Len(stored) + 1].spare < Len(stored)
    BY DEF OnlyLongNamesSearch
  <2>1. Stored /\ Len(stored) < Len(q.files) /\ ~SearchEnds(q.files[Len(stored) + 1])
    BY DEF UploadInv
  <2>2. Len(stored) + 1 \in DOMAIN q.files
    BY <2>1, RequestAssumption, LenProperties DEF Stored
  <2>3. /\ q.files[Len(stored) + 1].spare \in Nat
        /\ q.files[Len(stored) + 1].suffix \in Seq(Nat)
    BY <2>1, <2>2, RequestAssumption DEF Stored
  <2>. QED BY <2>1, <2>3, LongName
<1>. QED BY <1>1, ConvInit_Upload, ConvNext_Upload, PTL DEF ConvSpec

-----------------------------------------------------------------------------
(* What the script of an accepted upload can rely on                       *)

(* Before the job: the files that were stored, of which the first is the   *)
(* input.                                                                  *)
Given == IF Len(q.files) = 0 THEN {} ELSE {Cur} \cup {Upload(i) : i \in DOMAIN q.files}

(* Behind it: a result, with its true sizes unless the JPEG search ran; the*)
(* end is never reached by a request of the known gaps.                    *)
End == IF KnownGap THEN {Never} ELSE IF JpegSearch THEN {Ended} ELSE Ending

AllAccepted == \A i \in DOMAIN q.files : Accepts(q.type, q.files[i])

PlainTypes ==
  {"image_format", "pdf_compress", "metadata_remove", "metadata_inspect", "image_to_pdf",
   "archive", "markdown_pdf", "audio_extract", "audio_convert", "mov_to_mp4", "video_to_gif",
   "decompress", "pdf_password", "svg_to_png", "pdf_extract_images", "pdf_edit", "favicon",
   "pdf_repair", "ebook_convert", "font_convert"}

GapTypes == {"ocr", "pdf_merge", "image_compress", "cert_convert", "video_compress"}

LEMMA AcceptedType ==
  ASSUME NEW type, NEW file, Accepts(type, file)
  PROVE  type \in PlainTypes \cup GapTypes
BY DEF Accepts, ByContent, ByExtension, PlainTypes, GapTypes

LEMMA AcceptedForOCR ==
  ASSUME NEW file, Accepts("ocr", file)
  PROVE  file.magic \in Images \cup {"pdf"}
<1>1. DetectFileType(file) \in Images \cup {"pdf"}
  BY DEF Accepts, ByContent, ByExtension, ValidateForOCR
<1>2. "unknown" \notin Images \cup {"pdf"}
  BY DEF Images
<1>. QED BY <1>1, <1>2 DEF DetectFileType

LEMMA NoGap ==
  ASSUME q.type \in PlainTypes \cup {"qr_code"}
  PROVE  ~KnownGap /\ End = Ending
BY DEF PlainTypes, KnownGap, JpegSearch, End

(* The converters without a gap.                                           *)
LEMMA PlainFlow ==
  ASSUME q.type \in PlainTypes, NEW c, NEW G, Before(G), Sent(q.files, G), Len(q.files) >= 1
  PROVE  Flow(c, Script, G, Ending)
<1>1. CASE q.type = "image_format"
  BY <1>1, FlowImageConvert DEF Script
<1>2. CASE q.type = "pdf_compress"
  BY <1>2, FlowPDFCompress DEF Script
<1>3. CASE q.type \in {"metadata_remove", "metadata_inspect"}
  BY <1>3, FlowMetadata DEF Script
<1>4. CASE q.type = "image_to_pdf"
  BY <1>4, FlowImageToPDF DEF Script
<1>5. CASE q.type = "archive"
  BY <1>5, FlowArchive DEF Script
<1>6. CASE q.type \in {"markdown_pdf", "audio_extract", "audio_convert", "mov_to_mp4",
                       "svg_to_png", "pdf_repair", "ebook_convert"}
  BY <1>6, FlowOneCommandConverters DEF Script
<1>7. CASE q.type \in {"font_convert", "pdf_edit", "pdf_password"}
  BY <1>7, FlowFontAndEdit DEF Script
<1>8. CASE q.type = "video_to_gif"
  BY <1>8, FlowVideoToGif DEF Script
<1>9. CASE q.type = "decompress"
  BY <1>9, FlowDecompress DEF Script
<1>10. CASE q.type = "pdf_extract_images"
  BY <1>10, FlowPDFExtractImages DEF Script
<1>11. CASE q.type = "favicon"
  BY <1>11, FlowFavicon DEF Script
<1>. QED BY <1>1, <1>2, <1>3, <1>4, <1>5, <1>6, <1>7, <1>8, <1>9, <1>10, <1>11 DEF PlainTypes

(* The converters with one.                                                *)
LEMMA GapFlow ==
  ASSUME q.type \in GapTypes, Accepts(q.type, q.files[1]), NEW c \in BOOLEAN, c <=> ~KnownGap,
         NEW G, Before(G), Sent(q.files, G), Len(q.files) >= 1
  PROVE  Flow(c, Script, G, End)
<1>1. CASE q.type = "ocr"
  <2> DEFINE type == q.files[1].magic
  <2>1. KnownGap <=> type = "tiff"
    BY <1>1 DEF KnownGap
  <2>2. End = IF KnownGap THEN {Never} ELSE Ending
    BY <1>1 DEF End, JpegSearch
  <2>3. type \in Images \cup {"pdf"}
    BY <1>1, AcceptedForOCR
  <2>4. Script = OCR(type)
    BY <1>1 DEF Script
  <2> HIDE DEF type
  <2>5. /\ type # "tiff" => Flow(c, OCR(type), G, Ending)
        /\ type = "tiff" => Flow(c, OCR(type), G, {Never})
    BY <2>1, <2>3, FlowOCR
  <2>. QED BY <2>1, <2>2, <2>4, <2>5
<1>2. CASE q.type = "pdf_merge"
  <2>1. KnownGap <=> ~(Len(q.files) >= 2 /\ ~HasImage(q.files))
    <3>1. PICK n \in Nat : n = Len(q.files) /\ n >= 1
      BY DEF Sent
    <3>2. n = 1 \/ n >= 2
      <4>1. n >= 1
        BY <3>1
      <4>. QED BY ONLY n \in Nat, <4>1
    <3>3. ~(n = 1 /\ n >= 2)
      OBVIOUS
    <3>4. KnownGap <=> Len(q.files) = 1 \/ HasImage(q.files)
      BY <1>2 DEF KnownGap, HasImage
    <3>. QED BY <3>1, <3>2, <3>3, <3>4
  <2>2. End = IF KnownGap THEN {Never} ELSE Ending
    BY <1>2 DEF End, JpegSearch
  <2>3. Script = PDFMerge(q.files)
    BY <1>2 DEF Script
  <2>4. PICK files : files = q.files
    OBVIOUS
  <2>5. /\ Len(files) >= 2 /\ ~HasImage(files) => Flow(c, PDFMerge(files), G, Ending)
        /\ ~(Len(files) >= 2 /\ ~HasImage(files)) => Flow(c, PDFMerge(files), G, {Never})
    BY <2>1, <2>4, FlowPDFMerge
  <2>. QED BY <2>1, <2>2, <2>3, <2>4, <2>5
<1>3. CASE q.type = "image_compress"
  <2> DEFINE opt == q.opt
             ext == q.files[1].ext
             gap == \/ "crop" \in opt /\ OutputExt(ext) \notin VipsSaves
                    \/ /\ ~IsJpeg(ext) /\ ext \notin VipsCompresses
                       /\ \/ "target" \in opt /\ "already" \notin opt
                          \/ "resize" \in opt /\ "target" \notin opt
  <2>1. KnownGap <=> gap
    BY <1>3 DEF KnownGap
  <2>2. JpegSearch <=> "target" \in opt /\ "already" \notin opt /\ IsJpeg(ext)
    BY <1>3 DEF JpegSearch
  <2>3. Script = ImageCompress(opt, ext)
    BY <1>3 DEF Script
  <2>4. PICK g \in BOOLEAN : g <=> gap
    OBVIOUS
  <2>5. /\ g => Flow(c, ImageCompress(opt, ext), G, {Never})
        /\ Flow(c, ImageCompress(opt, ext), G, {Ended})
        /\ ~("target" \in opt /\ "already" \notin opt /\ IsJpeg(ext)) =>
             Flow(c, ImageCompress(opt, ext), G, Ending)
    BY <2>1, <2>4, FlowImageCompress
  <2> HIDE DEF opt, ext, gap
  <2>. QED BY <2>1, <2>2, <2>3, <2>4, <2>5 DEF End
<1>4. CASE q.type = "cert_convert"
  <2> DEFINE source == DetectCertFileType(q.files[1].ext)
  <2>1. KnownGap <=> source = q.target
    BY <1>4 DEF KnownGap
  <2>2. End = IF KnownGap THEN {Never} ELSE Ending
    BY <1>4 DEF End, JpegSearch
  <2>3. Script = CertConvert(source, q.target)
    BY <1>4 DEF Script
  <2> HIDE DEF source
  <2>4. /\ source # q.target => Flow(c, CertConvert(source, q.target), G, Ending)
        /\ source = q.target => Flow(c, CertConvert(source, q.target), G, {Never})
    BY <2>1, FlowCertConvert
  <2>. QED BY <2>1, <2>2, <2>3, <2>4
<1>5. CASE q.type = "video_compress"
  <2>1. KnownGap <=> {"target", "subsecond"} \subseteq q.opt
    BY <1>5 DEF KnownGap
  <2>2. End = IF KnownGap THEN {Never} ELSE Ending
    BY <1>5 DEF End, JpegSearch
  <2>3. Script = VideoCompress(q.opt)
    BY <1>5 DEF Script
  <2>4. /\ ~({"target", "subsecond"} \subseteq q.opt) => Flow(c, VideoCompress(q.opt), G, Ending)
        /\ {"target", "subsecond"} \subseteq q.opt => Flow(c, VideoCompress(q.opt), G, {Never})
    BY <2>1, FlowVideoCompress
  <2>. QED BY <2>1, <2>2, <2>3, <2>4
<1>. QED BY <1>1, <1>2, <1>3, <1>4, <1>5 DEF GapTypes

LEMMA ScriptFlow ==
  ASSUME q \in Request, HasFile, AllAccepted
  PROVE  \E c \in BOOLEAN : (c <=> ~KnownGap) /\ Flow(c, Script, Given, End)
<1>1. PICK c \in BOOLEAN : c <=> ~KnownGap
  OBVIOUS
<1>2. Len(q.files) \in Nat /\ DOMAIN q.files = 1..Len(q.files)
  BY RequestAssumption
<1>3. CASE Len(q.files) = 0
  <2>1. q.type = "qr_code"
    BY <1>3 DEF HasFile
  <2>2. Script = QRCode
    BY <2>1 DEF Script
  <2>3. {} \cap Ending = {}
    OBVIOUS
  <2>4. Flow(c, QRCode, {}, Ending)
    BY <2>3, FlowQRCode
  <2>. QED BY <1>1, <1>3, <2>1, <2>2, <2>4, NoGap DEF Given
<1>4. CASE Len(q.files) # 0
  <2>1. Given = {Cur} \cup {Upload(i) : i \in DOMAIN q.files}
    BY <1>4 DEF Given
  <2>2. Accepts(q.type, q.files[1]) /\ Len(q.files) >= 1
    BY <1>2, <1>4 DEF AllAccepted
  <2>3. Sent(q.files, Given)
    BY <1>2, <2>1 DEF Sent
  <2>4. Before(Given)
    <3>1. \A n \in Ending : n[1] = "fact"
      BY DEF Ending, Ended, Recorded
    <3>. QED BY <2>1, <3>1, CurIs, UploadIs DEF Before
  <2>5. Flow(c, Script, Given, End)
    <3>1. CASE q.type \in PlainTypes
      BY <2>2, <2>3, <2>4, <3>1, PlainFlow, NoGap
    <3>2. CASE q.type \in GapTypes
      BY <1>1, <2>2, <2>3, <2>4, <3>2, GapFlow
    <3>. QED BY <2>2, <3>1, <3>2, AcceptedType
  <2>. QED BY <1>1, <2>5
<1>. QED BY <1>3, <1>4

-----------------------------------------------------------------------------
(* A job on its script                                                     *)

(* What a fact says of a state: a file is there, unless a tool that ended  *)
(* well did not write it.                                                  *)
Holds(n) ==
  /\ n = Prepared => outDir
  /\ n = Ended => result # {} /\ \A r \in result : r[1] \in DOMAIN disk
  /\ n = Recorded => \A r \in result : r[2] = disk[r[1]]
  /\ n # Never
  /\ n[1] # "fact" => blame \/ Resolve(n) \in DOMAIN disk

(* The facts of the script's annotation hold where the job is.             *)
OnScript(c, a) ==
  /\ c \in BOOLEAN /\ (c <=> ~KnownGap)
  /\ Follows(c, Script, a) /\ Len(Script) \in Nat
  /\ End \subseteq a[Len(Script) + 1]
  /\ pc \in 1..(Len(Script) + 1)
  /\ \A n \in a[pc] : Holds(n)

RunInv == stage = "running" => \E c, a : OnScript(c, a)

(* How a job may end.                                                      *)
Outcome ==
  /\ stage \in {"failed", "crashed"} /\ ~blame => KnownGap
  /\ stage = "done" =>
       /\ ~KnownGap
       /\ result # {} /\ \A r \in result : r[1] \in DOMAIN disk
       /\ JpegSearch \/ \A r \in result : r[2] = disk[r[1]]

(* The command that runs belongs to the step; it fails only for a reason.  *)
CallInv ==
  /\ call.stage # "idle" => IsCommand
  /\ call.stage # "idle" /\ call.child = "succeeded" => Possible
  /\ call.stage # "idle" /\ call.child \in {"failed", "stuck"} => blame \/ ~Possible
  /\ call.stage = "ok" => call.child = "succeeded"
  /\ call.stage = "error" => blame \/ ~Possible

LEMMA SameRequest ==
  ASSUME UNCHANGED q
  PROVE  /\ Script' = Script /\ (KnownGap' <=> KnownGap) /\ (JpegSearch' <=> JpegSearch)
         /\ End' = End
<1>1. Script' = Script
  BY DEF Script
<1>2. KnownGap' <=> KnownGap
  BY DEF KnownGap
<1>3. JpegSearch' <=> JpegSearch
  BY DEF JpegSearch
<1>. QED BY <1>1, <1>2, <1>3 DEF End

(* The fact names and the files of the job are told apart by their kinds.  *)
LEMMA FactsAre ==
  /\ Prepared[1] = "fact" /\ Ended[1] = "fact" /\ Recorded[1] = "fact" /\ Never[1] = "fact"
  /\ Prepared \notin Ending /\ Never \notin Ending
  /\ Prepared # Ended /\ Prepared # Recorded /\ Prepared # Never
  /\ Ended # Recorded /\ Ended # Never /\ Recorded # Never
BY DEF Prepared, Ended, Recorded, Never, Ending

LEMMA ResolveFile ==
  ASSUME NEW n, n[1] \in {"input", "job", "output"}
  PROVE  Resolve(n) = n /\ n[1] # "fact" /\ n # Cur
BY CurIs DEF Resolve

(* The step the job is at.                                                 *)
LEMMA ThisStep ==
  ASSUME NEW c, NEW a, OnScript(c, a), AtStep
  PROVE  /\ Needs(This, a[pc]) /\ (Blocks(This) => KnownGap)
         /\ Blocks(This) \/ a[pc + 1] \subseteq Rests(This, a[pc]) \cup Gains(This)
         /\ This.op = "skip" =>
              /\ This.skip \in Nat /\ pc + This.skip <= Len(Script)
              /\ a[pc + 1 + This.skip] \subseteq a[pc]
         /\ pc \in Nat /\ pc + 1 \in 1..(Len(Script) + 1)
BY DEF OnScript, AtStep, Follows, This

(* It can rely on the files it reads, unless it only asks for them, or a   *)
(* tool is to blame.                                                       *)
LEMMA ThisReads ==
  ASSUME NEW x, Needs(This, x), \A n \in x : Holds(n), This.op # "use" \/ This.must, ~blame
  PROVE  /\ Reads \subseteq DOMAIN disk
         /\ This.op \in {"use", "copy", "keep", "earlier"} => TheFile \in DOMAIN disk
<1>1. \A n \in This.reads : n[1] # "fact" /\ n \in x
  BY DEF Needs, Names
<1>2. \A n \in This.reads : Resolve(n) \in DOMAIN disk
  BY <1>1 DEF Holds
<1>3. This.op \in {"use", "copy", "keep", "earlier"} => This.reads # {}
  BY DEF Needs
<1>4. Reads \subseteq DOMAIN disk
  BY <1>2 DEF Reads
<1>5. Reads # {} => TheFile \in Reads
  BY DEF TheFile
<1>6. This.reads # {} => Reads # {}
  BY DEF Reads
<1>. QED BY <1>3, <1>4, <1>5, <1>6

(* The job goes on to its next step.                                       *)
LEMMA Onward ==
  ASSUME NEW c, NEW a, OnScript(c, a), AtStep, UNCHANGED <<q, stage>>, pc' = pc + 1,
         ~Blocks(This), \A n \in Rests(This, a[pc]) \cup Gains(This) : Holds(n)'
  PROVE  RunInv' /\ Outcome'
<1>1. /\ a[pc + 1] \subseteq Rests(This, a[pc]) \cup Gains(This)
      /\ pc + 1 \in 1..(Len(Script) + 1)
  BY ThisStep
<1>2. /\ c <=> ~KnownGap
      /\ Follows(c, Script, a) /\ Len(Script) \in Nat
      /\ End \subseteq a[Len(Script) + 1]
  BY DEF OnScript
<1>3. OnScript(c, a)'
  BY <1>1, <1>2, SameRequest DEF OnScript
<1>4. stage' = "running"
  BY DEF AtStep
<1>. QED BY <1>3, <1>4 DEF RunInv, Outcome

(* What holds goes on to hold while no file is removed.                    *)
LEMMA HoldsOn ==
  ASSUME NEW x, \A n \in x : Holds(n), DOMAIN disk \subseteq DOMAIN disk',
         UNCHANGED <<cur, stored, outDir>>, blame => blame'
  PROVE  \A n \in x \ Ending : Holds(n)'
<1> SUFFICES ASSUME NEW n \in x \ Ending PROVE Holds(n)'
  OBVIOUS
<1>1. Holds(n) /\ n # Ended /\ n # Recorded
  BY DEF Ending
<1>2. Resolve(n)' = Resolve(n)
  BY DEF Resolve
<1>. QED BY <1>1, <1>2 DEF Holds

(* The step records nothing that was relied on, and what it gains is there.*)
LEMMA Gaining ==
  ASSUME NEW c, NEW a, OnScript(c, a), AtStep,
         UNCHANGED <<q, stage, stored, cur, outDir>>, pc' = pc + 1, blame => blame',
         ~Blocks(This), This.op \notin {"skip", "remove"},
         DOMAIN disk \subseteq DOMAIN disk', \A n \in Gains(This) : Holds(n)'
  PROVE  RunInv' /\ Outcome'
<1>1. \A n \in a[pc] : Holds(n)
  BY DEF OnScript
<1>2. \A n \in a[pc] \ Ending : Holds(n)'
  BY <1>1, HoldsOn
<1>3. Rests(This, a[pc]) = a[pc] \ Ending
  BY DEF Rests
<1>4. \A n \in Rests(This, a[pc]) \cup Gains(This) : Holds(n)'
  BY <1>2, <1>3
<1>. QED BY <1>4, Onward

(* The job ends before its script does.                                    *)
LEMMA Broken ==
  ASSUME stage' \in {"failed", "crashed"}, UNCHANGED q, blame' \/ KnownGap
  PROVE  RunInv' /\ Outcome'
BY SameRequest DEF RunInv, Outcome

LEMMA PutAllDomain ==
  ASSUME NEW names, NEW content
  PROVE  DOMAIN PutAll(names, content) = DOMAIN disk \cup names
BY DEF PutAll

-----------------------------------------------------------------------------
(* The steps of the server                                                 *)

LEMMA StartJobRun ==
  ASSUME UploadInv, StartJob
  PROVE  RunInv' /\ Outcome'
<1>1. /\ stage = "queued" /\ stage' = "running" /\ pc' = 1
      /\ cur' = (IF stored = <<>> THEN Cur ELSE stored[1])
      /\ UNCHANGED <<q, stored, disk>>
  BY DEF StartJob, SameUpload
<1>2. /\ q \in Request /\ Stored /\ HasFile /\ Len(stored) = Len(q.files)
      /\ Len(q.files) \in Nat /\ DOMAIN q.files = 1..Len(q.files)
  BY <1>1, RequestAssumption DEF UploadInv
<1>3. AllAccepted
  BY <1>2 DEF Stored, AllAccepted
<1>4. \A i \in 1..Len(q.files) : stored[i] \in DOMAIN disk
  BY <1>2, ElementOfSeq DEF Stored
<1>5. PICK c \in BOOLEAN : (c <=> ~KnownGap) /\ Flow(c, Script, Given, End)
  BY <1>2, <1>3, ScriptFlow
<1>6. Len(Script) \in Nat
  BY <1>5, LenProperties DEF Flow
<1>7. PICK a : /\ Follows(c, Script, a) /\ a[1] \subseteq Given
               /\ End \subseteq a[Len(Script) + 1]
  BY <1>5 DEF Flow
<1>8. \A n \in Given : Holds(n)'
  <2>1. CASE Len(q.files) = 0
    BY <2>1 DEF Given
  <2>2. CASE Len(q.files) # 0
    <3>1. 1 \in 1..Len(q.files)
      BY <1>2, <2>2
    <3>2. stored # <<>>
      BY <1>2, <2>2, EmptySeq
    <3>3. cur' \in DOMAIN disk'
      BY <1>1, <1>4, <3>1, <3>2
    <3>4. Resolve(Cur)' = cur'
      BY DEF Resolve
    <3>5. \A i \in 1..Len(q.files) : Resolve(Upload(i))' = stored'[i]
      BY UploadIs DEF Resolve
    <3>6. \A n \in Given : Resolve(n)' \in DOMAIN disk' /\ n[1] = "upload"
      BY <1>1, <1>2, <1>4, <2>2, <3>3, <3>4, <3>5, CurIs, UploadIs DEF Given
    <3>. QED BY <3>6, FactsAre DEF Holds
  <2>. QED BY <2>1, <2>2
<1>9. OnScript(c, a)'
  BY <1>1, <1>5, <1>6, <1>7, <1>8, SameRequest DEF OnScript
<1>. QED BY <1>1, <1>9 DEF RunInv, Outcome

LEMMA CheckStepRun ==
  ASSUME RunInv, CheckStep
  PROVE  RunInv' /\ Outcome'
<1>1. AtStep /\ This.op = "check" /\ UNCHANGED <<q, stored, disk, outDir, cur, result>>
  BY DEF CheckStep, At, This, SameUpload
<1>2. PICK c, a : OnScript(c, a)
  BY <1>1 DEF RunInv, AtStep
<1>3. CASE Advance /\ UNCHANGED blame
  <2>1. ~Blocks(This) /\ Gains(This) = {}
    BY <1>1 DEF Blocks, Gains
  <2>. QED BY <1>1, <1>2, <1>3, <2>1, Gaining DEF Advance
<1>4. CASE FailJob /\ blame' = TRUE
  BY <1>1, <1>4, Broken DEF FailJob
<1>. QED BY <1>3, <1>4 DEF CheckStep

LEMMA FailStepRun ==
  ASSUME RunInv, FailStep \/ PanicStep
  PROVE  RunInv' /\ Outcome'
<1>1. AtStep /\ This.op \in {"fail", "panic"} /\ UNCHANGED q /\ stage' \in {"failed", "crashed"}
  BY DEF FailStep, PanicStep, FailJob, At, This, SameUpload
<1>2. PICK c, a : OnScript(c, a)
  BY <1>1 DEF RunInv, AtStep
<1>3. Blocks(This)
  BY <1>1 DEF Blocks
<1>. QED BY <1>1, <1>2, <1>3, ThisStep, Broken

LEMMA PrepareStepRun ==
  ASSUME RunInv, PrepareStep
  PROVE  RunInv' /\ Outcome'
<1>1. AtStep /\ This.op = "prepare" /\ UNCHANGED <<q, stored, disk, cur, result>>
  BY DEF PrepareStep, At, This, SameUpload
<1>2. PICK c, a : OnScript(c, a)
  BY <1>1 DEF RunInv, AtStep
<1>3. CASE Advance /\ outDir' = TRUE /\ UNCHANGED blame
  <2>1. ~Blocks(This) /\ Gains(This) = {Prepared} /\ Rests(This, a[pc]) = a[pc] \ Ending
    BY <1>1 DEF Blocks, Gains, Rests
  <2>2. Holds(Prepared)'
    BY <1>3, FactsAre DEF Holds
  <2>3. ASSUME NEW n \in a[pc] \ Ending PROVE Holds(n)'
    <3>1. Holds(n) /\ n # Ended /\ n # Recorded
      BY <1>2, <2>3 DEF OnScript, Ending
    <3>2. Resolve(n)' = Resolve(n)
      BY <1>1 DEF Resolve
    <3>. QED BY <1>1, <1>3, <3>1, <3>2 DEF Holds
  <2>. QED BY <1>1, <1>2, <1>3, <2>1, <2>2, <2>3, Onward DEF Advance
<1>4. CASE FailJob /\ blame' = TRUE
  BY <1>1, <1>4, Broken DEF FailJob
<1>. QED BY <1>3, <1>4 DEF PrepareStep

(* The files a step writes are there when it has written them.             *)
LEMMA Written ==
  ASSUME NEW x, Needs(This, x), NEW content, disk' = PutAll(This.writes, content)
  PROVE  /\ DOMAIN disk \subseteq DOMAIN disk'
         /\ \A n \in This.writes : Holds(n)'
<1>1. DOMAIN disk' = DOMAIN disk \cup This.writes
  BY PutAllDomain
<1>2. \A n \in This.writes : n[1] \in {"input", "job", "output"}
  BY DEF Needs
<1>3. ASSUME NEW n \in This.writes PROVE Holds(n)'
  <2>1. n[1] # "fact" /\ n # Cur /\ n[1] # "upload"
    BY <1>2, ResolveFile
  <2>2. Resolve(n)' = n
    BY <2>1 DEF Resolve
  <2>. QED BY <1>1, <2>1, <2>2, FactsAre DEF Holds
<1>. QED BY <1>1, <1>3

LEMMA HostStepRun ==
  ASSUME RunInv, HostStep
  PROVE  RunInv' /\ Outcome'
<1>1. AtStep /\ This.op = "host" /\ UNCHANGED <<q, stored, outDir, cur, result>>
  BY DEF HostStep, At, This, SameUpload
<1>2. PICK c, a : OnScript(c, a)
  BY <1>1 DEF RunInv, AtStep
<1>3. ~Blocks(This) /\ Gains(This) = IF This.must THEN This.writes ELSE {}
  BY <1>1 DEF Blocks, Gains
<1>4. CASE Advance /\ disk' = PutAll(This.writes, pc) /\ UNCHANGED blame
  <2>1. DOMAIN disk \subseteq DOMAIN disk' /\ \A n \in This.writes : Holds(n)'
    BY <1>1, <1>2, <1>4, ThisStep, Written
  <2>. QED BY <1>1, <1>2, <1>3, <1>4, <2>1, Gaining DEF Advance
<1>5. CASE This.must /\ FailJob /\ blame' = TRUE
  BY <1>1, <1>5, Broken DEF FailJob
<1>6. CASE ~This.must /\ Advance /\ blame' = TRUE /\ UNCHANGED disk
  BY <1>1, <1>2, <1>3, <1>6, Gaining DEF Advance
<1>. QED BY <1>4, <1>5, <1>6 DEF HostStep

LEMMA CopyStepRun ==
  ASSUME RunInv, CopyStep
  PROVE  RunInv' /\ Outcome'
<1>1. AtStep /\ This.op = "copy" /\ UNCHANGED <<q, stored, outDir, cur, result>>
  BY DEF CopyStep, At, This, SameUpload
<1>2. PICK c, a : OnScript(c, a)
  BY <1>1 DEF RunInv, AtStep
<1>3. ~Blocks(This) /\ Gains(This) \subseteq This.writes
  BY <1>1 DEF Blocks, Gains
<1>4. CASE Advance /\ disk' = PutAll(This.writes, disk[TheFile]) /\ UNCHANGED blame
  <2>1. DOMAIN disk \subseteq DOMAIN disk' /\ \A n \in This.writes : Holds(n)'
    BY <1>1, <1>2, <1>4, ThisStep, Written
  <2>. QED BY <1>1, <1>2, <1>3, <1>4, <2>1, Gaining DEF Advance
<1>5. CASE FailJob /\ blame' = TRUE
  BY <1>1, <1>5, Broken DEF FailJob
<1>. QED BY <1>4, <1>5 DEF CopyStep

LEMMA RemoveStepRun ==
  ASSUME RunInv, RemoveStep
  PROVE  RunInv' /\ Outcome'
<1>1. /\ AtStep /\ This.op = "remove"
      /\ UNCHANGED <<q, stage, stored, outDir, cur, result, blame>>
      /\ disk' = Drop(disk, Target) /\ pc' = pc + 1
  BY DEF RemoveStep, At, This, SameUpload, Advance
<1>2. PICK c, a : OnScript(c, a)
  BY <1>1 DEF RunInv, AtStep
<1>3. /\ ~Blocks(This) /\ Gains(This) = {}
      /\ Rests(This, a[pc]) = {n \in a[pc] \ (This.writes \cup Ending) : n[1] # "upload"}
  BY <1>1 DEF Blocks, Gains, Rests
<1>4. Needs(This, a[pc])
  BY <1>1, <1>2, ThisStep
<1>5. Target \in This.writes
  BY <1>1, <1>4 DEF Needs, Target
<1>6. DOMAIN disk' = DOMAIN disk \ {Target}
  BY <1>1 DEF Drop
<1>7. ASSUME NEW n \in Rests(This, a[pc]) PROVE Holds(n)'
  <2>1. Holds(n) /\ n[1] # "upload" /\ n # Ended /\ n # Recorded /\ n # Target
    BY <1>2, <1>3, <1>5, <1>7 DEF OnScript, Ending
  <2>2. Resolve(n) = n /\ Resolve(n)' = n
    BY <2>1, CurIs DEF Resolve
  <2>. QED BY <1>1, <1>6, <2>1, <2>2 DEF Holds
<1>. QED BY <1>1, <1>2, <1>3, <1>7, Onward

LEMMA UseStepRun ==
  ASSUME RunInv, UseStep
  PROVE  RunInv' /\ Outcome'
<1>1. AtStep /\ This.op = "use" /\ UNCHANGED <<q, stored, disk, outDir, result, blame>>
  BY DEF UseStep, At, This, SameUpload
<1>2. PICK c, a : OnScript(c, a)
  BY <1>1 DEF RunInv, AtStep
<1>3. ~Blocks(This) /\ Gains(This) = {} /\ Rests(This, a[pc]) = a[pc] \ Ending
  BY <1>1 DEF Blocks, Gains, Rests
<1>4. CASE Advance /\ ((TheFile \in DOMAIN disk /\ cur' = TheFile) \/ UNCHANGED cur)
  <2>1. ASSUME NEW n \in a[pc] \ Ending PROVE Holds(n)'
    <3>1. Holds(n) /\ n # Ended /\ n # Recorded
      BY <1>2, <2>1 DEF OnScript, Ending
    <3>2. CASE n = Cur
      <4>1. Resolve(n) = cur /\ Resolve(n)' = cur' /\ n[1] # "fact"
        BY <3>2, CurIs DEF Resolve
      <4>. QED BY <1>1, <1>4, <3>1, <4>1 DEF Holds
    <3>3. CASE n # Cur
      <4>1. Resolve(n)' = Resolve(n)
        BY <1>1, <3>3 DEF Resolve
      <4>. QED BY <1>1, <3>1, <4>1 DEF Holds
    <3>. QED BY <3>2, <3>3
  <2>. QED BY <1>1, <1>2, <1>3, <1>4, <2>1, Onward DEF Advance
<1>5. CASE This.must /\ FailJob /\ TheFile \notin DOMAIN disk
  <2>1. Needs(This, a[pc]) /\ \A n \in a[pc] : Holds(n)
    BY <1>1, <1>2, ThisStep DEF OnScript
  <2>2. blame
    BY <1>1, <1>5, <2>1, ThisReads
  <2>. QED BY <1>1, <1>5, <2>2, Broken DEF FailJob
<1>. QED BY <1>4, <1>5 DEF UseStep

LEMMA SkipStepRun ==
  ASSUME RunInv, SkipStep
  PROVE  RunInv' /\ Outcome'
<1>1. /\ AtStep /\ This.op = "skip" /\ pc' \in {pc + 1, pc + 1 + This.skip}
      /\ UNCHANGED <<q, stage, stored, disk, outDir, cur, result, blame>>
  BY DEF SkipStep, At, This, SameUpload
<1>2. PICK c, a : OnScript(c, a)
  BY <1>1 DEF RunInv, AtStep
<1>3. ~Blocks(This) /\ Gains(This) = {} /\ Rests(This, a[pc]) = a[pc]
  BY <1>1 DEF Blocks, Gains, Rests
<1>4. /\ This.skip \in Nat /\ pc + This.skip <= Len(Script) /\ pc \in Nat
      /\ pc + 1 \in 1..(Len(Script) + 1)
      /\ a[pc + 1] \subseteq a[pc] /\ a[pc + 1 + This.skip] \subseteq a[pc]
  BY <1>1, <1>2, <1>3, ThisStep
<1>5. Len(Script) \in Nat
  BY <1>2 DEF OnScript
<1>6. pc' \in 1..(Len(Script) + 1) /\ a[pc'] \subseteq a[pc]
  <2>1. PICK k \in Nat : k = This.skip
    BY <1>4
  <2>2. PICK m \in Nat : m = Len(Script)
    BY <1>5
  <2>3. pc + k <= m /\ pc \in Nat
    BY <1>4, <2>1, <2>2
  <2>4. pc + 1 + k \in 1..(m + 1)
    BY ONLY <2>3, k \in Nat, m \in Nat
  <2>. QED BY <1>1, <1>4, <2>1, <2>2, <2>4
<1>7. ASSUME NEW n \in a[pc] PROVE Holds(n)'
  <2>1. Holds(n)
    BY <1>2, <1>7 DEF OnScript
  <2>2. Resolve(n)' = Resolve(n)
    BY <1>1 DEF Resolve
  <2>. QED BY <1>1, <2>1, <2>2 DEF Holds
<1>8. OnScript(c, a)'
  BY <1>1, <1>2, <1>6, <1>7, SameRequest DEF OnScript
<1>9. stage' = "running"
  BY <1>1 DEF AtStep
<1>. QED BY <1>8, <1>9 DEF RunInv, Outcome

(* A file that was written is there under its own name.                    *)
LEMMA OnDisk ==
  ASSUME NEW n, Holds(n), n[1] \in {"input", "job", "output"}, ~blame
  PROVE  n \in DOMAIN disk
BY ResolveFile DEF Holds

LEMMA RecordStepRun ==
  ASSUME RunInv, RecordStep
  PROVE  RunInv' /\ Outcome'
<1>1. /\ AtStep /\ This.op \in {"keep", "smaller", "earlier"}
      /\ UNCHANGED <<q, stored, outDir, cur>>
      /\ At("smaller") <=> This.op = "smaller"
      /\ At("keep") <=> This.op = "keep"
      /\ At("earlier") <=> This.op = "earlier"
  BY DEF RecordStep, At, This, SameUpload
<1>2. PICK c, a : OnScript(c, a)
  BY <1>1 DEF RunInv, AtStep
<1>3. /\ ~Blocks(This)
      /\ This.op \in {"keep", "smaller"} => Gains(This) = Ending
      /\ This.op = "earlier" => Gains(This) = {Ended}
  BY <1>1 DEF Blocks, Gains
<1>4. Needs(This, a[pc]) /\ \A n \in a[pc] : Holds(n)
  BY <1>1, <1>2, ThisStep DEF OnScript
<1> DEFINE name == IF At("smaller") THEN Target ELSE TheFile
<1>5. blame \/ name \in DOMAIN disk
  <2>1. CASE This.op = "smaller"
    <3>1. Target \in This.writes
      BY <1>4, <2>1 DEF Needs, Target
    <3>2. Target \in a[pc] /\ Target[1] \in {"input", "job", "output"}
      BY <1>4, <2>1, <3>1 DEF Needs
    <3>. QED BY <1>1, <1>4, <2>1, <3>2, OnDisk
  <2>2. CASE This.op \in {"keep", "earlier"}
    BY <1>1, <1>4, <2>2, ThisReads
  <2>. QED BY <1>1, <2>1, <2>2
<1> HIDE DEF name
<1>6. ASSUME NEW content, result' = {<<name, content>>}, DOMAIN disk' = DOMAIN disk,
             name \in DOMAIN disk
      PROVE  Holds(Ended)' /\ (disk'[name] = content => Holds(Recorded)')
  BY <1>6, FactsAre DEF Holds
<1>7. ASSUME This.op \in {"keep", "smaller"}, NEW content, result' = {<<name, content>>},
             disk'[name] = content, DOMAIN disk' = DOMAIN disk, Advance,
             name \in DOMAIN disk, UNCHANGED blame
      PROVE  RunInv' /\ Outcome'
  <2>1. \A n \in Gains(This) : Holds(n)'
    BY <1>3, <1>6, <1>7 DEF Ending
  <2>2. This.op \notin {"skip", "remove"} /\ DOMAIN disk \subseteq DOMAIN disk'
    BY <1>7
  <2>. QED BY <1>1, <1>2, <1>3, <1>7, <2>1, <2>2, Gaining DEF Advance
<1>8. CASE At("smaller") /\ FailJob /\ blame' = TRUE
  BY <1>1, <1>8, Broken DEF FailJob
<1>9. CASE /\ name \in DOMAIN disk /\ Advance /\ UNCHANGED blame
           /\ At("keep") /\ result' = {<<name, disk[name]>>} /\ UNCHANGED disk
  BY <1>1, <1>7, <1>9
<1>10. CASE /\ name \in DOMAIN disk /\ Advance /\ UNCHANGED blame
            /\ At("smaller") /\ RecordSmaller(name)
  <2>1. CASE result' = {<<name, disk[name]>>} /\ UNCHANGED disk
    BY <1>1, <1>7, <1>10, <2>1
  <2>2. CASE result' = {<<name, disk[cur]>>} /\ disk' = Put(disk, name, disk[cur])
    <3>1. DOMAIN disk' = DOMAIN disk /\ disk'[name] = disk[cur]
      BY <1>10, <2>2 DEF Put
    <3>. QED BY <1>1, <1>7, <1>10, <2>2, <3>1
  <2>. QED BY <1>10, <2>1, <2>2 DEF RecordSmaller
<1>11. CASE /\ name \in DOMAIN disk /\ Advance /\ UNCHANGED blame
            /\ At("earlier") /\ UNCHANGED disk
            /\ \E i \in 1..(pc - 1) : result' = {<<name, i>>}
  <2>1. PICK i \in 1..(pc - 1) : result' = {<<name, i>>}
    BY <1>11
  <2>2. \A n \in Gains(This) : Holds(n)'
    BY <1>1, <1>3, <1>6, <1>11, <2>1
  <2>3. This.op \notin {"skip", "remove"} /\ DOMAIN disk \subseteq DOMAIN disk'
    BY <1>1, <1>11
  <2>. QED BY <1>1, <1>2, <1>3, <1>11, <2>2, <2>3, Gaining DEF Advance
<1>12. CASE name \notin DOMAIN disk /\ FailJob /\ UNCHANGED blame
  BY <1>1, <1>5, <1>12, Broken DEF FailJob
<1>. QED BY <1>8, <1>9, <1>10, <1>11, <1>12 DEF RecordStep, name

LEMMA ManifestStepRun ==
  ASSUME RunInv, ManifestStep
  PROVE  RunInv' /\ Outcome'
<1>1. AtStep /\ This.op = "manifest" /\ UNCHANGED <<q, stored, disk, outDir, cur, blame>>
  BY DEF ManifestStep, At, This, SameUpload
<1>2. PICK c, a : OnScript(c, a)
  BY <1>1 DEF RunInv, AtStep
<1>3. ~Blocks(This) /\ Gains(This) = Ending
  BY <1>1 DEF Blocks, Gains
<1>4. CASE Outputs = {}
  <2>1. PICK n \in a[pc] : n[1] = "output"
    BY <1>1, <1>2, ThisStep DEF Needs
  <2>2. blame
    BY <1>2, <1>4, <2>1, OnDisk DEF OnScript, Outputs
  <2>. QED BY <1>1, <1>4, <2>2, Broken DEF ManifestStep, FailJob
<1>5. CASE Outputs # {}
  <2>1. PICK n : n \in Outputs
    BY <1>5
  <2>2. pc' = pc + 1 /\ UNCHANGED stage /\ result' = {<<name, disk[name]>> : name \in Outputs}
    BY <1>5 DEF ManifestStep, Advance
  <2>3. \A m \in Gains(This) : Holds(m)'
    <3>1. disk' = disk /\ Outputs \subseteq DOMAIN disk
      BY <1>1 DEF Outputs
    <3>2. /\ result' # {}
          /\ \A r \in result' : r[1] \in DOMAIN disk' /\ r[2] = disk'[r[1]]
      <4>1. <<n, disk[n]>> \in result'
        BY <2>1, <2>2
      <4>2. ASSUME NEW r \in result' PROVE r[1] \in DOMAIN disk' /\ r[2] = disk'[r[1]]
        <5>1. PICK m \in Outputs : r = <<m, disk[m]>>
          BY <2>2, <4>2
        <5>. QED BY <3>1, <5>1
      <4>. QED BY <4>1, <4>2
    <3>3. Holds(Ended)' /\ Holds(Recorded)'
      BY <3>2, FactsAre DEF Holds
    <3>. QED BY <1>3, <3>3 DEF Ending
  <2>4. This.op \notin {"skip", "remove"} /\ DOMAIN disk \subseteq DOMAIN disk'
    BY <1>1
  <2>. QED BY <1>1, <1>2, <1>3, <2>2, <2>3, <2>4, Gaining
<1>. QED BY <1>4, <1>5

LEMMA ListingStepRun ==
  ASSUME RunInv, ListingStep
  PROVE  RunInv' /\ Outcome'
<1>1. AtStep /\ This.op = "listing" /\ UNCHANGED <<q, stored, disk, outDir, cur, result>>
  BY DEF ListingStep, At, This, SameUpload
<1>2. PICK c, a : OnScript(c, a)
  BY <1>1 DEF RunInv, AtStep
<1>3. CASE Advance /\ UNCHANGED blame
  <2>1. ~Blocks(This) /\ Gains(This) = {}
    BY <1>1 DEF Blocks, Gains
  <2>. QED BY <1>1, <1>2, <1>3, <2>1, Gaining DEF Advance
<1>4. ASSUME NEW entries \in Listing, entries \notin Accepted, FailJob,
             blame' = (blame \/ ~WithinLimits(entries))
      PROVE  RunInv' /\ Outcome'
  <2>1. ~WithinLimits(entries)
    BY <1>4, ArchiveAssumption, ListingComplete DEF Accepted
  <2>. QED BY <1>1, <1>4, <2>1, Broken DEF FailJob
<1>. QED BY <1>3, <1>4 DEF ListingStep

(* At the end the facts behind the script say what was recorded.           *)
LEMMA EndOfJobRun ==
  ASSUME RunInv, EndOfJob
  PROVE  RunInv' /\ Outcome'
<1>1. UNCHANGED <<q, stored, disk, outDir, cur, result>> /\ stage = "running" /\ pc > Len(Script)
  BY DEF EndOfJob, SameUpload
<1>2. PICK c, a : OnScript(c, a)
  BY <1>1 DEF RunInv
<1>3. CASE stage' = "done"
  <2>1. pc = Len(Script) + 1
    BY <1>1, <1>2 DEF OnScript
  <2>2. \A n \in End : Holds(n)
    BY <1>2, <2>1 DEF OnScript
  <2>3. ~KnownGap
    BY <2>2 DEF End, Holds
  <2>4. Holds(Ended) /\ (JpegSearch \/ Holds(Recorded))
    BY <2>2, <2>3 DEF End, Ending
  <2>. QED BY <1>1, <1>3, <2>3, <2>4, SameRequest DEF Holds, RunInv, Outcome
<1>4. CASE stage' = "failed" /\ blame' = TRUE
  BY <1>1, <1>4, Broken
<1>. QED BY <1>3, <1>4 DEF EndOfJob

-----------------------------------------------------------------------------
(* The commands of the job                                                 *)

LEMMA SameRun ==
  ASSUME RunInv, Outcome, UNCHANGED <<uploadVars, pc, outDir, cur, result>>, blame => blame'
  PROVE  RunInv' /\ Outcome'
<1>1. UNCHANGED <<q, stage, stored, disk, pc, outDir, cur, result>>
  BY DEF uploadVars
<1>2. ASSUME stage' = "running" PROVE \E c, a : OnScript(c, a)'
  <2>1. PICK c, a : OnScript(c, a)
    BY <1>1, <1>2 DEF RunInv
  <2>2. ASSUME NEW n \in a[pc] PROVE Holds(n)'
    <3>1. Holds(n)
      BY <2>1, <2>2 DEF OnScript
    <3>2. Resolve(n)' = Resolve(n)
      BY <1>1 DEF Resolve
    <3>. QED BY <1>1, <3>1, <3>2 DEF Holds
  <2>3. OnScript(c, a)'
    BY <1>1, <2>1, <2>2, SameRequest DEF OnScript
  <2>. QED BY <2>3
<1>3. RunInv'
  BY <1>2 DEF RunInv
<1>. QED BY <1>1, <1>3, SameRequest DEF Outcome

(* A command that finds what it needs and may write where it does is       *)
(* possible; only one of a known gap, or behind a failing tool, is not.    *)
LEMMA PossibleHere ==
  ASSUME NEW c, NEW a, OnScript(c, a), IsCommand, This.op = "run" => This.must
  PROVE  Possible \/ KnownGap \/ blame
<1> SUFFICES ASSUME ~KnownGap, ~blame PROVE Possible
  OBVIOUS
<1>1. AtStep /\ This.op \in {"run", "probe"}
  BY DEF IsCommand, At, This
<1>2. /\ Needs(This, a[pc]) /\ ~Blocks(This) /\ \A n \in a[pc] : Holds(n)
  BY <1>1, ThisStep DEF OnScript
<1>3. outDir
  BY <1>1, <1>2 DEF Needs, Holds
<1>4. Reads \subseteq DOMAIN disk
  BY <1>1, <1>2, ThisReads
<1>5. \A n \in This.writes : n[1] = "output"
  BY <1>1, <1>2 DEF Needs, Blocks
<1>. QED BY <1>3, <1>4, <1>5 DEF Possible

LEMMA FinishCommandRun ==
  ASSUME RunInv, CallInv, FinishCommand
  PROVE  RunInv' /\ Outcome'
<1>1. /\ AtStep /\ This.op \in {"run", "probe"} /\ IsCommand
      /\ UNCHANGED <<q, stored, outDir, cur, result>> /\ (blame => blame')
      /\ call.stage \in {"ok", "error"}
  BY DEF FinishCommand, IsCommand, At, This, SameUpload
<1>2. PICK c, a : OnScript(c, a)
  BY <1>1 DEF RunInv, AtStep
<1>3. Needs(This, a[pc])
  BY <1>1, <1>2, ThisStep
<1>4. ASSUME call.stage = "ok" PROVE ~Blocks(This) /\ Gains(This) \subseteq This.writes
  <2>1. Possible
    BY <1>1, <1>4 DEF CallInv
  <2>. QED BY <1>1, <2>1 DEF Blocks, Possible, Gains
<1>5. CASE call.stage = "ok" /\ disk' = PutAll(This.writes, pc) /\ Advance
  <2>1. DOMAIN disk \subseteq DOMAIN disk' /\ \A n \in This.writes : Holds(n)'
    BY <1>3, <1>5, Written
  <2>. QED BY <1>1, <1>2, <1>4, <1>5, <2>1, Gaining DEF Advance
<1>6. CASE call.stage = "ok" /\ blame' = TRUE /\ Advance /\ UNCHANGED disk
  <2>1. ASSUME NEW n \in This.writes PROVE Holds(n)'
    <3>1. n[1] # "fact"
      BY <1>3 DEF Needs
    <3>. QED BY <1>6, <3>1, FactsAre DEF Holds
  <2>. QED BY <1>1, <1>2, <1>4, <1>6, <2>1, Gaining DEF Advance
<1>7. CASE call.stage = "error" /\ This.must /\ FailJob /\ UNCHANGED blame
  <2>1. blame \/ ~Possible
    BY <1>7 DEF CallInv
  <2>2. Possible \/ KnownGap \/ blame
    BY <1>1, <1>2, <1>7, PossibleHere
  <2>. QED BY <1>1, <1>7, <2>1, <2>2, Broken DEF FailJob
<1>8. CASE UNCHANGED disk /\ ~This.must /\ Advance
  <2>1. ~Blocks(This) /\ Gains(This) = {}
    BY <1>1, <1>8 DEF Blocks, Gains
  <2>. QED BY <1>1, <1>2, <1>8, <2>1, Gaining DEF Advance
<1>. QED BY <1>5, <1>6, <1>7, <1>8 DEF FinishCommand

LEMMA HostSideRun ==
  ASSUME UploadInv, RunInv, CallInv, Outcome, HostSide
  PROVE  RunInv' /\ Outcome'
<1>1. CASE StartCommand
  BY <1>1, SameRun DEF StartCommand
<1>. QED BY <1>1, StartJobRun, CheckStepRun, FailStepRun, PrepareStepRun, HostStepRun, CopyStepRun,
     RemoveStepRun, UseStepRun, SkipStepRun, RecordStepRun, ManifestStepRun, ListingStepRun,
     EndOfJobRun, FinishCommandRun DEF HostSide

LEMMA ConvNext_Run ==
  ASSUME UploadInv, RunInv, CallInv, Outcome, [ConvNext]_vars
  PROVE  RunInv' /\ Outcome'
<1>1. CASE UploadSide \/ CleanerSide
  <2>1. stage' \in {"refused", "storing", "searching", "queued"}
    BY <1>1 DEF UploadSide, CleanerSide, SearchCutOff, UploadStep, ReceiveForm, RefuseForm, MakeJobDir, StoreFile, SubmitJob,
       RefuseAndRemove
  <2>. QED BY <2>1 DEF RunInv, Outcome
<1>2. CASE HostSide
  BY <1>2, HostSideRun
<1>3. CASE CommandRuns
  BY <1>3, SameRun DEF CommandRuns
<1>4. CASE UNCHANGED vars
  BY <1>4, SameRun DEF vars, runVars
<1>. QED BY <1>1, <1>2, <1>3, <1>4 DEF ConvNext

-----------------------------------------------------------------------------
(* The command of a step, and why it fails                                 *)

LEMMA SameCommand ==
  ASSUME UNCHANGED <<uploadVars, pc, outDir, cur>>
  PROVE  (IsCommand' <=> IsCommand) /\ (Possible' <=> Possible)
<1>1. UNCHANGED <<q, stage, stored, disk, pc, outDir, cur>>
  BY DEF uploadVars
<1>2. Script' = Script
  BY <1>1, SameRequest
<1>3. This' = This
  BY <1>1, <1>2 DEF This
<1>4. Reads' = Reads
  BY <1>1, <1>3 DEF Reads, Resolve
<1>5. IsCommand' <=> IsCommand
  BY <1>1, <1>2 DEF IsCommand, At, AtStep
<1>6. Possible' <=> Possible
  BY <1>1, <1>3, <1>4 DEF Possible
<1>. QED BY <1>5, <1>6

LEMMA StartCommand_Call ==
  ASSUME StartCommand
  PROVE  CallInv'
<1>1. IsCommand'
  BY SameCommand DEF StartCommand
<1>2. CASE \E limit \in {0, DefaultStdout, LargeStdout} : Execute(limit)
  <2>1. call'.stage = "running" /\ call'.child = "running"
    BY <1>2 DEF Execute, NoCall
  <2>. QED BY <1>1, <2>1 DEF CallInv
<1>3. CASE NotStarted /\ blame' = TRUE
  <2>1. call'.stage = "error" /\ call'.child = "failed"
    BY <1>3 DEF NotStarted, NoCall
  <2>. QED BY <1>1, <1>3, <2>1 DEF CallInv
<1>. QED BY <1>2, <1>3 DEF StartCommand, StdoutLimit

LEMMA CommandRuns_Call ==
  ASSUME CallInv, call \in Call, CommandRuns
  PROVE  CallInv'
<1>1. IsCommand' /\ (Possible' <=> Possible)
  BY SameCommand DEF CommandRuns
<1>2. InCall
  BY DEF CommandRuns, CallStep, ToolWrites, ToolExits, ContextDone, KilledProcessDies, SecondKill,
     Return
<1>3. /\ call'.child = "succeeded" => Possible
      /\ call.child \in {"failed", "stuck"} => blame \/ ~Possible
  BY <1>2 DEF CommandRuns, CallInv, InCall
<1>4. /\ blame => blame'
      /\ call'.expired => blame'
      /\ call'.child = "failed" /\ Possible => blame'
      /\ call'.child = "succeeded" /\ call'.stage = "error" => blame'
  BY DEF CommandRuns
<1>5. CASE ToolWrites
  <2>1. call'.child = "running" /\ call'.stage = "running"
    BY <1>5 DEF ToolWrites, Write, InCall, Call
  <2>. QED BY <1>1, <2>1 DEF CallInv
<1>6. CASE ToolExits
  <2>1. call'.child \in {"succeeded", "failed"} /\ call'.stage = "running"
    BY <1>6 DEF ToolExits, InCall, Call
  <2>. QED BY <1>1, <1>3, <1>4, <2>1 DEF CallInv
<1>7. CASE ContextDone
  <2>1. call'.expired /\ call'.stage = "running"
    BY <1>7 DEF ContextDone, InCall, Call
  <2>. QED BY <1>1, <1>3, <1>4, <2>1 DEF CallInv
<1>8. CASE KilledProcessDies
  <2>1. call.child = "stuck" /\ call'.child = "failed" /\ call'.stage = "running"
    BY <1>8 DEF KilledProcessDies, InCall, Call
  <2>. QED BY <1>1, <1>3, <1>4, <2>1 DEF CallInv
<1>9. CASE SecondKill
  <2>1. call'.child = call.child /\ call'.stage = "running"
    BY <1>9 DEF SecondKill, InCall, Call
  <2>. QED BY <1>1, <1>3, <1>4, <2>1 DEF CallInv
<1>10. CASE Return
  <2>1. /\ call'.child = call.child /\ call.child \in {"succeeded", "failed"}
        /\ call'.stage \in {"ok", "error"}
        /\ call'.stage = "ok" => call.child # "failed"
    BY <1>10 DEF Return, Result, InCall, Call
  <2>. QED BY <1>1, <1>3, <1>4, <2>1 DEF CallInv
<1>. QED BY <1>5, <1>6, <1>7, <1>8, <1>9, <1>10 DEF CommandRuns, CallStep

(* While a command runs, nothing else of the request does.                 *)
LEMMA ConvNext_Call ==
  ASSUME CallTraced, CallInv, [ConvNext]_vars
  PROVE  CallInv'
<1>1. CASE StartCommand
  BY <1>1, StartCommand_Call
<1>2. CASE CommandRuns
  BY <1>2, CommandRuns_Call DEF CallTraced, Traced
<1>3. CASE FinishCommand
  BY <1>3 DEF FinishCommand, NoCall, CallInv
<1>4. CASE /\ UploadSide \/ CleanerSide \/ HostSide
           /\ ~StartCommand /\ ~FinishCommand
  <2>1. UNCHANGED call /\ ~IsCommand
    BY <1>4 DEF UploadSide, CleanerSide, SearchCutOff, UploadStep, ReceiveForm, MakeJobDir, StoreFile, SubmitJob, HostSide,
       StartJob, CheckStep, FailStep, PanicStep, PrepareStep, HostStep, CopyStep, RemoveStep,
       UseStep, SkipStep, RecordStep, ManifestStep, ListingStep, EndOfJob, IsCommand, At, AtStep
  <2>. QED BY <2>1 DEF CallInv
<1>5. CASE UNCHANGED vars
  <2>1. (IsCommand' <=> IsCommand) /\ (Possible' <=> Possible)
    BY <1>5, SameCommand DEF vars, runVars
  <2>. QED BY <1>5, <2>1 DEF CallInv, vars, runVars
<1>. QED BY <1>1, <1>2, <1>3, <1>4, <1>5 DEF ConvNext, HostSide

-----------------------------------------------------------------------------
(* Values                                                                  *)

Scalars ==
  /\ stage \in Stage /\ jobDir \in BOOLEAN /\ osFailed \in BOOLEAN
  /\ pc \in Nat /\ outDir \in BOOLEAN /\ blame \in BOOLEAN /\ listed = TRUE

(* Contents are numbers of steps, on disk and in what is recorded.         *)
Recordings ==
  /\ \A name \in DOMAIN disk : disk[name] \in Nat
  /\ \A r \in result : r[2] \in Nat

(* A refusal leaves some of the files as they are.                         *)
LEMMA RefuseAndRemove_Values ==
  ASSUME NEW files, \A name \in DOMAIN files : files[name] \in Nat, RefuseAndRemove(files)
  PROVE  \A name \in DOMAIN disk' : disk'[name] \in Nat
BY DEF RefuseAndRemove

LEMMA UploadStep_Values ==
  ASSUME Scalars, Recordings, UploadSide \/ CleanerSide
  PROVE  Scalars' /\ Recordings'
<1>1. UNCHANGED runVars /\ (UploadStep \/ SearchCutOff)
  BY DEF UploadSide, CleanerSide
<1>2. Scalars'
  BY <1>1 DEF UploadStep, ReceiveForm, RefuseForm, MakeJobDir, StoreFile, SubmitJob, SearchCutOff,
     RefuseAndRemove, Scalars, runVars, Stage
<1>3. \A name \in DOMAIN disk : disk[name] \in Nat
  BY DEF Recordings
<1>4. ASSUME NEW other PROVE \A name \in DOMAIN Put(disk, other, 0) : Put(disk, other, 0)[name] \in Nat
  BY <1>3 DEF Put
<1>5. \A name \in DOMAIN disk' : disk'[name] \in Nat
  <2>1. CASE ReceiveForm \/ MakeJobDir
    BY <1>3, <2>1 DEF ReceiveForm, RefuseForm, MakeJobDir
  <2>2. CASE StoreFile
    <3>1. PICK name : \/ UNCHANGED disk \/ disk' = Put(disk, name, 0)
                      \/ RefuseAndRemove(disk) \/ RefuseAndRemove(Put(disk, name, 0))
      BY <2>2 DEF StoreFile
    <3>. QED BY <1>3, <1>4, <3>1, RefuseAndRemove_Values
  <2>3. CASE SubmitJob
    BY <1>3, <2>3, RefuseAndRemove_Values DEF SubmitJob
  <2>4. CASE SearchCutOff
    BY <2>4, RefuseAndRemove_Values DEF SearchCutOff
  <2>. QED BY <1>1, <2>1, <2>2, <2>3, <2>4 DEF UploadStep
<1>. QED BY <1>1, <1>2, <1>5 DEF Recordings, runVars

LEMMA SkipStep_Scalars ==
  ASSUME Scalars, RunInv, SkipStep
  PROVE  Scalars'
<1>1. /\ AtStep /\ This.op = "skip" /\ pc' \in {pc + 1, pc + 1 + This.skip}
      /\ UNCHANGED <<stage, jobDir, osFailed, outDir, blame, listed>>
  BY DEF SkipStep, At, This, SameUpload
<1>2. PICK c, a : OnScript(c, a)
  BY <1>1 DEF RunInv, AtStep
<1>3. PICK k \in Nat : k = This.skip
  BY <1>1, <1>2, ThisStep
<1>4. pc' \in Nat
  BY <1>1, <1>3 DEF Scalars
<1>. QED BY <1>1, <1>4 DEF Scalars

(* An archive that is extracted keeps to the limits, unless their sum does *)
(* not fit.                                                                *)
LEMMA ListingStep_Scalars ==
  ASSUME Scalars, ListingStep
  PROVE  Scalars'
<1>1. UNCHANGED <<jobDir, osFailed, outDir>>
  BY DEF ListingStep, SameUpload
<1>2. ASSUME NEW entries \in Listing, entries \in Accepted, Advance, UNCHANGED blame,
             listed' = (WithinLimits(entries) \/ TotalSize(entries) > MaxInt64)
      PROVE  Scalars'
  <2>1. WithinLimits(entries) \/ TotalSize(entries) > MaxInt64
    BY <1>2, ArchiveAssumption, ListingSound DEF Accepted
  <2>2. listed' = TRUE
    BY <1>2, <2>1
  <2>. QED BY <1>1, <1>2, <2>2 DEF Scalars, Advance
<1>3. ASSUME NEW entries \in Listing, FailJob, blame' = (blame \/ ~WithinLimits(entries)),
             UNCHANGED listed
      PROVE  Scalars'
  BY <1>1, <1>3 DEF Scalars, FailJob, Stage
<1>. QED BY <1>2, <1>3 DEF ListingStep

LEMMA HostSide_Scalars ==
  ASSUME Scalars, RunInv, HostSide
  PROVE  Scalars'
<1>1. UNCHANGED <<jobDir, osFailed>>
  BY HostSide_Queued
<1>2. CASE SkipStep
  BY <1>2, SkipStep_Scalars
<1>3. CASE ListingStep
  BY <1>3, ListingStep_Scalars
<1>4. ASSUME /\ stage' \in {stage, "running", "done", "failed", "crashed"}
             /\ pc' \in {pc, pc + 1, 1}
             /\ outDir' \in {outDir, TRUE} /\ blame' \in {blame, TRUE} /\ UNCHANGED listed
      PROVE  Scalars'
  <2>1. pc' \in Nat
    BY <1>4 DEF Scalars
  <2>2. stage' \in Stage
    BY <1>4 DEF Scalars, Stage
  <2>3. outDir' \in BOOLEAN /\ blame' \in BOOLEAN
    BY <1>4 DEF Scalars
  <2>. QED BY <1>1, <1>4, <2>1, <2>2, <2>3 DEF Scalars
<1>5. CASE StartJob \/ CheckStep \/ FailStep \/ PanicStep \/ PrepareStep
  BY <1>4, <1>5 DEF StartJob, CheckStep, FailStep, PanicStep, PrepareStep, Advance, FailJob, runVars
<1>6. CASE HostStep \/ CopyStep \/ RemoveStep \/ UseStep
  BY <1>4, <1>6 DEF HostStep, CopyStep, RemoveStep, UseStep, Advance, FailJob
<1>7. CASE RecordStep \/ ManifestStep \/ EndOfJob
  BY <1>4, <1>7 DEF RecordStep, ManifestStep, EndOfJob, Advance, FailJob
<1>8. CASE StartCommand \/ FinishCommand
  BY <1>4, <1>8 DEF StartCommand, FinishCommand, Advance, FailJob, uploadVars
<1>. QED BY <1>2, <1>3, <1>5, <1>6, <1>7, <1>8 DEF HostSide

(* What a file gets as its content, or a result as its size, is a number.  *)
LEMMA PutAllValues ==
  ASSUME Recordings, NEW names, NEW content \in Nat, disk' = PutAll(names, content),
         UNCHANGED result
  PROVE  Recordings'
BY DEF PutAll, Recordings

LEMMA CopyStep_Recordings ==
  ASSUME Recordings, CopyStep
  PROVE  Recordings'
<1>1. UNCHANGED result
  BY DEF CopyStep
<1>2. TheFile \in DOMAIN disk => disk[TheFile] \in Nat
  BY DEF Recordings
<1>. QED BY <1>1, <1>2, PutAllValues DEF CopyStep, Recordings

LEMMA RecordStep_Recordings ==
  ASSUME Recordings, RecordStep
  PROVE  Recordings'
<1>1. PICK name : \/ UNCHANGED <<disk, result>>
                  \/ /\ name \in DOMAIN disk
                     /\ \/ result' = {<<name, disk[name]>>} /\ UNCHANGED disk
                        \/ RecordSmaller(name)
                        \/ UNCHANGED disk /\ \E i \in 1..(pc - 1) : result' = {<<name, i>>}
  BY DEF RecordStep
<1>2. \A i \in 1..(pc - 1) : i \in Nat
  OBVIOUS
<1>. QED BY <1>1, <1>2 DEF RecordSmaller, Put, Recordings

LEMMA HostSide_Recordings ==
  ASSUME Scalars, Recordings, RunInv, HostSide
  PROVE  Recordings'
<1>1. CASE CopyStep
  BY <1>1, CopyStep_Recordings
<1>2. CASE RecordStep
  BY <1>2, RecordStep_Recordings
<1>3. CASE HostStep \/ FinishCommand
  <2>1. UNCHANGED disk \/ disk' = PutAll(This.writes, pc)
    BY <1>3 DEF HostStep, FinishCommand
  <2>2. UNCHANGED result
    BY <1>3 DEF HostStep, FinishCommand
  <2>. QED BY <2>1, <2>2, PutAllValues DEF Scalars, Recordings
<1>4. CASE RemoveStep
  BY <1>4 DEF RemoveStep, Drop, Recordings
<1>5. CASE ManifestStep
  <2>1. UNCHANGED disk /\ (UNCHANGED result \/ result' = {<<name, disk[name]>> : name \in Outputs})
    BY <1>5 DEF ManifestStep
  <2>2. Outputs \subseteq DOMAIN disk
    BY DEF Outputs
  <2>. QED BY <2>1, <2>2 DEF Recordings
<1>6. CASE \/ StartJob \/ CheckStep \/ FailStep \/ PanicStep \/ PrepareStep \/ UseStep \/ SkipStep
           \/ ListingStep \/ EndOfJob \/ StartCommand
  <2>1. UNCHANGED <<disk, result>>
    BY <1>6 DEF StartJob, CheckStep, FailStep, PanicStep, PrepareStep, UseStep, SkipStep,
       ListingStep, EndOfJob, StartCommand, runVars, uploadVars
  <2>. QED BY <2>1 DEF Recordings
<1>. QED BY <1>1, <1>2, <1>3, <1>4, <1>5, <1>6 DEF HostSide

LEMMA ConvNext_Values ==
  ASSUME Scalars, Recordings, RunInv, [ConvNext]_vars
  PROVE  Scalars' /\ Recordings'
<1>1. CASE UploadSide \/ CleanerSide
  BY <1>1, UploadStep_Values
<1>2. CASE HostSide
  BY <1>2, HostSide_Scalars, HostSide_Recordings
<1>3. CASE CommandRuns \/ UNCHANGED vars
  BY <1>3 DEF CommandRuns, vars, runVars, uploadVars, Scalars, Recordings
<1>. QED BY <1>1, <1>2, <1>3 DEF ConvNext

-----------------------------------------------------------------------------
(* The whole                                                               *)

ConvInv == UploadInv /\ CallTraced /\ RunInv /\ CallInv /\ Outcome /\ Scalars /\ Recordings

LEMMA ConvInit_Inv == ConvInit => ConvInv
<1> SUFFICES ASSUME ConvInit PROVE ConvInv
  OBVIOUS
<1>1. UploadInv /\ CallTraced
  BY ConvInit_Upload, ConvInit_Traced
<1>2. RunInv /\ Outcome
  BY DEF ConvInit, UploadInit, RunInv, Outcome
<1>3. CallInv
  BY DEF ConvInit, NoCall, CallInv
<1>4. Scalars /\ Recordings
  BY DEF ConvInit, UploadInit, Scalars, Stage, Recordings
<1>. QED BY <1>1, <1>2, <1>3, <1>4 DEF ConvInv

LEMMA ConvNext_Inv == ConvInv /\ [ConvNext]_vars => ConvInv'
BY ConvNext_Upload, ConvNext_Traced, ConvNext_Run, ConvNext_Call, ConvNext_Values DEF ConvInv

LEMMA ConvInvariant == ConvSpec => []ConvInv
BY ConvInit_Inv, ConvNext_Inv, PTL DEF ConvSpec

(* Every variable has its type, and every command of every converter names *)
(* a sandbox profile that was there when the server started.               *)
THEOREM ConvTypeCorrect == ConvSpec => []ConvTypeOK
<1>1. ConvInv => ConvTypeOK
  <2> SUFFICES ASSUME ConvInv PROVE ConvTypeOK
    OBVIOUS
  <2>1. q \in Request /\ Len(stored) <= Len(q.files)
    BY DEF ConvInv, UploadInv
  <2>2. call \in Call
    BY DEF ConvInv, CallTraced, Traced
  <2>3. ASSUME IsCommand PROVE This.cfg \in RequiredConfigs
    <3>1. AtStep /\ This.op \in {"run", "probe"}
      BY <2>3 DEF IsCommand, At, This
    <3>2. PICK c, a : OnScript(c, a)
      BY <3>1 DEF ConvInv, RunInv, AtStep
    <3>. QED BY <3>1, <3>2, ThisStep DEF Needs
  <2>4. listed \in BOOLEAN
    BY DEF ConvInv, Scalars
  <2>. QED BY <2>1, <2>2, <2>3, <2>4 DEF ConvInv, Scalars, Recordings, ConvTypeOK, Contents
<1>. QED BY <1>1, ConvInvariant, PTL

(* A finished job names files that exist and have the size it says, but    *)
(* for the size after the JPEG search.                                     *)
THEOREM OutputCorrect == ConvSpec => []OutputTrue
<1>1. ConvInv => OutputTrue
  BY DEF ConvInv, Outcome, OutputTrue
<1>. QED BY <1>1, ConvInvariant, PTL

(* Of the accepted jobs whose tools, disk and checks do their part, just   *)
(* those outside the known gaps are converted, for whichever suffixes vips *)
(* can write.                                                              *)
THEOREM SucceedsCorrect == ConvSpec => []SucceedsExactlyOutsideGaps
<1>1. ConvInv => SucceedsExactlyOutsideGaps
  BY DEF ConvInv, Outcome, SucceedsExactlyOutsideGaps
<1>. QED BY <1>1, ConvInvariant, PTL

(* Whatever an archive lists, it is extracted only if its entries with a   *)
(* name are within the limits, or when their sizes add up to more than an  *)
(* int64.                                                                  *)
THEOREM ListingCorrect == ConvSpec => []OnlyListedWithinLimits
<1>1. ConvInv => OnlyListedWithinLimits
  BY DEF ConvInv, Scalars, OnlyListedWithinLimits
<1>. QED BY <1>1, ConvInvariant, PTL

=============================================================================
