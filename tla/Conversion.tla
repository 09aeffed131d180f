----------------------------- MODULE Conversion -----------------------------
(***************************************************************************)
(* One request from its upload to the result: an upload handler (Uploads)  *)
(* stores the files and submits, the worker runs the steps of the          *)
(* converter (Converters), and each command of a step runs in the sandbox  *)
(* (NsjailRunner), where the job directory is read-only but for output/.   *)
(*                                                                         *)
(* A file's content is the number of the step that wrote it, 0 as it was   *)
(* uploaded; a copy has the content of its original.  Sizes are told apart *)
(* the same way: a size recorded at one step is the size of that content.  *)
(***************************************************************************)
EXTENDS Uploads, Converters, NsjailRunner, ArchiveListing

CONSTANT Listing   \* the archives that may be sent: sequences of entries

ASSUME ArchiveAssumption == Listing \subseteq Seq(Entry)

VARIABLES
  pc,         \* the step the converter is at
  outDir,     \* output/ exists
  cur,        \* job.InputPath, or the file that has taken its place
  result,     \* what was recorded: a set of <<name, content>>
  blame,      \* history: a tool, the disk or a check of options or content failed
  listed      \* history: the archive about to be extracted keeps to the limits,
              \* or its sizes add up to more than an int64 can hold

runVars == <<pc, outDir, cur, result, blame, listed>>
vars == <<uploadVars, call, runVars>>

Contents == Nat

ConvInit ==
  /\ UploadInit
  /\ call = NoCall
  /\ pc = 0
  /\ outDir = FALSE
  /\ cur = Cur
  /\ result = {}
  /\ blame = FALSE
  /\ listed = TRUE

-----------------------------------------------------------------------------
(* The converters of the registry.                                         *)
Script ==
  CASE q.type = "image_format" -> ImageConvert(q.opt)
    [] q.type = "image_compress" -> ImageCompress(q.opt, q.files[1].ext)
    [] q.type = "pdf_compress" -> PDFCompress(q.opt)
    [] q.type = "ocr" -> OCR(q.files[1].magic)
    [] q.type = "metadata_remove" -> MetadataRemove
    [] q.type = "metadata_inspect" -> MetadataInspect
    [] q.type = "pdf_merge" -> PDFMerge(q.files)
    [] q.type = "image_to_pdf" -> ImageToPDF(q.files)
    [] q.type = "qr_code" -> QRCode
    [] q.type = "cert_convert" -> CertConvert(DetectCertFileType(q.files[1].ext), q.target)
    [] q.type = "archive" -> Archive(q.files)
    [] q.type = "markdown_pdf" -> MarkdownPDF
    [] q.type = "audio_extract" -> AudioExtract
    [] q.type = "audio_convert" -> AudioConvert
    [] q.type = "video_compress" -> VideoCompress(q.opt)
    [] q.type = "mov_to_mp4" -> MovToMp4
    [] q.type = "video_to_gif" -> VideoToGif
    [] q.type = "decompress" -> Decompress
    [] q.type = "pdf_password" -> PDFPassword(q.opt)
    [] q.type = "svg_to_png" -> SvgToPng
    [] q.type = "pdf_extract_images" -> PDFExtractImages
    [] q.type = "pdf_edit" -> PDFEdit
    [] q.type = "favicon" -> Favicon
    [] q.type = "pdf_repair" -> PDFRepair
    [] q.type = "ebook_convert" -> EbookConvert
    [] q.type = "font_convert" -> FontConvert

AtStep == stage = "running" /\ pc \in 1..Len(Script)
At(op) == AtStep /\ Script[pc].op = op
This == Script[pc]

Resolve(name) ==
  CASE name = Cur -> cur
    [] name # Cur /\ name[1] = "upload" -> stored[name[3][1]]
    [] OTHER -> name

Reads == {Resolve(name) : name \in This.reads}
TheFile == CHOOSE name \in Reads : TRUE
Target == CHOOSE name \in This.writes : TRUE

PutAll(names, content) ==
  [n \in DOMAIN disk \cup names |-> IF n \in names THEN content ELSE disk[n]]

Advance == pc' = pc + 1 /\ UNCHANGED stage
FailJob == stage' = "failed" /\ UNCHANGED pc

SameUpload == UNCHANGED <<q, stored, jobDir, osFailed>>

-----------------------------------------------------------------------------
(* The worker takes the job from the queue.                                *)
StartJob ==
  /\ stage = "queued"
  /\ stage' = "running" /\ pc' = 1
  /\ cur' = IF stored = <<>> THEN Cur ELSE stored[1]
  /\ SameUpload /\ UNCHANGED <<disk, call, outDir, result, blame, listed>>

(* A check passes, or it refuses the options or the content.               *)
CheckStep ==
  /\ At("check")
  /\ \/ Advance /\ UNCHANGED blame
     \/ FailJob /\ blame' = TRUE
  /\ SameUpload /\ UNCHANGED <<disk, call, outDir, cur, result, listed>>

FailStep ==
  /\ At("fail")
  /\ FailJob
  /\ SameUpload /\ UNCHANGED <<disk, call, outDir, cur, result, blame, listed>>

(* A runtime panic in the worker, which nothing recovers: the process ends.*)
PanicStep ==
  /\ At("panic")
  /\ stage' = "crashed"
  /\ SameUpload /\ UNCHANGED <<disk, call, runVars>>

PrepareStep ==
  /\ At("prepare")
  /\ \/ Advance /\ outDir' = TRUE /\ UNCHANGED blame
     \/ FailJob /\ blame' = TRUE /\ UNCHANGED outDir
  /\ SameUpload /\ UNCHANGED <<disk, call, cur, result, listed>>

(* A file the server writes itself; a pass file may be missing.            *)
HostStep ==
  /\ At("host")
  /\ \/ Advance /\ disk' = PutAll(This.writes, pc) /\ UNCHANGED blame
     \/ (IF This.must THEN FailJob ELSE Advance) /\ blame' = TRUE /\ UNCHANGED disk
  /\ SameUpload /\ UNCHANGED <<call, outDir, cur, result, listed>>

CopyStep ==
  /\ At("copy")
  /\ \/ TheFile \in DOMAIN disk
        /\ Advance /\ disk' = PutAll(This.writes, disk[TheFile]) /\ UNCHANGED blame
     \/ FailJob /\ blame' = TRUE /\ UNCHANGED disk
  /\ SameUpload /\ UNCHANGED <<call, outDir, cur, result, listed>>

RemoveStep ==
  /\ At("remove")
  /\ disk' = Drop(disk, Target)
  /\ Advance
  /\ SameUpload /\ UNCHANGED <<call, outDir, cur, result, blame, listed>>

(* The path the next command reads.  If the step before has not written it,*)
(* the conversion fails, here or at the command that reads it; after a     *)
(* tolerated command it goes on with the old one.                          *)
UseStep ==
  /\ At("use")
  /\ IF TheFile \in DOMAIN disk THEN Advance /\ cur' = TheFile
     ELSE (IF This.must THEN FailJob ELSE Advance) /\ UNCHANGED cur
  /\ SameUpload /\ UNCHANGED <<disk, call, outDir, result, blame, listed>>

SkipStep ==
  /\ At("skip")
  /\ pc' \in {pc + 1, pc + 1 + This.skip}
  /\ SameUpload /\ UNCHANGED <<stage, disk, call, outDir, cur, result, blame, listed>>

-----------------------------------------------------------------------------
MutantKeepSmaller(name) ==
  \/ result' = {<<name, disk[name]>>} /\ UNCHANGED disk
  \/ result' = {<<name, disk[cur]>>} /\ UNCHANGED disk

(* The smaller of the two: the original is copied over the output, and its *)
(* size recorded.                                                          *)
RecordSmaller(name) ==
  \/ result' = {<<name, disk[name]>>} /\ UNCHANGED disk
  \/ /\ cur \in DOMAIN disk
     /\ result' = {<<name, disk[cur]>>} /\ disk' = Put(disk, name, disk[cur])

Outputs == {name \in DOMAIN disk : name[1] = "output"}

(* os.Stat of the output, then OutputPath and OutputSize; the copy of the  *)
(* smaller one may fail.                                                   *)
RecordStep ==
  /\ At("keep") \/ At("smaller") \/ At("earlier")
  /\ LET name == IF At("smaller") THEN Target ELSE TheFile IN
       \/ name \notin DOMAIN disk /\ FailJob /\ UNCHANGED <<disk, result, blame>>
       \/ At("smaller") /\ FailJob /\ blame' = TRUE /\ UNCHANGED <<disk, result>>
       \/ /\ name \in DOMAIN disk
          /\ Advance /\ UNCHANGED blame
          /\ \/ At("keep") /\ result' = {<<name, disk[name]>>} /\ UNCHANGED disk
             \/ At("smaller") /\ RecordSmaller(name)
             \/ At("earlier") /\ UNCHANGED disk
                /\ \E i \in 1..(pc - 1) : name \in Script[i].writes /\ result' = {<<name, i>>}
  /\ SameUpload /\ UNCHANGED <<call, outDir, cur, listed>>

(* The manifest of a directory: the files that are there now.              *)
ManifestStep ==
  /\ At("manifest")
  /\ IF Outputs = {} THEN FailJob /\ UNCHANGED result
     ELSE Advance /\ result' = {<<name, disk[name]>> : name \in Outputs}
  /\ SameUpload /\ UNCHANGED <<disk, call, outDir, cur, blame, listed>>

Accepted == {entries \in Listing : Validate7zListing(Print7z(entries))}

(* The archive is whatever was sent: it is refused or it is extracted.     *)
ListingStep ==
  /\ At("listing")
  /\ \E entries \in Listing :
       IF entries \in Accepted
       THEN /\ Advance /\ UNCHANGED blame
            /\ listed' = (WithinLimits(entries) \/ TotalSize(entries) > MaxInt64)
       ELSE FailJob /\ blame' = (blame \/ ~WithinLimits(entries)) /\ UNCHANGED listed
  /\ SameUpload /\ UNCHANGED <<disk, call, outDir, cur, result>>

(* The converter has returned; the worker refuses an output over its limit.*)
EndOfJob ==
  /\ stage = "running" /\ pc > Len(Script)
  /\ \/ stage' = "done" /\ UNCHANGED blame
     \/ stage' = "failed" /\ blame' = TRUE
  /\ SameUpload /\ UNCHANGED <<disk, call, pc, outDir, cur, result, listed>>

-----------------------------------------------------------------------------
IsCommand == At("run") \/ At("probe")

Possible ==
  /\ outDir
  /\ Reads \subseteq DOMAIN disk
  /\ \A name \in This.writes : name[1] = "output"

StartCommand ==
  /\ IsCommand /\ call.stage = "idle"
  /\ \/ Execute(IF At("probe") THEN StdoutLimit(This.cfg) ELSE 0) /\ UNCHANGED blame
     \/ NotStarted /\ blame' = TRUE
  /\ UNCHANGED <<uploadVars, pc, outDir, cur, result, listed>>

(* A command fails if it cannot read its input or not write its output;    *)
(* any other failure is somebody's fault.                                  *)
CommandRuns ==
  /\ IsCommand
  /\ CallStep
  /\ call'.child = "succeeded" => Possible
  /\ blame' = \/ blame
              \/ call'.expired
              \/ call'.child = "failed" /\ Possible
              \/ call'.child = "succeeded" /\ call'.stage = "error"
  /\ UNCHANGED <<uploadVars, pc, outDir, cur, result, listed>>

(* A command that exits with 0 has written its files, or none: the code    *)
(* finds that out where it stats or reads them.  (A tolerated one is taken *)
(* to have written them.)                                                  *)
FinishCommand ==
  /\ IsCommand /\ call.stage \in {"ok", "error"}
  /\ call' = NoCall
  /\ \/ call.stage = "ok" /\ disk' = PutAll(This.writes, pc) /\ Advance /\ UNCHANGED blame
     \/ call.stage = "ok" /\ This.must /\ This.writes # {}
        /\ blame' = TRUE /\ Advance /\ UNCHANGED disk
     \/ call.stage = "error" /\ UNCHANGED <<disk, blame>>
        /\ IF This.must THEN FailJob ELSE Advance
  /\ SameUpload /\ UNCHANGED <<outDir, cur, result, listed>>

-----------------------------------------------------------------------------
HostSide ==
  \/ StartJob \/ CheckStep \/ FailStep \/ PanicStep \/ PrepareStep \/ HostStep \/ CopyStep
  \/ RemoveStep \/ UseStep \/ SkipStep \/ RecordStep \/ ManifestStep \/ ListingStep \/ EndOfJob
  \/ StartCommand \/ FinishCommand

UploadSide == UploadStep /\ UNCHANGED <<call, runVars>>

CleanerSide == SearchCutOff /\ UNCHANGED <<call, runVars>>

ConvNext == UploadSide \/ CleanerSide \/ HostSide \/ CommandRuns

(* The handler and the worker go on.  Of a command nothing is assumed but  *)
(* that time passes, that a process which was killed twice dies, and that  *)
(* Wait then returns.                                                      *)
ConvFairness ==
  /\ WF_vars(UploadSide)
  /\ WF_vars(HostSide)
  /\ WF_vars(CommandRuns /\ ContextDone)
  /\ WF_vars(CommandRuns /\ SecondKill)
  /\ WF_vars(CommandRuns /\ call.forced /\ KilledProcessDies)
  /\ WF_vars(CommandRuns /\ Return)

ConvSpec == ConvInit /\ [][ConvNext]_vars /\ ConvFairness

-----------------------------------------------------------------------------
(* Types; and a command names one of the sandbox profiles whose presence   *)
(* was checked when the server started.                                    *)
ConvTypeOK ==
  /\ q \in Request /\ stage \in Stage /\ jobDir \in BOOLEAN /\ osFailed \in BOOLEAN
  /\ Len(stored) <= Len(q.files)
  /\ \A name \in DOMAIN disk : disk[name] \in Contents
  /\ call \in Call
  /\ pc \in Contents /\ {outDir, blame, listed} \subseteq BOOLEAN
  /\ \A r \in result : r[2] \in Contents
  /\ IsCommand => This.cfg \in RequiredConfigs

(* What an accepted upload can never become, although nothing fails: its   *)
(* validator lets through what its converter does not convert.             *)
KnownGap ==
  \/ q.type = "ocr" /\ q.files[1].magic = "tiff"
  \/ q.type = "pdf_merge" /\ (Len(q.files) = 1 \/ \E i \in DOMAIN q.files : IsImage(q.files[i]))
  \/ /\ q.type = "image_compress" /\ "crop" \in q.opt
     /\ OutputExt(q.files[1].ext) \notin VipsSaves
  \/ /\ q.type = "image_compress" /\ ~IsJpeg(q.files[1].ext)
     /\ q.files[1].ext \notin VipsCompresses
     /\ \/ "target" \in q.opt /\ "already" \notin q.opt
        \/ "resize" \in q.opt /\ "target" \notin q.opt
  \/ q.type = "cert_convert" /\ DetectCertFileType(q.files[1].ext) = q.target
  \/ q.type = "video_compress" /\ {"target", "subsecond"} \subseteq q.opt

(* An accepted job whose tools, disk and checks all do their part is       *)
(* converted, except for the gaps above: then it never is.                 *)
SucceedsExactlyOutsideGaps ==
  stage \in {"done", "failed", "crashed"} /\ ~blame => (stage = "done" <=> ~KnownGap)

JpegSearch ==
  q.type = "image_compress" /\ "target" \in q.opt /\ "already" \notin q.opt
  /\ IsJpeg(q.files[1].ext)

(* What is recorded is there: a finished job names files that exist and    *)
(* have the size it says.  (Not so for the JPEG size search: TargetSize.)  *)
OutputTrue ==
  stage = "done" =>
    /\ result # {}
    /\ \A r \in result : r[1] \in DOMAIN disk /\ (r[2] = disk[r[1]] \/ JpegSearch)

(* An archive is extracted only if its entries with a name keep to every   *)
(* limit, in whichever way the listing says what is a directory; unless the*)
(* sizes it declares add up to more than an int64, when their sum is not   *)
(* what it is held to be.  Files whose name is blank are not counted before*)
(* they are extracted (decompress.go:151): only the walk over the output   *)
(* counts them, the check after the extraction.                            *)
OnlyListedWithinLimits == listed

(* A request is answered, and a queued job ends, whatever its tools do:    *)
(* hang, ignore the first kill, or write without end.  The exception is an *)
(* archive upload whose search for a name never ends (OnlyLongNamesSearch).*)
ConversionReturns ==
  stage = "form" ~> stage \in {"refused", "done", "failed", "crashed", "searching"}
=============================================================================
