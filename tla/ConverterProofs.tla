--------------------------- MODULE ConverterProofs ---------------------------
(***************************************************************************)
(* What the scripts of Converters can rely on, for any request.  A script  *)
(* is followed from a set of facts that hold before it to a set of facts   *)
(* that hold behind it.  A fact is the name of a file, which is then on    *)
(* disk, or one of four others about the job.                              *)
(***************************************************************************)
EXTENDS Converters, NsjailRunner, SequenceTheorems, TLAPS

Prepared == <<"fact", "prepared", <<>>>>   \* output/ exists
Ended == <<"fact", "ended", <<>>>>         \* a result is recorded, of files that exist
Recorded == <<"fact", "recorded", <<>>>>   \* and their sizes are those recorded
Never == <<"fact", "never", <<>>>>         \* this is not reached

Ending == {Ended, Recorded}

(* A step that always ends the job: a command can only write to output/.   *)
Blocks(t) ==
  \/ t.op \in {"fail", "panic"}
  \/ t.op = "run" /\ t.must /\ \E n \in t.writes : n[1] # "output"

Names(set) == \A n \in set : n[1] # "fact"

(* What a step needs so that only a tool, the disk or a check can fail it. *)
Needs(t, x) ==
  /\ t.op \in {"run", "probe"} => Prepared \in x /\ t.cfg \in RequiredConfigs
  /\ t.op # "use" \/ t.must => t.reads \subseteq x /\ Names(t.reads)
  /\ t.op = "probe" => t.writes = {}
  /\ t.op \in {"use", "copy", "keep", "earlier"} => t.reads # {}
  /\ t.op \in {"smaller", "remove"} => t.writes # {}
  /\ t.op = "smaller" => t.writes \subseteq x /\ Cur \in x
  /\ t.op = "manifest" => \E n \in x : n[1] = "output"
  /\ \A n \in t.writes : n[1] \in {"input", "job", "output"}

Gains(t) ==
  CASE t.op = "prepare" -> {Prepared}
    [] t.op \in {"host", "run", "copy"} -> IF t.must THEN t.writes ELSE {}
    [] t.op \in {"keep", "smaller", "manifest"} -> Ending
    [] t.op = "earlier" -> {Ended}
    [] OTHER -> {}

(* What still holds after a step, for whatever step records the result.    *)
Rests(t, x) ==
  CASE t.op = "skip" -> x
    [] t.op = "remove" -> {n \in x \ (t.writes \cup Ending) : n[1] # "upload"}
    [] OTHER -> x \ Ending

(* The facts a[i] hold at step i, whichever way step i was reached; where  *)
(* clear, no step blocks.                                                  *)
Follows(clear, s, a) ==
  \A i \in 1..Len(s) :
    /\ Needs(s[i], a[i])
    /\ clear => ~Blocks(s[i])
    /\ Blocks(s[i]) \/ a[i + 1] \subseteq Rests(s[i], a[i]) \cup Gains(s[i])
    /\ s[i].op = "skip" =>
         /\ s[i].skip \in Nat /\ i + s[i].skip <= Len(s)
         /\ a[i + 1 + s[i].skip] \subseteq a[i]

Flow(clear, s, A, B) ==
  /\ \E S : s \in Seq(S)
  /\ \E a : Follows(clear, s, a) /\ a[1] \subseteq A /\ B \subseteq a[Len(s) + 1]

-----------------------------------------------------------------------------
(* Sequences of steps                                                      *)

LEMMA FlowNothing ==
  ASSUME NEW c, NEW A
  PROVE  Flow(c, <<>>, A, A)
<1> DEFINE a == [i \in 1..1 |-> A]
<1>1. <<>> \in Seq(A) /\ Len(<<>>) = 0
  BY EmptySeq
<1>2. Follows(c, <<>>, a)
  BY <1>1 DEF Follows
<1>. QED BY <1>1, <1>2 DEF Flow

LEMMA FlowStep ==
  ASSUME NEW c, NEW t, NEW A, NEW B,
         Needs(t, A), c => ~Blocks(t), t.op # "skip",
         Blocks(t) \/ B \subseteq Rests(t, A) \cup Gains(t)
  PROVE  Flow(c, <<t>>, A, B)
<1> DEFINE a == [i \in 1..2 |-> IF i = 1 THEN A ELSE B]
           s == <<t>>
<1>1. s \in Seq({t}) /\ Len(s) = 1 /\ s[1] = t
  OBVIOUS
<1>2. a[1] = A /\ a[2] = B
  OBVIOUS
<1> HIDE DEF s, a
<1>3. Follows(c, s, a)
  BY <1>1, <1>2 DEF Follows
<1>4. a[1] \subseteq A /\ B \subseteq a[Len(s) + 1]
  BY <1>1, <1>2
<1>5. Flow(c, s, A, B)
  BY <1>1, <1>3, <1>4 DEF Flow
<1>. QED BY <1>5 DEF s

(* Fewer facts behind, more facts before.                                  *)
LEMMA FlowWeaken ==
  ASSUME NEW c, NEW s, NEW A, NEW B, NEW C, NEW D,
         Flow(c, s, A, B), A \subseteq C, D \subseteq B
  PROVE  Flow(c, s, C, D)
BY DEF Flow

LEMMA FlowThen ==
  ASSUME NEW c, NEW s, NEW t, NEW A, NEW B, NEW C,
         Flow(c, s, A, B), Flow(c, t, B, C)
  PROVE  Flow(c, s \o t, A, C)
<1>1. PICK S : s \in Seq(S)
  BY DEF Flow
<1>2. PICK T : t \in Seq(T)
  BY DEF Flow
<1>3. PICK a : Follows(c, s, a) /\ a[1] \subseteq A /\ B \subseteq a[Len(s) + 1]
  BY DEF Flow
<1>4. PICK b : Follows(c, t, b) /\ b[1] \subseteq B /\ C \subseteq b[Len(t) + 1]
  BY DEF Flow
<1> DEFINE u == s \o t
           d == [i \in 1..(Len(s) + Len(t) + 1) |-> IF i <= Len(s) THEN a[i] ELSE b[i - Len(s)]]
<1>5. s \in Seq(S \cup T) /\ t \in Seq(S \cup T)
  BY <1>1, <1>2, SeqMonotonic
<1>6. /\ u \in Seq(S \cup T) /\ Len(u) = Len(s) + Len(t)
      /\ Len(s) \in Nat /\ Len(t) \in Nat
      /\ \A i \in 1..Len(s) : u[i] = s[i]
      /\ \A i \in 1..Len(t) : u[Len(s) + i] = t[i]
  BY <1>5, ConcatProperties, LenProperties
<1>7. /\ \A i \in 1..Len(s) : d[i] = a[i]
      /\ \A i \in 1..(Len(t) + 1) : d[Len(s) + i] = b[i]
      /\ d[Len(s) + 1] \subseteq a[Len(s) + 1]
  BY <1>3, <1>4, <1>6
<1>8. \A i \in 1..(Len(s) + 1) : d[i] \subseteq a[i]
  <2> TAKE i \in 1..(Len(s) + 1)
  <2>1. CASE i \in 1..Len(s)
    BY <1>7, <2>1
  <2>2. CASE i = Len(s) + 1
    <3> HIDE DEF d
    <3>. QED BY <1>7, <2>2
  <2>. QED BY <1>6, <2>1, <2>2
<1> HIDE DEF u, d
<1>9. Follows(c, u, d)
  <2> SUFFICES ASSUME NEW i \in 1..Len(u)
               PROVE  /\ Needs(u[i], d[i])
                      /\ c => ~Blocks(u[i])
                      /\ Blocks(u[i]) \/ d[i + 1] \subseteq Rests(u[i], d[i]) \cup Gains(u[i])
                      /\ u[i].op = "skip" =>
                           /\ u[i].skip \in Nat /\ i + u[i].skip <= Len(u)
                           /\ d[i + 1 + u[i].skip] \subseteq d[i]
    BY DEF Follows
  <2>1. CASE i \in 1..Len(s)
    <3>1. u[i] = s[i] /\ d[i] = a[i] /\ i + 1 \in 1..(Len(s) + 1) /\ d[i + 1] \subseteq a[i + 1]
      BY <1>6, <1>7, <1>8, <2>1
    <3>2. ASSUME s[i].op = "skip"
          PROVE  /\ s[i].skip \in Nat /\ i + s[i].skip <= Len(s)
                 /\ d[i + 1 + s[i].skip] \subseteq a[i + 1 + s[i].skip]
      <4>1. s[i].skip \in Nat /\ i + s[i].skip <= Len(s)
        BY <1>3, <2>1, <3>2 DEF Follows
      <4>2. i + 1 + s[i].skip \in 1..(Len(s) + 1)
        BY <1>6, <2>1, <4>1
      <4>. QED BY <1>8, <4>1, <4>2
    <3>. QED BY <1>3, <1>6, <2>1, <3>1, <3>2 DEF Follows
  <2>2. CASE i \notin 1..Len(s)
    <3>0. i - Len(s) \in 1..Len(t) /\ i = Len(s) + (i - Len(s))
      BY <1>6, <2>2
    <3>1. PICK j \in 1..Len(t) : i = Len(s) + j
      BY <3>0
    <3>2. u[i] = t[j] /\ d[i] = b[j] /\ d[i + 1] = b[j + 1]
      <4>1. j + 1 \in 1..(Len(t) + 1) /\ j \in 1..(Len(t) + 1) /\ i + 1 = Len(s) + (j + 1)
        BY <1>6, <3>1
      <4>. QED BY <1>6, <1>7, <3>1, <4>1
    <3>3. u[i].op = "skip" =>
            /\ t[j].skip \in Nat /\ j + t[j].skip <= Len(t)
            /\ d[i + 1 + u[i].skip] = b[j + 1 + t[j].skip]
      <4> SUFFICES ASSUME t[j].op = "skip"
                   PROVE  /\ t[j].skip \in Nat /\ j + t[j].skip <= Len(t)
                          /\ d[i + 1 + t[j].skip] = b[j + 1 + t[j].skip]
        BY <3>2
      <4>1. t[j].skip \in Nat /\ j + t[j].skip <= Len(t)
        BY <1>4, <3>1 DEF Follows
      <4>2. PICK n \in Nat : n = t[j].skip
        BY <4>1
      <4> DEFINE k == j + 1 + n
      <4>3. k \in 1..(Len(t) + 1) /\ i + 1 + n = Len(s) + k
        <5>1. Len(s) \in Nat /\ Len(t) \in Nat /\ j + n <= Len(t) /\ i = Len(s) + j
          BY <1>6, <3>1, <4>1, <4>2
        <5>. QED BY <5>1
      <4> HIDE DEF k
      <4>4. d[i + 1 + n] = b[k]
        BY <1>7, <4>3
      <4>. QED BY <4>1, <4>2, <4>4 DEF k
    <3>. QED BY <1>4, <1>6, <3>1, <3>2, <3>3 DEF Follows
  <2>. QED BY <2>1, <2>2
<1>10. d[1] \subseteq A /\ C \subseteq d[Len(u) + 1]
  <2>1. Len(u) + 1 = Len(s) + (Len(t) + 1) /\ Len(t) + 1 \in 1..(Len(t) + 1) /\ 1 \in 1..(Len(s) + 1)
    BY <1>6
  <2>. QED BY <1>3, <1>4, <1>7, <1>8, <2>1
<1>. QED BY <1>6, <1>9, <1>10 DEF Flow, u

(* Steps that may be skipped, when they leave the facts as they are.       *)
LEMMA FlowMaybe ==
  ASSUME NEW c, NEW s, NEW A, Flow(c, s, A, A)
  PROVE  Flow(c, Maybe(s), A, A)
<1>1. PICK S : s \in Seq(S)
  BY DEF Flow
<1>2. PICK a : Follows(c, s, a) /\ a[1] \subseteq A /\ A \subseteq a[Len(s) + 1]
  BY DEF Flow
<1> DEFINE t == [Step("skip") EXCEPT !.skip = Len(s)]
           u == <<t>> \o s
           d == [i \in 1..(Len(s) + 2) |-> IF i = 1 \/ i = Len(s) + 2 THEN A ELSE a[i - 1]]
<1>3. t.op = "skip" /\ t.skip = Len(s) /\ t.reads = {} /\ t.writes = {} /\ Len(s) \in Nat
  BY <1>1, LenProperties DEF Step
<1> HIDE DEF t
<1>4. /\ u \in Seq({t} \cup S) /\ Len(u) = Len(s) + 1 /\ u[1] = t
      /\ \A i \in 1..Len(s) : u[i + 1] = s[i]
  <2>1. <<t>> \in Seq({t} \cup S) /\ Len(<<t>>) = 1 /\ <<t>>[1] = t
    OBVIOUS
  <2>2. s \in Seq({t} \cup S)
    BY <1>1, SeqMonotonic
  <2>3. /\ u \in Seq({t} \cup S) /\ Len(u) = 1 + Len(s)
        /\ \A i \in 1..1 : u[i] = <<t>>[i]
        /\ \A i \in 1..Len(s) : u[1 + i] = s[i]
    BY <2>1, <2>2, ConcatProperties
  <2>4. \A i \in 1..Len(s) : 1 + i = i + 1
    BY <1>3
  <2>. QED BY <1>3, <2>1, <2>3, <2>4
<1>5. /\ d[1] = A /\ d[Len(s) + 2] = A
      /\ \A i \in 1..(Len(s) + 1) : d[i + 1] \subseteq a[i]
      /\ \A i \in 1..Len(s) : d[i + 1] = a[i]
  BY <1>2, <1>3
<1>6. d[2] \subseteq A
  <2>1. CASE Len(s) = 0
    BY <1>5, <2>1
  <2>2. CASE Len(s) # 0
    <3>1. 1 \in 1..Len(s) /\ 1 + 1 = 2
      BY <1>3, <2>2
    <3>2. d[1 + 1] = a[1]
      BY <1>5, <3>1
    <3> HIDE DEF d
    <3>. QED BY <1>2, <3>1, <3>2
  <2>. QED BY <2>1, <2>2
<1> HIDE DEF u, d
<1>7. Follows(c, u, d)
  <2> SUFFICES ASSUME NEW i \in 1..Len(u)
               PROVE  /\ Needs(u[i], d[i])
                      /\ c => ~Blocks(u[i])
                      /\ Blocks(u[i]) \/ d[i + 1] \subseteq Rests(u[i], d[i]) \cup Gains(u[i])
                      /\ u[i].op = "skip" =>
                           /\ u[i].skip \in Nat /\ i + u[i].skip <= Len(u)
                           /\ d[i + 1 + u[i].skip] \subseteq d[i]
    BY DEF Follows
  <2>1. CASE i = 1
    <3>1. u[i] = t /\ d[i] = A /\ i + 1 = 2 /\ i + 1 + Len(s) = Len(s) + 2 /\ i + Len(s) = Len(u)
      BY <1>3, <1>4, <1>5, <2>1
    <3>2. d[i + 1] \subseteq A /\ d[i + 1 + Len(s)] \subseteq A
      BY <1>5, <1>6, <3>1
    <3>3. Needs(t, A) /\ ~Blocks(t) /\ Rests(t, A) = A
      BY <1>3 DEF Needs, Names, Blocks, Rests
    <3>. QED BY <1>3, <3>1, <3>2, <3>3
  <2>2. CASE i # 1
    <3>0. i - 1 \in 1..Len(s) /\ i = (i - 1) + 1
      BY <1>3, <1>4, <2>2
    <3>1. PICK j \in 1..Len(s) : i = j + 1
      BY <3>0
    <3>2. u[i] = s[j] /\ d[i] = a[j] /\ j + 1 \in 1..(Len(s) + 1)
      BY <1>3, <1>4, <1>5, <3>1
    <3>3. d[i + 1] \subseteq a[j + 1]
      BY <1>5, <3>1, <3>2
    <3>4. ASSUME s[j].op = "skip"
          PROVE  /\ s[j].skip \in Nat /\ j + s[j].skip <= Len(s)
                 /\ d[i + 1 + s[j].skip] \subseteq a[j + 1 + s[j].skip]
      <4>1. PICK n \in Nat : n = s[j].skip
        BY <1>2, <3>4 DEF Follows
      <4>2. j + n <= Len(s)
        BY <1>2, <3>4, <4>1 DEF Follows
      <4> DEFINE k == j + 1 + n
      <4>3. k \in 1..(Len(s) + 1) /\ i + 1 + n = k + 1
        BY <1>3, <3>1, <4>2
      <4> HIDE DEF k
      <4>4. d[i + 1 + n] \subseteq a[k]
        BY <1>5, <4>3
      <4>. QED BY <4>1, <4>2, <4>4 DEF k
    <3>5. s[j].op = "skip" => i + s[j].skip <= Len(u)
      BY <1>3, <1>4, <3>1, <3>4
    <3>. QED BY <1>2, <3>2, <3>3, <3>4, <3>5 DEF Follows
  <2>. QED BY <2>1, <2>2
<1>8. d[1] \subseteq A /\ A \subseteq d[Len(u) + 1]
  BY <1>3, <1>4, <1>5
<1>9. Flow(c, u, A, A)
  BY <1>4, <1>7, <1>8 DEF Flow
<1>. QED BY <1>9 DEF Maybe, u, t

LEMMA FlowWhen ==
  ASSUME NEW c, NEW s, NEW A, NEW condition, condition => Flow(c, s, A, A)
  PROVE  Flow(c, When(condition, s), A, A)
BY FlowNothing DEF When

-----------------------------------------------------------------------------
(* The steps                                                               *)

(* Within a job whose directory is prepared, before its result.            *)
Within(A) == Cur \in A /\ Prepared \in A /\ A \cap Ending = {}

LEMMA FlowPrepare ==
  ASSUME NEW c, NEW A, A \cap Ending = {}
  PROVE  Flow(c, Prepare, A, A \cup {Prepared})
<1> DEFINE t == Step("prepare")
<1>1. t.op = "prepare" /\ t.reads = {} /\ t.writes = {}
  BY DEF Step
<1> HIDE DEF t
<1>2. Needs(t, A) /\ ~Blocks(t) /\ A \cup {Prepared} \subseteq Rests(t, A) \cup Gains(t)
  BY <1>1 DEF Needs, Names, Blocks, Rests, Gains
<1>3. Flow(c, <<t>>, A, A \cup {Prepared})
  BY <1>1, <1>2, FlowStep
<1>. QED BY <1>3 DEF Prepare, t

LEMMA FlowCheck ==
  ASSUME NEW c, NEW A, A \cap Ending = {}
  PROVE  Flow(c, Check, A, A)
<1> DEFINE t == Step("check")
<1>1. t.op = "check" /\ t.reads = {} /\ t.writes = {}
  BY DEF Step
<1> HIDE DEF t
<1>2. Needs(t, A) /\ ~Blocks(t) /\ A \subseteq Rests(t, A) \cup Gains(t)
  BY <1>1 DEF Needs, Names, Blocks, Rests, Gains
<1>3. Flow(c, <<t>>, A, A)
  BY <1>1, <1>2, FlowStep
<1>. QED BY <1>3 DEF Check, t

(* A step that blocks: whatever is claimed behind it.                      *)
LEMMA FlowBlocked ==
  ASSUME NEW op \in {"fail", "panic"}, NEW A, NEW B
  PROVE  Flow(FALSE, <<Step(op)>>, A, B)
<1> DEFINE t == Step(op)
<1>1. t.op = op /\ t.reads = {} /\ t.writes = {}
  BY DEF Step
<1> HIDE DEF t
<1>2. Needs(t, A) /\ Blocks(t) /\ t.op # "skip"
  BY <1>1 DEF Needs, Names, Blocks
<1>3. Flow(FALSE, <<t>>, A, B)
  BY <1>2, FlowStep
<1>. QED BY <1>3 DEF t

LEMMA FlowHost ==
  ASSUME NEW c, NEW A, A \cap Ending = {}, NEW name, name[1] \in {"input", "job", "output"}
  PROVE  Flow(c, Host(name), A, A \cup {name})
<1> DEFINE t == [Step("host") EXCEPT !.writes = {name}]
<1>1. t.op = "host" /\ t.reads = {} /\ t.writes = {name} /\ t.must
  BY DEF Step
<1> HIDE DEF t
<1>2. Needs(t, A) /\ ~Blocks(t) /\ A \cup {name} \subseteq Rests(t, A) \cup Gains(t)
  BY <1>1 DEF Needs, Names, Blocks, Rests, Gains
<1>3. Flow(c, <<t>>, A, A \cup {name})
  BY <1>1, <1>2, FlowStep
<1>. QED BY <1>3 DEF Host, t

LEMMA CurIs == Cur[1] = "upload" /\ Names({Cur})
BY DEF Cur, Names

(* A command, which reads what is there and writes to output/.             *)
LEMMA FlowRun ==
  ASSUME NEW c, NEW A, Prepared \in A, A \cap Ending = {},
         NEW cfg \in RequiredConfigs, NEW reads, reads \subseteq A, Names(reads),
         NEW writes, \A n \in writes : n[1] = "output"
  PROVE  Flow(c, Run(cfg, reads, writes), A, A \cup writes)
<1> DEFINE r == [Step("run") EXCEPT !.cfg = cfg]
           s == [r EXCEPT !.reads = reads]
           t == [s EXCEPT !.writes = writes]
<1>1. t.op = "run" /\ t.cfg = cfg /\ t.reads = reads /\ t.writes = writes /\ t.must
  BY DEF Step
<1>2. Run(cfg, reads, writes) = <<t>>
  BY DEF Run
<1> HIDE DEF t
<1>3. Needs(t, A) /\ ~Blocks(t) /\ A \cup writes \subseteq Rests(t, A) \cup Gains(t)
  BY <1>1 DEF Needs, Names, Blocks, Rests, Gains
<1>4. Flow(c, <<t>>, A, A \cup writes)
  BY <1>1, <1>3, FlowStep
<1>. QED BY <1>2, <1>4

LEMMA FlowProbe ==
  ASSUME NEW c, NEW A, Within(A), NEW cfg \in RequiredConfigs
  PROVE  Flow(c, Probe(cfg), A, A)
<1> DEFINE r == [Step("probe") EXCEPT !.cfg = cfg]
           t == [r EXCEPT !.reads = {Cur}]
<1>1. t.op = "probe" /\ t.cfg = cfg /\ t.reads = {Cur} /\ t.writes = {}
  BY DEF Step
<1>2. Probe(cfg) = <<t>>
  BY DEF Probe
<1> HIDE DEF t
<1>3. Needs(t, A) /\ ~Blocks(t) /\ A \subseteq Rests(t, A) \cup Gains(t)
  BY <1>1, CurIs DEF Needs, Names, Blocks, Rests, Gains, Within
<1>4. Flow(c, <<t>>, A, A)
  BY <1>1, <1>3, FlowStep
<1>. QED BY <1>2, <1>4

LEMMA FlowUse ==
  ASSUME NEW c, NEW A, A \cap Ending = {}, NEW name \in A, name[1] # "fact"
  PROVE  Flow(c, Use(name), A, A)
<1> DEFINE t == [Step("use") EXCEPT !.reads = {name}]
<1>1. t.op = "use" /\ t.reads = {name} /\ t.writes = {}
  BY DEF Step
<1> HIDE DEF t
<1>2. Needs(t, A) /\ ~Blocks(t) /\ A \subseteq Rests(t, A) \cup Gains(t)
  BY <1>1 DEF Needs, Names, Blocks, Rests, Gains
<1>3. Flow(c, <<t>>, A, A)
  BY <1>1, <1>2, FlowStep
<1>. QED BY <1>3 DEF Use, t

LEMMA FlowCopy ==
  ASSUME NEW c, NEW A, Within(A), NEW name, name[1] = "output"
  PROVE  Flow(c, Copy(name), A, A \cup {name})
<1> DEFINE r == [Step("copy") EXCEPT !.reads = {Cur}]
           t == [r EXCEPT !.writes = {name}]
<1>1. t.op = "copy" /\ t.reads = {Cur} /\ t.writes = {name} /\ t.must
  BY DEF Step
<1>2. Copy(name) = <<t>>
  BY DEF Copy
<1> HIDE DEF t
<1>3. Needs(t, A) /\ ~Blocks(t) /\ A \cup {name} \subseteq Rests(t, A) \cup Gains(t)
  BY <1>1, CurIs DEF Needs, Names, Blocks, Rests, Gains, Within
<1>4. Flow(c, <<t>>, A, A \cup {name})
  BY <1>1, <1>3, FlowStep
<1>. QED BY <1>2, <1>4

(* Behind an Unlink only the other files of output/ are counted on.        *)
LEMMA FlowUnlink ==
  ASSUME NEW c, NEW A, NEW name, name[1] = "output", NEW left \in A, left[1] = "output", left # name
  PROVE  Flow(c, Unlink(name), A, {left})
<1> DEFINE t == [Step("remove") EXCEPT !.writes = {name}]
<1>1. t.op = "remove" /\ t.reads = {} /\ t.writes = {name}
  BY DEF Step
<1> HIDE DEF t
<1>2. left \notin Ending
  BY DEF Ending, Ended, Recorded
<1>3. Needs(t, A) /\ ~Blocks(t) /\ {left} \subseteq Rests(t, A) \cup Gains(t)
  BY <1>1, <1>2 DEF Needs, Names, Blocks, Rests, Gains
<1>4. Flow(c, <<t>>, A, {left})
  BY <1>1, <1>3, FlowStep
<1>. QED BY <1>4 DEF Unlink, t

LEMMA FlowKeep ==
  ASSUME NEW c, NEW A, NEW name \in A, name[1] # "fact"
  PROVE  Flow(c, Keep(name), A, A \cup Ending)
<1> DEFINE t == [Step("keep") EXCEPT !.reads = {name}]
<1>1. t.op = "keep" /\ t.reads = {name} /\ t.writes = {}
  BY DEF Step
<1> HIDE DEF t
<1>2. Needs(t, A) /\ ~Blocks(t) /\ A \cup Ending \subseteq Rests(t, A) \cup Gains(t)
  BY <1>1 DEF Needs, Names, Blocks, Rests, Gains
<1>3. Flow(c, <<t>>, A, A \cup Ending)
  BY <1>1, <1>2, FlowStep
<1>. QED BY <1>3 DEF Keep, t

LEMMA FlowManifest ==
  ASSUME NEW c, NEW A, NEW name \in A, name[1] = "output"
  PROVE  Flow(c, Manifest, A, A \cup Ending)
<1> DEFINE t == Step("manifest")
<1>1. t.op = "manifest" /\ t.reads = {} /\ t.writes = {}
  BY DEF Step
<1> HIDE DEF t
<1>2. Needs(t, A) /\ ~Blocks(t) /\ A \cup Ending \subseteq Rests(t, A) \cup Gains(t)
  BY <1>1 DEF Needs, Names, Blocks, Rests, Gains
<1>3. Flow(c, <<t>>, A, A \cup Ending)
  BY <1>1, <1>2, FlowStep
<1>. QED BY <1>3 DEF Manifest, t

LEMMA FlowKeepSmaller ==
  ASSUME NEW c, NEW A, Cur \in A, NEW name \in A, name[1] = "output"
  PROVE  Flow(c, KeepSmaller(name), A, A \cup Ending)
<1> DEFINE r == [Step("smaller") EXCEPT !.reads = {name, Cur}]
           t == [r EXCEPT !.writes = {name}]
<1>1. t.op = "smaller" /\ t.reads = {name, Cur} /\ t.writes = {name}
  BY DEF Step
<1>2. KeepSmaller(name) = <<t>>
  BY DEF KeepSmaller
<1> HIDE DEF t
<1>3. Needs(t, A) /\ ~Blocks(t) /\ A \cup Ending \subseteq Rests(t, A) \cup Gains(t)
  BY <1>1, CurIs DEF Needs, Names, Blocks, Rests, Gains
<1>4. Flow(c, <<t>>, A, A \cup Ending)
  BY <1>1, <1>3, FlowStep
<1>. QED BY <1>2, <1>4

LEMMA FlowKeepEarlier ==
  ASSUME NEW c, NEW A, NEW name \in A, name[1] # "fact"
  PROVE  Flow(c, KeepEarlier(name), A, (A \ Ending) \cup {Ended})
<1> DEFINE t == [Step("earlier") EXCEPT !.reads = {name}]
<1>1. t.op = "earlier" /\ t.reads = {name} /\ t.writes = {}
  BY DEF Step
<1> HIDE DEF t
<1>2. Needs(t, A) /\ ~Blocks(t) /\ (A \ Ending) \cup {Ended} \subseteq Rests(t, A) \cup Gains(t)
  BY <1>1 DEF Needs, Names, Blocks, Rests, Gains
<1>3. Flow(c, <<t>>, A, (A \ Ending) \cup {Ended})
  BY <1>1, <1>2, FlowStep
<1>. QED BY <1>3 DEF KeepEarlier, t

LEMMA FlowListing ==
  ASSUME NEW c, NEW A, A \cap Ending = {}
  PROVE  Flow(c, <<Step("listing")>>, A, A)
<1> DEFINE t == Step("listing")
<1>1. t.op = "listing" /\ t.reads = {} /\ t.writes = {}
  BY DEF Step
<1> HIDE DEF t
<1>2. Needs(t, A) /\ ~Blocks(t) /\ A \subseteq Rests(t, A) \cup Gains(t)
  BY <1>1 DEF Needs, Names, Blocks, Rests, Gains
<1>3. Flow(c, <<t>>, A, A)
  BY <1>1, <1>2, FlowStep
<1>. QED BY <1>3 DEF t

(* A tolerated step is not counted on.                                     *)
LEMMA FlowTolerated ==
  ASSUME NEW c, NEW s, NEW S, s \in Seq(S), NEW A, A \cap Ending = {},
         \A i \in 1..Len(s) :
           /\ s[i].op \in {"run", "probe", "host", "use"}
           /\ Needs([s[i] EXCEPT !.must = FALSE], A)
           /\ DOMAIN s[i] = {"op", "cfg", "reads", "writes", "must", "skip"}
  PROVE  Flow(c, Tolerated(s), A, A)
<1> DEFINE u == Tolerated(s)
           d == [i \in 1..(Len(s) + 1) |-> A]
<1>1. Len(s) \in Nat /\ DOMAIN s = 1..Len(s)
  BY LenProperties
<1>2. u = [i \in 1..Len(s) |-> [s[i] EXCEPT !.must = FALSE]]
  BY <1>1 DEF Tolerated
<1> DEFINE T == {[s[i] EXCEPT !.must = FALSE] : i \in 1..Len(s)}
<1>3. u \in [1..Len(s) -> T]
  BY <1>2
<1> HIDE DEF T
<1>4. u \in Seq(T) /\ Len(u) = Len(s)
  <2> HIDE DEF u
  <2>. QED BY <1>1, <1>3
<1>5. \A i \in 1..Len(s) :
        /\ u[i].op = s[i].op /\ u[i].cfg = s[i].cfg /\ u[i].reads = s[i].reads
        /\ u[i].writes = s[i].writes /\ ~u[i].must
  BY <1>2
<1> HIDE DEF u
<1>6. Follows(c, u, d)
  <2> SUFFICES ASSUME NEW i \in 1..Len(u)
               PROVE  /\ Needs(u[i], A)
                      /\ ~Blocks(u[i]) /\ u[i].op # "skip"
                      /\ A \subseteq Rests(u[i], A) \cup Gains(u[i])
    BY <1>1, <1>4 DEF Follows
  <2>1. Needs(u[i], A)
    BY <1>2, <1>4
  <2>2. u[i].op \in {"run", "probe", "host", "use"} /\ ~u[i].must
    BY <1>4, <1>5
  <2>. QED BY <2>1, <2>2 DEF Blocks, Rests
<1>7. d[1] = A /\ d[Len(u) + 1] = A
  BY <1>1, <1>4
<1> HIDE DEF d
<1>8. Flow(c, u, A, A)
  BY <1>4, <1>6, <1>7 DEF Flow
<1>. QED BY <1>8 DEF u

-----------------------------------------------------------------------------
(* The parts that converters have in common                                *)

LEMMA OutIs ==
  ASSUME NEW file
  PROVE  Out(file)[1] = "output" /\ Out(file) \notin Ending
BY DEF Out, Ending, Ended, Recorded

LEMMA WithinMore ==
  ASSUME NEW A, Within(A), NEW names, \A n \in names : n[1] = "output"
  PROVE  Within(A \cup names)
<1>1. \A n \in Ending : n[1] = "fact"
  BY DEF Ending, Ended, Recorded
<1>. QED BY <1>1 DEF Within

(* Before the job directory is prepared, and then.                         *)
Before(G) == Cur \in G /\ G \cap Ending = {}

LEMMA PrepareWithin ==
  ASSUME NEW c, NEW G, Before(G)
  PROVE  Within(G \cup {Prepared}) /\ Flow(c, Prepare, G, G \cup {Prepared})
<1>1. Prepared \notin Ending
  BY DEF Prepared, Ending, Ended, Recorded
<1>. QED BY <1>1, FlowPrepare DEF Before, Within

LEMMA FlowInto ==
  ASSUME NEW c, NEW A, Within(A), NEW cfg \in RequiredConfigs, NEW file
  PROVE  Flow(c, Into(cfg, Out(file)), A, A)
<1> DEFINE B == A \cup {Out(file)}
<1>1. Flow(c, Run(cfg, {Cur}, {Out(file)}), A, B)
  BY FlowRun, OutIs, CurIs DEF Within
<1>2. Within(B)
  BY WithinMore, OutIs
<1>3. Flow(c, Use(Out(file)), B, B)
  BY <1>2, FlowUse, OutIs DEF Within
<1>4. Flow(c, Into(cfg, Out(file)), A, B)
  BY <1>1, <1>3, FlowThen DEF Into
<1>. QED BY <1>4, FlowWeaken

(* A command whose output is then recorded.                                *)
LEMMA FlowRunKeep ==
  ASSUME NEW c, NEW s, NEW G, NEW A, Flow(c, s, G, A), Within(A),
         NEW cfg \in RequiredConfigs, NEW reads, reads \subseteq A, Names(reads), NEW file
  PROVE  Flow(c, s \o Run(cfg, reads, {Out(file)}) \o Keep(Out(file)), G, A \cup Ending)
<1> DEFINE B == A \cup {Out(file)}
<1>1. Flow(c, Run(cfg, reads, {Out(file)}), A, B)
  BY FlowRun, OutIs, CurIs DEF Within
<1>2. Flow(c, Keep(Out(file)), B, B \cup Ending)
  BY FlowKeep, OutIs
<1>3. Flow(c, Keep(Out(file)), B, A \cup Ending)
  BY <1>2, FlowWeaken
<1> HIDE DEF B
<1>4. Flow(c, s \o Run(cfg, reads, {Out(file)}), G, B)
  BY <1>1, FlowThen
<1>. QED BY <1>3, <1>4, FlowThen

LEMMA FlowOneCommand ==
  ASSUME NEW c, NEW A, Within(A), NEW cfg \in RequiredConfigs
  PROVE  Flow(c, OneCommand(cfg), A, Ending)
<1>1. Flow(c, Run(cfg, {Cur}, {Out("output")}), A, A \cup {Out("output")})
  BY FlowRun, OutIs, CurIs DEF Within
<1> DEFINE B == A \cup {Out("output")}
<1>2. Flow(c, Keep(Out("output")), B, B \cup Ending)
  BY FlowKeep, OutIs
<1>3. Flow(c, Keep(Out("output")), B, Ending)
  BY <1>2, FlowWeaken
<1>. QED BY <1>1, <1>3, FlowThen DEF OneCommand

(* The converters of one command.                                          *)
LEMMA FlowOneCommandConverters ==
  ASSUME NEW c, NEW G, Before(G), NEW opt
  PROVE  /\ Flow(c, AudioExtract, G, Ending)
         /\ Flow(c, AudioConvert, G, Ending)
         /\ Flow(c, MovToMp4, G, Ending)
         /\ Flow(c, PDFRepair, G, Ending)
         /\ Flow(c, MarkdownPDF, G, Ending)
         /\ Flow(c, EbookConvert, G, Ending)
         /\ Flow(c, SvgToPng, G, Ending)
<1> DEFINE A == G \cup {Prepared}
<1>1. Within(A) /\ Flow(c, Prepare, G, A) /\ Flow(c, Check, G, G) /\ Flow(c, Check, A, A)
  BY PrepareWithin, FlowCheck DEF Before, Within
<1>2. {"ffmpeg.cfg", "qpdf.cfg", "pandoc.cfg", "ebook.cfg", "svg.cfg"} \subseteq RequiredConfigs
  BY DEF RequiredConfigs
<1> HIDE DEF A
<1>3. \A cfg \in RequiredConfigs : Flow(c, OneCommand(cfg), A, Ending)
  BY <1>1, FlowOneCommand
<1>4. Flow(c, Check \o Prepare, G, A)
  BY <1>1, FlowThen
<1>5. Flow(c, AudioExtract, G, Ending)
  <2>1. Flow(c, Probe("ffmpeg.cfg"), A, A)
    BY <1>1, <1>2, FlowProbe
  <2>2. Flow(c, Check \o Prepare \o Probe("ffmpeg.cfg"), G, A)
    BY <1>4, <2>1, FlowThen
  <2>3. Flow(c, Check \o Prepare \o Probe("ffmpeg.cfg") \o Check, G, A)
    BY <1>1, <2>2, FlowThen
  <2>. QED BY <1>2, <1>3, <2>3, FlowThen DEF AudioExtract
<1>6. \A cfg \in RequiredConfigs :
        /\ Flow(c, Prepare \o OneCommand(cfg), G, Ending)
        /\ Flow(c, Check \o Prepare \o OneCommand(cfg), G, Ending)
  BY <1>1, <1>3, <1>4, FlowThen
<1>. QED BY <1>2, <1>5, <1>6
     DEF AudioConvert, MovToMp4, PDFRepair, MarkdownPDF, EbookConvert, SvgToPng

-----------------------------------------------------------------------------
(* The converters, from the files that were sent to the recorded result    *)

LEMMA HostKept ==
  ASSUME NEW c, NEW A, A \cap Ending = {}, NEW name, name[1] \in {"input", "job", "output"}
  PROVE  Flow(c, Host(name), A, A)
<1>1. Flow(c, Host(name), A, A \cup {name})
  BY FlowHost
<1>. QED BY <1>1, FlowWeaken

LEMMA FlowFontAndEdit ==
  ASSUME NEW c, NEW G, Before(G), NEW opt
  PROVE  /\ Flow(c, FontConvert, G, Ending)
         /\ Flow(c, PDFEdit, G, Ending)
         /\ Flow(c, PDFPassword(opt), G, Ending)
<1> DEFINE A == G \cup {Prepared}
<1>1. Within(A) /\ Flow(c, Prepare, G, A) /\ Flow(c, Check, G, G) /\ Flow(c, Check, A, A)
  BY PrepareWithin, FlowCheck DEF Before, Within
<1> HIDE DEF A
<1>2. \A file : /\ Flow(c, Host(Job(file)), A, A)
                /\ Flow(c, Host(In(file)), A, A)
  <2>1. \A file : Job(file)[1] \in {"input", "job", "output"} /\ In(file)[1] \in {"input", "job", "output"}
    BY DEF Job, In
  <2>. QED BY <1>1, <2>1, HostKept DEF Within
<1>3. \A cfg \in RequiredConfigs : Flow(c, OneCommand(cfg), A, Ending)
  BY <1>1, FlowOneCommand
<1>4. {"font.cfg", "pymupdf.cfg", "qpdf.cfg"} \subseteq RequiredConfigs
  BY DEF RequiredConfigs
<1>5. Flow(c, Check \o Prepare, G, A)
  BY <1>1, FlowThen
<1>6. Flow(c, FontConvert, G, Ending)
  <2>1. Flow(c, Check \o Prepare \o Host(Job("font_convert.py")), G, A)
    BY <1>2, <1>5, FlowThen
  <2>. QED BY <1>3, <1>4, <2>1, FlowThen DEF FontConvert
<1>7. Flow(c, PDFEdit, G, Ending)
  <2>1. Flow(c, Check \o Prepare \o Host(Job("editor.py")), G, A)
    BY <1>2, <1>5, FlowThen
  <2>2. Flow(c, Check \o Prepare \o Host(Job("editor.py")) \o Host(Job("config.json")), G, A)
    BY <1>2, <2>1, FlowThen
  <2>. QED BY <1>3, <1>4, <2>2, FlowThen DEF PDFEdit, ValidatePDFEditOptions
<1>8. Flow(c, PDFPassword(opt), G, Ending)
  <2>1. Flow(c, When("remove" \in opt, Host(In(".password"))), A, A)
    BY <1>2, FlowWhen
  <2>2. Flow(c, Prepare \o Check, G, A)
    BY <1>1, FlowThen
  <2>3. Flow(c, Prepare \o Check \o When("remove" \in opt, Host(In(".password"))), G, A)
    BY <2>1, <2>2, FlowThen
  <2>. QED BY <1>3, <1>4, <2>3, FlowThen DEF PDFPassword
<1>. QED BY <1>6, <1>7, <1>8

(* The QR code has no file to start from.                                  *)
LEMMA FlowQRCode ==
  ASSUME NEW c, NEW G, G \cap Ending = {}
  PROVE  Flow(c, QRCode, G, Ending)
<1> DEFINE A == G \cup {Prepared}
           B == A \cup {Out("qrcode.png")}
<1>1. A \cap Ending = {}
  BY DEF Prepared, Ending, Ended, Recorded
<1>2. Flow(c, Check, G, G) /\ Flow(c, Prepare, G, A)
  BY FlowCheck, FlowPrepare
<1>3. Flow(c, Host(Out("qrcode.png")), A, B)
  BY <1>1, FlowHost, OutIs
<1>4. Flow(c, Keep(Out("qrcode.png")), B, B \cup Ending)
  BY FlowKeep, OutIs
<1>5. Flow(c, Keep(Out("qrcode.png")), B, Ending)
  BY <1>4, FlowWeaken
<1> HIDE DEF A, B
<1>6. Flow(c, Check \o Prepare, G, A)
  BY <1>2, FlowThen
<1>7. Flow(c, Check \o Prepare \o Host(Out("qrcode.png")), G, B)
  BY <1>3, <1>6, FlowThen
<1>. QED BY <1>5, <1>7, FlowThen DEF QRCode

(* What a command has written is looked at before it is recorded.          *)
LEMMA FlowVideoToGif ==
  ASSUME NEW c, NEW G, Before(G)
  PROVE  Flow(c, VideoToGif, G, Ending)
<1> DEFINE A == G \cup {Prepared}
           B == A \cup {Out("output")}
<1>1. Within(A) /\ Flow(c, Prepare, G, A)
  BY PrepareWithin
<1>2. Flow(c, Run("ffmpeg.cfg", {Cur}, {Out("output")}), A, B)
  BY <1>1, FlowRun, OutIs, CurIs DEF Within, RequiredConfigs
<1>3. Flow(c, Check, B, B)
  BY <1>1, WithinMore, OutIs, FlowCheck DEF Within
<1>4. Flow(c, Keep(Out("output")), B, B \cup Ending)
  BY FlowKeep, OutIs
<1>5. Flow(c, Keep(Out("output")), B, Ending)
  BY <1>4, FlowWeaken
<1> HIDE DEF A, B
<1>6. Flow(c, Prepare \o Run("ffmpeg.cfg", {Cur}, {Out("output")}), G, B)
  BY <1>1, <1>2, FlowThen
<1>7. Flow(c, Prepare \o Run("ffmpeg.cfg", {Cur}, {Out("output")}) \o Check, G, B)
  BY <1>3, <1>6, FlowThen
<1>. QED BY <1>5, <1>7, FlowThen DEF VideoToGif

LEMMA FlowPDFExtractImages ==
  ASSUME NEW c, NEW G, Before(G)
  PROVE  Flow(c, PDFExtractImages, G, Ending)
<1> DEFINE A == G \cup {Prepared}
           images == {Out("img-000"), Out("img-001")}
           B == A \cup images
<1>1. Within(A) /\ Flow(c, Prepare, G, A)
  BY PrepareWithin
<1>2. \A n \in images : n[1] = "output"
  BY OutIs
<1>3. Flow(c, Run("poppler.cfg", {Cur}, images), A, B)
  <2> HIDE DEF images
  <2>. QED BY <1>1, <1>2, FlowRun, CurIs DEF Within, RequiredConfigs
<1>4. Flow(c, Check, B, B)
  <2> HIDE DEF images
  <2>. QED BY <1>1, <1>2, WithinMore, FlowCheck DEF Within
<1>5. Flow(c, Manifest, B, B \cup Ending)
  BY OutIs, FlowManifest
<1>6. Flow(c, Manifest, B, Ending)
  BY <1>5, FlowWeaken
<1> SUFFICES Flow(c, Prepare \o Run("poppler.cfg", {Cur}, images) \o Check \o Manifest, G, Ending)
  BY DEF PDFExtractImages
<1> HIDE DEF A, B, images
<1>7. Flow(c, Prepare \o Run("poppler.cfg", {Cur}, images), G, B)
  BY <1>1, <1>3, FlowThen
<1>8. Flow(c, Prepare \o Run("poppler.cfg", {Cur}, images) \o Check, G, B)
  BY <1>4, <1>7, FlowThen
<1>. QED BY <1>6, <1>8, FlowThen

LEMMA FlowDecompress ==
  ASSUME NEW c, NEW G, Before(G)
  PROVE  Flow(c, Decompress, G, Ending)
<1> DEFINE A == G \cup {Prepared}
           extracted == {Out("file"), Out("link")}
           B == A \cup extracted
           C == {Out("file")}
           s == Prepare \o Probe("archive.cfg") \o <<Step("listing")>>
<1>1. Within(A) /\ Flow(c, Prepare, G, A)
  BY PrepareWithin
<1>2. Flow(c, Probe("archive.cfg"), A, A) /\ Flow(c, <<Step("listing")>>, A, A)
  BY <1>1, FlowProbe, FlowListing DEF Within, RequiredConfigs
<1>3. \A n \in extracted : n[1] = "output"
  BY OutIs
<1>4. Flow(c, Run("archive.cfg", {Cur}, extracted), A, B)
  <2> HIDE DEF extracted
  <2>. QED BY <1>1, <1>3, FlowRun, CurIs DEF Within, RequiredConfigs
<1>5. Flow(c, Unlink(Out("link")), B, C)
  <2>1. Out("file") \in B /\ Out("file") # Out("link")
    BY DEF Out
  <2>. QED BY <2>1, OutIs, FlowUnlink
<1>6. Flow(c, Check, C, C) /\ Flow(c, Manifest, C, C \cup Ending)
  BY OutIs, FlowCheck, FlowManifest
<1>7. Flow(c, Manifest, C, Ending)
  BY <1>6, FlowWeaken
<1> SUFFICES Flow(c, s \o Run("archive.cfg", {Cur}, extracted) \o Unlink(Out("link"))
                     \o Check \o Manifest, G, Ending)
  BY DEF Decompress
<1>8. Flow(c, s, G, A)
  <2> HIDE DEF A
  <2>1. Flow(c, Prepare \o Probe("archive.cfg"), G, A)
    BY <1>1, <1>2, FlowThen
  <2>. QED BY <1>2, <2>1, FlowThen
<1> HIDE DEF A, B, C, extracted, s
<1>9. Flow(c, s \o Run("archive.cfg", {Cur}, extracted), G, B)
  BY <1>4, <1>8, FlowThen
<1>10. Flow(c, s \o Run("archive.cfg", {Cur}, extracted) \o Unlink(Out("link")), G, C)
  BY <1>5, <1>9, FlowThen
<1>11. Flow(c, s \o Run("archive.cfg", {Cur}, extracted) \o Unlink(Out("link")) \o Check, G, C)
  BY <1>6, <1>10, FlowThen
<1>. QED BY <1>7, <1>11, FlowThen

LEMMA FlowDimensions ==
  ASSUME NEW c, NEW A, Within(A)
  PROVE  Flow(c, ValidateImageDimensions, A, A)
<1>1. Flow(c, Probe("image.cfg"), A, A) /\ Flow(c, Check, A, A)
  BY FlowProbe, FlowCheck DEF Within, RequiredConfigs
<1>2. Flow(c, Maybe(ReadSeparately), A, A)
  <2>1. Flow(c, ReadSeparately, A, A)
    BY <1>1, FlowThen DEF ReadSeparately
  <2>. QED BY <2>1, FlowMaybe
<1>3. Flow(c, Probe("image.cfg") \o Maybe(ReadSeparately), A, A)
  BY <1>1, <1>2, FlowThen
<1>. QED BY <1>1, <1>3, FlowThen DEF ValidateImageDimensions

(* The two parts that may fail without failing the job.                    *)
LEMMA FlowToleratedProbe ==
  ASSUME NEW c, NEW A, Within(A), NEW cfg \in RequiredConfigs
  PROVE  Flow(c, Tolerated(Probe(cfg)), A, A)
<1> DEFINE r == [Step("probe") EXCEPT !.cfg = cfg]
           t == [r EXCEPT !.reads = {Cur}]
           s == <<t>>
<1>1. /\ t.op = "probe" /\ t.cfg = cfg /\ t.reads = {Cur} /\ t.writes = {}
      /\ DOMAIN t = {"op", "cfg", "reads", "writes", "must", "skip"}
  BY DEF Step
<1>2. Probe(cfg) = s
  BY DEF Probe
<1> HIDE DEF t
<1>3. s \in Seq({t}) /\ Len(s) = 1 /\ s[1] = t
  OBVIOUS
<1>4. Needs([t EXCEPT !.must = FALSE], A)
  <2> DEFINE u == [t EXCEPT !.must = FALSE]
  <2>1. u.op = "probe" /\ u.cfg = cfg /\ u.reads = {Cur} /\ u.writes = {}
    BY <1>1
  <2> HIDE DEF u
  <2>2. Needs(u, A)
    BY <2>1, CurIs DEF Needs, Names, Within
  <2>. QED BY <2>2 DEF u
<1>5. \A i \in 1..Len(s) : s[i] = t
  BY <1>3
<1> HIDE DEF s
<1>6. Flow(c, Tolerated(s), A, A)
  BY <1>1, <1>3, <1>4, <1>5, FlowTolerated DEF Within
<1>. QED BY <1>2, <1>6

LEMMA FlowToleratedInto ==
  ASSUME NEW c, NEW A, Within(A), NEW cfg \in RequiredConfigs, NEW file
  PROVE  Flow(c, Tolerated(Into(cfg, Out(file))), A, A)
<1> DEFINE r == [Step("run") EXCEPT !.cfg = cfg]
           rr == [r EXCEPT !.reads = {Cur}]
           t == [rr EXCEPT !.writes = {Out(file)}]
           u == [Step("use") EXCEPT !.reads = {Out(file)}]
           s == <<t>> \o <<u>>
<1>1. /\ t.op = "run" /\ t.cfg = cfg /\ t.reads = {Cur} /\ t.writes = {Out(file)}
      /\ DOMAIN t = {"op", "cfg", "reads", "writes", "must", "skip"}
  BY DEF Step
<1>2. /\ u.op = "use" /\ u.writes = {} /\ u.reads # {}
      /\ DOMAIN u = {"op", "cfg", "reads", "writes", "must", "skip"}
  BY DEF Step
<1>3. Into(cfg, Out(file)) = s
  BY DEF Into, Run, Use
<1> HIDE DEF t, u
<1>4. s \in Seq({t, u}) /\ Len(s) = 2 /\ s[1] = t /\ s[2] = u
  <2>1. /\ <<t>> \in Seq({t, u}) /\ Len(<<t>>) = 1 /\ <<t>>[1] = t
        /\ <<u>> \in Seq({t, u}) /\ Len(<<u>>) = 1 /\ <<u>>[1] = u
    OBVIOUS
  <2>2. /\ s \in Seq({t, u}) /\ Len(s) = 1 + 1
        /\ \A i \in 1..1 : s[i] = <<t>>[i] /\ s[1 + i] = <<u>>[i]
    BY <2>1, ConcatProperties
  <2>. QED BY <2>1, <2>2
<1>5. Needs([t EXCEPT !.must = FALSE], A) /\ Needs([u EXCEPT !.must = FALSE], A)
  BY <1>1, <1>2, OutIs, CurIs DEF Needs, Names, Within
<1>6. \A i \in 1..Len(s) : s[i] = t \/ s[i] = u
  BY <1>4
<1> HIDE DEF s
<1>7. Flow(c, Tolerated(s), A, A)
  BY <1>1, <1>2, <1>4, <1>5, <1>6, FlowTolerated DEF Within
<1>. QED BY <1>3, <1>7

LEMMA FlowFavicon ==
  ASSUME NEW c, NEW G, Before(G)
  PROVE  Flow(c, Favicon, G, Ending)
<1> DEFINE A == G \cup {Prepared}
           B == A \cup {Out("favicon-16.png")}
           C == {Out("favicon-16.png")}
           s == Prepare \o ValidateImageDimensions \o Into("image.cfg", Out("intermediate.png"))
           r16 == Run("image.cfg", {Cur}, {Out("favicon-16.png")})
           r32 == Run("image.cfg", {Cur}, {Out("favicon-32.png")})
           ico == Run("image_to_pdf.cfg", {Cur}, {Out("favicon.ico")})
<1>1. Within(A) /\ Flow(c, Prepare, G, A) /\ Within(B)
  BY PrepareWithin, WithinMore, OutIs
<1>2. {"image.cfg", "image_to_pdf.cfg"} \subseteq RequiredConfigs
  BY DEF RequiredConfigs
<1>3. Flow(c, r16, A, B)
  BY <1>1, <1>2, FlowRun, OutIs, CurIs DEF Within
<1>4. Flow(c, r32, B, B \cup {Out("favicon-32.png")}) /\ Flow(c, ico, B, B \cup {Out("favicon.ico")})
  BY <1>1, <1>2, FlowRun, OutIs, CurIs DEF Within
<1>5. Flow(c, r32, B, B) /\ Flow(c, ico, B, B)
  BY <1>4, FlowWeaken
<1>6. Flow(c, Unlink(Out("intermediate.png")), B, C)
  <2>1. Out("favicon-16.png") \in B /\ Out("favicon-16.png") # Out("intermediate.png")
    BY DEF Out
  <2>. QED BY <2>1, OutIs, FlowUnlink
<1>7. Flow(c, Manifest, C, C \cup Ending)
  BY OutIs, FlowManifest
<1>8. Flow(c, Manifest, C, Ending)
  BY <1>7, FlowWeaken
<1> SUFFICES Flow(c, s \o r16 \o r32 \o ico \o Unlink(Out("intermediate.png")) \o Manifest, G, Ending)
  BY DEF Favicon
<1>9. Flow(c, s, G, A)
  <2> HIDE DEF A
  <2>1. Flow(c, Prepare \o ValidateImageDimensions, G, A)
    BY <1>1, FlowDimensions, FlowThen
  <2>2. Flow(c, Into("image.cfg", Out("intermediate.png")), A, A)
    BY <1>1, <1>2, FlowInto
  <2>. QED BY <2>1, <2>2, FlowThen
<1> HIDE DEF A, B, C, s, r16, r32, ico
<1>10. Flow(c, s \o r16, G, B)
  BY <1>3, <1>9, FlowThen
<1>11. Flow(c, s \o r16 \o r32, G, B)
  BY <1>5, <1>10, FlowThen
<1>12. Flow(c, s \o r16 \o r32 \o ico, G, B)
  BY <1>5, <1>11, FlowThen
<1>13. Flow(c, s \o r16 \o r32 \o ico \o Unlink(Out("intermediate.png")), G, C)
  BY <1>6, <1>12, FlowThen
<1>. QED BY <1>8, <1>13, FlowThen

LEMMA FlowMetadata ==
  ASSUME NEW c, NEW G, Before(G)
  PROVE  Flow(c, MetadataRemove, G, Ending) /\ Flow(c, MetadataInspect, G, Ending)
<1> DEFINE A == G \cup {Prepared}
           B == A \cup {Out("output")}
<1>1. Within(A) /\ Flow(c, Prepare, G, A) /\ Within(B)
  BY PrepareWithin, WithinMore, OutIs
<1>2. "metadata.cfg" \in RequiredConfigs
  BY DEF RequiredConfigs
<1>3. Flow(c, ExtractMetadata, A, A)
  BY <1>1, <1>2, FlowProbe DEF ExtractMetadata
<1>4. Flow(c, MetadataInspect, G, Ending)
  <2> HIDE DEF A
  <2>1. Flow(c, Keep(Cur), A, A \cup Ending)
    BY <1>1, FlowKeep, CurIs DEF Within
  <2>2. Flow(c, Keep(Cur), A, Ending)
    BY <2>1, FlowWeaken
  <2>3. Flow(c, Prepare \o ExtractMetadata, G, A)
    BY <1>1, <1>3, FlowThen
  <2>. QED BY <2>2, <2>3, FlowThen DEF MetadataInspect
<1>5. Flow(c, Tolerated(ExtractMetadata), A, A)
  BY <1>1, <1>2, FlowToleratedProbe DEF ExtractMetadata
<1>6. Flow(c, Copy(Out("output")), A, B)
  BY <1>1, FlowCopy, OutIs
<1> HIDE DEF A
<1>7. Flow(c, Prepare \o Tolerated(ExtractMetadata), G, A)
  BY <1>1, <1>5, FlowThen
<1>8. Flow(c, Prepare \o Tolerated(ExtractMetadata) \o Copy(Out("output")), G, B)
  BY <1>6, <1>7, FlowThen
<1>9. Flow(c, MetadataRemove, G, B \cup Ending)
  <2>1. {Out("output")} \subseteq B /\ Names({Out("output")})
    BY OutIs DEF Names
  <2> HIDE DEF B
  <2>. QED BY <1>1, <1>2, <1>8, <2>1, FlowRunKeep, CurIs DEF MetadataRemove
<1>10. Flow(c, MetadataRemove, G, Ending)
  BY <1>9, FlowWeaken
<1>. QED BY <1>4, <1>10

LEMMA FlowImageConvert ==
  ASSUME NEW c, NEW G, Before(G), NEW opt
  PROVE  Flow(c, ImageConvert(opt), G, Ending)
<1> DEFINE A == G \cup {Prepared}
           B == A \cup {Out("output")}
           crop == ImageCrop(opt)
           rotation == ImageRotation(opt)
           watermark == ImageWatermark(opt)
           write == Run("image.cfg", {Cur}, {Out("output")}) \o Keep(Out("output"))
           last == IF "ico" \in opt \/ "pdf" \in opt THEN ViaIntermediate(Out("output"))
                   ELSE IF opt \cap {"fit", "exact"} # {} THEN ConvertWithResize(opt) ELSE write
<1>1. Within(A) /\ Flow(c, Prepare, G, A) /\ Flow(c, Check, G, G) /\ Flow(c, Check, A, A)
  BY PrepareWithin, FlowCheck DEF Before, Within
<1>2. {"image.cfg", "image_to_pdf.cfg"} \subseteq RequiredConfigs
  BY DEF RequiredConfigs
<1> HIDE DEF A
<1>3. \A file : Flow(c, Into("image.cfg", Out(file)), A, A) /\ Flow(c, Into("image_to_pdf.cfg", Out(file)), A, A)
  BY <1>1, <1>2, FlowInto
<1>4. Flow(c, crop, A, A) /\ Flow(c, rotation, A, A)
  <2>1. \A file : Flow(c, Check \o Into("image.cfg", Out(file)), A, A)
    BY <1>1, <1>3, FlowThen
  <2>. QED BY <2>1, FlowWhen DEF ImageCrop, ImageRotation
<1>5. Flow(c, watermark, A, A)
  <2>1. Flow(c, Tolerated(Probe("image_to_pdf.cfg")), A, A)
    BY <1>1, <1>2, FlowToleratedProbe
  <2>2. Flow(c, Check \o Tolerated(Probe("image_to_pdf.cfg")), A, A)
    BY <1>1, <2>1, FlowThen
  <2>3. Flow(c, Check \o Tolerated(Probe("image_to_pdf.cfg"))
                \o Into("image_to_pdf.cfg", Out("watermarked")), A, A)
    BY <1>3, <2>2, FlowThen
  <2>. QED BY <2>3, FlowWhen DEF ImageWatermark
<1>6. Flow(c, Keep(Out("output")), B, Ending)
  <2>1. Flow(c, Keep(Out("output")), B, B \cup Ending)
    BY FlowKeep, OutIs
  <2>. QED BY <2>1, FlowWeaken
<1>7. \A cfg \in RequiredConfigs : Flow(c, Run(cfg, {Cur}, {Out("output")}), A, B)
  BY <1>1, FlowRun, OutIs, CurIs DEF Within
<1> HIDE DEF B
<1>8. Flow(c, ViaIntermediate(Out("output")), A, Ending)
  <2>1. Flow(c, Into("image.cfg", Out("intermediate"))
                \o Run("image_to_pdf.cfg", {Cur}, {Out("output")}), A, B)
    BY <1>2, <1>3, <1>7, FlowThen
  <2>. QED BY <1>6, <2>1, FlowThen DEF ViaIntermediate
<1>9. Flow(c, ConvertWithResize(opt), A, Ending)
  <2> DEFINE sizes == ReadSeparately \o Check \o Into("image.cfg", Out("resized.v"))
             first == IF "exact" \in opt THEN sizes ELSE <<>>
  <2>1. Flow(c, sizes, A, A)
    <3>1. Flow(c, Probe("image.cfg"), A, A)
      BY <1>1, <1>2, FlowProbe
    <3>2. Flow(c, ReadSeparately, A, A)
      BY <3>1, FlowThen DEF ReadSeparately
    <3>3. Flow(c, ReadSeparately \o Check, A, A)
      BY <1>1, <3>2, FlowThen
    <3>. QED BY <1>3, <3>3, FlowThen
  <2>2. Flow(c, first, A, A)
    <3> HIDE DEF sizes
    <3>. QED BY <2>1, FlowNothing
  <2> SUFFICES Flow(c, first \o Run("image.cfg", {Cur}, {Out("output")}) \o Keep(Out("output")), A, Ending)
    BY DEF ConvertWithResize
  <2> HIDE DEF first
  <2>3. Flow(c, first \o Run("image.cfg", {Cur}, {Out("output")}), A, B)
    BY <1>2, <1>7, <2>2, FlowThen
  <2>. QED BY <1>6, <2>3, FlowThen
<1>10. Flow(c, write, A, Ending)
  BY <1>2, <1>6, <1>7, FlowThen
<1>11. Flow(c, last, A, Ending)
  <2> HIDE DEF write
  <2>. QED BY <1>8, <1>9, <1>10
<1> SUFFICES Flow(c, Check \o Prepare \o SetupMagickPolicy \o ValidateImageDimensions
                     \o crop \o rotation \o watermark \o last, G, Ending)
  BY DEF ImageConvert
<1> HIDE DEF crop, rotation, watermark, last
<1>12. Flow(c, SetupMagickPolicy, A, A) /\ Flow(c, ValidateImageDimensions, A, A)
  <2>1. Job("policy.xml")[1] \in {"input", "job", "output"}
    BY DEF Job
  <2>. QED BY <1>1, <2>1, HostKept, FlowDimensions DEF SetupMagickPolicy, Within
<1>13. Flow(c, Check \o Prepare, G, A)
  BY <1>1, FlowThen
<1>14. Flow(c, Check \o Prepare \o SetupMagickPolicy \o ValidateImageDimensions, G, A)
  <2>1. Flow(c, Check \o Prepare \o SetupMagickPolicy, G, A)
    BY <1>12, <1>13, FlowThen
  <2>. QED BY <1>12, <2>1, FlowThen
<1>15. Flow(c, Check \o Prepare \o SetupMagickPolicy \o ValidateImageDimensions \o crop, G, A)
  BY <1>4, <1>14, FlowThen
<1>16. Flow(c, Check \o Prepare \o SetupMagickPolicy \o ValidateImageDimensions \o crop \o rotation, G, A)
  BY <1>4, <1>15, FlowThen
<1>17. Flow(c, Check \o Prepare \o SetupMagickPolicy \o ValidateImageDimensions
               \o crop \o rotation \o watermark, G, A)
  BY <1>5, <1>16, FlowThen
<1>. QED BY <1>11, <1>17, FlowThen

LEMMA FlowPDFCompress ==
  ASSUME NEW c, NEW G, Before(G), NEW opt
  PROVE  Flow(c, PDFCompress(opt), G, Ending)
<1> DEFINE A == G \cup {Prepared}
           B == A \cup {Out("output.pdf")}
<1>1. Within(A) /\ Flow(c, Prepare, G, A) /\ Within(B)
  BY PrepareWithin, WithinMore, OutIs
<1>2. Flow(c, Ghostscript, A, B)
  BY <1>1, FlowRun, OutIs, CurIs DEF Ghostscript, Within, RequiredConfigs
<1>3. Flow(c, Ghostscript, B, B)
  <2>1. Flow(c, Ghostscript, B, B \cup {Out("output.pdf")})
    BY <1>1, FlowRun, OutIs, CurIs DEF Ghostscript, Within, RequiredConfigs
  <2>. QED BY <2>1, FlowWeaken
<1>4. Flow(c, KeepSmaller(Out("output.pdf")), B, Ending)
  <2>1. Flow(c, KeepSmaller(Out("output.pdf")), B, B \cup Ending)
    BY <1>1, FlowKeepSmaller, OutIs DEF Within
  <2>. QED BY <2>1, FlowWeaken
<1>5. Flow(c, Keep(Out("output.pdf")), B, Ending)
  <2>1. Flow(c, Keep(Out("output.pdf")), B, B \cup Ending)
    BY FlowKeep, OutIs
  <2>. QED BY <2>1, FlowWeaken
<1>6. Flow(c, Copy(Out("output.pdf")), A, B)
  BY <1>1, FlowCopy, OutIs
<1> HIDE DEF A, B
<1>7. Flow(c, PDFCompressWithLevel, G, Ending)
  <2>1. Flow(c, Prepare \o Ghostscript, G, B)
    BY <1>1, <1>2, FlowThen
  <2>. QED BY <1>4, <2>1, FlowThen DEF PDFCompressWithLevel
<1>8. Flow(c, PDFCompressToTargetSize(opt), G, Ending)
  <2> DEFINE again == Maybe(Ghostscript)
             tries == Ghostscript \o again \o again \o again
             work == IF "already" \in opt THEN Copy(Out("output.pdf")) ELSE tries
  <2>1. Flow(c, again, B, B)
    BY <1>3, FlowMaybe
  <2>2. Flow(c, tries, A, B)
    <3> HIDE DEF again
    <3>1. Flow(c, Ghostscript \o again, A, B)
      BY <1>2, <2>1, FlowThen
    <3>2. Flow(c, Ghostscript \o again \o again, A, B)
      BY <2>1, <3>1, FlowThen
    <3>. QED BY <2>1, <3>2, FlowThen
  <2>3. Flow(c, work, A, B)
    <3> HIDE DEF tries
    <3>. QED BY <1>6, <2>2
  <2> SUFFICES Flow(c, Prepare \o work \o Keep(Out("output.pdf")), G, Ending)
    BY DEF PDFCompressToTargetSize
  <2> HIDE DEF work
  <2>4. Flow(c, Prepare \o work, G, B)
    BY <1>1, <2>3, FlowThen
  <2>. QED BY <1>5, <2>4, FlowThen
<1>. QED BY <1>7, <1>8 DEF PDFCompress

-----------------------------------------------------------------------------
(* Converters of a list of files                                           *)

LEMMA UploadIs ==
  ASSUME NEW i
  PROVE  Upload(i)[1] = "upload" /\ Upload(i)[3][1] = i /\ Upload(i) # Cur
BY DEF Upload, Cur

Sent(files, G) ==
  /\ Len(files) \in Nat /\ DOMAIN files = 1..Len(files)
  /\ \A i \in DOMAIN files : Upload(i) \in G

LEMMA FlowArchive ==
  ASSUME NEW c, NEW files, NEW G, Before(G), Sent(files, G)
  PROVE  Flow(c, Archive(files), G, Ending)
<1> DEFINE A == G \cup {Prepared}
           reads == {Upload(i) : i \in DOMAIN files}
<1>1. Within(A) /\ Flow(c, Prepare, G, A) /\ Flow(c, Check, G, G)
  BY PrepareWithin, FlowCheck DEF Before
<1>2. "archive.cfg" \in RequiredConfigs /\ reads \subseteq A /\ Names(reads)
  BY UploadIs DEF RequiredConfigs, Sent, Names
<1> SUFFICES Flow(c, Check \o Prepare \o Run("archive.cfg", reads, {Out("output")})
                     \o Keep(Out("output")), G, Ending)
  BY DEF Archive
<1> HIDE DEF A, reads
<1>3. Flow(c, Check \o Prepare, G, A)
  BY <1>1, FlowThen
<1>4. Flow(c, Check \o Prepare \o Run("archive.cfg", reads, {Out("output")})
              \o Keep(Out("output")), G, A \cup Ending)
  BY <1>1, <1>2, <1>3, FlowRunKeep, CurIs
<1>. QED BY <1>4, FlowWeaken

LEMMA FlowImageToPDF ==
  ASSUME NEW c, NEW files, NEW G, Before(G), Sent(files, G), Len(files) >= 1
  PROVE  Flow(c, ImageToPDF(files), G, Ending)
<1> DEFINE A == G \cup {Prepared}
           reads == {Upload(i) : i \in DOMAIN files}
           list == GetFileList(files, 1)
<1>1. Within(A) /\ Flow(c, Prepare, G, A)
  BY PrepareWithin
<1>2. "image_to_pdf.cfg" \in RequiredConfigs /\ reads \subseteq A /\ Names(reads)
  BY UploadIs DEF RequiredConfigs, Sent, Names
<1>3. Flow(c, list, G, G)
  BY FlowNothing DEF GetFileList, When, Sent
<1>4. Flow(c, SetupMagickPolicy, A, A)
  <2>1. Job("policy.xml")[1] \in {"input", "job", "output"}
    BY DEF Job
  <2>. QED BY <1>1, <2>1, HostKept DEF SetupMagickPolicy, Within
<1> SUFFICES Flow(c, list \o Prepare \o SetupMagickPolicy
                     \o Run("image_to_pdf.cfg", reads, {Out("output.pdf")})
                     \o Keep(Out("output.pdf")), G, Ending)
  BY DEF ImageToPDF
<1> HIDE DEF A, reads, list
<1>5. Flow(c, list \o Prepare, G, A)
  BY <1>1, <1>3, FlowThen
<1>6. Flow(c, list \o Prepare \o SetupMagickPolicy, G, A)
  BY <1>4, <1>5, FlowThen
<1>7. Flow(c, list \o Prepare \o SetupMagickPolicy
              \o Run("image_to_pdf.cfg", reads, {Out("output.pdf")})
              \o Keep(Out("output.pdf")), G, A \cup Ending)
  BY <1>1, <1>2, <1>6, FlowRunKeep, CurIs
<1>. QED BY <1>7, FlowWeaken

-----------------------------------------------------------------------------
(* The converters that accepted requests can never pass                    *)

(* Behind a step that blocks nothing is reached.                           *)
LEMMA FlowFail ==
  ASSUME NEW A
  PROVE  Flow(FALSE, Fail, A, A \cup {Never})
BY FlowBlocked DEF Fail

LEMMA NeverIs == Never \notin Ending
BY DEF Never, Ending, Ended, Recorded

(* The converted pages of a list; an image is where a merge ends.          *)
Converted(files) == {ConvertedPage(i) : i \in {j \in DOMAIN files : IsImage(files[j])}}

HasImage(files) == \E i \in DOMAIN files : IsImage(files[i])

LEMMA FlowPages ==
  ASSUME NEW c \in BOOLEAN, NEW files, NEW A, Within(A), Sent(files, A), c => ~HasImage(files)
  PROVE  /\ Flow(c, ConvertPages(files), A, A \cup Converted(files))
         /\ HasImage(files) => Flow(c, ConvertPages(files), A, A \cup Converted(files) \cup {Never})
<1> DEFINE s == ConvertPages(files)
           n == Len(files)
           Pages(i) == {j \in DOMAIN files : j < i /\ IsImage(files[j])}
           a == [i \in 1..(n + 1) |->
                   A \cup {ConvertedPage(j) : j \in Pages(i)} \cup {x \in {Never} : Pages(i) # {}}]
<1>1. n \in Nat /\ DOMAIN files = 1..n
  BY DEF Sent
<1>2. s = [i \in 1..n |-> IF IsImage(files[i]) THEN ConvertImageToPDF(i) ELSE Step("skip")]
  BY <1>1 DEF ConvertPages
<1> DEFINE T == {IF IsImage(files[i]) THEN ConvertImageToPDF(i) ELSE Step("skip") : i \in 1..n}
<1>3. s \in [1..n -> T]
  BY <1>2
<1> HIDE DEF T
<1>4. s \in Seq(T) /\ Len(s) = n
  <2> HIDE DEF s, n
  <2>. QED BY <1>1, <1>3
<1>5. a[1] \subseteq A
  <2>1. Pages(1) = {}
    BY <1>1
  <2>. QED BY <1>1, <2>1
<1>6. \A i \in 1..n : /\ i + 1 \in 1..(n + 1)
                      /\ Pages(i + 1) = IF IsImage(files[i]) THEN Pages(i) \cup {i} ELSE Pages(i)
  BY <1>1
<1>7. ASSUME NEW i \in 1..n, ~IsImage(files[i])
      PROVE  /\ Needs(s[i], a[i]) /\ ~Blocks(s[i]) /\ s[i].op = "skip" /\ s[i].skip = 0
             /\ Rests(s[i], a[i]) = a[i] /\ a[i + 1] = a[i]
  <2>1. s[i] = Step("skip")
    BY <1>2, <1>7
  <2> HIDE DEF s
  <2>2. s[i].op = "skip" /\ s[i].skip = 0 /\ s[i].reads = {} /\ s[i].writes = {}
    <3>1. LET t == Step("skip") IN t.op = "skip" /\ t.skip = 0 /\ t.reads = {} /\ t.writes = {}
      BY DEF Step
    <3>. QED BY <2>1, <3>1
  <2>3. a[i + 1] = a[i]
    <3>1. Pages(i + 1) = Pages(i) /\ i \in 1..(n + 1) /\ i + 1 \in 1..(n + 1)
      BY <1>1, <1>6, <1>7
    <3> HIDE DEF Pages
    <3>. QED BY <3>1
  <2> HIDE DEF a
  <2>. QED BY <2>2, <2>3 DEF Needs, Names, Blocks, Rests
<1>8. ASSUME NEW i \in 1..n, IsImage(files[i])
      PROVE  Needs(s[i], a[i]) /\ Blocks(s[i]) /\ s[i].op # "skip" /\ ~c
  <2> DEFINE r == [Step("run") EXCEPT !.cfg = "image_to_pdf.cfg"]
             t == [r EXCEPT !.reads = {Upload(i)}]
             u == [t EXCEPT !.writes = {ConvertedPage(i)}]
  <2>1. s[i] = ConvertImageToPDF(i) /\ ConvertImageToPDF(i) = u
    BY <1>2, <1>8 DEF ConvertImageToPDF
  <2>2. /\ u.op = "run" /\ u.cfg = "image_to_pdf.cfg" /\ u.reads = {Upload(i)}
        /\ u.writes = {ConvertedPage(i)} /\ u.must
    BY DEF Step
  <2>3. A \subseteq a[i]
    BY <1>1
  <2>4. Upload(i) \in a[i] /\ Prepared \in a[i]
    <3> HIDE DEF a
    <3>. QED BY <1>1, <2>3 DEF Sent, Within
  <2>5. ~c
    BY <1>1, <1>8 DEF HasImage
  <2>6. ConvertedPage(i)[1] = "input" /\ "image_to_pdf.cfg" \in RequiredConfigs
    BY DEF ConvertedPage, RequiredConfigs
  <2> HIDE DEF a, u
  <2>7. Needs(u, a[i])
    BY <2>2, <2>4, <2>6, UploadIs DEF Needs, Names
  <2>8. Blocks(u)
    BY <2>2, <2>6 DEF Blocks
  <2>. QED BY <2>1, <2>2, <2>5, <2>7, <2>8
<1>9. Follows(c, s, a)
  <2> SUFFICES ASSUME NEW i \in 1..Len(s)
               PROVE  /\ Needs(s[i], a[i])
                      /\ c => ~Blocks(s[i])
                      /\ Blocks(s[i]) \/ a[i + 1] \subseteq Rests(s[i], a[i]) \cup Gains(s[i])
                      /\ s[i].op = "skip" =>
                           /\ s[i].skip \in Nat /\ i + s[i].skip <= Len(s)
                           /\ a[i + 1 + s[i].skip] \subseteq a[i]
    BY DEF Follows
  <2>0. i \in 1..n /\ i + 1 + 0 = i + 1 /\ i + 0 <= n
    BY <1>1, <1>4
  <2> HIDE DEF s, a
  <2>1. CASE IsImage(files[i])
    BY <1>8, <2>0, <2>1
  <2>2. CASE ~IsImage(files[i])
    BY <1>4, <1>7, <2>0, <2>2
  <2>. QED BY <2>1, <2>2
<1>10. /\ A \cup Converted(files) \subseteq a[n + 1]
       /\ HasImage(files) => Never \in a[n + 1]
  <2>1. Pages(n + 1) = {j \in DOMAIN files : IsImage(files[j])} /\ n + 1 \in 1..(n + 1)
    BY <1>1
  <2>2. a[n + 1] = A \cup {ConvertedPage(j) : j \in Pages(n + 1)} \cup {x \in {Never} : Pages(n + 1) # {}}
    BY <2>1
  <2>3. HasImage(files) => Pages(n + 1) # {}
    BY <2>1 DEF HasImage
  <2>4. {ConvertedPage(j) : j \in Pages(n + 1)} = Converted(files)
    BY <2>1 DEF Converted
  <2> HIDE DEF a, Pages
  <2>. QED BY <2>2, <2>3, <2>4
<1> HIDE DEF a
<1>11. /\ Flow(c, s, A, A \cup Converted(files))
       /\ HasImage(files) => Flow(c, s, A, A \cup Converted(files) \cup {Never})
  <2> DEFINE Z == A \cup Converted(files)
             X == Z \cup {Never}
  <2>1. Len(s) + 1 = n + 1 /\ Z \subseteq a[n + 1] /\ (HasImage(files) => X \subseteq a[n + 1])
    BY <1>4, <1>10
  <2> HIDE DEF s, Z, X, n
  <2>2. Flow(c, s, A, Z) /\ (HasImage(files) => Flow(c, s, A, X))
    BY <1>4, <1>5, <1>9, <2>1 DEF Flow
  <2>. QED BY <2>2 DEF Z, X
<1>. QED BY <1>11

LEMMA WithinNever ==
  ASSUME NEW A, Within(A)
  PROVE  Within(A \cup {Never})
BY NeverIs DEF Within

LEMMA FlowPDFMerge ==
  ASSUME NEW c \in BOOLEAN, NEW files, NEW G, Before(G), Sent(files, G),
         c => Len(files) >= 2 /\ ~HasImage(files)
  PROVE  /\ Len(files) >= 2 /\ ~HasImage(files) => Flow(c, PDFMerge(files), G, Ending)
         /\ ~(Len(files) >= 2 /\ ~HasImage(files)) => Flow(c, PDFMerge(files), G, {Never})
<1> DEFINE list == GetFileList(files, 2)
           H == IF Len(files) < 2 THEN G \cup {Never} ELSE G
           A == H \cup {Prepared}
           B == A \cup Converted(files)
           X == IF HasImage(files) THEN B \cup {Never} ELSE B
           policy == When(\E i \in DOMAIN files : IsImage(files[i]), SetupMagickPolicy)
           pages == ConvertPages(files)
           reads == {Page(files, i) : i \in DOMAIN files}
<1>1. Len(files) \in Nat
  BY DEF Sent
<1>2. Before(H) /\ Sent(files, H)
  BY NeverIs DEF Before, Sent
<1>3. Flow(c, list, G, H)
  <2>1. CASE Len(files) < 2
    <3>1. c = FALSE
      BY <1>1, <2>1
    <3>. QED BY <2>1, <3>1, FlowFail DEF GetFileList, When
  <2>2. CASE ~(Len(files) < 2)
    BY <2>2, FlowNothing DEF GetFileList, When
  <2>. QED BY <2>1, <2>2
<1> HIDE DEF H
<1>4. Within(A) /\ Flow(c, Prepare, H, A) /\ Sent(files, A)
  BY <1>2, PrepareWithin DEF Sent
<1>5. Flow(c, policy, A, A)
  <2>1. Job("policy.xml")[1] \in {"input", "job", "output"}
    BY DEF Job
  <2>2. Flow(c, SetupMagickPolicy, A, A)
    BY <1>4, <2>1, HostKept DEF SetupMagickPolicy, Within
  <2>. QED BY <2>2, FlowWhen
<1> HIDE DEF A
<1>6. Flow(c, pages, A, X)
  BY <1>4, FlowPages DEF HasImage
<1>7. Within(X) /\ reads \subseteq X /\ Names(reads)
  <2>1. \A n \in Converted(files) : n[1] = "input"
    BY DEF Converted, ConvertedPage
  <2>2. \A n \in Ending : n[1] = "fact"
    BY DEF Ending, Ended, Recorded
  <2>3. Within(B)
    BY <1>4, <2>1, <2>2 DEF Within
  <2>4. reads \subseteq B
    BY <1>4 DEF Sent, Converted, Page
  <2>5. Names(reads)
    BY UploadIs DEF Names, Page, ConvertedPage
  <2> HIDE DEF B, reads
  <2>. QED BY <2>3, <2>4, <2>5, WithinNever
<1>8. "pdf.cfg" \in RequiredConfigs
  BY DEF RequiredConfigs
<1>9. ~(Len(files) >= 2 /\ ~HasImage(files)) => Never \in X
  <2>1. Len(files) < 2 => Never \in A
    BY DEF A, H
  <2>. QED BY <1>1, <2>1
<1> HIDE DEF X, B, list, policy, pages, reads
<1>10. Flow(c, list \o Prepare, G, A)
  BY <1>3, <1>4, FlowThen
<1>11. Flow(c, list \o Prepare \o policy, G, A)
  BY <1>5, <1>10, FlowThen
<1>12. Flow(c, list \o Prepare \o policy \o pages, G, X)
  BY <1>6, <1>11, FlowThen
<1>13. Flow(c, list \o Prepare \o policy \o pages \o Run("pdf.cfg", reads, {Out("output.pdf")})
               \o Keep(Out("output.pdf")), G, X \cup Ending)
  BY <1>7, <1>8, <1>12, FlowRunKeep, CurIs
<1>14. Flow(c, PDFMerge(files), G, X \cup Ending)
  BY <1>13 DEF PDFMerge, list, policy, pages, reads
<1>. QED BY <1>9, <1>14, FlowWeaken

-----------------------------------------------------------------------------
LEMMA FlowOCR ==
  ASSUME NEW c \in BOOLEAN, NEW G, Before(G), NEW type \in Images \cup {"pdf"}, c => type # "tiff"
  PROVE  /\ type # "tiff" => Flow(c, OCR(type), G, Ending)
         /\ type = "tiff" => Flow(c, OCR(type), G, {Never})
<1> DEFINE A == G \cup {Prepared}
           X == IF type = "tiff" THEN A \cup {Never} ELSE A
           dimensions == When(type # "pdf", ValidateImageDimensions)
<1>1. Within(A) /\ Flow(c, Prepare, G, A)
  BY PrepareWithin
<1> HIDE DEF A
<1>2. Flow(c, dimensions, A, A)
  <2>1. Flow(c, ValidateImageDimensions, A, A)
    BY <1>1, FlowDimensions
  <2>. QED BY <2>1, FlowWhen
<1>3. {"image.cfg", "pdf.cfg", "ocr.cfg"} \subseteq RequiredConfigs
  BY DEF RequiredConfigs
<1>4. Flow(c, OCRPreprocess(type), A, X)
  <2>1. CASE type \in {"jpeg", "png", "bmp"}
    <3>1. Flow(c, Tolerated(Into("image.cfg", Out("preprocessed.png"))), A, A)
      BY <1>1, <1>3, FlowToleratedInto
    <3>. QED BY <2>1, <3>1 DEF OCRPreprocess
  <2>2. CASE type \in {"heic", "webp"}
    <3>1. Flow(c, Into("image.cfg", Out("preprocessed.png")), A, A)
      BY <1>1, <1>3, FlowInto
    <3>. QED BY <2>2, <3>1 DEF OCRPreprocess
  <2>3. CASE type = "pdf"
    <3>1. Flow(c, Into("pdf.cfg", Out("preprocessed.tiff")), A, A)
      BY <1>1, <1>3, FlowInto
    <3>. QED BY <2>3, <3>1 DEF OCRPreprocess
  <2>4. CASE type = "tiff"
    <3>1. c = FALSE
      BY <2>4
    <3>. QED BY <2>4, <3>1, FlowFail DEF OCRPreprocess
  <2>. QED BY <2>1, <2>2, <2>3, <2>4 DEF Images
<1>5. Within(X) /\ {Cur} \subseteq X
  BY <1>1, WithinNever DEF Within
<1>6. type = "tiff" => Never \in X
  OBVIOUS
<1> HIDE DEF X, dimensions
<1>7. Flow(c, Prepare \o dimensions, G, A)
  BY <1>1, <1>2, FlowThen
<1>8. Flow(c, Prepare \o dimensions \o OCRPreprocess(type), G, X)
  BY <1>4, <1>7, FlowThen
<1>9. Flow(c, Prepare \o dimensions \o OCRPreprocess(type) \o Run("ocr.cfg", {Cur}, {Out("output.txt")})
              \o Keep(Out("output.txt")), G, X \cup Ending)
  BY <1>3, <1>5, <1>8, FlowRunKeep, CurIs
<1>10. Flow(c, OCR(type), G, X \cup Ending)
  BY <1>9 DEF OCR, dimensions
<1>. QED BY <1>6, <1>10, FlowWeaken

LEMMA FlowOpenSSL ==
  ASSUME NEW c, NEW A, Within(A), NEW from, NEW to, NEW file
  PROVE  Flow(c, OpenSSL(from, to, Out(file)), A, A \cup {Out(file)})
<1>1. \A name : Flow(c, PassFile(name), A, A)
  <2> TAKE name
  <2> DEFINE t == [Step("host") EXCEPT !.writes = {Out(name)}]
             s == <<t>>
  <2>1. /\ t.op = "host" /\ t.reads = {} /\ t.writes = {Out(name)}
        /\ DOMAIN t = {"op", "cfg", "reads", "writes", "must", "skip"}
    BY DEF Step
  <2>2. PassFile(name) = Tolerated(s)
    BY DEF PassFile, Host
  <2> HIDE DEF t
  <2>3. s \in Seq({t}) /\ Len(s) = 1 /\ s[1] = t
    OBVIOUS
  <2>4. Needs([t EXCEPT !.must = FALSE], A)
    <3> DEFINE u == [t EXCEPT !.must = FALSE]
    <3>1. u.op = "host" /\ u.reads = {} /\ u.writes = {Out(name)}
      BY <2>1
    <3> HIDE DEF u
    <3>2. Needs(u, A)
      BY <3>1, OutIs DEF Needs, Names
    <3>. QED BY <3>2 DEF u
  <2>5. \A i \in 1..Len(s) : s[i] = t
    BY <2>3
  <2> HIDE DEF s
  <2>6. Flow(c, Tolerated(s), A, A)
    BY <2>1, <2>3, <2>4, <2>5, FlowTolerated DEF Within
  <2>. QED BY <2>2, <2>6
<1> DEFINE passout == When(to = "p12", PassFile("passout"))
           passin == When(from = "p12", PassFile("passin"))
<1>2. Flow(c, passout, A, A) /\ Flow(c, passin, A, A)
  BY <1>1, FlowWhen
<1>3. Flow(c, Run("cert.cfg", {Cur}, {Out(file)}), A, A \cup {Out(file)})
  BY FlowRun, OutIs, CurIs DEF Within, RequiredConfigs
<1> HIDE DEF passout, passin
<1>4. Flow(c, passout \o passin, A, A)
  BY <1>2, FlowThen
<1>5. Flow(c, passout \o passin \o Run("cert.cfg", {Cur}, {Out(file)}), A, A \cup {Out(file)})
  BY <1>3, <1>4, FlowThen
<1>. QED BY <1>5 DEF OpenSSL, passout, passin

LEMMA FlowCertConvert ==
  ASSUME NEW c \in BOOLEAN, NEW G, Before(G), NEW source, NEW target, c => source # target
  PROVE  /\ source # target => Flow(c, CertConvert(source, target), G, Ending)
         /\ source = target => Flow(c, CertConvert(source, target), G, {Never})
<1> DEFINE H == IF source = target THEN G \cup {Never} ELSE G
           A == H \cup {Prepared}
           B == A \cup {Out("output")}
           same == When(source = target, Fail)
           direct == OpenSSL(source, target, Out("output"))
           first == OpenSSL(source, "pem", Out("intermediate.pem")) \o Use(Out("intermediate.pem"))
           second == OpenSSL("pem", target, Out("output"))
           work == IF CanDirectConvert(source, target) THEN direct
                   ELSE OpenSSL(source, "pem", Out("intermediate.pem"))
                        \o Use(Out("intermediate.pem")) \o second
<1>1. Flow(c, Check, G, G) /\ Before(H)
  BY FlowCheck, NeverIs DEF Before
<1>2. Flow(c, same, G, H)
  <2>1. CASE source = target
    <3>1. c = FALSE
      BY <2>1
    <3>. QED BY <2>1, <3>1, FlowFail DEF When
  <2>2. CASE source # target
    BY <2>2, FlowNothing DEF When
  <2>. QED BY <2>1, <2>2
<1>3. source = target => Never \in B
  OBVIOUS
<1> HIDE DEF H
<1>4. Within(A) /\ Flow(c, Prepare, H, A)
  BY <1>1, PrepareWithin
<1> HIDE DEF A
<1>5. Flow(c, work, A, B)
  <2>1. Flow(c, direct, A, B) /\ Flow(c, second, A, B)
    BY <1>4, FlowOpenSSL
  <2>2. Flow(c, first, A, A)
    <3>1. Flow(c, OpenSSL(source, "pem", Out("intermediate.pem")), A, A \cup {Out("intermediate.pem")})
      BY <1>4, FlowOpenSSL
    <3> DEFINE C == A \cup {Out("intermediate.pem")}
    <3>2. Within(C) /\ Out("intermediate.pem")[1] = "output"
      BY <1>4, WithinMore, OutIs
    <3>3. Flow(c, Use(Out("intermediate.pem")), C, C)
      BY <3>2, FlowUse DEF Within
    <3>4. Flow(c, Use(Out("intermediate.pem")), C, A)
      BY <3>3, FlowWeaken
    <3> HIDE DEF C
    <3>. QED BY <3>1, <3>4, FlowThen DEF C
  <2> HIDE DEF B, direct, first, second
  <2>3. Flow(c, first \o second, A, B)
    BY <2>1, <2>2, FlowThen
  <2>. QED BY <2>1, <2>3 DEF first
<1>6. Flow(c, Keep(Out("output")), B, B \cup Ending)
  BY FlowKeep, OutIs
<1> HIDE DEF B, same, work
<1>7. Flow(c, Check \o same, G, H)
  BY <1>1, <1>2, FlowThen
<1>8. Flow(c, Check \o same \o Prepare, G, A)
  BY <1>4, <1>7, FlowThen
<1>9. Flow(c, Check \o same \o Prepare \o work, G, B)
  BY <1>5, <1>8, FlowThen
<1>10. Flow(c, Check \o same \o Prepare \o work \o Keep(Out("output")), G, B \cup Ending)
  BY <1>6, <1>9, FlowThen
<1>11. Flow(c, CertConvert(source, target), G, B \cup Ending)
  BY <1>10 DEF CertConvert, same, work
<1>. QED BY <1>3, <1>11, FlowWeaken

LEMMA FlowVideoCompress ==
  ASSUME NEW c \in BOOLEAN, NEW G, Before(G), NEW opt, c => ~({"target", "subsecond"} \subseteq opt)
  PROVE  /\ ~({"target", "subsecond"} \subseteq opt) => Flow(c, VideoCompress(opt), G, Ending)
         /\ {"target", "subsecond"} \subseteq opt => Flow(c, VideoCompress(opt), G, {Never})
<1> DEFINE gap == {"target", "subsecond"} \subseteq opt
           A == G \cup {Prepared}
           X == IF gap THEN A \cup {Never} ELSE A
           Y == X \cup {Out("ffmpeg2pass")}
           Z == X \cup {Out("output")}
           passes == VideoCompressToTargetSize(opt)
           encode == Run("ffmpeg.cfg", {Cur}, {Out("output")})
           work == IF "target" \in opt THEN passes ELSE encode
<1>1. Within(A) /\ Flow(c, Prepare, G, A)
  BY PrepareWithin
<1>2. "ffmpeg.cfg" \in RequiredConfigs
  BY DEF RequiredConfigs
<1> HIDE DEF A
<1>3. Within(X) /\ (gap => Never \in X) /\ (~gap => X = A)
  BY <1>1, WithinNever
<1>4. "target" \in opt => Flow(c, DivideByDuration(opt), A, X)
  <2>1. CASE "subsecond" \in opt /\ "target" \in opt
    <3>1. gap
      BY <2>1
    <3>2. c = FALSE
      BY <3>1
    <3> HIDE DEF gap
    <3>3. Flow(FALSE, <<Step("panic")>>, A, A \cup {Never})
      BY FlowBlocked
    <3>. QED BY <2>1, <3>1, <3>2, <3>3 DEF DivideByDuration, When
  <2>2. CASE "subsecond" \notin opt
    BY <2>2, FlowNothing DEF DivideByDuration, When
  <2>. QED BY <2>1, <2>2
<1> HIDE DEF gap, X
<1>5. Flow(c, encode, X, Z)
  BY <1>2, <1>3, FlowRun, OutIs, CurIs DEF Within
<1>6. ASSUME "target" \in opt
      PROVE  Flow(c, passes, A, Z)
  <2> DEFINE divide == DivideByDuration(opt)
             pass1 == Run("ffmpeg.cfg", {Cur}, {Out("ffmpeg2pass")})
             pass2 == Run("ffmpeg.cfg", {Cur, Out("ffmpeg2pass")}, {Out("output")})
  <2>1. Flow(c, pass1, X, Y)
    BY <1>2, <1>3, FlowRun, OutIs, CurIs DEF Within
  <2>2. Flow(c, pass2, Y, Z)
    <3>1. Within(Y) /\ {Cur, Out("ffmpeg2pass")} \subseteq Y /\ Names({Cur, Out("ffmpeg2pass")})
      BY <1>3, WithinMore, OutIs, CurIs DEF Within, Names
    <3>2. Flow(c, pass2, Y, Y \cup {Out("output")})
      BY <1>2, <3>1, FlowRun, OutIs, CurIs DEF Within
    <3>. QED BY <3>2, FlowWeaken
  <2>3. Flow(c, Check, A, A) /\ Flow(c, Probe("ffmpeg.cfg"), A, A)
    BY <1>1, <1>2, FlowCheck, FlowProbe DEF Within
  <2> HIDE DEF Y, Z, divide, pass1, pass2
  <2>4. Flow(c, Check \o Probe("ffmpeg.cfg"), A, A)
    BY <2>3, FlowThen
  <2>5. Flow(c, Check \o Probe("ffmpeg.cfg") \o Check, A, A)
    BY <2>3, <2>4, FlowThen
  <2>6. Flow(c, Check \o Probe("ffmpeg.cfg") \o Check \o divide, A, X)
    BY <1>4, <1>6, <2>5, FlowThen DEF divide
  <2>7. Flow(c, Check \o Probe("ffmpeg.cfg") \o Check \o divide \o pass1, A, Y)
    BY <2>1, <2>6, FlowThen
  <2>8. Flow(c, Check \o Probe("ffmpeg.cfg") \o Check \o divide \o pass1 \o pass2, A, Z)
    BY <2>2, <2>7, FlowThen
  <2>. QED BY <2>8 DEF VideoCompressToTargetSize, divide, pass1, pass2
<1>7. Flow(c, work, A, Z)
  <2>1. CASE "target" \in opt
    BY <1>6, <2>1
  <2>2. CASE "target" \notin opt
    <3>1. ~gap
      BY <2>2 DEF gap
    <3>. QED BY <1>3, <1>5, <2>2, <3>1
  <2>. QED BY <2>1, <2>2
<1>8. Flow(c, Keep(Out("output")), Z, Z \cup Ending)
  BY FlowKeep, OutIs
<1>9. gap => Never \in Z
  BY <1>3
<1> HIDE DEF Z, work
<1>10. Flow(c, Prepare \o work, G, Z)
  BY <1>1, <1>7, FlowThen
<1>11. Flow(c, Prepare \o work \o Keep(Out("output")), G, Z \cup Ending)
  BY <1>8, <1>10, FlowThen
<1>12. Flow(c, VideoCompress(opt), G, Z \cup Ending)
  BY <1>11 DEF VideoCompress, work
<1>. QED BY <1>9, <1>12, FlowWeaken DEF gap

-----------------------------------------------------------------------------
(* The image compressor, by the suffix that its files inherit              *)

OrNever(A, suffixes, ext) == IF OutputExt(ext) \in suffixes THEN A ELSE A \cup {Never}

LEMMA FlowNeedsSuffix ==
  ASSUME NEW c \in BOOLEAN, NEW A, Within(A), NEW suffixes, NEW ext, c => OutputExt(ext) \in suffixes
  PROVE  /\ Flow(c, NeedsSuffix(suffixes, ext), A, OrNever(A, suffixes, ext))
         /\ Within(OrNever(A, suffixes, ext)) /\ A \subseteq OrNever(A, suffixes, ext)
<1>1. CASE OutputExt(ext) \in suffixes
  BY <1>1, FlowNothing DEF NeedsSuffix, When, OrNever
<1>2. CASE OutputExt(ext) \notin suffixes
  <2>1. c = FALSE
    BY <1>2
  <2>. QED BY <1>2, <2>1, FlowFail, WithinNever DEF NeedsSuffix, When, OrNever
<1>. QED BY <1>1, <1>2

(* Not a JPEG name: its suffix is as it was given.                         *)
LEMMA OutputExtIs ==
  ASSUME NEW ext, ~IsJpeg(ext)
  PROVE  OutputExt(ext) = ext
BY DEF IsJpeg, OutputExt

LEMMA FlowCompressorCrop ==
  ASSUME NEW c \in BOOLEAN, NEW G, Before(G), NEW opt, NEW ext,
         c => OutputExt(ext) \in VipsSaves \/ "crop" \notin opt
  PROVE  /\ Flow(c, CompressorCrop(opt, ext), G, G)
         /\ OutputExt(ext) \notin VipsSaves /\ "crop" \in opt =>
              Flow(c, CompressorCrop(opt, ext), G, G \cup {Never})
<1> DEFINE A == G \cup {Prepared}
           X == OrNever(A, VipsSaves, ext)
<1>1. CASE "crop" \notin opt
  BY <1>1, FlowNothing DEF CompressorCrop, When
<1>2. CASE "crop" \in opt
  <2>1. Within(A) /\ Flow(c, Prepare, G, A) /\ Flow(c, Check, G, G)
    BY PrepareWithin, FlowCheck DEF Before
  <2>2. G \subseteq A
    OBVIOUS
  <2> HIDE DEF A
  <2>3. Flow(c, NeedsSuffix(VipsSaves, ext), A, X) /\ Within(X) /\ A \subseteq X
    BY <1>2, <2>1, FlowNeedsSuffix
  <2>4. OutputExt(ext) \notin VipsSaves => Never \in X
    BY DEF OrNever
  <2> HIDE DEF X
  <2>5. Flow(c, Into("image.cfg", Out("cropped")), X, X)
    BY <2>3, FlowInto DEF RequiredConfigs
  <2>6. Flow(c, Check \o Prepare, G, A)
    BY <2>1, FlowThen
  <2>7. Flow(c, Check \o Prepare \o NeedsSuffix(VipsSaves, ext), G, X)
    BY <2>3, <2>6, FlowThen
  <2>8. Flow(c, Check \o Prepare \o NeedsSuffix(VipsSaves, ext) \o Into("image.cfg", Out("cropped")), G, X)
    BY <2>5, <2>7, FlowThen
  <2>9. Flow(c, CompressorCrop(opt, ext), G, X)
    BY <1>2, <2>8 DEF CompressorCrop, When
  <2>10. Flow(c, CompressorCrop(opt, ext), G, G)
    BY <2>2, <2>3, <2>9, FlowWeaken
  <2>11. ASSUME OutputExt(ext) \notin VipsSaves
         PROVE  Flow(c, CompressorCrop(opt, ext), G, G \cup {Never})
    BY <2>2, <2>3, <2>4, <2>9, <2>11, FlowWeaken
  <2>. QED BY <2>10, <2>11
<1>. QED BY <1>1, <1>2

LEMMA FlowEncode ==
  ASSUME NEW c, NEW A, Within(A)
  PROVE  LET B == A \cup {Out("output")} IN
         /\ Within(B)
         /\ Flow(c, Encode, A, B) /\ Flow(c, Encode, B, B) /\ Flow(c, Maybe(Encode), B, B)
         /\ Flow(c, Keep(Out("output")), B, A \cup Ending)
         /\ Flow(c, KeepSmaller(Out("output")), B, A \cup Ending)
         /\ Flow(c, KeepEarlier(Out("output")), B, A \cup {Ended})
<1> DEFINE B == A \cup {Out("output")}
<1>1. Within(B)
  BY WithinMore, OutIs
<1>2. Flow(c, Encode, A, B)
  BY FlowRun, OutIs, CurIs DEF Encode, Within, RequiredConfigs
<1>3. Flow(c, Encode, B, B)
  <2>1. Flow(c, Encode, B, B \cup {Out("output")})
    BY <1>1, FlowRun, OutIs, CurIs DEF Encode, Within, RequiredConfigs
  <2>. QED BY <2>1, FlowWeaken
<1>4. Flow(c, Maybe(Encode), B, B)
  BY <1>3, FlowMaybe
<1>5. Flow(c, Keep(Out("output")), B, B \cup Ending) /\ Flow(c, KeepSmaller(Out("output")), B, B \cup Ending)
  BY <1>1, FlowKeep, FlowKeepSmaller, OutIs DEF Within
<1>6. Flow(c, KeepEarlier(Out("output")), B, (B \ Ending) \cup {Ended})
  BY FlowKeepEarlier, OutIs
<1>7. A \cup {Ended} \subseteq (B \ Ending) \cup {Ended}
  BY DEF Within
<1>. QED BY <1>1, <1>2, <1>3, <1>4, <1>5, <1>6, <1>7, FlowWeaken

LEMMA FlowTargetSize ==
  ASSUME NEW c \in BOOLEAN, NEW H, Before(H), NEW opt, NEW ext,
         c => IsJpeg(ext) \/ ext \in VipsCompresses \/ "already" \in opt
  PROVE  LET s == ImageCompressToTargetSize(opt, ext) IN
         /\ IsJpeg(ext) /\ "already" \notin opt => Flow(c, s, H, H \cup {Ended})
         /\ ~(IsJpeg(ext) /\ "already" \notin opt) => Flow(c, s, H, H \cup Ending)
         /\ ~IsJpeg(ext) /\ ext \notin VipsCompresses /\ "already" \notin opt =>
              Flow(c, s, H, {Never})
<1> DEFINE A == H \cup {Prepared}
           X == OrNever(A, VipsCompresses, ext)
           B == A \cup {Out("output")}
           Y == X \cup {Out("output")}
           s == ImageCompressToTargetSize(opt, ext)
           start == Prepare \o ValidateImageDimensions
           output == Keep(Out("output"))
<1>1. Within(A) /\ Flow(c, Prepare, H, A)
  BY PrepareWithin
<1>2. H \subseteq A
  OBVIOUS
<1> HIDE DEF A
<1>3. Flow(c, start, H, A)
  BY <1>1, FlowDimensions, FlowThen
<1>4. /\ Flow(c, Encode, A, B) /\ Flow(c, Encode, B, B) /\ Flow(c, Maybe(Encode), B, B)
      /\ Flow(c, output, B, A \cup Ending)
      /\ Flow(c, KeepEarlier(Out("output")), B, A \cup {Ended})
  BY <1>1, FlowEncode
<1>5. ASSUME "already" \in opt
      PROVE  Flow(c, s, H, A \cup Ending)
  <2>1. Flow(c, Copy(Out("output")), A, B)
    BY <1>1, FlowCopy, OutIs
  <2> DEFINE Z == A \cup Ending
             copy == Copy(Out("output"))
  <2>2. Flow(c, output, B, Z)
    BY <1>4
  <2> HIDE DEF B, start, Z, copy, output
  <2>3. Flow(c, copy \o output, A, Z)
    BY <2>1, <2>2, FlowThen DEF copy
  <2>4. Flow(c, start \o (copy \o output), H, Z)
    BY <1>3, <2>3, FlowThen
  <2>5. s = start \o (copy \o output)
    BY <1>5 DEF ImageCompressToTargetSize, start, copy, output
  <2>. QED BY <2>4, <2>5 DEF Z
<1>6. ASSUME "already" \notin opt, IsJpeg(ext)
      PROVE  Flow(c, s, H, A \cup {Ended})
  <2> DEFINE again == Maybe(Encode)
             scales == Encode \o Encode \o again
             best == KeepEarlier(Out("output"))
             Z == A \cup {Ended}
  <2>1. Flow(c, best, B, Z) /\ Flow(c, again, B, B)
    BY <1>4
  <2>2. Flow(c, Maybe(scales), B, B)
    <3> HIDE DEF B, again
    <3>1. Flow(c, Encode \o Encode, B, B)
      BY <1>4, FlowThen
    <3>2. Flow(c, scales, B, B)
      BY <2>1, <3>1, FlowThen
    <3>. QED BY <3>2, FlowMaybe
  <2> DEFINE size == Maybe(scales)
  <2> HIDE DEF B, start, again, scales, best, Z, size
  <2>3. Flow(c, Encode \o again, A, B)
    BY <1>4, <2>1, FlowThen
  <2>4. Flow(c, Encode \o again \o again, A, B)
    BY <2>1, <2>3, FlowThen
  <2>5. Flow(c, Encode \o again \o again \o size, A, B)
    BY <2>2, <2>4, FlowThen DEF size
  <2>6. Flow(c, Encode \o again \o again \o size \o best, A, Z)
    BY <2>1, <2>5, FlowThen
  <2>7. Flow(c, start \o (Encode \o again \o again \o size \o best), H, Z)
    BY <1>3, <2>6, FlowThen
  <2>8. s = start \o (Encode \o again \o again \o size \o best)
    BY <1>6 DEF ImageCompressToTargetSize, JpegTargetSize, start, again, scales, size, best
  <2>. QED BY <2>7, <2>8 DEF Z
<1>7. ASSUME "already" \notin opt, ~IsJpeg(ext)
      PROVE  Flow(c, s, H, X \cup Ending)
  <2>1. Flow(c, NeedsSuffix(VipsCompresses, ext), A, X) /\ Within(X)
    BY <1>1, <1>7, FlowNeedsSuffix, OutputExtIs
  <2> HIDE DEF X
  <2> DEFINE again == Maybe(Encode)
             suffix == NeedsSuffix(VipsCompresses, ext)
             Z == X \cup Ending
  <2>2. Flow(c, Encode, X, Y) /\ Flow(c, again, Y, Y) /\ Flow(c, output, Y, Z)
    BY <2>1, FlowEncode
  <2> HIDE DEF Y, start, again, Z, suffix, output
  <2>3. Flow(c, suffix \o Encode, A, Y)
    BY <2>1, <2>2, FlowThen DEF suffix
  <2>4. Flow(c, suffix \o Encode \o again, A, Y)
    BY <2>2, <2>3, FlowThen
  <2>5. Flow(c, suffix \o Encode \o again \o again, A, Y)
    BY <2>2, <2>4, FlowThen
  <2>6. Flow(c, suffix \o Encode \o again \o again \o output, A, Z)
    BY <2>2, <2>5, FlowThen
  <2>7. Flow(c, start \o (suffix \o Encode \o again \o again \o output), H, Z)
    BY <1>3, <2>6, FlowThen
  <2>8. s = start \o (suffix \o Encode \o again \o again \o output)
    BY <1>7 DEF ImageCompressToTargetSize, PngTargetSize, start, again, suffix, output
  <2>. QED BY <2>7, <2>8 DEF Z
<1>8. A \subseteq X
  BY DEF OrNever
<1>9. ~IsJpeg(ext) /\ ext \notin VipsCompresses => Never \in X
  BY OutputExtIs DEF OrNever
<1> HIDE DEF X, s
<1>10. IsJpeg(ext) /\ "already" \notin opt => Flow(c, s, H, H \cup {Ended})
  BY <1>2, <1>6, FlowWeaken
<1>11. ~(IsJpeg(ext) /\ "already" \notin opt) => Flow(c, s, H, H \cup Ending)
  BY <1>2, <1>5, <1>7, <1>8, FlowWeaken
<1>12. ~IsJpeg(ext) /\ ext \notin VipsCompresses /\ "already" \notin opt => Flow(c, s, H, {Never})
  BY <1>7, <1>9, FlowWeaken
<1>. QED BY <1>10, <1>11, <1>12 DEF s

LEMMA FlowQuality ==
  ASSUME NEW c \in BOOLEAN, NEW H, Before(H), NEW opt, NEW ext,
         c => IsJpeg(ext) \/ ext \in VipsCompresses \/ "resize" \notin opt
  PROVE  LET s == ImageCompressWithQuality(opt, ext) IN
         /\ Flow(c, s, H, H \cup Ending)
         /\ ~IsJpeg(ext) /\ ext \notin VipsCompresses /\ "resize" \in opt => Flow(c, s, H, {Never})
<1> DEFINE A == H \cup {Prepared}
           X == IF IsJpeg(ext) THEN A ELSE OrNever(A, VipsCompresses, ext)
           B == A \cup {Out("output")}
           s == ImageCompressWithQuality(opt, ext)
           start == Prepare \o ValidateImageDimensions
           smaller == KeepSmaller(Out("output"))
           suffix == When(~IsJpeg(ext), NeedsSuffix(VipsCompresses, ext))
<1>1. Within(A) /\ Flow(c, Prepare, H, A)
  BY PrepareWithin
<1>2. H \subseteq A /\ A \subseteq X /\ (~IsJpeg(ext) /\ ext \notin VipsCompresses => Never \in X)
  BY OutputExtIs DEF OrNever
<1> HIDE DEF A
<1>3. Flow(c, start, H, A)
  BY <1>1, FlowDimensions, FlowThen
<1>4. ASSUME "resize" \notin opt
      PROVE  Flow(c, s, H, A \cup Ending)
  <2> DEFINE Z == A \cup Ending
  <2>1. Flow(c, Encode, A, B) /\ Flow(c, smaller, B, Z)
    BY <1>1, FlowEncode
  <2> HIDE DEF B, start, smaller, Z
  <2>2. Flow(c, Encode \o smaller, A, Z)
    BY <2>1, FlowThen
  <2>3. Flow(c, start \o (Encode \o smaller), H, Z)
    BY <1>3, <2>2, FlowThen
  <2>4. s = start \o (Encode \o smaller)
    BY <1>4 DEF ImageCompressWithQuality, Encode, start, smaller
  <2>. QED BY <2>3, <2>4 DEF Z
<1>5. ASSUME "resize" \in opt
      PROVE  Flow(c, s, H, X \cup Ending)
  <2> DEFINE Z == X \cup Ending
             write == suffix \o Run("image.cfg", {Cur}, {Out("output")}) \o Keep(Out("output"))
  <2>1. Flow(c, suffix, A, X) /\ Within(X)
    <3>1. CASE IsJpeg(ext)
      BY <1>1, <3>1, FlowNothing DEF When
    <3>2. CASE ~IsJpeg(ext)
      BY <1>1, <1>5, <3>2, FlowNeedsSuffix, OutputExtIs DEF When
    <3>. QED BY <3>1, <3>2
  <2> HIDE DEF X, suffix, start
  <2>2. Flow(c, write, A, Z)
    BY <2>1, FlowRunKeep, CurIs DEF Within, RequiredConfigs
  <2>3. s = start \o write
    BY <1>5 DEF ImageCompressWithQuality, start, suffix
  <2> HIDE DEF Z, write
  <2>4. Flow(c, start \o write, H, Z)
    BY <1>3, <2>2, FlowThen
  <2>. QED BY <2>3, <2>4 DEF Z
<1> HIDE DEF X, s
<1>6. Flow(c, s, H, H \cup Ending)
  BY <1>2, <1>4, <1>5, FlowWeaken
<1>7. ~IsJpeg(ext) /\ ext \notin VipsCompresses /\ "resize" \in opt => Flow(c, s, H, {Never})
  BY <1>2, <1>5, FlowWeaken
<1>. QED BY <1>6, <1>7 DEF s

(* With a suffix whose writer takes no compression level, only a plain     *)
(* recompression and a file that is small enough already succeed; with one *)
(* that vips cannot write, nothing that is cropped.                        *)
LEMMA FlowImageCompress ==
  ASSUME NEW c \in BOOLEAN, NEW G, Before(G), NEW opt, NEW ext, NEW gap,
         gap <=> \/ "crop" \in opt /\ OutputExt(ext) \notin VipsSaves
                 \/ /\ ~IsJpeg(ext) /\ ext \notin VipsCompresses
                    /\ \/ "target" \in opt /\ "already" \notin opt
                       \/ "resize" \in opt /\ "target" \notin opt,
         c => ~gap
  PROVE  /\ gap => Flow(c, ImageCompress(opt, ext), G, {Never})
         /\ Flow(c, ImageCompress(opt, ext), G, {Ended})
         /\ ~("target" \in opt /\ "already" \notin opt /\ IsJpeg(ext)) =>
              Flow(c, ImageCompress(opt, ext), G, Ending)
<1> DEFINE crop == CompressorCrop(opt, ext)
           rest == IF "target" \in opt THEN ImageCompressToTargetSize(opt, ext)
                   ELSE ImageCompressWithQuality(opt, ext)
           H == IF OutputExt(ext) \notin VipsSaves /\ "crop" \in opt THEN G \cup {Never} ELSE G
           jpeg == "target" \in opt /\ "already" \notin opt /\ IsJpeg(ext)
<1>1. Before(H) /\ G \subseteq H
  BY NeverIs DEF Before
<1>2. Flow(c, crop, G, H)
  BY FlowCompressorCrop
<1>3. ImageCompress(opt, ext) = crop \o rest
  BY DEF ImageCompress
<1>4. /\ jpeg => Flow(c, rest, H, H \cup {Ended})
      /\ ~jpeg => Flow(c, rest, H, H \cup Ending)
      /\ gap => Never \in H \/ Flow(c, rest, H, {Never})
  <2>1. CASE "target" \in opt
    <3>1. /\ IsJpeg(ext) /\ "already" \notin opt => Flow(c, rest, H, H \cup {Ended})
          /\ ~(IsJpeg(ext) /\ "already" \notin opt) => Flow(c, rest, H, H \cup Ending)
          /\ ~IsJpeg(ext) /\ ext \notin VipsCompresses /\ "already" \notin opt =>
               Flow(c, rest, H, {Never})
      BY <1>1, <2>1, FlowTargetSize
    <3>. QED BY <2>1, <3>1
  <2>2. CASE "target" \notin opt
    <3>1. /\ Flow(c, rest, H, H \cup Ending)
          /\ ~IsJpeg(ext) /\ ext \notin VipsCompresses /\ "resize" \in opt =>
               Flow(c, rest, H, {Never})
      BY <1>1, <2>2, FlowQuality
    <3>. QED BY <2>2, <3>1
  <2>. QED BY <2>1, <2>2
<1> HIDE DEF H, rest, crop
<1>5. jpeg => Flow(c, crop \o rest, G, H \cup {Ended})
  BY <1>2, <1>4, FlowThen
<1>6. ~jpeg => Flow(c, crop \o rest, G, H \cup Ending)
  BY <1>2, <1>4, FlowThen
<1>7. gap => Never \in H \/ Flow(c, crop \o rest, G, {Never})
  BY <1>2, <1>4, FlowThen
<1>8. Flow(c, crop \o rest, G, {Ended}) /\ (~jpeg => Flow(c, crop \o rest, G, Ending))
  BY <1>5, <1>6, FlowWeaken DEF Ending
<1>9. gap => Flow(c, crop \o rest, G, {Never})
  BY <1>5, <1>6, <1>7, FlowWeaken
<1>. QED BY <1>3, <1>8, <1>9

=============================================================================
