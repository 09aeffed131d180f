---------------------------- MODULE NsjailRunner ----------------------------
(***************************************************************************)
(* NsjailRunner of internal/converter/nsjail.go: one external command at a *)
(* time for a job, with its deadline, the two kills of waitOrKill and the  *)
(* limited buffer its standard output is read through.                     *)
(***************************************************************************)
EXTENDS Integers

CONSTANTS
  DefaultStdout, LargeStdout,  \* the two limits of the buffer, in units of output
  MaxStdout                    \* bound: how much a command writes at most

ASSUME StdoutAssumption ==
  DefaultStdout \in Nat \ {0} /\ LargeStdout \in Nat \ {0} /\ MaxStdout \in Nat

VARIABLE call   \* the command that runs for the job, or the result of the last one

(* requiredConfigs: without one of them, or its policy, the server does    *)
(* not start (ValidateConfigs).                                            *)
RequiredConfigs ==
  {"archive.cfg", "cert.cfg", "ebook.cfg", "ffmpeg.cfg", "font.cfg", "image.cfg",
   "image_to_pdf.cfg", "metadata.cfg", "ocr.cfg", "pandoc.cfg", "pdf.cfg", "poppler.cfg",
   "pymupdf.cfg", "qpdf.cfg", "svg.cfg"}

(* child:   the process: running, alive after the first SIGKILL, or gone   *)
(* expired: ctx is done; forced: the second kill was sent                  *)
(* written: history, what the command wrote; kept, truncated: limitedBuffer*)
Call ==
  [stage : {"idle", "running", "ok", "error"}, limit : {0, DefaultStdout, LargeStdout},
   child : {"running", "stuck", "succeeded", "failed"}, expired : BOOLEAN, forced : BOOLEAN,
   written : 0..MaxStdout, kept : 0..MaxStdout, truncated : BOOLEAN]

NoCall ==
  [stage |-> "idle", limit |-> 0, child |-> "failed", expired |-> FALSE, forced |-> FALSE,
   written |-> 0, kept |-> 0, truncated |-> FALSE]

InCall == call.stage = "running"

StdoutLimit(cfg) == IF cfg \in {"archive.cfg", "metadata.cfg"} THEN LargeStdout ELSE DefaultStdout

(* executeNsjail and executeNsjailWithOutput: only the latter reads the    *)
(* output.  Without its configuration and policy the command is not run.   *)
Execute(limit) ==
  call' = [NoCall EXCEPT !.stage = "running", !.limit = limit, !.child = "running"]

NotStarted ==
  call' = [NoCall EXCEPT !.stage = "error"]

-----------------------------------------------------------------------------
MutantWrite(c) ==
  [c EXCEPT !.kept = IF @ < c.limit THEN @ + 1 ELSE @, !.truncated = @ \/ c.kept > c.limit]

(* limitedBuffer.Write, a unit at a time: what does not fit is dropped and *)
(* remembered as truncation, and the writer never sees an error.           *)
Write(c) ==
  [c EXCEPT !.kept = IF @ < c.limit THEN @ + 1 ELSE @, !.truncated = @ \/ c.kept >= c.limit]

ToolWrites ==
  /\ InCall /\ call.child = "running" /\ call.limit > 0 /\ call.written < MaxStdout
  /\ call' = [Write(call) EXCEPT !.written = @ + 1]

ToolExits ==
  /\ InCall /\ call.child = "running"
  /\ \E exit \in {"succeeded", "failed"} : call' = [call EXCEPT !.child = exit]

(* The timeout passes or the server stops.  exec.CommandContext kills the  *)
(* process, which may stay; one that had succeeded can still be reported   *)
(* as killed.                                                              *)
ContextDone ==
  /\ InCall /\ ~call.expired
  /\ \E child \in CASE call.child = "running" -> {"stuck", "failed"}
                    [] call.child = "succeeded" -> {"succeeded", "failed"}
                    [] OTHER -> {"failed"} :
       call' = [call EXCEPT !.expired = TRUE, !.child = child]

KilledProcessDies ==
  /\ InCall /\ call.child = "stuck"
  /\ call' = [call EXCEPT !.child = "failed"]

MutantSecondKill == FALSE

(* The grace of five seconds is over: waitOrKill kills the process itself. *)
SecondKill ==
  /\ InCall /\ call.child = "stuck" /\ call.expired /\ ~call.forced
  /\ call' = [call EXCEPT !.forced = TRUE]

(* cmd.Wait has returned; truncated output counts as failure.              *)
Result(c) == IF c.child = "failed" \/ (c.limit > 0 /\ c.truncated) THEN "error" ELSE "ok"

Return ==
  /\ InCall /\ call.child \in {"succeeded", "failed"}
  /\ call' = [call EXCEPT !.stage = Result(call)]

CallStep ==
  \/ ToolWrites \/ ToolExits \/ ContextDone \/ KilledProcessDies \/ SecondKill \/ Return

-----------------------------------------------------------------------------
(* Output is used only if it is all there: a command whose result is taken *)
(* never lost a byte to the limit of its buffer.                           *)
StdoutWhole == call.stage = "ok" /\ call.limit > 0 => call.kept = call.written
=============================================================================
