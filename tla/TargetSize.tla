----------------------------- MODULE TargetSize -----------------------------
(***************************************************************************)
(* jpegTargetSize of internal/converter/image_compress.go: up to four      *)
(* encodings, each over the last in the same output file, look for the     *)
(* quality that comes close to a target size from below; if none does, the *)
(* smallest quality and up to three reductions of the resolution follow.   *)
(***************************************************************************)
EXTENDS Integers

CONSTANTS
  InputSizes,   \* what the input may weigh, positive
  OutSizes,     \* what an encoding may weigh, positive
  Target        \* targetSize

VARIABLES
  phase,        \* searching, then recording, smallest, resizing; done or failed
  quality,      \* the quality to try next
  lastQuality,  \* the one tried last
  tries,        \* i
  encoder,      \* what is known of the encoder: quality -> size
  bestQuality, bestSize,
  onDisk,       \* the size of the output file, 0 if there is none
  recorded      \* job.OutputSize

targetVars == <<phase, quality, lastQuality, tries, encoder, bestQuality, bestSize, onDisk, recorded>>

MinQ == 10
MaxQ == 95
MaxIterations == 4
MaxResizes == 3

AtLeast(low, n) == IF n < low THEN low ELSE n
AtMost(high, n) == IF n > high THEN high ELSE n

(* int(factor * math.Sqrt(num / den))                                      *)
TimesRoot(factor, num, den) ==
  CHOOSE n \in 0..(factor * num) :
    n * n * den <= factor * factor * num /\ (n + 1) * (n + 1) * den > factor * factor * num

TargetInit ==
  /\ phase = "searching"
  /\ \E size \in InputSizes :
       size > Target /\ quality = AtMost(MaxQ, AtLeast(MinQ, TimesRoot(85, Target, size)))
  /\ lastQuality = -1 /\ tries = 0
  /\ encoder = [n \in {} |-> 0]
  /\ bestQuality = 0 /\ bestSize = 0
  /\ onDisk = 0 /\ recorded = 0

-----------------------------------------------------------------------------
(* vips jpegsave: the same size for the same quality, more for a higher.   *)
Encodes(n, size) ==
  /\ size \in OutSizes
  /\ \A known \in DOMAIN encoder :
       /\ known = n => size = encoder[known]
       /\ known < n => size >= encoder[known]
       /\ known > n => size <= encoder[known]
  /\ encoder' = [known \in DOMAIN encoder \cup {n} |-> IF known = n THEN size ELSE encoder[known]]
  /\ onDisk' = size

WithinTenPercent(size) == 10 * (Target - size) < Target

Higher(size) ==
  LET newQ == TimesRoot(quality, Target, size)
  IN AtMost(MaxQ, IF newQ <= quality THEN quality + 2 ELSE newQ)

Lower(size) ==
  LET newQ == TimesRoot(quality, Target, size)
  IN AtLeast(MinQ, IF newQ >= quality THEN quality - 5 ELSE newQ)

SearchOver == tries = MaxIterations \/ quality = lastQuality

(* One turn of the loop.                                                   *)
Try ==
  /\ phase = "searching" /\ ~SearchOver
  /\ lastQuality' = quality /\ tries' = tries + 1
  /\ \E size \in OutSizes :
       /\ Encodes(quality, size)
       /\ \/ /\ size <= Target
             /\ bestQuality' = quality /\ bestSize' = size
             /\ IF WithinTenPercent(size) \/ tries' = MaxIterations
                THEN phase' = "recording" /\ UNCHANGED quality
                ELSE quality' = Higher(size) /\ UNCHANGED phase
          \/ /\ size > Target
             /\ quality' = Lower(size)
             /\ UNCHANGED <<phase, bestQuality, bestSize>>
  /\ UNCHANGED recorded

LeaveLoop ==
  /\ phase = "searching" /\ SearchOver
  /\ phase' = IF bestQuality = 0 THEN "smallest" ELSE "recording"
  /\ UNCHANGED <<quality, lastQuality, tries, encoder, bestQuality, bestSize, onDisk, recorded>>

(* Encode at the best quality again if bestSize is 0, and record bestSize. *)
Record ==
  /\ phase = "recording"
  /\ phase' = "done"
  /\ \/ bestSize # 0 /\ recorded' = bestSize /\ UNCHANGED <<encoder, bestSize, onDisk>>
     \/ /\ bestSize = 0
        /\ \E size \in OutSizes :
             Encodes(bestQuality, size) /\ bestSize' = size /\ recorded' = size
  /\ UNCHANGED <<quality, lastQuality, tries, bestQuality>>

-----------------------------------------------------------------------------
(* Nothing met the target: the lowest quality, then smaller pictures, the  *)
(* last of which is taken whatever it weighs.                              *)
Smallest ==
  /\ phase = "smallest"
  /\ \E size \in OutSizes :
       /\ Encodes(MinQ, size)
       /\ \/ size <= Target /\ phase' = "done" /\ recorded' = size
          \/ size > Target /\ phase' = "resizing" /\ UNCHANGED recorded
  /\ tries' = 0
  /\ UNCHANGED <<quality, lastQuality, bestQuality, bestSize>>

Resize ==
  /\ phase = "resizing"
  /\ tries' = tries + 1
  /\ \E size \in OutSizes :
       /\ onDisk' = size
       /\ \/ (size <= Target \/ tries' = MaxResizes) /\ phase' = "done" /\ recorded' = size
          \/ size > Target /\ tries' < MaxResizes /\ UNCHANGED <<phase, recorded>>
  /\ UNCHANGED <<quality, lastQuality, encoder, bestQuality, bestSize>>

(* A command fails, or its output is missing.                              *)
GiveUp ==
  /\ phase \in {"searching", "smallest", "resizing"}
  /\ phase' = "failed"
  /\ UNCHANGED <<quality, lastQuality, tries, encoder, bestQuality, bestSize, onDisk, recorded>>

TargetNext == Try \/ LeaveLoop \/ Record \/ Smallest \/ Resize \/ GiveUp

TargetSpec == TargetInit /\ [][TargetNext]_targetVars

-----------------------------------------------------------------------------
(* If some quality met the target, the file that is handed out meets it    *)
(* too.                                                                    *)
TargetMetOnDisk == phase = "done" /\ bestQuality # 0 => onDisk <= Target
=============================================================================
