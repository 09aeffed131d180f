----------------------------- MODULE JobService -----------------------------
(***************************************************************************)
(* The life of a job around the queue: the upload handler that writes its  *)
(* directory on the tmpfs and submits it, the converter that fills the     *)
(* directory, the download handlers that hand the result out once, the     *)
(* goroutine that cleans up after them, the periodic cleaner and a crash   *)
(* of the process, after which systemd starts it again on the same tmpfs.  *)
(*                                                                         *)
(* Time is abstracted to two facts that change by themselves: a directory, *)
(* or a result, has become older than cfg.CleanupMaxAge.  Whether one file *)
(* can be opened is abstracted to what its directory holds.                *)
(***************************************************************************)
EXTENDS JobQueue

CONSTANTS
  Multi,       \* jobs with several output files: a manifest and DownloadZip
  Files,       \* how many output files a job of Multi has
  Downloader,  \* the download requests that can be in progress together
  Internal,    \* those of them that isInternalRequest recognises
  NoRequest,   \* not a request
  MaxCrashes   \* bound: how often the process dies

ASSUME ServiceAssumption ==
  /\ Multi \subseteq JobID
  /\ Files \in Nat \ {0}
  /\ Internal \subseteq Downloader
  /\ MaxCrashes \in Nat

VARIABLES
  dir,        \* what TmpfsPath/<job id> holds
  dirOld,     \* ids whose directory was last modified CleanupMaxAge ago
  doneOld,    \* ids whose snapshot has a CompletedAt CleanupMaxAge ago
  upload,     \* how far the upload handler of each id is
  request,    \* the download requests in progress
  marked,     \* ids whose downloaded flag is set; all snapshots share it
  reap,       \* the goroutine a finished download starts for its job
  cleaner,    \* where the cleaner goroutine is
  todo,       \* the jobs or directories it still has to look at
  target,     \* the one it is removing
  delivered,  \* how often the whole result of a job was sent
  counted,    \* how often IncrementProcessed was called for a job
  truncated,  \* ids whose zip was closed properly without all the files
  crashes     \* how often the process died

dirVars == <<dir, dirOld, doneOld>>
requestVars == <<request, marked, reap, delivered, counted, truncated>>
cleanerVars == <<cleaner, todo, target>>
serviceVars == <<queueVars, dirVars, upload, requestVars, cleanerVars, crashes>>

(* An upload is nowhere, has a directory, has its input written, or is     *)
(* answered.  A request has found its job done, has opened the output (a   *)
(* zip: checked every file and closed it again), or owns the download.     *)
Request == [job : JobID, at : {"found", "opened", "owner"},
            sent : 0..Files, broken : BOOLEAN]

ServiceTypeOK ==
  /\ TypeOK
  /\ dir \in [JobID -> {"none", "input", "output", "rubble"}]
  /\ dirOld \in SUBSET JobID
  /\ doneOld \in SUBSET JobID
  /\ upload \in [JobID -> {"none", "made", "written", "over"}]
  /\ request \in [Downloader -> Request \cup {NoRequest}]
  /\ marked \in SUBSET JobID
  /\ reap \in [JobID -> {"none", "remove", "delete"}]
  /\ cleaner \in {"sleeping", "expired", "delete", "orphans", "orphan"}
  /\ todo \in SUBSET JobID
  /\ target \in JobID \cup {NoJob}
  /\ delivered \in [JobID -> Nat]
  /\ counted \in [JobID -> Nat]
  /\ truncated \in SUBSET JobID
  /\ crashes \in 0..MaxCrashes

ServiceInit ==
  /\ QueueInit
  /\ dir = [j \in JobID |-> "none"]
  /\ dirOld = {}
  /\ doneOld = {}
  /\ upload = [j \in JobID |-> "none"]
  /\ request = [d \in Downloader |-> NoRequest]
  /\ marked = {}
  /\ reap = [j \in JobID |-> "none"]
  /\ cleaner = "sleeping"
  /\ todo = {}
  /\ target = NoJob
  /\ delivered = [j \in JobID |-> 0]
  /\ counted = [j \in JobID |-> 0]
  /\ truncated = {}
  /\ crashes = 0

-----------------------------------------------------------------------------
(* The file system                                                         *)

(* os.RemoveAll succeeds, on a missing directory too.                      *)
RemoveAll(j) ==
  /\ dir' = [dir EXCEPT ![j] = "none"]
  /\ dirOld' = dirOld \ {j}
  /\ UNCHANGED doneOld

(* os.RemoveAll fails, before or after it unlinked something.              *)
RemoveAllFails(j) ==
  /\ dir[j] # "none"
  /\ \/ UNCHANGED <<dir, dirOld>>
     \/ /\ dir' = [dir EXCEPT ![j] = "rubble"]
        /\ dirOld' = dirOld \ {j}
  /\ UNCHANGED doneOld

(* CleanupMaxAge passes.  An upload handler is done with its directory     *)
(* before that: the body is read in full before the directory is made.     *)
(* (Not one whose search for a free file name does not end, see Uploads:   *)
(* its directory ages like a refused one, and the cleaner ends the search.)*)
DirAges(j) ==
  /\ dir[j] # "none"
  /\ j \notin dirOld
  /\ upload[j] = "over"
  /\ dirOld' = dirOld \cup {j}
  /\ UNCHANGED <<queueVars, dir, doneOld, upload, requestVars, cleanerVars, crashes>>

ResultAges(j) ==
  /\ jobs[j] \in Terminal
  /\ j \notin doneOld
  /\ doneOld' = doneOld \cup {j}
  /\ UNCHANGED <<queueVars, dir, dirOld, upload, requestVars, cleanerVars, crashes>>

-----------------------------------------------------------------------------
(* The upload handlers                                                     *)

UploadMkdir(j) ==
  /\ upload[j] = "none"
  /\ \/ /\ dir' = [dir EXCEPT ![j] = "input"]
        /\ upload' = [upload EXCEPT ![j] = "made"]
     \/ /\ dir' \in {dir, [dir EXCEPT ![j] = "rubble"]}  \* 500, nothing removed
        /\ upload' = [upload EXCEPT ![j] = "over"]
  /\ UNCHANGED <<queueVars, dirOld, doneOld, requestVars, cleanerVars, crashes>>

UploadWrite(j) ==
  /\ upload[j] = "made"
  /\ \/ /\ upload' = [upload EXCEPT ![j] = "written"]
        /\ UNCHANGED dirVars
     \/ /\ upload' = [upload EXCEPT ![j] = "over"]       \* 400 or 500
        /\ RemoveAll(j) \/ RemoveAllFails(j)
  /\ UNCHANGED <<queueVars, requestVars, cleanerVars, crashes>>

UploadSubmit(j) ==
  /\ upload[j] = "written"
  /\ SubmitAdmit(j)
  /\ upload' = [upload EXCEPT ![j] = "over"]             \* 202
  /\ UNCHANGED <<dirVars, requestVars, cleanerVars, crashes>>

UploadRefused(j) ==
  /\ upload[j] = "written"
  /\ MuFree
  /\ SubmitRefuses(OwnerIP[j])
  /\ upload' = [upload EXCEPT ![j] = "over"]             \* 503
  /\ RemoveAll(j) \/ RemoveAllFails(j)
  /\ UNCHANGED <<queueVars, requestVars, cleanerVars, crashes>>

-----------------------------------------------------------------------------
(* The worker, on the directory of its job                                 *)

(* PrepareJobDir makes the output directory, a change of the job's.        *)
ConvertBegins ==
  /\ WorkerPublish
  /\ dirOld' = dirOld \ {current}
  /\ UNCHANGED <<dir, doneOld, upload, requestVars, cleanerVars, crashes>>

ConvertEnds(result) ==
  /\ WorkerStore(result)
  /\ dir' = IF result = "failed" THEN dir ELSE [dir EXCEPT ![current] = "output"]
  /\ UNCHANGED <<dirOld, doneOld, upload, requestVars, cleanerVars, crashes>>

QueueSteps ==
  /\ \/ SubmitSend
     \/ WorkerReceive
     \/ WorkerDequeue
     \/ WorkerRelease
     \/ \E j \in JobID : DeleteJobOrder(j)
  /\ UNCHANGED <<dirVars, upload, requestVars, cleanerVars, crashes>>

-----------------------------------------------------------------------------
(* Download, for a job with one output file, and DownloadZip               *)

JobOf(d) == request[d].job
At(d, point) == request[d] # NoRequest /\ request[d].at = point
Advance(d, point) == request' = [request EXCEPT ![d].at = point]
End(d) == request' = [request EXCEPT ![d] = NoRequest]

(* GetJob finds a snapshot that says done; otherwise 404 or 400.           *)
DownloadFinds(d, j) ==
  /\ request[d] = NoRequest
  /\ jobs[j] = "done"
  /\ request' = [request EXCEPT ![d] =
                   [job |-> j, at |-> "found", sent |-> 0, broken |-> FALSE]]
  /\ UNCHANGED <<queueVars, dirVars, upload, marked, reap, delivered, counted,
                 truncated, cleanerVars, crashes>>

(* The output is opened, or a zip's files are opened and closed again; if  *)
(* one is missing the answer is 404 or 500.                                *)
DownloadOpens(d) ==
  /\ At(d, "found")
  /\ IF dir[JobOf(d)] = "output" THEN Advance(d, "opened") ELSE End(d)
  /\ UNCHANGED <<queueVars, dirVars, upload, marked, reap, delivered, counted,
                 truncated, cleanerVars, crashes>>

MutantDownloadMarks(d) ==
  /\ At(d, "opened")
  /\ marked' = marked \cup {JobOf(d)}
  /\ Advance(d, "owner")
  /\ UNCHANGED <<queueVars, dirVars, upload, reap, delivered, counted,
                 truncated, cleanerVars, crashes>>

(* MarkDownloaded, a compare-and-swap on the flag; 410 to all but one.     *)
DownloadMarks(d) ==
  /\ At(d, "opened")
  /\ \/ /\ JobOf(d) \notin marked
        /\ marked' = marked \cup {JobOf(d)}
        /\ Advance(d, "owner")
     \/ /\ JobOf(d) \in marked
        /\ End(d)
        /\ UNCHANGED marked
  /\ UNCHANGED <<queueVars, dirVars, upload, reap, delivered, counted,
                 truncated, cleanerVars, crashes>>

(* The end of both handlers: the result is counted and a goroutine is left *)
(* behind to remove the job.                                               *)
Complete(d, whole) ==
  /\ End(d)
  /\ delivered' = IF whole THEN [delivered EXCEPT ![JobOf(d)] = @ + 1] ELSE delivered
  /\ counted' = IF d \in Internal THEN counted ELSE [counted EXCEPT ![JobOf(d)] = @ + 1]
  /\ reap' = [reap EXCEPT ![JobOf(d)] = "remove"]

(* io.Copy from the file opened before the flag was taken: an unlink does  *)
(* not matter any more.  When the client goes away, nothing else is done.  *)
DownloadStreams(d) ==
  /\ At(d, "owner")
  /\ JobOf(d) \notin Multi
  /\ \/ Complete(d, TRUE)
     \/ End(d) /\ UNCHANGED <<delivered, counted, reap>>
  /\ UNCHANGED <<queueVars, dirVars, upload, marked, truncated, cleanerVars, crashes>>

(* The next file of a zip is opened again and copied; a copy that fails is *)
(* not noticed.                                                            *)
ZipCopies(d) ==
  /\ At(d, "owner")
  /\ JobOf(d) \in Multi
  /\ request[d].sent < Files
  /\ dir[JobOf(d)] = "output"
  /\ \E broken \in BOOLEAN :
       request' = [request EXCEPT ![d].sent = @ + 1, ![d].broken = @ \/ broken]
  /\ UNCHANGED <<queueVars, dirVars, upload, marked, reap, delivered, counted,
                 truncated, cleanerVars, crashes>>

(* It cannot be opened again: the handler returns, and the deferred Close  *)
(* of the zip writer ends the archive as it stands.                        *)
ZipStops(d) ==
  /\ At(d, "owner")
  /\ JobOf(d) \in Multi
  /\ request[d].sent < Files
  /\ dir[JobOf(d)] # "output"
  /\ End(d)
  /\ truncated' = IF request[d].broken THEN truncated ELSE truncated \cup {JobOf(d)}
  /\ UNCHANGED <<queueVars, dirVars, upload, marked, reap, delivered, counted,
                 cleanerVars, crashes>>

ZipEnds(d) ==
  /\ At(d, "owner")
  /\ JobOf(d) \in Multi
  /\ request[d].sent = Files
  /\ Complete(d, ~request[d].broken)
  /\ UNCHANGED <<queueVars, dirVars, upload, marked, truncated, cleanerVars, crashes>>

(* The goroutine: RemoveAll, whose failure is only logged, then DeleteJob. *)
ReapRemoves(j) ==
  /\ reap[j] = "remove"
  /\ RemoveAll(j) \/ RemoveAllFails(j)
  /\ reap' = [reap EXCEPT ![j] = "delete"]
  /\ UNCHANGED <<queueVars, upload, request, marked, delivered, counted,
                 truncated, cleanerVars, crashes>>

ReapDeletes(j) ==
  /\ reap[j] = "delete"
  /\ DeleteJobEntry(j)
  /\ reap' = [reap EXCEPT ![j] = "none"]
  /\ UNCHANGED <<dirVars, upload, request, marked, delivered, counted,
                 truncated, cleanerVars, crashes>>

-----------------------------------------------------------------------------
(* The cleaner: at each tick cleanupExpiredJobs, then cleanupOrphanedDirs  *)

MutantExpired(j) == jobs[j] \in Terminal

MutantExpiredDone(j) == jobs[j] = "done" /\ j \in doneOld

Expired(j) == jobs[j] \in Terminal /\ j \in doneOld

(* GetAllJobs.                                                             *)
SweepBegins ==
  /\ cleaner = "sleeping"
  /\ cleaner' = "expired"
  /\ todo' = {j \in JobID : Expired(j)}
  /\ UNCHANGED <<queueVars, dirVars, upload, requestVars, target, crashes>>

(* The DeleteJob of the previous job has returned.                         *)
NextExpired(j) == cleaner = "expired" /\ j \in todo /\ target \notin deleting

ExpiredRemoved(j) ==
  /\ NextExpired(j)
  /\ RemoveAll(j)
  /\ cleaner' = "delete"
  /\ target' = j
  /\ UNCHANGED <<queueVars, upload, requestVars, todo, crashes>>

ExpiredNotRemoved(j) ==
  /\ NextExpired(j)
  /\ RemoveAllFails(j)
  /\ todo' = todo \ {j}
  /\ UNCHANGED <<queueVars, upload, requestVars, cleaner, target, crashes>>

ExpiredDeleted ==
  /\ cleaner = "delete"
  /\ DeleteJobEntry(target)
  /\ cleaner' = "expired"
  /\ todo' = todo \ {target}
  /\ UNCHANGED <<dirVars, upload, requestVars, target, crashes>>

ExpiredOver == cleaner = "expired" /\ todo = {} /\ target \notin deleting

(* ReadDir of the tmpfs, which may also fail.                              *)
OrphansBegin ==
  /\ ExpiredOver
  /\ cleaner' = "orphans"
  /\ todo' = {j \in JobID : dir[j] # "none"}
  /\ UNCHANGED <<queueVars, dirVars, upload, requestVars, target, crashes>>

OrphansSkipped ==
  /\ ExpiredOver
  /\ cleaner' = "sleeping"
  /\ target' = NoJob
  /\ UNCHANGED <<queueVars, dirVars, upload, requestVars, todo, crashes>>

MutantOrphan(j) == dir[j] # "none" /\ j \in dirOld

MutantOrphanShape(j) == dir[j] \in {"input", "output"} /\ j \in dirOld /\ jobs[j] = "absent"

Orphan(j) == dir[j] # "none" /\ j \in dirOld /\ jobs[j] = "absent"

OrphanChecked(j) ==
  /\ cleaner = "orphans"
  /\ j \in todo
  /\ IF Orphan(j)
     THEN cleaner' = "orphan" /\ target' = j /\ UNCHANGED todo
     ELSE todo' = todo \ {j} /\ UNCHANGED <<cleaner, target>>
  /\ UNCHANGED <<queueVars, dirVars, upload, requestVars, crashes>>

OrphanDone ==
  /\ cleaner = "orphan"
  /\ cleaner' = "orphans"
  /\ todo' = todo \ {target}
  /\ UNCHANGED <<queueVars, upload, requestVars, target, crashes>>

OrphanRemoved == OrphanDone /\ RemoveAll(target)

OrphanNotRemoved == OrphanDone /\ RemoveAllFails(target)

SweepEnds ==
  /\ cleaner = "orphans"
  /\ todo = {}
  /\ cleaner' = "sleeping"
  /\ target' = NoJob
  /\ UNCHANGED <<queueVars, dirVars, upload, requestVars, todo, crashes>>

-----------------------------------------------------------------------------
(* The process dies and is started again: what was in memory is gone, the  *)
(* tmpfs is not, and nobody is left to answer the uploads under way.       *)
Crash ==
  /\ crashes < MaxCrashes
  /\ crashes' = crashes + 1
  /\ jobs' = [j \in JobID |-> "absent"]
  /\ jobChan' = <<>>
  /\ queueOrder' = <<>>
  /\ inflight' = [c \in Client |-> 0]
  /\ submitting' = NoJob
  /\ worker' = "select"
  /\ current' = NoJob
  /\ deleting' = {}
  /\ doneOld' = {}
  /\ upload' = [j \in JobID |-> IF upload[j] = "none" THEN "none" ELSE "over"]
  /\ request' = [d \in Downloader |-> NoRequest]
  /\ marked' = {}
  /\ reap' = [j \in JobID |-> "none"]
  /\ cleaner' = "sleeping"
  /\ todo' = {}
  /\ target' = NoJob
  /\ UNCHANGED <<cancelled, issued, dir, dirOld, delivered, counted, truncated>>

-----------------------------------------------------------------------------
Uploads ==
  \E j \in JobID : UploadMkdir(j) \/ UploadWrite(j) \/ UploadSubmit(j) \/ UploadRefused(j)

Conversions == ConvertBegins \/ \E result \in Result : ConvertEnds(result)

Downloads ==
  \/ \E d \in Downloader :
       \/ \E j \in JobID : DownloadFinds(d, j)
       \/ DownloadOpens(d)
       \/ DownloadMarks(d)
       \/ DownloadStreams(d)
       \/ ZipCopies(d)
       \/ ZipStops(d)
       \/ ZipEnds(d)
  \/ \E j \in JobID : ReapRemoves(j) \/ ReapDeletes(j)

Cleaning ==
  \/ SweepBegins
  \/ \E j \in JobID : ExpiredRemoved(j) \/ ExpiredNotRemoved(j) \/ OrphanChecked(j)
  \/ ExpiredDeleted
  \/ OrphansBegin
  \/ OrphansSkipped
  \/ OrphanRemoved
  \/ OrphanNotRemoved
  \/ SweepEnds

Ageing == \E j \in JobID : DirAges(j) \/ ResultAges(j)

ServiceNext == QueueSteps \/ Uploads \/ Conversions \/ Downloads \/ Cleaning \/ Ageing \/ Crash

ServiceSpec == ServiceInit /\ [][ServiceNext]_serviceVars

(* Time passes, handlers and converters return, the scheduler is fair (see *)
(* QueueFairness), and a removal or a ReadDir tried for ever succeeds at   *)
(* last.  An upload handler returns unless it searches for a name without  *)
(* end (Uploads), which Conversion follows and this module leaves out.     *)
(* Nobody has to upload or download anything.                              *)
ServiceFairness ==
  /\ \A j \in JobID :
       /\ WF_serviceVars(UploadWrite(j))
       /\ SF_serviceVars(UploadSubmit(j) \/ UploadRefused(j))
       /\ SF_serviceVars(DirAges(j))
       /\ WF_serviceVars(ResultAges(j))
       /\ SF_serviceVars(ExpiredRemoved(j))
       /\ WF_serviceVars(OrphanChecked(j))
       /\ SF_serviceVars(OrphanRemoved /\ target = j)
  /\ SF_serviceVars(QueueSteps)
  /\ WF_serviceVars(Conversions)
  /\ WF_serviceVars(SweepBegins \/ ExpiredDeleted \/ SweepEnds)
  /\ SF_serviceVars(OrphansBegin)

ServiceFairSpec == ServiceSpec /\ ServiceFairness

-----------------------------------------------------------------------------
(* Safety                                                                  *)

(* The result of a conversion can be downloaded until it is CleanupMaxAge  *)
(* old or a download has claimed it, by a new request or by one that has   *)
(* already found the job: no cleaner pass, no other job's download and no  *)
(* reaping goroutine takes it away earlier.                                *)
DoneJobDownloadable ==
  \A j \in JobID \ (marked \cup doneOld) :
    (jobs[j] = "done" \/ \E d \in Downloader : request[d] # NoRequest /\ JobOf(d) = j)
      => dir[j] = "output"

(* Nobody removes the directory of an upload that is being written, of a   *)
(* job that waits, however long, or of one that is being converted.        *)
LiveJobKeepsInput ==
  \A j \in JobID :
    upload[j] \in {"made", "written"} \/ jobs[j] \in {"queued", "processing"}
      => dir[j] = "input"

(* A result is handed out once, and counted once, whatever downloads race  *)
(* for it and whatever crashes (the comment at convert.go:1190 "Atomic CAS *)
(* prevents double-download race").                                        *)
HandedOutOnce == \A j \in JobID : delivered[j] <= 1 /\ counted[j] <= 1

(* DownloadZip sends "the complete set" (the comment at convert.go:1239):  *)
(* no archive is ended properly without all the files of the manifest.     *)
ZipIsComplete == truncated = {}

-----------------------------------------------------------------------------
(* Liveness, under ServiceFairSpec                                         *)

(* Whatever an upload left on the tmpfs, refused, failed, converted,       *)
(* downloaded or abandoned by a crash, is removed ("temporary files are    *)
(* removed after processing", README.md:3).                                *)
DirectoriesRemoved == \A j \in JobID : dir[j] # "none" ~> dir[j] = "none"

(* The table of jobs does not grow for ever.                               *)
JobsForgotten == \A j \in JobID : jobs[j] \in Terminal ~> jobs[j] = "absent"
=============================================================================
