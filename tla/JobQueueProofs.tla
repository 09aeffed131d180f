--------------------------- MODULE JobQueueProofs ---------------------------
(***************************************************************************)
(* Proofs about JobQueue for every queue size, every set of jobs and every *)
(* set of clients.                                                         *)
(***************************************************************************)
EXTENDS JobQueue, SequenceTheorems, FiniteSetTheorems, TLAPS

-----------------------------------------------------------------------------
(* removeFromOrder                                                         *)

(* Removing the head of the order leaves its tail.                         *)
LEMMA RemoveFirstHead ==
  ASSUME NEW S, NEW s \in Seq(S), s # <<>>
  PROVE  RemoveFirst(s, Head(s)) = Tail(s)
<1> DEFINE I == {i \in 1..Len(s) : s[i] = Head(s)}
<1>1. s[1] = Head(s) /\ 1 \in 1..Len(s)
  OBVIOUS
<1>2. 1 \in I /\ \A i \in I : i \in Nat /\ 1 <= i
  BY <1>1
<1>3. Min(I) = 1
  BY <1>2 DEF Min
<1>4. RemoveFirst(s, Head(s)) = RemoveAt(s, Min(I))
  BY <1>1, <1>2 DEF RemoveFirst, SelectInSeq
<1>5. RemoveAt(s, 1) = Tail(s)
  BY DEF RemoveAt
<1>. QED BY <1>3, <1>4, <1>5

(* Removing an id that is not in the order changes nothing.                *)
LEMMA RemoveFirstAbsent ==
  ASSUME NEW S, NEW s \in Seq(S), NEW e, e \notin ToSet(s)
  PROVE  RemoveFirst(s, e) = s
BY DEF RemoveFirst, SelectInSeq, ToSet

-----------------------------------------------------------------------------
(* Elements of sequences                                                   *)

Distinct(s) == \A m, n \in DOMAIN s : s[m] = s[n] => m = n

(* Appending adds one element, and keeps the elements distinct if it is new.*)
LEMMA AppendElements ==
  ASSUME NEW S, NEW s \in Seq(S), NEW e \in S
  PROVE  /\ ToSet(Append(s, e)) = ToSet(s) \cup {e}
         /\ Distinct(s) /\ e \notin ToSet(s) => Distinct(Append(s, e))
<1> DEFINE t == Append(s, e)
<1>1. /\ Len(s) \in Nat
      /\ DOMAIN s = 1..Len(s)
      /\ DOMAIN t = 1..Len(s)+1
      /\ t[Len(s)+1] = e
      /\ \A n \in 1..Len(s) : t[n] = s[n]
  OBVIOUS
<1> HIDE DEF t
<1>2. ToSet(t) \subseteq ToSet(s) \cup {e}
  <2>1. ASSUME NEW n \in 1..Len(s)+1 PROVE t[n] \in ToSet(s) \cup {e}
    BY <1>1, n = Len(s)+1 \/ n \in 1..Len(s) DEF ToSet
  <2>. QED BY <1>1, <2>1 DEF ToSet
<1>3. ToSet(s) \cup {e} \subseteq ToSet(t)
  <2>1. ASSUME NEW n \in 1..Len(s) PROVE s[n] \in ToSet(t)
    BY <1>1, n \in 1..Len(s)+1 DEF ToSet
  <2>2. e \in ToSet(t)
    BY <1>1, Len(s)+1 \in 1..Len(s)+1 DEF ToSet
  <2>. QED BY <1>1, <2>1, <2>2 DEF ToSet
<1>4. ASSUME Distinct(s), e \notin ToSet(s) PROVE Distinct(t)
  <2> SUFFICES ASSUME NEW m \in 1..Len(s)+1, NEW n \in 1..Len(s)+1, t[m] = t[n]
               PROVE  m = n
    BY <1>1 DEF Distinct
  <2>1. \A k \in 1..Len(s) : s[k] # e
    BY <1>1, <1>4 DEF ToSet
  <2>2. (m \in 1..Len(s) \/ m = Len(s)+1) /\ (n \in 1..Len(s) \/ n = Len(s)+1)
    BY <1>1
  <2>. QED BY <1>1, <1>4, <2>1, <2>2 DEF Distinct
<1>. QED BY <1>2, <1>3, <1>4 DEF t

(* Taking the head removes one element, and leaves the others distinct.    *)
LEMMA TailElements ==
  ASSUME NEW S, NEW s \in Seq(S), s # <<>>
  PROVE  /\ ToSet(s) = ToSet(Tail(s)) \cup {Head(s)}
         /\ Distinct(s) => Distinct(Tail(s)) /\ Head(s) \notin ToSet(Tail(s))
<1>1. /\ Len(s) \in Nat \ {0}
      /\ DOMAIN s = 1..Len(s)
      /\ Len(Tail(s)) = Len(s) - 1
      /\ DOMAIN Tail(s) = 1..Len(s)-1
      /\ \A n \in 1..Len(s)-1 : Tail(s)[n] = s[n+1]
      /\ Head(s) = s[1]
  OBVIOUS
<1>2. ASSUME NEW x \in ToSet(s) PROVE x \in ToSet(Tail(s)) \cup {Head(s)}
  <2>1. PICK n \in 1..Len(s) : x = s[n]
    BY <1>1 DEF ToSet
  <2>2. CASE n = 1
    BY <1>1, <2>1, <2>2
  <2>3. CASE n # 1
    <3>1. n-1 \in 1..Len(s)-1 /\ Tail(s)[n-1] = x
      BY <1>1, <2>1, <2>3
    <3>. QED BY <3>1, <1>1 DEF ToSet
  <2>. QED BY <2>2, <2>3
<1>3. ToSet(Tail(s)) \cup {Head(s)} \subseteq ToSet(s)
  BY <1>1 DEF ToSet
<1>4. ASSUME Distinct(s) PROVE Distinct(Tail(s)) /\ Head(s) \notin ToSet(Tail(s))
  BY <1>1, <1>4 DEF Distinct, ToSet
<1>. QED BY <1>2, <1>3, <1>4

-----------------------------------------------------------------------------
(* The inductive invariant of the order, the channel and the snapshots     *)

(* Where the ids are: in the order, each once; in the worker's hand; or    *)
(* finished.  Only finished jobs are being deleted.                        *)
Placement ==
  /\ Distinct(queueOrder)
  /\ WorkerBusy => current \in issued
  /\ worker \in {"removed", "processing", "stored"} => current \notin ToSet(queueOrder)
  /\ ToSet(queueOrder) \subseteq issued
  /\ \A j \in JobID : j \notin issued => jobs[j] = "absent"
  /\ \A j \in deleting : Finished(j)

(* A Submit between its steps has its place in the channel reserved.       *)
Reserved == Len(jobChan) + Len(BeingSent) <= MaxSize

QueueInv ==
  /\ TypeOK
  /\ OrderMatchesChannel
  /\ NoJobStranded
  /\ Placement
  /\ Reserved

(* The fact behind each use of mu: a worker that has received a job and    *)
(* finds mu free holds the head of the order.                              *)
LEMMA ReceivedIsHead ==
  ASSUME QueueInv, worker = "received", MuFree
  PROVE  /\ current \in JobID
         /\ queueOrder # <<>>
         /\ current = Head(queueOrder)
         /\ Tail(queueOrder) = jobChan
<1>1. current \in JobID
  BY DEF QueueInv, Placement, WorkerBusy, TypeOK
<1>2. jobChan \in Seq(JobID)
  BY DEF QueueInv, TypeOK
<1>3. queueOrder = <<current>> \o jobChan \o <<>>
  BY DEF QueueInv, OrderMatchesChannel, InHand, BeingSent, MuFree
<1>4. queueOrder = <<current>> \o jobChan
  BY <1>1, <1>2, <1>3
<1>. QED BY <1>1, <1>2, <1>4

LEMMA QueueInvInit == QueueInit => QueueInv
<1> SUFFICES ASSUME QueueInit PROVE QueueInv
  OBVIOUS
<1> USE QueueAssumption DEF QueueInit
<1>1. TypeOK
  <2>1. jobs \in [JobID -> Status \cup {"absent"}] /\ inflight \in [Client -> Nat]
    OBVIOUS
  <2>2. jobChan \in Seq(JobID) /\ queueOrder \in Seq(JobID)
    OBVIOUS
  <2>. QED BY <2>1, <2>2 DEF TypeOK, WorkerPoint
<1>2. OrderMatchesChannel
  BY DEF OrderMatchesChannel, InHand, BeingSent
<1>3. ToSet(queueOrder) = {}
  BY DEF ToSet
<1>4. NoJobStranded
  BY <1>3 DEF NoJobStranded
<1>5. Placement
  BY <1>3 DEF Placement, WorkerBusy, Distinct, ToSet
<1>6. Reserved
  BY DEF Reserved, BeingSent
<1>. QED BY <1>1, <1>2, <1>4, <1>5, <1>6 DEF QueueInv

-----------------------------------------------------------------------------
(* Every step preserves QueueInv: Submit                                   *)

LEMMA SubmitAdmitPreserves ==
  ASSUME QueueInv, NEW j \in JobID, SubmitAdmit(j)
  PROVE  QueueInv'
<1> USE QueueAssumption
<1>0. /\ TypeOK /\ OrderMatchesChannel /\ NoJobStranded /\ Placement /\ Reserved
      /\ queueOrder' = Append(queueOrder, j)
      /\ submitting = NoJob /\ submitting' = j
      /\ j \notin issued /\ issued' = issued \cup {j}
      /\ jobs' = [jobs EXCEPT ![j] = "queued"]
      /\ UNCHANGED <<jobChan, worker, current, cancelled, deleting>>
  BY DEF QueueInv, SubmitAdmit, MuFree
<1>1. /\ queueOrder \in Seq(JobID) /\ jobChan \in Seq(JobID)
      /\ j \notin ToSet(queueOrder)
  BY <1>0 DEF TypeOK, Placement
<1>2. /\ ToSet(queueOrder') = ToSet(queueOrder) \cup {j}
      /\ Distinct(queueOrder')
      /\ queueOrder' \in Seq(JobID)
  BY <1>0, <1>1, AppendElements DEF Placement
<1>3. TypeOK'
  <2>1. inflight' \in [Client -> Nat]
    <3>1. inflight \in [Client -> Nat]
      BY <1>0 DEF TypeOK
    <3>2. CASE OwnerIP[j] = NoOwner
      BY <3>1, <3>2 DEF SubmitAdmit
    <3>3. CASE OwnerIP[j] # NoOwner
      <4>1. inflight[OwnerIP[j]] \in Nat
        BY <3>1, <3>3
      <4>. QED BY <3>1, <3>3, <4>1 DEF SubmitAdmit
    <3>. QED BY <3>2, <3>3
  <2>. QED BY <1>0, <1>2, <2>1 DEF TypeOK, Status
<1>4. OrderMatchesChannel'
  <2>1. InHand \in Seq(JobID) /\ InHand' = InHand
    BY <1>0 DEF InHand, TypeOK, Placement, WorkerBusy
  <2>2. queueOrder = InHand \o jobChan
    BY <1>0, <1>1, <2>1 DEF OrderMatchesChannel, BeingSent
  <2>3. Append(InHand \o jobChan, j) = InHand \o jobChan \o <<j>>
    BY <1>1, <2>1
  <2>. QED BY <1>0, <2>1, <2>2, <2>3 DEF OrderMatchesChannel, BeingSent
<1>5. NoJobStranded'
  <2>1. /\ worker = "removed" => current # j
        /\ worker = "processing" => current # j
    BY <1>0 DEF Placement, WorkerBusy
  <2>. QED BY <1>0, <1>2, <2>1 DEF NoJobStranded, TypeOK
<1>6. Placement'
  <2>1. WorkerBusy => current \in issued /\ current # j
    BY <1>0 DEF Placement
  <2>2. \A k \in deleting : k # j /\ Finished(k)
    BY <1>0 DEF Placement, Finished
  <2>. QED BY <1>0, <1>2, <2>1, <2>2 DEF Placement, WorkerBusy, Finished, TypeOK
<1>7. Reserved'
  BY <1>0, <1>1 DEF Reserved, BeingSent, SubmitAdmit, SubmitRefuses, QueueFull
<1>. QED BY <1>3, <1>4, <1>5, <1>6, <1>7 DEF QueueInv

LEMMA SubmitSendPreserves ==
  ASSUME QueueInv, SubmitSend
  PROVE  QueueInv'
<1> USE QueueAssumption
<1>0. /\ TypeOK /\ OrderMatchesChannel /\ NoJobStranded /\ Placement /\ Reserved
      /\ submitting \in JobID /\ submitting' = NoJob
      /\ jobChan' = Append(jobChan, submitting)
      /\ UNCHANGED <<jobs, queueOrder, inflight, worker, current, cancelled, deleting, issued>>
  BY DEF QueueInv, SubmitSend, TypeOK
<1>1. jobChan \in Seq(JobID) /\ jobChan' \in Seq(JobID)
  BY <1>0 DEF TypeOK
<1>2. TypeOK'
  BY <1>0, <1>1 DEF TypeOK
<1>3. OrderMatchesChannel'
  <2>1. InHand \in Seq(JobID) /\ InHand' = InHand
    BY <1>0 DEF InHand, TypeOK, Placement, WorkerBusy
  <2>2. queueOrder = InHand \o jobChan \o <<submitting>>
    BY <1>0 DEF OrderMatchesChannel, BeingSent
  <2>3. InHand \o jobChan \o <<submitting>> = InHand \o Append(jobChan, submitting)
    <3>1. Append(jobChan, submitting) = jobChan \o <<submitting>>
      BY <1>0, <1>1, AppendIsConcat
    <3>2. <<submitting>> \in Seq(JobID)
      BY <1>0
    <3>. QED BY <1>1, <2>1, <3>1, <3>2, ConcatAssociative
  <2>4. InHand \o jobChan' \o <<>> = InHand \o jobChan'
    BY <1>1, <2>1
  <2>. QED BY <1>0, <2>1, <2>2, <2>3, <2>4 DEF OrderMatchesChannel, BeingSent
<1>4. NoJobStranded' /\ Placement'
  BY <1>0 DEF NoJobStranded, Placement, WorkerBusy, Finished
<1>5. Reserved'
  BY <1>0, <1>1 DEF Reserved, BeingSent
<1>. QED BY <1>2, <1>3, <1>4, <1>5 DEF QueueInv

-----------------------------------------------------------------------------
(* Every step preserves QueueInv: the worker                               *)

LEMMA WorkerReceivePreserves ==
  ASSUME QueueInv, WorkerReceive
  PROVE  QueueInv'
<1> USE QueueAssumption
<1>0. /\ TypeOK /\ OrderMatchesChannel /\ NoJobStranded /\ Placement /\ Reserved
      /\ worker = "select" /\ worker' = "received"
      /\ jobChan # <<>> /\ jobChan' = Tail(jobChan) /\ current' = Head(jobChan)
      /\ UNCHANGED <<jobs, queueOrder, inflight, submitting, cancelled, deleting, issued>>
  BY DEF QueueInv, WorkerReceive
<1>1. /\ jobChan \in Seq(JobID) /\ jobChan' \in Seq(JobID)
      /\ current' \in JobID
      /\ Len(jobChan') = Len(jobChan) - 1
      /\ jobChan = <<current'>> \o jobChan'
  BY <1>0 DEF TypeOK
<1>2. BeingSent' = BeingSent /\ BeingSent \in Seq(JobID)
  BY <1>0 DEF BeingSent, TypeOK
<1>3. queueOrder = jobChan \o BeingSent
  BY <1>0, <1>1, <1>2 DEF OrderMatchesChannel, InHand
<1>4. TypeOK'
  BY <1>0, <1>1 DEF TypeOK, WorkerPoint
<1>5. OrderMatchesChannel'
  BY <1>0, <1>1, <1>2, <1>3 DEF OrderMatchesChannel, InHand
<1>6. NoJobStranded'
  BY <1>0 DEF NoJobStranded
<1>7. Placement'
  <2>1. current' \in ToSet(queueOrder)
    <3>1. 1 \in DOMAIN queueOrder /\ queueOrder[1] = current'
      BY <1>0, <1>1, <1>2, <1>3
    <3>. QED BY <3>1 DEF ToSet
  <2>. QED BY <1>0, <2>1 DEF Placement, WorkerBusy, Finished
<1>8. Reserved'
  <2>1. Len(BeingSent) \in Nat /\ Len(jobChan) \in Nat
    BY <1>1, <1>2
  <2>. QED BY <1>0, <1>1, <1>2, <2>1 DEF Reserved
<1>. QED BY <1>4, <1>5, <1>6, <1>7, <1>8 DEF QueueInv

LEMMA WorkerExitPreserves ==
  ASSUME QueueInv, WorkerExit
  PROVE  QueueInv'
BY DEF QueueInv, TypeOK, WorkerPoint, OrderMatchesChannel, InHand, BeingSent,
       NoJobStranded, Placement, WorkerBusy, Finished, Reserved, WorkerExit

LEMMA WorkerDequeuePreserves ==
  ASSUME QueueInv, WorkerDequeue
  PROVE  QueueInv'
<1> USE QueueAssumption
<1>0. /\ TypeOK /\ OrderMatchesChannel /\ NoJobStranded /\ Placement /\ Reserved
      /\ worker = "received" /\ worker' = "removed" /\ submitting = NoJob
      /\ queueOrder' = RemoveFirst(queueOrder, current)
      /\ UNCHANGED <<jobs, jobChan, inflight, submitting, current, cancelled, deleting, issued>>
  BY DEF QueueInv, WorkerDequeue, MuFree
<1>1. /\ current \in JobID
      /\ queueOrder # <<>> /\ queueOrder \in Seq(JobID)
      /\ current = Head(queueOrder)
      /\ Tail(queueOrder) = jobChan
  BY <1>0, ReceivedIsHead DEF MuFree, TypeOK
<1>2. queueOrder' = jobChan
  BY <1>0, <1>1, RemoveFirstHead
<1>3. /\ ToSet(queueOrder) = ToSet(queueOrder') \cup {current}
      /\ Distinct(queueOrder')
      /\ current \notin ToSet(queueOrder')
  <2>1. /\ ToSet(queueOrder) = ToSet(Tail(queueOrder)) \cup {Head(queueOrder)}
        /\ Distinct(queueOrder) =>
             Distinct(Tail(queueOrder)) /\ Head(queueOrder) \notin ToSet(Tail(queueOrder))
    BY <1>1, TailElements
  <2>2. Distinct(queueOrder)
    BY <1>0 DEF Placement
  <2>. QED BY <1>1, <1>2, <2>1, <2>2
<1>4. TypeOK'
  BY <1>0, <1>2 DEF TypeOK, WorkerPoint
<1>5. OrderMatchesChannel'
  <2>1. <<>> \o jobChan \o <<>> = jobChan
    BY <1>0 DEF TypeOK
  <2>2. InHand' = <<>> /\ BeingSent' = <<>> /\ jobChan' = jobChan
    BY <1>0 DEF InHand, BeingSent
  <2>. QED BY <1>2, <2>1, <2>2 DEF OrderMatchesChannel
<1>6. NoJobStranded'
  BY <1>0, <1>3 DEF NoJobStranded
<1>7. Placement'
  BY <1>0, <1>3 DEF Placement, WorkerBusy, Finished
<1>8. Reserved'
  BY <1>0 DEF Reserved, BeingSent
<1>. QED BY <1>4, <1>5, <1>6, <1>7, <1>8 DEF QueueInv

(* A worker step that only changes the snapshot of the job in its hand, or *)
(* nothing but its own program point.                                      *)
LEMMA WorkerPublishPreserves ==
  ASSUME QueueInv, WorkerPublish
  PROVE  QueueInv'
<1>0. /\ TypeOK /\ OrderMatchesChannel /\ NoJobStranded /\ Placement /\ Reserved
      /\ worker = "removed" /\ worker' = "processing"
      /\ jobs' = [jobs EXCEPT ![current] = "processing"]
      /\ UNCHANGED <<jobChan, queueOrder, inflight, submitting, current, cancelled, deleting, issued>>
  BY DEF QueueInv, WorkerPublish
<1>1. current \in issued /\ current \in JobID /\ current \notin ToSet(queueOrder)
  BY <1>0 DEF Placement, WorkerBusy, TypeOK
<1>2. TypeOK'
  BY <1>0 DEF TypeOK, WorkerPoint, Status
<1>3. OrderMatchesChannel' /\ Reserved'
  BY <1>0 DEF OrderMatchesChannel, InHand, BeingSent, Reserved
<1>4. NoJobStranded'
  BY <1>0, <1>1 DEF NoJobStranded, TypeOK
<1>5. Placement'
  <2>1. jobs[current] = "queued"
    BY <1>0, <1>1 DEF NoJobStranded
  <2>2. \A j \in deleting : j # current
    BY <1>0, <2>1 DEF Placement, Finished
  <2>. QED BY <1>0, <1>1, <2>2 DEF Placement, WorkerBusy, Finished, TypeOK
<1>. QED BY <1>2, <1>3, <1>4, <1>5 DEF QueueInv

LEMMA WorkerStorePreserves ==
  ASSUME QueueInv, NEW result \in Result, WorkerStore(result)
  PROVE  QueueInv'
<1> DEFINE final == FinalStatus(result)
<1>0. /\ TypeOK /\ OrderMatchesChannel /\ NoJobStranded /\ Placement /\ Reserved
      /\ worker = "processing" /\ worker' = "stored"
      /\ jobs' = [jobs EXCEPT ![current] = final]
      /\ UNCHANGED <<jobChan, queueOrder, inflight, submitting, current, cancelled, deleting, issued>>
  BY DEF QueueInv, WorkerStore
<1>1. final \in Terminal
  BY DEF FinalStatus, Terminal
<1> HIDE DEF final
<1>2. current \in issued /\ current \in JobID /\ current \notin ToSet(queueOrder)
  BY <1>0 DEF Placement, WorkerBusy, TypeOK
<1>3. TypeOK'
  BY <1>0, <1>1 DEF TypeOK, WorkerPoint, Status
<1>4. OrderMatchesChannel' /\ Reserved'
  BY <1>0 DEF OrderMatchesChannel, InHand, BeingSent, Reserved
<1>5. NoJobStranded'
  BY <1>0, <1>1, <1>2 DEF NoJobStranded, TypeOK, Terminal
<1>6. Placement'
  BY <1>0, <1>1, <1>2 DEF Placement, WorkerBusy, Finished, TypeOK, Terminal
<1>. QED BY <1>3, <1>4, <1>5, <1>6 DEF QueueInv

LEMMA WorkerReleasePreserves ==
  ASSUME QueueInv, WorkerRelease
  PROVE  QueueInv'
<1>0. /\ TypeOK /\ OrderMatchesChannel /\ NoJobStranded /\ Placement /\ Reserved
      /\ worker = "stored" /\ worker' = "select"
      /\ UNCHANGED <<jobs, jobChan, queueOrder, submitting, current, cancelled, deleting, issued>>
  BY DEF QueueInv, WorkerRelease
<1>1. inflight' \in [Client -> Nat]
  <2>1. \A n \in Nat : Released(n) \in Nat
    BY DEF Released
  <2>2. inflight \in [Client -> Nat]
    BY <1>0 DEF TypeOK
  <2>3. CASE UNCHANGED inflight
    BY <2>2, <2>3
  <2>4. CASE inflight' = [inflight EXCEPT ![OwnerIP[current]] = Released(@)]
    BY <2>1, <2>2, <2>4
  <2>. QED BY <2>3, <2>4 DEF WorkerRelease
<1>2. TypeOK'
  BY <1>0, <1>1 DEF TypeOK, WorkerPoint
<1>3. OrderMatchesChannel' /\ Reserved' /\ NoJobStranded'
  BY <1>0 DEF OrderMatchesChannel, InHand, BeingSent, Reserved, NoJobStranded
<1>4. Placement'
  BY <1>0 DEF Placement, WorkerBusy, Finished
<1>. QED BY <1>2, <1>3, <1>4 DEF QueueInv

-----------------------------------------------------------------------------
(* Every step preserves QueueInv: DeleteJob and the shutdown               *)

LEMMA DeleteJobEntryPreserves ==
  ASSUME QueueInv, NEW j \in JobID, DeleteJobEntry(j)
  PROVE  QueueInv'
<1>0. /\ TypeOK /\ OrderMatchesChannel /\ NoJobStranded /\ Placement /\ Reserved
      /\ Finished(j)
      /\ jobs' = [jobs EXCEPT ![j] = "absent"] /\ deleting' = deleting \cup {j}
      /\ UNCHANGED <<jobChan, queueOrder, inflight, submitting, worker, current, cancelled, issued>>
  BY DEF QueueInv, DeleteJobEntry
<1>1. TypeOK'
  BY <1>0 DEF TypeOK
<1>2. OrderMatchesChannel' /\ Reserved'
  BY <1>0 DEF OrderMatchesChannel, InHand, BeingSent, Reserved
<1>3. NoJobStranded'
  BY <1>0 DEF NoJobStranded, TypeOK, Finished
<1>4. Placement'
  BY <1>0 DEF Placement, WorkerBusy, Finished, TypeOK
<1>. QED BY <1>1, <1>2, <1>3, <1>4 DEF QueueInv

LEMMA DeleteJobOrderPreserves ==
  ASSUME QueueInv, NEW j \in JobID, DeleteJobOrder(j)
  PROVE  QueueInv' /\ queueOrder' = queueOrder
<1>0. /\ TypeOK /\ OrderMatchesChannel /\ NoJobStranded /\ Placement /\ Reserved
      /\ j \in deleting /\ deleting' = deleting \ {j}
      /\ queueOrder' = RemoveFirst(queueOrder, j)
      /\ UNCHANGED <<jobs, jobChan, inflight, submitting, worker, current, cancelled, issued>>
  BY DEF QueueInv, DeleteJobOrder
<1>1. j \notin ToSet(queueOrder)
  BY <1>0 DEF Placement, Finished, NoJobStranded
<1>2. queueOrder' = queueOrder
  BY <1>0, <1>1, RemoveFirstAbsent DEF TypeOK
<1>3. TypeOK'
  BY <1>0, <1>2 DEF TypeOK
<1>4. OrderMatchesChannel' /\ Reserved' /\ NoJobStranded'
  BY <1>0, <1>2 DEF OrderMatchesChannel, InHand, BeingSent, Reserved, NoJobStranded
<1>5. Placement'
  BY <1>0, <1>2 DEF Placement, WorkerBusy, Finished
<1>. QED BY <1>2, <1>3, <1>4, <1>5 DEF QueueInv

LEMMA CancelPreserves ==
  ASSUME QueueInv, Cancel
  PROVE  QueueInv'
BY DEF QueueInv, TypeOK, OrderMatchesChannel, InHand, BeingSent,
       NoJobStranded, Placement, WorkerBusy, Finished, Reserved, Cancel

LEMMA StutterPreserves ==
  ASSUME QueueInv, UNCHANGED queueVars
  PROVE  QueueInv'
BY DEF QueueInv, TypeOK, OrderMatchesChannel, InHand, BeingSent,
       NoJobStranded, Placement, WorkerBusy, Finished, Reserved, queueVars

LEMMA QueueInvStep == QueueInv /\ [QueueNext]_queueVars => QueueInv'
<1> SUFFICES ASSUME QueueInv, [QueueNext]_queueVars PROVE QueueInv'
  OBVIOUS
<1>1. ASSUME NEW j \in JobID, SubmitAdmit(j) PROVE QueueInv'
  BY <1>1, SubmitAdmitPreserves
<1>2. CASE SubmitSend
  BY <1>2, SubmitSendPreserves
<1>3. CASE WorkerReceive
  BY <1>3, WorkerReceivePreserves
<1>4. CASE WorkerExit
  BY <1>4, WorkerExitPreserves
<1>5. CASE WorkerDequeue
  BY <1>5, WorkerDequeuePreserves
<1>6. CASE WorkerPublish
  BY <1>6, WorkerPublishPreserves
<1>7. ASSUME NEW result \in Result, WorkerStore(result) PROVE QueueInv'
  BY <1>7, WorkerStorePreserves
<1>8. CASE WorkerRelease
  BY <1>8, WorkerReleasePreserves
<1>9. ASSUME NEW j \in JobID, DeleteJobEntry(j) PROVE QueueInv'
  BY <1>9, DeleteJobEntryPreserves
<1>10. ASSUME NEW j \in JobID, DeleteJobOrder(j) PROVE QueueInv'
  BY <1>10, DeleteJobOrderPreserves
<1>11. CASE Cancel
  BY <1>11, CancelPreserves
<1>12. CASE Stopped \/ UNCHANGED queueVars
  BY <1>12, StutterPreserves DEF Stopped
<1>. QED
  BY <1>1, <1>2, <1>3, <1>4, <1>5, <1>6, <1>7, <1>8, <1>9, <1>10, <1>11, <1>12
     DEF QueueNext, WorkerStep

LEMMA QueueInvariant == QueueSpec => []QueueInv
BY QueueInvInit, QueueInvStep, PTL DEF QueueSpec

(* The types: in particular no status but the four of the code, no negative*)
(* counter, and removeFromOrder yields a list of ids at each of its uses.  *)
THEOREM TypeCorrect == QueueSpec => []TypeOK
<1>1. QueueInv => TypeOK
  BY DEF QueueInv
<1>. QED BY <1>1, QueueInvariant, PTL

(* The order GetPosition reads lists exactly the jobs the worker will take *)
(* from the channel, in that order.                                        *)
THEOREM OrderCorrect == QueueSpec => []OrderMatchesChannel
<1>1. QueueInv => OrderMatchesChannel
  BY DEF QueueInv
<1>. QED BY <1>1, QueueInvariant, PTL

(* The send of Submit (queue.go:176), made with mu held, never blocks.     *)
THEOREM SendCorrect == QueueSpec => []SendNeverBlocks
<1>1. QueueInv => SendNeverBlocks
  <2> SUFFICES ASSUME QueueInv, submitting # NoJob PROVE Len(jobChan) < MaxSize
    BY DEF SendNeverBlocks
  <2>1. Len(jobChan) \in Nat /\ Len(BeingSent) = 1
    BY DEF QueueInv, TypeOK, BeingSent
  <2>. QED BY <2>1, QueueAssumption DEF QueueInv, Reserved
<1>. QED BY <1>1, QueueInvariant, PTL

(* No snapshot says queued or processing without the order or the worker   *)
(* holding the job.                                                        *)
THEOREM NoJobStrandedCorrect == QueueSpec => []NoJobStranded
<1>1. QueueInv => NoJobStranded
  BY DEF QueueInv
<1>. QED BY <1>1, QueueInvariant, PTL

-----------------------------------------------------------------------------
(* The fairness slots                                                      *)

(* The counters are exact and never above the cap.                         *)
SlotInv ==
  \A ip \in Client :
    /\ IsFiniteSet(SlotHolders(ip))
    /\ inflight[ip] = Cardinality(SlotHolders(ip))
    /\ inflight[ip] <= PerClientLimit

LEMMA SlotInvInit == QueueInit => SlotInv
<1> SUFFICES ASSUME QueueInit PROVE SlotInv
  OBVIOUS
<1>1. \A ip : SlotHolders(ip) = {}
  BY DEF QueueInit, SlotHolders, Unreleased, ToSet, WorkerBusy
<1>2. \A ip \in Client : inflight[ip] = 0
  BY DEF QueueInit
<1>3. 0 <= PerClientLimit
  BY QueueAssumption DEF PerClientLimit
<1>. QED BY <1>1, <1>2, <1>3, FS_EmptySet DEF SlotInv

(* Most steps neither take nor return a slot.                              *)
LEMMA SlotsUntouched ==
  ASSUME SlotInv, Unreleased' = Unreleased, inflight' = inflight
  PROVE  SlotInv'
BY DEF SlotInv, SlotHolders

LEMMA SubmitTakesSlot ==
  ASSUME QueueInv, SlotInv, NEW j \in JobID, SubmitAdmit(j)
  PROVE  SlotInv'
<1> USE QueueAssumption
<1>1. /\ TypeOK /\ Placement
      /\ queueOrder' = Append(queueOrder, j)
      /\ j \notin issued
      /\ UNCHANGED <<worker, current>>
  BY DEF QueueInv, SubmitAdmit
<1>2. /\ j \notin Unreleased
      /\ Unreleased' = Unreleased \cup {j}
  <2>1. ToSet(queueOrder') = ToSet(queueOrder) \cup {j}
    BY <1>1, AppendElements DEF TypeOK
  <2>. QED BY <1>1, <2>1 DEF Unreleased, WorkerBusy, Placement
<1>3. SUFFICES ASSUME NEW ip \in Client
               PROVE  /\ IsFiniteSet(SlotHolders(ip)')
                      /\ inflight'[ip] = Cardinality(SlotHolders(ip)')
                      /\ inflight'[ip] <= PerClientLimit
  BY DEF SlotInv
<1>4. /\ inflight \in [Client -> Nat] /\ inflight[ip] \in Nat
      /\ IsFiniteSet(SlotHolders(ip))
      /\ inflight[ip] = Cardinality(SlotHolders(ip))
      /\ inflight[ip] <= PerClientLimit
      /\ PerClientLimit \in Nat
  BY <1>1 DEF SlotInv, TypeOK, PerClientLimit
<1>5. CASE OwnerIP[j] = ip
  <2>1. /\ SlotHolders(ip)' = SlotHolders(ip) \cup {j}
        /\ j \notin SlotHolders(ip)
    BY <1>2, <1>5 DEF SlotHolders
  <2>2. inflight'[ip] = inflight[ip] + 1 /\ ~(inflight[ip] >= PerClientLimit)
    BY <1>4, <1>5 DEF SubmitAdmit, SubmitRefuses, ClientAtLimit
  <2>3. IsFiniteSet(SlotHolders(ip)') /\ Cardinality(SlotHolders(ip)') = inflight[ip] + 1
    BY <1>4, <2>1, FS_AddElement
  <2>. QED BY <1>4, <2>2, <2>3
<1>6. CASE OwnerIP[j] # ip
  <2>1. SlotHolders(ip)' = SlotHolders(ip)
    BY <1>2, <1>6 DEF SlotHolders
  <2>2. inflight'[ip] = inflight[ip]
    BY <1>4, <1>6 DEF SubmitAdmit
  <2>. QED BY <1>4, <2>1, <2>2
<1>. QED BY <1>5, <1>6

LEMMA WorkerReturnsSlot ==
  ASSUME QueueInv, SlotInv, WorkerRelease
  PROVE  SlotInv'
<1> USE QueueAssumption
<1>1. /\ TypeOK /\ Placement
      /\ worker = "stored" /\ worker' = "select"
      /\ UNCHANGED <<queueOrder, current>>
  BY DEF QueueInv, WorkerRelease
<1>2. /\ current \in Unreleased
      /\ Unreleased' = Unreleased \ {current}
  BY <1>1 DEF Unreleased, WorkerBusy, Placement
<1>3. SUFFICES ASSUME NEW ip \in Client
               PROVE  /\ IsFiniteSet(SlotHolders(ip)')
                      /\ inflight'[ip] = Cardinality(SlotHolders(ip)')
                      /\ inflight'[ip] <= PerClientLimit
  BY DEF SlotInv
<1>4. /\ inflight \in [Client -> Nat] /\ inflight[ip] \in Nat
      /\ IsFiniteSet(SlotHolders(ip))
      /\ inflight[ip] = Cardinality(SlotHolders(ip))
      /\ inflight[ip] <= PerClientLimit
      /\ PerClientLimit \in Nat
  BY <1>1 DEF SlotInv, TypeOK, PerClientLimit
<1>5. CASE OwnerIP[current] = ip
  <2>1. /\ SlotHolders(ip)' = SlotHolders(ip) \ {current}
        /\ current \in SlotHolders(ip)
    BY <1>1, <1>2, <1>5 DEF SlotHolders
  <2>2. inflight[ip] # 0
    BY <1>4, <2>1, FS_EmptySet
  <2>3. inflight'[ip] = Released(inflight[ip])
    BY <1>4, <1>5 DEF WorkerRelease
  <2>4. Released(inflight[ip]) = inflight[ip] - 1
    BY <1>4, <2>2 DEF Released
  <2>5. /\ IsFiniteSet(SlotHolders(ip)')
        /\ Cardinality(SlotHolders(ip)') = inflight[ip] - 1
    BY <1>4, <2>1, FS_RemoveElement
  <2>. QED BY <1>4, <2>3, <2>4, <2>5
<1>6. CASE OwnerIP[current] # ip
  <2>1. SlotHolders(ip)' = SlotHolders(ip)
    BY <1>1, <1>2, <1>6 DEF SlotHolders
  <2>2. inflight'[ip] = inflight[ip]
    BY <1>4, <1>6 DEF WorkerRelease
  <2>. QED BY <1>4, <2>1, <2>2
<1>. QED BY <1>5, <1>6

LEMMA SlotInvStep == QueueInv /\ SlotInv /\ [QueueNext]_queueVars => SlotInv'
<1> SUFFICES ASSUME QueueInv, SlotInv, [QueueNext]_queueVars PROVE SlotInv'
  OBVIOUS
<1>1. ASSUME NEW j \in JobID, SubmitAdmit(j) PROVE SlotInv'
  BY <1>1, SubmitTakesSlot
<1>2. CASE WorkerReceive
  <2>1. current' \in ToSet(queueOrder)
    <3>1. QueueInv' /\ worker' = "received" /\ UNCHANGED queueOrder
      BY <1>2, WorkerReceivePreserves DEF WorkerReceive
    <3>2. queueOrder' = <<current'>> \o jobChan' \o BeingSent'
      BY <3>1 DEF QueueInv, OrderMatchesChannel, InHand
    <3>3. current' \in JobID /\ jobChan' \in Seq(JobID) /\ BeingSent' \in Seq(JobID)
      BY <1>2, <3>1 DEF QueueInv, TypeOK, Placement, WorkerBusy, BeingSent
    <3>4. 1 \in DOMAIN queueOrder /\ queueOrder[1] = current'
      BY <3>1, <3>2, <3>3
    <3>. QED BY <3>4 DEF ToSet
  <2>. QED BY <1>2, <2>1, SlotsUntouched DEF WorkerReceive, Unreleased, WorkerBusy
<1>3. CASE WorkerDequeue
  <2>1. /\ queueOrder \in Seq(JobID) /\ queueOrder # <<>>
        /\ current = Head(queueOrder)
        /\ queueOrder' = Tail(queueOrder)
    BY <1>3, ReceivedIsHead, RemoveFirstHead DEF WorkerDequeue, QueueInv, TypeOK
  <2>2. ToSet(queueOrder) = ToSet(queueOrder') \cup {current}
    BY <2>1, TailElements
  <2>. QED BY <1>3, <2>2, SlotsUntouched DEF WorkerDequeue, Unreleased, WorkerBusy
<1>4. CASE WorkerRelease
  BY <1>4, WorkerReturnsSlot
<1>5. ASSUME NEW j \in JobID, DeleteJobOrder(j) PROVE SlotInv'
  BY <1>5, DeleteJobOrderPreserves, SlotsUntouched
     DEF DeleteJobOrder, Unreleased, WorkerBusy
<1>6. CASE WorkerPublish \/ \E result \in Result : WorkerStore(result)
  BY <1>6, SlotsUntouched DEF WorkerPublish, WorkerStore, Unreleased, WorkerBusy
<1>7. ASSUME \/ SubmitSend \/ WorkerExit \/ Cancel \/ Stopped \/ UNCHANGED queueVars
             \/ \E j \in JobID : DeleteJobEntry(j)
      PROVE SlotInv'
  BY <1>7, SlotsUntouched
     DEF SubmitSend, WorkerExit, Cancel, Stopped, queueVars, DeleteJobEntry,
         Unreleased, WorkerBusy
<1>. QED
  BY <1>1, <1>2, <1>3, <1>4, <1>5, <1>6, <1>7 DEF QueueNext, WorkerStep

LEMMA SlotInvariant == QueueSpec => []SlotInv
BY QueueInvariant, SlotInvInit, SlotInvStep, PTL DEF QueueSpec

(* The fairness counter of a client is the number of its unreleased jobs.  *)
THEOREM InflightCorrect == QueueSpec => []InflightExact
<1>1. SlotInv => InflightExact
  BY DEF SlotInv, InflightExact
<1>. QED BY <1>1, SlotInvariant, PTL

(* With at least three slots, no capped client can own a full channel: the *)
(* comment at queue.go:88 is true of every such queue.  The run of a queue *)
(* of two shows that the bound cannot be lowered.                          *)
THEOREM FairnessCapHolds == MaxSize >= 3 => (QueueSpec => []NoClientFillsQueue)
<1> SUFFICES ASSUME MaxSize >= 3 PROVE QueueSpec => []NoClientFillsQueue
  OBVIOUS
<1> USE QueueAssumption
<1>1. QueueInv /\ SlotInv => NoClientFillsQueue
  <2> SUFFICES ASSUME QueueInv, SlotInv, NEW ip \in Client, Len(jobChan) = MaxSize,
                      \A i \in DOMAIN jobChan : OwnerIP[jobChan[i]] = ip
               PROVE  FALSE
    BY DEF NoClientFillsQueue
  <2>1. /\ jobChan \in Seq(JobID) /\ queueOrder \in Seq(JobID)
        /\ Distinct(queueOrder)
    BY DEF QueueInv, TypeOK, Placement
  <2> DEFINE d == Len(InHand)
  <2>2. /\ d \in Nat
        /\ \A i \in 1..MaxSize : d + i \in DOMAIN queueOrder /\ queueOrder[d+i] = jobChan[i]
    <3>1. InHand \in Seq(JobID) /\ BeingSent \in Seq(JobID)
      BY DEF QueueInv, TypeOK, Placement, WorkerBusy, InHand, BeingSent
    <3>2. queueOrder = InHand \o jobChan \o BeingSent
      BY DEF QueueInv, OrderMatchesChannel
    <3>. QED BY <2>1, <3>1, <3>2
  <2> HIDE DEF d
  <2>3. jobChan \in Injection(1..MaxSize, SlotHolders(ip))
    <3>1. ASSUME NEW i \in 1..MaxSize PROVE jobChan[i] \in SlotHolders(ip)
      <4>1. jobChan[i] \in ToSet(queueOrder)
        BY <2>2 DEF ToSet
      <4>2. OwnerIP[jobChan[i]] = ip
        BY <2>1
      <4>. QED BY <4>1, <4>2 DEF SlotHolders, Unreleased
    <3>2. \A i, k \in 1..MaxSize : jobChan[i] = jobChan[k] => i = k
      <4> SUFFICES ASSUME NEW i \in 1..MaxSize, NEW k \in 1..MaxSize,
                          jobChan[i] = jobChan[k]
                   PROVE  i = k
        OBVIOUS
      <4>1. d + i = d + k
        BY <2>1, <2>2 DEF Distinct
      <4>. QED BY <2>2, <4>1
    <3>3. jobChan \in [1..MaxSize -> SlotHolders(ip)]
      BY <2>1, <3>1
    <3>. QED BY <3>2, <3>3 DEF Injection, IsInjective
  <2>4. MaxSize <= Cardinality(SlotHolders(ip))
    <3>1. IsFiniteSet(SlotHolders(ip))
      BY DEF SlotInv
    <3>2. Cardinality(1..MaxSize) = MaxSize
      BY FS_Interval
    <3>. QED BY <2>3, <3>1, <3>2, FS_Injection
  <2>5. inflight[ip] = Cardinality(SlotHolders(ip)) /\ inflight[ip] <= PerClientLimit
    BY DEF SlotInv
  <2>6. PerClientLimit < MaxSize
    BY DEF PerClientLimit
  <2>7. inflight[ip] \in Nat /\ PerClientLimit \in Nat
    BY DEF QueueInv, TypeOK, PerClientLimit
  <2>. QED BY <2>4, <2>5, <2>6, <2>7
<1>. QED BY <1>1, QueueInvariant, SlotInvariant, PTL

-----------------------------------------------------------------------------
(* GetPosition                                                             *)

(* The position of an id in a list; in a list without repetition, its only *)
(* index.                                                                  *)
PositionIn(s, e) ==
  LET I == {k \in 1..Len(s) : s[k] = e} IN IF I # {} THEN Min(I) ELSE 0

LEMMA PositionInList ==
  ASSUME NEW S, NEW s \in Seq(S), NEW e
  PROVE  /\ Distinct(s) => PositionIn(s, e) \in 0..Len(s)
         /\ e \notin ToSet(s) => PositionIn(s, e) = 0
         /\ \A i \in 1..Len(s) :
              Distinct(s) /\ s[i] = e => PositionIn(s, e) = i
<1> DEFINE I == {k \in 1..Len(s) : s[k] = e}
<1>1. PositionIn(s, e) = IF I # {} THEN Min(I) ELSE 0
  BY DEF PositionIn
<1>2. ASSUME e \notin ToSet(s) PROVE I = {}
  BY <1>2 DEF ToSet
<1>3. ASSUME NEW i \in 1..Len(s), Distinct(s), s[i] = e PROVE I # {} /\ Min(I) = i
  <2>1. I = {i}
    BY <1>3 DEF Distinct
  <2>. QED BY <2>1 DEF Min
<1>4. e \in ToSet(s) => \E i \in 1..Len(s) : s[i] = e
  BY DEF ToSet
<1> HIDE DEF I
<1>5. ASSUME Distinct(s) PROVE PositionIn(s, e) \in 0..Len(s)
  BY <1>1, <1>2, <1>3, <1>4, <1>5
<1>. QED BY <1>1, <1>2, <1>3, <1>5

(* A step leaves the order alone, takes its head or is a Submit, which     *)
(* appends to it.                                                          *)
LEMMA OrderOrSubmit ==
  ASSUME QueueInv, [QueueNext]_queueVars
  PROVE  \/ queueOrder' = queueOrder
         \/ \E j \in JobID : SubmitAdmit(j)
         \/ queueOrder # <<>> /\ queueOrder' = Tail(queueOrder)
<1>1. CASE WorkerDequeue
  BY <1>1, ReceivedIsHead, RemoveFirstHead DEF WorkerDequeue, QueueInv, TypeOK
<1>2. ASSUME NEW j \in JobID, DeleteJobOrder(j) PROVE queueOrder' = queueOrder
  BY <1>2, DeleteJobOrderPreserves
<1>3. ASSUME \/ SubmitSend \/ WorkerReceive \/ WorkerExit \/ WorkerPublish \/ WorkerRelease
             \/ Cancel \/ Stopped \/ UNCHANGED queueVars
             \/ \E result \in Result : WorkerStore(result)
             \/ \E j \in JobID : DeleteJobEntry(j)
      PROVE  queueOrder' = queueOrder
  BY <1>3 DEF SubmitSend, WorkerReceive, WorkerExit, WorkerPublish, WorkerStore,
              WorkerRelease, Cancel, Stopped, DeleteJobEntry, queueVars
<1>. QED BY <1>1, <1>2, <1>3 DEF QueueNext, WorkerStep

LEMMA PositionStep ==
  ASSUME QueueInv, [QueueNext]_queueVars, NEW j \in JobID, Position(j) > 0
  PROVE  Position(j)' <= Position(j)
<1>0. /\ Position(j) = PositionIn(queueOrder, j)
      /\ Position(j)' = PositionIn(queueOrder', j)
  BY DEF Position, SelectInSeq, PositionIn
<1>1. /\ queueOrder \in Seq(JobID) /\ Distinct(queueOrder)
      /\ queueOrder' \in Seq(JobID) /\ Distinct(queueOrder')
  BY QueueInvStep DEF QueueInv, TypeOK, Placement
<1>2. j \in ToSet(queueOrder)
  BY <1>0, <1>1, PositionInList
<1>3. PICK n \in 1..Len(queueOrder) : queueOrder[n] = j
  BY <1>1, <1>2 DEF ToSet
<1>4. Position(j) = n
  BY <1>0, <1>1, <1>3, PositionInList
<1>5. CASE queueOrder' = queueOrder
  <2>1. Position(j)' = n
    BY <1>0, <1>1, <1>3, <1>5, PositionInList
  <2>. QED BY <1>4, <2>1
<1>6. ASSUME NEW k \in JobID, queueOrder' = Append(queueOrder, k)
      PROVE  Position(j)' <= Position(j)
  <2>1. n \in 1..Len(queueOrder') /\ queueOrder'[n] = j
    BY <1>1, <1>3, <1>6
  <2>2. Position(j)' = n
    BY <1>0, <1>1, <2>1, PositionInList
  <2>. QED BY <1>4, <2>2
<1>7. CASE queueOrder # <<>> /\ queueOrder' = Tail(queueOrder)
  <2>1. CASE n = 1
    <3>1. j \notin ToSet(queueOrder')
      BY <1>1, <1>3, <1>7, <2>1, TailElements
    <3>2. Position(j)' = 0
      BY <1>0, <1>1, <3>1, PositionInList
    <3>. QED BY <1>4, <2>1, <3>2
  <2>2. CASE n # 1
    <3>1. n - 1 \in 1..Len(queueOrder') /\ queueOrder'[n - 1] = j
      BY <1>1, <1>3, <1>7, <2>2
    <3>2. Position(j)' = n - 1
      BY <1>0, <1>1, <3>1, PositionInList
    <3>. QED BY <1>4, <3>2
  <2>. QED BY <2>1, <2>2
<1>. QED BY <1>5, <1>6, <1>7, OrderOrSubmit DEF SubmitAdmit

(* The position a waiting client is told never gets worse (queue.go).      *)
THEOREM PositionCorrect == QueueSpec => PositionNeverGrows
<1>1. QueueInv /\ [QueueNext]_queueVars
        => \A j \in JobID : Position(j) > 0 => Position(j)' <= Position(j)
  BY PositionStep
<1>. QED BY <1>1, QueueInvariant, PTL DEF QueueSpec, PositionNeverGrows

-----------------------------------------------------------------------------
(* The queue implements the FIFO line of FifoJobs, for every queue size,   *)
(* every set of jobs and of clients: the refinement mapping, under names   *)

Held == IF worker \in {"received", "removed"} THEN <<current>> ELSE <<>>
Waiting == Held \o jobChan \o BeingSent
Serving == IF worker = "processing" THEN current ELSE NoJob
Known == [j \in JobID |-> IF jobs[j] # "absent" THEN jobs[j]
                         ELSE IF j \in issued THEN "forgotten" ELSE "unknown"]

line == <<Waiting, Serving, Known>>

LEMMA MappedTypes ==
  ASSUME QueueInv
  PROVE  /\ Held \in Seq(JobID) /\ Len(Held) <= 1
         /\ jobChan \in Seq(JobID)
         /\ BeingSent \in Seq(JobID)
         /\ Known \in [JobID -> Status \cup {"forgotten", "unknown"}]
BY DEF QueueInv, TypeOK, Placement, WorkerBusy, Held, BeingSent, Known

-----------------------------------------------------------------------------
(* The steps of the queue that a user sees                                 *)

(* Submit puts a new job at the end of the line, which has room for it.    *)
LEMMA SubmitAccepts ==
  ASSUME QueueInv, NEW j \in JobID, SubmitAdmit(j)
  PROVE  /\ Known[j] = "unknown"
         /\ Len(Waiting) < MaxSize + 1
         /\ Waiting' = Append(Waiting, j)
         /\ Known' = [Known EXCEPT ![j] = "queued"]
         /\ Serving' = Serving
<1> USE QueueAssumption
<1>1. /\ TypeOK /\ Placement
      /\ submitting = NoJob /\ submitting' = j /\ j \notin issued /\ ~QueueFull
      /\ jobs' = [jobs EXCEPT ![j] = "queued"] /\ issued' = issued \cup {j}
      /\ UNCHANGED <<jobChan, worker, current>>
  BY DEF QueueInv, SubmitAdmit, MuFree, SubmitRefuses
<1>2. BeingSent = <<>> /\ BeingSent' = <<j>> /\ Held' = Held
  BY <1>1 DEF BeingSent, Held
<1>3. Held \in Seq(JobID) /\ Len(Held) <= 1 /\ jobChan \in Seq(JobID)
  BY MappedTypes
<1>4. Len(jobChan) < MaxSize
  BY <1>1, <1>3 DEF QueueFull
<1>5. Waiting = Held \o jobChan /\ Waiting' = (Held \o jobChan) \o <<j>>
  BY <1>1, <1>2, <1>3 DEF Waiting
<1>6. Len(Waiting) < MaxSize + 1
  BY <1>3, <1>4, <1>5
<1>7. Waiting' = Append(Waiting, j)
  BY <1>3, <1>5
<1>8. jobs[j] = "absent"
  BY <1>1 DEF Placement
<1>9. Known[j] = "unknown" /\ Known' = [Known EXCEPT ![j] = "queued"]
  BY <1>1, <1>8 DEF Known, TypeOK
<1>. QED BY <1>1, <1>6, <1>7, <1>9 DEF Serving

(* Publishing "processing" serves the head of the line.                    *)
LEMMA PublishServes ==
  ASSUME QueueInv, WorkerPublish
  PROVE  /\ Serving = NoJob
         /\ Waiting # <<>>
         /\ Serving' = Head(Waiting)
         /\ Waiting' = Tail(Waiting)
         /\ Known' = [Known EXCEPT ![Head(Waiting)] = "processing"]
<1>1. /\ TypeOK /\ worker = "removed" /\ worker' = "processing"
      /\ jobs' = [jobs EXCEPT ![current] = "processing"]
      /\ current \in JobID
      /\ UNCHANGED <<jobChan, submitting, current, issued>>
  BY DEF QueueInv, WorkerPublish, Placement, WorkerBusy, TypeOK
<1>2. jobChan \in Seq(JobID) /\ BeingSent \in Seq(JobID) /\ BeingSent' = BeingSent
  BY <1>1, MappedTypes DEF BeingSent
<1>3. /\ Waiting = <<current>> \o jobChan \o BeingSent
      /\ Waiting' = <<>> \o jobChan \o BeingSent
  BY <1>1, <1>2 DEF Waiting, Held
<1>4. Waiting # <<>> /\ Head(Waiting) = current /\ Waiting' = Tail(Waiting)
  BY <1>1, <1>2, <1>3
<1>5. Known' = [Known EXCEPT ![current] = "processing"]
  BY <1>1 DEF Known, TypeOK
<1>. QED BY <1>1, <1>4, <1>5 DEF Serving

(* The final Store ends the service, with done or with error.              *)
LEMMA StoreFinishes ==
  ASSUME QueueInv, NEW result \in Result, WorkerStore(result)
  PROVE  /\ Serving # NoJob
         /\ Known' = [Known EXCEPT ![Serving] = FinalStatus(result)]
         /\ FinalStatus(result) \in {"done", "error"}
         /\ Serving' = NoJob
         /\ Waiting' = Waiting
<1>1. /\ TypeOK /\ worker = "processing" /\ worker' = "stored"
      /\ jobs' = [jobs EXCEPT ![current] = FinalStatus(result)]
      /\ current \in JobID
      /\ UNCHANGED <<jobChan, submitting, current, issued>>
  BY DEF QueueInv, WorkerStore, Placement, WorkerBusy, TypeOK
<1>2. FinalStatus(result) \in {"done", "error"}
  BY DEF FinalStatus
<1>3. Serving = current /\ Serving' = NoJob /\ Waiting' = Waiting
  BY <1>1 DEF Serving, Waiting, Held, BeingSent
<1>4. Known' = [Known EXCEPT ![current] = FinalStatus(result)]
  BY <1>1, <1>2 DEF Known, TypeOK
<1>. QED BY <1>1, <1>2, <1>3, <1>4, QueueAssumption

(* DeleteJob forgets a finished job, or finds it forgotten.                *)
LEMMA DeleteForgets ==
  ASSUME QueueInv, NEW j \in JobID, DeleteJobEntry(j)
  PROVE  /\ Waiting' = Waiting /\ Serving' = Serving
         /\ \/ /\ Known[j] \in {"done", "error"}
               /\ Known' = [Known EXCEPT ![j] = "forgotten"]
            \/ Known' = Known
<1>1. /\ TypeOK /\ j \in issued /\ jobs[j] \notin {"queued", "processing"}
      /\ jobs' = [jobs EXCEPT ![j] = "absent"]
      /\ UNCHANGED <<jobChan, submitting, worker, current, issued>>
  BY DEF QueueInv, DeleteJobEntry, Finished
<1>2. Waiting' = Waiting /\ Serving' = Serving
  BY <1>1 DEF Waiting, Held, BeingSent, Serving
<1>3. CASE jobs[j] = "absent"
  BY <1>1, <1>2, <1>3 DEF Known, TypeOK
<1>4. CASE jobs[j] # "absent"
  <2>1. Known[j] \in {"done", "error"}
    BY <1>1, <1>4 DEF Known, TypeOK, Status, Terminal
  <2>2. Known' = [Known EXCEPT ![j] = "forgotten"]
    BY <1>1 DEF Known, TypeOK
  <2>. QED BY <1>2, <2>1, <2>2
<1>. QED BY <1>3, <1>4

-----------------------------------------------------------------------------
(* The steps of the queue that nobody sees                                 *)

LEMMA SendHidden ==
  ASSUME QueueInv, SubmitSend
  PROVE  UNCHANGED line
<1>1. /\ submitting # NoJob /\ submitting' = NoJob /\ submitting \in JobID
      /\ jobChan' = Append(jobChan, submitting)
      /\ UNCHANGED <<jobs, worker, current, issued>>
  BY DEF QueueInv, TypeOK, SubmitSend
<1>2. Held \in Seq(JobID) /\ jobChan \in Seq(JobID) /\ Held' = Held
  BY <1>1, MappedTypes DEF Held
<1>3. BeingSent = <<submitting>> /\ BeingSent' = <<>>
  BY <1>1 DEF BeingSent
<1>4. Waiting' = Waiting
  <2>1. Waiting = (Held \o jobChan) \o <<submitting>>
    BY <1>3 DEF Waiting
  <2>2. Waiting' = (Held \o Append(jobChan, submitting)) \o <<>>
    BY <1>1, <1>2, <1>3 DEF Waiting
  <2>. QED BY <1>1, <1>2, <2>1, <2>2
<1>. QED BY <1>1, <1>4 DEF line, Serving, Known

LEMMA ReceiveHidden ==
  ASSUME QueueInv, WorkerReceive
  PROVE  UNCHANGED line
<1>1. /\ worker = "select" /\ worker' = "received" /\ jobChan # <<>>
      /\ current' = Head(jobChan) /\ jobChan' = Tail(jobChan)
      /\ UNCHANGED <<jobs, submitting, issued>>
  BY DEF WorkerReceive
<1>2. jobChan \in Seq(JobID) /\ BeingSent \in Seq(JobID) /\ BeingSent' = BeingSent
  BY <1>1, MappedTypes DEF BeingSent
<1>3. Held = <<>> /\ Held' = <<Head(jobChan)>>
  BY <1>1 DEF Held
<1>4. <<>> \o jobChan = <<Head(jobChan)>> \o Tail(jobChan)
  BY <1>1, <1>2
<1>5. Waiting' = Waiting
  BY <1>1, <1>2, <1>3, <1>4 DEF Waiting
<1>. QED BY <1>1, <1>5 DEF line, Serving, Known

LEMMA OthersHidden ==
  ASSUME \/ WorkerExit \/ WorkerDequeue \/ WorkerRelease \/ Cancel \/ Stopped
         \/ UNCHANGED queueVars \/ \E j \in JobID : DeleteJobOrder(j)
  PROVE  UNCHANGED line
<1>1. /\ UNCHANGED <<jobs, jobChan, submitting, current, issued>>
      /\ \/ UNCHANGED worker
         \/ worker = "select" /\ worker' = "exited"
         \/ worker = "received" /\ worker' = "removed"
         \/ worker = "stored" /\ worker' = "select"
  BY DEF WorkerExit, WorkerDequeue, WorkerRelease, Cancel, Stopped, queueVars, DeleteJobOrder
<1>. QED BY <1>1 DEF line, Waiting, Held, BeingSent, Serving, Known

-----------------------------------------------------------------------------
(* The refinement                                                          *)

LEMMA InitialLine == QueueInit => Fifo!Init
<1> SUFFICES ASSUME QueueInit PROVE Fifo!Init
  OBVIOUS
<1>1. Waiting = <<>> /\ Serving = NoJob /\ Known = [j \in JobID |-> "unknown"]
  BY DEF QueueInit, Waiting, Held, BeingSent, Serving, Known
<1>. QED BY <1>1 DEF Fifo!Init, Waiting, Held, Serving, Known

LEMMA LineStep == QueueInv /\ [QueueNext]_queueVars => [Fifo!Next]_(Fifo!vars)
<1> SUFFICES ASSUME QueueInv, [QueueNext]_queueVars PROVE [Fifo!Next]_(Fifo!vars)
  OBVIOUS
<1>1. ASSUME NEW j \in JobID, SubmitAdmit(j) PROVE Fifo!Next
  <2>1. Fifo!Accept(j)
    BY <1>1, SubmitAccepts DEF Fifo!Accept, Waiting, Held, Serving, Known
  <2>. QED BY <2>1 DEF Fifo!Next
<1>2. CASE WorkerPublish
  <2>1. Fifo!Serve
    BY <1>2, PublishServes DEF Fifo!Serve, Waiting, Held, Serving, Known
  <2>. QED BY <2>1 DEF Fifo!Next
<1>3. ASSUME NEW result \in Result, WorkerStore(result) PROVE Fifo!Next
  <2>1. Fifo!Finish(FinalStatus(result)) /\ FinalStatus(result) \in {"done", "error"}
    BY <1>3, StoreFinishes DEF Fifo!Finish, Waiting, Held, Serving, Known
  <2>. QED BY <2>1 DEF Fifo!Next
<1>4. ASSUME NEW j \in JobID, DeleteJobEntry(j) PROVE [Fifo!Next]_(Fifo!vars)
  <2>1. CASE UNCHANGED line
    BY <2>1 DEF line, Fifo!vars, Waiting, Held, Serving, Known
  <2>2. CASE Known[j] \in {"done", "error"} /\ Known' = [Known EXCEPT ![j] = "forgotten"]
    <3>1. Fifo!Forget(j)
      BY <1>4, <2>2, DeleteForgets DEF Fifo!Forget, Waiting, Held, Serving, Known
    <3>. QED BY <3>1 DEF Fifo!Next
  <2>. QED BY <1>4, <2>1, <2>2, DeleteForgets DEF line
<1>5. CASE UNCHANGED line
  BY <1>5 DEF line, Fifo!vars, Waiting, Held, Serving, Known
<1>. QED
  BY <1>1, <1>2, <1>3, <1>4, <1>5, SendHidden, ReceiveHidden, OthersHidden
     DEF QueueNext, WorkerStep

(* Every run of the queue is a run of the line: accepted jobs are served   *)
(* one at a time in the order of their Submit, at most MaxSize + 1 wait,   *)
(* and what GetJob shows of a job never goes back (queue.go).              *)
THEOREM QueueImplementsFifo == QueueSpec => ImplementsFifo
<1>1. QueueSpec => Fifo!Spec
  BY InitialLine, LineStep, QueueInvariant, PTL DEF QueueSpec, Fifo!Spec
<1>. QED BY <1>1 DEF ImplementsFifo
=============================================================================
