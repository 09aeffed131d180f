-------------------------- MODULE StatsStoreProofs --------------------------
(***************************************************************************)
(* The statistics neither count an increment twice nor, as long as the     *)
(* process lives, lose one: for any keys and bounds.                       *)
(***************************************************************************)
EXTENDS StatsStore, TLAPS

USE StatsAssumption DEF StatsAssumption

(* The value v of key k and what is still pending fit into the calls made. *)
Counted(k, v) == v + pending[k] <= calls[k]

(* NeverOvercounts, one conjunct for each place a value can be.            *)
Bounds ==
  /\ \A k \in Key :
       /\ Counted(k, stored[k])
       /\ \A v \in lagging[k] : Counted(k, v)
       /\ Counted(k, confirmed[k])
       /\ Counted(k, cached[k])
       /\ writes[k] # NoWrite => Counted(k, writes[k])
       /\ reading # NoRead => Counted(k, reading[k])
  /\ \A w \in late : Counted(w[1], w[2])

(* A GET is under way only for a key without an unconfirmed write, a PUT   *)
(* only for one with it.                                                   *)
Requests ==
  /\ asked.key = NoKey => asked = Idle
  /\ asked.key # NoKey => (asked.request = "put" <=> writes[asked.key] # NoWrite)

(* The last value the process knows of a key.                              *)
Known(k) == IF writes[k] = NoWrite THEN confirmed[k] ELSE writes[k]

(* Before a restart the service is never ahead of the process.             *)
Behind ==
  restarts = 0 =>
    /\ \A k \in Key :
         /\ calls[k] = pending[k] + Known(k)
         /\ stored[k] <= Known(k)
         /\ \A v \in lagging[k] : v <= Known(k)
         /\ confirmed[k] <= Known(k)
    /\ \A w \in late : w[2] <= Known(w[1])

StatsInv == StatsTypeOK /\ Requests /\ Bounds /\ Behind

LEMMA StatsInvInit == StatsInit => StatsInv
<1> SUFFICES ASSUME StatsInit PROVE StatsInv
  OBVIOUS
<1> USE DEF StatsInit, Zero, Idle
<1>1. StatsTypeOK
  <2>1. restarts \in 0..MaxRestarts
    OBVIOUS
  <2>2. asked \in Asked
    BY DEF Asked
  <2>3. writes \in [Key -> Nat \cup {NoWrite}] /\ lagging \in [Key -> SUBSET Nat]
    OBVIOUS
  <2> QED
    BY <2>1, <2>2, <2>3 DEF StatsTypeOK
<1>2. Requests
  BY DEF Requests
<1>3. Bounds
  BY DEF Bounds, Counted
<1>4. Behind
  BY DEF Behind, Known
<1> QED
  BY <1>1, <1>2, <1>3, <1>4 DEF StatsInv

(* Accepting a write that fits keeps the service within the bounds.        *)
LEMMA AcceptKeeps ==
  ASSUME NEW k \in Key, NEW v \in Nat, StatsTypeOK, Accept(k, v)
  PROVE  /\ stored' \in [Key -> Nat]
         /\ lagging' \in [Key -> SUBSET Nat]
         /\ \A x \in Key : stored'[x] = IF x = k THEN v ELSE stored[x]
         /\ \A x \in Key : lagging'[x] \subseteq lagging[x] \cup {stored[x]}
BY DEF StatsTypeOK, Accept

LEMMA LateWriteLandsKeeps == StatsInv /\ LateWriteLands => StatsInv'
<1> SUFFICES ASSUME StatsInv, LateWriteLands PROVE StatsInv'
  OBVIOUS
<1> USE DEF StatsInv
<1>1. PICK w \in late : Accept(w[1], w[2]) /\ late' = late \ {w}
  BY DEF LateWriteLands
<1>2. w[1] \in Key /\ w[2] \in Nat
  BY <1>1 DEF StatsTypeOK
<1>3. /\ stored' \in [Key -> Nat]
      /\ lagging' \in [Key -> SUBSET Nat]
      /\ \A x \in Key : stored'[x] = IF x = w[1] THEN w[2] ELSE stored[x]
      /\ \A x \in Key : lagging'[x] \subseteq lagging[x] \cup {stored[x]}
  BY <1>1, <1>2, AcceptKeeps
<1>4. UNCHANGED <<countVars, flushVars, cacheVars, restarts>>
  BY DEF LateWriteLands
<1> USE DEF countVars, flushVars, cacheVars
<1>5. StatsTypeOK'
  BY <1>1, <1>3, <1>4 DEF StatsTypeOK
<1>6. Requests'
  BY <1>4 DEF Requests
<1>7. Bounds'
  BY <1>1, <1>2, <1>3, <1>4 DEF Bounds, Counted
<1>8. Behind'
  BY <1>1, <1>2, <1>3, <1>4 DEF Behind, Known
<1> QED
  BY <1>5, <1>6, <1>7, <1>8

LEMMA SettlesKeeps ==
  ASSUME NEW k \in Key, StatsInv, Settles(k)
  PROVE  StatsInv'
BY DEF StatsInv, Settles, StatsTypeOK, Requests, Bounds, Behind, Counted, Known,
       countVars, flushVars, cacheVars

LEMMA IncrementKeeps ==
  ASSUME NEW k \in Key, StatsInv, Increment(k)
  PROVE  StatsInv'
<1> USE DEF StatsInv, Increment, serviceVars, cacheVars
<1>1. /\ calls' \in [Key -> Nat] /\ pending' \in [Key -> Nat]
      /\ \A x \in Key : \/ calls'[x] = calls[x] /\ pending'[x] = pending[x]
                        \/ calls'[x] = calls[x] + 1 /\ pending'[x] = pending[x] + 1
  BY DEF StatsTypeOK
<1>2. StatsTypeOK'
  BY <1>1 DEF StatsTypeOK
<1>3. Requests'
  BY DEF Requests
<1>4. Bounds'
  BY <1>1 DEF Bounds, Counted, StatsTypeOK
<1>5. Behind'
  BY <1>1 DEF Behind, Known, StatsTypeOK
<1> QED
  BY <1>2, <1>3, <1>4, <1>5

LEMMA FlushKeyKeeps ==
  ASSUME NEW k \in Key, StatsInv, FlushKey(k)
  PROVE  StatsInv'
<1> USE DEF StatsInv, FlushKey, Ask, Idle, serviceVars, countVars, cacheVars
<1>1. StatsTypeOK'
  BY DEF StatsTypeOK, Asked
<1>2. Requests'
  BY DEF Requests, StatsTypeOK
<1>3. Bounds' /\ Behind'
  BY DEF Bounds, Behind, Counted, Known
<1> QED
  BY <1>1, <1>2, <1>3

LEMMA RequestFailsKeeps == StatsInv /\ RequestFails => StatsInv'
<1> SUFFICES ASSUME StatsInv, RequestFails PROVE StatsInv'
  OBVIOUS
<1> USE DEF StatsInv, RequestFails, Fails, Idle, serviceVars, countVars, cacheVars
<1>0. asked.key \in Key
  BY DEF StatsTypeOK, Asked, Requests
<1>1. StatsTypeOK'
  BY <1>0 DEF StatsTypeOK, Asked
<1>2. Requests'
  BY DEF Requests
<1>3. Bounds' /\ Behind'
  BY DEF Bounds, Behind, Counted, Known
<1> QED
  BY <1>1, <1>2, <1>3

LEMMA GetAnsweredKeeps ==
  ASSUME NEW read, StatsInv, GetAnswered(read)
  PROVE  StatsInv'
<1> USE DEF StatsInv, GetAnswered
<1> DEFINE k == asked.key
           value == Base(k, read) + pending[k]
<1>1. k \in Key /\ writes[k] = NoWrite
  BY DEF StatsTypeOK, Asked, Requests
<1>2. read \in Nat /\ Counted(k, read) /\ (restarts = 0 => read <= confirmed[k])
  BY <1>1 DEF Readable, StatsTypeOK, Bounds, Behind, Known
<1>3. /\ value \in Nat
      /\ value <= calls[k]
      /\ restarts = 0 => value = calls[k] /\ confirmed[k] <= value
  BY <1>1, <1>2 DEF Base, Larger, StatsTypeOK, Bounds, Behind, Known, Counted
<1>4. /\ writes' = [writes EXCEPT ![k] = value]
      /\ pending' = [pending EXCEPT ![k] = 0]
      /\ asked' = [key |-> k, request |-> "put"]
      /\ UNCHANGED <<serviceVars, confirmed, calls, flusher, keysLeft, closing,
                     disturbed, cacheVars, restarts>>
  BY DEF Ask
<1> HIDE DEF value, GetAnswered
<1> USE DEF serviceVars, cacheVars
<1>5. StatsTypeOK'
  BY <1>1, <1>3, <1>4 DEF StatsTypeOK, Asked
<1>6. Requests'
  BY <1>1, <1>3, <1>4 DEF Requests, StatsTypeOK
<1>7. Bounds'
  BY <1>1, <1>3, <1>4 DEF Bounds, Counted, StatsTypeOK
<1>8. Behind'
  BY <1>1, <1>3, <1>4 DEF Behind, Known, StatsTypeOK
<1> QED
  BY <1>5, <1>6, <1>7, <1>8

LEMMA PutConfirmedKeeps == StatsInv /\ PutConfirmed => StatsInv'
<1> SUFFICES ASSUME StatsInv, PutConfirmed PROVE StatsInv'
  OBVIOUS
<1> USE DEF StatsInv
<1> DEFINE k == asked.key
           value == writes[k]
<1>1. k \in Key /\ value \in Nat /\ value # NoWrite
  BY DEF PutConfirmed, PutUnderWay, StatsTypeOK, Asked, Requests
<1>2. /\ Accept(k, value)
      /\ confirmed' = [confirmed EXCEPT ![k] = value]
      /\ writes' = [writes EXCEPT ![k] = NoWrite]
      /\ fresh' = FALSE
      /\ asked' = Idle
      /\ UNCHANGED <<late, pending, calls, flusher, keysLeft, closing, disturbed,
                     cached, reading, restarts>>
  BY DEF PutConfirmed
<1>3. /\ stored' \in [Key -> Nat]
      /\ lagging' \in [Key -> SUBSET Nat]
      /\ \A x \in Key : stored'[x] = IF x = k THEN value ELSE stored[x]
      /\ \A x \in Key : lagging'[x] \subseteq lagging[x] \cup {stored[x]}
  BY <1>1, <1>2, AcceptKeeps
<1>4. StatsTypeOK'
  BY <1>1, <1>2, <1>3 DEF StatsTypeOK, Asked, Idle
<1>5. Requests'
  BY <1>2 DEF Requests, Idle
<1>6. Bounds'
  BY <1>1, <1>2, <1>3 DEF Bounds, Counted, StatsTypeOK
<1>7. Behind'
  BY <1>1, <1>2, <1>3 DEF Behind, Known, StatsTypeOK
<1> QED
  BY <1>4, <1>5, <1>6, <1>7

LEMMA PutAmbiguousKeeps == StatsInv /\ PutAmbiguous => StatsInv'
<1> SUFFICES ASSUME StatsInv, PutAmbiguous PROVE StatsInv'
  OBVIOUS
<1> USE DEF StatsInv
<1> DEFINE k == asked.key
           value == writes[k]
<1>1. k \in Key /\ value \in Nat /\ value # NoWrite
  BY DEF PutAmbiguous, PutUnderWay, StatsTypeOK, Asked, Requests
<1>2. /\ asked' = Idle
      /\ disturbed' \subseteq disturbed \cup {k}
      /\ UNCHANGED <<countVars, flusher, keysLeft, closing, cacheVars, restarts>>
  BY DEF PutAmbiguous, Fails
<1>3. /\ stored' \in [Key -> Nat]
      /\ lagging' \in [Key -> SUBSET Nat]
      /\ \A x \in Key : stored'[x] \in {stored[x]} \cup (IF x = k THEN {value} ELSE {})
      /\ \A x \in Key : lagging'[x] \subseteq lagging[x] \cup {stored[x]}
      /\ late' \subseteq late \cup {<<k, value>>}
  <2>1. CASE Accept(k, value) /\ UNCHANGED late
    BY <2>1, <1>1, AcceptKeeps
  <2>2. CASE late' = late \cup {<<k, value>>} /\ UNCHANGED <<stored, lagging>>
    BY <2>2 DEF StatsTypeOK
  <2> QED
    BY <2>1, <2>2 DEF PutAmbiguous
<1> USE DEF countVars, cacheVars
<1>4. StatsTypeOK'
  BY <1>1, <1>2, <1>3 DEF StatsTypeOK, Asked, Idle
<1>5. Requests'
  BY <1>2 DEF Requests, Idle
<1>6. Bounds'
  BY <1>1, <1>2, <1>3 DEF Bounds, Counted, StatsTypeOK
<1>7. Behind'
  BY <1>1, <1>2, <1>3 DEF Behind, Known, StatsTypeOK
<1> QED
  BY <1>4, <1>5, <1>6, <1>7

(* Steps that only move the flush, Close or the clock of the cache.        *)
LEMMA ControlKeeps ==
  ASSUME StatsInv,
         LoopFlushes \/ FlushEnds \/ CloseBegins \/ CloseFlushes \/ CacheExpires
  PROVE  StatsInv'
<1> USE DEF LoopFlushes, FlushBegins, FlushEnds, CloseBegins, CloseFlushes, CacheExpires,
            serviceVars, countVars, flushVars, cacheVars, StatsInv
<1>1. StatsTypeOK'
  BY DEF StatsTypeOK
<1>2. Requests' /\ Bounds' /\ Behind'
  BY DEF Requests, Bounds, Behind, Counted, Known
<1> QED
  BY <1>1, <1>2

LEMMA RestartKeeps == StatsInv /\ Restart => StatsInv'
<1> SUFFICES ASSUME StatsInv, Restart PROVE StatsInv'
  OBVIOUS
<1> USE DEF StatsInv, Restart, Zero, Idle, serviceVars
<1>1. StatsTypeOK'
  <2>1. restarts' \in 0..MaxRestarts
    BY DEF StatsTypeOK
  <2>2. asked' \in Asked
    BY DEF Asked
  <2> QED
    BY <2>1, <2>2 DEF StatsTypeOK
<1>2. Requests'
  BY DEF Requests
<1>3. Bounds'
  BY DEF Bounds, Counted, StatsTypeOK
<1>4. Behind'
  BY DEF Behind, StatsTypeOK
<1> QED
  BY <1>1, <1>2, <1>3, <1>4

LEMMA GetReadsKeeps == StatsInv /\ GetReads => StatsInv'
<1> SUFFICES ASSUME StatsInv, GetReads PROVE StatsInv'
  OBVIOUS
<1> USE DEF StatsInv, GetReads, serviceVars, countVars, flushVars
<1>1. reading' \in [Key -> Nat]
  BY DEF Readable, StatsTypeOK
<1>2. StatsTypeOK' /\ Requests' /\ Behind'
  BY <1>1 DEF StatsTypeOK, Requests, Behind, Known
<1>3. Bounds'
  BY DEF Bounds, Counted, Readable
<1> QED
  BY <1>2, <1>3

LEMMA GetCachesKeeps == StatsInv /\ GetCaches => StatsInv'
BY DEF StatsInv, GetCaches, StatsTypeOK, Requests, Bounds, Behind, Counted, Known,
       serviceVars, countVars, flushVars

LEMMA StatsInvStep == StatsInv /\ [StatsNext]_statsVars => StatsInv'
<1> SUFFICES ASSUME StatsInv, [StatsNext]_statsVars PROVE StatsInv'
  OBVIOUS
<1>1. ASSUME NEW k \in Key, Increment(k) \/ Settles(k) PROVE StatsInv'
  BY <1>1, IncrementKeeps, SettlesKeeps
<1>2. CASE LateWriteLands
  BY <1>2, LateWriteLandsKeeps
<1>3. CASE FlushStep
  BY <1>3, FlushKeyKeeps, RequestFailsKeeps, GetAnsweredKeeps, PutConfirmedKeeps,
     PutAmbiguousKeeps, ControlKeeps DEF FlushStep
<1>4. CASE LoopFlushes \/ CloseBegins \/ CloseFlushes \/ CacheExpires
  BY <1>4, ControlKeeps
<1>5. CASE Restart
  BY <1>5, RestartKeeps
<1>6. CASE GetReads
  BY <1>6, GetReadsKeeps
<1>7. CASE GetCaches
  BY <1>7, GetCachesKeeps
<1>8. CASE UNCHANGED statsVars
  BY <1>8 DEF statsVars, StatsInv, StatsTypeOK, Requests, Bounds, Behind, Counted,
              Known, serviceVars, countVars, flushVars, cacheVars
<1> QED
  BY <1>1, <1>2, <1>3, <1>4, <1>5, <1>6, <1>7, <1>8 DEF StatsNext

LEMMA StatsInvariant == StatsSpec => []StatsInv
BY StatsInvInit, StatsInvStep, PTL DEF StatsSpec

(* The state of the store keeps its types.                                 *)
THEOREM StatsTypeCorrect == StatsSpec => []StatsTypeOK
<1>1. StatsInv => StatsTypeOK
  BY DEF StatsInv
<1> QED
  BY <1>1, StatsInvariant, PTL

(* No increment is counted twice: failed, ambiguous and late writes,       *)
(* lagging reads and restarts included (flush, Get, cloudflare_kv.go).     *)
THEOREM NeverOvercountsCorrect == StatsSpec => []NeverOvercounts
<1>1. StatsInv => NeverOvercounts
  BY DEF StatsInv, StatsTypeOK, Bounds, Counted, NeverOvercounts, Claims, Readable
<1> QED
  BY <1>1, StatsInvariant, PTL

(* Until the process ends, no increment is lost, although reads lag        *)
(* behind the store's own writes (flush, cloudflare_kv.go:178).            *)
THEOREM NothingLostCorrect == StatsSpec => []NothingLost
<1>1. StatsInv => NothingLost
  BY DEF StatsInv, Behind, Known, NothingLost
<1> QED
  BY <1>1, StatsInvariant, PTL
=============================================================================
