----------------------------- MODULE StatsStore -----------------------------
(***************************************************************************)
(* The statistics of internal/stats/cloudflare_kv.go, an enabled store:    *)
(* counters incremented in memory, a flush that adds them to a remote      *)
(* key-value service, a cache for readers, Close, and a restart.           *)
(*                                                                         *)
(* The service is modelled from how the code uses it.  A read may lag      *)
(* behind a write, a request may fail, and a write whose request failed    *)
(* may have been accepted, may never be, or may still be under way.        *)
(***************************************************************************)
EXTENDS Naturals, FiniteSets

CONSTANTS
  Key,          \* files_processed and thanks
  NoWrite,      \* no entry in s.writes
  NoKey,        \* the flush has no request under way
  NoRead,       \* no Get is waiting for the service
  MaxCalls,     \* bound: increments of each key
  MaxLate,      \* bound: writes under way at once after their request failed
  MaxRestarts   \* bound: how often the process is restarted

ASSUME StatsAssumption ==
  /\ NoWrite \notin Nat
  /\ NoKey \notin Key
  /\ NoRead \notin [Key -> Nat]
  /\ MaxCalls \in Nat /\ MaxLate \in Nat /\ MaxRestarts \in Nat

VARIABLES
  stored,      \* the service: the value of each key
  lagging,     \* the service: older values a read may still return
  late,        \* writes under way whose request has failed
  pending,     \* s.pendingProcessed and s.pendingThanks
  writes,      \* s.writes: the value whose PUT has not been confirmed
  confirmed,   \* s.confirmed, a missing key being 0
  flusher,     \* who holds s.flushMu: the loop, Close or nobody
  keysLeft,    \* the keys the flush has not come to
  asked,       \* the key of the flush's request, and which request it is
  closing,     \* how far Close is
  disturbed,   \* keys incremented, or a request of theirs failed, during Close
  cached,      \* s.cached
  fresh,       \* s.cachedAt is less than cacheTTL ago
  reading,     \* what a Get has read and not yet put in the cache
  calls,       \* how often each Increment method was ever called
  restarts     \* how often the process was restarted

serviceVars == <<stored, lagging, late>>
countVars == <<pending, writes, confirmed, calls>>
flushVars == <<flusher, keysLeft, asked, closing, disturbed>>
cacheVars == <<cached, fresh, reading>>
statsVars == <<serviceVars, countVars, flushVars, cacheVars, restarts>>

(* asked.key = NoKey means that the flush is between two keys.             *)
Asked == [key : Key \cup {NoKey}, request : {"get", "put"}]
Idle == [key |-> NoKey, request |-> "get"]

StatsTypeOK ==
  /\ stored \in [Key -> Nat]
  /\ lagging \in [Key -> SUBSET Nat]
  /\ late \in SUBSET (Key \X Nat)
  /\ pending \in [Key -> Nat]
  /\ writes \in [Key -> Nat \cup {NoWrite}]
  /\ confirmed \in [Key -> Nat]
  /\ flusher \in {"nobody", "loop", "close"}
  /\ keysLeft \in SUBSET Key
  /\ asked \in Asked
  /\ closing \in {"open", "signalled", "flushing", "closed"}
  /\ disturbed \in SUBSET Key
  /\ cached \in [Key -> Nat]
  /\ fresh \in BOOLEAN
  /\ reading \in [Key -> Nat] \cup {NoRead}
  /\ calls \in [Key -> Nat]
  /\ restarts \in 0..MaxRestarts

Zero == [k \in Key |-> 0]

StatsInit ==
  /\ stored = Zero
  /\ lagging = [k \in Key |-> {}]
  /\ late = {}
  /\ pending = Zero
  /\ writes = [k \in Key |-> NoWrite]
  /\ confirmed = Zero
  /\ flusher = "nobody"
  /\ keysLeft = {}
  /\ asked = Idle
  /\ closing = "open"
  /\ disturbed = {}
  /\ cached = Zero
  /\ fresh = FALSE
  /\ reading = NoRead
  /\ calls = Zero
  /\ restarts = 0

-----------------------------------------------------------------------------
(* The key-value service                                                   *)

(* What a GET of the key may answer.                                       *)
Readable(k) == lagging[k] \cup {stored[k]}

(* The service accepts a write; older values stay readable for a while.    *)
Accept(k, v) ==
  /\ stored' = [stored EXCEPT ![k] = v]
  /\ lagging' = [lagging EXCEPT ![k] = @ \cup {stored[k]}]

LateWriteLands ==
  /\ \E w \in late : Accept(w[1], w[2]) /\ late' = late \ {w}
  /\ UNCHANGED <<countVars, flushVars, cacheVars, restarts>>

Settles(k) ==
  /\ lagging[k] # {}
  /\ lagging' = [lagging EXCEPT ![k] = {}]
  /\ UNCHANGED <<stored, late, countVars, flushVars, cacheVars, restarts>>

-----------------------------------------------------------------------------
(* IncrementProcessed and IncrementThanks: an atomic add.  Handlers still  *)
(* running may call them after Close.                                      *)
Increment(k) ==
  /\ calls[k] < MaxCalls
  /\ calls' = [calls EXCEPT ![k] = @ + 1]
  /\ pending' = [pending EXCEPT ![k] = @ + 1]
  /\ disturbed' = IF closing = "open" THEN disturbed ELSE disturbed \cup {k}
  /\ UNCHANGED <<serviceVars, writes, confirmed, flusher, keysLeft, asked, closing,
                 cacheVars, restarts>>

-----------------------------------------------------------------------------
(* flush, under flushMu                                                    *)

FlushBegins(who) ==
  /\ flusher = "nobody"
  /\ flusher' = who
  /\ keysLeft' = Key

(* The loop's ticker.  It may still win the select against a closed        *)
(* flushDone, and its flush may come before or after that of Close.        *)
LoopFlushes ==
  /\ FlushBegins("loop")
  /\ UNCHANGED <<serviceVars, countVars, asked, closing, disturbed, cacheVars, restarts>>

Ask(k, request) == asked' = [key |-> k, request |-> request]

MutantFlushKey(k) ==
  /\ flusher # "nobody"
  /\ asked = Idle
  /\ k \in keysLeft
  /\ keysLeft' = keysLeft \ {k}
  /\ \/ writes[k] # NoWrite /\ pending[k] > 0 /\ Ask(k, "put")
     \/ writes[k] = NoWrite /\ pending[k] > 0 /\ Ask(k, "get")
     \/ pending[k] = 0 /\ UNCHANGED asked
  /\ UNCHANGED <<serviceVars, countVars, flusher, closing, disturbed, cacheVars, restarts>>

(* The flush comes to the next key: it repeats an unconfirmed write, reads *)
(* the stored value if there is something to add, or does nothing.         *)
FlushKey(k) ==
  /\ flusher # "nobody"
  /\ asked = Idle
  /\ k \in keysLeft
  /\ keysLeft' = keysLeft \ {k}
  /\ \/ writes[k] # NoWrite /\ Ask(k, "put")
     \/ writes[k] = NoWrite /\ pending[k] > 0 /\ Ask(k, "get")
     \/ writes[k] = NoWrite /\ pending[k] = 0 /\ UNCHANGED asked
  /\ UNCHANGED <<serviceVars, countVars, flusher, closing, disturbed, cacheVars, restarts>>

Fails ==
  /\ asked' = Idle
  /\ disturbed' = IF flusher = "close" THEN disturbed \cup {asked.key} ELSE disturbed

RequestFails ==
  /\ asked # Idle
  /\ Fails
  /\ UNCHANGED <<serviceVars, countVars, flusher, keysLeft, closing, cacheVars, restarts>>

Larger(m, n) == IF m > n THEN m ELSE n

MutantBase(k, read) == read

(* KV reads may lag our own successful writes.                             *)
Base(k, read) == Larger(read, confirmed[k])

(* The GET is answered; what is pending by now is added to it.             *)
GetAnswered(read) ==
  /\ asked # Idle
  /\ asked.request = "get"
  /\ read \in Readable(asked.key)
  /\ writes' = [writes EXCEPT ![asked.key] = Base(asked.key, read) + pending[asked.key]]
  /\ pending' = [pending EXCEPT ![asked.key] = 0]
  /\ Ask(asked.key, "put")
  /\ UNCHANGED <<serviceVars, confirmed, calls, flusher, keysLeft, closing, disturbed, cacheVars, restarts>>

PutUnderWay == asked # Idle /\ asked.request = "put"

(* The PUT succeeds: the write is confirmed and the cache invalidated.     *)
PutConfirmed ==
  /\ PutUnderWay
  /\ Accept(asked.key, writes[asked.key])
  /\ confirmed' = [confirmed EXCEPT ![asked.key] = writes[asked.key]]
  /\ writes' = [writes EXCEPT ![asked.key] = NoWrite]
  /\ fresh' = FALSE
  /\ asked' = Idle
  /\ UNCHANGED <<late, pending, calls, flusher, keysLeft, closing, disturbed, cached, reading, restarts>>

MutantPutAmbiguous ==
  /\ PutUnderWay
  /\ \/ Accept(asked.key, writes[asked.key]) /\ UNCHANGED late
     \/ /\ Cardinality(late) < MaxLate
        /\ late' = late \cup {<<asked.key, writes[asked.key]>>}
        /\ UNCHANGED <<stored, lagging>>
  /\ Fails
  /\ pending' = [pending EXCEPT ![asked.key] = @ + writes[asked.key] - confirmed[asked.key]]
  /\ writes' = [writes EXCEPT ![asked.key] = NoWrite]
  /\ UNCHANGED <<confirmed, calls, flusher, keysLeft, closing, cacheVars, restarts>>

(* The PUT fails although the service accepts it, now or later; the value  *)
(* stays in writes for the next flush.                                     *)
PutAmbiguous ==
  /\ PutUnderWay
  /\ \/ Accept(asked.key, writes[asked.key]) /\ UNCHANGED late
     \/ /\ Cardinality(late) < MaxLate
        /\ late' = late \cup {<<asked.key, writes[asked.key]>>}
        /\ UNCHANGED <<stored, lagging>>
  /\ Fails
  /\ UNCHANGED <<countVars, flusher, keysLeft, closing, cacheVars, restarts>>

MutantFlushEnds ==
  /\ flusher # "nobody"
  /\ asked = Idle
  /\ keysLeft = {}
  /\ flusher' = "nobody"
  /\ closing' = IF flusher = "close" THEN "done" ELSE closing
  /\ UNCHANGED <<serviceVars, countVars, keysLeft, asked, disturbed, cacheVars, restarts>>

FlushEnds ==
  /\ flusher # "nobody"
  /\ asked = Idle
  /\ keysLeft = {}
  /\ flusher' = "nobody"
  /\ closing' = IF flusher = "close" THEN "closed" ELSE closing
  /\ UNCHANGED <<serviceVars, countVars, keysLeft, asked, disturbed, cacheVars, restarts>>

-----------------------------------------------------------------------------
(* Close, called by main after the server has shut down                    *)

CloseBegins ==
  /\ closing = "open"
  /\ closing' = "signalled"
  /\ UNCHANGED <<serviceVars, countVars, flusher, keysLeft, asked, disturbed, cacheVars, restarts>>

CloseFlushes ==
  /\ closing = "signalled"
  /\ FlushBegins("close")
  /\ closing' = "flushing"
  /\ UNCHANGED <<serviceVars, countVars, asked, disturbed, cacheVars, restarts>>

(* The process ends, after Close or without it, and a new one begins with  *)
(* New: nothing of the old one is left but the writes under way.           *)
Restart ==
  /\ restarts < MaxRestarts
  /\ restarts' = restarts + 1
  /\ pending' = Zero
  /\ writes' = [k \in Key |-> NoWrite]
  /\ confirmed' = Zero
  /\ flusher' = "nobody"
  /\ keysLeft' = {}
  /\ asked' = Idle
  /\ closing' = "open"
  /\ disturbed' = {}
  /\ cached' = Zero
  /\ fresh' = FALSE
  /\ reading' = NoRead
  /\ UNCHANGED <<serviceVars, calls>>

-----------------------------------------------------------------------------
(* Get.  With a fresh cache it changes nothing; with a stale one it reads  *)
(* every key, and returns the old cache if one of the reads fails.  At     *)
(* most one Get is between its reads and the cache here.                   *)

GetReads ==
  /\ ~fresh
  /\ reading = NoRead
  /\ reading' \in [Key -> UNION {Readable(k) : k \in Key}]
  /\ \A k \in Key : reading'[k] \in Readable(k)
  /\ UNCHANGED <<serviceVars, countVars, flushVars, cached, fresh, restarts>>

(* Under mu, whatever happened since the reads.                            *)
GetCaches ==
  /\ reading # NoRead
  /\ cached' = reading
  /\ fresh' = TRUE
  /\ reading' = NoRead
  /\ UNCHANGED <<serviceVars, countVars, flushVars, restarts>>

CacheExpires ==
  /\ fresh
  /\ fresh' = FALSE
  /\ UNCHANGED <<serviceVars, countVars, flushVars, cached, reading, restarts>>

-----------------------------------------------------------------------------
FlushStep ==
  \/ \E k \in Key : FlushKey(k)
  \/ RequestFails
  \/ \E k \in Key : \E read \in Readable(k) : GetAnswered(read)
  \/ PutConfirmed
  \/ PutAmbiguous
  \/ FlushEnds

StatsNext ==
  \/ \E k \in Key : Increment(k) \/ Settles(k)
  \/ LateWriteLands
  \/ LoopFlushes
  \/ FlushStep
  \/ CloseBegins
  \/ CloseFlushes
  \/ Restart
  \/ GetReads
  \/ GetCaches
  \/ CacheExpires

StatsSpec == StatsInit /\ [][StatsNext]_statsVars

(* The ticker ticks, requests end (the client has a timeout), and a        *)
(* request that is repeated for ever succeeds at last.                     *)
StatsFairness ==
  /\ WF_statsVars(LoopFlushes)
  /\ WF_statsVars(FlushStep)
  /\ SF_statsVars(\E k \in Key : \E read \in Readable(k) : GetAnswered(read))
  /\ SF_statsVars(PutConfirmed)

StatsFairSpec == StatsSpec /\ StatsFairness

-----------------------------------------------------------------------------
(* Safety                                                                  *)

(* Every value that the store or the service holds for a key, or could     *)
(* still come to hold.                                                     *)
Claims(k) ==
  Readable(k) \cup {w[2] : w \in {w \in late : w[1] = k}}
    \cup {confirmed[k], cached[k]}
    \cup ({writes[k]} \ {NoWrite})
    \cup (IF reading = NoRead THEN {} ELSE {reading[k]})

(* No increment is counted twice, whatever requests fail, lag or arrive    *)
(* late and whenever the process is restarted: no value exceeds the        *)
(* increments made and not still pending.                                  *)
NeverOvercounts == \A k \in Key : \A v \in Claims(k) : v + pending[k] <= calls[k]

(* As long as the process lives, no increment is lost either: each one is  *)
(* pending, in the unconfirmed write, or in the value last confirmed.      *)
NothingLost ==
  restarts = 0 =>
    \A k \in Key :
      calls[k] = pending[k] + (IF writes[k] = NoWrite THEN confirmed[k] ELSE writes[k])

(* What the comment at cloudflare_kv.go:101 promises, "Close flushes       *)
(* pending counters": when it returns, nothing is left of a key that was   *)
(* not incremented meanwhile and for which the service answered.           *)
CloseFlushesPending ==
  closing = "closed" => \A k \in Key \ disturbed : pending[k] = 0 /\ writes[k] = NoWrite

-----------------------------------------------------------------------------
(* Liveness, under StatsFairSpec                                           *)

(* Every increment ends up in a value the service has confirmed, unless    *)
(* the process is stopped.  (A late write that lands after its successor   *)
(* lowers the stored value again, until the next increment is flushed.)    *)
CountsReachService ==
  \A k \in Key : \A n \in 1..MaxCalls :
    calls[k] >= n ~> (confirmed[k] >= n \/ closing # "open" \/ restarts > 0)
=============================================================================
