---------------------------- MODULE RateLimiter ----------------------------
(***************************************************************************)
(* RateLimiter of internal/api/middleware.go: per client, one counter over *)
(* a fixed minute and one over a fixed hour, both opened by the first      *)
(* request, renewed by the first request after they end, and forgotten by  *)
(* a cleanup whose five-minute ticker is synchronised with neither.        *)
(*                                                                         *)
(* Time is discrete and relative: minuteLeft and hourLeft are the time to  *)
(* the resets, -1 standing for now.After(reset).  admitted is a history    *)
(* variable: how many requests were let through in the last t ticks and    *)
(* now, for every span t up to an hour.                                    *)
(***************************************************************************)
EXTENDS Integers, FiniteSets

CONSTANTS
  Key,          \* the client addresses the limiter counts by
  Rpm, Rph,     \* requests per minute and per hour
  Minute, Hour, \* the lengths of the two windows, in ticks
  NoClient      \* no entry in the map

ASSUME LimitAssumption == Rpm \in Nat \ {0} /\ Rph \in Nat \ {0}
ASSUME WindowAssumption == Minute \in Nat \ {0} /\ Hour \in Nat /\ Minute < Hour
ASSUME NoClientAssumption ==
  NoClient \notin [minuteCount : Nat, hourCount : Nat, minuteLeft : Int, hourLeft : Int]

VARIABLES
  clients,      \* rl.clients
  admitted,     \* history: per client, requests admitted in the last t ticks
  forgotten     \* history: per client, ticks since the cleanup last deleted it (capped)

rateVars == <<clients, admitted, forgotten>>

Spans == 0..Hour

ClientRate ==
  [minuteCount : 0..Rpm, hourCount : 0..Rph, minuteLeft : -1..Minute, hourLeft : -1..Hour]

RateTypeOK ==
  /\ clients \in [Key -> ClientRate \cup {NoClient}]
  /\ admitted \in [Key -> [Spans -> Nat]]
  /\ forgotten \in [Key -> 0..Minute + 1]

RateInit ==
  /\ clients = [k \in Key |-> NoClient]
  /\ admitted = [k \in Key |-> [t \in Spans |-> 0]]
  /\ forgotten = [k \in Key |-> Minute + 1]

-----------------------------------------------------------------------------
(* The entry Allow decides on: created if it is missing, its ended windows *)
(* opened again.                                                           *)
NewClient ==
  [minuteCount |-> 0, hourCount |-> 0, minuteLeft |-> Minute, hourLeft |-> Hour]

RenewMinute(c) ==
  IF c.minuteLeft = -1 THEN [c EXCEPT !.minuteCount = 0, !.minuteLeft = Minute] ELSE c

MutantRenewHour(c) ==
  IF c.hourLeft = -1 THEN [c EXCEPT !.hourLeft = Hour] ELSE c

RenewHour(c) ==
  IF c.hourLeft = -1 THEN [c EXCEPT !.hourCount = 0, !.hourLeft = Hour] ELSE c

Renewed(k) ==
  RenewHour(RenewMinute(IF clients[k] = NoClient THEN NewClient ELSE clients[k]))

MutantOverLimit(k) ==
  \/ Renewed(k).minuteCount > Rpm
  \/ Renewed(k).hourCount >= Rph

OverLimit(k) ==
  \/ Renewed(k).minuteCount >= Rpm
  \/ Renewed(k).hourCount >= Rph

AllowTrue(k) ==
  /\ ~OverLimit(k)
  /\ clients' = [clients EXCEPT ![k] =
       [Renewed(k) EXCEPT !.minuteCount = @ + 1, !.hourCount = @ + 1]]
  /\ admitted' = [admitted EXCEPT ![k] = [t \in Spans |-> @[t] + 1]]
  /\ UNCHANGED forgotten

(* A refusal keeps the renewed windows: the entry is a pointer.            *)
AllowFalse(k) ==
  /\ OverLimit(k)
  /\ clients' = [clients EXCEPT ![k] = Renewed(k)]
  /\ UNCHANGED <<admitted, forgotten>>

-----------------------------------------------------------------------------
(* One pass of the cleanup, under mu.                                      *)
MutantStale(c) == c # NoClient

Stale(c) == c # NoClient /\ c.hourLeft = -1

Cleanup ==
  /\ \E k \in Key : Stale(clients[k])
  /\ clients' = [k \in Key |-> IF Stale(clients[k]) THEN NoClient ELSE clients[k]]
  /\ forgotten' = [k \in Key |-> IF Stale(clients[k]) THEN 0 ELSE forgotten[k]]
  /\ UNCHANGED admitted

Elapse(left) == IF left = -1 THEN -1 ELSE left - 1

Tick ==
  /\ clients' = [k \in Key |->
       IF clients[k] = NoClient THEN NoClient
       ELSE [clients[k] EXCEPT !.minuteLeft = Elapse(@), !.hourLeft = Elapse(@)]]
  /\ admitted' = [k \in Key |-> [t \in Spans |-> IF t = 0 THEN 0 ELSE admitted[k][t - 1]]]
  /\ forgotten' = [k \in Key |-> IF forgotten[k] > Minute THEN forgotten[k] ELSE forgotten[k] + 1]

-----------------------------------------------------------------------------
(* Fixed windows: any closed minute holds at most two limits of requests,  *)
(* and a third one only if the cleanup forgot the client, with its minute  *)
(* still open, during that minute.                                         *)
SlidingMinute ==
  \A k \in Key : admitted[k][Minute] <= (IF forgotten[k] <= Minute THEN 3 ELSE 2) * Rpm

(* The hour is renewed and forgotten only when it is over, so that neither *)
(* the cleanup nor the minute adds to it: any closed hour holds at most    *)
(* two limits.                                                             *)
SlidingHour == \A k \in Key : admitted[k][Hour] <= 2 * Rph

(* Nobody is refused for what is over: a client that would be refused now  *)
(* was admitted a full limit of requests in the last minute or hour.       *)
RefusedOnlyOverLimit ==
  \A k \in Key : OverLimit(k) => admitted[k][Minute] >= Rpm \/ admitted[k][Hour] >= Rph
=============================================================================
