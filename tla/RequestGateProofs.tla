------------------------- MODULE RequestGateProofs -------------------------
(***************************************************************************)
(* Proofs about RateLimiter and RequestGate for any addresses, limits,     *)
(* windows, requests and number of parser slots.                           *)
(***************************************************************************)
EXTENDS RequestGate, FiniteSetTheorems, TLAPS

-----------------------------------------------------------------------------
(* The limiter                                                             *)

(* One field of an entry changes within its range.                         *)
LEMMA EntryField ==
  ASSUME NEW c \in ClientRate
  PROVE  /\ \A n \in 0..Rpm : [c EXCEPT !.minuteCount = n] \in ClientRate
         /\ \A n \in 0..Rph : [c EXCEPT !.hourCount = n] \in ClientRate
         /\ \A t \in -1..Minute : [c EXCEPT !.minuteLeft = t] \in ClientRate
         /\ \A t \in -1..Hour : [c EXCEPT !.hourLeft = t] \in ClientRate
BY DEF ClientRate

(* The entry that Allow decides on is an entry.                            *)
LEMMA RenewedType ==
  ASSUME RateTypeOK, NEW k \in Key
  PROVE  Renewed(k) \in ClientRate
<1> USE LimitAssumption, WindowAssumption
<1> DEFINE c == IF clients[k] = NoClient THEN NewClient ELSE clients[k]
<1>1. c \in ClientRate
  <2>1. NewClient \in ClientRate
    BY DEF NewClient, ClientRate
  <2>2. clients[k] \in ClientRate \cup {NoClient}
    BY DEF RateTypeOK
  <2>. QED BY <2>1, <2>2
<1> HIDE DEF c
<1>2. RenewMinute(c) \in ClientRate
  <2> DEFINE d == [c EXCEPT !.minuteCount = 0]
  <2>1. d \in ClientRate
    BY <1>1, EntryField, 0 \in 0..Rpm
  <2> HIDE DEF d
  <2>2. [d EXCEPT !.minuteLeft = Minute] \in ClientRate
    BY <2>1, EntryField, Minute \in -1..Minute
  <2>. QED BY <1>1, <2>2 DEF RenewMinute, d
<1> DEFINE m == RenewMinute(c)
<1> HIDE DEF m
<1>3. RenewHour(m) \in ClientRate
  <2> DEFINE d == [m EXCEPT !.hourCount = 0]
  <2>1. m \in ClientRate
    BY <1>2 DEF m
  <2>2. d \in ClientRate
    BY <2>1, EntryField, 0 \in 0..Rph
  <2> HIDE DEF d
  <2>3. [d EXCEPT !.hourLeft = Hour] \in ClientRate
    BY <2>2, EntryField, Hour \in -1..Hour
  <2>. QED BY <2>1, <2>3 DEF RenewHour, d
<1>. QED BY <1>3 DEF Renewed, c, m

(* A request keeps the types of the limiter; in particular, being admitted *)
(* never takes a counter over its limit.                                   *)
LEMMA RateStep ==
  ASSUME RateTypeOK, NEW k \in Key,
         AllowTrue(k) \/ AllowFalse(k) \/ UNCHANGED rateVars
  PROVE  RateTypeOK'
<1>1. CASE AllowTrue(k)
  <2> DEFINE c == Renewed(k)
  <2>1. c \in ClientRate /\ c.minuteCount < Rpm /\ c.hourCount < Rph
    BY <1>1, RenewedType, LimitAssumption DEF AllowTrue, OverLimit, ClientRate
  <2> HIDE DEF c
  <2>2. [c EXCEPT !.minuteCount = @ + 1, !.hourCount = @ + 1] \in ClientRate
    <3> DEFINE d == [c EXCEPT !.minuteCount = c.minuteCount + 1]
    <3>1. c.minuteCount + 1 \in 0..Rpm /\ c.hourCount + 1 \in 0..Rph
      BY <2>1, LimitAssumption DEF ClientRate
    <3>2. d \in ClientRate
      BY <2>1, <3>1, EntryField
    <3> HIDE DEF d
    <3>3. [d EXCEPT !.hourCount = c.hourCount + 1] \in ClientRate
      BY <3>1, <3>2, EntryField
    <3>. QED BY <3>3 DEF d
  <2>3. clients' \in [Key -> ClientRate \cup {NoClient}]
    BY <1>1, <2>2 DEF AllowTrue, RateTypeOK, c
  <2>4. admitted' \in [Key -> [Spans -> Nat]]
    <3>1. [t \in Spans |-> admitted[k][t] + 1] \in [Spans -> Nat]
      BY DEF RateTypeOK
    <3>. QED BY <1>1, <3>1 DEF AllowTrue, RateTypeOK
  <2>5. forgotten' \in [Key -> 0..Minute + 1]
    BY <1>1 DEF AllowTrue, RateTypeOK
  <2>. QED BY <2>3, <2>4, <2>5 DEF RateTypeOK
<1>2. CASE AllowFalse(k)
  BY <1>2, RenewedType DEF AllowFalse, RateTypeOK
<1>3. CASE UNCHANGED rateVars
  BY <1>3 DEF rateVars, RateTypeOK
<1>. QED BY <1>1, <1>2, <1>3

(* Time keeps them too: no window is longer than when it was opened.       *)
LEMMA TickKeeps == ASSUME RateTypeOK, Tick PROVE RateTypeOK'
<1>1. ASSUME NEW c \in ClientRate
      PROVE  [c EXCEPT !.minuteLeft = Elapse(@), !.hourLeft = Elapse(@)] \in ClientRate
  <2> DEFINE d == [c EXCEPT !.minuteLeft = Elapse(c.minuteLeft)]
  <2>1. Elapse(c.minuteLeft) \in -1..Minute /\ Elapse(c.hourLeft) \in -1..Hour
    BY WindowAssumption DEF ClientRate, Elapse
  <2>2. d \in ClientRate
    BY <2>1, EntryField
  <2> HIDE DEF d
  <2>3. [d EXCEPT !.hourLeft = Elapse(c.hourLeft)] \in ClientRate
    BY <2>1, <2>2, EntryField
  <2>. QED BY <2>3 DEF d
<1>2. clients' \in [Key -> ClientRate \cup {NoClient}]
  <2> DEFINE Later(c) == [c EXCEPT !.minuteLeft = Elapse(@), !.hourLeft = Elapse(@)]
  <2>1. \A c \in ClientRate : Later(c) \in ClientRate
    BY <1>1
  <2>2. clients' = [i \in Key |-> IF clients[i] = NoClient THEN NoClient ELSE Later(clients[i])]
    BY DEF Tick
  <2> HIDE DEF Later
  <2>. QED BY <2>1, <2>2 DEF RateTypeOK
<1>3. admitted' \in [Key -> [Spans -> Nat]]
  <2>1. ASSUME NEW i \in Key, NEW t \in Spans
        PROVE  (IF t = 0 THEN 0 ELSE admitted[i][t - 1]) \in Nat
    BY WindowAssumption DEF RateTypeOK, Spans
  <2>2. ASSUME NEW i \in Key
        PROVE  [t \in Spans |-> IF t = 0 THEN 0 ELSE admitted[i][t - 1]] \in [Spans -> Nat]
    BY <2>1
  <2>. QED BY <2>2 DEF Tick
<1>4. forgotten' \in [Key -> 0..Minute + 1]
  <2>1. ASSUME NEW i \in Key
        PROVE  (IF forgotten[i] > Minute THEN forgotten[i] ELSE forgotten[i] + 1) \in 0..Minute + 1
    <3>1. forgotten[i] \in 0..Minute + 1
      BY DEF RateTypeOK
    <3>. QED BY <3>1, WindowAssumption
  <2>. QED BY <2>1 DEF Tick
<1>. QED BY <1>2, <1>3, <1>4 DEF RateTypeOK

-----------------------------------------------------------------------------
(* The windows.  A and f are the history of one client and the time since  *)
(* it was forgotten; n and left the count and the rest of one window.      *)
Monotone(A) == \A s, t \in 0..Hour : s <= t => A[s] <= A[t]

(* While the minute is open it counted all that was admitted since it was  *)
(* opened, and at most a limit was admitted before it within a minute of   *)
(* now: all of that in one earlier window, or in two if the client was     *)
(* forgotten between.                                                      *)
MinutePart(n, left, A, f) ==
  IF left = -1 THEN f > Minute /\ A[0] = 0 /\ A[Minute] <= Rpm
  ELSE /\ n <= A[Minute - left]
       /\ f > Minute => A[Minute - left] <= n /\ A[Minute] <= n + Rpm
       /\ f <= Minute => /\ Minute - left <= f
                         /\ A[Minute] <= n + 2 * Rpm
                         /\ \A t \in 0..(f - 1) : A[t] <= n

(* Nobody is forgotten before the hour is over, so this is simpler.        *)
HourPart(n, left, A, f) ==
  IF left = -1 THEN f > Minute /\ A[0] = 0 /\ A[Hour] <= Rph
  ELSE /\ n = A[Hour - left]
       /\ A[Hour] <= n + Rph
       /\ f > Minute \/ Hour - left <= f

Unknown(A, f) ==
  /\ A[0] = 0 /\ A[Minute] <= 2 * Rpm /\ A[Hour] <= Rph
  /\ \A t \in 0..(f - 1) : A[t] = 0

Known(c, A, f) ==
  /\ MinutePart(c.minuteCount, c.minuteLeft, A, f)
  /\ HourPart(c.hourCount, c.hourLeft, A, f)

Windows(c, A, f) == Monotone(A) /\ (IF c = NoClient THEN Unknown(A, f) ELSE Known(c, A, f))

History == [Spans -> Nat]
Since == 0..Minute + 1

(* An ended window opens again; a client that was not known opens both.    *)
LEMMA RenewParts ==
  ASSUME NEW A \in History, NEW f \in Since, NEW n
  PROVE  /\ MinutePart(n, -1, A, f) => MinutePart(0, Minute, A, f)
         /\ HourPart(n, -1, A, f) => HourPart(0, Hour, A, f)
         /\ Unknown(A, f) => MinutePart(0, Minute, A, f) /\ HourPart(0, Hour, A, f)
<1> USE LimitAssumption, WindowAssumption DEF History, Since, Spans
<1>1. Minute # -1 /\ Hour # -1 /\ Minute - Minute = 0 /\ Hour - Hour = 0
  OBVIOUS
<1>2. MinutePart(n, -1, A, f) => MinutePart(0, Minute, A, f)
  BY <1>1 DEF MinutePart
<1>3. HourPart(n, -1, A, f) => HourPart(0, Hour, A, f)
  BY <1>1 DEF HourPart
<1>4. Unknown(A, f) => MinutePart(0, Minute, A, f) /\ HourPart(0, Hour, A, f)
  BY <1>1 DEF Unknown, MinutePart, HourPart
<1>. QED BY <1>2, <1>3, <1>4

(* An admitted request is counted by both windows and in every span.       *)
LEMMA AdmitParts ==
  ASSUME NEW A \in History, NEW f \in Since,
         NEW m \in 0..Minute, NEW h \in 0..Hour, NEW i \in Nat, NEW j \in Nat,
         Monotone(A), MinutePart(i, m, A, f), HourPart(j, h, A, f)
  PROVE  LET B == [t \in Spans |-> A[t] + 1] IN
         Monotone(B) /\ MinutePart(i + 1, m, B, f) /\ HourPart(j + 1, h, B, f)
<1> DEFINE B == [t \in Spans |-> A[t] + 1]
<1> USE LimitAssumption, WindowAssumption DEF History, Since, Spans
<1>1. \A t \in 0..Hour : B[t] = A[t] + 1 /\ A[t] \in Nat
  OBVIOUS
<1> HIDE DEF B
<1>2. Monotone(B)
  <2>1. ASSUME NEW s \in 0..Hour, NEW t \in 0..Hour, s <= t PROVE B[s] <= B[t]
    <3>1. A[s] <= A[t]
      BY <2>1 DEF Monotone
    <3>. QED BY <1>1, <3>1
  <2>. QED BY <2>1 DEF Monotone
<1>3. MinutePart(i + 1, m, B, f)
  <2>1. Minute - m \in 0..Hour /\ Minute \in 0..Hour /\ m # -1
    OBVIOUS
  <2>2. B[Minute - m] = A[Minute - m] + 1 /\ B[Minute] = A[Minute] + 1
    BY <1>1, <2>1
  <2>3. A[Minute - m] \in Nat /\ A[Minute] \in Nat /\ f \in Int
    BY <1>1, <2>1
  <2>4. ASSUME f <= Minute, NEW t \in 0..(f - 1) PROVE B[t] <= i + 1
    <3>1. t \in 0..Hour
      BY <2>4
    <3>2. A[t] <= i
      BY <2>1, <2>4 DEF MinutePart
    <3>. QED BY <1>1, <3>1, <3>2
  <2>5. CASE f > Minute
    BY <2>1, <2>2, <2>3, <2>5 DEF MinutePart
  <2>6. CASE f <= Minute
    BY <2>1, <2>2, <2>3, <2>4, <2>6 DEF MinutePart
  <2>. QED BY <2>3, <2>5, <2>6
<1>4. HourPart(j + 1, h, B, f)
  <2>1. Hour - h \in 0..Hour /\ Hour \in 0..Hour /\ h # -1
    OBVIOUS
  <2>2. B[Hour - h] = A[Hour - h] + 1 /\ B[Hour] = A[Hour] + 1
    BY <1>1, <2>1
  <2>3. A[Hour - h] \in Nat /\ A[Hour] \in Nat
    BY <1>1, <2>1
  <2>. QED BY <2>1, <2>2, <2>3 DEF HourPart
<1>. QED BY <1>2, <1>3, <1>4 DEF B

(* A tick: every window is one tick older, and so is every request.        *)
LEMMA ElapseParts ==
  ASSUME NEW A \in History, NEW f \in Since,
         NEW m \in -1..Minute, NEW h \in -1..Hour, NEW i \in 0..Rpm, NEW j \in 0..Rph,
         Monotone(A), MinutePart(i, m, A, f), HourPart(j, h, A, f)
  PROVE  LET B == [t \in Spans |-> IF t = 0 THEN 0 ELSE A[t - 1]]
             g == IF f > Minute THEN f ELSE f + 1
         IN MinutePart(i, Elapse(m), B, g) /\ HourPart(j, Elapse(h), B, g)
<1> DEFINE B == [t \in Spans |-> IF t = 0 THEN 0 ELSE A[t - 1]]
           g == IF f > Minute THEN f ELSE f + 1
<1> USE LimitAssumption, WindowAssumption DEF History, Since, Spans
<1>1. B[0] = 0 /\ \A t \in 1..Hour : B[t] = A[t - 1] /\ A[t - 1] \in Nat /\ A[t] \in Nat
                                     /\ A[t - 1] <= A[t]
  <2>1. \A t \in 1..Hour : t \in 0..Hour /\ t - 1 \in 0..Hour /\ t - 1 <= t
    OBVIOUS
  <2>2. \A t \in 1..Hour : A[t - 1] <= A[t]
    BY <2>1 DEF Monotone
  <2>. QED BY <2>1, <2>2
<1> HIDE DEF B
<1>2. B[Minute] = A[Minute - 1] /\ B[Minute] <= A[Minute] /\ A[Minute] \in Nat /\ B[Minute] \in Nat
  BY <1>1, Minute \in 1..Hour
<1>3. B[Hour] = A[Hour - 1] /\ B[Hour] <= A[Hour] /\ A[Hour] \in Nat /\ B[Hour] \in Nat
  BY <1>1, Hour \in 1..Hour
<1>4. MinutePart(i, Elapse(m), B, g)
  <2>1. CASE m = -1
    BY <1>1, <1>2, <2>1 DEF MinutePart, Elapse
  <2>2. CASE m = 0
    <3>1. Elapse(m) = -1 /\ Minute - m = Minute
      BY <2>2 DEF Elapse
    <3>2. g > Minute /\ B[Minute] <= i
      <4>1. CASE f > Minute
        BY <1>2, <2>2, <3>1, <4>1 DEF MinutePart
      <4>2. CASE f <= Minute
        <5>1. f = Minute /\ \A t \in 0..(f - 1) : A[t] <= i
          BY <2>2, <4>2 DEF MinutePart
        <5>2. A[Minute - 1] <= i
          BY <5>1
        <5>. QED BY <1>2, <5>1, <5>2
      <4>. QED BY <4>1, <4>2
    <3>. QED BY <1>1, <1>2, <3>1, <3>2 DEF MinutePart
  <2>3. CASE m > 0
    <3>1. Elapse(m) = m - 1 /\ m - 1 # -1 /\ Minute - (m - 1) = (Minute - m) + 1
      BY <2>3 DEF Elapse
    <3>2. (Minute - m) + 1 \in 1..Hour /\ ((Minute - m) + 1) - 1 = Minute - m
      BY <2>3
    <3>3. B[(Minute - m) + 1] = A[Minute - m] /\ A[Minute - m] \in Nat
      BY <1>1, <3>2
    <3>4. m # -1
      BY <2>3
    <3>5. CASE f > Minute
      BY <1>2, <3>1, <3>3, <3>4, <3>5 DEF MinutePart
    <3>6. CASE f = Minute
      <4>1. Minute - m \in 0..(f - 1) /\ Minute - 1 \in 0..(f - 1)
        BY <2>3, <3>6
      <4>2. i <= A[Minute - m] /\ A[Minute - m] <= i /\ A[Minute - 1] <= i
        BY <3>4, <3>6, <4>1 DEF MinutePart
      <4>. QED BY <1>2, <3>1, <3>3, <3>6, <4>2 DEF MinutePart
    <3>7. CASE f < Minute
      <4>1. g = f + 1 /\ g <= Minute
        BY <3>7
      <4>2. ASSUME NEW t \in 0..(g - 1) PROVE B[t] <= i
        <5>1. CASE t = 0
          BY <1>1, <5>1
        <5>2. CASE t # 0
          <6>1. t \in 1..Hour /\ t - 1 \in 0..(f - 1)
            BY <4>1, <5>2
          <6>2. A[t - 1] <= i
            BY <3>4, <3>7, <6>1 DEF MinutePart
          <6>. QED BY <1>1, <6>1, <6>2
        <5>. QED BY <5>1, <5>2
      <4>3. /\ i <= A[Minute - m] /\ Minute - m <= f /\ A[Minute] <= i + 2 * Rpm
        BY <3>4, <3>7 DEF MinutePart
      <4>. QED BY <1>2, <3>1, <3>3, <4>1, <4>2, <4>3 DEF MinutePart
    <3>. QED BY <3>5, <3>6, <3>7
  <2>. QED BY <2>1, <2>2, <2>3
<1>5. HourPart(j, Elapse(h), B, g)
  <2>1. CASE h = -1
    BY <1>1, <1>3, <2>1 DEF HourPart, Elapse
  <2>2. CASE h = 0
    BY <1>1, <1>3, <2>2 DEF HourPart, Elapse
  <2>3. CASE h > 0
    <3>1. Elapse(h) = h - 1 /\ h - 1 # -1 /\ h # -1 /\ Hour - (h - 1) = (Hour - h) + 1
      BY <2>3 DEF Elapse
    <3>2. (Hour - h) + 1 \in 1..Hour /\ ((Hour - h) + 1) - 1 = Hour - h
      BY <2>3
    <3>3. B[(Hour - h) + 1] = A[Hour - h]
      BY <1>1, <3>2
    <3>. QED BY <1>3, <3>1, <3>3 DEF HourPart
  <2>. QED BY <2>1, <2>2, <2>3
<1>. QED BY <1>4, <1>5 DEF B, g

(* The fields of an entry after Allow has looked at its windows.           *)
LEMMA RenewedFields ==
  ASSUME NEW c \in ClientRate
  PROVE  LET r == RenewHour(RenewMinute(c)) IN
         /\ r.minuteCount = IF c.minuteLeft = -1 THEN 0 ELSE c.minuteCount
         /\ r.minuteLeft = IF c.minuteLeft = -1 THEN Minute ELSE c.minuteLeft
         /\ r.hourCount = IF c.hourLeft = -1 THEN 0 ELSE c.hourCount
         /\ r.hourLeft = IF c.hourLeft = -1 THEN Hour ELSE c.hourLeft
<1> DEFINE d == RenewMinute(c)
<1>1. /\ d.minuteCount = IF c.minuteLeft = -1 THEN 0 ELSE c.minuteCount
      /\ d.minuteLeft = IF c.minuteLeft = -1 THEN Minute ELSE c.minuteLeft
      /\ d.hourCount = c.hourCount /\ d.hourLeft = c.hourLeft
      /\ d \in [minuteCount : Int, hourCount : Int, minuteLeft : Int, hourLeft : Int]
  <2> DEFINE e == [c EXCEPT !.minuteCount = 0]
             g == [e EXCEPT !.minuteLeft = Minute]
  <2> USE LimitAssumption, WindowAssumption
  <2>1. /\ e.minuteCount = 0 /\ e.minuteLeft = c.minuteLeft /\ e.hourCount = c.hourCount
        /\ e.hourLeft = c.hourLeft /\ e \in ClientRate
    BY DEF ClientRate
  <2> HIDE DEF e
  <2>2. /\ g.minuteCount = 0 /\ g.minuteLeft = Minute /\ g.hourCount = c.hourCount
        /\ g.hourLeft = c.hourLeft /\ g \in ClientRate
    BY <2>1 DEF ClientRate
  <2> HIDE DEF g
  <2>3. d = IF c.minuteLeft = -1 THEN g ELSE c
    BY DEF RenewMinute, e, g
  <2>4. d \in ClientRate
    BY <2>2, <2>3
  <2>5. d \in [minuteCount : Int, hourCount : Int, minuteLeft : Int, hourLeft : Int]
    BY <2>4 DEF ClientRate
  <2>. QED BY <2>2, <2>3, <2>5
<1> HIDE DEF d
<1>2. LET r == RenewHour(d) IN
      /\ r.minuteCount = d.minuteCount /\ r.minuteLeft = d.minuteLeft
      /\ r.hourCount = IF d.hourLeft = -1 THEN 0 ELSE d.hourCount
      /\ r.hourLeft = IF d.hourLeft = -1 THEN Hour ELSE d.hourLeft
  <2> DEFINE e == [d EXCEPT !.hourCount = 0]
             g == [e EXCEPT !.hourLeft = Hour]
  <2>1. /\ e.minuteCount = d.minuteCount /\ e.minuteLeft = d.minuteLeft /\ e.hourCount = 0
        /\ e \in [minuteCount : Int, hourCount : Int, minuteLeft : Int, hourLeft : Int]
    BY <1>1
  <2> HIDE DEF e
  <2>2. /\ g.minuteCount = d.minuteCount /\ g.minuteLeft = d.minuteLeft /\ g.hourCount = 0
        /\ g.hourLeft = Hour
    BY <2>1
  <2> HIDE DEF g
  <2>3. RenewHour(d) = IF d.hourLeft = -1 THEN g ELSE d
    BY DEF RenewHour, e, g
  <2>. QED BY <2>2, <2>3
<1>. QED BY <1>1, <1>2 DEF d

(* What Allow decides on: both windows are open and tell the truth.        *)
LEMMA RenewedOpen ==
  ASSUME RateTypeOK, NEW k \in Key, Windows(clients[k], admitted[k], forgotten[k])
  PROVE  /\ Renewed(k).minuteLeft \in 0..Minute /\ Renewed(k).hourLeft \in 0..Hour
         /\ Known(Renewed(k), admitted[k], forgotten[k])
<1> DEFINE A == admitted[k]
           f == forgotten[k]
<1>1. A \in History /\ f \in Since
  BY DEF RateTypeOK, History, Since
<1> HIDE DEF A, f
<1>2. CASE clients[k] = NoClient
  <2>1. Unknown(A, f)
    BY <1>2 DEF Windows, A, f
  <2>2. MinutePart(0, Minute, A, f) /\ HourPart(0, Hour, A, f)
    BY <1>1, <2>1, RenewParts
  <2>3. NewClient \in ClientRate
    BY LimitAssumption, WindowAssumption DEF NewClient, ClientRate
  <2>4. Renewed(k) = RenewHour(RenewMinute(NewClient))
    BY <1>2 DEF Renewed
  <2>5. /\ NewClient.minuteCount = 0 /\ NewClient.hourCount = 0
        /\ NewClient.minuteLeft = Minute /\ NewClient.hourLeft = Hour
    BY DEF NewClient
  <2>6. Minute # -1 /\ Hour # -1 /\ Minute \in 0..Minute /\ Hour \in 0..Hour
    BY WindowAssumption
  <2>7. /\ Renewed(k).minuteCount = 0 /\ Renewed(k).hourCount = 0
        /\ Renewed(k).minuteLeft = Minute /\ Renewed(k).hourLeft = Hour
    BY <2>3, <2>4, <2>5, <2>6, RenewedFields
  <2>. QED BY <2>2, <2>6, <2>7 DEF Known, A, f
<1>3. CASE clients[k] # NoClient
  <2> DEFINE c == clients[k]
             r == Renewed(k)
  <2>1. c \in ClientRate /\ r = RenewHour(RenewMinute(c))
    BY <1>3 DEF RateTypeOK, Renewed
  <2>2. MinutePart(c.minuteCount, c.minuteLeft, A, f) /\ HourPart(c.hourCount, c.hourLeft, A, f)
    BY <1>3 DEF Windows, Known, A, f
  <2> HIDE DEF c, r
  <2>3. c.minuteLeft \in -1..Minute /\ c.hourLeft \in -1..Hour
    BY <2>1 DEF ClientRate
  <2>4. r.minuteLeft \in 0..Minute /\ MinutePart(r.minuteCount, r.minuteLeft, A, f)
    <3>1. CASE c.minuteLeft = -1
      BY <1>1, <2>1, <2>2, <3>1, RenewedFields, RenewParts, WindowAssumption
    <3>2. CASE c.minuteLeft # -1
      BY <2>1, <2>2, <2>3, <3>2, RenewedFields, WindowAssumption
    <3>. QED BY <3>1, <3>2
  <2>5. r.hourLeft \in 0..Hour /\ HourPart(r.hourCount, r.hourLeft, A, f)
    <3>1. CASE c.hourLeft = -1
      BY <1>1, <2>1, <2>2, <3>1, RenewedFields, RenewParts, WindowAssumption
    <3>2. CASE c.hourLeft # -1
      BY <2>1, <2>2, <2>3, <3>2, RenewedFields, WindowAssumption
    <3>. QED BY <3>1, <3>2
  <2>. QED BY <2>4, <2>5 DEF Known, A, f, r
<1>. QED BY <1>2, <1>3

WindowInv == \A k \in Key : Windows(clients[k], admitted[k], forgotten[k])

LEMMA NoClientNoRate == NoClient \notin ClientRate
BY NoClientAssumption, LimitAssumption, WindowAssumption DEF ClientRate

(* A request: the windows it renews and the counters it moves stay true.   *)
LEMMA AllowWindows ==
  ASSUME RateTypeOK, WindowInv, NEW k \in Key, AllowTrue(k) \/ AllowFalse(k)
  PROVE  WindowInv'
<1> DEFINE r == Renewed(k)
           A == admitted[k]
           f == forgotten[k]
<1>1. /\ r \in ClientRate /\ r.minuteLeft \in 0..Minute /\ r.hourLeft \in 0..Hour
      /\ Known(r, A, f)
  BY RenewedType, RenewedOpen DEF WindowInv
<1>2. A \in History /\ f \in Since /\ Monotone(A)
  BY DEF RateTypeOK, History, Since, WindowInv, Windows
<1>3. ASSUME NEW i \in Key, i # k
      PROVE  Windows(clients'[i], admitted'[i], forgotten'[i])
  <2>1. clients'[i] = clients[i] /\ admitted'[i] = admitted[i] /\ forgotten' = forgotten
    BY <1>3 DEF AllowTrue, AllowFalse, RateTypeOK
  <2>. QED BY <2>1 DEF WindowInv
<1>4. Windows(clients'[k], admitted'[k], forgotten'[k])
  <2>1. CASE AllowFalse(k)
    <3>1. clients'[k] = r /\ admitted'[k] = A /\ forgotten'[k] = f
      BY <2>1 DEF AllowFalse, RateTypeOK
    <3>. QED BY <1>1, <1>2, <3>1, NoClientNoRate DEF Windows
  <2>2. CASE AllowTrue(k)
    <3> DEFINE B == [t \in Spans |-> A[t] + 1]
               d == [r EXCEPT !.minuteCount = r.minuteCount + 1]
               e == [d EXCEPT !.hourCount = d.hourCount + 1]
    <3> HIDE DEF r, A, f
    <3>1. clients'[k] = e /\ admitted'[k] = B /\ forgotten'[k] = f
      <4>1. [r EXCEPT !.minuteCount = @ + 1, !.hourCount = @ + 1] = e
        OBVIOUS
      <4> HIDE DEF e
      <4>. QED BY <2>2, <4>1 DEF AllowTrue, RateTypeOK, r, A, f
    <3>2. /\ d.minuteCount = r.minuteCount + 1 /\ d.minuteLeft = r.minuteLeft
          /\ d.hourCount = r.hourCount /\ d.hourLeft = r.hourLeft
          /\ d \in [minuteCount : Int, hourCount : Int, minuteLeft : Int, hourLeft : Int]
      BY <1>1, LimitAssumption, WindowAssumption DEF ClientRate
    <3> HIDE DEF d
    <3>3. /\ e.minuteCount = r.minuteCount + 1 /\ e.minuteLeft = r.minuteLeft
          /\ e.hourCount = r.hourCount + 1 /\ e.hourLeft = r.hourLeft
      BY <3>2
    <3>4. e # NoClient
      <4>1. clients'[k] \in ClientRate
        <5>1. r.minuteCount \in 0..Rpm /\ r.minuteCount < Rpm /\ r.hourCount \in 0..Rph
              /\ r.hourCount < Rph
          BY <1>1, <2>2, LimitAssumption DEF AllowTrue, OverLimit, ClientRate, r
        <5>2. d \in ClientRate
          BY <1>1, <5>1, EntryField, LimitAssumption DEF d
        <5>3. d.hourCount + 1 \in 0..Rph
          BY <3>2, <5>1, LimitAssumption
        <5>4. [d EXCEPT !.hourCount = d.hourCount + 1] \in ClientRate
          BY <5>2, <5>3, EntryField
        <5>. QED BY <3>1, <5>4
      <4>. QED BY <3>1, <4>1, NoClientNoRate
    <3> HIDE DEF e
    <3>5. r.minuteCount \in Nat /\ r.hourCount \in Nat
      BY <1>1, LimitAssumption DEF ClientRate
    <3>6. Monotone(B) /\ MinutePart(r.minuteCount + 1, r.minuteLeft, B, f)
          /\ HourPart(r.hourCount + 1, r.hourLeft, B, f)
      BY <1>1, <1>2, <3>5, AdmitParts DEF Known
    <3> HIDE DEF B
    <3>. QED BY <3>1, <3>3, <3>4, <3>6 DEF Windows, Known
  <2>. QED BY <2>1, <2>2
<1>. QED BY <1>3, <1>4 DEF WindowInv

(* The cleanup forgets clients whose hour, and so some minute, is over.    *)
LEMMA CleanupWindows ==
  ASSUME RateTypeOK, WindowInv, Cleanup
  PROVE  WindowInv'
<1> SUFFICES ASSUME NEW k \in Key
             PROVE  Windows(clients'[k], admitted'[k], forgotten'[k])
  BY DEF WindowInv
<1>1. admitted' = admitted /\ Windows(clients[k], admitted[k], forgotten[k])
  BY DEF Cleanup, WindowInv
<1>2. CASE ~Stale(clients[k])
  <2>1. clients'[k] = clients[k] /\ forgotten'[k] = forgotten[k]
    BY <1>2 DEF Cleanup
  <2>. QED BY <1>1, <2>1
<1>3. CASE Stale(clients[k])
  <2> DEFINE c == clients[k]
             A == admitted[k]
             f == forgotten[k]
  <2>1. c \in ClientRate /\ c.hourLeft = -1 /\ c # NoClient
    BY <1>3 DEF Stale, RateTypeOK
  <2>2. A \in History
    BY DEF RateTypeOK, History
  <2>3. f > Minute /\ A[0] = 0 /\ A[Hour] <= Rph
    BY <1>1, <2>1 DEF Windows, Known, HourPart
  <2>4. MinutePart(c.minuteCount, c.minuteLeft, A, f)
    BY <1>1, <2>1 DEF Windows, Known
  <2> HIDE DEF c, A, f
  <2>5. A[Minute] <= 2 * Rpm
    <3>1. c.minuteCount \in 0..Rpm /\ A[Minute] \in Nat
      BY <2>1, <2>2, WindowAssumption DEF ClientRate, History, Spans
    <3>2. A[Minute] <= Rpm \/ A[Minute] <= c.minuteCount + Rpm
      BY <2>3, <2>4 DEF MinutePart
    <3>. QED BY <3>1, <3>2, LimitAssumption
  <2>6. Unknown(A, 0)
    BY <2>3, <2>5 DEF Unknown
  <2>7. clients'[k] = NoClient /\ forgotten'[k] = 0
    BY <1>3 DEF Cleanup
  <2>. QED BY <1>1, <2>6, <2>7 DEF Windows, A
<1>. QED BY <1>2, <1>3

(* Time passes.                                                            *)
LEMMA TickWindows ==
  ASSUME RateTypeOK, WindowInv, Tick
  PROVE  WindowInv'
<1> SUFFICES ASSUME NEW k \in Key
             PROVE  Windows(clients'[k], admitted'[k], forgotten'[k])
  BY DEF WindowInv
<1> DEFINE c == clients[k]
           A == admitted[k]
           f == forgotten[k]
           B == [t \in Spans |-> IF t = 0 THEN 0 ELSE A[t - 1]]
           g == IF f > Minute THEN f ELSE f + 1
<1>1. admitted'[k] = B /\ forgotten'[k] = g
  BY DEF Tick
<1>2. A \in History /\ f \in Since /\ Windows(c, A, f)
  BY DEF RateTypeOK, History, Since, WindowInv
<1>3. /\ A[0] \in Nat /\ B[0] = 0 /\ Minute \in 1..Hour /\ Hour \in 1..Hour
      /\ \A t \in 1..Hour : /\ B[t] = A[t - 1] /\ A[t] \in Nat /\ A[t - 1] \in Nat
                            /\ A[t - 1] <= A[t]
  <2>1. \A t \in 1..Hour : t \in 0..Hour /\ t - 1 \in 0..Hour /\ t - 1 <= t
    BY WindowAssumption
  <2>2. \A t \in 1..Hour : A[t - 1] <= A[t]
    BY <1>2, <2>1 DEF Windows, Monotone
  <2>. QED BY <1>2, <2>1, <2>2, WindowAssumption DEF History, Spans
<1>4. Monotone(B)
  <2>1. ASSUME NEW s \in 0..Hour, NEW t \in 0..Hour, s <= t PROVE B[s] <= B[t]
    <3>1. CASE s = 0
      BY <1>3, <3>1
    <3>2. CASE s # 0
      <4>1. s \in 1..Hour /\ t \in 1..Hour /\ s - 1 \in 0..Hour /\ t - 1 \in 0..Hour
            /\ s - 1 <= t - 1
        BY <2>1, <3>2, WindowAssumption
      <4>2. A[s - 1] <= A[t - 1]
        BY <1>2, <4>1 DEF Windows, Monotone
      <4>. QED BY <1>3, <4>1, <4>2
    <3>. QED BY <3>1, <3>2
  <2>. QED BY <2>1 DEF Monotone
<1>5. CASE c = NoClient
  <2>1. Unknown(A, f)
    BY <1>2, <1>5 DEF Windows
  <2> HIDE DEF B, c, A
  <2>2. B[Minute] <= A[Minute] /\ B[Hour] <= A[Hour]
    BY <1>3
  <2>3. \A t \in 0..(g - 1) : B[t] = 0
    <3>1. ASSUME NEW t \in 0..(g - 1) PROVE B[t] = 0
      <4>1. CASE t = 0
        BY <1>3, <4>1
      <4>2. CASE t # 0
        <5>1. t \in 1..Hour /\ t - 1 \in 0..(f - 1)
          BY <1>2, <4>2, WindowAssumption DEF Since
        <5>. QED BY <1>3, <2>1, <5>1 DEF Unknown
      <4>. QED BY <4>1, <4>2
    <3>. QED BY <3>1
  <2>4. A[Minute] \in Nat /\ A[Hour] \in Nat /\ B[Minute] \in Nat /\ B[Hour] \in Nat
    BY <1>3
  <2>5. Unknown(B, g)
    BY <1>3, <2>1, <2>2, <2>3, <2>4, LimitAssumption DEF Unknown
  <2>6. clients'[k] = NoClient
    BY <1>5 DEF Tick, c
  <2>. QED BY <1>1, <1>4, <2>5, <2>6 DEF Windows
<1>6. CASE c # NoClient
  <2>1. c \in ClientRate /\ Known(c, A, f) /\ Monotone(A)
    BY <1>2, <1>6 DEF Windows, RateTypeOK
  <2>2. /\ c.minuteLeft \in -1..Minute /\ c.hourLeft \in -1..Hour
        /\ c.minuteCount \in 0..Rpm /\ c.hourCount \in 0..Rph
    BY <2>1 DEF ClientRate
  <2>3. /\ MinutePart(c.minuteCount, Elapse(c.minuteLeft), B, g)
        /\ HourPart(c.hourCount, Elapse(c.hourLeft), B, g)
    BY <1>2, <2>1, <2>2, ElapseParts DEF Known
  <2> DEFINE d == [c EXCEPT !.minuteLeft = Elapse(c.minuteLeft)]
             e == [d EXCEPT !.hourLeft = Elapse(d.hourLeft)]
  <2>4. clients'[k] = e
    <3>1. clients'[k] = [c EXCEPT !.minuteLeft = Elapse(@), !.hourLeft = Elapse(@)]
      BY <1>6 DEF Tick
    <3>2. [c EXCEPT !.minuteLeft = Elapse(@), !.hourLeft = Elapse(@)] = e
      OBVIOUS
    <3>. QED BY <3>1, <3>2
  <2> HIDE DEF B, g, A, f, c
  <2>5. Elapse(c.minuteLeft) \in -1..Minute /\ Elapse(c.hourLeft) \in -1..Hour
    BY <2>2, WindowAssumption DEF Elapse
  <2>6. /\ d \in ClientRate /\ d.minuteLeft = Elapse(c.minuteLeft) /\ d.hourLeft = c.hourLeft
        /\ d.minuteCount = c.minuteCount /\ d.hourCount = c.hourCount
    BY <2>1, <2>5 DEF ClientRate
  <2> HIDE DEF d
  <2>7. /\ e \in ClientRate /\ e.minuteLeft = Elapse(c.minuteLeft)
        /\ e.hourLeft = Elapse(c.hourLeft)
        /\ e.minuteCount = c.minuteCount /\ e.hourCount = c.hourCount
    BY <2>5, <2>6 DEF ClientRate
  <2> HIDE DEF e
  <2>. QED BY <1>1, <1>4, <2>3, <2>4, <2>7, NoClientNoRate DEF Windows, Known
<1>. QED BY <1>5, <1>6

-----------------------------------------------------------------------------
(* The inductive invariant: the limiter's windows count what was admitted, *)
(* the parsers that run are finitely many, and a slot is taken for each.   *)
Busy == {r \in Request : Running(r)}

InspectTypeOK ==
  /\ phase \in [Request -> Phase]
  /\ parser \in [Request -> Parser]
  /\ channel \in [Request -> 0..1]
  /\ slots \in 0..Slots

(* A request that has not come to parseCertWithTimeout has no goroutine.   *)
Early(r) == phase[r] \in {"new", "turnstile", "handler"}
NoParserBefore == \A r \in Request : Early(r) => parser[r] = "none"

GateInv ==
  /\ RateTypeOK
  /\ WindowInv
  /\ InspectTypeOK
  /\ NoParserBefore
  /\ IsFiniteSet(Busy) /\ slots = Cardinality(Busy)

LEMMA GateInit_Inv == GateInit => GateInv
<1> SUFFICES ASSUME GateInit PROVE GateInv
  OBVIOUS
<1>1. RateTypeOK /\ WindowInv
  <2>1. RateTypeOK
    BY WindowAssumption DEF GateInit, RateInit, RateTypeOK, Spans
  <2>2. ASSUME NEW k \in Key PROVE Windows(clients[k], admitted[k], forgotten[k])
    <3>1. clients[k] = NoClient /\ \A t \in 0..Hour : admitted[k][t] = 0
      BY DEF GateInit, RateInit, Spans
    <3>2. forgotten[k] = Minute + 1
      BY DEF GateInit, RateInit
    <3>3. Monotone(admitted[k])
      BY <3>1 DEF Monotone
    <3>4. \A t \in 0..(Minute + 1 - 1) : t \in 0..Hour
      BY WindowAssumption
    <3>5. 0 \in 0..Hour /\ Minute \in 0..Hour /\ Hour \in 0..Hour
      BY WindowAssumption
    <3>6. Unknown(admitted[k], forgotten[k])
      BY <3>1, <3>2, <3>4, <3>5, LimitAssumption DEF Unknown
    <3>. QED BY <3>1, <3>3, <3>6 DEF Windows
  <2>. QED BY <2>1, <2>2 DEF WindowInv
<1>2. InspectTypeOK /\ NoParserBefore
  BY SlotsAssumption DEF GateInit, InspectTypeOK, NoParserBefore, Phase, Parser
<1>3. Busy = {}
  BY DEF Busy, Running, GateInit
<1>. QED BY <1>1, <1>2, <1>3, FS_EmptySet DEF GateInv, GateInit

(* The steps of an inspection that the limiter does not see keep its state.*)
LEMMA RateUnchanged ==
  ASSUME RateTypeOK, WindowInv, UNCHANGED rateVars
  PROVE  RateTypeOK' /\ WindowInv'
BY DEF rateVars, RateTypeOK, WindowInv

(* Respond and GoTo only move a request on.                                *)
LEMMA MovesOn ==
  ASSUME InspectTypeOK, NoParserBefore, NEW r \in Request,
         Respond(r) \/ (Early(r) /\ \E next \in Phase : GoTo(r, next)),
         UNCHANGED parser
  PROVE  phase' \in [Request -> Phase] /\ NoParserBefore'
BY DEF InspectTypeOK, NoParserBefore, Early, Respond, GoTo, Phase

(* A step that keeps the parsers and the slots keeps the count of both.    *)
LEMMA SameParsers ==
  ASSUME GateInv, UNCHANGED <<parser, slots>>
  PROVE  IsFiniteSet(Busy)' /\ (slots = Cardinality(Busy))'
<1>1. Busy' = Busy
  BY DEF Busy, Running
<1>. QED BY <1>1 DEF GateInv

(* The steps of a request that start no parser.                            *)
LEMMA WithoutParser ==
  ASSUME GateInv, NEW r \in Request,
         \/ \E k \in Key, trusted \in BOOLEAN : Limit(r, k, trusted)
         \/ Verify(r) \/ HandlerRefuse(r) \/ ParserBusy(r) \/ Deadline(r) \/ Receive(r)
  PROVE  GateInv'
<1>1. RateTypeOK' /\ WindowInv'
  <2>1. CASE \E k \in Key, trusted \in BOOLEAN : Limit(r, k, trusted)
    BY <2>1, RateStep, AllowWindows, RateUnchanged DEF Limit, GateInv
  <2>2. CASE Verify(r) \/ HandlerRefuse(r) \/ ParserBusy(r) \/ Deadline(r) \/ Receive(r)
    BY <2>2, RateUnchanged DEF Verify, HandlerRefuse, ParserBusy, Deadline, Receive, GateInv
  <2>. QED BY <2>1, <2>2
<1>2. /\ UNCHANGED <<parser, slots>>
      /\ channel' = channel \/ channel' = [channel EXCEPT ![r] = 0]
  BY DEF Limit, Verify, HandlerRefuse, ParserBusy, Deadline, Receive
<1>3. Respond(r) \/ (Early(r) /\ \E next \in Phase : GoTo(r, next))
  BY DEF Limit, Verify, HandlerRefuse, ParserBusy, Deadline, Receive, Phase, Early
<1>4. phase' \in [Request -> Phase] /\ NoParserBefore'
  BY <1>2, <1>3, MovesOn DEF GateInv
<1>5. InspectTypeOK'
  BY <1>2, <1>4 DEF GateInv, InspectTypeOK
<1>. QED BY <1>1, <1>2, <1>4, <1>5, SameParsers DEF GateInv

(* A parser starts: one more runs, one more slot is taken.                 *)
LEMMA TakeSlotKeeps ==
  ASSUME GateInv, NEW r \in Request, TakeSlot(r)
  PROVE  GateInv'
<1>1. RateTypeOK' /\ WindowInv'
  BY RateUnchanged DEF TakeSlot, GateInv
<1>2. InspectTypeOK' /\ NoParserBefore'
  BY SlotsAssumption
     DEF TakeSlot, GoTo, GateInv, InspectTypeOK, NoParserBefore, Early, Phase, Parser
<1>3. Busy' = Busy \cup {r} /\ r \notin Busy
  BY DEF TakeSlot, Busy, Running, GateInv, InspectTypeOK, NoParserBefore, Early
<1>4. IsFiniteSet(Busy \cup {r}) /\ Cardinality(Busy \cup {r}) = slots + 1
  BY <1>3, FS_AddElement DEF GateInv
<1>. QED BY <1>1, <1>2, <1>3, <1>4 DEF GateInv, TakeSlot

(* The goroutine goes on, but still holds its slot.                        *)
LEMMA ParserGoesOn ==
  ASSUME GateInv, NEW r \in Request, ParserReturns(r) \/ Send(r)
  PROVE  GateInv'
<1>1. RateTypeOK' /\ WindowInv'
  BY RateUnchanged DEF ParserReturns, Send, GateInv
<1>2. InspectTypeOK' /\ NoParserBefore'
  BY DEF ParserReturns, Send, GateInv, InspectTypeOK, NoParserBefore, Early, Parser
<1>3. Busy' = Busy /\ slots' = slots
  BY DEF ParserReturns, Send, Busy, Running, GateInv, InspectTypeOK
<1>. QED BY <1>1, <1>2, <1>3 DEF GateInv

(* It ends: one less runs, and there was a slot to give back.              *)
LEMMA ReleaseSlotKeeps ==
  ASSUME GateInv, NEW r \in Request, ReleaseSlot(r)
  PROVE  GateInv'
<1>1. RateTypeOK' /\ WindowInv'
  BY RateUnchanged DEF ReleaseSlot, GateInv
<1>2. Busy' = Busy \ {r} /\ r \in Busy
  BY DEF ReleaseSlot, Busy, Running, GateInv, InspectTypeOK
<1>3. IsFiniteSet(Busy \ {r}) /\ Cardinality(Busy \ {r}) = slots - 1
  BY <1>2, FS_RemoveElement DEF GateInv
<1>4. slots - 1 \in Nat
  BY <1>3, FS_CardinalityType
<1>5. InspectTypeOK' /\ NoParserBefore'
  BY <1>4, SlotsAssumption
     DEF ReleaseSlot, GateInv, InspectTypeOK, NoParserBefore, Early, Parser
<1>. QED BY <1>1, <1>2, <1>3, <1>5 DEF GateInv, ReleaseSlot

(* Other traffic, the cleanup, time, and steps that change nothing.        *)
LEMMA LimiterOnly ==
  ASSUME GateInv,
         \/ \E k \in Key : Traffic(k)
         \/ Cleanup /\ UNCHANGED inspectVars
         \/ Tick /\ UNCHANGED inspectVars
         \/ UNCHANGED gateVars
  PROVE  GateInv'
<1>1. UNCHANGED inspectVars
  BY DEF Traffic, gateVars
<1>2. InspectTypeOK' /\ NoParserBefore' /\ UNCHANGED <<parser, slots>>
  BY <1>1 DEF inspectVars, GateInv, InspectTypeOK, NoParserBefore, Early
<1>3. RateTypeOK' /\ WindowInv'
  <2>1. CASE \E k \in Key : Traffic(k)
    BY <2>1, RateStep, AllowWindows DEF Traffic, GateInv
  <2>2. CASE Cleanup
    <3>1. RateTypeOK'
      BY <2>2, WindowAssumption DEF Cleanup, GateInv, RateTypeOK
    <3>. QED BY <2>2, <3>1, CleanupWindows DEF GateInv
  <2>3. CASE Tick
    BY <2>3, TickKeeps, TickWindows DEF GateInv
  <2>4. CASE UNCHANGED gateVars
    BY <2>4, RateUnchanged DEF gateVars, GateInv
  <2>. QED BY <2>1, <2>2, <2>3, <2>4
<1>. QED BY <1>2, <1>3, SameParsers DEF GateInv

LEMMA GateNext_Inv == GateInv /\ [GateNext]_gateVars => GateInv'
<1> SUFFICES ASSUME GateInv, [GateNext]_gateVars PROVE GateInv'
  OBVIOUS
<1>1. ASSUME NEW r \in Request, HandlerStep(r) PROVE GateInv'
  BY <1>1, WithoutParser, TakeSlotKeeps DEF HandlerStep
<1>2. ASSUME NEW r \in Request, ParserReturns(r) \/ Send(r) PROVE GateInv'
  BY <1>2, ParserGoesOn
<1>3. ASSUME NEW r \in Request, ReleaseSlot(r) PROVE GateInv'
  BY <1>3, ReleaseSlotKeeps
<1>. QED BY <1>1, <1>2, <1>3, LimiterOnly DEF GateNext

LEMMA GateInvariant == GateSpec => []GateInv
BY GateInit_Inv, GateNext_Inv, PTL DEF GateSpec

-----------------------------------------------------------------------------
(* The state of the limiter and of the inspections is well formed: no      *)
(* counter is ever over its limit, and no slot is released twice.          *)
THEOREM GateTypeCorrect == GateSpec => []GateTypeOK
<1>1. GateInv => GateTypeOK
  BY DEF GateInv, InspectTypeOK, GateTypeOK
<1>. QED BY <1>1, GateInvariant, PTL

(* The semaphore of the parsers counts them exactly, also those whose      *)
(* request has long been answered: never more than Slots run.              *)
THEOREM SlotsCorrect == GateSpec => []SlotsAreParsers
<1>1. GateInv => SlotsAreParsers
  BY SlotsAssumption DEF GateInv, InspectTypeOK, SlotsAreParsers, Busy
<1>. QED BY <1>1, GateInvariant, PTL

(* Any closed minute lets at most two limits of requests through, a third  *)
(* only if the cleanup forgot the client while its minute was open.        *)
THEOREM SlidingMinuteCorrect == GateSpec => []SlidingMinute
<1>1. ASSUME GateInv, NEW k \in Key
      PROVE  admitted[k][Minute] <= (IF forgotten[k] <= Minute THEN 3 ELSE 2) * Rpm
  <2> DEFINE c == clients[k]
             A == admitted[k]
             f == forgotten[k]
  <2> SUFFICES A[Minute] <= (IF f <= Minute THEN 3 ELSE 2) * Rpm
    OBVIOUS
  <2>1. /\ Windows(c, A, f) /\ f \in 0..Minute + 1 /\ A[Minute] \in Nat
        /\ c # NoClient => c.minuteCount \in 0..Rpm /\ c.minuteLeft \in -1..Minute
    BY <1>1, WindowAssumption DEF GateInv, WindowInv, RateTypeOK, Spans, ClientRate
  <2> HIDE DEF c, A, f
  <2>2. CASE c = NoClient
    BY <2>1, <2>2, LimitAssumption, WindowAssumption DEF Windows, Unknown
  <2>3. CASE c # NoClient
    <3>1. MinutePart(c.minuteCount, c.minuteLeft, A, f)
      BY <2>1, <2>3 DEF Windows, Known
    <3>. QED BY <2>1, <2>3, <3>1, LimitAssumption, WindowAssumption DEF MinutePart
  <2>. QED BY <2>2, <2>3
<1>2. GateInv => SlidingMinute
  BY <1>1 DEF SlidingMinute
<1>. QED BY <1>2, GateInvariant, PTL

(* Any closed hour lets at most two limits through, whatever the cleanup   *)
(* forgets.                                                                *)
THEOREM SlidingHourCorrect == GateSpec => []SlidingHour
<1>1. ASSUME GateInv, NEW k \in Key PROVE admitted[k][Hour] <= 2 * Rph
  <2> DEFINE c == clients[k]
             A == admitted[k]
             f == forgotten[k]
  <2> SUFFICES A[Hour] <= 2 * Rph
    OBVIOUS
  <2>1. /\ Windows(c, A, f) /\ A[Hour] \in Nat
        /\ c # NoClient => c.hourCount \in 0..Rph /\ c.hourLeft \in -1..Hour
    BY <1>1, WindowAssumption DEF GateInv, WindowInv, RateTypeOK, Spans, ClientRate
  <2> HIDE DEF c, A, f
  <2>2. CASE c = NoClient
    BY <2>1, <2>2, LimitAssumption DEF Windows, Unknown
  <2>3. CASE c # NoClient
    <3>1. HourPart(c.hourCount, c.hourLeft, A, f)
      BY <2>1, <2>3 DEF Windows, Known
    <3>. QED BY <2>1, <2>3, <3>1, LimitAssumption DEF HourPart
  <2>. QED BY <2>2, <2>3
<1>2. GateInv => SlidingHour
  BY <1>1 DEF SlidingHour
<1>. QED BY <1>2, GateInvariant, PTL

(* A client is only refused if a full limit of its requests was let        *)
(* through within the last minute or the last hour.                        *)
THEOREM RefusalCorrect == GateSpec => []RefusedOnlyOverLimit
<1>1. ASSUME GateInv, NEW k \in Key, OverLimit(k)
      PROVE  admitted[k][Minute] >= Rpm \/ admitted[k][Hour] >= Rph
  <2> DEFINE r == Renewed(k)
             A == admitted[k]
             f == forgotten[k]
  <2>1. /\ r \in ClientRate /\ r.minuteLeft \in 0..Minute /\ r.hourLeft \in 0..Hour
        /\ Known(r, A, f) /\ Monotone(A) /\ A \in History
    BY <1>1, RenewedType, RenewedOpen
       DEF GateInv, WindowInv, Windows, RateTypeOK, History
  <2>2. r.minuteCount >= Rpm \/ r.hourCount >= Rph
    BY <1>1 DEF OverLimit
  <2> HIDE DEF r, A, f
  <2>3. /\ Minute - r.minuteLeft \in 0..Hour /\ Minute \in 0..Hour
        /\ Hour - r.hourLeft \in 0..Hour /\ Hour \in 0..Hour
        /\ Minute - r.minuteLeft <= Minute /\ Hour - r.hourLeft <= Hour
    BY <2>1, WindowAssumption
  <2>4. A[Minute - r.minuteLeft] <= A[Minute] /\ A[Hour - r.hourLeft] <= A[Hour]
    BY <2>1, <2>3 DEF Monotone
  <2>5. /\ A[Minute - r.minuteLeft] \in Nat /\ A[Minute] \in Nat
        /\ A[Hour - r.hourLeft] \in Nat /\ A[Hour] \in Nat
    BY <2>1, <2>3 DEF History, Spans
  <2>6. r.minuteCount <= A[Minute - r.minuteLeft] /\ r.hourCount = A[Hour - r.hourLeft]
    BY <2>1 DEF Known, MinutePart, HourPart
  <2>7. r.minuteCount \in Nat /\ r.hourCount \in Nat
    BY <2>1, LimitAssumption DEF ClientRate
  <2>. QED BY <2>2, <2>4, <2>5, <2>6, <2>7, LimitAssumption DEF A
<1>2. GateInv => RefusedOnlyOverLimit
  BY <1>1 DEF RefusedOnlyOverLimit
<1>. QED BY <1>2, GateInvariant, PTL
=============================================================================
