---------------------------- MODULE ListingProofs ----------------------------
(***************************************************************************)
(* The reader of an archive's listing against the limits stated for its    *)
(* entries, for every archive and every value of the limits.  The reader   *)
(* is followed entry by entry, by induction over the number of entries.    *)
(***************************************************************************)
EXTENDS ArchiveListing, SequenceTheorems, FiniteSetTheorems, TLAPS

(* The least-number principle: of the intervals 1..x, one includes no      *)
(* other strictly.                                                         *)
LEMMA LeastNumber ==
  ASSUME NEW S, S \subseteq Nat, S # {}
  PROVE  \E x \in S : \A y \in S : x <= y
<1> DEFINE T == {1..x : x \in S}
<1>1. T \subseteq FiniteSubsetsOf(Nat) /\ T # {}
  <2>1. ASSUME NEW x \in S PROVE 1..x \in SUBSET Nat /\ IsFiniteSet(1..x)
    <3>1. x \in Int /\ 1 \in Int
      OBVIOUS
    <3>. QED BY <3>1, FS_Interval
  <2>. QED BY <2>1 DEF FiniteSubsetsOf
<1>2. PICK m \in T : \A t \in T : <<t, m>> \notin StrictSubsetOrdering(Nat)
  BY <1>1, WFMin, FS_StrictSubsetOrderingWellFounded
<1>3. PICK x \in S : m = 1..x
  BY <1>2
<1>4. ASSUME NEW y \in S, y < x PROVE FALSE
  <2>1. 1..y \subseteq m /\ x \in m /\ x \notin 1..y
    BY <1>3, <1>4
  <2>2. 1..y \in T /\ 1..y \in SUBSET Nat /\ m \in SUBSET Nat
    BY <1>3
  <2>3. <<1..y, m>> \in StrictSubsetOrdering(Nat)
    BY <2>1, <2>2 DEF StrictSubsetOrdering
  <2>. QED BY <1>2, <2>2, <2>3
<1>. QED BY <1>4

(* Induction, for a set of numbers that has 0 and, with a number, the next.*)
LEMMA Induction ==
  ASSUME NEW n \in Nat, NEW P, 0 \in P, \A i \in 0..(n - 1) : i \in P => i + 1 \in P
  PROVE  0..n \subseteq P
<1> DEFINE S == {i \in 0..n : i \notin P}
<1> SUFFICES ASSUME S # {} PROVE FALSE
  OBVIOUS
<1>1. PICK x \in S : \A y \in S : x <= y
  <2>1. S \subseteq Nat
    OBVIOUS
  <2> HIDE DEF S
  <2>. QED BY <2>1, LeastNumber
<1>2. x # 0 /\ x \in 1..n
  BY <1>1
<1>3. x - 1 \in 0..(n - 1) /\ x - 1 \in P
  BY <1>1, <1>2
<1>4. (x - 1) + 1 = x
  BY <1>2
<1>. QED BY <1>1, <1>3, <1>4

(* The equations of the two functions that are defined by recursion.       *)
LEMMA ReadingDef ==
  ASSUME NEW lines, Len(lines) \in Nat
  PROVE  /\ Reading(lines)[0] = Start
         /\ \A n \in 1..Len(lines) :
              Reading(lines)[n] = ReadLine(Reading(lines)[n - 1], lines[n])
<1> DEFINE F(f, m) == f = [n \in 0..m |-> IF n = 0 THEN Start ELSE ReadLine(f[n - 1], lines[n])]
           P == {m \in 0..Len(lines) : \E f : F(f, m)}
<1>1. 0 \in P
  <2> DEFINE f == [n \in 0..0 |-> Start]
             h == [n \in 0..0 |-> IF n = 0 THEN Start ELSE ReadLine(f[n - 1], lines[n])]
  <2>1. \A n \in 0..0 : f[n] = h[n]
    OBVIOUS
  <2>2. f = h
    BY <2>1
  <2>3. F(f, 0)
    <3> HIDE DEF f
    <3>. QED BY <2>2
  <2> HIDE DEF f, h, F
  <2>. QED BY <2>3
<1>2. ASSUME NEW m \in 0..(Len(lines) - 1), m \in P
      PROVE  m + 1 \in P
  <2>1. PICK f : F(f, m)
    BY <1>2
  <2> DEFINE g == [n \in 0..(m + 1) |-> IF n <= m THEN f[n] ELSE ReadLine(f[m], lines[m + 1])]
  <2>2. \A n \in 0..m : f[n] = IF n = 0 THEN Start ELSE ReadLine(f[n - 1], lines[n])
    <3> HIDE DEF g
    <3>. QED BY <2>1
  <2> DEFINE h == [n \in 0..(m + 1) |-> IF n = 0 THEN Start ELSE ReadLine(g[n - 1], lines[n])]
  <2>3. ASSUME NEW n \in 0..(m + 1) PROVE g[n] = h[n]
    <3>1. CASE n = 0
      BY <2>2, <3>1
    <3>2. CASE n \in 1..m
      <4>1. n - 1 \in 0..m /\ n \in 0..m /\ n - 1 \in 0..(m + 1) /\ n - 1 <= m /\ n <= m /\ n # 0
        BY <3>2
      <4>2. g[n - 1] = f[n - 1] /\ g[n] = f[n] /\ h[n] = ReadLine(g[n - 1], lines[n])
        BY <4>1
      <4> HIDE DEF g, h
      <4>. QED BY <2>2, <4>1, <4>2
    <3>3. CASE n = m + 1
      <4>1. n - 1 = m /\ n # 0 /\ m \in 0..(m + 1) /\ ~(n <= m)
        BY <3>3
      <4>2. g[m] = f[m] /\ g[n] = ReadLine(f[m], lines[n]) /\ h[n] = ReadLine(g[n - 1], lines[n])
        BY <3>3, <4>1
      <4> HIDE DEF g, h
      <4>. QED BY <4>1, <4>2
    <3>. QED BY <3>1, <3>2, <3>3
  <2>4. g = h
    BY <2>3
  <2>5. F(g, m + 1)
    <3> HIDE DEF g
    <3>. QED BY <2>4
  <2> HIDE DEF g, h, F
  <2>. QED BY <2>5
<1>3. Len(lines) \in P
  <2> HIDE DEF P
  <2>1. 0..Len(lines) \subseteq P
    BY <1>1, <1>2, Induction
  <2>. QED BY <2>1
<1>4. \E f : F(f, Len(lines))
  BY <1>3
<1>5. F(Reading(lines), Len(lines))
  BY <1>4 DEF Reading
<1> HIDE DEF P
<1>6. Reading(lines) = [n \in 0..Len(lines) |->
        IF n = 0 THEN Start ELSE ReadLine(Reading(lines)[n - 1], lines[n])]
  BY <1>5
<1>. QED BY <1>6

LEMMA SizesDef ==
  ASSUME NEW entries, Len(entries) \in Nat
  PROVE  /\ Sizes(entries)[0] = 0
         /\ \A n \in 1..Len(entries) :
              Sizes(entries)[n] = Sizes(entries)[n - 1] + FileSize(entries[n])
<1> DEFINE F(f, m) == f = [n \in 0..m |-> IF n = 0 THEN 0 ELSE f[n - 1] + FileSize(entries[n])]
           P == {m \in 0..Len(entries) : \E f : F(f, m)}
<1>1. 0 \in P
  <2> DEFINE f == [n \in 0..0 |-> 0]
             h == [n \in 0..0 |-> IF n = 0 THEN 0 ELSE f[n - 1] + FileSize(entries[n])]
  <2>1. \A n \in 0..0 : f[n] = h[n]
    OBVIOUS
  <2>2. f = h
    BY <2>1
  <2>3. F(f, 0)
    <3> HIDE DEF f
    <3>. QED BY <2>2
  <2> HIDE DEF f, h, F
  <2>. QED BY <2>3
<1>2. ASSUME NEW m \in 0..(Len(entries) - 1), m \in P
      PROVE  m + 1 \in P
  <2>1. PICK f : F(f, m)
    BY <1>2
  <2> DEFINE g == [n \in 0..(m + 1) |-> IF n <= m THEN f[n] ELSE f[m] + FileSize(entries[m + 1])]
  <2>2. \A n \in 0..m : f[n] = IF n = 0 THEN 0 ELSE f[n - 1] + FileSize(entries[n])
    <3> HIDE DEF g
    <3>. QED BY <2>1
  <2> DEFINE h == [n \in 0..(m + 1) |-> IF n = 0 THEN 0 ELSE g[n - 1] + FileSize(entries[n])]
  <2>3. ASSUME NEW n \in 0..(m + 1) PROVE g[n] = h[n]
    <3>1. CASE n = 0
      BY <2>2, <3>1
    <3>2. CASE n \in 1..m
      <4>1. n - 1 \in 0..m /\ n \in 0..m /\ n - 1 \in 0..(m + 1) /\ n - 1 <= m /\ n <= m /\ n # 0
        BY <3>2
      <4>2. g[n - 1] = f[n - 1] /\ g[n] = f[n] /\ h[n] = g[n - 1] + FileSize(entries[n])
        BY <4>1
      <4> HIDE DEF g, h
      <4>. QED BY <2>2, <4>1, <4>2
    <3>3. CASE n = m + 1
      <4>1. n - 1 = m /\ n # 0 /\ m \in 0..(m + 1) /\ ~(n <= m)
        BY <3>3
      <4>2. g[m] = f[m] /\ g[n] = f[m] + FileSize(entries[n]) /\ h[n] = g[n - 1] + FileSize(entries[n])
        BY <3>3, <4>1
      <4> HIDE DEF g, h
      <4>. QED BY <4>1, <4>2
    <3>. QED BY <3>1, <3>2, <3>3
  <2>4. g = h
    BY <2>3
  <2>5. F(g, m + 1)
    <3> HIDE DEF g
    <3>. QED BY <2>4
  <2> HIDE DEF g, h, F
  <2>. QED BY <2>5
<1>3. Len(entries) \in P
  <2> HIDE DEF P
  <2>1. 0..Len(entries) \subseteq P
    BY <1>1, <1>2, Induction
  <2>. QED BY <2>1
<1>4. \E f : F(f, Len(entries))
  BY <1>3
<1>5. F(Sizes(entries), Len(entries))
  BY <1>4 DEF Sizes
<1> HIDE DEF P
<1>6. Sizes(entries) = [n \in 0..Len(entries) |->
        IF n = 0 THEN 0 ELSE Sizes(entries)[n - 1] + FileSize(entries[n])]
  BY <1>5
<1>. QED BY <1>6

-----------------------------------------------------------------------------
(* The states of the reader.                                               *)
Current == [path : {"none", "safe", "unsafe"}, size : Int, isDir : BOOLEAN]

ReaderState ==
  [inEntries : BOOLEAN, current : Current, files : Int, total : Int, ok : BOOLEAN]

LEMMA NoEntryIs ==
  /\ NoEntry \in Current
  /\ NoEntry.path = "none" /\ NoEntry.size = -1 /\ ~NoEntry.isDir
BY DEF NoEntry, Current

Reading7z(s) == s \in ReaderState /\ s.ok /\ s.inEntries

SameCounts(r, s) == r.files = s.files /\ r.total = s.total

LEMMA ReadPath ==
  ASSUME NEW s, Reading7z(s), s.current = NoEntry,
         NEW line, line.key = "Path", line.text \in {"safe", "unsafe"}
  PROVE  LET r == ReadLine(s, line) IN
         /\ Reading7z(r) /\ SameCounts(r, s)
         /\ r.current.path = line.text /\ r.current.size = -1 /\ ~r.current.isDir
<1> DEFINE r == [s EXCEPT !.current.path = line.text]
<1>1. ReadLine(s, line) = r
  BY NoEntryIs DEF Reading7z, ReadLine
<1>2. /\ Reading7z(r) /\ SameCounts(r, s)
      /\ r.current.path = line.text /\ r.current.size = s.current.size
      /\ r.current.isDir = s.current.isDir
  BY DEF Reading7z, ReaderState, Current, SameCounts
<1>3. s.current.size = -1 /\ ~s.current.isDir
  BY NoEntryIs
<1> HIDE DEF r
<1>. QED BY <1>1, <1>2, <1>3

LEMMA ReadFolder ==
  ASSUME NEW s, Reading7z(s), NEW line, line.key = "Folder"
  PROVE  LET r == ReadLine(s, line) IN
         /\ Reading7z(r) /\ SameCounts(r, s)
         /\ r.current.path = s.current.path /\ r.current.size = s.current.size
         /\ r.current.isDir <=> line.text = "Plus"
<1> DEFINE r == [s EXCEPT !.current.isDir = (line.text = "Plus")]
<1>1. ReadLine(s, line) = r
  BY DEF Reading7z, ReadLine
<1>2. /\ Reading7z(r) /\ SameCounts(r, s)
      /\ r.current.path = s.current.path /\ r.current.size = s.current.size
      /\ r.current.isDir <=> line.text = "Plus"
  BY DEF Reading7z, ReaderState, Current, SameCounts
<1> HIDE DEF r
<1>. QED BY <1>1, <1>2

LEMMA ReadSize ==
  ASSUME NEW s, Reading7z(s), NEW line, line.key = "Size", line.number \in Int
  PROVE  LET r == ReadLine(s, line) IN
         /\ line.number <= MaxInt64 =>
              /\ Reading7z(r) /\ SameCounts(r, s)
              /\ r.current.path = s.current.path /\ r.current.size = line.number
              /\ r.current.isDir = s.current.isDir
         /\ ~(line.number <= MaxInt64) => ~r.ok
<1> DEFINE r == [s EXCEPT !.current.size = line.number]
           refused == [s EXCEPT !.ok = FALSE]
<1>1. /\ line.number <= MaxInt64 => ReadLine(s, line) = r
      /\ ~(line.number <= MaxInt64) => ReadLine(s, line) = refused
  BY DEF Reading7z, ReadLine
<1>2. /\ Reading7z(r) /\ SameCounts(r, s)
      /\ r.current.path = s.current.path /\ r.current.size = line.number
      /\ r.current.isDir = s.current.isDir
  BY DEF Reading7z, ReaderState, Current, SameCounts
<1>3. ~refused.ok
  BY DEF Reading7z, ReaderState, Current
<1> HIDE DEF r, refused
<1>. QED BY <1>1, <1>2, <1>3

LEMMA ReadNoValue ==
  ASSUME NEW s, Reading7z(s), NEW line, line.key \in {"PathWithoutValue", "SizeWithoutValue"}
  PROVE  ReadLine(s, line) = s
BY DEF Reading7z, ReadLine

LEMMA ReadAttributes ==
  ASSUME NEW s, Reading7z(s), NEW line, line.key = "Attributes"
  PROVE  LET r == ReadLine(s, line) IN
         /\ Reading7z(r) /\ SameCounts(r, s)
         /\ r.current.path = s.current.path /\ r.current.size = s.current.size
         /\ r.current.isDir <=> s.current.isDir \/ line.text = "D"
<1> DEFINE r == [s EXCEPT !.current.isDir = (s.current.isDir \/ line.text = "D")]
<1>1. ReadLine(s, line) = r
  BY DEF Reading7z, ReadLine
<1>2. /\ Reading7z(r) /\ SameCounts(r, s)
      /\ r.current.path = s.current.path /\ r.current.size = s.current.size
      /\ r.current.isDir <=> s.current.isDir \/ line.text = "D"
  BY DEF Reading7z, ReaderState, Current, SameCounts
<1> HIDE DEF r
<1>. QED BY <1>1, <1>2

LEMMA PlusType ==
  ASSUME NEW a \in Int, NEW b \in Int
  PROVE  Plus(a, b) \in Int
BY ListingAssumption DEF Plus

(* The state with new counts, and the same once they were checked.         *)
WithCounts(s, m, n) == [[s EXCEPT !.files = m] EXCEPT !.total = n]

Checked(s, m, n) ==
  [[WithCounts(s, m, n) EXCEPT !.ok = m <= MaxFiles /\ n <= MaxTotal] EXCEPT !.current = NoEntry]

LEMMA SetCounts ==
  ASSUME NEW s \in ReaderState, NEW m \in Int, NEW n \in Int
  PROVE  /\ WithCounts(s, m, n).files = m /\ WithCounts(s, m, n).total = n
         /\ Checked(s, m, n) \in ReaderState /\ Checked(s, m, n).inEntries = s.inEntries
         /\ (Checked(s, m, n).ok <=> m <= MaxFiles /\ n <= MaxTotal)
         /\ Checked(s, m, n).files = m /\ Checked(s, m, n).total = n
         /\ Checked(s, m, n).current = NoEntry
<1> DEFINE f == [s EXCEPT !.files = m]
           c == [f EXCEPT !.total = n]
           g == [c EXCEPT !.ok = m <= MaxFiles /\ n <= MaxTotal]
           r == [g EXCEPT !.current = NoEntry]
<1>0. c = WithCounts(s, m, n) /\ r = Checked(s, m, n)
  BY DEF WithCounts, Checked
<1>1. f \in ReaderState /\ f.inEntries = s.inEntries /\ f.files = m
  BY DEF ReaderState
<1> HIDE DEF f
<1>2. c \in ReaderState /\ c.inEntries = s.inEntries /\ c.files = m /\ c.total = n
  BY <1>1 DEF ReaderState
<1> HIDE DEF c
<1>3. /\ g \in ReaderState /\ g.inEntries = s.inEntries /\ g.files = m /\ g.total = n
      /\ (g.ok <=> m <= MaxFiles /\ n <= MaxTotal)
  BY <1>2 DEF ReaderState
<1> HIDE DEF g
<1>4. /\ r \in ReaderState /\ r.inEntries = s.inEntries /\ (r.ok <=> m <= MaxFiles /\ n <= MaxTotal)
      /\ r.files = m /\ r.total = n /\ r.current = NoEntry
  BY <1>3, NoEntryIs DEF ReaderState
<1> HIDE DEF r
<1>. QED BY <1>0, <1>2, <1>4

(* What an entry that was read adds up to, when it is flushed.             *)
LEMMA FlushRefuses ==
  ASSUME NEW s, NEW c, Reading7z(s), c = s.current, c.path # "none",
         ~SafePath(c.path) \/ (~c.isDir /\ c.size < 0)
  PROVE  Flush(s) = [s EXCEPT !.ok = FALSE]
BY DEF Flush

LEMMA FlushPasses ==
  ASSUME NEW s, NEW c, Reading7z(s), c = s.current, c.path # "none", SafePath(c.path), c.isDir
  PROVE  Flush(s) = [s EXCEPT !.current = NoEntry]
BY DEF Flush

LEMMA FlushCounts ==
  ASSUME NEW s, NEW c, Reading7z(s), c = s.current, c.path # "none", SafePath(c.path), ~c.isDir, ~(c.size < 0)
  PROVE  LET counted == [s EXCEPT !.files = @ + 1, !.total = Plus(@, c.size)] IN
         Flush(s) = [counted EXCEPT !.ok = counted.files <= MaxFiles /\ counted.total <= MaxTotal,
                                    !.current = NoEntry]
BY DEF Flush

LEMMA CurrentIs ==
  ASSUME NEW c \in Current
  PROVE  c.size \in Int
BY DEF Current

LEMMA ReadBlank ==
  ASSUME NEW s, NEW c, Reading7z(s), c = s.current, c.path # "none", NEW line, line.key = "Blank"
  PROVE  LET r == ReadLine(s, line)
             fine == SafePath(c.path) /\ (c.isDir \/ c.size >= 0)
             sum == Plus(s.total, c.size)
         IN /\ ~fine => ~r.ok
            /\ fine /\ c.isDir => Reading7z(r) /\ SameCounts(r, s) /\ r.current = NoEntry
            /\ fine /\ ~c.isDir =>
                 IF s.files + 1 <= MaxFiles /\ sum <= MaxTotal
                 THEN Reading7z(r) /\ r.files = s.files + 1 /\ r.total = sum /\ r.current = NoEntry
                 ELSE ~r.ok
<1> DEFINE fine == SafePath(c.path) /\ (c.isDir \/ c.size >= 0)
           sum == Plus(s.total, c.size)
           within == s.files + 1 <= MaxFiles /\ sum <= MaxTotal
<1>0. PICK r : r = ReadLine(s, line)
  OBVIOUS
<1>1. r = Flush(s)
  BY <1>0 DEF Reading7z, ReadLine
<1>2. s \in ReaderState /\ s.ok /\ s.inEntries
  BY DEF Reading7z
<1>a. s.files \in Int /\ s.total \in Int
  BY <1>2 DEF ReaderState
<1>b. c.size \in Int
  <2>1. c \in Current
    BY <1>2 DEF ReaderState
  <2>. QED BY <2>1, CurrentIs
<1>3. sum \in Int /\ s.files + 1 \in Int
  <2>1. PICK a \in Int, b \in Int : a = s.total /\ b = c.size
    BY <1>a, <1>b
  <2>2. Plus(a, b) \in Int
    BY PlusType
  <2>. QED BY <1>a, <2>1, <2>2
<1>4. ASSUME ~fine PROVE ~r.ok
  <2>1. ~SafePath(c.path) \/ (~c.isDir /\ c.size < 0)
    BY <1>4, <1>b
  <2>2. r = [s EXCEPT !.ok = FALSE]
    BY <1>1, <2>1, FlushRefuses
  <2>. QED BY <1>2, <2>2 DEF ReaderState
<1>5. ASSUME fine, c.isDir
      PROVE  Reading7z(r) /\ SameCounts(r, s) /\ r.current = NoEntry
  <2>1. r = [s EXCEPT !.current = NoEntry]
    BY <1>1, <1>5, FlushPasses
  <2>. QED BY <1>2, <2>1, NoEntryIs DEF Reading7z, ReaderState, SameCounts
<1>6. ASSUME fine, ~c.isDir
      PROVE  IF within
             THEN Reading7z(r) /\ r.files = s.files + 1 /\ r.total = sum /\ r.current = NoEntry
             ELSE ~r.ok
  <2> DEFINE counted == [s EXCEPT !.files = @ + 1, !.total = Plus(@, c.size)]
  <2>1. ~(c.size < 0)
    BY <1>6, <1>b
  <2>2. r = [counted EXCEPT !.ok = counted.files <= MaxFiles /\ counted.total <= MaxTotal,
                            !.current = NoEntry]
    BY <1>1, <1>6, <2>1, FlushCounts
  <2>3. PICK m \in Int, n \in Int : m = s.files + 1 /\ n = sum
    BY <1>3
  <2>4. counted = WithCounts(s, m, n)
    BY <1>2, <2>3 DEF ReaderState, WithCounts
  <2>5. /\ WithCounts(s, m, n).files = m /\ WithCounts(s, m, n).total = n
        /\ Checked(s, m, n) \in ReaderState /\ Checked(s, m, n).inEntries = s.inEntries
        /\ (Checked(s, m, n).ok <=> m <= MaxFiles /\ n <= MaxTotal)
        /\ Checked(s, m, n).files = m /\ Checked(s, m, n).total = n
        /\ Checked(s, m, n).current = NoEntry
    <3>1. s \in ReaderState
      BY <1>2
    <3>. QED BY ONLY <3>1, SetCounts, m \in Int, n \in Int
  <2> HIDE DEF counted, sum, fine
  <2>6. r = Checked(s, m, n)
    BY <2>2, <2>4, <2>5 DEF Checked
  <2>7. within <=> m <= MaxFiles /\ n <= MaxTotal
    BY <2>3
  <2> HIDE DEF within
  <2>. QED BY <1>2, <2>3, <2>5, <2>6, <2>7 DEF Reading7z
<1>. QED BY <1>0, <1>4, <1>5, <1>6

(* The blank line after an entry of which no Path was read: it is dropped. *)
LEMMA ReadBlankUnnamed ==
  ASSUME NEW s, Reading7z(s), s.current.path = "none", NEW line, line.key = "Blank"
  PROVE  LET r == ReadLine(s, line) IN
         Reading7z(r) /\ SameCounts(r, s) /\ r.current = NoEntry
<1> DEFINE r == [s EXCEPT !.current = NoEntry]
<1>1. ReadLine(s, line) = r
  BY DEF Reading7z, ReadLine, Flush
<1>2. Reading7z(r) /\ SameCounts(r, s) /\ r.current = NoEntry
  BY NoEntryIs DEF Reading7z, ReaderState, SameCounts
<1> HIDE DEF r
<1>. QED BY <1>1, <1>2

(* The reader between two entries.                                         *)
Between(s, files, total) ==
  Reading7z(s) /\ s.current = NoEntry /\ s.files = files /\ s.total = total

(* An entry that is not refused for what it is.                            *)
Fine(e) == SafePath(e.path) /\ e.size <= MaxInt64 /\ (NamedFile(e) => e.size >= 0)

(* The five lines of an entry are read one after the other.                *)
ReadEntry(s, e, t) ==
  /\ s[1] = ReadLine(t, PrintEntry(e)[1])
  /\ s[2] = ReadLine(s[1], PrintEntry(e)[2])
  /\ s[3] = ReadLine(s[2], PrintEntry(e)[3])
  /\ s[4] = ReadLine(s[3], PrintEntry(e)[4])
  /\ s[5] = ReadLine(s[4], PrintEntry(e)[5])

LEMMA RefusedStays ==
  ASSUME NEW s, NEW t, NEW e, ReadEntry(s, e, t), ~t.ok
  PROVE  s[5] = t
<1>1. s[1] = t
  BY DEF ReadEntry, ReadLine
<1>2. s[2] = t
  BY <1>1 DEF ReadEntry, ReadLine
<1>3. s[3] = t
  BY <1>2 DEF ReadEntry, ReadLine
<1>4. s[4] = t
  BY <1>3 DEF ReadEntry, ReadLine
<1>5. s[5] = t
  BY <1>4 DEF ReadEntry, ReadLine
<1>. QED BY <1>5

LEMMA LinesOf ==
  ASSUME NEW entries \in Seq(Entry)
  PROVE  LET lines == Print7z(entries) IN
         /\ Len(lines) = 3 + 5 * Len(entries)
         /\ lines[1] = Text("Path", "Archive") /\ lines[2] = Text("Blank", "None")
         /\ lines[3] = Text("Separator", "None")
         /\ \A i \in 0..(Len(entries) - 1), k \in 1..5 :
              lines[3 + 5 * i + k] = PrintEntry(entries[i + 1])[k]
<1> DEFINE lines == Print7z(entries)
           n == Len(entries)
           Line(m) == IF m <= 3 THEN Heading[m]
                      ELSE PrintEntry(entries[((m - 4) \div 5) + 1])[((m - 4) % 5) + 1]
           T == {Line(m) : m \in 1..(3 + 5 * n)}
<1>1. n \in Nat /\ 3 + 5 * n \in Nat
  BY LenProperties
<1>2. lines = [m \in 1..(3 + 5 * n) |-> Line(m)]
  BY DEF Print7z
<1> HIDE DEF Line, lines
<1>3. lines \in [1..(3 + 5 * n) -> T]
  BY <1>2
<1> HIDE DEF T
<1>4. Len(lines) = 3 + 5 * n
  BY <1>1, <1>3
<1>5. lines[1] = Heading[1] /\ lines[2] = Heading[2] /\ lines[3] = Heading[3]
  <2>1. \A m \in 1..3 : lines[m] = Line(m) /\ Line(m) = Heading[m]
    <3>1. \A m \in 1..3 : m \in 1..(3 + 5 * n) /\ m <= 3
      BY <1>1
    <3>. QED BY <1>2, <3>1 DEF Line
  <2>. QED BY <2>1
<1>6. ASSUME NEW i \in 0..(n - 1), NEW k \in 1..5
      PROVE  lines[3 + 5 * i + k] = PrintEntry(entries[i + 1])[k]
  <2> DEFINE m == 3 + 5 * i + k
  <2>1. m \in 1..(3 + 5 * n) /\ ~(m <= 3)
    BY <1>1
  <2>2. (m - 4) \div 5 = i /\ (m - 4) % 5 = k - 1
    <3>1. m - 4 = 5 * i + (k - 1) /\ i \in Nat /\ k - 1 \in 0..4
      BY <1>1
    <3>. QED BY <3>1
  <2>3. (k - 1) + 1 = k
    OBVIOUS
  <2> HIDE DEF m
  <2>4. lines[m] = PrintEntry(entries[i + 1])[k]
    BY <1>2, <2>1, <2>2, <2>3 DEF Line
  <2>. QED BY <2>4 DEF m
<1>7. /\ Heading[1] = Text("Path", "Archive") /\ Heading[2] = Text("Blank", "None")
      /\ Heading[3] = Text("Separator", "None")
  BY DEF Heading
<1>8. \A i \in 0..(n - 1), k \in 1..5 : lines[3 + 5 * i + k] = PrintEntry(entries[i + 1])[k]
  BY <1>6
<1> SUFFICES /\ Len(lines) = 3 + 5 * n
             /\ lines[1] = Text("Path", "Archive") /\ lines[2] = Text("Blank", "None")
             /\ lines[3] = Text("Separator", "None")
             /\ \A i \in 0..(n - 1), k \in 1..5 :
                  lines[3 + 5 * i + k] = PrintEntry(entries[i + 1])[k]
  BY DEF lines
<1> HIDE DEF n
<1>. QED BY <1>4, <1>5, <1>7, <1>8

(* The entry is refused, passed over, or counted against the limits.       *)
LEMMA EntryRead ==
  ASSUME NEW files, NEW total, NEW e \in Entry, NEW s, NEW t,
         ReadEntry(s, e, t), Between(t, files, total)
  PROVE  /\ ~Fine(e) => ~s[5].ok
         /\ Fine(e) /\ ~NamedFile(e) => Between(s[5], files, total)
         /\ Fine(e) /\ NamedFile(e) =>
              IF files + 1 <= MaxFiles /\ Plus(total, e.size) <= MaxTotal
              THEN Between(s[5], files + 1, Plus(total, e.size))
              ELSE ~s[5].ok
<1> DEFINE Counts(r) == Reading7z(r) /\ r.files = files /\ r.total = total
           p == IF e.path = "blank" THEN "none" ELSE e.path
<1>0. /\ e.path \in {"safe", "unsafe", "blank"} /\ e.size \in Nat \cup {-1}
      /\ e.folder \in {"no", "Folder", "Attributes"}
  BY DEF Entry
<1>p. PICK l : l = PrintEntry(e)
  OBVIOUS
<1>a. ASSUME e.path # "blank" PROVE l[1].key = "Path" /\ l[1].text = e.path
  BY <1>p, <1>a DEF PrintEntry, Text
<1>n. ASSUME e.path = "blank" PROVE l[1].key = "PathWithoutValue"
  BY <1>p, <1>n DEF PrintEntry, Text
<1>b. l[2].key = "Folder" /\ (l[2].text = "Plus" <=> e.folder = "Folder")
  BY <1>p DEF PrintEntry, Text
<1>c. ASSUME e.size >= 0 PROVE l[3].key = "Size" /\ l[3].number = e.size
  BY <1>p, <1>c DEF PrintEntry, Number
<1>d. ASSUME ~(e.size >= 0) PROVE l[3].key = "SizeWithoutValue"
  BY <1>p, <1>d DEF PrintEntry, Text
<1>e. l[4].key = "Attributes" /\ (l[4].text = "D" <=> e.folder = "Attributes")
  BY <1>p DEF PrintEntry, Text
<1>f. l[5].key = "Blank"
  BY <1>p DEF PrintEntry, Text
<1>2. /\ s[1] = ReadLine(t, l[1]) /\ s[2] = ReadLine(s[1], l[2])
      /\ s[3] = ReadLine(s[2], l[3]) /\ s[4] = ReadLine(s[3], l[4]) /\ s[5] = ReadLine(s[4], l[5])
  BY <1>p DEF ReadEntry
<1>3. Counts(s[1]) /\ s[1].current.path = p /\ s[1].current.size = -1
  <2>1. t.current = NoEntry /\ Reading7z(t) /\ t.files = files /\ t.total = total
    BY DEF Between
  <2>2. CASE e.path # "blank"
    <3>1. l[1].key = "Path" /\ l[1].text = e.path /\ l[1].text \in {"safe", "unsafe"}
      BY <1>0, <1>a, <2>2
    <3>2. /\ Reading7z(s[1]) /\ SameCounts(s[1], t)
          /\ s[1].current.path = l[1].text /\ s[1].current.size = -1 /\ ~s[1].current.isDir
      BY <1>2, <2>1, <3>1, ReadPath
    <3>. QED BY <2>1, <2>2, <3>1, <3>2 DEF SameCounts
  <2>3. CASE e.path = "blank"
    <3>1. s[1] = t
      BY <1>2, <1>n, <2>1, <2>3, ReadNoValue
    <3>. QED BY <2>1, <2>3, <3>1, NoEntryIs
  <2>. QED BY <2>2, <2>3
<1> HIDE DEF p
<1>4. /\ Counts(s[2]) /\ s[2].current.path = p /\ s[2].current.size = -1
      /\ s[2].current.isDir <=> e.folder = "Folder"
  <2>1. /\ Reading7z(s[2]) /\ SameCounts(s[2], s[1])
        /\ s[2].current.path = s[1].current.path /\ s[2].current.size = s[1].current.size
        /\ s[2].current.isDir <=> l[2].text = "Plus"
    BY <1>2, <1>3, <1>b, ReadFolder
  <2>. QED BY <1>3, <1>b, <2>1 DEF SameCounts
<1>5. /\ e.size <= MaxInt64 =>
           /\ Counts(s[3]) /\ s[3].current.path = p /\ s[3].current.size = e.size
           /\ s[3].current.isDir <=> e.folder = "Folder"
      /\ ~(e.size <= MaxInt64) => ~s[3].ok
  <2>1. CASE e.size >= 0
    <3>0. l[3].number = e.size /\ l[3].key = "Size"
      BY <1>c, <2>1
    <3>1. e.size \in Int
      BY <1>0
    <3>2. /\ e.size <= MaxInt64 =>
               /\ Reading7z(s[3]) /\ SameCounts(s[3], s[2])
               /\ s[3].current.path = s[2].current.path /\ s[3].current.size = e.size
               /\ s[3].current.isDir = s[2].current.isDir
          /\ ~(e.size <= MaxInt64) => ~s[3].ok
      BY <1>2, <1>4, <3>0, <3>1, ReadSize
    <3>. QED BY <1>4, <3>2 DEF SameCounts
  <2>2. CASE ~(e.size >= 0)
    <3>1. s[3] = s[2]
      BY <1>2, <1>4, <1>d, <2>2, ReadNoValue
    <3>2. e.size = -1 /\ e.size <= MaxInt64
      BY <1>0, <2>2, ListingAssumption
    <3>. QED BY <1>4, <3>1, <3>2
  <2>. QED BY <2>1, <2>2
<1>6. ~s[3].ok => ~s[5].ok
  <2>1. ~s[3].ok => s[4] = s[3]
    BY <1>2 DEF ReadLine
  <2>2. ~s[4].ok => s[5] = s[4]
    BY <1>2 DEF ReadLine
  <2>. QED BY <2>1, <2>2
<1>7. CASE e.size <= MaxInt64
  <2>1. /\ Counts(s[4]) /\ s[4].current.path = p /\ s[4].current.size = e.size
        /\ s[4].current.isDir <=> e.folder # "no"
    <3>1. /\ Reading7z(s[4]) /\ SameCounts(s[4], s[3])
          /\ s[4].current.path = s[3].current.path /\ s[4].current.size = s[3].current.size
          /\ s[4].current.isDir <=> s[3].current.isDir \/ l[4].text = "D"
      BY <1>2, <1>5, <1>7, <1>e, ReadAttributes
    <3>. QED BY <1>0, <1>5, <1>e, <1>7, <3>1 DEF SameCounts
  <2> DEFINE r == s[5]
             fine == SafePath(e.path) /\ (s[4].current.isDir \/ e.size >= 0)
             sum == Plus(total, e.size)
  <2>2. CASE e.path = "blank"
    <3>1. s[4].current.path = "none" /\ Reading7z(s[4])
      BY <2>1, <2>2 DEF p
    <3>2. Reading7z(s[5]) /\ SameCounts(s[5], s[4]) /\ s[5].current = NoEntry
      BY <1>2, <1>f, <3>1, ReadBlankUnnamed
    <3>3. Fine(e) /\ ~NamedFile(e)
      BY <1>7, <2>2 DEF Fine, NamedFile, SafePath
    <3>. QED BY <2>1, <3>2, <3>3 DEF Between, SameCounts
  <2>3. CASE e.path # "blank"
    <3>1. p = e.path /\ s[4].current.path # "none"
      BY <1>0, <2>1, <2>3 DEF p
    <3>2. /\ ~fine => ~r.ok
          /\ fine /\ s[4].current.isDir =>
               Reading7z(r) /\ SameCounts(r, s[4]) /\ r.current = NoEntry
          /\ fine /\ ~s[4].current.isDir =>
               IF files + 1 <= MaxFiles /\ sum <= MaxTotal
               THEN Reading7z(r) /\ r.files = files + 1 /\ r.total = sum /\ r.current = NoEntry
               ELSE ~r.ok
      <4>1. /\ Reading7z(s[4]) /\ s[4].files = files /\ s[4].total = total
            /\ s[4].current.path = e.path /\ s[4].current.size = e.size
        BY <2>1, <3>1
      <4> HIDE DEF Counts
      <4>. QED BY <1>2, <1>f, <3>1, <4>1, ReadBlank
    <3>3. (fine <=> Fine(e)) /\ (s[4].current.isDir <=> ~NamedFile(e))
      BY <1>0, <1>7, <2>1, <2>3 DEF Fine, NamedFile
    <3> HIDE DEF fine, sum
    <3>4. /\ ~Fine(e) => ~r.ok
          /\ Fine(e) /\ ~NamedFile(e) => Between(r, files, total)
          /\ Fine(e) /\ NamedFile(e) =>
               IF files + 1 <= MaxFiles /\ sum <= MaxTotal
               THEN Between(r, files + 1, sum)
               ELSE ~r.ok
      BY <2>1, <3>2, <3>3 DEF Between, SameCounts
    <3>. QED BY <3>4 DEF sum
  <2>. QED BY <2>2, <2>3
<1>8. CASE ~(e.size <= MaxInt64)
  BY <1>5, <1>6, <1>8 DEF Fine
<1>. QED BY <1>7, <1>8

-----------------------------------------------------------------------------
(* The state between two entries, when i of them have been read, and what  *)
(* these i entries are: how many files, of what size together.             *)
After(entries, i) == Reading(Print7z(entries))[3 + 5 * i]

FilesUpTo(entries, i) == {j \in 1..i : NamedFile(entries[j])}

Count(entries, i) == Cardinality(FilesUpTo(entries, i))

AllFine(entries, i) == \A j \in 1..i : Fine(entries[j])

LEMMA CountsDef ==
  ASSUME NEW entries, NEW i \in Nat
  PROVE  /\ Count(entries, 0) = 0 /\ Count(entries, i) \in Nat
         /\ NamedFile(entries[i + 1]) => Count(entries, i + 1) = Count(entries, i) + 1
         /\ ~NamedFile(entries[i + 1]) => Count(entries, i + 1) = Count(entries, i)
<1>1. FilesUpTo(entries, 0) = {}
  BY DEF FilesUpTo
<1>2. IsFiniteSet(FilesUpTo(entries, i))
  <2>1. IsFiniteSet(1..i)
    BY FS_Interval
  <2>2. FilesUpTo(entries, i) \subseteq 1..i
    BY DEF FilesUpTo
  <2>. QED BY <2>1, <2>2, FS_Subset
<1>3. i + 1 \notin FilesUpTo(entries, i)
  BY DEF FilesUpTo
<1>4. NamedFile(entries[i + 1]) => FilesUpTo(entries, i + 1) = FilesUpTo(entries, i) \cup {i + 1}
  BY DEF FilesUpTo
<1>5. ~NamedFile(entries[i + 1]) => FilesUpTo(entries, i + 1) = FilesUpTo(entries, i)
  BY DEF FilesUpTo
<1>6. /\ Cardinality(FilesUpTo(entries, i)) \in Nat
      /\ Cardinality(FilesUpTo(entries, i) \cup {i + 1}) = Cardinality(FilesUpTo(entries, i)) + 1
  BY <1>2, <1>3, FS_CardinalityType, FS_AddElement
<1>. QED BY <1>1, <1>4, <1>5, <1>6, FS_EmptySet DEF Count

LEMMA SizesType ==
  ASSUME NEW entries \in Seq(Entry)
  PROVE  \A i \in 0..Len(entries) : Sizes(entries)[i] \in Nat
<1> DEFINE P == {i \in 0..Len(entries) : Sizes(entries)[i] \in Nat}
           n == Len(entries)
<1>1. n \in Nat /\ \A i \in 1..n : entries[i] \in Entry
  BY LenProperties, ElementOfSeq
<1>2. \A i \in 1..n : FileSize(entries[i]) \in Nat
  BY <1>1 DEF FileSize, Entry
<1>3. 0 \in P
  BY <1>1, SizesDef
<1>4. ASSUME NEW i \in 0..(n - 1), i \in P PROVE i + 1 \in P
  <2>1. i + 1 \in 1..n /\ (i + 1) - 1 = i /\ i + 1 \in 0..n
    BY <1>1
  <2>2. Sizes(entries)[i + 1] = Sizes(entries)[i] + FileSize(entries[i + 1])
    BY <1>1, <2>1, SizesDef
  <2>. QED BY <1>2, <1>4, <2>1, <2>2
<1>5. 0..n \subseteq P
  <2> HIDE DEF P, n
  <2>. QED BY <1>1, <1>3, <1>4, Induction
<1>. QED BY <1>5

LEMMA HeadingRead ==
  ASSUME NEW entries \in Seq(Entry)
  PROVE  Between(After(entries, 0), 0, 0)
<1> DEFINE lines == Print7z(entries)
           s == Reading(lines)
<1>1. /\ Len(lines) \in Nat /\ 3 <= Len(lines)
      /\ lines[1] = Text("Path", "Archive") /\ lines[2] = Text("Blank", "None")
      /\ lines[3] = Text("Separator", "None")
  <2>1. Len(entries) \in Nat
    BY LenProperties
  <2> HIDE DEF lines
  <2>2. Len(lines) = 3 + 5 * Len(entries)
    BY LinesOf DEF lines
  <2>. QED BY <2>1, <2>2, LinesOf DEF lines
<1> HIDE DEF lines
<1>2. /\ s[0] = Start /\ s[1] = ReadLine(s[0], lines[1]) /\ s[2] = ReadLine(s[1], lines[2])
      /\ s[3] = ReadLine(s[2], lines[3])
  <2>1. /\ s[0] = Start
        /\ \A n \in 1..Len(lines) : s[n] = ReadLine(s[n - 1], lines[n])
    BY <1>1, ReadingDef
  <2>2. 1 \in 1..Len(lines) /\ 2 \in 1..Len(lines) /\ 3 \in 1..Len(lines)
    BY <1>1
  <2>3. 1 - 1 = 0 /\ 2 - 1 = 1 /\ 3 - 1 = 2
    OBVIOUS
  <2> HIDE DEF s
  <2>. QED BY <2>1, <2>2, <2>3
<1>3. /\ Start \in ReaderState /\ Start.ok /\ ~Start.inEntries
      /\ Start.files = 0 /\ Start.total = 0
  BY NoEntryIs DEF Start, ReaderState
<1>4. s[1] = Start
  <2>1. lines[1].key = "Path"
    BY <1>1 DEF Text
  <2> HIDE DEF s
  <2>. QED BY <1>2, <1>3, <2>1 DEF ReadLine
<1>5. s[2] = Start
  <2>1. lines[2].key = "Blank"
    BY <1>1 DEF Text
  <2> HIDE DEF s
  <2>. QED BY <1>2, <1>3, <1>4, <2>1 DEF ReadLine
<1>6. s[3] = [Start EXCEPT !.inEntries = TRUE, !.current = NoEntry]
  <2>1. lines[3].key = "Separator"
    BY <1>1 DEF Text
  <2> HIDE DEF s
  <2>. QED BY <1>2, <1>3, <1>5, <2>1 DEF ReadLine
<1>7. Between(s[3], 0, 0)
  <2> HIDE DEF s
  <2>. QED BY <1>3, <1>6, NoEntryIs DEF Between, Reading7z, ReaderState
<1>8. 3 + 5 * 0 = 3
  OBVIOUS
<1>. QED BY <1>7, <1>8 DEF After, lines

(* The next entry is read.                                                 *)
LEMMA NextEntry ==
  ASSUME NEW entries \in Seq(Entry), NEW i \in 0..(Len(entries) - 1)
  PROVE  \E s : ReadEntry(s, entries[i + 1], After(entries, i)) /\ s[5] = After(entries, i + 1)
<1> DEFINE lines == Print7z(entries)
           n == Len(entries)
           r == Reading(lines)
           s == [k \in 1..5 |-> r[3 + 5 * i + k]]
           b == 3 + 5 * i
           e == entries[i + 1]
<1>1. n \in Nat /\ i \in Nat /\ i + 1 <= n
  BY LenProperties
<1>2. Len(lines) = 3 + 5 * n /\ \A k \in 1..5 : lines[b + k] = PrintEntry(e)[k]
  BY LinesOf
<1> HIDE DEF lines, e
<1>3. \A k \in 1..5 : r[b + k] = ReadLine(r[b + k - 1], PrintEntry(e)[k])
  <2>0. Len(lines) \in Nat
    BY <1>1, <1>2
  <2>1. \A m \in 1..Len(lines) : r[m] = ReadLine(r[m - 1], lines[m])
    BY <2>0, ReadingDef
  <2> SUFFICES ASSUME NEW k \in 1..5
               PROVE  r[b + k] = ReadLine(r[b + k - 1], PrintEntry(e)[k])
    OBVIOUS
  <2>2. b + k \in 1..(3 + 5 * n)
    BY <1>1
  <2>3. PICK m \in 1..Len(lines) : m = b + k
    <3> HIDE DEF b
    <3>1. b + k \in 1..Len(lines)
      BY <1>2, <2>2
    <3>. QED BY <3>1
  <2>6. m - 1 = b + k - 1
    BY <1>1, <2>3
  <2>4. r[m] = ReadLine(r[m - 1], lines[m])
    BY <2>1
  <2>5. lines[m] = PrintEntry(e)[k]
    BY <1>2, <2>3
  <2> HIDE DEF b, r, n
  <2>. QED BY <2>3, <2>4, <2>5, <2>6
<1>4. b + 1 - 1 = b /\ b + 2 - 1 = b + 1 /\ b + 3 - 1 = b + 2 /\ b + 4 - 1 = b + 3 /\ b + 5 - 1 = b + 4
  BY <1>1
<1>5. /\ s[1] = r[b + 1] /\ s[2] = r[b + 2] /\ s[3] = r[b + 3] /\ s[4] = r[b + 4] /\ s[5] = r[b + 5]
  <2> HIDE DEF r
  <2>. QED OBVIOUS
<1>6. r[b] = After(entries, i)
  BY DEF After, lines
<1>7. r[b + 5] = After(entries, i + 1)
  <2>1. b + 5 = 3 + 5 * (i + 1)
    BY <1>1
  <2>. QED BY <2>1 DEF After, lines
<1> HIDE DEF s, r, b
<1>8. ReadEntry(s, e, After(entries, i))
  BY <1>3, <1>4, <1>5, <1>6 DEF ReadEntry
<1>. QED BY <1>5, <1>7, <1>8 DEF e

(* After i entries: a listing that was not refused so far keeps to the     *)
(* limits so far, and its sum is the true one unless that is beyond int64; *)
(* a listing that keeps to the limits so far was not refused.              *)
Sound(entries, i) ==
  After(entries, i).ok =>
    /\ AllFine(entries, i) /\ Count(entries, i) <= MaxFiles
    /\ \E w \in Int : /\ w <= MaxTotal /\ Between(After(entries, i), Count(entries, i), w)
                      /\ Sizes(entries)[i] <= MaxInt64 => w = Sizes(entries)[i]

Complete(entries, i) ==
  AllFine(entries, i) /\ Count(entries, i) <= MaxFiles /\ Sizes(entries)[i] <= MaxTotal
    => After(entries, i).ok

LEMMA ListingNext ==
  ASSUME NEW entries \in Seq(Entry), NEW i \in 0..(Len(entries) - 1),
         Sound(entries, i), Complete(entries, i)
  PROVE  Sound(entries, i + 1) /\ Complete(entries, i + 1)
<1> DEFINE e == entries[i + 1]
           old == Count(entries, i)
           new == Count(entries, i + 1)
           sum == Sizes(entries)[i]
           sum1 == Sizes(entries)[i + 1]
           before == After(entries, i)
           after == After(entries, i + 1)
<1>1. /\ i \in Nat /\ i + 1 \in 1..Len(entries) /\ (i + 1) - 1 = i /\ Len(entries) \in Nat
      /\ i \in 0..Len(entries)
  BY LenProperties
<1>2. e \in Entry
  BY <1>1, ElementOfSeq
<1>3. /\ old \in Nat
      /\ NamedFile(e) => new = old + 1
      /\ ~NamedFile(e) => new = old
  BY <1>1, CountsDef
<1>4. /\ sum \in Nat /\ sum1 = sum + FileSize(e)
      /\ e.size \in Int
      /\ NamedFile(e) /\ e.size >= 0 => sum1 = sum + e.size
      /\ ~NamedFile(e) => sum1 = sum
      /\ sum <= sum1 /\ sum1 \in Nat
  <2>1. sum \in Nat
    BY <1>1, SizesType
  <2>2. sum1 = sum + FileSize(e)
    BY <1>1, SizesDef
  <2>3. /\ e.size \in Int
        /\ NamedFile(e) /\ e.size >= 0 => FileSize(e) = e.size
        /\ ~NamedFile(e) => FileSize(e) = 0
        /\ FileSize(e) \in Nat
    BY <1>2 DEF Entry, FileSize
  <2> HIDE DEF e, sum, sum1
  <2>. QED BY <2>1, <2>2, <2>3
<1>5. AllFine(entries, i + 1) <=> AllFine(entries, i) /\ Fine(e)
  BY <1>1 DEF AllFine
<1>6. MaxTotal <= MaxInt64 /\ MaxTotal \in Int /\ MaxInt64 \in Int /\ MaxFiles \in Int
  BY ListingAssumption
<1>7. PICK s : ReadEntry(s, e, before) /\ s[5] = after
  BY NextEntry
<1>8. CASE ~before.ok
  <2>1. ~after.ok
    BY <1>7, <1>8, RefusedStays
  <2>2. AllFine(entries, i + 1) /\ new <= MaxFiles /\ sum1 <= MaxTotal => after.ok
    <3>1. new <= MaxFiles => old <= MaxFiles
      BY <1>3, <1>6
    <3>2. sum1 <= MaxTotal => sum <= MaxTotal
      BY <1>4, <1>6
    <3> HIDE DEF e, old, new, sum, sum1, before, after
    <3>3. ~(AllFine(entries, i) /\ old <= MaxFiles /\ sum <= MaxTotal)
      BY <1>8 DEF Complete, old, sum, before
    <3>. QED BY <1>5, <3>1, <3>2, <3>3
  <2>. QED BY <2>1, <2>2 DEF Sound, Complete
<1>9. CASE before.ok
  <2>1. PICK w \in Int : /\ w <= MaxTotal /\ Between(before, old, w)
                         /\ sum <= MaxInt64 => w = sum
    BY <1>9 DEF Sound
  <2>2. AllFine(entries, i) /\ old <= MaxFiles
    BY <1>9 DEF Sound
  <2> DEFINE sumRead == Plus(w, e.size)
  <2>3. /\ ~Fine(e) => ~after.ok
        /\ Fine(e) /\ ~NamedFile(e) => Between(after, old, w)
        /\ Fine(e) /\ NamedFile(e) =>
             IF old + 1 <= MaxFiles /\ sumRead <= MaxTotal
             THEN Between(after, old + 1, sumRead)
             ELSE ~after.ok
    <3> HIDE DEF e, old, before, after
    <3>. QED BY <1>2, <1>7, <2>1, EntryRead
  <2>4. /\ sumRead \in Int
        /\ w + e.size <= MaxInt64 => sumRead = w + e.size
    <3>1. PICK a \in Int : a = e.size
      BY <1>4
    <3>2. Plus(w, a) \in Int
      BY PlusType
    <3>3. w + a <= MaxInt64 => Plus(w, a) = w + a
      BY DEF Plus
    <3>. QED BY <3>1, <3>2, <3>3
  <2>5. \A r, m, n : Between(r, m, n) => r.ok
    BY DEF Between, Reading7z
  <2> HIDE DEF e, old, new, sum, sum1, before, after, sumRead
  <2>6. CASE ~Fine(e)
    BY <1>5, <2>3, <2>6 DEF Sound, Complete, after
  <2>7. CASE Fine(e) /\ ~NamedFile(e)
    <3>1. /\ AllFine(entries, i + 1) /\ new <= MaxFiles /\ after.ok /\ Between(after, new, w)
          /\ sum1 <= MaxInt64 => w = sum1
      BY <1>3, <1>4, <1>5, <2>1, <2>2, <2>3, <2>5, <2>7
    <3>. QED BY <2>1, <3>1 DEF Sound, Complete, after, new, sum1
  <2>8. CASE Fine(e) /\ NamedFile(e)
    <3>0. e.size >= 0 /\ sum1 = sum + e.size /\ new = old + 1
      BY <1>3, <1>4, <2>8 DEF Fine
    <3>1. sum1 <= MaxInt64 => sumRead = sum1
      <4>1. sum1 <= MaxInt64 => sum <= MaxInt64
        BY <1>4, <1>6, <3>0
      <4>. QED BY <2>1, <2>4, <3>0, <4>1
    <3>2. after.ok => new <= MaxFiles /\ sumRead <= MaxTotal /\ Between(after, new, sumRead)
      BY <2>3, <2>8, <3>0
    <3>3. new <= MaxFiles /\ sum1 <= MaxTotal => after.ok
      <4>1. sum1 <= MaxTotal => sum1 <= MaxInt64
        BY <1>4, <1>6, <3>0
      <4>2. sum1 <= MaxTotal => sumRead <= MaxTotal
        BY <3>1, <4>1
      <4>. QED BY <2>3, <2>5, <2>8, <3>0, <4>2
    <3>4. AllFine(entries, i + 1)
      BY <1>5, <2>2, <2>8
    <3>5. Sound(entries, i + 1)
      BY <2>4, <3>1, <3>2, <3>4 DEF Sound, after, new, sum1
    <3>6. Complete(entries, i + 1)
      BY <3>3 DEF Complete, after, new, sum1
    <3>. QED BY <3>5, <3>6
  <2>. QED BY <2>6, <2>7, <2>8
<1>. QED BY <1>8, <1>9

LEMMA ListingRead ==
  ASSUME NEW entries \in Seq(Entry)
  PROVE  Sound(entries, Len(entries)) /\ Complete(entries, Len(entries))
<1> DEFINE P == {i \in 0..Len(entries) : Sound(entries, i) /\ Complete(entries, i)}
           n == Len(entries)
<1>1. n \in Nat
  BY LenProperties
<1>2. 0 \in P
  <2>1. Between(After(entries, 0), 0, 0) /\ After(entries, 0).ok
    BY HeadingRead DEF Between, Reading7z
  <2>2. Count(entries, 0) = 0 /\ Sizes(entries)[0] = 0
    BY <1>1, CountsDef, SizesDef
  <2>3. AllFine(entries, 0)
    BY DEF AllFine
  <2>4. 0 <= MaxFiles /\ 0 <= MaxTotal
    BY ListingAssumption
  <2>5. Sound(entries, 0)
    BY <2>1, <2>2, <2>3, <2>4 DEF Sound
  <2>6. Complete(entries, 0)
    BY <2>1 DEF Complete
  <2>. QED BY <1>1, <2>5, <2>6
<1>3. ASSUME NEW i \in 0..(n - 1), i \in P PROVE i + 1 \in P
  BY <1>1, <1>3, ListingNext
<1>4. 0..n \subseteq P
  <2> HIDE DEF P, n
  <2>. QED BY <1>1, <1>2, <1>3, Induction
<1>. QED BY <1>1, <1>4

(* A listing is accepted if no entry was refused and a file was counted.   *)
LEMMA ValidateIs ==
  ASSUME NEW entries \in Seq(Entry)
  PROVE  /\ Cardinality(Files(entries)) \in Nat
         /\ Validate7zListing(Print7z(entries)) <=>
              After(entries, Len(entries)).ok /\ Cardinality(Files(entries)) > 0
<1> DEFINE n == Len(entries)
           lines == Print7z(entries)
           read == After(entries, n)
           last == IF read.ok THEN Flush(read) ELSE read
           count == Count(entries, n)
<1>1. n \in Nat /\ DOMAIN entries = 1..n
  BY LenProperties
<1>2. Cardinality(Files(entries)) = count /\ count \in Nat
  <2>1. Files(entries) = FilesUpTo(entries, n)
    BY <1>1 DEF Files, FilesUpTo
  <2>. QED BY <1>1, <2>1, CountsDef DEF Count
<1>3. Validate7zListing(lines) <=> last.ok /\ last.files > 0
  <2>1. read = Reading(lines)[Len(lines)]
    BY LinesOf DEF After
  <2> HIDE DEF read, lines
  <2>. QED BY <2>1 DEF Validate7zListing
<1>4. CASE ~read.ok
  <2>1. last = read
    BY <1>4
  <2> HIDE DEF last, read, lines
  <2>. QED BY <1>2, <1>3, <1>4, <2>1 DEF lines, read
<1>5. CASE read.ok
  <2>1. PICK w \in Int : Between(read, count, w)
    BY <1>5, ListingRead DEF Sound
  <2>2. last = Flush(read)
    BY <1>5
  <2> HIDE DEF last, read, lines, count
  <2>3. /\ read \in ReaderState /\ read.ok /\ read.files = count
        /\ read.current.path = "none"
    BY <2>1, NoEntryIs DEF Between, Reading7z
  <2>4. last = [read EXCEPT !.current = NoEntry]
    BY <2>2, <2>3 DEF Flush
  <2>5. last.ok /\ last.files = count
    BY <2>3, <2>4 DEF ReaderState
  <2>. QED BY <1>2, <1>3, <1>5, <2>5 DEF lines, read
<1>. QED BY <1>4, <1>5

(* The entries with a name of a listing that is accepted keep to the       *)
(* limits, or their sizes add up beyond the greatest int64, whatever the   *)
(* archive holds.  Of an entry whose name is blank nothing is promised but *)
(* that its size is an int64: validate7zListing drops it uncounted.        *)
THEOREM ListingSound ==
  ASSUME NEW entries \in Seq(Entry), Validate7zListing(Print7z(entries))
  PROVE  WithinLimits(entries) \/ TotalSize(entries) > MaxInt64
<1> DEFINE n == Len(entries)
<1>1. n \in Nat /\ DOMAIN entries = 1..n
  BY LenProperties
<1>2. /\ After(entries, n).ok /\ Cardinality(Files(entries)) > 0
      /\ Cardinality(Files(entries)) \in Nat
  BY ValidateIs
<1>3. PICK w \in Int : /\ w <= MaxTotal
                       /\ Sizes(entries)[n] <= MaxInt64 => w = Sizes(entries)[n]
  BY <1>2, ListingRead DEF Sound
<1>4. AllFine(entries, n) /\ Count(entries, n) <= MaxFiles
  BY <1>2, ListingRead DEF Sound
<1>5. Sizes(entries)[n] \in Nat
  BY <1>1, SizesType
<1>6. Files(entries) = FilesUpTo(entries, n)
  BY <1>1 DEF Files, FilesUpTo
<1>7. Cardinality(Files(entries)) \in 1..MaxFiles
  BY <1>2, <1>4, <1>6, ListingAssumption DEF Count
<1>8. /\ \A i \in DOMAIN entries : SafePath(entries[i].path) /\ entries[i].size <= MaxInt64
      /\ \A i \in Files(entries) : entries[i].size >= 0
  BY <1>1, <1>4 DEF AllFine, Fine, Files
<1>9. Sizes(entries)[n] <= MaxTotal \/ Sizes(entries)[n] > MaxInt64
  BY <1>3, <1>5, ListingAssumption
<1>. QED BY <1>7, <1>8, <1>9 DEF WithinLimits, TotalSize

(* A listing whose entries with a name keep to the limits is accepted; one *)
(* of them has to be a file, so that an archive of none but blank names is *)
(* refused as empty.                                                       *)
THEOREM ListingComplete ==
  ASSUME NEW entries \in Seq(Entry), WithinLimits(entries)
  PROVE  Validate7zListing(Print7z(entries))
<1> DEFINE n == Len(entries)
<1>1. n \in Nat /\ DOMAIN entries = 1..n
  BY LenProperties
<1>2. Files(entries) = FilesUpTo(entries, n)
  BY <1>1 DEF Files, FilesUpTo
<1>3. Cardinality(Files(entries)) \in 1..MaxFiles
  BY DEF WithinLimits
<1>4. Cardinality(Files(entries)) > 0 /\ Count(entries, n) <= MaxFiles
  BY <1>2, <1>3, ListingAssumption DEF Count
<1>5. Sizes(entries)[n] <= MaxTotal
  BY DEF WithinLimits, TotalSize
<1>6. AllFine(entries, n)
  BY <1>1 DEF AllFine, Fine, WithinLimits, Files
<1>7. After(entries, n).ok
  BY <1>4, <1>5, <1>6, ListingRead DEF Complete
<1>. QED BY <1>4, <1>7, ValidateIs

=============================================================================
