--------------------------- MODULE ArchiveListing ---------------------------
(***************************************************************************)
(* validate7zListing of internal/converter/decompress.go: the listing of   *)
(* an archive is read line by line, and the archive is only extracted if   *)
(* its entries keep to the limits.  An entry is flushed (checked and       *)
(* counted) at the blank line after it, at the next Path or at the end.    *)
(* A name of nothing but white space never reaches the reader: it trims    *)
(* each line and cuts it at " = ", and then the line has no key.           *)
(***************************************************************************)
EXTENDS Integers, Sequences, FiniteSets

CONSTANTS
  MaxFiles, MaxTotal,   \* the limits on files and on their total size
  MaxInt64              \* the greatest int64: sizes are parsed and added as int64

ASSUME ListingAssumption ==
  MaxFiles \in Nat \ {0} /\ MaxInt64 \in Nat /\ MaxTotal \in 0..MaxInt64

NoEntry == [path |-> "none", size |-> -1, isDir |-> FALSE]

(* validateArchiveEntryPath: empty, absolute and escaping paths are unsafe.*)
SafePath(path) == path # "unsafe"

(* inEntries: the separator was seen; ok: no entry was refused so far.     *)
Start == [inEntries |-> FALSE, current |-> NoEntry, files |-> 0, total |-> 0, ok |-> TRUE]

(* total += size: a sum beyond the greatest int64 comes out negative.      *)
Plus(total, size) ==
  IF total + size <= MaxInt64 THEN total + size ELSE total + size - 2 * (MaxInt64 + 1)

MutantFlush(s) ==
  LET e == s.current
      counted == [s EXCEPT !.files = @ + 1, !.total = Plus(@, e.size)]
  IN CASE e.path = "none" -> s
       [] e.path # "none" /\ (~SafePath(e.path) \/ (~e.isDir /\ e.size < 0)) -> [s EXCEPT !.ok = FALSE]
       [] e.path # "none" /\ SafePath(e.path) /\ e.isDir -> [s EXCEPT !.current = NoEntry]
       [] OTHER -> [counted EXCEPT !.ok = counted.files <= MaxFiles /\ s.total <= MaxTotal,
                                   !.current = NoEntry]

(* flush: the entry read so far is checked, counted and forgotten.         *)
Flush(s) ==
  LET e == s.current
      counted == [s EXCEPT !.files = @ + 1, !.total = Plus(@, e.size)]
  IN CASE e.path = "none" -> [s EXCEPT !.current = NoEntry]
       [] e.path # "none" /\ (~SafePath(e.path) \/ (~e.isDir /\ e.size < 0)) -> [s EXCEPT !.ok = FALSE]
       [] e.path # "none" /\ SafePath(e.path) /\ e.isDir -> [s EXCEPT !.current = NoEntry]
       [] OTHER -> [counted EXCEPT !.ok = counted.files <= MaxFiles /\ counted.total <= MaxTotal,
                                   !.current = NoEntry]

(* One line; after a refusal the rest is not read.  A size that is no int64*)
(* is refused where it is read; a line with any other key is passed over.  *)
ReadLine(s, line) ==
  CASE ~s.ok -> s
    [] s.ok /\ line.key = "Separator" -> [s EXCEPT !.inEntries = TRUE, !.current = NoEntry]
    [] s.ok /\ s.inEntries /\ line.key = "Blank" -> Flush(s)
    [] s.ok /\ s.inEntries /\ line.key = "Path" ->
         LET before == IF s.current.path = "none" THEN s ELSE Flush(s)
         IN [before EXCEPT !.current.path = line.text]
    [] s.ok /\ s.inEntries /\ line.key = "Size" ->
         IF line.number <= MaxInt64 THEN [s EXCEPT !.current.size = line.number]
         ELSE [s EXCEPT !.ok = FALSE]
    [] s.ok /\ s.inEntries /\ line.key = "Folder" -> [s EXCEPT !.current.isDir = (line.text = "Plus")]
    [] s.ok /\ s.inEntries /\ line.key = "Attributes" ->
         [s EXCEPT !.current.isDir = @ \/ line.text = "D"]
    [] OTHER -> s

(* What has been read after each line.                                     *)
Reading(lines) ==
  LET after[n \in 0..Len(lines)] == IF n = 0 THEN Start ELSE ReadLine(after[n - 1], lines[n])
  IN after

Validate7zListing(lines) ==
  LET read == Reading(lines)[Len(lines)]
      last == IF read.ok THEN Flush(read) ELSE read
  IN last.ok /\ last.files > 0

-----------------------------------------------------------------------------
(* What 7z l -slt prints, as far as the reader looks at it: the archive    *)
(* itself, the separator, and a block of lines for each entry.  size -1    *)
(* stands for an entry without a size (its line has no value, and so for   *)
(* the reader no key), a blank path for a name that is all white space     *)
(* (which the reader's trimming leaves without a key too), folder for where*)
(* the entry is said to be a directory.  Every block is well formed.       *)
Entry ==
  [path : {"safe", "unsafe", "blank"}, size : Nat \cup {-1},
   folder : {"no", "Folder", "Attributes"}]

Text(key, text) == [key |-> key, text |-> text, number |-> 0]

Number(key, number) == [key |-> key, text |-> "None", number |-> number]

PrintEntry(e) ==
  <<IF e.path = "blank" THEN Text("PathWithoutValue", "None") ELSE Text("Path", e.path),
    Text("Folder", IF e.folder = "Folder" THEN "Plus" ELSE "Minus"),
    IF e.size >= 0 THEN Number("Size", e.size) ELSE Text("SizeWithoutValue", "None"),
    Text("Attributes", IF e.folder = "Attributes" THEN "D" ELSE "A"), Text("Blank", "None")>>

Heading == <<Text("Path", "Archive"), Text("Blank", "None"), Text("Separator", "None")>>

(* Three lines of heading, then five lines for each entry.                 *)
Print7z(entries) ==
  [n \in 1..(3 + 5 * Len(entries)) |->
     IF n <= 3 THEN Heading[n]
     ELSE PrintEntry(entries[((n - 4) \div 5) + 1])[((n - 4) % 5) + 1]]

(* What the limits mean for the entries that have a name.  The others are  *)
(* dropped with the flush that finds no Path, however many and large they  *)
(* are: nothing but an int64 is asked of their size.                       *)
NamedFile(e) == e.path # "blank" /\ e.folder = "no"

Files(entries) == {i \in DOMAIN entries : NamedFile(entries[i])}

FileSize(e) == IF NamedFile(e) /\ e.size >= 0 THEN e.size ELSE 0

Sizes(entries) ==
  LET upTo[n \in 0..Len(entries)] == IF n = 0 THEN 0 ELSE upTo[n - 1] + FileSize(entries[n])
  IN upTo

TotalSize(entries) == Sizes(entries)[Len(entries)]

WithinLimits(entries) ==
  /\ Cardinality(Files(entries)) \in 1..MaxFiles
  /\ \A i \in DOMAIN entries : SafePath(entries[i].path) /\ entries[i].size <= MaxInt64
  /\ \A i \in Files(entries) : entries[i].size >= 0
  /\ TotalSize(entries) <= MaxTotal
=============================================================================
