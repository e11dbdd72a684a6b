-------------------------- MODULE LogImport_proofs --------------------------
(***************************************************************************)
(* Proofs about LogImport, for every number of lines, rotations, crashes   *)
(* and kept files, and every batch size.                                   *)
(***************************************************************************)
EXTENDS LogImport, SequenceTheorems, FiniteSetTheorems, TLAPS

-----------------------------------------------------------------------------
(* The inductive invariant of AtMostOnce.                                  *)

(* The paths of the log are taken without gaps, but for the log itself     *)
(* between the two halves of a rotation; a file is older than those of the *)
(* paths before it.                                                        *)
DirShape ==
    /\ \A p, q \in Path : p < q /\ Exists(p) /\ Exists(q) => dir[p] > dir[q]
    /\ \E last \in Path : \A p \in Path : p > 1 => (Exists(p) <=> p <= last)
    /\ Exists(2) /\ IF Exists(1) THEN dir[1] = logging ELSE dir[2] = logging
    /\ logging <= rotations + 2 /\ (~Exists(1) => logging <= rotations + 1)

OnPath(f) == \E p \in Path : dir[p] = f

(* The order of the lines is that of the files and of the places in them.  *)
ContentShape ==
    \A g \in File : \A i \in DOMAIN content[g] :
        /\ g <= logging /\ content[g][i] <= written
        /\ \A h \in File : \A j \in DOMAIN content[h] :
             g < h \/ (g = h /\ i < j) => content[g][i] < content[h][j]

(* Line i of file g was counted.                                           *)
Read(g, i) == i \in DOMAIN content[g] /\ content[g][i] \in counted

(* What is counted lies before the cursor; a log that was truncated to     *)
(* less than the cursor holds nothing that is counted.                     *)
CursorCovers ==
    /\ counted \subseteq 1 .. written
    /\ cursor = None => counted = {}
    /\ cursor # None => \A g \in File, i \in Nat : Read(g, i) =>
         \/ g < cursor.file
         \/ g = cursor.file /\ i <= cursor.offset /\ cursor.offset <= Size(g)

(* A cursor into a file that is gone is older than every file there is.    *)
CursorPlaced ==
    cursor # None => \/ \E p \in Path : dir[p] = cursor.file
                     \/ \A p \in Path : Exists(p) => cursor.file < dir[p]

FdOpen == fd # None <=> pc = "read"

TypeInv == TypeOK /\ FdOpen

Descending(s) == \A i, j \in DOMAIN s : i < j => s[i].path > s[j].path

RunShape ==
    /\ pc \notin {"open", "read"} => sources = << >>
    /\ Descending(sources)
    /\ fd # None => /\ fd.file <= logging
                    /\ \A i \in DOMAIN sources : sources[i].path < fd.path

(* What is counted lies before what the run will read, even when the paths *)
(* it has still to open name newer files by then.                          *)
OpenAhead ==
    fd # None =>
        /\ \A p \in 1 .. fd.path : Exists(p) =>
              dir[p] >= fd.file /\ (p < fd.path => dir[p] > fd.file)
        /\ \A g \in File, i \in Nat : Read(g, i) =>
              g < fd.file \/ (g = fd.file /\ i <= fd.pos)

SourcesAhead ==
    \A k \in DOMAIN sources : \A p \in 1 .. sources[k].path : Exists(p) =>
        \A g \in File, i \in Nat : Read(g, i) =>
            \/ g < dir[p]
            \/ p = sources[k].path /\ g = dir[p] /\ i <= sources[k].offset

ReadAhead == OpenAhead /\ SourcesAhead

StatusShape ==
    /\ ~fullHistory => status = "absent"
    /\ fullHistory /\ status = "absent" => pc = "idle" /\ counted = {}
    /\ status = "complete" => pc = "idle"
    /\ pc = "clear" => counted = {}

ImportInv ==
    /\ TypeInv /\ DirShape /\ ContentShape /\ CursorCovers /\ CursorPlaced
    /\ RunShape /\ ReadAhead /\ StatusShape /\ AtMostOnce

-----------------------------------------------------------------------------
(* The inductive invariant of the history import that no rotation races.   *)

Steady == fullHistory /\ ~raced

(* Every line is in some file, and those not yet counted in one that the   *)
(* directory still has.                                                    *)
EveryLinePlaced ==
    fullHistory => \A l \in 1 .. written :
        \E g \in File : \E i \in DOMAIN content[g] : content[g][i] = l

NothingGone ==
    Steady => \A g \in File : \A i \in DOMAIN content[g] :
        content[g][i] \notin counted => OnPath(g)

CursorIsEnd ==
    Steady =>
        /\ cursor = None <=> counted = {}
        /\ cursor # None =>
             /\ OnPath(cursor.file)
             /\ cursor.offset \in DOMAIN content[cursor.file]
             /\ counted = 1 .. content[cursor.file][cursor.offset]

(* Every line not yet counted is ahead of a run that has something left.   *)
Ahead(g, i) ==
    \/ fd # None /\ g = fd.file /\ i > fd.pos
    \/ \E k \in DOMAIN sources : g = dir[sources[k].path] /\ i > sources[k].offset

LastPath == IF sources = << >> THEN fd.path ELSE sources[Len(sources)].path

(* While a run lasts the paths keep their files.                           *)
RunInPlace ==
    Steady =>
        /\ pc \in {"open", "read", "end"} => Exists(1)
        /\ fd # None => dir[fd.path] = fd.file /\ fd.pos <= Size(fd.file)
        /\ \A k \in DOMAIN sources :
             Exists(sources[k].path) /\ sources[k].offset <= Size(dir[sources[k].path])

RunReadsAll ==
    Steady /\ (fd # None \/ sources # << >>) =>
        /\ LastPath = 1
        /\ \A g \in File : \A i \in DOMAIN content[g] :
              content[g][i] \notin counted => Ahead(g, i)

ListedCounted ==
    /\ listed \subseteq 1 .. written
    /\ /\ Steady
       /\ (pc \in {"open", "end"} /\ sources = << >>) \/ status = "complete"
      => listed \subseteq counted

SteadyInv == /\ EveryLinePlaced /\ NothingGone /\ CursorIsEnd
             /\ RunInPlace /\ RunReadsAll /\ ListedCounted

-----------------------------------------------------------------------------
(* Which steps change what.                                                *)

Environment == WriteLine \/ Rename \/ Reopen \/ Truncate

LEMMA DiskFrame ==
    [Next]_vars =>
        \/ UNCHANGED <<dir, content, logging, written, rotations>>
        \/ Environment /\ UNCHANGED <<db, run>>
  BY DEF Next, vars, Environment, WriteLine, Rename, Reopen, Truncate, Import,
         Begin, ClearCursor, ListSources, StartAtEnd, NothingToRead, NoSourceLeft,
         OpenSource, EndOfFile, CommitBatch, Missing, Finish, Crash, disk, db, run

LEMMA DbFrame ==
    [Next]_vars =>
        \/ UNCHANGED <<cursor, counted, twice>>
        \/ /\ ClearCursor \/ StartAtEnd \/ CommitBatch
           /\ UNCHANGED <<fullHistory, dir, content, logging, written, rotations, raced>>
  BY DEF Next, vars, WriteLine, Rename, Reopen, Truncate, Import,
         Begin, ClearCursor, ListSources, StartAtEnd, NothingToRead, NoSourceLeft,
         OpenSource, EndOfFile, CommitBatch, Missing, Finish, Crash, disk, db, run

(* A run is given up.                                                      *)
Over == pc' \in {"idle", "over"} /\ fd' = None /\ sources' = << >> /\ listed' = {}

LEMMA RunFrame ==
    [Next]_vars =>
        \/ UNCHANGED run
        \/ Over /\ UNCHANGED <<disk, status>> /\ (UNCHANGED db \/ CommitBatch)
        \/ Begin \/ ClearCursor \/ ListSources \/ StartAtEnd \/ NothingToRead
        \/ NoSourceLeft \/ OpenSource \/ EndOfFile \/ CommitBatch \/ Finish
  BY DEF Next, vars, WriteLine, Rename, Reopen, Truncate, Import, Missing, Crash,
         disk, db, run, Over, CommitBatch

LEMMA HistoryConstant == [Next]_vars => UNCHANGED fullHistory
  BY DEF Next, vars, WriteLine, Rename, Reopen, Truncate, Import,
         Begin, ClearCursor, ListSources, StartAtEnd, NothingToRead, NoSourceLeft,
         OpenSource, EndOfFile, CommitBatch, Missing, Finish, Crash, disk, db, run

-----------------------------------------------------------------------------
(* Types.                                                                  *)

DiskTypes ==
    /\ fullHistory \in BOOLEAN
    /\ dir \in [Path -> File \cup {None}]
    /\ content \in [File -> Seq(Line)]
    /\ logging \in File
    /\ written \in 0 .. MaxLines
    /\ rotations \in 0 .. MaxRotations /\ crashes \in 0 .. MaxCrashes

DbTypes ==
    /\ status \in {"absent", "running", "complete"}
    /\ cursor \in Cursor \cup {None}
    /\ counted \subseteq Line /\ twice \subseteq counted

Source == [path : Path, offset : Nat]

RunTypes ==
    /\ pc \in {"idle", "clear", "list", "open", "read", "end", "over"}
    /\ sources \in Seq(Source)
    /\ fd \in Reader \cup {None}
    /\ listed \subseteq Line /\ raced \in BOOLEAN
    /\ FdOpen

LEMMA TypeParts == TypeInv <=> DiskTypes /\ DbTypes /\ RunTypes
  BY DEF TypeInv, TypeOK, DiskTypes, DbTypes, RunTypes, Source

(* The bounds of the sequences of lines.                                   *)
LEMMA Contents ==
    ASSUME DiskTypes, NEW f \in File
    PROVE  /\ content[f] \in Seq(Line) /\ Size(f) \in Nat
           /\ DOMAIN content[f] = 1 .. Size(f)
           /\ \A i \in 1 .. Size(f) : content[f][i] \in Line
  BY LenProperties, ElementOfSeq DEF DiskTypes, Size

LEMMA DiskTypesStep == TypeInv /\ [Next]_vars => DiskTypes'
<1> SUFFICES ASSUME DiskTypes, [Next]_vars PROVE DiskTypes'
  BY TypeParts
<1> USE ImportAssumption
<1>1. CASE WriteLine
  <2>1. written + 1 \in Line /\ written' \in 0 .. MaxLines
    BY <1>1 DEF WriteLine, DiskTypes, Line
  <2>2. Append(content[logging], written + 1) \in Seq(Line)
    BY <2>1, AppendProperties DEF DiskTypes
  <2>3. content' \in [File -> Seq(Line)]
    BY <1>1, <2>2 DEF WriteLine, DiskTypes
  <2> QED BY <1>1, <2>1, <2>3 DEF WriteLine, DiskTypes
<1>2. CASE Rename
  <2>1. \A p \in Path : p # 1 => p - 1 \in Path
    BY DEF Path
  <2>2. dir' \in [Path -> File \cup {None}]
    BY <1>2, <2>1 DEF Rename, DiskTypes
  <2> QED BY <1>2, <2>2 DEF Rename, DiskTypes
<1>3. CASE Reopen
  <2>1. rotations + 2 \in File
    BY DEF DiskTypes, File
  <2> QED BY <1>3, <2>1 DEF Reopen, DiskTypes
<1>4. CASE Truncate
  <2>1. << >> \in Seq(Line)
    OBVIOUS
  <2> QED BY <1>4, <2>1 DEF Truncate, DiskTypes
<1>5. CASE UNCHANGED <<dir, content, logging, written, rotations>>
  <2>1. crashes' \in 0 .. MaxCrashes
    BY <1>5 DEF DiskTypes, Next, vars, WriteLine, Rename, Reopen, Truncate, Import,
         Begin, ClearCursor, ListSources, StartAtEnd, NothingToRead, NoSourceLeft,
         OpenSource, EndOfFile, CommitBatch, Missing, Finish, Crash
  <2> QED BY <1>5, <2>1, HistoryConstant DEF DiskTypes
<1> QED BY <1>1, <1>2, <1>3, <1>4, <1>5, DiskFrame DEF Environment

-----------------------------------------------------------------------------
(* What a run lists.                                                       *)

LEMMA HistoryPathsOldestFirst ==
    ASSUME DiskTypes, DirShape
    PROVE  \E n \in 0 .. KeptFiles :
             /\ HistoryPaths \in [1 .. n -> Path]
             /\ \A i \in 1 .. n : Exists(HistoryPaths[i])
             /\ \A p \in Path : Exists(p) => \E i \in 1 .. n : HistoryPaths[i] = p
             /\ \A i, j \in 1 .. n : i < j => HistoryPaths[i] > HistoryPaths[j]
<1> USE ImportAssumption
<1> DEFINE existing == {p \in Path : Exists(p)}
           listing(q) == /\ Range(q) = existing
                         /\ \A i, j \in DOMAIN q : i < j => q[i] > q[j]
           all == UNION {[1 .. n -> existing] : n \in 0 .. KeptFiles}
<1>1. PICK last \in Path : \A p \in Path : p > 1 => (Exists(p) <=> p <= last)
  BY DEF DirShape
<1>2. \E q \in all : listing(q)
  <2> DEFINE first == IF Exists(1) THEN 1 ELSE 2
             n == last + 1 - first
             q == [i \in 1 .. n |-> last + 1 - i]
  <2>1. last >= 2 /\ Exists(2) /\ last \in Nat /\ last <= KeptFiles /\ KeptFiles \in Nat
    BY <1>1 DEF DirShape, Path
  <2>2. first \in {1, 2} /\ n \in 0 .. KeptFiles
    BY <2>1
  <2>3. existing = first .. last
    BY <1>1, <2>1 DEF Path
  <2>4. q \in [1 .. n -> existing]
    BY <2>1, <2>2, <2>3
  <2>5. Range(q) = existing
    <3>1. ASSUME NEW p \in existing PROVE p \in Range(q)
      <4>1. last + 1 - p \in 1 .. n /\ q[last + 1 - p] = p
        BY <2>1, <2>2, <2>3, SMTT(30)
      <4> QED BY <4>1 DEF Range
    <3>2. ASSUME NEW p \in Range(q) PROVE p \in existing
      <4>1. PICK i \in DOMAIN q : p = q[i]
        BY <3>2 DEF Range
      <4> QED BY <2>4, <4>1
    <3> QED BY <3>1, <3>2
  <2>6. \A i, j \in DOMAIN q : i < j => q[i] > q[j]
    BY <2>1, <2>2
  <2> QED BY <2>2, <2>4, <2>5, <2>6
<1>3. HistoryPaths \in all /\ listing(HistoryPaths)
  <2>1. HistoryPaths = CHOOSE q \in all : listing(q)
    BY DEF HistoryPaths
  <2> HIDE DEF all, listing
  <2> QED BY <1>2, <2>1
<1>4. PICK n \in 0 .. KeptFiles : HistoryPaths \in [1 .. n -> existing]
  BY <1>3
<1>5. HistoryPaths \in [1 .. n -> Path] /\ \A i \in 1 .. n : Exists(HistoryPaths[i])
  BY <1>4
<1>6. ASSUME NEW p \in Path, Exists(p) PROVE \E i \in 1 .. n : HistoryPaths[i] = p
  BY <1>3, <1>4, <1>6 DEF Range
<1> QED BY <1>3, <1>4, <1>5, <1>6

(* A source of the listing s; it is read from the cursor on if it is the   *)
(* file of the cursor.                                                     *)
FromCursor(k, s) ==
    /\ Exists(s[k].path)
    /\ cursor # None =>
         /\ OnPath(cursor.file) => dir[s[k].path] >= cursor.file
         /\ dir[s[k].path] = cursor.file /\ cursor.offset <= Size(cursor.file)
              => s[k].offset = cursor.offset

(* The listing s of a history import leaves out only older files.          *)
Listing(s) ==
    /\ \A k \in DOMAIN s :
         \/ s[k].offset = 0
         \/ cursor # None /\ dir[s[k].path] = cursor.file /\ s[k].offset = cursor.offset
    /\ \A p \in Path : Exists(p) =>
         \/ \E k \in DOMAIN s : s[k].path = p
         \/ cursor # None /\ (OnPath(cursor.file) => dir[p] < cursor.file)

LEMMA NoPathTwice ==
    ASSUME DiskTypes, DirShape,
           NEW p \in Path, NEW q \in Path, Exists(p), dir[p] = dir[q]
    PROVE  p = q
<1>1. dir[p] \in File /\ Exists(q)
  BY DEF DiskTypes, Exists
<1>2. dir[p] \in Nat /\ p \in Nat /\ q \in Nat
  BY <1>1 DEF File, Path
<1>3. ~(p < q) /\ ~(q < p)
  BY <1>1, <1>2 DEF DirShape
<1> QED BY <1>2, <1>3

LEMMA OlderIsBehind ==
    ASSUME DiskTypes, DirShape,
           NEW p \in Path, NEW q \in Path, Exists(p), Exists(q), p <= q
    PROVE  dir[q] \in Nat /\ dir[p] \in Nat /\ dir[q] <= dir[p]
<1>1. dir[p] \in Nat /\ dir[q] \in Nat /\ p \in Nat /\ q \in Nat
  BY DEF DiskTypes, Exists, File, Path
<1>2. p = q \/ p < q
  BY <1>1
<1>3. p < q => dir[p] > dir[q]
  BY DEF DirShape
<1> QED BY <1>1, <1>2, <1>3

LEMMA HistoryListing ==
    ASSUME DiskTypes, DbTypes, DirShape
    PROVE  /\ HistorySources \in Seq(Source) /\ Descending(HistorySources)
           /\ \A k \in DOMAIN HistorySources : FromCursor(k, HistorySources)
           /\ Listing(HistorySources)
<1> USE ImportAssumption
<1> DEFINE paths == HistoryPaths
<1>1. PICK n \in 0 .. KeptFiles :
             /\ paths \in [1 .. n -> Path]
             /\ \A i \in 1 .. n : Exists(paths[i])
             /\ \A p \in Path : Exists(p) => \E i \in 1 .. n : paths[i] = p
             /\ \A i, j \in 1 .. n : i < j => paths[i] > paths[j]
  BY HistoryPathsOldestFirst
<1> HIDE DEF paths
<1>2. n \in Nat /\ DOMAIN paths = 1 .. n /\ paths \in Seq(Path) /\ Len(paths) = n
  BY <1>1, LenProperties
<1>3. \A q \in Seq(Path) : /\ FromStart(q) \in Seq(Source) /\ Len(FromStart(q)) = Len(q)
                           /\ DOMAIN FromStart(q) = 1 .. Len(q)
                           /\ \A i \in 1 .. Len(q) : FromStart(q)[i] = At(q[i], 0)
  <2> SUFFICES ASSUME NEW q \in Seq(Path)
               PROVE  /\ FromStart(q) \in Seq(Source) /\ Len(FromStart(q)) = Len(q)
                      /\ DOMAIN FromStart(q) = 1 .. Len(q)
                      /\ \A i \in 1 .. Len(q) : FromStart(q)[i] = At(q[i], 0)
    OBVIOUS
  <2>1. Len(q) \in Nat /\ DOMAIN q = 1 .. Len(q) /\ \A i \in 1 .. Len(q) : q[i] \in Path
    BY LenProperties, ElementOfSeq
  <2>2. FromStart(q) = [i \in 1 .. Len(q) |-> At(q[i], 0)]
    BY <2>1 DEF FromStart
  <2>3. \A i \in 1 .. Len(q) : At(q[i], 0) \in Source
    BY <2>1 DEF At, Source
  <2>4. FromStart(q) \in [1 .. Len(q) -> Source]
    BY <2>2, <2>3
  <2> QED BY <2>1, <2>2, <2>4
<1>4. \A p \in Path : \A o : At(p, o).path = p /\ At(p, o).offset = o
  BY DEF At
<1>5. \A p \in Path : p \in Nat
  BY DEF Path
<1>6. CASE cursor = None
  <2>1. HistorySources = FromStart(paths)
    BY <1>6 DEF HistorySources, paths
  <2>2. HistorySources \in Seq(Source) /\ DOMAIN HistorySources = 1 .. n
          /\ \A i \in 1 .. n : HistorySources[i].path = paths[i] /\ HistorySources[i].offset = 0
    BY <1>1, <1>2, <1>3, <1>4, <2>1
  <2>3. Descending(HistorySources)
    BY <1>1, <2>2 DEF Descending
  <2>4. \A k \in DOMAIN HistorySources : FromCursor(k, HistorySources)
    BY <1>1, <1>6, <2>2 DEF FromCursor
  <2>5. Listing(HistorySources)
    BY <1>1, <2>2 DEF Listing
  <2> QED BY <2>2, <2>3, <2>4, <2>5
<1>7. CASE cursor # None /\ \A p \in Path : dir[p] # cursor.file
  <2>1. HistorySources = CanonicalOnly
    BY <1>1, <1>2, <1>7 DEF HistorySources, paths
  <2>2. 1 \in Path /\ At(1, 0) \in Source
    BY DEF Path, At, Source
  <2>3. ~OnPath(cursor.file)
    BY <1>7 DEF OnPath
  <2>4. CASE ~Exists(1)
    <3>1. HistorySources = << >>
      BY <2>1, <2>4 DEF CanonicalOnly
    <3> QED BY <1>7, <2>3, <3>1 DEF Descending, Listing
  <2>5. CASE Exists(1)
    <3>1. HistorySources = <<At(1, 0)>>
      BY <2>1, <2>5 DEF CanonicalOnly
    <3>2. HistorySources \in Seq(Source) /\ DOMAIN HistorySources = {1}
            /\ HistorySources[1].path = 1 /\ HistorySources[1].offset = 0
      BY <1>4, <2>2, <3>1
    <3>3. FromCursor(1, HistorySources)
      BY <1>7, <2>2, <2>3, <2>5, <3>2 DEF FromCursor
    <3> QED BY <1>7, <2>3, <3>2, <3>3 DEF Descending, Listing
  <2> QED BY <2>4, <2>5
<1>8. CASE cursor # None /\ \E p \in Path : dir[p] = cursor.file
  <2> DEFINE known == {i \in DOMAIN paths : cursor # None /\ dir[paths[i]] = cursor.file}
             here == CHOOSE j \in known : TRUE
             rest == SubSeq(paths, here + 1, n)
             h == HistorySources
  <2>1. cursor.file \in File /\ cursor.offset \in Nat
    BY <1>8 DEF DbTypes, Cursor
  <2>2. PICK p \in Path : dir[p] = cursor.file
    BY <1>8
  <2>3. Exists(p)
    BY <2>1, <2>2 DEF Exists
  <2>4. known # {}
    BY <1>1, <1>2, <1>8, <2>2, <2>3
  <2>5. here \in 1 .. n /\ dir[paths[here]] = cursor.file
    BY <1>2, <2>4
  <2>6. h = <<At(paths[here], cursor.offset)>> \o FromStart(rest)
    BY <1>2, <1>8, <2>4 DEF HistorySources, paths
  <2> HIDE DEF known, here
  <2>7. rest \in Seq(Path) /\ Len(rest) = n - here
          /\ \A i \in 1 .. n - here : rest[i] = paths[here + i]
    <3>1. \A i \in here + 1 .. n : paths[i] \in Path
      BY <1>1, <2>5
    <3>2. here + 1 \in Int /\ n \in Int
      BY <1>2, <2>5
    <3>3. /\ rest \in Seq(Path)
          /\ Len(rest) = IF here + 1 <= n THEN n - (here + 1) + 1 ELSE 0
          /\ \A i \in 1 .. n - (here + 1) + 1 : rest[i] = paths[here + 1 + i - 1]
      BY <3>1, <3>2, SubSeqProperties, SMTT(30)
    <3> QED BY <1>2, <2>5, <3>3, SMTT(40)
  <2> HIDE DEF rest, h
  <2>8. FromStart(rest) \in Seq(Source) /\ Len(FromStart(rest)) = n - here
          /\ \A i \in 1 .. n - here : FromStart(rest)[i] = At(paths[here + i], 0)
    BY <1>3, <2>7
  <2>9. <<At(paths[here], cursor.offset)>> \in Seq(Source)
    <3>1. At(paths[here], cursor.offset) \in Source
      BY <1>1, <2>1, <2>5 DEF At, Source
    <3> QED BY <3>1
  <2>10. h \in Seq(Source) /\ Len(h) = n + 1 - here /\ DOMAIN h = 1 .. n + 1 - here
           /\ \A i \in 1 .. n + 1 - here :
                h[i] = IF i = 1 THEN At(paths[here], cursor.offset) ELSE At(paths[here + i - 1], 0)
    <3>1. /\ h \in Seq(Source) /\ Len(h) = 1 + (n - here)
          /\ \A i \in 1 .. 1 + (n - here) :
                h[i] = IF i <= 1 THEN <<At(paths[here], cursor.offset)>>[i]
                       ELSE FromStart(rest)[i - 1]
      BY <2>6, <2>8, <2>9, ConcatProperties
    <3>2. Len(h) = n + 1 - here /\ DOMAIN h = 1 .. n + 1 - here
      BY <1>2, <2>5, <3>1, LenProperties
    <3>3. ASSUME NEW i \in 1 .. n + 1 - here
          PROVE  h[i] = IF i = 1 THEN At(paths[here], cursor.offset)
                        ELSE At(paths[here + i - 1], 0)
      <4>1. CASE i = 1
        BY <1>2, <2>5, <3>1, <4>1
      <4>2. CASE i # 1
        <5>1. i - 1 \in 1 .. n - here /\ here + (i - 1) = here + i - 1
          BY <1>2, <2>5, <4>2
        <5>2. h[i] = FromStart(rest)[i - 1]
          BY <1>2, <2>5, <3>1, <4>2
        <5> QED BY <2>8, <4>2, <5>1, <5>2
      <4> QED BY <4>1, <4>2
    <3> QED BY <3>1, <3>2, <3>3
  <2>11. \A i \in 1 .. n + 1 - here :
           /\ here + i - 1 \in 1 .. n
           /\ h[i].path = paths[here + i - 1]
           /\ h[i].offset = IF i = 1 THEN cursor.offset ELSE 0
    <3> SUFFICES ASSUME NEW i \in 1 .. n + 1 - here
                 PROVE  /\ here + i - 1 \in 1 .. n
                        /\ h[i].path = paths[here + i - 1]
                        /\ h[i].offset = IF i = 1 THEN cursor.offset ELSE 0
      OBVIOUS
    <3>1. here + i - 1 \in 1 .. n /\ (i = 1 => here + i - 1 = here)
      BY <1>2, <2>5
    <3>2. h[i] = At(paths[here + i - 1], IF i = 1 THEN cursor.offset ELSE 0)
      BY <2>10, <3>1
    <3>3. paths[here + i - 1] \in Path
      BY <1>1, <3>1
    <3> QED BY <1>4, <3>1, <3>2, <3>3
  <2>12. Descending(h)
    <3> SUFFICES ASSUME NEW i \in 1 .. n + 1 - here, NEW j \in 1 .. n + 1 - here, i < j
                 PROVE  h[i].path > h[j].path
      BY <2>10 DEF Descending
    <3>1. here + i - 1 < here + j - 1 /\ here + i - 1 \in 1 .. n /\ here + j - 1 \in 1 .. n
      BY <1>2, <2>5, <2>11
    <3>2. paths[here + i - 1] > paths[here + j - 1]
      BY <1>1, <3>1
    <3> QED BY <2>11, <3>2
  <2>13. ASSUME NEW k \in 1 .. n + 1 - here
         PROVE  /\ Exists(h[k].path) /\ dir[h[k].path] >= cursor.file
                /\ dir[h[k].path] = cursor.file => k = 1
    <3>1. here + k - 1 \in 1 .. n /\ h[k].path = paths[here + k - 1]
      BY <2>11
    <3>2. paths[here + k - 1] <= paths[here]
      <4>1. here + k - 1 = here \/ here < here + k - 1
        BY <1>2, <2>5
      <4>2. paths[here] \in Nat
        BY <1>1, <1>5, <2>5
      <4>3. here < here + k - 1 => paths[here] > paths[here + k - 1]
        BY <1>1, <2>5, <3>1
      <4>4. paths[here + k - 1] \in Nat
        BY <1>1, <1>5, <3>1
      <4> QED BY <4>1, <4>2, <4>3, <4>4
    <3>3. Exists(paths[here + k - 1]) /\ Exists(paths[here])
      BY <1>1, <2>5, <3>1
    <3>4. dir[paths[here + k - 1]] >= cursor.file
      <4>1. dir[paths[here]] <= dir[paths[here + k - 1]] /\ dir[paths[here]] \in Nat
               /\ dir[paths[here + k - 1]] \in Nat
        BY <1>1, <2>5, <3>1, <3>2, <3>3, OlderIsBehind
      <4> QED BY <2>5, <4>1
    <3>5. ASSUME dir[paths[here + k - 1]] = cursor.file PROVE k = 1
      <4>1. paths[here + k - 1] = paths[here]
        BY <1>1, <2>5, <3>1, <3>3, <3>5, NoPathTwice
      <4> QED BY <1>1, <1>2, <1>5, <2>5, <3>1, <4>1
    <3> QED BY <3>1, <3>3, <3>4, <3>5
  <2>14. \A k \in DOMAIN h : FromCursor(k, h)
    BY <1>8, <2>10, <2>11, <2>13 DEF FromCursor
  <2>15. Listing(h)
    <3>1. \A k \in DOMAIN h : \/ h[k].offset = 0
                              \/ dir[h[k].path] = cursor.file /\ h[k].offset = cursor.offset
      BY <2>5, <2>10, <2>11
    <3>2. ASSUME NEW q \in Path, Exists(q)
          PROVE  (\E k \in DOMAIN h : h[k].path = q) \/ dir[q] < cursor.file
      <4>1. PICK i \in 1 .. n : paths[i] = q
        BY <1>1, <3>2
      <4>2. CASE i >= here
        <5>1. i - here + 1 \in DOMAIN h /\ here + (i - here + 1) - 1 = i
          BY <1>2, <2>5, <2>10, <4>2
        <5> QED BY <2>10, <2>11, <4>1, <5>1
      <4>3. CASE i < here
        <5>1. paths[i] > paths[here]
          BY <1>1, <2>5, <4>3
        <5>2. Exists(paths[here]) /\ paths[here] \in Path
          BY <1>1, <2>5
        <5>3. dir[paths[here]] > dir[q]
          BY <3>2, <4>1, <5>1, <5>2, <1>5 DEF DirShape
        <5>4. dir[q] \in Nat /\ cursor.file \in Nat
          BY <2>1, <3>2 DEF DiskTypes, Exists, File
        <5> QED BY <2>5, <5>3, <5>4
      <4> QED BY <1>2, <2>5, <4>2, <4>3
    <3> QED BY <1>8, <3>1, <3>2 DEF Listing
  <2> QED BY <2>10, <2>12, <2>14, <2>15 DEF h
<1> QED BY <1>6, <1>7, <1>8

LEMMA LiveListing ==
    ASSUME DiskTypes, DbTypes, DirShape, Exists(1), cursor # None
    PROVE  /\ LiveSources \in Seq(Source) /\ Descending(LiveSources)
           /\ \A k \in DOMAIN LiveSources : FromCursor(k, LiveSources)
<1> USE ImportAssumption
<1>1. 1 \in Path /\ dir[1] \in File /\ cursor.file \in File /\ cursor.offset \in Nat
  BY DEF DiskTypes, DbTypes, Cursor, Exists, Path
<1>2. Size(dir[1]) \in Nat
  BY <1>1, Contents
<1>3. At(1, 0) \in Source /\ \A p \in Path : \A o : At(p, o).path = p /\ At(p, o).offset = o
  BY <1>1 DEF At, Source
<1>4. dir[1] >= cursor.file \/ ~OnPath(cursor.file)
  <2> SUFFICES ASSUME NEW p \in Path, dir[p] = cursor.file PROVE dir[1] >= cursor.file
    BY DEF OnPath
  <2>1. Exists(p) /\ 1 <= p
    BY <1>1 DEF Exists, Path
  <2> QED BY <1>1, <2>1, OlderIsBehind
<1>5. CASE dir[1] = cursor.file
  <2> DEFINE from == IF Size(dir[1]) < cursor.offset THEN 0 ELSE cursor.offset
  <2>1. LiveSources = <<At(1, from)>>
    BY <1>5 DEF LiveSources
  <2>2. from \in Nat /\ At(1, from) \in Source
    BY <1>1 DEF At, Source
  <2>3. cursor.offset <= Size(cursor.file) => from = cursor.offset
    BY <1>1, <1>2, <1>5
  <2> HIDE DEF from
  <2>4. LiveSources \in Seq(Source) /\ DOMAIN LiveSources = {1}
          /\ LiveSources[1].path = 1 /\ LiveSources[1].offset = from
    BY <1>1, <1>3, <2>1, <2>2
  <2>5. FromCursor(1, LiveSources)
    BY <1>1, <1>5, <2>3, <2>4 DEF FromCursor, File
  <2> QED BY <2>4, <2>5 DEF Descending
<1>6. CASE dir[1] # cursor.file /\ \A p \in Path : dir[p] # cursor.file
  <2>1. {p \in Path \ {1} : dir[p] = cursor.file} = {}
    BY <1>6
  <2>2. LiveSources = << >> \o <<At(1, 0)>>
    BY <1>6, <2>1 DEF LiveSources
  <2>3. <<At(1, 0)>> \in Seq(Source)
    BY <1>3
  <2>4. LiveSources = <<At(1, 0)>>
    BY <2>2, <2>3, ConcatEmptySeq
  <2>5. LiveSources \in Seq(Source) /\ DOMAIN LiveSources = {1} /\ LiveSources[1].path = 1
    BY <1>1, <1>3, <2>4
  <2>6. FromCursor(1, LiveSources)
    BY <1>1, <1>6, <2>5 DEF FromCursor, OnPath
  <2> QED BY <2>5, <2>6 DEF Descending
<1>7. CASE dir[1] # cursor.file /\ \E p \in Path : dir[p] = cursor.file
  <2> DEFINE rotated == {p \in Path \ {1} : dir[p] = cursor.file}
             old == CHOOSE p \in rotated : TRUE
  <2>1. rotated # {}
    BY <1>7
  <2>2. old \in Path /\ old # 1 /\ dir[old] = cursor.file
    BY <2>1
  <2>3. LiveSources = <<At(old, cursor.offset)>> \o <<At(1, 0)>>
    BY <1>7, <2>1 DEF LiveSources
  <2> HIDE DEF rotated, old
  <2>4. At(old, cursor.offset) \in Source
    BY <1>1, <2>2 DEF At, Source
  <2>5. <<At(old, cursor.offset)>> \in Seq(Source) /\ <<At(1, 0)>> \in Seq(Source)
    BY <1>3, <2>4
  <2>6. LiveSources \in Seq(Source) /\ DOMAIN LiveSources = {1, 2}
          /\ LiveSources[1] = At(old, cursor.offset) /\ LiveSources[2] = At(1, 0)
    <3>1. /\ LiveSources \in Seq(Source) /\ Len(LiveSources) = 2
          /\ \A i \in 1 .. 2 : LiveSources[i] = IF i <= 1 THEN <<At(old, cursor.offset)>>[i]
                                               ELSE <<At(1, 0)>>[i - 1]
      BY <2>3, <2>5, ConcatProperties
    <3>2. DOMAIN LiveSources = 1 .. 2
      BY <3>1, LenProperties
    <3> QED BY <3>1, <3>2
  <2>7. LiveSources[1].path = old /\ LiveSources[1].offset = cursor.offset
          /\ LiveSources[2].path = 1
    BY <1>1, <1>3, <2>2, <2>6
  <2>8. old > 1
    BY <2>2 DEF Path
  <2>9. FromCursor(1, LiveSources)
    BY <1>1, <2>2, <2>7 DEF FromCursor, Exists, File
  <2>10. FromCursor(2, LiveSources)
    BY <1>1, <1>4, <1>7, <2>7 DEF FromCursor
  <2>11. Descending(LiveSources)
    BY <2>6, <2>7, <2>8 DEF Descending
  <2> QED BY <2>6, <2>9, <2>10, <2>11
<1> QED BY <1>5, <1>6, <1>7

(* What ListSources leaves.                                                *)
LEMMA Listed ==
    ASSUME DiskTypes, DbTypes, DirShape, ListSources
    PROVE  /\ sources' \in Seq(Source) /\ Descending(sources')
           /\ \A k \in DOMAIN sources' : FromCursor(k, sources')
           /\ fullHistory => Listing(sources')
  BY HistoryListing, LiveListing DEF ListSources

-----------------------------------------------------------------------------
LEMMA BatchEndBounds ==
    ASSUME DiskTypes, RunTypes, pc = "read", fd.pos < Size(fd.file)
    PROVE  /\ fd \in Reader /\ fd.file \in File /\ fd.path \in Path /\ fd.pos \in Nat
           /\ BatchEnd \in Nat /\ fd.pos < BatchEnd /\ BatchEnd <= Size(fd.file)
           /\ Size(fd.file) \in Nat
           /\ Batch \subseteq Line
<1> USE ImportAssumption
<1>1. fd \in Reader
  BY DEF RunTypes, FdOpen
<1>2. fd.file \in File /\ fd.path \in Path /\ fd.pos \in Nat
  BY <1>1 DEF Reader
<1>3. Size(fd.file) \in Nat /\ DOMAIN content[fd.file] = 1 .. Size(fd.file)
        /\ \A i \in 1 .. Size(fd.file) : content[fd.file][i] \in Line
  BY <1>2, Contents
<1>4. BatchEnd \in Nat /\ fd.pos < BatchEnd /\ BatchEnd <= Size(fd.file)
  BY <1>2, <1>3 DEF BatchEnd
<1>5. Batch \subseteq Line
  BY <1>2, <1>3, <1>4 DEF Batch
<1> QED BY <1>1, <1>2, <1>3, <1>4, <1>5

LEMMA DbTypesStep == TypeInv /\ [Next]_vars => DbTypes'
<1> SUFFICES ASSUME DiskTypes, DbTypes, RunTypes, [Next]_vars PROVE DbTypes'
  BY TypeParts
<1> USE ImportAssumption
<1>1. status' \in {"absent", "running", "complete"}
  BY DEF DbTypes, Next, vars, WriteLine, Rename, Reopen, Truncate, Import,
         Begin, ClearCursor, ListSources, StartAtEnd, NothingToRead, NoSourceLeft,
         OpenSource, EndOfFile, CommitBatch, Missing, Finish, Crash, db
<1>2. CASE UNCHANGED <<cursor, counted, twice>>
  BY <1>1, <1>2 DEF DbTypes
<1>3. CASE ClearCursor
  BY <1>1, <1>3 DEF DbTypes, ClearCursor
<1>4. CASE StartAtEnd
  <2>1. dir[1] \in File
    BY <1>4 DEF StartAtEnd, DiskTypes, Exists, Path
  <2>2. cursor' \in Cursor
    BY <1>4, <2>1, Contents DEF StartAtEnd, Cursor
  <2> QED BY <1>1, <1>4, <2>2 DEF DbTypes, StartAtEnd
<1>5. CASE CommitBatch
  <2>1. fd.path \in Path /\ BatchEnd \in Nat /\ Batch \subseteq Line
    BY <1>5, BatchEndBounds DEF CommitBatch
  <2>2. dir[fd.path] \in File
    BY <1>5, <2>1 DEF CommitBatch, DiskTypes, Exists
  <2>3. cursor' \in Cursor
    BY <1>5, <2>1, <2>2 DEF CommitBatch, Cursor
  <2> QED BY <1>1, <1>5, <2>1, <2>3 DEF DbTypes, CommitBatch
<1> QED BY <1>2, <1>3, <1>4, <1>5, DbFrame

LEMMA OnDiskLines == DiskTypes => OnDisk \subseteq Line
<1> SUFFICES ASSUME DiskTypes, NEW l \in OnDisk PROVE l \in Line
  OBVIOUS
<1>1. PICK f \in File : l \in Range(content[f])
  <2> DEFINE named == UNION {Range(content[dir[p]]) : p \in {q \in Path : Exists(q)}}
  <2>1. CASE l \in Range(content[logging])
    BY <2>1 DEF DiskTypes
  <2>2. CASE l \in named
    <3>1. PICK p \in Path : Exists(p) /\ l \in Range(content[dir[p]])
      BY <2>2
    <3> QED BY <3>1 DEF DiskTypes, Exists
  <2>3. OnDisk = named \cup Range(content[logging])
    BY DEF OnDisk
  <2> HIDE DEF named
  <2> QED BY <2>1, <2>2, <2>3
<1> QED BY <1>1, Contents DEF Range

LEMMA RunTypesStep == TypeInv /\ DirShape /\ [Next]_vars => RunTypes'
<1> SUFFICES ASSUME DiskTypes, DbTypes, RunTypes, DirShape, [Next]_vars PROVE RunTypes'
  BY TypeParts
<1> USE ImportAssumption
<1>1. raced' \in BOOLEAN
  BY DEF RunTypes, Next, vars, WriteLine, Rename, Reopen, Truncate, Import,
         Begin, ClearCursor, ListSources, StartAtEnd, NothingToRead, NoSourceLeft,
         OpenSource, EndOfFile, CommitBatch, Missing, Finish, Crash, Busy
<1>2. CASE UNCHANGED run
  BY <1>1, <1>2 DEF RunTypes, FdOpen, run
<1>3. CASE Over
  <2>1. << >> \in Seq(Source)
    OBVIOUS
  <2> QED BY <1>1, <1>3, <2>1 DEF RunTypes, FdOpen, Over
<1>4. CASE Begin \/ ClearCursor \/ StartAtEnd \/ NothingToRead \/ NoSourceLeft
  BY <1>1, <1>4 DEF RunTypes, FdOpen, Begin, ClearCursor, StartAtEnd, NothingToRead,
                    NoSourceLeft
<1>5. CASE ListSources
  BY <1>1, <1>5, Listed, OnDiskLines DEF RunTypes, FdOpen, ListSources
<1>6. CASE OpenSource
  <2>1. Head(sources) \in Source /\ Tail(sources) \in Seq(Source)
    BY <1>6, HeadTailProperties DEF RunTypes, OpenSource
  <2>2. fd' \in Reader
    BY <1>6, <2>1 DEF OpenSource, Source, DiskTypes, Exists, Reader
  <2> QED BY <1>1, <1>6, <2>1, <2>2 DEF RunTypes, FdOpen, OpenSource
<1>7. CASE EndOfFile
  BY <1>1, <1>7 DEF RunTypes, FdOpen, EndOfFile
<1>8. CASE CommitBatch /\ ~Over
  <2>1. fd \in Reader /\ BatchEnd \in Nat
    BY <1>8, BatchEndBounds DEF CommitBatch
  <2>2. pc' = "read" /\ fd' = [fd EXCEPT !.pos = BatchEnd] /\ UNCHANGED <<sources, listed>>
    BY <1>8 DEF CommitBatch, Over
  <2>3. fd' \in Reader
    BY <2>1, <2>2 DEF Reader
  <2> QED BY <1>1, <2>2, <2>3 DEF RunTypes, FdOpen
<1>9. CASE Finish
  BY <1>1, <1>9 DEF RunTypes, FdOpen, Finish
<1> QED BY <1>2, <1>3, <1>4, <1>5, <1>6, <1>7, <1>8, <1>9, RunFrame

LEMMA TypeStep == TypeInv /\ DirShape /\ [Next]_vars => TypeInv'
  BY DiskTypesStep, DbTypesStep, RunTypesStep, TypeParts, PTL

-----------------------------------------------------------------------------
(* The log directory.                                                      *)

LEMMA RunDiskFrame ==
    [Next]_vars =>
        \/ UNCHANGED <<dir, content, logging, written, rotations>>
        \/ WriteLine \/ Rename \/ Reopen \/ Truncate
  BY DiskFrame DEF Environment

LEMMA Raised == \A a, b, c \in Nat : \A d \in {1, 2} : a <= b + d /\ b <= c => a <= c + d
  OBVIOUS

(* The file the web server writes is the newest one.                       *)
LEMMA LoggingIsNewest ==
    ASSUME DiskTypes, DirShape, NEW p \in Path, Exists(p)
    PROVE  dir[p] \in File /\ dir[p] <= logging
<1> USE ImportAssumption
<1>1. 2 \in Path /\ 1 \in Path /\ p \in Nat /\ p >= 1
  BY DEF Path
<1>2. CASE Exists(1)
  <2>1. dir[p] <= dir[1] /\ dir[1] = logging
    BY <1>1, <1>2, OlderIsBehind DEF DirShape
  <2> QED BY <2>1 DEF DiskTypes, Exists
<1>3. CASE ~Exists(1)
  <2>1. p >= 2
    BY <1>1, <1>3
  <2>2. dir[p] <= dir[2] /\ dir[2] = logging
    BY <1>1, <1>3, <2>1, OlderIsBehind DEF DirShape
  <2> QED BY <2>2 DEF DiskTypes, Exists
<1> QED BY <1>2, <1>3

LEMMA DirShapeStep == TypeInv /\ DirShape /\ [Next]_vars => DirShape'
<1> SUFFICES ASSUME DiskTypes, DirShape, [Next]_vars PROVE DirShape'
  BY TypeParts
<1> USE ImportAssumption
<1>1. CASE UNCHANGED <<dir, logging>> /\ rotations' >= rotations
  <2>1. \A p \in Path : Exists(p)' <=> Exists(p)
    BY <1>1 DEF Exists
  <2>2. 1 \in Path /\ 2 \in Path
    BY DEF Path
  <2>3. rotations \in Nat /\ rotations' \in Nat /\ logging \in Nat
    BY DiskTypesStep, RunDiskFrame DEF DiskTypes, File, Next, vars, WriteLine, Rename,
       Reopen, Truncate
  <2>4. \A p, q \in Path : p < q /\ Exists(p)' /\ Exists(q)' => dir'[p] > dir'[q]
    BY <1>1, <2>1 DEF DirShape
  <2>5. \E last \in Path : \A p \in Path : p > 1 => (Exists(p)' <=> p <= last)
    BY <2>1 DEF DirShape
  <2>6. Exists(2)' /\ IF Exists(1)' THEN dir'[1] = logging' ELSE dir'[2] = logging'
    BY <1>1, <2>1, <2>2 DEF DirShape
  <2>7. logging' <= rotations' + 2 /\ (~Exists(1)' => logging' <= rotations' + 1)
    <3>1. logging <= rotations + 2 /\ (~Exists(1) => logging <= rotations + 1)
      BY DEF DirShape
    <3>2. logging' = logging /\ (Exists(1)' <=> Exists(1))
      BY <1>1, <2>1, <2>2
    <3>3. rotations' >= rotations /\ logging' \in Nat
      BY <1>1, <2>3
    <3>4. logging' <= rotations' + 2
      BY <2>3, <3>1, <3>2, <3>3, Raised
    <3>5. ASSUME ~Exists(1)' PROVE logging' <= rotations' + 1
      <4>1. logging <= rotations + 1
        BY <3>1, <3>2, <3>5
      <4> QED BY <2>3, <3>2, <3>3, <4>1, Raised
    <3> QED BY <3>4, <3>5
  <2> QED BY <2>4, <2>5, <2>6, <2>7 DEF DirShape
<1>2. CASE Rename
  <2>1. \A p \in Path : p # 1 => p - 1 \in Path /\ dir'[p] = dir[p - 1]
    BY <1>2 DEF Rename, Path
  <2>2. dir'[1] = None /\ 1 \in Path /\ 2 \in Path /\ KeptFiles \in Path
    BY <1>2 DEF Rename, Path
  <2>3. ~Exists(1)' /\ \A p \in Path : p # 1 => (Exists(p)' <=> Exists(p - 1))
    BY <2>1, <2>2 DEF Exists
  <2>4. ASSUME NEW p \in Path, NEW q \in Path, p < q, Exists(p)', Exists(q)'
        PROVE  dir'[p] > dir'[q]
    <3>1. p # 1 /\ q # 1
      BY <2>3, <2>4 DEF Path
    <3>2. p - 1 \in Path /\ q - 1 \in Path /\ p - 1 < q - 1
            /\ Exists(p - 1) /\ Exists(q - 1)
      BY <2>1, <2>3, <2>4, <3>1 DEF Path
    <3> QED BY <2>1, <3>1, <3>2 DEF DirShape
  <2>5. \E last \in Path : \A p \in Path : p > 1 => (Exists(p)' <=> p <= last)
    <3>1. PICK last \in Path : \A p \in Path : p > 1 => (Exists(p) <=> p <= last)
      BY DEF DirShape
    <3> DEFINE next == IF last = KeptFiles THEN last ELSE last + 1
    <3>2. last >= 2
      BY <2>2, <3>1 DEF DirShape, Path
    <3>3. next \in Path
      BY DEF Path
    <3>4. ASSUME NEW p \in Path, p > 1 PROVE Exists(p)' <=> p <= next
      <4>1. CASE p = 2
        BY <1>2, <2>3, <3>2, <4>1 DEF Rename, Path
      <4>2. CASE p > 2
        <5>1. Exists(p)' <=> p - 1 <= last
          BY <2>1, <2>3, <3>1, <4>2 DEF Path
        <5> QED BY <4>2, <5>1 DEF Path
      <4> QED BY <3>4, <4>1, <4>2 DEF Path
    <3> QED BY <3>3, <3>4
  <2>6. Exists(2)' /\ dir'[2] = logging'
    BY <1>2, <2>1, <2>2, <2>3 DEF Rename
  <2>7. logging' <= rotations' + 2 /\ logging' <= rotations' + 1
    BY <1>2 DEF Rename, DirShape, DiskTypes, File
  <2> QED BY <2>3, <2>4, <2>5, <2>6, <2>7 DEF DirShape
<1>3. CASE Reopen
  <2>1. 1 \in Path /\ 2 \in Path /\ rotations + 2 \in File
    BY DEF DiskTypes, Path, File
  <2>2. dir'[1] = rotations + 2 /\ \A p \in Path : p # 1 => dir'[p] = dir[p]
    BY <1>3, <2>1 DEF Reopen, DiskTypes
  <2>3. Exists(1)' /\ \A p \in Path : p # 1 => (Exists(p)' <=> Exists(p))
    BY <2>1, <2>2 DEF Exists
  <2>4. ASSUME NEW p \in Path, NEW q \in Path, p < q, Exists(p)', Exists(q)'
        PROVE  dir'[p] > dir'[q]
    <3>1. q # 1 /\ Exists(q) /\ dir'[q] = dir[q]
      BY <2>2, <2>3, <2>4 DEF Path
    <3>2. CASE p = 1
      <4>1. dir[q] \in File /\ dir[q] <= logging /\ logging \in File
        BY <3>1, LoggingIsNewest DEF DiskTypes
      <4>2. logging <= rotations + 1
        BY <1>3 DEF Reopen, DirShape
      <4> QED BY <2>2, <3>1, <3>2, <4>1, <4>2 DEF DiskTypes, File
    <3>3. CASE p # 1
      BY <2>2, <2>3, <2>4, <3>1, <3>3 DEF DirShape
    <3> QED BY <3>2, <3>3
  <2>5. \E last \in Path : \A p \in Path : p > 1 => (Exists(p)' <=> p <= last)
    BY <2>3 DEF DirShape
  <2>6. Exists(2)' /\ dir'[1] = logging' /\ logging' <= rotations' + 2
    BY <1>3, <2>1, <2>2, <2>3 DEF Reopen, DirShape, DiskTypes
  <2> QED BY <2>3, <2>4, <2>5, <2>6 DEF DirShape
<1>4. WriteLine \/ Truncate => UNCHANGED <<dir, logging>> /\ rotations' >= rotations
  BY DEF WriteLine, Truncate, DiskTypes
<1>5. UNCHANGED rotations => rotations' >= rotations
  BY DEF DiskTypes
<1> QED BY <1>1, <1>2, <1>3, <1>4, <1>5, RunDiskFrame

(* What the web server's write does to the lines.                          *)
LEMMA WriteLineEffect ==
    ASSUME DiskTypes, WriteLine
    PROVE  /\ written + 1 \in Line
           /\ \A g \in File : g # logging => content'[g] = content[g]
           /\ Len(content'[logging]) = Size(logging) + 1
           /\ DOMAIN content'[logging] = 1 .. Size(logging) + 1
           /\ \A i \in 1 .. Size(logging) : content'[logging][i] = content[logging][i]
           /\ content'[logging][Size(logging) + 1] = written + 1
<1> USE ImportAssumption
<1>1. written + 1 \in Line /\ logging \in File
  BY DEF WriteLine, DiskTypes, Line
<1>2. content' = [content EXCEPT ![logging] = Append(content[logging], written + 1)]
  BY DEF WriteLine
<1>3. content'[logging] = Append(content[logging], written + 1)
        /\ \A g \in File : g # logging => content'[g] = content[g]
  BY <1>1, <1>2 DEF DiskTypes
<1>4. content[logging] \in Seq(Line)
  BY <1>1 DEF DiskTypes
<1>5. /\ content'[logging] \in Seq(Line)
      /\ Len(content'[logging]) = Len(content[logging]) + 1
      /\ \A i \in 1 .. Len(content[logging]) : content'[logging][i] = content[logging][i]
      /\ content'[logging][Len(content[logging]) + 1] = written + 1
  BY <1>1, <1>3, <1>4, AppendProperties
<1>6. DOMAIN content'[logging] = 1 .. Len(content[logging]) + 1
  BY <1>5, LenProperties
<1> QED BY <1>1, <1>3, <1>5, <1>6 DEF Size

(* Every line of a log after a step was there before it, at its place, or  *)
(* was just written at the end of the newest file.                         *)
LEMMA LinesAfter ==
    ASSUME DiskTypes, [Next]_vars, NEW g \in File, NEW i \in DOMAIN content'[g]
    PROVE  \/ i \in DOMAIN content[g] /\ content'[g][i] = content[g][i]
           \/ /\ WriteLine /\ g = logging /\ i = Size(logging) + 1
              /\ content'[g][i] = written + 1
<1>1. CASE UNCHANGED content
  BY <1>1
<1>2. CASE WriteLine
  <2>1. CASE g # logging
    BY <1>2, <2>1, WriteLineEffect
  <2>2. CASE g = logging
    <3>1. DOMAIN content[logging] = 1 .. Size(logging) /\ Size(logging) \in Nat
      BY <2>2, Contents
    <3>2. i = Size(logging) + 1 \/ i \in 1 .. Size(logging)
      BY <1>2, <2>2, <3>1, WriteLineEffect
    <3> QED BY <1>2, <2>2, <3>1, <3>2, WriteLineEffect
  <2> QED BY <2>1, <2>2
<1>3. CASE Truncate
  BY <1>3 DEF Truncate, DiskTypes
<1>4. Rename \/ Reopen => UNCHANGED content
  BY DEF Rename, Reopen
<1> QED BY <1>1, <1>2, <1>3, <1>4, RunDiskFrame

LEMMA WritingGrows ==
    ASSUME DiskTypes, DirShape, [Next]_vars
    PROVE  /\ logging \in Nat /\ logging' \in Nat /\ logging' >= logging
           /\ written \in Nat /\ written' \in Nat /\ written' >= written
           /\ WriteLine => logging' = logging /\ written' = written + 1
<1>1. logging \in Nat /\ written \in Nat /\ rotations \in Nat
  BY DEF DiskTypes, File
<1>2. CASE WriteLine
  BY <1>1, <1>2 DEF WriteLine
<1>3. CASE ~WriteLine /\ UNCHANGED <<logging, written>>
  BY <1>1, <1>3
<1>4. CASE Reopen
  <2>1. logging <= rotations + 2 /\ logging' = rotations + 2 /\ written' = written
    BY <1>4 DEF Reopen, DirShape
  <2>2. WriteLine => logging' = logging /\ written' = written + 1
    BY DEF WriteLine
  <2> QED BY <1>1, <2>1, <2>2
<1>5. Rename \/ Truncate => UNCHANGED <<logging, written>>
  BY DEF Rename, Truncate
<1> QED BY <1>2, <1>3, <1>4, <1>5, RunDiskFrame

LEMMA ContentShapeStep == TypeInv /\ DirShape /\ ContentShape /\ [Next]_vars => ContentShape'
<1> SUFFICES ASSUME DiskTypes, DirShape, ContentShape, [Next]_vars PROVE ContentShape'
  BY TypeParts
<1> USE ImportAssumption
<1>1. logging \in Nat /\ logging' \in Nat /\ logging' >= logging
       /\ written \in Nat /\ written' \in Nat /\ written' >= written
       /\ (WriteLine => logging' = logging /\ written' = written + 1)
  BY WritingGrows
<1>2. \A g \in File : \A i \in DOMAIN content[g] :
         content[g][i] \in Nat /\ i \in Nat /\ g \in Nat /\ i <= Size(g) /\ Size(g) \in Nat
  BY Contents DEF Line, File
<1>3. ASSUME NEW g \in File, NEW i \in DOMAIN content'[g]
      PROVE  g <= logging' /\ content'[g][i] <= written'
  <2>1. CASE i \in DOMAIN content[g] /\ content'[g][i] = content[g][i]
    <3>1. g <= logging /\ content[g][i] <= written
      BY <2>1 DEF ContentShape
    <3> QED BY <1>1, <1>2, <2>1, <3>1
  <2>2. CASE WriteLine /\ g = logging /\ content'[g][i] = written + 1
    BY <1>1, <2>2
  <2> QED BY <2>1, <2>2, LinesAfter
<1>4. ASSUME NEW g \in File, NEW i \in DOMAIN content'[g],
             NEW h \in File, NEW j \in DOMAIN content'[h],
             g < h \/ (g = h /\ i < j)
      PROVE  content'[g][i] < content'[h][j]
  <2>1. CASE i \in DOMAIN content[g] /\ content'[g][i] = content[g][i]
    <3>1. CASE j \in DOMAIN content[h] /\ content'[h][j] = content[h][j]
      BY <1>4, <2>1, <3>1 DEF ContentShape
    <3>2. CASE content'[h][j] = written + 1
      <4>1. content[g][i] <= written
        BY <2>1 DEF ContentShape
      <4> QED BY <1>1, <1>2, <2>1, <3>2, <4>1
    <3> QED BY <3>1, <3>2, LinesAfter
  <2>2. CASE WriteLine /\ g = logging /\ i = Size(logging) + 1
    <3>1. CASE j \in DOMAIN content[h]
      <4>1. h <= logging
        BY <3>1 DEF ContentShape
      <4>2. h = logging /\ i < j
        BY <1>1, <1>2, <1>4, <2>2, <3>1, <4>1
      <4> QED BY <1>2, <2>2, <3>1, <4>2
    <3>2. CASE h = logging /\ j = Size(logging) + 1
      BY <1>1, <1>4, <2>2, <3>2, Contents
    <3> QED BY <3>1, <3>2, LinesAfter
  <2> QED BY <2>1, <2>2, LinesAfter
<1> QED BY <1>3, <1>4 DEF ContentShape

-----------------------------------------------------------------------------
(* What is counted.                                                        *)

(* A line is at one place.                                                 *)
LEMMA OnePlace ==
    ASSUME DiskTypes, ContentShape,
           NEW g \in File, NEW i \in DOMAIN content[g],
           NEW h \in File, NEW j \in DOMAIN content[h], content[g][i] = content[h][j]
    PROVE  g = h /\ i = j
<1>1. g \in Nat /\ h \in Nat /\ i \in Nat /\ j \in Nat /\ content[g][i] \in Nat
  BY Contents DEF File, Line
<1>2. ~(g < h) /\ ~(h < g)
  BY <1>1 DEF ContentShape
<1>3. ~(i < j) /\ ~(j < i)
  BY <1>1, <1>2 DEF ContentShape
<1> QED BY <1>1, <1>2, <1>3

LEMMA BatchLines ==
    ASSUME DiskTypes, RunTypes, ContentShape, pc = "read", fd.pos < Size(fd.file),
           NEW g \in File, NEW i \in DOMAIN content[g]
    PROVE  content[g][i] \in Batch <=> g = fd.file /\ fd.pos < i /\ i <= BatchEnd
<1>1. fd.file \in File /\ fd.pos \in Nat /\ BatchEnd \in Nat /\ BatchEnd <= Size(fd.file)
        /\ Size(fd.file) \in Nat /\ DOMAIN content[fd.file] = 1 .. Size(fd.file)
        /\ i \in Nat
  BY BatchEndBounds, Contents
<1>2. ASSUME content[g][i] \in Batch
      PROVE  g = fd.file /\ fd.pos < i /\ i <= BatchEnd
  <2>1. PICK j \in fd.pos + 1 .. BatchEnd : content[fd.file][j] = content[g][i]
    BY <1>2 DEF Batch
  <2>2. j \in DOMAIN content[fd.file]
    BY <1>1
  <2>3. g = fd.file /\ i = j
    BY <1>1, <2>1, <2>2, OnePlace
  <2> QED BY <1>1, <2>3
<1>3. ASSUME g = fd.file, fd.pos < i, i <= BatchEnd PROVE content[g][i] \in Batch
  <2>1. i \in fd.pos + 1 .. BatchEnd
    BY <1>1, <1>3
  <2> QED BY <1>3, <2>1 DEF Batch
<1> QED BY <1>2, <1>3

(* After a batch, what was counted reaches to its end.                     *)
LEMMA CommitReads ==
    ASSUME TypeInv, ContentShape, ReadAhead, CommitBatch,
           NEW g \in File, NEW i \in Nat, Read(g, i)'
    PROVE  g < fd.file \/ (g = fd.file /\ i <= BatchEnd)
<1>1. DiskTypes /\ RunTypes /\ pc = "read" /\ fd.pos < Size(fd.file) /\ fd # None
  BY TypeParts DEF CommitBatch, RunTypes, FdOpen
<1>2. fd.file \in File /\ fd.pos \in Nat /\ BatchEnd \in Nat /\ fd.pos < BatchEnd
  BY <1>1, BatchEndBounds
<1>3. i \in DOMAIN content[g] /\ (content[g][i] \in counted \/ content[g][i] \in Batch)
  BY DEF CommitBatch, Read, disk
<1>4. CASE content[g][i] \in counted
  <2>1. Read(g, i)
    BY <1>3, <1>4 DEF Read
  <2>2. g < fd.file \/ (g = fd.file /\ i <= fd.pos)
    BY <1>1, <2>1 DEF ReadAhead, OpenAhead
  <2> QED BY <1>2, <2>2
<1>5. CASE content[g][i] \in Batch
  BY <1>1, <1>3, <1>5, BatchLines
<1> QED BY <1>3, <1>4, <1>5

(* Other steps count nothing.                                              *)
LEMMA ReadBefore ==
    ASSUME TypeInv, CursorCovers, [Next]_vars, UNCHANGED counted,
           NEW g \in File, NEW i \in Nat, Read(g, i)'
    PROVE  Read(g, i)
<1>1. DiskTypes /\ i \in DOMAIN content'[g] /\ content'[g][i] \in counted
  BY TypeParts DEF Read
<1>2. content'[g][i] # written + 1
  BY <1>1 DEF CursorCovers, DiskTypes
<1> QED BY <1>1, <1>2, LinesAfter DEF Read

LEMMA CountedWithinWritten ==
    TypeInv /\ ContentShape /\ CursorCovers /\ [Next]_vars => (counted \subseteq 1 .. written)'
<1> SUFFICES ASSUME TypeInv, ContentShape, CursorCovers, [Next]_vars
             PROVE  counted' \subseteq 1 .. written'
  OBVIOUS
<1>1. DiskTypes /\ DbTypes /\ RunTypes
  BY TypeParts
<1>2. written \in Nat /\ written' \in Nat /\ written <= written'
  BY <1>1, RunDiskFrame DEF WriteLine, Rename, Reopen, Truncate, DiskTypes
<1>3. counted \subseteq 1 .. written
  BY DEF CursorCovers
<1>4. CASE UNCHANGED counted
  BY <1>2, <1>3, <1>4
<1>5. CASE CommitBatch
  <2>1. pc = "read" /\ fd.pos < Size(fd.file) /\ UNCHANGED written /\ counted' = counted \cup Batch
    BY <1>5 DEF CommitBatch, disk
  <2>2. fd.file \in File /\ fd.pos \in Nat /\ BatchEnd \in Nat /\ BatchEnd <= Size(fd.file)
          /\ Size(fd.file) \in Nat
    BY <1>1, <2>1, BatchEndBounds
  <2>3. ASSUME NEW l \in Batch PROVE l \in 1 .. written
    <3>1. PICK i \in fd.pos + 1 .. BatchEnd : l = content[fd.file][i]
      BY DEF Batch
    <3>2. i \in DOMAIN content[fd.file]
      BY <1>1, <2>2, Contents
    <3>3. l <= written /\ l \in Line
      BY <1>1, <2>2, <3>1, <3>2, Contents DEF ContentShape
    <3> QED BY <1>2, <3>3 DEF Line
  <2> QED BY <1>3, <2>1, <2>3
<1>6. ClearCursor \/ StartAtEnd => UNCHANGED counted
  BY DEF ClearCursor, StartAtEnd
<1> QED BY <1>4, <1>5, <1>6, DbFrame

LEMMA CursorCoversStep ==
    /\ TypeInv /\ ContentShape /\ CursorCovers /\ DirShape /\ ReadAhead /\ StatusShape
    /\ [Next]_vars
    => CursorCovers'
<1> SUFFICES ASSUME TypeInv, ContentShape, CursorCovers, DirShape, ReadAhead, StatusShape,
                    [Next]_vars
             PROVE  CursorCovers'
  OBVIOUS
<1> USE ImportAssumption
<1>1. DiskTypes /\ DbTypes /\ RunTypes
  BY TypeParts
<1>2. CASE UNCHANGED <<cursor, counted>>
  <2>1. cursor' = None => counted' = {}
    BY <1>2 DEF CursorCovers
  <2>2. ASSUME cursor' # None, NEW g \in File, NEW i \in Nat, Read(g, i)'
        PROVE  \/ g < cursor'.file
               \/ g = cursor'.file /\ i <= cursor'.offset /\ cursor'.offset <= Size(g)'
    <3>1. Read(g, i) /\ cursor.offset \in Nat
      BY <1>1, <1>2, <2>2, ReadBefore DEF DbTypes, Cursor
    <3>2. g < cursor.file \/ (g = cursor.file /\ i <= cursor.offset /\ cursor.offset <= Size(g))
      BY <1>2, <2>2, <3>1 DEF CursorCovers
    <3>3. Size(g) \in Nat /\ Size(g)' \in Nat /\ (Size(g) <= Size(g)' \/ Size(g)' = 0)
      <4>1. CASE WriteLine
        <5>1. g # logging => Size(g)' = Size(g)
          BY <1>1, <4>1, WriteLineEffect DEF Size
        <5>2. g = logging => Size(g)' = Size(g) + 1
          BY <1>1, <4>1, WriteLineEffect DEF Size
        <5>3. Size(g) \in Nat
          BY <1>1, Contents
        <5> QED BY <5>1, <5>2, <5>3
      <4>2. CASE UNCHANGED content
        <5>1. Size(g)' = Size(g) /\ Size(g) \in Nat
          BY <1>1, <4>2, Contents DEF Size
        <5> QED BY <5>1
      <4>3. CASE Truncate
        <5>1. content'[g] = << >> \/ content'[g] = content[g]
          BY <1>1, <4>3 DEF Truncate, DiskTypes
        <5>2. Size(g)' = 0 \/ Size(g)' = Size(g)
          BY <5>1 DEF Size
        <5>3. Size(g) \in Nat
          BY <1>1, Contents
        <5> QED BY <5>2, <5>3
      <4> QED BY <4>1, <4>2, <4>3, RunDiskFrame DEF Rename, Reopen
    <3>4. i \in 1 .. Size(g)'
      <4>1. i \in DOMAIN content'[g]
        BY <2>2 DEF Read
      <4>2. DiskTypes'
        BY DiskTypesStep
      <4>3. content'[g] \in Seq(Line)
        BY <4>2 DEF DiskTypes
      <4> QED BY <4>1, <4>3, LenProperties DEF Size
    <3> QED BY <1>2, <3>1, <3>2, <3>3, <3>4
  <2>3. (counted \subseteq 1 .. written)'
    BY CountedWithinWritten
  <2> QED BY <2>1, <2>2, <2>3 DEF CursorCovers
<1>3. CASE counted' = {}
  BY <1>3 DEF CursorCovers, Read
<1>4. ClearCursor \/ StartAtEnd => counted' = {}
  BY DEF ClearCursor, StartAtEnd, StatusShape, CursorCovers
<1>5. CASE CommitBatch
  <2>1. pc = "read" /\ fd.pos < Size(fd.file) /\ fd # None
          /\ cursor' = [file |-> dir[fd.path], offset |-> BatchEnd]
          /\ Exists(fd.path) /\ content' = content
    BY <1>1, <1>5 DEF CommitBatch, RunTypes, FdOpen, disk
  <2>2. fd.file \in File /\ BatchEnd \in Nat /\ BatchEnd <= Size(fd.file) /\ fd.path \in Path
    BY <1>1, <2>1, BatchEndBounds
  <2>3. dir[fd.path] \in File /\ dir[fd.path] >= fd.file
    <3>1. fd.path \in 1 .. fd.path
      BY <2>2 DEF Path
    <3> QED BY <1>1, <2>1, <2>2, <3>1 DEF ReadAhead, OpenAhead, DiskTypes, Exists
  <2>4. cursor'.file = dir[fd.path] /\ cursor'.offset = BatchEnd
    BY <2>1
  <2>5. cursor' # None
    <3>1. cursor' \in Cursor
      BY <2>1, <2>2, <2>3 DEF Cursor
    <3> QED BY <3>1
  <2>6. ASSUME NEW g \in File, NEW i \in Nat, Read(g, i)'
        PROVE  \/ g < cursor'.file
               \/ g = cursor'.file /\ i <= cursor'.offset /\ cursor'.offset <= Size(g)'
    <3>1. g < fd.file \/ (g = fd.file /\ i <= BatchEnd)
      BY <1>5, <2>6, CommitReads
    <3>2. Size(g)' = Size(g)
      BY <2>1 DEF Size
    <3> QED BY <2>2, <2>3, <2>4, <3>1, <3>2 DEF File
  <2>7. (counted \subseteq 1 .. written)'
    BY CountedWithinWritten
  <2> QED BY <2>5, <2>6, <2>7 DEF CursorCovers
<1> QED BY <1>2, <1>3, <1>4, <1>5, DbFrame

LEMMA CursorPlacedStep ==
    TypeInv /\ DirShape /\ CursorPlaced /\ [Next]_vars => CursorPlaced'
<1> SUFFICES ASSUME TypeInv, DirShape, CursorPlaced, [Next]_vars PROVE CursorPlaced'
  OBVIOUS
<1> USE ImportAssumption
<1>1. DiskTypes /\ DbTypes /\ RunTypes
  BY TypeParts
<1>2. cursor # None => cursor.file \in File
  BY <1>1 DEF DbTypes, Cursor
<1>3. CASE UNCHANGED <<cursor, dir>>
  BY <1>3 DEF CursorPlaced, Exists
<1>4. CASE Rename /\ UNCHANGED cursor /\ cursor # None
  <2>1. \A p \in Path : p # 1 => p - 1 \in Path /\ dir'[p] = dir[p - 1]
    BY <1>4 DEF Rename, Path
  <2>2. dir'[1] = None /\ 1 \in Path
    BY <1>4 DEF Rename, Path
  <2>3. CASE \E p \in Path : p < KeptFiles /\ dir[p] = cursor.file
    <3>1. PICK p \in Path : p < KeptFiles /\ dir[p] = cursor.file
      BY <2>3
    <3>2. p + 1 \in Path /\ p + 1 # 1 /\ (p + 1) - 1 = p
      BY <3>1 DEF Path
    <3>3. dir'[p + 1] = cursor'.file
      BY <1>4, <2>1, <3>1, <3>2
    <3> QED BY <3>2, <3>3 DEF CursorPlaced
  <2>4. CASE dir[KeptFiles] = cursor.file
    <3>1. KeptFiles \in Path /\ Exists(KeptFiles)
      BY <1>2, <1>4, <2>4 DEF Path, Exists
    <3>2. ASSUME NEW p \in Path, Exists(p)' PROVE cursor'.file < dir'[p]
      <4>1. p # 1 /\ Exists(p - 1) /\ p - 1 \in Path /\ p - 1 < KeptFiles
        BY <2>1, <2>2, <3>2 DEF Exists, Path
      <4>2. dir[p - 1] > dir[KeptFiles] 
        BY <3>1, <4>1 DEF DirShape
      <4>3. dir[p - 1] \in File
        BY <1>1, <4>1 DEF DiskTypes, Exists
      <4> QED BY <1>2, <1>4, <2>1, <2>4, <4>1, <4>2, <4>3 DEF File
    <3> QED BY <3>2 DEF CursorPlaced
  <2>5. CASE \A p \in Path : Exists(p) => cursor.file < dir[p]
    <3>1. ASSUME NEW p \in Path, Exists(p)' PROVE cursor'.file < dir'[p]
      <4>1. p # 1 /\ Exists(p - 1) /\ p - 1 \in Path
        BY <2>1, <2>2, <3>1 DEF Exists
      <4> QED BY <1>4, <2>1, <2>5, <4>1
    <3> QED BY <3>1 DEF CursorPlaced
  <2> QED BY <1>4, <2>3, <2>4, <2>5 DEF CursorPlaced, Path
<1>5. CASE Reopen /\ UNCHANGED cursor /\ cursor # None
  <2>1. 1 \in Path /\ 2 \in Path /\ ~Exists(1)
    BY <1>5 DEF Path, Reopen
  <2>2. dir'[1] = rotations + 2 /\ \A p \in Path : p # 1 => dir'[p] = dir[p]
    BY <1>1, <1>5, <2>1 DEF Reopen, DiskTypes
  <2>3. CASE \E p \in Path : dir[p] = cursor.file
    <3>1. PICK p \in Path : dir[p] = cursor.file
      BY <2>3
    <3>2. p # 1
      BY <1>2, <1>5, <2>1, <3>1 DEF Exists
    <3> QED BY <1>5, <2>2, <3>1, <3>2 DEF CursorPlaced
  <2>4. CASE \A p \in Path : Exists(p) => cursor.file < dir[p]
    <3>1. cursor.file < rotations + 2
      <4>1. cursor.file < dir[2] /\ dir[2] = logging /\ logging <= rotations + 1
        BY <2>1, <2>4 DEF DirShape
      <4> QED BY <1>1, <1>2, <1>5, <4>1 DEF DiskTypes, File
    <3>2. ASSUME NEW p \in Path, Exists(p)' PROVE cursor'.file < dir'[p]
      <4>1. CASE p = 1
        BY <1>5, <2>2, <3>1, <4>1
      <4>2. CASE p # 1
        BY <1>5, <2>2, <2>4, <3>2, <4>2 DEF Exists
      <4> QED BY <4>1, <4>2
    <3> QED BY <3>2 DEF CursorPlaced
  <2> QED BY <1>5, <2>3, <2>4 DEF CursorPlaced
<1>6. CASE cursor' = None
  BY <1>6 DEF CursorPlaced
<1>7. CASE StartAtEnd /\ UNCHANGED dir
  <2>1. 1 \in Path /\ dir'[1] = cursor'.file
    BY <1>7 DEF StartAtEnd, Path
  <2> QED BY <2>1 DEF CursorPlaced
<1>8. CASE CommitBatch /\ UNCHANGED dir
  <2>1. fd.path \in Path /\ dir'[fd.path] = cursor'.file
    BY <1>1, <1>8, BatchEndBounds DEF CommitBatch
  <2> QED BY <2>1 DEF CursorPlaced
<1>9. /\ WriteLine \/ Truncate => UNCHANGED <<cursor, dir>>
      /\ Rename \/ Reopen => UNCHANGED cursor
      /\ ClearCursor => cursor' = None
  BY DEF WriteLine, Truncate, Rename, Reopen, ClearCursor, db
<1> QED BY <1>3, <1>4, <1>5, <1>6, <1>7, <1>8, <1>9, DbFrame, RunDiskFrame

LEMMA AtMostOnceStep ==
    TypeInv /\ ContentShape /\ ReadAhead /\ AtMostOnce /\ [Next]_vars => AtMostOnce'
<1> SUFFICES ASSUME TypeInv, ContentShape, ReadAhead, twice = {}, [Next]_vars
             PROVE  twice' = {}
  BY DEF AtMostOnce
<1>1. DiskTypes /\ DbTypes /\ RunTypes
  BY TypeParts
<1>2. CASE CommitBatch
  <2>1. pc = "read" /\ fd.pos < Size(fd.file) /\ fd # None
          /\ twice' = twice \cup (counted \cap Batch)
    BY <1>1, <1>2 DEF CommitBatch, RunTypes, FdOpen
  <2>2. fd.file \in File /\ fd.pos \in Nat /\ BatchEnd \in Nat /\ BatchEnd <= Size(fd.file)
          /\ Size(fd.file) \in Nat /\ DOMAIN content[fd.file] = 1 .. Size(fd.file)
    BY <1>1, <2>1, BatchEndBounds, Contents
  <2>3. ASSUME NEW l \in Batch, l \in counted PROVE FALSE
    <3>1. PICK i \in fd.pos + 1 .. BatchEnd : l = content[fd.file][i]
      BY DEF Batch
    <3>2. Read(fd.file, i) /\ i \in Nat
      BY <2>2, <2>3, <3>1 DEF Read
    <3>3. i <= fd.pos
      BY <2>1, <2>2, <3>2 DEF ReadAhead, OpenAhead, File
    <3> QED BY <2>2, <3>3
  <2> QED BY <2>1, <2>3
<1>3. ClearCursor \/ StartAtEnd => UNCHANGED twice
  BY DEF ClearCursor, StartAtEnd
<1> QED BY <1>2, <1>3, DbFrame

-----------------------------------------------------------------------------
(* The run.                                                                *)

LEMMA SourceTypes ==
    ASSUME RunTypes
    PROVE  /\ DOMAIN sources = 1 .. Len(sources) /\ Len(sources) \in Nat
           /\ \A k \in DOMAIN sources : sources[k].path \in Path /\ sources[k].offset \in Nat
<1>1. DOMAIN sources = 1 .. Len(sources) /\ Len(sources) \in Nat
  BY LenProperties DEF RunTypes
<1>2. \A k \in DOMAIN sources : sources[k] \in Source
  BY <1>1, ElementOfSeq DEF RunTypes
<1> QED BY <1>1, <1>2 DEF Source

(* The path that is opened, and the others.                                *)
LEMMA Opened ==
    ASSUME RunTypes, OpenSource
    PROVE  /\ 1 \in DOMAIN sources /\ Exists(sources[1].path)
           /\ fd' = [file |-> dir[sources[1].path], pos |-> sources[1].offset,
                     path |-> sources[1].path]
           /\ Len(sources') = Len(sources) - 1 /\ DOMAIN sources' = 1 .. Len(sources) - 1
           /\ \A k \in DOMAIN sources' :
                k + 1 \in DOMAIN sources /\ sources'[k] = sources[k + 1]
<1>1. sources \in Seq(Source) /\ sources # << >> /\ sources' = Tail(sources)
  BY DEF RunTypes, OpenSource
<1>2. DOMAIN sources = 1 .. Len(sources) /\ Len(sources) \in Nat /\ Len(sources) # 0
  BY <1>1, LenProperties, EmptySeq
<1>3. Head(sources) = sources[1]
  BY <1>1
<1>4. /\ sources' \in Seq(Source) /\ Len(sources') = Len(sources) - 1
      /\ \A k \in 1 .. Len(sources') : sources'[k] = sources[k + 1]
  BY <1>1, HeadTailProperties
<1>5. DOMAIN sources' = 1 .. Len(sources')
  BY <1>4, LenProperties
<1> QED BY <1>2, <1>3, <1>4, <1>5 DEF OpenSource

LEMMA RunShapeStep == TypeInv /\ DirShape /\ RunShape /\ [Next]_vars => RunShape'
<1> SUFFICES ASSUME TypeInv, DirShape, RunShape, [Next]_vars PROVE RunShape'
  OBVIOUS
<1> USE ImportAssumption
<1>1. DiskTypes /\ DbTypes /\ RunTypes
  BY TypeParts
<1>2. logging \in Nat /\ logging' \in Nat /\ logging <= logging'
  BY <1>1, WritingGrows
<1>3. CASE UNCHANGED run
  <2>1. fd # None => fd.file \in Nat
    BY <1>1 DEF RunTypes, Reader, File
  <2> QED BY <1>2, <1>3, <2>1 DEF RunShape, run, Descending
<1>4. CASE Over
  BY <1>4 DEF Over, RunShape, Descending
<1>5. CASE Begin \/ ClearCursor \/ StartAtEnd \/ NothingToRead \/ NoSourceLeft \/ Finish
  <2>1. sources' = << >> /\ fd' = None
    BY <1>1, <1>5 DEF Begin, ClearCursor, StartAtEnd, NothingToRead, NoSourceLeft, Finish,
       RunShape, RunTypes, FdOpen
  <2> QED BY <2>1 DEF RunShape, Descending
<1>6. CASE ListSources
  <2>1. fd' = None /\ pc' = "open"
    BY <1>1, <1>6 DEF ListSources, RunTypes, FdOpen
  <2>2. Descending(sources')
    BY <1>1, <1>6, Listed
  <2> QED BY <2>1, <2>2 DEF RunShape, Descending
<1>7. CASE OpenSource
  <2>1. pc' = "read" /\ logging' = logging
    BY <1>7 DEF OpenSource, disk
  <2>2. sources[1].path \in Path /\ fd'.file = dir[sources[1].path] /\ fd'.path = sources[1].path
    BY <1>1, <1>7, Opened, SourceTypes
  <2>3. fd'.file <= logging'
    BY <1>1, <1>7, <2>1, <2>2, Opened, LoggingIsNewest
  <2>4. ASSUME NEW k \in DOMAIN sources' PROVE sources'[k].path < fd'.path
    <3>1. 1 < k + 1 /\ k \in Nat /\ k + 1 \in DOMAIN sources /\ sources'[k] = sources[k + 1]
            /\ 1 \in DOMAIN sources
      BY <1>1, <1>7, <2>4, Opened, SourceTypes
    <3>2. sources[1].path > sources[k + 1].path
      BY <3>1 DEF RunShape, Descending
    <3> QED BY <1>1, <2>2, <3>1, <3>2, SourceTypes DEF Path
  <2>5. ASSUME NEW i \in DOMAIN sources', NEW j \in DOMAIN sources', i < j
        PROVE  sources'[i].path > sources'[j].path
    <3>1. i + 1 < j + 1
      BY <1>1, <1>7, <2>5, Opened, SourceTypes
    <3> QED BY <1>1, <1>7, <3>1, Opened DEF RunShape, Descending
  <2> QED BY <2>1, <2>3, <2>4, <2>5 DEF RunShape, Descending
<1>8. CASE EndOfFile
  BY <1>8 DEF EndOfFile, RunShape, Descending
<1>9. CASE CommitBatch /\ ~Over
  <2>1. pc' = "read" /\ fd' = [fd EXCEPT !.pos = BatchEnd] /\ UNCHANGED <<sources, logging>>
          /\ fd \in Reader
    BY <1>1, <1>9, BatchEndBounds DEF CommitBatch, Over, disk
  <2>2. fd'.file = fd.file /\ fd'.path = fd.path /\ fd # None
    BY <2>1 DEF Reader
  <2> QED BY <2>1, <2>2 DEF RunShape, Descending
<1> QED BY <1>3, <1>4, <1>5, <1>6, <1>7, <1>8, <1>9, RunFrame

LEMMA StatusShapeStep == TypeInv /\ StatusShape /\ [Next]_vars => StatusShape'
<1> SUFFICES ASSUME StatusShape, status \in {"absent", "running", "complete"}, [Next]_vars
             PROVE  StatusShape'
  BY TypeParts DEF DbTypes
<1>1. fullHistory' = fullHistory
  BY HistoryConstant
<1>2. CASE UNCHANGED <<pc, status, counted>>
  BY <1>1, <1>2 DEF StatusShape
<1>3. CASE Begin
  BY <1>1, <1>3 DEF StatusShape, Begin
<1>4. CASE ClearCursor \/ ListSources \/ StartAtEnd \/ NothingToRead \/ NoSourceLeft
             \/ OpenSource \/ EndOfFile
  BY <1>1, <1>4 DEF StatusShape, ClearCursor, ListSources, StartAtEnd, NothingToRead,
     NoSourceLeft, OpenSource, EndOfFile, db
<1>5. CASE CommitBatch
  BY <1>1, <1>5 DEF StatusShape, CommitBatch
<1>6. CASE Missing \/ Crash
  BY <1>1, <1>6 DEF StatusShape, Missing, Crash, Busy, db
<1>7. CASE Finish
  BY <1>1, <1>7 DEF StatusShape, Finish
<1>8. CASE WriteLine \/ Rename \/ Reopen \/ Truncate \/ UNCHANGED vars
  BY <1>2, <1>8 DEF WriteLine, Rename, Reopen, Truncate, vars, db, run
<1> QED BY <1>3, <1>4, <1>5, <1>6, <1>7, <1>8 DEF Next, Import

(* A change of the directory puts newer files behind the paths; nothing of *)
(* them was counted.                                                       *)
LEMMA ReadAheadEnvironment ==
    ASSUME TypeInv, DirShape, ContentShape, CursorCovers, RunShape, ReadAhead,
           [Next]_vars, Environment, UNCHANGED <<db, run>>
    PROVE  ReadAhead'
<1> USE ImportAssumption
<1>1. DiskTypes /\ DbTypes /\ RunTypes
  BY TypeParts
<1>2. UNCHANGED <<fd, sources, counted>>
  BY DEF run, db
<1>3. \A g \in File, i \in Nat : Read(g, i)' => Read(g, i) /\ g <= logging
  <2> SUFFICES ASSUME NEW g \in File, NEW i \in Nat, Read(g, i)'
               PROVE  Read(g, i) /\ g <= logging
    OBVIOUS
  <2>1. Read(g, i)
    BY <1>2, ReadBefore
  <2> QED BY <2>1 DEF Read, ContentShape
(* The file behind a path after the step, relative to an older file f and  *)
(* a path q that is not before it.                                         *)
<1>4. ASSUME NEW p \in Path, Exists(p)'
      PROVE  \/ Exists(p) /\ dir'[p] = dir[p]
             \/ p - 1 \in Path /\ Exists(p - 1) /\ dir'[p] = dir[p - 1]
             \/ p = 1 /\ dir'[p] \in Nat /\ logging < dir'[p]
  <2>1. CASE WriteLine \/ Truncate
    BY <1>4, <2>1 DEF WriteLine, Truncate, Exists
  <2>2. CASE Rename
    <3>1. p # 1 /\ dir'[p] = dir[p - 1] /\ p - 1 \in Path
      BY <1>4, <2>2 DEF Rename, Exists, Path
    <3> QED BY <1>4, <3>1 DEF Exists
  <2>3. CASE Reopen
    <3>1. dir'[p] = IF p = 1 THEN rotations + 2 ELSE dir[p]
      BY <1>1, <2>3 DEF Reopen, DiskTypes
    <3>2. logging <= rotations + 1 /\ logging \in Nat /\ rotations \in Nat
      BY <1>1, <2>3 DEF Reopen, DirShape, DiskTypes, File
    <3> QED BY <1>4, <3>1, <3>2 DEF Exists
  <2> QED BY <2>1, <2>2, <2>3 DEF Environment
<1>5. logging \in Nat /\ \A p \in Path : Exists(p) => dir[p] \in Nat
  BY <1>1 DEF DiskTypes, Exists, File
<1>6. OpenAhead'
  <2> SUFFICES ASSUME fd # None
               PROVE  /\ \A p \in 1 .. fd.path : Exists(p)' =>
                            dir'[p] >= fd.file /\ (p < fd.path => dir'[p] > fd.file)
                      /\ \A g \in File, i \in Nat : Read(g, i)' =>
                            g < fd.file \/ (g = fd.file /\ i <= fd.pos)
    BY <1>2 DEF OpenAhead
  <2>1. fd.file \in Nat /\ fd.path \in Path /\ fd.file <= logging
    BY <1>1 DEF RunTypes, Reader, RunShape, File
  <2>2. ASSUME NEW p \in 1 .. fd.path, Exists(p)'
        PROVE  dir'[p] >= fd.file /\ (p < fd.path => dir'[p] > fd.file)
    <3>1. p \in Path
      BY <2>1 DEF Path
    <3>2. CASE Exists(p) /\ dir'[p] = dir[p]
      BY <3>2 DEF ReadAhead, OpenAhead
    <3>3. CASE p - 1 \in Path /\ Exists(p - 1) /\ dir'[p] = dir[p - 1]
      <4>1. p - 1 \in 1 .. fd.path /\ p - 1 < fd.path
        BY <2>1, <3>1, <3>3 DEF Path
      <4>2. dir[p - 1] > fd.file /\ dir[p - 1] \in Nat
        BY <1>5, <3>3, <4>1 DEF ReadAhead, OpenAhead
      <4> QED BY <2>1, <3>3, <4>2
    <3>4. CASE dir'[p] \in Nat /\ logging < dir'[p]
      BY <1>5, <2>1, <3>4
    <3> QED BY <1>4, <2>2, <3>1, <3>2, <3>3, <3>4
  <2>3. \A g \in File, i \in Nat : Read(g, i)' => g < fd.file \/ (g = fd.file /\ i <= fd.pos)
    BY <1>3 DEF ReadAhead, OpenAhead
  <2> QED BY <2>2, <2>3
<1>7. SourcesAhead'
  <2> SUFFICES ASSUME NEW k \in DOMAIN sources, NEW p \in 1 .. sources[k].path, Exists(p)',
                      NEW g \in File, NEW i \in Nat, Read(g, i)'
               PROVE  \/ g < dir'[p]
                      \/ p = sources[k].path /\ g = dir'[p] /\ i <= sources[k].offset
    BY <1>2 DEF SourcesAhead
  <2>1. Read(g, i) /\ g <= logging /\ g \in Nat
    BY <1>3 DEF File
  <2>2. sources[k].path \in Path /\ p \in Path
    BY <1>1, SourceTypes DEF Path
  <2>3. CASE Exists(p) /\ dir'[p] = dir[p]
    BY <2>1, <2>3 DEF ReadAhead, SourcesAhead
  <2>4. CASE p - 1 \in Path /\ Exists(p - 1) /\ dir'[p] = dir[p - 1]
    <3>1. p - 1 \in 1 .. sources[k].path /\ p - 1 # sources[k].path
      BY <2>2, <2>4 DEF Path
    <3>2. g < dir[p - 1]
      BY <2>1, <2>4, <3>1 DEF ReadAhead, SourcesAhead
    <3> QED BY <2>4, <3>2
  <2>5. CASE dir'[p] \in Nat /\ logging < dir'[p]
    BY <1>5, <2>1, <2>5
  <2> QED BY <1>4, <2>2, <2>3, <2>4, <2>5
<1> QED BY <1>6, <1>7 DEF ReadAhead

(* A run lists what lies after the cursor.                                 *)
LEMMA ReadAheadListed ==
    ASSUME TypeInv, DirShape, CursorCovers, CursorPlaced, ListSources
    PROVE  ReadAhead'
<1> USE ImportAssumption
<1>1. DiskTypes /\ DbTypes /\ RunTypes
  BY TypeParts
<1>2. fd' = None /\ UNCHANGED <<dir, content, counted>>
  BY <1>1 DEF ListSources, RunTypes, FdOpen, disk, db
<1>3. \A p \in Path : Exists(p)' <=> Exists(p)
  BY <1>2 DEF Exists
<1>4. \A g \in File, i \in Nat : Read(g, i)' <=> Read(g, i)
  BY <1>2 DEF Read
<1>5. ASSUME NEW k \in DOMAIN sources', NEW p \in 1 .. sources'[k].path, Exists(p)',
             NEW g \in File, NEW i \in Nat, Read(g, i)'
      PROVE  \/ g < dir'[p]
             \/ p = sources'[k].path /\ g = dir'[p] /\ i <= sources'[k].offset
  <2> DEFINE q == sources'[k].path
  <2>1. q \in Path /\ p \in Path /\ p <= q /\ FromCursor(k, sources')
    <3>1. sources' \in Seq(Source) /\ FromCursor(k, sources')
      BY <1>1, Listed
    <3>2. sources'[k] \in Source
      BY <3>1, LenProperties, ElementOfSeq
    <3> QED BY <3>1, <3>2 DEF Source, Path
  <2>2. Exists(p) /\ Exists(q) /\ dir[p] \in Nat /\ dir[q] \in Nat /\ dir[q] <= dir[p]
    <3>1. Exists(p) /\ Exists(q)
      BY <1>3, <1>5, <2>1 DEF FromCursor
    <3> QED BY <1>1, <2>1, <3>1, OlderIsBehind
  <2>3. cursor # None
    BY <1>4, <1>5 DEF CursorCovers, Read
  <2>4. cursor.file \in Nat /\ cursor.offset \in Nat /\ g \in Nat
    BY <1>1, <2>3 DEF DbTypes, Cursor, File
  <2>5. \/ g < cursor.file
        \/ g = cursor.file /\ i <= cursor.offset /\ cursor.offset <= Size(g)
    BY <1>4, <1>5, <2>3 DEF CursorCovers
  <2>6. CASE OnPath(cursor.file)
    <3>1. dir[q] >= cursor.file
      BY <2>1, <2>3, <2>6 DEF FromCursor
    <3>2. CASE g < dir[p]
      BY <1>2, <3>2
    <3>3. CASE ~(g < dir[p])
      <4>1. g = cursor.file /\ dir[p] = g /\ dir[q] = g
        BY <2>2, <2>4, <2>5, <3>1, <3>3
      <4>2. p = q
        BY <1>1, <2>1, <2>2, <4>1, NoPathTwice
      <4>3. sources'[k].offset = cursor.offset
        BY <2>1, <2>3, <2>4, <2>5, <4>1 DEF FromCursor
      <4> QED BY <1>2, <2>4, <2>5, <4>1, <4>2, <4>3
    <3> QED BY <3>2, <3>3
  <2>7. CASE ~OnPath(cursor.file)
    <3>1. cursor.file < dir[p]
      BY <2>1, <2>2, <2>3, <2>7 DEF CursorPlaced, OnPath
    <3> QED BY <1>2, <2>2, <2>4, <2>5, <3>1
  <2> QED BY <2>6, <2>7
<1>6. OpenAhead'
  BY <1>2 DEF OpenAhead
<1>7. SourcesAhead'
  BY <1>5 DEF SourcesAhead
<1> QED BY <1>6, <1>7 DEF ReadAhead

LEMMA ReadAheadOpened ==
    ASSUME TypeInv, DirShape, RunShape, ReadAhead, OpenSource
    PROVE  ReadAhead'
<1> USE ImportAssumption
<1>1. DiskTypes /\ DbTypes /\ RunTypes
  BY TypeParts
<1>2. UNCHANGED <<dir, content, counted>>
  BY DEF OpenSource, disk, db
<1>3. \A p \in Path : Exists(p)' <=> Exists(p)
  BY <1>2 DEF Exists
<1>4. \A g \in File, i \in Nat : Read(g, i)' <=> Read(g, i)
  BY <1>2 DEF Read
<1> DEFINE q == sources[1].path
<1>5. q \in Path /\ Exists(q) /\ 1 \in DOMAIN sources
        /\ fd'.file = dir[q] /\ fd'.path = q /\ fd'.pos = sources[1].offset
  BY <1>1, Opened, SourceTypes
<1>6. ASSUME NEW p \in 1 .. q, Exists(p)
      PROVE  dir[p] >= dir[q] /\ (p < q => dir[p] > dir[q])
  <2>1. p \in Path /\ p <= q
    BY <1>5 DEF Path
  <2>2. dir[p] \in Nat /\ dir[q] \in Nat /\ dir[q] <= dir[p]
    BY <1>1, <1>5, <1>6, <2>1, OlderIsBehind
  <2>3. p < q => dir[p] > dir[q]
    BY <1>5, <1>6, <2>1 DEF DirShape
  <2> QED BY <2>2, <2>3
<1>7. \A g \in File, i \in Nat : Read(g, i) =>
          g < dir[q] \/ (g = dir[q] /\ i <= sources[1].offset)
  <2>1. q \in 1 .. q
    BY <1>5 DEF Path
  <2> QED BY <1>5, <2>1 DEF ReadAhead, SourcesAhead
<1> HIDE DEF q
<1>8. OpenAhead'
  <2>1. \A p \in 1 .. q : Exists(p)' =>
           dir'[p] >= dir[q] /\ (p < q => dir'[p] > dir[q])
    BY <1>2, <1>3, <1>5, <1>6 DEF Path
  <2>2. \A g \in File, i \in Nat : Read(g, i)' =>
           g < dir[q] \/ (g = dir[q] /\ i <= fd'.pos)
    BY <1>4, <1>5, <1>7 DEF q
  <2> QED BY <1>5, <2>1, <2>2 DEF OpenAhead
<1>9. SourcesAhead'
  <2> SUFFICES ASSUME NEW k \in DOMAIN sources', NEW p \in 1 .. sources'[k].path, Exists(p)',
                      NEW g \in File, NEW i \in Nat, Read(g, i)'
               PROVE  \/ g < dir'[p]
                      \/ p = sources'[k].path /\ g = dir'[p] /\ i <= sources'[k].offset
    BY DEF SourcesAhead
  <2>1. k + 1 \in DOMAIN sources /\ sources'[k] = sources[k + 1]
    BY <1>1, Opened
  <2>2. p \in Path
    BY <1>1, <2>1, SourceTypes DEF Path
  <2>3. \/ g < dir[p]
        \/ p = sources[k + 1].path /\ g = dir[p] /\ i <= sources[k + 1].offset
    BY <1>3, <1>4, <2>1, <2>2 DEF ReadAhead, SourcesAhead
  <2> QED BY <1>2, <2>1, <2>3
<1> QED BY <1>8, <1>9 DEF ReadAhead

LEMMA ReadAheadCommitted ==
    ASSUME TypeInv, ContentShape, RunShape, ReadAhead, CommitBatch, ~Over
    PROVE  ReadAhead'
<1> USE ImportAssumption
<1>1. DiskTypes /\ RunTypes
  BY TypeParts
<1>2. pc = "read" /\ fd # None /\ UNCHANGED <<dir, content, sources>>
        /\ fd' = [fd EXCEPT !.pos = BatchEnd]
  BY <1>1 DEF CommitBatch, Over, disk, RunTypes, FdOpen
<1>3. fd \in Reader /\ fd.file \in Nat /\ fd.path \in Path
  BY <1>1, BatchEndBounds DEF CommitBatch, File
<1>4. fd'.file = fd.file /\ fd'.path = fd.path /\ fd'.pos = BatchEnd
  BY <1>2, <1>3 DEF Reader
<1>5. \A p \in Path : Exists(p)' <=> Exists(p)
  BY <1>2 DEF Exists
<1>6. \A p \in 1 .. fd.path : p \in Path
  BY <1>3 DEF Path
<1>7. OpenAhead'
  <2>1. \A p \in 1 .. fd.path : Exists(p)' =>
              dir'[p] >= fd.file /\ (p < fd.path => dir'[p] > fd.file)
    BY <1>2, <1>5, <1>6 DEF ReadAhead, OpenAhead
  <2>2. \A g \in File, i \in Nat : Read(g, i)' => g < fd.file \/ (g = fd.file /\ i <= BatchEnd)
    BY CommitReads
  <2> QED BY <1>4, <2>1, <2>2 DEF OpenAhead
<1>8. SourcesAhead'
  <2> SUFFICES ASSUME NEW k \in DOMAIN sources, NEW p \in 1 .. sources[k].path, Exists(p)',
                      NEW g \in File, NEW i \in Nat, Read(g, i)'
               PROVE  g < dir'[p]
    BY <1>2 DEF SourcesAhead
  <2>1. sources[k].path \in Path /\ sources[k].path < fd.path
    BY <1>1, <1>2, SourceTypes DEF RunShape
  <2>2. p \in 1 .. fd.path /\ p < fd.path /\ p \in Path
    BY <1>3, <2>1 DEF Path
  <2>3. dir[p] > fd.file /\ dir[p] \in Nat
    <3>1. Exists(p) /\ dir[p] \in Nat
      BY <1>1, <1>5, <2>2 DEF DiskTypes, Exists, File
    <3> QED BY <1>2, <2>2, <3>1 DEF ReadAhead, OpenAhead
  <2>4. g <= fd.file /\ g \in Nat
    <3>1. g < fd.file \/ g = fd.file
      BY CommitReads
    <3> QED BY <1>3, <3>1 DEF File
  <2> QED BY <1>2, <1>3, <2>3, <2>4
<1> QED BY <1>7, <1>8 DEF ReadAhead

LEMMA ReadAheadStep ==
    /\ TypeInv /\ DirShape /\ ContentShape /\ CursorCovers /\ CursorPlaced /\ RunShape
    /\ ReadAhead /\ [Next]_vars
    => ReadAhead'
<1> SUFFICES ASSUME TypeInv, DirShape, ContentShape, CursorCovers, CursorPlaced, RunShape,
                    ReadAhead, [Next]_vars
             PROVE  ReadAhead'
  OBVIOUS
<1>1. RunTypes
  BY TypeParts
<1>2. CASE Environment /\ UNCHANGED <<db, run>>
  BY <1>2, ReadAheadEnvironment
<1>3. CASE fd' = None /\ sources' = << >>
  BY <1>3 DEF ReadAhead, OpenAhead, SourcesAhead
<1>4. CASE UNCHANGED <<dir, content, logging, written, rotations>> /\ UNCHANGED run
           /\ UNCHANGED counted
  <2>1. \A p \in Path : Exists(p)' <=> Exists(p)
    BY <1>4 DEF Exists
  <2> QED BY <1>4, <2>1 DEF ReadAhead, OpenAhead, SourcesAhead, run, Read, Exists
<1>5. CASE ListSources
  BY <1>5, ReadAheadListed
<1>6. CASE OpenSource
  BY <1>6, ReadAheadOpened
<1>7. CASE EndOfFile
  BY <1>7 DEF EndOfFile, ReadAhead, OpenAhead, SourcesAhead, Read, Exists, disk, db
<1>8. CASE CommitBatch
  <2>1. CASE Over
    BY <1>3, <2>1 DEF Over
  <2> QED BY <1>8, <2>1, ReadAheadCommitted
<1>9. Begin \/ ClearCursor \/ StartAtEnd \/ NothingToRead \/ NoSourceLeft \/ Finish \/ Over
        => fd' = None /\ sources' = << >>
  BY <1>1 DEF Begin, ClearCursor, StartAtEnd, NothingToRead, NoSourceLeft, Finish, Over,
     RunShape, RunTypes, FdOpen
<1>10. ~CommitBatch => UNCHANGED counted
  BY DbFrame DEF ClearCursor, StartAtEnd
<1> QED BY <1>2, <1>3, <1>4, <1>5, <1>6, <1>7, <1>8, <1>9, <1>10, DiskFrame, RunFrame

-----------------------------------------------------------------------------
LEMMA InitInv == Init => ImportInv
<1> SUFFICES ASSUME Init PROVE ImportInv
  OBVIOUS
<1> USE ImportAssumption
<1>1. 1 \in Line /\ 2 \in Line /\ 1 \in File /\ 2 \in File /\ 1 \in Path /\ 2 \in Path
  BY DEF Line, File, Path
<1>2. << >> \in Seq(Line) /\ << >> \in Seq(Source) /\ \A f \in {1, 2} : <<f>> \in Seq(Line)
  BY <1>1
<1>3. DiskTypes
  <2>1. content \in [File -> Seq(Line)]
    <3>1. \A f \in File : f <= 2 => f \in {1, 2}
      BY DEF File
    <3> QED BY <1>2, <3>1 DEF Init
  <2> QED BY <1>1, <2>1 DEF Init, DiskTypes
<1>4. DbTypes
  BY <1>1 DEF Init, DbTypes, Cursor
<1>5. RunTypes
  BY <1>2 DEF Init, RunTypes, FdOpen
<1>6. TypeInv
  BY <1>3, <1>4, <1>5, TypeParts
<1>7. DirShape
  <2>1. dir[1] = 2 /\ dir[2] = 1 /\ logging = 2 /\ rotations = 0
          /\ \A p \in Path : p > 2 => dir[p] = None
    BY <1>1 DEF Init, Path
  <2>2. \A p \in Path : Exists(p) <=> p \in {1, 2}
    BY <1>1, <2>1 DEF Exists, Path
  <2>3. \A p, q \in Path : p < q /\ Exists(p) /\ Exists(q) => p = 1 /\ q = 2
    BY <2>2
  <2>4. \A p, q \in Path : p < q /\ Exists(p) /\ Exists(q) => dir[p] > dir[q]
    BY <2>1, <2>3
  <2>5. \A p \in Path : p > 1 => (Exists(p) <=> p <= 2)
    BY <2>2 DEF Path
  <2>6. logging <= rotations + 2 /\ Exists(1) /\ Exists(2) /\ dir[1] = logging
    BY <1>1, <2>1, <2>2
  <2> QED BY <1>1, <2>4, <2>5, <2>6 DEF DirShape
<1>8. \A g \in File : content[g] = IF g <= 2 THEN <<g>> ELSE << >>
  BY DEF Init
<1>9. \A g \in File : \A i \in DOMAIN content[g] :
         g \in Nat /\ g <= 2 /\ i = 1 /\ content[g][i] = g
  <2> SUFFICES ASSUME NEW g \in File, NEW i \in DOMAIN content[g]
               PROVE  g \in Nat /\ g <= 2 /\ i = 1 /\ content[g][i] = g
    OBVIOUS
  <2>1. g \in Nat
    BY DEF File
  <2>2. CASE g <= 2
    <3>1. content[g] = <<g>>
      BY <1>8, <2>2
    <3>2. DOMAIN <<g>> = {1} /\ <<g>>[1] = g
      OBVIOUS
    <3>3. i = 1
      BY <3>1, <3>2
    <3> QED BY <2>1, <2>2, <3>1, <3>2, <3>3
  <2>3. CASE ~(g <= 2)
    <3>1. content[g] = << >>
      BY <1>8, <2>3
    <3>2. DOMAIN << >> = {}
      BY SMT
    <3> QED BY <3>1, <3>2
  <2> QED BY <2>2, <2>3
<1>10. ContentShape
  <2>1. logging = 2 /\ written = 2
    BY DEF Init
  <2>2. \A g \in File : \A i \in DOMAIN content[g] : g <= logging /\ content[g][i] <= written
    BY <1>9, <2>1
  <2>3. ASSUME NEW g \in File, NEW i \in DOMAIN content[g],
               NEW h \in File, NEW j \in DOMAIN content[h], g < h \/ (g = h /\ i < j)
        PROVE  content[g][i] < content[h][j]
    <3>1. i = 1 /\ j = 1 /\ content[g][i] = g /\ content[h][j] = h
      BY <1>9
    <3> QED BY <2>3, <3>1
  <2> QED BY <2>2, <2>3 DEF ContentShape
<1>11. CursorCovers
  BY DEF CursorCovers, Init, Read
<1>12. CursorPlaced
  <2>1. cursor # None => dir[1] = cursor.file
    BY <1>1 DEF Init
  <2> QED BY <1>1, <2>1 DEF CursorPlaced
<1>13. RunShape /\ ReadAhead /\ StatusShape /\ AtMostOnce
  BY DEF RunShape, Descending, ReadAhead, OpenAhead, SourcesAhead, StatusShape, AtMostOnce, Init
<1> QED BY <1>6, <1>7, <1>10, <1>11, <1>12, <1>13 DEF ImportInv

LEMMA StepInv == ImportInv /\ [Next]_vars => ImportInv'
  BY TypeStep, DirShapeStep, ContentShapeStep, CursorCoversStep, CursorPlacedStep,
     RunShapeStep, ReadAheadStep, StatusShapeStep, AtMostOnceStep DEF ImportInv

(* The inductive invariant of the import, with or without an old cursor:   *)
(* the cursor is in the file whose lines up to it are counted, and a run   *)
(* reads only what lies behind it.                                         *)
THEOREM ImportInvariant == Spec => []ImportInv
  BY InitInv, StepInv, PTL DEF Spec

(* The variables keep their types: in particular, a reader has a file open *)
(* exactly while it reads, and every source it lists is a path of the log. *)
THEOREM TypeCorrect == Spec => []TypeOK
<1>1. ImportInv => TypeOK
  BY DEF ImportInv, TypeInv
<1> QED BY <1>1, ImportInvariant, PTL

(* No line is counted twice: with or without the history, with an old      *)
(* cursor or none, whatever rotations, truncations, budgets and crashes    *)
(* come between any two steps.                                             *)
THEOREM CountedAtMostOnce == Spec => []AtMostOnce
<1>1. ImportInv => AtMostOnce
  BY DEF ImportInv
<1> QED BY <1>1, ImportInvariant, PTL

-----------------------------------------------------------------------------
(* A history import without an old cursor that no rotation races.          *)

LEMMA Calm == ImportInv => TypeInv /\ DiskTypes /\ DbTypes /\ RunTypes
  BY TypeParts DEF ImportInv

LEMMA SteadyBefore ==
    ASSUME [Next]_vars, Steady'
    PROVE  /\ Steady /\ ~Truncate /\ ~StartAtEnd
           /\ Rename => ~Busy /\ ~OldestNeeded
           /\ Reopen => ~Busy
           /\ ListSources => dir[1] = logging
<1>1. fullHistory /\ ~raced'
  BY HistoryConstant DEF Steady
<1>2. ~raced
  BY <1>1 DEF Next, vars, WriteLine, Rename, Reopen, Truncate, Import,
         Begin, ClearCursor, ListSources, StartAtEnd, NothingToRead, NoSourceLeft,
         OpenSource, EndOfFile, CommitBatch, Missing, Finish, Crash
<1>3. ~Truncate /\ ~StartAtEnd
  BY <1>1 DEF Truncate, StartAtEnd
<1>4. /\ Rename => ~Busy /\ ~OldestNeeded
      /\ Reopen => ~Busy
      /\ ListSources => dir[1] = logging
  BY <1>1 DEF Rename, Reopen, ListSources
<1> QED BY <1>1, <1>2, <1>3, <1>4 DEF Steady

(* A line keeps its place, except when its file is truncated.              *)
LEMMA LinesKept ==
    ASSUME DiskTypes, [Next]_vars, ~Truncate, NEW g \in File, NEW i \in DOMAIN content[g]
    PROVE  i \in DOMAIN content'[g] /\ content'[g][i] = content[g][i]
<1>1. CASE UNCHANGED content
  BY <1>1
<1>2. CASE WriteLine
  <2>1. CASE g # logging
    BY <1>2, <2>1, WriteLineEffect
  <2>2. CASE g = logging
    <3>1. i \in 1 .. Size(logging) /\ Size(logging) \in Nat
      BY <2>2, Contents
    <3> QED BY <1>2, <2>2, <3>1, WriteLineEffect
  <2> QED BY <2>1, <2>2
<1>3. Rename \/ Reopen => UNCHANGED content
  BY DEF Rename, Reopen
<1> QED BY <1>1, <1>2, <1>3, RunDiskFrame

(* A file stays in the directory unless the import has no use for it.      *)
LEMMA PathsKept ==
    ASSUME ImportInv, [Next]_vars, Steady', NEW g \in File, OnPath(g)
    PROVE  \/ OnPath(g)'
           \/ /\ \A i \in DOMAIN content[g] : content[g][i] \in counted
              /\ cursor # None => cursor.file # g
<1> USE ImportAssumption
<1>1. DiskTypes
  BY Calm
<1>2. PICK p \in Path : dir[p] = g
  BY DEF OnPath
<1>3. Exists(p)
  BY <1>2 DEF Exists
<1>4. CASE UNCHANGED dir
  BY <1>2, <1>4 DEF OnPath
<1>5. CASE Rename
  <2>1. CASE p = KeptFiles
    BY <1>2, <1>3, <1>5, <2>1, SteadyBefore DEF OldestNeeded, Range
  <2>2. CASE p # KeptFiles
    <3>1. p + 1 \in Path /\ p + 1 # 1 /\ p + 1 - 1 = p
      BY <2>2 DEF Path
    <3>2. dir'[p + 1] = dir[p]
      <4>1. \A q, r \in Path : q = r + 1 => q # 1 /\ r = q - 1
        BY DEF Path
      <4>2. \A q, r \in Path : q # 1 /\ r = q - 1 => dir'[q] = dir[r]
        BY <1>5 DEF Rename
      <4> QED BY <3>1, <4>1, <4>2
    <3> QED BY <1>2, <3>1, <3>2 DEF OnPath
  <2> QED BY <2>1, <2>2
<1>6. CASE Reopen
  <2>1. p # 1
    BY <1>3, <1>6 DEF Reopen
  <2>2. dir'[p] = dir[p]
    BY <1>1, <1>6, <2>1 DEF Reopen, DiskTypes
  <2> QED BY <1>2, <2>2 DEF OnPath
<1>7. WriteLine \/ Truncate => UNCHANGED dir
  BY DEF WriteLine, Truncate
<1> QED BY <1>4, <1>5, <1>6, <1>7, RunDiskFrame

LEMMA CountedGrows ==
    [Next]_vars => counted \subseteq counted'
  BY DbFrame DEF ClearCursor, StartAtEnd, CommitBatch

LEMMA EveryLinePlacedStep == ImportInv /\ EveryLinePlaced /\ [Next]_vars => EveryLinePlaced'
<1> SUFFICES ASSUME ImportInv, EveryLinePlaced, [Next]_vars, fullHistory,
                    NEW l \in 1 .. written'
             PROVE  \E g \in File : \E i \in DOMAIN content'[g] : content'[g][i] = l
  BY HistoryConstant DEF EveryLinePlaced
<1>1. DiskTypes /\ ~Truncate
  BY Calm DEF Truncate
<1>2. CASE l \in 1 .. written
  <2>1. PICK g \in File : \E i \in DOMAIN content[g] : content[g][i] = l
    BY <1>2 DEF EveryLinePlaced
  <2> QED BY <1>1, <2>1, LinesKept
<1>3. CASE WriteLine /\ l = written + 1
  <2>1. logging \in File /\ Size(logging) \in Nat
    BY <1>1, Contents DEF DiskTypes
  <2>2. Size(logging) + 1 \in 1 .. Size(logging) + 1
    BY <2>1
  <2> QED BY <1>1, <1>3, <2>1, <2>2, WriteLineEffect
<1>4. l \in 1 .. written \/ (WriteLine /\ l = written + 1)
  <2>1. CASE WriteLine
    <3>1. written \in Nat /\ written' = written + 1
      BY <1>1, <2>1 DEF WriteLine, DiskTypes
    <3> QED BY <2>1, <3>1
  <2>2. CASE UNCHANGED written
    BY <2>2
  <2>3. Rename \/ Reopen \/ Truncate => UNCHANGED written
    BY DEF Rename, Reopen, Truncate
  <2> QED BY <2>1, <2>2, <2>3, RunDiskFrame
<1> QED BY <1>2, <1>3, <1>4

LEMMA LoggingOnPath == ImportInv => OnPath(logging)
<1> USE ImportAssumption
<1>1. 1 \in Path /\ 2 \in Path
  BY DEF Path
<1> QED BY <1>1 DEF ImportInv, DirShape, OnPath

LEMMA NothingGoneStep == ImportInv /\ NothingGone /\ [Next]_vars => NothingGone'
<1> SUFFICES ASSUME ImportInv, NothingGone, [Next]_vars, Steady',
                    NEW g \in File, NEW i \in DOMAIN content'[g],
                    content'[g][i] \notin counted'
             PROVE  OnPath(g)'
  BY DEF NothingGone
<1>1. DiskTypes /\ Steady /\ counted \subseteq counted'
  BY Calm, SteadyBefore, CountedGrows
<1>2. CASE i \in DOMAIN content[g] /\ content'[g][i] = content[g][i]
  <2>1. content[g][i] \notin counted
    BY <1>1, <1>2
  <2>2. OnPath(g)
    BY <1>1, <1>2, <2>1 DEF NothingGone
  <2> QED BY <1>2, <2>1, <2>2, PathsKept
<1>3. CASE WriteLine /\ g = logging
  <2>1. OnPath(g)
    BY <1>3, LoggingOnPath
  <2> QED BY <1>3, <2>1 DEF WriteLine, OnPath
<1> QED BY <1>1, <1>2, <1>3, LinesAfter

(* The lines of a batch are the next ones.                                 *)
LEMMA CommitPrefix ==
    ASSUME ImportInv, SteadyInv, Steady, CommitBatch
    PROVE  /\ dir[fd.path] = fd.file /\ BatchEnd \in DOMAIN content[fd.file]
           /\ counted \cup Batch = 1 .. content[fd.file][BatchEnd]
<1> USE ImportAssumption
<1>1. TypeInv /\ DiskTypes /\ DbTypes /\ RunTypes /\ ContentShape /\ ReadAhead /\ RunShape
        /\ CursorCovers
  BY Calm DEF ImportInv
<1>2. pc = "read" /\ fd.pos < Size(fd.file) /\ fd # None
  BY <1>1 DEF CommitBatch, RunTypes, FdOpen
<1>3. fd.file \in File /\ fd.path \in Path /\ fd.pos \in Nat /\ BatchEnd \in Nat
        /\ fd.pos < BatchEnd /\ BatchEnd <= Size(fd.file) /\ Size(fd.file) \in Nat
  BY <1>1, <1>2, BatchEndBounds
<1>4. BatchEnd \in DOMAIN content[fd.file] /\ content[fd.file][BatchEnd] \in Line
  <2>1. BatchEnd \in 1 .. Size(fd.file)
    BY <1>3
  <2> QED BY <1>1, <1>3, <2>1, Contents
<1>5. dir[fd.path] = fd.file
  BY <1>2 DEF SteadyInv, RunInPlace
<1> DEFINE end == content[fd.file][BatchEnd]
<1>6. end \in Nat /\ end <= written /\ written \in Nat
  BY <1>1, <1>3, <1>4 DEF ContentShape, Line, DiskTypes
<1>7. \A g \in File : \A i \in DOMAIN content[g] :
         /\ g < fd.file \/ (g = fd.file /\ i < BatchEnd) => content[g][i] < end
         /\ fd.file < g \/ (g = fd.file /\ BatchEnd < i) => end < content[g][i]
  BY <1>1, <1>3, <1>4 DEF ContentShape
<1>8. \A g \in File : \A i \in DOMAIN content[g] :
         g \in Nat /\ i \in Nat /\ content[g][i] \in Nat
  BY <1>1, Contents DEF Line, File
<1>9. counted \cup Batch \subseteq 1 .. written
  <2>1. counted' \subseteq 1 .. written'
    BY <1>1, CountedWithinWritten DEF CommitBatch, Next, Import
  <2> QED BY <2>1 DEF CommitBatch, disk
<1>10. \A l \in 1 .. written : \E g \in File : \E i \in DOMAIN content[g] : content[g][i] = l
  BY DEF SteadyInv, EveryLinePlaced, Steady
<1> HIDE DEF end
<1>11. ASSUME NEW l \in counted \cup Batch PROVE l \in 1 .. end
  <2>1. PICK g \in File : \E i \in DOMAIN content[g] : content[g][i] = l
    BY <1>9, <1>10
  <2>2. PICK i \in DOMAIN content[g] : content[g][i] = l
    BY <2>1
  <2>3. g < fd.file \/ (g = fd.file /\ i <= BatchEnd)
    <3>1. Read(g, i)'
      BY <2>2 DEF Read, CommitBatch, disk
    <3> QED BY <1>1, <1>8, <2>2, <3>1, CommitReads
  <2>4. content[g][i] <= end
    BY <1>3, <1>6, <1>7, <1>8, <2>2, <2>3 DEF end
  <2> QED BY <1>6, <1>9, <2>2, <2>4
<1>12. ASSUME NEW l \in 1 .. end PROVE l \in counted \cup Batch
  <2>1. PICK g \in File : \E i \in DOMAIN content[g] : content[g][i] = l
    BY <1>6, <1>10
  <2>2. PICK i \in DOMAIN content[g] : content[g][i] = l
    BY <2>1
  <2> SUFFICES ASSUME l \notin counted PROVE l \in Batch
    OBVIOUS
  <2>3. Ahead(g, i)
    BY <1>2, <2>2 DEF SteadyInv, RunReadsAll
  <2>4. CASE g = fd.file /\ i > fd.pos
    <3>1. i <= BatchEnd
      BY <1>3, <1>6, <1>7, <1>8, <2>2, <2>4
    <3> QED BY <1>1, <1>2, <2>2, <2>4, <3>1, BatchLines
  <2>5. ASSUME NEW k \in DOMAIN sources, g = dir[sources[k].path] PROVE FALSE
    <3>1. sources[k].path \in Path /\ sources[k].path < fd.path /\ Exists(sources[k].path)
      BY <1>1, <1>2, SourceTypes DEF RunShape, SteadyInv, RunInPlace
    <3>2. sources[k].path \in 1 .. fd.path
      BY <1>3, <3>1 DEF Path
    <3>3. g > fd.file
      BY <1>1, <1>2, <2>5, <3>1, <3>2 DEF ReadAhead, OpenAhead
    <3> QED BY <1>3, <1>6, <1>7, <1>8, <2>2, <3>3 DEF File
  <2> QED BY <2>3, <2>4, <2>5 DEF Ahead
<1> QED BY <1>4, <1>5, <1>11, <1>12 DEF end

LEMMA CursorIsEndStep == ImportInv /\ SteadyInv /\ [Next]_vars => CursorIsEnd'
<1> SUFFICES ASSUME ImportInv, SteadyInv, [Next]_vars, Steady'
             PROVE  /\ (cursor = None)' <=> (counted = {})'
                    /\ cursor' # None =>
                         /\ OnPath(cursor.file)'
                         /\ cursor'.offset \in DOMAIN content'[cursor'.file]
                         /\ counted' = 1 .. content'[cursor'.file][cursor'.offset]
  BY DEF CursorIsEnd
<1> USE ImportAssumption
<1>1. DiskTypes /\ DbTypes /\ RunTypes /\ Steady /\ ~Truncate /\ ~StartAtEnd
  BY Calm, SteadyBefore
<1>2. CASE UNCHANGED <<cursor, counted>>
  <2>1. ASSUME cursor # None
        PROVE  /\ OnPath(cursor.file)'
               /\ cursor.offset \in DOMAIN content'[cursor.file]
               /\ counted = 1 .. content'[cursor.file][cursor.offset]
    <3>1. cursor.file \in File
      BY <1>1, <2>1 DEF DbTypes, Cursor
    <3>2. OnPath(cursor.file)
      BY <1>1, <2>1 DEF SteadyInv, CursorIsEnd
    <3>3. OnPath(cursor.file)'
      <4>1. \A g \in File : OnPath(g) /\ cursor.file = g => OnPath(g)'
        BY <2>1, PathsKept
      <4> QED BY <1>2, <3>1, <3>2, <4>1 DEF OnPath
    <3> QED BY <1>1, <2>1, <3>1, <3>3, LinesKept DEF SteadyInv, CursorIsEnd
  <2>2. cursor = None <=> counted = {}
    BY <1>1 DEF SteadyInv, CursorIsEnd
  <2> QED BY <1>2, <2>1, <2>2 DEF OnPath
<1>3. CASE ClearCursor
  BY <1>3 DEF ClearCursor, ImportInv, StatusShape
<1>4. CASE CommitBatch
  <2>1. /\ dir[fd.path] = fd.file /\ BatchEnd \in DOMAIN content[fd.file]
        /\ counted \cup Batch = 1 .. content[fd.file][BatchEnd]
    BY <1>1, <1>4, CommitPrefix
  <2>2. fd.path \in Path /\ fd.file \in File /\ BatchEnd \in Nat
    BY <1>1, <1>4, BatchEndBounds DEF CommitBatch
  <2>3. cursor' = [file |-> fd.file, offset |-> BatchEnd] /\ counted' = counted \cup Batch
          /\ UNCHANGED <<dir, content>>
    BY <1>4, <2>1 DEF CommitBatch, disk
  <2>4. cursor' # None /\ cursor'.file = fd.file /\ cursor'.offset = BatchEnd
    <3>1. cursor' \in Cursor
      BY <2>2, <2>3 DEF Cursor
    <3> QED BY <2>3, <3>1
  <2>5. content[fd.file][BatchEnd] >= 1 /\ content[fd.file][BatchEnd] \in Nat
    BY <1>1, <2>1, <2>2, Contents DEF Line
  <2>6. counted' # {}
    <3>1. 1 \in counted'
      BY <2>1, <2>3, <2>5
    <3> QED BY <3>1
  <2>7. OnPath(cursor.file)'
    BY <2>1, <2>2, <2>3, <2>4 DEF OnPath
  <2> QED BY <2>1, <2>3, <2>4, <2>6, <2>7
<1> QED BY <1>1, <1>2, <1>3, <1>4, DbFrame

LEMMA RunInPlaceStep == ImportInv /\ SteadyInv /\ [Next]_vars => RunInPlace'
<1> DEFINE Goal == /\ pc' \in {"open", "read", "end"} => Exists(1)'
                   /\ fd' # None => /\ dir'[fd'.path] = fd'.file
                                    /\ fd'.pos <= Len(content'[fd'.file])
                   /\ \A k \in DOMAIN sources' :
                        /\ dir'[sources'[k].path] # None
                        /\ sources'[k].offset <= Len(content'[dir'[sources'[k].path]])
<1> SUFFICES ASSUME ImportInv, SteadyInv, [Next]_vars, Steady' PROVE Goal
  BY DEF RunInPlace, Size, Exists
<1> USE ImportAssumption
<1>1. TypeInv /\ DiskTypes /\ DbTypes /\ RunTypes /\ RunShape /\ DirShape
  BY Calm DEF ImportInv
<1>2. Steady /\ ~Truncate
  BY SteadyBefore
<1>3. /\ pc \in {"open", "read", "end"} => Exists(1)
      /\ fd # None => dir[fd.path] = fd.file /\ fd.pos <= Size(fd.file)
      /\ \A k \in DOMAIN sources :
           Exists(sources[k].path) /\ sources[k].offset <= Size(dir[sources[k].path])
  BY <1>2 DEF SteadyInv, RunInPlace
<1>4. \A k \in DOMAIN sources : sources[k].path \in Path /\ sources[k].offset \in Nat
        /\ dir[sources[k].path] \in File
  BY <1>1, <1>3, SourceTypes DEF DiskTypes, Exists
<1>5. \A f \in File : Size(f) \in Nat
  BY <1>1, Contents
<1>6. CASE WriteLine
  <2>1. UNCHANGED <<pc, fd, sources, dir>>
    BY <1>6 DEF WriteLine, run
  <2>2. \A f \in File : Size(f) <= Len(content'[f])
    BY <1>1, <1>5, <1>6, WriteLineEffect DEF Size
  <2>3. fd # None => fd.file \in File /\ fd.pos \in Nat
    BY <1>1 DEF RunTypes, Reader
  <2>4. fd # None => fd.pos <= Len(content'[fd.file])
    <3>1. ASSUME fd # None PROVE fd.pos <= Len(content'[fd.file])
      <4>1. fd.pos <= Size(fd.file) /\ Size(fd.file) <= Len(content'[fd.file])
             /\ Size(fd.file) \in Nat /\ fd.pos \in Nat
        BY <1>3, <1>5, <2>2, <2>3, <3>1
      <4>2. Len(content'[fd.file]) \in Nat
        <5>1. DiskTypes'
          BY <1>1, DiskTypesStep
        <5>2. content'[fd.file] \in Seq(Line)
          BY <2>3, <3>1, <5>1 DEF DiskTypes
        <5> QED BY <5>2, LenProperties
      <4> QED BY <4>1, <4>2
    <3> QED BY <3>1
  <2>5. ASSUME NEW k \in DOMAIN sources
        PROVE  sources[k].offset <= Len(content'[dir[sources[k].path]])
    <3>1. /\ sources[k].offset <= Size(dir[sources[k].path])
          /\ Size(dir[sources[k].path]) <= Len(content'[dir[sources[k].path]])
          /\ Size(dir[sources[k].path]) \in Nat /\ sources[k].offset \in Nat
      BY <1>3, <1>4, <1>5, <2>2
    <3>2. Len(content'[dir[sources[k].path]]) \in Nat
      <4>1. DiskTypes'
        BY <1>1, DiskTypesStep
      <4>2. content'[dir[sources[k].path]] \in Seq(Line)
        BY <1>4, <4>1 DEF DiskTypes
      <4> QED BY <4>2, LenProperties
    <3> QED BY <3>1, <3>2
  <2> QED BY <1>3, <2>1, <2>4, <2>5 DEF Exists, Size
<1>7. CASE pc' \in {"idle", "over"} /\ fd' = None /\ sources' = << >>
  BY <1>7
<1>8. (Rename \/ Reopen) => pc' \in {"idle", "over"} /\ fd' = None /\ sources' = << >>
  BY <1>1, SteadyBefore DEF Busy, Rename, Reopen, run, RunTypes, FdOpen, RunShape
<1>9. CASE UNCHANGED <<dir, content>> /\ UNCHANGED run
  BY <1>3, <1>9 DEF run, Exists, Size
<1>10. CASE Begin \/ ClearCursor
  BY <1>1, <1>10 DEF Begin, ClearCursor, RunTypes, FdOpen, RunShape
<1>11. CASE ListSources
  <2>1. fd' = None /\ UNCHANGED <<dir, content, cursor>> /\ fullHistory
    BY <1>1, <1>2, <1>11 DEF ListSources, disk, db, RunTypes, FdOpen, Steady
  <2>2. Exists(1)
    BY <1>1, <1>11, SteadyBefore DEF Exists, DiskTypes
  <2>3. sources' \in Seq(Source) /\ Listing(sources')
          /\ \A k \in DOMAIN sources' : FromCursor(k, sources')
    BY <1>1, <1>11, <2>1, Listed
  <2>4. ASSUME NEW k \in DOMAIN sources'
        PROVE  Exists(sources'[k].path) /\ sources'[k].offset <= Size(dir[sources'[k].path])
    <3>1. Exists(sources'[k].path)
      BY <2>3 DEF FromCursor
    <3>2. sources'[k].path \in Path
      <4>1. sources'[k] \in Source
        BY <2>3, LenProperties, ElementOfSeq
      <4> QED BY <4>1 DEF Source
    <3>3. dir[sources'[k].path] \in File
      BY <1>1, <3>1, <3>2 DEF DiskTypes, Exists
    <3>4. CASE sources'[k].offset = 0
      BY <1>5, <3>1, <3>3, <3>4
    <3>5. CASE cursor # None /\ dir[sources'[k].path] = cursor.file
                 /\ sources'[k].offset = cursor.offset
      <4>1. cursor.offset \in DOMAIN content[cursor.file]
        BY <1>2, <3>5 DEF SteadyInv, CursorIsEnd
      <4>2. cursor.offset <= Size(cursor.file)
        BY <1>1, <3>3, <3>5, <4>1, Contents
      <4> QED BY <3>1, <3>5, <4>2
    <3> QED BY <2>3, <3>4, <3>5 DEF Listing
  <2> QED BY <2>1, <2>2, <2>4 DEF Exists, Size
<1>12. CASE NoSourceLeft
  BY <1>1, <1>3, <1>12 DEF NoSourceLeft, disk, Exists, RunTypes, FdOpen
<1>13. CASE OpenSource
  <2>1. UNCHANGED <<dir, content>> /\ pc = "open"
    BY <1>13 DEF OpenSource, disk
  <2>2. fd'.path = sources[1].path /\ fd'.file = dir[sources[1].path]
           /\ fd'.pos = sources[1].offset /\ 1 \in DOMAIN sources
    BY <1>1, <1>13, Opened
  <2>3. \A k \in DOMAIN sources' : k + 1 \in DOMAIN sources /\ sources'[k] = sources[k + 1]
    BY <1>1, <1>13, Opened
  <2> QED BY <1>3, <2>1, <2>2, <2>3 DEF Exists, Size
<1>14. CASE EndOfFile
  BY <1>3, <1>14 DEF EndOfFile, disk, Exists, Size
<1>15. CASE CommitBatch /\ ~Over
  <2>1. UNCHANGED <<dir, content, sources>> /\ pc = "read" /\ fd # None
          /\ fd' = [fd EXCEPT !.pos = BatchEnd]
    BY <1>1, <1>15 DEF CommitBatch, Over, disk, RunTypes, FdOpen
  <2>2. fd \in Reader /\ BatchEnd <= Size(fd.file)
    BY <1>1, <1>15, BatchEndBounds DEF CommitBatch
  <2>3. fd'.file = fd.file /\ fd'.path = fd.path /\ fd'.pos = BatchEnd
    BY <2>1, <2>2 DEF Reader
  <2> QED BY <1>3, <2>1, <2>2, <2>3 DEF Exists, Size
<1>16. CASE Finish \/ Over \/ StartAtEnd \/ NothingToRead
  BY <1>1, <1>7, <1>16 DEF Finish, Over, StartAtEnd, NothingToRead, RunTypes, FdOpen, RunShape
<1> HIDE DEF Goal
<1>17. WriteLine \/ Rename \/ Reopen \/ UNCHANGED <<dir, content>>
  BY <1>2, RunDiskFrame
<1> QED BY <1>2, <1>6, <1>7, <1>8, <1>9, <1>10, <1>11, <1>12, <1>13, <1>14, <1>15, <1>16,
           <1>17, RunFrame

(* A new line is ahead of a run, whose last path is the log itself.        *)
LEMMA ReadsAllWritten ==
    ASSUME ImportInv, SteadyInv, Steady, WriteLine, fd # None \/ sources # << >>
    PROVE  /\ LastPath = 1
           /\ \A g \in File : \A i \in DOMAIN content'[g] :
                content'[g][i] \notin counted => Ahead(g, i)
<1> USE ImportAssumption
<1>1. TypeInv /\ DiskTypes /\ RunTypes /\ RunShape /\ DirShape
  BY Calm DEF ImportInv
<1>2. LastPath = 1 /\ \A g \in File : \A i \in DOMAIN content[g] :
                        content[g][i] \notin counted => Ahead(g, i)
  BY DEF SteadyInv, RunReadsAll
<1>3. dir[1] = logging /\ logging \in File /\ Size(logging) \in Nat
  <2>1. pc \in {"open", "read", "end"}
    BY <1>1 DEF RunTypes, FdOpen, RunShape
  <2>2. Exists(1)
    BY <2>1 DEF SteadyInv, RunInPlace
  <2> QED BY <1>1, <2>2, Contents DEF DirShape, DiskTypes
<1>4. ASSUME NEW g \in File, NEW i \in DOMAIN content'[g], content'[g][i] \notin counted
      PROVE  Ahead(g, i)
  <2>1. CASE i \in DOMAIN content[g] /\ content'[g][i] = content[g][i]
    BY <1>2, <1>4, <2>1
  <2>2. CASE g = logging /\ i = Size(logging) + 1
    <3>1. CASE sources = << >>
      <4>1. fd # None /\ fd.path = 1
        BY <1>2, <3>1 DEF LastPath
      <4>2. fd.file = logging /\ fd.pos <= Size(logging) /\ fd.pos \in Nat
        BY <1>1, <1>3, <4>1 DEF SteadyInv, RunInPlace, RunTypes, Reader
      <4> QED BY <1>3, <2>2, <4>1, <4>2 DEF Ahead
    <3>2. CASE sources # << >>
      <4>1. Len(sources) \in DOMAIN sources
        BY <1>1, <3>2, SourceTypes, EmptySeq DEF RunTypes
      <4>2. sources[Len(sources)].path = 1
        BY <1>2, <3>2 DEF LastPath
      <4>3. sources[Len(sources)].offset <= Size(logging)
              /\ sources[Len(sources)].offset \in Nat
        BY <1>1, <1>3, <4>1, <4>2, SourceTypes DEF SteadyInv, RunInPlace
      <4>4. dir[sources[Len(sources)].path] = logging /\ i > sources[Len(sources)].offset
        BY <1>3, <2>2, <4>2, <4>3
      <4> QED BY <2>2, <4>1, <4>4 DEF Ahead
    <3> QED BY <3>1, <3>2
  <2>3. [Next]_vars
    BY DEF Next
  <2> QED BY <1>1, <2>1, <2>2, <2>3, LinesAfter
<1> QED BY <1>2, <1>4

(* A run lists every line that is not counted, up to the log itself.       *)
LEMMA ReadsAllListed ==
    ASSUME ImportInv, SteadyInv, Steady, ListSources, dir[1] = logging
    PROVE  /\ fd' = None /\ sources' # << >> /\ sources'[Len(sources')].path = 1
           /\ \A g \in File : \A i \in DOMAIN content[g] :
                content[g][i] \notin counted =>
                  \E k \in DOMAIN sources' : g = dir[sources'[k].path] /\ i > sources'[k].offset
<1> USE ImportAssumption
<1>1. DiskTypes /\ DbTypes /\ RunTypes /\ DirShape /\ ContentShape
  BY Calm DEF ImportInv
<1>2. fd' = None /\ Exists(1) /\ 1 \in Path /\ fullHistory
  BY <1>1 DEF ListSources, RunTypes, FdOpen, Exists, DiskTypes, Steady, Path
<1>3. sources' \in Seq(Source) /\ Listing(sources') /\ Descending(sources')
  BY <1>1, <1>2, Listed
<1>4. DOMAIN sources' = 1 .. Len(sources') /\ Len(sources') \in Nat
        /\ \A k \in DOMAIN sources' : sources'[k].path \in Path /\ sources'[k].offset \in Nat
  <2>1. DOMAIN sources' = 1 .. Len(sources') /\ Len(sources') \in Nat
    BY <1>3, LenProperties
  <2>2. \A k \in DOMAIN sources' : sources'[k] \in Source
    BY <1>3, <2>1, ElementOfSeq
  <2> QED BY <2>1, <2>2 DEF Source
<1>5. cursor # None =>
        /\ OnPath(cursor.file) /\ cursor.file \in File /\ cursor.offset \in DOMAIN content[cursor.file]
        /\ counted = 1 .. content[cursor.file][cursor.offset]
  BY <1>1 DEF SteadyInv, CursorIsEnd, DbTypes, Cursor
<1>6. \E k \in DOMAIN sources' : sources'[k].path = 1
  <2>1. ASSUME cursor # None, dir[1] < cursor.file PROVE FALSE
    <3>1. PICK p \in Path : dir[p] = cursor.file
      BY <1>5, <2>1 DEF OnPath
    <3>2. Exists(p)
      BY <1>5, <2>1, <3>1 DEF Exists
    <3>3. dir[p] <= logging
      BY <1>1, <3>2, LoggingIsNewest
    <3> QED BY <1>1, <1>5, <2>1, <3>1, <3>3 DEF File, DiskTypes
  <2> QED BY <1>2, <1>3, <1>5, <2>1 DEF Listing
<1>7. sources' # << >> /\ sources'[Len(sources')].path = 1
  <2>1. PICK k \in DOMAIN sources' : sources'[k].path = 1
    BY <1>6
  <2>2. Len(sources') \in DOMAIN sources' /\ k <= Len(sources')
    BY <1>4, <2>1
  <2>3. k = Len(sources') \/ sources'[k].path > sources'[Len(sources')].path
    BY <1>3, <1>4, <2>1, <2>2 DEF Descending
  <2>4. sources'[Len(sources')].path \in Nat \ {0}
    BY <1>4, <2>2 DEF Path
  <2> QED BY <1>4, <2>1, <2>2, <2>3, <2>4
<1>8. ASSUME NEW g \in File, NEW i \in DOMAIN content[g], content[g][i] \notin counted
      PROVE  \E k \in DOMAIN sources' : g = dir[sources'[k].path] /\ i > sources'[k].offset
  <2>1. i \in Nat \ {0} /\ g \in Nat /\ content[g][i] \in Nat \ {0}
    BY <1>1, Contents DEF Line, File
  <2>2. PICK p \in Path : dir[p] = g
    BY <1>8 DEF SteadyInv, NothingGone, OnPath
  <2>3. Exists(p)
    BY <2>2 DEF Exists
  <2>4. cursor # None =>
          content[g][i] > content[cursor.file][cursor.offset]
            /\ content[cursor.file][cursor.offset] \in Nat
    <3> SUFFICES ASSUME cursor # None
                 PROVE  content[g][i] > content[cursor.file][cursor.offset]
                          /\ content[cursor.file][cursor.offset] \in Nat
      OBVIOUS
    <3>1. content[cursor.file][cursor.offset] \in Nat
      <4>1. \A f \in File : \A j \in DOMAIN content[f] : content[f][j] \in Nat
        BY <1>1, Contents DEF Line
      <4> QED BY <1>5, <4>1
    <3>2. content[g][i] \notin 1 .. content[cursor.file][cursor.offset]
      BY <1>5, <1>8
    <3> QED BY <2>1, <3>1, <3>2
  <2>5. CASE \E k \in DOMAIN sources' : sources'[k].path = p
    <3>1. PICK k \in DOMAIN sources' : sources'[k].path = p
      BY <2>5
    <3>2. CASE sources'[k].offset = 0
      BY <2>1, <2>2, <3>1, <3>2
    <3>3. CASE cursor # None /\ dir[p] = cursor.file /\ sources'[k].offset = cursor.offset
      <4>1. cursor.offset \in Nat
        BY <1>1, <1>5, <3>3, Contents
      <4>2. i > cursor.offset
        BY <1>1, <1>5, <2>1, <2>2, <2>4, <3>3, <4>1 DEF ContentShape
      <4> QED BY <2>2, <3>1, <3>3, <4>2
    <3> QED BY <1>3, <3>1, <3>2, <3>3 DEF Listing
  <2>6. CASE cursor # None /\ dir[p] < cursor.file
    <3>1. content[g][i] < content[cursor.file][cursor.offset]
      BY <1>1, <1>5, <2>2, <2>6 DEF ContentShape
    <3> QED BY <2>1, <2>4, <2>6, <3>1
  <2> QED BY <1>3, <1>5, <2>3, <2>5, <2>6 DEF Listing
<1> QED BY <1>2, <1>7, <1>8

LEMMA RunReadsAllStep == ImportInv /\ SteadyInv /\ [Next]_vars => RunReadsAll'
<1> SUFFICES ASSUME ImportInv, SteadyInv, [Next]_vars, Steady', fd' # None \/ sources' # << >>
             PROVE  /\ LastPath' = 1
                    /\ \A g \in File : \A i \in DOMAIN content'[g] :
                          content'[g][i] \notin counted' => Ahead(g, i)'
  BY DEF RunReadsAll
<1> USE ImportAssumption
<1>1. TypeInv /\ DiskTypes /\ DbTypes /\ RunTypes /\ RunShape /\ DirShape /\ ContentShape
  BY Calm DEF ImportInv
<1>2. Steady /\ ~Truncate
  BY SteadyBefore
<1>3. fd # None \/ sources # << >> =>
        /\ LastPath = 1
        /\ \A g \in File : \A i \in DOMAIN content[g] :
              content[g][i] \notin counted => Ahead(g, i)
  BY <1>2 DEF SteadyInv, RunReadsAll
<1>4. CASE WriteLine
  BY <1>2, <1>4, ReadsAllWritten DEF WriteLine, run, db, LastPath, Ahead
<1>5. CASE UNCHANGED <<dir, content, counted>> /\ UNCHANGED run
  BY <1>3, <1>5 DEF run, LastPath, Ahead
<1>6. CASE ListSources
  <2>1. /\ fd' = None /\ sources' # << >> /\ sources'[Len(sources')].path = 1
        /\ \A g \in File : \A i \in DOMAIN content[g] :
             content[g][i] \notin counted =>
               \E k \in DOMAIN sources' : g = dir[sources'[k].path] /\ i > sources'[k].offset
    BY <1>2, <1>6, SteadyBefore, ReadsAllListed
  <2>2. UNCHANGED <<dir, content, counted>>
    BY <1>6 DEF ListSources, disk, db
  <2> QED BY <2>1, <2>2 DEF LastPath, Ahead
<1>7. CASE OpenSource
  <2>1. UNCHANGED <<dir, content, counted>> /\ sources # << >> /\ fd = None
    BY <1>1, <1>7 DEF OpenSource, disk, db, RunTypes, FdOpen
  <2>2. fd' # None
    BY <1>1, <1>7, RunTypesStep DEF OpenSource, RunTypes, FdOpen
  <2>3. fd'.path = sources[1].path /\ fd'.file = dir[sources[1].path]
           /\ fd'.pos = sources[1].offset /\ 1 \in DOMAIN sources
    BY <1>1, <1>7, Opened
  <2>4. Len(sources') = Len(sources) - 1 /\ DOMAIN sources' = 1 .. Len(sources) - 1
           /\ \A k \in DOMAIN sources' : sources'[k] = sources[k + 1]
    BY <1>1, <1>7, Opened
  <2>5. sources' \in Seq(Source) /\ Len(sources) \in Nat /\ DOMAIN sources = 1 .. Len(sources)
    BY <1>1, <1>7, HeadTailProperties, SourceTypes DEF OpenSource, RunTypes
  <2>6. LastPath' = LastPath
    <3>1. CASE sources' = << >>
      <4>1. Len(sources) = 1
        BY <2>4, <2>5, <3>1, EmptySeq
      <4> QED BY <2>1, <2>3, <3>1, <4>1 DEF LastPath
    <3>2. CASE sources' # << >>
      <4>1. Len(sources) - 1 \in DOMAIN sources' /\ (Len(sources) - 1) + 1 = Len(sources)
        BY <2>4, <2>5, <3>2, EmptySeq
      <4>2. sources'[Len(sources')] = sources[Len(sources)]
        BY <2>4, <4>1
      <4> QED BY <2>1, <3>2, <4>2 DEF LastPath
    <3> QED BY <3>1, <3>2
  <2>7. ASSUME NEW g \in File, NEW i, Ahead(g, i) PROVE Ahead(g, i)'
    <3>1. PICK k \in DOMAIN sources : g = dir[sources[k].path] /\ i > sources[k].offset
      BY <2>1, <2>7 DEF Ahead
    <3>2. CASE k = 1
      BY <2>2, <2>3, <3>1, <3>2 DEF Ahead
    <3>3. CASE k # 1
      <4>1. k - 1 \in DOMAIN sources' /\ (k - 1) + 1 = k
        BY <2>4, <2>5, <3>1, <3>3
      <4>2. sources'[k - 1] = sources[k]
        BY <2>4, <4>1
      <4> QED BY <2>1, <3>1, <4>1, <4>2 DEF Ahead
    <3> QED BY <3>2, <3>3
  <2> QED BY <1>3, <2>1, <2>6, <2>7
<1>8. CASE EndOfFile
  <2>1. fd # None /\ fd' = None /\ UNCHANGED <<dir, content, counted, sources>>
          /\ fd.pos >= Size(fd.file)
    BY <1>1, <1>8 DEF EndOfFile, disk, db, RunTypes, FdOpen
  <2>2. fd.file \in File /\ fd.pos \in Nat
    BY <1>1, <2>1 DEF RunTypes, Reader
  <2>3. ASSUME NEW g \in File, NEW i \in DOMAIN content[g], Ahead(g, i) PROVE Ahead(g, i)'
    <3>1. ~(g = fd.file /\ i > fd.pos)
      BY <1>1, <2>1, <2>2, Contents
    <3> QED BY <2>1, <2>3, <3>1 DEF Ahead
  <2> QED BY <1>3, <2>1, <2>3 DEF LastPath
<1>9. CASE CommitBatch /\ ~Over
  <2>1. UNCHANGED <<dir, content, sources>> /\ pc = "read" /\ fd # None
          /\ fd' = [fd EXCEPT !.pos = BatchEnd] /\ counted' = counted \cup Batch
          /\ fd.pos < Size(fd.file)
    BY <1>1, <1>9 DEF CommitBatch, Over, disk, RunTypes, FdOpen
  <2>2. fd \in Reader /\ BatchEnd \in Nat
    BY <1>1, <1>9, BatchEndBounds DEF CommitBatch
  <2>3. fd'.file = fd.file /\ fd'.path = fd.path /\ fd'.pos = BatchEnd /\ fd' # None
    <3>1. fd' \in Reader
      BY <2>1, <2>2 DEF Reader
    <3> QED BY <2>1, <2>2, <3>1 DEF Reader
  <2>4. ASSUME NEW g \in File, NEW i \in DOMAIN content[g], content[g][i] \notin counted'
        PROVE  Ahead(g, i)'
    <3>1. Ahead(g, i)
      BY <1>3, <2>1, <2>4
    <3>2. CASE g = fd.file /\ i > fd.pos
      <4>1. ~(i <= BatchEnd)
        BY <1>1, <2>1, <2>2, <2>4, <3>2, BatchLines DEF Reader
      <4>2. i \in Nat
        BY <1>1, Contents
      <4> QED BY <2>2, <2>3, <3>2, <4>1, <4>2 DEF Ahead
    <3> QED BY <2>1, <3>1, <3>2 DEF Ahead
  <2> QED BY <1>3, <2>1, <2>3, <2>4 DEF LastPath
<1>10. ~(\/ Over \/ Begin \/ ClearCursor \/ StartAtEnd \/ NothingToRead \/ NoSourceLeft
         \/ Finish)
  BY <1>1 DEF Over, Begin, ClearCursor, StartAtEnd, NothingToRead, NoSourceLeft, Finish,
     RunTypes, FdOpen, RunShape
<1>11. ~Rename /\ ~Reopen
  BY <1>1, SteadyBefore DEF Rename, Reopen, Busy, run, RunTypes, FdOpen, RunShape
<1>12. WriteLine \/ UNCHANGED <<dir, content>>
  BY <1>2, <1>11, RunDiskFrame
<1>13. ~CommitBatch => UNCHANGED counted
  BY DbFrame DEF ClearCursor, StartAtEnd
<1> QED BY <1>4, <1>5, <1>6, <1>7, <1>8, <1>9, <1>10, <1>12, <1>13, RunFrame

LEMMA ListedCountedStep == ImportInv /\ SteadyInv /\ [Next]_vars => ListedCounted'
<1> SUFFICES ASSUME ImportInv, SteadyInv, [Next]_vars PROVE ListedCounted'
  OBVIOUS
<1> USE ImportAssumption
<1>1. TypeInv /\ DiskTypes /\ DbTypes /\ RunTypes /\ RunShape /\ ContentShape /\ StatusShape
  BY Calm DEF ImportInv
<1>2. listed \subseteq 1 .. written
  BY DEF SteadyInv, ListedCounted
<1>3. listed' \subseteq 1 .. written'
  <2>1. written \in Nat /\ written' \in Nat /\ written <= written'
    BY <1>1, RunDiskFrame DEF WriteLine, Rename, Reopen, Truncate, DiskTypes
  <2>2. CASE listed' \subseteq listed
    BY <1>2, <2>1, <2>2
  <2>3. CASE ListSources
    <3>1. ASSUME NEW l \in OnDisk PROVE l \in 1 .. written
      <4>1. PICK f \in File : l \in Range(content[f])
        <5> DEFINE named == UNION {Range(content[dir[p]]) : p \in {q \in Path : Exists(q)}}
        <5>1. CASE l \in Range(content[logging])
          BY <1>1, <5>1 DEF DiskTypes
        <5>2. CASE l \in named
          <6>1. PICK p \in Path : Exists(p) /\ l \in Range(content[dir[p]])
            BY <5>2
          <6> QED BY <1>1, <6>1 DEF DiskTypes, Exists
        <5>3. OnDisk = named \cup Range(content[logging])
          BY DEF OnDisk
        <5> HIDE DEF named
        <5> QED BY <5>1, <5>2, <5>3
      <4>2. PICK i \in DOMAIN content[f] : l = content[f][i]
        BY <4>1 DEF Range
      <4>3. l <= written /\ l \in Line
        BY <1>1, <4>2, Contents DEF ContentShape
      <4> QED BY <2>1, <4>3 DEF Line
    <3> QED BY <2>3, <3>1 DEF ListSources, disk
  <2>4. listed' \subseteq listed \/ ListSources
    BY RunFrame DEF run, Over, Begin, ClearCursor, StartAtEnd, NothingToRead, NoSourceLeft,
       OpenSource, EndOfFile, CommitBatch, Finish
  <2> QED BY <2>2, <2>3, <2>4
<1>4. ASSUME Steady', (pc' \in {"open", "end"} /\ sources' = << >>) \/ status' = "complete"
      PROVE  listed' \subseteq counted'
  <2>1. Steady /\ fullHistory /\ counted \subseteq counted'
    <3>1. Steady /\ counted \subseteq counted'
      BY <1>4, SteadyBefore, CountedGrows
    <3> QED BY <3>1 DEF Steady
  <2>2. (pc \in {"open", "end"} /\ sources = << >>) \/ status = "complete"
          => listed \subseteq counted
    BY <2>1 DEF SteadyInv, ListedCounted
  <2>3. CASE UNCHANGED run /\ UNCHANGED status
    BY <1>4, <2>1, <2>2, <2>3 DEF run
  <2>4. CASE listed' = {}
    BY <2>4
  <2>5. CASE Begin \/ ClearCursor \/ StartAtEnd \/ NothingToRead \/ OpenSource
    BY <1>1, <1>4, <2>1, <2>5 DEF Begin, ClearCursor, StartAtEnd, NothingToRead, OpenSource,
       StatusShape, db
  <2>6. CASE ListSources
    <3>1. sources' # << >>
      BY <1>4, <2>1, <2>6, SteadyBefore, ReadsAllListed
    <3> QED BY <1>1, <1>4, <2>6, <3>1 DEF ListSources, StatusShape, db
  <2>7. CASE NoSourceLeft
    BY <2>1, <2>2, <2>7 DEF NoSourceLeft
  <2>8. CASE EndOfFile
    <3>1. pc = "read" /\ fd # None /\ fd.pos >= Size(fd.file)
            /\ UNCHANGED <<listed, sources, counted, status>>
      BY <1>1, <2>8 DEF EndOfFile, RunTypes, FdOpen, db
    <3>2. sources = << >> /\ status # "complete"
      BY <1>1, <1>4, <3>1 DEF StatusShape
    <3>3. fd.file \in File /\ fd.pos \in Nat
      BY <1>1, <3>1 DEF RunTypes, Reader
    <3>4. ASSUME NEW l \in listed, l \notin counted PROVE FALSE
      <4>1. PICK g \in File : \E i \in DOMAIN content[g] : content[g][i] = l
        BY <1>2, <2>1 DEF SteadyInv, EveryLinePlaced
      <4>2. PICK i \in DOMAIN content[g] : content[g][i] = l
        BY <4>1
      <4>3. Ahead(g, i)
        BY <2>1, <3>1, <3>4, <4>2 DEF SteadyInv, RunReadsAll
      <4>4. g = fd.file /\ i > fd.pos
        BY <3>2, <4>3 DEF Ahead
      <4> QED BY <1>1, <3>1, <3>3, <4>4, Contents
    <3> QED BY <3>1, <3>4
  <2>9. CASE CommitBatch
    <3>1. pc = "read" /\ UNCHANGED status
      BY <2>9 DEF CommitBatch
    <3>2. status # "complete"
      BY <1>1, <3>1 DEF StatusShape
    <3> QED BY <1>4, <2>9, <3>1, <3>2 DEF CommitBatch
  <2>10. CASE Finish
    <3>1. pc = "end" /\ UNCHANGED <<listed, counted>>
      BY <2>1, <2>10 DEF Finish
    <3>2. sources = << >>
      BY <1>1, <3>1 DEF RunShape
    <3> QED BY <2>2, <3>1, <3>2
  <2>11. UNCHANGED run => UNCHANGED status \/ Begin \/ Finish
    BY DEF Next, vars, WriteLine, Rename, Reopen, Truncate, Import,
       ClearCursor, ListSources, StartAtEnd, NothingToRead, NoSourceLeft,
       OpenSource, EndOfFile, CommitBatch, Missing, Crash, disk, db
  <2> QED BY <2>3, <2>4, <2>5, <2>6, <2>7, <2>8, <2>9, <2>10, <2>11, RunFrame DEF Over
<1> QED BY <1>3, <1>4 DEF ListedCounted

LEMMA InitSteady == ~HasOldCursor /\ Init => SteadyInv
<1> SUFFICES ASSUME ~HasOldCursor, Init PROVE SteadyInv
  OBVIOUS
<1> USE ImportAssumption
<1>1. 1 \in File /\ 2 \in File /\ 1 \in Path /\ 2 \in Path
  BY DEF File, Path
<1>2. \A f \in {1, 2} : content[f] = <<f>>
  BY <1>1 DEF Init
<1>3. \A f \in {1, 2} : 1 \in DOMAIN content[f] /\ content[f][1] = f
  BY <1>2
<1>4. EveryLinePlaced
  BY <1>1, <1>3 DEF EveryLinePlaced, Init
<1>5. NothingGone
  <2>1. dir[1] = 2 /\ dir[2] = 1
    BY <1>1 DEF Init
  <2>2. ASSUME NEW g \in File, NEW i \in DOMAIN content[g] PROVE g \in {1, 2}
    <3>1. CASE ~(g <= 2)
      <4>1. content[g] = << >>
        BY <3>1 DEF Init
      <4>2. DOMAIN << >> = {}
        BY SMT
      <4> QED BY <4>1, <4>2
    <3> QED BY <3>1 DEF File
  <2> QED BY <1>1, <2>1, <2>2 DEF NothingGone, OnPath
<1>6. CursorIsEnd
  BY DEF CursorIsEnd, Init
<1>7. RunInPlace /\ RunReadsAll /\ ListedCounted
  BY DEF RunInPlace, RunReadsAll, ListedCounted, Init
<1> QED BY <1>4, <1>5, <1>6, <1>7 DEF SteadyInv

LEMMA StepSteady == ImportInv /\ SteadyInv /\ [Next]_vars => SteadyInv'
<1>1. ImportInv /\ SteadyInv /\ [Next]_vars => EveryLinePlaced' /\ NothingGone'
  BY EveryLinePlacedStep, NothingGoneStep DEF SteadyInv
<1> QED BY <1>1, CursorIsEndStep, RunInPlaceStep, RunReadsAllStep, ListedCountedStep
        DEF SteadyInv

(* The second invariant, of behaviours without a race: every line on disk  *)
(* is either counted or still ahead of the cursor or the run.              *)
THEOREM SteadyInvariant ==
    ASSUME ~HasOldCursor
    PROVE  Spec => []SteadyInv
<1>1. Init => SteadyInv
  BY InitSteady
<1> QED BY <1>1, StepSteady, ImportInvariant, PTL DEF Spec

(* What a history import has counted is an initial segment of the log, and *)
(* the cursor is at its end, as long as no rotation races with a run:      *)
(* crashes, spent budgets and rotations between two runs neither skip nor  *)
(* repeat a line.  An import that takes over the cursor of an earlier      *)
(* version has not counted what lies before it.                            *)
THEOREM CountedPrefix ==
    ASSUME ~HasOldCursor
    PROVE  Spec => []CountedIsPrefix
<1>1. ImportInv /\ SteadyInv => CountedIsPrefix
  <2> SUFFICES ASSUME ImportInv, CursorIsEnd, Steady
               PROVE  /\ counted = 1 .. Cardinality(counted)
                      /\ counted # {} =>
                           content[cursor.file][cursor.offset] = Cardinality(counted)
    BY DEF CountedIsPrefix, SteadyInv, Steady
  <2>1. DiskTypes /\ DbTypes
    BY Calm
  <2>2. CASE counted = {}
    BY <2>2, FS_EmptySet
  <2>3. CASE counted # {}
    <3> DEFINE n == content[cursor.file][cursor.offset]
    <3>1. cursor # None /\ counted = 1 .. n /\ cursor.offset \in DOMAIN content[cursor.file]
      BY <2>3 DEF CursorIsEnd
    <3>2. n \in Nat \ {0}
      BY <2>1, <3>1, Contents DEF DbTypes, Cursor, Line
    <3> HIDE DEF n
    <3>3. Cardinality(1 .. n) = n
      BY <3>2, FS_Interval
    <3> QED BY <3>1, <3>3 DEF n
  <2> QED BY <2>2, <2>3
<1> QED BY <1>1, ImportInvariant, SteadyInvariant, PTL

(* A site is complete only when every line that was on disk when its last  *)
(* run listed the files is counted, if no rotation raced and no earlier    *)
(* version left a cursor.                                                  *)
THEOREM CompleteMeansListed ==
    ASSUME ~HasOldCursor
    PROVE  Spec => []CompleteCoversListed
<1>1. ImportInv /\ SteadyInv => CompleteCoversListed
  BY DEF ImportInv, StatusShape, SteadyInv, ListedCounted, Steady, CompleteCoversListed
<1> QED BY <1>1, ImportInvariant, SteadyInvariant, PTL
=============================================================================
