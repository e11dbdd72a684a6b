------------------------- MODULE SiteRegistry_proofs -------------------------
(***************************************************************************)
(* Theorems about SiteRegistry, for every number of sites, paths, rows and *)
(* processes.                                                              *)
(***************************************************************************)
EXTENDS SiteRegistry, SequenceTheorems, FiniteSetTheorems, WellFoundedInduction, TLAPS

-----------------------------------------------------------------------------
(* A set of numbers within a bound has a largest element, and Max is it.   *)
LEMMA MaxOfBounded ==
    ASSUME NEW N \in Nat, NEW S \in SUBSET (0 .. N), S # {}
    PROVE  Max(S) \in S /\ \A x \in S : Max(S) >= x
<1> DEFINE T == {n \in Nat : n <= N /\ N - n \in S}
<1>1. T \subseteq Nat
  OBVIOUS
<1>2. T # {}
  <2>1. PICK x \in S : TRUE
    OBVIOUS
  <2>2. N - x \in Nat /\ N - x <= N /\ N - (N - x) = x
    BY <2>1
  <2>3. N - x \in T
    BY <2>1, <2>2
  <2> QED BY <2>3
<1> HIDE DEF T
<1>3. \E n \in T : \A m \in T : ~(<<m, n>> \in OpToRel(<, Nat))
  BY <1>1, <1>2, WFMin, NatLessThanWellFounded
<1>4. PICK n \in T : \A m \in T : ~(m < n)
  BY <1>1, <1>3 DEF OpToRel
<1>5. n \in Nat /\ n <= N /\ N - n \in S
  BY DEF T
<1>6. ASSUME NEW x \in S PROVE N - n >= x
  <2>1. N - x \in Nat /\ N - x <= N /\ N - (N - x) = x
    OBVIOUS
  <2>2. N - x \in T
    BY <2>1 DEF T
  <2>3. ~(N - x < n)
    BY <1>4, <2>2
  <2> QED BY <1>5, <2>1, <2>3
<1> QED BY <1>5, <1>6 DEF Max

-----------------------------------------------------------------------------
(* Types.                                                                  *)
UniquePaths ==
    \A r, q \in Row : rows[r] # None /\ rows[q] # None /\ r # q => rows[r].path # rows[q].path

TableTypes ==
    /\ rows \in [Row -> SiteRow \cup {None}]
    /\ next \in 1 .. MaxRows + 1
    /\ \A r \in Row : rows[r] # None => r < next
    /\ UniquePaths

(* A minute holds at most what was counted, and the initial table.         *)
CountTypes ==
    /\ counted \in 0 .. MaxRequests
    /\ metric \in [Row -> [Minutes -> 0 .. counted + 2]]
    /\ cursor \in [Row -> Cursor \cup {None}]
    /\ \A r \in Row : rows[r] = None => cursor[r] = None

(* A process has sites to register only while it synchronises.             *)
SyncTypes ==
    /\ seen \in [Process -> SitePaths \cup {None}]
    /\ todo \in [Process -> SUBSET Panels]
    /\ found \in [Process -> Found \cup {None}]
    /\ result \in [Process -> Mapping]
    /\ \A k \in Process : \A p \in todo[k] : seen[k] # None /\ seen[k][p] # None
    /\ \A k \in Process : found[k] # None =>
          /\ found[k].site \in todo[k]
          /\ found[k].ids = << >> => found[k].orphan = None

WorldTypes ==
    /\ panel \in SitePaths /\ mapping \in Mapping
    /\ solo \subseteq Process /\ overlapped \in BOOLEAN /\ settled \in BOOLEAN
    /\ failed \subseteq Process /\ changes \in 0 .. MaxChanges

(* So does what was read of one.                                           *)
ReadTypes ==
    \A k \in Process : found[k] # None /\ found[k].read # None
                           => found[k].read \in [Minutes -> 0 .. counted + 2]

TypeInv == TableTypes /\ CountTypes /\ SyncTypes /\ WorldTypes /\ ReadTypes

LEMMA NoneApart ==
    /\ \A x \in Row : x # None
    /\ \A x \in Paths : x # None
    /\ \A x \in SiteRow : x # None
    /\ \A x \in SitePaths : x # None
    /\ \A x \in Cursor : x # None
    /\ \A x \in Found : x # None
    /\ \A x \in Counts : x # None
<1>1. None \notin Nat \cup Paths \cup SiteRow \cup SitePaths \cup Cursor \cup Found \cup Counts
  BY RegistryAssumption
<1>2. \A x \in Row : x \in Nat
  BY RegistryAssumption DEF Row
<1> QED BY <1>1, <1>2

LEMMA TypeParts == TypeInv => TypeOK
<1> SUFFICES ASSUME TypeInv PROVE TypeOK
  OBVIOUS
<1>1. TableTypes /\ CountTypes /\ SyncTypes /\ WorldTypes
  BY DEF TypeInv
<1>2. counted + 2 \in Nat /\ 0 .. counted + 2 \subseteq 0 .. MaxRequests + 2
  BY <1>1, RegistryAssumption DEF CountTypes
<1>3. metric \in [Row -> Counts]
  BY <1>1, <1>2 DEF CountTypes, Counts
<1> QED BY <1>1, <1>3 DEF TypeOK, TableTypes, UniquePaths, CountTypes, SyncTypes, WorldTypes

-----------------------------------------------------------------------------
(* What a process has found: the row it keeps, and the rows that go.       *)
Gone(f) == ToSet(Duplicates(f)) \ {f.ids[1]}

LEMMA FoundRows ==
    ASSUME NEW f \in Found, f.ids # << >>
    PROVE  /\ f.ids[1] \in Row /\ f.ids[1] \in Range(f.ids)
           /\ Duplicates(f) \in Seq(Row)
           /\ ToSet(Duplicates(f)) \subseteq Row
           /\ Gone(f) \subseteq Row
           /\ Range(f.ids) \ {f.ids[1]} \subseteq Gone(f)
           /\ Gone(f) \subseteq Range(f.ids) \cup {f.orphan}
           /\ f.orphan = None => Gone(f) \subseteq Range(f.ids)
<1> DEFINE ids == f.ids
           tail == Tail(f.ids)
           extra == IF f.orphan = None THEN << >> ELSE <<f.orphan>>
<1>1. ids \in Seq(Row) /\ f.orphan \in Row \cup {None}
  BY DEF Found
<1>2. /\ Len(ids) \in Nat /\ Len(ids) > 0 /\ ids[1] \in Row
      /\ tail \in Seq(Row) /\ Len(tail) = Len(ids) - 1
      /\ \A i \in 1 .. Len(tail) : tail[i] = ids[i + 1]
  BY <1>1, HeadTailProperties
<1>3. extra \in Seq(Row) /\ Len(extra) \in {0, 1}
      /\ \A i \in 1 .. Len(extra) : extra[i] = f.orphan /\ f.orphan # None
  BY <1>1
<1>4. Duplicates(f) = tail \o extra
  BY DEF Duplicates
<1> HIDE DEF ids, tail, extra
<1>5. /\ Duplicates(f) \in Seq(Row)
      /\ ToSet(Duplicates(f)) = ToSet(tail) \cup ToSet(extra)
  <2> DEFINE d == tail \o extra
  <2>1. d \in Seq(Row) /\ Len(d) = Len(tail) + Len(extra)
        /\ \A i \in 1 .. Len(d) : d[i] = IF i <= Len(tail) THEN tail[i] ELSE extra[i - Len(tail)]
    <3>1. tail \in Seq(Row) /\ extra \in Seq(Row)
      BY <1>2, <1>3
    <3>2. d \in Seq(Row)
      BY <3>1, ConcatProperties, Zenon
    <3>3. Len(d) = Len(tail) + Len(extra)
      BY <3>1, ConcatProperties, Zenon
    <3>4. \A i \in 1 .. Len(tail) + Len(extra) :
            d[i] = IF i <= Len(tail) THEN tail[i] ELSE extra[i - Len(tail)]
      BY <3>1, ConcatProperties, Zenon
    <3> QED BY <3>2, <3>3, <3>4
  <2> HIDE DEF d
  <2>2. Len(tail) \in Nat /\ Len(extra) \in Nat /\ DOMAIN d = 1 .. Len(d)
        /\ DOMAIN tail = 1 .. Len(tail) /\ DOMAIN extra = 1 .. Len(extra)
    BY <1>2, <1>3, <2>1
  <2>3. ASSUME NEW x \in ToSet(d) PROVE x \in ToSet(tail) \cup ToSet(extra)
    <3>1. PICK i \in 1 .. Len(d) : x = d[i]
      BY <2>2, <2>3 DEF ToSet
    <3>2. CASE i <= Len(tail)
      BY <2>1, <2>2, <3>1, <3>2 DEF ToSet
    <3>3. CASE ~(i <= Len(tail))
      <4>1. i - Len(tail) \in 1 .. Len(extra)
        BY <2>1, <2>2, <3>1, <3>3
      <4> QED BY <2>1, <2>2, <3>1, <3>3, <4>1 DEF ToSet
    <3> QED BY <3>2, <3>3
  <2>4. ASSUME NEW x \in ToSet(tail) PROVE x \in ToSet(d)
    <3>1. PICK i \in 1 .. Len(tail) : x = tail[i]
      BY <2>2, <2>4 DEF ToSet
    <3>2. i \in 1 .. Len(d) /\ i <= Len(tail)
      BY <2>1, <2>2, <3>1
    <3> QED BY <2>1, <2>2, <3>1, <3>2 DEF ToSet
  <2>5. ASSUME NEW x \in ToSet(extra) PROVE x \in ToSet(d)
    <3>1. PICK i \in 1 .. Len(extra) : x = extra[i]
      BY <2>2, <2>5 DEF ToSet
    <3>2. Len(tail) + i \in 1 .. Len(d) /\ ~(Len(tail) + i <= Len(tail))
          /\ (Len(tail) + i) - Len(tail) = i
      BY <2>1, <2>2, <3>1
    <3>3. d[Len(tail) + i] = extra[i]
      BY <2>1, <3>2
    <3> QED BY <2>2, <3>1, <3>2, <3>3 DEF ToSet
  <2> QED BY <1>4, <2>1, <2>3, <2>4, <2>5 DEF d
<1>6. ToSet(tail) \subseteq Range(ids) /\ Range(ids) \subseteq ToSet(tail) \cup {ids[1]}
      /\ ids[1] \in Range(ids) /\ ToSet(tail) \subseteq Row
  <2>1. DOMAIN ids = 1 .. Len(ids) /\ DOMAIN tail = 1 .. Len(tail)
    BY <1>1, <1>2
  <2>2. ASSUME NEW x \in ToSet(tail) PROVE x \in Range(ids) /\ x \in Row
    <3>1. PICK i \in 1 .. Len(tail) : x = tail[i]
      BY <2>1, <2>2 DEF ToSet
    <3>2. i + 1 \in 1 .. Len(ids)
      BY <1>2, <3>1
    <3> QED BY <1>1, <1>2, <2>1, <3>1, <3>2 DEF Range
  <2>3. ASSUME NEW x \in Range(ids) PROVE x \in ToSet(tail) \cup {ids[1]}
    <3>1. PICK i \in 1 .. Len(ids) : x = ids[i]
      BY <2>1, <2>3 DEF Range
    <3>2. CASE i = 1
      BY <3>1, <3>2
    <3>3. CASE i # 1
      <4>1. i - 1 \in 1 .. Len(tail) /\ (i - 1) + 1 = i
        BY <1>2, <3>1, <3>3
      <4>2. tail[i - 1] = ids[i]
        BY <1>2, <4>1
      <4> QED BY <2>1, <3>1, <4>1, <4>2 DEF ToSet
    <3> QED BY <3>2, <3>3
  <2>4. 1 \in DOMAIN ids
    BY <1>2, <2>1
  <2> QED BY <2>2, <2>3, <2>4 DEF Range
<1>7. ToSet(extra) \subseteq {f.orphan} /\ ToSet(extra) \subseteq Row
      /\ (f.orphan = None => ToSet(extra) = {})
  <2>1. DOMAIN extra = 1 .. Len(extra)
    BY <1>3
  <2>2. ASSUME NEW x \in ToSet(extra) PROVE x = f.orphan /\ f.orphan # None
    BY <1>3, <2>1, <2>2 DEF ToSet
  <2> QED BY <1>1, <2>2
<1> QED BY <1>2, <1>5, <1>6, <1>7 DEF ids, Gone

-----------------------------------------------------------------------------
(* What merging returns.                                                   *)
LEMMA BroughtType ==
    ASSUME CountTypes, SyncTypes, ReadTypes, NEW k \in Process, found[k] # None, Ready(found[k]),
           NEW r \in {found[k].ids[1]} \cup ToSet(Duplicates(found[k]))
    PROVE  Brought(found[k], r) \in [Minutes -> 0 .. counted + 2]
<1> DEFINE f == found[k]
<1>1. f \in Found /\ f.ids # << >>
  BY DEF SyncTypes, Ready
<1>2. r \in Row
  BY <1>1, FoundRows
<1>3. CASE r \in ToSet(Duplicates(f)) /\ r = First(f)
  <2>1. Duplicates(f) # << >>
    BY <1>3 DEF ToSet
  <2>2. f.read # None
    BY <2>1 DEF Ready
  <2> QED BY <1>3, <2>2 DEF ReadTypes, Brought
<1>4. CASE ~(r \in ToSet(Duplicates(f)) /\ r = First(f))
  <2>1. Brought(f, r) = metric[r]
    BY <1>4 DEF Brought
  <2> QED BY <1>2, <2>1 DEF CountTypes
<1> QED BY <1>3, <1>4

LEMMA MergedCount ==
    ASSUME CountTypes, SyncTypes, ReadTypes, NEW k \in Process, found[k] # None, Ready(found[k])
    PROVE  LET f == found[k]
           IN  /\ MergedMetric(f) \in [Minutes -> 0 .. counted + 2]
               /\ \A r \in {f.ids[1]} \cup ToSet(Duplicates(f)), m \in Minutes :
                     MergedMetric(f)[m] >= Brought(f, r)[m]
<1> DEFINE f == found[k]
           R == {f.ids[1]} \cup ToSet(Duplicates(f))
<1>1. \A r \in R : Brought(f, r) \in [Minutes -> 0 .. counted + 2]
  BY BroughtType
<1>2. counted + 2 \in Nat /\ R # {}
  <2>1. f.ids[1] \in R
    OBVIOUS
  <2>2. counted + 2 \in Nat
    BY RegistryAssumption DEF CountTypes
  <2> QED BY <2>1, <2>2
<1>3. ASSUME NEW m \in Minutes
      PROVE  /\ Max({Brought(f, r)[m] : r \in R}) \in 0 .. counted + 2
             /\ \A q \in R : Max({Brought(f, r)[m] : r \in R}) >= Brought(f, q)[m]
  <2> DEFINE S == {Brought(f, r)[m] : r \in R}
  <2> HIDE DEF R, f
  <2>1. S \in SUBSET (0 .. counted + 2) /\ S # {} /\ \A r \in R : Brought(f, r)[m] \in S
    BY <1>1, <1>2
  <2> HIDE DEF S
  <2>2. Max(S) \in S /\ \A x \in S : Max(S) >= x
    BY <1>2, <2>1, MaxOfBounded
  <2>3. Max(S) \in 0 .. counted + 2 /\ \A r \in R : Max(S) >= Brought(f, r)[m]
    BY <2>1, <2>2
  <2> QED BY <2>3 DEF S
<1>4. MergedMetric(f) = [m \in Minutes |-> Max({Brought(f, r)[m] : r \in R})]
  BY DEF MergedMetric
<1> HIDE DEF f, R
<1>5. /\ MergedMetric(f) \in [Minutes -> 0 .. counted + 2]
      /\ \A r \in R, m \in Minutes : MergedMetric(f)[m] >= Brought(f, r)[m]
  BY <1>3, <1>4, Zenon
<1> QED BY <1>5 DEF f, R

LEMMA MergedCursorType ==
    ASSUME CountTypes, NEW c \in Row, NEW d \in Seq(Row)
    PROVE  MergedCursor(c, d) \in Cursor \cup {None}
<1> DEFINE line    == <<c>> \o d
           held    == {i \in DOMAIN line : cursor[line[i]] # None}
           times   == {cursor[line[i]].time : i \in held}
           last    == {i \in held : cursor[line[i]].time = Max(times)}
<1>1. line \in Seq(Row)
  BY ConcatProperties
<1> HIDE DEF line
<1>2. /\ DOMAIN line = 1 .. Len(line) /\ Len(line) \in Nat
      /\ \A i \in DOMAIN line : line[i] \in Row
  BY <1>1
<1>3. \A i \in held : cursor[line[i]] \in Cursor
  BY <1>2 DEF CountTypes
<1>4. ASSUME held # {} PROVE cursor[line[Max(last)]] \in Cursor
  <2>1. times \in SUBSET (0 .. MaxRequests) /\ times # {} /\ MaxRequests \in Nat
    BY <1>3, <1>4, RegistryAssumption DEF Cursor
  <2> HIDE DEF times
  <2>2. Max(times) \in times
    BY <2>1, MaxOfBounded
  <2>3. held \subseteq 0 .. Len(line)
    BY <1>2
  <2>4. PICK i \in held : cursor[line[i]].time = Max(times)
    BY <2>2 DEF times
  <2>5. last \in SUBSET (0 .. Len(line)) /\ last # {}
    BY <2>3, <2>4
  <2> HIDE DEF last
  <2>6. Max(last) \in last
    BY <1>2, <2>5, MaxOfBounded
  <2> QED BY <1>3, <2>6 DEF last
<1>5. MergedCursor(c, d) = IF held = {} THEN None ELSE cursor[line[Max(last)]]
  BY DEF MergedCursor, line
<1> QED BY <1>4, <1>5

-----------------------------------------------------------------------------
(* Steps, by what they write.                                              *)
LEMMA RowSteps ==
    ASSUME [Next]_vars
    PROVE  \/ UNCHANGED <<rows, next>>
           \/ \E r \in Row, e \in BOOLEAN : SetEnabled(r, e)
           \/ \E k \in Process : Update(k) \/ UpdateNothing(k) \/ Insert(k) \/ Retain(k)
<1>1. CASE UNCHANGED vars
  BY <1>1 DEF vars, table
<1>2. ASSUME NEW p \in Panels, NEW path \in Paths \cup {None}, ChangePath(p, path)
      PROVE  UNCHANGED <<rows, next>>
  BY <1>2 DEF ChangePath, table
<1>3. ASSUME NEW p \in Panels, NEW m \in Minutes, RecordLive(p, m)
      PROVE  UNCHANGED <<rows, next>>
  BY <1>3 DEF RecordLive
<1>4. ASSUME NEW r \in Row, NEW m \in Minutes, ImportBatch(r, m)
      PROVE  UNCHANGED <<rows, next>>
  BY <1>4 DEF ImportBatch
<1>5. ASSUME NEW k \in Process,
             Discover(k) \/ (\E p \in Panels : Lookup(k, p)) \/ ReadDuplicate(k)
                \/ RegisterRaises(k)
      PROVE  UNCHANGED <<rows, next>>
  BY <1>5 DEF Discover, Lookup, ReadDuplicate, RegisterRaises, table
<1> QED BY <1>1, <1>2, <1>3, <1>4, <1>5 DEF Next, Environment, Collect, Sync

LEMMA CountSteps ==
    ASSUME [Next]_vars
    PROVE  \/ UNCHANGED <<metric, cursor, counted>>
           \/ \E p \in Panels, m \in Minutes : RecordLive(p, m)
           \/ \E r \in Row, m \in Minutes : ImportBatch(r, m)
           \/ \E k \in Process : Update(k)
<1>1. CASE UNCHANGED vars
  BY <1>1 DEF vars, table, bounds
<1>2. ASSUME NEW p \in Panels, NEW path \in Paths \cup {None}, ChangePath(p, path)
      PROVE  UNCHANGED <<metric, cursor, counted>>
  BY <1>2 DEF ChangePath, table
<1>3. ASSUME NEW r \in Row, NEW e \in BOOLEAN, SetEnabled(r, e)
      PROVE  UNCHANGED <<metric, cursor, counted>>
  BY <1>3 DEF SetEnabled
<1>4. ASSUME NEW k \in Process,
             Discover(k) \/ (\E p \in Panels : Lookup(k, p)) \/ ReadDuplicate(k)
                \/ RegisterRaises(k) \/ Retain(k)
      PROVE  UNCHANGED <<metric, cursor, counted>>
  BY <1>4 DEF Discover, Lookup, ReadDuplicate, RegisterRaises, Retain, table, bounds
<1>5. ASSUME NEW k \in Process, UpdateNothing(k)
      PROVE  UNCHANGED <<metric, cursor, counted>>
  BY <1>5 DEF UpdateNothing, Registered, table, bounds
<1>6. ASSUME NEW k \in Process, Insert(k)
      PROVE  UNCHANGED <<metric, cursor, counted>>
  BY <1>6 DEF Insert, Registered, bounds
<1> QED BY <1>1, <1>2, <1>3, <1>4, <1>5, <1>6 DEF Next, Environment, Collect, Sync

LEMMA SyncSteps ==
    ASSUME [Next]_vars
    PROVE  \/ UNCHANGED <<seen, todo, found, result>>
           \/ \E k \in Process : Sync(k)
<1>1. CASE UNCHANGED vars
  BY <1>1 DEF vars, syncs
<1>2. ASSUME NEW p \in Panels, NEW path \in Paths \cup {None}, ChangePath(p, path)
      PROVE  UNCHANGED <<seen, todo, found, result>>
  BY <1>2 DEF ChangePath, syncs
<1>3. ASSUME NEW r \in Row, NEW e \in BOOLEAN, SetEnabled(r, e)
      PROVE  UNCHANGED <<seen, todo, found, result>>
  BY <1>3 DEF SetEnabled, syncs
<1>4. ASSUME NEW p \in Panels, NEW m \in Minutes, RecordLive(p, m)
      PROVE  UNCHANGED <<seen, todo, found, result>>
  BY <1>4 DEF RecordLive, syncs
<1>5. ASSUME NEW r \in Row, NEW m \in Minutes, ImportBatch(r, m)
      PROVE  UNCHANGED <<seen, todo, found, result>>
  BY <1>5 DEF ImportBatch, syncs
<1> QED BY <1>1, <1>2, <1>3, <1>4, <1>5 DEF Next, Environment, Collect

-----------------------------------------------------------------------------
(* What the two registering steps do to the table.                         *)
LEMMA FoundType ==
    ASSUME SyncTypes, NEW k \in Process, found[k] # None
    PROVE  /\ found[k] \in Found /\ found[k].site \in Panels
           /\ found[k].site \in todo[k]
           /\ seen[k] # None /\ seen[k] \in SitePaths /\ seen[k][found[k].site] \in Paths
<1>1. found[k] \in Found /\ found[k].site \in todo[k] /\ seen[k] \in SitePaths \cup {None}
  BY DEF SyncTypes
<1>2. seen[k] # None /\ seen[k][found[k].site] # None
  BY <1>1 DEF SyncTypes
<1>3. found[k].site \in Panels
  BY <1>1 DEF Found
<1> QED BY <1>1, <1>2, <1>3 DEF SitePaths

LEMMA UpdateEffect ==
    ASSUME TableTypes, SyncTypes, NEW k \in Process, Update(k)
    PROVE  LET f    == found[k]
               c    == f.ids[1]
               path == seen[k][f.site]
           IN  /\ f # None /\ f.ids # << >> /\ c \in Row /\ Gone(f) \subseteq Row
               /\ rows[c] # None /\ ~Conflict(f, path)
               /\ rows' \in [Row -> SiteRow \cup {None}]
               /\ rows'[c] = [panel |-> rows[c].panel, path |-> path, enabled |-> TRUE]
               /\ rows'[c] # None
               /\ \A r \in Gone(f) : rows'[r] = None
               /\ \A r \in Row : r # c /\ r \notin Gone(f) => rows'[r] = rows[r]
               /\ next' = next /\ Registered(k, c)
<1> DEFINE f    == found[k]
           c    == f.ids[1]
           path == seen[k][f.site]
           row  == [panel |-> rows[c].panel, path |-> path, enabled |-> TRUE]
<1>1. f # None /\ f.ids # << >>
  BY DEF Update, Ready
<1>2. f \in Found /\ path \in Paths
  BY <1>1, FoundType
<1>3. c \in Row /\ Gone(f) \subseteq Row
  BY <1>1, <1>2, FoundRows
<1>4. /\ rows[c] # None /\ ~Conflict(f, path) /\ next' = next /\ Registered(k, c)
      /\ rows' = [r \in Row |-> IF r = c THEN row ELSE IF r \in Gone(f) THEN None ELSE rows[r]]
  BY DEF Update, Gone
<1>5. row \in SiteRow
  BY <1>2, <1>3, <1>4 DEF TableTypes, SiteRow
<1>6. row # None
  BY <1>5, NoneApart
<1>7. c \notin Gone(f)
  BY DEF Gone
<1> HIDE DEF row, f, c, path
<1>8. rows' \in [Row -> SiteRow \cup {None}]
  BY <1>4, <1>5 DEF TableTypes
<1> QED BY <1>1, <1>3, <1>4, <1>6, <1>7, <1>8 DEF f, c, path, row

LEMMA UpdateNothingEffect ==
    ASSUME TableTypes, SyncTypes, NEW k \in Process, UpdateNothing(k)
    PROVE  /\ found[k] # None /\ found[k].ids # << >> /\ found[k].ids[1] \in Row
           /\ rows[found[k].ids[1]] = None /\ Registered(k, found[k].ids[1])
           /\ rows' \in [Row -> SiteRow \cup {None}] /\ UNCHANGED <<next, metric, cursor>>
           /\ \A r \in Row : \/ rows'[r] = rows[r]
                             \/ rows'[r] = None /\ metric[r] = NoCount /\ cursor[r] = None
<1>1. /\ found[k] # None /\ found[k].ids # << >> /\ Bare(found[k])
      /\ rows[found[k].ids[1]] = None /\ Registered(k, found[k].ids[1])
      /\ rows' = [r \in Row |-> IF r \in ToSet(Duplicates(found[k])) THEN None ELSE rows[r]]
      /\ UNCHANGED <<next, metric, cursor>>
  BY DEF UpdateNothing, Ready
<1>2. found[k].ids[1] \in Row
  BY <1>1, FoundType, FoundRows
<1>3. \A r \in ToSet(Duplicates(found[k])) : metric[r] = NoCount /\ cursor[r] = None
  BY <1>1 DEF Bare
<1>4. rows' \in [Row -> SiteRow \cup {None}]
  BY <1>1 DEF TableTypes
<1>5. \A r \in Row : \/ rows'[r] = rows[r]
                     \/ rows'[r] = None /\ metric[r] = NoCount /\ cursor[r] = None
  BY <1>1, <1>3
<1> QED BY <1>1, <1>2, <1>4, <1>5

LEMMA InsertEffect ==
    ASSUME TableTypes, SyncTypes, NEW k \in Process, Insert(k)
    PROVE  LET p    == found[k].site
               path == seen[k][p]
               row  == [panel |-> p, path |-> path, enabled |-> TRUE]
           IN  /\ found[k] # None /\ found[k].ids = << >> /\ row # None
               /\ \E r \in Row :
                    /\ \/ rows[r] # None /\ rows[r].path = path /\ next' = next
                       \/ rows[r] = None /\ r = next /\ RowsAt(path) = {} /\ next' = next + 1
                    /\ rows' = [rows EXCEPT ![r] = row]
                    /\ rows' \in [Row -> SiteRow \cup {None}]
                    /\ Registered(k, r)
<1> DEFINE p    == found[k].site
           path == seen[k][p]
           row  == [panel |-> p, path |-> path, enabled |-> TRUE]
<1>1. found[k] # None /\ found[k].ids = << >>
  BY DEF Insert
<1>2. p \in Panels /\ path \in Paths
  BY <1>1, FoundType
<1>3. row \in SiteRow /\ row # None
  BY <1>2, NoneApart DEF SiteRow
<1>4. \/ \E r \in RowsAt(path) : rows' = [rows EXCEPT ![r] = row] /\ next' = next /\ Registered(k, r)
      \/ /\ RowsAt(path) = {} /\ next <= MaxRows
         /\ rows' = [rows EXCEPT ![next] = row] /\ next' = next + 1 /\ Registered(k, next)
  BY DEF Insert
<1> HIDE DEF row, path, p
<1>5. ASSUME NEW r \in Row PROVE [rows EXCEPT ![r] = row] \in [Row -> SiteRow \cup {None}]
  BY <1>3 DEF TableTypes
<1>6. CASE \E r \in RowsAt(path) : rows' = [rows EXCEPT ![r] = row] /\ next' = next /\ Registered(k, r)
  <2>1. PICK r \in RowsAt(path) : rows' = [rows EXCEPT ![r] = row] /\ next' = next /\ Registered(k, r)
    BY <1>6
  <2>2. r \in Row /\ rows[r] # None /\ rows[r].path = path
    BY DEF RowsAt
  <2> QED BY <1>1, <1>3, <1>5, <2>1, <2>2 DEF row, path, p
<1>7. CASE /\ RowsAt(path) = {} /\ next <= MaxRows
           /\ rows' = [rows EXCEPT ![next] = row] /\ next' = next + 1 /\ Registered(k, next)
  <2>1. next \in Row /\ rows[next] = None
    <3>1. next \in Row
      BY <1>7, RegistryAssumption DEF TableTypes, Row
    <3>2. ~(next < next)
      BY <3>1 DEF Row
    <3> QED BY <3>1, <3>2 DEF TableTypes
  <2> QED BY <1>1, <1>3, <1>5, <1>7, <2>1 DEF row, path, p
<1> QED BY <1>4, <1>6, <1>7

LEMMA RetainEffect ==
    ASSUME TableTypes, NEW k \in Process, Retain(k)
    PROVE  /\ rows' \in [Row -> SiteRow \cup {None}] /\ next' = next
           /\ \A r \in Row : rows'[r] = None <=> rows[r] = None
           /\ \A r \in Row : rows[r] # None =>
                 /\ rows'[r].panel = rows[r].panel /\ rows'[r].path = rows[r].path
                 /\ rows'[r].enabled = (rows[r].path \in {seen[k][p] : p \in Panels})
<1> DEFINE kept(r) == rows[r].path \in {seen[k][p] : p \in Panels}
           new(r)  == [rows[r] EXCEPT !.enabled = kept(r)]
<1>1. /\ rows' = [r \in Row |-> IF rows[r] = None THEN None ELSE new(r)]
      /\ next' = next
  BY DEF Retain
<1>2. ASSUME NEW r \in Row, rows[r] # None
      PROVE  /\ new(r) \in SiteRow /\ new(r) # None
             /\ new(r).panel = rows[r].panel /\ new(r).path = rows[r].path
             /\ new(r).enabled = kept(r)
  <2>1. rows[r] \in SiteRow
    BY <1>2 DEF TableTypes
  <2>2. kept(r) \in BOOLEAN
    OBVIOUS
  <2> HIDE DEF kept
  <2>3. new(r) \in SiteRow /\ new(r).panel = rows[r].panel /\ new(r).path = rows[r].path
        /\ new(r).enabled = kept(r)
    BY <2>1, <2>2 DEF SiteRow
  <2> QED BY <2>3, NoneApart
<1> HIDE DEF new, kept
<1>3. rows' \in [Row -> SiteRow \cup {None}]
  BY <1>1, <1>2
<1>4. \A r \in Row : rows'[r] = None <=> rows[r] = None
  BY <1>1, <1>2
<1>5. \A r \in Row : rows[r] # None =>
         /\ rows'[r].panel = rows[r].panel /\ rows'[r].path = rows[r].path
         /\ rows'[r].enabled = kept(r)
  BY <1>1, <1>2
<1> QED BY <1>1, <1>3, <1>4, <1>5 DEF kept

LEMMA EnabledEffect ==
    ASSUME TableTypes, NEW r \in Row, NEW e \in BOOLEAN, SetEnabled(r, e)
    PROVE  /\ rows' \in [Row -> SiteRow \cup {None}] /\ next' = next
           /\ \A q \in Row : rows'[q] = None <=> rows[q] = None
           /\ \A q \in Row : rows[q] # None =>
                 rows'[q].panel = rows[q].panel /\ rows'[q].path = rows[q].path
<1>1. /\ rows[r] # None /\ rows[r] \in SiteRow /\ next' = next
      /\ rows' = [rows EXCEPT ![r] = [@ EXCEPT !.enabled = e]]
  BY DEF SetEnabled, TableTypes
<1> DEFINE new == [rows[r] EXCEPT !.enabled = e]
<1>2. new \in SiteRow /\ new.panel = rows[r].panel /\ new.path = rows[r].path
  BY <1>1 DEF SiteRow
<1>3. new # None
  BY <1>2, NoneApart
<1>4. rows' = [rows EXCEPT ![r] = new]
  BY <1>1
<1> HIDE DEF new
<1>5. /\ rows' \in [Row -> SiteRow \cup {None}]
      /\ \A q \in Row : rows'[q] = IF q = r THEN new ELSE rows[q]
  BY <1>2, <1>4 DEF TableTypes
<1> QED BY <1>1, <1>2, <1>3, <1>5

(* Types of the table, and that no two rows have the same path.            *)
LEMMA TableStep ==
    ASSUME TableTypes, SyncTypes, [Next]_vars PROVE TableTypes'
<1>1. CASE UNCHANGED <<rows, next>>
  BY <1>1 DEF TableTypes, UniquePaths
<1>2. ASSUME /\ rows' \in [Row -> SiteRow \cup {None}] /\ next' = next
             /\ \A q \in Row : rows'[q] = None <=> rows[q] = None
             /\ \A q \in Row : rows[q] # None =>
                   rows'[q].panel = rows[q].panel /\ rows'[q].path = rows[q].path
      PROVE  TableTypes'
  BY <1>2 DEF TableTypes, UniquePaths
<1>3. ASSUME NEW r \in Row, NEW e \in BOOLEAN, SetEnabled(r, e) PROVE TableTypes'
  BY <1>2, <1>3, EnabledEffect
<1>4. ASSUME NEW k \in Process, Retain(k) PROVE TableTypes'
  BY <1>2, <1>4, RetainEffect
<1>5. ASSUME NEW k \in Process, Update(k) PROVE TableTypes'
  <2> DEFINE f == found[k]
             c == f.ids[1]
             path == seen[k][f.site]
             row == [panel |-> rows[c].panel, path |-> path, enabled |-> TRUE]
  <2>0. /\ c \in Row /\ Gone(f) \subseteq Row /\ rows[c] # None /\ ~Conflict(f, path)
        /\ rows' \in [Row -> SiteRow \cup {None}]
        /\ rows'[c] = row
        /\ \A r \in Gone(f) : rows'[r] = None
        /\ \A r \in Row : r # c /\ r \notin Gone(f) => rows'[r] = rows[r]
        /\ next' = next
    BY <1>5, UpdateEffect, Zenon
  <2>1. /\ c \in Row /\ Gone(f) \subseteq Row /\ rows[c] # None /\ ~Conflict(f, path)
        /\ rows' \in [Row -> SiteRow \cup {None}]
        /\ rows'[c].path = path
        /\ \A r \in Gone(f) : rows'[r] = None
        /\ \A r \in Row : r # c /\ r \notin Gone(f) => rows'[r] = rows[r]
        /\ next' = next
    BY <2>0
  <2>2. \A r \in Row : rows[r] # None /\ rows[r].path = path /\ r # c => r \in Gone(f)
    BY <2>1 DEF Conflict, RowsAt, Gone
  <2> HIDE DEF f, c, path
  <2>3. \A r \in Row : rows'[r] # None => rows[r] # None
    BY <2>1
  <2>4. UniquePaths'
    BY <2>1, <2>2, <2>3 DEF UniquePaths, TableTypes
  <2> QED BY <2>1, <2>3, <2>4 DEF TableTypes
<1>6. ASSUME NEW k \in Process, Insert(k) PROVE TableTypes'
  <2> DEFINE p    == found[k].site
             path == seen[k][p]
             row  == [panel |-> p, path |-> path, enabled |-> TRUE]
  <2>1. PICK r \in Row :
           /\ \/ rows[r] # None /\ rows[r].path = path /\ next' = next
              \/ rows[r] = None /\ r = next /\ RowsAt(path) = {} /\ next' = next + 1
           /\ rows' = [rows EXCEPT ![r] = row]
           /\ rows' \in [Row -> SiteRow \cup {None}]
    BY <1>6, InsertEffect
  <2>2. row.path = path
    OBVIOUS
  <2>3. \A q \in Row : rows'[q] = IF q = r THEN row ELSE rows[q]
    BY <2>1 DEF TableTypes
  <2> HIDE DEF row, path, p
  <2>4. \A q \in Row : q # r /\ rows[q] # None => rows[q].path # path
    BY <2>1 DEF RowsAt, TableTypes, UniquePaths
  <2>5. UniquePaths'
    BY <2>2, <2>3, <2>4 DEF UniquePaths, TableTypes
  <2>6. next' \in 1 .. MaxRows + 1 /\ \A q \in Row : rows'[q] # None => q < next'
    <3>1. MaxRows \in Nat /\ next \in Nat /\ r \in 1 .. MaxRows
      BY RegistryAssumption DEF TableTypes, Row
    <3>2. \A q \in Row : q \in Nat
      BY DEF Row
    <3>3. \A q \in Row : q # r /\ rows'[q] # None => q < next
      BY <2>3 DEF TableTypes
    <3>4. CASE rows[r] # None /\ next' = next
      BY <3>1, <3>3, <3>4 DEF TableTypes
    <3>5. CASE r = next /\ next' = next + 1
      <4>1. next' \in 1 .. MaxRows + 1
        BY <3>1, <3>5
      <4>2. ASSUME NEW q \in Row, rows'[q] # None PROVE q < next'
        BY <3>1, <3>2, <3>3, <3>5, <4>2
      <4> QED BY <4>1, <4>2
    <3> QED BY <2>1, <3>4, <3>5
  <2> QED BY <2>1, <2>5, <2>6 DEF TableTypes
<1>7. ASSUME NEW k \in Process, UpdateNothing(k) PROVE TableTypes'
  <2>1. /\ rows' \in [Row -> SiteRow \cup {None}] /\ next' = next
        /\ \A r \in Row : rows'[r] # None => rows'[r] = rows[r]
    BY <1>7, UpdateNothingEffect
  <2> QED BY <2>1 DEF TableTypes, UniquePaths
<1> QED BY <1>1, <1>3, <1>4, <1>5, <1>6, <1>7, RowSteps

LEMMA RowsStay ==
    ASSUME TableTypes, SyncTypes, [Next]_vars, \A k \in Process : ~Update(k)
    PROVE  \A r \in Row : rows'[r] = None =>
              rows[r] = None \/ (metric[r] = NoCount /\ cursor[r] = None)
<1>1. ASSUME NEW r \in Row, NEW e \in BOOLEAN, SetEnabled(r, e)
      PROVE  \A q \in Row : rows'[q] = None => rows[q] = None
  BY <1>1, EnabledEffect
<1>2. ASSUME NEW k \in Process, Retain(k)
      PROVE  \A q \in Row : rows'[q] = None => rows[q] = None
  BY <1>2, RetainEffect
<1>3. ASSUME NEW k \in Process, Insert(k)
      PROVE  \A q \in Row : rows'[q] = None => rows[q] = None
  <2> DEFINE row == [panel |-> found[k].site, path |-> seen[k][found[k].site], enabled |-> TRUE]
  <2>1. row # None /\ \E r \in Row : rows' = [rows EXCEPT ![r] = row]
    BY <1>3, InsertEffect
  <2> HIDE DEF row
  <2> QED BY <2>1 DEF TableTypes
<1>4. ASSUME NEW k \in Process, UpdateNothing(k)
      PROVE  \A q \in Row : rows'[q] = None =>
                rows[q] = None \/ (metric[q] = NoCount /\ cursor[q] = None)
  BY <1>4, UpdateNothingEffect
<1> QED BY <1>1, <1>2, <1>3, <1>4, RowSteps

(* One more request, of one row and one minute.                            *)
LEMMA CountedOnce ==
    ASSUME CountTypes, NEW r \in Row, NEW m \in Minutes, counted < MaxRequests,
           counted' = counted + 1, metric' = [metric EXCEPT ![r][m] = @ + 1]
    PROVE  /\ counted' \in 0 .. MaxRequests
           /\ metric' \in [Row -> [Minutes -> 0 .. counted' + 2]]
           /\ \A q \in Row, n \in Minutes : metric'[q][n] >= metric[q][n]
<1>1. /\ MaxRequests \in Nat /\ counted \in Nat /\ counted' \in 0 .. MaxRequests
      /\ metric \in [Row -> [Minutes -> 0 .. counted + 2]]
  BY RegistryAssumption DEF CountTypes
<1>2. \A x \in 0 .. counted + 2 : x \in 0 .. counted' + 2 /\ x + 1 \in 0 .. counted' + 2 /\ x + 1 >= x /\ x >= x
  BY <1>1
<1>3. \A q \in Row, n \in Minutes : metric[q][n] \in 0 .. counted + 2
  BY <1>1
<1> DEFINE new == [metric[r] EXCEPT ![m] = metric[r][m] + 1]
<1>4. new \in [Minutes -> 0 .. counted' + 2] /\ \A n \in Minutes : new[n] >= metric[r][n]
  BY <1>1, <1>2, <1>3
<1>5. metric' = [metric EXCEPT ![r] = new]
  OBVIOUS
<1> HIDE DEF new
<1>6. \A q \in Row : metric[q] \in [Minutes -> 0 .. counted' + 2]
  BY <1>1, <1>2
<1>7. metric' \in [Row -> [Minutes -> 0 .. counted' + 2]]
  BY <1>1, <1>4, <1>5, <1>6
<1>8. \A q \in Row, n \in Minutes : metric'[q][n] >= metric[q][n]
  BY <1>1, <1>2, <1>3, <1>4, <1>5
<1> QED BY <1>1, <1>7, <1>8

LEMMA UpdateCounts ==
    ASSUME TableTypes, CountTypes, SyncTypes, ReadTypes, NEW k \in Process, Update(k)
    PROVE  LET f   == found[k]
               c   == f.ids[1]
               fix == PathFix(f, seen[k][f.site])
               all == {c} \cup ToSet(Duplicates(f))
           IN  /\ c \in Row /\ c \notin Gone(f) /\ Gone(f) \subseteq Row
               /\ MergedMetric(f) \in [Minutes -> 0 .. counted + 2]
               /\ \A r \in all, m \in Minutes : MergedMetric(f)[m] >= Brought(f, r)[m]
               /\ metric' = [r \in Row |->
                     IF r = c THEN IF fix THEN NoCount ELSE MergedMetric(f)
                     ELSE IF r \in Gone(f) THEN NoCount ELSE metric[r]]
               /\ \E at \in Cursor \cup {None} : cursor' = [r \in Row |->
                     IF r = c THEN at ELSE IF r \in Gone(f) THEN None ELSE cursor[r]]
               /\ counted' = counted
<1> DEFINE f   == found[k]
           c   == f.ids[1]
           fix == PathFix(f, seen[k][f.site])
           all == {c} \cup ToSet(Duplicates(f))
           at  == MergedCursor(c, Duplicates(f))
<1>1. f \in Found /\ f.ids # << >> /\ f # None /\ Ready(f)
  BY FoundType DEF Update, Ready
<1>2. c \in Row /\ Gone(f) \subseteq Row /\ Duplicates(f) \in Seq(Row) /\ c \notin Gone(f)
  BY <1>1, FoundRows DEF Gone
<1>3. at \in Cursor \cup {None}
  BY <1>2, MergedCursorType
<1>5. /\ MergedMetric(f) \in [Minutes -> 0 .. counted + 2]
      /\ \A r \in all, m \in Minutes : MergedMetric(f)[m] >= Brought(f, r)[m]
  BY <1>1, MergedCount
<1>6. metric' = [r \in Row |->
                     IF r = c THEN IF fix THEN NoCount ELSE MergedMetric(f)
                     ELSE IF r \in Gone(f) THEN NoCount ELSE metric[r]]
  BY DEF Update, Gone
<1>7. \E b \in Cursor \cup {None} : cursor' = [r \in Row |->
                     IF r = c THEN b ELSE IF r \in Gone(f) THEN None ELSE cursor[r]]
  <2>1. \E b \in {at, None} : cursor' = [r \in Row |->
                     IF r = c THEN b ELSE IF r \in Gone(f) THEN None ELSE cursor[r]]
    <3> DEFINE path == seen[k][f.site]
    <3>1. cursor' = [r \in Row |->
                  IF r = c THEN IF at # None /\ f.path # path /\ at.path # path
                                THEN None ELSE at
                  ELSE IF r \in Gone(f) THEN None ELSE cursor[r]]
      BY DEF Update, Gone
    <3> HIDE DEF f, c, at, path
    <3>2. CASE at # None /\ f.path # path /\ at.path # path
      BY <3>1, <3>2
    <3>3. CASE ~(at # None /\ f.path # path /\ at.path # path)
      BY <3>1, <3>3
    <3> QED BY <3>2, <3>3
  <2> QED BY <1>3, <2>1
<1>8. counted' = counted
  BY DEF Update, Registered, bounds
<1> QED BY <1>2, <1>5, <1>6, <1>7, <1>8

LEMMA CountStep ==
    ASSUME TypeInv, [Next]_vars PROVE CountTypes'
<1>1. TableTypes /\ CountTypes /\ SyncTypes /\ WorldTypes /\ ReadTypes
  BY DEF TypeInv
<1>2. ASSUME NEW k \in Process, Update(k) PROVE CountTypes'
  <2> DEFINE f   == found[k]
             c   == f.ids[1]
             fix == PathFix(f, seen[k][f.site])
  <2>1. /\ c \in Row /\ MergedMetric(f) \in [Minutes -> 0 .. counted + 2]
        /\ metric' = [r \in Row |->
               IF r = c THEN IF fix THEN NoCount ELSE MergedMetric(f)
               ELSE IF r \in Gone(f) THEN NoCount ELSE metric[r]]
        /\ counted' = counted
    BY <1>1, <1>2, UpdateCounts, Zenon
  <2>2. PICK at \in Cursor \cup {None} : cursor' = [r \in Row |->
               IF r = c THEN at ELSE IF r \in Gone(f) THEN None ELSE cursor[r]]
    BY <1>1, <1>2, UpdateCounts, Zenon
  <2>3. /\ rows'[c] # None
        /\ \A r \in Row : r # c /\ r \notin Gone(f) => rows'[r] = rows[r]
    BY <1>1, <1>2, UpdateEffect
  <2> HIDE DEF f, c, fix
  <2>4. NoCount \in [Minutes -> 0 .. counted + 2]
    BY <1>1, RegistryAssumption DEF NoCount, CountTypes
  <2>5. metric' \in [Row -> [Minutes -> 0 .. counted' + 2]]
    BY <1>1, <2>1, <2>4 DEF CountTypes
  <2>6. cursor' \in [Row -> Cursor \cup {None}]
    BY <1>1, <2>2 DEF CountTypes
  <2>7. \A r \in Row : rows'[r] = None => cursor'[r] = None
    BY <1>1, <2>2, <2>3 DEF CountTypes
  <2> QED BY <1>1, <2>1, <2>5, <2>6, <2>7 DEF CountTypes
<1>3. CASE UNCHANGED <<metric, cursor, counted>> /\ \A k \in Process : ~Update(k)
  <2>1. \A r \in Row : rows'[r] = None => cursor'[r] = None
    BY <1>1, <1>3, RowsStay DEF CountTypes
  <2> QED BY <1>1, <1>3, <2>1 DEF CountTypes
<1>4. ASSUME NEW p \in Panels, NEW m \in Minutes, RecordLive(p, m) PROVE CountTypes'
  <2>1. /\ mapping[p] \in Row /\ counted < MaxRequests /\ counted' = counted + 1
        /\ metric' = [metric EXCEPT ![mapping[p]][m] = @ + 1]
        /\ UNCHANGED <<rows, cursor>>
    BY <1>1, <1>4 DEF RecordLive, WorldTypes, Mapping
  <2>2. counted' \in 0 .. MaxRequests /\ metric' \in [Row -> [Minutes -> 0 .. counted' + 2]]
    BY <1>1, <2>1, CountedOnce
  <2> QED BY <1>1, <2>1, <2>2 DEF CountTypes
<1>5. ASSUME NEW r \in Row, NEW m \in Minutes, ImportBatch(r, m) PROVE CountTypes'
  <2>1. /\ rows[r] # None /\ counted < MaxRequests /\ counted' = counted + 1
        /\ metric' = [metric EXCEPT ![r][m] = @ + 1]
        /\ cursor' = [cursor EXCEPT ![r] = [path |-> rows[r].path, time |-> counted + 1]]
        /\ rows' = rows
    BY <1>5 DEF ImportBatch
  <2>2. counted' \in 0 .. MaxRequests /\ metric' \in [Row -> [Minutes -> 0 .. counted' + 2]]
    BY <1>1, <2>1, CountedOnce
  <2>3. [path |-> rows[r].path, time |-> counted + 1] \in Cursor
    <3>1. rows[r].path \in Paths
      BY <1>1, <2>1 DEF TableTypes, SiteRow
    <3> QED BY <2>1, <2>2, <3>1 DEF Cursor
  <2>4. /\ cursor' \in [Row -> Cursor \cup {None}]
        /\ \A q \in Row : q # r => cursor'[q] = cursor[q]
    BY <1>1, <2>1, <2>3 DEF CountTypes
  <2> QED BY <1>1, <2>1, <2>2, <2>4 DEF CountTypes
<1> QED BY <1>2, <1>3, <1>4, <1>5, CountSteps

-----------------------------------------------------------------------------
(* What a process reads before it registers a site.                        *)
LEMMA AscendingIds ==
    ASSUME NEW R \in SUBSET Row, NEW ids \in Ascending(R)
    PROVE  ids \in Seq(Row) /\ Range(ids) = R /\ (ids # << >> => ids[1] \in R)
<1>1. MaxRows \in Nat /\ IsFiniteSet(Row)
  BY RegistryAssumption, FS_Interval DEF Row
<1>2. Cardinality(R) \in Nat
  BY <1>1, FS_Subset, FS_CardinalityType
<1>3. ids \in [1 .. Cardinality(R) -> R] /\ Range(ids) = R
  BY DEF Ascending
<1>4. ids \in Seq(R) /\ ids \in Seq(Row)
  BY <1>2, <1>3
<1>5. ASSUME ids # << >> PROVE ids[1] \in R
  BY <1>4, <1>5
<1> QED BY <1>3, <1>4, <1>5

LEMMA LookupEffect ==
    ASSUME TableTypes, SyncTypes, NEW k \in Process, NEW p \in Panels, Lookup(k, p)
    PROVE  \E f \in Found :
              /\ found' = [found EXCEPT ![k] = f]
              /\ f.site = p /\ p \in todo[k] /\ Range(f.ids) = RowsOf(p) /\ f.read = None
              /\ f.ids = << >> => f.orphan = None
              /\ f.orphan # None => rows[f.orphan] # None /\ rows[f.orphan].panel = 0
              /\ UNCHANGED <<panel, table, seen, todo, result, failed, mapping, solo, overlapped,
                             settled, bounds>>
<1> DEFINE orphan == OrphansAt(seen[k][p])
           read(ids) == [site |-> p, ids |-> ids,
                         path   |-> IF ids = << >> THEN None ELSE rows[ids[1]].path,
                         orphan |-> IF ids = << >> \/ orphan = {} THEN None
                                    ELSE CHOOSE r \in orphan : TRUE,
                         read   |-> None]
<1>1. PICK ids \in Ascending(RowsOf(p)) : found' = [found EXCEPT ![k] = read(ids)]
  BY DEF Lookup
<1>2. RowsOf(p) \in SUBSET Row /\ orphan \subseteq Row
      /\ \A r \in orphan : rows[r] # None /\ rows[r].panel = 0
  BY DEF RowsOf, OrphansAt, RowsAt
<1> HIDE DEF orphan
<1>3. ids \in Seq(Row) /\ Range(ids) = RowsOf(p) /\ (ids # << >> => ids[1] \in RowsOf(p))
  BY <1>1, <1>2, AscendingIds
<1>4. ids # << >> => rows[ids[1]].path \in Paths
  BY <1>3 DEF RowsOf, TableTypes, SiteRow
<1>5. orphan # {} => (CHOOSE r \in orphan : TRUE) \in orphan
  OBVIOUS
<1> DEFINE x == IF ids = << >> \/ orphan = {} THEN None ELSE CHOOSE r \in orphan : TRUE
<1>6. x \in Row \cup {None} /\ (ids = << >> => x = None) /\ (x # None => x \in orphan)
  BY <1>2, <1>5
<1> DEFINE y == IF ids = << >> THEN None ELSE rows[ids[1]].path
<1>7. y \in Paths \cup {None}
  BY <1>4
<1>8. read(ids) = [site |-> p, ids |-> ids, path |-> y, orphan |-> x, read |-> None]
  OBVIOUS
<1> HIDE DEF x, y, read
<1>9. /\ read(ids) \in Found /\ read(ids).site = p /\ read(ids).ids = ids
      /\ read(ids).orphan = x /\ read(ids).read = None
  BY <1>3, <1>6, <1>7, <1>8 DEF Found
<1>10. /\ UNCHANGED <<panel, table, seen, todo, result, failed, mapping, solo, overlapped,
                      settled, bounds>>
       /\ p \in todo[k]
  BY DEF Lookup
<1> QED BY <1>1, <1>2, <1>3, <1>6, <1>9, <1>10

LEMMA ReadEffect ==
    ASSUME CountTypes, SyncTypes, NEW k \in Process, ReadDuplicate(k)
    PROVE  \E f \in Found :
              /\ found' = [found EXCEPT ![k] = f] /\ found[k] # None
              /\ f.read \in [Minutes -> 0 .. counted + 2]
              /\ f.site = found[k].site /\ f.ids = found[k].ids /\ f.orphan = found[k].orphan
              /\ UNCHANGED <<panel, table, seen, todo, result, failed, mapping, solo, overlapped,
                             settled, bounds>>
<1> DEFINE g == found[k]
           f == [g EXCEPT !.read = metric[First(g)]]
<1>1. /\ g # None /\ g.ids # << >> /\ Duplicates(g) # << >>
      /\ found' = [found EXCEPT ![k] = f]
      /\ UNCHANGED <<panel, table, seen, todo, result, failed, mapping, solo, overlapped,
                     settled, bounds>>
  BY DEF ReadDuplicate
<1>2. g \in Found
  BY <1>1 DEF SyncTypes
<1>3. First(g) \in Row
  <2>1. Duplicates(g) \in Seq(Row)
    BY <1>1, <1>2, FoundRows
  <2> QED BY <1>1, <2>1, HeadTailProperties DEF First
<1>4. metric[First(g)] \in [Minutes -> 0 .. counted + 2]
  BY <1>3 DEF CountTypes
<1>5. counted \in 0 .. MaxRequests /\ MaxRequests \in Nat
  BY RegistryAssumption DEF CountTypes
<1>6. 0 .. counted + 2 \subseteq 0 .. MaxRequests + 2
  BY <1>5
<1> DEFINE n == metric[First(g)]
<1>7. n \in Counts
  BY <1>4, <1>6 DEF Counts
<1>8. f = [g EXCEPT !.read = n]
  OBVIOUS
<1> HIDE DEF n, f, g
<1>9. /\ f \in Found /\ f.read = n /\ f.site = g.site /\ f.ids = g.ids /\ f.orphan = g.orphan
  BY <1>2, <1>7, <1>8 DEF Found
<1>10. f.read \in [Minutes -> 0 .. counted + 2]
  BY <1>4, <1>9 DEF n
<1> QED BY <1>1, <1>9, <1>10 DEF g

LEMMA RegisteredEffect ==
    ASSUME SyncTypes, NEW k \in Process, found[k] # None, NEW r \in Row, Registered(k, r)
    PROVE  /\ SyncTypes'
           /\ found'[k] = None /\ todo'[k] = todo[k] \ {found[k].site}
           /\ result'[k][found[k].site] = r
           /\ \A p \in Panels : p # found[k].site => result'[k][p] = result[k][p]
           /\ \A l \in Process : l # k => /\ found'[l] = found[l] /\ todo'[l] = todo[l]
                                          /\ result'[l] = result[l]
           /\ UNCHANGED <<panel, seen, failed, mapping, solo, overlapped, settled, bounds>>
<1> DEFINE p == found[k].site
           new == [result[k] EXCEPT ![p] = r]
<1>1. p \in Panels /\ p \in todo[k]
  BY FoundType
<1>2. /\ result' = [result EXCEPT ![k] = new]
      /\ todo' = [todo EXCEPT ![k] = todo[k] \ {p}]
      /\ found' = [found EXCEPT ![k] = None]
      /\ UNCHANGED <<panel, seen, failed, mapping, solo, overlapped, settled, bounds>>
  BY DEF Registered
<1>3. new \in Mapping /\ new[p] = r /\ \A q \in Panels : q # p => new[q] = result[k][q]
  BY <1>1 DEF SyncTypes, Mapping
<1> HIDE DEF new, p
<1>4. /\ result' \in [Process -> Mapping] /\ result'[k] = new
      /\ \A l \in Process : l # k => result'[l] = result[l]
  BY <1>2, <1>3 DEF SyncTypes
<1>5. /\ todo' \in [Process -> SUBSET Panels] /\ todo'[k] = todo[k] \ {p}
      /\ \A l \in Process : l # k => todo'[l] = todo[l]
  BY <1>2 DEF SyncTypes
<1>6. /\ found' \in [Process -> Found \cup {None}] /\ found'[k] = None
      /\ \A l \in Process : l # k => found'[l] = found[l]
  BY <1>2 DEF SyncTypes
<1>7. SyncTypes'
  BY <1>2, <1>4, <1>5, <1>6 DEF SyncTypes
<1> QED BY <1>2, <1>3, <1>4, <1>5, <1>6, <1>7 DEF p

LEMMA DiscoverEffect ==
    ASSUME SyncTypes, WorldTypes, NEW k \in Process, Discover(k)
    PROVE  /\ SyncTypes'
           /\ seen[k] = None /\ seen'[k] = panel /\ found[k] = None /\ found' = found
           /\ todo'[k] = {p \in Panels : panel[p] # None} /\ result'[k] = Nobody
           /\ \A l \in Process : l # k => /\ seen'[l] = seen[l] /\ todo'[l] = todo[l]
                                          /\ result'[l] = result[l]
<1>1. /\ seen' = [seen EXCEPT ![k] = panel]
      /\ todo' = [todo EXCEPT ![k] = {p \in Panels : panel[p] # None}]
      /\ result' = [result EXCEPT ![k] = Nobody]
      /\ seen[k] = None /\ found' = found
  BY DEF Discover
<1>2. panel \in SitePaths /\ panel # None
  BY NoneApart DEF WorldTypes
<1>3. found[k] = None
  BY <1>1, FoundType
<1>4. Nobody \in Mapping
  BY DEF Nobody, Mapping
<1>5. /\ seen' \in [Process -> SitePaths \cup {None}] /\ seen'[k] = panel
      /\ \A l \in Process : l # k => seen'[l] = seen[l]
  BY <1>1, <1>2 DEF SyncTypes
<1>6. /\ todo' \in [Process -> SUBSET Panels] /\ todo'[k] = {p \in Panels : panel[p] # None}
      /\ \A l \in Process : l # k => todo'[l] = todo[l]
  BY <1>1 DEF SyncTypes
<1>7. /\ result' \in [Process -> Mapping] /\ result'[k] = Nobody
      /\ \A l \in Process : l # k => result'[l] = result[l]
  BY <1>1, <1>4 DEF SyncTypes
<1>8. SyncTypes'
  BY <1>1, <1>2, <1>3, <1>5, <1>6, <1>7 DEF SyncTypes
<1> QED BY <1>1, <1>3, <1>5, <1>6, <1>7, <1>8

(* A synchronisation that is over, or failed.                              *)
LEMMA EndEffect ==
    ASSUME SyncTypes, NEW k \in Process, Retain(k) \/ RegisterRaises(k)
    PROVE  /\ SyncTypes'
           /\ seen'[k] = None /\ found'[k] = None /\ result' = result
           /\ \A l \in Process : l # k => /\ seen'[l] = seen[l] /\ todo'[l] = todo[l]
                                          /\ found'[l] = found[l]
<1>1. seen' = [seen EXCEPT ![k] = None] /\ result' = result
  BY DEF Retain, RegisterRaises
<1>2. \/ todo' = todo /\ found' = found /\ todo[k] = {}
      \/ todo' = [todo EXCEPT ![k] = {}] /\ found' = [found EXCEPT ![k] = None]
  BY DEF Retain, RegisterRaises
<1>3. todo[k] = {} => found[k] = None
  BY FoundType
<1>4. /\ todo' \in [Process -> SUBSET Panels] /\ todo'[k] = {}
      /\ found' \in [Process -> Found \cup {None}] /\ found'[k] = None
      /\ \A l \in Process : l # k => todo'[l] = todo[l] /\ found'[l] = found[l]
  BY <1>2, <1>3 DEF SyncTypes
<1>5. /\ seen' \in [Process -> SitePaths \cup {None}] /\ seen'[k] = None
      /\ \A l \in Process : l # k => seen'[l] = seen[l]
  BY <1>1 DEF SyncTypes
<1>6. SyncTypes'
  BY <1>1, <1>4, <1>5 DEF SyncTypes
<1> QED BY <1>1, <1>4, <1>5, <1>6

LEMMA SyncStep ==
    ASSUME TypeInv, [Next]_vars PROVE SyncTypes'
<1>1. TableTypes /\ CountTypes /\ SyncTypes /\ WorldTypes
  BY DEF TypeInv
<1>2. CASE UNCHANGED <<seen, todo, found, result>>
  BY <1>1, <1>2 DEF SyncTypes
<1>3. ASSUME NEW k \in Process, Discover(k) PROVE SyncTypes'
  BY <1>1, <1>3, DiscoverEffect
<1>4. ASSUME NEW k \in Process, NEW p \in Panels, Lookup(k, p) PROVE SyncTypes'
  <2>1. PICK f \in Found :
              /\ found' = [found EXCEPT ![k] = f]
              /\ f.site = p /\ p \in todo[k] /\ (f.ids = << >> => f.orphan = None)
              /\ UNCHANGED <<seen, todo, result>>
    BY <1>1, <1>4, LookupEffect
  <2>2. /\ found' \in [Process -> Found \cup {None}] /\ found'[k] = f
        /\ \A l \in Process : l # k => found'[l] = found[l]
    BY <1>1, <2>1 DEF SyncTypes
  <2> QED BY <1>1, <2>1, <2>2 DEF SyncTypes
<1>5. ASSUME NEW k \in Process, Update(k) PROVE SyncTypes'
  <2>1. found[k] # None /\ found[k].ids[1] \in Row /\ Registered(k, found[k].ids[1])
    BY <1>1, <1>5, UpdateEffect
  <2> QED BY <1>1, <2>1, RegisteredEffect
<1>6. ASSUME NEW k \in Process, UpdateNothing(k) PROVE SyncTypes'
  <2>1. found[k] # None /\ found[k].ids[1] \in Row /\ Registered(k, found[k].ids[1])
    BY <1>1, <1>6, UpdateNothingEffect
  <2> QED BY <1>1, <2>1, RegisteredEffect
<1>7. ASSUME NEW k \in Process, Insert(k) PROVE SyncTypes'
  <2>1. found[k] # None /\ \E r \in Row : Registered(k, r)
    BY <1>1, <1>7, InsertEffect
  <2> QED BY <1>1, <2>1, RegisteredEffect
<1>8. ASSUME NEW k \in Process, Retain(k) \/ RegisterRaises(k) PROVE SyncTypes'
  BY <1>1, <1>8, EndEffect
<1>9. ASSUME NEW k \in Process, ReadDuplicate(k) PROVE SyncTypes'
  <2>1. PICK f \in Found :
              /\ found' = [found EXCEPT ![k] = f] /\ found[k] # None
              /\ f.site = found[k].site /\ f.ids = found[k].ids /\ f.orphan = found[k].orphan
              /\ UNCHANGED <<seen, todo, result>>
    BY <1>1, <1>9, ReadEffect
  <2>2. /\ found' \in [Process -> Found \cup {None}] /\ found'[k] = f
        /\ \A l \in Process : l # k => found'[l] = found[l]
    BY <1>1, <2>1 DEF SyncTypes
  <2> QED BY <1>1, <2>1, <2>2 DEF SyncTypes
<1> QED BY <1>2, <1>3, <1>4, <1>5, <1>6, <1>7, <1>8, <1>9, SyncSteps DEF Sync

(* What was read stays within what was counted.                            *)
LEMMA ReadStep ==
    ASSUME TypeInv, [Next]_vars PROVE ReadTypes'
<1>1. TableTypes /\ CountTypes /\ SyncTypes /\ WorldTypes /\ ReadTypes
  BY DEF TypeInv
<1>2. counted \in Nat /\ counted' \in Nat /\ 0 .. counted + 2 \subseteq 0 .. counted' + 2
  <2>1. counted \in Nat
    BY <1>1 DEF CountTypes
  <2>2. counted' = counted \/ counted' = counted + 1
    BY CountSteps DEF RecordLive, ImportBatch, Update, Registered, bounds
  <2> QED BY <2>1, <2>2
<1>3. ASSUME \A l \in Process : found'[l] # None /\ found'[l].read # None =>
                found'[l] = found[l] \/ found'[l].read \in [Minutes -> 0 .. counted + 2]
      PROVE  ReadTypes'
  <2>1. \A l \in Process : found'[l] # None /\ found'[l].read # None =>
           found'[l].read \in [Minutes -> 0 .. counted + 2]
    BY <1>1, <1>3 DEF ReadTypes
  <2>2. [Minutes -> 0 .. counted + 2] \subseteq [Minutes -> 0 .. counted' + 2]
    BY <1>2
  <2> QED BY <2>1, <2>2 DEF ReadTypes
<1>4. CASE UNCHANGED found
  BY <1>3, <1>4
<1>5. ASSUME NEW k \in Process, NEW p \in Panels, Lookup(k, p) PROVE ReadTypes'
  <2>1. PICK f \in Found : found' = [found EXCEPT ![k] = f] /\ f.read = None
    BY <1>1, <1>5, LookupEffect
  <2>2. found'[k] = f /\ \A l \in Process : l # k => found'[l] = found[l]
    BY <1>1, <2>1 DEF SyncTypes
  <2> QED BY <1>3, <2>1, <2>2
<1>6. ASSUME NEW k \in Process, ReadDuplicate(k) PROVE ReadTypes'
  <2>1. PICK f \in Found : /\ found' = [found EXCEPT ![k] = f]
                           /\ f.read \in [Minutes -> 0 .. counted + 2]
    BY <1>1, <1>6, ReadEffect
  <2>2. found'[k] = f /\ \A l \in Process : l # k => found'[l] = found[l]
    BY <1>1, <2>1 DEF SyncTypes
  <2> QED BY <1>3, <2>1, <2>2
<1>7. ASSUME NEW k \in Process, found[k] # None, \E r \in Row : Registered(k, r) PROVE ReadTypes'
  BY <1>1, <1>3, <1>7, RegisteredEffect
<1>8. ASSUME NEW k \in Process, Update(k) \/ UpdateNothing(k) \/ Insert(k) PROVE ReadTypes'
  <2>1. found[k] # None /\ \E r \in Row : Registered(k, r)
    BY <1>1, <1>8, UpdateEffect, UpdateNothingEffect, InsertEffect
  <2> QED BY <1>7, <2>1
<1>9. ASSUME NEW k \in Process, Retain(k) \/ RegisterRaises(k) PROVE ReadTypes'
  BY <1>1, <1>3, <1>9, EndEffect
<1>10. ASSUME NEW k \in Process, Discover(k) PROVE ReadTypes'
  BY <1>4, <1>10 DEF Discover
<1> QED BY <1>4, <1>5, <1>6, <1>8, <1>9, <1>10, SyncSteps DEF Sync

LEMMA WorldStep ==
    ASSUME TypeInv, [Next]_vars PROVE WorldTypes'
<1>1. TableTypes /\ SyncTypes /\ WorldTypes
  BY DEF TypeInv
<1>2. MaxChanges \in Nat
  BY RegistryAssumption
<1>3. CASE UNCHANGED <<panel, mapping, solo, overlapped, settled, failed, changes>>
  BY <1>1, <1>3 DEF WorldTypes
<1>4. ASSUME changes < MaxChanges, changes' = changes + 1 PROVE changes' \in 0 .. MaxChanges
  BY <1>1, <1>2, <1>4 DEF WorldTypes
<1>5. ASSUME NEW p \in Panels, NEW path \in Paths \cup {None}, ChangePath(p, path)
      PROVE  WorldTypes'
  <2>1. /\ panel' = [panel EXCEPT ![p] = path] /\ settled' = FALSE /\ changes' \in 0 .. MaxChanges
        /\ UNCHANGED <<mapping, solo, overlapped, failed>>
    BY <1>4, <1>5 DEF ChangePath, syncs
  <2> QED BY <1>1, <2>1 DEF WorldTypes, SitePaths
<1>6. ASSUME NEW r \in Row, NEW e \in BOOLEAN, SetEnabled(r, e) PROVE WorldTypes'
  <2>1. /\ settled' = FALSE /\ changes' \in 0 .. MaxChanges
        /\ UNCHANGED <<panel, mapping, solo, overlapped, failed>>
    BY <1>4, <1>6 DEF SetEnabled, syncs
  <2> QED BY <1>1, <2>1 DEF WorldTypes
<1>7. ASSUME NEW p \in Panels, NEW m \in Minutes, RecordLive(p, m) PROVE WorldTypes'
  BY <1>3, <1>7 DEF RecordLive, syncs
<1>8. ASSUME NEW r \in Row, NEW m \in Minutes, ImportBatch(r, m) PROVE WorldTypes'
  BY <1>3, <1>8 DEF ImportBatch, syncs
<1>9. ASSUME NEW k \in Process, Discover(k) PROVE WorldTypes'
  <2>1. /\ failed' = failed \ {k} /\ settled' = FALSE
        /\ solo' = (IF Alone(k) THEN {k} ELSE {}) /\ overlapped' = (overlapped \/ ~Alone(k))
        /\ UNCHANGED <<panel, mapping, changes>>
    BY <1>9 DEF Discover, bounds
  <2>2. solo' \subseteq Process
    BY <2>1
  <2>3. Alone(k) \in BOOLEAN
    BY DEF Alone
  <2>4. overlapped' \in BOOLEAN
    BY <1>1, <2>1, <2>3, Zenon DEF WorldTypes
  <2> QED BY <1>1, <2>1, <2>2, <2>4 DEF WorldTypes
<1>10. ASSUME NEW k \in Process, NEW p \in Panels, Lookup(k, p) PROVE WorldTypes'
  BY <1>3, <1>10 DEF Lookup, bounds
<1>11. ASSUME NEW k \in Process, Update(k) PROVE WorldTypes'
  BY <1>3, <1>11 DEF Update, Registered, bounds
<1>12. ASSUME NEW k \in Process, UpdateNothing(k) PROVE WorldTypes'
  BY <1>3, <1>12 DEF UpdateNothing, Registered, bounds
<1>13. ASSUME NEW k \in Process, Insert(k) PROVE WorldTypes'
  BY <1>3, <1>13 DEF Insert, Registered, bounds
<1>14. ASSUME NEW k \in Process, RegisterRaises(k) PROVE WorldTypes'
  <2>1. failed' = failed \cup {k} /\ UNCHANGED <<panel, mapping, solo, overlapped, settled, changes>>
    BY <1>14 DEF RegisterRaises, bounds
  <2> QED BY <1>1, <2>1 DEF WorldTypes
<1>15. ASSUME NEW k \in Process, Retain(k) PROVE WorldTypes'
  <2>1. /\ mapping' = (IF k = "service" THEN result[k] ELSE mapping)
        /\ settled' = (seen[k] = panel /\ k \in solo)
        /\ UNCHANGED <<panel, solo, overlapped, failed, changes>>
    BY <1>15 DEF Retain, bounds
  <2>2. result[k] \in Mapping
    BY <1>1 DEF SyncTypes
  <2>3. settled' \in BOOLEAN
    BY <2>1
  <2> QED BY <1>1, <2>1, <2>2, <2>3 DEF WorldTypes
<1>16. CASE UNCHANGED vars
  BY <1>3, <1>16 DEF vars, syncs, bounds
<1>17. ASSUME NEW k \in Process, ReadDuplicate(k) PROVE WorldTypes'
  BY <1>3, <1>17 DEF ReadDuplicate, bounds
<1> QED BY <1>5, <1>6, <1>7, <1>8, <1>9, <1>10, <1>11, <1>12, <1>13, <1>14, <1>15, <1>16, <1>17
        DEF Next, Environment, Collect, Sync

LEMMA TypesStep == TypeInv /\ [Next]_vars => TypeInv'
  BY TableStep, CountStep, SyncStep, WorldStep, ReadStep DEF TypeInv

LEMMA TypesInit == Init => TypeInv
<1> SUFFICES ASSUME Init PROVE TypeInv
  OBVIOUS
<1>1. MaxRows \in Nat /\ MaxChanges \in Nat /\ MaxRequests \in Nat
  BY RegistryAssumption
<1>2. PICK first \in [panel : Panels \cup {0}, path : Paths, enabled : {TRUE}] \cup {None},
           second \in [panel : Panels \cup {0}, path : Paths, enabled : {TRUE}] \cup {None} :
        /\ rows = [r \in Row |-> IF r = 1 THEN first ELSE IF r = 2 THEN second ELSE None]
        /\ second # None => first # None /\ first.path # second.path
  BY DEF Init, Legacy
<1>3. first \in SiteRow \cup {None} /\ second \in SiteRow \cup {None}
  BY DEF SiteRow
<1>4. /\ rows \in [Row -> SiteRow \cup {None}]
      /\ \A r \in Row : rows[r] # None => r = 1 \/ (r = 2 /\ second # None)
  BY <1>2, <1>3
<1>5. UniquePaths
  BY <1>2, <1>4 DEF UniquePaths
<1>6. next \in 1 .. MaxRows + 1 /\ \A r \in Row : rows[r] # None => r < next
  <2> DEFINE R == {r \in Row : rows[r] # None}
  <2>1. next = 1 + Cardinality(R)
    BY DEF Init
  <2>2. CASE R = {}
    <3>1. Cardinality(R) = 0
      BY <2>2, FS_EmptySet
    <3> HIDE DEF R
    <3>2. next \in 1 .. MaxRows + 1
      BY <1>1, <2>1, <3>1
    <3> QED BY <2>2, <3>2 DEF R
  <2>3. CASE R = {1}
    <3>1. Cardinality(R) = 1 /\ 1 \in Row
      BY <2>3, FS_Singleton
    <3>2. next = 2 /\ next \in 1 .. MaxRows + 1
      BY <1>1, <2>1, <3>1 DEF Row
    <3>3. \A r \in Row : rows[r] # None => r = 1
      BY <2>3
    <3> QED BY <3>2, <3>3
  <2>4. CASE R = {1, 2}
    <3>1. Cardinality({1}) = 1 /\ IsFiniteSet({1})
      BY FS_Singleton
    <3>2. Cardinality({1} \cup {2}) = 2
      BY <3>1, FS_AddElement
    <3>3. R = {1} \cup {2}
      BY <2>4
    <3>4. 2 \in Row /\ \A r \in Row : rows[r] # None => r = 1 \/ r = 2
      BY <2>4
    <3>5. Cardinality(R) = 2
      BY <3>2, <3>3
    <3>6. next = 3
      BY <2>1, <3>5
    <3> QED BY <1>1, <3>4, <3>6 DEF Row
  <2>5. R = {} \/ R = {1} \/ R = {1, 2}
    <3>1. 2 \in Row => 1 \in Row
      BY <1>1 DEF Row
    <3>2. 2 \in R => 1 \in R
      BY <1>2, <1>4, <3>1
    <3>3. R \subseteq {1, 2}
      BY <1>4
    <3> HIDE DEF R
    <3> QED BY <3>2, <3>3
  <2> QED BY <2>2, <2>3, <2>4, <2>5
<1>7. CountTypes
  <2>1. /\ counted = 0
        /\ metric = [r \in Row |-> IF rows[r] = None THEN NoCount
                                   ELSE [m \in Minutes |-> IF m = 1 THEN r ELSE 0]]
        /\ cursor = [r \in Row |-> IF rows[r] = None THEN None
                                   ELSE [path |-> rows[r].path, time |-> 0]]
    BY DEF Init
  <2>2. NoCount \in [Minutes -> 0 .. 2]
    BY DEF NoCount
  <2>3. ASSUME NEW r \in Row, rows[r] # None
        PROVE  /\ [m \in Minutes |-> IF m = 1 THEN r ELSE 0] \in [Minutes -> 0 .. 2]
               /\ [path |-> rows[r].path, time |-> 0] \in Cursor
    <3>1. r \in 0 .. 2 /\ rows[r] \in SiteRow
      BY <1>4, <2>3
    <3> QED BY <1>1, <3>1 DEF SiteRow, Cursor
  <2>4. metric \in [Row -> [Minutes -> 0 .. 2]] /\ cursor \in [Row -> Cursor \cup {None}]
        /\ \A r \in Row : rows[r] = None => cursor[r] = None
    BY <2>1, <2>2, <2>3
  <2>5. 0 .. counted + 2 = 0 .. 2 /\ counted \in 0 .. MaxRequests
    BY <1>1, <2>1
  <2> QED BY <2>4, <2>5 DEF CountTypes
<1>8. Nobody \in Mapping
  BY DEF Nobody, Mapping
<1>9. SyncTypes
  BY <1>8 DEF Init, SyncTypes
<1>10. WorldTypes
  <2>1. panel \in SitePaths
    BY DEF Init
  <2>2. /\ mapping = Nobody /\ solo = {} /\ overlapped = FALSE /\ settled = FALSE
        /\ failed = {} /\ changes = 0
    BY DEF Init
  <2>3. changes \in 0 .. MaxChanges
    BY <1>1, <2>2
  <2>4. overlapped \in BOOLEAN /\ settled \in BOOLEAN
    BY <2>2, Zenon
  <2>5. mapping \in Mapping /\ solo \subseteq Process /\ failed \subseteq Process
    BY <1>8, <2>2
  <2> QED BY <2>1, <2>3, <2>4, <2>5 DEF WorldTypes
<1>11. ReadTypes
  BY DEF Init, ReadTypes
<1> QED BY <1>4, <1>5, <1>6, <1>7, <1>9, <1>10, <1>11 DEF TypeInv, TableTypes

(* The table, the counts and the two synchronisations keep their types; in *)
(* particular no two rows ever have the same path, as SQLite demands.      *)
THEOREM TypeCorrect == Spec => []TypeOK
<1>1. Spec => []TypeInv
  BY TypesInit, TypesStep, PTL DEF Spec
<1> QED BY <1>1, TypeParts, PTL

(* A merge keeps of each minute the larger of the counts it has read, and  *)
(* no other step loses one: whatever the two processes do between the      *)
(* reads and the write, a row keeps its counts or the row it is merged     *)
(* into has them, but for what the first duplicate got after it was read,  *)
(* and where a semicolon is taken off a path and the log is read anew.     *)
THEOREM CountsKept == Spec => HistoryKept
<1> DEFINE Stays(r, m) == rows'[r] # None /\ metric'[r][m] >= metric[r][m]
           Goes(k, r, m) == DroppedBy(k, r) \/ MergedBy(k, r, m, Brought(found[k], r)[m])
           Kept  == \A r \in Row, m \in Minutes : rows[r] # None /\ metric[r][m] > 0 =>
                       \/ rows'[r] # None /\ metric'[r][m] >= metric[r][m]
                       \/ \E k \in Process :
                             DroppedBy(k, r) \/ MergedBy(k, r, m, Brought(found[k], r)[m])
<1>1. ASSUME TypeInv, [Next]_vars PROVE Kept
  <2>1. TableTypes /\ CountTypes /\ SyncTypes /\ WorldTypes /\ ReadTypes
    BY <1>1 DEF TypeInv
  <2>2. \A r \in Row, m \in Minutes : metric[r][m] \in Nat
    BY <2>1, RegistryAssumption DEF CountTypes
  <2>3. ASSUME NEW k \in Process, Update(k), NEW r \in Row, NEW m \in Minutes, rows[r] # None
        PROVE  Stays(r, m) \/ Goes(k, r, m)
    <3> DEFINE f   == found[k]
               c   == f.ids[1]
               fix == PathFix(f, seen[k][f.site])
               all == {c} \cup ToSet(Duplicates(f))
    <3>1. /\ c \in Row /\ c \notin Gone(f)
          /\ \A q \in all, n \in Minutes : MergedMetric(f)[n] >= Brought(f, q)[n]
          /\ metric' = [q \in Row |->
                 IF q = c THEN IF fix THEN NoCount ELSE MergedMetric(f)
                 ELSE IF q \in Gone(f) THEN NoCount ELSE metric[q]]
      BY <2>1, <2>3, UpdateCounts, Zenon
    <3>2. /\ f # None /\ f.ids # << >> /\ rows'[c] # None /\ Registered(k, c)
          /\ \A q \in Row : q # c /\ q \notin Gone(f) => rows'[q] = rows[q]
      BY <2>1, <2>3, UpdateEffect
    <3>3. found'[k] = None
      BY <2>1, <3>1, <3>2, RegisteredEffect
    <3>4. CASE r \notin all
      <4>1. r # c /\ r \notin Gone(f)
        BY <3>4 DEF Gone
      <4> HIDE DEF f, c, fix, all
      <4>2. rows'[r] = rows[r] /\ metric'[r] = metric[r]
        BY <3>1, <3>2, <4>1
      <4> QED BY <2>2, <2>3, <4>2
    <3>5. CASE r \in all /\ fix
      BY <3>2, <3>3, <3>5 DEF DroppedBy
    <3>6. CASE r \in all /\ ~fix
      <4>1. metric'[c] = MergedMetric(f)
        <5> HIDE DEF f, c, fix, all
        <5> QED BY <3>1, <3>6
      <4>2. metric'[c][m] >= Brought(f, r)[m]
        BY <3>1, <3>6, <4>1
      <4>3. CASE r \in ToSet(Duplicates(f))
        BY <3>2, <3>3, <4>2, <4>3 DEF MergedBy
      <4>4. CASE r \notin ToSet(Duplicates(f))
        <5>1. Brought(f, r) = metric[r] /\ r = c
          BY <3>6, <4>4 DEF Brought
        <5> QED BY <3>2, <4>2, <5>1
      <4> QED BY <4>3, <4>4
    <3> QED BY <3>4, <3>5, <3>6
  <2>4. ASSUME \A k \in Process : ~Update(k), NEW r \in Row, NEW m \in Minutes,
               rows[r] # None, metric[r][m] > 0
        PROVE  Stays(r, m)
    <3>1. rows'[r] # None
      <4>1. metric[r] # NoCount
        BY <2>4 DEF NoCount
      <4> QED BY <1>1, <2>1, <2>4, <4>1, RowsStay
    <3>2. \A q \in Row, n \in Minutes : metric'[q][n] >= metric[q][n]
      <4>1. CASE UNCHANGED <<metric, cursor, counted>>
        BY <2>2, <4>1
      <4>2. ASSUME NEW p \in Panels, NEW o \in Minutes, RecordLive(p, o)
            PROVE  \A q \in Row, n \in Minutes : metric'[q][n] >= metric[q][n]
        <5>1. /\ mapping[p] \in Row /\ counted < MaxRequests /\ counted' = counted + 1
              /\ metric' = [metric EXCEPT ![mapping[p]][o] = @ + 1]
          BY <2>1, <4>2 DEF RecordLive, WorldTypes, Mapping
        <5> QED BY <2>1, <5>1, CountedOnce
      <4>3. ASSUME NEW x \in Row, NEW o \in Minutes, ImportBatch(x, o)
            PROVE  \A q \in Row, n \in Minutes : metric'[q][n] >= metric[q][n]
        <5>1. /\ counted < MaxRequests /\ counted' = counted + 1
              /\ metric' = [metric EXCEPT ![x][o] = @ + 1]
          BY <4>3 DEF ImportBatch
        <5> QED BY <2>1, <5>1, CountedOnce
      <4> QED BY <1>1, <2>4, <4>1, <4>2, <4>3, CountSteps
    <3> QED BY <3>1, <3>2
  <2> HIDE DEF Stays, Goes
  <2>5. \A r \in Row, m \in Minutes : rows[r] # None /\ metric[r][m] > 0 =>
           Stays(r, m) \/ \E k \in Process : Goes(k, r, m)
    BY <2>3, <2>4
  <2> QED BY <2>5, Zenon DEF Stays, Goes
<1>2. Spec => []TypeInv
  BY TypesInit, TypesStep, PTL DEF Spec
<1>3. TypeInv /\ [Next]_vars => [Kept]_vars
  BY <1>1
<1> HIDE DEF Kept
<1>4. Spec => [][Kept]_vars
  BY <1>2, <1>3, PTL DEF Spec
<1> QED BY <1>4 DEF HistoryKept, Kept

-----------------------------------------------------------------------------
(* A synchronisation that runs alone.                                      *)

(* While the process of solo synchronises, no other does; and as long as   *)
(* two never have, whoever synchronises is in solo.                        *)
Single == \A k \in solo : seen[k] # None => \A l \in Process \ {k} : seen[l] = None

OverlapKnown == ~overlapped => \A k \in Process : seen[k] # None => k \in solo

(* What it has read is still so.                                           *)
Current(f) ==
    /\ Range(f.ids) = RowsOf(f.site)
    /\ f.orphan # None => rows[f.orphan] # None /\ rows[f.orphan].panel = 0

FoundCurrent == \A k \in solo : found[k] # None => Current(found[k])

(* Two sites of the panel have two logs, and so have two of those a        *)
(* process has discovered.                                                 *)
TwoLogs(paths) == \A p, q \in Panels : p # q /\ paths[p] # None => paths[p] # paths[q]

LogsApart == TwoLogs(panel) /\ \A k \in Process : seen[k] # None => TwoLogs(seen[k])

(* A row that is the only one of its site: no merge removes it, even if    *)
(* another site takes it over.                                             *)
OnlyRow(r) == rows[r] # None /\ rows[r].panel # 0 /\ RowsOf(rows[r].panel) = {r}

MappedOnly == ~overlapped => \A p \in Panels : mapping[p] # None => OnlyRow(mapping[p])

ResultOnly ==
    \A k \in solo : seen[k] # None =>
        \A p \in Panels : result[k][p] # None => OnlyRow(result[k][p])

(* The sites it has registered have one row, with their path.              *)
OneRow(p, path) == \E r \in Row : RowsOf(p) = {r} /\ rows[r].path = path

RegisteredRows ==
    \A k \in solo : seen[k] # None =>
        \A p \in Panels \ todo[k] : seen[k][p] # None => OneRow(p, seen[k][p])

SettledQuiet == settled => \A k \in Process : seen[k] = None

SoloInv ==
    /\ Single /\ OverlapKnown /\ FoundCurrent /\ LogsApart
    /\ MappedOnly /\ ResultOnly /\ RegisteredRows /\ SettledQuiet /\ SettledMatchesPanel

-----------------------------------------------------------------------------
(* Only the site, the path and the presence of a row matter for all but    *)
(* the last of these.                                                      *)
LEMMA SameRows ==
    ASSUME /\ \A q \in Row : rows'[q] = None <=> rows[q] = None
           /\ \A q \in Row : rows[q] # None =>
                 rows'[q].panel = rows[q].panel /\ rows'[q].path = rows[q].path
    PROVE  /\ \A p : RowsOf(p)' = RowsOf(p)
           /\ \A r \in Row : OnlyRow(r) => OnlyRow(r)'
           /\ \A p, path : OneRow(p, path) => OneRow(p, path)'
           /\ \A f \in Found : Current(f) => Current(f)'
<1>1. \A p : RowsOf(p)' = RowsOf(p)
  BY DEF RowsOf
<1>2. ASSUME NEW r \in Row, OnlyRow(r) PROVE OnlyRow(r)'
  <2>1. rows[r] # None /\ rows'[r] # None /\ rows'[r].panel = rows[r].panel
    BY <1>2 DEF OnlyRow
  <2>2. RowsOf(rows[r].panel)' = RowsOf(rows[r].panel)
    BY <2>1 DEF RowsOf
  <2> QED BY <1>2, <2>1, <2>2 DEF OnlyRow, RowsOf
<1>3. ASSUME NEW p, NEW path, OneRow(p, path) PROVE OneRow(p, path)'
  <2>1. PICK r \in Row : RowsOf(p) = {r} /\ rows[r].path = path
    BY <1>3 DEF OneRow
  <2>2. rows[r] # None
    BY <2>1 DEF RowsOf
  <2>3. RowsOf(p)' = {r} /\ rows'[r].path = path
    BY <1>1, <2>1, <2>2
  <2> QED BY <2>3 DEF OneRow
<1>4. ASSUME NEW f \in Found, Current(f) PROVE Current(f)'
  <2>1. f.orphan \in Row \cup {None}
    BY DEF Found
  <2>2. RowsOf(f.site)' = RowsOf(f.site)
    BY <1>1
  <2> QED BY <1>4, <2>1, <2>2 DEF Current
<1> QED BY <1>1, <1>2, <1>3, <1>4

(* Mapped and returned rows are rows.                                      *)
LEMMA MappedRows ==
    ASSUME SyncTypes, WorldTypes
    PROVE  /\ \A p \in Panels : mapping[p] # None => mapping[p] \in Row
           /\ \A k \in Process, p \in Panels : result[k][p] # None => result[k][p] \in Row
           /\ \A k \in Process : found[k] # None => found[k] \in Found
           /\ \A k \in solo : k \in Process
BY DEF SyncTypes, WorldTypes, Mapping

LEMMA OthersStep ==
    ASSUME SyncTypes, WorldTypes, SoloInv,
           \A q \in Row : rows'[q] = None <=> rows[q] = None,
           \A q \in Row : rows[q] # None =>
                 rows'[q].panel = rows[q].panel /\ rows'[q].path = rows[q].path,
           UNCHANGED <<seen, todo, found, result, solo, overlapped, mapping>>,
           TwoLogs(panel'),
           settled' = FALSE \/ UNCHANGED <<settled, panel, rows>>
    PROVE  SoloInv'
<1>1. /\ Single /\ OverlapKnown /\ FoundCurrent /\ LogsApart
      /\ MappedOnly /\ ResultOnly /\ RegisteredRows /\ SettledQuiet /\ SettledMatchesPanel
  BY DEF SoloInv
<1>2. Single' /\ OverlapKnown' /\ SettledQuiet'
  BY <1>1 DEF Single, OverlapKnown, SettledQuiet
<1>3. FoundCurrent'
  BY <1>1, SameRows, MappedRows DEF FoundCurrent
<1>4. LogsApart'
  BY <1>1 DEF LogsApart, TwoLogs
<1>5. MappedOnly'
  BY <1>1, SameRows, MappedRows DEF MappedOnly
<1>6. ResultOnly'
  BY <1>1, SameRows, MappedRows DEF ResultOnly
<1>7. RegisteredRows'
  BY <1>1, SameRows DEF RegisteredRows
<1>8. SettledMatchesPanel'
  <2>1. CASE settled' = FALSE
    BY <2>1 DEF SettledMatchesPanel
  <2>2. CASE UNCHANGED <<settled, panel, rows>>
    BY <1>1, <2>2 DEF SettledMatchesPanel, RowsOf
  <2> QED BY <2>1, <2>2
<1> QED BY <1>2, <1>3, <1>4, <1>5, <1>6, <1>7, <1>8 DEF SoloInv

(* Two synchronise: nothing is claimed until the next one begins alone.    *)
LEMMA Together ==
    ASSUME SyncTypes, WorldTypes, SoloInv, NEW k \in Process, found[k] # None, k \notin solo
    PROVE  /\ overlapped /\ ~settled
           /\ \A l \in solo : seen[l] = None /\ found[l] = None
<1>1. seen[k] # None
  BY FoundType
<1>2. overlapped /\ ~settled
  BY <1>1 DEF SoloInv, OverlapKnown, SettledQuiet
<1>3. \A l \in solo : seen[l] = None
  BY <1>1 DEF SoloInv, Single
<1>4. \A l \in solo : found[l] = None
  BY <1>3, FoundType, MappedRows
<1> QED BY <1>2, <1>3, <1>4

LEMMA TogetherStep ==
    ASSUME SyncTypes, WorldTypes, SoloInv, NEW k \in Process, found[k] # None, k \notin solo,
           NEW r \in Row, Registered(k, r)
    PROVE  SoloInv'
<1>1. /\ overlapped /\ ~settled
      /\ \A l \in solo : l \in Process /\ l # k /\ seen[l] = None /\ found[l] = None
  BY Together, MappedRows
<1>2. /\ \A l \in Process : l # k => found'[l] = found[l]
      /\ UNCHANGED <<panel, seen, solo, overlapped, settled>>
  BY RegisteredEffect
<1>3. Single' /\ OverlapKnown' /\ LogsApart' /\ SettledQuiet'
  BY <1>2 DEF SoloInv, Single, OverlapKnown, LogsApart, TwoLogs, SettledQuiet
<1>4. FoundCurrent' /\ MappedOnly' /\ ResultOnly' /\ RegisteredRows' /\ SettledMatchesPanel'
  BY <1>1, <1>2 DEF FoundCurrent, MappedOnly, ResultOnly, RegisteredRows, SettledMatchesPanel
<1> QED BY <1>3, <1>4 DEF SoloInv

LEMMA DiscoverStep ==
    ASSUME SyncTypes, WorldTypes, SoloInv, NEW k \in Process, Discover(k)
    PROVE  SoloInv'
<1>1. /\ Single /\ OverlapKnown /\ FoundCurrent /\ LogsApart /\ MappedOnly
  BY DEF SoloInv
<1>2. /\ seen'[k] = panel /\ found[k] = None /\ found' = found
      /\ todo'[k] = {p \in Panels : panel[p] # None} /\ result'[k] = Nobody
      /\ \A l \in Process : l # k => seen'[l] = seen[l]
  BY DiscoverEffect
<1>3. /\ settled' = FALSE /\ solo' = (IF Alone(k) THEN {k} ELSE {})
      /\ (overlapped' <=> overlapped \/ ~Alone(k))
      /\ UNCHANGED <<panel, rows, mapping>>
  BY DEF Discover, table
<1>4. Alone(k) <=> \A l \in Process \ {k} : seen[l] = None
  BY DEF Alone
<1>5. \A l \in solo' : l = k /\ Alone(k)
  BY <1>3
<1>6. Single'
  BY <1>2, <1>4, <1>5 DEF Single
<1>7. OverlapKnown'
  <2> SUFFICES ASSUME ~overlapped', NEW l \in Process, seen'[l] # None PROVE l \in solo'
    BY DEF OverlapKnown
  <2>1. Alone(k)
    BY <1>3
  <2>2. l = k
    BY <1>2, <1>4, <2>1
  <2> QED BY <1>3, <2>1, <2>2
<1>8. FoundCurrent'
  BY <1>2, <1>5 DEF FoundCurrent
<1>9. LogsApart'
  BY <1>1, <1>2, <1>3 DEF LogsApart, TwoLogs
<1>10. MappedOnly'
  BY <1>1, <1>3 DEF MappedOnly, OnlyRow, RowsOf
<1>11. ResultOnly'
  BY <1>2, <1>5 DEF ResultOnly, Nobody
<1>12. RegisteredRows'
  BY <1>2, <1>5 DEF RegisteredRows
<1>13. SettledQuiet' /\ SettledMatchesPanel'
  BY <1>3 DEF SettledQuiet, SettledMatchesPanel
<1> QED BY <1>6, <1>7, <1>8, <1>9, <1>10, <1>11, <1>12, <1>13 DEF SoloInv

(* A process reads, and what it has read is so.                            *)
LEMMA ReadingStep ==
    ASSUME SyncTypes, WorldTypes, SoloInv, NEW k \in Process, NEW f \in Found,
           found' = [found EXCEPT ![k] = f], k \in solo => Current(f),
           UNCHANGED <<panel, table, seen, todo, result, mapping, solo, overlapped, settled>>
    PROVE  SoloInv'
<1>1. UNCHANGED <<panel, table, seen, todo, result, mapping, solo, overlapped, settled>>
  OBVIOUS
<1>2. rows' = rows /\ found'[k] = f /\ \A l \in Process : l # k => found'[l] = found[l]
  BY DEF table, SyncTypes
<1>3. k \in solo => Current(f)
  OBVIOUS
<1>4. FoundCurrent'
  <2>1. ASSUME NEW l \in solo, found'[l] # None PROVE Current(found[l])'
    <3>1. CASE l = k
      BY <1>2, <1>3, <3>1 DEF Current, RowsOf
    <3>2. CASE l # k
      <4>1. found'[l] = found[l] /\ Current(found[l])
        BY <1>2, <2>1, <3>2, MappedRows DEF SoloInv, FoundCurrent
      <4> QED BY <1>2, <4>1 DEF Current, RowsOf
    <3> QED BY <3>1, <3>2
  <2> QED BY <1>1, <2>1 DEF FoundCurrent
<1>5. /\ Single' /\ OverlapKnown' /\ LogsApart' /\ SettledQuiet'
  BY <1>1, <1>2 DEF SoloInv, Single, OverlapKnown, LogsApart, TwoLogs, SettledQuiet
<1>6. MappedOnly' /\ ResultOnly'
  BY <1>1, <1>2 DEF SoloInv, MappedOnly, ResultOnly, OnlyRow, RowsOf
<1>7. RegisteredRows'
  BY <1>1, <1>2 DEF SoloInv, RegisteredRows, OneRow, RowsOf
<1>8. SettledMatchesPanel'
  BY <1>1, <1>2 DEF SoloInv, SettledMatchesPanel, RowsOf
<1> QED BY <1>4, <1>5, <1>6, <1>7, <1>8 DEF SoloInv

LEMMA LookupStep ==
    ASSUME TableTypes, SyncTypes, WorldTypes, SoloInv, NEW k \in Process, NEW p \in Panels, Lookup(k, p)
    PROVE  SoloInv'
<1>1. PICK f \in Found :
         /\ found' = [found EXCEPT ![k] = f]
         /\ f.site = p /\ Range(f.ids) = RowsOf(p)
         /\ f.orphan # None => rows[f.orphan] # None /\ rows[f.orphan].panel = 0
         /\ UNCHANGED <<panel, table, seen, todo, result, mapping, solo, overlapped, settled>>
  BY LookupEffect
<1>2. Current(f)
  BY <1>1 DEF Current
<1> QED BY <1>1, <1>2, ReadingStep

LEMMA ReadDuplicateStep ==
    ASSUME CountTypes, SyncTypes, WorldTypes, SoloInv, NEW k \in Process, ReadDuplicate(k)
    PROVE  SoloInv'
<1>1. PICK f \in Found :
         /\ found' = [found EXCEPT ![k] = f] /\ found[k] # None
         /\ f.site = found[k].site /\ f.ids = found[k].ids /\ f.orphan = found[k].orphan
         /\ UNCHANGED <<panel, table, seen, todo, result, mapping, solo, overlapped, settled>>
  BY ReadEffect
<1>2. k \in solo => Current(f)
  BY <1>1 DEF SoloInv, FoundCurrent, Current
<1> QED BY <1>1, <1>2, ReadingStep

-----------------------------------------------------------------------------
(* The rows of a site after the step.                                      *)
NewRowsOf(p) == {r \in Row : rows'[r] # None /\ rows'[r].panel = p}

(* A site gets its row: the first of those it had, its others being merged *)
(* into it; or, if it had none, the row at its path or a new one.          *)
Takes(p, path, r) ==
    /\ rows'[r] # None /\ rows'[r].panel = p /\ rows'[r].path = path
    /\ NewRowsOf(p) = {r}
    /\ \A q \in Panels \ {p} : NewRowsOf(q) = RowsOf(q) \ {r}
    /\ \A x \in Row \ {r} : rows[x] # None /\ rows[x].panel \notin {0, p} => rows'[x] = rows[x]
    /\ RowsOf(p) = {} \/ r \in RowsOf(p)
    /\ r \in RowsOf(p) \/ rows[r] = None \/ rows[r].path = path

LEMMA UpdateTakes ==
    ASSUME TableTypes, SyncTypes, WorldTypes, NEW k \in Process, Update(k), Current(found[k])
    PROVE  LET c == found[k].ids[1]
           IN  /\ c \in Row /\ Registered(k, c)
               /\ Takes(found[k].site, seen[k][found[k].site], c)
<1> DEFINE f    == found[k]
           c    == f.ids[1]
           p    == f.site
           path == seen[k][p]
           row  == [panel |-> rows[c].panel, path |-> path, enabled |-> TRUE]
<1>1. /\ f # None /\ f.ids # << >> /\ c \in Row /\ rows[c] # None
      /\ rows'[c] = row /\ rows'[c] # None
      /\ \A r \in Gone(f) : rows'[r] = None
      /\ \A r \in Row : r # c /\ r \notin Gone(f) => rows'[r] = rows[r]
      /\ Registered(k, c)
  BY UpdateEffect, Zenon
<1>2. f \in Found /\ p \in Panels
  BY <1>1, FoundType
<1>3. /\ c \in Range(f.ids) /\ Range(f.ids) \ {c} \subseteq Gone(f)
      /\ Gone(f) \subseteq Range(f.ids) \cup {f.orphan}
      /\ f.orphan = None => Gone(f) \subseteq Range(f.ids)
      /\ Gone(f) \subseteq Row /\ c \notin Gone(f)
  BY <1>1, <1>2, FoundRows DEF Gone
<1>4. /\ Range(f.ids) = RowsOf(p)
      /\ f.orphan # None => rows[f.orphan] # None /\ rows[f.orphan].panel = 0
  BY DEF Current
<1>5. p \in Nat \ {0} /\ \A q \in Panels : q # 0
  BY <1>2, RegistryAssumption
<1>6. row.panel = rows[c].panel /\ row.path = path
  OBVIOUS
<1> HIDE DEF row, path, p, c, f
<1>7. rows[c].panel = p /\ c \in RowsOf(p)
  BY <1>3, <1>4 DEF RowsOf, NewRowsOf
<1>8. rows'[c].panel = p /\ rows'[c].path = path
  BY <1>1, <1>6, <1>7
<1>9. \A x \in Row : x \in Gone(f) => rows[x].panel \in {0, p}
  BY <1>3, <1>4 DEF RowsOf, NewRowsOf
<1>10. \A x \in Row \ {c} : rows[x] # None /\ rows[x].panel \notin {0, p} => rows'[x] = rows[x]
  BY <1>1, <1>9
<1>11. NewRowsOf(p) = {c}
  <2>1. ASSUME NEW x \in Row, x # c, rows'[x] # None, rows'[x].panel = p PROVE FALSE
    <3>1. x \notin Gone(f) /\ rows'[x] = rows[x]
      BY <1>1, <2>1
    <3>2. x \in RowsOf(p)
      BY <2>1, <3>1 DEF RowsOf, NewRowsOf
    <3> QED BY <1>3, <1>4, <2>1, <3>1, <3>2
  <2> QED BY <1>1, <1>8, <2>1 DEF RowsOf, NewRowsOf
<1>12. ASSUME NEW q \in Panels \ {p} PROVE NewRowsOf(q) = RowsOf(q) \ {c}
  <2>1. ASSUME NEW x \in Row, rows'[x] # None, rows'[x].panel = q
        PROVE  x # c /\ rows[x] # None /\ rows[x].panel = q
    BY <1>1, <1>8, <2>1
  <2>2. ASSUME NEW x \in Row, x # c, rows[x] # None, rows[x].panel = q
        PROVE  rows'[x] # None /\ rows'[x].panel = q
    BY <1>5, <1>10, <2>2
  <2> QED BY <2>1, <2>2 DEF RowsOf, NewRowsOf
<1>13. Takes(p, path, c)
  BY <1>1, <1>7, <1>8, <1>10, <1>11, <1>12 DEF Takes
<1> QED BY <1>1, <1>13 DEF f, c, p, path

LEMMA InsertTakes ==
    ASSUME TableTypes, SyncTypes, WorldTypes, NEW k \in Process, Insert(k), Current(found[k])
    PROVE  \E r \in Row : /\ Registered(k, r)
                          /\ Takes(found[k].site, seen[k][found[k].site], r)
<1> DEFINE p    == found[k].site
           path == seen[k][p]
           row  == [panel |-> p, path |-> path, enabled |-> TRUE]
<1>1. found[k] # None /\ found[k].ids = << >> /\ row # None
  BY InsertEffect
<1>2. PICK r \in Row :
         /\ \/ rows[r] # None /\ rows[r].path = path
            \/ rows[r] = None
         /\ rows' = [rows EXCEPT ![r] = row]
         /\ Registered(k, r)
  BY InsertEffect
<1>3. p \in Panels /\ RowsOf(p) = {}
  BY <1>1, FoundType DEF Current, Range
<1>4. row.panel = p /\ row.path = path
  OBVIOUS
<1> HIDE DEF row, path, p
<1>5. \A x \in Row : rows'[x] = IF x = r THEN row ELSE rows[x]
  BY <1>2 DEF TableTypes
<1>6. NewRowsOf(p) = {r}
  BY <1>1, <1>3, <1>4, <1>5 DEF RowsOf, NewRowsOf
<1>7. \A q \in Panels \ {p} : NewRowsOf(q) = RowsOf(q) \ {r}
  BY <1>1, <1>4, <1>5 DEF RowsOf, NewRowsOf
<1>8. Takes(p, path, r)
  BY <1>1, <1>2, <1>3, <1>4, <1>5, <1>6, <1>7 DEF Takes
<1> QED BY <1>2, <1>8 DEF p, path

LEMMA TakesOnly ==
    ASSUME TableTypes, NEW p \in Panels, NEW path, NEW r \in Row, Takes(p, path, r)
    PROVE  OnlyRow(r)' /\ \A x \in Row : OnlyRow(x) => OnlyRow(x)'
<1>1. p # 0
  BY RegistryAssumption
<1>2. OnlyRow(r)'
  <2>1. rows'[r] # None /\ rows'[r].panel = p /\ NewRowsOf(p) = {r}
    BY DEF Takes
  <2> QED BY <1>1, <2>1 DEF OnlyRow, RowsOf, NewRowsOf
<1>3. ASSUME NEW x \in Row, x # r, OnlyRow(x) PROVE OnlyRow(x)'
  <2> DEFINE q == rows[x].panel
  <2>1. rows[x] # None /\ q # 0 /\ RowsOf(q) = {x} /\ q \in Panels
    BY <1>3 DEF OnlyRow, TableTypes, SiteRow
  <2>2. q # p
    BY <1>3, <2>1 DEF Takes
  <2>3. rows'[x] = rows[x]
    BY <1>3, <2>1, <2>2 DEF Takes
  <2>4. NewRowsOf(q) = {x}
    BY <1>3, <2>1, <2>2 DEF Takes
  <2> QED BY <2>1, <2>3, <2>4 DEF OnlyRow, RowsOf, NewRowsOf
<1> QED BY <1>2, <1>3

LEMMA TakesStep ==
    ASSUME TableTypes, SyncTypes, WorldTypes, SoloInv, NEW k \in solo, found[k] # None,
           NEW r \in Row, Registered(k, r), Takes(found[k].site, seen[k][found[k].site], r)
    PROVE  SoloInv'
<1> DEFINE p    == found[k].site
           path == seen[k][p]
<1>1. /\ Single /\ OverlapKnown /\ FoundCurrent /\ LogsApart
      /\ MappedOnly /\ ResultOnly /\ RegisteredRows /\ SettledQuiet
  BY DEF SoloInv
<1>2. k \in Process /\ p \in Panels /\ seen[k] # None /\ Takes(p, path, r)
  BY FoundType, MappedRows
<1>3. /\ found'[k] = None /\ todo'[k] = todo[k] \ {p} /\ result'[k][p] = r
      /\ \A q \in Panels : q # p => result'[k][q] = result[k][q]
      /\ \A l \in Process : l # k => found'[l] = found[l] /\ todo'[l] = todo[l]
                                     /\ result'[l] = result[l]
      /\ UNCHANGED <<panel, seen, mapping, solo, overlapped, settled>>
  BY <1>2, RegisteredEffect
<1>4. OnlyRow(r)' /\ \A x \in Row : OnlyRow(x) => OnlyRow(x)'
  BY <1>2, TakesOnly
<1>5. \A l \in solo : seen[l] # None => l = k
  BY <1>1, <1>2, MappedRows DEF Single
<1> HIDE DEF p, path
<1>6. Single' /\ OverlapKnown' /\ LogsApart' /\ SettledQuiet'
  BY <1>1, <1>3 DEF Single, OverlapKnown, LogsApart, TwoLogs, SettledQuiet
<1>7. FoundCurrent'
  <2>1. \A l \in solo : found'[l] = None
    BY <1>3, <1>5, MappedRows, FoundType
  <2> QED BY <1>3, <2>1 DEF FoundCurrent
<1>8. MappedOnly'
  BY <1>1, <1>3, <1>4, MappedRows DEF MappedOnly
<1>9. ResultOnly'
  <2>1. ASSUME NEW q \in Panels, result'[k][q] # None PROVE OnlyRow(result[k][q])'
    <3>1. CASE q = p
      BY <1>3, <1>4, <3>1 DEF OnlyRow, RowsOf, NewRowsOf
    <3>2. CASE q # p
      <4>1. result'[k][q] = result[k][q] /\ result[k][q] \in Row /\ OnlyRow(result[k][q])
        BY <1>1, <1>2, <1>3, <2>1, <3>2, MappedRows DEF ResultOnly
      <4> DEFINE x == result[k][q]
      <4>2. x \in Row /\ OnlyRow(x) /\ result'[k][q] = x
        BY <4>1
      <4>3. \A y \in Row : OnlyRow(y) => /\ rows'[y] # None /\ rows'[y].panel # 0
                                        /\ {z \in Row : rows'[z] # None
                                               /\ rows'[z].panel = rows'[y].panel} = {y}
        BY <1>4 DEF OnlyRow, RowsOf, NewRowsOf
      <4>4. /\ rows'[x] # None /\ rows'[x].panel # 0
            /\ {z \in Row : rows'[z] # None /\ rows'[z].panel = rows'[x].panel} = {x}
        BY <4>2, <4>3
      <4> HIDE DEF x
      <4> QED BY <4>2, <4>4 DEF OnlyRow, RowsOf, NewRowsOf
    <3> QED BY <3>1, <3>2
  <2> QED BY <1>3, <1>5, <2>1 DEF ResultOnly
<1>10. RegisteredRows'
  <2>1. ASSUME NEW q \in Panels \ todo'[k], seen[k][q] # None PROVE OneRow(q, seen[k][q])'
    <3>1. CASE q = p
      BY <1>2, <1>3, <3>1 DEF Takes, OneRow, RowsOf, NewRowsOf, path
    <3>2. CASE q # p
      <4>1. q \in Panels \ todo[k]
        BY <1>3, <3>2
      <4>2. PICK x \in Row : RowsOf(q) = {x} /\ rows[x].path = seen[k][q]
        BY <1>1, <1>2, <2>1, <4>1 DEF RegisteredRows, OneRow
      <4>3. rows[x] # None /\ rows[x].panel = q
        BY <4>2 DEF RowsOf, NewRowsOf
      <4>4. seen[k][q] # path
        BY <1>1, <1>2, <2>1, <3>2 DEF LogsApart, TwoLogs, path
      <4>5. x # r
        BY <1>2, <3>2, <4>2, <4>3, <4>4 DEF Takes, RowsOf
      <4>6. q # 0
        BY RegistryAssumption
      <4>7. rows'[x] = rows[x] /\ NewRowsOf(q) = {x}
        BY <1>2, <3>2, <4>2, <4>3, <4>5, <4>6 DEF Takes
      <4> QED BY <1>3, <4>2, <4>7 DEF OneRow, RowsOf, NewRowsOf
    <3> QED BY <3>1, <3>2
  <2> QED BY <1>3, <1>5, <2>1 DEF RegisteredRows
<1>11. SettledMatchesPanel'
  BY <1>1, <1>2, <1>3 DEF SettledQuiet, SettledMatchesPanel
<1> QED BY <1>6, <1>7, <1>8, <1>9, <1>10, <1>11 DEF SoloInv

LEMMA UpdateNothingStep ==
    ASSUME TableTypes, SyncTypes, WorldTypes, SoloInv, NEW k \in Process, UpdateNothing(k) PROVE SoloInv'
<1> DEFINE c == found[k].ids[1]
<1>1. found[k] # None /\ found[k].ids # << >> /\ rows[c] = None /\ Registered(k, c)
  BY UpdateNothingEffect
<1>2. c \in Row /\ c \in Range(found[k].ids)
  BY <1>1, FoundType, FoundRows
<1>3. ~Current(found[k])
  BY <1>1, <1>2 DEF Current, RowsOf
<1>4. k \notin solo
  BY <1>1, <1>3 DEF SoloInv, FoundCurrent
<1> QED BY <1>1, <1>2, <1>4, TogetherStep

LEMMA RaisesStep ==
    ASSUME SyncTypes, WorldTypes, SoloInv, NEW k \in Process, RegisterRaises(k) PROVE SoloInv'
<1>1. /\ Single /\ OverlapKnown /\ FoundCurrent /\ LogsApart
      /\ MappedOnly /\ ResultOnly /\ RegisteredRows /\ SettledQuiet /\ SettledMatchesPanel
  BY DEF SoloInv
<1>2. /\ seen'[k] = None /\ found'[k] = None /\ result' = result
      /\ \A l \in Process : l # k => /\ seen'[l] = seen[l] /\ todo'[l] = todo[l]
                                     /\ found'[l] = found[l]
  BY EndEffect
<1>3. UNCHANGED <<panel, rows, mapping, solo, overlapped, settled>>
  BY DEF RegisterRaises, table
<1>4. Single' /\ OverlapKnown'
  BY <1>1, <1>2, <1>3, MappedRows DEF Single, OverlapKnown
<1>5. FoundCurrent'
  <2>1. ASSUME NEW l \in solo, found'[l] # None PROVE Current(found[l])'
    <3>1. l # k /\ found'[l] = found[l] /\ Current(found[l])
      BY <1>1, <1>2, <2>1, MappedRows DEF FoundCurrent
    <3> QED BY <1>3, <3>1 DEF Current, RowsOf
  <2> QED BY <1>3, <2>1 DEF FoundCurrent
<1>6. LogsApart' /\ SettledQuiet'
  BY <1>1, <1>2, <1>3 DEF LogsApart, TwoLogs, SettledQuiet
<1>7. MappedOnly'
  BY <1>1, <1>3 DEF MappedOnly, OnlyRow, RowsOf
<1>8. ResultOnly'
  BY <1>1, <1>2, <1>3, MappedRows DEF ResultOnly, OnlyRow, RowsOf
<1>9. RegisteredRows'
  BY <1>1, <1>2, <1>3, MappedRows DEF RegisteredRows, OneRow, RowsOf
<1>10. SettledMatchesPanel'
  BY <1>1, <1>3 DEF SettledMatchesPanel, RowsOf
<1> QED BY <1>4, <1>5, <1>6, <1>7, <1>8, <1>9, <1>10 DEF SoloInv

LEMMA RetainStep ==
    ASSUME TableTypes, SyncTypes, WorldTypes, SoloInv, NEW k \in Process, Retain(k) PROVE SoloInv'
<1>1. /\ Single /\ OverlapKnown /\ FoundCurrent /\ LogsApart
      /\ MappedOnly /\ ResultOnly /\ RegisteredRows
  BY DEF SoloInv
<1>2. /\ seen'[k] = None /\ found'[k] = None /\ result' = result
      /\ \A l \in Process : l # k => /\ seen'[l] = seen[l] /\ todo'[l] = todo[l]
                                     /\ found'[l] = found[l]
  BY EndEffect
<1>3. /\ seen[k] # None /\ todo[k] = {}
      /\ mapping' = (IF k = "service" THEN result[k] ELSE mapping)
      /\ settled' = (seen[k] = panel /\ k \in solo)
      /\ UNCHANGED <<panel, solo, overlapped>>
  BY DEF Retain
<1>4. /\ \A r \in Row : rows'[r] = None <=> rows[r] = None
      /\ \A r \in Row : rows[r] # None =>
            /\ rows'[r].panel = rows[r].panel /\ rows'[r].path = rows[r].path
            /\ rows'[r].enabled = (rows[r].path \in {seen[k][p] : p \in Panels})
  BY RetainEffect
<1>5. /\ \A p : RowsOf(p)' = RowsOf(p)
      /\ \A r \in Row : OnlyRow(r) => OnlyRow(r)'
      /\ \A p, path : OneRow(p, path) => OneRow(p, path)'
      /\ \A f \in Found : Current(f) => Current(f)'
  BY <1>4, SameRows
<1>6. Single' /\ OverlapKnown'
  BY <1>1, <1>2, <1>3, MappedRows DEF Single, OverlapKnown
<1>7. FoundCurrent'
  <2>1. ASSUME NEW l \in solo, found'[l] # None PROVE Current(found[l])'
    <3>1. l # k /\ found'[l] = found[l] /\ Current(found[l])
      BY <1>1, <1>2, <2>1, MappedRows DEF FoundCurrent
    <3>2. found[l] \in Found
      BY <2>1, <3>1, MappedRows
    <3>3. Range(found[l].ids) = RowsOf(found[l].site) /\ found[l].orphan \in Row \cup {None}
          /\ (found[l].orphan # None => rows[found[l].orphan] # None
                                        /\ rows[found[l].orphan].panel = 0)
      BY <3>1, <3>2 DEF Current, Found
    <3>4. found'[l].orphan # None => rows'[found'[l].orphan] # None
                                        /\ rows'[found'[l].orphan].panel = 0
      BY <1>4, <3>1, <3>3
    <3>5. Range(found'[l].ids) = {r \in Row : rows'[r] # None /\ rows'[r].panel = found'[l].site}
      BY <1>4, <3>1, <3>3 DEF RowsOf
    <3> QED BY <3>4, <3>5 DEF Current, RowsOf
  <2> QED BY <1>3, <2>1 DEF FoundCurrent
<1>8. LogsApart'
  BY <1>1, <1>2, <1>3 DEF LogsApart, TwoLogs
<1>9. MappedOnly'
  <2>1. ASSUME ~overlapped, NEW p \in Panels, mapping'[p] # None PROVE OnlyRow(mapping'[p])
    <3>1. CASE k = "service"
      BY <1>1, <1>3, <2>1, <3>1 DEF OverlapKnown, ResultOnly
    <3>2. CASE k # "service"
      BY <1>1, <1>3, <2>1, <3>2 DEF MappedOnly
    <3> QED BY <3>1, <3>2
  <2>2. ASSUME ~overlapped, NEW p \in Panels, mapping'[p] # None PROVE OnlyRow(mapping[p])'
    <3>1. mapping'[p] \in Row
      BY <1>3, <2>2, MappedRows
    <3>2. \A x \in Row : OnlyRow(x) => /\ rows'[x] # None /\ rows'[x].panel # 0
                                       /\ {z \in Row : rows'[z] # None
                                              /\ rows'[z].panel = rows'[x].panel} = {x}
      BY <1>5 DEF OnlyRow, RowsOf
    <3>3. OnlyRow(mapping'[p])
      BY <2>1, <2>2
    <3> DEFINE y == mapping'[p]
    <3>4. y \in Row /\ OnlyRow(y)
      BY <3>1, <3>3
    <3>5. /\ rows'[y] # None /\ rows'[y].panel # 0
          /\ {z \in Row : rows'[z] # None /\ rows'[z].panel = rows'[y].panel} = {y}
      BY <3>2, <3>4
    <3> QED BY <3>5 DEF OnlyRow, RowsOf
  <2> QED BY <1>3, <2>2 DEF MappedOnly
<1>10. ResultOnly'
  BY <1>1, <1>2, <1>3, <1>5, MappedRows DEF ResultOnly
<1>11. RegisteredRows'
  BY <1>1, <1>2, <1>3, <1>5, MappedRows DEF RegisteredRows
<1>12. SettledQuiet'
  BY <1>1, <1>2, <1>3 DEF SettledQuiet, Single
<1>13. SettledMatchesPanel'
  <2> SUFFICES ASSUME seen[k] = panel, k \in solo PROVE SettledMatchesPanel'
    BY <1>3 DEF SettledMatchesPanel
  <2>1. \A p \in Panels : panel[p] # None => OneRow(p, panel[p])
    BY <1>1, <1>3 DEF RegisteredRows
  <2>2. ASSUME NEW p \in Panels, panel'[p] # None
        PROVE  \E r \in Row : RowsOf(p)' = {r} /\ rows'[r].path = panel'[p] /\ rows'[r].enabled
    <3>1. PICK r \in Row : RowsOf(p) = {r} /\ rows[r].path = panel[p]
      BY <1>3, <2>1, <2>2 DEF OneRow
    <3>2. rows[r] # None
      BY <3>1 DEF RowsOf
    <3>3. rows'[r].enabled
      BY <1>4, <3>1, <3>2
    <3> QED BY <1>3, <1>4, <1>5, <3>1, <3>2, <3>3
  <2>3. ASSUME NEW r \in Row, rows'[r] # None, rows'[r].enabled
        PROVE  rows'[r].panel # 0 /\ panel'[rows'[r].panel] = rows'[r].path
    <3>1. rows[r] # None /\ rows[r].path \in {seen[k][p] : p \in Panels}
          /\ rows'[r].panel = rows[r].panel /\ rows'[r].path = rows[r].path
      BY <1>4, <2>3
    <3>2. PICK p \in Panels : rows[r].path = panel[p]
      BY <3>1
    <3>3. panel[p] # None
      BY <3>1, <3>2, NoneApart DEF TableTypes, SiteRow
    <3>4. PICK x \in Row : RowsOf(p) = {x} /\ rows[x].path = panel[p]
      BY <2>1, <3>3 DEF OneRow
    <3>5. rows[x] # None /\ rows[x].panel = p
      BY <3>4 DEF RowsOf
    <3>6. x = r
      BY <3>1, <3>2, <3>4, <3>5 DEF TableTypes, UniquePaths
    <3>7. p # 0
      BY RegistryAssumption
    <3> QED BY <1>3, <3>1, <3>2, <3>5, <3>6, <3>7
  <2> QED BY <2>2, <2>3 DEF SettledMatchesPanel
<1> QED BY <1>6, <1>7, <1>8, <1>9, <1>10, <1>11, <1>12, <1>13 DEF SoloInv

LEMMA SoloStep ==
    ASSUME TypeInv, SoloInv, [Next]_vars PROVE SoloInv'
<1>1. TableTypes /\ CountTypes /\ SyncTypes /\ WorldTypes /\ TwoLogs(panel)
  BY DEF TypeInv, SoloInv, LogsApart
<1>2. CASE UNCHANGED vars
  BY <1>1, <1>2, OthersStep DEF vars, table, syncs
<1>3. ASSUME NEW p \in Panels, NEW path \in Paths \cup {None}, ChangePath(p, path) PROVE SoloInv'
  <2>1. /\ \A q \in Panels \ {p} : path = None \/ panel[q] # path
        /\ panel' = [panel EXCEPT ![p] = path] /\ settled' = FALSE
        /\ UNCHANGED <<rows, seen, todo, found, result, solo, overlapped, mapping>>
    BY <1>3 DEF ChangePath, table, syncs
  <2>2. \A q \in Panels : panel'[q] = IF q = p THEN path ELSE panel[q]
    BY <1>1, <2>1 DEF WorldTypes, SitePaths
  <2>3. TwoLogs(panel')
    BY <1>1, <2>1, <2>2 DEF TwoLogs
  <2> QED BY <1>1, <2>1, <2>3, OthersStep
<1>4. ASSUME NEW r \in Row, NEW e \in BOOLEAN, SetEnabled(r, e) PROVE SoloInv'
  <2>1. /\ settled' = FALSE
        /\ UNCHANGED <<panel, seen, todo, found, result, solo, overlapped, mapping>>
    BY <1>4 DEF SetEnabled, syncs
  <2> QED BY <1>1, <1>4, <2>1, EnabledEffect, OthersStep
<1>5. ASSUME NEW p \in Panels, NEW m \in Minutes, RecordLive(p, m) PROVE SoloInv'
  BY <1>1, <1>5, OthersStep DEF RecordLive, syncs
<1>6. ASSUME NEW r \in Row, NEW m \in Minutes, ImportBatch(r, m) PROVE SoloInv'
  BY <1>1, <1>6, OthersStep DEF ImportBatch, syncs
<1>7. ASSUME NEW k \in Process, Update(k) PROVE SoloInv'
  <2>1. found[k] # None /\ found[k].ids[1] \in Row /\ Registered(k, found[k].ids[1])
    BY <1>1, <1>7, UpdateEffect
  <2>2. CASE k \in solo
    BY <1>1, <1>7, <2>1, <2>2, UpdateTakes, TakesStep DEF SoloInv, FoundCurrent
  <2>3. CASE k \notin solo
    BY <1>1, <2>1, <2>3, TogetherStep
  <2> QED BY <2>2, <2>3
<1>8. ASSUME NEW k \in Process, Insert(k) PROVE SoloInv'
  <2>1. found[k] # None /\ \E r \in Row : Registered(k, r)
    BY <1>1, <1>8, InsertEffect
  <2>2. CASE k \in solo
    <3>1. \E r \in Row : /\ Registered(k, r)
                         /\ Takes(found[k].site, seen[k][found[k].site], r)
      BY <1>1, <1>8, <2>1, <2>2, InsertTakes DEF SoloInv, FoundCurrent
    <3> QED BY <1>1, <2>1, <2>2, <3>1, TakesStep
  <2>3. CASE k \notin solo
    BY <1>1, <2>1, <2>3, TogetherStep
  <2> QED BY <2>2, <2>3
<1>9. ASSUME NEW k \in Process, Sync(k), ~Update(k), ~Insert(k) PROVE SoloInv'
  BY <1>1, <1>9, DiscoverStep, LookupStep, ReadDuplicateStep, UpdateNothingStep, RaisesStep, RetainStep DEF Sync
<1> QED BY <1>2, <1>3, <1>4, <1>5, <1>6, <1>7, <1>8, <1>9 DEF Next, Environment, Collect

LEMMA SoloInit == Init => SoloInv
<1> SUFFICES ASSUME Init PROVE SoloInv
  OBVIOUS
<1>1. /\ solo = {} /\ overlapped = FALSE /\ settled = FALSE /\ mapping = Nobody
      /\ seen = [k \in Process |-> None]
      /\ \A p, q \in Panels : panel[p] # None => (p # q => panel[p] # panel[q])
  BY DEF Init
<1>2. Single /\ OverlapKnown /\ FoundCurrent /\ ResultOnly /\ RegisteredRows
      /\ SettledQuiet /\ SettledMatchesPanel
  BY <1>1 DEF Single, OverlapKnown, FoundCurrent, ResultOnly, RegisteredRows,
     SettledQuiet, SettledMatchesPanel
<1>3. LogsApart /\ MappedOnly
  BY <1>1 DEF LogsApart, TwoLogs, MappedOnly, Nobody
<1> QED BY <1>2, <1>3 DEF SoloInv

RegistryInv == TypeInv /\ SoloInv

(* The inductive invariant: while a process synchronises alone, what it    *)
(* has read is so, each site it has registered has one row with its path,  *)
(* and the rows it returns are the only ones of their sites.               *)
THEOREM RegistryInvariant == Spec => []RegistryInv
<1>1. Init => RegistryInv
  BY TypesInit, SoloInit DEF RegistryInv
<1>2. RegistryInv /\ [Next]_vars => RegistryInv'
  BY TypesStep, SoloStep DEF RegistryInv
<1> QED BY <1>1, <1>2, PTL DEF Spec

(* A synchronisation that ran alone leaves one row for each site of the    *)
(* panel, with its path and shown, and every other row hidden, whatever    *)
(* rows an earlier version or overlapping synchronisations left.           *)
THEOREM SettledMatches == Spec => []SettledMatchesPanel
<1>1. RegistryInv => SettledMatchesPanel
  BY DEF RegistryInv, SoloInv
<1> QED BY <1>1, RegistryInvariant, PTL

(* As long as no two synchronisations overlap, the rows the service        *)
(* records under are there, through moved logs and merged rows.            *)
THEOREM MappedExist == Spec => []MappedRowsExist
<1>1. RegistryInv => MappedRowsExist
  BY DEF RegistryInv, SoloInv, MappedOnly, OnlyRow, MappedRowsExist
<1> QED BY <1>1, RegistryInvariant, PTL

=============================================================================
