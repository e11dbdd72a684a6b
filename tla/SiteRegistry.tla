---------------------------- MODULE SiteRegistry ----------------------------
(***************************************************************************)
(* The table of sites of core/repository.py, and the two processes that    *)
(* keep it in step with the panel: the service (site_mapping() of          *)
(* scripts/socket_server.py, every few seconds) and the plugin's API       *)
(* (_sync_sites() of WebAnalytics_main.py, on every page).                 *)
(*                                                                         *)
(* A row belongs to a panel site and has the path of its access log, which *)
(* is unique in the table.  Paths change: when the administrator edits a   *)
(* virtual host, and with versions of the plugin that inferred them        *)
(* otherwise.  A synchronisation registers the discovered sites one by     *)
(* one, merging rows of the same site, and then enables exactly those      *)
(* sites.  What register_site() reads before its first statement that      *)
(* writes, it reads outside the transaction that statement opens: the rows *)
(* of the site, and then the counts of the first row it merges.  Other     *)
(* processes can write before, between and after the two.                  *)
(*                                                                         *)
(* Of the counted data the model keeps requests per minute, of the import  *)
(* its cursor (path and time).                                             *)
(***************************************************************************)
EXTENDS Integers, Sequences, FiniteSets, SequencesExt, FiniteSetsExt

CONSTANTS Panels,      (* ids of the panel, in the order they are listed    *)
          Paths,       (* log paths                                         *)
          Trimmed(_),  (* a path without trailing semicolons                *)
          Process,     (* "service" and the plugin's API                    *)
          Minutes,
          MaxRows,     (* bound: rows ever inserted                         *)
          MaxChanges,  (* bound: changes of the panel and uses of the API   *)
          MaxRequests, (* bound: requests and log batches counted           *)
          None

Row == 1 .. MaxRows

SiteRow   == [panel : Panels \cup {0}, path : Paths, enabled : BOOLEAN]
SitePaths == [Panels -> Paths \cup {None}]
Mapping   == [Panels -> Row \cup {None}]
Cursor    == [path : Paths, time : 0 .. MaxRequests]

Counts    == [Minutes -> 0 .. MaxRequests + 2]

Found == [site : Panels, ids : Seq(Row), path : Paths \cup {None}, orphan : Row \cup {None},
          read : Counts \cup {None}]

ASSUME RegistryAssumption ==
    /\ Panels \subseteq Nat \ {0} /\ "service" \in Process
    /\ \A p \in Paths : Trimmed(p) \in Paths /\ Trimmed(Trimmed(p)) = Trimmed(p)
    /\ {MaxRows, MaxChanges, MaxRequests} \subseteq Nat
    /\ None \notin Nat \cup Paths \cup SiteRow \cup SitePaths \cup Cursor \cup Found \cup Counts

VARIABLES
    panel,     (* the log path of each site of the panel                    *)
    rows,      (* sites: panel_site_id (0: none), log_path, enabled         *)
    next,      (* the id of the next row                                    *)
    metric,    (* metric_minute.requests                                    *)
    cursor,    (* file_cursors: log_path and updated_at                     *)
    seen,      (* per process, the sites it discovered                      *)
    todo,      (* those of them it has not registered                       *)
    found,     (* what register_site() read                                 *)
    result,    (* the mapping it builds                                     *)
    mapping,   (* the service's mapping from panel sites to rows            *)
    solo,      (* the process that synchronises alone, if any               *)
    overlapped, (* did two processes ever synchronise at once?              *)
    settled,   (* has such a synchronisation ended, and nothing changed?    *)
    failed,    (* the processes whose last synchronisation raised           *)
    changes, counted

table  == <<rows, next, metric, cursor>>
syncs  == <<seen, todo, found, result, failed>>
bounds == <<changes, counted>>
vars   == <<panel, table, syncs, mapping, solo, overlapped, settled, bounds>>

TypeOK ==
    /\ panel \in SitePaths
    /\ rows \in [Row -> SiteRow \cup {None}]
    /\ next \in 1 .. MaxRows + 1
    /\ \A r \in Row : rows[r] # None => r < next
    /\ \A r, q \in Row : rows[r] # None /\ rows[q] # None /\ r # q
                            => rows[r].path # rows[q].path
    /\ metric \in [Row -> Counts]
    /\ cursor \in [Row -> Cursor \cup {None}]
    /\ \A r \in Row : rows[r] = None => cursor[r] = None
    /\ seen \in [Process -> SitePaths \cup {None}]
    /\ todo \in [Process -> SUBSET Panels]
    /\ found \in [Process -> Found \cup {None}]
    /\ \A k \in Process : found[k] # None => found[k].site \in todo[k]
    /\ result \in [Process -> Mapping] /\ mapping \in Mapping
    /\ solo \subseteq Process /\ overlapped \in BOOLEAN /\ settled \in BOOLEAN /\ failed \subseteq Process
    /\ changes \in 0 .. MaxChanges /\ counted \in 0 .. MaxRequests

-----------------------------------------------------------------------------
Nobody  == [p \in Panels |-> None]
NoCount == [m \in Minutes |-> 0]

(* A table earlier versions can have left: they knew a row by its path, so *)
(* rows of one site, rows of no site, and paths with a semicolon exist.    *)
Legacy(first, second) ==
    /\ rows = [r \in Row |-> IF r = 1 THEN first ELSE IF r = 2 THEN second ELSE None]
    /\ second # None => first # None /\ first.path # second.path

Init ==
    /\ panel \in {ss \in SitePaths :
                     \A p, q \in Panels : ss[p] # None =>
                        ss[p] = Trimmed(ss[p]) /\ (p # q => ss[p] # ss[q])}
    /\ \E first, second \in [panel : Panels \cup {0}, path : Paths, enabled : {TRUE}] \cup {None} :
          Legacy(first, second)
    /\ next = 1 + Cardinality({r \in Row : rows[r] # None})
    /\ metric = [r \in Row |-> IF rows[r] = None THEN NoCount
                               ELSE [m \in Minutes |-> IF m = 1 THEN r ELSE 0]]
    /\ cursor = [r \in Row |-> IF rows[r] = None THEN None
                               ELSE [path |-> rows[r].path, time |-> 0]]
    /\ seen = [k \in Process |-> None] /\ todo = [k \in Process |-> {}]
    /\ found = [k \in Process |-> None] /\ result = [k \in Process |-> Nobody]
    /\ mapping = Nobody /\ solo = {} /\ overlapped = FALSE /\ settled = FALSE /\ failed = {}
    /\ changes = 0 /\ counted = 0

(* The panel adds a site, removes one or moves its log; two sites do not   *)
(* share a log.                                                            *)
ChangePath(p, path) ==
    /\ path # panel[p] /\ (path # None => path = Trimmed(path))
    /\ \A q \in Panels \ {p} : path = None \/ panel[q] # path
    /\ changes < MaxChanges /\ changes' = changes + 1
    /\ panel' = [panel EXCEPT ![p] = path]
    /\ settled' = FALSE
    /\ UNCHANGED <<table, syncs, mapping, solo, overlapped, counted>>

(* set_site_enabled() of the API.                                          *)
SetEnabled(r, enabled) ==
    /\ rows[r] # None /\ rows[r].enabled # enabled
    /\ changes < MaxChanges /\ changes' = changes + 1
    /\ rows' = [rows EXCEPT ![r].enabled = enabled]
    /\ settled' = FALSE
    /\ UNCHANGED <<panel, next, metric, cursor, syncs, mapping, solo, overlapped, counted>>

-----------------------------------------------------------------------------
(* What is recorded under a row.                                           *)

(* record_live_batch(): under the row the service maps the site to.        *)
RecordLive(p, m) ==
    /\ mapping[p] # None /\ rows[mapping[p]] # None
    /\ counted < MaxRequests /\ counted' = counted + 1
    /\ metric' = [metric EXCEPT ![mapping[p]][m] = @ + 1]
    /\ UNCHANGED <<panel, rows, next, cursor, syncs, mapping, solo, overlapped, settled, changes>>

(* record_batch() of an import.                                            *)
ImportBatch(r, m) ==
    /\ rows[r] # None
    /\ counted < MaxRequests /\ counted' = counted + 1
    /\ metric' = [metric EXCEPT ![r][m] = @ + 1]
    /\ cursor' = [cursor EXCEPT ![r] = [path |-> rows[r].path, time |-> counted + 1]]
    /\ UNCHANGED <<panel, rows, next, syncs, mapping, solo, overlapped, settled, changes>>

-----------------------------------------------------------------------------
(* register_site().                                                        *)

RowsOf(p) == {r \in Row : rows[r] # None /\ rows[r].panel = p}
RowsAt(path) == {r \in Row : rows[r] # None /\ rows[r].path = path}

OrphansAt(path) == {r \in RowsAt(path) : rows[r].panel = 0}

Alone(k) == \A l \in Process \ {k} : seen[l] = None

Discover(k) ==
    /\ seen[k] = None
    /\ seen' = [seen EXCEPT ![k] = panel]
    /\ todo' = [todo EXCEPT ![k] = {p \in Panels : panel[p] # None}]
    /\ result' = [result EXCEPT ![k] = Nobody]
    /\ failed' = failed \ {k} /\ settled' = FALSE
    /\ solo' = IF Alone(k) THEN {k} ELSE {}
    /\ overlapped' = (overlapped \/ ~Alone(k))
    /\ UNCHANGED <<panel, table, found, mapping, bounds>>

(* ORDER BY id.                                                            *)
Ascending(R) ==
    {ids \in [1 .. Cardinality(R) -> R] :
        Range(ids) = R /\ \A i, j \in DOMAIN ids : i < j => ids[i] < ids[j]}

(* The rows of the site and, if there are any, the row at its path.        *)
Lookup(k, p) ==
    /\ p \in todo[k] /\ found[k] = None /\ \A q \in todo[k] : p <= q
    /\ \E ids \in Ascending(RowsOf(p)) :
          LET orphan == OrphansAt(seen[k][p])
          IN  found' = [found EXCEPT ![k] =
                 [site |-> p, ids |-> ids,
                  path   |-> IF ids = << >> THEN None ELSE rows[ids[1]].path,
                  orphan |-> IF ids = << >> \/ orphan = {} THEN None
                             ELSE CHOOSE r \in orphan : TRUE,
                  read   |-> None]]
    /\ UNCHANGED <<panel, table, seen, todo, result, failed, mapping, solo, overlapped, settled, bounds>>

(* Slip: the other rows of the site stay.                                  *)
Duplicates_OrphanOnly(f) == IF f.orphan = None THEN << >> ELSE <<f.orphan>>

(* The rows _merge_site_rows() merges into the first, in order.            *)
Duplicates(f) == Tail(f.ids) \o (IF f.orphan = None THEN << >> ELSE <<f.orphan>>)

(* The first of them; its counts are read before any statement writes.     *)
First(f) == Head(Duplicates(f))

ReadDuplicate(k) ==
    /\ found[k] # None /\ found[k].ids # << >> /\ found[k].read = None
    /\ Duplicates(found[k]) # << >>
    /\ found' = [found EXCEPT ![k].read = metric[First(found[k])]]
    /\ UNCHANGED <<panel, table, seen, todo, result, failed, mapping, solo, overlapped, settled, bounds>>

(* The transaction can begin.                                              *)
Ready(f) == f.ids # << >> /\ (Duplicates(f) # << >> => f.read # None)

(* What a row brings to the merge: the first duplicate what was read of it *)
(* before, the others what is in the table.                                *)
Brought(f, r) == IF r \in ToSet(Duplicates(f)) /\ r = First(f) THEN f.read ELSE metric[r]

(* Slip: the smaller count.                                                *)
MergedMetric_Smaller(f) ==
    [m \in Minutes |-> Min({Brought(f, r)[m] : r \in {f.ids[1]} \cup ToSet(Duplicates(f))})]

(* Of two rows the larger count of each minute: the same requests may have *)
(* been counted under both.                                                *)
MergedMetric(f) ==
    [m \in Minutes |-> Max({Brought(f, r)[m] : r \in {f.ids[1]} \cup ToSet(Duplicates(f))})]

(* A duplicate's cursor replaces one that is not newer: in the end there   *)
(* is the newest, and of equally new ones the last.                        *)
MergedCursor(c, duplicates) ==
    LET line    == <<c>> \o duplicates
        held    == {i \in DOMAIN line : cursor[line[i]] # None}
        time(i) == cursor[line[i]].time
        newest  == Max({time(i) : i \in held})
    IN  IF held = {} THEN None ELSE cursor[line[Max({i \in held : time(i) = newest})]]

(* The old path was stored with the semicolon of its directive: what was   *)
(* counted is dropped and the log imported anew.                           *)
PathFix(f, path) == f.path # path /\ Trimmed(f.path) = path

(* Slip: it is not.                                                        *)
Conflict_None(f, path) == FALSE

(* sites.log_path is unique.                                               *)
Conflict(f, path) == \E r \in RowsAt(path) : r # f.ids[1] /\ r \notin ToSet(Duplicates(f))

Registered(k, r) ==
    /\ result' = [result EXCEPT ![k][found[k].site] = r]
    /\ todo' = [todo EXCEPT ![k] = @ \ {found[k].site}]
    /\ found' = [found EXCEPT ![k] = None]
    /\ UNCHANGED <<panel, seen, failed, mapping, solo, overlapped, settled, bounds>>

Update(k) ==
    /\ found[k] # None /\ Ready(found[k])
    /\ LET f    == found[k]
           path == seen[k][f.site]
           c    == f.ids[1]
           gone == ToSet(Duplicates(f)) \ {c}
           at   == MergedCursor(c, Duplicates(f))
           fix  == PathFix(f, path)
       IN  /\ rows[c] # None /\ ~Conflict(f, path)
           /\ rows' = [r \in Row |->
                  IF r = c THEN [panel |-> rows[c].panel, path |-> path, enabled |-> TRUE]
                  ELSE IF r \in gone THEN None ELSE rows[r]]
           /\ metric' = [r \in Row |->
                  IF r = c THEN IF fix THEN NoCount ELSE MergedMetric(f)
                  ELSE IF r \in gone THEN NoCount ELSE metric[r]]
           /\ cursor' = [r \in Row |->
                  IF r = c THEN IF at # None /\ f.path # path /\ at.path # path
                                THEN None ELSE at
                  ELSE IF r \in gone THEN None ELSE cursor[r]]
           /\ Registered(k, c)
    /\ UNCHANGED next

(* Nothing to insert under the first row: no counts and no cursor.         *)
Bare(f) == \A r \in ToSet(Duplicates(f)) :
               metric[r] = NoCount /\ Brought(f, r) = NoCount /\ cursor[r] = None

(* Another process merged the first row away: the UPDATE matches no row.   *)
(* Bare duplicates are deleted all the same.                               *)
UpdateNothing(k) ==
    /\ found[k] # None /\ Ready(found[k])
    /\ rows[found[k].ids[1]] = None /\ Bare(found[k])
    /\ rows' = [r \in Row |-> IF r \in ToSet(Duplicates(found[k])) THEN None ELSE rows[r]]
    /\ Registered(k, found[k].ids[1])
    /\ UNCHANGED <<next, metric, cursor>>

(* No row of the site: the row at its path becomes its row, or a new one.  *)
Insert(k) ==
    /\ found[k] # None /\ found[k].ids = << >>
    /\ LET p    == found[k].site
           path == seen[k][p]
           row  == [panel |-> p, path |-> path, enabled |-> TRUE]
       IN  \/ \E r \in RowsAt(path) :
                /\ rows' = [rows EXCEPT ![r] = row]
                /\ next' = next
                /\ Registered(k, r)
           \/ /\ RowsAt(path) = {} /\ next <= MaxRows
              /\ rows' = [rows EXCEPT ![next] = row]
              /\ next' = next + 1
              /\ Registered(k, next)
    /\ UNCHANGED <<metric, cursor>>

(* The foreign key, where the first row is gone, or the unique path: the   *)
(* exception ends the synchronisation, and the site's transaction is       *)
(* rolled back.                                                            *)
RegisterRaises(k) ==
    /\ found[k] # None /\ Ready(found[k])
    /\ IF rows[found[k].ids[1]] = None THEN ~Bare(found[k])
       ELSE Conflict(found[k], seen[k][found[k].site])
    /\ found' = [found EXCEPT ![k] = None]
    /\ seen' = [seen EXCEPT ![k] = None] /\ todo' = [todo EXCEPT ![k] = {}]
    /\ failed' = failed \cup {k}
    /\ UNCHANGED <<panel, table, result, mapping, solo, overlapped, settled, bounds>>

(* Slip: the rows of sites that are gone are deleted.                      *)
Retain_Deletes(k) ==
    /\ seen[k] # None /\ todo[k] = {}
    /\ LET retained == {seen[k][p] : p \in Panels}
           stays(r) == rows[r] # None /\ rows[r].path \in retained
       IN  /\ rows' = [r \in Row |-> IF stays(r) THEN rows[r] ELSE None]
           /\ cursor' = [r \in Row |-> IF stays(r) THEN cursor[r] ELSE None]
    /\ seen' = [seen EXCEPT ![k] = None]
    /\ mapping' = IF k = "service" THEN result[k] ELSE mapping
    /\ settled' = (seen[k] = panel /\ k \in solo)
    /\ UNCHANGED <<panel, next, metric, todo, found, result,
                   failed, solo, overlapped, bounds>>

(* retain_sites(), and the mapping is in use.                              *)
Retain(k) ==
    /\ seen[k] # None /\ todo[k] = {}
    /\ LET retained == {seen[k][p] : p \in Panels}
       IN  rows' = [r \in Row |-> IF rows[r] = None THEN None
                                  ELSE [rows[r] EXCEPT !.enabled = rows[r].path \in retained]]
    /\ seen' = [seen EXCEPT ![k] = None]
    /\ mapping' = IF k = "service" THEN result[k] ELSE mapping
    /\ settled' = (seen[k] = panel /\ k \in solo)
    /\ UNCHANGED <<panel, next, metric, cursor, todo, found, result,
                   failed, solo, overlapped, bounds>>

-----------------------------------------------------------------------------
Environment ==
    \/ \E p \in Panels, path \in Paths \cup {None} : ChangePath(p, path)
    \/ \E r \in Row, e \in BOOLEAN : SetEnabled(r, e)

Collect ==
    \/ \E p \in Panels, m \in Minutes : RecordLive(p, m)
    \/ \E r \in Row, m \in Minutes : ImportBatch(r, m)

Sync(k) ==
    \/ Discover(k)
    \/ \E p \in Panels : Lookup(k, p)
    \/ ReadDuplicate(k) \/ Update(k) \/ UpdateNothing(k) \/ Insert(k) \/ RegisterRaises(k) \/ Retain(k)

Next == Environment \/ Collect \/ \E k \in Process : Sync(k)

Spec == Init /\ [][Next]_vars

-----------------------------------------------------------------------------
(* After a synchronisation that ran alone, every site of the panel has one *)
(* row, with its present path and shown; every other row is hidden, and    *)
(* the service maps each site to its row.                                  *)
SettledMatchesPanel ==
    settled =>
        /\ \A p \in Panels : panel[p] # None =>
               \E r \in Row : /\ RowsOf(p) = {r} /\ rows[r].path = panel[p] /\ rows[r].enabled
        /\ \A r \in Row : rows[r] # None /\ rows[r].enabled
               => rows[r].panel # 0 /\ panel[rows[r].panel] = rows[r].path

(* As long as no two processes synchronise at once, a row the service      *)
(* records requests under is never merged away: the foreign key would      *)
(* reject the events that wait in the live queue, and they would be lost.  *)
MappedRowsExist ==
    ~overlapped => \A p \in Panels : mapping[p] # None => rows[mapping[p]] # None

(* Process k ends the registration of a site: its own row stays, and has   *)
(* taken at least n of what row r counted in minute m.                     *)
MergedBy(k, r, m, n) ==
    /\ found[k] # None /\ found'[k] = None /\ found[k].ids # << >>
    /\ r \in ToSet(Duplicates(found[k]))
    /\ LET c == found[k].ids[1] IN rows'[c] # None /\ metric'[c][m] >= n

(* It drops the counts of row r, as the semicolon in the path of the site  *)
(* it registers goes.                                                      *)
DroppedBy(k, r) ==
    /\ found[k] # None /\ found'[k] = None /\ found[k].ids # << >>
    /\ r \in {found[k].ids[1]} \cup ToSet(Duplicates(found[k]))
    /\ PathFix(found[k], seen[k][found[k].site])

(* CHANGELOG 0.4.3: overlapping minutes keep the larger value, the others  *)
(* are kept in full.  A row that has counts keeps them, or the row its     *)
(* duplicates are merged into has them afterwards, but where a semicolon   *)
(* goes.  Excepted are the counts the first duplicate got after the merge  *)
(* had read it: see NoCountLost.                                           *)
HistoryKept ==
    [][\A r \in Row, m \in Minutes : rows[r] # None /\ metric[r][m] > 0 =>
          \/ rows'[r] # None /\ metric'[r][m] >= metric[r][m]
          \/ \E k \in Process : DroppedBy(k, r) \/ MergedBy(k, r, m, Brought(found[k], r)[m])]_vars

(* The same without exception.  TLC refutes it: a batch that is recorded   *)
(* under the first duplicate between the SELECT of its counts and the      *)
(* first statement that writes is deleted with the row.                    *)
NoCountLost ==
    [][\A r \in Row, m \in Minutes : rows[r] # None /\ metric[r][m] > 0 =>
          \/ rows'[r] # None /\ metric'[r][m] >= metric[r][m]
          \/ \E k \in Process : DroppedBy(k, r) \/ MergedBy(k, r, m, metric[r][m])]_vars

(* CHANGELOG 0.4.3: a site is identified by its panel id, not by its path, *)
(* which may change: a synchronisation that runs alone does not fail.      *)
SyncSucceeds == failed \cap solo = {}
=============================================================================
