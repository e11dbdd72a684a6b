----------------------------- MODULE LogImport ------------------------------
(***************************************************************************)
(* core/collector.py, collect_site() and what it calls: reading the access *)
(* log of one site, in batches, into the statistics database.              *)
(*                                                                         *)
(* The log directory changes while the import runs: the web server appends *)
(* lines, logrotate renames the files and the web server then reopens its  *)
(* log.  The process can crash between any two steps; the database keeps   *)
(* what was committed, and a batch is committed together with the cursor.  *)
(*                                                                         *)
(* A line is its rank in the order of writing.  A cursor is a file and a   *)
(* number of lines (inode and byte offset in the code).  Parsing, filters  *)
(* and compressed archives are left out: every line counts.  Files are     *)
(* ordered by age, which the code reads off their modification times.      *)
(***************************************************************************)
EXTENDS Naturals, Sequences, FiniteSets, SequencesExt

CONSTANTS HasOldCursor,   (* an earlier version left a cursor at end of file *)
          BatchSize,      (* lines of a batch                                *)
          KeptFiles,      (* logrotate keeps this many files                 *)
          MaxLines,       (* bound: lines the web server writes              *)
          MaxRotations,   (* bound: rotations and truncations                *)
          MaxCrashes,     (* bound: crashes and restarts of the importer     *)
          None

Line == 1 .. MaxLines
File == 1 .. MaxRotations + 2    (* inodes, in the order of creation *)
Path == 1 .. KeptFiles           (* 1 is the log itself, n + 1 is log.n *)

Cursor == [file : File, offset : Nat]
Reader == [file : File, pos : Nat, path : Path]

ASSUME ImportAssumption ==
    /\ HasOldCursor \in BOOLEAN
    /\ BatchSize \in Nat \ {0} /\ KeptFiles \in Nat \ {0, 1}
    /\ MaxLines \in Nat \ {0, 1} /\ MaxRotations \in Nat /\ MaxCrashes \in Nat
    /\ None \notin File \cup Cursor \cup Reader

VARIABLES
    fullHistory,  (* the import of the history, or scripts/collect.py       *)
    dir,        (* the file behind each path, None if the path is missing  *)
    content,    (* the lines of each file                                  *)
    logging,    (* the file the web server has open                        *)
    written,    (* how many lines were written                             *)
    rotations,  (* how many times the log was rotated or truncated         *)
    crashes,    (* how many times the importer was killed and restarted    *)
    status,     (* history_import.status of the site, "absent" if no row   *)
    cursor,     (* file_cursors, None if no row                            *)
    counted,    (* lines in the statistics                                 *)
    twice,      (* lines counted again                                     *)
    pc,         (* where the importer is                                   *)
    sources,    (* the paths still to read, with their start offsets       *)
    fd,         (* the open file, its position, and the path it came from  *)
    listed,     (* history: the lines on disk when this run listed them    *)
    raced       (* history: the log was rotated under a run, or a file the *)
                (* import still needed was deleted                         *)

disk == <<fullHistory, dir, content, logging, written, rotations>>
db   == <<status, cursor, counted, twice>>
run  == <<pc, sources, fd, listed>>
vars == <<fullHistory, dir, content, logging, written, rotations, crashes, status, cursor,
          counted, twice, pc, sources, fd, listed, raced>>

-----------------------------------------------------------------------------
(* Mutated forms of the definitions below, one per plausible slip in the   *)
(* code; nothing here is part of the specification.                        *)

(* the newest file is read first *)
HistoryPathsNewestFirst ==
    SelectSeq([i \in 1 .. KeptFiles |-> i], LAMBDA p : dir[p] # None)

(* the import resumes at the start of the cursor's file *)
HistorySourcesRestarting ==
    LET paths == SelectSeq([i \in 1 .. KeptFiles |-> KeptFiles + 1 - i],
                           LAMBDA p : dir[p] # None)
        known == {i \in DOMAIN paths : cursor # None /\ dir[paths[i]] = cursor.file}
        all   == [i \in DOMAIN paths |-> [path |-> paths[i], offset |-> 0]]
    IN  IF known = {} THEN all
        ELSE LET i == CHOOSE j \in known : TRUE
             IN  SubSeq(all, i, Len(all))

(* a rotated file is read from its start *)
LiveSourcesFromStart ==
    IF dir[1] = cursor.file
    THEN <<[path |-> 1, offset |-> IF Len(content[dir[1]]) < cursor.offset
                                   THEN 0 ELSE cursor.offset]>>
    ELSE LET rotated == {p \in Path \ {1} : dir[p] = cursor.file}
         IN  (IF rotated = {} THEN << >>
              ELSE <<[path |-> CHOOSE p \in rotated : TRUE, offset |-> 0]>>)
             \o <<[path |-> 1, offset |-> 0]>>

-----------------------------------------------------------------------------
(* The log directory.                                                      *)

Exists(p) == dir[p] # None

Size(f) == Len(content[f])

OnDisk == (UNION {Range(content[dir[p]]) : p \in {q \in Path : Exists(q)}})
            \cup Range(content[logging])

(* The paths of the site's log, oldest first, the log itself last.         *)
HistoryPaths ==
    LET existing == {p \in Path : Exists(p)}
    IN  CHOOSE q \in UNION {[1 .. n -> existing] : n \in 0 .. KeptFiles} :
            Range(q) = existing /\ \A i, j \in DOMAIN q : i < j => q[i] > q[j]

At(path, offset) == [path |-> path, offset |-> offset]

FromStart(paths) == [i \in DOMAIN paths |-> At(paths[i], 0)]

CanonicalOnly == IF Exists(1) THEN <<At(1, 0)>> ELSE << >>

(* With the history: from the file of the cursor on; if that file is gone, *)
(* the current log only, so that no other file is read again.              *)
HistorySources ==
    LET paths == HistoryPaths
        known == {i \in DOMAIN paths : cursor # None /\ dir[paths[i]] = cursor.file}
    IN  IF cursor = None THEN FromStart(paths)
        ELSE IF known = {} THEN CanonicalOnly
        ELSE LET i == CHOOSE j \in known : TRUE
             IN  <<At(paths[i], cursor.offset)>>
                   \o FromStart(SubSeq(paths, i + 1, Len(paths)))

(* Without it: the current log, preceded by the rotated file the cursor    *)
(* points into; a log shorter than the cursor was truncated.               *)
LiveSources ==
    IF dir[1] = cursor.file
    THEN <<At(1, IF Size(dir[1]) < cursor.offset THEN 0 ELSE cursor.offset)>>
    ELSE LET rotated == {p \in Path \ {1} : dir[p] = cursor.file}
         IN  (IF rotated = {} THEN << >>
              ELSE <<At(CHOOSE p \in rotated : TRUE, cursor.offset)>>)
             \o <<At(1, 0)>>

-----------------------------------------------------------------------------
TypeOK ==
    /\ fullHistory \in BOOLEAN
    /\ dir \in [Path -> File \cup {None}]
    /\ content \in [File -> Seq(Line)]
    /\ logging \in File
    /\ written \in 0 .. MaxLines
    /\ rotations \in 0 .. MaxRotations /\ crashes \in 0 .. MaxCrashes
    /\ status \in {"absent", "running", "complete"}
    /\ cursor \in Cursor \cup {None}
    /\ counted \subseteq Line /\ twice \subseteq counted
    /\ pc \in {"idle", "clear", "list", "open", "read", "end", "over"}
    /\ sources \in Seq([path : Path, offset : Nat])
    /\ fd \in Reader \cup {None}
    /\ listed \subseteq Line /\ raced \in BOOLEAN

(* One line in a rotated log and one in the current one.                   *)
Init ==
    /\ fullHistory \in BOOLEAN
    /\ dir = [p \in Path |-> IF p = 1 THEN 2 ELSE IF p = 2 THEN 1 ELSE None]
    /\ content = [f \in File |-> IF f <= 2 THEN <<f>> ELSE << >>]
    /\ logging = 2 /\ written = 2
    /\ rotations = 0 /\ crashes = 0
    /\ status = "absent"
    /\ cursor = IF HasOldCursor /\ fullHistory THEN [file |-> 2, offset |-> 1] ELSE None
    /\ counted = {} /\ twice = {}
    /\ pc = "idle" /\ sources = << >> /\ fd = None
    /\ listed = {} /\ raced = FALSE

-----------------------------------------------------------------------------
(* The web server and logrotate.                                           *)

WriteLine ==
    /\ written < MaxLines
    /\ written' = written + 1
    /\ content' = [content EXCEPT ![logging] = Append(@, written + 1)]
    /\ UNCHANGED <<fullHistory, dir, logging, rotations, crashes, db, run, raced>>

(* Does a change of the directory disturb a run?                           *)
Busy == pc \notin {"idle", "over"}

(* The import still needs the file that the next rotation deletes: it has  *)
(* lines not yet counted, or it is the one the cursor points into.         *)
OldestNeeded ==
    LET oldest == dir[KeptFiles]
    IN  /\ Exists(KeptFiles)
        /\ \/ Range(content[oldest]) \ counted # {}
           \/ cursor # None /\ cursor.file = oldest

(* log -> log.1 -> log.2 ...; the oldest file is deleted.                  *)
Rename ==
    /\ rotations < MaxRotations
    /\ Exists(1) /\ dir[1] = logging
    /\ dir' = [p \in Path |-> IF p = 1 THEN None ELSE dir[p - 1]]
    /\ rotations' = rotations + 1
    /\ raced' = (raced \/ Busy \/ OldestNeeded)
    /\ UNCHANGED <<fullHistory, content, logging, written, crashes, db, run>>

(* The web server reopens its log: a new file behind the first path.       *)
Reopen ==
    /\ ~Exists(1)
    /\ logging' = rotations + 2
    /\ dir' = [dir EXCEPT ![1] = rotations + 2]
    /\ raced' = (raced \/ Busy)
    /\ UNCHANGED <<fullHistory, content, written, rotations, crashes, db, run>>

(* copytruncate; nothing keeps the old lines for a reader of this path.    *)
Truncate ==
    /\ ~fullHistory
    /\ rotations < MaxRotations
    /\ Exists(1) /\ dir[1] = logging
    /\ content' = [content EXCEPT ![logging] = << >>]
    /\ rotations' = rotations + 1
    /\ raced' = TRUE
    /\ UNCHANGED <<fullHistory, dir, logging, written, crashes, db, run>>

-----------------------------------------------------------------------------
(* The importer.                                                           *)

(* The row of history_import and the cursor are changed by two             *)
(* transactions; only the first import of a site clears the cursor.        *)
Begin ==
    /\ pc = "idle" /\ status # "complete"
    /\ status' = IF fullHistory THEN "running" ELSE status
    /\ pc' = IF fullHistory /\ status = "absent" THEN "clear" ELSE "list"
    /\ UNCHANGED <<disk, crashes, cursor, counted, twice, sources, fd, listed, raced>>

ClearCursor ==
    /\ pc = "clear"
    /\ cursor' = None
    /\ pc' = "list"
    /\ UNCHANGED <<disk, crashes, status, counted, twice, sources, fd, listed, raced>>

(* collect_site(): the files to read are named once, before the first one  *)
(* is opened.  A run that starts between the two halves of a rotation may  *)
(* miss lines.                                                             *)
ListSources ==
    /\ pc = "list"
    /\ fullHistory \/ (Exists(1) /\ cursor # None)
    /\ sources' = IF fullHistory THEN HistorySources ELSE LiveSources
    /\ listed' = OnDisk
    /\ raced' = (raced \/ dir[1] # logging)
    /\ pc' = "open"
    /\ UNCHANGED <<disk, crashes, db, fd>>

(* collect_from_end: without a cursor the live mode starts at the end.     *)
StartAtEnd ==
    /\ pc = "list" /\ ~fullHistory
    /\ Exists(1) /\ cursor = None
    /\ cursor' = [file |-> dir[1], offset |-> Size(dir[1])]
    /\ pc' = "idle"
    /\ UNCHANGED <<disk, crashes, status, counted, twice, sources, fd, listed, raced>>

(* The live mode finds no log.                                             *)
NothingToRead ==
    /\ pc = "list" /\ ~fullHistory
    /\ ~Exists(1)
    /\ pc' = "idle"
    /\ UNCHANGED <<disk, crashes, db, sources, fd, listed, raced>>

NoSourceLeft ==
    /\ pc = "open" /\ sources = << >>
    /\ pc' = "end"
    /\ UNCHANGED <<disk, crashes, db, sources, fd, listed, raced>>

(* The path is resolved now.                                               *)
OpenSource ==
    /\ pc = "open" /\ sources # << >>
    /\ LET next == Head(sources)
       IN  /\ Exists(next.path)
           /\ fd' = [file |-> dir[next.path], pos |-> next.offset, path |-> next.path]
    /\ sources' = Tail(sources)
    /\ pc' = "read"
    /\ UNCHANGED <<disk, crashes, db, listed, raced>>

EndOfFile ==
    /\ pc = "read" /\ fd.pos >= Size(fd.file)
    /\ fd' = None
    /\ pc' = "open"
    /\ UNCHANGED <<disk, crashes, db, sources, listed, raced>>

BatchEnd == IF fd.pos + BatchSize < Size(fd.file) THEN fd.pos + BatchSize
            ELSE Size(fd.file)

Batch == {content[fd.file][i] : i \in fd.pos + 1 .. BatchEnd}

(* Mutated forms of CommitBatch.                                           *)

(* the error of stat() is swallowed *)
CommitBatchNoStat ==
    /\ pc = "read" /\ fd.pos < Size(fd.file)
    /\ counted' = counted \cup Batch
    /\ twice' = twice \cup (counted \cap Batch)
    /\ cursor' = [file |-> dir[fd.path], offset |-> BatchEnd]
    /\ pc' = "read" /\ fd' = [fd EXCEPT !.pos = BatchEnd]
    /\ UNCHANGED <<disk, crashes, status, sources, listed, raced>>

(* a spent budget counts as the end of the site *)
CommitBatchThenEnd ==
    /\ pc = "read" /\ fd.pos < Size(fd.file)
    /\ Exists(fd.path)
    /\ counted' = counted \cup Batch
    /\ twice' = twice \cup (counted \cap Batch)
    /\ cursor' = [file |-> dir[fd.path], offset |-> BatchEnd]
    /\ \/ pc' = "read" /\ fd' = [fd EXCEPT !.pos = BatchEnd] /\ UNCHANGED sources
       \/ pc' = "end" /\ fd' = None /\ sources' = << >>
    /\ UNCHANGED <<disk, crashes, status, listed, raced>>

(* the budget is tested before the batch is written *)
CommitBatchLate ==
    /\ pc = "read" /\ fd.pos < Size(fd.file)
    /\ Exists(fd.path)
    /\ \/ /\ counted' = counted \cup Batch
          /\ twice' = twice \cup (counted \cap Batch)
          /\ cursor' = [file |-> dir[fd.path], offset |-> BatchEnd]
          /\ pc' = "read" /\ fd' = [fd EXCEPT !.pos = BatchEnd]
          /\ UNCHANGED <<sources, listed>>
       \/ /\ pc' = "idle" /\ fd' = None /\ sources' = << >> /\ listed' = {}
          /\ UNCHANGED <<counted, twice, cursor>>
    /\ UNCHANGED <<disk, crashes, status, raced>>

(* record_batch(): the lines and the cursor in one transaction.  The inode *)
(* of the cursor is read from the path, not from the open file.  Then the  *)
(* run may find its budget spent.                                          *)
CommitBatch ==
    /\ pc = "read" /\ fd.pos < Size(fd.file)
    /\ Exists(fd.path)
    /\ counted' = counted \cup Batch
    /\ twice' = twice \cup (counted \cap Batch)
    /\ cursor' = [file |-> dir[fd.path], offset |-> BatchEnd]
    /\ \/ pc' = "read" /\ fd' = [fd EXCEPT !.pos = BatchEnd]
          /\ UNCHANGED <<sources, listed>>
       \/ pc' = "idle" /\ fd' = None /\ sources' = << >> /\ listed' = {}
    /\ UNCHANGED <<disk, crashes, status, raced>>

(* A path that vanished: the exception ends the run of this site, which    *)
(* counts for no line.  The job goes on with another round if other sites  *)
(* had lines; otherwise it ends as incomplete, and the service, which has  *)
(* attempted the site, leaves it alone until it is restarted.              *)
Missing ==
    /\ \/ pc = "open" /\ sources # << >> /\ ~Exists(Head(sources).path)
       \/ pc = "read" /\ fd.pos < Size(fd.file) /\ ~Exists(fd.path)
    /\ pc' \in IF fullHistory THEN {"idle", "over"} ELSE {"idle"}
    /\ fd' = None /\ sources' = << >> /\ listed' = {}
    /\ UNCHANGED <<disk, crashes, db, raced>>

(* complete = True, and update_history_import() after the round.           *)
Finish ==
    /\ pc = "end"
    /\ status' = IF fullHistory THEN "complete" ELSE status
    /\ pc' = "idle" /\ listed' = IF fullHistory THEN listed ELSE {}
    /\ UNCHANGED <<disk, crashes, cursor, counted, twice, sources, fd, raced>>

(* The importer is killed or stopped, and started again; nothing in the    *)
(* code makes a restart happen.                                            *)
Crash ==
    /\ pc # "idle" /\ crashes < MaxCrashes
    /\ crashes' = crashes + 1
    /\ pc' = "idle" /\ fd' = None /\ sources' = << >> /\ listed' = {}
    /\ UNCHANGED <<disk, db, raced>>

Import == \/ Begin \/ ClearCursor \/ ListSources \/ StartAtEnd \/ NothingToRead
          \/ NoSourceLeft \/ OpenSource \/ EndOfFile
          \/ CommitBatch \/ Missing \/ Finish

Next == WriteLine \/ Rename \/ Reopen \/ Truncate \/ Import \/ Crash

Spec == Init /\ [][Next]_vars

(* The importer runs when it can: a run whose budget is spent is followed  *)
(* by another round, a start by a first one.  A job that is over is not    *)
(* run again.  The web server reopens its log.                             *)
FairSpec == Spec /\ WF_vars(Import) /\ WF_vars(Reopen)

-----------------------------------------------------------------------------
(* Properties.                                                             *)

(* No line of the log is ever counted twice: not by a run that resumes     *)
(* after a crash or a spent budget, not when files are renamed under a     *)
(* run, not when the file of the cursor is gone or was truncated.          *)
AtMostOnce == twice = {}

(* In a history import, as long as no rotation races with a run, what is   *)
(* counted is a prefix of what was written, and the cursor is its end:     *)
(* crashes, budgets and rotations between two runs neither skip a line nor *)
(* repeat one.                                                             *)
CountedIsPrefix ==
    fullHistory /\ ~raced =>
        /\ counted = 1 .. Cardinality(counted)
        /\ counted # {} =>
             content[cursor.file][cursor.offset] = Cardinality(counted)

(* A site is marked complete only when every line that was on disk when    *)
(* its last run listed the files is counted, if no rotation raced.         *)
CompleteCoversListed == status = "complete" /\ ~raced => listed \subseteq counted

(* A history import comes to an end: every run that spends its budget has  *)
(* committed a batch first, so crashes and budgets only delay it.  It is   *)
(* given up, until the next restart, only if a rotation raced with a run   *)
(* and took a file from under it.                                          *)
EventuallyComplete ==
    fullHistory ~> (status = "complete" \/ (pc = "over" /\ raced))

(* Rotation loses nothing, raced or not.                                   *)
RotationLosesNothing == status = "complete" => listed \subseteq counted
=============================================================================
