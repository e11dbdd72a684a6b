----------------------- MODULE DataDirectory_proofs -----------------------
(***************************************************************************)
(* Proofs about DataDirectory, for every set of sites and of concurrent    *)
(* requests, every schema version and every number of saves, crashes and   *)
(* updates.                                                                *)
(***************************************************************************)
EXTENDS DataDirectory, SequenceTheorems, TLAPS

-----------------------------------------------------------------------------
(* The types.                                                              *)

(* What is only history is kept together.                                  *)
USE DEF ghosts

ProcRecord == [pc : Stages, cfg : Config, seen : 0 .. SchemaVersion, queue : Salt \cup {None}]

ProcTypes == proc \in [Processes -> ProcRecord]

DataTypes ==
    /\ file \in Config \cup {None} /\ db \in Database \cup {None}
    /\ legacy \in Legacy \cup {None} /\ external \in BOOLEAN
    /\ unit \in {"absent", "stopped", "started"}
    /\ saves \in 0 .. MaxSaves
    /\ before \in Database \cup {None}
    /\ early \in BOOLEAN /\ cut \in BOOLEAN /\ overtaken \in BOOLEAN

BackupTypes == backups \in Seq(Database) /\ Len(backups) <= 3

Running == proc[Service].pc \in {"ready", "restore"}

(* Who is to write statistics has found the file or made it.               *)
DbThere ==
    /\ \A p \in Processes : At(p, "migrate") => db # None
    /\ Running => db # None /\ db.version = SchemaVersion
    /\ At(Service, "other") /\ legacy = None => db # None
    /\ At(Installer, "copy") => legacy # None
    /\ At(Installer, "mark") /\ legacy # None /\ ~external => db # None

TypeInv == ProcTypes /\ DataTypes /\ BackupTypes /\ DbThere

-----------------------------------------------------------------------------
(* What the operators return.                                              *)

LEMMA Members ==
    /\ Service \in Processes /\ Installer \in Processes /\ Service # Installer
    /\ Requests \subseteq Processes /\ Service \notin Requests /\ Installer \notin Requests
  BY DataDirectoryAssumption DEF Processes

LEMMA NoneApart == None \notin Config /\ None \notin Database /\ None \notin Legacy
  BY DataDirectoryAssumption

LEMMA DefaultsType == Defaults \in Config
  BY DataDirectoryAssumption DEF Defaults, Config

LEMMA EmptyType == EmptyDatabase \in Database /\ EmptyDatabase.version = 0
  BY DataDirectoryAssumption DEF EmptyDatabase, Database

LEMMA OutType ==
    ASSUME NEW stage \in Stages
    PROVE  Out(stage) \in ProcRecord /\ Out(stage).pc = stage /\ Out(stage).queue = None
  BY DefaultsType, DataDirectoryAssumption DEF Out, ProcRecord

LEMMA CompletedType ==
    ASSUME NEW c \in Config, NEW p \in Processes
    PROVE  /\ Completed(c, p) \in Config
           /\ Completed(c, p).sync = 15 /\ Completed(c, p).choice = c.choice
           /\ Completed(c, p).salt = IF c.salt = None THEN p ELSE c.salt
  BY DEF Completed, Config, Salt

LEMMA LoadedType ==
    ASSUME DataTypes, NEW p \in Processes
    PROVE  /\ Loaded(p) \in Config
           /\ Loaded(p).choice = IF file = None THEN 0 ELSE file.choice
           /\ file # None /\ file.sync = 15 /\ file.salt # None => Loaded(p) = file
<1>1. CASE file = None
  BY <1>1, CompletedType, DefaultsType DEF Loaded, Defaults
<1>2. CASE file # None
  <2>1. file \in Config
    BY <1>2 DEF DataTypes
  <2>2. file.sync = 15 /\ file.salt # None => Completed(file, p) = file
    BY <2>1 DEF Completed, Config
  <2> QED BY <1>2, <2>1, <2>2, CompletedType DEF Loaded
<1> QED BY <1>1, <1>2

LEMMA GotoEffect ==
    ASSUME ProcTypes, NEW p \in Processes, NEW stage \in Stages, Goto(p, stage)
    PROVE  /\ ProcTypes'
           /\ proc'[p] = IF stage = "off" THEN Out("off") ELSE [proc[p] EXCEPT !.pc = stage]
           /\ proc'[p].pc = stage
           /\ stage # "off" => /\ proc'[p].cfg = proc[p].cfg /\ proc'[p].seen = proc[p].seen
                               /\ proc'[p].queue = proc[p].queue
           /\ \A q \in Processes : q # p => proc'[q] = proc[q]
<1>1. proc[p] \in ProcRecord
  BY DEF ProcTypes
<1>2. [proc[p] EXCEPT !.pc = stage] \in ProcRecord
  BY <1>1 DEF ProcRecord
<1>3. "off" \in Stages
  BY DEF Stages
<1>4. Out("off") \in ProcRecord /\ Out("off").pc = "off"
  BY <1>3, OutType
<1>5. proc'[p] = IF stage = "off" THEN Out("off") ELSE [proc[p] EXCEPT !.pc = stage]
  BY DEF Goto, ProcTypes
<1>6. \A q \in Processes : q # p => proc'[q] = proc[q]
  BY DEF Goto, ProcTypes
<1>7. ProcTypes'
  BY <1>2, <1>4 DEF Goto, ProcTypes
<1> QED BY <1>1, <1>4, <1>5, <1>6, <1>7 DEF ProcRecord

LEMMA LoadEffect ==
    ASSUME ProcTypes, DataTypes, NEW p \in Processes,
           NEW from \in Stages, NEW to \in Stages, NEW store \in Stages, Load(p, from, to, store)
    PROVE  /\ ProcTypes' /\ At(p, from)
           /\ UNCHANGED <<file, db, backups, legacy, external, unit, saves, ghosts>>
           /\ proc'[p].pc = (IF file = Loaded(p) THEN to ELSE store)
           /\ proc'[p].cfg = Loaded(p) /\ proc'[p].seen = proc[p].seen
           /\ proc'[p].queue = proc[p].queue
           /\ \A q \in Processes : q # p => proc'[q] = proc[q]
<1> DEFINE stage == IF file = Loaded(p) THEN to ELSE store
<1>1. proc[p] \in ProcRecord /\ Loaded(p) \in Config
  BY LoadedType DEF ProcTypes
<1>2. proc' = [proc EXCEPT ![p] = [@ EXCEPT !.cfg = Loaded(p), !.pc = stage]]
  BY <1>1 DEF Load, ProcTypes
<1>3. [proc[p] EXCEPT !.cfg = Loaded(p), !.pc = stage] \in ProcRecord
  BY <1>1 DEF ProcRecord
<1>4. proc'[p] = [proc[p] EXCEPT !.cfg = Loaded(p), !.pc = stage]
  BY <1>2 DEF ProcTypes
<1>5. ProcTypes'
  BY <1>2, <1>3 DEF ProcTypes
<1>6. \A q \in Processes : q # p => proc'[q] = proc[q]
  BY <1>2 DEF ProcTypes
<1>7. /\ proc'[p].pc = stage /\ proc'[p].cfg = Loaded(p)
      /\ proc'[p].seen = proc[p].seen /\ proc'[p].queue = proc[p].queue
  <2> HIDE DEF stage
  <2> QED BY <1>1, <1>4 DEF ProcRecord
<1>8. /\ At(p, from)
      /\ UNCHANGED <<file, db, backups, legacy, external, unit, saves, ghosts>>
  BY DEF Load, data, bounds
<1> QED BY <1>5, <1>6, <1>7, <1>8

LEMMA StoreEffect ==
    ASSUME ProcTypes, NEW p \in Processes, NEW from \in Stages, NEW to \in Stages \ {"off"},
           Store(p, from, to)
    PROVE  /\ ProcTypes' /\ At(p, from)
           /\ file' = proc[p].cfg /\ file' \in Config
           /\ UNCHANGED <<db, backups, legacy, external, unit, saves, ghosts>>
           /\ proc'[p].pc = to
           /\ proc'[p].cfg = proc[p].cfg /\ proc'[p].seen = proc[p].seen
           /\ proc'[p].queue = proc[p].queue
           /\ \A q \in Processes : q # p => proc'[q] = proc[q]
<1>1. proc[p].cfg \in Config
  BY DEF ProcTypes, ProcRecord
<1>2. Goto(p, to)
  BY DEF Store
<1> QED BY <1>1, <1>2, GotoEffect DEF Store, bounds

LEMMA StoredType == DataTypes => Stored \in Database
  BY EmptyType DEF DataTypes, Stored

LEMMA OpenEffect ==
    ASSUME ProcTypes, DataTypes, NEW p \in Processes, Open(p)
    PROVE  /\ ProcTypes' /\ At(p, "open") /\ db' = Stored
           /\ UNCHANGED <<file, backups, legacy, external, unit, saves, before, cut, overtaken>>
           /\ early' = (early \/ /\ p # Installer /\ Stored.version < SchemaVersion
                                 /\ legacy # None \/ db # None)
           /\ proc'[p].pc = IF Readable(Stored.version) THEN "migrate" ELSE Refused(p)
           /\ Readable(Stored.version) => proc'[p].seen = Stored.version
           /\ proc'[p].pc # "off" => /\ proc'[p].cfg = proc[p].cfg /\ proc'[p].queue = proc[p].queue
           /\ \A q \in Processes : q # p => proc'[q] = proc[q]
<1>1. Stored \in Database /\ proc[p] \in ProcRecord
  BY StoredType DEF ProcTypes
<1>2. /\ At(p, "open") /\ db' = Stored
      /\ UNCHANGED <<file, backups, legacy, external, unit, saves, before, cut, overtaken>>
      /\ early' = (early \/ /\ p # Installer /\ Stored.version < SchemaVersion
                            /\ legacy # None \/ db # None)
  BY DEF Open, bounds
<1>3. CASE Readable(Stored.version)
  <2>1. Stored.version \in 0 .. SchemaVersion
    BY <1>1, <1>3, DataDirectoryAssumption DEF Readable, Database
  <2>2. proc' = [proc EXCEPT ![p] = [@ EXCEPT !.pc = "migrate", !.seen = Stored.version]]
    BY <1>3 DEF Open, ProcTypes
  <2>3. [proc[p] EXCEPT !.pc = "migrate", !.seen = Stored.version] \in ProcRecord
    BY <1>1, <2>1 DEF ProcRecord, Stages
  <2>4. proc'[p] = [proc[p] EXCEPT !.pc = "migrate", !.seen = Stored.version]
    BY <2>2 DEF ProcTypes
  <2>5. ProcTypes'
    BY <2>2, <2>3 DEF ProcTypes
  <2>6. \A q \in Processes : q # p => proc'[q] = proc[q]
    BY <2>2 DEF ProcTypes
  <2> QED BY <1>1, <1>2, <1>3, <2>4, <2>5, <2>6 DEF ProcRecord
<1>4. CASE ~Readable(Stored.version)
  <2>1. Goto(p, Refused(p)) /\ Refused(p) \in Stages
    BY <1>4 DEF Open, Refused, Stages
  <2> QED BY <1>2, <1>4, <2>1, GotoEffect
<1> QED BY <1>3, <1>4

LEMMA MigrateEffect ==
    ASSUME ProcTypes, NEW p \in Processes, Migrate(p)
    PROVE  /\ ProcTypes' /\ At(p, "migrate") /\ db' = Upgraded(db, proc[p].seen)
           /\ UNCHANGED <<file, backups, legacy, external, unit, saves, ghosts>>
           /\ proc'[p].pc = "ready" /\ proc'[p].cfg = proc[p].cfg
           /\ proc'[p].queue = IF p = Service THEN proc[p].cfg.salt ELSE None
           /\ \A q \in Processes : q # p => proc'[q] = proc[q]
<1> DEFINE salt == IF p = Service THEN proc[p].cfg.salt ELSE None
<1>1. proc[p] \in ProcRecord /\ salt \in Salt \cup {None} /\ 0 \in 0 .. SchemaVersion
  BY DataDirectoryAssumption DEF ProcTypes, ProcRecord, Config
<1>2. proc' = [proc EXCEPT ![p] = [@ EXCEPT !.pc = "ready", !.seen = 0, !.queue = salt]]
  BY <1>1 DEF Migrate, ProcTypes
<1>3. [proc[p] EXCEPT !.pc = "ready", !.seen = 0, !.queue = salt] \in ProcRecord
  BY <1>1 DEF ProcRecord, Stages
<1>4. proc'[p] = [proc[p] EXCEPT !.pc = "ready", !.seen = 0, !.queue = salt]
  BY <1>2 DEF ProcTypes
<1>5. ProcTypes'
  BY <1>2, <1>3 DEF ProcTypes
<1>6. \A q \in Processes : q # p => proc'[q] = proc[q]
  BY <1>2 DEF ProcTypes
<1>7. proc'[p].pc = "ready" /\ proc'[p].cfg = proc[p].cfg /\ proc'[p].queue = salt
  <2> HIDE DEF salt
  <2> QED BY <1>1, <1>4 DEF ProcRecord
<1> QED BY <1>5, <1>6, <1>7 DEF Migrate, bounds

LEMMA RestartedEffect ==
    ASSUME ProcTypes, NEW others \in SUBSET Processes, Restarted(others)
    PROVE  /\ ProcTypes' /\ unit' = "started"
           /\ \A q \in Processes : proc'[q] = IF q = Service THEN Out("load")
                                              ELSE IF q \in others THEN Out("off") ELSE proc[q]
           /\ Out("load").pc = "load" /\ Out("off").pc = "off"
<1>1. /\ Out("load") \in ProcRecord /\ Out("off") \in ProcRecord
      /\ Out("load").pc = "load" /\ Out("off").pc = "off"
  BY OutType DEF Stages
<1> QED BY <1>1 DEF Restarted, ProcTypes

LEMMA StoppedEffect ==
    ASSUME ProcTypes, StopService
    PROVE  /\ ProcTypes' /\ unit' \in {unit, "stopped"} /\ At(Installer, "off")
           /\ proc'[Service] = Out("off") /\ proc'[Installer] = Out("begin")
           /\ Out("off").pc = "off" /\ Out("begin").pc = "begin"
           /\ \A q \in Processes : q \notin {Service, Installer} => proc'[q] = proc[q]
           /\ UNCHANGED <<file, db, backups, legacy, external, saves, early, cut, overtaken>>
           /\ before' = IF before = None THEN Statistics ELSE before
<1>1. /\ Out("begin") \in ProcRecord /\ Out("off") \in ProcRecord
      /\ Out("begin").pc = "begin" /\ Out("off").pc = "off"
  BY OutType DEF Stages
<1>2. proc' = [q \in Processes |-> IF q = Installer THEN Out("begin")
                                   ELSE IF q = Service THEN Out("off") ELSE proc[q]]
  BY Members DEF StopService, ProcTypes
<1>3. /\ UNCHANGED <<file, db, backups, legacy, external, saves, early, cut, overtaken>>
      /\ before' = (IF before = None THEN Statistics ELSE before)
      /\ unit' \in {unit, "stopped"} /\ At(Installer, "off")
  BY DEF StopService, data
<1> QED BY <1>1, <1>2, <1>3, Members DEF ProcTypes

LEMMA LookEffect ==
    ASSUME ProcTypes, LookForData
    PROVE  /\ ProcTypes' /\ At(Installer, "begin")
           /\ proc'[Installer].pc = (IF ToCopy THEN "copy" ELSE "mark")
           /\ proc'[Installer].cfg = proc[Installer].cfg
           /\ \A q \in Processes : q # Installer => proc'[q] = proc[q]
           /\ UNCHANGED <<file, db, backups, legacy, external, unit, saves, ghosts>>
<1> DEFINE stage == IF ToCopy THEN "copy" ELSE "mark"
<1>1. stage \in Stages /\ stage # "off" /\ Goto(Installer, stage)
  BY DEF Stages, LookForData
<1> HIDE DEF stage
<1>2. /\ ProcTypes' /\ proc'[Installer].pc = stage
      /\ proc'[Installer].cfg = proc[Installer].cfg
      /\ \A q \in Processes : q # Installer => proc'[q] = proc[q]
  BY <1>1, GotoEffect, Members
<1> QED BY <1>2 DEF stage, LookForData, data, bounds

LEMMA PieceType ==
    ASSUME NEW d \in Database, NEW e \in Pieces(d) PROVE e \in Database
<1>1. CASE e = EmptyDatabase
  BY <1>1, EmptyType
<1>2. CASE e = Unreadable
  BY <1>2, EmptyType, DataDirectoryAssumption DEF Unreadable, Database
<1>3. CASE \E c \in SUBSET d.counted : e = [d EXCEPT !.counted = c]
  BY <1>3 DEF Database
<1> QED BY <1>1, <1>2, <1>3 DEF Pieces

LEMMA CopyEffect ==
    ASSUME DataTypes, DbThere, CopyStatistics
    PROVE  /\ At(Installer, "copy") /\ legacy # None /\ db = None
           /\ db' \in Database /\ db' # None
           /\ cut' \in BOOLEAN /\ (cut => cut') /\ (~cut' => db' = legacy.db)
           /\ UNCHANGED <<file, backups, legacy, external, unit, proc, saves,
                          before, early, overtaken>>
<1>1. /\ At(Installer, "copy") /\ legacy # None /\ db = None
      /\ UNCHANGED <<file, backups, legacy, external, unit, proc, saves,
                     before, early, overtaken>>
      /\ \/ db' = legacy.db /\ cut' = cut
         \/ db' \in Pieces(legacy.db) /\ cut' = TRUE
  BY DEF CopyStatistics, DbThere, bounds
<1>2. legacy.db \in Database
  BY <1>1 DEF DataTypes, Legacy
<1>3. db' \in Database
  BY <1>1, <1>2, PieceType
<1>4. cut \in BOOLEAN /\ db' # None
  BY <1>3, NoneApart DEF DataTypes
<1>5. cut' \in BOOLEAN /\ (cut => cut') /\ (~cut' => db' = legacy.db)
  <2>1. CASE db' = legacy.db /\ cut' = cut
    BY <1>4, <2>1
  <2>2. CASE cut' = TRUE
    BY <2>2
  <2> QED BY <1>1, <2>1, <2>2
<1> QED BY <1>1, <1>3, <1>4, <1>5

LEMMA CopyConfigEffect ==
    ASSUME DataTypes, DbThere, CopyConfig
    PROVE  /\ At(Installer, "copy") /\ legacy # None /\ file = None
           /\ file' \in {legacy.file, Defaults} /\ file' \in Config
           /\ UNCHANGED <<db, backups, legacy, external, unit, proc, saves, ghosts>>
<1>1. /\ At(Installer, "copy") /\ legacy # None /\ file = None
      /\ file' \in {legacy.file, Defaults}
      /\ UNCHANGED <<db, backups, legacy, external, unit, proc, saves, ghosts>>
  BY DEF CopyConfig, DbThere, bounds
<1>2. legacy.file \in Config
  BY <1>1 DEF DataTypes, Legacy
<1> QED BY <1>1, <1>2, DefaultsType

LEMMA MarkEffect ==
    ASSUME ProcTypes, DataTypes, MarkExternal
    PROVE  /\ ProcTypes'
           /\ At(Installer, "mark") \/ At(Installer, "copy")
           /\ proc'[Installer].pc = "load" /\ proc'[Installer].cfg = proc[Installer].cfg
           /\ \A q \in Processes : q # Installer => proc'[q] = proc[q]
           /\ external' = TRUE /\ cut' \in BOOLEAN
           /\ cut' = (cut \/ (At(Installer, "copy") /\ db = None))
           /\ UNCHANGED <<file, db, backups, legacy, unit, saves, before, early, overtaken>>
<1>1. "load" \in Stages /\ Goto(Installer, "load")
  BY DEF Stages, MarkExternal
<1>2. /\ ProcTypes' /\ proc'[Installer].pc = "load"
      /\ proc'[Installer].cfg = proc[Installer].cfg
      /\ \A q \in Processes : q # Installer => proc'[q] = proc[q]
  BY <1>1, GotoEffect, Members
<1>3. /\ At(Installer, "mark") \/ At(Installer, "copy")
      /\ external' = TRUE
      /\ cut' = (cut \/ (At(Installer, "copy") /\ db = None))
      /\ UNCHANGED <<file, db, backups, legacy, unit, saves, before, early, overtaken>>
  BY DEF MarkExternal, bounds
<1>4. cut' \in BOOLEAN
  BY <1>3 DEF DataTypes
<1> QED BY <1>2, <1>3, <1>4

-----------------------------------------------------------------------------
(* What steps on the statistics leave there: Keeps is of this kind.        *)
Grows(d, e) ==
    /\ d.counted \subseteq e.counted
    /\ \A s \in Sites : /\ d.history[s] = "complete" => e.history[s] = "complete"
                        /\ d.history[s] # None => e.history[s] # None

LEMMA KeepsGrows ==
    ASSUME NEW old, Keeps(old), Grows(db, db'), db' # None PROVE Keeps(old)'
  BY DEF Keeps, Grows

LEMMA UpgradedType ==
    ASSUME NEW d \in Database, NEW version \in 0 .. SchemaVersion
    PROVE  /\ Upgraded(d, version) \in Database /\ Grows(d, Upgraded(d, version))
           /\ Upgraded(d, version).version = SchemaVersion
           /\ 0 < version /\ version < SchemaVersion =>
                \A s \in d.counted : Upgraded(d, version).history[s] # None
<1>1. d.counted \subseteq Sites /\ d.history \in [Sites -> {None, "pending", "complete"}]
  BY DEF Database
<1>2. SchemaVersion \in 0 .. SchemaVersion + 1 /\ "complete" # None
  BY DataDirectoryAssumption
<1> DEFINE e == Upgraded(d, version)
           history == [s \in Sites |->
                          IF 0 < version /\ version < SchemaVersion
                             /\ s \in d.counted /\ d.history[s] = None
                          THEN "complete" ELSE d.history[s]]
<1>3. e = [d EXCEPT !.version = SchemaVersion, !.history = history]
  BY DEF Upgraded, Database
<1>4. history \in [Sites -> {None, "pending", "complete"}]
  BY <1>1
<1>5. /\ \A s \in Sites : d.history[s] = "complete" => history[s] = "complete"
      /\ \A s \in Sites : d.history[s] # None => history[s] # None
      /\ 0 < version /\ version < SchemaVersion => \A s \in d.counted : history[s] # None
  BY <1>1, <1>2
<1>6. e \in Database /\ e.version = SchemaVersion /\ e.history = history /\ e.counted = d.counted
  <2> HIDE DEF history, e
  <2> QED BY <1>1, <1>2, <1>3, <1>4 DEF Database
<1> QED BY <1>5, <1>6 DEF Grows

LEMMA ServeType ==
    ASSUME NEW d \in Database, NEW e \in Serve(d)
    PROVE  e \in Database /\ Grows(d, e) /\ e.version = d.version
<1>1. d.counted \subseteq Sites /\ d.history \in [Sites -> {None, "pending", "complete"}]
  BY DEF Database
<1>2. "complete" # None /\ "pending" # None
  BY DataDirectoryAssumption
<1>3. CASE \E s \in Sites : e = [d EXCEPT !.counted = @ \cup {s}]
  BY <1>1, <1>3 DEF Database, Grows
<1>4. CASE \E s \in Sites : d.history[s] = None /\ e = [d EXCEPT !.history[s] = "pending"]
  <2>1. PICK s \in Sites : d.history[s] = None /\ e = [d EXCEPT !.history[s] = "pending"]
    BY <1>4
  <2>2. e = [d EXCEPT !.history = [d.history EXCEPT ![s] = "pending"]]
    BY <2>1 DEF Database
  <2>3. [d.history EXCEPT ![s] = "pending"] \in [Sites -> {None, "pending", "complete"}]
    BY <1>1
  <2>4. e \in Database /\ e.version = d.version /\ e.counted = d.counted
        /\ e.history = [d.history EXCEPT ![s] = "pending"]
    BY <2>2, <2>3 DEF Database
  <2> QED BY <1>1, <1>2, <2>1, <2>4 DEF Grows
<1>5. CASE \E s \in Sites : d.history[s] = "pending"
                            /\ e = [d EXCEPT !.history[s] = "complete", !.counted = @ \cup {s}]
  <2>1. PICK s \in Sites : d.history[s] = "pending"
                           /\ e = [d EXCEPT !.history[s] = "complete", !.counted = @ \cup {s}]
    BY <1>5
  <2>2. e = [d EXCEPT !.history = [d.history EXCEPT ![s] = "complete"],
                      !.counted = d.counted \cup {s}]
    BY <2>1 DEF Database
  <2>3. [d.history EXCEPT ![s] = "complete"] \in [Sites -> {None, "pending", "complete"}]
    BY <1>1
  <2>4. e \in Database /\ e.version = d.version /\ e.counted = d.counted \cup {s}
        /\ e.history = [d.history EXCEPT ![s] = "complete"]
    BY <1>1, <2>2, <2>3 DEF Database
  <2> QED BY <1>1, <1>2, <2>1, <2>4 DEF Grows
<1> QED BY <1>3, <1>4, <1>5 DEF Serve

LEMMA BackupEffect ==
    ASSUME ProcTypes, DataTypes, BackupTypes, Backup
    PROVE  /\ At(Installer, "backup") /\ Goto(Installer, "open") /\ BackupTypes'
           /\ UNCHANGED <<file, db, legacy, external, unit, saves, ghosts>>
           /\ db # None /\ db.version < SchemaVersion => Len(backups') > 0 /\ backups'[1] = db
           /\ db # None /\ ~(db.version < SchemaVersion) => backups' = backups
<1> DEFINE all == <<db>> \o backups
           n == Min({Len(backups) + 1, 3})
<1> HIDE DEF all, n
<1>1. CASE db # None /\ db.version < SchemaVersion
  <2>1. db \in Database
    BY <1>1 DEF DataTypes
  <2>2. backups' = SubSeq(all, 1, n)
    BY <1>1 DEF Backup, all, n
  <2>3. Len(backups) \in 0 .. 3 /\ backups \in Seq(Database)
    <3>1. Len(backups) \in Nat
      BY LenProperties DEF BackupTypes
    <3>2. backups \in Seq(Database) /\ Len(backups) <= 3
      BY DEF BackupTypes
    <3>3. \A k \in Nat : k <= 3 => k \in 0 .. 3
      OBVIOUS
    <3> QED BY <3>1, <3>2, <3>3
  <2>4. n \in 1 .. 3 /\ n <= Len(backups) + 1
    <3>1. n = IF Len(backups) + 1 <= 3 THEN Len(backups) + 1 ELSE 3
      BY <2>3 DEF Min, n
    <3> QED BY <2>3, <3>1
  <2>5. all \in Seq(Database) /\ Len(all) = Len(backups) + 1 /\ all[1] = db
    BY <2>1, <2>3 DEF all
  <2>6. /\ SubSeq(all, 1, n) \in Seq(Database) /\ Len(SubSeq(all, 1, n)) = n
        /\ SubSeq(all, 1, n)[1] = db
    <3>1. 1 \in 1 .. Len(all) + 1 /\ n \in 0 .. Len(all)
      BY <2>3, <2>4, <2>5
    <3>2. /\ SubSeq(all, 1, n) \in Seq(Database)
          /\ Len(SubSeq(all, 1, n)) = IF 1 <= n THEN n - 1 + 1 ELSE 0
          /\ \A i \in 1 .. n - 1 + 1 : SubSeq(all, 1, n)[i] = all[1 + i - 1]
      BY <2>5, <3>1, SubSeqProperties
    <3>3. n - 1 + 1 = n /\ 1 <= n /\ 1 + 1 - 1 = 1 /\ 1 \in 1 .. n
      BY <2>4
    <3> QED BY <2>5, <3>2, <3>3
  <2>7. /\ At(Installer, "backup") /\ Goto(Installer, "open")
        /\ UNCHANGED <<file, db, legacy, external, unit, saves, ghosts>>
    BY DEF Backup, bounds
  <2>8. BackupTypes' /\ Len(backups') > 0 /\ backups'[1] = db
    BY <2>2, <2>4, <2>6 DEF BackupTypes
  <2> QED BY <1>1, <2>7, <2>8
<1>2. CASE ~(db # None /\ db.version < SchemaVersion)
  BY <1>2 DEF Backup, bounds, BackupTypes
<1> QED BY <1>1, <1>2

LEMMA SaveEffect ==
    ASSUME ProcTypes, DataTypes, NEW p \in Requests, SaveSettings(p)
    PROVE  /\ At(p, "ready") /\ Goto(p, "off")
           /\ saves' = saves + 1 /\ saves' \in 0 .. MaxSaves
           /\ file' = Completed(Saved(proc[p].cfg, saves'), p) /\ file' \in Config
           /\ file'.choice = saves' /\ file'.sync = 15
           /\ file'.salt = IF proc[p].cfg.salt = None THEN p ELSE proc[p].cfg.salt
           /\ overtaken' \in BOOLEAN /\ overtaken' = (overtaken \/ Pending # {})
           /\ UNCHANGED <<db, backups, legacy, external, unit, before, early, cut>>
<1>1. saves' = saves + 1 /\ saves' \in 0 .. MaxSaves
  BY DataDirectoryAssumption DEF SaveSettings, DataTypes
<1>2. proc[p].cfg \in Config /\ p \in Processes
  BY Members DEF ProcTypes, ProcRecord
<1>3. /\ Saved(proc[p].cfg, saves') \in Config /\ Saved(proc[p].cfg, saves').choice = saves'
      /\ Saved(proc[p].cfg, saves').salt = proc[p].cfg.salt
  BY <1>1, <1>2 DEF Saved, Config
<1>4. file' = Completed(Saved(proc[p].cfg, saves'), p)
  BY <1>1 DEF SaveSettings
<1>5. overtaken' \in BOOLEAN /\ overtaken' = (overtaken \/ Pending # {})
  BY DEF SaveSettings, DataTypes
<1>6. UNCHANGED <<db, backups, legacy, external, unit, before, early, cut>>
  BY DEF SaveSettings
<1> QED BY <1>1, <1>2, <1>3, <1>4, <1>5, <1>6, CompletedType DEF SaveSettings

-----------------------------------------------------------------------------
LEMMA TypeStep ==
    ASSUME TypeInv, [Next]_vars PROVE TypeInv'
<1>1. ProcTypes /\ DataTypes /\ BackupTypes /\ DbThere
  BY DEF TypeInv
<1>2. {"off", "begin", "copy", "mark", "load", "store", "backup", "open", "migrate", "ready",
       "restore"} \subseteq Stages
  BY DEF Stages
(* A process that moves, and leaves the statistics alone.                  *)
<1>3. ASSUME NEW p \in Processes, ProcTypes', DataTypes', BackupTypes', db' = db, legacy' = legacy,
             external' = external,
             \A q \in Processes : q # p => proc'[q] = proc[q],
             proc'[p].pc \notin {"migrate", "other", "copy", "mark"},
             proc'[p].pc \in {"ready", "restore"} /\ p = Service => Running
      PROVE  TypeInv'
  BY <1>1, <1>3, Members DEF TypeInv, DbThere, At, Running
<1>4. CASE Update
  <2>1. CASE StopService
    <3>1. before' \in Database \cup {None}
      BY <1>1, <2>1, StoppedEffect DEF DataTypes, Legacy, Statistics
    <3>2. ProcTypes' /\ DataTypes' /\ BackupTypes'
      BY <1>1, <2>1, <3>1, StoppedEffect DEF DataTypes, BackupTypes
    <3>3. DbThere'
      BY <1>1, <2>1, StoppedEffect, Members DEF DbThere, At, Running
    <3> QED BY <3>2, <3>3 DEF TypeInv
  <2>2. CASE LookForData
    <3>1. ProcTypes' /\ DataTypes' /\ BackupTypes'
      BY <1>1, <2>2, LookEffect DEF DataTypes, BackupTypes
    <3>2. DbThere'
      BY <1>1, <2>2, LookEffect, Members DEF DbThere, At, Running, ToCopy
    <3> QED BY <3>1, <3>2 DEF TypeInv
  <2>3. CASE CopyStatistics
    <3>1. ProcTypes' /\ DataTypes' /\ BackupTypes'
      BY <1>1, <2>3, CopyEffect DEF ProcTypes, DataTypes, BackupTypes
    <3>2. DbThere'
      BY <1>1, <2>3, CopyEffect DEF DbThere, At, Running
    <3> QED BY <3>1, <3>2 DEF TypeInv
  <2>4. CASE CopyConfig
    BY <1>1, <2>4, CopyConfigEffect
    DEF TypeInv, ProcTypes, DataTypes, BackupTypes, DbThere, At, Running
  <2>5. CASE MarkExternal
    <3>1. ProcTypes' /\ DataTypes' /\ BackupTypes'
      <4>1. external' = TRUE /\ cut' \in BOOLEAN /\ ProcTypes'
        BY <1>1, <2>5, MarkEffect
      <4>2. UNCHANGED <<file, db, backups, legacy, unit, saves, before, early, overtaken>>
        BY <1>1, <2>5, MarkEffect
      <4>3. external' \in BOOLEAN
        BY <4>1
      <4> QED BY <1>1, <4>1, <4>2, <4>3 DEF DataTypes, BackupTypes
    <3>2. DbThere'
      BY <1>1, <2>5, MarkEffect, Members DEF DbThere, At, Running
    <3> QED BY <3>1, <3>2 DEF TypeInv
  <2> QED BY <1>4, <2>1, <2>2, <2>3, <2>4, <2>5 DEF Update
<1>5. CASE Backup
  <2>1. Goto(Installer, "open") /\ BackupTypes'
        /\ UNCHANGED <<file, db, legacy, external, unit, saves, ghosts>>
    BY <1>1, <1>5, BackupEffect
  <2>2. ProcTypes' /\ proc'[Installer].pc = "open"
        /\ \A q \in Processes : q # Installer => proc'[q] = proc[q]
    BY <1>1, <1>2, <2>1, GotoEffect, Members
  <2>3. DataTypes'
    BY <1>1, <2>1 DEF DataTypes
  <2> QED BY <1>3, <2>1, <2>2, <2>3, Members
<1>6. ASSUME NEW others \in SUBSET Processes, Restarted(others),
             UNCHANGED <<file, db, backups, legacy, external, saves, ghosts>>
      PROVE  TypeInv'
  <2>1. ProcTypes' /\ DataTypes' /\ BackupTypes'
    BY <1>1, <1>6, RestartedEffect DEF DataTypes, BackupTypes
  <2>2. DbThere'
    BY <1>1, <1>6, RestartedEffect, Members DEF DbThere, At, Running
  <2> QED BY <2>1, <2>2 DEF TypeInv
<1>7. CASE InstallService
  BY <1>6, <1>7, Members DEF InstallService, data, bounds
<1>8. ASSUME NEW p \in Requests, RepairRealtime(p) PROVE TypeInv'
  BY <1>6, <1>8, Members DEF RepairRealtime, data, bounds
<1>9. ASSUME NEW p \in Processes, NEW stage \in {"off", "load"}, Goto(p, stage),
             UNCHANGED <<data, unit, saves, ghosts>>
      PROVE  TypeInv'
  <2>1. UNCHANGED <<file, db, backups, legacy, external>>
    BY <1>9 DEF data
  <2>2. DataTypes' /\ BackupTypes'
    BY <1>1, <1>9, <2>1 DEF DataTypes, BackupTypes
  <2>3. /\ ProcTypes' /\ proc'[p].pc = stage
        /\ \A q \in Processes : q # p => proc'[q] = proc[q]
    BY <1>1, <1>2, <1>9, GotoEffect
  <2> QED BY <1>3, <1>9, <2>1, <2>2, <2>3
<1>10. CASE StartService
  BY <1>9, <1>10, Members DEF StartService, bounds
<1>11. ASSUME NEW p \in Requests, Request(p) \/ Answer(p) PROVE TypeInv'
  BY <1>9, <1>11, Members DEF Request, Answer, bounds
<1>12. ASSUME NEW p \in Processes, Crash(p) PROVE TypeInv'
  BY <1>9, <1>12 DEF Crash
<1>13. CASE Reload
  <2>1. Load(Service, "ready", "ready", "restore")
    BY <1>13 DEF Reload
  <2> QED BY <1>1, <1>2, <1>3, <2>1, LoadEffect, Members DEF DataTypes, BackupTypes, At, Running
<1>14. CASE StoreReloaded
  <2>1. Store(Service, "restore", "ready")
    BY <1>14 DEF StoreReloaded
  <2> QED BY <1>1, <1>2, <1>3, <2>1, StoreEffect, Members DEF DataTypes, BackupTypes, At, Running
<1>15. ASSUME NEW p \in Processes, LoadConfig(p) PROVE TypeInv'
  <2>1. AfterLoad(p) \in {"backup", "open"}
    BY DEF AfterLoad
  <2>2. CASE Load(p, "load", AfterLoad(p), "store")
    BY <1>1, <1>2, <1>3, <2>1, <2>2, LoadEffect DEF DataTypes, BackupTypes
  <2>3. CASE Store(p, "store", AfterLoad(p))
    BY <1>1, <1>2, <1>3, <2>1, <2>3, StoreEffect DEF DataTypes, BackupTypes
  <2> QED BY <1>15, <2>2, <2>3 DEF LoadConfig
<1>16. ASSUME NEW p \in Processes, Open(p) PROVE TypeInv'
  <2>1. /\ ProcTypes' /\ At(p, "open") /\ db' = Stored
        /\ UNCHANGED <<file, backups, legacy, external, unit, saves, before, cut, overtaken>>
        /\ early' \in BOOLEAN
        /\ proc'[p].pc \in {"migrate", Refused(p)}
        /\ \A q \in Processes : q # p => proc'[q] = proc[q]
    BY <1>1, <1>16, OpenEffect DEF DataTypes
  <2>2. db' \in Database /\ db' # None /\ (db # None => db' = db)
    BY <1>1, <2>1, StoredType, NoneApart DEF Stored
  <2>3. proc'[p].pc \in {"migrate", "ready", "off"} /\ (proc'[p].pc = "ready" => p # Service)
    BY <2>1, Members DEF Refused
  <2>4. DataTypes' /\ BackupTypes'
    BY <1>1, <2>1, <2>2 DEF DataTypes, BackupTypes
  <2>5. DbThere'
    BY <1>1, <2>1, <2>2, <2>3, Members DEF DbThere, At, Running
  <2> QED BY <2>1, <2>4, <2>5 DEF TypeInv
<1>17. ASSUME NEW p \in Processes, Migrate(p) PROVE TypeInv'
  <2>1. db \in Database /\ proc[p].seen \in 0 .. SchemaVersion
    BY <1>1, <1>17, MigrateEffect DEF DataTypes, DbThere, ProcTypes, ProcRecord
  <2>2. db' \in Database /\ db'.version = SchemaVersion /\ db' # None
    BY <1>1, <1>17, <2>1, MigrateEffect, UpgradedType, NoneApart
  <2>3. ProcTypes' /\ DataTypes' /\ BackupTypes'
    BY <1>1, <1>17, <2>2, MigrateEffect DEF DataTypes, BackupTypes
  <2>4. DbThere'
    BY <1>1, <1>17, <2>2, MigrateEffect, Members DEF DbThere, At, Running
  <2> QED BY <2>3, <2>4 DEF TypeInv
<1>18. CASE ServeHere
  <2>1. db \in Database
    BY <1>1, <1>18 DEF ServeHere, DataTypes, DbThere, At, Running
  <2>2. db' \in Database /\ db' # None /\ db'.version = db.version
    BY <1>18, <2>1, ServeType, NoneApart DEF ServeHere
  <2>3. ProcTypes' /\ DataTypes' /\ BackupTypes'
    BY <1>1, <1>18, <2>2 DEF ServeHere, bounds, ProcTypes, DataTypes, BackupTypes
  <2>4. DbThere'
    BY <1>1, <1>18, <2>2 DEF ServeHere, DbThere, At, Running
  <2> QED BY <2>3, <2>4 DEF TypeInv
<1>19. CASE ServeLegacy
  <2>1. PICK d \in Serve(legacy.db) : legacy' = [legacy EXCEPT !.db = d]
    BY <1>19 DEF ServeLegacy
  <2>2. legacy \in Legacy /\ legacy # None
    BY <1>1, <1>19 DEF ServeLegacy, DataTypes
  <2>3. d \in Database
    BY <2>2, ServeType DEF Legacy
  <2>4. legacy' \in Legacy /\ legacy' # None
    BY <2>1, <2>2, <2>3, NoneApart DEF Legacy
  <2>5. ProcTypes' /\ DataTypes' /\ BackupTypes'
    BY <1>1, <1>19, <2>4 DEF ServeLegacy, bounds, ProcTypes, DataTypes, BackupTypes
  <2>6. DbThere'
    BY <1>1, <1>19, <2>4 DEF ServeLegacy, DbThere, At, Running
  <2> QED BY <2>5, <2>6 DEF TypeInv
<1>20. ASSUME NEW p \in Requests, SaveSettings(p) PROVE TypeInv'
  <2>1. /\ Goto(p, "off") /\ file' \in Config /\ saves' \in 0 .. MaxSaves
        /\ overtaken' \in BOOLEAN
        /\ UNCHANGED <<db, backups, legacy, external, unit, before, early, cut>>
    BY <1>1, <1>20, SaveEffect
  <2>2. ProcTypes' /\ proc'[p].pc = "off" /\ \A q \in Processes : q # p => proc'[q] = proc[q]
    BY <1>1, <1>2, <2>1, GotoEffect, Members
  <2>3. DataTypes' /\ BackupTypes'
    BY <1>1, <2>1 DEF DataTypes, BackupTypes
  <2> QED BY <1>3, <2>1, <2>2, <2>3, Members
<1>21. CASE UNCHANGED vars
  BY <1>1, <1>21 DEF vars, data, bounds, TypeInv, ProcTypes, DataTypes, BackupTypes, DbThere, At,
     Running
<1> QED BY <1>4, <1>5, <1>7, <1>8, <1>10, <1>11, <1>12, <1>13, <1>14, <1>15, <1>16, <1>17, <1>18,
           <1>19, <1>20, <1>21 DEF Next, Initialize

-----------------------------------------------------------------------------
(* The statistics, from the moment the service is stopped.                 *)

InstallerFirst ==
    legacy # None /\ (external \/ ~At(Installer, "off")) => before # None

(* Who goes on to init_db.py has marked the directory.                     *)
Early == {"off", "begin", "copy", "mark"}

Marked == proc[Installer].pc \notin Early => external

(* The data of an early version stay where they are.                       *)
LegacyOld == legacy # None => legacy.db.version < SchemaVersion

Untouched == legacy # None /\ before # None => legacy.db = before

(* Data that are not to be copied grow, whoever opens them.                *)
HereKept == legacy = None /\ before # None => Keeps(before)

(* Before the mark there is no copy, or a whole one nobody has opened.     *)
NotYet ==
    ~early /\ ~cut /\ legacy # None /\ ~external =>
        /\ db \in {None, legacy.db} /\ (before = None => db = None)
        /\ \A p \in Processes : ~At(p, "migrate")

Moved == ~early /\ ~cut /\ legacy # None /\ external => Keeps(before)

NoOther == before # None => ~At(Service, "other")

(* Nobody but the installer has read the version of an old database.       *)
Old(d) == 0 < d.version /\ d.version < SchemaVersion

OldUnopened ==
    ~early /\ db # None /\ Old(db) => \A p \in Processes : At(p, "migrate") => p = Installer

Waiting ==
    /\ db = before /\ ~At(Installer, "ready")
    /\ At(Installer, "open") \/ At(Installer, "migrate") =>
         Len(backups) > 0 /\ backups[1] = before
    /\ At(Installer, "migrate") => proc[Installer].seen = before.version

Done ==
    /\ db # None /\ ~(db.version < SchemaVersion)
    /\ before \in ToSet(backups)
    /\ \A s \in before.counted : db.history[s] # None

WaitingOrDone ==
    ~early /\ ~cut /\ before # None /\ Old(before) /\ (legacy = None \/ external)
      => Waiting \/ Done

UpgradeInv ==
    /\ InstallerFirst /\ Marked /\ LegacyOld /\ Untouched /\ HereKept
    /\ NotYet /\ Moved /\ NoOther /\ OldUnopened /\ WaitingOrDone

LEMMA UpgradeFrame ==
    ASSUME TypeInv, UpgradeInv,
           UNCHANGED <<db, backups, legacy, external, before, early, cut>>,
           \A q \in Processes :
              \/ proc'[q] = proc[q]
              \/ /\ proc'[q].pc \notin {"migrate", "other"}
                 /\ q = Installer => /\ proc'[q].pc \notin {"open", "ready"}
                                     /\ proc'[q].pc # "off" => ~At(q, "off")
                                     /\ proc'[q].pc \notin Early => proc[q].pc \notin Early
    PROVE  UpgradeInv'
<1>1. InstallerFirst' /\ Marked' /\ LegacyOld' /\ Untouched' /\ NoOther'
  BY Members DEF UpgradeInv, InstallerFirst, Marked, LegacyOld, Untouched, NoOther, At
<1>2. NotYet' /\ OldUnopened'
  BY Members DEF UpgradeInv, NotYet, OldUnopened, At, Old
<1>3. HereKept' /\ Moved'
  BY DEF UpgradeInv, HereKept, Moved, Keeps
<1>4. Waiting => Waiting'
  BY Members DEF Waiting, At
<1>5. Done => Done'
  BY DEF Done
<1>6. WaitingOrDone'
  BY <1>4, <1>5 DEF UpgradeInv, WaitingOrDone, Old
<1> QED BY <1>1, <1>2, <1>3, <1>6 DEF UpgradeInv

LEMMA UpgradeStop ==
    ASSUME TypeInv, UpgradeInv, StopService PROVE UpgradeInv'
<1>1. ProcTypes /\ DataTypes /\ BackupTypes /\ DbThere
  BY DEF TypeInv
<1>2. /\ proc'[Service].pc = "off" /\ proc'[Installer].pc = "begin" /\ At(Installer, "off")
      /\ \A q \in Processes : q \notin {Service, Installer} => proc'[q] = proc[q]
      /\ UNCHANGED <<db, backups, legacy, external, early, cut>>
      /\ before' = IF before = None THEN Statistics ELSE before
  BY <1>1, StoppedEffect
<1>3. /\ InstallerFirst /\ Marked /\ LegacyOld /\ Untouched /\ HereKept
      /\ NotYet /\ Moved /\ NoOther /\ OldUnopened /\ WaitingOrDone
  BY DEF UpgradeInv
<1>4. legacy # None => legacy.db # None
  BY <1>1, NoneApart DEF DataTypes, Legacy
(* What is remembered is what is there.                                    *)
<1>5. /\ before = None /\ legacy # None => before' = legacy.db
      /\ before = None /\ legacy = None => before' = db
      /\ before # None => before' = before
  BY <1>2, <1>3 DEF Statistics, InstallerFirst
<1>6. InstallerFirst' /\ Marked' /\ LegacyOld' /\ Untouched' /\ NoOther'
  BY <1>2, <1>3, <1>4, <1>5
  DEF InstallerFirst, Marked, Early, LegacyOld, Untouched, NoOther, At
<1>7. HereKept'
  <2>1. ASSUME legacy = None, before = None, db # None PROVE Keeps(db)'
    BY <1>2, <2>1 DEF Keeps
  <2> QED BY <1>2, <1>3, <1>5, <2>1 DEF HereKept, Keeps
<1>8. NotYet' /\ OldUnopened'
  BY <1>2, <1>3, Members DEF NotYet, OldUnopened, At, Old
<1>9. Moved'
  BY <1>2, <1>3, <1>5 DEF Moved, InstallerFirst, Keeps
<1>10. WaitingOrDone'
  <2> SUFFICES ASSUME ~early, ~cut, before' # None, Old(before'), legacy = None \/ external
               PROVE  Waiting' \/ Done'
    BY <1>2 DEF WaitingOrDone, Old
  <2>1. CASE before = None
    <3>1. before' = db'
      BY <1>2, <1>3, <1>5, <2>1 DEF InstallerFirst
    <3> QED BY <1>2, <3>1 DEF Waiting, At
  <2>2. CASE before # None
    <3>1. before' = before /\ (Waiting \/ Done)
      BY <1>3, <1>5, <2>2 DEF WaitingOrDone
    <3>2. Waiting => Waiting'
      BY <1>2, <3>1 DEF Waiting, At
    <3>3. Done => Done'
      BY <1>2, <3>1 DEF Done
    <3> QED BY <3>1, <3>2, <3>3
  <2> QED BY <2>1, <2>2
<1> QED BY <1>6, <1>7, <1>8, <1>9, <1>10 DEF UpgradeInv

LEMMA UpgradeCopy ==
    ASSUME TypeInv, UpgradeInv, CopyStatistics PROVE UpgradeInv'
<1>1. ProcTypes /\ DataTypes /\ BackupTypes /\ DbThere
  BY DEF TypeInv
<1>2. /\ At(Installer, "copy") /\ legacy # None /\ db = None
      /\ (cut => cut') /\ (~cut' => db' = legacy.db)
      /\ UNCHANGED <<backups, legacy, external, proc, before, early>>
  BY <1>1, CopyEffect
<1>3. /\ InstallerFirst /\ Marked /\ LegacyOld /\ Untouched /\ HereKept
      /\ NotYet /\ Moved /\ NoOther /\ OldUnopened /\ WaitingOrDone
  BY DEF UpgradeInv
<1>4. \A p \in Processes : ~At(p, "migrate")
  BY <1>1, <1>2 DEF DbThere
<1>5. InstallerFirst' /\ Marked' /\ LegacyOld' /\ Untouched' /\ HereKept' /\ NoOther'
  BY <1>2, <1>3 DEF InstallerFirst, Marked, LegacyOld, Untouched, HereKept, NoOther, At
<1>6. NotYet' /\ OldUnopened'
  BY <1>2, <1>3, <1>4 DEF NotYet, OldUnopened, InstallerFirst, At
(* If the directory had been marked, there would be nothing to copy.       *)
<1>7. ASSUME ~early, ~cut, external PROVE FALSE
  BY <1>2, <1>3, <1>7 DEF Moved, Keeps
<1>8. Moved' /\ WaitingOrDone'
  BY <1>2, <1>7 DEF Moved, WaitingOrDone
<1> QED BY <1>5, <1>6, <1>8 DEF UpgradeInv

LEMMA UpgradeMark ==
    ASSUME TypeInv, UpgradeInv, MarkExternal PROVE UpgradeInv'
<1>1. ProcTypes /\ DataTypes /\ BackupTypes /\ DbThere
  BY DEF TypeInv
<1>2. /\ At(Installer, "mark") \/ At(Installer, "copy")
      /\ proc'[Installer].pc = "load"
      /\ \A q \in Processes : q # Installer => proc'[q] = proc[q]
      /\ external' = TRUE
      /\ (cut => cut') /\ (~cut' => ~At(Installer, "copy") \/ db # None)
      /\ UNCHANGED <<db, backups, legacy, before, early>>
  BY <1>1, MarkEffect
<1>3. /\ InstallerFirst /\ Marked /\ LegacyOld /\ Untouched /\ HereKept
      /\ NotYet /\ Moved /\ NoOther /\ OldUnopened /\ WaitingOrDone
  BY DEF UpgradeInv
<1>4. InstallerFirst' /\ Marked' /\ LegacyOld' /\ Untouched' /\ NoOther'
  BY <1>2, <1>3, Members
  DEF InstallerFirst, Marked, Early, LegacyOld, Untouched, NoOther, At
<1>5. HereKept'
  BY <1>2, <1>3 DEF HereKept, Keeps
<1>6. NotYet' /\ OldUnopened'
  BY <1>2, <1>3, Members DEF NotYet, OldUnopened, At, Old
(* What has been copied is what was there.                                 *)
<1>7. ASSUME ~early, ~cut', legacy # None, ~external
      PROVE  db = before /\ before # None
  <2>1. before # None /\ legacy.db = before /\ db \in {None, legacy.db}
    BY <1>2, <1>3, <1>7 DEF InstallerFirst, Untouched, NotYet, At
  <2>2. db # None
    BY <1>1, <1>2, <1>7 DEF DbThere
  <2> QED BY <2>1, <2>2
<1>8. Moved'
  <2> SUFFICES ASSUME ~early, ~cut', legacy # None PROVE Keeps(before)'
    BY <1>2 DEF Moved
  <2>1. CASE external
    BY <1>2, <1>3, <2>1 DEF Moved, Keeps
  <2>2. CASE ~external
    BY <1>2, <1>7, <2>2 DEF Keeps
  <2> QED BY <2>1, <2>2
<1>9. WaitingOrDone'
  <2> SUFFICES ASSUME ~early, ~cut', before # None, Old(before) PROVE Waiting' \/ Done'
    BY <1>2 DEF WaitingOrDone, Old
  <2>1. CASE legacy # None /\ ~external
    <3>1. db' = before'
      BY <1>2, <1>7, <2>1
    <3> QED BY <1>2, <3>1 DEF Waiting, At
  <2>2. CASE legacy = None \/ external
    <3>1. Waiting \/ Done
      BY <1>2, <1>3, <2>2 DEF WaitingOrDone
    <3>2. Waiting => Waiting'
      BY <1>2 DEF Waiting, At
    <3>3. Done => Done'
      BY <1>2 DEF Done
    <3> QED BY <3>1, <3>2, <3>3
  <2> QED BY <2>1, <2>2
<1> QED BY <1>4, <1>5, <1>6, <1>8, <1>9 DEF UpgradeInv

LEMMA UpgradeStep ==
    ASSUME TypeInv, UpgradeInv, [Next]_vars PROVE UpgradeInv'
<1>1. ProcTypes /\ DataTypes /\ BackupTypes /\ DbThere
  BY DEF TypeInv
<1>2. {"off", "begin", "copy", "mark", "load", "store", "backup", "open", "migrate", "ready",
       "restore"} \subseteq Stages
  BY DEF Stages
<1>3. /\ InstallerFirst /\ Marked /\ LegacyOld /\ Untouched /\ HereKept
      /\ NotYet /\ Moved /\ NoOther /\ OldUnopened /\ WaitingOrDone
  BY DEF UpgradeInv
<1>4. CASE Update
  <2>1. CASE LookForData
    <3>1. /\ UNCHANGED <<db, backups, legacy, external, before, early, cut>>
          /\ At(Installer, "begin") /\ proc'[Installer].pc \in {"copy", "mark"}
          /\ \A q \in Processes : q # Installer => proc'[q] = proc[q]
      BY <1>1, <2>1, LookEffect
    <3> QED BY <3>1, UpgradeFrame DEF At, Early
  <2>2. CASE CopyConfig
    BY <1>1, <2>2, CopyConfigEffect, UpgradeFrame
  <2> QED BY <1>4, <2>1, <2>2, UpgradeStop, UpgradeCopy, UpgradeMark DEF Update
<1>5. CASE Backup
  <2>1. /\ At(Installer, "backup") /\ BackupTypes'
        /\ UNCHANGED <<db, legacy, external, before, early, cut>>
        /\ db # None /\ db.version < SchemaVersion => Len(backups') > 0 /\ backups'[1] = db
        /\ db # None /\ ~(db.version < SchemaVersion) => backups' = backups
        /\ proc'[Installer].pc = "open"
        /\ \A q \in Processes : q # Installer => proc'[q] = proc[q]
    BY <1>1, <1>2, <1>5, BackupEffect, GotoEffect, Members
  <2>2. /\ InstallerFirst' /\ Marked' /\ LegacyOld' /\ Untouched' /\ NotYet'
        /\ NoOther' /\ OldUnopened'
    BY <1>3, <2>1, Members DEF InstallerFirst, Marked, Early, LegacyOld, Untouched, NotYet,
       NoOther, OldUnopened, At, Old
  <2>3. HereKept' /\ Moved'
    BY <1>3, <2>1 DEF HereKept, Moved, Keeps
  <2>4. Waiting /\ before # None /\ Old(before) => Waiting'
    BY <2>1 DEF Waiting, At, Old
  <2>5. Done => Done'
    BY <2>1 DEF Done
  <2>6. WaitingOrDone'
    BY <1>3, <2>1, <2>4, <2>5 DEF WaitingOrDone, Old
  <2> QED BY <2>2, <2>3, <2>6 DEF UpgradeInv
<1>6. ASSUME NEW p \in Processes, Open(p) PROVE UpgradeInv'
  <2>1. /\ At(p, "open") /\ db' = Stored
        /\ UNCHANGED <<backups, legacy, external, before, cut>>
        /\ early' = (early \/ /\ p # Installer /\ Stored.version < SchemaVersion
                              /\ legacy # None \/ db # None)
        /\ proc'[p].pc = IF Readable(Stored.version) THEN "migrate" ELSE Refused(p)
        /\ Readable(Stored.version) => proc'[p].seen = Stored.version
        /\ \A q \in Processes : q # p => proc'[q] = proc[q]
    BY <1>1, <1>6, OpenEffect
  <2>2. /\ Stored \in Database /\ Stored.version \in Nat /\ db' # None
        /\ db # None => db' = db
        /\ db = None => db'.version = 0
    BY <1>1, <2>1, StoredType, EmptyType, NoneApart DEF Stored, Database
  <2>3. p = Installer => external /\ proc'[p].pc \in {"migrate", "off"}
    BY <1>3, <2>1, Members DEF Marked, Early, At, Refused
  <2>4. proc'[p].pc \notin {"open", "other"}
    BY <2>1 DEF Refused
  <2>5. InstallerFirst' /\ Marked' /\ LegacyOld' /\ Untouched' /\ NoOther'
    BY <1>3, <2>1, <2>3, <2>4, Members
    DEF InstallerFirst, Marked, Early, LegacyOld, Untouched, NoOther, At
  <2>6. NotYet'
    <3> SUFFICES ASSUME ~early', ~cut, legacy # None, ~external PROVE FALSE
      BY <2>1 DEF NotYet
    <3>1. ~early
      BY <2>1
    <3>2. db \in {None, legacy.db} /\ p # Installer
      BY <1>3, <2>3, <3>1 DEF NotYet
    <3>3. Stored.version < SchemaVersion
      BY <1>3, <2>1, <2>2, <3>2, DataDirectoryAssumption DEF LegacyOld, Stored
    <3> QED BY <2>1, <3>2, <3>3
  <2>7. HereKept' /\ Moved'
    BY <1>3, <2>1, <2>2 DEF HereKept, Moved, Keeps
  <2>8. OldUnopened'
    <3> SUFFICES ASSUME ~early', Old(db'), NEW q \in Processes, At(q, "migrate")'
                 PROVE  q = Installer
      BY DEF OldUnopened, Old, At
    <3>1. ~early /\ db'.version # 0
      <4>1. ~early
        BY <2>1
      <4>2. db'.version # 0
        BY DEF Old
      <4> QED BY <4>1, <4>2
    <3>2. db # None /\ Stored = db /\ Old(db)
      BY <2>1, <2>2, <3>1 DEF Old
    <3>3. p = Installer
      BY <2>1, <3>2 DEF Old
    <3>4. q # p => At(q, "migrate")
      BY <2>1 DEF At
    <3> QED BY <1>3, <3>1, <3>2, <3>3, <3>4 DEF OldUnopened
  <2>9. ASSUME ~early', ~cut, before # None, Old(before), legacy = None \/ external
        PROVE  Waiting' \/ Done'
    <3>1. Waiting \/ Done
      BY <1>3, <2>1, <2>9 DEF WaitingOrDone
    <3>2. db' = db
      BY <2>2, <2>9, <3>1 DEF Waiting, Done
    <3>3. Done => Done'
      BY <2>1, <3>2 DEF Done
    <3>4. ASSUME Waiting PROVE Waiting'
      <4>1. Readable(db.version) /\ Stored = db
        BY <2>1, <2>2, <2>9, <3>2, <3>4, DataDirectoryAssumption DEF Waiting, Old, Readable, Stored
      <4>2. CASE p = Installer
        BY <2>1, <3>2, <3>4, <4>1, <4>2 DEF Waiting, At
      <4>3. CASE p # Installer
        BY <2>1, <3>2, <3>4, <4>3, Members DEF Waiting, At
      <4> QED BY <4>2, <4>3
    <3> QED BY <3>1, <3>3, <3>4
  <2>10. WaitingOrDone'
    BY <2>1, <2>9 DEF WaitingOrDone, Old
  <2> QED BY <2>5, <2>6, <2>7, <2>8, <2>10 DEF UpgradeInv
<1>7. ASSUME NEW p \in Processes, Migrate(p) PROVE UpgradeInv'
  <2>1. /\ At(p, "migrate") /\ db' = Upgraded(db, proc[p].seen)
        /\ UNCHANGED <<file, backups, legacy, external, unit, saves, before, early, cut>>
        /\ proc'[p].pc = "ready"
        /\ \A q \in Processes : q # p => proc'[q] = proc[q]
    BY <1>1, <1>7, MigrateEffect
  <2>2. db \in Database /\ db # None /\ proc[p].seen \in 0 .. SchemaVersion
    BY <1>1, <2>1 DEF DataTypes, DbThere, ProcTypes, ProcRecord
  <2>3. /\ db' \in Database /\ db' # None /\ Grows(db, db')
        /\ db'.version = SchemaVersion
        /\ 0 < proc[p].seen /\ proc[p].seen < SchemaVersion =>
             \A s \in db.counted : db'.history[s] # None
    BY <2>1, <2>2, UpgradedType, NoneApart
  <2>4. InstallerFirst' /\ Marked' /\ LegacyOld' /\ Untouched' /\ NotYet' /\ NoOther'
    BY <1>3, <2>1, Members
    DEF InstallerFirst, Marked, Early, LegacyOld, Untouched, NotYet, NoOther, At
  <2>5. HereKept' /\ Moved'
    BY <1>3, <2>1, <2>3, KeepsGrows DEF HereKept, Moved, Keeps
  <2>6. ~(SchemaVersion < SchemaVersion)
    BY DataDirectoryAssumption
  <2>7. OldUnopened'
    BY <2>3, <2>6 DEF OldUnopened, Old
  <2>8. ASSUME ~early, ~cut, before # None, Old(before), legacy = None \/ external PROVE Done'
    <3>1. Waiting \/ Done
      BY <1>3, <2>8 DEF WaitingOrDone
    <3>2. CASE Waiting
      <4>1. p = Installer
        BY <1>3, <2>1, <2>2, <2>8, <3>2 DEF OldUnopened, Waiting
      <4>2. backups \in Seq(Database) /\ Len(backups) > 0 /\ backups[1] = before
            /\ proc[p].seen = before.version
        BY <1>1, <2>1, <3>2, <4>1 DEF Waiting, BackupTypes
      <4>3. 1 \in DOMAIN backups
        BY <4>2
      <4>4. before \in ToSet(backups)
        BY <4>2, <4>3 DEF ToSet
      <4>5. \A s \in before.counted : db'.history[s] # None
        BY <2>3, <2>8, <3>2, <4>2 DEF Waiting, Old
      <4> QED BY <2>1, <2>3, <2>6, <4>4, <4>5 DEF Done
    <3>3. CASE Done
      <4>1. before.counted \subseteq Sites
        BY <1>1, <2>8 DEF DataTypes, Database
      <4> QED BY <2>1, <2>3, <2>6, <3>3, <4>1 DEF Done, Grows
    <3> QED BY <3>1, <3>2, <3>3
  <2>9. WaitingOrDone'
    BY <2>1, <2>8 DEF WaitingOrDone, Old
  <2> QED BY <2>4, <2>5, <2>7, <2>9 DEF UpgradeInv
<1>8. CASE ServeHere
  <2>1. UNCHANGED <<backups, legacy, external, proc, before, early, cut>>
    BY <1>8 DEF ServeHere
  <2>2. db \in Database /\ db # None
    BY <1>1, <1>8 DEF ServeHere, DataTypes, DbThere, At, Running
  <2>3. db' # None /\ db'.version = db.version /\ Grows(db, db')
    BY <1>8, <2>2, ServeType, NoneApart DEF ServeHere
  <2>4. InstallerFirst' /\ Marked' /\ LegacyOld' /\ Untouched' /\ NoOther' /\ OldUnopened'
    BY <1>3, <2>1, <2>2, <2>3
    DEF InstallerFirst, Marked, LegacyOld, Untouched, NoOther, OldUnopened, At, Old
  <2>5. HereKept' /\ Moved'
    BY <1>3, <2>1, <2>3, KeepsGrows DEF HereKept, Moved, Keeps
  <2>8. NotYet'
    <3> SUFFICES ASSUME ~early, ~cut, legacy # None, ~external PROVE FALSE
      BY <2>1 DEF NotYet
    <3>1. db = legacy.db /\ db.version < SchemaVersion
      BY <1>3, <2>2 DEF NotYet, LegacyOld
    <3>2. db.version = SchemaVersion
      BY <1>1, <1>8 DEF ServeHere, DbThere, Running, At
    <3> QED BY <3>1, <3>2, DataDirectoryAssumption
  <2>6. ASSUME ~early, ~cut, before # None, Old(before), legacy = None \/ external PROVE Done'
    <3>1. ~Waiting
      <4>1. db.version = SchemaVersion
        BY <1>1, <1>3, <1>8, <2>6 DEF ServeHere, NoOther, DbThere, Running, At
      <4> QED BY <2>6, <4>1, DataDirectoryAssumption DEF Waiting, Old
    <3>2. Done /\ before.counted \subseteq Sites
      BY <1>1, <1>3, <2>6, <3>1 DEF WaitingOrDone, DataTypes, Database
    <3> QED BY <2>1, <2>3, <3>2 DEF Done, Grows
  <2>7. WaitingOrDone'
    BY <2>1, <2>6 DEF WaitingOrDone, Old
  <2> QED BY <2>4, <2>5, <2>7, <2>8 DEF UpgradeInv
<1>9. CASE ServeLegacy
  <2>1. PICK d \in Serve(legacy.db) : legacy' = [legacy EXCEPT !.db = d]
    BY <1>9 DEF ServeLegacy
  <2>2. /\ UNCHANGED <<db, backups, external, proc, before, early, cut>>
        /\ before = None /\ legacy \in Legacy /\ legacy # None
    BY <1>1, <1>3, <1>9 DEF ServeLegacy, NoOther, DataTypes
  <2>3. legacy.db \in Database /\ d.version = legacy.db.version
    BY <2>2, ServeType DEF Legacy
  <2>4. legacy'.db.version = legacy.db.version /\ legacy' # None
    <3>1. d \in Database
      BY <2>3, ServeType
    <3>2. legacy'.db = d /\ legacy' \in Legacy
      BY <2>1, <2>2, <3>1 DEF Legacy
    <3> QED BY <2>3, <3>2, NoneApart
  <2>5. LegacyOld' /\ InstallerFirst' /\ Marked' /\ NoOther' /\ OldUnopened'
    BY <1>3, <2>2, <2>4 DEF LegacyOld, InstallerFirst, Marked, NoOther, OldUnopened, At, Old
  <2>6. NotYet'
    BY <1>3, <2>2 DEF NotYet, At
  <2>7. Untouched' /\ HereKept' /\ Moved' /\ WaitingOrDone'
    BY <1>3, <2>2, <2>4 DEF Untouched, HereKept, Moved, InstallerFirst, WaitingOrDone
  <2> QED BY <2>5, <2>6, <2>7 DEF UpgradeInv
<1>10. ASSUME NEW p \in Processes, NEW stage \in {"off", "load"}, Goto(p, stage),
              p = Installer => stage = "off",
              UNCHANGED <<db, backups, legacy, external, before, early, cut>>
       PROVE  UpgradeInv'
  <2>1. /\ proc'[p].pc = stage
        /\ \A q \in Processes : q # p => proc'[q] = proc[q]
    BY <1>1, <1>2, <1>10, GotoEffect
  <2> QED BY <1>10, <2>1, UpgradeFrame, Members DEF Early
<1>11. CASE StartService
  BY <1>10, <1>11, Members DEF StartService, data, bounds
<1>12. ASSUME NEW p \in Requests, Request(p) \/ Answer(p) PROVE UpgradeInv'
  BY <1>10, <1>12, Members DEF Request, Answer, data, bounds
<1>13. ASSUME NEW p \in Processes, Crash(p) PROVE UpgradeInv'
  BY <1>10, <1>13 DEF Crash, data
<1>14. ASSUME NEW p \in Requests, SaveSettings(p) PROVE UpgradeInv'
  BY <1>1, <1>10, <1>14, SaveEffect, Members
<1>15. ASSUME NEW others \in SUBSET Processes, Restarted(others),
              UNCHANGED <<db, backups, legacy, external, before, early, cut>>
       PROVE  UpgradeInv'
  <2>1. \A q \in Processes : proc'[q] = proc[q] \/ proc'[q].pc = "off"
                             \/ (q = Service /\ proc'[q].pc = "load")
    BY <1>1, <1>15, RestartedEffect
  <2> QED BY <1>15, <2>1, UpgradeFrame, Members DEF Early
<1>16. CASE InstallService
  BY <1>15, <1>16, Members DEF InstallService, data, bounds
<1>17. ASSUME NEW p \in Requests, RepairRealtime(p) PROVE UpgradeInv'
  BY <1>15, <1>17, Members DEF RepairRealtime, data, bounds
<1>18. ASSUME NEW p \in Processes, LoadConfig(p) PROVE UpgradeInv'
  <2>1. AfterLoad(p) = IF p = Installer THEN "backup" ELSE "open"
    BY DEF AfterLoad
  <2>2. CASE Load(p, "load", AfterLoad(p), "store")
    <3>1. /\ UNCHANGED <<db, backups, legacy, external, before, early, cut>> /\ At(p, "load")
          /\ proc'[p].pc \in {AfterLoad(p), "store"}
          /\ \A q \in Processes : q # p => proc'[q] = proc[q]
      BY <1>1, <1>2, <2>1, <2>2, LoadEffect
    <3> QED BY <2>1, <3>1, UpgradeFrame DEF At, Early
  <2>3. CASE Store(p, "store", AfterLoad(p))
    <3>1. /\ UNCHANGED <<db, backups, legacy, external, before, early, cut>> /\ At(p, "store")
          /\ proc'[p].pc = AfterLoad(p)
          /\ \A q \in Processes : q # p => proc'[q] = proc[q]
      BY <1>1, <1>2, <2>1, <2>3, StoreEffect
    <3> QED BY <2>1, <3>1, UpgradeFrame DEF At, Early
  <2> QED BY <1>18, <2>2, <2>3 DEF LoadConfig
<1>19. CASE Reload \/ StoreReloaded
  <2>1. /\ UNCHANGED <<db, backups, legacy, external, before, early, cut>>
        /\ proc'[Service].pc \in {"ready", "restore"}
        /\ \A q \in Processes : q # Service => proc'[q] = proc[q]
    <3>1. CASE Reload
      BY <1>1, <1>2, <3>1, LoadEffect, Members DEF Reload
    <3>2. CASE StoreReloaded
      BY <1>1, <1>2, <3>2, StoreEffect, Members DEF StoreReloaded
    <3> QED BY <1>19, <3>1, <3>2
  <2> QED BY <2>1, UpgradeFrame, Members
<1>20. CASE UNCHANGED vars
  BY <1>20, UpgradeFrame DEF vars, data
<1> QED BY <1>4, <1>5, <1>6, <1>7, <1>8, <1>9, <1>11, <1>12, <1>13, <1>14, <1>16, <1>17, <1>18,
           <1>19, <1>20 DEF Next, Initialize

-----------------------------------------------------------------------------
(* No settings anywhere are later than the last save.                      *)
ChoicesSaved ==
    /\ file # None => file.choice <= saves
    /\ legacy # None => legacy.file.choice <= saves
    /\ \A p \in Processes : proc[p].cfg.choice <= saves

LEMMA OutChoice == \A stage : Out(stage).cfg.choice = 0
  BY DEF Out, Defaults

LEMMA ChoiceStep ==
    ASSUME TypeInv, ChoicesSaved, [Next]_vars PROVE ChoicesSaved'
<1>1. ProcTypes /\ DataTypes /\ BackupTypes /\ DbThere
  BY DEF TypeInv
<1>2. {"off", "begin", "copy", "mark", "load", "store", "backup", "open", "migrate", "ready",
       "restore"} \subseteq Stages
  BY DEF Stages
<1>3. saves \in Nat /\ 0 <= saves
  BY <1>1 DEF DataTypes
<1>4. ASSUME UNCHANGED <<file, legacy, saves>>,
             \A q \in Processes : \/ proc'[q].cfg = proc[q].cfg
                                  \/ \E stage : proc'[q] = Out(stage)
      PROVE  ChoicesSaved'
  BY <1>3, <1>4, OutChoice DEF ChoicesSaved
<1>5. CASE Update
  <2>1. CASE StopService
    <3>1. /\ UNCHANGED <<file, legacy, saves>>
          /\ proc'[Service] = Out("off") /\ proc'[Installer] = Out("begin")
          /\ \A q \in Processes : q \notin {Service, Installer} => proc'[q] = proc[q]
      BY <1>1, <2>1, StoppedEffect
    <3> QED BY <1>4, <3>1
  <2>2. CASE LookForData
    BY <1>1, <1>4, <2>2, LookEffect
  <2>3. CASE CopyStatistics
    BY <1>1, <1>4, <2>3, CopyEffect
  <2>4. CASE CopyConfig
    BY <1>1, <1>3, <2>4, CopyConfigEffect DEF ChoicesSaved, Defaults
  <2>5. CASE MarkExternal
    BY <1>1, <1>4, <2>5, MarkEffect
  <2> QED BY <1>5, <2>1, <2>2, <2>3, <2>4, <2>5 DEF Update
<1>6. ASSUME NEW p \in Processes, NEW stage \in Stages, Goto(p, stage),
             UNCHANGED <<file, legacy, saves>>
      PROVE  ChoicesSaved'
  <2>1. stage # "off" => proc'[p].cfg = proc[p].cfg
    BY <1>1, <1>6, GotoEffect
  <2>2. stage = "off" => proc'[p] = Out("off")
    BY <1>1, <1>6, GotoEffect
  <2>3. \A q \in Processes : q # p => proc'[q] = proc[q]
    BY <1>1, <1>6, GotoEffect
  <2> QED BY <1>4, <1>6, <2>1, <2>2, <2>3
<1>7. CASE Backup
  BY <1>1, <1>2, <1>6, <1>7, BackupEffect, Members
<1>8. CASE StartService
  BY <1>2, <1>6, <1>8, Members DEF StartService, data, bounds
<1>9. ASSUME NEW p \in Requests, Request(p) \/ Answer(p) PROVE ChoicesSaved'
  BY <1>2, <1>6, <1>9, Members DEF Request, Answer, data, bounds
<1>10. ASSUME NEW p \in Processes, Crash(p) PROVE ChoicesSaved'
  BY <1>2, <1>6, <1>10 DEF Crash, data
<1>11. ASSUME NEW others \in SUBSET Processes, Restarted(others), UNCHANGED <<file, legacy, saves>>
       PROVE  ChoicesSaved'
  BY <1>1, <1>4, <1>11, RestartedEffect
<1>12. CASE InstallService
  BY <1>11, <1>12, Members DEF InstallService, data, bounds
<1>13. ASSUME NEW p \in Requests, RepairRealtime(p) PROVE ChoicesSaved'
  BY <1>11, <1>13, Members DEF RepairRealtime, data, bounds
<1>14. ASSUME NEW p \in Processes, NEW from \in Stages, NEW to \in Stages, NEW store \in Stages,
              Load(p, from, to, store)
       PROVE  ChoicesSaved'
  <2>1. /\ UNCHANGED <<file, legacy, saves>> /\ proc'[p].cfg = Loaded(p)
        /\ \A q \in Processes : q # p => proc'[q] = proc[q]
    BY <1>1, <1>14, LoadEffect
  <2>2. Loaded(p).choice <= saves
    BY <1>1, <1>3, LoadedType DEF ChoicesSaved
  <2> QED BY <2>1, <2>2 DEF ChoicesSaved
<1>15. ASSUME NEW p \in Processes, NEW from \in Stages, NEW to \in Stages \ {"off"},
              Store(p, from, to)
       PROVE  ChoicesSaved'
  <2>1. /\ file' = proc[p].cfg /\ UNCHANGED <<legacy, saves>> /\ proc'[p].cfg = proc[p].cfg
        /\ \A q \in Processes : q # p => proc'[q] = proc[q]
    BY <1>1, <1>15, StoreEffect
  <2> QED BY <2>1 DEF ChoicesSaved
<1>16. ASSUME NEW p \in Processes, LoadConfig(p) PROVE ChoicesSaved'
  <2>1. AfterLoad(p) \in Stages \ {"off"} /\ "load" \in Stages /\ "store" \in Stages
    BY <1>2 DEF AfterLoad
  <2> QED BY <1>14, <1>15, <1>16, <2>1 DEF LoadConfig
<1>17. CASE Reload
  BY <1>2, <1>14, <1>17, Members DEF Reload
<1>18. CASE StoreReloaded
  BY <1>2, <1>15, <1>18, Members DEF StoreReloaded
<1>19. ASSUME NEW p \in Processes, Open(p) PROVE ChoicesSaved'
  <2>1. CASE Readable(Stored.version)
    <3>1. UNCHANGED <<file, legacy, saves>>
      BY <1>19 DEF Open, bounds
    <3>2. proc'[p].cfg = proc[p].cfg /\ \A q \in Processes : q # p => proc'[q] = proc[q]
      BY <1>1, <1>19, <2>1, OpenEffect
    <3> QED BY <1>4, <3>1, <3>2
  <2>2. CASE ~Readable(Stored.version)
    BY <1>2, <1>6, <1>19, <2>2 DEF Open, Refused, bounds
  <2> QED BY <2>1, <2>2
<1>20. ASSUME NEW p \in Processes, Migrate(p) PROVE ChoicesSaved'
  BY <1>1, <1>4, <1>20, MigrateEffect
<1>21. CASE ServeHere
  BY <1>4, <1>21 DEF ServeHere, bounds
<1>22. CASE ServeLegacy
  <2>1. PICK d : legacy' = [legacy EXCEPT !.db = d]
    BY <1>22 DEF ServeLegacy
  <2>2. legacy \in Legacy /\ UNCHANGED <<file, saves, proc>>
    BY <1>1, <1>22 DEF ServeLegacy, DataTypes, bounds
  <2>3. legacy'.file = legacy.file /\ legacy # None
    BY <1>22, <2>1, <2>2 DEF Legacy, ServeLegacy
  <2> QED BY <2>2, <2>3 DEF ChoicesSaved
<1>23. ASSUME NEW p \in Requests, SaveSettings(p) PROVE ChoicesSaved'
  <2>1. /\ Goto(p, "off") /\ saves' = saves + 1 /\ file'.choice = saves' /\ legacy' = legacy
    BY <1>1, <1>23, SaveEffect
  <2>2. proc'[p] = Out("off") /\ \A q \in Processes : q # p => proc'[q] = proc[q]
    BY <1>1, <1>2, <2>1, GotoEffect, Members
  <2>3. \A n \in Nat : n <= saves => n <= saves'
    BY <1>3, <2>1
  <2>4. saves' <= saves' /\ 0 <= saves'
    BY <1>3, <2>1
  <2>5. legacy # None => legacy.file.choice \in Nat
    BY <1>1 DEF DataTypes, Legacy, Config
  <2>6. \A q \in Processes : proc[q].cfg.choice \in Nat
    BY <1>1 DEF ProcTypes, ProcRecord, Config
  <2>7. legacy' # None => legacy'.file.choice <= saves'
    BY <2>1, <2>3, <2>5 DEF ChoicesSaved
  <2>8. \A q \in Processes : proc'[q].cfg.choice <= saves'
    BY <2>2, <2>3, <2>4, <2>6, OutChoice DEF ChoicesSaved
  <2> QED BY <2>1, <2>4, <2>7, <2>8 DEF ChoicesSaved
<1>24. CASE UNCHANGED vars
  BY <1>4, <1>24 DEF vars, data, bounds
<1> QED BY <1>5, <1>7, <1>8, <1>9, <1>10, <1>12, <1>13, <1>16, <1>17, <1>18, <1>19, <1>20, <1>21,
           <1>22, <1>23, <1>24 DEF Next, Initialize

-----------------------------------------------------------------------------
(* The file holds the last save, unless that was overtaken.                *)
Written == IF file = None THEN 0 ELSE file.choice

LastChoice ==
    ~overtaken => /\ Written = saves
                  /\ \A p \in Pending : proc[p].cfg.choice = saves

LEMMA LastChoiceFrame ==
    ASSUME LastChoice, UNCHANGED <<saves, overtaken>>, ~overtaken => Written' = saves,
           \A q \in Processes : proc'[q] = proc[q] \/ proc'[q].pc \notin {"store", "restore"}
    PROVE  LastChoice'
  BY DEF LastChoice, Pending, At

LEMMA LastChoiceStep ==
    ASSUME TypeInv, ChoicesSaved, LastChoice, [Next]_vars PROVE LastChoice'
<1>1. ProcTypes /\ DataTypes /\ BackupTypes /\ DbThere
  BY DEF TypeInv
<1>2. {"off", "begin", "copy", "mark", "load", "store", "backup", "open", "migrate", "ready",
       "restore"} \subseteq Stages
  BY DEF Stages
<1>3. ASSUME UNCHANGED <<file, saves, overtaken>>,
             \A q \in Processes : proc'[q] = proc[q] \/ proc'[q].pc \notin {"store", "restore"}
      PROVE  LastChoice'
  BY <1>3, LastChoiceFrame DEF LastChoice, Written
<1>4. CASE Update
  <2>1. CASE StopService
    BY <1>1, <1>3, <2>1, StoppedEffect
  <2>2. CASE LookForData
    <3>1. /\ UNCHANGED <<file, saves, overtaken>> /\ proc'[Installer].pc \in {"copy", "mark"}
          /\ \A q \in Processes : q # Installer => proc'[q] = proc[q]
      BY <1>1, <2>2, LookEffect
    <3> QED BY <1>3, <3>1
  <2>3. CASE CopyStatistics
    BY <1>1, <1>3, <2>3, CopyEffect
  <2>4. CASE CopyConfig
    <3>1. /\ UNCHANGED <<saves, overtaken, proc>> /\ file = None /\ file' # None
          /\ file'.choice \in Nat /\ file'.choice <= saves /\ saves \in Nat
      BY <1>1, <2>4, CopyConfigEffect, NoneApart
      DEF ChoicesSaved, DataTypes, Config, Defaults
    <3>2. ~overtaken => saves = 0
      BY <3>1 DEF LastChoice, Written
    <3>3. ~overtaken => Written' = saves
      BY <3>1, <3>2 DEF Written
    <3> QED BY <3>1, <3>3, LastChoiceFrame
  <2>5. CASE MarkExternal
    BY <1>1, <1>3, <2>5, MarkEffect
  <2> QED BY <1>4, <2>1, <2>2, <2>3, <2>4, <2>5 DEF Update
<1>5. ASSUME NEW p \in Processes, NEW stage \in Stages \ {"store", "restore"}, Goto(p, stage),
             UNCHANGED <<file, saves, overtaken>>
      PROVE  LastChoice'
  <2>1. proc'[p].pc = stage /\ \A q \in Processes : q # p => proc'[q] = proc[q]
    BY <1>1, <1>5, GotoEffect
  <2> QED BY <1>3, <1>5, <2>1
<1>6. CASE Backup
  BY <1>1, <1>2, <1>5, <1>6, BackupEffect, Members
<1>7. CASE StartService
  BY <1>2, <1>5, <1>7, Members DEF StartService, data, bounds
<1>8. ASSUME NEW p \in Requests, Request(p) \/ Answer(p) PROVE LastChoice'
  BY <1>2, <1>5, <1>8, Members DEF Request, Answer, data, bounds
<1>9. ASSUME NEW p \in Processes, Crash(p) PROVE LastChoice'
  BY <1>2, <1>5, <1>9 DEF Crash, data
<1>10. ASSUME NEW others \in SUBSET Processes, Restarted(others),
              UNCHANGED <<file, saves, overtaken>>
       PROVE  LastChoice'
  <2>1. \A q \in Processes : proc'[q] = proc[q] \/ proc'[q].pc \in {"off", "load"}
    BY <1>1, <1>10, RestartedEffect
  <2> QED BY <1>3, <1>10, <2>1
<1>11. CASE InstallService
  BY <1>10, <1>11, Members DEF InstallService, data, bounds
<1>12. ASSUME NEW p \in Requests, RepairRealtime(p) PROVE LastChoice'
  BY <1>10, <1>12, Members DEF RepairRealtime, data, bounds
<1>13. ASSUME NEW p \in Processes, NEW from \in Stages, NEW to \in Stages, NEW store \in Stages,
              Load(p, from, to, store)
       PROVE  LastChoice'
  <2>1. /\ UNCHANGED <<file, saves, overtaken>> /\ proc'[p].cfg = Loaded(p)
        /\ \A q \in Processes : q # p => proc'[q] = proc[q]
    BY <1>1, <1>13, LoadEffect
  <2>2. Loaded(p).choice = Written
    BY <1>1, LoadedType DEF Written
  <2> QED BY <2>1, <2>2 DEF LastChoice, Written, Pending, At
<1>14. ASSUME NEW p \in Processes, NEW from \in {"store", "restore"},
              NEW to \in Stages \ {"off", "store", "restore"}, Store(p, from, to)
       PROVE  LastChoice'
  <2>1. /\ At(p, from) /\ file' = proc[p].cfg /\ file' # None
        /\ UNCHANGED <<saves, overtaken>> /\ proc'[p].pc = to
        /\ \A q \in Processes : q # p => proc'[q] = proc[q]
    BY <1>1, <1>2, <1>14, StoreEffect, NoneApart
  <2>2. ~overtaken => Written' = saves
    BY <2>1 DEF LastChoice, Pending, At, Written
  <2> QED BY <2>1, <2>2, LastChoiceFrame
<1>15. ASSUME NEW p \in Processes, LoadConfig(p) PROVE LastChoice'
  <2>1. /\ AfterLoad(p) \in Stages \ {"off", "store", "restore"}
        /\ "load" \in Stages /\ "store" \in Stages
    BY <1>2 DEF AfterLoad
  <2> QED BY <1>13, <1>14, <1>15, <2>1 DEF LoadConfig
<1>16. CASE Reload
  BY <1>2, <1>13, <1>16, Members DEF Reload
<1>17. CASE StoreReloaded
  BY <1>2, <1>14, <1>17, Members DEF StoreReloaded
<1>18. ASSUME NEW p \in Processes, Open(p) PROVE LastChoice'
  <2>1. /\ UNCHANGED <<file, saves, overtaken>>
        /\ proc'[p].pc \in {"migrate", Refused(p)}
        /\ \A q \in Processes : q # p => proc'[q] = proc[q]
    BY <1>1, <1>18, OpenEffect
  <2>2. proc'[p].pc \notin {"store", "restore"}
    BY <2>1 DEF Refused
  <2> QED BY <1>3, <2>1, <2>2
<1>19. ASSUME NEW p \in Processes, Migrate(p) PROVE LastChoice'
  BY <1>1, <1>3, <1>19, MigrateEffect
<1>20. CASE ServeHere \/ ServeLegacy
  BY <1>3, <1>20 DEF ServeHere, ServeLegacy, bounds
<1>21. ASSUME NEW p \in Requests, SaveSettings(p) PROVE LastChoice'
  <2>1. /\ Goto(p, "off") /\ file'.choice = saves' /\ file' # None
        /\ overtaken' = (overtaken \/ Pending # {})
    BY <1>1, <1>21, SaveEffect, NoneApart
  <2>2. proc'[p].pc = "off" /\ \A q \in Processes : q # p => proc'[q] = proc[q]
    BY <1>1, <1>2, <2>1, GotoEffect, Members
  <2>3. Pending = {} => Pending' = {}
    BY <2>2 DEF Pending, At
  <2> QED BY <2>1, <2>3 DEF LastChoice, Written
<1>22. CASE UNCHANGED vars
  BY <1>3, <1>22 DEF vars, data, bounds
<1> QED BY <1>4, <1>6, <1>7, <1>8, <1>9, <1>11, <1>12, <1>15, <1>16, <1>17, <1>18, <1>19, <1>20,
           <1>21, <1>22 DEF Next, Initialize

-----------------------------------------------------------------------------
(* Settled settings stay settled.                                          *)

(* What a process may come to while the file stays as it is.               *)
Agrees(p) ==
    \/ proc'[p].pc \in {"off", "other", "begin", "copy", "mark", "load"}
    \/ /\ proc'[p].cfg.salt = file.salt /\ proc'[p].pc \notin {"store", "restore"}
       /\ p = Service /\ proc'[p].pc = "ready" => proc'[p].queue = file.salt

LEMMA SettledFrame ==
    ASSUME Settled, file' = file, \A p \in Processes : proc'[p] = proc[p] \/ Agrees(p)
    PROVE  Settled'
  BY Members DEF Settled, Agrees, Using, At

LEMMA SettledStep ==
    ASSUME TypeInv, ChoicesSaved, Settled, [Next]_vars
    PROVE  Settled' /\ file'.salt = file.salt /\ file'.choice >= file.choice
<1>1. ProcTypes /\ DataTypes /\ BackupTypes /\ DbThere
  BY DEF TypeInv
<1>2. {"off", "begin", "copy", "mark", "load", "store", "backup", "open", "migrate", "ready",
       "restore"} \subseteq Stages
  BY DEF Stages
<1>3. file \in Config /\ file # None /\ file.salt # None /\ file.sync = 15
  BY <1>1 DEF Settled, DataTypes
<1>4. file.choice \in Nat /\ file.choice >= file.choice /\ saves \in Nat /\ file.choice <= saves
  BY <1>1, <1>3 DEF Config, DataTypes, ChoicesSaved
<1>5. \A p \in Processes : Loaded(p) = file
  BY <1>1, <1>3, LoadedType
<1>6. ASSUME NEW p \in Processes, At(p, "store") \/ At(p, "restore") PROVE FALSE
  BY <1>6 DEF Settled, Using, At
<1>7. ASSUME file' = file, \A p \in Processes : proc'[p] = proc[p] \/ Agrees(p)
      PROVE  Settled' /\ file'.salt = file.salt /\ file'.choice >= file.choice
  BY <1>4, <1>7, SettledFrame
<1>8. ASSUME NEW p \in Processes,
             proc[p].pc \notin {"off", "other", "begin", "copy", "mark", "load"}
      PROVE  proc[p].cfg.salt = file.salt
  BY <1>8 DEF Settled, Using
<1>9. CASE Update
  <2>1. CASE StopService
    <3>1. /\ file' = file
          /\ proc'[Service].pc = "off" /\ proc'[Installer].pc = "begin"
          /\ \A q \in Processes : q \notin {Service, Installer} => proc'[q] = proc[q]
      BY <1>1, <2>1, StoppedEffect
    <3> QED BY <1>7, <3>1 DEF Agrees
  <2>2. CASE LookForData
    <3>1. /\ file' = file /\ proc'[Installer].pc \in {"copy", "mark"}
          /\ \A q \in Processes : q # Installer => proc'[q] = proc[q]
      BY <1>1, <2>2, LookEffect
    <3>2. Agrees(Installer)
      BY <3>1 DEF Agrees
    <3> QED BY <1>7, <3>1, <3>2
  <2>3. CASE CopyStatistics
    BY <1>1, <1>7, <2>3, CopyEffect
  <2>4. ~CopyConfig
    BY <1>3 DEF CopyConfig
  <2>5. CASE MarkExternal
    <3>1. /\ file' = file /\ proc'[Installer].pc = "load"
          /\ \A q \in Processes : q # Installer => proc'[q] = proc[q]
      BY <1>1, <2>5, MarkEffect
    <3> QED BY <1>7, <3>1 DEF Agrees
  <2> QED BY <1>9, <2>1, <2>2, <2>3, <2>4, <2>5 DEF Update
<1>10. ASSUME NEW p \in Processes, NEW stage \in {"off", "load"}, Goto(p, stage), file' = file
       PROVE  Settled' /\ file'.salt = file.salt /\ file'.choice >= file.choice
  <2>1. proc'[p].pc = stage /\ \A q \in Processes : q # p => proc'[q] = proc[q]
    BY <1>1, <1>2, <1>10, GotoEffect
  <2> QED BY <1>7, <1>10, <2>1 DEF Agrees
<1>11. CASE Backup
  <2>1. At(Installer, "backup") /\ Goto(Installer, "open") /\ file' = file
    BY <1>1, <1>11, BackupEffect
  <2>2. /\ proc'[Installer].pc = "open" /\ proc'[Installer].cfg = proc[Installer].cfg
        /\ \A q \in Processes : q # Installer => proc'[q] = proc[q]
    BY <1>1, <1>2, <2>1, GotoEffect, Members
  <2>3. proc[Installer].cfg.salt = file.salt
    BY <1>8, <2>1, Members DEF At
  <2> QED BY <1>7, <2>1, <2>2, <2>3, Members DEF Agrees
<1>12. CASE StartService
  BY <1>10, <1>12, Members DEF StartService, data
<1>13. ASSUME NEW p \in Requests, Request(p) \/ Answer(p)
       PROVE  Settled' /\ file'.salt = file.salt /\ file'.choice >= file.choice
  BY <1>10, <1>13, Members DEF Request, Answer, data
<1>14. ASSUME NEW p \in Processes, Crash(p)
       PROVE  Settled' /\ file'.salt = file.salt /\ file'.choice >= file.choice
  BY <1>10, <1>14 DEF Crash, data
<1>15. ASSUME NEW others \in SUBSET Processes, Restarted(others), file' = file
       PROVE  Settled' /\ file'.salt = file.salt /\ file'.choice >= file.choice
  <2>1. \A q \in Processes : proc'[q] = proc[q] \/ proc'[q].pc \in {"off", "load"}
    BY <1>1, <1>15, RestartedEffect
  <2> QED BY <1>7, <1>15, <2>1 DEF Agrees
<1>16. CASE InstallService
  BY <1>15, <1>16, Members DEF InstallService, data
<1>17. ASSUME NEW p \in Requests, RepairRealtime(p)
       PROVE  Settled' /\ file'.salt = file.salt /\ file'.choice >= file.choice
  BY <1>15, <1>17, Members DEF RepairRealtime, data
<1>18. ASSUME NEW p \in Processes, NEW to \in {"backup", "open"}, NEW store \in Stages,
              Load(p, "load", to, store)
       PROVE  Settled' /\ file'.salt = file.salt /\ file'.choice >= file.choice
  <2>1. /\ file' = file /\ proc'[p].pc = to /\ proc'[p].cfg = file
        /\ \A q \in Processes : q # p => proc'[q] = proc[q]
    BY <1>1, <1>2, <1>5, <1>18, LoadEffect
  <2> QED BY <1>7, <2>1 DEF Agrees
<1>19. ASSUME NEW p \in Processes, LoadConfig(p)
       PROVE  Settled' /\ file'.salt = file.salt /\ file'.choice >= file.choice
  <2>1. AfterLoad(p) \in {"backup", "open"}
    BY DEF AfterLoad
  <2>2. ~Store(p, "store", AfterLoad(p))
    BY <1>6 DEF Store
  <2> QED BY <1>2, <1>18, <1>19, <2>1, <2>2 DEF LoadConfig
<1>20. CASE Reload
  <2>1. /\ file' = file /\ At(Service, "ready")
        /\ proc'[Service].pc = "ready" /\ proc'[Service].cfg = file
        /\ proc'[Service].queue = proc[Service].queue
        /\ \A q \in Processes : q # Service => proc'[q] = proc[q]
    BY <1>1, <1>2, <1>5, <1>20, LoadEffect, Members DEF Reload
  <2>2. proc[Service].queue = file.salt
    BY <2>1 DEF Settled
  <2> QED BY <1>7, <2>1, <2>2 DEF Agrees
<1>21. ~StoreReloaded
  BY <1>6, Members DEF StoreReloaded, Store
<1>22. ASSUME NEW p \in Processes, Open(p)
       PROVE  Settled' /\ file'.salt = file.salt /\ file'.choice >= file.choice
  <2>1. /\ file' = file /\ At(p, "open")
        /\ proc'[p].pc \in {"migrate", Refused(p)}
        /\ proc'[p].pc # "off" => proc'[p].cfg = proc[p].cfg
        /\ \A q \in Processes : q # p => proc'[q] = proc[q]
    BY <1>1, <1>22, OpenEffect
  <2>2. proc[p].cfg.salt = file.salt
    BY <1>8, <2>1 DEF At
  <2>3. proc'[p].pc \in {"migrate", "ready", "off"} /\ (proc'[p].pc = "ready" => p # Service)
    BY <2>1, Members DEF Refused
  <2> QED BY <1>7, <2>1, <2>2, <2>3 DEF Agrees
<1>23. ASSUME NEW p \in Processes, Migrate(p)
       PROVE  Settled' /\ file'.salt = file.salt /\ file'.choice >= file.choice
  <2>1. /\ file' = file /\ At(p, "migrate")
        /\ proc'[p].pc = "ready" /\ proc'[p].cfg = proc[p].cfg
        /\ p = Service => proc'[p].queue = proc[p].cfg.salt
        /\ \A q \in Processes : q # p => proc'[q] = proc[q]
    BY <1>1, <1>23, MigrateEffect
  <2>2. proc[p].cfg.salt = file.salt
    BY <1>8, <2>1 DEF At
  <2> QED BY <1>7, <2>1, <2>2 DEF Agrees
<1>24. CASE ServeHere \/ ServeLegacy \/ UNCHANGED vars
  BY <1>7, <1>24 DEF ServeHere, ServeLegacy, vars, data
<1>25. ASSUME NEW p \in Requests, SaveSettings(p)
       PROVE  Settled' /\ file'.salt = file.salt /\ file'.choice >= file.choice
  <2>1. /\ At(p, "ready") /\ Goto(p, "off") /\ saves' = saves + 1
        /\ file' \in Config /\ file'.choice = saves' /\ file'.sync = 15
        /\ file'.salt = IF proc[p].cfg.salt = None THEN p ELSE proc[p].cfg.salt
    BY <1>1, <1>25, SaveEffect
  <2>2. file'.salt = file.salt
    BY <1>3, <1>8, <2>1, Members DEF At
  <2>3. file'.choice >= file.choice
    BY <1>4, <2>1
  <2>4. file' # None
    BY <2>1, NoneApart
  <2>5. proc'[p].pc = "off" /\ \A q \in Processes : q # p => proc'[q] = proc[q]
    BY <1>1, <1>2, <2>1, GotoEffect, Members
  <2>6. Settled'
    BY <1>3, <2>1, <2>2, <2>4, <2>5, Members DEF Settled, Using, At
  <2> QED BY <2>2, <2>3, <2>6
<1> QED BY <1>9, <1>11, <1>12, <1>13, <1>14, <1>16, <1>17, <1>19, <1>20, <1>21, <1>22, <1>23,
           <1>24, <1>25 DEF Next, Initialize

-----------------------------------------------------------------------------
DataInv == TypeInv /\ UpgradeInv /\ ChoicesSaved /\ LastChoice

LEMMA InitInv == Init => DataInv
<1> SUFFICES ASSUME Init PROVE DataInv
  OBVIOUS
<1>1. \A stage \in {"off", "other"} : Out(stage) \in ProcRecord /\ Out(stage).pc = stage
  BY OutType DEF Stages
<1>2. /\ ProcTypes
      /\ \A p \in Processes : proc[p] = Out("off") \/ proc[p] = Out("other")
      /\ \A p \in Processes : p # Service => proc[p] = Out("off")
      /\ unit # "started" => proc[Service] = Out("off")
  BY <1>1, Members DEF Init, ProcTypes
<1>3. OldConfigs \subseteq Config /\ \A c \in OldConfigs : c.choice = 0
  BY DataDirectoryAssumption DEF OldConfigs, Config, Salt
<1>4. OldDatabases \subseteq Database
  BY DataDirectoryAssumption DEF OldDatabases, Database
<1>5. /\ file \in OldConfigs \cup {None} /\ db \in OldDatabases \cup {None}
      /\ legacy \in [file : OldConfigs, db : OldDatabases] \cup {None}
      /\ external \in BOOLEAN
      /\ legacy # None => db = None
      /\ unit \in {"absent", "stopped", "started"}
      /\ unit = "started" => db # None \/ legacy # None
      /\ legacy # None => ~external /\ legacy.db.version < SchemaVersion
      /\ saves = 0 /\ before = None /\ backups = << >>
      /\ early = FALSE /\ cut = FALSE /\ overtaken = FALSE
  BY DEF Init
<1>6. legacy # None => legacy \in Legacy /\ legacy.file.choice = 0
  BY <1>3, <1>4, <1>5 DEF Legacy
<1>7. DataTypes
  <2>1. file \in Config \cup {None} /\ db \in Database \cup {None}
    BY <1>3, <1>4, <1>5
  <2>2. legacy \in Legacy \cup {None}
    BY <1>6
  <2>3. MaxSaves \in Nat
    BY DataDirectoryAssumption
  <2>4. saves \in 0 .. MaxSaves
    BY <1>5, <2>3
  <2> QED BY <1>5, <2>1, <2>2, <2>4 DEF DataTypes
<1>8. BackupTypes
  BY <1>5 DEF BackupTypes
<1>9. DbThere
  BY <1>1, <1>2, <1>5, Members DEF DbThere, At, Running
<1>10. UpgradeInv
  <2>1. InstallerFirst /\ Marked /\ LegacyOld /\ OldUnopened
    BY <1>1, <1>2, <1>5, Members DEF InstallerFirst, Marked, Early, LegacyOld, OldUnopened, At
  <2>2. NotYet
    BY <1>1, <1>2, <1>5, Members DEF NotYet, At
  <2>3. Untouched /\ HereKept /\ Moved /\ NoOther /\ WaitingOrDone
    BY <1>5 DEF Untouched, HereKept, Moved, NoOther, WaitingOrDone
  <2> QED BY <2>1, <2>2, <2>3 DEF UpgradeInv
<1>11. ChoicesSaved
  <2>1. \A p \in Processes : proc[p].cfg.choice = 0
    BY <1>2, OutChoice
  <2> QED BY <1>3, <1>5, <1>6, <2>1 DEF ChoicesSaved
<1>12. LastChoice
  <2>1. Written = 0
    BY <1>3, <1>5 DEF Written
  <2>2. Pending = {}
    BY <1>1, <1>2 DEF Pending, At
  <2> QED BY <1>5, <2>1, <2>2 DEF LastChoice
<1> QED BY <1>2, <1>7, <1>8, <1>9, <1>10, <1>11, <1>12 DEF DataInv, TypeInv

LEMMA StepInv == DataInv /\ [Next]_vars => DataInv'
  BY TypeStep, UpgradeStep, ChoiceStep, LastChoiceStep DEF DataInv

(* The inductive invariant: types, what became of the statistics since the *)
(* service was stopped, that no settings are newer than the last save, and *)
(* that the file holds that save unless it was overtaken.                  *)
THEOREM DataInvariant == Spec => []DataInv
  BY InitInv, StepInv, PTL DEF Spec

(* Files and processes keep their types, the backups are at most three,    *)
(* and a service that runs has a database of its own version.              *)
THEOREM TypeCorrect == Spec => []TypeOK
<1>1. DataInv => TypeOK
  BY DEF DataInv, TypeInv, ProcTypes, ProcRecord, DataTypes, BackupTypes, DbThere, Running, At,
     TypeOK
<1> QED BY <1>1, DataInvariant, PTL

(* Through crashes, failed copies and repeated updates the statistics are  *)
(* in stats.db or untouched where the early version had them.  An update   *)
(* that comes to its end has them in stats.db, imports no site again and   *)
(* has a copy of the old database, if cp did its work and nobody opened    *)
(* the statistics before init_db.py.                                       *)
THEOREM UpgradeKeeps == Spec => []UpgradePreserves
<1>1. DataInv => UpgradePreserves
  <2> SUFFICES ASSUME DataInv, before # None PROVE UpgradePreserves
    BY DEF UpgradePreserves
  <2>1. Keeps(before) \/ (legacy # None /\ legacy.db = before)
    BY DEF DataInv, UpgradeInv, HereKept, Untouched
  <2>2. ASSUME At(Installer, "ready"), ~early, ~cut
        PROVE  /\ Keeps(before)
               /\ Old(before) => /\ before \in ToSet(backups)
                                 /\ \A s \in before.counted : db.history[s] # None
    <3>1. external
      BY <2>2 DEF DataInv, UpgradeInv, Marked, Early, At
    <3>2. Keeps(before)
      BY <2>2, <3>1 DEF DataInv, UpgradeInv, HereKept, Moved
    <3>3. Old(before) => Done
      BY <2>2, <3>1 DEF DataInv, UpgradeInv, WaitingOrDone, Waiting
    <3> QED BY <3>2, <3>3 DEF Done
  <2> QED BY <2>1, <2>2 DEF UpgradePreserves, Old
<1> QED BY <1>1, DataInvariant, PTL

(* What the user saved last is what the file says, through every load,     *)
(* migration, crash and update, unless it was saved while another process  *)
(* had read the settings and was about to write them back.                 *)
THEOREM SaveKept ==
    Spec => [](~overtaken => saves = IF file = None THEN 0 ELSE file.choice)
<1>1. DataInv => (~overtaken => saves = IF file = None THEN 0 ELSE file.choice)
  BY DEF DataInv, LastChoice, Written
<1> QED BY <1>1, DataInvariant, PTL

(* Settings that all who have read them agree on stay: the salt for ever,  *)
(* and the user's choices until the next one.                              *)
THEOREM SettingsSettle == Spec => SettledStays
<1>1. ASSUME DataInv, [Next]_vars
      PROVE  [Settled => /\ Settled'
                         /\ file'.salt = file.salt /\ file'.choice >= file.choice]_vars
  BY <1>1, SettledStep DEF DataInv
<1> QED BY <1>1, DataInvariant, PTL DEF Spec, SettledStays

=============================================================================
