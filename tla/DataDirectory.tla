--------------------------- MODULE DataDirectory ---------------------------
(***************************************************************************)
(* core/settings.py, Repository.initialize(), scripts/init_db.py and       *)
(* install.sh: the settings and the statistics from one version of the     *)
(* plugin to the next.                                                     *)
(*                                                                         *)
(* The story begins when the files of a new version are in place.  The     *)
(* service of the version before may still run; the page is open; the      *)
(* installer is about to run.  Whoever starts now runs the new code, and   *)
(* all of them read, rewrite and migrate the same two files: config.json   *)
(* and stats.db.                                                           *)
(*                                                                         *)
(* Of the settings the model keeps the salt of the visitor hashes, the     *)
(* value that is migrated, and the number of the user's last choice; of    *)
(* the statistics the version, which sites have any, and which sites have  *)
(* a row of their history import.                                          *)
(***************************************************************************)
EXTENDS Naturals, Sequences, SequencesExt

CONSTANTS Sites, Requests, Service, Installer, None,
          SchemaVersion,
          MaxSaves, MaxCrashes, MaxUpdates (* bounds *)

VARIABLES
    file,      (* config.json, or None                                     *)
    db,        (* stats.db, or None                                        *)
    backups,   (* copies of stats.db, the latest first                     *)
    legacy,    (* the data directory inside the plugin, of early versions  *)
    external,  (* .external-data-v1: it has been looked at                 *)
    unit,      (* systemd's view of the service                            *)
    proc,      (* each process: where it stands ("other" is the service of
                  another version), the settings and the version it read   *)
    saves, crashes, updates,
    before,    (* history: the statistics when the service was stopped     *)
    early,     (* history: another process opened them before init_db.py   *)
    cut,       (* history: their copy failed                               *)
    overtaken  (* history: a save came while others were about to write    *)

data == <<file, db, backups, legacy, external>>
bounds == <<saves, crashes, updates>>
ghosts == <<before, early, cut, overtaken>>
vars == <<data, unit, proc, bounds, ghosts>>

Processes == Requests \cup {Service, Installer}
Salt == Processes \cup {"before"}
Config == [salt : Salt \cup {None}, sync : {15, 60}, choice : 0 .. MaxSaves]
Database == [version : 0 .. SchemaVersion + 1, counted : SUBSET Sites,
             history : [Sites -> {None, "pending", "complete"}]]
Legacy == [file : Config, db : Database]

ASSUME DataDirectoryAssumption ==
    /\ SchemaVersion \in Nat /\ SchemaVersion > 2
    /\ {MaxSaves, MaxCrashes, MaxUpdates} \subseteq Nat
    /\ Service # Installer /\ {Service, Installer} \cap Requests = {}
    /\ None \notin Config \cup Database \cup Legacy \cup {"pending", "complete"}

Defaults == [salt |-> None, sync |-> 15, choice |-> 0]
EmptyDatabase ==
    [version |-> 0, counted |-> {}, history |-> [s \in Sites |-> None]]

Stages == {"off", "other", "begin", "copy", "mark", "load", "store", "backup",
           "open", "migrate", "ready", "restore"}

At(p, stage) == proc[p].pc = stage

(* queue is the salt of the live queue: that of the start of the service.  *)
Out(stage) == [pc |-> stage, cfg |-> Defaults, seen |-> 0, queue |-> None]

(* A process that ends forgets what it read.                               *)
Goto(p, stage) ==
    proc' = [proc EXCEPT ![p] = IF stage = "off" THEN Out("off")
                                ELSE [@ EXCEPT !.pc = stage]]

-----------------------------------------------------------------------------
(* load_config(): what is there, an old value replaced, a salt made if     *)
(* there is none.  A salt is named after the process that made it.         *)
Completed(current, p) ==
    [current EXCEPT !.sync = 15, !.salt = IF @ = None THEN p ELSE @]

Loaded(p) == Completed(IF file = None THEN Defaults ELSE file, p)

Load(p, from, to, store) ==
    /\ At(p, from)
    /\ proc' = [proc EXCEPT ![p].cfg = Loaded(p),
                            ![p].pc = IF file = Loaded(p) THEN to ELSE store]
    /\ UNCHANGED <<data, unit, bounds, ghosts>>

(* The file is replaced in one step, by what was read some time ago.       *)
Store(p, from, to) ==
    /\ At(p, from)
    /\ file' = proc[p].cfg
    /\ Goto(p, to)
    /\ UNCHANGED <<db, backups, legacy, external, unit, bounds, ghosts>>

AfterLoad(p) == IF p = Installer THEN "backup" ELSE "open"

LoadConfig(p) ==
    \/ Load(p, "load", AfterLoad(p), "store")
    \/ Store(p, "store", AfterLoad(p))

-----------------------------------------------------------------------------
(* initialize().  The version is read outside the transaction.  A newer    *)
(* database is refused, and so is one that cannot be read, which has the   *)
(* same number here: the service and the installer end, a request goes on  *)
(* with the repository it has, as its constructor caught the error.        *)
Stored == IF db = None THEN EmptyDatabase ELSE db

(* Mutant: the version is not looked at.                                   *)
ReadableAny(version) == TRUE

Readable(version) == version <= SchemaVersion

Refused(p) == IF p \in Requests THEN "ready" ELSE "off"

Open(p) ==
    /\ At(p, "open")
    /\ db' = Stored
    /\ IF Readable(Stored.version)
         THEN proc' = [proc EXCEPT ![p].pc = "migrate",
                                   ![p].seen = Stored.version]
         ELSE Goto(p, Refused(p))
    /\ early' = (early \/ /\ p # Installer
                          /\ Stored.version < SchemaVersion
                          /\ legacy # None \/ db # None)
    /\ UNCHANGED <<file, backups, legacy, external, unit, bounds,
                   before, cut, overtaken>>

(* Mutant: the version moves, the sites are forgotten.                     *)
UpgradedVersionOnly(d, version) == [d EXCEPT !.version = SchemaVersion]

(* One transaction.  Every branch for a version from 1 on ends with a row  *)
(* "complete" for each site that has statistics and no row.  What else the *)
(* branches do, to columns and to tables of counts, leaves these alone.    *)
Upgraded(d, version) ==
    [d EXCEPT !.version = SchemaVersion,
              !.history =
                [s \in Sites |->
                    IF 0 < version /\ version < SchemaVersion
                       /\ s \in d.counted /\ @[s] = None
                    THEN "complete" ELSE @[s]]]

Migrate(p) ==
    /\ At(p, "migrate")
    /\ db' = Upgraded(db, proc[p].seen)
    /\ proc' = [proc EXCEPT ![p].pc = "ready", ![p].seen = 0,
                            ![p].queue =
                                IF p = Service THEN proc[p].cfg.salt ELSE None]
    /\ UNCHANGED <<file, backups, legacy, external, unit, bounds, ghosts>>

Initialize(p) == Open(p) \/ Migrate(p)

-----------------------------------------------------------------------------
(* install.sh.  Update() and Install() stop the service, copy the data     *)
(* directory of early versions, run init_db.py and start the service.      *)

(* The statistics of the version before are where that version put them.   *)
Statistics == IF legacy # None /\ ~external THEN legacy.db ELSE db

StopService ==
    /\ At(Installer, "off") /\ updates < MaxUpdates
    /\ updates' = updates + 1
    /\ unit' = IF unit = "started" THEN "stopped" ELSE unit
    /\ proc' = [proc EXCEPT ![Service] = Out("off"), ![Installer] = Out("begin")]
    /\ before' = IF before = None THEN Statistics ELSE before
    /\ UNCHANGED <<data, saves, crashes, early, cut, overtaken>>

(* migrate_persistent_data().  Whether there is anything to copy is asked  *)
(* once.                                                                   *)
ToCopy == legacy # None /\ ~external /\ db = None

LookForData ==
    /\ At(Installer, "begin")
    /\ Goto(Installer, IF ToCopy THEN "copy" ELSE "mark")
    /\ UNCHANGED <<data, unit, bounds, ghosts>>

(* What cp leaves of a file it could not finish, or was killed over: of    *)
(* the statistics an empty file, one that cannot be read, or one without   *)
(* what was in its write-ahead log; of the settings nothing load_config()  *)
(* could use.                                                              *)
Unreadable == [EmptyDatabase EXCEPT !.version = SchemaVersion + 1]

Pieces(d) == {EmptyDatabase, Unreadable}
             \cup {[d EXCEPT !.counted = c] : c \in SUBSET d.counted}

(* cp -an: file by file, in any order, and none that is there.             *)
CopyStatistics ==
    /\ At(Installer, "copy") /\ db = None
    /\ \/ db' = legacy.db /\ cut' = cut
       \/ db' \in Pieces(legacy.db) /\ cut' = TRUE
    /\ UNCHANGED <<file, backups, legacy, external, unit, proc, bounds,
                   before, early, overtaken>>

CopyConfig ==
    /\ At(Installer, "copy") /\ file = None
    /\ file' \in {legacy.file, Defaults}
    /\ UNCHANGED <<db, backups, legacy, external, unit, proc, bounds, ghosts>>

(* Nobody asks whether cp was done: files may be missing.                  *)
MarkExternal ==
    /\ \/ At(Installer, "mark")
       \/ At(Installer, "copy")
    /\ external' = TRUE
    /\ cut' = (cut \/ (At(Installer, "copy") /\ db = None))
    /\ Goto(Installer, "load")
    /\ UNCHANGED <<file, db, backups, legacy, unit, bounds,
                   before, early, overtaken>>

Update ==
    StopService \/ LookForData \/ CopyStatistics \/ CopyConfig \/ MarkExternal

(* backup_before_schema_upgrade(): a consistent copy, the last three kept. *)
Backup ==
    /\ At(Installer, "backup")
    /\ backups' = IF db # None /\ db.version < SchemaVersion
                  THEN SubSeq(<<db>> \o backups, 1, Min({Len(backups) + 1, 3}))
                  ELSE backups
    /\ Goto(Installer, "open")
    /\ UNCHANGED <<file, db, legacy, external, unit, bounds, ghosts>>

(* systemctl restart.                                                      *)
Restarted(others) ==
    /\ unit' = "started"
    /\ proc' = [p \in Processes |->
                    IF p = Service THEN Out("load")
                    ELSE IF p \in others THEN Out("off") ELSE proc[p]]

InstallService ==
    /\ At(Installer, "ready")
    /\ Restarted({Installer})
    /\ UNCHANGED <<data, bounds, ghosts>>

-----------------------------------------------------------------------------
(* The service: started by systemd, it reads its settings again with each  *)
(* synchronisation; a failure there is caught.                             *)
StartService ==
    /\ unit = "started" /\ At(Service, "off")
    /\ Goto(Service, "load")
    /\ UNCHANGED <<data, unit, bounds, ghosts>>

(* Mutant: the settings are read and not used.                             *)
ReloadUnused ==
    /\ At(Service, "ready")
    /\ UNCHANGED vars

Reload == Load(Service, "ready", "ready", "restore")

StoreReloaded == Store(Service, "restore", "ready")

(* The imports and the live requests of a running service, of this version *)
(* or of the other, which has its data inside the plugin where there are.  *)
Serve(d) ==
    {[d EXCEPT !.counted = @ \cup {s}] : s \in Sites}
    \cup {[d EXCEPT !.history[s] = "pending"] :
            s \in {r \in Sites : d.history[r] = None}}
    \cup {[d EXCEPT !.history[s] = "complete", !.counted = @ \cup {s}] :
            s \in {r \in Sites : d.history[r] = "pending"}}

ServeHere ==
    /\ At(Service, "ready") \/ (At(Service, "other") /\ legacy = None)
    /\ db' \in Serve(db)
    /\ UNCHANGED <<file, backups, legacy, external, unit, proc,
                   bounds, ghosts>>

ServeLegacy ==
    /\ At(Service, "other") /\ legacy # None
    /\ \E d \in Serve(legacy.db) : legacy' = [legacy EXCEPT !.db = d]
    /\ UNCHANGED <<file, db, backups, external, unit, proc,
                   bounds, ghosts>>

-----------------------------------------------------------------------------
(* A request of the page constructs the plugin class; then it reads, saves *)
(* the settings, or restarts the service.                                  *)
Request(p) ==
    /\ At(p, "off")
    /\ Goto(p, "load")
    /\ UNCHANGED <<data, unit, bounds, ghosts>>

Answer(p) ==
    /\ At(p, "ready")
    /\ Goto(p, "off")
    /\ UNCHANGED <<data, unit, bounds, ghosts>>

(* Mutant: only what the form holds is saved.                              *)
SavedForm(c, choice) == [Defaults EXCEPT !.choice = choice, !.salt = None]

(* Those that have read the settings and are about to write them back.     *)
Pending == {q \in Processes : At(q, "store") \/ At(q, "restore")}

(* save_config(): the form over the settings read at construction.         *)
Saved(c, choice) == [c EXCEPT !.choice = choice]

SaveSettings(p) ==
    /\ At(p, "ready") /\ saves < MaxSaves
    /\ saves' = saves + 1
    /\ file' = Completed(Saved(proc[p].cfg, saves + 1), p)
    /\ overtaken' = (overtaken \/ Pending # {})
    /\ Goto(p, "off")
    /\ UNCHANGED <<db, backups, legacy, external, unit, crashes,
                   updates, before, early, cut>>

RepairRealtime(p) ==
    /\ At(p, "ready") /\ unit # "absent"
    /\ Restarted({p})
    /\ UNCHANGED <<data, bounds, ghosts>>

Crash(p) ==
    /\ ~At(p, "off") /\ crashes < MaxCrashes
    /\ crashes' = crashes + 1
    /\ Goto(p, "off")
    /\ UNCHANGED <<data, unit, saves, updates, ghosts>>

-----------------------------------------------------------------------------
(* The data a version may have left, where it left them: nothing, a        *)
(* directory inside the plugin, or the one outside; and whether its        *)
(* service runs.                                                           *)
OldConfigs == [salt : {"before"}, sync : {15, 60}, choice : {0}]

OldDatabases ==
    [version : {SchemaVersion - 1, SchemaVersion, SchemaVersion + 1},
     counted : SUBSET Sites,
     history : [Sites -> {None, "complete"}]]

Init ==
    /\ \/ file = None /\ db = None /\ legacy = None /\ external = FALSE
       \/ /\ file = None /\ db = None /\ external = FALSE
          /\ legacy \in [file : OldConfigs,
                         db : {d \in OldDatabases : d.version < SchemaVersion}]
       \/ /\ file \in OldConfigs /\ db \in OldDatabases
          /\ legacy = None /\ external = TRUE
    /\ unit \in (IF db = None /\ legacy = None THEN {"absent"}
                 ELSE {"stopped", "started"})
    /\ proc = [p \in Processes |->
                Out(IF p = Service /\ unit = "started" THEN "other" ELSE "off")]
    /\ backups = <<>>
    /\ saves = 0 /\ crashes = 0 /\ updates = 0
    /\ before = None /\ early = FALSE /\ cut = FALSE /\ overtaken = FALSE

Next ==
    \/ Update \/ Backup \/ InstallService
    \/ StartService \/ Reload \/ StoreReloaded \/ ServeHere \/ ServeLegacy
    \/ \E p \in Processes : LoadConfig(p) \/ Initialize(p) \/ Crash(p)
    \/ \E p \in Requests :
        Request(p) \/ Answer(p) \/ SaveSettings(p) \/ RepairRealtime(p)

Spec == Init /\ [][Next]_vars

(* systemd starts the service while it is wanted, and its loop runs.       *)
FairSpec ==
    /\ Spec
    /\ WF_vars(StartService) /\ WF_vars(LoadConfig(Service))
    /\ WF_vars(Initialize(Service)) /\ WF_vars(Reload) /\ WF_vars(StoreReloaded)

-----------------------------------------------------------------------------
TypeOK ==
    /\ file \in Config \cup {None}
    /\ db \in Database \cup {None}
    /\ backups \in Seq(Database) /\ Len(backups) <= 3
    /\ legacy \in Legacy \cup {None}
    /\ {external, cut, overtaken} \subseteq BOOLEAN
    /\ unit \in {"absent", "stopped", "started"}
    /\ proc \in [Processes ->
                    [pc : Stages, cfg : Config, seen : 0 .. SchemaVersion,
                     queue : Salt \cup {None}]]
    /\ At(Service, "ready") => db # None /\ db.version = SchemaVersion

(* The processes that have read the settings.                              *)
Using ==
    {p \in Processes :
        proc[p].pc \notin {"off", "other", "begin", "copy", "mark", "load"}}

Settled ==
    /\ file # None /\ file.salt # None /\ file.sync = 15
    /\ \A p \in Using :
        proc[p].cfg.salt = file.salt /\ proc[p].pc \notin {"store", "restore"}
    /\ At(Service, "ready") => proc[Service].queue = file.salt

(* Once the file is complete, nobody is about to replace it, and all who   *)
(* have read it agree on the salt, this stays so, through every save,      *)
(* crash, start and update: nobody makes another salt, by which known      *)
(* visitors would be counted again, and from then on no setting the user   *)
(* has saved is replaced by an older one (load_config(), save_config()).   *)
(* Before, two first loads can race, and a load can undo a save: see       *)
(* SavedStays.                                                             *)
SettledStays ==
    [][Settled => /\ Settled'
                  /\ file'.salt = file.salt /\ file'.choice >= file.choice]_vars

Keeps(old) ==
    /\ db # None /\ old.counted \subseteq db.counted
    /\ \A s \in Sites :
        /\ old.history[s] = "complete" => db.history[s] = "complete"
        /\ old.history[s] # None => db.history[s] # None

(* From the moment the service is stopped the statistics there were are in *)
(* stats.db or untouched where the early version had them, whatever fails  *)
(* or is killed and however often the update is repeated.  And when        *)
(* init_db.py is done, they are in stats.db, no site that had any is       *)
(* imported again, and the database of an older version is among the       *)
(* backups as it was - unless the copy failed, see FailedCopyStops, or a   *)
(* request or the service has opened it before init_db.py, see             *)
(* StatisticsSurvive and MigrationsBackedUp (install.sh, init_db.py,       *)
(* initialize()).                                                          *)
UpgradePreserves ==
    before # None =>
        /\ Keeps(before) \/ (legacy # None /\ legacy.db = before)
        /\ At(Installer, "ready") /\ ~early /\ ~cut =>
            /\ Keeps(before)
            /\ 0 < before.version /\ before.version < SchemaVersion =>
                /\ before \in ToSet(backups)
                /\ \A s \in before.counted : db.history[s] # None

(* docs/DATA_MIGRATION.md:20: an upgrade keeps the statistics there were.  *)
StatisticsSurvive ==
    At(Installer, "ready") /\ before # None
      => before.counted \subseteq db.counted

(* docs/DATA_MIGRATION.md:34: a backup before the structure is upgraded.   *)
MigrationsBackedUp ==
    [][db # None /\ 0 < db.version /\ db.version < SchemaVersion
       /\ db'.version = SchemaVersion
         => \E d \in ToSet(backups) : d.version = db.version]_vars

(* docs/DATA_MIGRATION.md:23: the installation fails when the migration of *)
(* the data has failed.                                                    *)
FailedCopyStops == cut => ~At(Installer, "ready")

(* "The settings are saved, the service applies them with its next         *)
(* synchronisation" (save_settings()): a service that runs on ends up with *)
(* the user's last choice, whatever starts, crashes and updates come       *)
(* between - unless the save came between the read and the write of        *)
(* another process that migrates the settings, see SavedStays.  The live   *)
(* queue keeps the settings of its start.                                  *)
SettingsApplied ==
    <>[](~overtaken /\ At(Service, "ready")
           => proc[Service].cfg.choice = saves)

(* WebAnalytics_main.py:449: what is saved will be applied, so nothing     *)
(* replaces it but a later choice.                                         *)
SavedStays ==
    [][file # None => file'.choice >= file.choice]_vars
=============================================================================
