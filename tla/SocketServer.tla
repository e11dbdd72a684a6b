---------------------------- MODULE SocketServer ----------------------------
(***************************************************************************)
(* scripts/socket_server.py with run_history_backfill() of                 *)
(* core/collector.py: the resident service.                                *)
(*                                                                         *)
(* A request is written to the access log of its site and, where the web   *)
(* server is configured to, sent to the service as a datagram.  The main   *)
(* thread counts datagrams through the live queue (LiveLedger, which       *)
(* RealtimeQueue implements); an import thread reads the access logs of    *)
(* the sites whose history is not imported.  While that thread works, the  *)
(* main thread discards the datagrams of its sites.  Every few seconds the *)
(* main thread synchronises the sites and starts an import for new ones.   *)
(* The process can be stopped or crash at any point, and is then started   *)
(* again by systemd.                                                       *)
(*                                                                         *)
(* Here an access log never rotates (see LogImport), every request passes  *)
(* the filters, and the order in which a round visits its sites is open.   *)
(***************************************************************************)
EXTENDS Naturals, Sequences, FiniteSets, SequencesExt

CONSTANTS Sites,        (* sites of the panel, also their internal ids      *)
          BatchSize,    (* lines of an import batch                         *)
          MaxRequests,  (* bound: requests served                           *)
          MaxRestarts,  (* bound: stops and crashes of the service          *)
          Failing,      (* what may fail: "configuration" of the web server *)
                        (* in the main thread, "import" of a site (database *)
                        (* or log file), "queue" (full, or not written)     *)
          MaxFaults,    (* bound: failures                                  *)
          MaxHolds,     (* bound: runs of scripts/bootstrap_data.py         *)
          None

ASSUME ServerAssumption ==
    /\ BatchSize \in Nat \ {0}
    /\ {MaxRequests, MaxRestarts, MaxFaults, MaxHolds} \subseteq Nat
    /\ None \notin Sites

VARIABLES
    panel,       (* the sites that exist                                   *)
    forwarding,  (* the sites whose requests are sent to the socket        *)
    disk,        (* the access log of each site                            *)
    served,      (* how many requests were served                          *)
    inflight,    (* datagrams in the socket buffer                         *)
    status,      (* history_import.status, "absent" if no row              *)
    cursor,      (* file_cursors: lines of the log that were imported      *)
    imported,    (* requests counted from the access logs                  *)
    reimported,  (* requests counted from the access logs again            *)
    elsewhere,   (* sites another collector has read to the end            *)
    open, recorded, lost, refused,   (* the live queue: see LiveLedger     *)
    skipped,     (* datagrams discarded because of an import               *)
    deferred,    (* those of them the import had yet to read               *)
    main,        (* where the main thread is                               *)
    mapping,     (* the sites the main thread knows                        *)
    attempted,   (* attempted_backfill_sites                               *)
    backfill,    (* backfill_state: its status and site_ids                *)
    pc,          (* where the import thread is, "none" if there is none    *)
    job,         (* the sites it was started for                           *)
    pending,     (* those of them not yet complete                         *)
    todo,        (* pending sites this round has not visited               *)
    done,        (* sites this round read to the end                       *)
    at,          (* the site being read                                    *)
    moved,       (* does the summary of this round count any line?         *)
    lock,        (* who holds collector.lock                               *)
    restarts, faults, holds

web      == <<panel, forwarding, disk, served>>
history  == <<status, cursor, imported, reimported, elsewhere>>
ledger   == <<open, recorded, lost, refused>>
ghosts   == <<skipped, deferred>>
service  == <<main, mapping, attempted>>
round    == <<job, pending, todo, done, at, moved>>
bounds   == <<restarts, faults, holds>>
vars     == <<web, inflight, history, ledger, ghosts, service, backfill, pc,
              round, lock, bounds>>

(* The live queue behind RealtimeQueue.submit().                           *)
Queue == INSTANCE LiveLedger WITH MaxEvents <- MaxRequests

Request == [site : Sites, id : 1 .. MaxRequests]

(* The import thread is in a round.                                        *)
Reading == pc \in {"round", "pick", "collect", "more", "publishBatch", "tagBatch"}

Stages == {"none", "lock", "begin", "publishStart", "tagStart", "round", "pick",
           "collect", "more", "publishBatch", "tagBatch", "update",
           "publishEnd", "tagEnd", "return"}

TypeOK ==
    /\ panel \subseteq Sites /\ forwarding \subseteq panel
    /\ disk \in [Sites -> Seq(Request)]
    /\ served \in 0 .. MaxRequests
    /\ inflight \in Seq(Request)
    /\ status \in [Sites -> {"absent", "running", "complete"}]
    /\ \A s \in Sites : cursor[s] \in 0 .. Len(disk[s])
    /\ imported \subseteq Request /\ reimported \subseteq imported
    /\ elsewhere \subseteq Sites /\ (lock # "other" => elsewhere = {})
    /\ Queue!LedgerTypeOK
    /\ skipped \subseteq Request /\ deferred \subseteq skipped
    /\ main \in {"down", "starting", "loop", "stopping"}
    /\ mapping \subseteq panel /\ attempted \subseteq mapping
    /\ backfill \in [status : {"skipped", "running", "complete", "incomplete", "error"},
                     sites : SUBSET Sites]
    /\ pc \in Stages
    /\ todo \subseteq pending /\ done \subseteq pending /\ pending \subseteq job
    /\ job \subseteq Sites /\ at \in Sites \cup {None} /\ moved \in BOOLEAN
    /\ lock \in {"free", "import", "other"}
    /\ pc \notin {"none", "lock"} => lock = "import" /\ main # "down"
    /\ restarts \in 0 .. MaxRestarts /\ faults \in 0 .. MaxFaults /\ holds \in 0 .. MaxHolds

-----------------------------------------------------------------------------
Idle == [status |-> "skipped", sites |-> {}]

Init ==
    /\ panel = {} /\ forwarding = {}
    /\ disk = [s \in Sites |-> << >>] /\ served = 0 /\ inflight = << >>
    /\ status = [s \in Sites |-> "absent"] /\ cursor = [s \in Sites |-> 0]
    /\ imported = {} /\ reimported = {} /\ elsewhere = {}
    /\ Queue!LedgerInit
    /\ skipped = {} /\ deferred = {}
    /\ main = "down" /\ mapping = {} /\ attempted = {} /\ backfill = Idle
    /\ pc = "none" /\ job = {} /\ pending = {} /\ todo = {} /\ done = {}
    /\ at = None /\ moved = FALSE
    /\ lock = "free"
    /\ restarts = 0 /\ faults = 0 /\ holds = 0

-----------------------------------------------------------------------------
(* The environment: the panel, the web server, other processes.            *)

AddSite(s) ==
    /\ s \notin panel
    /\ panel' = panel \cup {s}
    /\ UNCHANGED <<forwarding, disk, served, inflight, history, ledger, ghosts,
                   service, backfill, pc, round, lock, bounds>>

(* The log line and, if the service has bound its socket, the datagram.    *)
Serve(s) ==
    /\ s \in panel /\ served < MaxRequests
    /\ served' = served + 1
    /\ LET r == [site |-> s, id |-> served + 1]
       IN  /\ disk' = [disk EXCEPT ![s] = Append(@, r)]
           /\ inflight' = IF s \in forwarding /\ main # "down"
                          THEN Append(inflight, r) ELSE inflight
    /\ UNCHANGED <<panel, forwarding, history, ledger, ghosts, service, backfill,
                   pc, round, lock, bounds>>

(* configure_all(TRUE) by install.sh or by the panel's repair button.      *)
Repair ==
    /\ forwarding' = panel
    /\ UNCHANGED <<panel, disk, served, inflight, history, ledger, ghosts, service,
                   backfill, pc, round, lock, bounds>>

(* Only the first import of a site clears its cursor.                      *)
Starts(sites) ==
    /\ status' = [s \in Sites |-> IF s \in sites THEN "running" ELSE status[s]]
    /\ cursor' = [s \in Sites |-> IF s \in sites /\ status[s] = "absent"
                                  THEN 0 ELSE cursor[s]]

AtEnd(s) == cursor[s] = Len(disk[s])

(* One batch of collect_site().                                            *)
ReadBatch(s) ==
    /\ ~AtEnd(s)
    /\ LET end   == IF cursor[s] + BatchSize < Len(disk[s])
                    THEN cursor[s] + BatchSize ELSE Len(disk[s])
           batch == Range(SubSeq(disk[s], cursor[s] + 1, end))
       IN  /\ cursor' = [cursor EXCEPT ![s] = end]
           /\ imported' = imported \cup batch
           /\ reimported' = reimported \cup (imported \cap batch)

(* scripts/bootstrap_data.py, another process: it imports every site of    *)
(* the panel that is not complete, under the same lock, with the rounds    *)
(* left open; it ends at any point, when it is through or killed.          *)
OtherLocks ==
    /\ lock = "free" /\ holds < MaxHolds
    /\ lock' = "other" /\ holds' = holds + 1
    /\ Starts({s \in panel : status[s] # "complete"})
    /\ UNCHANGED <<web, inflight, imported, reimported, elsewhere, ledger,
                   ghosts, service, backfill, pc, round, restarts, faults>>

OtherReads(s) ==
    /\ lock = "other" /\ status[s] = "running" /\ s \notin elsewhere
    /\ \/ ReadBatch(s) /\ UNCHANGED elsewhere
       \/ /\ AtEnd(s) /\ elsewhere' = elsewhere \cup {s}
          /\ UNCHANGED <<cursor, imported, reimported>>
    /\ UNCHANGED <<web, inflight, status, ledger, ghosts, service, backfill,
                   pc, round, lock, bounds>>

OtherCompletes(s) ==
    /\ s \in elsewhere /\ status[s] # "complete"
    /\ status' = [status EXCEPT ![s] = "complete"]
    /\ UNCHANGED <<web, inflight, cursor, imported, reimported, elsewhere,
                   ledger, ghosts, service, backfill, pc, round, lock, bounds>>

OtherUnlocks ==
    /\ lock = "other" /\ lock' = "free" /\ elsewhere' = {}
    /\ UNCHANGED <<web, inflight, status, cursor, imported, reimported, ledger,
                   ghosts, service, backfill, pc, round, bounds>>

Fault(what) == what \in Failing /\ faults < MaxFaults /\ faults' = faults + 1

-----------------------------------------------------------------------------
(* Mutated forms of the definitions below, one per plausible slip in the   *)
(* code; nothing here is part of the specification.                        *)

(* the sites are marked before the test for a living thread *)
ScheduleMarksFirst(known) ==
    LET missing == {s \in known : status[s] # "complete"} \ attempted
    IN  /\ attempted' = attempted \cup missing
        /\ IF pc # "none" \/ missing = {} THEN UNCHANGED <<backfill, pc, job>>
           ELSE /\ backfill' = [status |-> "running", sites |-> missing]
                /\ job' = missing
                /\ pc' = "lock"

(* The import thread ends, with its local variables.                       *)
ThreadOver == /\ pc' = "none"
              /\ pending' = {} /\ todo' = {} /\ done' = {}
              /\ at' = None /\ moved' = FALSE

(* the thread does not take the lock *)
TryLockUnlocked ==
    /\ pc = "lock" /\ lock = "free"
    /\ pc' = "begin"
    /\ UNCHANGED <<web, inflight, history, ledger, ghosts, service, backfill,
                   round, lock, bounds>>

(* a resumed import starts its logs again *)
BeginFromStart ==
    /\ pc = "begin"
    /\ pending' = {s \in job : status[s] # "complete"}
    /\ status' = [s \in Sites |-> IF s \in pending' THEN "running" ELSE status[s]]
    /\ cursor' = [s \in Sites |-> IF s \in pending' THEN 0 ELSE cursor[s]]
    /\ pc' = "publishStart"
    /\ UNCHANGED <<web, inflight, imported, reimported, elsewhere, ledger,
                   ghosts, service, backfill, job, todo, done, at, moved, lock,
                   bounds>>

(* an exception in the thread does not reach backfill_state *)
ImportRaisesSilently ==
    /\ pc \in {"begin", "publishStart", "round", "update", "publishEnd"}
    /\ Fault("import")
    /\ lock' = "free" /\ ThreadOver
    /\ UNCHANGED <<web, inflight, history, ledger, ghosts, service, backfill,
                   job, restarts, holds>>

VisitOver == todo' = todo \ {at} /\ at' = None /\ pc' = "pick"

(* a spent budget counts as the end of the log *)
OutOfBudgetDone ==
    /\ pc = "more"
    /\ moved' = TRUE
    /\ done' = done \cup {at}
    /\ VisitOver
    /\ UNCHANGED <<web, inflight, history, ledger, ghosts, service, backfill, job,
                   pending, lock, bounds>>

(* the sites the round did not reach are dropped *)
NextPendingVisited == pending \ (done \cup todo)

(* one site that is not complete keeps the whole job pending *)
NextPendingAll == IF pending \subseteq done THEN {} ELSE pending

-----------------------------------------------------------------------------
(* The main thread.                                                        *)

(* schedule_missing_backfill(), given the sites of site_mapping().         *)
Schedule(known) ==
    LET missing == {s \in known : status[s] # "complete"} \ attempted
    IN  IF pc # "none" \/ missing = {} THEN UNCHANGED <<attempted, backfill, pc, job>>
        ELSE /\ attempted' = attempted \cup missing
             /\ backfill' = [status |-> "running", sites |-> missing]
             /\ job' = missing
             /\ pc' = "lock"

(* prepare_socket() comes before everything else.                          *)
Bind ==
    /\ main = "down" /\ main' = "starting"
    /\ UNCHANGED <<web, inflight, history, ledger, ghosts, mapping, attempted,
                   backfill, pc, round, lock, bounds>>

(* The rest of the start of main(): a failed configuration does not keep   *)
(* the import from being scheduled.                                        *)
Boot ==
    /\ main = "starting" /\ main' = "loop"
    /\ mapping' = panel
    /\ \/ forwarding' = panel /\ UNCHANGED faults
       \/ Fault("configuration") /\ UNCHANGED forwarding
    /\ Schedule(panel)
    /\ UNCHANGED <<panel, disk, served, inflight, history, ledger, ghosts,
                   pending, todo, done, at, moved, lock, restarts, holds>>

(* The periodic synchronisation; when the configuration fails, nothing is  *)
(* scheduled.                                                              *)
Sync ==
    /\ main = "loop"
    /\ mapping' = panel /\ forwarding' = panel
    /\ Schedule(panel)
    /\ UNCHANGED <<panel, disk, served, inflight, history, ledger, ghosts, main,
                   pending, todo, done, at, moved, lock, bounds>>

SyncFails ==
    /\ main = "loop" /\ Fault("configuration")
    /\ mapping' = panel
    /\ UNCHANGED <<web, inflight, history, ledger, ghosts, main, attempted,
                   backfill, pc, round, lock, restarts, holds>>

(* The state of the import is read twice: it can have been running at the  *)
(* first reading, and its end be published, with the sites, before the     *)
(* second.                                                                 *)
Discards(s) == s \in backfill.sites

Counts(s) == ~(backfill.status = "running" /\ s \in backfill.sites)

Arrives == main = "loop" /\ inflight # << >>

(* A site the main thread does not know makes it read the panel again.     *)
Receive == /\ inflight' = Tail(inflight)
           /\ mapping' = IF Head(inflight).site \in mapping THEN mapping ELSE panel

(* Submit(): the queue takes the request, or is full.                      *)
ReceiveLive ==
    /\ Arrives /\ Counts(Head(inflight).site)
    /\ Receive
    /\ \/ Queue!Accept(Head(inflight)) /\ UNCHANGED faults
       \/ Queue!Refuse(Head(inflight)) /\ Fault("queue")
    /\ UNCHANGED <<web, history, ghosts, main, attempted, backfill, pc, round,
                   lock, restarts, holds>>

ReceiveSkipped ==
    /\ Arrives /\ Discards(Head(inflight).site)
    /\ Receive
    /\ LET r == Head(inflight)
       IN  /\ skipped' = skipped \cup {r}
           /\ deferred' = IF \/ r.site \in done \cup elsewhere
                             \/ status[r.site] = "complete"
                          THEN deferred ELSE deferred \cup {r}
    /\ UNCHANGED <<web, history, ledger, main, attempted, backfill, pc, round,
                   lock, bounds>>

(* SIGTERM: the loop ends and the queue is stopped.                        *)
Stop ==
    /\ main = "loop" /\ main' = "stopping"
    /\ restarts < MaxRestarts /\ restarts' = restarts + 1
    /\ UNCHANGED <<web, inflight, history, ledger, ghosts, mapping, attempted,
                   backfill, pc, round, lock, faults, holds>>

(* The process is gone, the import thread and the socket with it.          *)
Gone ==
    /\ main' = "down" /\ mapping' = {} /\ attempted' = {} /\ backfill' = Idle
    /\ inflight' = << >>
    /\ ThreadOver /\ job' = {}
    /\ lock' = IF lock = "import" THEN "free" ELSE lock

Exit ==
    /\ main = "stopping" /\ open = {}
    /\ Gone
    /\ UNCHANGED <<web, history, ledger, ghosts, bounds>>

Crash ==
    /\ main # "down"
    /\ restarts < MaxRestarts /\ restarts' = restarts + 1
    /\ Gone
    /\ IF open = {} THEN UNCHANGED ledger ELSE Queue!Lose(open)
    /\ UNCHANGED <<web, history, ghosts, faults, holds>>

(* The writer thread of the live queue.                                    *)
Flush ==
    /\ main # "down"
    /\ \/ \E batch \in SUBSET open : Queue!Record(batch) /\ UNCHANGED faults
       \/ open # {} /\ Queue!Lose(open) /\ Fault("queue")
    /\ UNCHANGED <<web, inflight, history, ghosts, service, backfill, pc, round,
                   lock, restarts, holds>>

-----------------------------------------------------------------------------
(* The import thread.                                                      *)

TryLock ==
    /\ pc = "lock" /\ lock = "free"
    /\ lock' = "import" /\ pc' = "begin"
    /\ UNCHANGED <<web, inflight, history, ledger, ghosts, service, backfill,
                   round, bounds>>

(* "collector is already running".                                         *)
LockBusy ==
    /\ pc = "lock" /\ lock = "other"
    /\ backfill' = Idle /\ pc' = "none"
    /\ UNCHANGED <<web, inflight, history, ledger, ghosts, service, round, lock,
                   bounds>>

Begin ==
    /\ pc = "begin"
    /\ pending' = {s \in job : status[s] # "complete"}
    /\ Starts(pending')
    /\ pc' = "publishStart"
    /\ UNCHANGED <<web, inflight, imported, reimported, elsewhere, ledger,
                   ghosts, service, backfill, job, todo, done, at, moved, lock,
                   bounds>>

(* An exception outside the visit of a site ends the import.               *)
ImportRaises ==
    /\ pc \in {"begin", "publishStart", "round", "update", "publishEnd"}
    /\ Fault("import")
    /\ backfill' = [status |-> "error", sites |-> {}]
    /\ lock' = "free" /\ ThreadOver
    /\ UNCHANGED <<web, inflight, history, ledger, ghosts, service, job,
                   restarts, holds>>

(* update_progress() of initial_backfill() assigns twice: the progress,    *)
(* which has no site_ids, and then the site_ids.                           *)
Publish(from, to, outcome) ==
    /\ pc = from /\ pc' = to
    /\ backfill' = [status |-> outcome, sites |-> {}]
    /\ UNCHANGED <<web, inflight, history, ledger, ghosts, service, round, lock,
                   bounds>>

Tag(from, to) ==
    /\ pc = from /\ pc' = to
    /\ backfill' = [backfill EXCEPT !.sites = job]
    /\ UNCHANGED <<web, inflight, history, ledger, ghosts, service, round, lock,
                   bounds>>

PublishStart == Publish("publishStart", "tagStart", "running") \/ Tag("tagStart", "round")

PublishBatch == Publish("publishBatch", "tagBatch", "running") \/ Tag("tagBatch", "more")

(* A round of _run_once_unlocked() over the pending sites.                 *)
Round ==
    /\ pc = "round" /\ pc' = "pick"
    /\ todo' = pending /\ done' = {} /\ moved' = FALSE
    /\ UNCHANGED <<web, inflight, history, ledger, ghosts, service, backfill, job,
                   pending, at, lock, bounds>>

Pick(s) ==
    /\ pc = "pick" /\ s \in todo
    /\ at' = s /\ pc' = "collect"
    /\ UNCHANGED <<web, inflight, history, ledger, ghosts, service, backfill, job,
                   pending, todo, done, moved, lock, bounds>>

Collecting == pc \in {"collect", "more"}

(* Progress is published now and then.                                     *)
Commit ==
    /\ Collecting /\ ReadBatch(at)
    /\ pc' \in {"more", "publishBatch"}
    /\ UNCHANGED <<web, inflight, status, elsewhere, ledger, ghosts, service,
                   backfill, round, lock, bounds>>

(* The share of the site is spent; tested after a batch only.              *)
OutOfBudget ==
    /\ pc = "more"
    /\ moved' = TRUE
    /\ VisitOver
    /\ UNCHANGED <<web, inflight, history, ledger, ghosts, service, backfill, job,
                   pending, done, lock, bounds>>

SiteDone ==
    /\ Collecting /\ AtEnd(at)
    /\ moved' = (moved \/ pc = "more")
    /\ done' = done \cup {at}
    /\ VisitOver
    /\ UNCHANGED <<web, inflight, history, ledger, ghosts, service, backfill, job,
                   pending, lock, bounds>>

(* An exception ends the visit; the lines it had committed are not in the  *)
(* summary of the round.                                                   *)
SiteFails ==
    /\ Collecting /\ Fault("import")
    /\ VisitOver
    /\ UNCHANGED <<web, inflight, history, ledger, ghosts, service, backfill, job,
                   pending, done, moved, lock, restarts, holds>>

(* All sites were visited, or the budget of the round is spent; the first  *)
(* site is always visited.                                                 *)
RoundOver ==
    /\ pc = "pick" /\ pc' = "update"
    /\ todo = {} \/ todo # pending
    /\ UNCHANGED <<web, inflight, history, ledger, ghosts, service, backfill,
                   round, lock, bounds>>

(* update_history_import(), one transaction per site.                      *)
Complete(s) ==
    /\ pc = "update"
    /\ s \in done /\ status[s] # "complete"
    /\ status' = [status EXCEPT ![s] = "complete"]
    /\ UNCHANGED <<web, inflight, cursor, imported, reimported, elsewhere,
                   ledger, ghosts, service, backfill, pc, round, lock, bounds>>

NextPending == pending \ done

(* A round that completed no site and read no line is the last one.        *)
RoundEnd ==
    /\ pc = "update"
    /\ \A s \in done : status[s] = "complete"
    /\ pending' = NextPending
    /\ todo' = {} /\ done' = {}
    /\ pc' = IF pending' = {} \/ (pending' = pending /\ ~moved)
             THEN "publishEnd" ELSE "round"
    /\ UNCHANGED <<web, inflight, history, ledger, ghosts, service, backfill, job,
                   at, moved, lock, bounds>>

PublishEnd ==
    \/ Publish("publishEnd", "tagEnd", IF pending = {} THEN "complete" ELSE "incomplete")
    \/ Tag("tagEnd", "return")

Finish ==
    /\ pc = "return"
    /\ backfill' = [backfill EXCEPT !.sites = {}]
    /\ lock' = "free" /\ ThreadOver
    /\ UNCHANGED <<web, inflight, history, ledger, ghosts, service, job, bounds>>

-----------------------------------------------------------------------------
Import == \/ TryLock \/ LockBusy \/ Begin \/ PublishStart \/ Round
          \/ \E s \in Sites : Pick(s) \/ Complete(s)
          \/ Commit \/ PublishBatch \/ OutOfBudget \/ SiteDone
          \/ RoundOver \/ RoundEnd \/ PublishEnd \/ Finish

ImportFails == ImportRaises \/ SiteFails

Other == \/ OtherLocks \/ OtherUnlocks
         \/ \E s \in Sites : OtherReads(s) \/ OtherCompletes(s)

Environment == \/ \E s \in Sites : AddSite(s) \/ Serve(s)
               \/ Repair \/ Other

Main == Bind \/ Boot \/ ReceiveLive \/ ReceiveSkipped \/ Exit \/ Flush

Next == \/ Environment \/ Main \/ Sync \/ SyncFails \/ Stop \/ Crash
        \/ Import \/ ImportFails

Spec == Init /\ [][Next]_vars

(* Both threads run, the periodic synchronisation comes round, systemd     *)
(* starts a service that went down, and another collector ends.            *)
FairSpec == /\ Spec
            /\ WF_vars(Main) /\ WF_vars(Sync) /\ WF_vars(Import)
            /\ WF_vars(OtherUnlocks)

-----------------------------------------------------------------------------
(* Properties.                                                             *)

(* The history import counts no line twice: not when it resumes after a    *)
(* crash, a failure or a spent budget, nor in its next round.              *)
NeverReimported == reimported = {}

(* A complete import is final: from then on the requests of the site are   *)
(* counted live only, whatever else is imported and however often the      *)
(* service restarts.                                                       *)
CompleteIsFinal ==
    [][\A s \in Sites : status[s] = "complete" =>
          /\ status'[s] = "complete"
          /\ {r \in imported' : r.site = s} = {r \in imported : r.site = s}]_vars

(* A datagram that is discarded while the import has still to read the log *)
(* of its site is not lost: the import has counted it when it completes,   *)
(* even if that takes several rounds, failures and restarts.               *)
DeferredIsImported ==
    \A r \in deferred : status[r.site] = "complete" => r \in imported

(* "complete" is never published for an import that left a site out,       *)
(* whatever rounds it took and whichever sites a round did not reach.      *)
CompleteMeansAll ==
    backfill.status = "complete" => \A s \in job : status[s] = "complete"

(* The state that makes the main thread discard datagrams does not outlive *)
(* the thread that imports them, however that thread ends.                 *)
NoImportNoDiscard ==
    \A s \in Sites : Discards(s) => pc # "none" /\ s \in job

(* Every site of the panel is imported in the end, also one that appears   *)
(* while another import runs or when the web servers cannot be configured, *)
(* and across restarts.  It is not so when the import itself fails: its    *)
(* sites then wait for a restart (schedule_missing_backfill()).            *)
EverySiteImported ==
    \A s \in Sites : s \in panel ~> status[s] = "complete"

(* The comment in main(): a request of a site that is imported is counted  *)
(* once, from the log, and not live as well.                               *)
CountedOnce == imported \cap recorded = {}

(* The comment in main(): while a site is imported, its access log is the  *)
(* only source, so no request of it is handed to the live queue.           *)
DiskOnlyWhileImporting ==
    [][\A r \in open' \ open : ~(Reading /\ r.site \in pending)]_vars

(* When the first import of a site begins, none of the requests in its log *)
(* has been counted live.                                                  *)
BeginsUncounted ==
    [][\A s \in Sites : status[s] = "absent" /\ status'[s] = "running" =>
          \A r \in open \cup recorded : r.site # s]_vars

(* A discarded datagram is counted from the access log of its site.        *)
SkippedIsImported ==
    \A r \in skipped : status[r.site] = "complete" => r \in imported
=============================================================================
