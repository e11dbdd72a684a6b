------------------------ MODULE SocketServer_proofs ------------------------
(***************************************************************************)
(* Proofs about SocketServer, for every set of sites, every batch size and *)
(* every number of requests, restarts, faults and other collectors.        *)
(***************************************************************************)
EXTENDS SocketServer, SequenceTheorems, TLAPS

-----------------------------------------------------------------------------
(* The inductive invariant.                                                *)

(* The variables of the import thread between and within its rounds.       *)
ThreadState ==
    /\ pc # "none" => main # "down"
    /\ pc \in {"none", "lock", "begin"}
         => pending = {} /\ todo = {} /\ done = {}
    /\ pc \in {"collect", "more", "publishBatch", "tagBatch"} => at \in todo

CursorType == cursor \in [Sites -> Nat]

TypeInv == TypeOK /\ CursorType /\ ThreadState

(* A request is written to the log of its site, once.                      *)
Written(r, logs) == \E i \in DOMAIN logs[r.site] : logs[r.site][i] = r

DiskInOrder ==
    \A s \in Sites :
        /\ \A i \in DOMAIN disk[s] : disk[s][i].site = s /\ disk[s][i].id <= served
        /\ \A i, j \in DOMAIN disk[s] : disk[s][i] = disk[s][j] => i = j

DatagramsOnDisk ==
    /\ \A i \in DOMAIN inflight : Written(inflight[i], disk)
    /\ \A r \in skipped : Written(r, disk)

(* What is imported of a site is what lies below its cursor, or what lay   *)
(* there when its import began.                                            *)
ImportedBelowCursor ==
    \A r \in imported : \E i \in 1 .. cursor[r.site] : disk[r.site][i] = r

BelowCursorImported ==
    \A s \in Sites : \A i \in 1 .. cursor[s] : disk[s][i] \in imported

(* The cursor of a site is cleared before anything of it is imported.      *)
NothingBeforeBegin ==
    /\ \A r \in imported : status[r.site] # "absent"
    /\ \A s \in pending : status[s] # "absent"

Cursors == DiskInOrder /\ DatagramsOnDisk /\ ImportedBelowCursor
             /\ BelowCursorImported /\ NothingBeforeBegin

(* No round visits a site that is complete.                                *)
PendingIncomplete ==
    \A s \in pending : status[s] = "complete" => pc = "update" /\ s \in done

(* A job keeps each of its sites until it is complete.                     *)
JobCovered ==
    pc \notin {"none", "lock", "begin"} =>
        \A s \in job : s \in pending \/ status[s] = "complete"

(* A site that was read to the end has its deferred requests imported.     *)
DeferredReached ==
    \A r \in deferred :
        status[r.site] = "complete" \/ r.site \in done \cup elsewhere
          => r \in imported

(* Only the import thread has "running" published, for its own sites, and  *)
(* it withdraws it before it ends.                                         *)
PublishedByThread ==
    /\ backfill.sites \subseteq job
    /\ backfill.status = "running" => pc \notin {"none", "tagEnd", "return"}
    /\ backfill.sites # {} => pc # "none"

Rounds == PendingIncomplete /\ JobCovered /\ DeferredReached
            /\ PublishedByThread /\ CompleteMeansAll

ServerInv == TypeInv /\ Cursors /\ NeverReimported /\ Rounds

-----------------------------------------------------------------------------
(* Which steps change what.                                                *)

LEMMA WebFrame ==
    [Next]_vars =>
        \/ UNCHANGED <<web, inflight>>
        \/ \E s \in Sites : AddSite(s) \/ Serve(s)
        \/ Repair \/ Boot \/ Sync \/ ReceiveLive \/ ReceiveSkipped
        \/ Exit \/ Crash
  BY DEF Next, Environment, Main, Import, ImportFails, vars, Other,
         OtherLocks, OtherReads, OtherCompletes, OtherUnlocks, Bind,
         SyncFails, Stop, Flush, TryLock, LockBusy, Begin, PublishStart,
         PublishBatch, PublishEnd, Publish, Tag, Round, Pick, Complete,
         Commit, OutOfBudget, SiteDone, SiteFails, RoundOver, RoundEnd,
         Finish, ImportRaises

LEMMA HistoryFrame ==
    [Next]_vars =>
        \/ UNCHANGED history
        \/ Begin \/ Commit \/ \E s \in Sites : Complete(s)
        \/ Other
  BY DEF Next, Environment, Main, Import, ImportFails, vars, AddSite, Serve,
         Repair, Boot, Sync, ReceiveLive, ReceiveSkipped, Exit, Crash, Bind,
         SyncFails, Stop, Flush, TryLock, LockBusy, PublishStart,
         PublishBatch, PublishEnd, Publish, Tag, Round, Pick, OutOfBudget,
         SiteDone, SiteFails, RoundOver, RoundEnd, Finish, ImportRaises

LEMMA LedgerFrame ==
    [Next]_vars =>
        \/ UNCHANGED <<ledger, ghosts>>
        \/ ReceiveLive \/ ReceiveSkipped \/ Flush \/ Crash
  BY DEF Next, Environment, Main, Import, ImportFails, vars, AddSite, Serve,
         Repair, Boot, Sync, Begin, Commit, Complete, Exit, Other, OtherLocks,
         OtherReads, OtherCompletes, OtherUnlocks, Bind, SyncFails, Stop,
         TryLock, LockBusy, PublishStart, PublishBatch, PublishEnd, Publish,
         Tag, Round, Pick, OutOfBudget, SiteDone, SiteFails, RoundOver,
         RoundEnd, Finish, ImportRaises

-----------------------------------------------------------------------------
(* Types.                                                                  *)

WebTypes ==
    /\ panel \subseteq Sites /\ forwarding \subseteq panel
    /\ disk \in [Sites -> Seq(Request)] /\ served \in 0 .. MaxRequests
    /\ inflight \in Seq(Request)

HistoryTypes ==
    /\ status \in [Sites -> {"absent", "running", "complete"}]
    /\ CursorType /\ \A s \in Sites : cursor[s] <= Len(disk[s])
    /\ imported \subseteq Request /\ reimported \subseteq imported

LedgerTypes ==
    /\ open \subseteq Request /\ recorded \subseteq Request
    /\ lost \subseteq Request /\ refused \subseteq Request
    /\ skipped \subseteq Request /\ deferred \subseteq skipped

ServiceTypes ==
    /\ main \in {"down", "starting", "loop", "stopping"}
    /\ mapping \subseteq panel /\ attempted \subseteq mapping
    /\ backfill \in [status : {"skipped", "running", "complete", "incomplete", "error"},
                     sites : SUBSET Sites]

ThreadTypes ==
    /\ pc \in Stages
    /\ todo \subseteq pending /\ done \subseteq pending /\ pending \subseteq job
    /\ job \subseteq Sites /\ at \in Sites \cup {None} /\ moved \in BOOLEAN
    /\ lock \in {"free", "import", "other"}
    /\ pc \notin {"none", "lock"} => lock = "import"
    /\ ThreadState

OtherTypes == elsewhere \subseteq Sites /\ (lock # "other" => elsewhere = {})

BoundTypes ==
    restarts \in 0 .. MaxRestarts /\ faults \in 0 .. MaxFaults
    /\ holds \in 0 .. MaxHolds

(* The parts in which the type invariant is proved.                        *)
LEMMA TypeParts ==
    TypeInv <=> /\ WebTypes /\ HistoryTypes /\ LedgerTypes
                /\ ServiceTypes /\ ThreadTypes /\ OtherTypes /\ BoundTypes
  <1>1. Request = Queue!Event
    BY DEF Request, Queue!Event
  <1>2. ASSUME disk \in [Sites -> Seq(Request)], CursorType
        PROVE  (\A s \in Sites : cursor[s] \in 0 .. Len(disk[s]))
                 <=> \A s \in Sites : cursor[s] <= Len(disk[s])
    BY <1>2 DEF CursorType
  <1>. QED
    BY <1>1, <1>2
       DEF TypeInv, TypeOK, WebTypes, HistoryTypes, LedgerTypes, ServiceTypes,
           ThreadTypes, OtherTypes, BoundTypes, Queue!LedgerTypeOK, ThreadState

LEMMA TypesInit == Init => TypeInv
  <1>. SUFFICES ASSUME Init PROVE TypeInv
    OBVIOUS
  <1>. USE ServerAssumption DEF Init
  <1>1. WebTypes /\ HistoryTypes
    BY DEF WebTypes, HistoryTypes, CursorType
  <1>2. LedgerTypes
    BY DEF LedgerTypes, Queue!LedgerInit
  <1>3. ServiceTypes /\ BoundTypes
    BY DEF ServiceTypes, BoundTypes, Idle
  <1>4. ThreadTypes
    BY DEF ThreadTypes, ThreadState, Stages
  <1>5. OtherTypes
    BY DEF OtherTypes
  <1>. QED
    BY <1>1, <1>2, <1>3, <1>4, <1>5, TypeParts

LEMMA WebTypesStep == TypeInv /\ [Next]_vars => WebTypes'
  <1>. SUFFICES ASSUME WebTypes, LedgerTypes, ServiceTypes, [Next]_vars
                PROVE  WebTypes'
    BY TypeParts
  <1>. USE ServerAssumption DEF WebTypes
  <1>1. ASSUME NEW s \in Sites, AddSite(s) PROVE WebTypes'
    BY <1>1 DEF AddSite
  <1>2. ASSUME NEW s \in Sites, Serve(s) PROVE WebTypes'
    <2>. DEFINE r == [site |-> s, id |-> served + 1]
    <2>1. r \in Request /\ served + 1 \in 0 .. MaxRequests
      BY <1>2 DEF Serve, Request
    <2>2. Append(disk[s], r) \in Seq(Request) /\ Append(inflight, r) \in Seq(Request)
      BY <2>1, AppendProperties
    <2>. QED
      BY <1>2, <2>1, <2>2 DEF Serve
  <1>3. CASE Repair \/ Boot \/ Sync
    BY <1>3 DEF Repair, Boot, Sync, ServiceTypes
  <1>4. CASE ReceiveLive \/ ReceiveSkipped
    <2>1. Tail(inflight) \in Seq(Request)
      BY <1>4, HeadTailProperties DEF ReceiveLive, ReceiveSkipped, Arrives
    <2>. QED
      BY <1>4, <2>1 DEF ReceiveLive, ReceiveSkipped, Receive, web
  <1>5. CASE Exit \/ Crash
    <2>1. UNCHANGED web /\ inflight' = << >>
      BY <1>5 DEF Exit, Crash, Gone
    <2>2. << >> \in Seq(Request)
      OBVIOUS
    <2>. QED
      BY <2>1, <2>2 DEF web
  <1>6. CASE UNCHANGED <<web, inflight>>
    BY <1>6 DEF web
  <1>. QED
    BY <1>1, <1>2, <1>3, <1>4, <1>5, <1>6, WebFrame

LEMMA HistoryTypesStep == TypeInv /\ [Next]_vars => HistoryTypes'
  <1>. SUFFICES ASSUME WebTypes, HistoryTypes, ThreadTypes, [Next]_vars
                PROVE  HistoryTypes'
    BY TypeParts
  <1>. USE ServerAssumption DEF HistoryTypes, CursorType, history
  <1>1. \A s \in Sites : Len(disk[s]) \in Nat
    BY DEF WebTypes
  <1>2. CASE Begin
    <2>1. UNCHANGED <<disk, imported, reimported>>
      BY <1>2 DEF Begin, web
    <2>. QED
      BY <1>1, <1>2, <2>1 DEF Begin, Starts
  <1>3. ASSUME NEW s \in Sites, Complete(s) \/ OtherCompletes(s)
        PROVE  HistoryTypes'
    BY <1>3 DEF Complete, OtherCompletes, web
  <1>4. ASSUME NEW s \in Sites, ReadBatch(s), UNCHANGED <<status, disk, elsewhere>>
        PROVE  HistoryTypes'
    <2>. DEFINE end == IF cursor[s] + BatchSize < Len(disk[s])
                       THEN cursor[s] + BatchSize ELSE Len(disk[s])
                batch == Range(SubSeq(disk[s], cursor[s] + 1, end))
    <2>1. end \in Nat /\ end <= Len(disk[s])
      BY <1>1
    <2>2. batch \subseteq Request
      <3>1. \A i \in cursor[s] + 1 .. end : disk[s][i] \in Request
        BY <2>1 DEF WebTypes
      <3>. HIDE DEF end
      <3>2. SubSeq(disk[s], cursor[s] + 1, end) \in Seq(Request)
        BY <2>1, <3>1, SubSeqProperties
      <3>. QED
        BY <3>2, RangeOfSeq
    <2>3. /\ cursor' = [cursor EXCEPT ![s] = end]
          /\ imported' = imported \cup batch
          /\ reimported' = reimported \cup (imported \cap batch)
      BY <1>4 DEF ReadBatch
    <2>. HIDE DEF end, batch
    <2>. QED
      BY <1>1, <1>4, <2>1, <2>2, <2>3
  <1>5. CASE Commit
    BY <1>4, <1>5 DEF Commit, Collecting, ThreadTypes, ThreadState, web
  <1>6. CASE Other
    <2>1. CASE OtherLocks
      <3>1. UNCHANGED <<disk, imported, reimported, elsewhere>>
        BY <2>1 DEF OtherLocks, web
      <3>. QED
        BY <1>1, <2>1, <3>1 DEF OtherLocks, Starts
    <2>2. CASE OtherUnlocks
      BY <2>2 DEF OtherUnlocks, web
    <2>3. ASSUME NEW s \in Sites, OtherReads(s)
          PROVE  HistoryTypes'
      <3>1. CASE ReadBatch(s) /\ UNCHANGED elsewhere
        BY <1>4, <2>3, <3>1 DEF OtherReads, web
      <3>2. CASE UNCHANGED <<cursor, imported, reimported>>
                   /\ elsewhere' = elsewhere \cup {s}
        BY <2>3, <3>2 DEF OtherReads, web
      <3>. QED
        BY <2>3, <3>1, <3>2 DEF OtherReads
    <2>. QED
      BY <1>3, <1>6, <2>1, <2>2, <2>3 DEF Other
  <1>7. CASE UNCHANGED history
    <2>1. CASE UNCHANGED <<web, inflight>>
      BY <1>7, <2>1 DEF web
    <2>2. ASSUME NEW s \in Sites, Serve(s) PROVE HistoryTypes'
      <3>. DEFINE r == [site |-> s, id |-> served + 1]
      <3>1. disk' = [disk EXCEPT ![s] = Append(@, r)] /\ r \in Request
        BY <2>2 DEF Serve, Request, WebTypes
      <3>2. Len(Append(disk[s], r)) = Len(disk[s]) + 1
        BY <3>1, AppendProperties DEF WebTypes
      <3>3. \A t \in Sites : Len(disk'[t]) >= Len(disk[t]) /\ Len(disk'[t]) \in Nat
        BY <3>1, <3>2, <1>1 DEF WebTypes
      <3>. QED
        BY <1>1, <1>7, <3>3
    <2>3. ASSUME NEW s \in Sites, AddSite(s) PROVE HistoryTypes'
      BY <1>7, <2>3 DEF AddSite
    <2>4. CASE Repair \/ Boot \/ Sync \/ ReceiveLive \/ ReceiveSkipped
                 \/ Exit \/ Crash
      BY <1>7, <2>4 DEF Repair, Boot, Sync, ReceiveLive, ReceiveSkipped, Exit,
                        Crash, web
    <2>. QED
      BY <2>1, <2>2, <2>3, <2>4, WebFrame
  <1>. QED
    BY <1>2, <1>3, <1>7, <1>5, <1>6, HistoryFrame

LEMMA LedgerTypesStep == TypeInv /\ [Next]_vars => LedgerTypes'
  <1>. SUFFICES ASSUME WebTypes, LedgerTypes, [Next]_vars
                PROVE  LedgerTypes'
    BY TypeParts
  <1>. USE DEF LedgerTypes, ledger, ghosts
  <1>1. CASE ReceiveLive \/ ReceiveSkipped
    <2>1. Head(inflight) \in Request
      BY <1>1, HeadTailProperties DEF ReceiveLive, ReceiveSkipped, Arrives, WebTypes
    <2>. QED
      BY <1>1, <2>1 DEF ReceiveLive, ReceiveSkipped, Queue!Accept, Queue!Refuse
  <1>2. CASE Flush
    BY <1>2 DEF Flush, Queue!Record, Queue!Lose, Queue!IsPrefix
  <1>3. CASE Crash
    BY <1>3 DEF Crash, Queue!Lose
  <1>4. CASE UNCHANGED <<ledger, ghosts>>
    BY <1>4
  <1>. QED
    BY <1>1, <1>2, <1>3, <1>4, LedgerFrame

LEMMA ServiceTypesStep == TypeInv /\ [Next]_vars => ServiceTypes'
  <1>. SUFFICES ASSUME WebTypes, ServiceTypes, ThreadTypes, [Next]_vars
                PROVE  ServiceTypes'
    BY TypeParts
  <1>. USE DEF ServiceTypes, service, web
  <1>1. ASSUME NEW s \in Sites, AddSite(s) \/ Serve(s) PROVE ServiceTypes'
    BY <1>1 DEF AddSite, Serve
  <1>2. CASE Bind \/ Stop \/ SyncFails
    BY <1>2 DEF Bind, Stop, SyncFails
  <1>3. CASE Boot \/ Sync
    <2>1. /\ panel' = panel /\ mapping' = panel
          /\ main' \in {"loop", main}
          /\ Schedule(panel)
      BY <1>3 DEF Boot, Sync
    <2>2. /\ attempted' \subseteq panel
          /\ backfill' \in [status : {"skipped", "running", "complete", "incomplete", "error"},
                            sites : SUBSET Sites]
      BY <2>1 DEF Schedule, WebTypes
    <2>. QED
      BY <2>1, <2>2
  <1>4. CASE ReceiveLive \/ ReceiveSkipped
    BY <1>4 DEF ReceiveLive, ReceiveSkipped, Receive
  <1>5. CASE Exit \/ Crash
    BY <1>5 DEF Exit, Crash, Gone, Idle
  <1>6. CASE LockBusy \/ ImportRaises \/ Finish
    BY <1>6 DEF LockBusy, ImportRaises, Finish, Idle
  <1>7. CASE PublishStart \/ PublishBatch \/ PublishEnd
    BY <1>7 DEF PublishStart, PublishBatch, PublishEnd, Publish, Tag, ThreadTypes
  <1>8. CASE UNCHANGED <<panel, service, backfill>>
    BY <1>8
  <1>9. \/ UNCHANGED <<panel, service, backfill>>
        \/ \E s \in Sites : AddSite(s) \/ Serve(s)
        \/ Bind \/ Stop \/ SyncFails \/ Boot \/ Sync
        \/ ReceiveLive \/ ReceiveSkipped \/ Exit \/ Crash
        \/ LockBusy \/ ImportRaises \/ Finish
        \/ PublishStart \/ PublishBatch \/ PublishEnd
    BY DEF Next, Environment, Main, Import, ImportFails, vars, Repair, Other,
           OtherLocks, OtherReads, OtherCompletes, OtherUnlocks, Flush,
           TryLock, Begin, Round, Pick, Complete, Commit, OutOfBudget,
           SiteDone, SiteFails, RoundOver, RoundEnd
  <1>. QED
    BY <1>1, <1>2, <1>3, <1>4, <1>5, <1>6, <1>7, <1>8, <1>9

(* The steps that leave the import thread alone.                           *)
LEMMA ThreadFrame ==
    [Next]_vars =>
        \/ UNCHANGED <<pc, round, lock>> /\ (main = "down" \/ main' # "down")
        \/ Other \/ Boot \/ Sync \/ Exit \/ Crash
        \/ Import \/ ImportFails
  BY DEF Next, Environment, Main, vars, service, round, AddSite, Serve,
         Repair, Bind, ReceiveLive, ReceiveSkipped, Flush, SyncFails, Stop

LEMMA ThreadTypesStep == TypeInv /\ [Next]_vars => ThreadTypes'
  <1>. SUFFICES ASSUME WebTypes, HistoryTypes, ServiceTypes, ThreadTypes, [Next]_vars
                PROVE  ThreadTypes'
    BY TypeParts
  <1>. USE DEF ThreadTypes, ThreadState, Stages, round, service
  <1>1. CASE Other
    BY <1>1 DEF Other, OtherLocks, OtherReads, OtherCompletes, OtherUnlocks
  <1>2. CASE Boot \/ Sync
    <2>1. /\ main' = "loop" /\ Schedule(panel)
          /\ UNCHANGED <<pending, todo, done, at, moved, lock>>
      BY <1>2 DEF Boot, Sync
    <2>2. \/ UNCHANGED <<pc, job>>
          \/ pc = "none" /\ pc' = "lock" /\ job' \subseteq Sites
      BY <2>1 DEF Schedule, WebTypes
    <2>. QED
      BY <2>1, <2>2
  <1>3. CASE Exit \/ Crash
    BY <1>3 DEF Exit, Crash, Gone, ThreadOver
  <1>4. CASE TryLock \/ LockBusy
    BY <1>4 DEF TryLock, LockBusy
  <1>5. CASE Begin
    BY <1>5 DEF Begin
  <1>6. CASE PublishStart \/ PublishBatch \/ PublishEnd
    BY <1>6 DEF PublishStart, PublishBatch, PublishEnd, Publish, Tag
  <1>7. CASE Round \/ RoundOver
    BY <1>7 DEF Round, RoundOver
  <1>8. ASSUME NEW s \in Sites, Pick(s) \/ Complete(s) PROVE ThreadTypes'
    BY <1>8 DEF Pick, Complete
  <1>9. CASE Commit
    BY <1>9 DEF Commit, Collecting
  <1>10. CASE OutOfBudget
    BY <1>10 DEF OutOfBudget, VisitOver
  <1>11. CASE SiteDone \/ SiteFails
    BY <1>11 DEF SiteDone, SiteFails, Collecting, VisitOver
  <1>12. CASE RoundEnd
    BY <1>12 DEF RoundEnd, NextPending
  <1>13. CASE Finish \/ ImportRaises
    BY <1>13 DEF Finish, ImportRaises, ThreadOver
  <1>14. CASE UNCHANGED <<pc, round, lock>> /\ (main = "down" \/ main' # "down")
    BY <1>14
  <1>. QED
    BY <1>1, <1>2, <1>3, <1>4, <1>5, <1>6, <1>7, <1>8, <1>9, <1>10, <1>11,
       <1>12, <1>13, <1>14, ThreadFrame DEF Import, ImportFails

LEMMA OtherTypesStep == TypeInv /\ [Next]_vars => OtherTypes'
  <1>. SUFFICES ASSUME ThreadTypes, OtherTypes, [Next]_vars
                PROVE  OtherTypes'
    BY TypeParts
  <1>1. CASE Other
    BY <1>1 DEF Other, OtherLocks, OtherUnlocks, OtherReads, OtherCompletes,
                OtherTypes
  <1>2. CASE Import \/ ImportFails
    <2>1. \/ elsewhere' = elsewhere /\ lock # "other"
          \/ LockBusy
          \/ UNCHANGED <<elsewhere, lock>>
      BY <1>2 DEF Import, ImportFails, history, ThreadTypes, TryLock, Begin,
           PublishStart, PublishBatch, PublishEnd, Publish, Tag, Round, Pick,
           Complete, Commit, OutOfBudget, SiteDone, SiteFails, RoundOver,
           RoundEnd, Finish, ImportRaises
    <2>. QED
      BY <2>1 DEF OtherTypes, LockBusy, history
  <1>3. CASE Exit \/ Crash
    BY <1>3 DEF Exit, Crash, Gone, history, OtherTypes
  <1>4. CASE UNCHANGED <<elsewhere, lock>>
    BY <1>4 DEF OtherTypes
  <1>5. \/ Other \/ Import \/ ImportFails \/ Exit \/ Crash
        \/ UNCHANGED <<elsewhere, lock>>
    BY DEF Next, Environment, Main, vars, history, AddSite, Serve, Repair,
           Boot, Sync, ReceiveLive, ReceiveSkipped, Bind, SyncFails, Stop, Flush
  <1>. QED
    BY <1>1, <1>2, <1>3, <1>4, <1>5

LEMMA BoundTypesStep == TypeInv /\ [Next]_vars => BoundTypes'
  <1>. SUFFICES ASSUME BoundTypes, [Next]_vars
                PROVE  BoundTypes'
    BY TypeParts
  <1>1. \/ UNCHANGED bounds
        \/ restarts < MaxRestarts /\ restarts' = restarts + 1 /\ UNCHANGED <<faults, holds>>
        \/ (\E what : Fault(what)) /\ UNCHANGED <<restarts, holds>>
        \/ holds < MaxHolds /\ holds' = holds + 1 /\ UNCHANGED <<restarts, faults>>
    BY DEF Next, Environment, Main, Import, ImportFails, vars, bounds,
           AddSite, Serve, Repair, Boot, Sync, ReceiveLive, ReceiveSkipped,
           Exit, Crash, Other, OtherLocks, OtherReads, OtherCompletes,
           OtherUnlocks, Bind, SyncFails, Stop, Flush, TryLock, LockBusy,
           PublishStart, PublishBatch, PublishEnd, Publish, Tag, Round, Pick,
           OutOfBudget, SiteDone, SiteFails, RoundOver, RoundEnd, Finish,
           ImportRaises, Begin, Commit, Complete
  <1>. QED
    BY <1>1, ServerAssumption DEF BoundTypes, Fault, bounds

LEMMA TypesStep == TypeInv /\ [Next]_vars => TypeInv'
  BY WebTypesStep, HistoryTypesStep, LedgerTypesStep, ServiceTypesStep,
     ThreadTypesStep, OtherTypesStep, BoundTypesStep, TypeParts, PTL

(* The type invariant.                                                     *)
THEOREM TypeCorrect == Spec => []TypeOK
  <1>1. Spec => []TypeInv
    BY TypesInit, TypesStep, PTL DEF Spec
  <1>2. TypeInv => TypeOK
    BY DEF TypeInv
  <1>. QED
    BY <1>1, <1>2, PTL

-----------------------------------------------------------------------------
(* Logs and cursors.                                                       *)

LEMMA Logs ==
    ASSUME TypeInv
    PROVE  /\ disk \in [Sites -> Seq(Request)] /\ inflight \in Seq(Request)
           /\ served \in Nat
           /\ \A s \in Sites : /\ DOMAIN disk[s] = 1 .. Len(disk[s])
                               /\ Len(disk[s]) \in Nat
                               /\ \A i \in DOMAIN disk[s] : disk[s][i] \in Request
  <1>1. /\ disk \in [Sites -> Seq(Request)] /\ inflight \in Seq(Request)
        /\ served \in 0 .. MaxRequests
    BY DEF TypeInv, TypeOK
  <1>. QED
    BY <1>1, ServerAssumption

LEMMA LogsAfter ==
    ASSUME TypeInv, [Next]_vars
    PROVE  /\ disk' \in [Sites -> Seq(Request)] /\ inflight' \in Seq(Request)
           /\ \A s \in Sites : DOMAIN disk'[s] = 1 .. Len(disk'[s])
                               /\ Len(disk'[s]) \in Nat
  <1>1. disk' \in [Sites -> Seq(Request)] /\ inflight' \in Seq(Request)
    BY WebTypesStep DEF WebTypes
  <1>. QED
    BY <1>1

(* Request r is appended to the log of site s.                             *)
Logged(s, r) ==
    /\ r = [site |-> s, id |-> served + 1] /\ served' = served + 1
    /\ Len(disk'[s]) = Len(disk[s]) + 1
    /\ disk'[s][Len(disk[s]) + 1] = r
    /\ \A i \in DOMAIN disk[s] : disk'[s][i] = disk[s][i]
    /\ \A t \in Sites \ {s} : disk'[t] = disk[t]

LEMMA ServeLogs ==
    ASSUME TypeInv, NEW s \in Sites, Serve(s)
    PROVE  \E r \in Request :
              Logged(s, r) /\ inflight' \in {inflight, Append(inflight, r)}
  <1>. DEFINE r == [site |-> s, id |-> served + 1]
  <1>1. /\ r \in Request /\ r = [site |-> s, id |-> served + 1]
        /\ inflight' \in {inflight, Append(inflight, r)}
    BY ServerAssumption DEF Serve, Request, TypeInv, TypeOK
  <1>. HIDE DEF r
  <1>2. disk' = [disk EXCEPT ![s] = Append(@, r)] /\ served' = served + 1
    BY DEF Serve, r
  <1>3. disk'[s] = Append(disk[s], r) /\ \A t \in Sites \ {s} : disk'[t] = disk[t]
    BY <1>2, Logs
  <1>4. /\ Len(disk'[s]) = Len(disk[s]) + 1
        /\ disk'[s][Len(disk[s]) + 1] = r
        /\ \A i \in DOMAIN disk[s] : disk'[s][i] = disk[s][i]
    BY <1>1, <1>3, Logs, AppendProperties
  <1>. QED
    BY <1>1, <1>2, <1>3, <1>4 DEF Logged

(* A log only grows, and nothing but a request makes it grow.              *)
LEMMA DiskGrows ==
    ASSUME TypeInv, [Next]_vars
    PROVE  \/ UNCHANGED <<disk, served>>
           \/ \E s \in Sites, r \in Request : Logged(s, r)
  <1>1. (\A s \in Sites : ~Serve(s)) => UNCHANGED <<disk, served>>
    BY WebFrame DEF web, AddSite, Repair, Boot, Sync, ReceiveLive,
                    ReceiveSkipped, Exit, Crash
  <1>. QED
    BY <1>1, ServeLogs

(* What is on disk stays there.                                            *)
LEMMA DiskStays ==
    ASSUME TypeInv, [Next]_vars, NEW s \in Sites
    PROVE  /\ DOMAIN disk[s] \subseteq DOMAIN disk'[s]
           /\ \A i \in DOMAIN disk[s] : disk'[s][i] = disk[s][i]
  <1>1. CASE UNCHANGED <<disk, served>>
    BY <1>1
  <1>2. ASSUME NEW t \in Sites, NEW r \in Request, Logged(t, r)
        PROVE  /\ DOMAIN disk[s] \subseteq DOMAIN disk'[s]
               /\ \A i \in DOMAIN disk[s] : disk'[s][i] = disk[s][i]
    <2>1. CASE s = t
      BY <1>2, <2>1, Logs, LogsAfter DEF Logged
    <2>2. CASE s # t
      BY <1>2, <2>2 DEF Logged
    <2>. QED
      BY <2>1, <2>2
  <1>. QED
    BY <1>1, <1>2, DiskGrows

LEMMA DiskStep == TypeInv /\ DiskInOrder /\ [Next]_vars => DiskInOrder'
  <1>. SUFFICES ASSUME TypeInv, DiskInOrder, [Next]_vars
                PROVE  DiskInOrder'
    OBVIOUS
  <1>1. CASE UNCHANGED <<disk, served>>
    BY <1>1 DEF DiskInOrder
  <1>2. ASSUME NEW s \in Sites, NEW r \in Request, Logged(s, r)
        PROVE  DiskInOrder'
    <2>. USE DEF Logged
    <2>1. served \in Nat /\ \A t \in Sites : \A i \in DOMAIN disk[t] : disk[t][i].id \in Nat
      BY Logs DEF Request
    <2>2. \A t \in Sites \ {s} :
            /\ \A i \in DOMAIN disk'[t] : disk'[t][i].site = t /\ disk'[t][i].id <= served'
            /\ \A i, j \in DOMAIN disk'[t] : disk'[t][i] = disk'[t][j] => i = j
      BY <1>2, <2>1 DEF DiskInOrder
    <2>3. DOMAIN disk[s] = 1 .. Len(disk[s]) /\ Len(disk[s]) \in Nat
          /\ DOMAIN disk'[s] = 1 .. Len(disk'[s])
      BY Logs, LogsAfter
    <2>4. \A i \in DOMAIN disk'[s] :
            \/ i \in DOMAIN disk[s] /\ disk'[s][i] = disk[s][i]
            \/ i = Len(disk[s]) + 1 /\ disk'[s][i] = r
      BY <1>2, <2>3
    <2>5. \A i \in DOMAIN disk'[s] : disk'[s][i].site = s /\ disk'[s][i].id <= served'
      BY <1>2, <2>1, <2>4 DEF DiskInOrder
    <2>6. \A i \in DOMAIN disk[s] : disk[s][i] # r
      BY <1>2, <2>1 DEF DiskInOrder
    <2>7. \A i, j \in DOMAIN disk'[s] : disk'[s][i] = disk'[s][j] => i = j
      BY <2>4, <2>6 DEF DiskInOrder
    <2>. QED
      BY <2>2, <2>5, <2>7 DEF DiskInOrder
  <1>. QED
    BY <1>1, <1>2, DiskGrows

LEMMA WrittenStays ==
    ASSUME TypeInv, [Next]_vars, NEW r \in Request, Written(r, disk)
    PROVE  Written(r, disk')
  BY DiskStays DEF Written, Request

LEMMA DatagramsStep == TypeInv /\ DatagramsOnDisk /\ [Next]_vars => DatagramsOnDisk'
  <1>. SUFFICES ASSUME TypeInv, DatagramsOnDisk, [Next]_vars
                PROVE  DatagramsOnDisk'
    OBVIOUS
  <1>1. ASSUME NEW i \in DOMAIN inflight PROVE Written(inflight[i], disk')
    <2>1. inflight[i] \in Request
      BY Logs
    <2>. QED
      BY <2>1, WrittenStays DEF DatagramsOnDisk
  <1>2. \A r \in skipped : Written(r, disk')
    BY WrittenStays DEF DatagramsOnDisk, TypeInv, TypeOK
  <1>3. ASSUME NEW s \in Sites, Serve(s)
        PROVE  DatagramsOnDisk'
    <2>1. skipped' = skipped
      BY <1>3 DEF Serve, ghosts
    <2>2. PICK r \in Request :
             Logged(s, r) /\ inflight' \in {inflight, Append(inflight, r)}
      BY <1>3, ServeLogs
    <2>3. Written(r, disk')
      BY <2>2, Logs, LogsAfter DEF Written, Logged
    <2>4. inflight \in Seq(Request)
      BY Logs
    <2>5. \A i \in DOMAIN inflight' : inflight'[i] = r \/
                (i \in DOMAIN inflight /\ inflight'[i] = inflight[i])
      BY <2>1, <2>2, <2>4, AppendProperties
    <2>. QED
      BY <1>1, <1>2, <2>1, <2>3, <2>5 DEF DatagramsOnDisk
  <1>4. CASE ReceiveLive \/ ReceiveSkipped
    <2>1. /\ inflight \in Seq(Request) /\ inflight # << >>
          /\ inflight' = Tail(inflight)
          /\ skipped' \subseteq skipped \cup {Head(inflight)}
      BY <1>4, Logs DEF ReceiveLive, ReceiveSkipped, Arrives, Receive, ghosts
    <2>2. 1 \in DOMAIN inflight /\ Head(inflight) = inflight[1]
      BY <2>1
    <2>3. \A i \in DOMAIN inflight' :
             i + 1 \in DOMAIN inflight /\ inflight'[i] = inflight[i + 1]
      BY <2>1, HeadTailProperties
    <2>. QED
      BY <1>1, <1>2, <2>1, <2>2, <2>3 DEF DatagramsOnDisk
  <1>5. CASE Exit \/ Crash
    BY <1>2, <1>5 DEF Exit, Crash, Gone, ghosts, DatagramsOnDisk
  <1>6. CASE UNCHANGED <<inflight, skipped>>
    BY <1>1, <1>2, <1>6 DEF DatagramsOnDisk
  <1>7. \/ UNCHANGED <<inflight, skipped>>
        \/ \E s \in Sites : Serve(s)
        \/ ReceiveLive \/ ReceiveSkipped \/ Exit \/ Crash
    BY WebFrame, LedgerFrame DEF AddSite, Repair, Boot, Sync, Flush, web, ghosts
  <1>. QED
    BY <1>3, <1>4, <1>5, <1>6, <1>7

(* The elements of a part of a sequence.                                   *)
LEMMA RangeOfSubSeq ==
    ASSUME NEW S, NEW q \in Seq(S), NEW m \in Nat, NEW n \in Nat, n <= Len(q)
    PROVE  Range(SubSeq(q, m + 1, n)) = {q[i] : i \in m + 1 .. n}
  <1>1. \A i \in m + 1 .. n : q[i] \in S
    OBVIOUS
  <1>. DEFINE t == SubSeq(q, m + 1, n)
  <1>2. /\ t \in Seq(S)
        /\ Len(t) = IF m + 1 <= n THEN n - m ELSE 0
        /\ \A j \in 1 .. n - m : t[j] = q[m + j]
    <2>1. /\ t \in Seq(S)
          /\ Len(t) = IF m + 1 <= n THEN n - (m + 1) + 1 ELSE 0
          /\ \A j \in 1 .. n - (m + 1) + 1 : t[j] = q[m + 1 + j - 1]
      BY <1>1, SubSeqProperties
    <2>2. n - (m + 1) + 1 = n - m
      OBVIOUS
    <2>3. \A j \in 1 .. n - m : m + 1 + j - 1 = m + j
      OBVIOUS
    <2>. QED
      BY <2>1, <2>2, <2>3
  <1>. HIDE DEF t
  <1>3. Range(t) = {t[j] : j \in 1 .. Len(t)}
    BY <1>2, RangeEquality
  <1>4. \A j \in 1 .. Len(t) : m + j \in m + 1 .. n /\ t[j] = q[m + j]
    BY <1>2
  <1>5. ASSUME NEW i \in m + 1 .. n
        PROVE  i - m \in 1 .. Len(t) /\ t[i - m] = q[i]
    <2>1. i - m \in 1 .. n - m /\ Len(t) = n - m /\ m + (i - m) = i
      BY <1>2
    <2>. QED
      BY <2>1, <1>2
  <1>. QED
    BY <1>3, <1>4, <1>5, SMTT(30) DEF t

(* The lines of site s from the cursor to a new one.                       *)
Lines(s, end) == {disk[s][i] : i \in cursor[s] + 1 .. end}

LEMMA BatchEffect ==
    ASSUME TypeInv, NEW s \in Sites, ReadBatch(s)
    PROVE  \E end \in Nat :
              /\ cursor[s] <= end /\ end <= Len(disk[s])
              /\ cursor' = [cursor EXCEPT ![s] = end]
              /\ imported' = imported \cup Lines(s, end)
              /\ reimported' = reimported \cup (imported \cap Lines(s, end))
  <1>. DEFINE end == IF cursor[s] + BatchSize < Len(disk[s])
                     THEN cursor[s] + BatchSize ELSE Len(disk[s])
              batch == Range(SubSeq(disk[s], cursor[s] + 1, end))
  <1>1. /\ cursor[s] \in Nat /\ Len(disk[s]) \in Nat /\ disk[s] \in Seq(Request)
        /\ cursor[s] <= Len(disk[s])
    BY TypeParts, Logs DEF HistoryTypes, CursorType
  <1>2. end \in Nat /\ cursor[s] <= end /\ end <= Len(disk[s])
    BY <1>1, ServerAssumption
  <1>3. /\ cursor' = [cursor EXCEPT ![s] = end]
        /\ imported' = imported \cup batch
        /\ reimported' = reimported \cup (imported \cap batch)
    BY DEF ReadBatch
  <1>. HIDE DEF end
  <1>4. batch = Lines(s, end)
    <2>1. \A q \in Seq(Request) : \A m, n \in Nat : n <= Len(q) =>
             Range(SubSeq(q, m + 1, n)) = {q[i] : i \in m + 1 .. n}
      BY RangeOfSubSeq
    <2>2. batch = {disk[s][i] : i \in cursor[s] + 1 .. end}
      BY <1>1, <1>2, <2>1, Zenon
    <2>. QED
      BY <2>2 DEF Lines
  <1>. QED
    BY <1>2, <1>3, <1>4

(* Whoever reads a batch reads it of a site whose import has begun and is  *)
(* not complete.                                                           *)
Reads(s) ==
    /\ ReadBatch(s)
    /\ \/ Commit /\ s = at /\ s \in pending /\ pc # "update"
       \/ OtherReads(s)

LEMMA ReadsFrame ==
    ASSUME TypeInv, NEW s \in Sites, Reads(s)
    PROVE  /\ UNCHANGED <<disk, served, status, elsewhere, pending, done, deferred>>
           /\ OtherReads(s) => status[s] = "running"
  <1>1. CASE Commit
    BY <1>1 DEF Commit, web, ghosts, round, OtherReads
  <1>2. CASE OtherReads(s)
    <2>1. elsewhere' = elsewhere
      BY <1>2 DEF OtherReads, Reads, ReadBatch, AtEnd
    <2>. QED
      BY <1>2, <2>1 DEF OtherReads, web, ghosts, round
  <1>. QED
    BY <1>1, <1>2 DEF Reads

LEMMA CommitReads == TypeInv /\ Commit => at \in Sites /\ Reads(at)
  BY TypeParts DEF Commit, Reads, Collecting, ThreadTypes, ThreadState

LEMMA CursorsStep ==
    TypeInv /\ Cursors /\ NeverReimported /\ [Next]_vars => Cursors' /\ NeverReimported'
  <1>. SUFFICES ASSUME TypeInv, Cursors, NeverReimported, [Next]_vars
                PROVE  /\ ImportedBelowCursor' /\ BelowCursorImported'
                       /\ NothingBeforeBegin' /\ NeverReimported'
    BY DiskStep, DatagramsStep DEF Cursors
  <1>. USE DEF Cursors, ImportedBelowCursor, BelowCursorImported,
               NothingBeforeBegin, NeverReimported
  <1>1. /\ imported \subseteq Request /\ pending \subseteq Sites
        /\ \A s \in Sites : cursor[s] \in Nat /\ cursor[s] <= Len(disk[s])
        /\ \A r \in Request : r.site \in Sites
        /\ cursor \in [Sites -> Nat]
        /\ status \in [Sites -> {"absent", "running", "complete"}]
    BY TypeParts DEF HistoryTypes, CursorType, ThreadTypes, Request
  <1>2. \A s \in Sites : \A i \in 1 .. cursor[s] : disk'[s][i] = disk[s][i]
    BY <1>1, DiskStays, Logs
  <1>3. CASE Begin
    <2>1. /\ pending' = {s \in job : status[s] # "complete"}
          /\ status' = [s \in Sites |-> IF s \in pending' THEN "running" ELSE status[s]]
          /\ cursor' = [s \in Sites |-> IF s \in pending' /\ status[s] = "absent"
                                        THEN 0 ELSE cursor[s]]
          /\ UNCHANGED <<disk, imported, reimported>>
          /\ job \subseteq Sites
      BY <1>3, TypeParts DEF Begin, Starts, web, ThreadTypes
    <2>2. \A r \in imported : status[r.site] # "absent" /\ r.site \in Sites
      BY <1>1
    <2>3. ImportedBelowCursor'
      BY <2>1, <2>2
    <2>4. BelowCursorImported'
      BY <2>1
    <2>5. NothingBeforeBegin' /\ NeverReimported'
      BY <2>1, <2>2
    <2>. QED
      BY <2>3, <2>4, <2>5
  <1>4. ASSUME NEW t \in Sites, Reads(t)
        PROVE  /\ ImportedBelowCursor' /\ BelowCursorImported'
               /\ NothingBeforeBegin' /\ NeverReimported'
    <2>1. status[t] # "absent" /\ UNCHANGED <<disk, status, pending>>
      BY <1>4, ReadsFrame DEF Reads
    <2>2. PICK end \in Nat :
            /\ cursor[t] <= end /\ end <= Len(disk[t])
            /\ cursor' = [cursor EXCEPT ![t] = end]
            /\ imported' = imported \cup Lines(t, end)
            /\ reimported' = reimported \cup (imported \cap Lines(t, end))
      BY <1>4, BatchEffect DEF Reads
    <2>3. \A r \in Lines(t, end) :
             /\ r.site = t /\ \E i \in 1 .. end : disk[t][i] = r
             /\ r \notin imported
      <3>1. ASSUME NEW i \in cursor[t] + 1 .. end
            PROVE  /\ disk[t][i].site = t /\ i \in 1 .. end
                   /\ disk[t][i] \notin imported
        <4>1. i \in DOMAIN disk[t] /\ i \in 1 .. end /\ i \notin 1 .. cursor[t]
          BY <1>1, <2>1, <2>2, Logs
        <4>2. \A j \in 1 .. cursor[t] : j \in DOMAIN disk[t]
          BY <1>1, <2>1, Logs
        <4>3. disk[t][i].site = t
          BY <2>1, <4>1 DEF DiskInOrder
        <4>4. disk[t][i] \notin imported
          BY <2>1, <4>1, <4>2, <4>3 DEF DiskInOrder
        <4>. QED
          BY <4>1, <4>3, <4>4
      <3>. QED
        BY <3>1 DEF Lines
    <2>4. NeverReimported'
      BY <2>2, <2>3
    <2>5. NothingBeforeBegin'
      BY <2>1, <2>2, <2>3
    <2>6. ASSUME NEW r \in imported'
          PROVE  \E i \in 1 .. cursor'[r.site] : disk'[r.site][i] = r
      <3>1. CASE r \in Lines(t, end)
        BY <1>1, <2>1, <2>2, <2>3, <3>1, SMTT(30)
      <3>2. CASE r \in imported
        <4>1. r.site \in Sites /\ cursor[r.site] <= cursor'[r.site]
              /\ cursor'[r.site] \in Nat
          BY <1>1, <2>1, <2>2, <3>2
        <4>. QED
          BY <1>1, <2>1, <3>2, <4>1, SMTT(30)
      <3>. QED
        BY <2>2, <2>6, <3>1, <3>2
    <2>7. ASSUME NEW s \in Sites, NEW i \in 1 .. cursor'[s]
          PROVE  disk'[s][i] \in imported'
      <3>1. CASE i \in 1 .. cursor[s]
        BY <2>1, <2>2, <3>1
      <3>2. CASE i \notin 1 .. cursor[s]
        <4>1. s = t /\ i \in cursor[t] + 1 .. end
          BY <1>1, <2>1, <2>2, <3>2
        <4>. QED
          BY <2>1, <2>2, <4>1 DEF Lines
      <3>. QED
        BY <3>1, <3>2
    <2>. QED
      BY <2>4, <2>5, <2>6, <2>7
  <1>5. ASSUME NEW s \in Sites, Complete(s) \/ OtherCompletes(s)
        PROVE  /\ ImportedBelowCursor' /\ BelowCursorImported'
               /\ NothingBeforeBegin' /\ NeverReimported'
    <2>1. /\ status' = [status EXCEPT ![s] = "complete"]
          /\ UNCHANGED <<disk, cursor, imported, reimported, pending>>
      BY <1>5 DEF Complete, OtherCompletes, web, round
    <2>. QED
      BY <1>1, <2>1
  <1>6. CASE OtherLocks
    <2>. DEFINE new == {s \in panel : status[s] # "complete"}
    <2>1. /\ status' = [s \in Sites |-> IF s \in new THEN "running" ELSE status[s]]
          /\ cursor' = [s \in Sites |-> IF s \in new /\ status[s] = "absent"
                                        THEN 0 ELSE cursor[s]]
          /\ UNCHANGED <<disk, imported, reimported, pending>>
      BY <1>6 DEF OtherLocks, Starts, web, round
    <2>. HIDE DEF new
    <2>2. \A r \in imported : status[r.site] # "absent" /\ r.site \in Sites
      BY <1>1
    <2>3. ImportedBelowCursor'
      BY <2>1, <2>2
    <2>4. BelowCursorImported'
      BY <2>1
    <2>5. NothingBeforeBegin' /\ NeverReimported'
      BY <1>1, <2>1, <2>2
    <2>. QED
      BY <2>3, <2>4, <2>5
  <1>7. CASE UNCHANGED <<status, cursor, imported, reimported>>
    <2>1. UNCHANGED <<status, cursor, imported, reimported>>
      BY <1>7
    <2>2. ImportedBelowCursor'
      BY <1>1, <1>2, <2>1
    <2>3. BelowCursorImported'
      BY <1>2, <2>1
    <2>4. pending' \subseteq pending \/ Begin
      BY DEF Next, Environment, Main, Import, ImportFails, vars, round,
             AddSite, Serve, Repair, Boot, Sync, ReceiveLive, ReceiveSkipped,
             Exit, Crash, Gone, ThreadOver, Other, OtherLocks, OtherReads,
             OtherCompletes, OtherUnlocks, Bind, SyncFails, Stop, Flush,
             TryLock, LockBusy, PublishStart, PublishBatch, PublishEnd,
             Publish, Tag, Round, Pick, OutOfBudget, SiteDone, SiteFails,
             RoundOver, RoundEnd, NextPending, Finish, ImportRaises, Commit,
             Complete
    <2>. QED
      BY <1>3, <2>1, <2>2, <2>3, <2>4
  <1>8. CASE Other
    BY <1>4, <1>5, <1>7, <1>6, <1>8
       DEF Other, OtherUnlocks, OtherReads, Reads
  <1>. QED
    BY <1>3, <1>4, <1>5, <1>7, <1>8, CommitReads, HistoryFrame DEF history

-----------------------------------------------------------------------------
(* Rounds and what is published of them.                                   *)

(* What is complete stays so.                                              *)
LEMMA CompleteStays ==
    ASSUME TypeInv, [Next]_vars, NEW s \in Sites, status[s] = "complete"
    PROVE  status'[s] = "complete"
  <1>1. status \in [Sites -> {"absent", "running", "complete"}]
    BY TypeParts DEF HistoryTypes
  <1>. QED
    BY <1>1, HistoryFrame
       DEF Begin, Starts, Complete, Commit, history, Other, OtherLocks,
           OtherUnlocks, OtherReads, OtherCompletes

LEMMA PendingIncompleteStep ==
    TypeInv /\ PendingIncomplete /\ [Next]_vars => PendingIncomplete'
  <1>. SUFFICES ASSUME TypeInv, PendingIncomplete, [Next]_vars
                PROVE  PendingIncomplete'
    OBVIOUS
  <1>. USE DEF PendingIncomplete
  <1>1. /\ status \in [Sites -> {"absent", "running", "complete"}]
        /\ pending \subseteq Sites /\ done \subseteq pending
        /\ lock # "import" => pending = {}
        /\ elsewhere # {} => lock = "other"
    BY TypeParts DEF HistoryTypes, ThreadTypes, ThreadState, OtherTypes
  <1>2. CASE Begin
    <2>1. /\ pending' = {s \in job : status[s] # "complete"}
          /\ status' = [s \in Sites |-> IF s \in pending' THEN "running" ELSE status[s]]
          /\ job \subseteq Sites
      BY <1>2, TypeParts DEF Begin, Starts, ThreadTypes
    <2>. QED
      BY <2>1
  <1>3. ASSUME NEW s \in Sites, Complete(s)
        PROVE  PendingIncomplete'
    BY <1>1, <1>3 DEF Complete, round
  <1>4. CASE RoundEnd
    BY <1>1, <1>4 DEF RoundEnd, NextPending, history
  <1>5. CASE pending' = {}
    BY <1>5
  <1>6. CASE UNCHANGED <<status, pending>>
               /\ (pc = "update" => pc' = "update" /\ done' = done)
    BY <1>6
  <1>7. CASE OtherLocks \/ \E s \in Sites : OtherCompletes(s)
    BY <1>1, <1>7 DEF OtherLocks, OtherCompletes, round
  <1>8. \/ Begin \/ RoundEnd \/ pending' = {} \/ \E s \in Sites : Complete(s)
        \/ OtherLocks \/ \E s \in Sites : OtherCompletes(s)
        \/ UNCHANGED <<status, pending>>
             /\ (pc = "update" => pc' = "update" /\ done' = done)
    BY DEF Next, Environment, Main, Import, ImportFails, vars, history, round,
           AddSite, Serve, Repair, Boot, Sync, Schedule, ReceiveLive,
           ReceiveSkipped, Exit, Crash, Gone, ThreadOver, Other, OtherLocks,
           OtherReads, OtherCompletes, OtherUnlocks, Bind, SyncFails, Stop,
           Flush, TryLock, LockBusy, PublishStart, PublishBatch, PublishEnd,
           Publish, Tag, Round, Pick, OutOfBudget, SiteDone, SiteFails,
           VisitOver, Collecting, RoundOver, Finish, ImportRaises, Commit
  <1>. QED
    BY <1>2, <1>3, <1>4, <1>5, <1>6, <1>8, <1>7

LEMMA JobCoveredStep == TypeInv /\ JobCovered /\ [Next]_vars => JobCovered'
  <1>. SUFFICES ASSUME TypeInv, JobCovered, [Next]_vars
                PROVE  JobCovered'
    OBVIOUS
  <1>. USE DEF JobCovered
  <1>1. job \subseteq Sites
    BY TypeParts DEF ThreadTypes
  <1>2. \A s \in job : status[s] = "complete" => status'[s] = "complete"
    BY <1>1, CompleteStays
  <1>3. CASE Begin
    BY <1>2, <1>3 DEF Begin
  <1>4. CASE RoundEnd
    BY <1>4 DEF RoundEnd, NextPending, history
  <1>5. CASE pc' \in {"none", "lock", "begin"}
    BY <1>5
  <1>6. CASE UNCHANGED <<job, pending>> /\ pc \notin {"none", "lock", "begin"}
    BY <1>2, <1>6
  <1>7. \/ Begin \/ RoundEnd \/ pc' \in {"none", "lock", "begin"}
        \/ UNCHANGED <<job, pending>> /\ pc \notin {"none", "lock", "begin"}
    BY DEF Next, Environment, Main, Import, ImportFails, vars, round, AddSite,
           Serve, Repair, Boot, Sync, Schedule, ReceiveLive, ReceiveSkipped,
           Exit, Crash, Gone, ThreadOver, Other, OtherLocks, OtherReads,
           OtherCompletes, OtherUnlocks, Bind, SyncFails, Stop, Flush,
           TryLock, LockBusy, PublishStart, PublishBatch, PublishEnd, Publish,
           Tag, Round, Pick, OutOfBudget, SiteDone, SiteFails, VisitOver,
           Collecting, RoundOver, Finish, ImportRaises, Commit, Complete
  <1>. QED
    BY <1>3, <1>4, <1>5, <1>6, <1>7

LEMMA DeferredReachedStep ==
    TypeInv /\ Cursors /\ DeferredReached /\ [Next]_vars => DeferredReached'
  <1>. SUFFICES ASSUME TypeInv, Cursors, DeferredReached, [Next]_vars
                PROVE  DeferredReached'
    OBVIOUS
  <1>. USE DEF DeferredReached
  <1>1. /\ deferred \subseteq skipped /\ skipped \subseteq Request
        /\ \A r \in Request : r.site \in Sites
        /\ status \in [Sites -> {"absent", "running", "complete"}]
    BY TypeParts DEF LedgerTypes, HistoryTypes, Request
  <1>2. CASE Begin \/ OtherLocks
    BY <1>1, <1>2 DEF Begin, OtherLocks, Starts, ghosts, round
  <1>3. ASSUME NEW s \in Sites, Reads(s)
        PROVE  DeferredReached'
    BY <1>3, ReadsFrame, BatchEffect DEF Reads
  <1>4. ASSUME NEW s \in Sites, Complete(s) \/ OtherCompletes(s)
        PROVE  DeferredReached'
    BY <1>1, <1>4 DEF Complete, OtherCompletes, round, ghosts
  <1>5. ASSUME NEW r \in deferred, AtEnd(r.site)
        PROVE  r \in imported
    <2>1. PICK i \in DOMAIN disk[r.site] : disk[r.site][i] = r
      BY <1>1 DEF Cursors, DatagramsOnDisk, Written
    <2>2. r.site \in Sites /\ i \in 1 .. cursor[r.site]
      BY <1>1, <1>5, <2>1, Logs DEF AtEnd
    <2>. QED
      BY <2>1, <2>2 DEF Cursors, BelowCursorImported
  <1>6. CASE SiteDone
    BY <1>5, <1>6 DEF SiteDone, history, ghosts
  <1>7. ASSUME NEW s \in Sites, OtherReads(s), ~ReadBatch(s)
         PROVE  DeferredReached'
    BY <1>5, <1>7 DEF OtherReads, ghosts, round
  <1>8. CASE ReceiveSkipped
    BY <1>8 DEF ReceiveSkipped, history, round
  <1>9. CASE /\ UNCHANGED <<status, imported, deferred>>
             /\ done' \subseteq done /\ elsewhere' \subseteq elsewhere
    BY <1>9
  <1>10. CASE Commit
    BY <1>3, <1>10, CommitReads
  <1>11. done' \subseteq done \/ SiteDone
    BY DEF Next, Environment, Main, Import, ImportFails, vars, round,
           AddSite, Serve, Repair, Boot, Sync, ReceiveLive, ReceiveSkipped,
           Exit, Crash, Gone, ThreadOver, Other, OtherLocks, OtherReads,
           OtherCompletes, OtherUnlocks, Bind, SyncFails, Stop, Flush,
           TryLock, LockBusy, PublishStart, PublishBatch, PublishEnd, Publish,
           Tag, Round, Pick, OutOfBudget, SiteFails, RoundOver, RoundEnd,
           Finish, ImportRaises, Begin, Commit, Complete
  <1>12. UNCHANGED deferred \/ ReceiveSkipped
    BY LedgerFrame DEF ReceiveLive, Flush, Crash, ghosts
  <1>13. \/ UNCHANGED history \/ Begin \/ Commit \/ OtherLocks
         \/ \E s \in Sites : Complete(s) \/ OtherCompletes(s) \/ OtherReads(s)
         \/ UNCHANGED <<status, imported>> /\ elsewhere' = {}
    BY HistoryFrame DEF Other, OtherUnlocks
  <1>. QED
    BY <1>2, <1>3, <1>4, <1>6, <1>7, <1>8, <1>9, <1>10, <1>11, <1>12, <1>13
       DEF Reads, history

LEMMA PublishedStep ==
    TypeInv /\ JobCovered /\ PublishedByThread /\ CompleteMeansAll /\ [Next]_vars
      => PublishedByThread' /\ CompleteMeansAll'
  <1>. SUFFICES ASSUME TypeInv, JobCovered, PublishedByThread, CompleteMeansAll,
                       [Next]_vars
                PROVE  PublishedByThread' /\ CompleteMeansAll'
    OBVIOUS
  <1>. USE DEF PublishedByThread, CompleteMeansAll, Idle
  <1>1. job \subseteq Sites
        /\ backfill \in [status : {"skipped", "running", "complete", "incomplete", "error"},
                         sites : SUBSET Sites]
    BY TypeParts DEF ThreadTypes, ServiceTypes
  <1>2. \A s \in job : status[s] = "complete" => status'[s] = "complete"
    BY <1>1, CompleteStays
  <1>3. CASE Boot \/ Sync
    <2>1. \/ UNCHANGED <<backfill, pc, job>>
          \/ /\ backfill'.status = "running" /\ backfill'.sites = job'
             /\ pc' = "lock"
      BY <1>3 DEF Boot, Sync, Schedule
    <2>. QED
      BY <1>2, <2>1
  <1>4. CASE LockBusy \/ ImportRaises \/ Exit \/ Crash
    BY <1>4 DEF LockBusy, ImportRaises, Exit, Crash, Gone, ThreadOver, round
  <1>5. CASE PublishStart \/ PublishBatch
    BY <1>1, <1>2, <1>5 DEF PublishStart, PublishBatch, Publish, Tag, round
  <1>6. CASE PublishEnd
    BY <1>1, <1>2, <1>6 DEF PublishEnd, Publish, Tag, round, JobCovered
  <1>7. CASE Finish
    BY <1>1, <1>2, <1>7 DEF Finish, ThreadOver
  <1>8. CASE UNCHANGED <<backfill, job>>
             /\ (pc \notin {"none", "tagEnd", "return"}
                   => pc' \notin {"none", "tagEnd", "return"})
             /\ (pc # "none" => pc' # "none")
    BY <1>1, <1>2, <1>8
  <1>9. \/ Boot \/ Sync \/ LockBusy \/ ImportRaises \/ Exit \/ Crash
        \/ PublishStart \/ PublishBatch \/ PublishEnd \/ Finish
        \/ UNCHANGED <<backfill, job>>
             /\ (pc \notin {"none", "tagEnd", "return"}
                   => pc' \notin {"none", "tagEnd", "return"})
             /\ (pc # "none" => pc' # "none")
    BY DEF Next, Environment, Main, Import, ImportFails, vars, round, AddSite,
           Serve, Repair, ReceiveLive, ReceiveSkipped, Other, OtherLocks,
           OtherReads, OtherCompletes, OtherUnlocks, Bind, SyncFails, Stop,
           Flush, TryLock, Begin, Round, Pick, OutOfBudget, SiteDone,
           SiteFails, VisitOver, RoundOver, RoundEnd, Commit, Complete
  <1>. QED
    BY <1>3, <1>4, <1>5, <1>6, <1>7, <1>8, <1>9

LEMMA ServerInit == Init => ServerInv
  <1>. SUFFICES ASSUME Init PROVE ServerInv
    OBVIOUS
  <1>1. TypeInv
    BY TypesInit
  <1>2. Cursors /\ NeverReimported
    BY DEF Init, Cursors, DiskInOrder, DatagramsOnDisk, ImportedBelowCursor,
           BelowCursorImported, NothingBeforeBegin, NeverReimported
  <1>3. Rounds
    BY DEF Init, Rounds, PendingIncomplete, JobCovered, DeferredReached,
           PublishedByThread, CompleteMeansAll, Idle
  <1>. QED
    BY <1>1, <1>2, <1>3 DEF ServerInv

LEMMA ServerStep == ServerInv /\ [Next]_vars => ServerInv'
  BY TypesStep, CursorsStep, PendingIncompleteStep, JobCoveredStep,
     DeferredReachedStep, PublishedStep
     DEF ServerInv, Rounds

LEMMA ServerAlways == Spec => []ServerInv
  BY ServerInit, ServerStep, PTL DEF Spec

(* No line of an access log is imported twice.                             *)
THEOREM ImportedOnce == Spec => []NeverReimported
  <1>1. ServerInv => NeverReimported
    BY DEF ServerInv
  <1>. QED
    BY <1>1, ServerAlways, PTL

(* A request discarded before the import has read it is imported when the  *)
(* site is complete.                                                       *)
THEOREM Deferred == Spec => []DeferredIsImported
  <1>1. ServerInv => DeferredIsImported
    BY DEF ServerInv, Rounds, DeferredReached, DeferredIsImported
  <1>. QED
    BY <1>1, ServerAlways, PTL

(* A published "complete" covers every site of the job.                    *)
THEOREM CompleteCoversJob == Spec => []CompleteMeansAll
  <1>1. ServerInv => CompleteMeansAll
    BY DEF ServerInv, Rounds
  <1>. QED
    BY <1>1, ServerAlways, PTL

(* The main thread discards only while the import thread lives.            *)
THEOREM DiscardOnlyWhileImporting == Spec => []NoImportNoDiscard
  <1>1. ServerInv => NoImportNoDiscard
    BY DEF ServerInv, Rounds, PublishedByThread, NoImportNoDiscard, Discards
  <1>. QED
    BY <1>1, ServerAlways, PTL

(* A complete import is final.                                             *)
THEOREM Final == Spec => CompleteIsFinal
  <1>. DEFINE Stays ==
         \A s \in Sites : status[s] = "complete" =>
             /\ status'[s] = "complete"
             /\ {r \in imported' : r.site = s} = {r \in imported : r.site = s}
  <1>1. ASSUME ServerInv, [Next]_vars PROVE Stays
    <2>1. TypeInv /\ DiskInOrder /\ PendingIncomplete
      BY <1>1 DEF ServerInv, Cursors, Rounds
    <2>2. \A s \in Sites : status[s] = "complete" => status'[s] = "complete"
      BY <1>1, <2>1, CompleteStays
    <2>3. ASSUME NEW t \in Sites, Reads(t) PROVE Stays
      <3>1. status[t] # "complete"
        BY <2>1, <2>3, ReadsFrame DEF PendingIncomplete, Reads
      <3>2. PICK end \in Nat :
              end <= Len(disk[t]) /\ imported' = imported \cup Lines(t, end)
        BY <2>1, <2>3, BatchEffect DEF Reads
      <3>3. \A r \in Lines(t, end) : r.site = t
        <4>1. cursor[t] \in Nat
          BY <2>1, TypeParts DEF HistoryTypes, CursorType
        <4>2. \A i \in cursor[t] + 1 .. end : i \in DOMAIN disk[t]
          BY <2>1, <3>2, <4>1, Logs
        <4>. QED
          BY <2>1, <4>2 DEF Lines, DiskInOrder
      <3>. QED
        BY <2>2, <3>1, <3>2, <3>3
    <2>4. CASE imported' = imported
      BY <2>2, <2>4
    <2>. QED
      BY <1>1, <2>1, <2>3, <2>4, CommitReads, HistoryFrame
         DEF Begin, Complete, history, Other, OtherLocks, OtherUnlocks,
             OtherReads, OtherCompletes, Reads
  <1>2. ServerInv /\ [Next]_vars => [Stays]_vars
    BY <1>1
  <1>. QED
    BY <1>2, ServerAlways, PTL DEF Spec, CompleteIsFinal
=============================================================================
