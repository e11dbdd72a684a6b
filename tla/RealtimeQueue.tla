--------------------------- MODULE RealtimeQueue ----------------------------
(***************************************************************************)
(* core/realtime_queue.py: the bounded queue between the socket loop and   *)
(* the statistics database.                                                *)
(*                                                                         *)
(* Two threads.  The main thread calls submit() for every datagram and     *)
(* stop() when the service ends; it is the only producer.  The writer      *)
(* thread runs _worker(): it moves items from the queue to its pending     *)
(* batch and flushes the batch, one transaction per site, when the batch   *)
(* is full or the deadline has passed.  A step of this specification is    *)
(* what one thread does between two points at which the other can see it.  *)
(*                                                                         *)
(* Time is the flag "due": now >= deadline.  The order in which a flush    *)
(* visits the sites of a batch (the insertion order of a dict) is left     *)
(* open.  committed stands for the database; failed and refused are        *)
(* history variables, which no step of the code reads.                     *)
(***************************************************************************)
EXTENDS Naturals, Sequences, FiniteSets

CONSTANTS Sites,      (* the internal site ids                             *)
          QueueSize,  (* max_size of the queue                             *)
          FlushSize,  (* events in a batch that force a flush              *)
          MaxEvents,  (* bound: events offered to submit()                 *)
          None        (* the item stop() puts to wake the writer           *)

Event == [site : Sites, id : 1 .. MaxEvents]

ASSUME QueueAssumption ==
    /\ QueueSize \in Nat \ {0}   (* clamped to 1000..200000 *)
    /\ FlushSize \in Nat \ {0}   (* clamped to 50..5000 *)
    /\ MaxEvents \in Nat
    /\ None \notin Event

VARIABLES
    items,        (* queue.Queue, a FIFO of events and None                *)
    running,      (* the flag both threads read and write                  *)
    producer,     (* where the main thread is                              *)
    worker,       (* where the writer thread is                            *)
    due,          (* now >= deadline                                       *)
    pending,      (* events of the batch not yet written                   *)
    total,        (* events of the batch already written by this flush     *)
    committed,    (* events in the database                                *)
    failed,       (* events given up by a flush that raised                *)
    refused,      (* events submit() returned False for                    *)
    submitted,    (* how many events were offered                          *)
    accepted, processed, dropped, writeErrors   (* the counters of snapshot() *)

counters == <<accepted, processed, dropped, writeErrors>>
vars == <<items, running, producer, worker, due, pending, total, committed,
          failed, refused, submitted, accepted, processed, dropped, writeErrors>>

-----------------------------------------------------------------------------
(* Mutated forms of the definitions below, one per plausible slip in the   *)
(* code; nothing here is part of the specification.                        *)

(* the capacity test off by one *)
HasRoomOffByOne == Len(items) <= QueueSize

(* a LIFO queue *)
SubmitPutInFront(s) ==
    /\ producer = "idle" /\ submitted < MaxEvents
    /\ Len(items) < QueueSize
    /\ items' = <<[site |-> s, id |-> submitted + 1]>> \o items
    /\ submitted' = submitted + 1
    /\ producer' = "count"
    /\ UNCHANGED <<running, worker, due, pending, total, committed, failed,
                   refused, counters>>

(* stop() counts on None alone *)
StopFlagForgotten ==
    /\ producer = "idle" /\ running
    /\ producer' = "wake"
    /\ UNCHANGED <<items, running, worker, due, pending, total, committed,
                   failed, refused, submitted, counters>>

(* the loop ends with the flag, whatever is queued *)
LoopTestFlagOnly ==
    /\ producer # "exited" /\ worker = "loop"
    /\ worker' = IF running THEN "get"
                 ELSE IF pending # {} THEN "final"
                 ELSE "done"
    /\ UNCHANGED <<items, running, producer, due, pending, total, committed,
                   failed, refused, submitted, counters>>

(* None is not told from an event *)
GetEventAnyItem ==
    /\ producer # "exited" /\ worker = "get"
    /\ items # << >>
    /\ items' = Tail(items)
    /\ pending' = pending \cup {Head(items)}
    /\ worker' = "check"
    /\ UNCHANGED <<running, producer, due, total, committed, failed, refused,
                   submitted, counters>>

(* only a full batch is flushed *)
MustFlushWhenFull == pending # {} /\ Cardinality(pending) >= FlushSize

(* the batch is not cleared *)
FlushSiteKeepsBatch(s) ==
    /\ producer # "exited" /\ worker \in {"flush", "final"}
    /\ {e \in pending : e.site = s} # {}
    /\ committed' = committed \cup {e \in pending : e.site = s}
    /\ total' = total + Cardinality({e \in pending : e.site = s})
    /\ UNCHANGED <<items, running, producer, worker, due, pending, failed,
                   refused, submitted, counters>>

(* the events of every site are written under the first one *)
FlushSiteWritesAll(s) ==
    /\ producer # "exited" /\ worker \in {"flush", "final"}
    /\ {e \in pending : e.site = s} # {}
    /\ committed' = committed \cup pending
    /\ pending' = {}
    /\ total' = total + Cardinality(pending)
    /\ UNCHANGED <<items, running, producer, worker, due, failed, refused,
                   submitted, counters>>

(* finally instead of else: a failed batch is counted as processed *)
FlushFailsCounted ==
    /\ producer # "exited" /\ worker \in {"flush", "final"}
    /\ pending # {}
    /\ failed' = failed \cup pending
    /\ pending' = {}
    /\ total' = 0
    /\ processed' = processed + total + Cardinality(pending)
    /\ writeErrors' = writeErrors + 1
    /\ worker' = IF worker = "flush" THEN "loop" ELSE "done"
    /\ UNCHANGED <<items, running, producer, due, committed, refused,
                   submitted, accepted, dropped>>

(* the exception is swallowed without a trace *)
FlushFailsSilently ==
    /\ producer # "exited" /\ worker \in {"flush", "final"}
    /\ pending # {}
    /\ failed' = failed \cup pending
    /\ pending' = {}
    /\ total' = 0
    /\ worker' = IF worker = "flush" THEN "loop" ELSE "done"
    /\ UNCHANGED <<items, running, producer, due, committed, refused,
                   submitted, counters>>

-----------------------------------------------------------------------------
Queued == {items[i] : i \in DOMAIN items} \ {None}

(* Accepted and neither written nor given up.                              *)
Unsettled == Queued \cup pending
Settled   == committed \cup failed

HasRoom == Len(items) < QueueSize
Alive   == producer # "exited"     (* the writer is a daemon thread *)

OfSite(s) == {e \in pending : e.site = s}

TypeOK ==
    /\ items \in Seq(Event \cup {None})
    /\ running \in BOOLEAN
    /\ producer \in {"idle", "count", "wake", "join", "closing", "exited"}
    /\ worker \in {"loop", "get", "check", "flush", "final", "done"}
    /\ due \in BOOLEAN
    /\ pending \subseteq Event
    /\ committed \subseteq Event
    /\ failed \subseteq Event
    /\ refused \subseteq Event
    /\ submitted \in 0 .. MaxEvents
    /\ total \in Nat /\ accepted \in Nat /\ processed \in Nat
    /\ dropped \in Nat /\ writeErrors \in Nat

(* start() has been called: the flag is set and the writer is about to run. *)
Init ==
    /\ items = << >>
    /\ running = TRUE
    /\ producer = "idle"
    /\ worker = "loop"
    /\ due = FALSE
    /\ pending = {} /\ committed = {} /\ failed = {} /\ refused = {}
    /\ submitted = 0 /\ total = 0
    /\ accepted = 0 /\ processed = 0 /\ dropped = 0 /\ writeErrors = 0

-----------------------------------------------------------------------------
(* The main thread.                                                        *)

NewEvent(s) == [site |-> s, id |-> submitted + 1]

(* submit(): put_nowait succeeds.  The writer may take the event before    *)
(* the counter is incremented.                                             *)
SubmitPut(s) ==
    /\ producer = "idle" /\ submitted < MaxEvents
    /\ HasRoom
    /\ items' = Append(items, NewEvent(s))
    /\ submitted' = submitted + 1
    /\ producer' = "count"
    /\ UNCHANGED <<running, worker, due, pending, total, committed, failed,
                   refused, counters>>

SubmitCount ==
    /\ producer = "count"
    /\ accepted' = accepted + 1
    /\ producer' = "idle"
    /\ UNCHANGED <<items, running, worker, due, pending, total, committed,
                   failed, refused, submitted, processed, dropped, writeErrors>>

(* submit(): queue.Full.                                                   *)
SubmitFull(s) ==
    /\ producer = "idle" /\ submitted < MaxEvents
    /\ ~HasRoom
    /\ refused' = refused \cup {NewEvent(s)}
    /\ submitted' = submitted + 1
    /\ dropped' = dropped + 1
    /\ UNCHANGED <<items, running, producer, worker, due, pending, total,
                   committed, failed, accepted, processed, writeErrors>>

(* stop(), from the finally clause of the service.                         *)
StopFlag ==
    /\ producer = "idle" /\ running
    /\ running' = FALSE
    /\ producer' = "wake"
    /\ UNCHANGED <<items, worker, due, pending, total, committed, failed,
                   refused, submitted, counters>>

(* A full queue needs no wake-up: the put is skipped.                      *)
StopWake ==
    /\ producer = "wake"
    /\ items' = IF HasRoom THEN Append(items, None) ELSE items
    /\ producer' = "join"
    /\ UNCHANGED <<running, worker, due, pending, total, committed, failed,
                   refused, submitted, counters>>

(* join(timeout) returns because the writer has ended ...                  *)
StopJoin ==
    /\ producer = "join" /\ worker = "done"
    /\ producer' = "closing"
    /\ UNCHANGED <<items, running, worker, due, pending, total, committed,
                   failed, refused, submitted, counters>>

(* ... or because 15 seconds have passed; the writer is still at work.     *)
StopTimeout ==
    /\ producer = "join" /\ worker # "done"
    /\ producer' = "closing"
    /\ UNCHANGED <<items, running, worker, due, pending, total, committed,
                   failed, refused, submitted, counters>>

(* The process ends, and the daemon thread with it.                        *)
Exit ==
    /\ producer = "closing"
    /\ producer' = "exited"
    /\ UNCHANGED <<items, running, worker, due, pending, total, committed,
                   failed, refused, submitted, counters>>

-----------------------------------------------------------------------------
(* The writer thread.                                                      *)

(* The condition of the loop and, when it fails, the flush after it.       *)
LoopTest ==
    /\ Alive /\ worker = "loop"
    /\ worker' = IF running \/ items # << >> THEN "get"
                 ELSE IF pending # {} THEN "final"
                 ELSE "done"
    /\ UNCHANGED <<items, running, producer, due, pending, total, committed,
                   failed, refused, submitted, counters>>

GetEvent ==
    /\ Alive /\ worker = "get"
    /\ items # << >> /\ Head(items) # None
    /\ items' = Tail(items)
    /\ pending' = pending \cup {Head(items)}
    /\ worker' = "check"
    /\ UNCHANGED <<running, producer, due, total, committed, failed, refused,
                   submitted, counters>>

GetNone ==
    /\ Alive /\ worker = "get"
    /\ items # << >> /\ Head(items) = None
    /\ items' = Tail(items)
    /\ running' = FALSE
    /\ worker' = "loop"
    /\ UNCHANGED <<producer, due, pending, total, committed, failed, refused,
                   submitted, counters>>

(* get() waits until the deadline before it raises queue.Empty.            *)
GetEmpty ==
    /\ Alive /\ worker = "get"
    /\ items = << >> /\ due
    /\ worker' = "check"
    /\ UNCHANGED <<items, running, producer, due, pending, total, committed,
                   failed, refused, submitted, counters>>

MustFlush == pending # {} /\ (Cardinality(pending) >= FlushSize \/ due)

(* Either branch leaves a deadline in the future; a flush computes it from *)
(* a time read before it starts, so it may pass while the flush runs.      *)
CheckBatch ==
    /\ Alive /\ worker = "check"
    /\ worker' = IF MustFlush THEN "flush" ELSE "loop"
    /\ due' = FALSE
    /\ UNCHANGED <<items, running, producer, pending, total, committed,
                   failed, refused, submitted, counters>>

Flushing == Alive /\ worker \in {"flush", "final"}

AfterFlush == IF worker = "flush" THEN "loop" ELSE "done"

(* record_live_batch() commits the events of one site.                     *)
FlushSite(s) ==
    /\ Flushing
    /\ OfSite(s) # {}
    /\ committed' = committed \cup OfSite(s)
    /\ pending' = pending \ OfSite(s)
    /\ total' = total + Cardinality(OfSite(s))
    /\ UNCHANGED <<items, running, producer, worker, due, failed, refused,
                   submitted, counters>>

(* record_live_batch() raises: its transaction is rolled back and the rest *)
(* of the batch is never written.  The sites already written stay written, *)
(* and are not added to processed.                                         *)
FlushFails ==
    /\ Flushing
    /\ pending # {}
    /\ failed' = failed \cup pending
    /\ pending' = {}
    /\ total' = 0
    /\ writeErrors' = writeErrors + 1
    /\ worker' = AfterFlush
    /\ UNCHANGED <<items, running, producer, due, committed, refused,
                   submitted, accepted, processed, dropped>>

FlushDone ==
    /\ Flushing
    /\ pending = {}
    /\ processed' = processed + total
    /\ total' = 0
    /\ worker' = AfterFlush
    /\ UNCHANGED <<items, running, producer, due, pending, committed, failed,
                   refused, submitted, accepted, dropped, writeErrors>>

-----------------------------------------------------------------------------
(* The clock reaches the deadline.                                         *)
DeadlinePasses ==
    /\ ~due
    /\ due' = TRUE
    /\ UNCHANGED <<items, running, producer, worker, pending, total, committed,
                   failed, refused, submitted, counters>>

(* The process is gone: nothing happens any more.                          *)
Over == ~Alive /\ UNCHANGED vars

Closing == SubmitCount \/ StopWake \/ StopJoin \/ Exit
Main    == (\E s \in Sites : SubmitPut(s) \/ SubmitFull(s)) \/ StopFlag
           \/ StopTimeout \/ Closing
Flush   == (\E s \in Sites : FlushSite(s)) \/ FlushFails \/ FlushDone
Worker  == LoopTest \/ GetEvent \/ GetNone \/ GetEmpty \/ CheckBatch \/ Flush

Next == Main \/ Worker \/ DeadlinePasses \/ Over

Spec == Init /\ [][Next]_vars

(* Both threads are scheduled and time passes.  Nothing obliges the main   *)
(* thread to receive another datagram or to stop, and no fairness helps    *)
(* the join to give up: a stop that has begun must end without it.         *)
FairSpec == Spec /\ WF_vars(Worker) /\ WF_vars(DeadlinePasses) /\ WF_vars(Closing)
-----------------------------------------------------------------------------
(* Properties.                                                             *)

(* Conservation: every event ever offered to submit() is in exactly one    *)
(* place - the queue (once), the batch, the database, the events given up  *)
(* by a failed flush, or the events refused - whatever the two threads do  *)
(* and wherever a flush fails.  So nothing is recorded twice and nothing   *)
(* disappears between the queue and the batch.                             *)
EachEventInOnePlace ==
    /\ \A i, j \in DOMAIN items : items[i] = items[j] => i = j
    /\ Queued \cap pending = {}
    /\ Unsettled \cap Settled = {}
    /\ committed \cap failed = {}
    /\ refused \cap (Unsettled \cup Settled) = {}
    /\ {e.id : e \in Unsettled \cup Settled \cup refused} = 1 .. submitted
    /\ \A e, f \in Unsettled \cup Settled \cup refused : e.id = f.id => e = f

(* The events of a site are settled in the order they were submitted: no   *)
(* event is written (or given up) while an older one of its site is still  *)
(* in the queue or in the batch, across flushes, failures and the drain.   *)
SettledInOrder ==
    \A e \in Settled, f \in Unsettled : e.site = f.site => e.id < f.id

(* The counters a snapshot shows add up.  Between two calls of submit(),   *)
(* which is when the service takes a snapshot, accepted covers every event *)
(* that is queued, in the batch, written or given up, and processed never  *)
(* exceeds what is written; with no write error it is exactly what the     *)
(* finished flushes wrote.                                                 *)
CountersAddUp ==
    /\ accepted + (IF producer = "count" THEN 1 ELSE 0)
         = Cardinality(Unsettled) + Cardinality(Settled)
    /\ dropped = Cardinality(refused)
    /\ processed + total <= Cardinality(committed)
    /\ writeErrors = 0 => processed + total = Cardinality(committed)

(* Memory is bounded on both sides of the hand-over: the queue by its      *)
(* capacity, None included, and the batch by flush_size, because the       *)
(* writer tests the batch after every single event.                        *)
BoundedMemory == Len(items) <= QueueSize /\ Cardinality(pending) <= FlushSize

(* The writer never ends with work left: when _worker() has returned, no   *)
(* accepted event is in the queue or in the batch, although stop() clears  *)
(* the flag and puts None in two steps, and skips the put when the queue   *)
(* is full.  (None itself may stay behind.)                                *)
DrainedWhenDone == worker = "done" => Unsettled = {}

(* What the dashboard's queue badge relies on: if neither counter of       *)
(* trouble moved and the writer has ended, everything offered is in the    *)
(* database and processed says so.                                         *)
CleanCountersMeanNoLoss ==
    worker = "done" /\ writeErrors = 0 /\ dropped = 0 /\ producer # "count"
      => /\ Cardinality(committed) = submitted
         /\ processed = submitted

(* No accepted event waits for ever: as long as the process lives it is    *)
(* written or given up, even when no further datagram arrives and the      *)
(* batch never reaches flush_size.                                         *)
EventuallySettled ==
    \A e \in Event : e \in Unsettled ~> (e \in Settled \/ ~Alive)

(* stop() returns and the process ends, and does not need the timeout of   *)
(* the join for it: the writer cannot sleep through a shutdown, even when  *)
(* the queue is full and None is never put.                                *)
StopReturns == producer = "wake" ~> ~Alive

(* The queue, the two threads and the flush implement the ledger: what is  *)
(* in the queue or the batch is open, and leaving the process abandons it. *)
Ledger == INSTANCE LiveLedger WITH
    open     <- IF Alive THEN Unsettled ELSE {},
    recorded <- committed,
    lost     <- failed \cup (IF Alive THEN {} ELSE Unsettled)

ImplementsLedger == Ledger!LedgerSpec
=============================================================================
