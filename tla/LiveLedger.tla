----------------------------- MODULE LiveLedger -----------------------------
(***************************************************************************)
(* What the live counting path promises its callers, whatever queue,       *)
(* thread and flush policy sit behind submit(): an event is accepted or    *)
(* refused once; an accepted event stays open until it is settled, and it  *)
(* is settled once, recorded in the statistics or lost; the events of one  *)
(* site are settled in the order they were accepted; and events of one     *)
(* site that are recorded together appear in one transaction.              *)
(*                                                                         *)
(* RealtimeQueue implements this specification.                            *)
(***************************************************************************)
EXTENDS Naturals

CONSTANTS Sites,     (* the internal site ids                              *)
          MaxEvents  (* how many events the environment offers             *)

VARIABLES open,      (* accepted, neither recorded nor lost yet            *)
          recorded,  (* counted in the statistics database                 *)
          lost,      (* accepted and given up                              *)
          refused    (* never accepted: the queue was full                 *)

ledgerVars == <<open, recorded, lost, refused>>

(* An event is its site and its rank in the order of submission.           *)
Event == [site : Sites, id : 1 .. MaxEvents]

LedgerTypeOK == /\ open \subseteq Event
                /\ recorded \subseteq Event
                /\ lost \subseteq Event
                /\ refused \subseteq Event

Seen == open \cup recorded \cup lost \cup refused

IsNew(e) == \A f \in Seen : f.id < e.id

(* A set of open events that leaves no older open event of its sites.      *)
IsPrefix(batch) ==
    /\ batch # {}
    /\ batch \subseteq open
    /\ \A e \in batch, f \in open \ batch : e.site = f.site => e.id < f.id

LedgerInit == open = {} /\ recorded = {} /\ lost = {} /\ refused = {}

Accept(e) == /\ IsNew(e)
             /\ open' = open \cup {e}
             /\ UNCHANGED <<recorded, lost, refused>>

Refuse(e) == /\ IsNew(e)
             /\ refused' = refused \cup {e}
             /\ UNCHANGED <<open, recorded, lost>>

(* One transaction of the repository: a batch of one site.                 *)
Record(batch) == /\ IsPrefix(batch)
                 /\ \A e, f \in batch : e.site = f.site
                 /\ open' = open \ batch
                 /\ recorded' = recorded \cup batch
                 /\ UNCHANGED <<lost, refused>>

Lose(batch) == /\ IsPrefix(batch)
               /\ open' = open \ batch
               /\ lost' = lost \cup batch
               /\ UNCHANGED <<recorded, refused>>

LedgerNext == \/ \E e \in Event : Accept(e) \/ Refuse(e)
              \/ \E batch \in SUBSET open : Record(batch) \/ Lose(batch)

LedgerSpec == LedgerInit /\ [][LedgerNext]_ledgerVars
=============================================================================
