------------------------ MODULE RealtimeQueue_proofs ------------------------
(***************************************************************************)
(* Proofs about RealtimeQueue, for every set of sites, every capacity,     *)
(* every flush size and every number of events.                            *)
(***************************************************************************)
EXTENDS RealtimeQueue, FiniteSetTheorems, TLAPS

Item == Event \cup {None}

-----------------------------------------------------------------------------
(* The queue as a sequence.                                                *)

(* put_nowait adds exactly the new item to the contents of the queue.      *)
LEMMA ElementsAppend ==
    ASSUME NEW S, NEW q \in Seq(S), NEW x \in S
    PROVE  {Append(q, x)[i] : i \in DOMAIN Append(q, x)}
             = {q[i] : i \in DOMAIN q} \cup {x}
  <1>1. /\ Append(q, x) \in Seq(S)
        /\ Len(Append(q, x)) = Len(q) + 1
        /\ \A i \in 1 .. Len(q) : Append(q, x)[i] = q[i]
        /\ Append(q, x)[Len(q) + 1] = x
    OBVIOUS
  <1>2. DOMAIN q = 1 .. Len(q) /\ DOMAIN Append(q, x) = 1 .. (Len(q) + 1)
    BY <1>1
  <1>3. Len(q) \in Nat
    OBVIOUS
  <1>. QED
    BY <1>1, <1>2, <1>3

(* get() removes exactly the head, when no item is queued twice.           *)
LEMMA ElementsTail ==
    ASSUME NEW S, NEW q \in Seq(S), q # << >>,
           \A i, j \in DOMAIN q : q[i] = q[j] => i = j
    PROVE  {Tail(q)[i] : i \in DOMAIN Tail(q)}
             = {q[i] : i \in DOMAIN q} \ {Head(q)}
  <1>1. /\ Tail(q) \in Seq(S)
        /\ Len(Tail(q)) = Len(q) - 1
        /\ \A i \in 1 .. Len(Tail(q)) : Tail(q)[i] = q[i + 1]
    OBVIOUS
  <1>2. DOMAIN q = 1 .. Len(q) /\ DOMAIN Tail(q) = 1 .. (Len(q) - 1)
    BY <1>1
  <1>3. Len(q) \in Nat \ {0} /\ Head(q) = q[1]
    OBVIOUS
  <1>4. ASSUME NEW i \in DOMAIN Tail(q)
        PROVE  Tail(q)[i] \in {q[j] : j \in DOMAIN q} \ {Head(q)}
    <2>1. i + 1 \in DOMAIN q /\ 1 \in DOMAIN q /\ i + 1 # 1
      BY <1>2, <1>3
    <2>. QED
      BY <2>1, <1>1, <1>2, <1>3
  <1>5. ASSUME NEW j \in DOMAIN q, q[j] # Head(q)
        PROVE  \E i \in DOMAIN Tail(q) : Tail(q)[i] = q[j]
    <2>1. j - 1 \in DOMAIN Tail(q)
      BY <1>2, <1>3, <1>5
    <2>2. Tail(q)[j - 1] = q[j]
      BY <2>1, <1>1, <1>2, <1>3
    <2>. QED
      BY <2>1, <2>2
  <1>. QED
    BY <1>4, <1>5

-----------------------------------------------------------------------------
(* Types.  The three sets whose elements are counted stay finite, whatever *)
(* the set of sites.                                                       *)
AllFinite == IsFiniteSet(pending) /\ IsFiniteSet(committed) /\ IsFiniteSet(failed)
             /\ IsFiniteSet(refused)

TypeInv == TypeOK /\ AllFinite

LEMMA TypesInit == Init => TypeInv
  <1>. SUFFICES ASSUME Init PROVE TypeInv
    OBVIOUS
  <1>1. items \in Seq(Event \cup {None})
    BY DEF Init
  <1>2. submitted \in 0 .. MaxEvents
    BY QueueAssumption DEF Init
  <1>3. AllFinite
    BY FS_EmptySet DEF Init, AllFinite
  <1>. QED
    BY <1>1, <1>2, <1>3 DEF Init, TypeInv, TypeOK

LEMMA TypesStep == TypeInv /\ [Next]_vars => TypeInv'
  <1>. SUFFICES ASSUME TypeInv, [Next]_vars
                PROVE  TypeInv'
    OBVIOUS
  <1>. USE QueueAssumption DEF TypeInv, TypeOK, AllFinite, counters
  <1>1. ASSUME NEW s \in Sites, SubmitPut(s)
        PROVE  TypeInv'
    <2>1. NewEvent(s) \in Event /\ submitted + 1 \in 0 .. MaxEvents
      BY <1>1 DEF SubmitPut, NewEvent, Event
    <2>. QED
      BY <1>1, <2>1 DEF SubmitPut
  <1>2. ASSUME NEW s \in Sites, SubmitFull(s)
        PROVE  TypeInv'
    <2>1. NewEvent(s) \in Event /\ submitted + 1 \in 0 .. MaxEvents
      BY <1>2 DEF SubmitFull, NewEvent, Event
    <2>2. IsFiniteSet(refused')
      BY <1>2, FS_AddElement DEF SubmitFull
    <2>. QED
      BY <1>2, <2>1, <2>2 DEF SubmitFull
  <1>3. CASE StopFlag
    BY <1>3 DEF StopFlag
  <1>4. CASE StopTimeout
    BY <1>4 DEF StopTimeout
  <1>5. CASE SubmitCount
    BY <1>5 DEF SubmitCount
  <1>6. CASE StopWake
    <2>1. items' \in Seq(Event \cup {None})
      BY <1>6 DEF StopWake
    <2>. QED
      BY <1>6, <2>1 DEF StopWake
  <1>7. CASE StopJoin
    BY <1>7 DEF StopJoin
  <1>8. CASE Exit
    BY <1>8 DEF Exit
  <1>9. CASE LoopTest
    BY <1>9 DEF LoopTest
  <1>10. CASE GetEvent
    <2>1. Head(items) \in Event /\ Tail(items) \in Seq(Event \cup {None})
      BY <1>10 DEF GetEvent
    <2>2. IsFiniteSet(pending')
      BY <1>10, FS_AddElement DEF GetEvent
    <2>. QED
      BY <1>10, <2>1, <2>2 DEF GetEvent
  <1>11. CASE GetNone
    <2>1. Tail(items) \in Seq(Event \cup {None})
      BY <1>11 DEF GetNone
    <2>. QED
      BY <1>11, <2>1 DEF GetNone
  <1>12. CASE GetEmpty
    BY <1>12 DEF GetEmpty
  <1>13. CASE CheckBatch
    BY <1>13 DEF CheckBatch
  <1>14. ASSUME NEW s \in Sites, FlushSite(s)
         PROVE  TypeInv'
    <2>1. OfSite(s) \subseteq pending
      BY DEF OfSite
    <2>2. IsFiniteSet(OfSite(s)) /\ Cardinality(OfSite(s)) \in Nat
      BY <2>1, FS_Subset, FS_CardinalityType
    <2>3. IsFiniteSet(pending') /\ IsFiniteSet(committed')
      BY <1>14, <2>2, FS_Difference, FS_Union DEF FlushSite
    <2>. QED
      BY <1>14, <2>1, <2>2, <2>3 DEF FlushSite
  <1>15. CASE FlushFails
    <2>1. IsFiniteSet(pending') /\ IsFiniteSet(failed')
      BY <1>15, FS_Union, FS_EmptySet DEF FlushFails
    <2>. QED
      BY <1>15, <2>1 DEF FlushFails, AfterFlush, Flushing
  <1>16. CASE FlushDone
    BY <1>16 DEF FlushDone, AfterFlush, Flushing
  <1>17. CASE DeadlinePasses
    BY <1>17 DEF DeadlinePasses
  <1>18. CASE UNCHANGED vars
    BY <1>18 DEF vars
  <1>. QED
    BY <1>1, <1>2, <1>3, <1>4, <1>5, <1>6, <1>7, <1>8, <1>9, <1>10, <1>11,
       <1>12, <1>13, <1>14, <1>15, <1>16, <1>17, <1>18
       DEF Next, Main, Worker, Flush, Closing, Over

(* The type invariant.                                                     *)
THEOREM TypeCorrect == Spec => []TypeOK
  <1>1. Spec => []TypeInv
    BY TypesInit, TypesStep, PTL DEF Spec
  <1>2. TypeInv => TypeOK
    BY DEF TypeInv
  <1>. QED
    BY <1>1, <1>2, PTL

-----------------------------------------------------------------------------
(* The inductive invariant behind the safety properties.                   *)

(* stop() clears the flag in its first step, and only stop() does: when    *)
(* the writer reads None the flag is already clear.                        *)
FlagFollowsStop == running <=> (producer \in {"idle", "count"})

(* None is queued at most once, by the last step of stop().                *)
OneWake == producer \in {"idle", "count", "wake"}
             => \A i \in DOMAIN items : items[i] # None

(* The queue is in submission order, and the batch precedes it.            *)
QueueInOrder ==
    \A i, j \in DOMAIN items : i < j /\ items[i] # None /\ items[j] # None
                                 => items[i].id < items[j].id
BatchFirst == \A e \in pending, f \in Queued : e.id < f.id

(* Once the writer has left the loop nothing more can arrive.              *)
NearlyDone == /\ worker \in {"final", "done"} => ~running /\ Queued = {}
              /\ worker = "done" => pending = {}

Places == EachEventInOnePlace /\ FlagFollowsStop /\ OneWake /\ NearlyDone
Order  == QueueInOrder /\ BatchFirst /\ SettledInOrder
SafeInv == TypeInv /\ Places /\ Order

(* What each kind of step does to the contents of the queue.               *)
LEMMA PutEffect ==
    ASSUME TypeInv, NEW s \in Sites, SubmitPut(s)
    PROVE  Queued' = Queued \cup {NewEvent(s)} /\ NewEvent(s) \in Event
  <1>1. NewEvent(s) \in Event
    BY QueueAssumption DEF TypeInv, TypeOK, SubmitPut, NewEvent, Event
  <1>2. {items'[i] : i \in DOMAIN items'}
          = {items[i] : i \in DOMAIN items} \cup {NewEvent(s)}
    BY <1>1, ElementsAppend DEF TypeInv, TypeOK, SubmitPut
  <1>. QED
    BY <1>1, <1>2, QueueAssumption DEF Queued

LEMMA WakeEffect ==
    ASSUME TypeInv, StopWake
    PROVE  Queued' = Queued
  <1>1. CASE HasRoom
    <2>1. {items'[i] : i \in DOMAIN items'}
            = {items[i] : i \in DOMAIN items} \cup {None}
      BY <1>1, ElementsAppend DEF TypeInv, TypeOK, StopWake
    <2>. QED
      BY <2>1 DEF Queued
  <1>2. CASE ~HasRoom
    BY <1>2 DEF StopWake, Queued
  <1>. QED
    BY <1>1, <1>2

LEMMA GetEffect ==
    ASSUME TypeInv, EachEventInOnePlace, items # << >>, items' = Tail(items)
    PROVE  /\ Queued' = Queued \ {Head(items)}
           /\ Head(items) # None => Head(items) \in Queued
  <1>1. {items'[i] : i \in DOMAIN items'}
          = {items[i] : i \in DOMAIN items} \ {Head(items)}
    <2>1. items \in Seq(Event \cup {None})
      BY DEF TypeInv, TypeOK
    <2>2. \A i, j \in DOMAIN items : items[i] = items[j] => i = j
      BY DEF EachEventInOnePlace
    <2>. QED
      BY <2>1, <2>2, ElementsTail
  <1>2. Head(items) \in {items[i] : i \in DOMAIN items}
    <2>1. 1 \in DOMAIN items /\ Head(items) = items[1]
      BY DEF TypeInv, TypeOK
    <2>. QED
      BY <2>1
  <1>. QED
    BY <1>1, <1>2 DEF Queued

(* Steps that leave every set of events as it is.                          *)
LEMMA PlacesUnchanged ==
    ASSUME EachEventInOnePlace, items' = items, pending' = pending,
           committed' = committed, failed' = failed, refused' = refused,
           submitted' = submitted
    PROVE  EachEventInOnePlace'
  BY DEF EachEventInOnePlace, Queued, Unsettled, Settled

LEMMA OnePlaceStep == SafeInv /\ [Next]_vars => EachEventInOnePlace'
  <1>. SUFFICES ASSUME SafeInv, [Next]_vars
                PROVE  EachEventInOnePlace'
    OBVIOUS
  <1>. USE DEF SafeInv, Places
  <1>1. ASSUME NEW s \in Sites, SubmitPut(s)
        PROVE  EachEventInOnePlace'
    <2>. DEFINE new == NewEvent(s)
    <2>1. Queued' = Queued \cup {new} /\ new \in Event /\ new.id = submitted + 1
      BY <1>1, PutEffect DEF NewEvent
    <2>2. \A e \in Unsettled \cup Settled \cup refused : e.id \in 1 .. submitted
      BY DEF EachEventInOnePlace
    <2>3. submitted \in Nat /\ submitted' = submitted + 1
      BY <1>1, QueueAssumption DEF TypeInv, TypeOK, SubmitPut
    <2>4. new \notin Unsettled \cup Settled \cup refused
      BY <2>1, <2>2, <2>3
    <2>5. \A i, j \in DOMAIN items' : items'[i] = items'[j] => i = j
      <3>1. items \in Seq(Item) /\ new \in Item /\ items' = Append(items, new)
        BY <1>1, <2>1 DEF TypeInv, TypeOK, SubmitPut, Item
      <3>2. \A i \in DOMAIN items : items[i] # new
        BY <2>4, <2>1, QueueAssumption DEF Unsettled, Queued
      <3>3. DOMAIN items = 1 .. Len(items) /\ Len(items) \in Nat
            /\ DOMAIN items' = 1 .. (Len(items) + 1)
            /\ (\A i \in 1 .. Len(items) : items'[i] = items[i])
            /\ items'[Len(items) + 1] = new
        BY <3>1
      <3>. QED
        BY <3>2, <3>3 DEF EachEventInOnePlace
    <2>6. /\ Unsettled' = Unsettled \cup {new} /\ Settled' = Settled
          /\ pending' = pending /\ committed' = committed /\ failed' = failed
          /\ refused' = refused
      BY <1>1, <2>1 DEF SubmitPut, Unsettled, Settled
    <2>7. {e.id : e \in Unsettled' \cup Settled' \cup refused'} = 1 .. submitted'
      <3>1. {e.id : e \in Unsettled' \cup Settled' \cup refused'}
              = (1 .. submitted) \cup {submitted + 1}
        BY <2>6, <2>1 DEF EachEventInOnePlace
      <3>. QED
        BY <3>1, <2>3
    <2>8. \A e, f \in Unsettled' \cup Settled' \cup refused' :
             e.id = f.id => e = f
      BY <2>6, <2>1, <2>2, <2>3 DEF EachEventInOnePlace
    <2>9. /\ Queued' \cap pending' = {}
          /\ Unsettled' \cap Settled' = {}
          /\ committed' \cap failed' = {}
          /\ refused' \cap (Unsettled' \cup Settled') = {}
      BY <2>4, <2>6, <2>1 DEF EachEventInOnePlace, Unsettled
    <2>. QED
      BY <2>5, <2>7, <2>8, <2>9 DEF EachEventInOnePlace
  <1>2. ASSUME NEW s \in Sites, SubmitFull(s)
        PROVE  EachEventInOnePlace'
    <2>. DEFINE new == NewEvent(s)
    <2>1. new.id = submitted + 1 /\ refused' = refused \cup {new}
          /\ submitted' = submitted + 1 /\ submitted \in Nat
      BY <1>2, QueueAssumption DEF SubmitFull, NewEvent, TypeInv, TypeOK
    <2>2. \A e \in Unsettled \cup Settled \cup refused : e.id \in 1 .. submitted
      BY DEF EachEventInOnePlace
    <2>3. new \notin Unsettled \cup Settled \cup refused
      BY <2>1, <2>2
    <2>4. Queued' = Queued /\ Unsettled' = Unsettled /\ Settled' = Settled
          /\ items' = items /\ pending' = pending /\ committed' = committed
          /\ failed' = failed
      BY <1>2 DEF SubmitFull, Unsettled, Settled, Queued
    <2>5. {e.id : e \in Unsettled' \cup Settled' \cup refused'} = 1 .. submitted'
      <3>1. {e.id : e \in Unsettled' \cup Settled' \cup refused'}
              = (1 .. submitted) \cup {submitted + 1}
        BY <2>4, <2>1 DEF EachEventInOnePlace
      <3>. QED
        BY <3>1, <2>1
    <2>6. \A e, f \in Unsettled' \cup Settled' \cup refused' :
             e.id = f.id => e = f
      BY <2>4, <2>1, <2>2 DEF EachEventInOnePlace
    <2>. QED
      BY <2>3, <2>4, <2>5, <2>6, <2>1 DEF EachEventInOnePlace
  <1>3. CASE StopFlag
    BY <1>3, PlacesUnchanged DEF StopFlag
  <1>4. CASE StopTimeout
    BY <1>4, PlacesUnchanged DEF StopTimeout
  <1>5. CASE SubmitCount
    BY <1>5, PlacesUnchanged DEF SubmitCount
  <1>6. CASE StopWake
    <2>1. Queued' = Queued
      BY <1>6, WakeEffect
    <2>2. \A i, j \in DOMAIN items' : items'[i] = items'[j] => i = j
      <3>1. CASE HasRoom
        <4>1. items \in Seq(Item) /\ None \in Item /\ items' = Append(items, None)
          BY <1>6, <3>1 DEF TypeInv, TypeOK, StopWake, Item
        <4>2. \A i \in DOMAIN items : items[i] # None
          BY <1>6 DEF StopWake, OneWake
        <4>3. DOMAIN items = 1 .. Len(items) /\ Len(items) \in Nat
              /\ DOMAIN items' = 1 .. (Len(items) + 1)
              /\ (\A i \in 1 .. Len(items) : items'[i] = items[i])
              /\ items'[Len(items) + 1] = None
          BY <4>1
        <4>. QED
          BY <4>2, <4>3 DEF EachEventInOnePlace
      <3>2. CASE ~HasRoom
        BY <1>6, <3>2 DEF StopWake, EachEventInOnePlace
      <3>. QED
        BY <3>1, <3>2
    <2>3. Unsettled' = Unsettled /\ Settled' = Settled /\ pending' = pending
          /\ committed' = committed /\ failed' = failed /\ refused' = refused
          /\ submitted' = submitted
      BY <1>6, <2>1 DEF StopWake, Unsettled, Settled
    <2>. QED
      BY <2>1, <2>2, <2>3 DEF EachEventInOnePlace
  <1>7. CASE StopJoin
    BY <1>7, PlacesUnchanged DEF StopJoin
  <1>8. CASE Exit
    BY <1>8, PlacesUnchanged DEF Exit
  <1>9. CASE LoopTest
    BY <1>9, PlacesUnchanged DEF LoopTest
  <1>10. ASSUME items # << >>, items' = Tail(items)
         PROVE  \A i, j \in DOMAIN items' : items'[i] = items'[j] => i = j
    <2>1. items \in Seq(Item)
      BY DEF TypeInv, TypeOK, Item
    <2>2. DOMAIN items = 1 .. Len(items) /\ Len(items) \in Nat \ {0}
          /\ DOMAIN items' = 1 .. (Len(items) - 1)
          /\ (\A i \in 1 .. (Len(items) - 1) : items'[i] = items[i + 1])
      BY <1>10, <2>1
    <2>. QED
      BY <2>2 DEF EachEventInOnePlace
  <1>11. CASE GetEvent
    <2>1. Queued' = Queued \ {Head(items)} /\ Head(items) \in Queued
          /\ pending' = pending \cup {Head(items)}
      BY <1>11, GetEffect DEF GetEvent
    <2>2. Unsettled' = Unsettled /\ Settled' = Settled /\ committed' = committed
          /\ failed' = failed /\ refused' = refused /\ submitted' = submitted
      BY <1>11, <2>1 DEF GetEvent, Unsettled, Settled
    <2>3. \A i, j \in DOMAIN items' : items'[i] = items'[j] => i = j
      BY <1>11, <1>10 DEF GetEvent
    <2>. QED
      BY <2>1, <2>2, <2>3 DEF EachEventInOnePlace
  <1>12. CASE GetNone
    <2>1. Queued' = Queued
      BY <1>12, GetEffect DEF GetNone, Queued
    <2>2. Unsettled' = Unsettled /\ Settled' = Settled /\ committed' = committed
          /\ failed' = failed /\ refused' = refused /\ submitted' = submitted
          /\ pending' = pending
      BY <1>12, <2>1 DEF GetNone, Unsettled, Settled
    <2>3. \A i, j \in DOMAIN items' : items'[i] = items'[j] => i = j
      BY <1>12, <1>10 DEF GetNone
    <2>. QED
      BY <2>1, <2>2, <2>3 DEF EachEventInOnePlace
  <1>13. CASE GetEmpty
    BY <1>13, PlacesUnchanged DEF GetEmpty
  <1>14. CASE CheckBatch
    BY <1>14, PlacesUnchanged DEF CheckBatch
  <1>15. ASSUME NEW s \in Sites, FlushSite(s)
         PROVE  EachEventInOnePlace'
    BY <1>15 DEF FlushSite, OfSite, EachEventInOnePlace, Queued, Unsettled, Settled
  <1>16. CASE FlushFails
    BY <1>16 DEF FlushFails, EachEventInOnePlace, Queued, Unsettled, Settled
  <1>17. CASE FlushDone
    BY <1>17, PlacesUnchanged DEF FlushDone
  <1>18. CASE DeadlinePasses
    BY <1>18, PlacesUnchanged DEF DeadlinePasses
  <1>19. CASE UNCHANGED vars
    BY <1>19, PlacesUnchanged DEF vars
  <1>. QED
    BY <1>1, <1>2, <1>3, <1>4, <1>5, <1>6, <1>7, <1>8, <1>9, <1>11, <1>12,
       <1>13, <1>14, <1>15, <1>16, <1>17, <1>18, <1>19
       DEF Next, Main, Worker, Flush, Closing, Over

LEMMA ControlStep == SafeInv /\ [Next]_vars
                       => FlagFollowsStop' /\ OneWake' /\ NearlyDone'
  <1>. SUFFICES ASSUME SafeInv, [Next]_vars
                PROVE  FlagFollowsStop' /\ OneWake' /\ NearlyDone'
    OBVIOUS
  <1>. USE DEF SafeInv, Places, FlagFollowsStop
  <1>1. ASSUME NEW s \in Sites, SubmitPut(s)
        PROVE  FlagFollowsStop' /\ OneWake' /\ NearlyDone'
    <2>1. NewEvent(s) \in Event
      BY <1>1, PutEffect
    <2>2. \A i \in DOMAIN items' : items'[i] # None
      <3>1. items \in Seq(Item) /\ NewEvent(s) \in Item
            /\ items' = Append(items, NewEvent(s))
        BY <1>1, <2>1 DEF TypeInv, TypeOK, SubmitPut, Item
      <3>2. DOMAIN items = 1 .. Len(items) /\ Len(items) \in Nat
            /\ DOMAIN items' = 1 .. (Len(items) + 1)
            /\ (\A i \in 1 .. Len(items) : items'[i] = items[i])
            /\ items'[Len(items) + 1] = NewEvent(s)
        BY <3>1
      <3>3. \A i \in DOMAIN items : items[i] # None
        BY <1>1 DEF OneWake, SubmitPut
      <3>. QED
        BY <3>2, <3>3, <2>1, QueueAssumption
    <2>. QED
      BY <1>1, <2>2 DEF SubmitPut, OneWake, NearlyDone
  <1>2. ASSUME NEW s \in Sites, SubmitFull(s)
        PROVE  FlagFollowsStop' /\ OneWake' /\ NearlyDone'
    BY <1>2 DEF SubmitFull, OneWake, NearlyDone, Queued
  <1>3. CASE StopFlag
    BY <1>3 DEF StopFlag, OneWake, NearlyDone, Queued
  <1>4. CASE StopTimeout
    BY <1>4 DEF StopTimeout, OneWake, NearlyDone, Queued
  <1>5. CASE SubmitCount
    BY <1>5 DEF SubmitCount, OneWake, NearlyDone, Queued
  <1>6. CASE StopWake
    BY <1>6, WakeEffect DEF StopWake, OneWake, NearlyDone
  <1>7. CASE StopJoin
    BY <1>7 DEF StopJoin, OneWake, NearlyDone, Queued
  <1>8. CASE Exit
    BY <1>8 DEF Exit, OneWake, NearlyDone, Queued
  <1>9. CASE LoopTest
    <2>1. items = << >> => Queued' = {}
      BY <1>9 DEF LoopTest, Queued
    <2>. QED
      BY <1>9, <2>1 DEF LoopTest, OneWake, NearlyDone, TypeInv, TypeOK
  <1>10. ASSUME items # << >>, items' = Tail(items),
                \A i \in DOMAIN items : items[i] # None
         PROVE  \A i \in DOMAIN items' : items'[i] # None
    <2>1. items \in Seq(Item)
      BY DEF TypeInv, TypeOK, Item
    <2>2. DOMAIN items = 1 .. Len(items) /\ Len(items) \in Nat \ {0}
          /\ DOMAIN items' = 1 .. (Len(items) - 1)
          /\ (\A i \in 1 .. (Len(items) - 1) : items'[i] = items[i + 1])
      BY <1>10, <2>1
    <2>. QED
      BY <2>2, <1>10
  <1>11. CASE GetEvent
    <2>1. Queued' \subseteq Queued
      BY <1>11, GetEffect DEF GetEvent
    <2>. QED
      BY <1>11, <1>10, <2>1 DEF GetEvent, OneWake, NearlyDone
  <1>12. CASE GetNone
    <2>1. producer \notin {"idle", "count", "wake"}
      <3>1. 1 \in DOMAIN items /\ items[1] = None
        BY <1>12 DEF GetNone, TypeInv, TypeOK
      <3>. QED
        BY <3>1 DEF OneWake
    <2>2. Queued' \subseteq Queued
      BY <1>12, GetEffect DEF GetNone
    <2>. QED
      BY <1>12, <2>1, <2>2 DEF GetNone, OneWake, NearlyDone
  <1>13. CASE GetEmpty
    BY <1>13 DEF GetEmpty, OneWake, NearlyDone, Queued
  <1>14. CASE CheckBatch
    BY <1>14 DEF CheckBatch, OneWake, NearlyDone, Queued
  <1>15. ASSUME NEW s \in Sites, FlushSite(s)
         PROVE  FlagFollowsStop' /\ OneWake' /\ NearlyDone'
    BY <1>15 DEF FlushSite, Flushing, OneWake, NearlyDone, Queued
  <1>16. CASE FlushFails
    BY <1>16 DEF FlushFails, Flushing, AfterFlush, OneWake, NearlyDone, Queued
  <1>17. CASE FlushDone
    BY <1>17 DEF FlushDone, Flushing, AfterFlush, OneWake, NearlyDone, Queued
  <1>18. CASE DeadlinePasses
    BY <1>18 DEF DeadlinePasses, OneWake, NearlyDone, Queued
  <1>19. CASE UNCHANGED vars
    BY <1>19 DEF vars, OneWake, NearlyDone, Queued
  <1>. QED
    BY <1>1, <1>2, <1>3, <1>4, <1>5, <1>6, <1>7, <1>8, <1>9, <1>11, <1>12,
       <1>13, <1>14, <1>15, <1>16, <1>17, <1>18, <1>19
       DEF Next, Main, Worker, Flush, Closing, Over

(* Steps that leave the queue, the batch and what is settled as they are.  *)
LEMMA OrderUnchanged ==
    ASSUME Order, items' = items, pending' = pending, committed' = committed,
           failed' = failed
    PROVE  Order'
  BY DEF Order, QueueInOrder, BatchFirst, SettledInOrder, Queued, Unsettled,
         Settled

LEMMA OrderStep == SafeInv /\ [Next]_vars => Order'
  <1>. SUFFICES ASSUME SafeInv, [Next]_vars
                PROVE  Order'
    OBVIOUS
  <1>. USE DEF SafeInv, Places
  <1>0. \A e \in Unsettled \cup Settled \cup refused : e.id \in 1 .. submitted
    BY DEF EachEventInOnePlace
  <1>1. ASSUME NEW s \in Sites, SubmitPut(s)
        PROVE  Order'
    <2>. DEFINE new == NewEvent(s)
    <2>1. Queued' = Queued \cup {new} /\ new \in Event /\ new.id = submitted + 1
      BY <1>1, PutEffect DEF NewEvent
    <2>2. submitted \in Nat /\ pending' = pending /\ Settled' = Settled
      BY <1>1, QueueAssumption DEF SubmitPut, TypeInv, TypeOK, Settled
    <2>3. \A e \in Unsettled \cup Settled : e.id < new.id
      BY <1>0, <2>1, <2>2
    <2>4. QueueInOrder'
      <3>1. items \in Seq(Item) /\ new \in Item /\ items' = Append(items, new)
        BY <1>1, <2>1 DEF TypeInv, TypeOK, SubmitPut, Item
      <3>2. DOMAIN items = 1 .. Len(items) /\ Len(items) \in Nat
            /\ DOMAIN items' = 1 .. (Len(items) + 1)
            /\ (\A i \in 1 .. Len(items) : items'[i] = items[i])
            /\ items'[Len(items) + 1] = new
        BY <3>1
      <3>3. \A i \in DOMAIN items : items[i] # None => items[i].id < new.id
        BY <2>3 DEF Unsettled, Queued
      <3>. QED
        BY <3>2, <3>3 DEF Order, QueueInOrder
    <2>5. BatchFirst'
      BY <2>1, <2>2, <2>3 DEF Order, BatchFirst, Unsettled
    <2>6. SettledInOrder'
      BY <2>1, <2>2, <2>3 DEF Order, SettledInOrder, Unsettled
    <2>. QED
      BY <2>4, <2>5, <2>6 DEF Order
  <1>2. ASSUME NEW s \in Sites, SubmitFull(s)
        PROVE  Order'
    BY <1>2, OrderUnchanged DEF SubmitFull
  <1>3. CASE StopFlag
    BY <1>3, OrderUnchanged DEF StopFlag
  <1>4. CASE StopTimeout
    BY <1>4, OrderUnchanged DEF StopTimeout
  <1>5. CASE SubmitCount
    BY <1>5, OrderUnchanged DEF SubmitCount
  <1>6. CASE StopWake
    <2>1. Queued' = Queued /\ pending' = pending /\ Settled' = Settled
      BY <1>6, WakeEffect DEF StopWake, Settled
    <2>2. QueueInOrder'
      <3>1. CASE HasRoom
        <4>1. items \in Seq(Item) /\ None \in Item /\ items' = Append(items, None)
          BY <1>6, <3>1 DEF TypeInv, TypeOK, StopWake, Item
        <4>2. DOMAIN items = 1 .. Len(items) /\ Len(items) \in Nat
              /\ DOMAIN items' = 1 .. (Len(items) + 1)
              /\ (\A i \in 1 .. Len(items) : items'[i] = items[i])
              /\ items'[Len(items) + 1] = None
          BY <4>1
        <4>. QED
          BY <4>2 DEF Order, QueueInOrder
      <3>2. CASE ~HasRoom
        BY <1>6, <3>2 DEF StopWake, Order, QueueInOrder
      <3>. QED
        BY <3>1, <3>2
    <2>. QED
      BY <2>1, <2>2 DEF Order, BatchFirst, SettledInOrder, Unsettled
  <1>7. CASE StopJoin
    BY <1>7, OrderUnchanged DEF StopJoin
  <1>8. CASE Exit
    BY <1>8, OrderUnchanged DEF Exit
  <1>9. CASE LoopTest
    BY <1>9, OrderUnchanged DEF LoopTest
  <1>10. ASSUME items # << >>, items' = Tail(items)
         PROVE  /\ QueueInOrder'
                /\ \A i \in DOMAIN items' : items'[i] # None /\ Head(items) # None
                     => Head(items).id < items'[i].id
    <2>1. items \in Seq(Item)
      BY DEF TypeInv, TypeOK, Item
    <2>2. DOMAIN items = 1 .. Len(items) /\ Len(items) \in Nat \ {0}
          /\ DOMAIN items' = 1 .. (Len(items) - 1)
          /\ (\A i \in 1 .. (Len(items) - 1) : items'[i] = items[i + 1])
          /\ Head(items) = items[1]
      BY <1>10, <2>1
    <2>3. QueueInOrder
      BY DEF Order
    <2>4. QueueInOrder'
      <3>1. ASSUME NEW i \in DOMAIN items', NEW j \in DOMAIN items', i < j,
                   items'[i] # None, items'[j] # None
            PROVE  items'[i].id < items'[j].id
        <4>1. i + 1 \in DOMAIN items /\ j + 1 \in DOMAIN items /\ i + 1 < j + 1
          BY <3>1, <2>2
        <4>. QED
          BY <4>1, <3>1, <2>2, <2>3 DEF QueueInOrder
      <3>. QED
        BY <3>1 DEF QueueInOrder
    <2>5. ASSUME NEW i \in DOMAIN items', items'[i] # None, Head(items) # None
          PROVE  Head(items).id < items'[i].id
      <3>1. 1 \in DOMAIN items /\ i + 1 \in DOMAIN items /\ 1 < i + 1
        BY <2>2, <2>5
      <3>. QED
        BY <3>1, <2>5, <2>2, <2>3 DEF QueueInOrder
    <2>. QED
      BY <2>4, <2>5
  <1>11. CASE GetEvent
    <2>1. Queued' = Queued \ {Head(items)} /\ Head(items) \in Queued
          /\ pending' = pending \cup {Head(items)} /\ Settled' = Settled
      BY <1>11, GetEffect DEF GetEvent, Settled
    <2>2. QueueInOrder' /\ \A f \in Queued' : Head(items).id < f.id
      BY <1>11, <1>10 DEF GetEvent, Queued
    <2>3. Unsettled' = Unsettled
      BY <2>1 DEF Unsettled
    <2>. QED
      BY <2>1, <2>2, <2>3 DEF Order, BatchFirst, SettledInOrder
  <1>12. CASE GetNone
    <2>1. Queued' = Queued /\ pending' = pending /\ Settled' = Settled
      BY <1>12, GetEffect DEF GetNone, Queued, Settled
    <2>2. QueueInOrder'
      BY <1>12, <1>10 DEF GetNone
    <2>. QED
      BY <2>1, <2>2 DEF Order, BatchFirst, SettledInOrder, Unsettled
  <1>13. CASE GetEmpty
    BY <1>13, OrderUnchanged DEF GetEmpty
  <1>14. CASE CheckBatch
    BY <1>14, OrderUnchanged DEF CheckBatch
  <1>15. ASSUME NEW s \in Sites, FlushSite(s)
         PROVE  Order'
    BY <1>15 DEF FlushSite, OfSite, Order, QueueInOrder, BatchFirst,
                 SettledInOrder, Queued, Unsettled, Settled
  <1>16. CASE FlushFails
    BY <1>16 DEF FlushFails, Order, QueueInOrder, BatchFirst, SettledInOrder,
                 Queued, Unsettled, Settled
  <1>17. CASE FlushDone
    BY <1>17, OrderUnchanged DEF FlushDone
  <1>18. CASE DeadlinePasses
    BY <1>18, OrderUnchanged DEF DeadlinePasses
  <1>19. CASE UNCHANGED vars
    BY <1>19, OrderUnchanged DEF vars
  <1>. QED
    BY <1>1, <1>2, <1>3, <1>4, <1>5, <1>6, <1>7, <1>8, <1>9, <1>11, <1>12,
       <1>13, <1>14, <1>15, <1>16, <1>17, <1>18, <1>19
       DEF Next, Main, Worker, Flush, Closing, Over

LEMMA SafeInit == Init => SafeInv
  <1>. SUFFICES ASSUME Init PROVE SafeInv
    OBVIOUS
  <1>1. TypeInv
    BY TypesInit
  <1>2. DOMAIN items = {} /\ Queued = {} /\ Unsettled = {} /\ Settled = {}
        /\ refused = {}
    BY DEF Init, Queued, Unsettled, Settled
  <1>3. {e.id : e \in Unsettled \cup Settled \cup refused} = 1 .. submitted
    BY <1>2 DEF Init
  <1>4. EachEventInOnePlace
    BY <1>2, <1>3 DEF Init, EachEventInOnePlace
  <1>. QED
    BY <1>1, <1>2, <1>4
       DEF Init, SafeInv, Places, Order, FlagFollowsStop, OneWake, NearlyDone,
           QueueInOrder, BatchFirst, SettledInOrder

LEMMA SafeAlways == Spec => []SafeInv
  <1>1. SafeInv /\ [Next]_vars => SafeInv'
    BY TypesStep, OnePlaceStep, ControlStep, OrderStep DEF SafeInv, Places
  <1>. QED
    BY SafeInit, <1>1, PTL DEF Spec

(* No event is recorded twice or disappears, for every instance.           *)
THEOREM Conservation == Spec => []EachEventInOnePlace
  <1>1. SafeInv => EachEventInOnePlace
    BY DEF SafeInv, Places
  <1>. QED
    BY <1>1, SafeAlways, PTL

(* The events of a site are settled in the order they were submitted.      *)
THEOREM InOrder == Spec => []SettledInOrder
  <1>1. SafeInv => SettledInOrder
    BY DEF SafeInv, Order
  <1>. QED
    BY <1>1, SafeAlways, PTL

(* The writer leaves nothing behind when it ends.                          *)
THEOREM Drained == Spec => []DrainedWhenDone
  <1>1. SafeInv => DrainedWhenDone
    BY DEF SafeInv, Places, NearlyDone, DrainedWhenDone, Unsettled
  <1>. QED
    BY <1>1, SafeAlways, PTL

-----------------------------------------------------------------------------
(* The queue and the batch stay within their limits.                       *)
BatchHasRoom == worker \in {"loop", "get"} => Cardinality(pending) < FlushSize

MemoryInv == BoundedMemory /\ BatchHasRoom

LEMMA MemoryStep == TypeInv /\ MemoryInv /\ [Next]_vars => MemoryInv'
  <1>. SUFFICES ASSUME TypeInv, MemoryInv, [Next]_vars
                PROVE  MemoryInv'
    OBVIOUS
  <1>. USE QueueAssumption DEF MemoryInv, BoundedMemory, BatchHasRoom
  <1>0. items \in Seq(Item) /\ Cardinality(pending) \in Nat
    BY FS_CardinalityType DEF TypeInv, TypeOK, AllFinite, Item
  <1>00. Cardinality({}) = 0
    BY FS_EmptySet
  <1>1. ASSUME NEW s \in Sites, SubmitPut(s)
        PROVE  MemoryInv'
    <2>1. NewEvent(s) \in Item
      BY <1>1, PutEffect DEF Item
    <2>2. Len(items') = Len(items) + 1
      BY <1>1, <1>0, <2>1 DEF SubmitPut
    <2>3. Len(items) \in Nat
      BY <1>0
    <2>. QED
      BY <1>1, <2>2, <2>3 DEF SubmitPut, HasRoom
  <1>2. ASSUME NEW s \in Sites, SubmitFull(s)
        PROVE  MemoryInv'
    BY <1>2 DEF SubmitFull
  <1>3. CASE StopFlag
    BY <1>3 DEF StopFlag
  <1>4. CASE StopTimeout
    BY <1>4 DEF StopTimeout
  <1>5. CASE SubmitCount
    BY <1>5 DEF SubmitCount
  <1>6. CASE StopWake
    <2>1. Len(items) \in Nat /\ Len(Append(items, None)) = Len(items) + 1
      BY <1>0 DEF Item
    <2>. QED
      BY <1>6, <2>1 DEF StopWake, HasRoom
  <1>7. CASE StopJoin
    BY <1>7 DEF StopJoin
  <1>8. CASE Exit
    BY <1>8 DEF Exit
  <1>9. CASE LoopTest
    BY <1>9 DEF LoopTest
  <1>10. items # << >> => Len(Tail(items)) = Len(items) - 1 /\ Len(items) \in Nat
    BY <1>0
  <1>11. CASE GetEvent
    <2>1. Cardinality(pending') <= Cardinality(pending) + 1
      <3>1. IsFiniteSet(pending)
        BY DEF TypeInv, AllFinite
      <3>2. Cardinality(pending \cup {Head(items)})
              = IF Head(items) \in pending THEN Cardinality(pending)
                ELSE Cardinality(pending) + 1
        BY <3>1, FS_AddElement
      <3>3. pending' = pending \cup {Head(items)}
        BY <1>11 DEF GetEvent
      <3>. QED
        BY <3>2, <3>3, <1>0
    <2>2. Cardinality(pending') \in Nat
      BY <1>11, FS_AddElement, FS_CardinalityType DEF GetEvent, TypeInv, AllFinite
    <2>. QED
      BY <1>11, <1>10, <1>0, <2>1, <2>2 DEF GetEvent
  <1>12. CASE GetNone
    BY <1>12, <1>10 DEF GetNone
  <1>13. CASE GetEmpty
    BY <1>13 DEF GetEmpty
  <1>14. CASE CheckBatch
    <2>1. CASE MustFlush
      BY <1>14, <2>1 DEF CheckBatch
    <2>2. CASE ~MustFlush
      <3>1. Cardinality(pending) < FlushSize
        BY <2>2, <1>0, <1>00 DEF MustFlush
      <3>. QED
        BY <1>14, <2>2, <3>1 DEF CheckBatch
    <2>. QED
      BY <2>1, <2>2
  <1>15. ASSUME NEW s \in Sites, FlushSite(s)
         PROVE  MemoryInv'
    <2>1. pending' \in SUBSET pending
      BY <1>15 DEF FlushSite
    <2>2. Cardinality(pending') <= Cardinality(pending) /\ Cardinality(pending') \in Nat
      BY <2>1, FS_Subset, FS_CardinalityType DEF TypeInv, AllFinite
    <2>. QED
      BY <1>15, <1>0, <2>2 DEF FlushSite, Flushing
  <1>16. CASE FlushFails
    BY <1>16, <1>00 DEF FlushFails
  <1>17. CASE FlushDone
    BY <1>17, <1>00 DEF FlushDone
  <1>18. CASE DeadlinePasses
    BY <1>18 DEF DeadlinePasses
  <1>19. CASE UNCHANGED vars
    BY <1>19 DEF vars
  <1>. QED
    BY <1>1, <1>2, <1>3, <1>4, <1>5, <1>6, <1>7, <1>8, <1>9, <1>11, <1>12,
       <1>13, <1>14, <1>15, <1>16, <1>17, <1>18, <1>19
       DEF Next, Main, Worker, Flush, Closing, Over

(* Neither the queue nor the batch outgrows its limit, for every capacity  *)
(* and every flush size.                                                   *)
THEOREM Bounded == Spec => []BoundedMemory
  <1>1. Init => MemoryInv
    BY FS_EmptySet, QueueAssumption
       DEF Init, MemoryInv, BoundedMemory, BatchHasRoom
  <1>2. Spec => []TypeInv
    BY TypesInit, TypesStep, PTL DEF Spec
  <1>3. MemoryInv => BoundedMemory
    BY DEF MemoryInv
  <1>. QED
    BY <1>1, <1>2, <1>3, MemoryStep, PTL DEF Spec

-----------------------------------------------------------------------------
(* The counters.                                                           *)
Accepted == Unsettled \cup Settled
Counting == IF producer = "count" THEN 1 ELSE 0

CountInv ==
    /\ IsFiniteSet(Unsettled)
    /\ accepted + Counting = Cardinality(Accepted)
    /\ accepted + Counting + dropped = submitted
    /\ dropped = Cardinality(refused)
    /\ processed + total <= Cardinality(committed)
    /\ writeErrors = 0 => failed = {} /\ processed + total = Cardinality(committed)
    /\ worker \notin {"flush", "final"} => total = 0

(* Steps of which the counters take no notice.                             *)
LEMMA CountUnchanged ==
    ASSUME CountInv, Unsettled' = Unsettled, committed' = committed,
           failed' = failed, refused' = refused, submitted' = submitted,
           counters' = counters, total' = total, Counting' = Counting,
           worker' \in {"flush", "final"} \/ worker \notin {"flush", "final"}
    PROVE  CountInv'
  BY DEF CountInv, Accepted, Settled, counters

LEMMA CountStep == SafeInv /\ SafeInv' /\ CountInv /\ [Next]_vars => CountInv'
  <1>. SUFFICES ASSUME SafeInv, SafeInv', CountInv, [Next]_vars
                PROVE  CountInv'
    OBVIOUS
  <1>0. TypeInv /\ EachEventInOnePlace /\ EachEventInOnePlace'
    BY DEF SafeInv, Places
  <1>. USE DEF counters
  <1>1. ASSUME NEW s \in Sites, SubmitPut(s)
        PROVE  CountInv'
    <2>. DEFINE new == NewEvent(s)
    <2>1. Unsettled' = Unsettled \cup {new} /\ Settled' = Settled
      BY <1>0, <1>1, PutEffect DEF SubmitPut, Unsettled, Settled
    <2>2. new \notin Accepted
      <3>1. new.id = submitted + 1 /\ submitted \in Nat
        BY <1>0, QueueAssumption DEF NewEvent, TypeInv, TypeOK
      <3>2. \A e \in Accepted : e.id \in 1 .. submitted
        BY <1>0 DEF EachEventInOnePlace, Accepted
      <3>. QED
        BY <3>1, <3>2
    <2>3. IsFiniteSet(Accepted)
      BY <1>0, FS_Union DEF CountInv, Accepted, Settled, TypeInv, AllFinite
    <2>4. Accepted' = Accepted \cup {new}
      BY <2>1 DEF Accepted
    <2>5. Cardinality(Accepted') = Cardinality(Accepted) + 1
      BY <2>2, <2>3, <2>4, FS_AddElement
    <2>6. IsFiniteSet(Unsettled')
      BY <2>1, FS_AddElement DEF CountInv
    <2>7. Counting = 0 /\ Counting' = 1
      BY <1>1 DEF SubmitPut, Counting
    <2>8. Cardinality(Accepted) \in Nat
      BY <2>3, FS_CardinalityType
    <2>. QED
      BY <1>0, <1>1, <2>5, <2>6, <2>7, <2>8, SMTT(30)
         DEF SubmitPut, CountInv, TypeInv, TypeOK
  <1>2. ASSUME NEW s \in Sites, SubmitFull(s)
        PROVE  CountInv'
    <2>1. Unsettled' = Unsettled /\ Settled' = Settled /\ Accepted' = Accepted
          /\ Counting' = Counting
      BY <1>2 DEF SubmitFull, Unsettled, Settled, Accepted, Queued, Counting
    <2>2. NewEvent(s) \notin refused
      <3>1. NewEvent(s).id = submitted + 1 /\ submitted \in Nat
        BY <1>0, QueueAssumption DEF NewEvent, TypeInv, TypeOK
      <3>2. \A e \in refused : e.id \in 1 .. submitted
        BY <1>0 DEF EachEventInOnePlace
      <3>. QED
        BY <3>1, <3>2
    <2>3. Cardinality(refused') = Cardinality(refused) + 1
      BY <1>0, <1>2, <2>2, FS_AddElement DEF SubmitFull, TypeInv, AllFinite
    <2>4. Counting \in {0, 1}
      BY DEF Counting
    <2>. QED
      BY <1>0, <1>2, <2>1, <2>3, <2>4 DEF SubmitFull, CountInv, TypeInv, TypeOK
  <1>3. CASE StopFlag
    BY <1>3, CountUnchanged DEF StopFlag, Unsettled, Queued, Counting
  <1>4. CASE StopTimeout
    BY <1>4, CountUnchanged DEF StopTimeout, Unsettled, Queued, Counting
  <1>5. CASE SubmitCount
    <2>1. Counting = 1 /\ Counting' = 0
      BY <1>5 DEF SubmitCount, Counting
    <2>2. Unsettled' = Unsettled /\ Accepted' = Accepted
      BY <1>5 DEF SubmitCount, Unsettled, Accepted, Settled, Queued
    <2>. QED
      BY <1>0, <1>5, <2>1, <2>2 DEF SubmitCount, CountInv, TypeInv, TypeOK
  <1>6. CASE StopWake
    BY <1>0, <1>6, WakeEffect, CountUnchanged DEF StopWake, Unsettled, Counting
  <1>7. CASE StopJoin
    BY <1>7, CountUnchanged DEF StopJoin, Unsettled, Queued, Counting
  <1>8. CASE Exit
    BY <1>8, CountUnchanged DEF Exit, Unsettled, Queued, Counting
  <1>9. CASE LoopTest
    BY <1>9, CountUnchanged DEF LoopTest, Unsettled, Queued, Counting
  <1>10. CASE GetEvent
    <2>1. Unsettled' = Unsettled
      BY <1>0, <1>10, GetEffect DEF GetEvent, Unsettled
    <2>. QED
      BY <1>10, <2>1, CountUnchanged DEF GetEvent, Counting
  <1>11. CASE GetNone
    <2>1. Unsettled' = Unsettled
      BY <1>0, <1>11, GetEffect DEF GetNone, Unsettled, Queued
    <2>. QED
      BY <1>11, <2>1, CountUnchanged DEF GetNone, Counting
  <1>12. CASE GetEmpty
    BY <1>12, CountUnchanged DEF GetEmpty, Unsettled, Queued, Counting
  <1>13. CASE CheckBatch
    BY <1>13, CountUnchanged DEF CheckBatch, Unsettled, Queued, Counting
  <1>14. ASSUME NEW s \in Sites, FlushSite(s)
         PROVE  CountInv'
    <2>1. OfSite(s) \subseteq pending /\ OfSite(s) \cap committed = {}
      BY <1>0 DEF OfSite, EachEventInOnePlace, Unsettled, Settled
    <2>2. IsFiniteSet(OfSite(s)) /\ IsFiniteSet(committed)
      BY <1>0, <2>1, FS_Subset DEF TypeInv, AllFinite
    <2>3. Cardinality(committed') = Cardinality(committed) + Cardinality(OfSite(s))
      <3>1. Cardinality(committed') = Cardinality(committed)
              + Cardinality(OfSite(s)) - Cardinality(committed \cap OfSite(s))
        BY <1>14, <2>2, FS_Union DEF FlushSite
      <3>2. Cardinality(committed \cap OfSite(s)) = 0
        BY <2>1, FS_EmptySet
      <3>3. Cardinality(committed) \in Nat /\ Cardinality(OfSite(s)) \in Nat
        BY <2>2, FS_CardinalityType
      <3>. QED
        BY <3>1, <3>2, <3>3
    <2>4. Cardinality(committed) \in Nat /\ Cardinality(OfSite(s)) \in Nat
      BY <2>2, FS_CardinalityType
    <2>5. Accepted' = Accepted /\ Counting' = Counting /\ Unsettled' \subseteq Unsettled
      BY <1>14, <2>1
         DEF FlushSite, Accepted, Unsettled, Settled, Queued, Counting
    <2>6. IsFiniteSet(Unsettled')
      BY <2>5, FS_Subset DEF CountInv
    <2>. QED
      BY <1>0, <1>14, <2>3, <2>4, <2>5, <2>6
         DEF FlushSite, Flushing, CountInv, TypeInv, TypeOK
  <1>15. CASE FlushFails
    <2>1. Accepted' = Accepted /\ Counting' = Counting /\ Unsettled' \subseteq Unsettled
      BY <1>15 DEF FlushFails, Accepted, Unsettled, Settled, Queued, Counting
    <2>2. IsFiniteSet(Unsettled')
      BY <2>1, FS_Subset DEF CountInv
    <2>3. Cardinality(committed) \in Nat
      BY <1>0, FS_CardinalityType DEF TypeInv, AllFinite
    <2>. QED
      BY <1>0, <1>15, <2>1, <2>2, <2>3 DEF FlushFails, CountInv, TypeInv, TypeOK
  <1>16. CASE FlushDone
    <2>1. Unsettled' = Unsettled /\ Accepted' = Accepted /\ Counting' = Counting
      BY <1>16 DEF FlushDone, Accepted, Unsettled, Settled, Queued, Counting
    <2>2. Cardinality(committed) \in Nat
      BY <1>0, FS_CardinalityType DEF TypeInv, AllFinite
    <2>. QED
      BY <1>0, <1>16, <2>1, <2>2 DEF FlushDone, CountInv, TypeInv, TypeOK
  <1>17. CASE DeadlinePasses
    BY <1>17, CountUnchanged DEF DeadlinePasses, Unsettled, Queued, Counting
  <1>18. CASE UNCHANGED vars
    BY <1>18, CountUnchanged DEF vars, Unsettled, Queued, Counting
  <1>. QED
    BY <1>1, <1>2, <1>3, <1>4, <1>5, <1>6, <1>7, <1>8, <1>9, <1>10, <1>11,
       <1>12, <1>13, <1>14, <1>15, <1>16, <1>17, <1>18
       DEF Next, Main, Worker, Flush, Closing, Over

LEMMA CountInit == Init => CountInv
  <1>. SUFFICES ASSUME Init PROVE CountInv
    OBVIOUS
  <1>1. Unsettled = {} /\ Accepted = {} /\ Counting = 0
    BY DEF Init, Unsettled, Settled, Queued, Accepted, Counting
  <1>. QED
    BY <1>1, FS_EmptySet DEF Init, CountInv

LEMMA CountAlways == Spec => []CountInv
  BY SafeAlways, CountInit, CountStep, PTL DEF Spec

(* The counters of a snapshot add up in every reachable state.             *)
THEOREM Accounting == Spec => []CountersAddUp
  <1>1. SafeInv /\ CountInv => CountersAddUp
    <2>. SUFFICES ASSUME SafeInv, CountInv PROVE CountersAddUp
      OBVIOUS
    <2>1. IsFiniteSet(Settled)
      BY FS_Union DEF SafeInv, TypeInv, AllFinite, Settled
    <2>2. Cardinality(Accepted) = Cardinality(Unsettled) + Cardinality(Settled)
                                    - Cardinality(Unsettled \cap Settled)
      BY <2>1, FS_Union DEF CountInv, Accepted
    <2>3. Cardinality(Unsettled \cap Settled) = 0
      BY FS_EmptySet DEF SafeInv, Places, EachEventInOnePlace
    <2>4. Cardinality(Unsettled) \in Nat /\ Cardinality(Settled) \in Nat
      BY <2>1, FS_CardinalityType DEF CountInv
    <2>. QED
      BY <2>2, <2>3, <2>4 DEF CountInv, CountersAddUp, Counting
  <1>. QED
    BY <1>1, SafeAlways, CountAlways, PTL

(* When no counter of trouble moved, nothing was lost: what the badge of   *)
(* the dashboard concludes is right once the writer has ended.             *)
THEOREM CleanMeansNoLoss == Spec => []CleanCountersMeanNoLoss
  <1>1. SafeInv /\ CountInv => CleanCountersMeanNoLoss
    <2>. SUFFICES ASSUME SafeInv, CountInv, worker = "done", writeErrors = 0,
                         dropped = 0, producer # "count"
                  PROVE  Cardinality(committed) = submitted /\ processed = submitted
      BY DEF CleanCountersMeanNoLoss
    <2>1. Unsettled = {} /\ failed = {}
      BY DEF SafeInv, Places, NearlyDone, Unsettled, CountInv
    <2>2. Accepted = committed
      BY <2>1 DEF Accepted, Settled
    <2>. QED
      BY <2>2 DEF CountInv, Counting, SafeInv, TypeInv, TypeOK
  <1>. QED
    BY <1>1, SafeAlways, CountAlways, PTL

-----------------------------------------------------------------------------
(* The refinement.                                                         *)
(* Steps the ledger does not see.                                          *)
LEMMA LedgerStutter ==
    ASSUME Unsettled' = Unsettled, committed' = committed, failed' = failed,
           refused' = refused, Alive' = Alive
    PROVE  UNCHANGED Ledger!ledgerVars
  BY DEF Ledger!ledgerVars

LEMMA LedgerStep == SafeInv /\ [Next]_vars => [Ledger!LedgerNext]_Ledger!ledgerVars
  <1>. SUFFICES ASSUME SafeInv, [Next]_vars
                PROVE  [Ledger!LedgerNext]_Ledger!ledgerVars
    OBVIOUS
  <1>0. TypeInv /\ EachEventInOnePlace
    BY DEF SafeInv, Places
  <1>00. \A e \in Ledger!Seen : e.id \in 1 .. submitted
    BY <1>0 DEF EachEventInOnePlace, Ledger!Seen, Settled
  <1>1. ASSUME NEW s \in Sites, SubmitPut(s)
        PROVE  Ledger!LedgerNext
    <2>1. Queued' = Queued \cup {NewEvent(s)} /\ NewEvent(s) \in Event
          /\ NewEvent(s).id = submitted + 1
      BY <1>0, <1>1, PutEffect DEF NewEvent
    <2>2. Ledger!IsNew(NewEvent(s))
      BY <1>0, <1>00, <2>1 DEF Ledger!IsNew, TypeInv, TypeOK
    <2>3. Ledger!Accept(NewEvent(s))
      BY <1>1, <2>1, <2>2 DEF Ledger!Accept, SubmitPut, Alive, Unsettled
    <2>. QED
      BY <2>1, <2>3 DEF Ledger!LedgerNext, Ledger!Event, Event
  <1>2. ASSUME NEW s \in Sites, SubmitFull(s)
        PROVE  Ledger!LedgerNext
    <2>1. NewEvent(s) \in Event /\ NewEvent(s).id = submitted + 1
      BY <1>0, <1>2, QueueAssumption DEF SubmitFull, NewEvent, Event, TypeInv, TypeOK
    <2>2. Ledger!IsNew(NewEvent(s))
      BY <1>0, <1>00, <2>1 DEF Ledger!IsNew, TypeInv, TypeOK
    <2>3. Ledger!Refuse(NewEvent(s))
      BY <1>2, <2>2 DEF Ledger!Refuse, SubmitFull, Alive, Unsettled, Queued
    <2>. QED
      BY <2>1, <2>3 DEF Ledger!LedgerNext, Ledger!Event, Event
  <1>3. CASE StopFlag
    BY <1>3, LedgerStutter DEF StopFlag, Unsettled, Queued, Alive
  <1>4. CASE StopTimeout
    BY <1>4, LedgerStutter DEF StopTimeout, Unsettled, Queued, Alive
  <1>5. CASE SubmitCount
    BY <1>5, LedgerStutter DEF SubmitCount, Unsettled, Queued, Alive
  <1>6. CASE StopWake
    BY <1>0, <1>6, WakeEffect, LedgerStutter DEF StopWake, Unsettled, Alive
  <1>7. CASE StopJoin
    BY <1>7, LedgerStutter DEF StopJoin, Unsettled, Queued, Alive
  <1>8. CASE Exit
    <2>1. Alive /\ ~Alive' /\ Unsettled' = Unsettled /\ committed' = committed
          /\ failed' = failed /\ refused' = refused
      BY <1>8 DEF Exit, Alive, Unsettled, Queued
    <2>2. CASE Unsettled = {}
      BY <2>1, <2>2 DEF Ledger!ledgerVars
    <2>3. CASE Unsettled # {}
      <3>1. Ledger!IsPrefix(Unsettled)
        BY <2>1, <2>3 DEF Ledger!IsPrefix
      <3>2. Ledger!Lose(Unsettled)
        BY <2>1, <3>1 DEF Ledger!Lose
      <3>. QED
        BY <2>1, <3>2 DEF Ledger!LedgerNext
    <2>. QED
      BY <2>2, <2>3
  <1>9. CASE LoopTest
    BY <1>9, LedgerStutter DEF LoopTest, Unsettled, Queued, Alive
  <1>10. CASE GetEvent
    <2>1. Unsettled' = Unsettled
      BY <1>0, <1>10, GetEffect DEF GetEvent, Unsettled
    <2>. QED
      BY <1>10, <2>1, LedgerStutter DEF GetEvent, Alive
  <1>11. CASE GetNone
    <2>1. Unsettled' = Unsettled
      BY <1>0, <1>11, GetEffect DEF GetNone, Unsettled, Queued
    <2>. QED
      BY <1>11, <2>1, LedgerStutter DEF GetNone, Alive
  <1>12. CASE GetEmpty
    BY <1>12, LedgerStutter DEF GetEmpty, Unsettled, Queued, Alive
  <1>13. CASE CheckBatch
    BY <1>13, LedgerStutter DEF CheckBatch, Unsettled, Queued, Alive
  <1>14. ASSUME NEW s \in Sites, FlushSite(s)
         PROVE  Ledger!LedgerNext
    <2>. DEFINE batch == OfSite(s)
    <2>1. /\ Alive /\ Alive'
          /\ batch # {} /\ batch \subseteq Unsettled
          /\ Unsettled' = Unsettled \ batch
          /\ committed' = committed \cup batch
          /\ failed' = failed /\ refused' = refused
      BY <1>0, <1>14 DEF FlushSite, Flushing, Alive, OfSite, Unsettled, Queued,
                         EachEventInOnePlace
    <2>2. \A e \in batch, f \in Unsettled \ batch : e.site = f.site => e.id < f.id
      BY DEF OfSite, Unsettled, SafeInv, Order, BatchFirst
    <2>3. Ledger!IsPrefix(batch)
      BY <2>1, <2>2 DEF Ledger!IsPrefix
    <2>4. \A e, f \in batch : e.site = f.site
      BY DEF OfSite
    <2>5. Ledger!Record(batch)
      BY <2>1, <2>3, <2>4 DEF Ledger!Record
    <2>. QED
      BY <2>1, <2>5 DEF Ledger!LedgerNext
  <1>15. CASE FlushFails
    <2>1. /\ Alive /\ Alive'
          /\ pending # {} /\ pending \subseteq Unsettled
          /\ Unsettled' = Unsettled \ pending
          /\ failed' = failed \cup pending
          /\ committed' = committed /\ refused' = refused
      BY <1>0, <1>15 DEF FlushFails, Flushing, Alive, Unsettled, Queued,
                         EachEventInOnePlace
    <2>2. \A e \in pending, f \in Unsettled \ pending : e.id < f.id
      BY DEF Unsettled, SafeInv, Order, BatchFirst
    <2>3. Ledger!IsPrefix(pending)
      BY <2>1, <2>2 DEF Ledger!IsPrefix
    <2>4. Ledger!Lose(pending)
      BY <2>1, <2>3 DEF Ledger!Lose
    <2>. QED
      BY <2>1, <2>4 DEF Ledger!LedgerNext
  <1>16. CASE FlushDone
    BY <1>16, LedgerStutter DEF FlushDone, Unsettled, Queued, Alive
  <1>17. CASE DeadlinePasses
    BY <1>17, LedgerStutter DEF DeadlinePasses, Unsettled, Queued, Alive
  <1>18. CASE UNCHANGED vars
    BY <1>18, LedgerStutter DEF vars, Unsettled, Queued, Alive
  <1>. QED
    BY <1>1, <1>2, <1>3, <1>4, <1>5, <1>6, <1>7, <1>8, <1>9, <1>10, <1>11,
       <1>12, <1>13, <1>14, <1>15, <1>16, <1>17, <1>18
       DEF Next, Main, Worker, Flush, Closing, Over

(* The queue implements the ledger, for every instance.                    *)
THEOREM Refinement == Spec => ImplementsLedger
  <1>1. Init => Ledger!LedgerInit
    BY DEF Init, Ledger!LedgerInit, Alive, Unsettled, Queued
  <1>2. SafeInv /\ [Next]_vars => [Ledger!LedgerNext]_Ledger!ledgerVars
    BY LedgerStep
  <1>. QED
    BY <1>1, <1>2, SafeAlways, PTL DEF Spec, ImplementsLedger, Ledger!LedgerSpec
=============================================================================
