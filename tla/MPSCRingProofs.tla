--------------------------- MODULE MPSCRingProofs ---------------------------
(***************************************************************************)
(* Theorems about MPSCRing, for every set of producers, capacity, batch    *)
(* size and bound.                                                         *)
(***************************************************************************)
EXTENDS MPSCRing, TLAPS

USE CapacityAssumption, BatchAssumption, CommitAssumption, BoundsAssumption

\* Masking a position gives a slot of the array (the & mask of the code).
LEMMA SlotInArray ==
  ASSUME NEW pos \in Nat
  PROVE  Slot(pos) \in 0..(Capacity - 1)
BY DEF Slot

\* The operations of a batch are operations its producer has issued.
LEMMA BatchType ==
  ASSUME TypeOK, NEW p \in Producers, count[p] <= issued[p]
  PROVE  \A k \in 1..count[p] : Batch(p)[k] \in Op
<1>1. count[p] \in Nat /\ issued[p] \in 0..MaxOps
  BY DEF TypeOK
<1>2. ASSUME NEW k \in 1..count[p]
      PROVE  issued[p] - count[p] + k \in 1..MaxOps
  BY <1>1
<1> QED  BY <1>1, <1>2 DEF Batch, Op

\* SetFate keeps fate a function from operations to fates.
LEMMA SetFateType ==
  ASSUME fate \in [Op -> Fates], NEW ops, NEW f \in Fates, SetFate(ops, f)
  PROVE  fate' \in [Op -> Fates]
BY DEF SetFate

(***************************************************************************)
(* Type correctness.                                                       *)
(***************************************************************************)

\* A push in progress carries operations that were issued: what the type of
\* the slot array rests on.
Frames == \A p \in Producers : pc[p] # "idle" => count[p] <= issued[p]

TypeInv == TypeOK /\ Frames

LEMMA TypeInit == Init => TypeInv
<1> SUFFICES ASSUME Init PROVE TypeInv
  OBVIOUS
<1>1. fate \in [Op -> Fates]
  BY DEF Init, Fates
<1>2. handles \in [0..(Capacity - 1) -> Op \cup {Nothing}]
  BY DEF Init
<1>3. sent \in Seq(Op \cup {Nothing})
  BY DEF Init
<1>4. /\ pc \in [Producers -> PushPcs] /\ count \in [Producers -> 1..MaxBatch]
      /\ issued \in [Producers -> 0..MaxOps] /\ phase \in Phases
  BY DEF Init, PushPcs, Phases
<1>5. /\ t_alloc \in [Producers -> Nat] /\ seen_head \in [Producers -> Nat]
      /\ seen_epoch \in [Producers -> Nat]
  BY DEF Init
<1>6. Frames
  BY DEF Init, Frames
<1> QED
  BY <1>1, <1>2, <1>3, <1>4, <1>5, <1>6 DEF Init, TypeInv, TypeOK

\* What WriteSlots stores in a slot is an operation of the batch.
LEMMA WriteSlotsType ==
  ASSUME TypeInv, NEW p \in Producers, WriteSlots(p)
  PROVE  handles' \in [0..(Capacity - 1) -> Op \cup {Nothing}]
<1>1. \A k \in 1..count[p] : Batch(p)[k] \in Op
  BY BatchType DEF TypeInv, Frames, WriteSlots
<1>2. t_alloc[p] \in Nat /\ count[p] \in 1..MaxBatch
  BY DEF TypeInv, TypeOK
<1>3. ASSUME NEW s \in 0..(Capacity - 1), Newest(p, s) >= t_alloc[p]
      PROVE  Newest(p, s) - t_alloc[p] + 1 \in 1..count[p]
  <2> DEFINE last == t_alloc[p] + count[p] - 1
  <2>1. last - s \in Int
    BY <1>2
  <2>2. (last - s) % Capacity \in 0..(Capacity - 1)
    BY <2>1
  <2> QED  BY <1>2, <1>3, <2>2 DEF Newest
<1> QED  BY <1>1, <1>3 DEF WriteSlots, TypeInv, TypeOK

\* A commit puts as many commands on the wire as it takes off the ring.
LEMMA CommitStep ==
  ASSUME TypeOK, PrepWritev
  PROVE  /\ \E num \in Nat : /\ num <= tail - head_committed
                             /\ head_committed' = head_committed + num
                             /\ Len(sent') = Len(sent) + num
         /\ sent' \in Seq(Op \cup {Nothing})
<1> DEFINE room == tail - head_committed
           num  == IF room < CommitBatch THEN room ELSE CommitBatch
           more == [k \in 1..num |-> handles[Slot(head_committed + k - 1)]]
<1>1. /\ num \in Nat /\ num <= tail - head_committed
      /\ head_committed' = head_committed + num
      /\ sent' = sent \o more
  BY DEF PrepWritev, TypeOK
<1> HIDE DEF num
<1>2. \A k \in 1..num : handles[Slot(head_committed + k - 1)] \in Op \cup {Nothing}
  <2> TAKE k \in 1..num
  <2>1. head_committed + k - 1 \in Nat
    BY <1>1 DEF TypeOK
  <2> QED  BY <2>1, SlotInArray DEF TypeOK
<1>3. more \in Seq(Op \cup {Nothing}) /\ Len(more) = num
  BY <1>1, <1>2
<1>4. sent \in Seq(Op \cup {Nothing})
  BY DEF TypeOK
<1> QED  BY <1>1, <1>3, <1>4

\* One case per action of MPSCRing.
LEMMA TypeStep == TypeInv /\ [Next]_vars => TypeInv'
<1> SUFFICES ASSUME TypeInv, [Next]_vars PROVE TypeInv'
  OBVIOUS
<1> USE DEF TypeInv
<1>1. ASSUME NEW p \in Producers, NEW n \in 1..MaxBatch, BeginPush(p, n)
      PROVE  TypeInv'
  <2>1. fate' \in [Op -> Fates]
    BY <1>1, SetFateType DEF BeginPush, TypeOK, Fates
  <2> QED  BY <1>1, <2>1 DEF BeginPush, TypeOK, Frames, PushPcs, counters, consumer
<1>2. ASSUME NEW p \in Producers, LoadTail(p) PROVE TypeInv'
  <2>1. fate' \in [Op -> Fates]
    BY <1>2, SetFateType DEF LoadTail, Return, TypeOK, Fates
  <2>2. CASE stopped
    <3>1. /\ pc' = [pc EXCEPT ![p] = "idle"]
          /\ t_alloc' = [t_alloc EXCEPT ![p] = 0]
          /\ seen_head' = [seen_head EXCEPT ![p] = 0]
          /\ seen_epoch' = [seen_epoch EXCEPT ![p] = 0]
      BY <1>2, <2>2 DEF LoadTail, Return
    <3>2. UNCHANGED <<counters, count, issued, consumer, epoch, stale,
                      overrun>>
      BY <1>2 DEF LoadTail
    <3> QED  BY <2>1, <3>1, <3>2
             DEF TypeOK, Frames, PushPcs, counters, consumer
  <2>3. CASE ~stopped
    BY <1>2, <2>1, <2>3
    DEF LoadTail, TypeOK, Frames, PushPcs, counters, consumer
  <2> QED  BY <2>2, <2>3
<1>3. ASSUME NEW p \in Producers, LoadHead(p) PROVE TypeInv'
  <2>1. fate' \in [Op -> Fates]
    BY <1>3, SetFateType DEF LoadHead, Return, TypeOK, Fates
  <2>2. CASE Full(t_alloc[p], head)
    <3>1. /\ pc' = [pc EXCEPT ![p] = "idle"]
          /\ t_alloc' = [t_alloc EXCEPT ![p] = 0]
          /\ seen_head' = [seen_head EXCEPT ![p] = 0]
          /\ seen_epoch' = [seen_epoch EXCEPT ![p] = 0]
      BY <1>3, <2>2 DEF LoadHead, Return
    <3>2. UNCHANGED <<counters, count, issued, consumer, epoch, stale,
                      overrun>>
      BY <1>3 DEF LoadHead
    <3> QED  BY <2>1, <3>1, <3>2
             DEF TypeOK, Frames, PushPcs, counters, consumer
  <2>3. CASE ~Full(t_alloc[p], head)
    BY <1>3, <2>1, <2>3
    DEF LoadHead, TypeOK, Frames, PushPcs, counters, consumer
  <2> QED  BY <2>2, <2>3
<1>4. ASSUME NEW p \in Producers, CasSucceeds(p) PROVE TypeInv'
  <2>1. fate' \in [Op -> Fates]
    BY <1>4, SetFateType DEF CasSucceeds, TypeOK, Fates
  <2>3. stale' \in BOOLEAN /\ overrun' \in BOOLEAN
    BY <1>4 DEF CasSucceeds, TypeOK
  <2> QED  BY <1>4, <2>1, <2>3
           DEF CasSucceeds, TypeOK, Frames, PushPcs, consumer
<1>5. ASSUME NEW p \in Producers, CasFails(p) PROVE TypeInv'
  BY <1>5 DEF CasFails, TypeOK, Frames, PushPcs, counters, consumer, history
<1>6. ASSUME NEW p \in Producers, WriteSlots(p) PROVE TypeInv'
  BY <1>6, WriteSlotsType
  DEF WriteSlots, TypeOK, Frames, PushPcs, consumer, history
<1>7. ASSUME NEW p \in Producers, Publish(p) PROVE TypeInv'
  BY <1>7 DEF Publish, TypeOK, Frames, PushPcs, consumer
<1>8. CASE PrepWritev
  <2>1. head_committed' \in Nat /\ sent' \in Seq(Op \cup {Nothing})
    BY <1>8, CommitStep DEF TypeOK
  <2> QED  BY <1>8, <2>1 DEF PrepWritev, TypeOK, Frames, frames, history
<1>9. CASE Pop
  <2>1. fate' \in [Op -> Fates]
    BY <1>9, SetFateType DEF Pop, TypeOK, Fates
  <2>2. sent' \in Seq(Op \cup {Nothing})
    BY <1>9 DEF Pop, TypeOK
  <2> QED  BY <1>9, <2>1, <2>2 DEF Pop, TypeOK, Frames, frames, history
<1>10. CASE DrainStop
  <2>1. sent' \in Seq(Op \cup {Nothing})
    BY <1>10 DEF DrainStop
  <2> QED  BY <1>10, <2>1 DEF DrainStop, TypeOK, Frames, Phases, frames, history
<1>11. CASE DrainWait
  BY <1>11 DEF DrainWait, TypeOK, Frames, Phases, counters, frames, history
<1>12. CASE DrainResume
  <2>1. fate' \in [Op -> Fates]
    BY <1>12, SetFateType DEF DrainResume, TypeOK, Fates
  <2> QED  BY <1>12, <2>1 DEF DrainResume, TypeOK, Frames, counters, frames, history
<1>13. CASE DrainDone
  BY <1>13 DEF DrainDone, TypeOK, Frames, Phases, counters, frames, history
<1>14. CASE ResetHead
  BY <1>14 DEF ResetHead, TypeOK, Frames, Phases, frames
<1>15. CASE ResetCommitted
  BY <1>15 DEF ResetCommitted, TypeOK, Frames, Phases, frames, history
<1>16. CASE ResetTail
  BY <1>16 DEF ResetTail, TypeOK, Frames, Phases, frames, history
<1>17. CASE ResetAllocated
  BY <1>17 DEF ResetAllocated, TypeOK, Frames, Phases, frames, history
<1>18. CASE UNCHANGED vars
  BY <1>18 DEF TypeOK, Frames, vars, counters, frames, consumer, history
<1> QED
  BY <1>1, <1>2, <1>3, <1>4, <1>5, <1>6, <1>7, <1>8, <1>9, <1>10, <1>11,
     <1>12, <1>13, <1>14, <1>15, <1>16, <1>17, <1>18
  DEF Next, Push, Drain, Reset, Finished

\* Every variable of the ring keeps its type, whatever the interleaving.
THEOREM TypeCorrect == Spec => []TypeOK
<1>1. Init => TypeInv
  BY TypeInit
<1>2. TypeInv /\ [Next]_vars => TypeInv'
  BY TypeStep
<1>3. TypeInv => TypeOK
  BY DEF TypeInv
<1> QED  BY <1>1, <1>2, <1>3, PTL DEF Spec

(***************************************************************************)
(* How far the ring can be over-filled.  The test of push_n is made on two *)
(* loads that may both be old when the compare-exchange succeeds.  An old  *)
(* tail_allocated makes it fail; an old head is harmless because head only *)
(* grows - until a reset, which is what epoch counts.                      *)
(***************************************************************************)

StopPhase == stopped <=> phase # "run"

Epochs == \A p \in Producers : seen_epoch[p] <= epoch

\* A push that passed the test had room by what it loaded.
RoomSeen == \A p \in Producers : pc[p] = "cas" =>
  seen_head[p] <= t_alloc[p] /\ t_alloc[p] - seen_head[p] < Capacity

\* Within one epoch the loaded head is at most the head of now.
HeadGrows == \A p \in Producers :
  pc[p] = "cas" /\ seen_epoch[p] = epoch => seen_head[p] <= head

ResetFromZero ==
  phase \in {"reset_committed", "reset_tail", "reset_allocated"} => head = 0

OccupancyInv ==
  /\ StopPhase /\ Epochs /\ RoomSeen /\ HeadGrows /\ ResetFromZero
  /\ OccupancyBound /\ OverrunOnlyIfStale

LEMMA OccupancyInit == Init => OccupancyInv
BY DEF Init, OccupancyInv, StopPhase, Epochs, RoomSeen, HeadGrows,
       ResetFromZero, OccupancyBound, OverrunOnlyIfStale, InFlight

\* A push that returns an error leaves the invariant alone.
LEMMA ReturnKeeps ==
  ASSUME TypeInv, OccupancyInv, NEW p \in Producers, NEW e, Return(p, e),
         UNCHANGED <<counters, consumer, epoch, stale, overrun>>
  PROVE  OccupancyInv'
<1>1. /\ pc' = [pc EXCEPT ![p] = "idle"]
      /\ seen_head' = [seen_head EXCEPT ![p] = 0]
      /\ t_alloc' = [t_alloc EXCEPT ![p] = 0]
      /\ seen_epoch' = [seen_epoch EXCEPT ![p] = 0]
  BY DEF Return
<1>2. /\ pc \in [Producers -> PushPcs] /\ t_alloc \in [Producers -> Nat]
      /\ seen_head \in [Producers -> Nat]
      /\ seen_epoch \in [Producers -> Nat] /\ epoch \in Nat
  BY DEF TypeInv, TypeOK
<1> QED
  BY <1>1, <1>2 DEF OccupancyInv, StopPhase, Epochs, RoomSeen, HeadGrows,
    ResetFromZero, OccupancyBound, OverrunOnlyIfStale, InFlight, counters,
    consumer

\* The step that matters: a claim on fresh values fits.
LEMMA ClaimFits ==
  ASSUME TypeInv, OccupancyInv, NEW p \in Producers, CasSucceeds(p),
         seen_epoch[p] = epoch
  PROVE  InFlight + count[p] <= Capacity - 1 + MaxBatch
<1>1. seen_head[p] <= head /\ t_alloc[p] - seen_head[p] < Capacity
  BY DEF OccupancyInv, RoomSeen, HeadGrows, CasSucceeds
<1>2. tail_allocated = t_alloc[p] /\ count[p] <= MaxBatch
  BY DEF CasSucceeds, TypeInv, TypeOK
<1>3. /\ tail_allocated \in Nat /\ head \in Nat /\ seen_head[p] \in Nat
      /\ count[p] \in Nat
  BY DEF TypeInv, TypeOK
<1> QED  BY <1>1, <1>2, <1>3 DEF InFlight

LEMMA OccupancyStep ==
  TypeInv /\ OccupancyInv /\ [Next]_vars => OccupancyInv'
<1> SUFFICES ASSUME TypeInv, OccupancyInv, [Next]_vars PROVE OccupancyInv'
  OBVIOUS
<1> USE DEF OccupancyInv, StopPhase, Epochs, RoomSeen, HeadGrows,
            ResetFromZero, OccupancyBound, OverrunOnlyIfStale, InFlight
<1>1. ASSUME NEW p \in Producers, NEW n \in 1..MaxBatch, BeginPush(p, n)
      PROVE  OccupancyInv'
  BY <1>1 DEF BeginPush, TypeInv, TypeOK, counters, consumer
<1>2. ASSUME NEW p \in Producers, LoadTail(p) PROVE OccupancyInv'
  <2>1. CASE stopped
    BY <1>2, <2>1, ReturnKeeps DEF LoadTail
  <2>2. CASE ~stopped
    <3>1. /\ pc' = [pc EXCEPT ![p] = "load_head"]
          /\ UNCHANGED <<seen_head, seen_epoch, counters, consumer, epoch,
                          stale, overrun>>
          /\ \A q \in Producers : q # p => t_alloc'[q] = t_alloc[q]
      BY <1>2, <2>2 DEF LoadTail, TypeInv, TypeOK
    <3> QED  BY <3>1 DEF TypeInv, TypeOK, counters, consumer
  <2> QED  BY <2>1, <2>2
<1>3. ASSUME NEW p \in Producers, LoadHead(p) PROVE OccupancyInv'
  <2>1. CASE Full(t_alloc[p], head)
    BY <1>3, <2>1, ReturnKeeps DEF LoadHead
  <2>2. CASE ~Full(t_alloc[p], head)
    <3>1. /\ pc' = [pc EXCEPT ![p] = "cas"]
          /\ seen_head' = [seen_head EXCEPT ![p] = head]
          /\ seen_epoch' = [seen_epoch EXCEPT ![p] = epoch]
          /\ UNCHANGED <<t_alloc, counters, consumer, epoch, stale, overrun>>
      BY <1>3, <2>2 DEF LoadHead
    <3>2. head <= t_alloc[p] /\ t_alloc[p] - head < Capacity
      BY <2>2 DEF Full, TypeInv, TypeOK
    <3> QED  BY <3>1, <3>2 DEF TypeInv, TypeOK, counters, consumer
  <2> QED  BY <2>1, <2>2
<1>4. ASSUME NEW p \in Producers, CasSucceeds(p) PROVE OccupancyInv'
  <2>1. /\ StopPhase' /\ Epochs' /\ RoomSeen' /\ HeadGrows' /\ ResetFromZero'
    BY <1>4 DEF CasSucceeds, TypeInv, TypeOK, consumer
  <2>2. CASE seen_epoch[p] = epoch
    <3>1. InFlight + count[p] <= Capacity - 1 + MaxBatch
      BY <1>4, <2>2, ClaimFits
    <3>2. tail_allocated \in Nat /\ head \in Nat /\ count[p] \in Nat
      BY DEF TypeInv, TypeOK
    <3>3. OccupancyBound'
      BY <1>4, <3>1, <3>2 DEF CasSucceeds
    <3>4. MaxBatch = 1 => ~(InFlight + count[p] > Capacity)
      BY <3>1, <3>2
    <3>5. OverrunOnlyIfStale'
      BY <1>4, <2>2, <3>4 DEF CasSucceeds
    <3> QED  BY <2>1, <3>3, <3>5
  <2>3. CASE seen_epoch[p] # epoch
    BY <1>4, <2>1, <2>3 DEF CasSucceeds
  <2> QED  BY <2>2, <2>3
<1>5. ASSUME NEW p \in Producers, CasFails(p) PROVE OccupancyInv'
  BY <1>5 DEF CasFails, TypeInv, TypeOK, counters, consumer, history
<1>6. ASSUME NEW p \in Producers, WriteSlots(p) PROVE OccupancyInv'
  BY <1>6 DEF WriteSlots, TypeInv, TypeOK, consumer, history
<1>7. ASSUME NEW p \in Producers, Publish(p) PROVE OccupancyInv'
  BY <1>7 DEF Publish, TypeInv, TypeOK, consumer
<1>8. CASE PrepWritev
  BY <1>8 DEF PrepWritev, TypeInv, TypeOK, frames, history
<1>9. CASE Pop
  BY <1>9 DEF Pop, TypeInv, TypeOK, frames, history
<1>10. CASE DrainStop
  BY <1>10 DEF DrainStop, TypeInv, TypeOK, frames, history
<1>11. CASE DrainWait
  BY <1>11 DEF DrainWait, counters, frames, history
<1>12. CASE DrainResume
  BY <1>12 DEF DrainResume, counters, frames, history
<1>13. CASE DrainDone
  BY <1>13 DEF DrainDone, counters, frames, history
<1>14. CASE ResetHead
  BY <1>14 DEF ResetHead, TypeInv, TypeOK, frames
<1>15. CASE ResetCommitted
  BY <1>15 DEF ResetCommitted, frames, history
<1>16. CASE ResetTail
  BY <1>16 DEF ResetTail, frames, history
<1>17. CASE ResetAllocated
  BY <1>17 DEF ResetAllocated, frames, history
<1>18. CASE UNCHANGED vars
  BY <1>18 DEF vars, counters, frames, consumer, history
<1> QED
  BY <1>1, <1>2, <1>3, <1>4, <1>5, <1>6, <1>7, <1>8, <1>9, <1>10, <1>11,
     <1>12, <1>13, <1>14, <1>15, <1>16, <1>17, <1>18
  DEF Next, Push, Drain, Reset, Finished

\* The inductive invariant of the ring, type correctness included.
LEMMA OccupancyInvariant == Spec => [](TypeInv /\ OccupancyInv)
<1>1. Init => TypeInv /\ OccupancyInv
  BY TypeInit, OccupancyInit
<1>2. TypeInv /\ OccupancyInv /\ [Next]_vars => (TypeInv /\ OccupancyInv)'
  BY TypeStep, OccupancyStep
<1> QED  BY <1>1, <1>2, PTL DEF Spec

\* At most Capacity - 1 + MaxBatch operations are in flight, unless a
\* compare-exchange outlived a reconnection (push_n tests one free slot).
THEOREM OccupancyBounded == Spec => []OccupancyBound
<1>1. OccupancyInv => OccupancyBound
  BY DEF OccupancyInv
<1> QED  BY <1>1, OccupancyInvariant, PTL

\* Commands pushed one at a time never overwrite a live slot, again unless
\* a compare-exchange outlived a reconnection.
THEOREM SinglePushSafe == Spec => []OverrunOnlyIfStale
<1>1. OccupancyInv => OverrunOnlyIfStale
  BY DEF OccupancyInv
<1> QED  BY <1>1, OccupancyInvariant, PTL

(***************************************************************************)
(* The claims of the producers and the order of the counters.  A reset is  *)
(* safe because the drain before it waits until no claim is left, and      *)
(* because the stop bit is the last thing it clears.                       *)
(***************************************************************************)

Disjoint == \A p, q \in Claiming : p # q =>
  \/ t_alloc[p] + count[p] <= t_alloc[q]
  \/ t_alloc[q] + count[q] <= t_alloc[p]

InBounds == \A p \in Claiming :
  tail <= t_alloc[p] /\ t_alloc[p] + count[p] <= tail_allocated

Covered == phase # "reset_allocated" =>
  \A pos \in tail..(tail_allocated - 1) :
    \E p \in Claiming : pos \in Claimed(p)

\* Once the drain has seen tail reach old, no producer holds a claim.
Quiet == phase \in {"resume", "drained", "reset_committed", "reset_tail",
                    "reset_allocated"} => Claiming = {}

DrainsAll == phase \notin {"run", "reset_allocated"} => old = tail_allocated

\* What each store of the reset has already cleared.
Cleared ==
  /\ phase = "reset_tail" => head = 0 /\ head_committed = 0
  /\ phase = "reset_allocated" => head = 0 /\ head_committed = 0 /\ tail = 0
  /\ phase = "reset_committed" => head = 0

\* Nothing is owed by the server of a connection that was given up.
WireEmpty == phase # "run" => sent = <<>>

OrderInv ==
  /\ StopPhase /\ Disjoint /\ InBounds /\ Covered /\ Quiet /\ DrainsAll
  /\ Cleared /\ WireEmpty /\ CountersOrdered

LEMMA OrderInit == Init => OrderInv
BY DEF Init, OrderInv, StopPhase, Disjoint, InBounds, Covered, Quiet,
       DrainsAll, Cleared, WireEmpty, CountersOrdered, Claiming

\* A step that moves no counter and no claim keeps the claims in order.
LEMMA ClaimsKept ==
  ASSUME TypeInv, OrderInv,
         UNCHANGED <<tail, tail_allocated, stopped, head, head_committed,
                     phase, old, sent>>,
         Claiming' = Claiming,
         \A q \in Claiming : t_alloc'[q] = t_alloc[q] /\ count'[q] = count[q]
  PROVE  OrderInv'
<1>1. \A q \in Claiming : Claimed(q)' = Claimed(q)
  BY DEF Claimed, Claiming
<1> QED
  BY <1>1 DEF OrderInv, StopPhase, Disjoint, InBounds, Covered, Quiet,
              DrainsAll, Cleared, WireEmpty, CountersOrdered

LEMMA CasKeepsOrder ==
  ASSUME TypeInv, OrderInv, NEW p \in Producers, CasSucceeds(p)
  PROVE  OrderInv'
<1>1. /\ phase = "run" /\ ~stopped /\ tail_allocated = t_alloc[p]
  BY DEF CasSucceeds, OrderInv, StopPhase
<1>2. /\ tail_allocated' = tail_allocated + count[p]
      /\ UNCHANGED <<stopped, tail, head, head_committed, count, t_alloc,
                     phase, old, sent>>
  BY DEF CasSucceeds, consumer
<1>3. Claiming' = Claiming \cup {p} /\ p \notin Claiming
  BY DEF CasSucceeds, Claiming, TypeInv, TypeOK
<1>4. /\ tail \in Nat /\ tail_allocated \in Nat /\ tail <= tail_allocated
      /\ \A q \in Producers : t_alloc[q] \in Nat /\ count[q] \in Nat \ {0}
      /\ Claiming \subseteq Producers
  BY DEF TypeInv, TypeOK, Claiming, OrderInv, CountersOrdered
<1>5. InBounds'
  BY <1>1, <1>2, <1>3, <1>4 DEF InBounds, OrderInv
<1>6. Disjoint'
  BY <1>1, <1>2, <1>3, <1>4 DEF InBounds, Disjoint, OrderInv
<1>7. Covered'
  <2>1. \A q \in Producers : Claimed(q)' = Claimed(q)
    BY <1>2 DEF Claimed
  <2>2. ASSUME NEW pos \in tail..(tail_allocated + count[p] - 1)
        PROVE  \E q \in Claiming' : pos \in Claimed(q)
    <3>1. CASE pos < tail_allocated
      BY <1>1, <1>3, <1>4, <3>1 DEF OrderInv, Covered
    <3>2. CASE pos >= tail_allocated
      BY <1>1, <1>3, <1>4, <3>2 DEF Claimed
    <3> QED  BY <1>4, <3>1, <3>2
  <2> QED  BY <1>2, <1>3, <1>4, <2>1, <2>2 DEF Covered
<1>8. CountersOrdered'
  BY <1>2, <1>4 DEF OrderInv, CountersOrdered, TypeInv, TypeOK
<1> QED  BY <1>1, <1>2, <1>5, <1>6, <1>7, <1>8
         DEF OrderInv, StopPhase, Quiet, DrainsAll, Cleared, WireEmpty

LEMMA PublishKeepsOrder ==
  ASSUME TypeInv, OrderInv, NEW p \in Producers, Publish(p)
  PROVE  OrderInv'
<1>1. p \in Claiming /\ tail = t_alloc[p] /\ tail' = t_alloc[p] + count[p]
  BY DEF Publish, Claiming
<1>2. /\ UNCHANGED <<tail_allocated, stopped, head, head_committed, count,
                     phase, old, sent>>
      /\ \A q \in Producers : q # p => t_alloc'[q] = t_alloc[q]
  BY DEF Publish, consumer, TypeInv, TypeOK
<1>3. Claiming' = Claiming \ {p}
  BY DEF Publish, Claiming, TypeInv, TypeOK
<1>4. /\ tail \in Nat /\ tail_allocated \in Nat
      /\ head_committed \in Nat /\ head \in Nat
      /\ \A q \in Producers : t_alloc[q] \in Nat /\ count[q] \in Nat \ {0}
      /\ Claiming \subseteq Producers
  BY DEF TypeInv, TypeOK, Claiming
<1>5. \A q \in Claiming' : t_alloc[p] + count[p] <= t_alloc[q]
  BY <1>1, <1>3, <1>4 DEF OrderInv, Disjoint, InBounds
<1>6. InBounds'
  BY <1>1, <1>2, <1>3, <1>4, <1>5 DEF InBounds, OrderInv
<1>7. Disjoint'
  BY <1>2, <1>3, <1>4 DEF Disjoint, OrderInv
<1>8. Covered'
  <2> SUFFICES ASSUME phase # "reset_allocated",
                      NEW pos \in tail'..(tail_allocated - 1)
               PROVE  \E q \in Claiming' : pos \in Claimed(q)'
    BY <1>2 DEF Covered
  <2>1. pos \in tail..(tail_allocated - 1) /\ pos \notin Claimed(p)
    BY <1>1, <1>4 DEF Claimed
  <2>2. PICK q \in Claiming : pos \in Claimed(q)
    BY <2>1 DEF OrderInv, Covered
  <2>3. q \in Claiming'
    BY <1>3, <2>1, <2>2
  <2>4. Claimed(q)' = Claimed(q)
    BY <1>2, <1>3, <1>4, <2>3 DEF Claimed
  <2> QED  BY <2>2, <2>3, <2>4
<1>9. CountersOrdered'
  BY <1>1, <1>2, <1>4 DEF OrderInv, CountersOrdered, InBounds
<1>10. phase \in {"run", "wait_tail"}
  BY <1>1 DEF OrderInv, Quiet, TypeInv, TypeOK, Phases
<1> QED  BY <1>2, <1>3, <1>6, <1>7, <1>8, <1>9, <1>10
         DEF OrderInv, StopPhase, Quiet, DrainsAll, Cleared, WireEmpty

LEMMA OrderStep == TypeInv /\ OrderInv /\ [Next]_vars => OrderInv'
<1> SUFFICES ASSUME TypeInv, OrderInv, [Next]_vars PROVE OrderInv'
  OBVIOUS
<1> DEFINE Same == /\ UNCHANGED <<tail, tail_allocated, stopped, head,
                                  head_committed, phase, old, sent>>
                   /\ Claiming' = Claiming
                   /\ \A q \in Claiming : /\ t_alloc'[q] = t_alloc[q]
                                          /\ count'[q] = count[q]
<1>a. Same => OrderInv'
  BY ClaimsKept
<1>b. /\ tail \in Nat /\ tail_allocated \in Nat /\ head \in Nat
      /\ head_committed \in Nat /\ Claiming \subseteq Producers
      /\ \A q \in Producers : t_alloc[q] \in Nat /\ count[q] \in Nat \ {0}
      /\ pc \in [Producers -> PushPcs] /\ t_alloc \in [Producers -> Nat]
      /\ count \in [Producers -> 1..MaxBatch]
  BY DEF TypeInv, TypeOK, Claiming
<1> HIDE DEF Same
<1>1. ASSUME NEW p \in Producers, NEW n \in 1..MaxBatch, BeginPush(p, n)
      PROVE  OrderInv'
  <2>1. Same
    BY <1>1, <1>b DEF BeginPush, Same, Claiming, counters, consumer
  <2> QED  BY <1>a, <2>1
<1>2. ASSUME NEW p \in Producers, LoadTail(p) PROVE OrderInv'
  <2>1. CASE stopped
    BY <1>2, <1>a, <1>b, <2>1 DEF LoadTail, Return, Same, Claiming, counters, consumer
  <2>2. CASE ~stopped
    BY <1>2, <1>a, <1>b, <2>2 DEF LoadTail, Same, Claiming, counters, consumer
  <2> QED  BY <2>1, <2>2
<1>3. ASSUME NEW p \in Producers, LoadHead(p) PROVE OrderInv'
  <2>1. CASE Full(t_alloc[p], head)
    BY <1>3, <1>a, <1>b, <2>1 DEF LoadHead, Return, Same, Claiming, counters, consumer
  <2>2. CASE ~Full(t_alloc[p], head)
    BY <1>3, <1>a, <1>b, <2>2 DEF LoadHead, Same, Claiming, counters, consumer
  <2> QED  BY <2>1, <2>2
<1>4. ASSUME NEW p \in Producers, CasSucceeds(p) PROVE OrderInv'
  BY <1>4, CasKeepsOrder
<1>5. ASSUME NEW p \in Producers, CasFails(p) PROVE OrderInv'
  <2>1. Same
    BY <1>5, <1>b DEF CasFails, Same, Claiming, counters, consumer
  <2> QED  BY <1>a, <2>1
<1>6. ASSUME NEW p \in Producers, WriteSlots(p) PROVE OrderInv'
  <2>1. Same
    BY <1>6, <1>b DEF WriteSlots, Same, Claiming, consumer
  <2> QED  BY <1>a, <2>1
<1>7. ASSUME NEW p \in Producers, Publish(p) PROVE OrderInv'
  BY <1>7, PublishKeepsOrder
<1> USE DEF OrderInv, StopPhase, Disjoint, InBounds, Covered, Quiet,
            DrainsAll, Cleared, WireEmpty, CountersOrdered, Claiming, Claimed
<1>8. CASE PrepWritev
  <2>1. PICK num \in Nat : /\ num <= tail - head_committed
                           /\ head_committed' = head_committed + num
                           /\ Len(sent') = Len(sent) + num
    BY <1>8, CommitStep DEF TypeInv
  <2>2. UNCHANGED <<tail_allocated, stopped, tail, head, phase, old,
                    pc, count, t_alloc>> /\ phase = "run"
    BY <1>8 DEF PrepWritev, frames
  <2>3. CountersOrdered'
    BY <1>b, <2>1, <2>2
  <2> QED  BY <2>1, <2>2, <2>3
<1>9. CASE Pop
  <2>1. UNCHANGED <<tail_allocated, stopped, tail, head_committed, phase, old,
                    pc, count, t_alloc>>
    BY <1>9 DEF Pop, frames
  <2>2. Len(sent') = Len(sent) - 1 /\ Len(sent) \in Nat \ {0}
    BY <1>9 DEF Pop, TypeInv, TypeOK
  <2>3. CountersOrdered'
    BY <1>9, <1>b, <2>1, <2>2 DEF Pop
  <2> QED  BY <1>9, <2>1, <2>3 DEF Pop
<1>10. CASE DrainStop
  BY <1>10, <1>b DEF DrainStop, frames
<1>11. CASE DrainWait
  <2>1. Claiming = {}
    BY <1>11, <1>b DEF DrainWait
  <2> QED  BY <1>11, <1>b, <2>1 DEF DrainWait, counters, frames
<1>12. CASE DrainResume
  BY <1>12 DEF DrainResume, counters, frames
<1>13. CASE DrainDone
  BY <1>13 DEF DrainDone, counters, frames
<1>14. CASE ResetHead
  BY <1>14, <1>b DEF ResetHead, frames
<1>15. CASE ResetCommitted
  BY <1>15, <1>b DEF ResetCommitted, frames
<1>16. CASE ResetTail
  BY <1>16, <1>b DEF ResetTail, frames
<1>17. CASE ResetAllocated
  <2>1. Claiming = {}
    BY <1>17 DEF ResetAllocated
  <2> QED  BY <1>17, <1>b, <2>1 DEF ResetAllocated, frames
<1>18. CASE UNCHANGED vars
  BY <1>18 DEF vars, counters, frames, consumer, history
<1> QED
  BY <1>1, <1>2, <1>3, <1>4, <1>5, <1>6, <1>7, <1>8, <1>9, <1>10, <1>11,
     <1>12, <1>13, <1>14, <1>15, <1>16, <1>17, <1>18
  DEF Next, Push, Drain, Reset, Finished

LEMMA OrderInvariant == Spec => [](TypeInv /\ OrderInv)
<1>1. Init => TypeInv /\ OrderInv
  BY TypeInit, OrderInit
<1>2. TypeInv /\ OrderInv /\ [Next]_vars => (TypeInv /\ OrderInv)'
  BY TypeStep, OrderStep
<1> QED  BY <1>1, <1>2, PTL DEF Spec

\* The four counters never cross, also between the stores of a reset, and a
\* reply is owed for each committed command.
THEOREM CountersStayOrdered == Spec => []CountersOrdered
<1>1. OrderInv => CountersOrdered
  BY DEF OrderInv
<1> QED  BY <1>1, OrderInvariant, PTL

\* No position is claimed twice, and every unpublished one has a claimer.
THEOREM ClaimsArePartition == Spec => []ClaimsPartition
<1>1. TypeInv /\ OrderInv => ClaimsPartition
  <2> SUFFICES ASSUME TypeInv, OrderInv PROVE ClaimsPartition
    OBVIOUS
  <2>1. \A p \in Claiming : t_alloc[p] \in Nat /\ count[p] \in Nat
    BY DEF TypeInv, TypeOK, Claiming
  <2>2. \A p, q \in Claiming : p # q => Claimed(p) \cap Claimed(q) = {}
    BY <2>1 DEF OrderInv, Disjoint, Claimed
  <2> QED  BY <2>2 DEF OrderInv, InBounds, Covered, ClaimsPartition
<1> QED  BY <1>1, OrderInvariant, PTL
=============================================================================
