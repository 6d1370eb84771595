------------------------- MODULE MPSCRingQueueProofs -------------------------
(***************************************************************************)
(* Theorems about what the slots of MPSCRing hold: who waits is who the    *)
(* ring will resume, everybody is given the reply to his own command and   *)
(* is resumed once, and the ring is the queue of module RingQueue.         *)
(***************************************************************************)
EXTENDS MPSCRingProofs

USE CapacityAssumption, BatchAssumption, CommitAssumption, BoundsAssumption

(***************************************************************************)
(* Positions modulo the capacity.                                          *)
(***************************************************************************)

\* A position is a multiple of the capacity and its slot.
LEMMA SlotSplit ==
  ASSUME NEW a \in Int
  PROVE  /\ a % Capacity \in 0..(Capacity - 1)
         /\ \E q \in Int : a = q * Capacity + (a % Capacity)
<1>1. a = Capacity * (a \div Capacity) + (a % Capacity)
  OBVIOUS
<1>2. a \div Capacity \in Int /\ a % Capacity \in 0..(Capacity - 1)
  OBVIOUS
<1>3. Capacity * (a \div Capacity) = (a \div Capacity) * Capacity
  BY <1>2
<1>4. a = (a \div Capacity) * Capacity + (a % Capacity)
  BY <1>1, <1>3
<1> QED  BY <1>2, <1>4

\* ... in one way only.
LEMMA SlotUnique ==
  ASSUME NEW p \in Int, NEW q \in Int, NEW r \in 0..(Capacity - 1),
         NEW s \in 0..(Capacity - 1), p * Capacity + r = q * Capacity + s
  PROVE  p = q /\ r = s
<1>1. (p - q) * Capacity = s - r
  OBVIOUS
<1>2. ~(p - q >= 1)
  <2>1. p - q >= 1 => (p - q) * Capacity >= Capacity
    OBVIOUS
  <2> QED  BY <1>1, <2>1
<1>3. ~(p - q <= -1)
  <2>1. p - q <= -1 => (p - q) * Capacity <= -Capacity
    OBVIOUS
  <2> QED  BY <1>1, <2>1
<1>4. p = q
  BY <1>2, <1>3
<1> QED  BY <1>4

\* Positions less than a capacity apart have slots of their own.
LEMMA SlotsDiffer ==
  ASSUME NEW a \in Nat, NEW b \in Nat, a - b < Capacity, b - a < Capacity,
         Slot(a) = Slot(b)
  PROVE  a = b
<1>0. a \in Int /\ b \in Int
  OBVIOUS
<1>1. PICK q \in Int : a = q * Capacity + (a % Capacity)
  BY <1>0, SlotSplit, Zenon
<1>2. PICK r \in Int : b = r * Capacity + (b % Capacity)
  BY <1>0, SlotSplit, Zenon
<1>3. a % Capacity = b % Capacity /\ a % Capacity \in 0..(Capacity - 1)
  BY <1>0, SlotSplit, Zenon DEF Slot
<1>4. a - b = (q - r) * Capacity
  BY <1>1, <1>2, <1>3
<1>5. q - r >= 1 => (q - r) * Capacity >= Capacity
  OBVIOUS
<1>6. q - r <= -1 => (q - r) * Capacity <= -Capacity
  OBVIOUS
<1>7. q - r = 0
  BY <1>4, <1>5, <1>6
<1> QED  BY <1>4, <1>7

\* A slot's newest position has that slot; and a position at the end of a
\* claim that fits the array is the newest of its slot.
LEMMA NewestSlot ==
  ASSUME NEW last \in Nat, NEW s \in 0..(Capacity - 1),
         last - ((last - s) % Capacity) \in Nat
  PROVE  Slot(last - ((last - s) % Capacity)) = s
<1> DEFINE m == (last - s) % Capacity
           n == last - m
<1>0. last - s \in Int
  OBVIOUS
<1>1. PICK q \in Int : last - s = q * Capacity + m
  BY <1>0, SlotSplit, Zenon
<1>2. n \in Int /\ n = q * Capacity + s
  BY <1>1
<1>3. PICK r \in Int : n = r * Capacity + (n % Capacity)
  BY <1>2, SlotSplit
<1>4. n % Capacity \in 0..(Capacity - 1)
  BY <1>2, SlotSplit
<1> HIDE DEF n
<1>5. n % Capacity = s
  BY <1>2, <1>3, <1>4, SlotUnique
<1> QED  BY <1>5 DEF Slot, n

LEMMA NewestOfClaim ==
  ASSUME NEW last \in Nat, NEW pos \in Nat, pos <= last, last - pos < Capacity
  PROVE  last - ((last - Slot(pos)) % Capacity) = pos
<1> DEFINE r == pos % Capacity
           m == (last - r) % Capacity
<1>1. r \in 0..(Capacity - 1) /\ last - r \in Int
  BY SlotSplit
<1>0. pos \in Int
  OBVIOUS
<1>2. PICK q \in Int : pos = q * Capacity + r
  BY <1>0, SlotSplit, Zenon
<1>3. m \in 0..(Capacity - 1)
  BY <1>1, SlotSplit
<1>4. PICK k \in Int : last - r = k * Capacity + m
  BY <1>1, SlotSplit, Zenon
<1>5. last - pos \in 0..(Capacity - 1)
  OBVIOUS
<1> HIDE DEF r, m
<1>6. q * Capacity + (last - pos) = k * Capacity + m
  BY <1>1, <1>2, <1>3, <1>4
<1>7. m = last - pos
  BY <1>3, <1>5, <1>6, SlotUnique
<1> QED  BY <1>7 DEF Slot, m, r

(***************************************************************************)
(* What the slots hold, as long as no live slot was overwritten.           *)
(***************************************************************************)

\* A push that has claimed nothing yet.
Trying(p) == pc[p] \in {"load_tail", "load_head", "cas"}

Fresh     == \A o \in Op : o[2] > issued[o[1]] => fate[o] = "unissued"
PushFates == \A p \in Producers : Trying(p) => \A o \in BatchSet(p) : fate[o] = "pushing"

\* The live positions fit the array.
Room == phase \in {"run", "wait_tail", "resume"} => InFlight <= Capacity

CursorIn == phase = "resume" => head <= cursor /\ cursor <= old

\* A claim that is written and not published keeps its slots.
Written == \A p \in Producers : pc[p] = "publish" =>
  \A pos \in Claimed(p) : handles[Slot(pos)] = Batch(p)[pos - t_alloc[p] + 1]

LiveQueued == \A pos \in LivePositions : OpAt(pos) \in Op /\ fate[OpAt(pos)] = "queued"
QueuedLive == \A o \in Op : fate[o] = "queued" => \E pos \in LivePositions : OpAt(pos) = o
Distinct   == \A a, b \in LivePositions : OpAt(a) = OpAt(b) => a = b

\* What the server has to answer next is what pop resumes next.
Wire == phase = "run" => \A k \in 1..Len(sent) : sent[k] = handles[Slot(head + k - 1)]

NoWrong == \A o \in Op : fate[o] # "wrong_reply"

LiveInv == LiveQueued /\ QueuedLive /\ Distinct
SlotInv == Fresh /\ PushFates /\ Room /\ CursorIn /\ Written /\ Wire /\ NoWrong

Contents == ~overrun => SlotInv /\ LiveInv

RingInv == TypeInv /\ OrderInv

\* Types that nearly every step below needs.
LEMMA Naturals ==
  ASSUME RingInv
  PROVE  /\ tail \in Nat /\ tail_allocated \in Nat /\ head \in Nat
         /\ head_committed \in Nat /\ old \in Nat /\ cursor \in Nat
         /\ Claiming \subseteq Producers
         /\ \A q \in Producers : /\ t_alloc[q] \in Nat /\ count[q] \in Nat \ {0}
                                 /\ issued[q] \in Nat
BY DEF RingInv, TypeInv, TypeOK, Claiming

\* A published position is held by its slot, a claimed one by its claimer.
Holders ==
  /\ \A pos \in Nat : pos < tail => OpAt(pos) = handles[Slot(pos)]
  /\ \A p \in Claiming : \A pos \in Claimed(p) :
       OpAt(pos) = Batch(p)[pos - t_alloc[p] + 1]

LEMMA OpAtIs == RingInv => Holders
<1> SUFFICES ASSUME RingInv
             PROVE  \A p \in Claiming : \A pos \in Claimed(p) :
                      OpAt(pos) = Batch(p)[pos - t_alloc[p] + 1]
  BY DEF Holders, OpAt
<1> TAKE p \in Claiming
<1> TAKE pos \in Claimed(p)
<1>1. ~(pos < tail)
  BY Naturals DEF RingInv, OrderInv, InBounds, Claimed
<1>2. \A q \in Claiming : pos \in Claimed(q) => q = p
  BY Naturals DEF RingInv, OrderInv, Disjoint, Claimed
<1>3. (CHOOSE q \in Claiming : pos \in Claimed(q)) = p
  BY <1>2
<1> QED  BY <1>1, <1>3 DEF OpAt

LEMMA OpAtIsNext == RingInv' => Holders'
BY OpAtIs, PTL

\* A live position is published or claimed, and within a capacity of the
\* others.
LEMMA LivePlace ==
  ASSUME RingInv, CursorIn, NEW pos \in LivePositions
  PROVE  /\ pos \in Nat /\ head <= pos /\ pos < tail_allocated
         /\ phase \in {"run", "wait_tail", "resume"}
         /\ pos < tail \/ \E p \in Claiming : pos \in Claimed(p)
<1>1. phase \in {"run", "wait_tail", "resume"}
  BY Naturals DEF LivePositions, FirstLive
<1>2. pos \in FirstLive..(tail_allocated - 1) /\ FirstLive \in Nat /\ head <= FirstLive
  BY <1>1, Naturals DEF LivePositions, FirstLive, CursorIn
<1>3. pos < tail \/ pos \in tail..(tail_allocated - 1)
  BY <1>2, Naturals
<1> QED  BY <1>1, <1>2, <1>3, Naturals DEF RingInv, OrderInv, Covered

\* Filling the slots of a claim changes them and no other slot near by.
LEMMA SlotsWritten ==
  ASSUME RingInv, NEW p \in Producers, WriteSlots(p), count[p] <= Capacity
  PROVE  /\ \A pos \in Claimed(p) :
              handles'[Slot(pos)] = Batch(p)[pos - t_alloc[p] + 1]
         /\ \A pos \in Nat \ Claimed(p) :
              (\A c \in Claimed(p) : pos - c < Capacity /\ c - pos < Capacity)
                => handles'[Slot(pos)] = handles[Slot(pos)]
<1> DEFINE last == t_alloc[p] + count[p] - 1
<1>1. /\ t_alloc[p] \in Nat /\ count[p] \in Nat \ {0} /\ last \in Nat
      /\ DOMAIN handles = 0..(Capacity - 1)
  BY Naturals DEF RingInv, TypeInv, TypeOK
<1>2. \A s \in 0..(Capacity - 1) :
        handles'[s] = IF Newest(p, s) >= t_alloc[p]
                      THEN Batch(p)[Newest(p, s) - t_alloc[p] + 1] ELSE handles[s]
  BY <1>1 DEF WriteSlots
<1>3. ASSUME NEW pos \in Claimed(p)
      PROVE  handles'[Slot(pos)] = Batch(p)[pos - t_alloc[p] + 1]
  <2>1. pos \in Nat /\ pos <= last /\ last - pos < Capacity /\ pos >= t_alloc[p]
    BY <1>1, <1>3 DEF Claimed
  <2>2. Newest(p, Slot(pos)) = pos
    BY <1>1, <2>1, NewestOfClaim DEF Newest
  <2>3. Slot(pos) \in 0..(Capacity - 1)
    BY <2>1, SlotInArray
  <2> QED  BY <1>2, <2>1, <2>2, <2>3
<1>4. ASSUME NEW pos \in Nat \ Claimed(p),
             \A c \in Claimed(p) : pos - c < Capacity /\ c - pos < Capacity
      PROVE  handles'[Slot(pos)] = handles[Slot(pos)]
  <2> DEFINE s == Slot(pos)
             n == last - ((last - s) % Capacity)
  <2>1. s \in 0..(Capacity - 1)
    BY SlotInArray
  <2>2. n = Newest(p, s)
    BY DEF Newest
  <2>3. (last - s) % Capacity \in 0..(Capacity - 1)
    <3>1. last - s \in Int
      BY <1>1, <2>1
    <3> QED  BY <3>1, SlotSplit, Zenon
  <2>4. ~(n >= t_alloc[p])
    <3> SUFFICES ASSUME n >= t_alloc[p] PROVE FALSE
      OBVIOUS
    <3>1. n \in Nat /\ n \in Claimed(p)
      BY <1>1, <2>3 DEF Claimed
    <3>2. Slot(n) = s
      BY <1>1, <2>1, <3>1, NewestSlot
    <3>3. n = pos
      BY <1>4, <3>1, <3>2, SlotsDiffer
    <3> QED  BY <3>1, <3>3
  <2> QED  BY <1>2, <2>1, <2>2, <2>4
<1> QED  BY <1>3, <1>4

\* A step that leaves claims and slots alone.
LEMMA OpAtKept ==
  ASSUME RingInv, RingInv', UNCHANGED <<tail, handles>>, Claiming' = Claiming,
         \A q \in Claiming : /\ t_alloc'[q] = t_alloc[q] /\ count'[q] = count[q]
                             /\ issued'[q] = issued[q],
         NEW pos \in Nat, pos < tail \/ \E q \in Claiming : pos \in Claimed(q)
  PROVE  OpAt(pos)' = OpAt(pos)
<1>1. CASE pos < tail
  BY <1>1, OpAtIs, OpAtIsNext DEF Holders
<1>2. ASSUME NEW q \in Claiming, pos \in Claimed(q) PROVE OpAt(pos)' = OpAt(pos)
  <2>1. Claimed(q)' = Claimed(q) /\ Batch(q)' = Batch(q)
    BY DEF Claimed, Batch
  <2>2. OpAt(pos)' = Batch(q)'[pos - t_alloc[q] + 1]
    BY <1>2, <2>1, OpAtIsNext DEF Holders
  <2>3. OpAt(pos) = Batch(q)[pos - t_alloc[q] + 1]
    BY <1>2, OpAtIs DEF Holders
  <2> QED  BY <2>1, <2>2, <2>3
<1> QED  BY <1>1, <1>2

LEMMA ClaimStable ==
  ASSUME RingInv, RingInv', NEW p \in Producers, CasSucceeds(p),
         NEW pos \in Nat, pos < tail \/ \E q \in Claiming : pos \in Claimed(q)
  PROVE  OpAt(pos)' = OpAt(pos)
<1>1. /\ UNCHANGED <<tail, handles, t_alloc, count, issued>>
      /\ Claiming \subseteq Claiming'
  BY DEF CasSucceeds, Claiming, RingInv, TypeInv, TypeOK
<1>2. CASE pos < tail
  BY <1>1, <1>2, OpAtIs, OpAtIsNext DEF Holders
<1>3. ASSUME NEW q \in Claiming, pos \in Claimed(q) PROVE OpAt(pos)' = OpAt(pos)
  <2>1. Claimed(q)' = Claimed(q) /\ Batch(q)' = Batch(q) /\ q \in Claiming'
    BY <1>1 DEF Claimed, Batch
  <2>2. OpAt(pos)' = Batch(q)'[pos - t_alloc[q] + 1]
    BY <1>1, <1>3, <2>1, OpAtIsNext DEF Holders
  <2>3. OpAt(pos) = Batch(q)[pos - t_alloc[q] + 1]
    BY <1>3, OpAtIs DEF Holders
  <2> QED  BY <2>1, <2>2, <2>3
<1> QED  BY <1>2, <1>3

\* The slots a claim fills hold no other live position.
LEMMA SlotsOfOthers ==
  ASSUME RingInv, Room, CursorIn, NEW p \in Producers, WriteSlots(p),
         NEW pos \in Nat, head <= pos, pos < tail_allocated, pos \notin Claimed(p)
  PROVE  handles'[Slot(pos)] = handles[Slot(pos)]
<1>1. p \in Claiming /\ phase \in {"run", "wait_tail"}
  BY DEF WriteSlots, Claiming, RingInv, OrderInv, Quiet, TypeInv, TypeOK, Phases
<1>2. /\ tail_allocated - head <= Capacity /\ head <= t_alloc[p]
      /\ t_alloc[p] + count[p] <= tail_allocated
  BY <1>1, Naturals DEF Room, InFlight, RingInv, OrderInv, InBounds, CountersOrdered
<1>3. count[p] <= Capacity
  BY <1>2, Naturals
<1>4. \A c \in Claimed(p) : pos - c < Capacity /\ c - pos < Capacity
  BY <1>2, Naturals DEF Claimed
<1> QED  BY <1>3, <1>4, SlotsWritten

LEMMA WriteStable ==
  ASSUME RingInv, RingInv', Room, CursorIn, NEW p \in Producers, WriteSlots(p),
         NEW pos \in LivePositions
  PROVE  OpAt(pos)' = OpAt(pos)
<1>1. /\ UNCHANGED <<tail, t_alloc, count, issued>> /\ Claiming' = Claiming
      /\ p \in Claiming
  BY DEF WriteSlots, Claiming, RingInv, TypeInv, TypeOK
<1>2. /\ pos \in Nat /\ head <= pos /\ pos < tail_allocated
      /\ pos < tail \/ \E q \in Claiming : pos \in Claimed(q)
  BY LivePlace
<1>3. CASE pos < tail
  <2>1. pos \notin Claimed(p)
    BY <1>1, <1>3, Naturals DEF RingInv, OrderInv, InBounds, Claimed
  <2>2. handles'[Slot(pos)] = handles[Slot(pos)]
    BY <1>2, <2>1, SlotsOfOthers
  <2> QED  BY <1>1, <1>2, <1>3, <2>2, OpAtIs, OpAtIsNext DEF Holders
<1>4. ASSUME NEW q \in Claiming, pos \in Claimed(q) PROVE OpAt(pos)' = OpAt(pos)
  <2>1. Claimed(q)' = Claimed(q) /\ Batch(q)' = Batch(q)
    BY <1>1 DEF Claimed, Batch
  <2>2. OpAt(pos)' = Batch(q)'[pos - t_alloc[q] + 1]
    BY <1>1, <1>4, <2>1, OpAtIsNext DEF Holders
  <2>3. OpAt(pos) = Batch(q)[pos - t_alloc[q] + 1]
    BY <1>4, OpAtIs DEF Holders
  <2> QED  BY <2>1, <2>2, <2>3
<1> QED  BY <1>2, <1>3, <1>4

LEMMA PublishStable ==
  ASSUME RingInv, RingInv', Written, NEW p \in Producers, Publish(p),
         NEW pos \in Nat, pos < tail \/ \E q \in Claiming : pos \in Claimed(q)
  PROVE  OpAt(pos)' = OpAt(pos)
<1>1. /\ p \in Claiming /\ tail = t_alloc[p] /\ tail' = t_alloc[p] + count[p]
      /\ UNCHANGED <<handles, count, issued>> /\ Claiming' = Claiming \ {p}
      /\ \A q \in Producers : q # p => t_alloc'[q] = t_alloc[q]
  BY DEF Publish, Claiming, RingInv, TypeInv, TypeOK
<1>2. CASE pos < tail
  BY <1>1, <1>2, Naturals, OpAtIs, OpAtIsNext DEF Holders
<1>3. CASE pos \in Claimed(p)
  <2>1. OpAt(pos) = Batch(p)[pos - t_alloc[p] + 1]
    BY <1>1, <1>3, OpAtIs DEF Holders
  <2>2. handles[Slot(pos)] = Batch(p)[pos - t_alloc[p] + 1]
    BY <1>3 DEF Written, Publish
  <2>3. pos < tail'
    BY <1>1, <1>3, Naturals DEF Claimed
  <2> QED  BY <1>1, <2>1, <2>2, <2>3, OpAtIsNext DEF Holders
<1>4. ASSUME NEW q \in Claiming, pos \in Claimed(q), q # p
      PROVE  OpAt(pos)' = OpAt(pos)
  <2>1. t_alloc'[q] = t_alloc[q] /\ q \in Claiming'
    BY <1>1, <1>4, Naturals
  <2>2. Claimed(q)' = Claimed(q) /\ Batch(q)' = Batch(q)
    BY <1>1, <2>1 DEF Claimed, Batch
  <2>3. OpAt(pos)' = Batch(q)'[pos - t_alloc[q] + 1]
    BY <1>1, <1>4, <2>1, <2>2, OpAtIsNext DEF Holders
  <2>4. OpAt(pos) = Batch(q)[pos - t_alloc[q] + 1]
    BY <1>4, OpAtIs DEF Holders
  <2> QED  BY <2>2, <2>3, <2>4
<1> QED  BY <1>2, <1>3, <1>4

\* Who holds a live position does not change while the position lives.
LEMMA OpAtStable ==
  ASSUME RingInv, RingInv', Room, CursorIn, Written, [Next]_vars,
         NEW pos \in LivePositions, pos \in LivePositions'
  PROVE  OpAt(pos)' = OpAt(pos)
<1>1. /\ pos \in Nat /\ phase \in {"run", "wait_tail", "resume"}
      /\ pos < tail \/ \E q \in Claiming : pos \in Claimed(q)
  BY LivePlace
<1>2. ASSUME UNCHANGED <<tail, handles>>, Claiming' = Claiming,
             \A q \in Claiming : /\ t_alloc'[q] = t_alloc[q] /\ count'[q] = count[q]
                                 /\ issued'[q] = issued[q]
      PROVE  OpAt(pos)' = OpAt(pos)
  BY <1>1, <1>2, OpAtKept
<1>3. pc \in [Producers -> PushPcs] /\ t_alloc \in [Producers -> Nat]
      /\ count \in [Producers -> 1..MaxBatch] /\ issued \in [Producers -> 0..MaxOps]
  BY DEF RingInv, TypeInv, TypeOK
<1>4. ASSUME NEW p \in Producers, NEW n \in 1..MaxBatch, BeginPush(p, n)
      PROVE  OpAt(pos)' = OpAt(pos)
  BY <1>2, <1>3, <1>4 DEF BeginPush, Claiming, counters
<1>5. ASSUME NEW p \in Producers, LoadTail(p) PROVE OpAt(pos)' = OpAt(pos)
  <2>1. CASE stopped
    BY <1>2, <1>3, <1>5, <2>1 DEF LoadTail, Return, Claiming, counters
  <2>2. CASE ~stopped
    BY <1>2, <1>3, <1>5, <2>2 DEF LoadTail, Claiming, counters
  <2> QED  BY <2>1, <2>2
<1>6. ASSUME NEW p \in Producers, LoadHead(p) PROVE OpAt(pos)' = OpAt(pos)
  <2>1. CASE Full(t_alloc[p], head)
    BY <1>2, <1>3, <1>6, <2>1 DEF LoadHead, Return, Claiming, counters
  <2>2. CASE ~Full(t_alloc[p], head)
    BY <1>2, <1>3, <1>6, <2>2 DEF LoadHead, Claiming, counters
  <2> QED  BY <2>1, <2>2
<1>7. ASSUME NEW p \in Producers, CasSucceeds(p) PROVE OpAt(pos)' = OpAt(pos)
  BY <1>1, <1>7, ClaimStable
<1>8. ASSUME NEW p \in Producers, CasFails(p) PROVE OpAt(pos)' = OpAt(pos)
  BY <1>2, <1>3, <1>8 DEF CasFails, Claiming, counters
<1>9. ASSUME NEW p \in Producers, WriteSlots(p) PROVE OpAt(pos)' = OpAt(pos)
  BY <1>9, WriteStable
<1>10. ASSUME NEW p \in Producers, Publish(p) PROVE OpAt(pos)' = OpAt(pos)
  BY <1>1, <1>10, PublishStable
<1>11. CASE PrepWritev \/ Pop \/ DrainStop \/ DrainWait \/ DrainResume \/ DrainDone
  <2>1. UNCHANGED <<tail, handles, frames>>
    BY <1>11 DEF PrepWritev, Pop, DrainStop, DrainWait, DrainResume, DrainDone, counters
  <2> QED  BY <1>2, <2>1 DEF frames, Claiming
<1>12. CASE Reset
  BY <1>1, <1>12 DEF Reset, ResetHead, ResetCommitted, ResetTail, ResetAllocated
<1>13. CASE UNCHANGED vars
  BY <1>2, <1>13 DEF vars, counters, frames, Claiming
<1> QED
  BY <1>4, <1>5, <1>6, <1>7, <1>8, <1>9, <1>10, <1>11, <1>12, <1>13
  DEF Next, Push, Drain, Finished

\* The operations of a batch: its producer's, all different.
LEMMA BatchFacts ==
  ASSUME TypeInv, NEW p \in Producers, pc[p] # "idle"
  PROVE  /\ \A k \in 1..count[p] : /\ Batch(p)[k] = <<p, issued[p] - count[p] + k>>
                                   /\ Batch(p)[k] \in BatchSet(p)
         /\ BatchSet(p) \subseteq Op
         /\ \A o \in BatchSet(p) : o[1] = p /\ o[2] <= issued[p]
         /\ \A o \in BatchSet(p) : \E k \in 1..count[p] : o = Batch(p)[k]
         /\ \A j, k \in 1..count[p] : Batch(p)[j] = Batch(p)[k] => j = k
<1>1. count[p] \in Nat /\ issued[p] \in Nat /\ count[p] <= issued[p]
  BY DEF TypeInv, TypeOK, Frames
<1>2. \A k \in 1..count[p] : Batch(p)[k] = <<p, issued[p] - count[p] + k>>
  BY DEF Batch
<1>3. \A k \in 1..count[p] : Batch(p)[k] \in Op
  BY <1>1, BatchType DEF TypeInv
<1>4. BatchSet(p) = {Batch(p)[k] : k \in 1..count[p]}
  BY DEF BatchSet
<1>5. \A o \in BatchSet(p) : \E k \in 1..count[p] : o = Batch(p)[k]
  BY <1>4
<1>6. \A o \in BatchSet(p) : o[1] = p /\ o[2] <= issued[p]
  BY <1>1, <1>2, <1>5
<1>7. \A j, k \in 1..count[p] : Batch(p)[j] = Batch(p)[k] => j = k
  BY <1>1, <1>2
<1> QED  BY <1>2, <1>3, <1>4, <1>5, <1>6, <1>7

LEMMA LiveSame ==
  ASSUME RingInv, RingInv', Room, CursorIn, Written, LiveInv, [Next]_vars,
         LivePositions' = LivePositions,
         \A o \in Op : fate'[o] = "queued" <=> fate[o] = "queued"
  PROVE  LiveInv'
<1>1. \A pos \in LivePositions : OpAt(pos)' = OpAt(pos)
  BY OpAtStable
<1> QED  BY <1>1 DEF LiveInv, LiveQueued, QueuedLive, Distinct

LEMMA LiveFirstGone ==
  ASSUME RingInv, RingInv', Room, CursorIn, Written, LiveInv, [Next]_vars,
         FirstLive \in LivePositions,
         LivePositions' = LivePositions \ {FirstLive},
         NEW f, f # "queued", SetFate({OpAt(FirstLive)}, f)
  PROVE  LiveInv'
<1>1. \A pos \in LivePositions \ {FirstLive} : OpAt(pos)' = OpAt(pos)
  BY OpAtStable
<1>2. \A o \in Op : fate'[o] = IF o = OpAt(FirstLive) THEN f ELSE fate[o]
  BY DEF SetFate
<1> QED  BY <1>1, <1>2 DEF LiveInv, LiveQueued, QueuedLive, Distinct

\* A claim appends its batch.
LEMMA LiveClaimed ==
  ASSUME RingInv, RingInv', Room, CursorIn, Written, PushFates, LiveInv,
         [Next]_vars, NEW p \in Producers, CasSucceeds(p)
  PROVE  /\ LiveInv'
         /\ \A pos \in Claimed(p) : OpAt(pos)' = Batch(p)[pos - tail_allocated + 1]
<1>1. /\ pc[p] = "cas" /\ phase = "run" /\ phase' = "run" /\ head' = head
      /\ tail_allocated = t_alloc[p] /\ tail_allocated' = tail_allocated + count[p]
      /\ UNCHANGED <<t_alloc, count, issued>> /\ p \in Claiming'
  BY DEF CasSucceeds, RingInv, OrderInv, StopPhase, consumer, Claiming, TypeInv, TypeOK
<1>2. /\ LivePositions = head..(tail_allocated - 1)
      /\ LivePositions' = head..(tail_allocated + count[p] - 1)
  <2>1. FirstLive = head /\ FirstLive' = head'
    BY <1>1 DEF FirstLive
  <2> QED  BY <1>1, <2>1, Naturals DEF LivePositions
<1>3. head <= tail_allocated
  BY Naturals DEF RingInv, OrderInv, CountersOrdered
<1>4. \A pos \in LivePositions : pos \in LivePositions' /\ OpAt(pos)' = OpAt(pos)
  BY <1>2, Naturals, OpAtStable
<1>5. ASSUME NEW pos \in Claimed(p)
      PROVE  /\ OpAt(pos)' = Batch(p)[pos - tail_allocated + 1]
             /\ pos - tail_allocated + 1 \in 1..count[p]
             /\ pos \in LivePositions'
  <2>1. pos \in Claimed(p)' /\ Claimed(p)' = Claimed(p) /\ Batch(p)' = Batch(p)
    BY <1>1 DEF Claimed, Batch
  <2>2. OpAt(pos)' = Batch(p)'[pos - t_alloc'[p] + 1]
    BY <1>1, <2>1, OpAtIsNext DEF Holders
  <2>3. OpAt(pos)' = Batch(p)[pos - tail_allocated + 1]
    BY <1>1, <2>1, <2>2
  <2>4. /\ pos \in tail_allocated..(tail_allocated + count[p] - 1)
        /\ tail_allocated \in Nat /\ count[p] \in Nat /\ head \in Nat
    BY <1>1, Naturals DEF Claimed
  <2>5. pos - tail_allocated + 1 \in 1..count[p]
    BY <2>4
  <2>6. pos \in head..(tail_allocated + count[p] - 1)
    BY <1>3, <2>4
  <2> QED  BY <1>2, <2>3, <2>5, <2>6
<1>6. \A pos \in LivePositions' : pos \in LivePositions \/ pos \in Claimed(p)
  BY <1>1, <1>2, <1>3, Naturals DEF Claimed
<1>7. \A o \in Op : fate'[o] = IF o \in BatchSet(p) THEN "queued" ELSE fate[o]
  BY DEF CasSucceeds, SetFate
<1>8. \A o \in BatchSet(p) : fate[o] = "pushing" /\ o \in Op
  BY <1>1, BatchFacts DEF PushFates, Trying, RingInv
<1>9. \A pos \in LivePositions' :
        \/ pos \in LivePositions /\ OpAt(pos)' = OpAt(pos)
        \/ \E k \in 1..count[p] : pos = tail_allocated + k - 1 /\ OpAt(pos)' = Batch(p)[k]
  <2> TAKE pos \in LivePositions'
  <2>1. CASE pos \in LivePositions
    BY <1>4, <2>1
  <2>2. CASE pos \in Claimed(p)
    <3> DEFINE k == pos - tail_allocated + 1
    <3>1. k \in 1..count[p] /\ OpAt(pos)' = Batch(p)[k] /\ pos = tail_allocated + k - 1
      BY <1>1, <1>5, <2>2, Naturals DEF Claimed
    <3> HIDE DEF k
    <3> QED  BY <3>1
  <2> QED  BY <1>6, <2>1, <2>2
<1>10. /\ \A k \in 1..count[p] : Batch(p)[k] \in BatchSet(p)
       /\ \A j, k \in 1..count[p] : Batch(p)[j] = Batch(p)[k] => j = k
       /\ \A o \in BatchSet(p) : \E k \in 1..count[p] : o = Batch(p)[k]
  BY <1>1, BatchFacts DEF RingInv
<1>11. LiveQueued'
  BY <1>7, <1>8, <1>9, <1>10 DEF LiveInv, LiveQueued
<1>12. QueuedLive'
  <2> SUFFICES ASSUME NEW o \in Op, fate'[o] = "queued"
               PROVE  \E pos \in LivePositions' : OpAt(pos)' = o
    BY DEF QueuedLive
  <2>1. CASE o \in BatchSet(p)
    <3>1. PICK k \in 1..count[p] : o = Batch(p)[k]
      BY <1>10, <2>1
    <3>2. PICK pos \in Claimed(p) : k = pos - tail_allocated + 1
      <4>1. t_alloc[p] + k - 1 \in Claimed(p)
        BY <3>1, Naturals DEF Claimed
      <4> QED  BY <1>1, <4>1, Naturals
    <3> QED  BY <1>5, <3>1, <3>2
  <2>2. CASE o \notin BatchSet(p)
    BY <1>4, <1>7, <2>2 DEF LiveInv, QueuedLive
  <2> QED  BY <2>1, <2>2
<1>13. Distinct'
  <2> SUFFICES ASSUME NEW a \in LivePositions', NEW b \in LivePositions',
                      OpAt(a)' = OpAt(b)'
               PROVE  a = b
    BY DEF Distinct
  <2>1. CASE a \in LivePositions /\ b \in LivePositions
    BY <1>4, <2>1 DEF LiveInv, Distinct
  <2>2. \A pos \in LivePositions : OpAt(pos) \notin BatchSet(p)
    BY <1>8 DEF LiveInv, LiveQueued
  <2>3. CASE a \notin LivePositions \/ b \notin LivePositions
    BY <1>9, <1>10, <2>2, <2>3
  <2> QED  BY <2>1, <2>3
<1> QED  BY <1>5, <1>11, <1>12, <1>13 DEF LiveInv

\* A step of p that changes only fates of p's own batch and p's program
\* counter keeps every other push as it was.
LEMMA OthersPush ==
  ASSUME RingInv, PushFates, NEW p \in Producers, NEW f,
         UNCHANGED <<count, issued>>,
         \A q \in Producers \ {p} : pc'[q] = pc[q],
         pc[p] # "idle",
         fate' = fate \/ SetFate(BatchSet(p), f)
  PROVE  \A q \in Producers \ {p} : Trying(q)' =>
           \A o \in BatchSet(q)' : fate'[o] = "pushing"
<1> SUFFICES ASSUME NEW q \in Producers \ {p}, Trying(q)', NEW o \in BatchSet(q)'
             PROVE  fate'[o] = "pushing"
  OBVIOUS
<1>1. BatchSet(q)' = BatchSet(q) /\ Trying(q)
  BY DEF BatchSet, Batch, Trying
<1>2. fate[o] = "pushing" /\ o \in Op /\ o[1] = q
  BY <1>1, BatchFacts DEF PushFates, Trying, RingInv
<1>3. o \notin BatchSet(p)
  BY <1>2, BatchFacts DEF RingInv
<1> QED  BY <1>2, <1>3 DEF SetFate

\* A push that returns an error.
LEMMA ReturnStep ==
  ASSUME RingInv, RingInv', SlotInv, LiveInv, [Next]_vars, NEW p \in Producers,
         NEW e \in {"conn_err", "ring_overflow"}, Trying(p), Return(p, e),
         UNCHANGED <<counters, count, issued, consumer>>
  PROVE  SlotInv' /\ LiveInv'
<1>1. /\ \A o \in Op : fate'[o] = IF o \in BatchSet(p) THEN e ELSE fate[o]
      /\ pc' = [pc EXCEPT ![p] = "idle"] /\ t_alloc' = [t_alloc EXCEPT ![p] = 0]
  BY DEF Return, SetFate
<1>2. \A o \in BatchSet(p) : o \in Op /\ fate[o] = "pushing"
  BY BatchFacts DEF SlotInv, PushFates, Trying, RingInv
<1>3. pc \in [Producers -> PushPcs] /\ t_alloc \in [Producers -> Nat]
  BY DEF RingInv, TypeInv, TypeOK
<1>4. PushFates'
  <2>1. \A q \in Producers \ {p} : Trying(q)' =>
          \A o \in BatchSet(q)' : fate'[o] = "pushing"
    BY <1>1, <1>3, OthersPush DEF SlotInv, Trying, Return
  <2>2. ~Trying(p)'
    BY <1>1, <1>3 DEF Trying
  <2> QED  BY <2>1, <2>2 DEF PushFates
<1>5. Fresh' /\ NoWrong'
  BY <1>1, <1>2 DEF SlotInv, Fresh, NoWrong
<1>6. Written'
  <2>1. \A q \in Producers : pc'[q] = "publish" =>
          pc[q] = "publish" /\ Claimed(q)' = Claimed(q) /\ Batch(q)' = Batch(q)
                            /\ t_alloc'[q] = t_alloc[q]
    BY <1>1, <1>3 DEF Claimed, Batch
  <2> QED  BY <2>1 DEF SlotInv, Written, counters
<1>7. Room' /\ CursorIn' /\ Wire'
  BY DEF SlotInv, Room, InFlight, CursorIn, Wire, counters, consumer
<1>8. LiveInv'
  <2>1. LivePositions' = LivePositions
    BY DEF LivePositions, FirstLive, counters, consumer
  <2> QED  BY <1>1, <1>2, <2>1, LiveSame DEF SlotInv
<1> QED  BY <1>4, <1>5, <1>6, <1>7, <1>8 DEF SlotInv

LEMMA BeginStep ==
  ASSUME RingInv, RingInv', SlotInv, LiveInv, [Next]_vars, NEW p \in Producers,
         NEW n \in 1..MaxBatch, BeginPush(p, n)
  PROVE  SlotInv' /\ LiveInv'
<1> DEFINE new == {<<p, issued[p] + k>> : k \in 1..n}
<1>1. /\ pc[p] = "idle" /\ pc' = [pc EXCEPT ![p] = "load_tail"]
      /\ count' = [count EXCEPT ![p] = n] /\ issued' = [issued EXCEPT ![p] = @ + n]
      /\ \A o \in Op : fate'[o] = IF o \in new THEN "pushing" ELSE fate[o]
      /\ UNCHANGED <<counters, t_alloc, consumer>> /\ issued[p] + n <= MaxOps
  BY DEF BeginPush, SetFate
<1>2. /\ pc \in [Producers -> PushPcs] /\ count \in [Producers -> 1..MaxBatch]
      /\ issued \in [Producers -> 0..MaxOps] /\ n \in Nat
  <2>1. n \in Nat
    OBVIOUS
  <2> QED  BY <2>1 DEF RingInv, TypeInv, TypeOK
<1>3. \A o \in new : o \in Op /\ fate[o] = "unissued" /\ o[1] = p /\ o[2] > issued[p]
                     /\ o[2] <= issued[p] + n
  <2> TAKE o \in new
  <2>1. PICK k \in 1..n : o = <<p, issued[p] + k>>
    OBVIOUS
  <2>2. issued[p] + k \in 1..MaxOps
    BY <1>1, <1>2
  <2>3. o \in Op /\ o[1] = p /\ o[2] = issued[p] + k
    BY <2>1, <2>2 DEF Op
  <2>4. issued[p] + k > issued[p] /\ issued[p] + k <= issued[p] + n
    BY <1>2
  <2> QED  BY <2>3, <2>4 DEF SlotInv, Fresh
<1>4. Fresh' /\ NoWrong'
  <2>1. NoWrong'
    BY <1>1 DEF SlotInv, NoWrong
  <2>2. ASSUME NEW o \in Op, o[2] > issued'[o[1]] PROVE fate'[o] = "unissued"
    <3>1. o[1] \in Producers /\ o[2] \in Nat
      BY DEF Op
    <3>2. CASE o[1] = p
      <4>1. o[2] > issued[p] + n
        BY <1>1, <1>2, <2>2, <3>2
      <4>2. o[2] > issued[o[1]] /\ ~(o[2] <= issued[p] + n)
        BY <1>2, <3>1, <3>2, <4>1
      <4> QED  BY <1>1, <1>3, <4>2 DEF SlotInv, Fresh
    <3>3. CASE o[1] # p
      BY <1>1, <1>2, <1>3, <2>2, <3>1, <3>3 DEF SlotInv, Fresh
    <3> QED  BY <3>2, <3>3
  <2> QED  BY <2>1, <2>2 DEF Fresh
<1>5. PushFates'
  <2>1. ASSUME NEW q \in Producers, q # p, Trying(q)', NEW o \in BatchSet(q)'
        PROVE  fate'[o] = "pushing"
    <3>1. BatchSet(q)' = BatchSet(q) /\ Trying(q)
      BY <1>1, <1>2, <2>1 DEF BatchSet, Batch, Trying
    <3>2. fate[o] = "pushing" /\ o \in Op
      BY <2>1, <3>1, BatchFacts DEF SlotInv, PushFates, Trying, RingInv
    <3> QED  BY <1>1, <1>3, <3>2
  <2>2. ASSUME NEW o \in BatchSet(p)' PROVE fate'[o] = "pushing"
    <3>1. PICK k \in 1..n : o = <<p, (issued[p] + n) - n + k>>
      BY <1>1, <1>2, <2>2 DEF BatchSet, Batch
    <3>2. o = <<p, issued[p] + k>>
      BY <1>2, <3>1
    <3> QED  BY <1>1, <1>3, <3>2
  <2> QED  BY <2>1, <2>2 DEF PushFates
<1>6. Written'
  <2>1. \A q \in Producers : pc'[q] = "publish" =>
          pc[q] = "publish" /\ Claimed(q)' = Claimed(q) /\ Batch(q)' = Batch(q)
    BY <1>1, <1>2 DEF Claimed, Batch
  <2> QED  BY <1>1, <2>1 DEF SlotInv, Written, counters
<1>7. Room' /\ CursorIn' /\ Wire'
  BY <1>1 DEF SlotInv, Room, InFlight, CursorIn, Wire, counters, consumer
<1>8. LiveInv'
  <2>1. LivePositions' = LivePositions
    BY <1>1 DEF LivePositions, FirstLive, counters, consumer
  <2> QED  BY <1>1, <1>3, <2>1, LiveSame DEF SlotInv
<1> QED  BY <1>4, <1>5, <1>6, <1>7, <1>8 DEF SlotInv

\* A push that moves on without a verdict: nothing but its frame changes.
LEMMA TryStep ==
  ASSUME RingInv, RingInv', SlotInv, LiveInv, [Next]_vars, NEW p \in Producers,
         Trying(p), \A q \in Producers \ {p} : pc'[q] = pc[q] /\ t_alloc'[q] = t_alloc[q],
         pc'[p] # "publish", UNCHANGED <<counters, count, issued, consumer, fate>>
  PROVE  SlotInv' /\ LiveInv'
<1>1. PushFates'
  <2>1. \A q \in Producers \ {p} : Trying(q)' =>
          \A o \in BatchSet(q)' : fate'[o] = "pushing"
    BY OthersPush DEF SlotInv, Trying
  <2>2. \A o \in BatchSet(p)' : fate'[o] = "pushing"
    BY DEF SlotInv, PushFates, BatchSet, Batch
  <2> QED  BY <2>1, <2>2 DEF PushFates
<1>2. Written'
  <2>1. \A q \in Producers : pc'[q] = "publish" =>
          pc[q] = "publish" /\ Claimed(q)' = Claimed(q) /\ Batch(q)' = Batch(q)
                            /\ t_alloc'[q] = t_alloc[q]
    BY DEF Claimed, Batch
  <2> QED  BY <2>1 DEF SlotInv, Written, counters
<1>3. Fresh' /\ NoWrong' /\ Room' /\ CursorIn' /\ Wire'
  BY DEF SlotInv, Fresh, NoWrong, Room, InFlight, CursorIn, Wire, counters, consumer
<1>4. LiveInv'
  <2>1. LivePositions' = LivePositions
    BY DEF LivePositions, FirstLive, counters, consumer
  <2> QED  BY <2>1, LiveSame DEF SlotInv
<1> QED  BY <1>1, <1>2, <1>3, <1>4 DEF SlotInv

LEMMA CasStep ==
  ASSUME RingInv, RingInv', SlotInv, LiveInv, [Next]_vars, ~overrun',
         NEW p \in Producers, CasSucceeds(p)
  PROVE  SlotInv' /\ LiveInv'
<1>1. /\ pc[p] = "cas" /\ pc' = [pc EXCEPT ![p] = "write"]
      /\ \A o \in Op : fate'[o] = IF o \in BatchSet(p) THEN "queued" ELSE fate[o]
      /\ tail_allocated' = tail_allocated + count[p]
      /\ UNCHANGED <<tail, head, handles, count, t_alloc, issued, phase, old,
                     cursor, sent>>
      /\ ~(InFlight + count[p] > Capacity)
  BY DEF CasSucceeds, SetFate, consumer
<1>2. \A o \in BatchSet(p) : o \in Op /\ fate[o] = "pushing"
  BY <1>1, BatchFacts DEF SlotInv, PushFates, Trying, RingInv
<1>3. pc \in [Producers -> PushPcs]
  BY DEF RingInv, TypeInv, TypeOK
<1>4. PushFates'
  <2>1. \A q \in Producers \ {p} : Trying(q)' =>
          \A o \in BatchSet(q)' : fate'[o] = "pushing"
    BY <1>1, <1>3, OthersPush DEF SlotInv, CasSucceeds
  <2>2. ~Trying(p)'
    BY <1>1, <1>3 DEF Trying
  <2> QED  BY <2>1, <2>2 DEF PushFates
<1>5. Fresh' /\ NoWrong'
  BY <1>1, <1>2 DEF SlotInv, Fresh, NoWrong
<1>6. Written'
  <2>1. \A q \in Producers : pc'[q] = "publish" =>
          pc[q] = "publish" /\ Claimed(q)' = Claimed(q) /\ Batch(q)' = Batch(q)
    BY <1>1, <1>3 DEF Claimed, Batch
  <2> QED  BY <1>1, <2>1 DEF SlotInv, Written
<1>7. Room'
  BY <1>1, Naturals DEF Room, InFlight
<1>8. CursorIn' /\ Wire'
  BY <1>1 DEF SlotInv, CursorIn, Wire
<1>9. LiveInv'
  BY LiveClaimed DEF SlotInv
<1> QED  BY <1>4, <1>5, <1>6, <1>7, <1>8, <1>9 DEF SlotInv

LEMMA WriteStep ==
  ASSUME RingInv, RingInv', SlotInv, LiveInv, [Next]_vars,
         NEW p \in Producers, WriteSlots(p)
  PROVE  SlotInv' /\ LiveInv'
<1>1. /\ pc[p] = "write" /\ pc' = [pc EXCEPT ![p] = "publish"]
      /\ UNCHANGED <<tail_allocated, tail, head, count, t_alloc, issued, phase,
                     old, cursor, sent, fate>>
      /\ p \in Claiming
  BY DEF WriteSlots, consumer, Claiming
<1>2. pc \in [Producers -> PushPcs]
  BY DEF RingInv, TypeInv, TypeOK
<1>3. PushFates'
  <2>1. \A q \in Producers : Trying(q)' => Trying(q) /\ BatchSet(q)' = BatchSet(q)
    BY <1>1, <1>2 DEF Trying, BatchSet, Batch
  <2> QED  BY <1>1, <2>1 DEF SlotInv, PushFates
<1>4. Fresh' /\ NoWrong' /\ Room' /\ CursorIn'
  BY <1>1 DEF SlotInv, Fresh, NoWrong, Room, InFlight, CursorIn
<1>5. phase \in {"run", "wait_tail"}
  BY <1>1 DEF RingInv, OrderInv, Quiet, TypeInv, TypeOK, Phases
<1>6. tail_allocated - head <= Capacity /\ head <= tail
      /\ \A q \in Claiming : tail <= t_alloc[q] /\ t_alloc[q] + count[q] <= tail_allocated
  BY <1>5, Naturals DEF SlotInv, Room, InFlight, RingInv, OrderInv, CountersOrdered, InBounds
<1>7. count[p] <= Capacity
  BY <1>1, <1>6, Naturals
<1>8. Written'
  <2> SUFFICES ASSUME NEW q \in Producers, pc'[q] = "publish", NEW pos \in Claimed(q)
               PROVE  handles'[Slot(pos)] = Batch(q)[pos - t_alloc[q] + 1]
    <3>1. \A q \in Producers : Claimed(q)' = Claimed(q) /\ Batch(q)' = Batch(q)
      BY <1>1 DEF Claimed, Batch
    <3> QED  BY <1>1, <3>1 DEF Written
  <2>1. CASE q = p
    BY <1>7, <2>1, SlotsWritten
  <2>2. CASE q # p
    <3>1. pc[q] = "publish" /\ q \in Claiming
      BY <1>1, <1>2, <2>2 DEF Claiming
    <3>2. pos \notin Claimed(p)
      BY <1>1, <2>2, <3>1, Naturals DEF RingInv, OrderInv, Disjoint, Claimed
    <3>3. pos \in Nat /\ head <= pos /\ pos < tail_allocated
      BY <1>6, <3>1, Naturals DEF Claimed
    <3>4. handles'[Slot(pos)] = handles[Slot(pos)]
      BY <3>2, <3>3, SlotsOfOthers DEF SlotInv
    <3> QED  BY <3>1, <3>4 DEF SlotInv, Written
  <2> QED  BY <2>1, <2>2
<1>9. Wire'
  <2> SUFFICES ASSUME phase = "run", NEW k \in 1..Len(sent)
               PROVE  handles'[Slot(head + k - 1)] = handles[Slot(head + k - 1)]
    BY <1>1 DEF SlotInv, Wire
  <2> DEFINE pos == head + k - 1
  <2>1. Len(sent) = head_committed - head /\ head_committed <= tail
    BY DEF RingInv, OrderInv, CountersOrdered
  <2>2. pos \in Nat /\ head <= pos /\ pos < tail
    BY <2>1, Naturals
  <2>3. pos \notin Claimed(p) /\ pos < tail_allocated
    BY <1>1, <1>6, <2>2, Naturals DEF Claimed
  <2> HIDE DEF pos
  <2>4. handles'[Slot(pos)] = handles[Slot(pos)]
    BY <2>2, <2>3, SlotsOfOthers DEF SlotInv
  <2> QED  BY <2>4 DEF pos
<1>10. LiveInv'
  <2>1. LivePositions' = LivePositions
    BY <1>1 DEF LivePositions, FirstLive
  <2> QED  BY <1>1, <2>1, LiveSame DEF SlotInv
<1> QED  BY <1>3, <1>4, <1>8, <1>9, <1>10 DEF SlotInv

LEMMA PublishStep ==
  ASSUME RingInv, RingInv', SlotInv, LiveInv, [Next]_vars,
         NEW p \in Producers, Publish(p)
  PROVE  SlotInv' /\ LiveInv'
<1>1. /\ pc[p] = "publish" /\ pc' = [pc EXCEPT ![p] = "idle"]
      /\ t_alloc' = [t_alloc EXCEPT ![p] = 0]
      /\ UNCHANGED <<tail_allocated, head, handles, count, issued, phase,
                     old, cursor, sent, fate>>
  BY DEF Publish, consumer
<1>2. pc \in [Producers -> PushPcs] /\ t_alloc \in [Producers -> Nat]
  BY DEF RingInv, TypeInv, TypeOK
<1>3. PushFates'
  <2>1. \A q \in Producers : Trying(q)' => Trying(q) /\ BatchSet(q)' = BatchSet(q)
    BY <1>1, <1>2 DEF Trying, BatchSet, Batch
  <2> QED  BY <1>1, <2>1 DEF SlotInv, PushFates
<1>4. Written'
  <2>1. \A q \in Producers : pc'[q] = "publish" =>
          pc[q] = "publish" /\ Claimed(q)' = Claimed(q) /\ Batch(q)' = Batch(q)
                            /\ t_alloc'[q] = t_alloc[q]
    BY <1>1, <1>2 DEF Claimed, Batch
  <2> QED  BY <1>1, <2>1 DEF SlotInv, Written
<1>5. Fresh' /\ NoWrong' /\ Room' /\ CursorIn' /\ Wire'
  BY <1>1 DEF SlotInv, Fresh, NoWrong, Room, InFlight, CursorIn, Wire
<1>6. LiveInv'
  <2>1. LivePositions' = LivePositions
    BY <1>1 DEF LivePositions, FirstLive
  <2> QED  BY <1>1, <2>1, LiveSame DEF SlotInv
<1> QED  BY <1>3, <1>4, <1>5, <1>6 DEF SlotInv

\* What a commit appends to the wire is what pop will find in the slots.
LEMMA PrepStep ==
  ASSUME RingInv, RingInv', SlotInv, LiveInv, [Next]_vars, PrepWritev
  PROVE  SlotInv' /\ LiveInv'
<1> DEFINE room == tail - head_committed
           num  == IF room < CommitBatch THEN room ELSE CommitBatch
           more == [k \in 1..num |-> handles[Slot(head_committed + k - 1)]]
<1>1. /\ num \in Nat /\ phase = "run" /\ sent' = sent \o more
      /\ UNCHANGED <<tail_allocated, tail, head, handles, frames, phase, old, cursor, fate>>
  BY Naturals DEF PrepWritev
<1>2. /\ Len(sent) = head_committed - head /\ Len(sent) \in Nat
      /\ sent \in Seq(Op \cup {Nothing})
  BY <1>1 DEF RingInv, OrderInv, CountersOrdered, TypeInv, TypeOK
<1> HIDE DEF num
<1>3. more \in Seq(Op \cup {Nothing}) /\ Len(more) = num
  <2>1. \A k \in 1..num : handles[Slot(head_committed + k - 1)] \in Op \cup {Nothing}
    <3> TAKE k \in 1..num
    <3>1. head_committed + k - 1 \in Nat
      BY <1>1, Naturals
    <3> QED  BY <3>1, SlotInArray DEF RingInv, TypeInv, TypeOK
  <2> QED  BY <1>1, <2>1
<1>4. \A k \in 1..num : more[k] = handles[Slot(head_committed + k - 1)]
  OBVIOUS
<1> HIDE DEF more
<1>5. Wire'
  <2> SUFFICES ASSUME NEW k \in 1..Len(sent')
               PROVE  sent'[k] = handles[Slot(head + k - 1)]
    BY <1>1 DEF Wire
  <2>1. Len(sent') = Len(sent) + num
    <3>1. Len(sent \o more) = Len(sent) + Len(more)
      BY <1>2, <1>3
    <3> QED  BY <1>1, <1>3, <3>1
  <2>2. CASE k <= Len(sent)
    <3>1. k \in 1..Len(sent) /\ sent'[k] = sent[k]
      BY <1>1, <1>2, <1>3, <2>1, <2>2
    <3> QED  BY <1>1, <3>1 DEF SlotInv, Wire
  <2>3. CASE ~(k <= Len(sent))
    <3> DEFINE j == k - Len(sent)
    <3>1. j \in 1..num /\ sent'[k] = more[j]
      BY <1>1, <1>2, <1>3, <2>1, <2>3
    <3>2. head_committed + j - 1 = head + k - 1
      BY <1>2, Naturals
    <3> HIDE DEF j
    <3> QED  BY <1>4, <3>1, <3>2
  <2> QED  BY <2>2, <2>3
<1>6. PushFates' /\ Written'
  <2>1. \A q \in Producers : /\ Trying(q)' = Trying(q) /\ BatchSet(q)' = BatchSet(q)
                              /\ Claimed(q)' = Claimed(q) /\ Batch(q)' = Batch(q)
    BY <1>1 DEF Trying, BatchSet, Batch, Claimed, frames
  <2> QED  BY <1>1, <2>1 DEF SlotInv, PushFates, Written, frames
<1>7. Fresh' /\ NoWrong' /\ Room' /\ CursorIn'
  BY <1>1 DEF SlotInv, Fresh, NoWrong, Room, InFlight, CursorIn, frames
<1>8. LiveInv'
  <2>1. LivePositions' = LivePositions
    BY <1>1 DEF LivePositions, FirstLive
  <2> QED  BY <1>1, <2>1, LiveSame DEF SlotInv
<1> QED  BY <1>5, <1>6, <1>7, <1>8 DEF SlotInv

\* Steps of the consumer that resume one coroutine, or none, touch no push.
LEMMA PushesKept ==
  ASSUME RingInv, SlotInv, LiveInv, UNCHANGED <<frames, handles>>,
         \/ UNCHANGED fate
         \/ \E f \in Fates \ {"queued", "wrong_reply"} :
              /\ FirstLive \in LivePositions /\ SetFate({OpAt(FirstLive)}, f)
  PROVE  Fresh' /\ PushFates' /\ Written' /\ NoWrong'
<1>1. \A q \in Producers : /\ Trying(q)' = Trying(q) /\ BatchSet(q)' = BatchSet(q)
                            /\ Claimed(q)' = Claimed(q) /\ Batch(q)' = Batch(q)
  BY DEF Trying, BatchSet, Batch, Claimed, frames
<1>2. Written'
  BY <1>1 DEF SlotInv, Written, frames
<1>3. CASE UNCHANGED fate
  BY <1>1, <1>2, <1>3 DEF SlotInv, Fresh, PushFates, NoWrong, frames
<1>4. ASSUME NEW f \in Fates \ {"queued", "wrong_reply"},
             FirstLive \in LivePositions, SetFate({OpAt(FirstLive)}, f)
      PROVE  Fresh' /\ PushFates' /\ NoWrong'
  <2>1. \A o \in Op : fate'[o] = IF o = OpAt(FirstLive) THEN f ELSE fate[o]
    BY <1>4 DEF SetFate
  <2>2. fate[OpAt(FirstLive)] = "queued"
    BY <1>4 DEF LiveInv, LiveQueued
  <2>3. \A q \in Producers : Trying(q) => BatchSet(q) \subseteq Op
    BY BatchFacts DEF Trying, RingInv
  <2>4. PushFates'
    BY <1>1, <2>1, <2>2, <2>3 DEF SlotInv, PushFates
  <2>5. Fresh' /\ NoWrong'
    BY <1>4, <2>1, <2>2 DEF SlotInv, Fresh, NoWrong, frames
  <2> QED  BY <2>4, <2>5
<1> QED  BY <1>2, <1>3, <1>4

\* Pop resumes the coroutine at head with the reply to its own command.
LEMMA PopAnswers ==
  ASSUME RingInv, SlotInv, Pop
  PROVE  /\ FirstLive = head /\ head \in LivePositions /\ head < head_committed
         /\ OpAt(FirstLive) = handles[Slot(head)]
         /\ SetFate({OpAt(FirstLive)}, "reply")
<1>1. /\ phase = "run" /\ sent # <<>> /\ sent \in Seq(Op \cup {Nothing})
      /\ Len(sent) = head_committed - head /\ head_committed <= tail
      /\ tail <= tail_allocated
  BY DEF Pop, RingInv, OrderInv, CountersOrdered, TypeInv, TypeOK
<1>2. Len(sent) \in Nat \ {0} /\ Head(sent) = sent[1]
  BY <1>1
<1>3. head < head_committed
  BY <1>1, <1>2, Naturals
<1>4. FirstLive = head /\ head \in LivePositions
  BY <1>1, <1>3, Naturals DEF FirstLive, LivePositions
<1>5. OpAt(head) = handles[Slot(head)]
  BY <1>1, <1>3, Naturals, OpAtIs DEF Holders
<1>6. sent[1] = handles[Slot(head)]
  <2>1. sent[1] = handles[Slot(head + 1 - 1)]
    BY <1>1, <1>2 DEF SlotInv, Wire
  <2>2. head + 1 - 1 = head
    BY Naturals
  <2> QED  BY <2>1, <2>2
<1> QED  BY <1>2, <1>3, <1>4, <1>5, <1>6 DEF Pop

LEMMA PopStep ==
  ASSUME RingInv, RingInv', SlotInv, LiveInv, [Next]_vars, Pop
  PROVE  SlotInv' /\ LiveInv'
<1>1. /\ phase = "run" /\ sent # <<>> /\ head' = head + 1 /\ sent' = Tail(sent)
      /\ UNCHANGED <<tail_allocated, tail, handles, frames, phase, old, cursor>>
  BY DEF Pop
<1>2. /\ sent \in Seq(Op \cup {Nothing}) /\ Len(sent) \in Nat \ {0}
      /\ Len(sent') = Len(sent) - 1
  <2>1. sent \in Seq(Op \cup {Nothing})
    BY DEF RingInv, TypeInv, TypeOK
  <2> QED  BY <1>1, <2>1
<1>3. "reply" \in Fates \ {"queued", "wrong_reply"}
  BY DEF Fates
<1>4. Fresh' /\ PushFates' /\ Written' /\ NoWrong'
  BY <1>1, <1>3, PopAnswers, PushesKept
<1>5. Room' /\ CursorIn'
  BY <1>1, Naturals DEF SlotInv, Room, InFlight, CursorIn
<1>6. Wire'
  <2> SUFFICES ASSUME NEW k \in 1..Len(sent')
               PROVE  sent'[k] = handles[Slot(head' + k - 1)]
    BY <1>1 DEF Wire
  <2>1. k + 1 \in 1..Len(sent) /\ sent'[k] = sent[k + 1]
    BY <1>1, <1>2
  <2>2. sent[k + 1] = handles[Slot(head + (k + 1) - 1)]
    BY <1>1, <2>1 DEF SlotInv, Wire
  <2>3. head + (k + 1) - 1 = head' + k - 1
    BY <1>1, Naturals
  <2> QED  BY <2>1, <2>2, <2>3
<1>7. LiveInv'
  <2>1. LivePositions' = LivePositions \ {FirstLive}
    BY <1>1, PopAnswers, Naturals DEF LivePositions, FirstLive
  <2> QED  BY <2>1, PopAnswers, LiveFirstGone DEF SlotInv
<1> QED  BY <1>4, <1>5, <1>6, <1>7 DEF SlotInv

\* While the drain resumes, everything that was claimed is published.
LEMMA ResumeGivesError ==
  ASSUME RingInv, SlotInv, DrainResume
  PROVE  /\ FirstLive = cursor /\ cursor \in LivePositions /\ cursor < old
         /\ OpAt(FirstLive) = handles[Slot(cursor)]
         /\ SetFate({OpAt(FirstLive)}, "conn_err")
<1>1. phase = "resume" /\ cursor # old /\ SetFate({handles[Slot(cursor)]}, "conn_err")
  BY DEF DrainResume
<1>2. Claiming = {} /\ old = tail_allocated /\ tail <= tail_allocated
  BY <1>1 DEF RingInv, OrderInv, Quiet, DrainsAll, CountersOrdered
<1>3. tail = tail_allocated
  <2>1. tail \notin tail..(tail_allocated - 1)
    BY <1>1, <1>2 DEF RingInv, OrderInv, Covered
  <2> QED  BY <1>2, <2>1, Naturals
<1>4. cursor < old
  BY <1>1, Naturals DEF SlotInv, CursorIn
<1>5. FirstLive = cursor /\ cursor \in LivePositions
  BY <1>1, <1>2, <1>4, Naturals DEF FirstLive, LivePositions
<1>6. OpAt(cursor) = handles[Slot(cursor)]
  BY <1>2, <1>3, <1>4, Naturals, OpAtIs DEF Holders
<1> QED  BY <1>1, <1>4, <1>5, <1>6

LEMMA DrainStep ==
  ASSUME RingInv, RingInv', SlotInv, LiveInv, [Next]_vars, Drain
  PROVE  SlotInv' /\ LiveInv'
<1>1. CASE DrainStop
  <2>1. /\ phase = "run" /\ phase' = "wait_tail"
        /\ UNCHANGED <<tail_allocated, head, handles, frames, fate>>
    BY <1>1 DEF DrainStop
  <2>2. Fresh' /\ PushFates' /\ Written' /\ NoWrong'
    BY <2>1, PushesKept
  <2>3. Room' /\ CursorIn' /\ Wire'
    BY <2>1 DEF SlotInv, Room, InFlight, CursorIn, Wire
  <2>4. LivePositions' = LivePositions
    BY <2>1 DEF LivePositions, FirstLive
  <2> QED  BY <2>1, <2>2, <2>3, <2>4, LiveSame DEF SlotInv
<1>2. CASE DrainWait
  <2>1. /\ phase = "wait_tail" /\ phase' = "resume" /\ tail = old /\ cursor' = head
        /\ UNCHANGED <<tail_allocated, tail, head, handles, frames, old, fate>>
    BY <1>2 DEF DrainWait, counters
  <2>2. Fresh' /\ PushFates' /\ Written' /\ NoWrong'
    BY <2>1, PushesKept
  <2>3. head <= tail
    BY Naturals DEF RingInv, OrderInv, CountersOrdered
  <2>4. Room' /\ CursorIn' /\ Wire'
    BY <2>1, <2>3, Naturals DEF SlotInv, Room, InFlight, CursorIn, Wire
  <2>5. LivePositions' = LivePositions
    BY <2>1 DEF LivePositions, FirstLive
  <2> QED  BY <2>1, <2>2, <2>4, <2>5, LiveSame DEF SlotInv
<1>3. CASE DrainResume
  <2>1. /\ phase = "resume" /\ phase' = "resume" /\ cursor' = cursor + 1
        /\ UNCHANGED <<tail_allocated, head, handles, frames, old>>
    BY <1>3 DEF DrainResume, counters
  <2>2. "conn_err" \in Fates \ {"queued", "wrong_reply"}
    BY DEF Fates
  <2>3. Fresh' /\ PushFates' /\ Written' /\ NoWrong'
    BY <1>3, <2>1, <2>2, ResumeGivesError, PushesKept
  <2>4. Room' /\ CursorIn' /\ Wire'
    BY <1>3, <2>1, ResumeGivesError, Naturals DEF SlotInv, Room, InFlight, CursorIn, Wire
  <2>5. LivePositions' = LivePositions \ {FirstLive}
    BY <1>3, <2>1, ResumeGivesError, Naturals DEF LivePositions, FirstLive
  <2>6. LiveInv'
    BY <1>3, <2>5, ResumeGivesError, LiveFirstGone DEF SlotInv
  <2> QED  BY <2>3, <2>4, <2>6 DEF SlotInv
<1>4. CASE DrainDone
  <2>1. /\ phase = "resume" /\ phase' = "drained" /\ cursor = old
        /\ UNCHANGED <<tail_allocated, head, handles, frames, fate>>
    BY <1>4 DEF DrainDone, counters
  <2>2. Fresh' /\ PushFates' /\ Written' /\ NoWrong'
    BY <2>1, PushesKept
  <2>3. Room' /\ CursorIn' /\ Wire'
    BY <2>1 DEF Room, CursorIn, Wire
  <2>4. old = tail_allocated
    BY <2>1 DEF RingInv, OrderInv, DrainsAll
  <2>5. LivePositions' = LivePositions
    BY <2>1, <2>4 DEF LivePositions, FirstLive
  <2> QED  BY <2>1, <2>2, <2>3, <2>5, LiveSame DEF SlotInv
<1> QED  BY <1>1, <1>2, <1>3, <1>4 DEF Drain

\* A reset finds nobody waiting and leaves nobody waiting.
LEMMA ResetStep ==
  ASSUME RingInv, RingInv', SlotInv, LiveInv, [Next]_vars, Reset
  PROVE  SlotInv' /\ LiveInv'
<1>1. UNCHANGED <<handles, frames, fate, sent>>
  BY DEF Reset, ResetHead, ResetCommitted, ResetTail, ResetAllocated
<1>2. Fresh' /\ PushFates' /\ Written' /\ NoWrong'
  BY <1>1, PushesKept
<1>3. CASE ResetHead \/ ResetCommitted \/ ResetTail
  <2>1. /\ phase \notin {"run", "wait_tail", "resume"} /\ phase' \notin {"run", "wait_tail", "resume"}
        /\ UNCHANGED tail_allocated
    BY <1>3 DEF ResetHead, ResetCommitted, ResetTail
  <2>2. LivePositions' = LivePositions
    BY <2>1 DEF LivePositions, FirstLive
  <2>3. Room' /\ CursorIn' /\ Wire'
    BY <2>1 DEF Room, CursorIn, Wire
  <2> QED  BY <1>1, <1>2, <2>2, <2>3, LiveSame DEF SlotInv
<1>4. CASE ResetAllocated
  <2>1. /\ phase = "reset_allocated" /\ phase' = "run" /\ tail_allocated' = 0
        /\ head' = head /\ head = 0 /\ sent = <<>>
    BY <1>4 DEF ResetAllocated, RingInv, OrderInv, Cleared, WireEmpty
  <2>2. LivePositions' = {} /\ LivePositions = {}
    BY <2>1, Naturals DEF LivePositions, FirstLive
  <2>3. Room' /\ CursorIn' /\ Wire'
    BY <1>1, <2>1 DEF Room, InFlight, CursorIn, Wire
  <2> QED  BY <1>1, <1>2, <2>2, <2>3, LiveSame DEF SlotInv
<1> QED  BY <1>3, <1>4 DEF Reset

\* A push in progress, one case per step of _push_n.
LEMMA PushStep ==
  ASSUME RingInv, RingInv', SlotInv, LiveInv, [Next]_vars, ~overrun',
         NEW p \in Producers, Push(p)
  PROVE  SlotInv' /\ LiveInv'
<1>0. pc \in [Producers -> PushPcs] /\ t_alloc \in [Producers -> Nat]
  BY DEF RingInv, TypeInv, TypeOK
<1>1. CASE LoadTail(p)
  <2>1. CASE stopped
    BY <1>1, <2>1, ReturnStep DEF LoadTail, Trying
  <2>2. CASE ~stopped
    BY <1>0, <1>1, <2>2, TryStep DEF LoadTail, Trying
  <2> QED  BY <2>1, <2>2
<1>2. CASE LoadHead(p)
  <2>1. CASE Full(t_alloc[p], head)
    BY <1>2, <2>1, ReturnStep DEF LoadHead, Trying
  <2>2. CASE ~Full(t_alloc[p], head)
    BY <1>0, <1>2, <2>2, TryStep DEF LoadHead, Trying
  <2> QED  BY <2>1, <2>2
<1>3. CASE CasFails(p)
  BY <1>0, <1>3, TryStep DEF CasFails, Trying
<1> QED  BY <1>1, <1>2, <1>3, BeginStep, CasStep, WriteStep, PublishStep DEF Push

LEMMA ContentsInit == Init => Contents
<1> SUFFICES ASSUME Init PROVE SlotInv /\ LiveInv
  BY DEF Contents
<1>1. LivePositions = {}
  BY DEF Init, LivePositions, FirstLive
<1>2. \A o \in Op : fate[o] = "unissued"
  BY DEF Init
<1>3. LiveInv
  BY <1>1, <1>2 DEF LiveInv, LiveQueued, QueuedLive, Distinct
<1> QED  BY <1>2, <1>3 DEF Init, SlotInv, Fresh, PushFates, Trying, Room, InFlight,
                            CursorIn, Written, Wire, NoWrong

\* An overwritten slot is never forgotten.
LEMMA OverrunStays == [Next]_vars => (overrun => overrun')
BY DEF Next, Push, BeginPush, LoadTail, LoadHead, CasSucceeds, CasFails, WriteSlots,
       Publish, PrepWritev, Pop, Drain, DrainStop, DrainWait, DrainResume, DrainDone,
       Reset, ResetHead, ResetCommitted, ResetTail, ResetAllocated, Finished, vars, history

LEMMA ContentsStep ==
  RingInv /\ RingInv' /\ Contents /\ [Next]_vars => Contents'
<1> SUFFICES ASSUME RingInv, RingInv', Contents, [Next]_vars, ~overrun'
             PROVE  SlotInv' /\ LiveInv'
  BY DEF Contents
<1>1. SlotInv /\ LiveInv
  BY OverrunStays DEF Contents
<1>2. CASE UNCHANGED vars
  <2>1. UNCHANGED <<tail_allocated, head, sent, handles, frames, fate, phase, old, cursor>>
    BY <1>2 DEF vars, counters, consumer
  <2>2. LivePositions' = LivePositions
    BY <2>1 DEF LivePositions, FirstLive
  <2>3. Fresh' /\ PushFates' /\ Written' /\ NoWrong'
    BY <1>1, <2>1, PushesKept
  <2>4. Room' /\ CursorIn' /\ Wire'
    BY <1>1, <2>1 DEF SlotInv, Room, InFlight, CursorIn, Wire
  <2> QED  BY <1>1, <2>1, <2>2, <2>3, <2>4, LiveSame DEF SlotInv
<1>3. ASSUME NEW p \in Producers, Push(p) PROVE SlotInv' /\ LiveInv'
  BY <1>1, <1>3, PushStep
<1> QED  BY <1>1, <1>2, <1>3, PrepStep, PopStep, DrainStep, ResetStep DEF Next, Finished

\* The inductive invariant of the ring and what its slots hold.
LEMMA ContentsInvariant == Spec => [](RingInv /\ Contents)
<1>1. Init => RingInv /\ Contents
  BY TypeInit, OrderInit, ContentsInit DEF RingInv
<1>2. RingInv /\ Contents /\ [Next]_vars => (RingInv /\ Contents)'
  <2>1. RingInv /\ [Next]_vars => RingInv'
    BY TypeStep, OrderStep DEF RingInv
  <2> QED  BY <2>1, ContentsStep
<1> QED  BY <1>1, <1>2, PTL DEF Spec

\* The coroutines that wait are exactly those pop and drain will still
\* resume, one position each, as long as no live slot was overwritten.
THEOREM NobodyForgotten == Spec => []WaitersAreLive
<1>1. RingInv /\ Contents => WaitersAreLive
  <2> SUFFICES ASSUME RingInv, LiveInv
               PROVE  /\ {o \in Op : fate[o] = "queued"} = {OpAt(pos) : pos \in LivePositions}
                      /\ \A a, b \in LivePositions : OpAt(a) = OpAt(b) => a = b
    BY DEF Contents, WaitersAreLive
  <2>1. \A o \in Op : fate[o] = "queued" => \E pos \in LivePositions : OpAt(pos) = o
    BY DEF LiveInv, QueuedLive
  <2>2. \A pos \in LivePositions : OpAt(pos) \in Op /\ fate[OpAt(pos)] = "queued"
    BY DEF LiveInv, LiveQueued
  <2> QED  BY <2>1, <2>2 DEF LiveInv, Distinct
<1> QED  BY <1>1, ContentsInvariant, PTL

\* The reply at the front of the wire is handed to the coroutine that sent
\* the command: pop and the server count in step.
THEOREM RepliesReachTheirCommand == Spec => []RepliesMatch
<1>1. Contents => RepliesMatch
  BY DEF Contents, SlotInv, NoWrong, RepliesMatch
<1> QED  BY <1>1, ContentsInvariant, PTL

LEMMA SettledKept ==
  ASSUME RingInv, Contents, [Next]_vars, ~overrun', NEW o \in Op, Settled(fate[o])
  PROVE  fate'[o] = fate[o]
<1>1. SlotInv /\ LiveInv
  BY OverrunStays DEF Contents
<1>2. fate[o] \notin {"unissued", "pushing", "queued"}
  BY DEF Settled
<1>3. ASSUME NEW p \in Producers, Push(p) PROVE fate'[o] = fate[o]
  <2>1. Trying(p) => o \notin BatchSet(p)
    BY <1>1, <1>2 DEF SlotInv, PushFates
  <2>2. ASSUME NEW n \in 1..MaxBatch, BeginPush(p, n) PROVE fate'[o] = fate[o]
    <3>1. \A k \in 1..n : o # <<p, issued[p] + k>>
      <4> SUFFICES ASSUME NEW k \in 1..n, o = <<p, issued[p] + k>> PROVE FALSE
        OBVIOUS
      <4>1. o[1] = p /\ o[2] = issued[p] + k /\ o[2] > issued[p]
        BY Naturals
      <4> QED  BY <1>1, <1>2, <4>1 DEF SlotInv, Fresh
    <3> QED  BY <2>2, <3>1 DEF BeginPush, SetFate
  <2>3. CASE LoadTail(p)
    BY <2>1, <2>3 DEF LoadTail, Return, SetFate, Trying
  <2>4. CASE LoadHead(p)
    BY <2>1, <2>4 DEF LoadHead, Return, SetFate, Trying
  <2>5. CASE CasSucceeds(p)
    BY <2>1, <2>5 DEF CasSucceeds, SetFate, Trying
  <2>6. CASE CasFails(p) \/ WriteSlots(p) \/ Publish(p)
    BY <2>6 DEF CasFails, WriteSlots, Publish
  <2> QED  BY <1>3, <2>2, <2>3, <2>4, <2>5, <2>6 DEF Push
<1>4. \A pos \in LivePositions : OpAt(pos) # o
  BY <1>1, <1>2 DEF LiveInv, LiveQueued
<1>5. CASE Pop
  BY <1>1, <1>4, <1>5, PopAnswers DEF SetFate
<1>6. CASE DrainResume
  BY <1>1, <1>4, <1>6, ResumeGivesError DEF SetFate
<1>7. CASE PrepWritev \/ DrainStop \/ DrainWait \/ DrainDone \/ Reset \/ UNCHANGED vars
  BY <1>7 DEF PrepWritev, DrainStop, DrainWait, DrainDone, Reset, ResetHead,
              ResetCommitted, ResetTail, ResetAllocated, vars
<1> QED  BY <1>3, <1>5, <1>6, <1>7 DEF Next, Drain, Finished

\* A coroutine that was resumed or refused is never resumed again: pop and
\* drain never meet the same slot, whatever the producers do meanwhile.
THEOREM NobodyResumedTwice == Spec => ResumedOnce
<1>1. RingInv /\ Contents /\ [Next]_vars =>
        [~overrun' => \A o \in Op : Settled(fate[o]) => fate'[o] = fate[o]]_vars
  BY SettledKept
<1> QED  BY <1>1, ContentsInvariant, PTL DEF Spec, ResumedOnce

(***************************************************************************)
(* The ring is the queue of RingQueue.                                     *)
(***************************************************************************)

\* The k-th waiting coroutine sits k positions past the first live one.
QueuePlaces ==
  /\ FirstLive \in Nat /\ tail_allocated \in Nat /\ FirstLive <= tail_allocated
  /\ LiveQueue \in Seq(Op) /\ Len(LiveQueue) = tail_allocated - FirstLive
  /\ \A pos \in LivePositions : /\ pos \in Nat
                                 /\ pos - FirstLive + 1 \in 1..Len(LiveQueue)
                                 /\ LiveQueue[pos - FirstLive + 1] = OpAt(pos)
  /\ \A k \in 1..Len(LiveQueue) : \E pos \in LivePositions : k = pos - FirstLive + 1

LEMMA QueueHolds == RingInv /\ SlotInv /\ LiveInv => QueuePlaces
<1> SUFFICES ASSUME RingInv, SlotInv, LiveInv PROVE QueuePlaces
  OBVIOUS
<1> DEFINE n == tail_allocated - FirstLive
<1>1. FirstLive \in Nat /\ n \in Nat
  <2>1. phase = "resume" => cursor <= tail_allocated
    BY DEF SlotInv, CursorIn, RingInv, OrderInv, DrainsAll
  <2>2. head <= tail_allocated
    BY Naturals DEF RingInv, OrderInv, CountersOrdered
  <2> QED  BY <2>1, <2>2, Naturals DEF FirstLive
<1>2. LiveQueue = [k \in 1..n |-> OpAt(FirstLive + k - 1)]
  BY DEF LiveQueue
<1>3. \A k \in 1..n : FirstLive + k - 1 \in LivePositions
  BY <1>1, Naturals DEF LivePositions
<1>4. \A k \in 1..n : OpAt(FirstLive + k - 1) \in Op
  BY <1>3 DEF LiveInv, LiveQueued
<1> HIDE DEF n
<1>5. LiveQueue \in Seq(Op) /\ Len(LiveQueue) = n
  BY <1>1, <1>2, <1>4
<1>6. ASSUME NEW pos \in LivePositions
      PROVE  /\ pos \in Nat /\ pos - FirstLive + 1 \in 1..n
             /\ LiveQueue[pos - FirstLive + 1] = OpAt(pos)
  <2>1. /\ pos - FirstLive + 1 \in 1..n /\ pos \in Nat
        /\ FirstLive + (pos - FirstLive + 1) - 1 = pos
    BY <1>1, Naturals DEF LivePositions, n
  <2> QED  BY <1>2, <2>1
<1>7. ASSUME NEW k \in 1..n PROVE \E pos \in LivePositions : k = pos - FirstLive + 1
  <2>1. FirstLive + k - 1 \in LivePositions /\ k = (FirstLive + k - 1) - FirstLive + 1
    BY <1>1, <1>3
  <2> QED  BY <2>1
<1> QED  BY <1>1, <1>5, <1>6, <1>7, Naturals DEF QueuePlaces, n

LEMMA QueueHoldsNext == RingInv' /\ SlotInv' /\ LiveInv' => QueuePlaces'
BY QueueHolds, PTL

LEMMA SameSequence ==
  ASSUME NEW s \in Seq(Op), NEW t \in Seq(Op), Len(s) = Len(t),
         \A k \in 1..Len(s) : s[k] = t[k]
  PROVE  s = t
OBVIOUS

\* A step that moves neither end of the queue leaves the queue as it was.
LEMMA QueueSame ==
  ASSUME RingInv, RingInv', SlotInv, SlotInv', LiveInv, LiveInv', [Next]_vars,
         LivePositions' = LivePositions,
         \/ FirstLive' = FirstLive /\ tail_allocated' = tail_allocated
         \/ FirstLive = tail_allocated /\ FirstLive' = tail_allocated'
  PROVE  LiveQueue' = LiveQueue
<1>1. QueuePlaces /\ QueuePlaces'
  BY QueueHolds, QueueHoldsNext
<1>2. Len(LiveQueue') = Len(LiveQueue)
  BY <1>1, Naturals DEF QueuePlaces
<1>3. ASSUME NEW k \in 1..Len(LiveQueue) PROVE LiveQueue'[k] = LiveQueue[k]
  <2>1. PICK pos \in LivePositions : k = pos - FirstLive + 1
    BY <1>1 DEF QueuePlaces
  <2>2. FirstLive' = FirstLive
    BY <1>1, <1>3 DEF QueuePlaces
  <2>3. OpAt(pos)' = OpAt(pos)
    BY OpAtStable DEF SlotInv
  <2>4. LiveQueue[k] = OpAt(pos) /\ LiveQueue'[k] = OpAt(pos)'
    BY <1>1, <2>1, <2>2 DEF QueuePlaces
  <2> QED  BY <2>3, <2>4
<1> QED  BY <1>1, <1>2, <1>3, SameSequence DEF QueuePlaces

\* A step that resumes the first coroutine takes it off the queue.
LEMMA QueueAdvances ==
  ASSUME RingInv, RingInv', SlotInv, SlotInv', LiveInv, LiveInv', [Next]_vars,
         FirstLive \in LivePositions, FirstLive' = FirstLive + 1,
         tail_allocated' = tail_allocated
  PROVE  /\ LiveQueue # <<>> /\ Head(LiveQueue) = OpAt(FirstLive)
         /\ LiveQueue' = Tail(LiveQueue)
<1>1. QueuePlaces /\ QueuePlaces' /\ FirstLive \in Int
  <2>1. FirstLive \in Int
    BY Naturals DEF FirstLive
  <2> QED  BY <2>1, QueueHolds, QueueHoldsNext
<1>2. LiveQueue \in Seq(Op) /\ LiveQueue' \in Seq(Op)
  BY <1>1 DEF QueuePlaces
<1>3. LiveQueue # <<>> /\ LiveQueue[1] = OpAt(FirstLive)
  <2>1. 1 = FirstLive - FirstLive + 1
    BY <1>1
  <2>3. 1 \in 1..Len(LiveQueue) /\ LiveQueue[1] = OpAt(FirstLive)
    BY <1>1, <2>1 DEF QueuePlaces
  <2> QED  BY <1>2, <2>3
<1>4. Tail(LiveQueue) \in Seq(Op) /\ Len(Tail(LiveQueue)) = Len(LiveQueue) - 1
  BY <1>2, <1>3
<1>5. Len(LiveQueue') = Len(LiveQueue) - 1
  BY <1>1, Naturals DEF QueuePlaces
<1>6. ASSUME NEW k \in 1..Len(LiveQueue') PROVE LiveQueue'[k] = Tail(LiveQueue)[k]
  <2>1. PICK pos \in LivePositions' : k = pos - FirstLive' + 1
    BY <1>1 DEF QueuePlaces
  <2>2. pos \in LivePositions /\ k + 1 = pos - FirstLive + 1
    BY <1>1, <2>1, Naturals DEF LivePositions
  <2>3. LiveQueue'[k] = OpAt(pos)' /\ LiveQueue[k + 1] = OpAt(pos)
    BY <1>1, <2>1, <2>2 DEF QueuePlaces
  <2>4. OpAt(pos)' = OpAt(pos)
    BY <2>1, <2>2, OpAtStable DEF SlotInv
  <2>5. Tail(LiveQueue)[k] = LiveQueue[k + 1]
    BY <1>2, <1>3, <1>5
  <2> QED  BY <2>3, <2>4, <2>5
<1>7. LiveQueue' = Tail(LiveQueue)
  BY <1>2, <1>4, <1>5, <1>6, SameSequence
<1>8. Head(LiveQueue) = LiveQueue[1]
  BY <1>2, <1>3
<1> QED  BY <1>3, <1>7, <1>8

\* A push that claims its positions joins the queue's end, in its order.
LEMMA QueueJoined ==
  ASSUME RingInv, RingInv', SlotInv, SlotInv', LiveInv, LiveInv', [Next]_vars,
         ~overrun', NEW p \in Producers, CasSucceeds(p)
  PROVE  /\ Len(LiveQueue) + count[p] <= Capacity
         /\ LiveQueue' = LiveQueue \o Batch(p)
<1>1. /\ phase = "run" /\ phase' = "run" /\ head' = head
      /\ tail_allocated = t_alloc[p] /\ tail_allocated' = tail_allocated + count[p]
      /\ ~(InFlight + count[p] > Capacity) /\ pc[p] = "cas"
  BY DEF CasSucceeds, RingInv, OrderInv, StopPhase, consumer
<1>2. FirstLive = head /\ FirstLive' = head
  BY <1>1 DEF FirstLive
<1>3. QueuePlaces /\ QueuePlaces'
  BY QueueHolds, QueueHoldsNext
<1>n. /\ tail_allocated \in Nat /\ head \in Nat /\ Capacity \in Nat
      /\ count[p] \in Nat \ {0}
  BY Naturals
<1> DEFINE n == Len(LiveQueue)
           c == count[p]
<1>4. /\ n \in Nat /\ c \in Nat \ {0} /\ n = tail_allocated - head
      /\ Len(LiveQueue') = n + c /\ n + c <= Capacity
  <2>1. /\ n = tail_allocated - head
        /\ Len(LiveQueue') = tail_allocated' - head
    BY <1>2, <1>3 DEF QueuePlaces
  <2>2. ~(tail_allocated - head + count[p] > Capacity)
    BY <1>1 DEF InFlight
  <2>3. n \in Nat
    BY <1>3 DEF QueuePlaces
  <2> HIDE DEF QueuePlaces, n
  <2> QED  BY <1>1, <1>n, <2>1, <2>2, <2>3
<1>5. /\ Batch(p) \in Seq(Op) /\ Len(Batch(p)) = c
      /\ LiveQueue \in Seq(Op) /\ LiveQueue' \in Seq(Op)
  <2>1. \A k \in 1..c : Batch(p)[k] \in Op
    BY <1>1, BatchFacts DEF RingInv
  <2>2. Batch(p) = [k \in 1..c |-> Batch(p)[k]]
    BY DEF Batch
  <2>3. LiveQueue \in Seq(Op) /\ LiveQueue' \in Seq(Op)
    BY <1>3 DEF QueuePlaces
  <2> HIDE DEF c
  <2>4. Batch(p) \in Seq(Op) /\ Len(Batch(p)) = c
    BY <1>4, <2>1, <2>2
  <2> QED  BY <2>3, <2>4
<1> DEFINE joined == LiveQueue \o Batch(p)
<1>6. /\ joined \in Seq(Op) /\ Len(joined) = n + c
      /\ \A k \in 1..n : joined[k] = LiveQueue[k]
      /\ \A k \in (n + 1)..(n + c) : joined[k] = Batch(p)[k - n]
  BY <1>5
<1> HIDE DEF joined, n, c
<1>7. ASSUME NEW k \in 1..Len(LiveQueue') PROVE LiveQueue'[k] = joined[k]
  <2>1. PICK pos \in LivePositions' : k = pos - FirstLive' + 1
    BY <1>3 DEF QueuePlaces
  <2>2. LiveQueue'[k] = OpAt(pos)' /\ k \in 1..(n + c) /\ pos \in Nat
    BY <1>3, <1>4, <2>1 DEF QueuePlaces
  <2>3. k = pos - head + 1 /\ pos = head + k - 1
    BY <1>2, <1>n, <2>1, <2>2
  <2>4. CASE k > n
    <3>1. pos \in Claimed(p)
      BY <1>1, <1>4, <1>n, <2>2, <2>3, <2>4 DEF Claimed, c
    <3>2. pos - tail_allocated + 1 = k - n
      BY <1>4, <1>n, <2>2, <2>3
    <3>3. OpAt(pos)' = Batch(p)[k - n]
      BY <3>1, <3>2, LiveClaimed DEF SlotInv
    <3>4. k \in (n + 1)..(n + c)
      BY <1>4, <2>2, <2>4
    <3> QED  BY <1>6, <2>2, <3>3, <3>4
  <2>5. CASE k <= n
    <3>1. pos \in LivePositions
      BY <1>2, <1>4, <1>n, <2>2, <2>3, <2>5 DEF LivePositions
    <3>2. OpAt(pos)' = OpAt(pos)
      BY <2>1, <3>1, OpAtStable DEF SlotInv
    <3>3. k \in 1..n /\ LiveQueue[k] = OpAt(pos)
      <4>1. LiveQueue[pos - FirstLive + 1] = OpAt(pos)
        BY <1>3, <3>1 DEF QueuePlaces
      <4> QED  BY <1>2, <1>4, <2>2, <2>3, <2>5, <4>1
    <3> QED  BY <1>6, <2>2, <3>2, <3>3
  <2> QED  BY <1>4, <2>2, <2>4, <2>5
<1>8. LiveQueue' = joined
  BY <1>4, <1>5, <1>6, <1>7, SameSequence
<1> QED  BY <1>4, <1>8 DEF joined, n, c

LEMMA QueueInit == Init => Queue!Init
<1> SUFFICES ASSUME Init PROVE Queue!Init
  OBVIOUS
<1>1. tail_allocated = 0 /\ FirstLive = 0
  BY DEF Init, FirstLive
<1>2. LiveQueue = <<>>
  BY <1>1 DEF LiveQueue
<1> QED  BY <1>2 DEF Init, Queue!Init

\* A push is a request, then a refusal or an acceptance; its other steps do
\* not show in the queue.
LEMMA PushIsQueueStep ==
  ASSUME RingInv, RingInv', SlotInv, SlotInv', LiveInv, LiveInv',
         [Next]_vars, ~overrun', NEW p \in Producers, Push(p)
  PROVE  Queue!Next \/ UNCHANGED Queue!vars
<1>0. count[p] \in Nat \ {0} /\ issued[p] \in Nat
  BY Naturals DEF RingInv, TypeInv, TypeOK
<1>1. ASSUME pc[p] # "idle"
      PROVE  BatchSet(p) \in SUBSET Op /\ BatchSet(p) # {}
  BY <1>0, <1>1, BatchFacts DEF RingInv
<1>2. Trying(p) => \A o \in BatchSet(p) : fate[o] = "pushing"
  BY DEF SlotInv, PushFates
<1>3. ASSUME UNCHANGED <<head, tail_allocated, phase, cursor>>
      PROVE  LiveQueue' = LiveQueue
  <2>1. FirstLive' = FirstLive /\ LivePositions' = LivePositions
    BY <1>3 DEF LivePositions, FirstLive
  <2> QED  BY <1>3, <2>1, QueueSame
<1>4. ASSUME NEW n \in 1..MaxBatch, BeginPush(p, n) PROVE Queue!Next
  <2> DEFINE new == {<<p, issued[p] + k>> : k \in 1..n}
  <2>1. /\ SetFate(new, "pushing") /\ issued[p] + n <= MaxOps
        /\ UNCHANGED <<head, tail_allocated, phase, cursor, stopped>>
    BY <1>4 DEF BeginPush, counters, consumer
  <2>2. \A e \in new : e \in Op /\ fate[e] = "unissued"
    <3> TAKE e \in new
    <3>1. PICK k \in 1..n : e = <<p, issued[p] + k>>
      OBVIOUS
    <3>2. issued[p] + k \in 1..MaxOps /\ issued[p] + k > issued[p]
      BY <1>0, <2>1
    <3> QED  BY <3>1, <3>2 DEF SlotInv, Fresh, Op
  <2>3. <<p, issued[p] + n>> \in new
    OBVIOUS
  <2> HIDE DEF new
  <2>4. Queue!Request(new)
    BY <1>3, <2>1, <2>2, <2>3 DEF Queue!Request, Queue!SetFate, SetFate
  <2>5. new \in SUBSET Op
    BY <2>2
  <2> QED  BY <2>4, <2>5 DEF Queue!Next
<1>5. CASE LoadTail(p)
  <2>1. UNCHANGED <<head, tail_allocated, phase, cursor, stopped>>
    BY <1>5 DEF LoadTail, counters, consumer
  <2>2. CASE stopped
    <3>1. Queue!Refuse(BatchSet(p))
      BY <1>1, <1>2, <1>3, <1>5, <2>1, <2>2
      DEF LoadTail, Return, Trying, SetFate, Queue!Refuse, Queue!SetFate
    <3> QED  BY <1>1, <1>5, <3>1 DEF Queue!Next, LoadTail
  <2>3. CASE ~stopped
    BY <1>3, <1>5, <2>1, <2>3 DEF LoadTail, Queue!vars
  <2> QED  BY <2>2, <2>3
<1>6. CASE LoadHead(p)
  <2>1. UNCHANGED <<head, tail_allocated, phase, cursor, stopped>>
    BY <1>6 DEF LoadHead, counters, consumer
  <2>2. CASE Full(t_alloc[p], head)
    <3>1. Queue!Refuse(BatchSet(p))
      BY <1>1, <1>2, <1>3, <1>6, <2>1, <2>2
      DEF LoadHead, Return, Trying, SetFate, Queue!Refuse, Queue!SetFate
    <3> QED  BY <1>1, <1>6, <3>1 DEF Queue!Next, LoadHead
  <2>3. CASE ~Full(t_alloc[p], head)
    BY <1>3, <1>6, <2>1, <2>3 DEF LoadHead, Queue!vars
  <2> QED  BY <2>2, <2>3
<1>7. CASE CasSucceeds(p)
  <2>1. pc[p] = "cas" /\ ~stopped /\ stopped' = stopped /\ SetFate(BatchSet(p), "queued")
    BY <1>7 DEF CasSucceeds
  <2>2. Len(LiveQueue) + count[p] <= Capacity /\ LiveQueue' = LiveQueue \o Batch(p)
    BY <1>7, QueueJoined
  <2> DEFINE b == Batch(p)
             c == count[p]
  <2>3. /\ DOMAIN b = 1..c /\ c \in 1..Capacity
        /\ b = [k \in 1..c |-> b[k]]
    <3>1. DOMAIN b = 1..c /\ b = [k \in 1..c |-> b[k]]
      BY DEF Batch
    <3>2. Len(LiveQueue) \in Nat
      BY QueueHolds DEF QueuePlaces
    <3>3. c \in 1..Capacity
      BY <1>0, <2>2, <3>2
    <3> QED  BY <3>1, <3>3
  <2>4. /\ \A k \in 1..c : b[k] \in Op /\ b[k] \in BatchSet(p)
        /\ \A j, k \in 1..c : b[j] = b[k] => j = k
        /\ \A o \in BatchSet(p) : \E k \in 1..c : o = b[k]
    BY <1>1, <2>1, BatchFacts DEF RingInv
  <2> HIDE DEF b, c
  <2>5. b \in [1..c -> Op] /\ Len(b) = c
    BY <1>0, <2>3, <2>4 DEF c
  <2>6. Queue!Elems(b) = BatchSet(p)
    BY <2>3, <2>4 DEF Queue!Elems
  <2>7. \A k \in DOMAIN b : fate[b[k]] = "pushing"
    BY <1>2, <2>1, <2>3, <2>4 DEF Trying
  <2>8. fate' = [o \in Op |-> IF o \in Queue!Elems(b) THEN "queued" ELSE fate[o]]
    BY <2>1, <2>6 DEF SetFate
  <2>9. Queue!Accept(b)
    <3>1. Len(LiveQueue) + Len(b) <= Capacity /\ LiveQueue' = LiveQueue \o b
      BY <2>2, <2>5 DEF b, c
    <3> QED  BY <2>1, <2>3, <2>4, <2>7, <2>8, <3>1 DEF Queue!Accept, Queue!SetFate
  <2>10. b \in Queue!Batches
    BY <2>3, <2>5 DEF Queue!Batches
  <2> QED  BY <2>9, <2>10 DEF Queue!Next
<1>8. CASE CasFails(p) \/ WriteSlots(p) \/ Publish(p)
  <2>1. UNCHANGED <<head, tail_allocated, phase, cursor, stopped, fate>>
    BY <1>8 DEF CasFails, WriteSlots, Publish, counters, consumer
  <2> QED  BY <1>3, <2>1 DEF Queue!vars
<1> QED  BY <1>4, <1>5, <1>6, <1>7, <1>8 DEF Push

\* Pop answers the queue's head, a drain aborts it, a stop shuts the queue
\* and the last store of a reset reopens it.
LEMMA ConsumerIsQueueStep ==
  ASSUME RingInv, RingInv', SlotInv, SlotInv', LiveInv, LiveInv', [Next]_vars,
         PrepWritev \/ Pop \/ Drain \/ Reset \/ UNCHANGED vars
  PROVE  Queue!Next \/ UNCHANGED Queue!vars
<1>1. ASSUME UNCHANGED tail_allocated, FirstLive' = FirstLive PROVE LiveQueue' = LiveQueue
  <2>1. LivePositions' = LivePositions
    BY <1>1 DEF LivePositions
  <2> QED  BY <1>1, <2>1, QueueSame
<1>2. \A pos \in LivePositions : OpAt(pos) \in Op /\ fate[OpAt(pos)] = "queued"
  BY DEF LiveInv, LiveQueued
<1>3. CASE Pop
  <2>1. /\ UNCHANGED <<tail_allocated, stopped>> /\ ~stopped /\ FirstLive' = FirstLive + 1
    BY <1>3, PopAnswers DEF Pop, RingInv, OrderInv, StopPhase, FirstLive
  <2>2. /\ LiveQueue # <<>> /\ Head(LiveQueue) = OpAt(FirstLive)
        /\ LiveQueue' = Tail(LiveQueue)
    BY <1>3, <2>1, PopAnswers, QueueAdvances
  <2>3. Queue!Answer
    BY <1>2, <1>3, <2>1, <2>2, PopAnswers DEF SetFate, Queue!Answer, Queue!SetFate
  <2> QED  BY <2>3 DEF Queue!Next
<1>4. CASE DrainResume
  <2>1. /\ UNCHANGED <<tail_allocated, stopped>> /\ stopped /\ FirstLive' = FirstLive + 1
    BY <1>4, ResumeGivesError
    DEF DrainResume, RingInv, OrderInv, StopPhase, FirstLive, counters
  <2>2. /\ LiveQueue # <<>> /\ Head(LiveQueue) = OpAt(FirstLive)
        /\ LiveQueue' = Tail(LiveQueue)
    BY <1>4, <2>1, ResumeGivesError, QueueAdvances
  <2>3. Queue!Abort
    BY <1>2, <1>4, <2>1, <2>2, ResumeGivesError DEF SetFate, Queue!Abort, Queue!SetFate
  <2> QED  BY <2>3 DEF Queue!Next
<1>5. CASE DrainStop
  <2>1. UNCHANGED <<tail_allocated, fate>> /\ FirstLive' = FirstLive /\ ~stopped /\ stopped'
    BY <1>5 DEF DrainStop, FirstLive, RingInv, OrderInv, StopPhase
  <2> QED  BY <1>1, <2>1 DEF Queue!Next, Queue!Shut
<1>6. CASE ResetAllocated
  <2>1. /\ FirstLive = tail_allocated /\ FirstLive' = 0 /\ tail_allocated' = 0
        /\ stopped /\ ~stopped' /\ fate' = fate
    BY <1>6 DEF ResetAllocated, FirstLive, RingInv, OrderInv, StopPhase, Cleared
  <2>2. LivePositions = {} /\ LivePositions' = {}
    BY <2>1, Naturals DEF LivePositions
  <2>3. LiveQueue' = LiveQueue
    BY <2>1, <2>2, QueueSame
  <2>4. LiveQueue = <<>>
    <3>1. tail_allocated - FirstLive = 0
      BY <2>1, Naturals
    <3> QED  BY <3>1 DEF LiveQueue
  <2> QED  BY <2>1, <2>3, <2>4 DEF Queue!Next, Queue!Reopen
<1>7. CASE PrepWritev \/ DrainWait \/ DrainDone \/ ResetHead \/ ResetCommitted
           \/ ResetTail \/ UNCHANGED vars
  <2>1. UNCHANGED <<tail_allocated, stopped, fate>>
    BY <1>7 DEF PrepWritev, DrainWait, DrainDone, ResetHead, ResetCommitted, ResetTail,
                vars, counters
  <2>2. DrainDone => FirstLive' = FirstLive
    BY <2>1 DEF DrainDone, FirstLive, RingInv, OrderInv, DrainsAll
  <2>3. FirstLive' = FirstLive
    BY <1>7, <2>1, <2>2 DEF PrepWritev, DrainWait, ResetHead, ResetCommitted,
                ResetTail, vars, counters, consumer, FirstLive
  <2> QED  BY <1>1, <2>1, <2>3 DEF Queue!vars
<1> QED  BY <1>3, <1>4, <1>5, <1>6, <1>7 DEF Drain, Reset

\* Step by step, the ring is the bounded queue: what push and push_n hand
\* over is accepted as a whole, refused, answered in order or given CONN ERR
\* as RingQueue says, whatever the size of the batches.  The steps that
\* overwrite a live slot, and those after one, are exempted (overrun).
THEOREM RingIsQueue == Spec => ImplementsQueue
<1>1. Init => Queue!Init
  BY QueueInit
<1>2. /\ RingInv /\ Contents /\ (RingInv /\ Contents)' /\ [Next]_vars
      => [overrun' \/ Queue!Next]_(Queue!vars)
  <2> SUFFICES ASSUME RingInv, RingInv', Contents, Contents',
                      ~overrun', [Next]_vars
               PROVE  Queue!Next \/ UNCHANGED Queue!vars
    OBVIOUS
  <2>1. SlotInv /\ LiveInv /\ SlotInv' /\ LiveInv'
    BY OverrunStays DEF Contents
  <2> QED  BY <2>1, PushIsQueueStep, ConsumerIsQueueStep DEF Next, Finished
<1> QED  BY <1>1, <1>2, ContentsInvariant, PTL DEF Spec, ImplementsQueue
=============================================================================
