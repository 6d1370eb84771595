------------------------------ MODULE MPSCRing ------------------------------
(***************************************************************************)
(* The multi-producer single-consumer ring of include/mpsc_ring.hpp in its *)
(* shared form: every load, store, compare-exchange and fetch_or on the    *)
(* four atomic counters is a step of its own, so producers on any thread   *)
(* interleave with the one consumer thread (the worker of a connection,    *)
(* which commits, pops, drains and resets).                                *)
(*                                                                         *)
(* Positions are natural numbers; a position's slot is position modulo     *)
(* Capacity.  The counters are size_t in the code and never wrap in        *)
(* practice (2^63 operations on one connection), but their difference is   *)
(* unsigned: see Full.  The memory is sequentially consistent.             *)
(***************************************************************************)
EXTENDS Integers, Sequences, FiniteSets

CONSTANTS
  Producers,   \* threads that push
  Capacity,    \* xcapacity, a power of two in the code
  MaxBatch,    \* the largest count given to push_n (push is count 1)
  CommitBatch, \* XREDIS_PIPELINE_BATCH_SIZE
  MaxOps,      \* bound: operations each producer ever pushes
  MaxResets,   \* bound: reconnections
  Nothing      \* an empty handle

ASSUME CapacityAssumption  == Capacity \in Nat \ {0}
ASSUME BatchAssumption     == MaxBatch \in Nat \ {0}
ASSUME CommitAssumption    == CommitBatch \in Nat \ {0}
ASSUME BoundsAssumption    == MaxOps \in Nat /\ MaxResets \in Nat
ASSUME NothingAssumption   == Nothing \notin Producers \X (1..MaxOps)

VARIABLES
  tail_allocated,  \* next free position, without its STOP_BIT
  stopped,         \* the STOP_BIT of the same word
  tail,            \* positions below it are published
  head,            \* positions below it are popped
  head_committed,  \* positions below it were given to writev
  handles,         \* the slot array
  pc, count, t_alloc, seen_head,   \* each producer's frame of _push_n
  issued,          \* how many operations each producer has made so far
  phase, old, cursor,              \* the consumer's frame of _drain/_reset
  sent,            \* commands on the wire the server has not answered
  fate,            \* what each operation's coroutine was resumed with
  epoch, seen_epoch, stale, overrun \* history, read by no action

counters == <<tail_allocated, stopped, tail, head, head_committed, handles>>
frames   == <<pc, count, t_alloc, seen_head, issued>>
consumer == <<phase, old, cursor, sent>>
history  == <<epoch, seen_epoch, stale, overrun>>
vars     == <<counters, frames, consumer, fate, history>>

Op == Producers \X (1..MaxOps)

Slot(pos) == pos % Capacity

\* Mutant: full one slot too late.
Full_Late(t, h) == t < h \/ t - h > Capacity

\* t_alloc - head >= xcapacity in unsigned arithmetic: a t_alloc older than
\* head underflows to a huge difference.
Full(t, h) == t < h \/ t - h >= Capacity

InFlight == tail_allocated - head

\* The operations of the push producer p is in, in order.
Batch(p)    == [k \in 1..count[p] |-> <<p, issued[p] - count[p] + k>>]
BatchSet(p) == {Batch(p)[k] : k \in 1..count[p]}

\* The positions p's push claims, and the last one up to there that shares
\* slot s: the write that stays in the slot.
Claimed(p) == t_alloc[p] .. (t_alloc[p] + count[p] - 1)
Newest(p, s) == LET last == t_alloc[p] + count[p] - 1
                IN  last - ((last - s) % Capacity)

SetFate(ops, f) == fate' = [o \in Op |-> IF o \in ops THEN f ELSE fate[o]]

PushPcs == {"idle", "load_tail", "load_head", "cas", "write", "publish"}
Phases  == {"run", "wait_tail", "resume", "drained",
            "reset_committed", "reset_tail", "reset_allocated"}
Fates   == {"unissued", "pushing", "queued", "reply", "wrong_reply",
            "conn_err", "ring_overflow"}

Init ==
  /\ tail_allocated = 0 /\ stopped = FALSE
  /\ tail = 0 /\ head = 0 /\ head_committed = 0
  /\ handles = [s \in 0..(Capacity - 1) |-> Nothing]
  /\ pc = [p \in Producers |-> "idle"]
  /\ count = [p \in Producers |-> 1]
  /\ t_alloc = [p \in Producers |-> 0]
  /\ seen_head = [p \in Producers |-> 0]
  /\ issued = [p \in Producers |-> 0]
  /\ phase = "run" /\ old = 0 /\ cursor = 0 /\ sent = <<>>
  /\ fate = [o \in Op |-> "unissued"]
  /\ epoch = 0 /\ stale = FALSE /\ overrun = FALSE
  /\ seen_epoch = [p \in Producers |-> 0]

(***************************************************************************)
(* Producers: _push_n, of which _push is the case count = 1.               *)
(***************************************************************************)

BeginPush(p, n) ==
  /\ pc[p] = "idle"
  /\ issued[p] + n <= MaxOps
  /\ pc' = [pc EXCEPT ![p] = "load_tail"]
  /\ count' = [count EXCEPT ![p] = n]
  /\ issued' = [issued EXCEPT ![p] = @ + n]
  /\ SetFate({<<p, issued[p] + k>> : k \in 1..n}, "pushing")
  /\ UNCHANGED <<counters, t_alloc, seen_head, consumer,
                 epoch, seen_epoch, stale, overrun>>

\* The push returns a negative value and the coroutine is not suspended.
Return(p, error) ==
  /\ pc' = [pc EXCEPT ![p] = "idle"]
  /\ t_alloc' = [t_alloc EXCEPT ![p] = 0]
  /\ seen_head' = [seen_head EXCEPT ![p] = 0]
  /\ seen_epoch' = [seen_epoch EXCEPT ![p] = 0]
  /\ SetFate(BatchSet(p), error)

\* Mutant: the STOP_BIT is not tested.
LoadTail_IgnoresStop(p) ==
  /\ pc[p] = "load_tail"
  /\ pc' = [pc EXCEPT ![p] = "load_head"]
  /\ t_alloc' = [t_alloc EXCEPT ![p] = tail_allocated]
  /\ UNCHANGED <<counters, count, seen_head, issued, consumer, fate, history>>

\* tail_allocated.load(); with the STOP_BIT set the push fails whatever the
\* load of head that follows returns.
LoadTail(p) ==
  /\ pc[p] = "load_tail"
  /\ IF stopped
     THEN Return(p, "conn_err")
     ELSE /\ pc' = [pc EXCEPT ![p] = "load_head"]
          /\ t_alloc' = [t_alloc EXCEPT ![p] = tail_allocated]
          /\ UNCHANGED <<seen_head, seen_epoch, fate>>
  /\ UNCHANGED <<counters, count, issued, consumer, epoch, stale,
                 overrun>>

LoadHead(p) ==
  /\ pc[p] = "load_head"
  /\ IF Full(t_alloc[p], head)
     THEN Return(p, "ring_overflow")
     ELSE /\ pc' = [pc EXCEPT ![p] = "cas"]
          /\ seen_head' = [seen_head EXCEPT ![p] = head]
          /\ seen_epoch' = [seen_epoch EXCEPT ![p] = epoch]
          /\ UNCHANGED <<t_alloc, fate>>
  /\ UNCHANGED <<counters, count, issued, consumer, epoch, stale,
                 overrun>>

\* Mutant: a store where the code has a compare-exchange.
CasSucceeds_Store(p) ==
  /\ pc[p] = "cas"
  /\ tail_allocated' = t_alloc[p] + count[p]
  /\ pc' = [pc EXCEPT ![p] = "write"]
  /\ SetFate(BatchSet(p), "queued")
  /\ UNCHANGED <<stopped, tail, head, head_committed, handles,
                 count, t_alloc, seen_head, issued, consumer, history>>

\* compare_exchange_weak succeeds only on the word it loaded, STOP_BIT
\* included: the positions t_alloc .. t_alloc + count - 1 are claimed.
CasSucceeds(p) ==
  /\ pc[p] = "cas"
  /\ tail_allocated = t_alloc[p] /\ ~stopped
  /\ tail_allocated' = tail_allocated + count[p]
  /\ pc' = [pc EXCEPT ![p] = "write"]
  /\ SetFate(BatchSet(p), "queued")
  /\ stale' = (stale \/ seen_epoch[p] # epoch)
  /\ overrun' = (overrun \/ InFlight + count[p] > Capacity)
  /\ UNCHANGED <<stopped, tail, head, head_committed, handles,
                 count, t_alloc, seen_head, issued, consumer,
                 epoch, seen_epoch>>

\* It may also fail spuriously: either way the loop starts over.
CasFails(p) ==
  /\ pc[p] = "cas"
  /\ pc' = [pc EXCEPT ![p] = "load_tail"]
  /\ UNCHANGED <<counters, count, t_alloc, seen_head, issued, consumer, fate,
                 history>>

\* The slots of one batch are filled in one step: none is published yet.
WriteSlots(p) ==
  /\ pc[p] = "write"
  /\ handles' = [s \in DOMAIN handles |->
                   IF Newest(p, s) >= t_alloc[p]
                   THEN Batch(p)[Newest(p, s) - t_alloc[p] + 1]
                   ELSE handles[s]]
  /\ pc' = [pc EXCEPT ![p] = "publish"]
  /\ UNCHANGED <<tail_allocated, stopped, tail, head, head_committed,
                 count, t_alloc, seen_head, issued, consumer, fate, history>>

\* Mutant: publishing does not wait for the earlier claims.
Publish_NoWait(p) ==
  /\ pc[p] = "publish"
  /\ tail' = t_alloc[p] + count[p]
  /\ pc' = [pc EXCEPT ![p] = "idle"]
  /\ t_alloc' = [t_alloc EXCEPT ![p] = 0]
  /\ seen_head' = [seen_head EXCEPT ![p] = 0]
  /\ seen_epoch' = [seen_epoch EXCEPT ![p] = 0]
  /\ UNCHANGED <<tail_allocated, stopped, head, head_committed, handles,
                 count, issued, consumer, fate, epoch, stale,
                 overrun>>

\* Spin until every earlier claim is published, then publish this one.
Publish(p) ==
  /\ pc[p] = "publish"
  /\ tail = t_alloc[p]
  /\ tail' = t_alloc[p] + count[p]
  /\ pc' = [pc EXCEPT ![p] = "idle"]
  /\ t_alloc' = [t_alloc EXCEPT ![p] = 0]
  /\ seen_head' = [seen_head EXCEPT ![p] = 0]
  /\ seen_epoch' = [seen_epoch EXCEPT ![p] = 0]
  /\ UNCHANGED <<tail_allocated, stopped, head, head_committed, handles,
                 count, issued, consumer, fate, epoch, stale,
                 overrun>>

(***************************************************************************)
(* The consumer thread.                                                    *)
(***************************************************************************)

\* _prep_writev hands at most CommitBatch published payloads to writev, and
\* they go on the wire in that order.
PrepWritev ==
  LET room == tail - head_committed
      num  == IF room < CommitBatch THEN room ELSE CommitBatch
  IN  /\ phase = "run"
      /\ num > 0
      /\ head_committed' = head_committed + num
      /\ sent' = sent \o [k \in 1..num |-> handles[Slot(head_committed + k - 1)]]
      /\ UNCHANGED <<tail_allocated, stopped, tail, head, handles, frames,
                     phase, old, cursor, fate, history>>

\* _pop has no test for an empty ring: the reader calls it for each reply,
\* and the server replies, in order, to the commands it was sent.
Pop ==
  LET h == handles[Slot(head)]
  IN  /\ phase = "run"
      /\ sent # <<>>
      /\ head' = head + 1
      /\ SetFate({h}, IF h = Head(sent) THEN "reply" ELSE "wrong_reply")
      /\ sent' = Tail(sent)
      /\ UNCHANGED <<tail_allocated, stopped, tail, head_committed, handles,
                     frames, phase, old, cursor, history>>

\* Mutants: the drain stops one position short of, or past, the last claim.
DrainStop_Short ==
  /\ phase = "run"
  /\ stopped' = TRUE
  /\ old' = tail_allocated - 1
  /\ sent' = <<>>
  /\ phase' = "wait_tail"
  /\ UNCHANGED <<tail_allocated, tail, head, head_committed, handles, frames,
                 cursor, fate, history>>

DrainStop_Past ==
  /\ phase = "run"
  /\ stopped' = TRUE
  /\ old' = tail_allocated + 1
  /\ sent' = <<>>
  /\ phase' = "wait_tail"
  /\ UNCHANGED <<tail_allocated, tail, head, head_committed, handles, frames,
                 cursor, fate, history>>

\* _drain: fetch_or(STOP_BIT) on the word the producers compare and swap.
DrainStop ==
  /\ phase = "run"
  /\ stopped' = TRUE
  /\ old' = tail_allocated
  /\ sent' = <<>>
  /\ phase' = "wait_tail"
  /\ UNCHANGED <<tail_allocated, tail, head, head_committed, handles, frames,
                 cursor, fate, history>>

\* Mutants: the drain does not wait for claims in progress; it resumes from
\* the first slot instead of from head.
DrainWait_NoWait ==
  /\ phase = "wait_tail"
  /\ cursor' = head
  /\ phase' = "resume"
  /\ UNCHANGED <<counters, frames, old, sent, fate, history>>

DrainWait_FromStart ==
  /\ phase = "wait_tail"
  /\ tail = old
  /\ cursor' = 0
  /\ phase' = "resume"
  /\ UNCHANGED <<counters, frames, old, sent, fate, history>>

\* Spin until the producers that claimed before the stop have published.
DrainWait ==
  /\ phase = "wait_tail"
  /\ tail = old
  /\ cursor' = head
  /\ phase' = "resume"
  /\ UNCHANGED <<counters, frames, old, sent, fate, history>>

DrainResume ==
  /\ phase = "resume"
  /\ cursor # old
  /\ cursor' = cursor + 1
  /\ SetFate({handles[Slot(cursor)]}, "conn_err")
  /\ UNCHANGED <<counters, frames, phase, old, sent, history>>

DrainDone ==
  /\ phase = "resume"
  /\ cursor = old
  /\ phase' = "drained"
  /\ UNCHANGED <<counters, frames, old, cursor, sent, fate, history>>

\* Mutant: the reset begins with tail.
ResetHead_TailFirst ==
  /\ phase = "drained"
  /\ epoch < MaxResets
  /\ tail' = 0
  /\ epoch' = epoch + 1
  /\ phase' = "reset_committed"
  /\ UNCHANGED <<tail_allocated, stopped, head, head_committed, handles,
                 frames, old, cursor, sent, fate, seen_epoch, stale,
                 overrun>>

\* _reset, before the worker reconnects: four stores, tail_allocated last.
ResetHead ==
  /\ phase = "drained"
  /\ epoch < MaxResets
  /\ head' = 0
  /\ epoch' = epoch + 1
  /\ phase' = "reset_committed"
  /\ UNCHANGED <<tail_allocated, stopped, tail, head_committed, handles,
                 frames, old, cursor, sent, fate, seen_epoch, stale,
                 overrun>>

ResetCommitted ==
  /\ phase = "reset_committed"
  /\ head_committed' = 0
  /\ phase' = "reset_tail"
  /\ UNCHANGED <<tail_allocated, stopped, tail, head, handles,
                 frames, old, cursor, sent, fate, history>>

ResetTail ==
  /\ phase = "reset_tail"
  /\ tail' = 0
  /\ phase' = "reset_allocated"
  /\ UNCHANGED <<tail_allocated, stopped, head, head_committed, handles,
                 frames, old, cursor, sent, fate, history>>

ResetAllocated ==
  /\ phase = "reset_allocated"
  /\ tail_allocated' = 0
  /\ stopped' = FALSE
  /\ phase' = "run"
  /\ old' = 0 /\ cursor' = 0
  /\ UNCHANGED <<tail, head, head_committed, handles, frames, sent, fate,
                 history>>

\* The bounds are used up: every producer has pushed all it may and the
\* connection is closed for good.
Finished ==
  /\ \A p \in Producers : pc[p] = "idle" /\ issued[p] = MaxOps
  /\ phase = "drained" /\ epoch = MaxResets
  /\ UNCHANGED vars

Push(p) ==
  \/ \E n \in 1..MaxBatch : BeginPush(p, n)
  \/ LoadTail(p) \/ LoadHead(p)
  \/ CasSucceeds(p) \/ CasFails(p)
  \/ WriteSlots(p) \/ Publish(p)

Drain == DrainStop \/ DrainWait \/ DrainResume \/ DrainDone
Reset == ResetHead \/ ResetCommitted \/ ResetTail \/ ResetAllocated

Next ==
  \/ \E p \in Producers : Push(p)
  \/ PrepWritev \/ Pop \/ Drain \/ Reset
  \/ Finished

Spec == Init /\ [][Next]_vars

(***************************************************************************)
(* Fairness: a runnable thread keeps running, so a push in progress and a  *)
(* drain in progress take their next step.  A weak compare-exchange may    *)
(* fail spuriously, but not for ever (the progress guarantee of LL/SC; on  *)
(* x86 it never does): strong fairness of its success.  Nothing makes the  *)
(* server answer, the connection fail or a coroutine push.                 *)
(***************************************************************************)
ProducerFairness(p) ==
  /\ WF_vars(LoadTail(p)) /\ WF_vars(LoadHead(p))
  /\ SF_vars(CasSucceeds(p)) /\ WF_vars(CasFails(p))
  /\ WF_vars(WriteSlots(p)) /\ WF_vars(Publish(p))

DrainFairness == WF_vars(DrainWait) /\ WF_vars(DrainResume \/ DrainDone)

FairSpec ==
  /\ Spec
  /\ \A p \in Producers : ProducerFairness(p)
  /\ DrainFairness
(***************************************************************************)
(* Properties.                                                             *)
(***************************************************************************)

TypeOK ==
  /\ tail_allocated \in Nat /\ tail \in Nat
  /\ head \in Nat /\ head_committed \in Nat
  /\ stopped \in BOOLEAN
  /\ handles \in [0..(Capacity - 1) -> Op \cup {Nothing}]
  /\ pc \in [Producers -> PushPcs]
  /\ count \in [Producers -> 1..MaxBatch]
  /\ t_alloc \in [Producers -> Nat]
  /\ seen_head \in [Producers -> Nat]
  /\ issued \in [Producers -> 0..MaxOps]
  /\ phase \in Phases
  /\ old \in Nat /\ cursor \in Nat
  /\ sent \in Seq(Op \cup {Nothing})
  /\ fate \in [Op -> Fates]
  /\ epoch \in Nat
  /\ seen_epoch \in [Producers -> Nat]
  /\ stale \in BOOLEAN /\ overrun \in BOOLEAN

Claiming == {p \in Producers : pc[p] \in {"write", "publish"}}

\* The operation that holds a position: the slot's once published, the
\* claimer's until then.
OpAt(pos) ==
  IF pos < tail
  THEN handles[Slot(pos)]
  ELSE LET p == CHOOSE p \in Claiming : pos \in Claimed(p)
       IN  Batch(p)[pos - t_alloc[p] + 1]

\* The first position whose coroutine was not resumed yet.
FirstLive ==
  CASE phase \in {"run", "wait_tail"} -> head
    [] phase = "resume" -> cursor
    [] OTHER -> tail_allocated

LivePositions == FirstLive .. (tail_allocated - 1)

LiveQueue == [k \in 1..(tail_allocated - FirstLive) |-> OpAt(FirstLive + k - 1)]

\* The four counters never cross, not even between the stores of a reset
\* that producers observe, and the commands awaiting a reply are exactly the
\* committed ones: this is what lets pop go without an emptiness test.
CountersOrdered ==
  /\ head <= head_committed /\ head_committed <= tail
  /\ tail <= tail_allocated
  /\ phase = "run" => Len(sent) = head_committed - head

\* The unpublished positions are split among the producers in the middle of
\* a push: none is claimed twice, and (but for the last store of a reset)
\* none is claimed by nobody, for which every later push would spin for ever.
ClaimsPartition ==
  /\ \A p \in Claiming : /\ tail <= t_alloc[p]
                         /\ t_alloc[p] + count[p] <= tail_allocated
  /\ \A p, q \in Claiming : p # q => Claimed(p) \cap Claimed(q) = {}
  /\ phase # "reset_allocated" =>
       \A pos \in tail..(tail_allocated - 1) :
         \E p \in Claiming : pos \in Claimed(p)

\* How far the ring can be over-filled: the test of push_n looks at one free
\* slot whatever the count, so at most MaxBatch - 1 slots too many - unless a
\* compare-exchange succeeded on values loaded before a reset.
OccupancyBound ==
  phase \in {"run", "wait_tail", "resume"} /\ ~stale
    => InFlight <= Capacity - 1 + MaxBatch

\* With push only (count 1) the only way to overwrite a live slot is that
\* stale compare-exchange.
OverrunOnlyIfStale == MaxBatch = 1 /\ overrun => stale

\* As long as no live slot was overwritten, the coroutines that wait are
\* exactly those the ring will still resume: none is forgotten by pop, drain
\* or reset, none is in the ring twice, and a drained ring holds nobody.
WaitersAreLive ==
  ~overrun =>
    /\ {o \in Op : fate[o] = "queued"} = {OpAt(pos) : pos \in LivePositions}
    /\ \A a, b \in LivePositions : OpAt(a) = OpAt(b) => a = b

\* Each coroutine is given the reply to its own command.
RepliesMatch == ~overrun => \A o \in Op : fate[o] # "wrong_reply"

\* A coroutine that was resumed or refused is never resumed again.
Settled(f) == f \in {"reply", "wrong_reply", "conn_err", "ring_overflow"}
ResumedOnce ==
  [][~overrun' => \A o \in Op : Settled(fate[o]) => fate'[o] = fate[o]]_vars

\* The ring is the bounded FIFO of module RingQueue: every step of a producer
\* or of the consumer is a step of that queue or does not show in it, pushes
\* of several commands included.  Exempted are the steps that overwrite a
\* live slot and those after one (overrun): push_n tests one free slot
\* whatever its count, and OccupancyBound says how far that goes.
Queue == INSTANCE RingQueue WITH queue <- LiveQueue, open <- ~stopped
ImplementsQueue ==
  Queue!Init /\ [][overrun' \/ Queue!Next]_(Queue!vars)

\* A push in progress returns, whatever the other producers and a drain do.
PushReturns == \A p \in Producers : pc[p] # "idle" ~> pc[p] = "idle"

\* A drain that started gives every waiting coroutine its CONN ERR.
DrainCompletes == phase = "wait_tail" ~> phase = "drained"
=============================================================================
