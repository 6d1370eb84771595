----------------------------- MODULE RingQueue -----------------------------
(***************************************************************************)
(* What the ring promises the coroutines that hand it their commands: a    *)
(* bounded FIFO of operations.  An operation that is accepted is resumed   *)
(* exactly once, in order, either with the reply of the server or, after   *)
(* the connection is lost, with CONN ERR; an operation that is refused is  *)
(* told so at once and never enters the queue.  MPSCRing implements this   *)
(* specification with a lock-free array (include/mpsc_ring.hpp).           *)
(***************************************************************************)
EXTENDS Naturals, Sequences

CONSTANTS
  Op,        \* the operations: one suspended coroutine handle each
  Capacity   \* xcapacity, the most operations in flight

VARIABLES
  queue,     \* the accepted operations that were not resumed yet
  open,      \* FALSE from the moment the connection is given up
  fate       \* what became of every operation

vars == <<queue, open, fate>>

Resolved == {"reply", "conn_err", "ring_overflow"}
Fates    == {"unissued", "pushing", "queued"} \cup Resolved

SetFate(ops, f) == fate' = [o \in Op |-> IF o \in ops THEN f ELSE fate[o]]

Elems(s) == {s[k] : k \in DOMAIN s}

\* What one push or push_n hands over.
Batches == UNION {[1..n -> Op] : n \in 1..Capacity}

TypeOK ==
  /\ queue \in Seq(Op)
  /\ open \in BOOLEAN
  /\ fate \in [Op -> Fates]

Init ==
  /\ queue = <<>>
  /\ open = TRUE
  /\ fate = [o \in Op |-> "unissued"]

\* A coroutine calls push or push_n: from here on it waits for a verdict.
Request(ops) ==
  /\ ops # {}
  /\ \A o \in ops : fate[o] = "unissued"
  /\ SetFate(ops, "pushing")
  /\ UNCHANGED <<queue, open>>

\* A batch is accepted as a whole: it joins the queue in its own order behind
\* all accepted before, and no other batch comes in between.
Accept(batch) ==
  /\ open
  /\ \A k \in DOMAIN batch : fate[batch[k]] = "pushing"
  /\ \A i, j \in DOMAIN batch : batch[i] = batch[j] => i = j
  /\ Len(queue) + Len(batch) <= Capacity
  /\ queue' = queue \o batch
  /\ SetFate(Elems(batch), "queued")
  /\ UNCHANGED open

\* RING OVERFLOW, or CONN ERR on a closed queue: nothing of the batch is
\* queued.
Refuse(ops) ==
  /\ ops # {}
  /\ \A o \in ops : fate[o] = "pushing"
  /\ \/ SetFate(ops, "ring_overflow")
     \/ ~open /\ SetFate(ops, "conn_err")
  /\ UNCHANGED <<queue, open>>

\* The oldest accepted operation gets its reply.
Answer ==
  /\ open
  /\ queue # <<>>
  /\ fate[Head(queue)] = "queued"
  /\ queue' = Tail(queue)
  /\ SetFate({Head(queue)}, "reply")
  /\ UNCHANGED open

Shut ==
  /\ open
  /\ open' = FALSE
  /\ UNCHANGED <<queue, fate>>

\* The connection is gone: the oldest accepted operation gets CONN ERR.
Abort ==
  /\ ~open
  /\ queue # <<>>
  /\ fate[Head(queue)] = "queued"
  /\ queue' = Tail(queue)
  /\ SetFate({Head(queue)}, "conn_err")
  /\ UNCHANGED open

\* A new connection starts with nothing left over from the old one.
Reopen ==
  /\ ~open
  /\ queue = <<>>
  /\ open' = TRUE
  /\ UNCHANGED <<queue, fate>>

Next ==
  \/ \E ops \in SUBSET Op : Request(ops) \/ Refuse(ops)
  \/ \E batch \in Batches : Accept(batch)
  \/ Answer \/ Shut \/ Abort \/ Reopen

Spec == Init /\ [][Next]_vars
=============================================================================
