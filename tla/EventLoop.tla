----------------------------- MODULE EventLoop ------------------------------
(***************************************************************************)
(* How a command reaches the wire: CommandAwaiter::await_suspend pushes it *)
(* into the ring and submits a write of the eventfd through the io_context *)
(* (include/xnet.hpp), whose loop resumes the writer and the reader.       *)
(*                                                                         *)
(* The io_context is used by its own thread, the loop, and with            *)
(* RedisClient<true> by the threads of other coroutines.  A spinlock       *)
(* guards the submission queue.  The loop holds it while it sleeps in      *)
(* io_uring_submit_and_wait.                                               *)
(*                                                                         *)
(* The ring is a FIFO that never overflows here, and the connection stays  *)
(* up, unless the reader or the writer finds the submission queue full     *)
(* (down): Pipeline models what follows.  The kernel and the server are    *)
(* external.                                                               *)
(***************************************************************************)
EXTENDS Integers, Sequences, FiniteSets

CONSTANTS
  Local,      \* commands awaited by coroutines that the loop's thread runs
  Foreign,    \* commands awaited by coroutines on threads of their own
  SqEntries,  \* entries of the submission queue
  NumBatch,   \* completions after which the loop submits (entries / 4)
  Ticker      \* whether a coroutine of the loop waits for an AsyncTimer, again
              \* and again until that fails

ASSUME OpsAssumption     == /\ Local \cap Foreign = {}
                            /\ IsFiniteSet(Local) /\ IsFiniteSet(Foreign)
\* The worker's first two operations fit (run_until_complete divides by a
\* quarter of the entries: there are four at least).
ASSUME EntriesAssumption == /\ SqEntries \in Nat /\ SqEntries >= 2
                            /\ NumBatch \in Nat \ {0}
ASSUME TickerAssumption  == Ticker \in BOOLEAN

Ops == Local \cup Foreign

VARIABLES
  lock,              \* io_context::spinlock: "free", "loop", or who has it
  sq,                \* prepared, not submitted
  inflight, signals, \* submitted: operations of the loop, eventfd writes
  cq,                \* completions
  event,             \* the eventfd counter
  loop, batch, i,    \* run_until_complete: where it is, cqes[], and its i
  queue, committed,  \* the ring
  iov, srv,          \* commands in writev, commands the server has
  down,              \* the reader or the writer has failed
  ticking,           \* the coroutine of the timer lives
  pc, fate           \* the coroutine of each command

uring == <<sq, inflight, signals, cq, event>>
ring  == <<queue, committed, iov, srv>>
vars  == <<lock, uring, loop, batch, i, ring, down, ticking, pc, fate>>

\* Mutant: room for one entry more than there is.
Prep_OneTooMany(ops) ==
  IF Len(sq) + Len(ops) <= SqEntries + 1
  THEN sq' = sq \o ops /\ UNCHANGED down
  ELSE down' = TRUE /\ UNCHANGED sq

\* Prepare SQEs for the operations of ops; io_uring_get_sqe returns null when
\* the queue is full and the operation fails at once.
Prep(ops) ==
  IF Len(sq) + Len(ops) <= SqEntries
  THEN sq' = sq \o ops /\ UNCHANGED down
  ELSE down' = TRUE /\ UNCHANGED sq

\* The worker has started the reader and the writer, nothing is submitted.
Init ==
  /\ lock = "free"
  /\ sq = <<"recv", "read">> /\ inflight = {} /\ signals = 0 /\ cq = <<>>
  /\ event = 0
  /\ loop = "resume" /\ i = 0
  /\ batch = IF Ticker THEN <<"timer">> ELSE <<>>
  /\ queue = <<>> /\ committed = 0 /\ iov = <<>> /\ srv = <<>>
  /\ down = FALSE /\ ticking = Ticker
  /\ pc = [o \in Ops |-> "idle"] /\ fate = [o \in Ops |-> "none"]

(***************************************************************************)
(* CommandAwaiter::await_suspend.                                          *)
(***************************************************************************)

\* On the loop's thread: push, lock, prepare the eventfd write (or, with the
\* queue full, write(2) it), unlock.
AwaitLocal(o) ==
  /\ o \in Local /\ pc[o] = "idle"
  /\ loop = "resume" /\ lock = "free"
  /\ queue' = Append(queue, o)
  /\ IF Len(sq) < SqEntries
     THEN sq' = Append(sq, "signal") /\ UNCHANGED event
     ELSE event' = event + 1 /\ UNCHANGED sq
  /\ pc' = [pc EXCEPT ![o] = "suspended"]
  /\ UNCHANGED <<lock, inflight, signals, cq, loop, batch, i, committed, iov,
                 srv, down, ticking, fate>>

\* On another thread the same, step by step.
Push(o) ==
  /\ o \in Foreign /\ pc[o] = "idle"
  /\ queue' = Append(queue, o)
  /\ pc' = [pc EXCEPT ![o] = "lock"]
  /\ UNCHANGED <<lock, uring, loop, batch, i, committed, iov, srv, down, ticking, fate>>

Lock(o) ==
  /\ pc[o] = "lock"
  /\ lock = "free"
  /\ lock' = o
  /\ pc' = [pc EXCEPT ![o] = "prep"]
  /\ UNCHANGED <<uring, loop, batch, i, ring, down, ticking, fate>>

\* test_and_set found the lock taken.
Spin(o) ==
  /\ pc[o] = "lock" /\ lock # "free"
  /\ UNCHANGED vars

\* Mutant: no write(2) of the eventfd when the queue is full.
PrepSignal_NoFallback(o) ==
  /\ pc[o] = "prep"
  /\ sq' = IF Len(sq) < SqEntries THEN Append(sq, "signal") ELSE sq
  /\ pc' = [pc EXCEPT ![o] = "suspended"]
  /\ lock' = "free"
  /\ UNCHANGED <<inflight, signals, cq, event, loop, batch, i, ring, down, ticking, fate>>

PrepSignal(o) ==
  /\ pc[o] = "prep"
  /\ IF Len(sq) < SqEntries
     THEN sq' = Append(sq, "signal") /\ pc' = [pc EXCEPT ![o] = "suspended"]
     ELSE pc' = [pc EXCEPT ![o] = "write"] /\ UNCHANGED sq
  /\ lock' = "free"
  /\ UNCHANGED <<inflight, signals, cq, event, loop, batch, i, ring, down, ticking, fate>>

WriteSignal(o) ==
  /\ pc[o] = "write"
  /\ event' = event + 1
  /\ pc' = [pc EXCEPT ![o] = "suspended"]
  /\ UNCHANGED <<lock, sq, inflight, signals, cq, loop, batch, i, ring, down, ticking,
                 fate>>

(***************************************************************************)
(* run_until_complete.                                                     *)
(***************************************************************************)

Completion == batch[i + 1]

Resumes(c) ==
  /\ loop = "resume" /\ i < Len(batch) /\ ~down
  /\ Completion = c
  /\ lock = "free"
  /\ i' = i + 1
  /\ loop' = IF (i + 1) % NumBatch = 0 THEN "lock_submit" ELSE "resume"
  /\ UNCHANGED <<lock, inflight, signals, cq, event, batch>>

\* The completion of an eventfd write has no coroutine.
ResumesNobody ==
  /\ Resumes("signal")
  /\ UNCHANGED <<sq, ring, down, ticking, pc, fate>>

\* Mutant: the writer reads the eventfd again before its writev is complete.
ResumesWriter_ReadsToo ==
  /\ Resumes("read") \/ Resumes("writev")
  /\ iov' = SubSeq(queue, committed + 1, Len(queue))
  /\ committed' = Len(queue)
  /\ Prep(IF committed < Len(queue) THEN <<"writev", "read">> ELSE <<"read">>)
  /\ UNCHANGED <<ticking, queue, srv, pc, fate>>

\* The eventfd was read or a writev completed: the writer sends what is new
\* in the ring, or reads the eventfd again.
ResumesWriter ==
  /\ Resumes("read") \/ Resumes("writev")
  /\ iov' = SubSeq(queue, committed + 1, Len(queue))
  /\ committed' = Len(queue)
  /\ Prep(IF committed < Len(queue) THEN <<"writev">> ELSE <<"read">>)
  /\ UNCHANGED <<ticking, queue, srv, pc, fate>>

\* Mutant: the reader does not receive again.
ResumesReader_Once ==
  /\ Resumes("recv")
  /\ fate' = [fate EXCEPT ![Head(queue)] = "reply"]
  /\ queue' = Tail(queue)
  /\ committed' = committed - 1
  /\ UNCHANGED <<sq, down, ticking, iov, srv, pc>>

\* A reply has arrived: the reader resumes the oldest coroutine.
ResumesReader ==
  /\ Resumes("recv")
  /\ fate' = [fate EXCEPT ![Head(queue)] = "reply"]
  /\ queue' = Tail(queue)
  /\ committed' = committed - 1
  /\ Prep(<<"recv">>)
  /\ UNCHANGED <<ticking, iov, srv, pc>>

\* The timer has fired and its coroutine waits for it again.  With the queue
\* full AsyncTimer's awaiter does not suspend: the coroutine sees the error
\* and ends, and nobody else is concerned.
ResumesTicker ==
  /\ Resumes("timer")
  /\ IF Len(sq) < SqEntries
     THEN sq' = Append(sq, "timer") /\ UNCHANGED ticking
     ELSE ticking' = FALSE /\ UNCHANGED sq
  /\ UNCHANGED <<ring, down, pc, fate>>

\* submit() in the middle of a batch, submit_and_wait() at its end.
BatchDone ==
  /\ loop = "resume" /\ i = Len(batch)
  /\ loop' = "lock_wait"
  /\ UNCHANGED <<lock, uring, batch, i, ring, down, ticking, pc, fate>>

LockToSubmit ==
  /\ loop \in {"lock_submit", "lock_wait"} /\ lock = "free"
  /\ lock' = "loop"
  /\ loop' = IF loop = "lock_wait" THEN "submit_wait" ELSE "submit"
  /\ UNCHANGED <<uring, batch, i, ring, down, ticking, pc, fate>>

Submit ==
  /\ loop \in {"submit", "submit_wait"}
  /\ LET signal == {n \in DOMAIN sq : sq[n] = "signal"}
     IN  /\ signals' = signals + Cardinality(signal)
         /\ inflight' = inflight \cup {sq[n] : n \in DOMAIN sq \ signal}
  /\ sq' = <<>>
  /\ IF loop = "submit_wait"
     THEN loop' = "wait" /\ UNCHANGED lock
     ELSE loop' = "resume" /\ lock' = "free"
  /\ UNCHANGED <<cq, event, batch, i, ring, down, ticking, pc, fate>>

\* submit_and_wait returns once there is a completion, and unlocks.
WaitReturns ==
  /\ loop = "wait" /\ cq # <<>>
  /\ lock' = "free"
  /\ loop' = "resume"
  /\ batch' = cq /\ i' = 0
  /\ cq' = <<>>
  /\ UNCHANGED <<sq, inflight, signals, event, ring, down, ticking, pc, fate>>

(***************************************************************************)
(* The kernel and the server (external).                                   *)
(***************************************************************************)

Completes(op) ==
  /\ op \in inflight
  /\ inflight' = inflight \ {op}
  /\ cq' = Append(cq, op)
  /\ UNCHANGED <<lock, sq, loop, batch, i, queue, committed, down, ticking, pc, fate>>

EventWritten ==
  /\ signals > 0
  /\ signals' = signals - 1
  /\ event' = event + 1
  /\ cq' = Append(cq, "signal")
  /\ UNCHANGED <<lock, sq, inflight, loop, batch, i, ring, down, ticking, pc, fate>>

EventRead ==
  /\ Completes("read") /\ event > 0
  /\ event' = 0
  /\ UNCHANGED <<signals, iov, srv>>

Sent ==
  /\ Completes("writev")
  /\ srv' = srv \o iov /\ iov' = <<>>
  /\ UNCHANGED <<signals, event>>

Received ==
  /\ Completes("recv") /\ srv # <<>>
  /\ srv' = Tail(srv)
  /\ UNCHANGED <<signals, event, iov>>

TimerFires ==
  /\ Completes("timer")
  /\ UNCHANGED <<signals, event, iov, srv>>

\* Every command is answered and the loop sleeps, or the connection fails.
Finished ==
  /\ \/ down
     \/ loop = "wait" /\ \A o \in Ops : pc[o] # "idle" => fate[o] = "reply"
  /\ UNCHANGED vars

Await(o) == AwaitLocal(o) \/ Push(o)
Signalling(o) == Lock(o) \/ PrepSignal(o) \/ WriteSignal(o)
Loop == \/ ResumesNobody \/ ResumesWriter \/ ResumesReader \/ ResumesTicker
        \/ BatchDone \/ LockToSubmit \/ Submit \/ WaitReturns
Kernel == EventWritten \/ EventRead \/ Sent \/ Received \/ TimerFires

Next ==
  \/ \E o \in Ops : Await(o) \/ Signalling(o) \/ Spin(o)
  \/ Loop \/ Kernel
  \/ Finished

Spec == Init /\ [][Next]_vars

(***************************************************************************)
(* Fairness: threads run, the kernel completes what it can, the server     *)
(* answers.  A thread that spins gets a lock that is free again and again  *)
(* (strong fairness; test_and_set has no queue, but nobody is excluded for *)
(* ever on real hardware).                                                 *)
(***************************************************************************)
FairSpec ==
  /\ Spec
  /\ WF_vars(Loop) /\ SF_vars(LockToSubmit)
  /\ \A o \in Ops : SF_vars(Lock(o)) /\ WF_vars(PrepSignal(o))
                    /\ WF_vars(WriteSignal(o))
  /\ WF_vars(EventWritten) /\ WF_vars(EventRead) /\ WF_vars(Sent)
  /\ WF_vars(Received) /\ WF_vars(TimerFires)

(***************************************************************************)
(* Properties.                                                             *)
(***************************************************************************)

LoopOps == {"read", "writev", "recv", "timer"}

TypeOK ==
  /\ lock \in {"free", "loop"} \cup Foreign
  /\ sq \in Seq(LoopOps \cup {"signal"}) /\ Len(sq) <= SqEntries
  /\ inflight \subseteq LoopOps /\ signals \in 0..Cardinality(Ops)
  /\ cq \in Seq(LoopOps \cup {"signal"}) /\ event \in 0..Cardinality(Ops)
  /\ loop \in {"resume", "lock_submit", "submit", "lock_wait", "submit_wait",
               "wait"}
  /\ batch \in Seq(LoopOps \cup {"signal"}) /\ i \in 0..Len(batch)
  /\ queue \in Seq(Ops) /\ committed \in 0..Len(queue)
  /\ iov \in Seq(Ops) /\ srv \in Seq(Ops)
  /\ down \in BOOLEAN /\ ticking \in BOOLEAN
  /\ pc \in [Ops -> {"idle", "lock", "prep", "write", "suspended"}]
  /\ fate \in [Ops -> {"none", "reply"}]

\* Where the completion the writer is waiting for can be.
Has(s, op) == \E n \in DOMAIN s : s[n] = op
Reading == \/ "read" \in inflight \/ Has(sq, "read") \/ Has(cq, "read")
           \/ \E n \in (i + 1)..Len(batch) : batch[n] = "read"
Woken   == \/ Has(cq, "read")
           \/ \E n \in (i + 1)..Len(batch) : batch[n] = "read"
           \/ event > 0 \/ signals > 0 \/ Has(sq, "signal")
           \/ \E o \in Foreign : pc[o] \in {"lock", "prep", "write"}

\* While a command in the ring is not sent and the writer waits for the
\* eventfd, a wakeup is on its way, or a producer is about to send one.
WakeupOnItsWay == Reading /\ committed < Len(queue) => Woken

\* The reader, the writer and the ticker never have two operations going,
\* wherever the submissions and completions of the others are, and none is
\* without one: but for the ticker once its timer found the queue full, and
\* for the first of reader and writer that found it full (down) - the other
\* still has its own, which the race then has to cancel.
Going(op) ==
  Cardinality({n \in DOMAIN sq : sq[n] = op})
  + Cardinality({n \in DOMAIN cq : cq[n] = op})
  + Cardinality({n \in (i + 1)..Len(batch) : batch[n] = op})
  + (IF op \in inflight THEN 1 ELSE 0)
OneOperationEach ==
  LET reader == Going("recv")
      writer == Going("read") + Going("writev")
  IN  /\ reader \in 0..1 /\ writer \in 0..1
      /\ reader + writer = IF down THEN 1 ELSE 2
      /\ Going("timer") = IF ticking THEN 1 ELSE 0

\* A command pushed by a coroutine, on whatever thread, is answered.  Excepted
\* is a connection that fails because the reader or the writer found the
\* queue full, and a loop whose ticker has ended that way: it may then sleep
\* with the lock a producer spins for, as it may without a ticker (run
\* event_loop_asleep).
EveryCommandAnswered ==
  \A o \in Ops : pc[o] # "idle" ~>
    fate[o] = "reply" \/ down \/ (Ticker /\ ~ticking)
=============================================================================
