-------------------------------- MODULE Joins --------------------------------
(***************************************************************************)
(* Awaiters that start several branches and resume one coroutine:          *)
(* race(), any(), all() and allSettled() of include/xnet.hpp, each in its  *)
(* single-threaded and its multi-threaded form, and the awaiters of        *)
(* chained commands (one ring, push_n) and of clustered ones (one ring per *)
(* part) of include/RedisCommander.hpp.                                    *)
(*                                                                         *)
(* Every branch is a detached coroutine worker: it awaits its operation,   *)
(* stores the result, counts itself in `done`, cancels the others when it  *)
(* decides the outcome, and resumes the handler when it is the last.  The  *)
(* threads interleave at every access of `done`.  The resumed coroutine    *)
(* destroys the awaiter, which workers may then no longer touch.           *)
(***************************************************************************)
EXTENDS Integers, FiniteSets

CONSTANTS
  N,      \* sizeof...(Ops)
  Kinds,  \* the awaiters this instance is about
  Tasks,    \* branches whose cancel sticks before they start: coroutine tasks
            \* remember it, the awaiter of a plain operation does not
  Commands  \* branches awaiting replies of redis, which ignore cancel()

ASSUME NAssumption     == N \in Nat \ {0}
ASSUME KindsAssumption ==
  Kinds \subseteq {"race", "any", "all", "settled", "chain", "cluster"}

Branches == 1..N

ASSUME OpsAssumption == Tasks \cap Commands = {}

VARIABLES
  kind,      \* which awaiter this is
  threads,   \* its branches run on several threads
  started,   \* branches started, N + 1 when await_suspend has returned
  inline,    \* the last branch started runs inside the call that starts it
  pc,        \* where the worker of each branch is
  ok,        \* branches whose operation has succeeded
  done, seen,      \* the counter, and what a branch has read of it
  need, last,      \* need_cancel, need_resume
  target,    \* what cancel_except comes to next
  stored, idx,     \* results stored, and the winner (0 is -1 in the code)
  asked, lost,     \* operations, until they end: cancelled, missed by a cancel
  resumed,   \* how often the awaiting coroutine went on
  \* History: read by properties alone.
  counted,   \* branches that have counted themselves
  first,     \* the first of them, in a race
  early,     \* a worker was the last before await_suspend looked at done
  late       \* an operation was cancelled after the coroutine had gone on

flow    == <<pc, ok, last, need, target>>
result  == <<stored, idx>>
history == <<counted, first, early, late>>
vars == <<kind, threads, started, inline, flow, done, seen, result, asked,
          lost, resumed, history>>

\* Outcomes the awaiter tells apart.
Outcomes == IF kind \in {"any", "all"} THEN BOOLEAN ELSE {TRUE}

Spawn   == {"race", "any", "all", "settled"}
OneWins == {"race", "any"}

Init ==
  /\ kind \in Kinds /\ threads \in BOOLEAN
  /\ started = 0 /\ inline = FALSE
  /\ pc = [b \in Branches |-> "wait"] /\ ok = {} /\ done = 0
  /\ seen = [b \in Branches |-> 0] /\ need = {} /\ last = {}
  /\ target = [b \in Branches |-> 1]
  /\ stored = {} /\ idx = 0 /\ asked = {} /\ lost = {} /\ resumed = 0
  /\ counted = {} /\ first = 0
  /\ early = FALSE /\ late = FALSE

(***************************************************************************)
(* The counter.  With threads race and any count in twos, and the winner   *)
(* takes one back once its result is in place.                             *)
(***************************************************************************)

Unit == IF threads /\ kind \in OneWins THEN 2 ELSE 1
Abs(i) == IF i < 0 THEN -i ELSE i

\* The counter after a branch with outcome good has counted itself from s.
RaceNext(s)      == s + Unit
AnyNext(s, good) == IF s > 0 THEN s + Unit ELSE IF good THEN Unit - s ELSE s - Unit
AllNext(s, good) == IF s < 0 THEN s - 1 ELSE IF good THEN s + 1 ELSE -(s + 1)

NextDone(s, good) ==
  CASE kind = "any" -> AnyNext(s, good)
    [] kind = "all" -> AllNext(s, good)
    [] OTHER        -> RaceNext(s)

\* Mutant: a success after failures does not win.
Decides_FirstOnly(s, good) ==
  \/ kind = "race" /\ s = 0
  \/ kind = "any"  /\ s = 0 /\ good
  \/ kind = "all"  /\ s >= 0 /\ ~good

\* The branch that decides the outcome: the first (race), the first success
\* (any), the first failure (all).
Decides(s, good) ==
  \/ kind = "race" /\ s = 0
  \/ kind = "any"  /\ s <= 0 /\ good
  \/ kind = "all"  /\ s >= 0 /\ ~good

\* Mutant: at least, instead of exactly, the final value.
Completes_AtLeast(v) ==
  IF Unit = 2 THEN v >= 2 * N - 1 \/ -v = 2 * N ELSE Abs(v) = N

\* The value that makes the branch that reached it resume the coroutine.
Completes(v) ==
  IF Unit = 2
  THEN v = 2 * N - 1 \/ (kind = "any" /\ -v = 2 * N)
  ELSE Abs(v) = N

(***************************************************************************)
(* Starting the branches: await_suspend.                                   *)
(***************************************************************************)

Working == {"store", "load", "cas", "count", "publish", "release", "cancel", "resume"}

\* One thread: nothing else runs while the starter or a worker does.
Quiet == threads \/ (started = N + 1 /\ \A b \in Branches : pc[b] \notin Working)

StarterFree == inline => pc[started] \notin Working

Entry == IF kind \in OneWins THEN (IF kind = "any" THEN "load" ELSE "count")
         ELSE "store"

\* await_suspend returns false before anything is started (the coroutine is
\* cancelled, the ring refuses the batch), or await_ready says CROSSSLOT.
Refuse ==
  /\ started = 0
  /\ started' = N + 1 /\ resumed' = resumed + 1
  /\ UNCHANGED <<kind, threads, inline, flow, done, seen, result, asked, lost,
                 history>>

\* start_all_tasks: worker<b> runs up to its first suspension.
StartBranch ==
  /\ kind \in Spawn /\ started < N /\ StarterFree
  /\ started' = started + 1
  /\ inline' = FALSE
  /\ pc' = [pc EXCEPT ![started + 1] = "run"]
  /\ UNCHANGED <<kind, threads, ok, last, need, target, done, seen, result,
                 asked, lost, resumed, history>>

\* The operation of b has ended; what became of its cancel matters no more.
Over(b) == asked' = asked \ {b} /\ lost' = lost \ {b}

\* The operation of b completes without suspending: b goes on at once.
StartInline(good) ==
  /\ kind \in Spawn /\ started < N /\ StarterFree
  /\ started' = started + 1
  /\ inline' = TRUE
  /\ pc' = [pc EXCEPT ![started + 1] = Entry]
  /\ ok' = IF good THEN ok \cup {started + 1} ELSE ok
  /\ Over(started + 1)
  /\ UNCHANGED <<kind, threads, last, need, target, done, seen, result, resumed,
                 history>>

\* push_n: every part waits in one ring.
PushBatch ==
  /\ kind = "chain" /\ started = 0
  /\ started' = N
  /\ pc' = [b \in Branches |-> "run"]
  /\ UNCHANGED <<kind, threads, inline, ok, last, need, target, done, seen,
                 result, asked, lost, resumed, history>>

\* push_pipe: the part waits in the ring of its shard, or has an error as its
\* result and counts as done.
PushPart ==
  /\ kind = "cluster" /\ started < N
  /\ started' = started + 1
  /\ pc' = [pc EXCEPT ![started + 1] = "run"]
  /\ UNCHANGED <<kind, threads, inline, ok, last, need, target, done, seen,
                 result, asked, lost, resumed, history>>

PushRefused ==
  /\ kind = "cluster" /\ started < N
  /\ started' = started + 1
  /\ pc' = [pc EXCEPT ![started + 1] = "end"]
  /\ stored' = stored \cup {started + 1}
  /\ done' = done + 1
  /\ counted' = counted \cup {started + 1}
  /\ UNCHANGED <<kind, threads, inline, ok, last, need, target, seen, idx,
                 asked, lost, resumed, first, early, late>>

\* Mutant: await_suspend always returns true.
Return_True ==
  /\ started = N /\ StarterFree
  /\ started' = N + 1
  /\ UNCHANGED <<kind, threads, inline, flow, done, seen, result, asked, lost,
                 resumed, history>>

\* await_suspend returns: false when every part of a clustered operation is
\* done already.
Return ==
  /\ started = N /\ StarterFree
  /\ started' = N + 1
  /\ resumed' = IF kind = "cluster" /\ done = N THEN resumed + 1 ELSE resumed
  /\ UNCHANGED <<kind, threads, inline, flow, done, seen, result, asked, lost,
                 history>>

(***************************************************************************)
(* The workers.                                                            *)
(***************************************************************************)

\* The operation of b completes: a reply, an error, or its cancellation.
Finish(b, good) ==
  /\ pc[b] = "run" /\ Quiet
  /\ pc' = [pc EXCEPT ![b] = Entry]
  /\ ok' = IF good THEN ok \cup {b} ELSE ok
  /\ Over(b)
  /\ UNCHANGED <<kind, threads, started, inline, last, need, target, done,
                 seen, result, resumed, history>>

Store(b) ==
  /\ pc[b] = "store"
  /\ stored' = stored \cup {b}
  /\ pc' = [pc EXCEPT ![b] = IF kind = "all" THEN "load" ELSE "count"]
  /\ UNCHANGED <<kind, threads, started, inline, ok, last, need, target, done,
                 seen, idx, asked, lost, resumed, history>>

\* Where a branch that has moved the counter from s to v goes.
AfterCount(b, wins, full) ==
  CASE wins /\ kind \in OneWins -> "publish"
    [] wins /\ kind \notin OneWins -> "cancel"
    [] ~wins /\ full -> "resume"
    [] OTHER -> "end"

CountAs(b, s, wins) ==
  LET v    == NextDone(s, b \in ok)
      full == Completes(v)
      to   == AfterCount(b, wins, full)
  IN /\ done' = v
     /\ pc' = [pc EXCEPT ![b] = to]
     /\ seen' = [seen EXCEPT ![b] = 0] /\ need' = need \ {b}
     /\ last' = IF full THEN last \cup {b} ELSE last
     /\ counted' = counted \cup {b}
     /\ first' = IF kind = "race" /\ counted = {} THEN b ELSE first

\* fetch_add.
Count(b) ==
  /\ pc[b] = "count"
  /\ CountAs(b, done, Decides(done, b \in ok))
  /\ early' = (early \/ (kind = "cluster" /\ started # N + 1 /\ done + 1 = N))
  /\ UNCHANGED <<kind, threads, started, inline, ok, target, result, asked,
                 lost, resumed, late>>

Load(b) ==
  /\ pc[b] = "load"
  /\ seen' = [seen EXCEPT ![b] = done]
  /\ pc' = [pc EXCEPT ![b] = "cas"]
  /\ UNCHANGED <<kind, threads, started, inline, ok, last, need, target, done,
                 result, asked, lost, resumed, history>>

\* need_cancel: any() clears it before every attempt, all() never does.
Needs(b) ==
  \/ Decides(seen[b], b \in ok)
  \/ kind = "all" /\ b \in need

CasSucceeds(b) ==
  /\ pc[b] = "cas" /\ done = seen[b]
  /\ CountAs(b, seen[b], Needs(b))
  /\ UNCHANGED <<kind, threads, started, inline, ok, target, result, asked,
                 lost, resumed, early, late>>

CasFails(b) ==
  /\ pc[b] = "cas" /\ done # seen[b]
  /\ seen' = [seen EXCEPT ![b] = done]
  /\ need' = IF Needs(b) THEN need \cup {b} ELSE need \ {b}
  /\ UNCHANGED <<kind, threads, started, inline, pc, ok, last, target, done,
                 result, asked, lost, resumed, history>>

\* The winner of race and any stores its result; on one thread the counter
\* needs no second step.
Publish(b) ==
  /\ pc[b] = "publish"
  /\ stored' = stored \cup {b} /\ idx' = b
  /\ pc' = [pc EXCEPT ![b] = IF threads THEN "release" ELSE "cancel"]
  /\ UNCHANGED <<kind, threads, started, inline, ok, last, need, target, done,
                 seen, asked, lost, resumed, counted, first, early, late>>

\* fetch_sub: if all the others have counted already, they left it to the
\* winner to resume the coroutine.
Release(b) ==
  /\ pc[b] = "release"
  /\ done' = done - 1
  /\ IF done = 2 * N
     THEN pc' = [pc EXCEPT ![b] = "resume"]
     ELSE pc' = [pc EXCEPT ![b] = "cancel"]
  /\ UNCHANGED <<kind, threads, started, inline, ok, last, need, target, seen,
                 result, asked, lost, resumed, counted, first, early,
                 late>>

\* A task that has not begun keeps a cancel and is refused its first operation.
Remembers(t) == pc[t] = "wait" /\ t \in Tasks

\* A cancel may end a running operation of the io_context, never a command.
Reached(t) == pc[t] = "run" /\ t \notin Commands

\* cancel() of each operation of ts.  One that is reached is missed all the
\* same when the submission queue has no entry for the request, or when its
\* awaiter has its handler but the entry of the operation is not prepared yet;
\* nobody looks at what cancel() returns, and nothing tries again.
Ask(ts) ==
  \E missed \in SUBSET {t \in ts : Reached(t)} :
    /\ asked' = asked \cup {t \in ts \ missed : Remembers(t) \/ Reached(t)}
    /\ lost'  = (lost \cup missed
                  \cup {t \in ts : pc[t] \in {"wait", "run"}
                                   /\ ~Remembers(t) /\ ~Reached(t)}) \ asked'

\* Mutant: the coroutine goes on before the others are cancelled.
CancelNext_ResumesFirst(b) ==
  /\ pc[b] = "cancel" /\ target[b] \in Branches
  /\ target' = [target EXCEPT ![b] = @ + 1]
  /\ Ask({target[b]} \ {b})
  /\ resumed' = IF b \in last /\ target[b] = 1 THEN resumed + 1 ELSE resumed
  /\ late' = (late \/ resumed > 0)
  /\ UNCHANGED <<kind, threads, started, inline, pc, ok, last, need, done, seen,
                 result, counted, first, early>>

\* Mutant: one operation more than there are.
CancelNext_PastEnd(b) ==
  /\ pc[b] = "cancel" /\ target[b] <= N + 1
  /\ target' = [target EXCEPT ![b] = @ + 1]
  /\ Ask({target[b]} \cap (Branches \ {b}))
  /\ late' = (late \/ resumed > 0)
  /\ UNCHANGED <<kind, threads, started, inline, pc, ok, last, need, done, seen,
                 result, resumed, counted, first, early>>

\* Mutant: the first operation is passed over.
CancelNext_FromSecond(b) ==
  /\ pc[b] = "cancel" /\ target[b] \in Branches
  /\ target' = [target EXCEPT ![b] = @ + 1]
  /\ Ask({target[b]} \ {b, 1})
  /\ late' = (late \/ resumed > 0)
  /\ UNCHANGED <<kind, threads, started, inline, pc, ok, last, need, done, seen,
                 result, resumed, counted, first, early>>

\* cancel_except<b>, one operation after the other.
CancelNext(b) ==
  /\ pc[b] = "cancel" /\ target[b] \in Branches
  /\ target' = [target EXCEPT ![b] = @ + 1]
  /\ Ask({target[b]} \ {b})
  /\ late' = (late \/ resumed > 0)
  /\ UNCHANGED <<kind, threads, started, inline, pc, ok, last, need, done, seen,
                 result, resumed, counted, first, early>>

CancelDone(b) ==
  /\ pc[b] = "cancel" /\ target[b] = N + 1
  /\ pc' = [pc EXCEPT ![b] = IF b \in last THEN "resume" ELSE "end"]
  /\ target' = [target EXCEPT ![b] = 1]
  /\ UNCHANGED <<kind, threads, started, inline, ok, last, need, done, seen,
                 result, asked, lost, resumed, history>>

\* handler.resume().
Resume(b) ==
  /\ pc[b] = "resume"
  /\ resumed' = resumed + 1
  /\ pc' = [pc EXCEPT ![b] = "end"]
  /\ UNCHANGED <<kind, threads, started, inline, ok, last, need, target, done,
                 seen, result, asked, lost, history>>

\* cancel() of the awaiter itself, by whoever cancels the coroutine.
CancelAll ==
  /\ kind \in Spawn /\ resumed = 0 /\ Quiet
  /\ \E b \in Branches : pc[b] = "run"
  /\ Ask(Branches)
  /\ UNCHANGED <<kind, threads, started, inline, flow, done, seen, result,
                 resumed, history>>

Starter == Refuse \/ StartBranch \/ PushBatch \/ PushPart \/ PushRefused \/ Return
           \/ \E good \in Outcomes : StartInline(good)

Work(b) ==
  \/ Store(b) \/ Count(b) \/ Load(b) \/ CasSucceeds(b) \/ CasFails(b)
  \/ Publish(b) \/ Release(b) \/ CancelNext(b) \/ CancelDone(b) \/ Resume(b)

Next ==
  \/ Starter \/ CancelAll
  \/ \E b \in Branches : Work(b) \/ \E good \in Outcomes : Finish(b, good)

Spec == Init /\ [][Next]_vars

\* Threads that run workers go on; the starter starts what it has begun to
\* start; an operation ends for certain only when it has been cancelled.
Fairness ==
  /\ WF_vars(Starter)
  /\ \A b \in Branches :
       /\ WF_vars(Work(b))
       /\ WF_vars(b \in asked /\ \E good \in Outcomes : Finish(b, good))

FairSpec == Spec /\ Fairness

(***************************************************************************)
(* Properties.                                                             *)
(***************************************************************************)

\* Every variable has its type; the index of the winner and of the operation to
\* cancel next never leave the tuple of awaiters.
TypeOK ==
  /\ kind \in Kinds /\ threads \in BOOLEAN /\ inline \in BOOLEAN
  /\ started \in 0..(N + 1)
  /\ pc \in [Branches -> Working \cup {"wait", "run", "end"}]
  /\ done \in Int /\ seen \in [Branches -> Int]
  /\ ok \subseteq Branches /\ need \subseteq Branches /\ last \subseteq Branches
  /\ target \in [Branches -> 1..(N + 1)]
  /\ stored \subseteq Branches /\ idx \in 0..N
  /\ asked \subseteq Branches /\ lost \subseteq Branches
  /\ resumed \in Nat
  /\ counted \subseteq Branches /\ first \in 0..N
  /\ early \in BOOLEAN /\ late \in BOOLEAN

Begun == counted # {} \/ started \in 1..N

\* The awaiting coroutine goes on at most once, whoever finishes last, and not
\* before every branch has counted itself.  Not so when a clustered operation
\* is resumed by a connection's thread before await_suspend has looked at
\* `done`: it then goes on twice.
ResumedOnce ==
  ~early => /\ resumed <= 1
            /\ resumed = 1 /\ Begun => counted = Branches

\* Once the coroutine has gone on, no worker is still about to store, count,
\* publish or resume in the awaiter it destroys; with threads the one that
\* cancels may be (late), on one thread nobody is.  Early as above.
LetGo ==
  resumed > 0 /\ ~early =>
    /\ \A b \in Branches : pc[b] \in {"wait", "end"} \/ (threads /\ pc[b] = "cancel")
    /\ late => threads

\* The outcome the coroutine finds: race gives the first that counted; any a
\* success if there was one, and its own result; all and the others every
\* result, and all a negative counter exactly if a branch has failed.
Verdict ==
  resumed > 0 /\ Begun =>
    CASE kind = "race" -> idx = first /\ stored = {idx}
      [] kind = "any"  -> /\ idx \in ok <=> ok # {}
                          /\ stored = (IF idx = 0 THEN {} ELSE {idx})
      [] kind = "all"  -> stored = Branches /\ (done < 0 <=> ok # Branches)
      [] OTHER         -> stored = Branches

Decided ==
  \/ kind = "race" /\ counted # {}
  \/ kind = "any"  /\ counted \cap ok # {}
  \/ kind = "all"  /\ counted \ ok # {}

AllFinished == \A b \in Branches : pc[b] \notin {"wait", "run"}

\* A decided race, any or all ends: the other branches are cancelled and the
\* coroutine resumed, unless a branch that its cancel has missed goes on for
\* ever: a command, a plain operation not yet started, or an operation whose
\* cancel was dropped, on a full submission queue or before the operation was
\* prepared.  Such a race waits for that branch.  And when every operation has
\* completed, the coroutine goes on.
Settles ==
  /\ Decided ~> (resumed > 0 \/ [](\E b \in lost : pc[b] = "run"))
  /\ AllFinished ~> resumed > 0
=============================================================================
