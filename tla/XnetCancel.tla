----------------------------- MODULE XnetCancel -----------------------------
(***************************************************************************)
(* Cancellation of coroutine tasks in include/xnet.hpp.                    *)
(*                                                                         *)
(* A task that awaits another one is its parent; the tasks from the fired  *)
(* one (root) down to the one that runs form a stack and share a           *)
(* CancelChain: a spinlock and a handle to the operation they wait for.    *)
(* Each promise has two bits, 0b10 (hooked: an operation is outstanding    *)
(* below) and 0b01 (marked: cancelled, for good).  Awaiting an operation   *)
(* hooks every task of the stack, from the innermost to the root, under    *)
(* the lock; its completion unhooks them without it.  A canceller marks    *)
(* one task and, if it was hooked, cancels the operation under the lock.   *)
(*                                                                         *)
(* The tasks run on the loop's thread, cancellers on others.  The kernel,  *)
(* which completes operations, is external.                                *)
(***************************************************************************)
EXTENDS Integers, Sequences, FiniteSets

CONSTANTS
  Root,        \* the task that was fired
  Children,    \* tasks that may be awaited below it, each once
  Cancellers,  \* callers of CancelToken::cancel(), each once
  MaxOps,      \* operations awaited (bound)
  NoOne        \* nobody has the lock

ASSUME TasksAssumption  == Root \notin Children
ASSUME OpsAssumption    == MaxOps \in Nat \ {0}
ASSUME NoOneAssumption  == NoOne \notin Cancellers \cup {"loop"} /\ "loop" \notin Cancellers

Tasks == {Root} \cup Children
Ops   == 1..MaxOps

VARIABLES
  stack, used,    \* tasks from the root to the running one; tasks ever started
  marked, hooked, \* shared_cancel_chain::state, bits 0b01 and 0b10
  chain,          \* the root has its CancelChain
  lock, handle,   \* CancelChain: spinlock, and whose awaiter cancelhandle is
  op, phase, at,  \* the operation awaited last, where it is, and in the stack
  cpc, target,    \* where each canceller is, and the task it cancels
  asked,          \* operations the kernel has been asked to cancel
  \* History: read by properties alone.
  lost,           \* operations whose cancel had no effect
  leaked,         \* an operation failed with EAGAIN and left its hook bits
  wrongly,        \* an operation was refused although nobody cancelled it
  dangling        \* cancel() was called on an awaiter that is gone

bits      == <<marked, hooked>>
coroutine == <<stack, used, chain, op, phase, at>>
cancel    == <<cpc, target>>
history   == <<lost, leaked, wrongly, dangling>>
vars == <<coroutine, bits, lock, handle, cancel, asked, history>>

Path == {stack[i] : i \in 1..Len(stack)}
Top  == stack[Len(stack)]

Init ==
  /\ stack = <<Root>> /\ used = {Root}
  /\ marked = {} /\ hooked = {} /\ chain = FALSE
  /\ lock = NoOne /\ handle = 0
  /\ op = 0 /\ phase = "run" /\ at = 0
  /\ cpc = [c \in Cancellers |-> "idle"] /\ target = [c \in Cancellers |-> Root]
  /\ asked = {} /\ lost = {} /\ leaked = FALSE /\ wrongly = FALSE /\ dangling = FALSE

(***************************************************************************)
(* The running task.                                                       *)
(***************************************************************************)

\* co_await of a task: task::await_suspend links the promises.
Call(t) ==
  /\ phase = "run" /\ t \in Children \ used
  /\ stack' = Append(stack, t) /\ used' = used \cup {t}
  /\ chain' = TRUE
  /\ UNCHANGED <<bits, lock, handle, op, phase, at, cancel, asked, history>>

\* Mutant: the root returns as if somebody awaited it.
Return_Root ==
  /\ phase = "run" /\ Len(stack) > 0
  /\ stack' = SubSeq(stack, 1, Len(stack) - 1)
  /\ UNCHANGED <<used, chain, bits, lock, handle, op, phase, at, cancel, asked,
                 history>>

\* It ends and its caller goes on.
Return ==
  /\ phase = "run" /\ Len(stack) > 1
  /\ stack' = SubSeq(stack, 1, Len(stack) - 1)
  /\ UNCHANGED <<used, chain, bits, lock, handle, op, phase, at, cancel, asked,
                 history>>

\* co_await of an operation.  xcoro_hook makes the root's chain and stores the
\* handle in it without a lock, or takes the lock of the chain there is.
Issue ==
  /\ phase = "run" /\ op < MaxOps
  /\ op' = op + 1 /\ at' = Len(stack)
  /\ IF chain THEN phase' = "lock" /\ UNCHANGED <<chain, handle>>
     ELSE phase' = "hook" /\ chain' = TRUE /\ handle' = op + 1
  /\ UNCHANGED <<stack, used, bits, lock, cancel, asked, history>>

HookLock ==
  /\ phase = "lock" /\ lock = NoOne
  /\ lock' = "loop" /\ handle' = op
  /\ phase' = "hook"
  /\ UNCHANGED <<stack, used, chain, op, at, bits, cancel, asked, history>>

Unlocked == IF lock = "loop" THEN NoOne ELSE lock

\* Mutant: the hook sets its bit in a task that is already cancelled.
HookNext_Marked ==
  /\ phase = "hook" /\ stack[at] \notin hooked
  /\ hooked' = hooked \cup {stack[at]}
  /\ IF at > 1 THEN at' = at - 1 /\ UNCHANGED <<phase, lock>>
     ELSE at' = 0 /\ phase' = "prep" /\ lock' = Unlocked
  /\ UNCHANGED <<stack, used, chain, op, marked, handle, cancel, asked, history>>

\* Compare-exchange of one task's state from 0b00 to 0b10; after the root's the
\* lock is released.
HookNext ==
  /\ phase = "hook" /\ stack[at] \notin marked \cup hooked
  /\ hooked' = hooked \cup {stack[at]}
  /\ IF at > 1 THEN at' = at - 1 /\ UNCHANGED <<phase, lock>>
     ELSE at' = 0 /\ phase' = "prep" /\ lock' = Unlocked
  /\ UNCHANGED <<stack, used, chain, op, marked, handle, cancel, asked, history>>

\* Mutant: the bits set so far stay.
HookFails_NoUndo ==
  /\ phase = "hook" /\ stack[at] \in marked \cup hooked
  /\ phase' = "run" /\ at' = 0 /\ lock' = Unlocked
  /\ wrongly' = (wrongly \/ Path \cap marked = {})
  /\ UNCHANGED <<stack, used, chain, op, bits, handle, cancel, asked, lost,
                 leaked, dangling>>

\* It fails: the bits set so far are cleared, the lock is released, and the
\* operation ends at once with ECANCELED.
HookFails ==
  /\ phase = "hook" /\ stack[at] \in marked \cup hooked
  /\ hooked' = hooked \ {stack[i] : i \in (at + 1)..Len(stack)}
  /\ phase' = "run" /\ at' = 0 /\ lock' = Unlocked
  /\ wrongly' = (wrongly \/ Path \cap marked = {})
  /\ UNCHANGED <<stack, used, chain, op, marked, handle, cancel, asked, lost,
                 leaked, dangling>>

Prep ==
  /\ phase = "prep"
  /\ phase' = "pending"
  /\ UNCHANGED <<stack, used, chain, op, at, bits, lock, handle, cancel, asked,
                 history>>

\* No room in the submission queue: EAGAIN.  The awaiter forgets its handler,
\* so Wrapper::await_resume does not unhook.
PrepFails ==
  /\ phase = "prep"
  /\ phase' = "run"
  /\ leaked' = TRUE
  /\ UNCHANGED <<stack, used, chain, op, at, bits, lock, handle, cancel, asked,
                 lost, wrongly, dangling>>

\* The kernel completes the operation, by itself or because it was asked to.
Completes ==
  /\ phase = "pending"
  /\ phase' = "unhook" /\ at' = Len(stack)
  /\ UNCHANGED <<stack, used, chain, op, bits, lock, handle, cancel, asked,
                 history>>

\* Mutant: only the innermost task is unhooked.
Unhook_Self ==
  /\ phase = "unhook"
  /\ hooked' = hooked \ {Top}
  /\ at' = 0 /\ phase' = "run"
  /\ UNCHANGED <<stack, used, chain, op, marked, lock, handle, cancel, asked,
                 history>>

\* Wrapper::await_resume: xcoro_unhook clears bit after bit, without the lock.
Unhook ==
  /\ phase = "unhook"
  /\ hooked' = hooked \ {stack[at]}
  /\ at' = at - 1
  /\ phase' = IF at = 1 THEN "run" ELSE phase
  /\ UNCHANGED <<stack, used, chain, op, marked, lock, handle, cancel, asked,
                 history>>

(***************************************************************************)
(* CancelToken::cancel(): request_cancel.                                  *)
(***************************************************************************)

\* Mutant: a task that is hooked is marked and nothing else.
Mark_Only(c, t) ==
  /\ cpc[c] = "idle"
  /\ marked' = marked \cup {t}
  /\ target' = [target EXCEPT ![c] = t]
  /\ cpc' = [cpc EXCEPT ![c] = "end"]
  /\ UNCHANGED <<coroutine, hooked, lock, handle, asked, history>>

\* Compare-exchange of the marked bit into the state.
Mark(c, t) ==
  /\ cpc[c] = "idle"
  /\ marked' = marked \cup {t}
  /\ target' = [target EXCEPT ![c] = t]
  /\ cpc' = [cpc EXCEPT ![c] = IF t \notin marked /\ t \in hooked THEN "lock" ELSE "end"]
  /\ UNCHANGED <<coroutine, hooked, lock, handle, asked, history>>

\* Mutant: the operation of the chain is cancelled without a second look.
CancelLock_NoCheck(c) ==
  /\ cpc[c] = "lock" /\ lock = NoOne
  /\ lock' = c
  /\ cpc' = [cpc EXCEPT ![c] = "call"]
  /\ UNCHANGED <<coroutine, bits, handle, target, asked, history>>

CancelLock(c) ==
  /\ cpc[c] = "lock" /\ lock = NoOne
  /\ lock' = c
  /\ cpc' = [cpc EXCEPT ![c] = "check"]
  /\ UNCHANGED <<coroutine, bits, handle, target, asked, history>>

\* "check one more time if hook failed or unhook"
Check(c) ==
  /\ cpc[c] = "check"
  /\ IF target[c] \in hooked
     THEN cpc' = [cpc EXCEPT ![c] = "call"] /\ UNCHANGED lock
     ELSE cpc' = [cpc EXCEPT ![c] = "end"] /\ lock' = NoOne
  /\ UNCHANGED <<coroutine, bits, handle, target, asked, history>>

\* The awaiter exists from the hook to the end of await_resume.
AwaiterExists == handle = op /\ phase \in {"prep", "pending", "unhook"}

\* IOAwaiter::cancel through the handle, then unlock.  A cancel request finds
\* an operation only after it was submitted and before it completed, and only
\* if the submission queue has room.
CallCancel(c, room) ==
  /\ cpc[c] = "call"
  /\ LET effective == AwaiterExists /\ phase = "pending" /\ room
     IN /\ asked' = IF effective THEN asked \cup {op} ELSE asked
        /\ lost'  = IF AwaiterExists /\ ~effective THEN lost \cup {op} ELSE lost
        /\ dangling' = (dangling \/ ~AwaiterExists)
  /\ lock' = NoOne
  /\ cpc' = [cpc EXCEPT ![c] = "end"]
  /\ UNCHANGED <<coroutine, bits, handle, target, leaked, wrongly>>

Coroutine ==
  \/ \E t \in Children : Call(t)
  \/ Return \/ Issue \/ HookLock \/ HookNext \/ HookFails
  \/ Prep \/ PrepFails \/ Completes \/ Unhook

Cancel(c) ==
  \/ CancelLock(c) \/ Check(c)
  \/ \E room \in BOOLEAN : CallCancel(c, room)

Next ==
  \/ Coroutine
  \/ \E c \in Cancellers : Cancel(c) \/ \E t \in Tasks : Mark(c, t)

Spec == Init /\ [][Next]_vars

\* Both threads go on inside what they have begun; whether tasks and cancels
\* begin, and whether an operation ends that nobody cancels, is open.
Fairness ==
  /\ WF_vars(HookLock \/ HookNext \/ HookFails \/ Prep \/ PrepFails \/ Unhook)
  /\ WF_vars(op \in asked /\ Completes)
  /\ \A c \in Cancellers : WF_vars(Cancel(c))

FairSpec == Spec /\ Fairness

(***************************************************************************)
(* Properties.                                                             *)
(***************************************************************************)

Phases == {"run", "lock", "hook", "prep", "pending", "unhook"}

\* Every variable has its type; at stays within the stack, and the root stays on it.
TypeOK ==
  /\ stack \in Seq(Tasks) /\ stack # <<>> /\ used \subseteq Tasks
  /\ marked \subseteq Tasks /\ hooked \subseteq Tasks /\ chain \in BOOLEAN
  /\ lock \in Cancellers \cup {"loop", NoOne}
  /\ handle \in 0..MaxOps /\ op \in 0..MaxOps
  /\ phase \in Phases /\ at \in 0..Len(stack)
  /\ cpc \in [Cancellers -> {"idle", "lock", "check", "call", "end"}]
  /\ target \in [Cancellers -> Tasks]
  /\ asked \subseteq Ops /\ lost \subseteq Ops
  /\ leaked \in BOOLEAN /\ wrongly \in BOOLEAN /\ dangling \in BOOLEAN

\* The chain's lock belongs to the loop while it hooks, or to the one canceller
\* inside request_cancel's critical section.
LockHolder ==
  /\ \A c \in Cancellers : cpc[c] \in {"check", "call"} <=> lock = c
  /\ lock = "loop" => phase = "hook"

\* The bits say what is outstanding: between operations no task is hooked, and
\* while one is outstanding exactly the tasks that wait for it are.  Not so
\* after an EAGAIN, whose bits stay.
HookedIsPath ==
  ~leaked =>
    hooked = CASE phase \in {"run", "lock"}     -> {}
               [] phase \in {"prep", "pending"} -> Path
               [] phase = "hook"   -> {stack[i] : i \in (at + 1)..Len(stack)}
               [] phase = "unhook" -> {stack[i] : i \in 1..at}

\* Nobody is missed: if a task is cancelled while an operation is outstanding
\* for it, however mark and hook interleave, the kernel has been asked, or a
\* canceller is on its way, or its request came too early or found no room.
NobodyMissed ==
  phase \in {"prep", "pending"} /\ Path \cap marked # {} =>
    \/ op \in asked \cup lost
    \/ \E c \in Cancellers : target[c] \in Path /\ cpc[c] \in {"lock", "check", "call"}

\* A cancel is sticky: no operation begins below a marked task, except under
\* the eyes of the canceller that marked it meanwhile and waits for the lock.
Sticky ==
  [][phase = "hook" /\ phase' = "prep" =>
       \A t \in Path \cap marked :
         \E c \in Cancellers : target[c] = t /\ cpc[c] = "lock"]_vars

\* A canceller never hits an operation that its task does not wait for, such as
\* the next one of the caller its task has returned to.
CancelsItsOwn ==
  [][\A c \in Cancellers :
       cpc[c] = "call" /\ cpc'[c] = "end" /\ asked' # asked => target[c] \in Path]_vars

\* An operation is refused only if one of the tasks that wait for it has been
\* cancelled, or an EAGAIN has left its bits.
RefusedForCause == wrongly => leaked

\* An operation is never refused as cancelled unless somebody asked for it.
RefusedOnlyIfCancelled == ~wrongly

\* The cancelled operation ends, unless its cancel had no effect.
CancelledEnds ==
  \A o \in Ops :
    (op = o /\ phase = "pending" /\ Path \cap marked # {})
      ~> (op # o \/ phase # "pending" \/ o \in lost)
=============================================================================
