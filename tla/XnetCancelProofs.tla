-------------------------- MODULE XnetCancelProofs --------------------------
(***************************************************************************)
(* The safety of XnetCancel for any number of tasks, cancellers and        *)
(* operations.  The inductive invariant says what the lock protects: a     *)
(* task of the stack that is marked while the stack is being hooked has a  *)
(* canceller that waits for the lock (Watched), and one about to call      *)
(* cancel() finds an operation of its own task (OwnOperation).             *)
(***************************************************************************)
EXTENDS XnetCancel, TLAPS

AtWork(c) == cpc[c] \in {"lock", "check", "call"}

NobodyAtWork == \A c \in Cancellers : ~AtWork(c)

\* The stack: the root at its bottom, no task twice, and at points into it.
StackInv ==
  /\ Len(stack) \in Nat \ {0} /\ stack[1] = Root
  /\ \A i, j \in 1..Len(stack) : stack[i] = stack[j] => i = j
  /\ \A i \in 1..Len(stack) : stack[i] \in used
  /\ phase \in {"lock", "hook", "unhook"} => at \in 1..Len(stack)
  /\ phase = "lock" => at = Len(stack)

\* Nothing is being hooked or unhooked while a task runs.
IdleAt == phase \in {"run", "prep", "pending"} => at = 0

\* The handle is the outstanding operation's, and outside of run there is one.
HandleInv ==
  /\ phase \in {"hook", "prep", "pending", "unhook"} => handle = op
  /\ phase # "run" => op \in Ops

\* The first operation of a lone root is hooked without the lock, when nobody
\* can want it.
FirstInv ==
  /\ ~chain => phase = "run"
  /\ ~chain \/ (phase = "hook" /\ lock # "loop") =>
       Len(stack) = 1 /\ hooked = {} /\ NobodyAtWork

\* After an EAGAIN the root stays hooked and no operation gets past it.
LeakInv == leaked => Root \in hooked /\ phase \in {"run", "lock", "hook"}

\* While the stack is hooked, a task marked after its own turn has a canceller
\* that waits for the lock.
Watched ==
  phase = "hook" => \A i \in (at + 1)..Len(stack) :
    /\ stack[i] \in hooked
    /\ stack[i] \in marked =>
         \E c \in Cancellers : target[c] = stack[i] /\ cpc[c] = "lock"

\* Who is about to call cancel() has a task that waits for the operation.
OwnOperation ==
  \A c \in Cancellers : cpc[c] = "call" /\ phase \in {"prep", "pending"} => target[c] \in Path

IInv ==
  /\ TypeOK /\ LockHolder /\ IdleAt /\ StackInv /\ HandleInv /\ FirstInv /\ LeakInv
  /\ HookedIsPath /\ Watched /\ OwnOperation /\ NobodyMissed /\ RefusedForCause
(***************************************************************************)
(* Sequences.                                                              *)
(***************************************************************************)

\* Append adds one element at the end and leaves the others.
LEMMA AppendElements ==
  ASSUME NEW S, NEW s \in Seq(S), NEW t \in S
  PROVE  /\ Append(s, t) \in Seq(S) /\ Len(Append(s, t)) = Len(s) + 1
         /\ \A i \in 1..Len(s) : Append(s, t)[i] = s[i]
         /\ Append(s, t)[Len(s) + 1] = t
OBVIOUS

\* A prefix has the same elements as far as it goes.
LEMMA PrefixElements ==
  ASSUME NEW S, NEW s \in Seq(S), NEW n \in 0..Len(s)
  PROVE  /\ SubSeq(s, 1, n) \in Seq(S) /\ Len(SubSeq(s, 1, n)) = n
         /\ \A i \in 1..n : SubSeq(s, 1, n)[i] = s[i]
OBVIOUS

(***************************************************************************)
(* The steps of the running task.                                          *)
(***************************************************************************)

LEMMA InitIInv == Init => IInv
<1> SUFFICES ASSUME Init PROVE IInv
  OBVIOUS
<1> USE TasksAssumption, OpsAssumption, NoOneAssumption
<1>0. Len(stack) = 1 /\ stack[1] = Root /\ stack \in Seq(Tasks)
  BY DEF Init, Tasks
<1>1. TypeOK
  <2>1. stack # <<>>
    BY <1>0
  <2>2. cpc \in [Cancellers -> {"idle", "lock", "check", "call", "end"}]
        /\ target \in [Cancellers -> Tasks]
    BY DEF Init, Tasks
  <2>3. leaked \in BOOLEAN /\ wrongly \in BOOLEAN /\ dangling \in BOOLEAN
        /\ chain \in BOOLEAN
    BY Zenon DEF Init
  <2> QED
    BY <1>0, <2>1, <2>2, <2>3 DEF Init, TypeOK, Tasks, Ops, Phases
<1>2. LockHolder /\ IdleAt
  BY DEF Init, LockHolder, IdleAt
<1>3. StackInv
  BY <1>0 DEF Init, StackInv
<1>4. HandleInv /\ LeakInv /\ Watched /\ OwnOperation /\ NobodyMissed /\ RefusedForCause
  BY DEF Init, HandleInv, LeakInv, Watched, OwnOperation, NobodyMissed, RefusedForCause
<1>5. FirstInv
  BY <1>0 DEF Init, FirstInv, NobodyAtWork, AtWork
<1>6. HookedIsPath
  BY DEF Init, HookedIsPath
<1> QED
  BY <1>1, <1>2, <1>3, <1>4, <1>5, <1>6 DEF IInv

LEMMA CallStep == ASSUME IInv, NEW t \in Children, Call(t) PROVE IInv'
<1> USE DEF IInv
<1>0. stack \in Seq(Tasks) /\ t \in Tasks /\ Len(stack) \in Nat
  BY DEF TypeOK, Tasks
<1>1. /\ stack' \in Seq(Tasks) /\ Len(stack') = Len(stack) + 1
      /\ \A i \in 1..Len(stack) : stack'[i] = stack[i]
      /\ stack'[Len(stack) + 1] = t
  BY <1>0, AppendElements DEF Call
<1>2. TypeOK'
  <2>1. stack' # <<>>
    BY <1>0, <1>1
  <2>2. chain' \in BOOLEAN /\ leaked' \in BOOLEAN /\ wrongly' \in BOOLEAN /\ dangling' \in BOOLEAN
    BY Zenon DEF Call, TypeOK, history
  <2> QED
    BY <1>0, <1>1, <2>1, <2>2 DEF Call, TypeOK, bits, cancel, history
<1>3. LockHolder' /\ IdleAt' /\ HandleInv' /\ RefusedForCause'
  BY DEF Call, LockHolder, IdleAt, HandleInv, RefusedForCause, bits, cancel, history
<1>4. StackInv'
  BY <1>0, <1>1 DEF Call, StackInv
<1>5. FirstInv' /\ LeakInv' /\ OwnOperation' /\ NobodyMissed' /\ Watched'
  BY DEF Call, FirstInv, LeakInv, OwnOperation, NobodyMissed, Watched, history, bits
<1>6. HookedIsPath'
  BY DEF Call, HookedIsPath, history, bits
<1> QED
  BY <1>2, <1>3, <1>4, <1>5, <1>6

LEMMA ReturnStep == ASSUME IInv, Return PROVE IInv'
<1> USE DEF IInv
<1>0. stack \in Seq(Tasks) /\ Len(stack) \in Nat /\ Len(stack) - 1 \in 0..Len(stack)
  BY DEF TypeOK, Return
<1>1. /\ stack' \in Seq(Tasks) /\ Len(stack') = Len(stack) - 1
      /\ \A i \in 1..(Len(stack) - 1) : stack'[i] = stack[i]
  BY <1>0, PrefixElements DEF Return
<1>2. TypeOK'
  <2>1. stack' # <<>>
    <3>1. Len(stack') > 0
      BY <1>0, <1>1 DEF Return
    <3> QED
      BY <3>1
  <2>2. chain' \in BOOLEAN /\ leaked' \in BOOLEAN /\ wrongly' \in BOOLEAN /\ dangling' \in BOOLEAN
    BY Zenon DEF Return, TypeOK, history
  <2>3. at' \in 0..Len(stack')
    BY <1>1 DEF Return, IdleAt
  <2> QED
    BY <1>0, <1>1, <2>1, <2>2, <2>3 DEF Return, TypeOK, bits, cancel, history
<1>3. LockHolder' /\ IdleAt' /\ HandleInv' /\ RefusedForCause'
  BY DEF Return, LockHolder, IdleAt, HandleInv, RefusedForCause, bits, cancel, history
<1>4. StackInv'
  BY <1>0, <1>1 DEF Return, StackInv
<1>5. FirstInv' /\ LeakInv' /\ OwnOperation' /\ NobodyMissed' /\ Watched'
  BY <1>0 DEF Return, FirstInv, LeakInv, OwnOperation, NobodyMissed, Watched, history, bits
<1>6. HookedIsPath'
  BY DEF Return, HookedIsPath, history, bits
<1> QED
  BY <1>2, <1>3, <1>4, <1>5, <1>6

LEMMA IssueStep == ASSUME IInv, Issue PROVE IInv'
<1> USE DEF IInv
<1>0. /\ stack \in Seq(Tasks) /\ Len(stack) \in Nat /\ op \in 0..MaxOps /\ MaxOps \in Nat
      /\ stack' = stack /\ op' = op + 1 /\ at' = Len(stack)
      /\ hooked' = hooked /\ marked' = marked /\ cpc' = cpc /\ target' = target
      /\ lock' = lock /\ leaked' = leaked /\ wrongly' = wrongly
  BY OpsAssumption DEF TypeOK, Issue, bits, cancel, history
<1>2. TypeOK'
  <2>2. chain' \in BOOLEAN /\ leaked' \in BOOLEAN /\ wrongly' \in BOOLEAN /\ dangling' \in BOOLEAN
    BY Zenon DEF Issue, TypeOK, history
  <2>3. handle' \in 0..MaxOps /\ phase' \in Phases /\ asked' \subseteq Ops /\ lost' \subseteq Ops
        /\ used' \subseteq Tasks
    BY <1>0 DEF Issue, TypeOK, Phases, history
  <2> QED
    BY <1>0, <2>2, <2>3 DEF Issue, TypeOK
<1>3. LockHolder' /\ IdleAt' /\ HandleInv' /\ RefusedForCause'
  <2>1. op' \in Ops
    BY <1>0 DEF Issue, Ops
  <2> QED
    BY <1>0, <2>1 DEF Issue, LockHolder, IdleAt, HandleInv, RefusedForCause
<1>4. StackInv'
  BY <1>0 DEF Issue, StackInv
<1>5. FirstInv' /\ LeakInv'
  BY <1>0 DEF Issue, FirstInv, LeakInv, NobodyAtWork, AtWork
<1>6. OwnOperation' /\ NobodyMissed' /\ Watched'
  BY <1>0 DEF Issue, OwnOperation, NobodyMissed, Watched
<1>7. HookedIsPath'
  <2> SUFFICES ASSUME ~leaked PROVE HookedIsPath'
    BY <1>0 DEF HookedIsPath
  <2>1. hooked = {}
    BY DEF HookedIsPath, Issue
  <2> QED
    BY <1>0, <2>1 DEF Issue, HookedIsPath
<1> QED
  BY <1>2, <1>3, <1>4, <1>5, <1>6, <1>7

LEMMA HookLockStep == ASSUME IInv, HookLock PROVE IInv'
<1> USE DEF IInv
<1>0. /\ stack \in Seq(Tasks) /\ Len(stack) \in Nat /\ stack' = stack /\ op' = op
      /\ at' = at /\ hooked' = hooked /\ marked' = marked /\ cpc' = cpc
      /\ target' = target /\ leaked' = leaked /\ wrongly' = wrongly /\ chain' = chain
  BY DEF TypeOK, HookLock, bits, cancel, history
<1>2. TypeOK'
  <2>2. chain' \in BOOLEAN /\ leaked' \in BOOLEAN /\ wrongly' \in BOOLEAN /\ dangling' \in BOOLEAN
    BY Zenon DEF HookLock, TypeOK, history
  <2> QED
    BY <1>0, <2>2 DEF HookLock, TypeOK, Phases, history
<1>3. LockHolder' /\ IdleAt' /\ HandleInv' /\ RefusedForCause'
  BY <1>0, NoOneAssumption DEF HookLock, LockHolder, IdleAt, HandleInv, RefusedForCause
<1>4. StackInv'
  BY <1>0 DEF HookLock, StackInv
<1>5. FirstInv' /\ LeakInv'
  BY <1>0 DEF HookLock, FirstInv, LeakInv, NobodyAtWork, AtWork
<1>6. OwnOperation' /\ NobodyMissed'
  BY <1>0 DEF HookLock, OwnOperation, NobodyMissed
<1>7. at = Len(stack)
  BY DEF HookLock, StackInv
<1>8. HookedIsPath'
  <2> SUFFICES ASSUME ~leaked PROVE HookedIsPath'
    BY <1>0 DEF HookedIsPath
  <2>1. hooked = {}
    BY DEF HookedIsPath, HookLock
  <2>2. {stack[i] : i \in (at + 1)..Len(stack)} = {}
    BY <1>0, <1>7
  <2> QED
    BY <1>0, <2>1, <2>2 DEF HookLock, HookedIsPath
<1>9. Watched'
  BY <1>0, <1>7 DEF HookLock, Watched
<1> QED
  BY <1>2, <1>3, <1>4, <1>5, <1>6, <1>8, <1>9

\* One compare-exchange up the stack; the one of the root releases the lock.
LEMMA HookNextStep == ASSUME IInv, HookNext PROVE IInv'
<1> USE DEF IInv
<1>0. /\ stack \in Seq(Tasks) /\ Len(stack) \in Nat /\ stack' = stack /\ op' = op
      /\ marked' = marked /\ cpc' = cpc /\ target' = target /\ leaked' = leaked
      /\ wrongly' = wrongly /\ chain' = chain /\ handle' = handle
      /\ hooked' = hooked \cup {stack[at]} /\ phase = "hook" /\ at \in 1..Len(stack)
      /\ stack[at] \notin marked /\ stack[at] \notin hooked
  BY DEF TypeOK, HookNext, StackInv, cancel, history
<1>a. at > 1 => phase' = "hook" /\ at' = at - 1 /\ lock' = lock
  BY DEF HookNext
<1>b. at = 1 => phase' = "prep" /\ at' = 0 /\ lock' = Unlocked
  BY DEF HookNext
<1>c. at > 1 \/ at = 1
  BY <1>0
<1>d. {stack[i] : i \in (at + 1)..Len(stack)} \cup {stack[at]}
        = {stack[i] : i \in at..Len(stack)}
  BY <1>0
<1>1. TypeOK'
  <2>2. chain' \in BOOLEAN /\ leaked' \in BOOLEAN /\ wrongly' \in BOOLEAN /\ dangling' \in BOOLEAN
    BY Zenon DEF HookNext, TypeOK, history
  <2>3. stack[at] \in Tasks
    BY <1>0
  <2> QED
    BY <1>0, <1>a, <1>b, <1>c, <2>2, <2>3 DEF HookNext, TypeOK, Phases, Unlocked, history
<1>2. LockHolder'
  BY <1>0, <1>a, <1>b, <1>c, NoOneAssumption DEF LockHolder, Unlocked
<1>3. IdleAt' /\ HandleInv' /\ RefusedForCause'
  BY <1>0, <1>a, <1>b, <1>c DEF IdleAt, HandleInv, RefusedForCause
<1>4. StackInv'
  BY <1>0, <1>a, <1>b, <1>c DEF HookNext, StackInv
<1>5. FirstInv'
  BY <1>0, <1>a, <1>b, <1>c DEF FirstInv, NobodyAtWork, AtWork
<1>6. LeakInv'
  BY <1>0, <1>a, <1>b, <1>c DEF LeakInv, StackInv
<1>7. HookedIsPath'
  <2> SUFFICES ASSUME ~leaked PROVE HookedIsPath'
    BY <1>0 DEF HookedIsPath
  <2>1. hooked = {stack[i] : i \in (at + 1)..Len(stack)}
    BY <1>0 DEF HookedIsPath
  <2>2. hooked' = {stack[i] : i \in at..Len(stack)}
    BY <1>0, <1>d, <2>1
  <2>3. CASE at > 1
    <3>1. (at - 1) + 1 = at
      BY <1>0
    <3> QED
      BY <1>0, <1>a, <2>2, <2>3, <3>1 DEF HookedIsPath
  <2>4. CASE at = 1
    BY <1>0, <1>b, <2>2, <2>4 DEF HookedIsPath, Path
  <2> QED
    BY <1>c, <2>3, <2>4
<1>8. \A i \in at..Len(stack) : stack[i] \in marked =>
        \E c \in Cancellers : target[c] = stack[i] /\ cpc[c] = "lock"
  <2> SUFFICES ASSUME NEW i \in at..Len(stack), stack[i] \in marked
               PROVE  \E c \in Cancellers : target[c] = stack[i] /\ cpc[c] = "lock"
    OBVIOUS
  <2>1. i \in (at + 1)..Len(stack)
    BY <1>0
  <2> QED
    BY <1>0, <2>1 DEF Watched
<1>9. Watched'
  BY <1>0, <1>a, <1>b, <1>c, <1>8 DEF Watched
<1>10. NobodyMissed'
  <2>1. CASE at > 1
    BY <1>0, <1>a, <2>1 DEF NobodyMissed
  <2>2. CASE at = 1
    <3> SUFFICES ASSUME Path \cap marked # {}
                 PROVE  \E c \in Cancellers : target[c] \in Path /\ cpc[c] = "lock"
      BY <1>0, <1>b, <2>2 DEF NobodyMissed, Path
    <3>1. PICK i \in 1..Len(stack) : stack[i] \in marked
      BY DEF Path
    <3>2. stack[i] \in Path
      BY DEF Path
    <3> QED
      BY <1>8, <2>2, <3>1, <3>2
  <2> QED
    BY <1>c, <2>1, <2>2
<1>11. OwnOperation'
  <2>1. lock = "loop" => \A c \in Cancellers : cpc[c] # "call"
    BY NoOneAssumption DEF LockHolder
  <2>2. lock # "loop" => \A c \in Cancellers : cpc[c] # "call"
    BY <1>0 DEF FirstInv, NobodyAtWork, AtWork
  <2> QED
    BY <1>0, <2>1, <2>2 DEF OwnOperation
<1> QED
  BY <1>1, <1>2, <1>3, <1>4, <1>5, <1>6, <1>7, <1>9, <1>10, <1>11

\* A compare-exchange fails: what was hooked is undone.
LEMMA HookFailsStep == ASSUME IInv, HookFails PROVE IInv'
<1> USE DEF IInv
<1>0. /\ stack \in Seq(Tasks) /\ Len(stack) \in Nat /\ stack' = stack /\ op' = op
      /\ marked' = marked /\ cpc' = cpc /\ target' = target /\ leaked' = leaked
      /\ chain' = chain /\ handle' = handle /\ phase = "hook" /\ at \in 1..Len(stack)
      /\ phase' = "run" /\ at' = 0 /\ lock' = Unlocked
      /\ hooked' = hooked \ {stack[i] : i \in (at + 1)..Len(stack)}
      /\ stack[at] \in marked \cup hooked
  BY DEF TypeOK, HookFails, StackInv, cancel, history
<1>1. TypeOK'
  <2>1. chain' \in BOOLEAN /\ leaked' \in BOOLEAN /\ dangling' \in BOOLEAN
    BY Zenon DEF HookFails, TypeOK
  <2>2. wrongly' \in BOOLEAN
    BY DEF HookFails, TypeOK
  <2> QED
    BY <1>0, <2>1, <2>2 DEF HookFails, TypeOK, Phases, Unlocked
<1>2. LockHolder'
  BY <1>0, NoOneAssumption DEF LockHolder, Unlocked
<1>3. IdleAt' /\ HandleInv' /\ Watched' /\ OwnOperation' /\ NobodyMissed'
  BY <1>0 DEF IdleAt, HandleInv, Watched, OwnOperation, NobodyMissed
<1>4. StackInv'
  BY <1>0 DEF HookFails, StackInv
<1>5. FirstInv'
  BY <1>0 DEF FirstInv, NobodyAtWork, AtWork
<1>6. LeakInv'
  <2> SUFFICES ASSUME leaked PROVE Root \in hooked'
    BY <1>0 DEF LeakInv
  <2>1. \A i \in (at + 1)..Len(stack) : stack[i] # Root
    BY <1>0 DEF StackInv
  <2> QED
    BY <1>0, <2>1 DEF LeakInv
<1>7. HookedIsPath'
  <2> SUFFICES ASSUME ~leaked PROVE HookedIsPath'
    BY <1>0 DEF HookedIsPath
  <2>1. hooked = {stack[i] : i \in (at + 1)..Len(stack)}
    BY <1>0 DEF HookedIsPath
  <2> QED
    BY <1>0, <2>1 DEF HookedIsPath
<1>8. RefusedForCause'
  <2> SUFFICES ASSUME ~leaked PROVE ~wrongly'
    BY <1>0 DEF RefusedForCause
  <2>1. hooked = {stack[i] : i \in (at + 1)..Len(stack)}
    BY <1>0 DEF HookedIsPath
  <2>2. stack[at] \notin hooked
    BY <1>0, <2>1 DEF StackInv
  <2>3. Path \cap marked # {}
    BY <1>0, <2>2 DEF Path
  <2> QED
    BY <2>3 DEF RefusedForCause, HookFails
<1> QED
  BY <1>1, <1>2, <1>3, <1>4, <1>5, <1>6, <1>7, <1>8

\* The operation is submitted.
LEMMA PrepStep == ASSUME IInv, Prep PROVE IInv'
<1> USE DEF IInv
<1>0. /\ stack' = stack /\ op' = op /\ at' = at /\ hooked' = hooked /\ marked' = marked
      /\ cpc' = cpc /\ target' = target /\ leaked' = leaked /\ wrongly' = wrongly
      /\ chain' = chain /\ handle' = handle /\ lock' = lock /\ asked' = asked /\ lost' = lost
      /\ phase = "prep" /\ phase' = "pending"
  BY DEF Prep, bits, cancel, history
<1>1. TypeOK'
  <2>1. chain' \in BOOLEAN /\ leaked' \in BOOLEAN /\ wrongly' \in BOOLEAN /\ dangling' \in BOOLEAN
    BY Zenon DEF Prep, TypeOK, history
  <2> QED
    BY <1>0, <2>1 DEF Prep, TypeOK, Phases
<1>2. LockHolder' /\ IdleAt' /\ HandleInv' /\ Watched' /\ RefusedForCause'
  BY <1>0 DEF LockHolder, IdleAt, HandleInv, Watched, RefusedForCause
<1>3. StackInv'
  BY <1>0 DEF Prep, StackInv
<1>4. FirstInv' /\ LeakInv'
  BY <1>0 DEF FirstInv, NobodyAtWork, AtWork, LeakInv
<1>5. HookedIsPath'
  BY <1>0 DEF HookedIsPath, Path
<1>6. OwnOperation' /\ NobodyMissed'
  BY <1>0 DEF OwnOperation, NobodyMissed, Path
<1> QED
  BY <1>1, <1>2, <1>3, <1>4, <1>5, <1>6

\* EAGAIN: the bits stay, the root's among them.
LEMMA PrepFailsStep == ASSUME IInv, PrepFails PROVE IInv'
<1> USE DEF IInv
<1>0. /\ stack' = stack /\ op' = op /\ at' = at /\ hooked' = hooked /\ marked' = marked
      /\ cpc' = cpc /\ target' = target /\ leaked' = TRUE /\ wrongly' = wrongly
      /\ chain' = chain /\ handle' = handle /\ lock' = lock
      /\ phase = "prep" /\ phase' = "run"
  BY DEF PrepFails, bits, cancel
<1>1. TypeOK'
  <2>1. chain' \in BOOLEAN /\ leaked' \in BOOLEAN /\ wrongly' \in BOOLEAN /\ dangling' \in BOOLEAN
    BY Zenon DEF PrepFails, TypeOK
  <2> QED
    BY <1>0, <2>1 DEF PrepFails, TypeOK, Phases
<1>2. LockHolder' /\ IdleAt' /\ HandleInv' /\ Watched' /\ RefusedForCause' /\ HookedIsPath'
  BY <1>0 DEF LockHolder, IdleAt, HandleInv, Watched, RefusedForCause, HookedIsPath
<1>3. StackInv'
  BY <1>0 DEF PrepFails, StackInv
<1>4. FirstInv'
  BY <1>0 DEF FirstInv, NobodyAtWork, AtWork
<1>5. LeakInv'
  <2>1. ~leaked
    BY <1>0 DEF LeakInv
  <2>2. hooked = Path
    BY <1>0, <2>1 DEF HookedIsPath
  <2>3. Root \in Path
    BY DEF StackInv, Path
  <2> QED
    BY <1>0, <2>2, <2>3 DEF LeakInv
<1>6. OwnOperation' /\ NobodyMissed'
  BY <1>0 DEF OwnOperation, NobodyMissed
<1> QED
  BY <1>1, <1>2, <1>3, <1>4, <1>5, <1>6

\* The kernel completes the operation: from here its bits are taken back.
LEMMA CompletesStep == ASSUME IInv, Completes PROVE IInv'
<1> USE DEF IInv
<1>0. /\ stack' = stack /\ op' = op /\ at' = Len(stack) /\ hooked' = hooked
      /\ marked' = marked /\ cpc' = cpc /\ target' = target /\ leaked' = leaked
      /\ wrongly' = wrongly /\ chain' = chain /\ handle' = handle /\ lock' = lock
      /\ phase = "pending" /\ phase' = "unhook" /\ Len(stack) \in Nat
  BY DEF Completes, TypeOK, bits, cancel, history
<1>1. TypeOK'
  <2>1. chain' \in BOOLEAN /\ leaked' \in BOOLEAN /\ wrongly' \in BOOLEAN /\ dangling' \in BOOLEAN
    BY Zenon DEF Completes, TypeOK, history
  <2> QED
    BY <1>0, <2>1 DEF Completes, TypeOK, Phases, history
<1>2. LockHolder' /\ IdleAt' /\ HandleInv' /\ Watched' /\ RefusedForCause'
  BY <1>0 DEF LockHolder, IdleAt, HandleInv, Watched, RefusedForCause
<1>3. StackInv'
  BY <1>0 DEF Completes, StackInv
<1>4. FirstInv' /\ LeakInv'
  BY <1>0 DEF FirstInv, NobodyAtWork, AtWork, LeakInv
<1>5. HookedIsPath'
  BY <1>0 DEF HookedIsPath, Path
<1>6. OwnOperation' /\ NobodyMissed'
  BY <1>0 DEF OwnOperation, NobodyMissed
<1> QED
  BY <1>1, <1>2, <1>3, <1>4, <1>5, <1>6

\* One bit is taken back.
LEMMA UnhookStep == ASSUME IInv, Unhook PROVE IInv'
<1> USE DEF IInv
<1>0. /\ stack' = stack /\ op' = op /\ at' = at - 1 /\ hooked' = hooked \ {stack[at]}
      /\ marked' = marked /\ cpc' = cpc /\ target' = target /\ leaked' = leaked
      /\ wrongly' = wrongly /\ chain' = chain /\ handle' = handle /\ lock' = lock
      /\ phase = "unhook" /\ at \in 1..Len(stack) /\ Len(stack) \in Nat
      /\ phase' = IF at = 1 THEN "run" ELSE "unhook"
  BY DEF Unhook, TypeOK, StackInv, cancel, history
<1>1. TypeOK'
  <2>1. chain' \in BOOLEAN /\ leaked' \in BOOLEAN /\ wrongly' \in BOOLEAN /\ dangling' \in BOOLEAN
    BY Zenon DEF Unhook, TypeOK, history
  <2> QED
    BY <1>0, <2>1 DEF Unhook, TypeOK, Phases, history
<1>2. LockHolder' /\ IdleAt' /\ HandleInv' /\ Watched' /\ RefusedForCause'
  BY <1>0 DEF LockHolder, IdleAt, HandleInv, Watched, RefusedForCause
<1>3. StackInv'
  BY <1>0 DEF Unhook, StackInv
<1>4. FirstInv' /\ LeakInv'
  BY <1>0 DEF FirstInv, NobodyAtWork, AtWork, LeakInv
<1>5. HookedIsPath'
  <2> SUFFICES ASSUME ~leaked PROVE HookedIsPath'
    BY <1>0 DEF HookedIsPath
  <2>1. hooked = {stack[i] : i \in 1..at}
    BY <1>0 DEF HookedIsPath
  <2>2. hooked' = {stack[i] : i \in 1..(at - 1)}
    BY <1>0, <2>1 DEF StackInv
  <2>3. at = 1 => hooked' = {}
    BY <2>2
  <2> QED
    BY <1>0, <2>2, <2>3 DEF HookedIsPath
<1>6. OwnOperation' /\ NobodyMissed'
  BY <1>0 DEF OwnOperation, NobodyMissed
<1> QED
  BY <1>1, <1>2, <1>3, <1>4, <1>5, <1>6

(***************************************************************************)
(* The steps of a canceller.                                               *)
(***************************************************************************)

\* The task is marked; if it was hooked its canceller goes for the lock.
LEMMA MarkStep ==
  ASSUME IInv, NEW c \in Cancellers, NEW t \in Tasks, Mark(c, t) PROVE IInv'
<1> USE DEF IInv
<1>0. /\ stack' = stack /\ used' = used /\ op' = op /\ at' = at /\ hooked' = hooked
      /\ marked' = marked \cup {t} /\ phase' = phase /\ leaked' = leaked
      /\ wrongly' = wrongly /\ chain' = chain /\ handle' = handle /\ lock' = lock
      /\ asked' = asked /\ lost' = lost /\ cpc[c] = "idle"
      /\ cpc' \in [Cancellers -> {"idle", "lock", "check", "call", "end"}]
      /\ target' \in [Cancellers -> Tasks]
  BY DEF Mark, TypeOK, coroutine, history
<1>a. /\ cpc'[c] = IF t \notin marked /\ t \in hooked THEN "lock" ELSE "end"
      /\ target'[c] = t
      /\ \A d \in Cancellers : d # c => cpc'[d] = cpc[d] /\ target'[d] = target[d]
  BY DEF Mark, TypeOK
<1>1. TypeOK'
  <2>1. chain' \in BOOLEAN /\ leaked' \in BOOLEAN /\ wrongly' \in BOOLEAN /\ dangling' \in BOOLEAN
    BY Zenon DEF Mark, TypeOK, coroutine, history
  <2> QED
    BY <1>0, <2>1 DEF TypeOK
<1>2. LockHolder'
  BY <1>0, <1>a DEF LockHolder
<1>3. IdleAt' /\ HandleInv' /\ RefusedForCause' /\ LeakInv'
  BY <1>0 DEF IdleAt, HandleInv, RefusedForCause, LeakInv
<1>4. StackInv'
  BY <1>0 DEF StackInv
<1>5. FirstInv'
  BY <1>0, <1>a DEF FirstInv, NobodyAtWork, AtWork
<1>6. HookedIsPath'
  BY <1>0 DEF HookedIsPath, Path
<1>7. Watched'
  <2>0. phase = "hook" => \A i \in (at + 1)..Len(stack) : stack[i] \in hooked
    BY DEF Watched
  <2> SUFFICES ASSUME phase = "hook", NEW i \in (at + 1)..Len(stack), stack[i] \in marked'
               PROVE  \E d \in Cancellers : target'[d] = stack[i] /\ cpc'[d] = "lock"
    BY <1>0, <2>0 DEF Watched
  <2>1. CASE stack[i] \in marked
    BY <1>0, <1>a, <2>1 DEF Watched
  <2>2. CASE stack[i] \notin marked
    <3>1. stack[i] = t
      BY <1>0, <2>2
    <3>2. t \in hooked
      BY <3>1 DEF Watched
    <3> QED
      BY <1>a, <2>2, <3>1, <3>2
  <2> QED
    BY <2>1, <2>2
<1>8. OwnOperation'
  BY <1>0, <1>a DEF OwnOperation, Path
<1>9. NobodyMissed'
  <2> SUFFICES ASSUME phase \in {"prep", "pending"}, Path \cap marked' # {}, op \notin asked \cup lost
               PROVE  \E d \in Cancellers : target'[d] \in Path /\ cpc'[d] \in {"lock", "check", "call"}
    BY <1>0 DEF NobodyMissed, Path
  <2>1. CASE Path \cap marked # {}
    <3>1. PICK d \in Cancellers : target[d] \in Path /\ cpc[d] \in {"lock", "check", "call"}
      BY <2>1 DEF NobodyMissed
    <3> QED
      BY <1>0, <1>a, <3>1
  <2>2. CASE Path \cap marked = {}
    <3>1. t \in Path /\ t \notin marked
      BY <1>0, <2>2
    <3>2. hooked = Path
      BY DEF LeakInv, HookedIsPath
    <3> QED
      BY <1>a, <3>1, <3>2
  <2> QED
    BY <2>1, <2>2
<1> QED
  BY <1>1, <1>2, <1>3, <1>4, <1>5, <1>6, <1>7, <1>8, <1>9

\* It gets the lock.
LEMMA CancelLockStep ==
  ASSUME IInv, NEW c \in Cancellers, CancelLock(c) PROVE IInv'
<1> USE DEF IInv
<1>0. /\ stack' = stack /\ used' = used /\ op' = op /\ at' = at /\ hooked' = hooked
      /\ marked' = marked /\ phase' = phase /\ leaked' = leaked /\ wrongly' = wrongly
      /\ chain' = chain /\ handle' = handle /\ asked' = asked /\ lost' = lost
      /\ target' = target /\ lock = NoOne /\ lock' = c /\ cpc[c] = "lock"
      /\ cpc' = [cpc EXCEPT ![c] = "check"]
  BY DEF CancelLock, coroutine, bits, history
<1>1. TypeOK'
  <2>1. chain' \in BOOLEAN /\ leaked' \in BOOLEAN /\ wrongly' \in BOOLEAN /\ dangling' \in BOOLEAN
    BY Zenon DEF CancelLock, TypeOK, coroutine, history
  <2> QED
    BY <1>0, <2>1 DEF TypeOK
<1>2. LockHolder'
  BY <1>0, NoOneAssumption DEF LockHolder, TypeOK
<1>3. IdleAt' /\ HandleInv' /\ RefusedForCause' /\ LeakInv' /\ StackInv'
  BY <1>0 DEF IdleAt, HandleInv, RefusedForCause, LeakInv, StackInv
<1>4. FirstInv'
  BY <1>0, NoOneAssumption DEF FirstInv, NobodyAtWork, AtWork
<1>5. HookedIsPath'
  BY <1>0 DEF HookedIsPath, Path
<1>6. Watched'
  <2> SUFFICES ASSUME phase = "hook" PROVE Watched'
    BY <1>0 DEF Watched
  <2>1. lock # "loop"
    BY <1>0, NoOneAssumption
  <2> QED
    BY <1>0, <2>1 DEF FirstInv, NobodyAtWork, AtWork
<1>7. OwnOperation'
  BY <1>0 DEF OwnOperation, Path, TypeOK
<1>8. NobodyMissed'
  BY <1>0 DEF NobodyMissed, Path, TypeOK
<1> QED
  BY <1>1, <1>2, <1>3, <1>4, <1>5, <1>6, <1>7, <1>8

\* It looks a second time: if its task is hooked now, the task waits for the
\* operation that is outstanding.
LEMMA CheckStep ==
  ASSUME IInv, NEW c \in Cancellers, Check(c) PROVE IInv'
<1> USE DEF IInv
<1>0. /\ stack' = stack /\ used' = used /\ op' = op /\ at' = at /\ hooked' = hooked
      /\ marked' = marked /\ phase' = phase /\ leaked' = leaked /\ wrongly' = wrongly
      /\ chain' = chain /\ handle' = handle /\ asked' = asked /\ lost' = lost
      /\ target' = target /\ cpc[c] = "check" /\ lock = c
  BY DEF Check, LockHolder, coroutine, bits, history
<1>a. \/ target[c] \in hooked /\ lock' = lock /\ cpc' = [cpc EXCEPT ![c] = "call"]
      \/ target[c] \notin hooked /\ lock' = NoOne /\ cpc' = [cpc EXCEPT ![c] = "end"]
  BY DEF Check
<1>b. phase \in {"prep", "pending"} => hooked = Path
  BY DEF LeakInv, HookedIsPath
<1>1. TypeOK'
  <2>1. chain' \in BOOLEAN /\ leaked' \in BOOLEAN /\ wrongly' \in BOOLEAN /\ dangling' \in BOOLEAN
    BY Zenon DEF Check, TypeOK, coroutine, history
  <2> QED
    BY <1>0, <1>a, <2>1 DEF TypeOK
<1>2. LockHolder'
  BY <1>0, <1>a, NoOneAssumption DEF LockHolder, TypeOK
<1>3. IdleAt' /\ HandleInv' /\ RefusedForCause' /\ LeakInv' /\ StackInv'
  BY <1>0 DEF IdleAt, HandleInv, RefusedForCause, LeakInv, StackInv
<1>4. FirstInv'
  BY <1>0, <1>a, NoOneAssumption DEF FirstInv, NobodyAtWork, AtWork
<1>5. HookedIsPath'
  BY <1>0 DEF HookedIsPath, Path
<1>6. Watched'
  BY <1>0, <1>a DEF Watched, TypeOK
<1>7. OwnOperation'
  BY <1>0, <1>a, <1>b DEF OwnOperation, Path, TypeOK
<1>8. NobodyMissed'
  <2> SUFFICES ASSUME phase \in {"prep", "pending"}, Path \cap marked # {}, op \notin asked \cup lost
               PROVE  \E d \in Cancellers : target[d] \in Path /\ cpc'[d] \in {"lock", "check", "call"}
    BY <1>0 DEF NobodyMissed, Path
  <2>1. PICK d \in Cancellers : target[d] \in Path /\ cpc[d] \in {"lock", "check", "call"}
    BY DEF NobodyMissed
  <2> QED
    BY <1>0, <1>a, <1>b, <2>1 DEF TypeOK
<1> QED
  BY <1>1, <1>2, <1>3, <1>4, <1>5, <1>6, <1>7, <1>8

\* It calls the awaiter's cancel() and releases the lock.
LEMMA CallCancelStep ==
  ASSUME IInv, NEW c \in Cancellers, NEW room \in BOOLEAN, CallCancel(c, room) PROVE IInv'
<1> USE DEF IInv
<1>0. /\ stack' = stack /\ used' = used /\ op' = op /\ at' = at /\ hooked' = hooked
      /\ marked' = marked /\ phase' = phase /\ leaked' = leaked /\ wrongly' = wrongly
      /\ chain' = chain /\ handle' = handle /\ target' = target
      /\ cpc[c] = "call" /\ lock = c /\ lock' = NoOne
      /\ cpc' = [cpc EXCEPT ![c] = "end"]
  BY DEF CallCancel, LockHolder, coroutine, bits
<1>a. /\ asked' = asked \/ (asked' = asked \cup {op} /\ phase = "pending")
      /\ lost' = lost \/ (lost' = lost \cup {op} /\ AwaiterExists)
      /\ AwaiterExists => op \in asked' \cup lost'
  BY DEF CallCancel, AwaiterExists
<1>b. phase \in {"prep", "pending"} => AwaiterExists
  BY DEF HandleInv, AwaiterExists
<1>c. AwaiterExists => op \in Ops
  <2>1. AwaiterExists => phase # "run"
    BY DEF AwaiterExists
  <2> QED
    BY <2>1 DEF HandleInv
<1>1. TypeOK'
  <2>1. chain' \in BOOLEAN /\ leaked' \in BOOLEAN /\ wrongly' \in BOOLEAN
    BY Zenon, <1>0 DEF TypeOK
  <2>2. dangling' \in BOOLEAN
    BY DEF CallCancel, TypeOK
  <2> QED
    BY <1>0, <1>a, <1>b, <1>c, <2>1, <2>2 DEF TypeOK
<1>2. LockHolder'
  BY <1>0, NoOneAssumption DEF LockHolder, TypeOK
<1>3. IdleAt' /\ HandleInv' /\ RefusedForCause' /\ LeakInv' /\ StackInv'
  BY <1>0 DEF IdleAt, HandleInv, RefusedForCause, LeakInv, StackInv
<1>4. FirstInv'
  <2>1. chain /\ phase # "hook"
    BY <1>0, NoOneAssumption DEF FirstInv, NobodyAtWork, AtWork
  <2> QED
    BY <1>0, <2>1 DEF FirstInv
<1>5. HookedIsPath'
  BY <1>0 DEF HookedIsPath, Path
<1>6. Watched'
  BY <1>0 DEF Watched, TypeOK
<1>7. OwnOperation'
  BY <1>0 DEF OwnOperation, Path, TypeOK
<1>8. NobodyMissed'
  BY <1>0, <1>a, <1>b DEF NobodyMissed
<1> QED
  BY <1>1, <1>2, <1>3, <1>4, <1>5, <1>6, <1>7, <1>8

\* Nothing changes.
LEMMA StutterStep == ASSUME IInv, UNCHANGED vars PROVE IInv'
<1> USE DEF IInv, vars, coroutine, bits, cancel, history
<1>1. TypeOK'
  <2>1. chain' \in BOOLEAN /\ leaked' \in BOOLEAN /\ wrongly' \in BOOLEAN /\ dangling' \in BOOLEAN
    BY Zenon DEF TypeOK
  <2> QED
    BY <2>1 DEF TypeOK
<1>2. LockHolder' /\ IdleAt' /\ HandleInv' /\ RefusedForCause' /\ LeakInv' /\ StackInv'
  BY DEF LockHolder, IdleAt, HandleInv, RefusedForCause, LeakInv, StackInv
<1>3. FirstInv' /\ Watched' /\ OwnOperation' /\ NobodyMissed' /\ HookedIsPath'
  BY DEF FirstInv, NobodyAtWork, AtWork, Watched, OwnOperation, NobodyMissed,
         HookedIsPath, Path
<1> QED
  BY <1>1, <1>2, <1>3

LEMMA StepIInv == IInv /\ [Next]_vars => IInv'
<1> SUFFICES ASSUME IInv, [Next]_vars PROVE IInv'
  OBVIOUS
<1>1. ASSUME NEW t \in Children, Call(t) PROVE IInv'
  BY <1>1, CallStep
<1>2. CASE Return
  BY <1>2, ReturnStep
<1>3. CASE Issue
  BY <1>3, IssueStep
<1>4. CASE HookLock
  BY <1>4, HookLockStep
<1>5. CASE HookNext
  BY <1>5, HookNextStep
<1>6. CASE HookFails
  BY <1>6, HookFailsStep
<1>7. CASE Prep
  BY <1>7, PrepStep
<1>8. CASE PrepFails
  BY <1>8, PrepFailsStep
<1>9. CASE Completes
  BY <1>9, CompletesStep
<1>10. CASE Unhook
  BY <1>10, UnhookStep
<1>11. ASSUME NEW c \in Cancellers, NEW t \in Tasks, Mark(c, t) PROVE IInv'
  BY <1>11, MarkStep
<1>12. ASSUME NEW c \in Cancellers, CancelLock(c) PROVE IInv'
  BY <1>12, CancelLockStep
<1>13. ASSUME NEW c \in Cancellers, Check(c) PROVE IInv'
  BY <1>13, CheckStep
<1>14. ASSUME NEW c \in Cancellers, NEW room \in BOOLEAN, CallCancel(c, room) PROVE IInv'
  BY <1>14, CallCancelStep
<1>15. CASE UNCHANGED vars
  BY <1>15, StutterStep
<1> QED
  BY <1>1, <1>2, <1>3, <1>4, <1>5, <1>6, <1>7, <1>8, <1>9, <1>10, <1>11, <1>12,
     <1>13, <1>14, <1>15 DEF Next, Coroutine, Cancel

(***************************************************************************)
(* The theorems.                                                           *)
(***************************************************************************)

\* What holds of every reachable state, whatever the constants.
LEMMA Invariance == Spec => []IInv
<1>1. IInv /\ [Next]_vars => IInv'
  BY StepIInv
<1> QED
  BY InitIInv, <1>1, PTL DEF Spec

\* Every variable keeps its type: the stack never empties, at stays in it.
THEOREM CancelTypeCorrect == Spec => []TypeOK
<1>1. IInv => TypeOK
  BY DEF IInv
<1> QED
  BY <1>1, Invariance, PTL

\* The chain's spinlock excludes: one canceller or the hooking loop has it.
THEOREM LockExcludes == Spec => []LockHolder
<1>1. IInv => LockHolder
  BY DEF IInv
<1> QED
  BY <1>1, Invariance, PTL

\* The hook bits are those of the tasks that wait, until an EAGAIN.
THEOREM BitsFollowStack == Spec => []HookedIsPath
<1>1. IInv => HookedIsPath
  BY DEF IInv
<1> QED
  BY <1>1, Invariance, PTL

\* No cancel is missed: a canceller of an outstanding operation is on its way
\* or has asked the kernel, however its mark interleaves with the hooks.
THEOREM NobodyIsMissed == Spec => []NobodyMissed
<1>1. IInv => NobodyMissed
  BY DEF IInv
<1> QED
  BY <1>1, Invariance, PTL

\* Operations are refused as cancelled only for cause, or after an EAGAIN.
THEOREM RefusalsHaveCause == Spec => []RefusedForCause
<1>1. IInv => RefusedForCause
  BY DEF IInv
<1> QED
  BY <1>1, Invariance, PTL

\* A hook that has reached the root leaves no marked task unwatched.
LEMMA StickyStep ==
  ASSUME IInv, [Next]_vars, phase = "hook", phase' = "prep",
         NEW t \in Path \cap marked
  PROVE  \E c \in Cancellers : target[c] = t /\ cpc[c] = "lock"
<1>1. HookNext
  BY DEF Next, Coroutine, Cancel, Call, Return, Issue, HookLock, HookFails, Prep,
         PrepFails, Completes, Unhook, Mark, CancelLock, Check, CallCancel, vars,
         coroutine
<1>2. Len(stack) \in Nat /\ at \in 1..Len(stack) /\ at = 1 /\ stack[at] \notin marked
  BY <1>1 DEF HookNext, IInv, StackInv
<1>3. PICK i \in 1..Len(stack) : stack[i] = t
  BY DEF Path
<1>4. i \in (at + 1)..Len(stack)
  BY <1>2, <1>3
<1> QED
  BY <1>3, <1>4 DEF IInv, Watched

\* A cancel sticks: no operation begins below a marked task, but under the eyes
\* of the canceller that has just marked it.
THEOREM CancelSticks == Spec => Sticky
<1>1. IInv /\ [Next]_vars =>
        [phase = "hook" /\ phase' = "prep" =>
           \A t \in Path \cap marked :
             \E c \in Cancellers : target[c] = t /\ cpc[c] = "lock"]_vars
  BY StickyStep
<1> QED
  BY <1>1, Invariance, PTL DEF Spec, Sticky

\* A canceller asks the kernel only for operations its own task waits for.
THEOREM CancelHitsItsOwn == Spec => CancelsItsOwn
<1>1. IInv /\ [Next]_vars =>
        [\A c \in Cancellers :
           cpc[c] = "call" /\ cpc'[c] = "end" /\ asked' # asked => target[c] \in Path]_vars
  <2> SUFFICES ASSUME IInv, [Next]_vars, NEW c \in Cancellers,
                      cpc[c] = "call", cpc'[c] = "end", asked' # asked
               PROVE  target[c] \in Path
    OBVIOUS
  <2>1. PICK d \in Cancellers, room \in BOOLEAN : CallCancel(d, room)
    BY DEF Next, Coroutine, Cancel, Call, Return, Issue, HookLock, HookNext, HookFails,
           Prep, PrepFails, Completes, Unhook, Mark, CancelLock, Check, vars, history,
           cancel
  <2>2. d = c
    BY <2>1 DEF CallCancel, IInv, TypeOK
  <2>3. phase = "pending"
    BY <2>1 DEF CallCancel
  <2> QED
    BY <2>2, <2>3 DEF IInv, OwnOperation
<1> QED
  BY <1>1, Invariance, PTL DEF Spec, CancelsItsOwn
=============================================================================
