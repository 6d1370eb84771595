--------------------------- MODULE EventLoopProofs ---------------------------
(***************************************************************************)
(* Theorems about EventLoop, for every set of commands and every length of *)
(* the submission queue: its types, that no wakeup of the writer is lost,  *)
(* and how many operations the reader, the writer and the ticker have.     *)
(***************************************************************************)
EXTENDS EventLoop, FiniteSetTheorems, TLAPS

USE OpsAssumption, EntriesAssumption, TickerAssumption

Event == LoopOps \cup {"signal"}

(***************************************************************************)
(* How often an operation is in a queue.                                   *)
(***************************************************************************)

InSeq(s, op) == Cardinality({n \in DOMAIN s : s[n] = op})
InBatch(op)  == Cardinality({n \in (i + 1)..Len(batch) : batch[n] = op})
Waits(op)    == IF op \in inflight THEN 1 ELSE 0

LEMMA CountType ==
  ASSUME NEW s \in Seq(Event), NEW op
  PROVE  /\ IsFiniteSet({n \in DOMAIN s : s[n] = op})
         /\ InSeq(s, op) \in Nat
         /\ InSeq(s, op) = 0 <=> ~Has(s, op)
<1> DEFINE places == {n \in DOMAIN s : s[n] = op}
<1>1. IsFiniteSet(1..Len(s)) /\ places \in SUBSET (1..Len(s))
  BY FS_Interval
<1>2. IsFiniteSet(places)
  BY <1>1, FS_Subset
<1>3. Cardinality(places) \in Nat /\ (Cardinality(places) = 0 <=> places = {})
  BY <1>2, FS_CardinalityType, FS_EmptySet
<1> QED  BY <1>2, <1>3 DEF InSeq, Has

LEMMA CountAppend ==
  ASSUME NEW s \in Seq(Event), NEW x \in Event, NEW op
  PROVE  /\ Append(s, x) \in Seq(Event) /\ Len(Append(s, x)) = Len(s) + 1
         /\ InSeq(Append(s, x), op) = InSeq(s, op) + (IF x = op THEN 1 ELSE 0)
<1> DEFINE t  == Append(s, x)
           ps == {n \in DOMAIN s : s[n] = op}
           pt == {n \in DOMAIN t : t[n] = op}
<1>1. /\ t \in Seq(Event) /\ Len(t) = Len(s) + 1 /\ t[Len(s) + 1] = x
      /\ \A n \in 1..Len(s) : t[n] = s[n]
      /\ DOMAIN s = 1..Len(s) /\ DOMAIN t = 1..(Len(s) + 1) /\ Len(s) \in Nat
  OBVIOUS
<1> HIDE DEF t
<1>2. IsFiniteSet(ps)
  BY CountType
<1> Len(s) + 1 \notin ps
  BY <1>1
<1>3. CASE x = op
  <2>1. pt = ps \cup {Len(s) + 1}
    BY <1>1, <1>3
  <2>2. Cardinality(pt) = Cardinality(ps) + 1
    BY <1>2, <2>1, FS_AddElement
  <2> QED  BY <1>1, <1>3, <2>2 DEF InSeq, t
<1>4. CASE x # op
  <2>1. pt = ps
    BY <1>1, <1>4
  <2>2. InSeq(t, op) = InSeq(s, op) /\ InSeq(s, op) \in Nat
    BY <2>1, CountType DEF InSeq
  <2> QED  BY <1>1, <1>4, <2>2 DEF t
<1> QED  BY <1>3, <1>4

LEMMA CountEmpty == \A op : InSeq(<<>>, op) = 0
<1>1. \A op : {n \in DOMAIN <<>> : <<>>[n] = op} = {}
  OBVIOUS
<1> QED  BY <1>1, FS_EmptySet DEF InSeq

LEMMA BatchType ==
  ASSUME batch \in Seq(Event), i \in 0..Len(batch), NEW op
  PROVE  /\ IsFiniteSet({n \in (i + 1)..Len(batch) : batch[n] = op})
         /\ InBatch(op) \in Nat
         /\ InBatch(op) = 0 <=> ~\E n \in (i + 1)..Len(batch) : batch[n] = op
         /\ i = Len(batch) => InBatch(op) = 0
<1> DEFINE places == {n \in (i + 1)..Len(batch) : batch[n] = op}
<1>1. IsFiniteSet(1..Len(batch)) /\ places \in SUBSET (1..Len(batch))
  BY FS_Interval
<1>2. IsFiniteSet(places)
  BY <1>1, FS_Subset
<1>3. Cardinality(places) \in Nat /\ (Cardinality(places) = 0 <=> places = {})
  BY <1>2, FS_CardinalityType, FS_EmptySet
<1>4. i = Len(batch) => places = {}
  OBVIOUS
<1> QED  BY <1>2, <1>3, <1>4 DEF InBatch

\* The loop takes the next completion of its batch.
LEMMA BatchNext ==
  ASSUME batch \in Seq(Event), i \in 0..Len(batch), i < Len(batch),
         i' = i + 1, batch' = batch, NEW op
  PROVE  /\ InBatch(op) = InBatch(op)' + (IF batch[i + 1] = op THEN 1 ELSE 0)
         /\ InBatch(op)' \in Nat
<1> DEFINE ps == {n \in (i + 1)..Len(batch) : batch[n] = op}
           pt == {n \in (i + 2)..Len(batch) : batch[n] = op}
<1>1. /\ InBatch(op) = Cardinality(ps)
      /\ InBatch(op)' = Cardinality(pt)
  <2>1. i' + 1 = i + 2
    OBVIOUS
  <2>2. InBatch(op)' = Cardinality({n \in (i' + 1)..Len(batch') : batch'[n] = op})
    BY DEF InBatch
  <2> QED  BY <2>1, <2>2 DEF InBatch
<1>2. IsFiniteSet(ps) /\ pt \in SUBSET ps /\ IsFiniteSet(pt) /\ i + 1 \notin pt
  <2>1. IsFiniteSet(ps)
    BY BatchType
  <2>2. i \in Nat /\ Len(batch) \in Nat
    OBVIOUS
  <2>3. \A n \in (i + 2)..Len(batch) : n \in (i + 1)..Len(batch) /\ n # i + 1
    BY <2>2
  <2>4. pt \in SUBSET ps /\ i + 1 \notin pt
    BY <2>3
  <2> QED  BY <2>1, <2>4, FS_Subset
<1>3. Cardinality(pt) \in Nat
  BY <1>2, FS_CardinalityType
<1>4. CASE batch[i + 1] = op
  <2>1. ps = pt \cup {i + 1}
    BY <1>4
  <2>2. Cardinality(ps) = Cardinality(pt) + 1
    BY <1>2, <2>1, FS_AddElement
  <2> QED  BY <1>1, <1>3, <1>4, <2>2
<1>5. CASE batch[i + 1] # op
  <2>1. ps = pt
    BY <1>5
  <2>2. InBatch(op) = InBatch(op)' /\ InBatch(op)' \in Nat
    BY <1>1, <1>3, <2>1
  <2> QED  BY <1>5, <2>2
<1> QED  BY <1>4, <1>5

\* A batch of completions that has just been taken.
LEMMA BatchTaken ==
  ASSUME cq \in Seq(Event), batch' = cq, i' = 0, NEW op
  PROVE  InBatch(op)' = InSeq(cq, op)
<1>1. {n \in (i' + 1)..Len(batch') : batch'[n] = op} = {n \in DOMAIN cq : cq[n] = op}
  OBVIOUS
<1> QED  BY <1>1 DEF InBatch, InSeq


(***************************************************************************)
(* The inductive invariant.                                                *)
(***************************************************************************)

\* A coroutine that the loop's thread runs is never between its steps.
LocalInv == \A o \in Local : pc[o] \in {"idle", "suspended"}

\* The loop goes to sleep only when its batch is used up.
LoopInv == loop \in {"lock_wait", "submit_wait", "wait"} => i = Len(batch)

\* An eventfd write is one command's, and that command's coroutine sleeps.
Suspended == {o \in Ops : pc[o] = "suspended"}
SignalInv == InSeq(sq, "signal") + signals + event <= Cardinality(Suspended)

\* Commands are in writev only while a writev is going.
IovInv == iov # <<>> => down \/ Has(sq, "writev") \/ "writev" \in inflight

\* Where a command that is committed and not answered is.
RingCount ==
  committed = Len(iov) + Len(srv) + InSeq(cq, "recv") + InBatch("recv")

Inv == /\ TypeOK /\ LocalInv /\ LoopInv /\ SignalInv /\ IovInv /\ RingCount
       /\ OneOperationEach

LEMMA OpsFinite ==
  IsFiniteSet(Ops) /\ Cardinality(Ops) \in Nat
BY FS_Union, FS_CardinalityType DEF Ops

\* One more coroutine sleeps, or as many as before.
LEMMA SuspendedStep ==
  ASSUME TypeOK, NEW o \in Ops, pc[o] # "suspended",
         NEW p \in {"lock", "prep", "write", "suspended"},
         pc' = [pc EXCEPT ![o] = p]
  PROVE  Cardinality(Suspended') =
           Cardinality(Suspended) + (IF p = "suspended" THEN 1 ELSE 0)
<1>1. Suspended \in SUBSET Ops /\ IsFiniteSet(Suspended) /\ o \notin Suspended
  BY OpsFinite, FS_Subset DEF Suspended
<1>2. Cardinality(Suspended) \in Nat
  BY <1>1, FS_CardinalityType
<1>3. CASE p = "suspended"
  <2>1. Suspended' = Suspended \cup {o}
    BY <1>3 DEF Suspended, TypeOK
  <2> QED  BY <1>1, <1>2, <1>3, <2>1, FS_AddElement
<1>4. CASE p # "suspended"
  <2>1. Suspended' = Suspended
    BY <1>4 DEF Suspended, TypeOK
  <2> QED  BY <1>2, <1>4, <2>1
<1> QED  BY <1>3, <1>4

LEMMA SuspendedType ==
  /\ Cardinality(Suspended) \in Nat
  /\ Cardinality(Suspended) <= Cardinality(Ops)
BY OpsFinite, FS_Subset, FS_CardinalityType DEF Suspended

LEMMA GoingIs ==
  \A op : Going(op) = InSeq(sq, op) + InSeq(cq, op) + InBatch(op) + Waits(op)
BY DEF Going, InSeq, InBatch, Waits

\* What TypeOK says of the queues of the loop, with their tallies.
LEMMA Tallies ==
  ASSUME TypeOK, NEW op
  PROVE  /\ sq \in Seq(Event) /\ cq \in Seq(Event) /\ batch \in Seq(Event)
         /\ i \in Nat /\ Len(batch) \in Nat /\ i <= Len(batch)
         /\ InSeq(sq, op) \in Nat /\ InSeq(cq, op) \in Nat /\ InBatch(op) \in Nat
         /\ Waits(op) \in {0, 1}
<1>1. /\ sq \in Seq(Event) /\ cq \in Seq(Event) /\ batch \in Seq(Event)
      /\ i \in 0..Len(batch)
  BY DEF TypeOK, Event
<1>2. InSeq(sq, op) \in Nat /\ InSeq(cq, op) \in Nat
  BY <1>1, CountType
<1>3. InBatch(op) \in Nat
  BY <1>1, BatchType
<1>4. Waits(op) \in {0, 1}
  BY DEF Waits
<1>5. Len(batch) \in Nat /\ i \in Nat /\ i <= Len(batch)
  BY <1>1
<1> QED  BY <1>1, <1>2, <1>3, <1>4, <1>5

\* Prep for one operation.
LEMMA PrepOne ==
  ASSUME TypeOK, ~down, NEW x \in LoopOps, Prep(<<x>>)
  PROVE  \/ down' = FALSE /\ sq' = Append(sq, x) /\ Len(sq) < SqEntries
         \/ down' = TRUE /\ sq' = sq
<1>1. sq \in Seq(Event) /\ Len(sq) \in Nat /\ down = FALSE
  BY DEF TypeOK, Event
<1>2. sq \o <<x>> = Append(sq, x) /\ Len(<<x>>) = 1
  BY <1>1
<1>3. CASE Len(sq) + 1 <= SqEntries
  BY <1>1, <1>2, <1>3 DEF Prep
<1>4. CASE ~(Len(sq) + 1 <= SqEntries)
  BY <1>1, <1>2, <1>4 DEF Prep
<1> QED  BY <1>3, <1>4

\* The ticker sets its timer again, or ends: either way nobody is down.
LEMMA TickerStep ==
  ASSUME TypeOK, ResumesTicker
  PROVE  /\ Resumes("timer") /\ UNCHANGED <<ring, down, pc, fate>>
         /\ \/ Prep(<<"timer">>) /\ ticking' = ticking
            \/ sq' = sq /\ ticking' = FALSE
<1>1. sq \in Seq(Event) /\ Len(sq) \in Nat /\ down' = down
  BY DEF TypeOK, Event, ResumesTicker
<1>2. CASE Len(sq) < SqEntries
  <2>1. sq' = Append(sq, "timer") /\ ticking' = ticking
    BY <1>2 DEF ResumesTicker
  <2>2. sq \o <<"timer">> = Append(sq, "timer") /\ Len(sq) + Len(<<"timer">>) <= SqEntries
    BY <1>1, <1>2
  <2>3. Prep(<<"timer">>)
    BY <1>1, <2>1, <2>2 DEF Prep
  <2> QED  BY <2>1, <2>3 DEF ResumesTicker
<1>3. CASE ~(Len(sq) < SqEntries)
  BY <1>3 DEF ResumesTicker
<1> QED  BY <1>2, <1>3

(***************************************************************************)
(* What each kind of step does to the tallies.                             *)
(***************************************************************************)

\* The loop resumes somebody, who prepares at most one operation.
LEMMA ResumesTally ==
  ASSUME TypeOK, NEW c \in Event, Resumes(c), NEW op
  PROVE  /\ InBatch(op) = InBatch(op)' + (IF c = op THEN 1 ELSE 0)
         /\ InBatch(op)' \in Nat
         /\ InSeq(cq, op)' = InSeq(cq, op) /\ Waits(op)' = Waits(op)
         /\ ~down /\ i' \in 0..Len(batch')
<1>1. /\ batch \in Seq(Event) /\ i \in 0..Len(batch)
      /\ i < Len(batch) /\ i' = i + 1 /\ batch' = batch /\ batch[i + 1] = c
  BY DEF TypeOK, Event, Resumes, Completion
<1>2. /\ InBatch(op) = InBatch(op)' + (IF c = op THEN 1 ELSE 0)
      /\ InBatch(op)' \in Nat
  BY <1>1, BatchNext
<1>3. InSeq(cq, op)' = InSeq(cq, op) /\ Waits(op)' = Waits(op)
  BY DEF Resumes, InSeq, Waits
<1>4. i' \in 0..Len(batch')
  BY <1>1
<1> QED  BY <1>2, <1>3, <1>4 DEF Resumes

LEMMA PrepTally ==
  ASSUME TypeOK, ~down, NEW x \in LoopOps, Prep(<<x>>), NEW op
  PROVE  /\ sq' \in Seq(Event) /\ Len(sq') <= SqEntries /\ down' \in BOOLEAN
         /\ Has(sq, op) => Has(sq, op)'
         /\ Has(sq, op)' => Has(sq, op) \/ op = x
         /\ \/ /\ down' = FALSE
               /\ InSeq(sq, op)' = InSeq(sq, op) + (IF x = op THEN 1 ELSE 0)
            \/ down' = TRUE /\ InSeq(sq, op)' = InSeq(sq, op)
<1>1. sq \in Seq(Event) /\ x \in Event /\ Len(sq) \in Nat /\ Len(sq) <= SqEntries
  BY DEF TypeOK, Event
<1>2. CASE down' = FALSE /\ sq' = Append(sq, x) /\ Len(sq) < SqEntries
  <2>1. /\ InSeq(Append(sq, x), op) = InSeq(sq, op) + (IF x = op THEN 1 ELSE 0)
        /\ Append(sq, x) \in Seq(Event) /\ Len(Append(sq, x)) = Len(sq) + 1
    BY <1>1, CountAppend
  <2>2. InSeq(sq, op)' = InSeq(Append(sq, x), op)
    BY <1>2 DEF InSeq
  <2>3. (Has(sq, op) => Has(sq, op)') /\ (Has(sq, op)' => Has(sq, op) \/ op = x)
    BY <1>1, <1>2 DEF Has
  <2>4. sq' \in Seq(Event) /\ Len(sq') <= SqEntries
    BY <1>1, <1>2, <2>1
  <2> QED  BY <1>2, <2>1, <2>2, <2>3, <2>4
<1>3. CASE down' = TRUE /\ sq' = sq
  <2>1. InSeq(sq, op)' = InSeq(sq, op) /\ Has(sq, op)' = Has(sq, op)
    BY <1>3 DEF InSeq, Has
  <2> QED  BY <1>1, <1>3, <2>1
<1> QED  BY <1>2, <1>3, PrepOne

\* An operation of the loop completes.
LEMMA CompletesTally ==
  ASSUME TypeOK, NEW x \in LoopOps, Completes(x), NEW op
  PROVE  /\ cq' \in Seq(Event)
         /\ InSeq(sq, op)' = InSeq(sq, op) /\ InBatch(op)' = InBatch(op)
         /\ InSeq(cq, op)' = InSeq(cq, op) + (IF x = op THEN 1 ELSE 0)
         /\ Waits(op)' = Waits(op) - (IF x = op THEN 1 ELSE 0)
         /\ Has(cq, op)' <=> Has(cq, op) \/ x = op
<1>1. cq \in Seq(Event) /\ x \in Event /\ cq' = Append(cq, x)
  BY DEF TypeOK, Event, Completes
<1>2. /\ InSeq(Append(cq, x), op) = InSeq(cq, op) + (IF x = op THEN 1 ELSE 0)
      /\ Append(cq, x) \in Seq(Event)
  BY <1>1, CountAppend
<1>3. InSeq(cq, op)' = InSeq(Append(cq, x), op)
  BY <1>1 DEF InSeq
<1>4. InSeq(sq, op)' = InSeq(sq, op) /\ InBatch(op)' = InBatch(op)
  BY DEF Completes, InSeq, InBatch
<1>5. Waits(op)' = Waits(op) - (IF x = op THEN 1 ELSE 0)
  BY DEF Completes, Waits
<1>6. Has(cq, op)' <=> Has(cq, op) \/ x = op
  BY <1>1 DEF Has
<1> QED  BY <1>1, <1>2, <1>3, <1>4, <1>5, <1>6

LEMMA WrittenTally ==
  ASSUME TypeOK, EventWritten, NEW op
  PROVE  /\ cq' \in Seq(Event)
         /\ InSeq(sq, op)' = InSeq(sq, op) /\ InBatch(op)' = InBatch(op)
         /\ InSeq(cq, op)' = InSeq(cq, op) + (IF op = "signal" THEN 1 ELSE 0)
         /\ Waits(op)' = Waits(op)
         /\ Has(cq, op)' <=> Has(cq, op) \/ op = "signal"
<1>1. cq \in Seq(Event) /\ "signal" \in Event /\ cq' = Append(cq, "signal")
  BY DEF TypeOK, Event, EventWritten
<1>2. /\ InSeq(Append(cq, "signal"), op)
           = InSeq(cq, op) + (IF "signal" = op THEN 1 ELSE 0)
      /\ Append(cq, "signal") \in Seq(Event)
  BY <1>1, CountAppend
<1>3. InSeq(cq, op)' = InSeq(Append(cq, "signal"), op)
  BY <1>1 DEF InSeq
<1>4. /\ InSeq(sq, op)' = InSeq(sq, op) /\ InBatch(op)' = InBatch(op)
      /\ Waits(op)' = Waits(op)
  BY DEF EventWritten, InSeq, InBatch, Waits
<1>5. Has(cq, op)' <=> Has(cq, op) \/ op = "signal"
  BY <1>1 DEF Has
<1> QED  BY <1>1, <1>2, <1>3, <1>4, <1>5

\* A write of the eventfd is prepared.
LEMMA SignalTally ==
  ASSUME TypeOK, Len(sq) < SqEntries, sq' = Append(sq, "signal"), NEW op
  PROVE  /\ sq' \in Seq(Event) /\ Len(sq') <= SqEntries
         /\ InSeq(sq, op)' = InSeq(sq, op) + (IF op = "signal" THEN 1 ELSE 0)
         /\ Has(sq, op)' <=> Has(sq, op) \/ op = "signal"
<1>1. sq \in Seq(Event) /\ "signal" \in Event /\ Len(sq) \in Nat
  BY DEF TypeOK, Event
<1>2. /\ InSeq(Append(sq, "signal"), op)
           = InSeq(sq, op) + (IF "signal" = op THEN 1 ELSE 0)
      /\ Append(sq, "signal") \in Seq(Event)
      /\ Len(Append(sq, "signal")) = Len(sq) + 1
  BY <1>1, CountAppend
<1>3. InSeq(sq, op)' = InSeq(Append(sq, "signal"), op)
  BY DEF InSeq
<1>4. Has(sq, op)' <=> Has(sq, op) \/ op = "signal"
  BY <1>1 DEF Has
<1> QED  BY <1>1, <1>2, <1>3, <1>4

\* What is prepared is submitted.
LEMMA SubmitTally ==
  ASSUME TypeOK, Submit, NEW op \in LoopOps
  PROVE  /\ InSeq(sq, op)' = 0
         /\ InSeq(cq, op)' = InSeq(cq, op) /\ InBatch(op)' = InBatch(op)
         /\ (op \in inflight') <=> (op \in inflight \/ Has(sq, op))
         /\ InSeq(sq, op) + Waits(op) <= 1 =>
              Waits(op)' = InSeq(sq, op) + Waits(op)
<1>1. InSeq(sq, op)' = 0
  <2>1. InSeq(sq, op)' = InSeq(<<>>, op)
    BY DEF Submit, InSeq
  <2> QED  BY <2>1, CountEmpty
<1>2. InSeq(cq, op)' = InSeq(cq, op) /\ InBatch(op)' = InBatch(op)
  BY DEF Submit, InSeq, InBatch
<1>3. (op \in inflight') <=> (op \in inflight \/ Has(sq, op))
  BY DEF Submit, Has, LoopOps
<1>4. /\ InSeq(sq, op) \in Nat /\ (InSeq(sq, op) = 0 <=> ~Has(sq, op))
      /\ Waits(op) \in {0, 1}
  BY Tallies, CountType
<1>5. InSeq(sq, op) + Waits(op) <= 1 => Waits(op)' = InSeq(sq, op) + Waits(op)
  BY <1>3, <1>4 DEF Waits
<1> QED  BY <1>1, <1>2, <1>3, <1>5

LEMMA WaitReturnsTally ==
  ASSUME TypeOK, LoopInv, WaitReturns, NEW op
  PROVE  /\ InBatch(op) = 0 /\ InBatch(op)' = InSeq(cq, op)
         /\ InSeq(cq, op)' = 0
         /\ InSeq(sq, op)' = InSeq(sq, op) /\ Waits(op)' = Waits(op)
<1>1. cq \in Seq(Event) /\ batch \in Seq(Event) /\ i \in 0..Len(batch)
  BY DEF TypeOK, Event
<1>2. InBatch(op) = 0
  BY <1>1, BatchType DEF LoopInv, WaitReturns
<1>3. InBatch(op)' = InSeq(cq, op)
  BY <1>1, BatchTaken DEF WaitReturns
<1>4. InSeq(cq, op)' = InSeq(<<>>, op)
  BY DEF WaitReturns, InSeq
<1>5. InSeq(sq, op)' = InSeq(sq, op) /\ Waits(op)' = Waits(op)
  BY DEF WaitReturns, InSeq, Waits
<1> QED  BY <1>2, <1>3, <1>4, <1>5, CountEmpty


(***************************************************************************)
(* The invariant holds at first.                                           *)
(***************************************************************************)

LEMMA InitTally ==
  ASSUME Init
  PROVE  /\ sq \in Seq(Event) /\ batch \in Seq(Event) /\ Len(sq) = 2
         /\ \A op : InSeq(sq, op) = (IF op \in {"recv", "read"} THEN 1 ELSE 0)
         /\ \A op : InSeq(cq, op) = 0
         /\ \A op \in Event \ {"timer"} : InBatch(op) = 0
         /\ InBatch("timer") = IF Ticker THEN 1 ELSE 0
<1>1. sq = Append(<<"recv">>, "read") /\ <<"recv">> = Append(<<>>, "recv")
  BY DEF Init
<1>2. /\ <<>> \in Seq(Event) /\ <<"recv">> \in Seq(Event)
      /\ "recv" \in Event /\ "read" \in Event /\ "timer" \in Event
  BY DEF Event, LoopOps
<1>3. ASSUME NEW op
      PROVE  InSeq(sq, op) = (IF op \in {"recv", "read"} THEN 1 ELSE 0)
  <2>1. InSeq(<<"recv">>, op) = InSeq(<<>>, op) + (IF "recv" = op THEN 1 ELSE 0)
    <3>1. InSeq(Append(<<>>, "recv"), op)
            = InSeq(<<>>, op) + (IF "recv" = op THEN 1 ELSE 0)
      BY <1>2, CountAppend
    <3> QED  BY <1>1, <3>1
  <2>2. InSeq(sq, op) = InSeq(<<"recv">>, op) + (IF "read" = op THEN 1 ELSE 0)
    BY <1>1, <1>2, CountAppend
  <2> QED  BY <2>1, <2>2, CountEmpty
<1>4. \A op : InSeq(cq, op) = 0
  BY CountEmpty DEF Init
<1>5. batch \in Seq(Event) /\ (batch = <<>> \/ batch = <<"timer">>) /\ i = 0
  BY <1>2 DEF Init
<1>6. ASSUME NEW op \in Event \ {"timer"}
      PROVE  InBatch(op) = 0
  <2>1. ~\E n \in (i + 1)..Len(batch) : batch[n] = op
    BY <1>5
  <2>2. i \in 0..Len(batch)
    BY <1>5
  <2> QED  BY <1>5, <2>1, <2>2, BatchType
<1>7. sq \in Seq(Event) /\ Len(sq) = 2
  BY <1>2 DEF Init
<1>8. InBatch("timer") = IF Ticker THEN 1 ELSE 0
  <2>1. CASE Ticker
    <3>1. {n \in (i + 1)..Len(batch) : batch[n] = "timer"} = {1}
      BY <2>1 DEF Init
    <3> QED  BY <2>1, <3>1, FS_Singleton DEF InBatch
  <2>2. CASE ~Ticker
    <3>1. {n \in (i + 1)..Len(batch) : batch[n] = "timer"} = {}
      BY <2>2 DEF Init
    <3> QED  BY <2>2, <3>1, FS_EmptySet DEF InBatch
  <2> QED  BY <2>1, <2>2
<1> QED  BY <1>3, <1>4, <1>5, <1>6, <1>7, <1>8

LEMMA InitInv == Init => Inv
<1> SUFFICES ASSUME Init PROVE Inv
  OBVIOUS
<1>1. TypeOK
  <2>1. /\ sq \in Seq(LoopOps \cup {"signal"}) /\ Len(sq) <= SqEntries
        /\ batch \in Seq(LoopOps \cup {"signal"}) /\ cq = <<>> /\ queue = <<>>
        /\ i \in 0..Len(batch)
    <3>1. sq \in Seq(Event) /\ batch \in Seq(Event) /\ Len(sq) = 2
      BY InitTally
    <3>2. i = 0 /\ Len(batch) \in Nat /\ cq = <<>> /\ queue = <<>>
      BY <3>1 DEF Init
    <3> QED  BY <3>1, <3>2 DEF Event
  <2>2. committed = 0 /\ signals = 0 /\ event = 0 /\ Cardinality(Ops) \in Nat
    BY OpsFinite DEF Init
  <2>3. committed \in 0..Len(queue) /\ signals \in 0..Cardinality(Ops)
        /\ event \in 0..Cardinality(Ops)
    BY <2>1, <2>2
  <2>4. /\ inflight \subseteq LoopOps /\ cq \in Seq(LoopOps \cup {"signal"})
        /\ queue \in Seq(Ops) /\ iov \in Seq(Ops) /\ srv \in Seq(Ops)
    BY DEF Init
  <2>5. /\ pc \in [Ops -> {"idle", "lock", "prep", "write", "suspended"}]
        /\ fate \in [Ops -> {"none", "reply"}]
    BY DEF Init
  <2> QED  BY <2>1, <2>3, <2>4, <2>5 DEF Init, TypeOK
<1>2. LocalInv /\ LoopInv
  BY DEF Init, LocalInv, LoopInv, Ops
<1>3. SignalInv
  <2>1. InSeq(sq, "signal") = 0
    BY InitTally
  <2> QED  BY <2>1, SuspendedType DEF Init, SignalInv
<1>4. IovInv
  BY DEF Init, IovInv
<1>5. RingCount
  <2>1. InSeq(cq, "recv") = 0 /\ InBatch("recv") = 0
    BY InitTally DEF Event, LoopOps
  <2> QED  BY <2>1 DEF Init, RingCount
<1>6. OneOperationEach
  <2>1. /\ InSeq(sq, "recv") = 1 /\ InSeq(sq, "read") = 1
        /\ InSeq(sq, "writev") = 0 /\ InSeq(sq, "timer") = 0
    BY InitTally
  <2>2. ASSUME NEW op \in {"recv", "read", "writev"}
        PROVE  InSeq(cq, op) = 0 /\ InBatch(op) = 0 /\ Waits(op) = 0
    BY InitTally DEF Event, LoopOps, Init, Waits
  <2>3. /\ InSeq(cq, "timer") = 0 /\ Waits("timer") = 0
        /\ InBatch("timer") = IF Ticker THEN 1 ELSE 0
    BY InitTally DEF Init, Waits
  <2>4. Going("recv") = 1 /\ Going("read") = 1 /\ Going("writev") = 0
    BY <2>1, <2>2, GoingIs
  <2>5. Going("timer") = IF Ticker THEN 1 ELSE 0
    BY <2>1, <2>3, GoingIs
  <2>6. down = FALSE /\ ticking = Ticker
    BY DEF Init
  <2> QED  BY <2>4, <2>5, <2>6 DEF OneOperationEach
<1> QED  BY <1>1, <1>2, <1>3, <1>4, <1>5, <1>6 DEF Inv

(***************************************************************************)
(* The invariant is kept.                                                  *)
(***************************************************************************)

\* Steps that leave the operations of the loop where they are.
LEMMA SameTally ==
  ASSUME UNCHANGED <<cq, inflight, batch, i>>, NEW op
  PROVE  /\ InSeq(cq, op)' = InSeq(cq, op) /\ InBatch(op)' = InBatch(op)
         /\ Waits(op)' = Waits(op)
         /\ (sq' = sq => InSeq(sq, op)' = InSeq(sq, op))
BY DEF InSeq, InBatch, Waits

\* The writer is resumed: no command is in a writev any more.
LEMMA WriterIsFree ==
  ASSUME Inv, NEW c \in {"read", "writev"}, Resumes(c)
  PROVE  iov = <<>>
<1>1. ~down /\ TypeOK /\ Going("read") + Going("writev") = 1
  <2>1. /\ ~down /\ TypeOK /\ Going("recv") \in 0..1
        /\ Going("read") + Going("writev") \in 0..1
        /\ Going("recv") + (Going("read") + Going("writev")) = 2
    BY DEF Inv, Resumes, OneOperationEach
  <2> QED  BY <2>1
<1>2. InBatch(c) = InBatch(c)' + 1 /\ InBatch(c)' \in Nat
  BY <1>1, ResumesTally DEF Event, LoopOps
<1>3. SUFFICES ASSUME Has(sq, "writev") \/ "writev" \in inflight
      PROVE  FALSE
  BY <1>1 DEF Inv, IovInv
<1>4. \A op : /\ InSeq(sq, op) \in Nat /\ InSeq(cq, op) \in Nat
              /\ InBatch(op) \in Nat /\ Waits(op) \in {0, 1}
  BY <1>1, Tallies
<1>5. InSeq(sq, "writev") + Waits("writev") >= 1
  <2>1. sq \in Seq(Event)
    BY <1>1 DEF TypeOK, Event
  <2>2. InSeq(sq, "writev") = 0 => ~Has(sq, "writev")
    BY <2>1, CountType
  <2> QED  BY <1>3, <1>4, <2>2 DEF Waits
<1>6. InSeq(sq, "writev") + Waits("writev") + InBatch(c)
        <= Going("read") + Going("writev")
  BY <1>4, GoingIs
<1> QED  BY <1>1, <1>2, <1>4, <1>5, <1>6

LEMMA SignalStep == Inv /\ [Next]_vars => SignalInv'
<1> SUFFICES ASSUME Inv, [Next]_vars PROVE SignalInv'
  OBVIOUS
<1> DEFINE Asleep == Cardinality(Suspended)
<1>1. /\ TypeOK /\ InSeq(sq, "signal") \in Nat /\ signals \in Nat /\ event \in Nat
      /\ InSeq(sq, "signal") + signals + event <= Asleep /\ Asleep \in Nat
  <2>1. TypeOK /\ SignalInv
    BY DEF Inv
  <2>2. signals \in Nat /\ event \in Nat
    BY <2>1, OpsFinite DEF TypeOK
  <2> QED  BY <2>1, <2>2, Tallies, SuspendedType DEF SignalInv
<1>2. pc' = pc => Asleep' = Asleep
  BY DEF Suspended
<1>3. sq' = sq => InSeq(sq, "signal")' = InSeq(sq, "signal")
  BY DEF InSeq
<1>4. ASSUME NEW o \in Ops, AwaitLocal(o) PROVE SignalInv'
  <2>1. Asleep' = Asleep + 1 /\ signals' = signals
    BY <1>1, <1>4, SuspendedStep DEF AwaitLocal
  <2>2. CASE Len(sq) < SqEntries
    <3>1. InSeq(sq, "signal")' = InSeq(sq, "signal") + 1 /\ event' = event
      BY <1>1, <1>4, <2>2, SignalTally DEF AwaitLocal
    <3> QED  BY <1>1, <2>1, <3>1 DEF SignalInv
  <2>3. CASE ~(Len(sq) < SqEntries)
    <3>1. InSeq(sq, "signal")' = InSeq(sq, "signal") /\ event' = event + 1
      BY <1>3, <1>4, <2>3 DEF AwaitLocal
    <3> QED  BY <1>1, <2>1, <3>1 DEF SignalInv
  <2> QED  BY <2>2, <2>3
<1>5. ASSUME NEW o \in Ops, Push(o) \/ Lock(o) PROVE SignalInv'
  <2>1. Asleep' = Asleep
    BY <1>1, <1>5, SuspendedStep DEF Push, Lock
  <2> QED  BY <1>1, <1>3, <1>5, <2>1 DEF Push, Lock, uring, SignalInv
<1>6. ASSUME NEW o \in Ops, PrepSignal(o) PROVE SignalInv'
  <2>1. CASE Len(sq) < SqEntries
    <3>1. InSeq(sq, "signal")' = InSeq(sq, "signal") + 1
      BY <1>1, <1>6, <2>1, SignalTally DEF PrepSignal
    <3>2. Asleep' = Asleep + 1
      BY <1>1, <1>6, <2>1, SuspendedStep DEF PrepSignal
    <3> QED  BY <1>1, <1>6, <3>1, <3>2 DEF SignalInv, PrepSignal
  <2>2. CASE ~(Len(sq) < SqEntries)
    <3>1. Asleep' = Asleep
      BY <1>1, <1>6, <2>2, SuspendedStep DEF PrepSignal
    <3> QED  BY <1>1, <1>3, <1>6, <2>2, <3>1 DEF SignalInv, PrepSignal
  <2> QED  BY <2>1, <2>2
<1>7. ASSUME NEW o \in Ops, WriteSignal(o) PROVE SignalInv'
  <2>1. Asleep' = Asleep + 1
    BY <1>1, <1>7, SuspendedStep DEF WriteSignal
  <2> QED  BY <1>1, <1>3, <1>7, <2>1 DEF SignalInv, WriteSignal
<1>8. ASSUME NEW c \in Event, Resumes(c), NEW x \in LoopOps,
             sq' = sq \/ Prep(<<x>>), pc' = pc
      PROVE  SignalInv'
  <2>1. InSeq(sq, "signal")' = InSeq(sq, "signal")
    <3>1. ~down /\ x # "signal"
      BY <1>8 DEF Resumes, LoopOps
    <3>2. CASE Prep(<<x>>)
      <4>1. \/ InSeq(sq, "signal")'
                 = InSeq(sq, "signal") + (IF x = "signal" THEN 1 ELSE 0)
            \/ InSeq(sq, "signal")' = InSeq(sq, "signal")
        BY <1>1, <3>1, <3>2, PrepTally
      <4> QED  BY <1>1, <3>1, <4>1
    <3> QED  BY <1>3, <1>8, <3>2
  <2> QED  BY <1>1, <1>2, <1>8, <2>1 DEF SignalInv, Resumes
<1>9. CASE ResumesNobody
  BY <1>8, <1>9 DEF ResumesNobody, Event, LoopOps
<1>10. CASE ResumesWriter
  <2>1. Prep(<<"read">>) \/ Prep(<<"writev">>)
    BY <1>10 DEF ResumesWriter
  <2> QED  BY <1>8, <1>10, <2>1 DEF ResumesWriter, Event, LoopOps
<1>11. CASE ResumesReader
  BY <1>8, <1>11 DEF ResumesReader, Event, LoopOps
<1>12. CASE ResumesTicker
  BY <1>1, <1>8, <1>12, TickerStep DEF Event, LoopOps
<1>13. CASE Submit
  <2>1. signals' = signals + InSeq(sq, "signal") /\ event' = event /\ pc' = pc
    BY <1>13 DEF Submit, InSeq
  <2>2. InSeq(sq, "signal")' = 0
    <3>1. InSeq(sq, "signal")' = InSeq(<<>>, "signal")
      BY <1>13 DEF Submit, InSeq
    <3> QED  BY <3>1, CountEmpty
  <2> QED  BY <1>1, <1>2, <2>1, <2>2 DEF SignalInv
<1>14. CASE BatchDone \/ LockToSubmit \/ WaitReturns \/ UNCHANGED vars
  <2>1. sq' = sq /\ signals' = signals /\ event' = event /\ pc' = pc
    BY <1>14 DEF BatchDone, LockToSubmit, WaitReturns, vars, uring
  <2> QED  BY <1>1, <1>2, <1>3, <2>1 DEF SignalInv
<1>15. CASE EventWritten
  <2>1. sq' = sq /\ signals' = signals - 1 /\ event' = event + 1 /\ pc' = pc
    BY <1>15 DEF EventWritten
  <2> QED  BY <1>1, <1>2, <1>3, <2>1 DEF SignalInv
<1>16. CASE EventRead \/ Sent \/ Received \/ TimerFires
  <2>1. sq' = sq /\ signals' = signals /\ event' \in {0, event} /\ pc' = pc
    BY <1>16 DEF EventRead, Sent, Received, TimerFires, Completes
  <2> QED  BY <1>1, <1>2, <1>3, <2>1 DEF SignalInv
<1>17. CASE Finished \/ \E o \in Ops : Spin(o)
  BY <1>14, <1>17 DEF Finished, Spin
<1> QED
  BY <1>4, <1>5, <1>6, <1>7, <1>9, <1>10, <1>11, <1>12, <1>13, <1>14, <1>15,
     <1>16, <1>17 DEF Next, Await, Signalling, Loop, Kernel


LEMMA IovStep == Inv /\ [Next]_vars => IovInv'
<1> SUFFICES ASSUME Inv, [Next]_vars, iov' # <<>>
             PROVE  down' \/ Has(sq, "writev")' \/ "writev" \in inflight'
  BY DEF IovInv
<1>1. TypeOK /\ (iov # <<>> => down \/ Has(sq, "writev") \/ "writev" \in inflight)
  BY DEF Inv, IovInv
<1>2. ASSUME NEW o \in Ops, Await(o) \/ Signalling(o)
      PROVE  down' \/ Has(sq, "writev")' \/ "writev" \in inflight'
  <2>1. down' = down /\ inflight' = inflight /\ iov' = iov
    BY <1>2 DEF Await, AwaitLocal, Push, Signalling, Lock, PrepSignal,
                WriteSignal, uring, ring
  <2>2. sq' = sq \/ (Len(sq) < SqEntries /\ sq' = Append(sq, "signal"))
    BY <1>2 DEF Await, AwaitLocal, Push, Signalling, Lock, PrepSignal,
                WriteSignal, uring
  <2>3. Has(sq, "writev") => Has(sq, "writev")'
    BY <1>1, <2>2, SignalTally DEF Has
  <2> QED  BY <1>1, <2>1, <2>3
<1>3. CASE ResumesNobody
  BY <1>1, <1>3 DEF ResumesNobody, Resumes, ring, Has
<1>4. CASE ResumesWriter
  <2>1. committed < Len(queue)
    <3>1. ~(committed < Len(queue)) => iov' = <<>>
      BY <1>1, <1>4 DEF ResumesWriter, TypeOK
    <3> QED  BY <3>1
  <2>2. Prep(<<"writev">>) /\ ~down
    BY <1>4, <2>1 DEF ResumesWriter, Resumes
  <2>3. \/ sq' = Append(sq, "writev")
        \/ down' = TRUE
    BY <1>1, <2>2, PrepOne DEF LoopOps
  <2>4. sq' = Append(sq, "writev") => Has(sq, "writev")'
    <3>1. sq \in Seq(Event)
      BY <1>1 DEF TypeOK, Event
    <3>2. /\ Len(sq) + 1 \in DOMAIN Append(sq, "writev")
          /\ Append(sq, "writev")[Len(sq) + 1] = "writev"
      BY <3>1
    <3> QED  BY <3>2 DEF Has
  <2> QED  BY <2>3, <2>4
<1>5. CASE ResumesReader \/ ResumesTicker
  <2>1. /\ ~down /\ iov' = iov /\ inflight' = inflight
        /\ Prep(<<"recv">>) \/ Prep(<<"timer">>) \/ sq' = sq
    BY <1>1, <1>5, TickerStep DEF ResumesReader, Resumes, ring
  <2>2. Has(sq, "writev") => Has(sq, "writev")'
    BY <1>1, <2>1, PrepTally DEF LoopOps, Has
  <2> QED  BY <1>1, <2>1, <2>2
<1>6. CASE Submit
  <2>1. iov' = iov /\ down' = down
    BY <1>6 DEF Submit, ring
  <2>2. ("writev" \in inflight') <=> ("writev" \in inflight \/ Has(sq, "writev"))
    BY <1>1, <1>6, SubmitTally DEF LoopOps
  <2> QED  BY <1>1, <2>1, <2>2
<1>7. CASE BatchDone \/ LockToSubmit \/ WaitReturns \/ EventWritten \/ UNCHANGED vars
  <2>1. sq' = sq /\ iov' = iov /\ inflight' = inflight /\ down' = down
    BY <1>7 DEF BatchDone, LockToSubmit, WaitReturns, EventWritten, vars, uring, ring
  <2> QED  BY <1>1, <2>1 DEF Has
<1>8. CASE Sent
  BY <1>8 DEF Sent
<1>9. CASE EventRead \/ Received \/ TimerFires
  <2>1. /\ sq' = sq /\ iov' = iov /\ down' = down
        /\ ("writev" \in inflight => "writev" \in inflight')
    BY <1>9 DEF EventRead, Received, TimerFires, Completes
  <2> QED  BY <1>1, <2>1 DEF Has
<1>10. CASE Finished \/ \E o \in Ops : Spin(o)
  BY <1>7, <1>10 DEF Finished, Spin
<1> QED
  BY <1>2, <1>3, <1>4, <1>5, <1>6, <1>7, <1>8, <1>9, <1>10
  DEF Next, Loop, Kernel

LEMMA RingStep == Inv /\ [Next]_vars => RingCount'
<1> SUFFICES ASSUME Inv, [Next]_vars PROVE RingCount'
  OBVIOUS
<1>1. /\ TypeOK /\ RingCount /\ LoopInv
      /\ InSeq(cq, "recv") \in Nat /\ InBatch("recv") \in Nat
      /\ Len(iov) \in Nat /\ Len(srv) \in Nat
  <2>1. TypeOK /\ RingCount /\ LoopInv
    BY DEF Inv
  <2> QED  BY <2>1, Tallies DEF TypeOK
<1>2. ASSUME UNCHANGED <<cq, batch, i, committed, iov, srv>>
      PROVE  RingCount'
  BY <1>1, <1>2 DEF RingCount, InSeq, InBatch
<1>3. ASSUME NEW o \in Ops, Await(o) \/ Signalling(o) \/ Spin(o)
      PROVE  RingCount'
  BY <1>2, <1>3 DEF Await, AwaitLocal, Push, Signalling, Lock, PrepSignal,
                    WriteSignal, Spin, vars, uring, ring
<1>4. ASSUME NEW c \in Event \ {"recv"}, Resumes(c), committed' = committed,
             iov' = iov, srv' = srv
      PROVE  RingCount'
  <2>1. InBatch("recv")' = InBatch("recv") /\ InSeq(cq, "recv")' = InSeq(cq, "recv")
    BY <1>1, <1>4, ResumesTally
  <2> QED  BY <1>1, <1>4, <2>1 DEF RingCount
<1>5. CASE ResumesNobody \/ ResumesTicker
  BY <1>4, <1>5 DEF ResumesNobody, ResumesTicker, ring, Event, LoopOps
<1>6. CASE ResumesWriter
  <2>1. PICK c \in {"read", "writev"} : Resumes(c)
    BY <1>6 DEF ResumesWriter
  <2>2. iov = <<>>
    BY <2>1, WriterIsFree
  <2>3. InBatch("recv")' = InBatch("recv") /\ InSeq(cq, "recv")' = InSeq(cq, "recv")
    <3>1. c \in Event /\ c # "recv"
      BY DEF Event, LoopOps
    <3> QED  BY <1>1, <2>1, <3>1, ResumesTally
  <2>4. /\ committed' = Len(queue) /\ srv' = srv
        /\ Len(iov') = Len(queue) - committed
    BY <1>1, <1>6 DEF ResumesWriter, TypeOK
  <2>5. Len(queue) \in Nat /\ committed \in Nat
    BY <1>1 DEF TypeOK
  <2>6. Len(iov) = 0
    BY <2>2
  <2>7. committed = Len(srv) + InSeq(cq, "recv") + InBatch("recv")
    BY <1>1, <2>6 DEF RingCount
  <2>8. committed' = Len(iov') + Len(srv') + InSeq(cq, "recv") + InBatch("recv")
    <3>1. committed' = (Len(queue) - committed) + committed
      BY <2>4, <2>5
    <3>2. Len(iov') = Len(queue) - committed /\ Len(srv') = Len(srv)
      BY <2>4
    <3>3. Len(queue) - committed \in Int
      BY <2>5
    <3> QED  BY <1>1, <2>7, <3>1, <3>2, <3>3
  <2> QED  BY <2>3, <2>8 DEF RingCount
<1>7. CASE ResumesReader
  <2>1. /\ InBatch("recv") = InBatch("recv")' + 1 /\ InBatch("recv")' \in Nat
        /\ InSeq(cq, "recv")' = InSeq(cq, "recv")
    BY <1>1, <1>7, ResumesTally DEF ResumesReader, Event, LoopOps
  <2>2. committed' = committed - 1 /\ iov' = iov /\ srv' = srv
    BY <1>7 DEF ResumesReader
  <2> QED  BY <1>1, <2>1, <2>2 DEF RingCount
<1>8. CASE WaitReturns
  <2>1. /\ InBatch("recv") = 0 /\ InBatch("recv")' = InSeq(cq, "recv")
        /\ InSeq(cq, "recv")' = 0
    BY <1>1, <1>8, WaitReturnsTally
  <2>2. committed' = committed /\ iov' = iov /\ srv' = srv
    BY <1>8 DEF WaitReturns, ring
  <2> QED  BY <1>1, <2>1, <2>2 DEF RingCount
<1>9. CASE BatchDone \/ LockToSubmit \/ Submit \/ Finished \/ UNCHANGED vars
  BY <1>2, <1>9 DEF BatchDone, LockToSubmit, Submit, Finished, vars, uring, ring
<1>10. CASE EventWritten
  <2>1. InSeq(cq, "recv")' = InSeq(cq, "recv") /\ InBatch("recv")' = InBatch("recv")
    BY <1>1, <1>10, WrittenTally
  <2> QED  BY <1>1, <1>10, <2>1 DEF EventWritten, ring, RingCount
<1>11. CASE EventRead \/ TimerFires
  <2>1. Completes("read") \/ Completes("timer")
    BY <1>11 DEF EventRead, TimerFires
  <2>2. InSeq(cq, "recv")' = InSeq(cq, "recv") /\ InBatch("recv")' = InBatch("recv")
    BY <1>1, <2>1, CompletesTally DEF LoopOps
  <2>3. committed' = committed /\ iov' = iov /\ srv' = srv
    BY <1>11 DEF EventRead, TimerFires, Completes
  <2> QED  BY <1>1, <2>2, <2>3 DEF RingCount
<1>12. CASE Sent
  <2>1. InSeq(cq, "recv")' = InSeq(cq, "recv") /\ InBatch("recv")' = InBatch("recv")
    BY <1>1, <1>12, CompletesTally DEF LoopOps, Sent
  <2>2. committed' = committed /\ Len(iov') = 0 /\ Len(srv') = Len(srv) + Len(iov)
    BY <1>1, <1>12 DEF Sent, Completes, TypeOK
  <2> QED  BY <1>1, <2>1, <2>2 DEF RingCount
<1>13. CASE Received
  <2>1. /\ InSeq(cq, "recv")' = InSeq(cq, "recv") + 1
        /\ InBatch("recv")' = InBatch("recv")
    BY <1>1, <1>13, CompletesTally DEF LoopOps, Received
  <2>2. committed' = committed /\ iov' = iov /\ Len(srv') = Len(srv) - 1
    BY <1>1, <1>13 DEF Received, Completes, TypeOK
  <2> QED  BY <1>1, <2>1, <2>2 DEF RingCount
<1> QED
  BY <1>3, <1>5, <1>6, <1>7, <1>8, <1>9, <1>10, <1>11, <1>12, <1>13
  DEF Next, Loop, Kernel


LEMMA LoopStep == Inv /\ [Next]_vars => LocalInv' /\ LoopInv'
<1> SUFFICES ASSUME Inv, [Next]_vars PROVE LocalInv' /\ LoopInv'
  OBVIOUS
<1>1. /\ TypeOK /\ (\A o \in Local : pc[o] \in {"idle", "suspended"}) /\ LoopInv
      /\ Local \cap Foreign = {}
  BY DEF Inv, LocalInv
<1>2. LocalInv'
  <2>1. ASSUME NEW o \in Ops, Await(o) \/ Signalling(o)
        PROVE  LocalInv'
    <3>1. CASE o \in Local
      <4>1. pc' = [pc EXCEPT ![o] = "suspended"]
        BY <1>1, <2>1, <3>1 DEF Await, AwaitLocal, Push, Signalling, Lock,
                                PrepSignal, WriteSignal
      <4> QED  BY <1>1, <4>1 DEF LocalInv, TypeOK
    <3>2. CASE o \notin Local
      <4>1. \A l \in Local : pc'[l] = pc[l]
        BY <1>1, <2>1, <3>2 DEF Await, AwaitLocal, Push, Signalling, Lock,
                                PrepSignal, WriteSignal, TypeOK, Ops
      <4> QED  BY <1>1, <4>1 DEF LocalInv
    <3> QED  BY <3>1, <3>2
  <2>2. pc' = pc => LocalInv'
    BY <1>1 DEF LocalInv
  <2>3. Loop \/ Kernel \/ Finished \/ (\E o \in Ops : Spin(o)) \/ UNCHANGED vars
          => pc' = pc
    BY DEF Loop, Kernel, Finished, Spin, vars, ResumesNobody, ResumesWriter,
           ResumesReader, ResumesTicker, BatchDone, LockToSubmit, Submit,
           WaitReturns, EventWritten, EventRead, Sent, Received, TimerFires,
           Completes
  <2> QED  BY <2>1, <2>2, <2>3 DEF Next
<1>3. LoopInv'
  <2>1. CASE UNCHANGED <<loop, i, batch>>
    BY <1>1, <2>1 DEF LoopInv
  <2>2. (\E o \in Ops : Await(o) \/ Signalling(o) \/ Spin(o)) \/ Kernel
          \/ Finished \/ UNCHANGED vars => UNCHANGED <<loop, i, batch>>
    BY DEF Await, AwaitLocal, Push, Signalling, Lock, PrepSignal, WriteSignal,
           Spin, Kernel, EventWritten, EventRead, Sent, Received, TimerFires,
           Completes, Finished, vars
  <2>3. CASE ResumesNobody \/ ResumesWriter \/ ResumesReader \/ ResumesTicker
    BY <2>3 DEF ResumesNobody, ResumesWriter, ResumesReader, ResumesTicker,
                Resumes, LoopInv
  <2>4. CASE BatchDone \/ LockToSubmit \/ Submit \/ WaitReturns
    BY <1>1, <2>4 DEF BatchDone, LockToSubmit, Submit, WaitReturns, LoopInv
  <2> QED  BY <2>1, <2>2, <2>3, <2>4 DEF Next, Loop
<1> QED  BY <1>2, <1>3

LEMMA OneStep == Inv /\ [Next]_vars => OneOperationEach'
<1> SUFFICES ASSUME Inv, [Next]_vars
             PROVE  OneOperationEach'
  OBVIOUS
<1> DEFINE Kinds == {"recv", "read", "writev", "timer"}
           Writes == {"read", "writev"}
<1>1. TypeOK /\ LoopInv /\ down \in BOOLEAN /\ ticking \in BOOLEAN
  BY DEF Inv, TypeOK
<1>3. /\ Going("recv") \in 0..1 /\ Going("read") + Going("writev") \in 0..1
      /\ Going("recv") + (Going("read") + Going("writev")) = IF down THEN 1 ELSE 2
      /\ Going("timer") = IF ticking THEN 1 ELSE 0
  BY DEF Inv, OneOperationEach
<1>4. \A op : /\ InSeq(sq, op) \in Nat /\ InSeq(cq, op) \in Nat
              /\ InBatch(op) \in Nat /\ Waits(op) \in {0, 1}
  BY <1>1, Tallies
<1>5. \A op : Going(op) = InSeq(sq, op) + InSeq(cq, op) + InBatch(op) + Waits(op)
  BY GoingIs
<1>6. \A op : Going(op)' = InSeq(sq, op)' + InSeq(cq, op)' + InBatch(op)' + Waits(op)'
  BY DEF Going, InSeq, InBatch, Waits
<1>7. \A op : Going(op) \in Nat
  BY <1>4, <1>5
<1> DEFINE Same == /\ UNCHANGED <<down, ticking>>
                   /\ \A op \in Kinds : Going(op)' = Going(op)
           Swap == /\ UNCHANGED <<down, ticking>>
                   /\ \E c, x \in Writes : \A op \in Kinds :
                        Going(op)' = Going(op) - (IF c = op THEN 1 ELSE 0)
                                       + (IF x = op THEN 1 ELSE 0)
           Fail == /\ down = FALSE /\ down' = TRUE /\ ticking' = ticking
                   /\ \E c \in Kinds \ {"timer"} : \A op \in Kinds :
                        Going(op)' = Going(op) - (IF c = op THEN 1 ELSE 0)
           Ends == /\ down' = down /\ ticking' = FALSE /\ Going("timer")' = 0
                   /\ \A op \in Kinds \ {"timer"} : Going(op)' = Going(op)
\* What the step does to the tallies is one of four things.
<1>8. SUFFICES Same \/ Swap \/ Fail \/ Ends
  <2>1. \A op : Going(op)' = Going(op)' /\ Going(op) \in Nat
    BY <1>7
  <2>2. SUFFICES /\ Going("recv")' \in 0..1
                 /\ Going("read")' + Going("writev")' \in 0..1
                 /\ Going("recv")' + (Going("read")' + Going("writev")')
                      = IF down' THEN 1 ELSE 2
                 /\ Going("timer")' = IF ticking' THEN 1 ELSE 0
    BY DEF OneOperationEach
  <2>3. CASE Same
    BY <1>3, <2>3
  <2>4. CASE Swap
    BY <1>3, <1>7, <2>4
  <2>5. CASE Fail
    BY <1>3, <1>7, <2>5
  <2>6. CASE Ends
    BY <1>3, <2>6
  <2> QED  BY <1>8, <2>3, <2>4, <2>5, <2>6
<1>9. CASE UNCHANGED <<sq, cq, batch, i, inflight, down, ticking>>
  BY <1>9 DEF Going
<1>10. ASSUME NEW o \in Ops, Await(o) \/ Signalling(o)
       PROVE  Same
  <2>1. UNCHANGED <<cq, batch, i, inflight, down, ticking>>
    BY <1>10 DEF Await, AwaitLocal, Push, Signalling, Lock, PrepSignal,
                 WriteSignal, uring
  <2>2. sq' = sq \/ (Len(sq) < SqEntries /\ sq' = Append(sq, "signal"))
    BY <1>10 DEF Await, AwaitLocal, Push, Signalling, Lock, PrepSignal,
                 WriteSignal, uring
  <2>3. ASSUME NEW op \in Kinds PROVE Going(op)' = Going(op)
    <3>1. InSeq(sq, op)' = InSeq(sq, op)
      <4>1. CASE sq' = sq
        BY <4>1 DEF InSeq
      <4>2. CASE Len(sq) < SqEntries /\ sq' = Append(sq, "signal")
        <5>1. InSeq(sq, op)' = InSeq(sq, op) + (IF op = "signal" THEN 1 ELSE 0)
          BY <1>1, <4>2, SignalTally
        <5> QED  BY <1>4, <5>1
      <4> QED  BY <2>2, <4>1, <4>2
    <3>2. /\ InSeq(cq, op)' = InSeq(cq, op) /\ InBatch(op)' = InBatch(op)
          /\ Waits(op)' = Waits(op)
      BY <2>1, SameTally
    <3> QED  BY <1>5, <1>6, <3>1, <3>2
  <2> QED  BY <2>1, <2>3
<1>11. ASSUME NEW c \in Event, Resumes(c), NEW x \in LoopOps, Prep(<<x>>)
       PROVE  /\ down = FALSE
              /\ \/ /\ down' = FALSE
                    /\ \A op : Going(op)' = Going(op) - (IF c = op THEN 1 ELSE 0)
                                              + (IF x = op THEN 1 ELSE 0)
                 \/ /\ down' = TRUE
                    /\ \A op : Going(op)' = Going(op) - (IF c = op THEN 1 ELSE 0)
  <2>1. /\ \A op : /\ InBatch(op) = InBatch(op)' + (IF c = op THEN 1 ELSE 0)
                   /\ InBatch(op)' \in Nat
                   /\ InSeq(cq, op)' = InSeq(cq, op) /\ Waits(op)' = Waits(op)
        /\ down = FALSE
    BY <1>1, <1>11, ResumesTally
  <2>2. \A op : \/ /\ down' = FALSE
                   /\ InSeq(sq, op)' = InSeq(sq, op) + (IF x = op THEN 1 ELSE 0)
                \/ down' = TRUE /\ InSeq(sq, op)' = InSeq(sq, op)
    BY <1>1, <1>11, <2>1, PrepTally
  <2>3. \A op : Waits(op) \in Nat
    BY <1>4
  <2>4. CASE down' = FALSE
    BY <1>4, <1>5, <1>6, <2>1, <2>2, <2>3, <2>4
  <2>5. CASE down' = TRUE
    BY <1>4, <1>5, <1>6, <2>1, <2>2, <2>3, <2>5
  <2> QED  BY <2>1, <2>2, <2>4, <2>5
<1>12. CASE ResumesNobody
  <2>1. ASSUME NEW op \in Kinds PROVE Going(op)' = Going(op)
    <3>1. /\ InBatch(op) = InBatch(op)' /\ InSeq(cq, op)' = InSeq(cq, op)
          /\ Waits(op)' = Waits(op)
      BY <1>1, <1>12, ResumesTally DEF ResumesNobody, Event
    <3>2. InSeq(sq, op)' = InSeq(sq, op)
      BY <1>12 DEF ResumesNobody, InSeq
    <3> QED  BY <1>5, <1>6, <3>1, <3>2
  <2> QED  BY <1>12, <2>1 DEF ResumesNobody
<1>13. CASE ResumesWriter
  <2>1. PICK c \in Writes : Resumes(c)
    BY <1>13 DEF ResumesWriter
  <2>2. PICK x \in Writes : Prep(<<x>>)
    BY <1>13 DEF ResumesWriter
  <2>3. c \in Event /\ x \in LoopOps /\ c \in Kinds \ {"timer"}
    BY DEF Event, LoopOps
  <2>4. ticking' = ticking
    BY <1>13 DEF ResumesWriter
  <2>5. /\ down = FALSE
        /\ \/ /\ down' = FALSE
              /\ \A op : Going(op)' = Going(op) - (IF c = op THEN 1 ELSE 0)
                                        + (IF x = op THEN 1 ELSE 0)
           \/ /\ down' = TRUE
              /\ \A op : Going(op)' = Going(op) - (IF c = op THEN 1 ELSE 0)
    BY <1>11, <2>1, <2>2, <2>3
  <2>6. CASE down' = FALSE
    <3>1. \A op \in Kinds : Going(op)' = Going(op) - (IF c = op THEN 1 ELSE 0)
                                         + (IF x = op THEN 1 ELSE 0)
      BY <2>5, <2>6
    <3> QED  BY <2>4, <2>5, <2>6, <3>1
  <2>7. CASE down' = TRUE
    <3>1. \A op \in Kinds : Going(op)' = Going(op) - (IF c = op THEN 1 ELSE 0)
      BY <2>5, <2>7
    <3> QED  BY <2>3, <2>4, <2>5, <2>7, <3>1
  <2> QED  BY <2>5, <2>6, <2>7
<1>14. CASE ResumesReader
  <2>1. Resumes("recv") /\ Prep(<<"recv">>) /\ ticking' = ticking
    BY <1>14 DEF ResumesReader
  <2>2. "recv" \in Event /\ "recv" \in LoopOps
    BY DEF Event, LoopOps
  <2>3. /\ down = FALSE
        /\ \/ /\ down' = FALSE
              /\ \A op : Going(op)' = Going(op) - (IF "recv" = op THEN 1 ELSE 0)
                                        + (IF "recv" = op THEN 1 ELSE 0)
           \/ /\ down' = TRUE
              /\ \A op : Going(op)' = Going(op) - (IF "recv" = op THEN 1 ELSE 0)
    BY <1>11, <2>1, <2>2
  <2>4. CASE down' = FALSE
    <3>1. \A op : Going(op)' = Going(op)
      BY <1>7, <2>3, <2>4
    <3> QED  BY <2>1, <2>3, <2>4, <3>1
  <2>5. CASE down' = TRUE
    BY <2>1, <2>3, <2>5
  <2> QED  BY <2>3, <2>4, <2>5
<1>20. CASE ResumesTicker
  <2>1. /\ Resumes("timer") /\ down' = down
        /\ \/ Prep(<<"timer">>) /\ ticking' = ticking
           \/ sq' = sq /\ ticking' = FALSE
    BY <1>1, <1>20, TickerStep
  <2>2. "timer" \in Event /\ "timer" \in LoopOps
    BY DEF Event, LoopOps
  <2>3. CASE Prep(<<"timer">>) /\ ticking' = ticking
    <3>1. \A op : Going(op)' = Going(op) - (IF "timer" = op THEN 1 ELSE 0)
                                 + (IF "timer" = op THEN 1 ELSE 0)
      BY <1>11, <2>1, <2>2, <2>3
    <3>2. \A op : Going(op)' = Going(op)
      BY <1>7, <3>1
    <3> QED  BY <2>1, <2>3, <3>2
  <2>4. CASE sq' = sq /\ ticking' = FALSE
    <3>1. ASSUME NEW op
          PROVE  Going(op)' = Going(op) - (IF "timer" = op THEN 1 ELSE 0)
      <4>1. /\ InBatch(op) = InBatch(op)' + (IF "timer" = op THEN 1 ELSE 0)
            /\ InBatch(op)' \in Nat
            /\ InSeq(cq, op)' = InSeq(cq, op) /\ Waits(op)' = Waits(op)
        BY <1>1, <2>1, <2>2, ResumesTally
      <4>2. InSeq(sq, op)' = InSeq(sq, op)
        BY <2>4 DEF InSeq
      <4>3. Waits(op) \in Nat
        BY <1>4
      <4> QED  BY <1>4, <1>5, <1>6, <4>1, <4>2, <4>3
    <3>2. Going("timer") >= 1
      <4>1. InBatch("timer") = InBatch("timer")' + 1 /\ InBatch("timer")' \in Nat
        BY <1>1, <2>1, <2>2, ResumesTally
      <4>2. Waits("timer") \in Nat
        BY <1>4
      <4> QED  BY <1>4, <1>5, <4>1, <4>2
    <3>3. Going("timer") = 1
      BY <1>3, <3>2
    <3>4. Going("timer")' = 0
      BY <3>1, <3>3
    <3>5. \A op \in Kinds \ {"timer"} : Going(op)' = Going(op)
      BY <1>7, <3>1
    <3> QED  BY <2>1, <2>4, <3>4, <3>5
  <2> QED  BY <2>1, <2>3, <2>4
<1>15. CASE Submit
  <2>1. ASSUME NEW op \in Kinds PROVE Going(op)' = Going(op)
    <3>1. Going(op) <= 1
      BY <1>3, <1>7
    <3>2. InSeq(sq, op) + Waits(op) <= 1
      BY <1>4, <1>5, <3>1
    <3>3. /\ InSeq(sq, op)' = 0
          /\ InSeq(cq, op)' = InSeq(cq, op) /\ InBatch(op)' = InBatch(op)
          /\ Waits(op)' = InSeq(sq, op) + Waits(op)
      BY <1>1, <1>15, <3>2, SubmitTally DEF LoopOps
    <3>4. Waits(op) \in Nat
      BY <1>4
    <3> QED  BY <1>4, <1>5, <1>6, <3>3, <3>4
  <2> QED  BY <1>15, <2>1 DEF Submit
<1>16. CASE WaitReturns
  <2>1. ASSUME NEW op \in Kinds PROVE Going(op)' = Going(op)
    <3>1. /\ InBatch(op) = 0 /\ InBatch(op)' = InSeq(cq, op)
          /\ InSeq(cq, op)' = 0
          /\ InSeq(sq, op)' = InSeq(sq, op) /\ Waits(op)' = Waits(op)
      BY <1>1, <1>16, WaitReturnsTally
    <3>2. Waits(op) \in Nat
      BY <1>4
    <3> QED  BY <1>4, <1>5, <1>6, <3>1, <3>2
  <2> QED  BY <1>16, <2>1 DEF WaitReturns
<1>17. CASE EventWritten
  <2>1. ASSUME NEW op \in Kinds PROVE Going(op)' = Going(op)
    <3>1. /\ InSeq(sq, op)' = InSeq(sq, op) /\ InBatch(op)' = InBatch(op)
          /\ InSeq(cq, op)' = InSeq(cq, op) + (IF op = "signal" THEN 1 ELSE 0)
          /\ Waits(op)' = Waits(op)
      BY <1>1, <1>17, WrittenTally
    <3>2. InSeq(cq, op)' = InSeq(cq, op)
      BY <1>4, <3>1
    <3> QED  BY <1>5, <1>6, <3>1, <3>2
  <2> QED  BY <1>17, <2>1 DEF EventWritten
<1>18. CASE EventRead \/ Sent \/ Received \/ TimerFires
  <2>1. PICK x \in LoopOps : Completes(x)
    BY <1>18 DEF EventRead, Sent, Received, TimerFires, LoopOps
  <2>2. ASSUME NEW op \in Kinds PROVE Going(op)' = Going(op)
    <3>1. /\ InSeq(sq, op)' = InSeq(sq, op) /\ InBatch(op)' = InBatch(op)
          /\ InSeq(cq, op)' = InSeq(cq, op) + (IF x = op THEN 1 ELSE 0)
          /\ Waits(op)' = Waits(op) - (IF x = op THEN 1 ELSE 0)
      BY <1>1, <2>1, CompletesTally
    <3>2. Waits(op) \in Int
      BY <1>4
    <3> QED  BY <1>4, <1>5, <1>6, <3>1, <3>2
  <2>3. UNCHANGED <<down, ticking>>
    BY <2>1 DEF Completes
  <2> QED  BY <2>2, <2>3
<1>19. CASE BatchDone \/ LockToSubmit \/ Finished \/ UNCHANGED vars
            \/ \E o \in Ops : Spin(o)
  BY <1>9, <1>19 DEF BatchDone, LockToSubmit, Finished, vars, uring, Spin
<1> QED
  BY <1>10, <1>12, <1>13, <1>14, <1>15, <1>16, <1>17, <1>18, <1>19,
     <1>20
  DEF Next, Loop, Kernel


LEMMA TypeStep == Inv /\ [Next]_vars => TypeOK'
<1> SUFFICES ASSUME Inv, [Next]_vars PROVE TypeOK'
  OBVIOUS
<1>1. /\ TypeOK /\ LocalInv /\ RingCount /\ IsFiniteSet(Ops)
      /\ signals \in Nat /\ event \in Nat /\ Cardinality(Ops) \in Nat
  <2>1. TypeOK /\ LocalInv /\ RingCount
    BY DEF Inv
  <2> QED  BY <2>1, OpsFinite DEF TypeOK
\* The bounds of the eventfd writes come from SignalInv'.
<1>2. ASSUME signals' \in Nat, event' \in Nat, sq' \in Seq(Event)
      PROVE  signals' \in 0..Cardinality(Ops) /\ event' \in 0..Cardinality(Ops)
  <2>1. InSeq(sq, "signal")' + signals' + event' <= Cardinality(Suspended')
    BY SignalStep DEF SignalInv
  <2>2. Cardinality(Suspended') \in Nat /\ Cardinality(Suspended') <= Cardinality(Ops)
    BY OpsFinite, FS_Subset, FS_CardinalityType DEF Suspended
  <2>3. InSeq(sq, "signal")' \in Nat
    <3>1. InSeq(sq', "signal") \in Nat
      BY <1>2, CountType
    <3> QED  BY <3>1 DEF InSeq
  <2> QED  BY <1>1, <1>2, <2>1, <2>2, <2>3
<1>3. ASSUME NEW o \in Ops, Await(o) \/ Signalling(o) PROVE TypeOK'
  <2>1. sq' \in Seq(Event) /\ Len(sq') <= SqEntries
    <3>1. sq' = sq \/ (Len(sq) < SqEntries /\ sq' = Append(sq, "signal"))
      BY <1>3 DEF Await, AwaitLocal, Push, Signalling, Lock, PrepSignal,
                  WriteSignal, uring
    <3> QED  BY <1>1, <3>1, SignalTally DEF TypeOK, Event
  <2>2. signals' \in Nat /\ event' \in Nat
    BY <1>1, <1>3 DEF Await, AwaitLocal, Push, Signalling, Lock, PrepSignal,
                      WriteSignal, uring
  <2>3. queue' \in Seq(Ops) /\ committed' \in 0..Len(queue')
    <3>1. committed' = committed /\ (queue' = queue \/ queue' = Append(queue, o))
      BY <1>3 DEF Await, AwaitLocal, Push, Signalling, Lock, PrepSignal,
                  WriteSignal, ring
    <3>2. /\ queue \in Seq(Ops) /\ committed \in 0..Len(queue)
          /\ Append(queue, o) \in Seq(Ops) /\ Len(Append(queue, o)) = Len(queue) + 1
      BY <1>1 DEF TypeOK
    <3> QED  BY <3>1, <3>2
  <2>4. pc' \in [Ops -> {"idle", "lock", "prep", "write", "suspended"}]
    BY <1>1, <1>3 DEF Await, AwaitLocal, Push, Signalling, Lock, PrepSignal,
                      WriteSignal, TypeOK
  <2>5. lock' \in {"free", "loop"} \cup Foreign
    <3>1. pc[o] = "lock" => o \in Foreign
      BY <1>1 DEF LocalInv, Ops
    <3> QED  BY <1>1, <1>3, <3>1 DEF Await, AwaitLocal, Push, Signalling, Lock,
                                     PrepSignal, WriteSignal, TypeOK
  <2>6. UNCHANGED <<inflight, cq, loop, batch, i, iov, srv, down, ticking, fate>>
    BY <1>3 DEF Await, AwaitLocal, Push, Signalling, Lock, PrepSignal,
                WriteSignal, uring, ring
  <2>7. signals' \in 0..Cardinality(Ops) /\ event' \in 0..Cardinality(Ops)
    BY <1>2, <2>1, <2>2
  <2> QED  BY <1>1, <2>1, <2>3, <2>4, <2>5, <2>6, <2>7 DEF TypeOK, Event
\* The loop resumes somebody; what is left to show is the ring.
<1>4. ASSUME NEW c \in Event, Resumes(c), pc' = pc,
             UNCHANGED <<sq, down>> \/ \E x \in LoopOps : Prep(<<x>>),
             ticking' \in BOOLEAN, queue' \in Seq(Ops), committed' \in 0..Len(queue'),
             iov' \in Seq(Ops), srv' \in Seq(Ops),
             fate' \in [Ops -> {"none", "reply"}]
      PROVE  TypeOK'
  <2>1. i' \in 0..Len(batch') /\ ~down
    BY <1>1, <1>4, ResumesTally
  <2>2. sq' \in Seq(Event) /\ Len(sq') <= SqEntries /\ down' \in BOOLEAN
    <3>1. CASE UNCHANGED <<sq, down>>
      BY <1>1, <3>1 DEF TypeOK, Event
    <3>2. CASE \E x \in LoopOps : Prep(<<x>>)
      BY <1>1, <2>1, <3>2, PrepTally
    <3> QED  BY <1>4, <3>1, <3>2
  <2>3. /\ UNCHANGED <<lock, inflight, signals, cq, event, batch>>
        /\ loop' \in {"lock_submit", "resume"}
    BY <1>4 DEF Resumes
  <2> QED  BY <1>1, <1>4, <2>1, <2>2, <2>3 DEF TypeOK, Event
<1>5. CASE ResumesNobody
  BY <1>1, <1>4, <1>5 DEF ResumesNobody, ring, Event, TypeOK
<1>6. CASE ResumesTicker
  <2>1. /\ Resumes("timer") /\ UNCHANGED <<ring, down, pc, fate>>
        /\ \/ Prep(<<"timer">>) /\ ticking' = ticking
           \/ sq' = sq /\ ticking' = FALSE
    BY <1>1, <1>6, TickerStep
  <2> QED  BY <1>1, <1>4, <2>1 DEF ring, Event, LoopOps, TypeOK
<1>7. CASE ResumesWriter
  <2>1. PICK c \in {"read", "writev"} : Resumes(c)
    BY <1>7 DEF ResumesWriter
  <2>2. PICK x \in {"read", "writev"} : Prep(<<x>>)
    BY <1>7 DEF ResumesWriter
  <2>3. c \in Event /\ x \in LoopOps
    BY DEF Event, LoopOps
  <2>4. /\ queue' = queue /\ committed' = Len(queue) /\ pc' = pc
        /\ iov' = SubSeq(queue, committed + 1, Len(queue))
        /\ srv' = srv /\ fate' = fate
    BY <1>7 DEF ResumesWriter
  <2>5. /\ queue \in Seq(Ops) /\ Len(queue) \in Nat /\ committed \in Nat
        /\ srv \in Seq(Ops) /\ fate \in [Ops -> {"none", "reply"}]
    BY <1>1 DEF TypeOK
  <2>6. iov' \in Seq(Ops) /\ committed' \in 0..Len(queue')
    BY <2>4, <2>5
  <2>7. ticking' \in BOOLEAN
    BY <1>1, <1>7 DEF ResumesWriter, TypeOK
  <2> QED  BY <1>4, <2>1, <2>2, <2>3, <2>4, <2>5, <2>6, <2>7
<1>8. CASE ResumesReader
  <2>1. InBatch("recv") = InBatch("recv")' + 1 /\ InBatch("recv")' \in Nat
    BY <1>1, <1>8, ResumesTally DEF ResumesReader, Event, LoopOps
  <2>2. committed >= 1 /\ committed \in 0..Len(queue) /\ queue \in Seq(Ops)
    <3>1. Len(iov) \in Nat /\ Len(srv) \in Nat /\ InSeq(cq, "recv") \in Nat
      BY <1>1, Tallies DEF TypeOK
    <3> QED  BY <1>1, <2>1, <3>1 DEF RingCount, TypeOK
  <2>3. /\ queue' = Tail(queue) /\ committed' = committed - 1
        /\ fate' = [fate EXCEPT ![Head(queue)] = "reply"]
        /\ iov' = iov /\ srv' = srv /\ pc' = pc
    BY <1>8 DEF ResumesReader
  <2>4. queue' \in Seq(Ops) /\ committed' \in 0..Len(queue')
    BY <2>2, <2>3
  <2>5. iov' \in Seq(Ops) /\ srv' \in Seq(Ops) /\ fate' \in [Ops -> {"none", "reply"}]
    BY <1>1, <2>3 DEF TypeOK
  <2>6. ticking' \in BOOLEAN
    BY <1>1, <1>8 DEF ResumesReader, TypeOK
  <2> QED  BY <1>4, <1>8, <2>3, <2>4, <2>5, <2>6 DEF ResumesReader, Event, LoopOps
<1>9. CASE BatchDone \/ LockToSubmit
  BY <1>1, <1>9 DEF BatchDone, LockToSubmit, uring, ring, TypeOK
<1>10. CASE Submit
  <2>1. InSeq(sq, "signal") \in Nat /\ signals' = signals + InSeq(sq, "signal")
    BY <1>1, <1>10, Tallies DEF Submit, InSeq
  <2>2. inflight' \subseteq LoopOps
    BY <1>1, <1>10 DEF Submit, TypeOK
  <2>3. sq' = <<>> /\ sq' \in Seq(Event) /\ event' = event
    BY <1>10 DEF Submit
  <2>4. signals' \in 0..Cardinality(Ops) /\ event' \in 0..Cardinality(Ops)
    BY <1>1, <1>2, <2>1, <2>3
  <2>5. Len(sq') <= SqEntries
    BY <2>3
  <2>6. /\ lock' \in {"free", lock} /\ loop' \in {"wait", "resume"}
        /\ UNCHANGED <<cq, batch, i, queue, committed, iov, srv, down, ticking, pc, fate>>
    BY <1>10 DEF Submit, ring
  <2> QED  BY <1>1, <2>2, <2>3, <2>4, <2>5, <2>6 DEF TypeOK, Event
<1>11. CASE WaitReturns
  BY <1>1, <1>11 DEF WaitReturns, ring, TypeOK
<1>12. CASE EventWritten
  <2>1. cq' \in Seq(Event)
    BY <1>1, <1>12, WrittenTally
  <2>2. signals' \in Nat /\ event' \in Nat /\ sq' \in Seq(Event)
    BY <1>1, <1>12 DEF EventWritten, TypeOK, Event
  <2>3. signals' \in 0..Cardinality(Ops) /\ event' \in 0..Cardinality(Ops)
    BY <1>2, <2>2
  <2> QED  BY <1>1, <1>12, <2>1, <2>3 DEF EventWritten, ring, TypeOK, Event
<1>13. CASE EventRead \/ Sent \/ Received \/ TimerFires
  <2>1. PICK x \in LoopOps : Completes(x)
    BY <1>13 DEF EventRead, Sent, Received, TimerFires, LoopOps
  <2>2. cq' \in Seq(Event)
    BY <1>1, <2>1, CompletesTally
  <2>3. iov' \in Seq(Ops) /\ srv' \in Seq(Ops)
    <3>1. iov \in Seq(Ops) /\ srv \in Seq(Ops)
      BY <1>1 DEF TypeOK
    <3>2. /\ srv \o iov \in Seq(Ops) /\ <<>> \in Seq(Ops)
          /\ srv # <<>> => Tail(srv) \in Seq(Ops)
      BY <3>1
    <3>3. \/ UNCHANGED <<iov, srv>>
          \/ srv' = srv \o iov /\ iov' = <<>>
          \/ srv # <<>> /\ srv' = Tail(srv) /\ iov' = iov
      BY <1>13 DEF EventRead, Sent, Received, TimerFires
    <3> QED  BY <3>1, <3>2, <3>3
  <2>4. signals' = signals /\ event' \in 0..Cardinality(Ops)
    BY <1>1, <1>13 DEF EventRead, Sent, Received, TimerFires, TypeOK
  <2> QED  BY <1>1, <2>1, <2>2, <2>3, <2>4 DEF Completes, TypeOK, Event
<1>14. CASE Finished \/ UNCHANGED vars \/ \E o \in Ops : Spin(o)
  BY <1>1, <1>14 DEF Finished, Spin, vars, uring, ring, TypeOK
<1> QED
  BY <1>3, <1>5, <1>6, <1>7, <1>8, <1>9, <1>10, <1>11, <1>12, <1>13, <1>14
  DEF Next, Loop, Kernel

LEMMA InvStep == Inv /\ [Next]_vars => Inv'
BY TypeStep, LoopStep, SignalStep, IovStep, RingStep, OneStep DEF Inv

LEMMA InvInvariant == Spec => []Inv
BY InitInv, InvStep, PTL DEF Spec

(***************************************************************************)
(* The theorems.                                                           *)
(***************************************************************************)

\* The submission queue never holds more than its entries, the eventfd counts
\* no more than one wakeup for a command, and the loop is in its batch.
THEOREM EventLoopTypeCorrect == Spec => []TypeOK
<1>1. Inv => TypeOK
  BY DEF Inv
<1> QED  BY <1>1, InvInvariant, PTL

\* Wherever the kernel and the loop have them: while the connection is up the
\* reader has one receive going and the writer one read of the eventfd or one
\* writev; when a full submission queue has refused one of the two the
\* connection is down and the other is all that is left.  The ticker has one
\* timer going until a full queue has refused it, and none afterwards.
THEOREM LoopHasOneOperationEach == Spec => []OneOperationEach
<1>1. Inv => OneOperationEach
  BY DEF Inv
<1> QED  BY <1>1, InvInvariant, PTL


(***************************************************************************)
(* No wakeup is lost.                                                      *)
(***************************************************************************)

InRest(op) == \E n \in (i + 1)..Len(batch) : batch[n] = op

LEMMA WakeupInit == Init => WakeupOnItsWay
BY DEF Init, WakeupOnItsWay

LEMMA WakeupStep == Inv /\ WakeupOnItsWay /\ [Next]_vars => WakeupOnItsWay'
<1> SUFFICES ASSUME Inv, WakeupOnItsWay, [Next]_vars,
                    Reading', committed' < Len(queue')
             PROVE  Woken'
  BY DEF WakeupOnItsWay
<1>1. /\ TypeOK /\ LocalInv
      /\ (Reading /\ committed < Len(queue) => Woken)
  BY DEF Inv, WakeupOnItsWay
<1>2. Reading <=> "read" \in inflight \/ Has(sq, "read") \/ Has(cq, "read")
                    \/ InRest("read")
  BY DEF Reading, InRest
<1>3. Woken <=> \/ Has(cq, "read") \/ InRest("read") \/ event > 0 \/ signals > 0
                \/ Has(sq, "signal")
                \/ \E o \in Foreign : pc[o] \in {"lock", "prep", "write"}
  BY DEF Woken, InRest
<1>4. Reading' <=> "read" \in inflight' \/ Has(sq, "read")' \/ Has(cq, "read")'
                     \/ InRest("read")'
  BY DEF Reading, InRest
<1>5. Woken' <=> \/ Has(cq, "read")' \/ InRest("read")' \/ event' > 0 \/ signals' > 0
                 \/ Has(sq, "signal")'
                 \/ \E o \in Foreign : pc'[o] \in {"lock", "prep", "write"}
  BY DEF Woken, InRest
<1>6. event \in Nat /\ signals \in Nat
  BY <1>1, OpsFinite DEF TypeOK
\* A command that is awaited: its wakeup goes into the submission queue, or
\* straight to the eventfd, or its coroutine is still to send it.
<1>7. ASSUME NEW o \in Ops, AwaitLocal(o) PROVE Woken'
  <2>1. Has(sq, "signal")' \/ event' > 0
    <3>1. CASE Len(sq) < SqEntries
      BY <1>1, <1>7, <3>1, SignalTally DEF AwaitLocal
    <3>2. CASE ~(Len(sq) < SqEntries)
      BY <1>6, <1>7, <3>2 DEF AwaitLocal
    <3> QED  BY <3>1, <3>2
  <2> QED  BY <1>5, <2>1
<1>8. ASSUME NEW o \in Ops, Push(o) PROVE Woken'
  <2>1. o \in Foreign /\ pc'[o] = "lock"
    BY <1>1, <1>8 DEF Push, TypeOK
  <2> QED  BY <1>5, <2>1
<1>9. ASSUME NEW o \in Ops, Lock(o) PROVE Woken'
  <2>1. o \in Foreign /\ pc'[o] = "prep"
    BY <1>1, <1>9 DEF Lock, LocalInv, TypeOK, Ops
  <2> QED  BY <1>5, <2>1
<1>10. ASSUME NEW o \in Ops, PrepSignal(o) PROVE Woken'
  <2>1. CASE Len(sq) < SqEntries
    <3>1. Has(sq, "signal")'
      BY <1>1, <1>10, <2>1, SignalTally DEF PrepSignal
    <3> QED  BY <1>5, <3>1
  <2>2. CASE ~(Len(sq) < SqEntries)
    <3>1. o \in Foreign /\ pc'[o] = "write"
      BY <1>1, <1>10, <2>2 DEF PrepSignal, LocalInv, TypeOK, Ops
    <3> QED  BY <1>5, <3>1
  <2> QED  BY <2>1, <2>2
<1>11. ASSUME NEW o \in Ops, WriteSignal(o) PROVE Woken'
  <2>1. event' > 0
    BY <1>6, <1>11 DEF WriteSignal
  <2> QED  BY <1>5, <2>1
\* The loop resumes somebody who is not the writer.
<1>12. ASSUME NEW c \in Event \ {"read"}, Resumes(c), pc' = pc,
              sq' = sq \/ \E x \in LoopOps \ {"read"} : Prep(<<x>>),
              committed < Len(queue)
       PROVE  Woken'
  <2>1. InRest("read")' <=> InRest("read")
    <3>1. /\ i \in Nat /\ Len(batch) \in Nat /\ i < Len(batch)
          /\ i' = i + 1 /\ batch' = batch /\ batch[i + 1] # "read"
      BY <1>1, <1>12 DEF Resumes, Completion, TypeOK
    <3>2. InRest("read")' <=> \E n \in (i + 2)..Len(batch) : batch[n] = "read"
      BY <3>1 DEF InRest
    <3>3. \A n \in (i + 1)..Len(batch) : n = i + 1 \/ n \in (i + 2)..Len(batch)
      BY <3>1
    <3>4. \A n \in (i + 2)..Len(batch) : n \in (i + 1)..Len(batch)
      BY <3>1
    <3> QED  BY <3>1, <3>2, <3>3, <3>4 DEF InRest
  <2>2. /\ Has(sq, "read")' => Has(sq, "read")
        /\ Has(sq, "signal") => Has(sq, "signal")'
    <3>1. CASE sq' = sq
      BY <3>1 DEF Has
    <3>2. CASE \E x \in LoopOps \ {"read"} : Prep(<<x>>)
      <4>1. PICK x \in LoopOps \ {"read"} : Prep(<<x>>)
        BY <3>2
      <4>2. ~down
        BY <1>12 DEF Resumes
      <4> QED  BY <1>1, <4>1, <4>2, PrepTally
    <3> QED  BY <1>12, <3>1, <3>2
  <2>3. UNCHANGED <<inflight, signals, cq, event>>
    BY <1>12 DEF Resumes
  <2>4. Has(cq, "read")' <=> Has(cq, "read")
    BY <2>3 DEF Has
  <2>5. Reading
    BY <1>2, <1>4, <2>1, <2>2, <2>3, <2>4
  <2>6. Woken
    BY <1>1, <1>12, <2>5
  <2> QED  BY <1>3, <1>5, <1>12, <2>1, <2>2, <2>3, <2>4, <2>6
<1>13. CASE ResumesNobody
  BY <1>12, <1>13 DEF ResumesNobody, ring, Event, LoopOps
<1>14. CASE ResumesTicker
  BY <1>1, <1>12, <1>14, TickerStep DEF ring, Event, LoopOps
\* After the writer was resumed every command is committed.
<1>15. CASE ResumesWriter
  BY <1>1, <1>15 DEF ResumesWriter, TypeOK
<1>16. CASE ResumesReader
  <2>1. queue # <<>> => committed < Len(queue)
    BY <1>1, <1>16 DEF ResumesReader, TypeOK
  <2>2. queue # <<>>
    <3>1. InBatch("recv") = InBatch("recv")' + 1 /\ InBatch("recv")' \in Nat
      BY <1>1, <1>16, ResumesTally DEF ResumesReader, Event, LoopOps
    <3>2. Len(iov) \in Nat /\ Len(srv) \in Nat /\ InSeq(cq, "recv") \in Nat
      BY <1>1, Tallies DEF TypeOK
    <3>3. RingCount
      BY DEF Inv
    <3>4. committed >= 1
      BY <3>1, <3>2, <3>3 DEF RingCount
    <3> QED  BY <1>1, <3>4 DEF TypeOK
  <2> QED  BY <1>12, <1>16, <2>1, <2>2 DEF ResumesReader, Event, LoopOps
<1>17. CASE BatchDone \/ LockToSubmit \/ Finished \/ UNCHANGED vars
            \/ \E o \in Ops : Spin(o)
  <2>1. UNCHANGED <<sq, inflight, signals, cq, event, batch, i, committed, queue, pc>>
    BY <1>17 DEF BatchDone, LockToSubmit, Finished, Spin, vars, uring, ring
  <2> QED  BY <1>1, <2>1 DEF Reading, Woken, Has
<1>18. CASE Submit
  <2>1. UNCHANGED <<cq, event, batch, i, committed, queue, pc>>
    BY <1>18 DEF Submit, ring
  <2>2. sq' = <<>> /\ (("read" \in inflight') <=> ("read" \in inflight \/ Has(sq, "read")))
    BY <1>1, <1>18, SubmitTally DEF Submit, LoopOps
  <2>3. Has(sq, "signal") \/ signals > 0 => signals' > 0
    <3>1. signals' = signals + InSeq(sq, "signal")
      BY <1>18 DEF Submit, InSeq
    <3>2. InSeq(sq, "signal") \in Nat /\ (InSeq(sq, "signal") = 0 <=> ~Has(sq, "signal"))
      BY <1>1, CountType DEF TypeOK, Event
    <3> QED  BY <1>6, <3>1, <3>2
  <2>4. ~Has(sq, "read")'
    BY <2>2 DEF Has
  <2>5. (Has(cq, "read")' <=> Has(cq, "read")) /\ (InRest("read")' <=> InRest("read"))
    BY <2>1 DEF Has, InRest
  <2>6. Woken
    BY <1>1, <1>2, <1>4, <2>1, <2>2, <2>4, <2>5
  <2> QED  BY <1>3, <1>5, <2>1, <2>3, <2>5, <2>6
<1>19. CASE WaitReturns
  <2>1. UNCHANGED <<sq, inflight, signals, event, committed, queue, pc>>
    BY <1>19 DEF WaitReturns, ring
  <2>2. ~InRest("read")
    <3>1. LoopInv
      BY DEF Inv
    <3> QED  BY <1>1, <1>19, <3>1 DEF LoopInv, WaitReturns, InRest, TypeOK
  <2>3. InRest("read")' <=> Has(cq, "read")
    <3>1. cq \in Seq(Event) /\ i' = 0 /\ batch' = cq
      BY <1>1, <1>19 DEF WaitReturns, TypeOK, Event
    <3> QED  BY <3>1 DEF InRest, Has
  <2>4. ~Has(cq, "read")'
    BY <1>19 DEF WaitReturns, Has
  <2>5. Has(sq, "read")' <=> Has(sq, "read")
    BY <2>1 DEF Has
  <2>6. Has(sq, "signal")' <=> Has(sq, "signal")
    BY <2>1 DEF Has
  <2>7. Woken
    BY <1>1, <1>2, <1>4, <2>1, <2>3, <2>4, <2>5
  <2> QED  BY <1>3, <1>5, <2>1, <2>2, <2>3, <2>6, <2>7
<1>20. CASE EventWritten
  <2>1. event' > 0
    BY <1>6, <1>20 DEF EventWritten
  <2> QED  BY <1>5, <2>1
<1>21. CASE EventRead
  <2>1. Has(cq, "read")'
    BY <1>1, <1>21, CompletesTally DEF EventRead, LoopOps
  <2> QED  BY <1>5, <2>1
<1>22. CASE Sent \/ Received \/ TimerFires
  <2>1. PICK x \in LoopOps : x # "read" /\ Completes(x)
    BY <1>22 DEF Sent, Received, TimerFires, LoopOps
  <2>2. /\ UNCHANGED <<sq, signals, event, batch, i, committed, queue, pc>>
        /\ inflight' \subseteq inflight
    BY <1>22 DEF Sent, Received, TimerFires, Completes
  <2>3. Has(cq, "read")' <=> Has(cq, "read")
    BY <1>1, <2>1, CompletesTally
  <2>4. /\ Has(sq, "read")' <=> Has(sq, "read")
        /\ Has(sq, "signal")' <=> Has(sq, "signal")
        /\ InRest("read")' <=> InRest("read")
    BY <2>2 DEF Has, InRest
  <2>5. Woken
    BY <1>1, <1>2, <1>4, <2>2, <2>3, <2>4
  <2> QED  BY <1>3, <1>5, <2>2, <2>3, <2>4, <2>5
<1> QED
  BY <1>7, <1>8, <1>9, <1>10, <1>11, <1>13, <1>14, <1>15, <1>16, <1>17, <1>18,
     <1>19, <1>20, <1>21, <1>22
  DEF Next, Await, Signalling, Loop, Kernel

\* While the writer waits for the eventfd and a command of the ring is not
\* sent, a wakeup is in a queue, in the kernel, in the counter, or its producer
\* is about to send it: no interleaving of the threads, the loop and the kernel
\* puts the writer to sleep over a command.
THEOREM NoWakeupIsLost == Spec => []WakeupOnItsWay
<1>1. Inv /\ WakeupOnItsWay /\ [Next]_vars => WakeupOnItsWay'
  BY WakeupStep
<1> QED  BY <1>1, WakeupInit, InvInvariant, PTL DEF Spec
=============================================================================
