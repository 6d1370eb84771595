-------------------------- MODULE JoinsOutcomeProofs --------------------------
(***************************************************************************)
(* Theorems about Joins, for every number of branches: what the coroutine  *)
(* finds when it goes on, and that nobody touches its awaiter any more.    *)
(***************************************************************************)
EXTENDS JoinsProofs

USE NAssumption, KindsAssumption

Busy(b) == pc[b] \in Working

\* On one thread a worker runs to its end before another one starts, the
\* starter has returned before any operation completes on its own, and the
\* coroutine goes on when nobody works.
SoloInv == ~threads =>
  /\ ~early /\ ~late
  /\ \A a, b \in Branches : Busy(a) /\ Busy(b) => a = b
  /\ resumed > 0 => \A b \in Branches : ~Busy(b)
  /\ started # N + 1 => \A b \in Branches : Busy(b) => inline /\ b = started

\* Only a clustered operation can be resumed early, and it never runs inline.
EarlyInv ==
  /\ early => kind = "cluster"
  /\ inline => kind \in Spawn

\* A branch that has not counted keeps the coroutine waiting.
LEMMA NotYetResumed ==
  ASSUME IInv, NEW b \in Branches, pc[b] \in {"wait", "run"}, pc[b] = "wait" => started < N
  PROVE  resumed = 0
<1>1. b \notin counted /\ ~Refused
  BY DEF IInv, PcInv, HasCounted, Refused
<1> QED  BY <1>1 DEF IInv, ResumeInv

\* A step of a worker touches its own program counter and no other.
LEMMA WorkFrame ==
  ASSUME TypeOK, NEW b \in Branches, Work(b)
  PROVE  /\ Busy(b) /\ \A a \in Branches : a # b => pc'[a] = pc[a]
         /\ pc' \in [Branches -> Working \cup {"wait", "run", "end"}]
         /\ UNCHANGED <<kind, threads, started, inline, ok>>
         /\ resumed' = resumed \/ (pc[b] = "resume" /\ pc'[b] = "end")
         /\ early' = (early \/ (kind = "cluster" /\ started # N + 1 /\ done + 1 = N))
              \/ early' = early
         /\ late' = (late \/ resumed > 0) \/ late' = late
<1>1. pc' \in [Branches -> Working \cup {"wait", "run", "end"}]
  BY TypeStep DEF Next, TypeOK
<1> QED
  BY <1>1 DEF Work, Store, Count, Load, CasSucceeds, CasFails, Publish, Release, CancelNext,
      CancelDone, Resume, CountAs, Busy, Working, TypeOK, result, history

LEMMA SoloWork ==
  ASSUME IInv, SoloInv, EarlyInv, NEW b \in Branches, Work(b)
  PROVE  SoloInv' /\ EarlyInv'
<1>1. TypeOK
  BY DEF IInv
<1>2. EarlyInv'
  BY <1>1, WorkFrame DEF EarlyInv
<1>3. SoloInv'
  <2> SUFFICES ASSUME ~threads PROVE SoloInv'
    BY <1>1, WorkFrame DEF SoloInv
  <2>1. /\ \A a \in Branches : Busy(a) => a = b
        /\ resumed = 0 /\ (started # N + 1 => inline /\ b = started)
    BY <1>1, WorkFrame DEF SoloInv, TypeOK
  <2>2. /\ ~early' /\ ~late'
    BY <1>1, <2>1, WorkFrame DEF SoloInv, EarlyInv, Spawn
  <2>3. \A a \in Branches : Busy(a)' => a = b
    BY <1>1, <2>1, WorkFrame DEF Busy
  <2>4. resumed' > 0 => ~Busy(b)'
    BY <1>1, <2>1, WorkFrame DEF Busy, Working
  <2> QED  BY <1>1, <2>1, <2>2, <2>3, <2>4, WorkFrame DEF SoloInv
<1> QED  BY <1>2, <1>3

LEMMA SoloStarter ==
  ASSUME IInv, SoloInv, EarlyInv, Starter
  PROVE  SoloInv' /\ EarlyInv'
<1>1. TypeOK /\ started \in 0..(N + 1)
  BY DEF IInv, TypeOK
<1>2. UNCHANGED <<kind, threads, early, late>> /\ (inline' => inline \/ kind \in Spawn)
  BY DEF Starter, Refuse, StartBranch, PushBatch, PushPart, PushRefused, Return,
         StartInline, history
<1>3. EarlyInv'
  BY <1>2 DEF EarlyInv
<1>4. SoloInv'
  <2> SUFFICES ASSUME ~threads PROVE SoloInv'
    BY <1>2 DEF SoloInv
  <2>1. started < N => started + 1 \in Branches /\ pc[started + 1] = "wait"
    BY <1>1 DEF IInv, PcInv, Branches
  <2>2. started < N => resumed = 0
    BY <2>1, NotYetResumed
  <2>3. started # N + 1 => (StarterFree => \A b \in Branches : ~Busy(b))
    BY DEF SoloInv, StarterFree, Busy
  <2>4. CASE Refuse \/ PushBatch
    <3>1. \A b \in Branches : pc[b] = "wait" /\ (pc'[b] = pc[b] \/ pc'[b] = "run")
      BY <2>4, <1>1 DEF Refuse, PushBatch, flow, IInv, PcInv, Branches
    <3> QED  BY <1>2, <3>1 DEF SoloInv, Busy, Working
  <2>5. CASE StartBranch \/ PushPart \/ PushRefused
    <3>1. /\ started < N /\ started' = started + 1 /\ resumed' = resumed
          /\ \A b \in Branches : pc'[b] = pc[b] \/ pc'[b] \in {"run", "end"}
          /\ StartBranch => StarterFree
          /\ kind \notin Spawn \/ StartBranch
      BY <2>5, <1>1 DEF StartBranch, PushPart, PushRefused, TypeOK, Spawn
    <3>2. \A b \in Branches : ~Busy(b)
      BY <1>1, <2>3, <3>1 DEF SoloInv, EarlyInv
    <3> QED  BY <1>1, <1>2, <2>2, <3>1, <3>2 DEF SoloInv, Busy, Working
  <2>6. ASSUME NEW good \in Outcomes, StartInline(good) PROVE SoloInv'
    <3>1. /\ started < N /\ started' = started + 1 /\ resumed' = resumed /\ inline'
          /\ \A b \in Branches : b # started + 1 => pc'[b] = pc[b]
          /\ StarterFree
      BY <2>6, <1>1 DEF StartInline, TypeOK
    <3>2. \A b \in Branches : Busy(b)' => b = started + 1
      BY <1>1, <2>3, <3>1 DEF Busy
    <3> QED  BY <1>1, <1>2, <2>2, <3>1, <3>2 DEF SoloInv
  <2>7. CASE Return
    <3>1. started = N /\ started' = N + 1 /\ pc' = pc /\ StarterFree
      BY <2>7 DEF Return, flow
    <3>2. \A b \in Branches : ~Busy(b)
      BY <2>3, <3>1
    <3> QED  BY <1>2, <3>1, <3>2 DEF SoloInv, Busy
  <2> QED  BY <2>4, <2>5, <2>6, <2>7 DEF Starter
<1> QED  BY <1>3, <1>4

LEMMA SoloStep ==
  ASSUME IInv, SoloInv, EarlyInv, [Next]_vars
  PROVE  SoloInv' /\ EarlyInv'
<1>1. CASE CancelAll \/ UNCHANGED vars
  <2>1. UNCHANGED <<kind, threads, early, late, inline, pc, resumed, started>>
    BY <1>1 DEF CancelAll, vars, flow, history
  <2> QED  BY <2>1 DEF SoloInv, EarlyInv, Busy
<1>2. ASSUME NEW b \in Branches, NEW good \in Outcomes, Finish(b, good)
      PROVE  SoloInv' /\ EarlyInv'
  <2>1. /\ UNCHANGED <<kind, threads, early, late, inline, resumed, started>>
        /\ \A a \in Branches : a # b => pc'[a] = pc[a]
        /\ pc[b] = "run"
        /\ ~threads => started = N + 1 /\ \A a \in Branches : ~Busy(a)
    BY <1>2 DEF Finish, history, IInv, TypeOK, Quiet, Busy
  <2>2. resumed = 0
    BY <2>1, NotYetResumed
  <2> QED  BY <2>1, <2>2 DEF SoloInv, EarlyInv, Busy
<1> QED  BY <1>1, <1>2, SoloWork, SoloStarter DEF Next

\* The awaiter is let go: with the coroutine gone on, workers have counted
\* themselves and owe nothing, and on one thread none is left working.
LEMMA NobodyInside ==
  ASSUME IInv, SoloInv, EarlyInv
  PROVE  LetGo
<1> SUFFICES ASSUME resumed > 0, ~early, NEW b \in Branches
             PROVE  pc[b] \in {"wait", "end"} \/ (threads /\ pc[b] = "cancel")
  BY DEF LetGo, SoloInv
<1>1. counted = Branches \/ Refused
  BY DEF IInv, ResumeInv
<1>2. CASE Refused
  BY <1>2 DEF Refused
<1>3. CASE counted = Branches
  <2>1. pc[b] \in HasCounted
    BY <1>3 DEF IInv, PcInv
  <2>2. ~Owes(b)
    BY DEF IInv, ResumeInv
  <2>3. CASE threads
    <3>1. pc[b] \in {"publish", "release"} => Unit = 2 /\ Untaken
      BY <2>3 DEF IInv, PcInv, Unit, Untaken
    <3>2. pc[b] \notin {"publish", "release"}
      BY <3>1 DEF IInv, ResumeInv
    <3> QED  BY <2>1, <2>2, <2>3, <3>2 DEF HasCounted, Owes
  <2>4. CASE ~threads
    BY <2>1, <2>4 DEF SoloInv, Busy, Working, HasCounted
  <2> QED  BY <2>3, <2>4
<1> QED  BY <1>1, <1>2, <1>3

LEMMA SoloInvariant == Spec => [](IInv /\ SoloInv /\ EarlyInv)
<1>1. Init => SoloInv /\ EarlyInv
  BY DEF Init, SoloInv, EarlyInv, Busy, Working
<1> QED  BY <1>1, InvInit, InvStep, SoloStep, PTL DEF Spec

\* Once the coroutine has gone on, and may have destroyed the awaiter, no
\* branch will store, count, publish or resume in it; on one thread none will
\* even look at the operations that remain to be cancelled.  Excepted is a
\* clustered operation that went on early, as in JoinsResumeOnce.
THEOREM JoinsLetGo == Spec => []LetGo
BY NobodyInside, SoloInvariant, PTL

(***************************************************************************)
(* What the coroutine finds.                                               *)
(***************************************************************************)

\* race and any keep one result, that of the branch named by idx, and the
\* branch that publishes it does so once.
WinInv == kind \in OneWins =>
  /\ \A b \in Branches : pc[b] # "store"
  /\ stored = (IF idx = 0 THEN {} ELSE {idx})
  /\ idx # 0 => idx \in counted /\ \A b \in Branches : pc[b] # "publish"

\* In a race it is the first branch that counted itself.
RaceInv == kind = "race" =>
  /\ counted # {} => /\ first \in Branches
                     /\ idx = first \/ (idx = 0 /\ pc[first] = "publish")
  /\ \A b \in Branches : pc[b] = "publish" => b = first

\* In any() the sign of the counter tells whether a success has counted
\* itself, and one of them publishes.
AnyInv == kind = "any" =>
  /\ done > 0 <=> counted \cap ok # {}
  /\ \A b \in Branches : pc[b] = "publish" => b \in ok
  /\ idx # 0 => idx \in ok
  /\ counted \cap ok # {} => idx # 0 \/ \E b \in Branches : pc[b] = "publish"

\* In all() it tells whether a failure has.
AllInv == kind = "all" => (done < 0 <=> counted \ ok # {})

\* The others store every result before they count it.
StoreInv == kind \notin OneWins =>
  \A b \in Branches : b \in counted \/ pc[b] \in {"load", "cas", "count"} => b \in stored

OutcomeInv == WinInv /\ RaceInv /\ AnyInv /\ AllInv /\ StoreInv

\* Steps that neither count, nor store, nor publish.
LEMMA OutcomeSame ==
  ASSUME TypeOK, PcInv, OutcomeInv, UNCHANGED <<kind, stored, idx, counted, first>>,
         done' > 0 <=> done > 0, done' < 0 <=> done < 0,
         ok \subseteq ok', ok' \cap counted \subseteq ok,
         \A a \in Branches :
           /\ pc'[a] = "publish" <=> pc[a] = "publish"
           /\ pc'[a] \in {"load", "cas", "count"} =>
                pc[a] \in {"load", "cas", "count"} \/ kind \in OneWins
           /\ pc'[a] = "store" => pc[a] = "store" \/ kind \notin OneWins
  PROVE  OutcomeInv'
<1>1. idx = 0 \/ idx \in Branches
  BY DEF TypeOK, Branches
<1>2. counted' \cap ok' = counted \cap ok /\ counted' \ ok' = counted \ ok
  OBVIOUS
<1>3. WinInv' /\ RaceInv' /\ StoreInv'
  BY DEF OutcomeInv, WinInv, RaceInv, StoreInv
<1>4. AnyInv' /\ AllInv'
  BY <1>2 DEF OutcomeInv, AnyInv, AllInv
<1> QED  BY <1>3, <1>4 DEF OutcomeInv

\* A branch counts itself.
LEMMA OutcomeCount ==
  ASSUME IInv, OutcomeInv, NEW b \in Branches, NEW wins \in BOOLEAN,
         pc[b] \in {"count", "cas"}, CountAs(b, done, wins),
         kind \in OneWins => wins = Decides(done, b \in ok),
         UNCHANGED <<kind, threads, ok, stored, idx>>
  PROVE  OutcomeInv'
<1> DEFINE v  == NextDone(done, b \in ok)
           to == AfterCount(b, wins, Completes(v))
<1>1. /\ done' = v /\ counted' = counted \cup {b}
      /\ \A a \in Branches : pc'[a] = IF a = b THEN to ELSE pc[a]
      /\ first' = IF kind = "race" /\ counted = {} THEN b ELSE first
      /\ done \in Int /\ Unit \in {1, 2}
  BY DEF CountAs, IInv, TypeOK, Unit
<1>2. /\ to \in {"publish", "cancel", "resume", "end"}
      /\ to = "publish" <=> wins /\ kind \in OneWins
  BY DEF AfterCount
<1>3. b \notin counted
  BY DEF IInv, PcInv, HasCounted
<1> HIDE DEF to
<1>4. CASE kind = "race"
  <2>1. done = 0 <=> counted = {}
    <3>1. Abs(done) = Unit * Cardinality(counted) - Spot /\ Cardinality(counted) \in Nat
          /\ (Cardinality(counted) = 0 <=> counted = {})
      BY CountedSize DEF IInv, CounterInv
    <3>2. Spot \in {0, 1} /\ (done = 0 => Spot = 0) /\ (Unit = 1 => Spot = 0)
      BY <1>1 DEF Spot
    <3>3. CASE Unit = 1
      BY <1>1, <3>1, <3>2, <3>3 DEF Abs
    <3>4. CASE Unit = 2
      <4>1. done = 0 => 2 * Cardinality(counted) = 0
        BY <3>1, <3>2, <3>4 DEF Abs
      <4>2. Cardinality(counted) = 0 => done = 0
        BY <1>1, <3>1, <3>2, <3>4 DEF Abs
      <4> QED  BY <3>1, <4>1, <4>2
    <3> QED  BY <1>1, <3>3, <3>4
  <2>2. kind \in OneWins /\ (to = "publish" <=> counted = {})
    BY <1>2, <1>4, <2>1 DEF Decides, OneWins
  <2>3. idx # 0 => idx \in counted
    BY <2>2 DEF OutcomeInv, WinInv
  <2>4. WinInv'
    BY <1>1, <1>2, <2>2, <2>3 DEF OutcomeInv, WinInv
  <2>5. RaceInv'
    <3>1. counted = {} => \A a \in Branches : pc[a] # "publish"
      BY DEF IInv, PcInv, HasCounted
    <3>2. CASE counted = {}
      BY <1>1, <2>2, <2>3, <3>1, <3>2 DEF RaceInv
    <3>3. CASE counted # {}
      <4>1. first # b
        BY <1>3, <1>4, <2>3, <3>3 DEF OutcomeInv, RaceInv, Branches
      <4> QED  BY <1>1, <1>4, <2>2, <3>3, <4>1 DEF OutcomeInv, RaceInv
    <3> QED  BY <3>2, <3>3
  <2> QED  BY <1>4, <2>2, <2>4, <2>5 DEF OutcomeInv, AnyInv, AllInv, StoreInv
<1>5. CASE kind = "any"
  <2>1. kind \in OneWins /\ (to = "publish" <=> done <= 0 /\ b \in ok)
    BY <1>2, <1>5 DEF Decides, OneWins
  <2>2. v > 0 <=> done > 0 \/ b \in ok
    BY <1>1, <1>5 DEF NextDone, AnyNext
  <2>3. (done > 0 <=> counted \cap ok # {}) /\ (idx # 0 => idx \in counted \cap ok)
    BY <1>5, <2>1 DEF OutcomeInv, AnyInv, WinInv
  <2>4. done <= 0 <=> ~(done > 0)
    BY <1>1
  <2> HIDE DEF v
  <2>5. WinInv'
    BY <1>1, <1>2, <2>1, <2>3, <2>4 DEF OutcomeInv, WinInv
  <2>6. AnyInv'
    <3>1. done' > 0 <=> counted' \cap ok' # {}
      BY <1>1, <2>2, <2>3
    <3>2. \A a \in Branches : pc'[a] = "publish" => a \in ok'
      BY <1>1, <1>5, <2>1 DEF OutcomeInv, AnyInv
    <3>3. idx' # 0 => idx' \in ok'
      BY <2>3
    <3>4. ASSUME counted' \cap ok' # {}
          PROVE  idx' # 0 \/ \E a \in Branches : pc'[a] = "publish"
      <4>1. CASE done > 0
        <5>1. idx # 0 \/ \E a \in Branches : pc[a] = "publish"
          BY <1>5, <2>3, <4>1 DEF OutcomeInv, AnyInv
        <5> QED  BY <1>1, <5>1
      <4>2. CASE ~(done > 0)
        BY <1>1, <2>1, <2>3, <2>4, <3>4, <4>2
      <4> QED  BY <4>1, <4>2
    <3> QED  BY <3>1, <3>2, <3>3, <3>4 DEF AnyInv
  <2> QED  BY <1>5, <2>1, <2>5, <2>6 DEF OutcomeInv, RaceInv, AllInv, StoreInv
<1>6. CASE kind \notin OneWins
  <2>1. StoreInv'
    BY <1>1, <1>2, <1>6 DEF OutcomeInv, StoreInv
  <2>2. AllInv'
    <3> SUFFICES ASSUME kind = "all" PROVE AllInv'
      BY DEF AllInv
    <3>1. v < 0 <=> done < 0 \/ b \notin ok
      <4>1. v = AllNext(done, b \in ok)
        BY DEF NextDone
      <4>2. CASE b \in ok
        BY <1>1, <4>1, <4>2 DEF AllNext
      <4>3. CASE b \notin ok
        BY <1>1, <4>1, <4>3 DEF AllNext
      <4> QED  BY <4>2, <4>3
    <3> HIDE DEF v
    <3> QED  BY <1>1, <3>1 DEF OutcomeInv, AllInv
  <2> QED  BY <1>6, <2>1, <2>2 DEF OutcomeInv, WinInv, RaceInv, AnyInv, OneWins
<1> QED  BY <1>4, <1>5, <1>6 DEF OneWins

\* The winner puts its result in place.
LEMMA OutcomePublish ==
  ASSUME IInv, OutcomeInv, NEW b \in Branches, Publish(b)
  PROVE  OutcomeInv'
<1>1. /\ pc[b] = "publish" /\ kind \in OneWins /\ idx' = b /\ stored' = stored \cup {b}
      /\ \A a \in Branches : pc'[a] = IF a = b THEN (IF threads THEN "release" ELSE "cancel") ELSE pc[a]
      /\ UNCHANGED <<kind, ok, done, counted, first>> /\ b # 0
  BY DEF Publish, IInv, TypeOK, PcInv, Branches
<1>2. idx = 0 /\ stored = {} /\ b \in counted
  BY <1>1 DEF OutcomeInv, WinInv, IInv, PcInv, HasCounted
<1>3. \A a \in Branches : pc'[a] # "publish"
  BY <1>1 DEF IInv, CounterInv
<1>4. WinInv'
  BY <1>1, <1>2, <1>3 DEF OutcomeInv, WinInv
<1>5. RaceInv'
  BY <1>1, <1>3 DEF OutcomeInv, RaceInv
<1>6. AnyInv'
  BY <1>1, <1>3 DEF OutcomeInv, AnyInv
<1> QED  BY <1>1, <1>4, <1>5, <1>6 DEF OutcomeInv, AllInv, StoreInv, OneWins

LEMMA OutcomeWork ==
  ASSUME IInv, OutcomeInv, NEW b \in Branches, Work(b)
  PROVE  OutcomeInv'
<1>0. TypeOK /\ PcInv
  BY DEF IInv
<1>1. CASE Store(b)
  <2>1. /\ pc[b] = "store" /\ kind \notin OneWins /\ stored' = stored \cup {b}
        /\ UNCHANGED <<kind, ok, done, counted, idx, first>>
        /\ \A a \in Branches : a # b => pc'[a] = pc[a]
    BY <1>0, <1>1 DEF Store, OutcomeInv, WinInv, TypeOK, history
  <2> QED  BY <2>1 DEF OutcomeInv, WinInv, RaceInv, AnyInv, AllInv, StoreInv, OneWins
<1>2. CASE Count(b)
  <2>1. /\ Decides(done, b \in ok) \in BOOLEAN /\ CountAs(b, done, Decides(done, b \in ok))
        /\ pc[b] = "count" /\ UNCHANGED <<kind, threads, ok, stored, idx>>
    BY <1>2 DEF Count, Decides, result
  <2> QED  BY <2>1, OutcomeCount
<1>3. CASE CasSucceeds(b)
  <2>1. kind \in {"any", "all"} /\ done = seen[b] /\ pc[b] = "cas"
    BY <1>0, <1>3 DEF CasSucceeds, PcInv
  <2>2. Needs(b) \in BOOLEAN /\ (kind \in OneWins => Needs(b) = Decides(done, b \in ok))
    BY <2>1 DEF OneWins, Needs, Decides
  <2>3. CountAs(b, done, Needs(b)) /\ UNCHANGED <<kind, threads, ok, stored, idx>>
    BY <1>3, <2>1 DEF CasSucceeds, result
  <2> QED  BY <2>1, <2>2, <2>3, OutcomeCount
<1>4. CASE Publish(b)
  BY <1>4, OutcomePublish
<1>5. CASE Release(b)
  <2>1. /\ UNCHANGED <<kind, ok, stored, idx, counted, first>> /\ done' = done - 1
        /\ pc[b] = "release" /\ kind \in OneWins /\ threads
        /\ pc' = [pc EXCEPT ![b] = IF done = 2 * N THEN "resume" ELSE "cancel"]
    BY <1>0, <1>5 DEF Release, result, PcInv
  <2>2. Untaken /\ done > 0 /\ done \in Int /\ Abs(done) = 2 * Cardinality(counted)
        /\ Cardinality(counted) \in Nat
    BY <2>1, CountedSize DEF Untaken, IInv, CounterInv, Unit, Spot, TypeOK
  <2>3. done' > 0
    BY <2>1, <2>2 DEF Abs
  <2>4. (done' > 0 <=> done > 0) /\ (done' < 0 <=> done < 0)
    BY <2>1, <2>2, <2>3
  <2>5. \A a \in Branches : pc'[a] = pc[a] \/ (a = b /\ pc'[a] \in {"resume", "cancel"})
    BY <1>0, <2>1 DEF TypeOK
  <2> QED  BY <1>0, <2>1, <2>4, <2>5, OutcomeSame
<1>6. CASE Load(b) \/ CasFails(b) \/ CancelNext(b) \/ CancelDone(b) \/ Resume(b)
  <2>1. /\ UNCHANGED <<kind, ok, stored, idx, counted, first, done>>
        /\ \A a \in Branches : \/ pc'[a] = pc[a]
                               \/ a = b /\ pc[a] = "load" /\ pc'[a] = "cas"
                               \/ a = b /\ pc[a] \in {"cancel", "resume"}
                                  /\ pc'[a] \in {"resume", "end"}
    BY <1>0, <1>6
    DEF Load, CasFails, CancelNext, CancelDone, Resume, TypeOK, result, history
  <2> QED  BY <1>0, <2>1, OutcomeSame
<1> QED  BY <1>1, <1>2, <1>3, <1>4, <1>5, <1>6 DEF Work

LEMMA OutcomeStep ==
  ASSUME IInv, OutcomeInv, [Next]_vars
  PROVE  OutcomeInv'
<1>0. TypeOK /\ PcInv /\ started \in 0..(N + 1)
  BY DEF IInv, TypeOK
<1>1. CASE CancelAll \/ UNCHANGED vars \/ Refuse \/ Return
  <2>1. UNCHANGED <<kind, ok, stored, idx, counted, first, done, pc>>
    BY <1>1 DEF CancelAll, vars, flow, result, history, Refuse, Return
  <2> QED  BY <1>0, <2>1, OutcomeSame
<1>2. CASE StartBranch \/ PushBatch \/ PushPart
  <2>1. /\ UNCHANGED <<kind, ok, stored, idx, counted, first, done>>
        /\ \A a \in Branches : pc'[a] = pc[a] \/ (pc[a] = "wait" /\ pc'[a] = "run")
    BY <1>0, <1>2 DEF StartBranch, PushBatch, PushPart, PcInv, TypeOK, Branches, result, history
  <2> QED  BY <1>0, <2>1, OutcomeSame
<1>3. ASSUME NEW b \in Branches, NEW good \in Outcomes, pc[b] \in {"wait", "run"},
             pc' = [pc EXCEPT ![b] = Entry], ok' = IF good THEN ok \cup {b} ELSE ok,
             UNCHANGED <<kind, stored, idx, counted, first, done>>
      PROVE  OutcomeInv'
  <2>1. b \notin counted
    BY <1>0, <1>3 DEF PcInv, HasCounted
  <2>2. /\ Entry \in {"load", "count", "store"}
        /\ Entry \in {"load", "count"} => kind \in OneWins
        /\ Entry = "store" => kind \notin OneWins
    BY DEF Entry, OneWins
  <2>3. \A a \in Branches : pc'[a] = IF a = b THEN Entry ELSE pc[a]
    BY <1>0, <1>3 DEF TypeOK
  <2> HIDE DEF Entry
  <2>4. \A a \in Branches :
          /\ pc'[a] = "publish" <=> pc[a] = "publish"
          /\ pc'[a] \in {"load", "cas", "count"} =>
               pc[a] \in {"load", "cas", "count"} \/ kind \in OneWins
          /\ pc'[a] = "store" => pc[a] = "store" \/ kind \notin OneWins
    BY <1>3, <2>2, <2>3
  <2>5. ok \subseteq ok' /\ ok' \cap counted \subseteq ok
    BY <1>3, <2>1
  <2> QED  BY <1>0, <1>3, <2>4, <2>5, OutcomeSame
<1>4. ASSUME NEW good \in Outcomes, StartInline(good) PROVE OutcomeInv'
  <2>1. started + 1 \in Branches /\ pc[started + 1] = "wait"
    BY <1>0, <1>4 DEF StartInline, PcInv, Branches
  <2> QED  BY <1>3, <1>4, <2>1 DEF StartInline, result, history
<1>5. CASE PushRefused
  <2>1. /\ kind = "cluster" /\ kind' = kind /\ stored' = stored \cup {started + 1}
        /\ counted' = counted \cup {started + 1}
        /\ \A a \in Branches : pc'[a] = pc[a] \/ pc'[a] = "end"
    BY <1>0, <1>5 DEF PushRefused, TypeOK
  <2> QED  BY <2>1 DEF OutcomeInv, WinInv, RaceInv, AnyInv, AllInv, StoreInv, OneWins
<1>6. ASSUME NEW b \in Branches, NEW good \in Outcomes, Finish(b, good)
      PROVE  OutcomeInv'
  BY <1>3, <1>6 DEF Finish, result, history
<1> QED  BY <1>1, <1>2, <1>4, <1>5, <1>6, OutcomeWork DEF Next, Starter

\* With every branch counted and the winner's result in place, the outcome
\* is the one that the kind of awaiter promises.
LEMMA OutcomeIsVerdict ==
  ASSUME IInv, SoloInv, EarlyInv, OutcomeInv
  PROVE  Verdict
<1> SUFFICES ASSUME resumed > 0, Begun
             PROVE  CASE kind = "race" -> idx = first /\ stored = {idx}
                      [] kind = "any"  -> /\ idx \in ok <=> ok # {}
                                          /\ stored = (IF idx = 0 THEN {} ELSE {idx})
                      [] kind = "all"  -> stored = Branches /\ (done < 0 <=> ok # Branches)
                      [] OTHER         -> stored = Branches
  BY DEF Verdict
<1>1. counted = Branches /\ ok \subseteq Branches /\ stored \subseteq Branches /\ 1 \in Branches
  <2>1. Refused => ~Begun
    BY DEF IInv, PcInv, HasCounted, TypeOK, Refused, Begun
  <2> QED  BY <2>1 DEF IInv, ResumeInv, TypeOK, Branches
<1>2. kind \in OneWins => \A b \in Branches : pc[b] # "publish"
  <2> SUFFICES ASSUME kind \in OneWins, NEW b \in Branches, pc[b] = "publish" PROVE FALSE
    OBVIOUS
  <2>1. ~early
    BY DEF EarlyInv, OneWins
  <2>2. pc[b] \notin {"wait", "end", "cancel"}
    OBVIOUS
  <2> QED  BY <2>1, <2>2, NobodyInside DEF LetGo
<1>3. kind \notin OneWins => stored = Branches
  BY <1>1 DEF OutcomeInv, StoreInv
<1>4. CASE kind = "race"
  <2>1. idx = first /\ first \in Branches
    BY <1>1, <1>2, <1>4 DEF OutcomeInv, RaceInv, OneWins
  <2> QED  BY <1>4, <2>1 DEF OutcomeInv, WinInv, OneWins, Branches
<1>5. CASE kind = "any"
  <2>1. ok # {} => idx # 0
    BY <1>1, <1>2, <1>5 DEF OutcomeInv, AnyInv, OneWins
  <2>2. /\ idx # 0 => idx \in ok
        /\ stored = (IF idx = 0 THEN {} ELSE {idx})
    BY <1>5 DEF OutcomeInv, AnyInv, WinInv, OneWins
  <2> QED  BY <1>1, <1>5, <2>1, <2>2
<1>6. CASE kind = "all"
  <2>1. Branches \ ok # {} <=> ok # Branches
    BY <1>1
  <2> QED  BY <1>1, <1>3, <1>6, <2>1 DEF OutcomeInv, AllInv, OneWins
<1> QED  BY <1>3, <1>4, <1>5, <1>6 DEF OneWins

LEMMA OutcomeInvariant == Spec => [](IInv /\ SoloInv /\ EarlyInv /\ OutcomeInv)
<1>1. Init => OutcomeInv
  BY DEF Init, OutcomeInv, WinInv, RaceInv, AnyInv, AllInv, StoreInv
<1>2. IInv /\ OutcomeInv /\ [Next]_vars => OutcomeInv'
  BY OutcomeStep
<1> QED  BY <1>1, <1>2, InvInit, InvStep, SoloInvariant, PTL DEF Spec

\* race() reports the first branch to finish, any() a success if there was
\* one, all() every result and whether one failed, for any number of
\* branches and whatever the order in which threads count them.
THEOREM JoinsGiveVerdict == Spec => []Verdict
BY OutcomeIsVerdict, OutcomeInvariant, PTL
=============================================================================
