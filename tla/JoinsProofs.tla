----------------------------- MODULE JoinsProofs -----------------------------
(***************************************************************************)
(* Theorems about Joins, for every number of branches.                     *)
(***************************************************************************)
EXTENDS Joins, FiniteSetTheorems, TLAPS

USE NAssumption, KindsAssumption

(***************************************************************************)
(* Type correctness.                                                       *)
(***************************************************************************)

\* A branch that has something to do is a branch; the starter's next one too.
LEMMA NextBranch ==
  ASSUME TypeOK, started < N
  PROVE  started + 1 \in Branches /\ started + 1 \in 0..(N + 1)
BY DEF TypeOK, Branches

\* What counting does to the types.
LEMMA CountAsType ==
  ASSUME TypeOK, NEW b \in Branches, NEW s \in Int, NEW wins \in BOOLEAN,
         CountAs(b, s, wins)
  PROVE  /\ done' \in Int
         /\ pc' \in [Branches -> Working \cup {"wait", "run", "end"}]
         /\ seen' \in [Branches -> Int] /\ need' \subseteq Branches
         /\ last' \subseteq Branches /\ counted' \subseteq Branches
         /\ first' \in 0..N
<1>1. NextDone(s, b \in ok) \in Int
  BY DEF NextDone, AnyNext, AllNext, RaceNext, Unit
<1>2. \A full \in BOOLEAN : AfterCount(b, wins, full) \in Working \cup {"end"}
  BY DEF AfterCount, Working
<1>3. Completes(NextDone(s, b \in ok)) \in BOOLEAN
  BY DEF Completes
<1> QED  BY <1>1, <1>2, <1>3 DEF CountAs, TypeOK, Branches

LEMMA TypeInit == Init => TypeOK
<1> SUFFICES ASSUME Init PROVE TypeOK
  OBVIOUS
<1>1. /\ pc \in [Branches -> Working \cup {"wait", "run", "end"}]
      /\ seen \in [Branches -> Int] /\ target \in [Branches -> 1..(N + 1)]
  BY DEF Init
<1>2. /\ started \in 0..(N + 1) /\ done \in Int /\ resumed \in Nat
      /\ idx \in 0..N /\ first \in 0..N
  BY DEF Init
<1> QED  BY <1>1, <1>2 DEF Init, TypeOK

LEMMA TypeStep == TypeOK /\ [Next]_vars => TypeOK'
<1> SUFFICES ASSUME TypeOK, [Next]_vars PROVE TypeOK'
  OBVIOUS
<1>1. CASE Refuse
  BY <1>1 DEF Refuse, TypeOK, flow, result, history
<1>2. CASE StartBranch
  BY <1>2, NextBranch DEF StartBranch, TypeOK, result, history
<1>3. ASSUME NEW good \in Outcomes, StartInline(good) PROVE TypeOK'
  <2>1. Entry \in Working
    BY DEF Entry, Working
  <2> QED  BY <1>3, <2>1, NextBranch DEF StartInline, Over, TypeOK, result, history
<1>4. CASE PushBatch
  BY <1>4 DEF PushBatch, TypeOK, result, history
<1>5. CASE PushPart
  BY <1>5, NextBranch DEF PushPart, TypeOK, result, history
<1>6. CASE PushRefused
  BY <1>6, NextBranch DEF PushRefused, TypeOK
<1>7. CASE Return
  BY <1>7 DEF Return, TypeOK, flow, result, history
<1>8. CASE CancelAll
  BY <1>8 DEF CancelAll, Ask, TypeOK, flow, result, history
<1>9. ASSUME NEW b \in Branches, NEW good \in Outcomes, Finish(b, good) PROVE TypeOK'
  <2>1. Entry \in Working
    BY DEF Entry, Working
  <2> QED  BY <1>9, <2>1 DEF Finish, Over, TypeOK, result, history
<1>10. ASSUME NEW b \in Branches, Store(b) PROVE TypeOK'
  BY <1>10 DEF Store, TypeOK, Working, history
<1>11. ASSUME NEW b \in Branches, Count(b) PROVE TypeOK'
  <2>1. Decides(done, b \in ok) \in BOOLEAN /\ done \in Int
    BY DEF Decides, TypeOK
  <2>2. CountAs(b, done, Decides(done, b \in ok))
    BY <1>11 DEF Count
  <2>3. early' \in BOOLEAN
    BY <1>11 DEF Count, TypeOK
  <2> QED  BY <1>11, <2>1, <2>2, <2>3, CountAsType DEF Count, TypeOK, result
<1>12. ASSUME NEW b \in Branches, Load(b) PROVE TypeOK'
  BY <1>12 DEF Load, TypeOK, Working, result, history
<1>13. ASSUME NEW b \in Branches, CasSucceeds(b) PROVE TypeOK'
  <2>1. Needs(b) \in BOOLEAN /\ seen[b] \in Int
    BY DEF Needs, Decides, TypeOK
  <2>2. CountAs(b, seen[b], Needs(b))
    BY <1>13 DEF CasSucceeds
  <2> QED  BY <1>13, <2>1, <2>2, CountAsType DEF CasSucceeds, TypeOK, result
<1>14. ASSUME NEW b \in Branches, CasFails(b) PROVE TypeOK'
  BY <1>14 DEF CasFails, TypeOK, result, history
<1>15. ASSUME NEW b \in Branches, Publish(b) PROVE TypeOK'
  <2>1. stored' \subseteq Branches /\ idx' \in 0..N
    BY <1>15 DEF Publish, TypeOK, Branches
  <2>2. pc' \in [Branches -> Working \cup {"wait", "run", "end"}]
    BY <1>15 DEF Publish, TypeOK, Working
  <2> QED  BY <1>15, <2>1, <2>2 DEF Publish, TypeOK
<1>16. ASSUME NEW b \in Branches, Release(b) PROVE TypeOK'
  BY <1>16 DEF Release, TypeOK, Working, result
<1>17. ASSUME NEW b \in Branches, CancelNext(b) PROVE TypeOK'
  <2>1. target' \in [Branches -> 1..(N + 1)]
    BY <1>17 DEF CancelNext, TypeOK, Branches
  <2>2. asked' \subseteq Branches /\ lost' \subseteq Branches
    BY <1>17 DEF CancelNext, Ask, TypeOK
  <2>3. late' \in BOOLEAN
    BY <1>17 DEF CancelNext, TypeOK
  <2> QED  BY <1>17, <2>1, <2>2, <2>3 DEF CancelNext, TypeOK, result
<1>18. ASSUME NEW b \in Branches, CancelDone(b) PROVE TypeOK'
  BY <1>18 DEF CancelDone, TypeOK, Working, result, history
<1>19. ASSUME NEW b \in Branches, Resume(b) PROVE TypeOK'
  BY <1>19 DEF Resume, TypeOK, result, history
<1>20. CASE UNCHANGED vars
  BY <1>20 DEF vars, flow, result, history, TypeOK
<1> QED
  BY <1>1, <1>2, <1>3, <1>4, <1>5, <1>6, <1>7, <1>8, <1>9, <1>10, <1>11, <1>12,
     <1>13, <1>14, <1>15, <1>16, <1>17, <1>18, <1>19, <1>20
  DEF Next, Starter, Work

\* Every variable of an awaiter keeps its type, for any number of branches.
THEOREM JoinsTypeCorrect == Spec => []TypeOK
<1> QED  BY TypeInit, TypeStep, PTL DEF Spec

(***************************************************************************)
(* The coroutine goes on once, after every branch.                         *)
(*                                                                         *)
(* The counter tells how many branches have counted themselves, in twos    *)
(* less the one that the winner takes back (Spot).  A branch owes the      *)
(* resumption when it has read the final value; from then on nobody else   *)
(* counts, and while the winner still has to take one back nobody owes.    *)
(***************************************************************************)

HasCounted == {"publish", "release", "cancel", "resume", "end"}
Untaken == \E b \in Branches : pc[b] \in {"publish", "release"}
Owes(b) == pc[b] = "resume" \/ (b \in last /\ pc[b] \in {"publish", "release", "cancel"})
Spot    == IF Unit = 2 /\ done > 0 /\ ~Untaken THEN 1 ELSE 0
Refused == started = N + 1 /\ \A b \in Branches : pc[b] = "wait"

PcInv ==
  /\ \A b \in Branches : b \in counted <=> pc[b] \in HasCounted
  /\ \A b \in Branches : pc[b] \in {"load", "cas"} => kind \in {"any", "all"}
  /\ \A b \in Branches : pc[b] = "count" => kind \notin {"any", "all"}
  /\ \A b \in Branches : pc[b] = "store" => kind # "any"
  /\ \A b \in Branches : pc[b] \in {"publish", "release"} => kind \in OneWins
  /\ \A b \in Branches : pc[b] = "release" => threads
  /\ last \subseteq counted
  /\ started \in 0..N => \A b \in Branches : b > started => pc[b] = "wait"
  /\ started = 0 => resumed = 0

CounterInv ==
  /\ kind \notin {"any", "all"} => done >= 0
  /\ Abs(done) = Unit * Cardinality(counted) - Spot
  /\ Untaken => done > 0
  /\ \A a, b \in Branches :
       pc[a] \in {"publish", "release"} /\ pc[b] \in {"publish", "release"} => a = b

ResumeInv ==
  /\ resumed = 0 \/ counted = Branches \/ Refused
  /\ \A b \in Branches : Owes(b) => counted = Branches
  /\ ~early =>
       /\ resumed <= 1
       /\ \A b \in Branches : Owes(b) =>
            resumed = 0 /\ (kind = "cluster" => started = N + 1)
       /\ \A a, b \in Branches : Owes(a) /\ Owes(b) => a = b
       /\ Unit = 2 /\ Untaken => resumed = 0 /\ \A b \in Branches : ~Owes(b)
       /\ kind = "cluster" /\ started # N + 1 => resumed = 0

IInv == TypeOK /\ PcInv /\ CounterInv /\ ResumeInv

\* How large the set of counted branches is.
LEMMA CountedSize ==
  ASSUME TypeOK
  PROVE  /\ Cardinality(counted) \in 0..N
         /\ Cardinality(counted) = N => counted = Branches
         /\ counted = Branches => Cardinality(counted) = N
         /\ Cardinality(counted) = 0 <=> counted = {}
         /\ \A b \in Branches : b \notin counted =>
              /\ Cardinality(counted) < N
              /\ Cardinality(counted \cup {b}) = Cardinality(counted) + 1
<1>1. IsFiniteSet(Branches) /\ Cardinality(Branches) = N
  BY FS_Interval DEF Branches
<1>2. counted \in SUBSET Branches
  BY DEF TypeOK
<1>3. /\ IsFiniteSet(counted) /\ Cardinality(counted) <= N
      /\ Cardinality(counted) = N => counted = Branches
  BY <1>1, <1>2, FS_Subset
<1>4. Cardinality(counted) \in Nat
  BY <1>3, FS_CardinalityType
<1>5. Cardinality(counted) = 0 <=> counted = {}
  BY <1>3, FS_EmptySet
<1>6. ASSUME NEW b \in Branches, b \notin counted
      PROVE  Cardinality(counted) < N
  <2>1. counted # Branches
    BY <1>6
  <2> QED  BY <2>1, <1>3, <1>4
<1>7. \A b \in Branches : b \notin counted =>
        Cardinality(counted \cup {b}) = Cardinality(counted) + 1
  BY <1>3, FS_AddElement
<1> QED  BY <1>1, <1>3, <1>4, <1>5, <1>6, <1>7

\* The counter after one more branch, and when it is the final value.
LEMMA CounterStep ==
  ASSUME TypeOK, CounterInv, NEW good \in BOOLEAN, Cardinality(counted) < N
  PROVE  LET c == Cardinality(counted)
             v == NextDone(done, good)
         IN  /\ v \in Int
             /\ kind \notin {"any", "all"} => v = done + Unit /\ done >= 0
             /\ Unit = 1 => Abs(v) = c + 1
             /\ Unit = 2 /\ done > 0 => v = done + 2
             /\ Unit = 2 /\ done <= 0 =>
                  /\ Abs(v) = 2 * c + 2
                  /\ v > 0 <=> (kind = "race" \/ good)
             /\ Completes(v) => c + 1 = N
             /\ Unit = 2 /\ Completes(v) => Spot = 1 \/ v < 0
             /\ Unit = 2 /\ v < 0 => done <= 0
<1>1. Cardinality(counted) \in Nat /\ done \in Int
  BY CountedSize DEF TypeOK
<1>2. Unit \in {1, 2} /\ (Unit = 2 => kind \in OneWins)
  BY DEF Unit
<1>3. Spot \in {0, 1} /\ (done <= 0 => Spot = 0) /\ (Unit = 1 => Spot = 0)
  BY <1>1, <1>2 DEF Spot
<1>4. Abs(done) = Unit * Cardinality(counted) - Spot
      /\ (kind \notin {"any", "all"} => done >= 0)
  BY DEF CounterInv
<1>5. CASE Unit = 1
  BY <1>1, <1>2, <1>3, <1>4, <1>5
  DEF Abs, NextDone, AnyNext, AllNext, RaceNext, Completes
<1>6. CASE Unit = 2
  <2>1. kind = "race" \/ kind = "any"
    BY <1>2, <1>6 DEF OneWins
  <2>2. CASE kind = "race"
    BY <1>1, <1>3, <1>4, <1>6, <2>2 DEF Abs, NextDone, RaceNext, Completes
  <2>3. CASE kind = "any"
    <3> DEFINE w == NextDone(done, good)
    <3>1. PICK c \in Nat : c = Cardinality(counted)
      BY <1>1
    <3>2. Abs(done) = 2 * c - Spot
      BY <1>4, <1>6, <3>1
    <3>3. w = AnyNext(done, good)
      BY <2>3 DEF NextDone
    <3>4. Completes(w) <=> w = 2 * N - 1 \/ -w = 2 * N
      BY <1>6, <2>3 DEF Completes
    <3>5. CASE done > 0
      <4>1. w = done + 2 /\ done = 2 * c - Spot
        BY <1>1, <1>6, <3>2, <3>3, <3>5 DEF AnyNext, Abs
      <4> QED  BY <1>1, <1>3, <1>6, <2>3, <3>1, <3>4, <3>5, <4>1 DEF Abs
    <3>6. CASE done <= 0 /\ good = TRUE
      <4>1. w = 2 - done /\ -done = 2 * c /\ Spot = 0
        BY <1>1, <1>3, <1>6, <3>2, <3>3, <3>6 DEF AnyNext, Abs
      <4>2. w = 2 * c + 2 /\ w \in Int /\ w > 0 /\ Abs(w) = 2 * c + 2
        BY <1>1, <4>1 DEF Abs
      <4>3. ~Completes(w)
        BY <3>4, <4>2
      <4>4. w > 0 <=> (kind = "race" \/ good)
        BY <3>6, <4>2, Zenon
      <4>5. Unit = 1 => Abs(w) = c + 1
        BY <1>6
      <4>6. kind \notin {"any", "all"} => w = done + Unit /\ done >= 0
        BY <2>3
      <4>7. ~(done > 0) /\ ~(w < 0)
        <5>1. done \in Int /\ done <= 0
          BY <1>1, <3>6
        <5>2. w \in Int /\ w > 0
          BY <4>2
        <5> HIDE DEF w
        <5> QED  BY <5>1, <5>2
      <4> QED  BY <3>1, <4>2, <4>3, <4>4, <4>5, <4>6, <4>7, Zenon
    <3>7. CASE done <= 0 /\ good = FALSE
      <4>1. w = done - 2 /\ -done = 2 * c /\ Spot = 0
        BY <1>1, <1>3, <1>6, <3>2, <3>3, <3>7 DEF AnyNext, Abs
      <4>2. -w = 2 * c + 2 /\ w \in Int /\ w < 0 /\ Abs(w) = 2 * c + 2
        BY <1>1, <4>1 DEF Abs
      <4>3. Completes(w) => c + 1 = N
        BY <3>4, <4>2
      <4> QED  BY <1>1, <1>6, <2>3, <3>1, <3>7, <4>2, <4>3
    <3>8. (done > 0 \/ done <= 0) /\ (good = TRUE \/ good = FALSE)
      BY <1>1
    <3> QED  BY <3>5, <3>6, <3>7, <3>8, Zenon
  <2> QED  BY <2>1, <2>2, <2>3
<1> QED  BY <1>2, <1>5, <1>6

\* One more branch counts itself, by fetch_add or by compare-and-exchange.
LEMMA CountStep ==
  ASSUME IInv, NEW b \in Branches, NEW wins \in BOOLEAN,
         pc[b] \in {"count", "cas"}, CountAs(b, done, wins),
         kind \in OneWins => wins = Decides(done, b \in ok),
         wins => kind \in {"race", "any", "all"},
         UNCHANGED <<kind, threads, started, resumed>>,
         early' = (early \/ (kind = "cluster" /\ started # N + 1 /\ done + 1 = N))
  PROVE  PcInv' /\ CounterInv' /\ ResumeInv'
<1> DEFINE c    == Cardinality(counted)
           v    == NextDone(done, b \in ok)
           full == Completes(v)
           to   == AfterCount(b, wins, full)
<1> USE DEF IInv
<1>1. /\ done' = v /\ counted' = counted \cup {b}
      /\ \A a \in Branches : pc'[a] = IF a = b THEN to ELSE pc[a]
      /\ last' = IF full THEN last \cup {b} ELSE last
  BY DEF CountAs, TypeOK
<1>2. b \notin counted /\ counted # Branches
  BY DEF PcInv, HasCounted
<1>3. c \in 0..N /\ c < N /\ Cardinality(counted') = c + 1
  BY <1>1, <1>2, CountedSize
<1>4. /\ v \in Int
      /\ kind \notin {"any", "all"} => v = done + Unit /\ done >= 0
      /\ Unit = 1 => Abs(v) = c + 1
      /\ Unit = 2 /\ done > 0 => v = done + 2
      /\ Unit = 2 /\ done <= 0 =>
           Abs(v) = 2 * c + 2 /\ (v > 0 <=> (kind = "race" \/ b \in ok))
      /\ full => c + 1 = N
      /\ Unit = 2 /\ full => Spot = 1 \/ v < 0
      /\ Unit = 2 /\ v < 0 => done <= 0
  <2>1. (b \in ok) \in BOOLEAN
    OBVIOUS
  <2> QED  BY <2>1, <1>3, CounterStep
<1>5. resumed = 0 /\ \A a \in Branches : ~Owes(a)
  <2>1. ~Refused
    BY DEF Refused
  <2>2. resumed = 0
    BY <2>1, <1>2 DEF ResumeInv
  <2> QED  BY <2>2, <1>2 DEF ResumeInv
<1>6. /\ to \in {"publish", "cancel", "resume", "end"}
      /\ to = "publish" <=> wins /\ kind \in OneWins
      /\ to = "resume" => full
  BY DEF AfterCount
<1> HIDE DEF to, full
<1>7. done \in Int /\ Unit \in {1, 2} /\ (Unit = 2 => kind \in OneWins)
  BY DEF TypeOK, Unit
<1>8. to = "publish" => done <= 0 /\ ~Untaken /\ v > 0
  <2> SUFFICES ASSUME to = "publish" PROVE done <= 0 /\ ~Untaken /\ v > 0
    OBVIOUS
  <2>1. kind \in OneWins /\ Decides(done, b \in ok)
    BY <1>6
  <2>2. done <= 0 /\ (kind = "any" => b \in ok) /\ (kind = "race" => done = 0)
    BY <2>1, <1>7 DEF Decides, OneWins
  <2>3. ~Untaken
    BY <2>2, <1>7 DEF CounterInv
  <2>4. v > 0
    BY <2>1, <2>2, <1>7 DEF NextDone, AnyNext, RaceNext, OneWins
  <2> QED  BY <2>2, <2>3, <2>4
<1> HIDE DEF v
<1>9. Unit = 2 /\ done <= 0 /\ v > 0 => to = "publish"
  <2> SUFFICES ASSUME Unit = 2, done <= 0, v > 0 PROVE wins /\ kind \in OneWins
    BY <1>6
  <2>1. kind \in OneWins /\ (kind = "race" \/ b \in ok)
    BY <1>4, <1>7
  <2>2. Decides(done, b \in ok)
    BY <2>1, <1>4, <1>7 DEF Decides, OneWins
  <2> QED  BY <2>1, <2>2
<1>10. Untaken' <=> Untaken \/ to = "publish"
  <2>1. pc[b] \notin {"publish", "release"}
    OBVIOUS
  <2> QED  BY <2>1, <1>1, <1>6 DEF Untaken
<1>11. PcInv'
  BY <1>1, <1>6 DEF PcInv, HasCounted, TypeOK
<1>12. CounterInv'
  <2>1. kind' \notin {"any", "all"} => done' >= 0
    BY <1>1, <1>4, <1>7
  <2>2. Unit' = Unit
    BY DEF Unit
  <2>3. Spot \in {0, 1} /\ Spot' \in {0, 1} /\ (Unit = 1 => Spot' = 0)
    BY <2>2 DEF Spot
  <2>4. Abs(done') = Unit' * Cardinality(counted') - Spot'
    <3>1. CASE Unit = 1
      BY <3>1, <1>1, <1>3, <1>4, <2>2, <2>3
    <3>2. CASE Unit = 2 /\ done > 0
      <4>1. Spot' = Spot
        BY <3>2, <1>1, <1>4, <1>7, <1>8, <1>10, <2>2 DEF Spot
      <4>2. Abs(done) = 2 * c - Spot
        BY <3>2 DEF CounterInv
      <4> QED  BY <3>2, <4>1, <4>2, <1>1, <1>3, <1>4, <1>7, <2>2, <2>3 DEF Abs
    <3>3. CASE Unit = 2 /\ done <= 0
      <4>1. Spot' = 0
        BY <3>3, <1>1, <1>9, <1>10, <2>2 DEF Spot
      <4> QED  BY <3>3, <4>1, <1>1, <1>3, <1>4, <2>2
    <3> QED  BY <3>1, <3>2, <3>3, <1>7
  <2>5. Untaken' => done' > 0
    <3>1. CASE to = "publish"
      BY <3>1, <1>1, <1>8
    <3>2. CASE Untaken
      <4>1. done > 0 /\ kind \in OneWins
        BY <3>2 DEF CounterInv, Untaken, PcInv
      <4>2. v > 0
        BY <4>1, <1>7 DEF v, NextDone, AnyNext, RaceNext, OneWins
      <4> QED  BY <4>2, <1>1
    <3> QED  BY <3>1, <3>2, <1>10
  <2>6. \A a, d \in Branches :
          pc'[a] \in {"publish", "release"} /\ pc'[d] \in {"publish", "release"} => a = d
    BY <1>1, <1>6, <1>8 DEF Untaken, CounterInv
  <2> QED  BY <2>1, <2>4, <2>5, <2>6 DEF CounterInv
<1>13. ResumeInv'
  <2>1. resumed' = 0
    BY <1>5
  <2>2. ASSUME NEW a \in Branches, Owes(a)' PROVE a = b /\ full
    <3>1. ~Owes(a)
      BY <2>2, <1>5
    <3>2. a = b
      BY <2>2, <3>1, <1>1 DEF Owes
    <3>3. b \notin last
      BY <1>2 DEF PcInv
    <3> QED  BY <2>2, <3>2, <3>3, <1>1, <1>6 DEF Owes
  <2>3. ASSUME full PROVE counted' = Branches
    <3>1. TypeOK' \/ counted' \subseteq Branches
      BY <1>1 DEF TypeOK
    <3>2. Cardinality(counted') = N
      BY <2>3, <1>3, <1>4
    <3>3. IsFiniteSet(Branches) /\ Cardinality(Branches) = N
      BY FS_Interval DEF Branches
    <3>4. counted' \in SUBSET Branches
      BY <1>1 DEF TypeOK
    <3> QED  BY <3>2, <3>3, <3>4, FS_Subset
  <2>4. ASSUME full, ~early', kind' = "cluster" PROVE started' = N + 1
    <3>1. Unit = 1 /\ v = done + 1 /\ done >= 0
      BY <2>4, <1>4, <1>7 DEF OneWins
    <3>2. Abs(v) = N
      BY <2>4, <3>1, <1>3, <1>4
    <3>3. done + 1 = N
      BY <3>1, <3>2, <1>7 DEF Abs
    <3> QED  BY <2>4, <3>3
  <2>5. ASSUME full, Unit' = 2 PROVE ~Untaken'
    <3>1. Unit = 2
      BY <2>5 DEF Unit
    <3>2. CASE Spot = 1
      BY <3>2, <3>1, <1>7, <1>8, <1>10 DEF Spot
    <3>3. CASE v < 0
      BY <3>3, <3>1, <1>4, <1>7, <1>8, <1>10 DEF CounterInv
    <3> QED  BY <3>1, <3>2, <3>3, <1>4, <2>5
  <2> QED  BY <2>1, <2>2, <2>3, <2>4, <2>5 DEF ResumeInv
<1> QED  BY <1>11, <1>12, <1>13

\* The invariant before anything has happened.
LEMMA InvInit == Init => IInv
<1> SUFFICES ASSUME Init PROVE IInv
  OBVIOUS
<1>1. \A b \in Branches : pc[b] = "wait"
  BY DEF Init
<1>2. PcInv
  BY <1>1 DEF Init, PcInv, HasCounted
<1>3. CounterInv
  BY <1>1, FS_EmptySet DEF Init, CounterInv, Untaken, Spot, Abs, Unit
<1>4. ResumeInv
  BY <1>1 DEF Init, ResumeInv, Untaken, Owes
<1> QED  BY <1>2, <1>3, <1>4, TypeInit DEF IInv

\* Steps that neither count nor resume keep the counter's meaning.
LEMMA CounterSame ==
  ASSUME TypeOK, CounterInv,
         UNCHANGED <<kind, threads, done, counted>>,
         \A b \in Branches : pc'[b] \in {"publish", "release"} <=>
                             pc[b] \in {"publish", "release"}
  PROVE  CounterInv'
<1>1. Untaken' <=> Untaken
  BY DEF Untaken
<1>2. Spot' = Spot /\ Unit' = Unit
  BY <1>1 DEF Spot, Unit
<1> QED  BY <1>1, <1>2 DEF CounterInv, Abs

\* ... and so with who owes the resumption.
LEMMA ResumeSame ==
  ASSUME ResumeInv, UNCHANGED <<kind, threads, counted, resumed, early>>,
         resumed = 0 \/ started' = started, resumed = 0 \/ ~Refused \/ Refused',
         started = N + 1 => started' = N + 1,
         \A b \in Branches : Owes(b)' => Owes(b),
         Untaken' => Untaken
  PROVE  ResumeInv'
<1>1. Unit' = Unit
  BY DEF Unit
<1> QED  BY <1>1 DEF ResumeInv

\* Steps that start branches.
LEMMA StarterStep == IInv /\ Starter => (PcInv /\ CounterInv /\ ResumeInv)'
<1> SUFFICES ASSUME IInv, Starter PROVE (PcInv /\ CounterInv /\ ResumeInv)'
  OBVIOUS
<1> USE DEF IInv
<1>0. started \in 0..(N + 1) /\ \A b \in Branches : b > started /\ started \in 0..N => pc[b] = "wait"
  BY DEF TypeOK, PcInv
<1>1. CASE Refuse
  <2>1. \A b \in Branches : pc[b] = "wait"
    BY <1>1, <1>0 DEF Refuse, Branches
  <2>2. counted = {} /\ last = {} /\ resumed = 0
    BY <1>1, <2>1 DEF Refuse, PcInv, HasCounted, TypeOK
  <2>3. pc' = pc /\ last' = last /\ counted' = counted
    BY <1>1 DEF Refuse, flow, history
  <2>4. PcInv'
    BY <1>1, <2>1, <2>2, <2>3 DEF Refuse, PcInv, HasCounted
  <2>5. CounterInv'
    BY <1>1, <2>3, CounterSame DEF Refuse
  <2>6. ResumeInv'
    <3>1. \A b \in Branches : ~Owes(b)'
      BY <2>1, <2>2, <2>3 DEF Owes
    <3>2. ~Untaken'
      BY <2>1, <2>3 DEF Untaken
    <3>3. Refused' /\ resumed' = 1
      BY <1>1, <2>1, <2>2, <2>3 DEF Refuse, Refused
    <3>4. started' = N + 1
      BY <1>1 DEF Refuse
    <3> QED  BY <3>1, <3>2, <3>3, <3>4 DEF ResumeInv
  <2> QED  BY <2>4, <2>5, <2>6
<1>2. ASSUME NEW p \in Working \cup {"run"},
             started < N, started' = started + 1,
             pc' = [pc EXCEPT ![started + 1] = p], p \notin HasCounted,
             p \in {"load", "cas"} => kind \in {"any", "all"},
             p = "count" => kind \notin {"any", "all"},
             p = "store" => kind # "any",
             UNCHANGED <<kind, threads, done, counted, resumed, early, last>>
      PROVE  (PcInv /\ CounterInv /\ ResumeInv)'
  <2>1. /\ started + 1 \in Branches /\ pc[started + 1] = "wait"
        /\ started + 1 \notin counted /\ ~Refused
    BY <1>0, <1>2 DEF PcInv, HasCounted, Branches, Refused
  <2>2. resumed = 0
    BY <2>1 DEF ResumeInv
  <2>3. \A b \in Branches : pc'[b] = IF b = started + 1 THEN p ELSE pc[b]
    BY <1>2 DEF TypeOK
  <2>4. PcInv'
    BY <1>0, <1>2, <2>1, <2>2, <2>3 DEF PcInv, HasCounted, Branches
  <2>5. CounterInv'
    BY <1>2, <2>1, <2>3, CounterSame DEF HasCounted
  <2>6. (\A b \in Branches : Owes(b)' => Owes(b)) /\ (Untaken' => Untaken)
    BY <1>2, <2>1, <2>3 DEF Owes, Untaken, HasCounted
  <2>7. started # N + 1
    BY <1>0, <1>2
  <2>8. ResumeInv'
    BY <1>2, <2>2, <2>6, <2>7, ResumeSame
  <2> QED  BY <2>4, <2>5, <2>8
<1>3. CASE StartBranch
  BY <1>3, <1>2 DEF StartBranch, history, HasCounted
<1>4. ASSUME NEW good \in Outcomes, StartInline(good)
      PROVE  (PcInv /\ CounterInv /\ ResumeInv)'
  <2>1. /\ Entry \in Working /\ Entry \notin HasCounted
        /\ Entry \in {"load", "cas"} => kind \in {"any", "all"}
        /\ Entry = "count" => kind \notin {"any", "all"}
        /\ Entry = "store" => kind # "any"
    BY DEF Entry, Working, HasCounted, OneWins
  <2> QED  BY <1>4, <2>1, <1>2 DEF StartInline, history
<1>5. CASE PushBatch
  <2>1. /\ \A b \in Branches : pc[b] = "wait" /\ pc'[b] = "run"
        /\ started = 0 /\ started' = N /\ resumed = 0
        /\ UNCHANGED <<kind, threads, done, counted, resumed, early, last>>
    BY <1>5, <1>0 DEF PushBatch, Branches, history, PcInv
  <2>2. PcInv'
    BY <2>1 DEF PcInv, HasCounted, Branches
  <2>3. CounterInv'
    BY <2>1, CounterSame
  <2>4. (\A b \in Branches : Owes(b)' => Owes(b)) /\ (Untaken' => Untaken)
    BY <2>1 DEF Owes, Untaken
  <2>5. ResumeInv'
    BY <2>1, <2>4, ResumeSame
  <2> QED  BY <2>2, <2>3, <2>5
<1>6. CASE PushPart
  BY <1>6, <1>2 DEF PushPart, history, HasCounted
<1>7. CASE PushRefused
  <2> DEFINE b == started + 1
  <2>1. /\ b \in Branches /\ pc[b] = "wait" /\ b \notin counted /\ ~Refused
        /\ counted # Branches
    BY <1>0, <1>7 DEF PushRefused, PcInv, HasCounted, Branches, Refused
  <2>2. resumed = 0 /\ \A a \in Branches : ~Owes(a)
    BY <2>1 DEF ResumeInv
  <2>3. /\ \A a \in Branches : pc'[a] = IF a = b THEN "end" ELSE pc[a]
        /\ done' = done + 1 /\ counted' = counted \cup {b} /\ kind = "cluster"
        /\ started' = started + 1 /\ started < N
        /\ UNCHANGED <<kind, threads, resumed, early, last>>
    BY <1>7 DEF PushRefused, TypeOK
  <2> HIDE DEF b
  <2>4. Cardinality(counted') = Cardinality(counted) + 1
    BY <2>1, <2>3, CountedSize
  <2>5. PcInv'
    <3>1. \A a \in Branches : a > started' => a > started /\ a # b
      BY <1>0, <2>3 DEF b, Branches
    <3>2. \A a \in Branches : a \in counted' <=> pc'[a] \in HasCounted
      BY <2>1, <2>3 DEF PcInv, HasCounted
    <3>3. started' # 0 /\ started \in 0..N
      BY <1>0, <2>3
    <3> QED  BY <2>1, <2>3, <3>1, <3>2, <3>3 DEF PcInv
  <2>6. CounterInv'
    <3>1. Unit = 1 /\ Unit' = 1 /\ Spot = 0 /\ Spot' = 0
      BY <2>3 DEF Unit, OneWins, Spot
    <3>2. done >= 0 /\ done \in Int /\ Cardinality(counted) \in Nat
      BY <2>3, CountedSize DEF CounterInv, TypeOK
    <3>3. Abs(done') = Unit' * Cardinality(counted') - Spot'
      BY <2>3, <2>4, <3>1, <3>2 DEF CounterInv, Abs
    <3>4. ~Untaken'
      BY <2>3 DEF Untaken, PcInv, OneWins
    <3> QED  BY <2>3, <3>2, <3>3, <3>4 DEF CounterInv, Untaken
  <2>7. ResumeInv'
    <3>1. \A a \in Branches : ~Owes(a)'
      BY <2>2, <2>3 DEF Owes
    <3>2. ~Untaken'
      BY <2>3 DEF Untaken, PcInv, OneWins
    <3> QED  BY <2>2, <2>3, <3>1, <3>2 DEF ResumeInv
  <2> QED  BY <2>5, <2>6, <2>7
<1>8. CASE Return
  <2>1. /\ started = N /\ started' = N + 1
        /\ UNCHANGED <<kind, threads, pc, last, done, counted, early>>
        /\ resumed' = IF kind = "cluster" /\ done = N THEN resumed + 1 ELSE resumed
    BY <1>8 DEF Return, flow, history
  <2>2. PcInv'
    BY <2>1 DEF PcInv
  <2>3. CounterInv'
    BY <2>1, CounterSame
  <2>4. ResumeInv'
    <3>1. /\ \A b \in Branches : Owes(b)' = Owes(b)
          /\ Untaken' = Untaken
      BY <2>1 DEF Owes, Untaken
    <3>2. ~Refused
      BY <2>1 DEF Refused
    <3>3. CASE kind = "cluster" /\ done = N
      <4>1. Unit = 1 /\ Unit' = 1 /\ Spot = 0
        BY <2>1, <3>3 DEF Unit, OneWins, Spot
      <4>2. Cardinality(counted) = N
        BY <3>3, <4>1, CountedSize DEF CounterInv, Abs
      <4>3. counted' = Branches
        BY <2>1, <4>2, CountedSize
      <4>4. ~early => resumed = 0 /\ \A b \in Branches : ~Owes(b)
        BY <2>1, <3>3 DEF ResumeInv
      <4> QED  BY <2>1, <3>1, <3>3, <4>1, <4>3, <4>4 DEF ResumeInv
    <3>4. CASE ~(kind = "cluster" /\ done = N)
      BY <2>1, <3>1, <3>2, <3>4 DEF ResumeInv, Unit
    <3> QED  BY <3>3, <3>4
  <2> QED  BY <2>2, <2>3, <2>4
<1> QED
  BY <1>1, <1>3, <1>4, <1>5, <1>6, <1>7, <1>8 DEF Starter

\* Steps of one branch that neither count nor resume: it moves from p to q.
LEMMA MoveStep ==
  ASSUME IInv, NEW b \in Branches, NEW q,
         pc' = [pc EXCEPT ![b] = q],
         pc[b] \in HasCounted <=> q \in HasCounted,
         pc[b] \notin {"wait", "publish", "release"},
         q \notin {"wait", "publish", "release"},
         q \in {"load", "cas"} => kind \in {"any", "all"},
         q = "count" => kind \notin {"any", "all"},
         q = "store" => kind # "any",
         q = "resume" => pc[b] = "resume" \/ (pc[b] = "cancel" /\ b \in last),
         q = "cancel" => pc[b] = "cancel",
         UNCHANGED <<kind, threads, done, counted, resumed, early, last, started>>
  PROVE  (PcInv /\ CounterInv /\ ResumeInv)'
<1> USE DEF IInv
<1>1. \A a \in Branches : pc'[a] = IF a = b THEN q ELSE pc[a]
  BY DEF TypeOK
<1>2. PcInv'
  BY <1>1 DEF PcInv
<1>3. CounterInv'
  BY <1>1, CounterSame
<1>4. (\A a \in Branches : Owes(a)' => Owes(a)) /\ (Untaken' => Untaken)
  BY <1>1 DEF Owes, Untaken
<1>5. ~Refused
  BY DEF Refused
<1>6. ResumeInv'
  BY <1>4, <1>5, ResumeSame
<1> QED  BY <1>2, <1>3, <1>6

LEMMA PublishStep ==
  ASSUME IInv, NEW b \in Branches, Publish(b)
  PROVE  (PcInv /\ CounterInv /\ ResumeInv)'
<1> USE DEF IInv
<1> DEFINE q == IF threads THEN "release" ELSE "cancel"
<1>1. /\ \A a \in Branches : pc'[a] = IF a = b THEN q ELSE pc[a]
      /\ pc[b] = "publish" /\ kind \in OneWins
      /\ UNCHANGED <<kind, threads, done, counted, resumed, early, last, started>>
  BY DEF Publish, TypeOK, PcInv
<1>2. PcInv'
  BY <1>1 DEF PcInv, HasCounted
<1>3. (\A a \in Branches : Owes(a)' => Owes(a)) /\ (Untaken' => Untaken)
  BY <1>1 DEF Owes, Untaken
<1>4. ~Refused
  BY <1>1 DEF Refused
<1>5. ResumeInv'
  BY <1>1, <1>3, <1>4, ResumeSame
<1>6. CounterInv'
  <2>1. CASE threads
    BY <2>1, <1>1, CounterSame
  <2>2. CASE ~threads
    <3>1. Unit = 1 /\ Unit' = 1 /\ Spot = 0 /\ Spot' = 0
      BY <2>2, <1>1 DEF Unit, Spot
    <3>2. \A a \in Branches : pc'[a] \in {"publish", "release"} =>
                              pc[a] \in {"publish", "release"}
      BY <1>1, <2>2
    <3> QED  BY <1>1, <1>3, <3>1, <3>2 DEF CounterInv, Abs
  <2> QED  BY <2>1, <2>2
<1> QED  BY <1>2, <1>5, <1>6

LEMMA ReleaseStep ==
  ASSUME IInv, NEW b \in Branches, Release(b)
  PROVE  (PcInv /\ CounterInv /\ ResumeInv)'
<1> USE DEF IInv
<1> DEFINE q == IF done = 2 * N THEN "resume" ELSE "cancel"
<1>1. /\ \A a \in Branches : pc'[a] = IF a = b THEN q ELSE pc[a]
      /\ pc[b] = "release" /\ kind \in OneWins /\ threads
      /\ done' = done - 1
      /\ UNCHANGED <<kind, threads, counted, resumed, early, last, started>>
  BY DEF Release, TypeOK, PcInv
<1>2. /\ Unit = 2 /\ Unit' = 2 /\ Untaken /\ done > 0 /\ done \in Int
      /\ Spot = 0
  BY <1>1 DEF Unit, Untaken, CounterInv, TypeOK, Spot
<1>3. ~Untaken'
  BY <1>1 DEF Untaken, CounterInv
<1>4. b \in counted /\ Cardinality(counted) \in 1..N /\ done = 2 * Cardinality(counted)
  <2>1. b \in counted
    BY <1>1 DEF PcInv, HasCounted
  <2>2. Cardinality(counted) # 0
    BY <2>1, CountedSize
  <2>3. done = 2 * Cardinality(counted)
    BY <1>2, CountedSize DEF CounterInv, Abs
  <2> QED  BY <2>1, <2>2, <2>3, CountedSize
<1>5. PcInv'
  BY <1>1 DEF PcInv, HasCounted
<1>6. CounterInv'
  <2>1. done' > 0 /\ Spot' = 1
    BY <1>1, <1>2, <1>3, <1>4 DEF Spot
  <2>2. Abs(done') = Unit' * Cardinality(counted') - Spot'
    BY <1>1, <1>2, <1>4, <2>1 DEF Abs
  <2>3. kind' \notin {"any", "all"} => done' >= 0
    BY <1>2, <2>1, <1>1
  <2> QED  BY <1>3, <2>2, <2>3 DEF CounterInv, Untaken
<1>7. ResumeInv'
  <2>1. ~Refused
    BY <1>1 DEF Refused
  <2>2. \A a \in Branches : Owes(a)' => Owes(a) \/ (a = b /\ done = 2 * N)
    BY <1>1 DEF Owes
  <2>3. done = 2 * N => counted = Branches
    BY <1>4, CountedSize
  <2>4. kind # "cluster"
    BY <1>1 DEF OneWins
  <2>5. ~early => resumed = 0 /\ \A a \in Branches : ~Owes(a)
    BY <1>2 DEF ResumeInv
  <2> QED  BY <1>1, <1>3, <2>1, <2>2, <2>3, <2>4, <2>5 DEF ResumeInv
<1> QED  BY <1>5, <1>6, <1>7

LEMMA ResumeStep ==
  ASSUME IInv, NEW b \in Branches, Resume(b)
  PROVE  (PcInv /\ CounterInv /\ ResumeInv)'
<1> USE DEF IInv
<1>1. /\ \A a \in Branches : pc'[a] = IF a = b THEN "end" ELSE pc[a]
      /\ pc[b] = "resume" /\ resumed' = resumed + 1
      /\ UNCHANGED <<kind, threads, done, counted, early, last, started>>
  BY DEF Resume, TypeOK, history
<1>2. Owes(b) /\ ~Owes(b)' /\ \A a \in Branches : Owes(a)' => Owes(a) /\ a # b
  BY <1>1 DEF Owes
<1>3. counted = Branches /\ (Untaken' <=> Untaken)
  BY <1>1, <1>2 DEF ResumeInv, Untaken
<1>4. PcInv'
  <2>1. started # 0
    <3>1. started = 0 => pc[b] = "wait"
      BY DEF PcInv, Branches
    <3> QED  BY <1>1, <3>1
  <2> QED  BY <1>1, <2>1 DEF PcInv, HasCounted
<1>5. CounterInv'
  BY <1>1, CounterSame
<1>6. ResumeInv'
  <2>1. ~early => /\ resumed = 0 /\ (kind = "cluster" => started = N + 1)
                  /\ \A a \in Branches : Owes(a) => a = b
                  /\ ~(Unit = 2 /\ Untaken)
    BY <1>2 DEF ResumeInv
  <2>2. Unit' = Unit
    BY <1>1 DEF Unit
  <2> QED  BY <1>1, <1>2, <1>3, <2>1, <2>2 DEF ResumeInv
<1> QED  BY <1>4, <1>5, <1>6

\* One case per action of a worker.
LEMMA WorkStep ==
  ASSUME IInv, NEW b \in Branches, Work(b)
  PROVE  (PcInv /\ CounterInv /\ ResumeInv)'
<1> USE DEF IInv
<1>1. CASE Store(b)
  <2>1. kind # "any"
    BY <1>1 DEF Store, PcInv
  <2> QED  BY <1>1, <2>1, MoveStep DEF Store, HasCounted, history
<1>2. CASE Count(b)
  <2>1. (Decides(done, b \in ok)) \in BOOLEAN
    BY DEF Decides
  <2>2. Decides(done, b \in ok) => kind \in {"race", "any", "all"}
    BY DEF Decides
  <2>3. CountAs(b, done, Decides(done, b \in ok)) /\ pc[b] \in {"count", "cas"}
    BY <1>2 DEF Count
  <2>4. UNCHANGED <<kind, threads, started, resumed>>
    BY <1>2 DEF Count
  <2>5. early' = (early \/ (kind = "cluster" /\ started # N + 1 /\ done + 1 = N))
    BY <1>2 DEF Count
  <2> QED  BY <2>1, <2>2, <2>3, <2>4, <2>5, CountStep
<1>3. CASE Load(b)
  <2>1. kind \in {"any", "all"}
    BY <1>3 DEF Load, PcInv
  <2> QED  BY <1>3, <2>1, MoveStep DEF Load, HasCounted, history
<1>4. CASE CasSucceeds(b)
  <2>1. kind \in {"any", "all"} /\ done = seen[b] /\ pc[b] = "cas"
    BY <1>4 DEF CasSucceeds, PcInv
  <2>2. Needs(b) \in BOOLEAN
    BY DEF Needs, Decides
  <2>3. kind \in OneWins => Needs(b) = Decides(done, b \in ok)
    BY <2>1 DEF OneWins, Needs, Decides
  <2>4. CountAs(b, done, Needs(b)) /\ UNCHANGED <<kind, threads, started, resumed, early>>
    BY <1>4, <2>1 DEF CasSucceeds
  <2>5. early' = (early \/ (kind = "cluster" /\ started # N + 1 /\ done + 1 = N))
    BY <2>1, <2>4 DEF TypeOK
  <2> QED  BY <2>1, <2>2, <2>3, <2>4, <2>5, CountStep
<1>5. CASE CasFails(b)
  <2>1. UNCHANGED <<kind, threads, done, counted, resumed, early, last, started, pc>>
    BY <1>5 DEF CasFails, history
  <2> QED  BY <2>1, CounterSame, ResumeSame DEF PcInv, Owes, Untaken, Refused
<1>6. CASE Publish(b)
  BY <1>6, PublishStep
<1>7. CASE Release(b)
  BY <1>7, ReleaseStep
<1>8. CASE CancelNext(b)
  <2>1. UNCHANGED <<kind, threads, done, counted, resumed, early, last, started, pc>>
    BY <1>8 DEF CancelNext
  <2> QED  BY <2>1, CounterSame, ResumeSame DEF PcInv, Owes, Untaken, Refused
<1>9. CASE CancelDone(b)
  BY <1>9, MoveStep DEF CancelDone, HasCounted, history
<1>10. CASE Resume(b)
  BY <1>10, ResumeStep
<1> QED
  BY <1>1, <1>2, <1>3, <1>4, <1>5, <1>6, <1>7, <1>8, <1>9, <1>10 DEF Work

LEMMA InvStep == IInv /\ [Next]_vars => IInv'
<1> SUFFICES ASSUME IInv, [Next]_vars PROVE (PcInv /\ CounterInv /\ ResumeInv)'
  BY TypeStep DEF IInv
<1>1. CASE Starter
  BY <1>1, StarterStep
<1>2. CASE CancelAll \/ UNCHANGED vars
  <2>1. UNCHANGED <<kind, threads, done, counted, resumed, early, last, started, pc>>
    BY <1>2 DEF CancelAll, vars, flow, history
  <2> QED  BY <2>1, CounterSame, ResumeSame DEF IInv, PcInv, Owes, Untaken, Refused
<1>3. ASSUME NEW b \in Branches, Work(b) PROVE (PcInv /\ CounterInv /\ ResumeInv)'
  BY <1>3, WorkStep
<1>4. ASSUME NEW b \in Branches, NEW good \in Outcomes, Finish(b, good)
      PROVE  (PcInv /\ CounterInv /\ ResumeInv)'
  <2>1. /\ Entry \in {"load", "count", "store"}
        /\ Entry = "load" => kind \in {"any", "all"}
        /\ Entry = "count" => kind \notin {"any", "all"}
        /\ Entry = "store" => kind # "any"
    BY DEF Entry, OneWins
  <2>2. /\ pc' = [pc EXCEPT ![b] = Entry] /\ pc[b] = "run"
        /\ UNCHANGED <<kind, threads, done, counted, resumed, early, last, started>>
    BY <1>4 DEF Finish, history
  <2> HIDE DEF Entry
  <2> QED  BY <2>1, <2>2, MoveStep DEF HasCounted
<1> QED  BY <1>1, <1>2, <1>3, <1>4 DEF Next

\* The coroutine that awaits several branches goes on once and only after all
\* of them have counted themselves, for any number of branches, every kind of
\* awaiter, on one thread or several.  Excepted is a clustered operation whose
\* last part ended before await_suspend looked at the counter (early): the code
\* lets that one go on twice.
THEOREM JoinsResumeOnce == Spec => []ResumedOnce
<1>1. IInv => ResumedOnce
  <2> SUFFICES ASSUME IInv, ~early
               PROVE  resumed <= 1 /\ (resumed = 1 /\ Begun => counted = Branches)
    BY DEF ResumedOnce
  <2>1. Refused => ~Begun
    BY DEF IInv, PcInv, HasCounted, TypeOK, Refused, Begun
  <2> QED  BY <2>1 DEF IInv, ResumeInv, TypeOK
<1> QED  BY <1>1, InvInit, InvStep, PTL DEF Spec
=============================================================================
