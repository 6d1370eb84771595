--------------------------- MODULE PipelineProofs ---------------------------
(***************************************************************************)
(* Theorems about Pipeline, for every set of commands, capacity, batch     *)
(* size and number of failures: its types, that every coroutine is given   *)
(* the reply to its own command, that nothing is sent twice or out of      *)
(* order, that no wakeup is lost, and that closing abandons nobody.        *)
(*                                                                         *)
(* The frames of a receive are defined by a recursive function over its    *)
(* tokens.  The facts about it are proved by the least-number principle,   *)
(* which the library has in a form without an operator parameter (WFMin).  *)
(***************************************************************************)
EXTENDS Pipeline, FiniteSetTheorems, WellFoundedInduction, TLAPS

(***************************************************************************)
(* The least-number principle.                                             *)
(***************************************************************************)

LEMMA Least ==
  ASSUME NEW T \in SUBSET Nat, T # {}
  PROVE  \E m \in T : \A k \in T : m <= k
<1> DEFINE R == OpToRel(<, Nat)
<1>1. IsWellFoundedOn(R, Nat)
  BY NatLessThanWellFounded
<1>2. \A x, y \in Nat : <<x, y>> \in R <=> x < y
  BY DEF OpToRel
<1> HIDE DEF R
<1>3. PICK m \in T : \A k \in T : ~(<<k, m>> \in R)
  BY <1>1, WFMin
<1>4. m \in Nat /\ \A k \in T : k \in Nat
  OBVIOUS
<1>5. \A k \in T : ~(k < m)
  BY <1>2, <1>3, <1>4
<1> QED  BY <1>4, <1>5

LEMMA Greatest ==
  ASSUME NEW N \in Nat, NEW T \in SUBSET (0..N), T # {}
  PROVE  \E m \in T : \A k \in T : k <= m
<1> DEFINE D == {N - k : k \in T}
<1> \A k \in T : k \in 0..N /\ N - k \in Nat
  OBVIOUS
<1>1. D \in SUBSET Nat /\ D # {}
  OBVIOUS
<1>2. PICK d \in D : \A e \in D : d <= e
  BY <1>1, Least
<1>3. PICK m \in T : d = N - m
  BY <1>2
<1>4. \A k \in T : N - m <= N - k
  BY <1>2, <1>3
<1>5. \A k \in T : k \in Int /\ m \in Int
  <2>1. m \in 0..N /\ \A k \in T : k \in 0..N
    OBVIOUS
  <2> QED  BY <2>1
<1> QED  BY <1>3, <1>4, <1>5

\* Induction over 0..N: a set that has 0 and with every number below N its
\* successor has them all.
LEMMA UpTo ==
  ASSUME NEW N \in Nat, NEW T, 0 \in T,
         \A n \in 0..(N - 1) : n \in T => n + 1 \in T
  PROVE  0..N \subseteq T
<1> SUFFICES ASSUME ~(0..N \subseteq T)
             PROVE  FALSE
  OBVIOUS
<1> DEFINE U == (0..N) \ T
<1>1. U \in SUBSET Nat /\ U # {}
  OBVIOUS
<1>2. PICK m \in U : \A k \in U : m <= k
  BY <1>1, Least
<1>3. m \in 1..N /\ m - 1 \in 0..(N - 1) /\ m - 1 \notin U
  BY <1>2
<1>4. m - 1 \in T /\ (m - 1) + 1 = m
  BY <1>3
<1> QED  BY <1>3, <1>4

(***************************************************************************)
(* Owed: the recursive function is what its definition says.               *)
(***************************************************************************)

LEMMA OwedSteps ==
  ASSUME NEW buf, Len(buf) \in Nat
  PROVE  /\ Owed(buf)[0] = 0
         /\ \A n \in 1..Len(buf) : Owed(buf)[n] = Owed(buf)[n - 1] + buf[n].more - 1
<1> DEFINE Step(f, n)   == IF n = 0 THEN 0 ELSE f[n - 1] + buf[n].more - 1
           Upto(f, N)   == f = [n \in 0..N |-> Step(f, n)]
           Good         == {N \in Nat : \E f : Upto(f, N)}
<1>1. 0 \in Good
  <2>1. Upto([n \in 0..0 |-> 0], 0)
    OBVIOUS
  <2> QED  BY <2>1
<1>2. ASSUME NEW N \in Nat, N \in Good PROVE N + 1 \in Good
  <2>1. PICK f : Upto(f, N)
    BY <1>2
  <2> DEFINE g == [n \in 0..(N + 1) |->
                     IF n = N + 1 THEN f[N] + buf[N + 1].more - 1 ELSE f[n]]
  <2>2. ASSUME NEW n \in 0..(N + 1) PROVE g[n] = Step(g, n)
    <3>1. CASE n = N + 1
      BY <3>1
    <3>2. CASE n # N + 1 /\ n # 0
      <4>1. n \in 0..N /\ n - 1 \in 0..N
        BY <3>2
      <4>2. f[n] = f[n - 1] + buf[n].more - 1
        BY <2>1, <3>2, <4>1
      <4> QED  BY <3>2, <4>1, <4>2
    <3>3. CASE n = 0
      BY <2>1, <3>3
    <3> QED  BY <3>1, <3>2, <3>3
  <2>3. Upto(g, N + 1)
    BY <2>2
  <2> HIDE DEF g, Upto
  <2> QED  BY <2>3
<1>3. Len(buf) \in Good
  <2>1. 0..Len(buf) \subseteq Good
    <3> HIDE DEF Good
    <3>1. \A n \in 0..(Len(buf) - 1) : n \in Good => n + 1 \in Good
      BY <1>2
    <3> QED  BY <1>1, <3>1, UpTo
  <2> QED  BY <2>1
<1>4. Owed(buf) = CHOOSE f : Upto(f, Len(buf))
  BY DEF Owed
<1>5. Upto(Owed(buf), Len(buf))
  BY <1>3, <1>4
<1> QED  BY <1>5


(***************************************************************************)
(* Leaves: how many of the first n tokens end a frame of a command.        *)
(***************************************************************************)

Leaves(s, n) == Cardinality({m \in 1..n : s[m].kind = "leaf"})

LEMMA LeavesStep ==
  ASSUME NEW s
  PROVE  /\ Leaves(s, 0) = 0
         /\ \A n \in Nat :
              /\ Leaves(s, n) \in Nat /\ Leaves(s, n) <= n
              /\ Leaves(s, n + 1) =
                   Leaves(s, n) + (IF s[n + 1].kind = "leaf" THEN 1 ELSE 0)
<1> DEFINE at(n) == {m \in 1..n : s[m].kind = "leaf"}
<1>1. Leaves(s, 0) = 0
  <2>1. at(0) = {}
    OBVIOUS
  <2> QED  BY <2>1, FS_EmptySet DEF Leaves
<1>2. ASSUME NEW n \in Nat
      PROVE  /\ Leaves(s, n) \in Nat /\ Leaves(s, n) <= n
             /\ Leaves(s, n + 1) =
                  Leaves(s, n) + (IF s[n + 1].kind = "leaf" THEN 1 ELSE 0)
  <2>1. IsFiniteSet(1..n) /\ Cardinality(1..n) = n /\ at(n) \in SUBSET (1..n)
    BY FS_Interval
  <2>2. /\ IsFiniteSet(at(n)) /\ Cardinality(at(n)) \in Nat
        /\ Cardinality(at(n)) <= n
    BY <2>1, FS_Subset, FS_CardinalityType
  <2>3. n + 1 \notin at(n)
    OBVIOUS
  <2>4. CASE s[n + 1].kind = "leaf"
    <3>1. at(n + 1) = at(n) \cup {n + 1}
      BY <2>4
    <3>2. Cardinality(at(n + 1)) = Cardinality(at(n)) + 1
      BY <2>2, <2>3, <3>1, FS_AddElement
    <3> QED  BY <2>2, <2>4, <3>2 DEF Leaves
  <2>5. CASE s[n + 1].kind # "leaf"
    <3>1. at(n + 1) = at(n)
      BY <2>5
    <3> QED  BY <2>2, <2>5, <3>1 DEF Leaves
  <2> QED  BY <2>4, <2>5
<1> QED  BY <1>1, <1>2

\* More tokens, not fewer leaves.
LEMMA LeavesMonotone ==
  ASSUME NEW s, NEW m \in Nat, NEW n \in Nat, m <= n
  PROVE  Leaves(s, m) <= Leaves(s, n)
<1> DEFINE at(k) == {l \in 1..k : s[l].kind = "leaf"}
<1>1. IsFiniteSet(1..n) /\ at(n) \in SUBSET (1..n) /\ at(m) \in SUBSET at(n)
  BY FS_Interval
<1>2. IsFiniteSet(at(n))
  BY <1>1, FS_Subset
<1> QED  BY <1>1, <1>2, FS_Subset DEF Leaves

\* A later leaf has a greater number.
LEMMA LeavesIncrease ==
  ASSUME NEW s, NEW m \in Nat, NEW n \in Nat, m < n, s[n].kind = "leaf"
  PROVE  Leaves(s, m) < Leaves(s, n)
<1>1. n - 1 \in Nat /\ (n - 1) + 1 = n /\ m <= n - 1
  OBVIOUS
<1>2. /\ Leaves(s, n) = Leaves(s, n - 1) + 1
      /\ Leaves(s, m) <= Leaves(s, n - 1)
      /\ Leaves(s, m) \in Nat /\ Leaves(s, n - 1) \in Nat
  BY <1>1, LeavesStep, LeavesMonotone
<1> QED  BY <1>2

\* Only the kinds of the first n tokens count.
LEMMA LeavesSame ==
  ASSUME NEW s, NEW t, NEW n, \A m \in 1..n : s[m] = t[m]
  PROVE  Leaves(s, n) = Leaves(t, n)
<1>1. {m \in 1..n : s[m].kind = "leaf"} = {m \in 1..n : t[m].kind = "leaf"}
  OBVIOUS
<1> QED  BY <1>1 DEF Leaves

\* There is a j-th leaf.
LEMMA LeafAt ==
  ASSUME NEW s, NEW N \in Nat, NEW j \in 1..Leaves(s, N)
  PROVE  \E n \in 1..N : s[n].kind = "leaf" /\ Leaves(s, n) = j
<1> DEFINE T == {n \in 0..N : j <= Leaves(s, n)}
<1>1. Leaves(s, N) \in Nat
  BY LeavesStep
<1>2. N \in T /\ T \in SUBSET Nat
  BY <1>1
<1>3. PICK m \in T : \A k \in T : m <= k
  BY <1>2, Least
<1>4. m \in 0..N /\ j <= Leaves(s, m)
  OBVIOUS
<1>5. m # 0
  BY <1>4, LeavesStep
<1>6. m - 1 \in 0..N /\ m - 1 \in Nat /\ (m - 1) + 1 = m
  BY <1>4, <1>5
<1>7. ~(j <= Leaves(s, m - 1))
  BY <1>3, <1>6
<1>8. /\ Leaves(s, m - 1) \in Nat
      /\ Leaves(s, m) = Leaves(s, m - 1) + (IF s[m].kind = "leaf" THEN 1 ELSE 0)
  BY <1>6, LeavesStep
<1> QED  BY <1>4, <1>5, <1>7, <1>8

(***************************************************************************)
(* Frames of a stream that holds replies to commands and nothing else.     *)
(***************************************************************************)

Plain(s) == \A n \in 1..Len(s) :
  \/ s[n].kind = "leaf" /\ s[n].more = 0
  \/ s[n].kind = "agg" /\ s[n].more = 1

LEMMA OwedLeaves ==
  ASSUME NEW s, Len(s) \in Nat, Plain(s)
  PROVE  \A n \in 0..Len(s) : Owed(s)[n] = 0 - Leaves(s, n)
<1> DEFINE T == {n \in 0..Len(s) : Owed(s)[n] = 0 - Leaves(s, n)}
<1>1. 0 \in T
  <2>1. Owed(s)[0] = 0 /\ Leaves(s, 0) = 0
    BY OwedSteps, LeavesStep
  <2> QED  BY <2>1
<1>2. ASSUME NEW n \in 0..(Len(s) - 1), n \in T PROVE n + 1 \in T
  <2>1. n + 1 \in 1..Len(s) /\ (n + 1) - 1 = n /\ n \in Nat
    OBVIOUS
  <2>2. Owed(s)[n + 1] = Owed(s)[n] + s[n + 1].more - 1
    BY <2>1, OwedSteps
  <2>3. /\ Leaves(s, n) \in Nat
        /\ Leaves(s, n + 1) = Leaves(s, n) + (IF s[n + 1].kind = "leaf" THEN 1 ELSE 0)
    BY <2>1, LeavesStep
  <2>4. Owed(s)[n] = 0 - Leaves(s, n)
    BY <1>2
  <2>5. Owed(s)[n + 1] = 0 - Leaves(s, n + 1)
    BY <2>1, <2>2, <2>3, <2>4 DEF Plain
  <2> QED  BY <2>1, <2>5
<1>3. 0..Len(s) \subseteq T
  <2> HIDE DEF T
  <2> QED  BY <1>1, <1>2, UpTo
<1> QED  BY <1>3

LEMMA PlainEnds ==
  ASSUME NEW s, Len(s) \in Nat, DOMAIN s = 1..Len(s), Plain(s)
  PROVE  /\ FrameEnds(s) = {n \in 1..Len(s) : s[n].kind = "leaf"}
         /\ Cardinality(FrameEnds(s)) = Leaves(s, Len(s))
         /\ \A n \in 0..Len(s) :
              Cardinality({m \in FrameEnds(s) : m <= n}) = Leaves(s, n)
<1> DEFINE at(n) == {m \in 1..n : s[m].kind = "leaf"}
<1>1. ASSUME NEW n \in 1..Len(s)
      PROVE  n \in FrameEnds(s) <=> s[n].kind = "leaf"
  <2>1. \A m \in 0..Len(s) : Owed(s)[m] = 0 - Leaves(s, m) /\ Leaves(s, m) \in Nat
    BY OwedLeaves, LeavesStep
  <2>2. n \in FrameEnds(s) <=> \A m \in 0..(n - 1) : Leaves(s, n) > Leaves(s, m)
    <3>1. n \in FrameEnds(s) <=> \A m \in 0..(n - 1) : Owed(s)[n] < Owed(s)[m]
      BY DEF FrameEnds
    <3>2. \A m \in 0..(n - 1) : m \in 0..Len(s)
      OBVIOUS
    <3>3. \A m \in 0..(n - 1) : Owed(s)[n] < Owed(s)[m] <=> Leaves(s, n) > Leaves(s, m)
      BY <2>1, <3>2
    <3> QED  BY <3>1, <3>3
  <2>3. CASE s[n].kind = "leaf"
    <3>1. \A m \in 0..(n - 1) : Leaves(s, m) < Leaves(s, n)
      BY <2>3, LeavesIncrease
    <3> QED  BY <2>1, <2>2, <2>3, <3>1
  <2>4. CASE s[n].kind # "leaf"
    <3>1. n - 1 \in 0..(n - 1) /\ n - 1 \in Nat /\ (n - 1) + 1 = n
      OBVIOUS
    <3>2. /\ Leaves(s, n - 1) \in Nat
          /\ Leaves(s, (n - 1) + 1) = Leaves(s, n - 1)
               + (IF s[(n - 1) + 1].kind = "leaf" THEN 1 ELSE 0)
      BY <3>1, LeavesStep
    <3> QED  BY <2>2, <2>4, <3>1, <3>2
  <2> QED  BY <2>3, <2>4
<1>2. FrameEnds(s) = at(Len(s))
  <2>1. FrameEnds(s) \subseteq 1..Len(s)
    BY DEF FrameEnds
  <2> QED  BY <1>1, <2>1
<1>3. ASSUME NEW n \in 0..Len(s)
      PROVE  Cardinality({m \in FrameEnds(s) : m <= n}) = Leaves(s, n)
  <2>1. {m \in FrameEnds(s) : m <= n} = at(n)
    BY <1>2
  <2> QED  BY <2>1 DEF Leaves
<1> QED  BY <1>2, <1>3 DEF Leaves


\* The tokens of s are those of the replies to the commands in ops, one after
\* the other, as far as s goes.
Boundary(s, n) == n = 0 \/ s[n].kind = "leaf"

Speaks(s, ops) ==
  \A n \in 1..Len(s) :
    LET k == Leaves(s, n - 1) + 1
    IN  /\ k <= Len(ops)
        /\ s[n] = IF ops[k] \in Nested /\ Boundary(s, n - 1)
                  THEN Tok(ops[k], "agg", 1) ELSE Tok(ops[k], "leaf", 0)

LEMMA SpeaksPlain ==
  ASSUME NEW s, NEW ops, Speaks(s, ops)
  PROVE  Plain(s)
<1> SUFFICES ASSUME NEW n \in 1..Len(s)
             PROVE  \/ s[n].kind = "leaf" /\ s[n].more = 0
                    \/ s[n].kind = "agg" /\ s[n].more = 1
  BY DEF Plain
<1>1. PICK o : s[n] = Tok(o, "agg", 1) \/ s[n] = Tok(o, "leaf", 0)
  BY DEF Speaks
<1> QED  BY <1>1 DEF Tok

LEMMA SubSeqOne ==
  ASSUME NEW S, NEW s \in Seq(S), NEW a \in Nat, a + 1 \in 1..Len(s)
  PROVE  SubSeq(s, a + 1, a + 1) = <<s[a + 1]>>
<1> DEFINE t == SubSeq(s, a + 1, a + 1)
<1>1. Len(t) = 1 /\ t \in Seq(S) /\ t[1] = s[a + 1]
  OBVIOUS
<1> HIDE DEF t
<1>2. t = <<t[1]>>
  BY <1>1
<1> QED  BY <1>1, <1>2 DEF t

LEMMA SubSeqTwo ==
  ASSUME NEW S, NEW s \in Seq(S), NEW a \in Nat, a + 2 \in 1..Len(s)
  PROVE  SubSeq(s, a + 1, a + 2) = <<s[a + 1], s[a + 2]>>
<1> DEFINE t == SubSeq(s, a + 1, a + 2)
<1>1. Len(t) = 2 /\ t \in Seq(S)
  OBVIOUS
<1>2. t[1] = s[a + 1] /\ t[2] = s[a + 2]
  OBVIOUS
<1> HIDE DEF t
<1>3. t = <<t[1], t[2]>>
  BY <1>1
<1> QED  BY <1>2, <1>3 DEF t

LEMMA FrameIs ==
  ASSUME NEW s \in Seq(Token), NEW ops, Speaks(s, ops)
  PROVE  /\ Len(Frames(s)) = Leaves(s, Len(s))
         /\ \A j \in 1..Leaves(s, Len(s)) : Frames(s)[j] = Reply(ops[j])
<1> DEFINE ends   == FrameEnds(s)
           end(j) == IF j = 0 THEN 0
                     ELSE CHOOSE n \in ends : Cardinality({m \in ends : m <= n}) = j
           N      == Leaves(s, Len(s))
<1>1. /\ Len(s) \in Nat /\ DOMAIN s = 1..Len(s) /\ Plain(s)
  BY SpeaksPlain
<1>2. /\ ends = {n \in 1..Len(s) : s[n].kind = "leaf"}
      /\ Cardinality(ends) = N
      /\ \A n \in 0..Len(s) : Cardinality({m \in ends : m <= n}) = Leaves(s, n)
  BY <1>1, PlainEnds
<1>3. N \in Nat
  BY <1>1, LeavesStep
<1>4. Frames(s) = [j \in 1..N |-> SubSeq(s, end(j - 1) + 1, end(j))]
  BY <1>2 DEF Frames
<1> HIDE DEF ends, N
<1>5. ASSUME NEW j \in 1..N
      PROVE  /\ end(j) \in 1..Len(s) /\ s[end(j)].kind = "leaf"
             /\ Leaves(s, end(j)) = j
  <2>1. PICK n \in 1..Len(s) : s[n].kind = "leaf" /\ Leaves(s, n) = j
    BY <1>1, LeafAt DEF N
  <2>2. n \in ends /\ n \in 0..Len(s) /\ Cardinality({m \in ends : m <= n}) = j
    BY <1>2, <2>1
  <2>3. end(j) \in ends /\ Cardinality({m \in ends : m <= end(j)}) = j
    <3>1. end(j) = CHOOSE e \in ends : Cardinality({m \in ends : m <= e}) = j
      <4>1. j # 0
        BY <1>3
      <4> QED  BY <4>1
    <3> HIDE DEF end
    <3> QED  BY <2>2, <3>1
  <2> HIDE DEF end
  <2>4. end(j) \in 1..Len(s) /\ s[end(j)].kind = "leaf" /\ end(j) \in 0..Len(s)
    BY <1>2, <2>3
  <2> QED  BY <1>2, <2>3, <2>4
<1>6. ASSUME NEW j \in 0..N
      PROVE  end(j) \in 0..Len(s) /\ Boundary(s, end(j)) /\ Leaves(s, end(j)) = j
  <2>1. CASE j = 0
    <3>1. end(0) = 0
      OBVIOUS
    <3> HIDE DEF end
    <3> QED  BY <1>1, <2>1, <3>1, LeavesStep DEF Boundary
  <2>2. CASE j # 0
    <3> HIDE DEF end
    <3> QED  BY <1>5, <2>2 DEF Boundary
  <2> QED  BY <2>1, <2>2
<1> HIDE DEF end
<1>7. ASSUME NEW j \in 1..N
      PROVE  SubSeq(s, end(j - 1) + 1, end(j)) = Reply(ops[j])
  <2> DEFINE a == end(j - 1)
             b == end(j)
  <2>1. /\ a \in 0..Len(s) /\ Boundary(s, a) /\ Leaves(s, a) = j - 1
        /\ b \in 1..Len(s) /\ s[b].kind = "leaf" /\ Leaves(s, b) = j
    <3>1. j - 1 \in 0..N
      BY <1>3
    <3> QED  BY <1>5, <1>6, <3>1
  <2> HIDE DEF a, b
  <2>2. a < b
    <3>1. CASE b <= a
      <4>1. Leaves(s, b) <= Leaves(s, a)
        BY <2>1, <3>1, LeavesMonotone
      <4> QED  BY <2>1, <4>1
    <3> QED  BY <2>1, <3>1
  <2>3. a + 1 \in 1..Len(s) /\ a \in Nat /\ (a + 1) - 1 = a
    BY <2>1, <2>2
  <2>4. s[a + 1] = IF ops[j] \in Nested THEN Tok(ops[j], "agg", 1)
                   ELSE Tok(ops[j], "leaf", 0)
    <3>1. Leaves(s, (a + 1) - 1) + 1 = j /\ Boundary(s, (a + 1) - 1)
      BY <2>1, <2>3
    <3> QED  BY <2>3, <3>1 DEF Speaks
  <2>5. ASSUME NEW n \in 1..Len(s), s[n].kind = "leaf", Leaves(s, n) = j
        PROVE  n = b
    <3>1. CASE n < b
      <4>1. Leaves(s, n) < Leaves(s, b)
        BY <2>1, <3>1, LeavesIncrease
      <4> QED  BY <2>1, <2>5, <4>1
    <3>2. CASE b < n
      <4>1. Leaves(s, b) < Leaves(s, n)
        BY <2>1, <2>5, <3>2, LeavesIncrease
      <4> QED  BY <2>1, <2>5, <4>1
    <3> QED  BY <2>1, <3>1, <3>2
  <2>6. Leaves(s, a + 1) = Leaves(s, a) + (IF s[a + 1].kind = "leaf" THEN 1 ELSE 0)
    BY <2>3, LeavesStep
  <2>7. CASE ops[j] \notin Nested
    <3>1. s[a + 1] = Tok(ops[j], "leaf", 0) /\ s[a + 1].kind = "leaf"
      BY <2>4, <2>7 DEF Tok
    <3>2. b = a + 1
      BY <2>1, <2>3, <2>5, <2>6, <3>1
    <3>3. SubSeq(s, a + 1, a + 1) = <<s[a + 1]>>
      BY <2>3, SubSeqOne
    <3> QED  BY <2>7, <3>1, <3>2, <3>3 DEF Reply, a, b
  <2>8. CASE ops[j] \in Nested
    <3>1. s[a + 1] = Tok(ops[j], "agg", 1) /\ s[a + 1].kind = "agg"
      BY <2>4, <2>8 DEF Tok
    <3>2. Leaves(s, a + 1) = j - 1 /\ b # a + 1
      BY <2>1, <2>6, <3>1
    <3>3. a + 2 \in 1..Len(s) /\ (a + 2) - 1 = a + 1 /\ a + 1 \in Nat
          /\ (a + 1) + 1 = a + 2
      BY <2>1, <2>2, <2>3, <3>2
    <3>4. s[a + 2] = Tok(ops[j], "leaf", 0) /\ s[a + 2].kind = "leaf"
      <4>1. Leaves(s, (a + 2) - 1) + 1 = j /\ ~Boundary(s, (a + 2) - 1)
        BY <2>1, <3>1, <3>2, <3>3 DEF Boundary
      <4>2. s[a + 2] = Tok(ops[j], "leaf", 0)
        BY <3>3, <4>1 DEF Speaks
      <4> QED  BY <4>2 DEF Tok
    <3>5. Leaves(s, a + 2) = j
      <4>1. Leaves(s, (a + 1) + 1) = Leaves(s, a + 1)
              + (IF s[(a + 1) + 1].kind = "leaf" THEN 1 ELSE 0)
        BY <3>3, LeavesStep
      <4> QED  BY <2>1, <3>2, <3>3, <3>4, <4>1
    <3>6. b = a + 2
      BY <2>5, <3>3, <3>4, <3>5
    <3>7. SubSeq(s, a + 1, a + 2) = <<s[a + 1], s[a + 2]>>
      BY <2>3, <3>3, SubSeqTwo
    <3> QED  BY <2>8, <3>1, <3>4, <3>6, <3>7 DEF Reply, a, b
  <2> QED  BY <2>7, <2>8
<1>8. Len(Frames(s)) = N
  BY <1>3, <1>4
<1>9. \A j \in 1..N : Frames(s)[j] = Reply(ops[j])
  BY <1>4, <1>7
<1> QED  BY <1>8, <1>9 DEF N


\* What Rest keeps begins where the last complete frame ends.
LEMMA RestIs ==
  ASSUME NEW s \in Seq(Token)
  PROVE  \E l \in 0..Len(s) :
           /\ Rest(s) = SubSeq(s, l + 1, Len(s))
           /\ l = 0 \/ l \in FrameEnds(s)
           /\ \A n \in FrameEnds(s) : n <= l
<1> DEFINE ends == FrameEnds(s)
<1>1. Len(s) \in Nat /\ ends \in SUBSET (0..Len(s)) /\ ends \subseteq 1..Len(s)
  BY DEF FrameEnds
<1>2. CASE ends = {}
  <2>1. Rest(s) = SubSeq(s, 0 + 1, Len(s))
    BY <1>2 DEF Rest
  <2> QED  BY <1>1, <1>2, <2>1
<1>3. CASE ends # {}
  <2>1. PICK m \in ends : \A k \in ends : k <= m
    BY <1>1, <1>3, Greatest
  <2> DEFINE l == CHOOSE n \in ends : \A k \in ends : k <= n
  <2>2. l \in ends /\ \A k \in ends : k <= l
    BY <2>1
  <2>3. Rest(s) = SubSeq(s, l + 1, Len(s))
    BY <1>3 DEF Rest
  <2> HIDE DEF l, ends
  <2> QED  BY <1>1, <2>2, <2>3 DEF ends
<1> QED  BY <1>2, <1>3

LEMMA SubSeqType ==
  ASSUME NEW S, NEW s \in Seq(S), NEW a \in 0..Len(s), NEW b \in a..Len(s)
  PROVE  /\ SubSeq(s, a + 1, b) \in Seq(S)
         /\ Len(SubSeq(s, a + 1, b)) = b - a
         /\ \A n \in 1..(b - a) : SubSeq(s, a + 1, b)[n] = s[a + n]
<1>1. Len(s) \in Nat /\ a \in Nat /\ b \in Nat
  OBVIOUS
<1>2. SubSeq(s, a + 1, b) \in Seq(S) /\ Len(SubSeq(s, a + 1, b)) = b - a
  BY <1>1
<1>3. ASSUME NEW n \in 1..(b - a) PROVE SubSeq(s, a + 1, b)[n] = s[a + n]
  <2>1. (a + 1) + n - 1 = a + n /\ n \in 1..Len(SubSeq(s, a + 1, b))
    BY <1>1, <1>2
  <2> QED  BY <1>1, <2>1
<1> QED  BY <1>2, <1>3

LEMMA ConcatParts ==
  ASSUME NEW S, NEW s \in Seq(S), NEW t \in Seq(S)
  PROVE  /\ s \o t \in Seq(S) /\ Len(s \o t) = Len(s) + Len(t)
         /\ \A n \in 1..Len(s) : (s \o t)[n] = s[n]
         /\ \A n \in 1..Len(t) : (s \o t)[Len(s) + n] = t[n]
<1>1. Len(s) \in Nat /\ Len(t) \in Nat
  OBVIOUS
<1>2. /\ s \o t \in Seq(S) /\ Len(s \o t) = Len(s) + Len(t)
      /\ \A n \in 1..Len(s) : (s \o t)[n] = s[n]
  BY <1>1
<1>3. ASSUME NEW n \in 1..Len(t) PROVE (s \o t)[Len(s) + n] = t[n]
  <2>1. Len(s) + n \in 1..(Len(s) + Len(t)) /\ ~(Len(s) + n <= Len(s))
        /\ (Len(s) + n) - Len(s) = n
    BY <1>1
  <2> QED  BY <1>1, <2>1
<1> QED  BY <1>2, <1>3

\* A frame that has ended belongs to a command.
LEMMA LeavesBound ==
  ASSUME NEW s \in Seq(Token), NEW ops \in Seq(Ops), Speaks(s, ops),
         NEW l \in 0..Len(s), Boundary(s, l)
  PROVE  Leaves(s, l) \in 0..Len(ops)
<1>1. Len(s) \in Nat /\ l \in Nat /\ Len(ops) \in Nat
  OBVIOUS
<1>2. CASE l = 0
  BY <1>1, <1>2, LeavesStep
<1>3. CASE l # 0
  <2>1. l \in 1..Len(s) /\ l - 1 \in Nat /\ (l - 1) + 1 = l
    BY <1>1, <1>3
  <2>2. Leaves(s, l - 1) + 1 <= Len(ops)
    BY <2>1 DEF Speaks
  <2>3. /\ Leaves(s, l - 1) \in Nat
        /\ Leaves(s, (l - 1) + 1) = Leaves(s, l - 1)
             + (IF s[(l - 1) + 1].kind = "leaf" THEN 1 ELSE 0)
    BY <2>1, LeavesStep
  <2> QED  BY <1>1, <2>1, <2>2, <2>3
<1> QED  BY <1>2, <1>3

\* What follows a complete frame is the stream of the commands that are left.
LEMMA DropSpeaks ==
  ASSUME NEW s \in Seq(Token), NEW ops \in Seq(Ops), Speaks(s, ops),
         NEW l \in 0..Len(s), Boundary(s, l),
         NEW t \in Seq(Token), Len(t) = Len(s) - l,
         \A n \in 1..Len(t) : t[n] = s[l + n],
         NEW rest \in Seq(Ops), Len(rest) = Len(ops) - Leaves(s, l),
         \A k \in 1..Len(rest) : rest[k] = ops[Leaves(s, l) + k]
  PROVE  /\ Speaks(t, rest)
         /\ \A n \in 0..Len(t) : Leaves(t, n) = Leaves(s, l + n) - Leaves(s, l)
<1>1. /\ Len(s) \in Nat /\ l \in Nat /\ Len(ops) \in Nat
      /\ t \in Seq(Token) /\ Len(t) = Len(s) - l
      /\ \A n \in 1..Len(t) : t[n] = s[l + n]
  OBVIOUS
<1>2. Leaves(s, l) \in 0..Len(ops)
  BY LeavesBound
<1> DEFINE T == {n \in 0..Len(t) : Leaves(t, n) = Leaves(s, l + n) - Leaves(s, l)}
<1>3. 0..Len(t) \subseteq T
  <2>1. 0 \in T
    <3>1. Leaves(t, 0) = 0 /\ l + 0 = l
      BY <1>1, LeavesStep
    <3> QED  BY <1>1, <1>2, <3>1
  <2>2. ASSUME NEW n \in 0..(Len(t) - 1), n \in T PROVE n + 1 \in T
    <3>1. n \in Nat /\ l + n \in Nat /\ (l + n) + 1 = l + (n + 1) /\ n + 1 \in 1..Len(t)
      BY <1>1
    <3>2. /\ Leaves(t, n) \in Nat /\ Leaves(s, l + n) \in Nat
          /\ Leaves(t, n + 1) = Leaves(t, n) + (IF t[n + 1].kind = "leaf" THEN 1 ELSE 0)
          /\ Leaves(s, (l + n) + 1) = Leaves(s, l + n)
               + (IF s[(l + n) + 1].kind = "leaf" THEN 1 ELSE 0)
      BY <3>1, LeavesStep
    <3>3. t[n + 1] = s[(l + n) + 1]
      BY <1>1, <3>1
    <3>4. Leaves(t, n) = Leaves(s, l + n) - Leaves(s, l) /\ Leaves(s, l) \in Nat
      BY <1>2, <2>2
    <3>5. Leaves(t, n + 1) = Leaves(s, l + (n + 1)) - Leaves(s, l)
      BY <3>1, <3>2, <3>3, <3>4
    <3> QED  BY <3>1, <3>5
  <2> HIDE DEF T
  <2>3. Len(t) \in Nat
    OBVIOUS
  <2> QED  BY ONLY <2>1, <2>2, <2>3, UpTo
<1>4. \A n \in 0..Len(t) : Leaves(t, n) = Leaves(s, l + n) - Leaves(s, l)
  BY <1>3
<1>5. /\ rest \in Seq(Ops) /\ Len(rest) = Len(ops) - Leaves(s, l)
      /\ \A k \in 1..Len(rest) : rest[k] = ops[Leaves(s, l) + k]
  OBVIOUS
<1>6. Speaks(t, rest)
  <2> SUFFICES ASSUME NEW n \in 1..Len(t)
               PROVE  LET k == Leaves(t, n - 1) + 1
                      IN  /\ k <= Len(rest)
                          /\ t[n] = IF rest[k] \in Nested /\ Boundary(t, n - 1)
                                    THEN Tok(rest[k], "agg", 1)
                                    ELSE Tok(rest[k], "leaf", 0)
    BY DEF Speaks
  <2>1. /\ l + n \in 1..Len(s) /\ (l + n) - 1 = l + (n - 1) /\ n - 1 \in 0..Len(t)
        /\ n - 1 \in Nat /\ l + (n - 1) \in Nat
    BY <1>1
  <2> DEFINE j == Leaves(s, l + (n - 1)) + 1
             k == Leaves(t, n - 1) + 1
  <2>2. /\ j <= Len(ops)
        /\ s[l + n] = IF ops[j] \in Nested /\ Boundary(s, l + (n - 1))
                      THEN Tok(ops[j], "agg", 1) ELSE Tok(ops[j], "leaf", 0)
    BY <2>1 DEF Speaks
  <2>3. k = j - Leaves(s, l) /\ Leaves(t, n - 1) \in Nat /\ j \in Nat
    <3>1. Leaves(t, n - 1) \in Nat /\ Leaves(s, l + (n - 1)) \in Nat
      BY <2>1, LeavesStep
    <3>2. Leaves(t, n - 1) = Leaves(s, l + (n - 1)) - Leaves(s, l)
      BY <1>4, <2>1
    <3> QED  BY <1>2, <3>1, <3>2
  <2> HIDE DEF j, k
  <2>4. k \in 1..Len(rest) /\ Leaves(s, l) + k = j
    <3>1. k \in Nat /\ k >= 1
      BY <2>3 DEF k
    <3>2. Leaves(s, l) \in Nat /\ Len(rest) = Len(ops) - Leaves(s, l)
      BY <1>2, <1>5
    <3>3. k = j - Leaves(s, l) /\ j \in Nat /\ j <= Len(ops)
      BY <2>2, <2>3
    <3> DEFINE L == Leaves(s, l)
               A == Len(ops)
               B == Len(rest)
    <3>4. A \in Nat /\ L \in Nat /\ B = A - L /\ k = j - L /\ j <= A
      BY <1>1, <3>2, <3>3
    <3> HIDE DEF L, A, B
    <3>5. k \in 1..B /\ L + k = j
      BY <3>1, <3>3, <3>4
    <3> QED  BY <3>5 DEF L, B
  <2>5. Boundary(t, n - 1) <=> Boundary(s, l + (n - 1))
    <3>1. CASE n = 1
      BY <1>1, <3>1 DEF Boundary
    <3>2. CASE n # 1
      <4>1. n - 1 \in 1..Len(t) /\ l + (n - 1) # 0 /\ n - 1 # 0
        BY <1>1, <3>2
      <4>2. t[n - 1] = s[l + (n - 1)]
        BY <1>1, <4>1
      <4> QED  BY <4>1, <4>2 DEF Boundary
    <3> QED  BY <3>1, <3>2
  <2>6. t[n] = s[l + n] /\ rest[k] = ops[j]
    BY <1>1, <1>5, <2>4
  <2>7. /\ k <= Len(rest)
        /\ t[n] = IF rest[k] \in Nested /\ Boundary(t, n - 1)
                  THEN Tok(rest[k], "agg", 1) ELSE Tok(rest[k], "leaf", 0)
    <3>1. k <= Len(rest)
      BY <1>1, <1>5, <2>4
    <3>2. (rest[k] \in Nested /\ Boundary(t, n - 1))
            <=> (ops[j] \in Nested /\ Boundary(s, l + (n - 1)))
      BY <2>5, <2>6
    <3> QED  BY <2>2, <2>6, <3>1, <3>2
  <2> QED  BY <2>7 DEF k
<1> QED  BY <1>4, <1>6

\* A stream that is cut off speaks of the same commands, or of more.
LEMMA PrefixSpeaks ==
  ASSUME NEW s \in Seq(Token), NEW t \in Seq(Token), Len(t) <= Len(s),
         \A n \in 1..Len(t) : t[n] = s[n],
         NEW ops \in Seq(Ops), NEW more \in Seq(Ops), Len(ops) <= Len(more),
         \A k \in 1..Len(ops) : more[k] = ops[k],
         Speaks(s, ops)
  PROVE  Speaks(t, more)
<1> SUFFICES ASSUME NEW n \in 1..Len(t)
             PROVE  LET k == Leaves(t, n - 1) + 1
                    IN  /\ k <= Len(more)
                        /\ t[n] = IF more[k] \in Nested /\ Boundary(t, n - 1)
                                  THEN Tok(more[k], "agg", 1)
                                  ELSE Tok(more[k], "leaf", 0)
  BY DEF Speaks
<1>1. /\ n \in 1..Len(s) /\ n - 1 \in Nat /\ \A m \in 1..(n - 1) : t[m] = s[m]
      /\ n - 1 = 0 \/ n - 1 \in 1..Len(t)
  OBVIOUS
<1>2. Leaves(t, n - 1) = Leaves(s, n - 1) /\ Leaves(s, n - 1) \in Nat
  <2>1. Leaves(t, n - 1) = Leaves(s, n - 1)
    BY <1>1, LeavesSame
  <2>2. Leaves(s, n - 1) \in Nat
    BY <1>1, LeavesStep
  <2> QED  BY <2>1, <2>2
<1>3. Boundary(t, n - 1) <=> Boundary(s, n - 1)
  BY <1>1 DEF Boundary
<1> DEFINE k == Leaves(s, n - 1) + 1
<1>4. /\ k <= Len(ops)
      /\ s[n] = IF ops[k] \in Nested /\ Boundary(s, n - 1)
                THEN Tok(ops[k], "agg", 1) ELSE Tok(ops[k], "leaf", 0)
  BY <1>1 DEF Speaks
<1>5. k \in 1..Len(ops) /\ k <= Len(more)
  BY <1>2, <1>4
<1>6. more[k] = ops[k] /\ t[n] = s[n]
  BY <1>5
<1> HIDE DEF k
<1> QED  BY <1>2, <1>3, <1>4, <1>5, <1>6 DEF k


(***************************************************************************)
(* Types of what the parser computes.                                      *)
(***************************************************************************)

LEMMA TakeDropType ==
  ASSUME NEW S, NEW s \in Seq(S), NEW n \in Nat
  PROVE  Drop(s, n) \in Seq(S) /\ (n <= Len(s) => Take(s, n) \in Seq(S))
  BY DEF Drop, Take

\* A stream without a line that does not parse is sound as a whole.
LEMMA SoundIs ==
  ASSUME NEW s \in Seq(Token)
  PROVE  /\ Sound(s) \in Seq(Token)
         /\ (\A n \in 1..Len(s) : s[n].kind # "bad") => Sound(s) = s
<1> DEFINE bad == {n \in DOMAIN s : s[n].kind = "bad"}
<1>1. CASE bad = {}
  BY <1>1 DEF Sound
<1>2. CASE bad # {}
  <2>1. bad \in SUBSET Nat
    OBVIOUS
  <2>2. PICK l \in bad : \A m \in bad : l <= m
    BY <1>2, <2>1, Least
  <2> DEFINE least == CHOOSE n \in bad : \A m \in bad : n <= m
  <2>3. least \in bad
    BY <2>2
  <2>4. least \in 1..Len(s)
    BY <2>3
  <2>5. Sound(s) = SubSeq(s, 1, least - 1)
    BY <1>2 DEF Sound
  <2> HIDE DEF least
  <2>6. SubSeq(s, 1, least - 1) \in Seq(Token)
    BY <2>4
  <2>7. ~ \A n \in 1..Len(s) : s[n].kind # "bad"
    BY <2>3, <2>4
  <2> QED  BY <2>5, <2>6, <2>7
<1> QED  BY <1>1, <1>2

\* The first complete frame ends at the first end there is.
LEMMA FirstFrame ==
  ASSUME NEW s \in Seq(Token), Frames(s) # <<>>
  PROVE  \E e \in FrameEnds(s) : /\ \A n \in FrameEnds(s) : e <= n
                                 /\ Frames(s)[1] = SubSeq(s, 1, e)
<1> DEFINE ends   == FrameEnds(s)
           end(j) == IF j = 0 THEN 0
                     ELSE CHOOSE n \in ends : Cardinality({m \in ends : m <= n}) = j
<1>1. Len(s) \in Nat /\ ends \in SUBSET (1..Len(s))
  BY DEF FrameEnds
<1>2. IsFiniteSet(1..Len(s)) /\ IsFiniteSet(ends) /\ Cardinality(ends) \in Nat
  <2>1. IsFiniteSet(1..Len(s))
    BY <1>1, FS_Interval
  <2> QED  BY <1>1, <2>1, FS_Subset, FS_CardinalityType
<1>3. Frames(s) = [j \in 1..Cardinality(ends) |-> SubSeq(s, end(j - 1) + 1, end(j))]
  BY DEF Frames
<1>4. ends # {}
  <2> SUFFICES ASSUME ends = {} PROVE FALSE
    OBVIOUS
  <2>1. Cardinality(ends) = 0
    BY FS_EmptySet
  <2>2. Frames(s) = <<>>
    <3> HIDE DEF ends, end
    <3> QED  BY <1>3, <2>1
  <2> QED  BY <2>2
<1>5. Cardinality(ends) >= 1
  <2>1. Cardinality(ends) # 0
    BY <1>2, <1>4, FS_EmptySet
  <2> QED  BY <1>2, <2>1
<1>6. ends \in SUBSET Nat
  BY <1>1
<1>7. PICK e \in ends : \A n \in ends : e <= n
  BY <1>4, <1>6, Least
<1>8. Cardinality({m \in ends : m <= e}) = 1
  <2>1. {m \in ends : m <= e} = {e}
    BY <1>6, <1>7
  <2> QED  BY <2>1, FS_Singleton
<1>9. ASSUME NEW n \in ends, Cardinality({m \in ends : m <= n}) = 1
      PROVE  n = e
  <2>1. e \in {m \in ends : m <= n} /\ n \in {m \in ends : m <= n}
    BY <1>6, <1>7, <1>9
  <2>2. PICK x : {m \in ends : m <= n} = {x}
    <3>1. IsFiniteSet({m \in ends : m <= n})
      BY <1>2, FS_Subset
    <3> QED  BY <1>9, <3>1, FS_Singleton
  <2> QED  BY <2>1, <2>2
<1>10. end(1) = e /\ end(0) = 0
  <2>1. e \in {n \in ends : Cardinality({m \in ends : m <= n}) = 1}
    BY <1>8
  <2>2. (CHOOSE n \in ends : Cardinality({m \in ends : m <= n}) = 1) = e
    <3> HIDE DEF ends
    <3> QED  BY <1>8, <1>9
  <2> QED  BY <2>2
<1> HIDE DEF end, ends
<1>11. Frames(s)[1] = SubSeq(s, end(0) + 1, end(1))
  <2>1. 1 \in 1..Cardinality(ends) /\ 1 - 1 = 0
    BY <1>2, <1>5
  <2>2. Frames(s)[1] = SubSeq(s, end(1 - 1) + 1, end(1))
    BY <1>3, <2>1
  <2> QED  BY <2>1, <2>2
<1>12. Frames(s)[1] = SubSeq(s, 1, e)
  <2>1. 0 + 1 = 1
    OBVIOUS
  <2> QED  BY <1>10, <1>11, <2>1
<1> QED  BY <1>7, <1>12 DEF ends

LEMMA FirstFrameLength ==
  ASSUME NEW s \in Seq(Token), Frames(s) # <<>>
  PROVE  /\ Len(Frames(s)[1]) \in 1..Len(s)
         /\ Frames(s)[1][1] = s[1]
         /\ Len(Frames(s)[1]) \in FrameEnds(s)
         /\ \A n \in FrameEnds(s) : Len(Frames(s)[1]) <= n
<1>1. PICK e \in FrameEnds(s) : /\ \A n \in FrameEnds(s) : e <= n
                                /\ Frames(s)[1] = SubSeq(s, 1, e)
  BY FirstFrame
<1>2. e \in 1..Len(s)
  BY <1>1 DEF FrameEnds
<1>3. Len(SubSeq(s, 1, e)) = e /\ SubSeq(s, 1, e)[1] = s[1]
  BY <1>2
<1> QED  BY <1>1, <1>2, <1>3

\* What a receive adds is a stream of tokens.
LEMMA BufferedType ==
  ASSUME linebuf \in Seq(Token), wire \in Seq(Token), NEW n \in 0..Len(wire),
         NEW buf \in Buffered(n)
  PROVE  buf \in Seq(Token)
<1> DEFINE new == Take(wire, n)
<1>1. new \in Seq(Token) /\ Len(new) = n
  BY DEF Take
<1>2. PICK k \in {"bad", "leaf"} :
        buf = linebuf \o (IF Joins(n) THEN [new EXCEPT ![1].kind = k, ![1].more = 0]
                          ELSE new)
  BY DEF Buffered
<1>3. CASE Joins(n)
  <2>1. 1 \in DOMAIN new /\ new[1] \in Token
    BY <1>1, <1>3 DEF Joins
  <2> DEFINE tok == [[new[1] EXCEPT !.kind = k] EXCEPT !.more = 0]
  <2>2. tok \in Token
    <3> DEFINE u == new[1]
               v == [u EXCEPT !.kind = k]
    <3>1. u \in Token
      BY <2>1
    <3> HIDE DEF u, new
    <3>2. v \in Token
      BY <3>1 DEF Token
    <3> HIDE DEF v
    <3>3. [v EXCEPT !.more = 0] \in Token
      BY <3>2 DEF Token
    <3> QED  BY <3>3 DEF v, u
  <2>3. [new EXCEPT ![1].kind = k, ![1].more = 0] = [new EXCEPT ![1] = tok]
    <3> HIDE DEF new
    <3> QED  BY <1>1, <2>1 DEF Token
  <2> HIDE DEF tok, new
  <2>4. [new EXCEPT ![1] = tok] \in Seq(Token)
    BY <1>1, <2>1, <2>2
  <2>5. buf = linebuf \o [new EXCEPT ![1] = tok]
    BY <1>2, <1>3, <2>3 DEF new
  <2> DEFINE joined == [new EXCEPT ![1] = tok]
  <2> HIDE DEF joined
  <2>6. joined \in Seq(Token) /\ buf = linebuf \o joined
    BY <2>4, <2>5 DEF joined
  <2> QED  BY <2>6
<1>4. CASE ~Joins(n)
  BY <1>1, <1>2, <1>4
<1> QED  BY <1>3, <1>4

\* Unless the remains of an earlier connection are joined to what arrives.
LEMMA BufferedPlain ==
  ASSUME NEW n, ~Joins(n)
  PROVE  Buffered(n) = {linebuf \o Take(wire, n)}
  BY DEF Buffered


(***************************************************************************)
(* The inductive invariant, but for what is on the connection.  Before the *)
(* reader and the writer run, neither has anything; while they run, no     *)
(* more was committed than is in the ring; the drain finds the ring        *)
(* stopped.                                                                *)
(***************************************************************************)

Before == {"tcp", "hello", "select", "backoff"}

ModeInv ==
  /\ worker \in Before => wpc = "off" /\ rpc = "off" /\ iov = <<>> /\ committed = 0
  /\ wpc \in {"event", "writev"} \/ rpc = "parse" => worker \in {"run", "crashed"}
  /\ worker \in {"run", "crashed"} =>
       committed <= Len(queue) /\ wpc # "off" /\ rpc # "off"
  /\ wpc \in {"off", "event"} => iov = <<>>
  /\ worker \in {"drain", "last_drain"} => ~open

\* The waiting coroutines are suspended, and each of them has at most one
\* write of the eventfd outstanding.
Awaited == {o \in Ops : fate[o] # "new"}

QueueInv ==
  /\ Len(queue) <= Capacity
  /\ \A k \in 1..Len(queue) : fate[queue[k]] = "queued"
  /\ signals <= Cardinality(Awaited)

\* x was accepted before y.
Ahead(x, y) == \E j, k \in 1..Len(accepted) :
                 j < k /\ accepted[j] = x /\ accepted[k] = y

AcceptInv ==
  /\ \A j, k \in 1..Len(accepted) : accepted[j] = accepted[k] => j = k
  /\ \A k \in 1..Len(accepted) : fate[accepted[k]] # "new"
  /\ Elems(queue) \cup Elems(iov) \cup Elems(executed) \subseteq Elems(accepted)

\* What was sent, what writev has left of its batch, and what no batch has
\* yet come in the order they were accepted.
SentInv ==
  /\ \A j, k \in 1..Len(executed) : j < k => Ahead(executed[j], executed[k])
  /\ \A j \in 1..Len(executed), k \in 1..Len(iov) : Ahead(executed[j], iov[k])
  /\ \A j \in 1..Len(executed), k \in 1..Len(queue) :
       committed < k => Ahead(executed[j], queue[k])

WaitInv ==
  /\ \A j, k \in 1..Len(iov) : j < k => Ahead(iov[j], iov[k])
  /\ \A j, k \in 1..Len(queue) : j < k => Ahead(queue[j], queue[k])
  /\ \A j \in 1..Len(iov), k \in 1..Len(queue) :
       committed < k => Ahead(iov[j], queue[k])

\* A writer that sleeps, or has not started, is told of what it has not seen.
WakeInv ==
  /\ worker \in Before \cup {"run", "crashed"}
  /\ wpc \in {"off", "event"}
  /\ committed < Len(queue)
  => event \/ signals > 0

\* Who waits while there is no connection came after it was lost.
DownInv == worker \in Before \cup {"deleted"} => Elems(queue) \subseteq down

RingInv == TypeOK /\ ModeInv /\ QueueInv /\ AcceptInv /\ SentInv /\ WaitInv
             /\ WakeInv /\ DownInv


(***************************************************************************)
(* Types.                                                                  *)
(***************************************************************************)

RingTypes ==
  /\ fate \in [Ops -> {"new", "queued", "reply", "wrong_reply", "conn_err",
                       "ring_overflow"}]
  /\ queue \in Seq(Ops) /\ committed \in 0..Capacity /\ open \in BOOLEAN
  /\ signals \in 0..Cardinality(Ops) /\ event \in BOOLEAN
  /\ wpc \in {"off", "event", "writev", "done"} /\ iov \in Seq(Ops)

StreamTypes ==
  /\ rpc \in {"off", "parse", "done"}
  /\ linebuf \in Seq(Token) /\ torn \in {"no", "live", "stale"}
  /\ fd \in {"open", "closed", "shut"} /\ up \in BOOLEAN
  /\ srv \in Seq(Ops \cup {"HELLO", "SELECT"}) /\ wire \in Seq(Token)

OtherTypes ==
  /\ worker \in {"none", "tcp", "hello", "select", "run", "drain", "last_drain",
                 "backoff", "deleted", "crashed"}
  /\ first \in BOOLEAN /\ alive \in BOOLEAN
  /\ user \in {"connecting", "connected", "failed", "gone"}
  /\ losses \in 0..MaxLosses /\ failures \in Nat /\ tears \in 0..MaxTears
  /\ accepted \in Seq(Ops) /\ executed \in Seq(Ops)
  /\ garbled \in BOOLEAN /\ down \subseteq Ops

LEMMA Constants ==
  /\ Cardinality(Ops) \in Nat
  /\ Capacity \in Nat \ {0} /\ CommitBatch \in Nat \ {0}
  /\ MaxLosses \in Nat /\ MaxFailures \in Nat /\ MaxTears \in Nat
BY OpsAssumption, CapacityAssumption, CommitAssumption, BoundsAssumption,
   FS_CardinalityType

LEMMA ReplyType ==
  ASSUME NEW o \in Ops \cup {"HELLO", "SELECT"}, NEW answer \in Answers(o)
  PROVE  answer \in Seq(Token)
<1> DEFINE Any == Ops \cup {"HELLO", "SELECT"}
<1>1. \A x \in Any, more \in 0..2, kind \in {"agg", "leaf", "ok"} :
        Tok(x, kind, more) \in Token
  BY DEF Tok, Token
<1>2. \A x \in Any : Error(x) \in Seq(Token) /\ Reply(x) \in Seq(Token)
  BY <1>1 DEF Error, Reply
<1>3. HelloReply \in Seq(Token) /\ SelectReply \in Seq(Token)
  BY <1>1 DEF HelloReply, SelectReply
<1> QED  BY <1>2, <1>3 DEF Answers

\* How many coroutines have asked: never fewer, and no more than there are.
LEMMA AwaitedGrows ==
  ASSUME TypeOK, \A o \in Ops : fate[o] # "new" => fate'[o] # "new"
  PROVE  /\ Cardinality(Awaited) \in 0..Cardinality(Ops)
         /\ Cardinality(Awaited)' \in 0..Cardinality(Ops)
         /\ Cardinality(Awaited) <= Cardinality(Awaited)'
<1>1. IsFiniteSet(Ops) /\ Awaited \subseteq Ops /\ Awaited' \subseteq Ops
  BY OpsAssumption DEF Awaited
<1>2. Awaited \subseteq Awaited' /\ IsFiniteSet(Awaited) /\ IsFiniteSet(Awaited')
  BY <1>1, FS_Subset DEF Awaited
<1>3. /\ Cardinality(Awaited) \in Nat /\ Cardinality(Awaited') \in Nat
      /\ Cardinality(Awaited) <= Cardinality(Awaited')
      /\ Cardinality(Awaited) <= Cardinality(Ops)
      /\ Cardinality(Awaited') <= Cardinality(Ops)
  BY <1>1, <1>2, FS_Subset, FS_CardinalityType
<1> QED  BY <1>3, Constants

LEMMA AwaitedOne ==
  ASSUME TypeOK, NEW o \in Ops, fate[o] = "new", NEW f, f # "new", SetFate({o}, f)
  PROVE  Cardinality(Awaited)' = Cardinality(Awaited) + 1
<1>1. IsFiniteSet(Awaited) /\ o \notin Awaited
  BY OpsAssumption, FS_Subset DEF Awaited
<1>2. Awaited' = Awaited \cup {o}
  BY DEF Awaited, SetFate
<1> QED  BY <1>1, <1>2, FS_AddElement

LEMMA TypeInit == Init => TypeOK
<1> SUFFICES ASSUME Init PROVE TypeOK
  OBVIOUS
<1>1. 0 \in 0..Capacity /\ 0 \in 0..Cardinality(Ops) /\ 0 \in 0..MaxLosses /\ 0 \in 0..MaxTears
  BY Constants
<1>2. /\ queue \in Seq(Ops) /\ iov \in Seq(Ops) /\ accepted \in Seq(Ops) /\ executed \in Seq(Ops)
      /\ linebuf \in Seq(Token) /\ wire \in Seq(Token)
      /\ srv \in Seq(Ops \cup {"HELLO", "SELECT"})
  BY DEF Init
<1>3. fate \in [Ops -> {"new", "queued", "reply", "wrong_reply", "conn_err",
                       "ring_overflow"}]
  BY DEF Init
<1>4. /\ committed \in 0..Capacity /\ signals \in 0..Cardinality(Ops)
      /\ losses \in 0..MaxLosses /\ tears \in 0..MaxTears /\ failures \in Nat
  BY <1>1 DEF Init
<1>5. /\ open \in BOOLEAN /\ event \in BOOLEAN /\ up \in BOOLEAN /\ first \in BOOLEAN
      /\ alive \in BOOLEAN /\ garbled \in BOOLEAN
      /\ wpc = "off" /\ rpc = "off" /\ torn = "no" /\ fd = "closed" /\ worker = "tcp"
      /\ user = "connecting" /\ down = {}
  BY DEF Init
<1> QED  BY <1>2, <1>3, <1>4, <1>5 DEF TypeOK

LEMMA TypeAwait ==
  ASSUME TypeOK, ModeInv, QueueInv, NEW o \in Ops, Await(o)
  PROVE  TypeOK'
<1> USE DEF ring, eventfd, writer, parser, socket, control, bounds
<1>1. \A f \in {"queued", "conn_err", "ring_overflow"} : SetFate({o}, f) =>
        fate' \in [Ops -> {"new", "queued", "reply", "wrong_reply", "conn_err",
                           "ring_overflow"}]
  BY DEF SetFate, TypeOK
<1>2. signals' \in 0..Cardinality(Ops) /\ fate[o] = "new"
  <2>1. fate[o] = "new" /\ signals \in 0..Cardinality(Ops) /\ signals <= Cardinality(Awaited)
    BY DEF Await, QueueInv, TypeOK
  <2>2. CASE signals' = signals
    BY <2>1, <2>2
  <2>3. CASE signals' # signals
    <3>1. signals' = signals + 1 /\ SetFate({o}, "queued")
      BY <2>3 DEF Await
    <3>2. \A p \in Ops : fate[p] # "new" => fate'[p] # "new"
      BY <3>1 DEF SetFate
    <3>3. /\ Cardinality(Awaited)' = Cardinality(Awaited) + 1
          /\ Cardinality(Awaited)' \in 0..Cardinality(Ops)
          /\ Cardinality(Awaited) \in 0..Cardinality(Ops)
      <4>1. Cardinality(Awaited)' = Cardinality(Awaited) + 1
        BY <2>1, <3>1, AwaitedOne
      <4> QED  BY <4>1, <3>2, AwaitedGrows
    <3> DEFINE c == Cardinality(Ops)
               a == Cardinality(Awaited)
               b == Cardinality(Awaited)'
    <3> HIDE DEF a, b, c
    <3>4. c \in Nat /\ a \in 0..c /\ b \in 0..c /\ b = a + 1
          /\ signals \in 0..c /\ signals <= a
      BY <2>1, <3>3, Constants DEF a, b, c
    <3>5. signals' \in 0..c
      BY <3>1, <3>4
    <3> QED  BY <2>1, <3>5 DEF c
  <2> QED  BY <2>1, <2>2, <2>3
<1>3. CASE open /\ Len(queue) < Capacity
  <2>1. queue' = Append(queue, o) /\ accepted' = Append(accepted, o)
        /\ SetFate({o}, "queued") /\ down' \subseteq down \cup {o}
    <3>1. ~(Len(queue) >= Capacity)
      BY <1>3, Constants DEF TypeOK
    <3> QED  BY <1>3, <3>1 DEF Await
  <2>2. queue' \in Seq(Ops) /\ accepted' \in Seq(Ops) /\ down' \subseteq Ops
    BY <2>1 DEF TypeOK
  <2> QED  BY <1>1, <1>2, <2>1, <2>2 DEF Await, TypeOK
<1>4. CASE ~(open /\ Len(queue) < Capacity)
  <2>1. /\ SetFate({o}, "conn_err") \/ SetFate({o}, "ring_overflow")
        /\ UNCHANGED <<queue, signals, accepted, down>>
    BY <1>4, CapacityAssumption DEF Await, TypeOK
  <2> QED  BY <1>1, <2>1 DEF Await, TypeOK
<1> QED  BY <1>3, <1>4

LEMMA TypeConnect ==
  ASSUME TypeOK, ConnectSpot
  PROVE  TypeOK'
<1> USE DEF ring, eventfd, writer, parser, socket, control, bounds, history
<1> DEFINE Any == Ops \cup {"HELLO", "SELECT"}
<1>0. /\ <<>> \in Seq(Any) /\ srv \in Seq(Any)
      /\ <<>> \in Seq(Token) /\ wire \in Seq(Token)
  BY DEF TypeOK
<1>1. ASSUME GiveUp
      PROVE  /\ fd' = "closed" /\ up' = FALSE /\ srv' = <<>> /\ wire' = <<>>
             /\ worker' \in {"none", "backoff", "deleted"}
             /\ user' \in {"failed", user}
  BY <1>1 DEF GiveUp, TypeOK
<1>2. failures + 1 \in Nat
  BY DEF TypeOK
<1>3. /\ Sound(linebuf) \in Seq(Token)
      /\ \A n \in Nat : Drop(linebuf, n) \in Seq(Token)
  BY SoundIs, TakeDropType DEF TypeOK
<1>4. CASE TcpConnects
  <2>1. <<"HELLO", "SELECT">> \in Seq(Any)
    OBVIOUS
  <2> QED  BY <1>4, <2>1 DEF TcpConnects, TypeOK
<1>5. CASE ConnectFails
  BY <1>1, <1>2, <1>5 DEF ConnectFails, TypeOK
<1>6. CASE HandshakeBreaks
  BY <1>1, <1>2, <1>6 DEF HandshakeBreaks, TypeOK
<1>7. CASE HandshakeReceives
  <2>1. PICK n \in 0..Len(wire), tear \in BOOLEAN :
          /\ Arrives(n, tear) /\ linebuf' \in Buffered(n)
          /\ torn' = TornAfter(n, tear)
    BY <1>7 DEF HandshakeReceives
  <2>2. linebuf' \in Seq(Token)
    BY <2>1, BufferedType DEF TypeOK
  <2>3. wire' \in Seq(Token) /\ tears' \in 0..MaxTears
    <3>1. wire' \in Seq(Token)
      BY <2>1, TakeDropType DEF Arrives, TypeOK
    <3>2. tears' \in 0..MaxTears
      BY <2>1, Constants DEF Arrives, TypeOK
    <3> QED  BY <3>1, <3>2
  <2>4. torn' \in {"no", "live", "stale"}
    BY <2>1 DEF TornAfter, TypeOK
  <2>5. garbled' \in BOOLEAN
    BY <1>7 DEF HandshakeReceives, Joins, TypeOK
  <2> QED  BY <1>7, <2>2, <2>3, <2>4, <2>5 DEF HandshakeReceives, TypeOK
<1>8. ASSUME Frames(Sound(linebuf)) # <<>>
      PROVE  Drop(linebuf, Len(Frames(Sound(linebuf))[1])) \in Seq(Token)
  BY <1>3, <1>8, FirstFrameLength
<1>9. CASE HelloReplied
  <2>1. linebuf' \in Seq(Token)
    BY <1>8, <1>9 DEF HelloReplied
  <2>2. /\ failures' \in {failures, failures + 1} /\ user' \in {"failed", user}
        /\ fd' \in {"closed", fd} /\ up' \in {FALSE, up} /\ srv' \in {<<>>, srv}
        /\ wire' \in {<<>>, wire}
        /\ worker' \in {"select", "none", "backoff", "deleted"}
    BY <1>1, <1>9 DEF HelloReplied
  <2>3. UNCHANGED <<fate, ring, eventfd, writer, rpc, torn, first, alive,
                    losses, tears, history>>
    BY <1>9 DEF HelloReplied
  <2>4. /\ failures' \in Nat /\ up' \in BOOLEAN /\ fd' \in {"open", "closed", "shut"}
        /\ user' \in {"connecting", "connected", "failed", "gone"}
    BY <1>2, <2>2 DEF TypeOK
  <2>5. srv' \in Seq(Any) /\ wire' \in Seq(Token)
    BY <1>0, <2>2
  <2>6. worker' \in {"none", "tcp", "hello", "select", "run", "drain", "last_drain",
                    "backoff", "deleted", "crashed"}
    BY <2>2
  <2> QED  BY <2>1, <2>3, <2>4, <2>5, <2>6 DEF TypeOK
<1>10. CASE SelectReplied
  <2>1. linebuf' \in Seq(Token)
    BY <1>8, <1>10 DEF SelectReplied
  <2>2. down' \in {{}, down} /\ user' \in {"connected", "failed", user}
        /\ first' \in BOOLEAN /\ alive' \in BOOLEAN
        /\ failures' \in {failures, failures + 1}
    BY <1>1, <1>10 DEF SelectReplied, TypeOK
  <2>3. /\ fd' \in {"closed", fd} /\ up' \in {FALSE, up} /\ srv' \in {<<>>, srv}
        /\ wire' \in {<<>>, wire}
        /\ worker' \in {"run", "none", "backoff", "deleted"}
        /\ rpc' \in {"parse", rpc} /\ wpc' \in {"event", wpc}
    BY <1>1, <1>10 DEF SelectReplied
  <2>4. UNCHANGED <<fate, ring, eventfd, iov, torn, losses, tears, accepted,
                    executed, garbled>>
    BY <1>10 DEF SelectReplied
  <2>5. /\ failures' \in Nat /\ up' \in BOOLEAN /\ fd' \in {"open", "closed", "shut"}
        /\ user' \in {"connecting", "connected", "failed", "gone"}
        /\ down' \subseteq Ops
    BY <1>2, <2>2, <2>3 DEF TypeOK
  <2>6. srv' \in Seq(Any) /\ wire' \in Seq(Token)
    BY <1>0, <2>3
  <2>7. /\ worker' \in {"none", "tcp", "hello", "select", "run", "drain", "last_drain",
                       "backoff", "deleted", "crashed"}
        /\ rpc' \in {"off", "parse", "done"}
        /\ wpc' \in {"off", "event", "writev", "done"}
    BY <2>3 DEF TypeOK
  <2> QED  BY <2>1, <2>2, <2>4, <2>5, <2>6, <2>7 DEF TypeOK
<1>11. CASE HandshakeUnparseable
  <2>1. Len(Sound(linebuf)) + 1 \in Nat
    BY <1>3
  <2>2. linebuf' \in Seq(Token)
    BY <1>3, <1>11, <2>1 DEF HandshakeUnparseable
  <2>3. /\ failures' = failures + 1 /\ GiveUp
        /\ UNCHANGED <<fate, ring, eventfd, writer, rpc, torn, first, alive,
                       losses, tears, history>>
    BY <1>11 DEF HandshakeUnparseable
  <2> QED  BY <1>1, <1>2, <2>2, <2>3 DEF TypeOK
<1>12. CASE BackoffEnds
  BY <1>12 DEF BackoffEnds, TypeOK
<1> QED  BY <1>4, <1>5, <1>6, <1>7, <1>9, <1>10, <1>11, <1>12 DEF ConnectSpot


\* What the next batch is: some of the commands no batch has had.
LEMMA NextBatch ==
  ASSUME TypeOK, QueueInv, committed <= Len(queue), CommitNext
  PROVE  /\ committed' \in committed..Len(queue) /\ committed' <= Capacity
         /\ iov' = SubSeq(queue, committed + 1, committed')
         /\ iov' \in Seq(Ops) /\ Len(iov') = committed' - committed
         /\ \A n \in 1..Len(iov') : iov'[n] = queue[committed + n]
         /\ wpc' \in {"event", "writev", "done"}
         /\ wpc' = "event" => committed = Len(queue) /\ committed' = committed
<1> DEFINE room == Len(queue) - committed
           num  == IF room < CommitBatch THEN room ELSE CommitBatch
<1>1. /\ queue \in Seq(Ops) /\ Len(queue) \in Nat /\ committed \in Nat
      /\ Len(queue) <= Capacity /\ Capacity \in Nat
      /\ CommitBatch \in Nat \ {0}
  BY Constants DEF TypeOK, QueueInv
<1>2. /\ committed' = committed + num
      /\ iov' = SubSeq(queue, committed + 1, committed + num)
      /\ wpc' = IF rpc = "done" THEN "done"
                ELSE IF num = 0 THEN "event"
                ELSE IF fd = "closed" THEN "done" ELSE "writev"
  BY DEF CommitNext
<1>3. num \in Nat /\ num <= room /\ (num = 0 => room = 0)
  BY <1>1
<1> HIDE DEF num
<1>4. committed' \in committed..Len(queue) /\ committed' <= Capacity
  BY <1>1, <1>2, <1>3
<1>5. /\ SubSeq(queue, committed + 1, committed') \in Seq(Ops)
      /\ Len(SubSeq(queue, committed + 1, committed')) = committed' - committed
      /\ \A n \in 1..(committed' - committed) :
           SubSeq(queue, committed + 1, committed')[n] = queue[committed + n]
  <2>1. committed \in 0..Len(queue)
    BY <1>1
  <2> QED  BY <1>1, <1>4, <2>1, SubSeqType
<1>6. wpc' = "event" => num = 0
  BY <1>2
<1>7. wpc' = "event" => committed = Len(queue) /\ committed' = committed
  BY <1>1, <1>2, <1>3, <1>6
<1> QED  BY <1>2, <1>4, <1>5, <1>7

LEMMA TypeWriter ==
  ASSUME TypeOK, ModeInv, QueueInv, Writer
  PROVE  TypeOK'
<1> USE DEF ring, eventfd, writer, parser, socket, control, bounds, history
<1>1. worker = "run" /\ committed <= Len(queue)
  BY DEF Writer, WriterWakes, WriterSends, WriterFails, ModeInv
<1>2. ASSUME CommitNext
      PROVE  /\ committed' \in 0..Capacity /\ iov' \in Seq(Ops)
             /\ wpc' \in {"off", "event", "writev", "done"}
  BY <1>1, <1>2, NextBatch, Constants DEF TypeOK
<1>3. CASE WriterWakes
  <2>1. /\ committed' \in 0..Capacity /\ iov' \in Seq(Ops)
        /\ wpc' \in {"off", "event", "writev", "done"}
    BY <1>2, <1>3 DEF WriterWakes
  <2>2. /\ event' = FALSE
        /\ UNCHANGED <<fate, queue, open, signals, rpc, parser, socket, control,
                       bounds, history>>
    BY <1>3 DEF WriterWakes
  <2>11. RingTypes'
    BY <2>1, <2>2 DEF TypeOK, RingTypes
  <2>12. StreamTypes'
    BY <2>1, <2>2 DEF TypeOK, StreamTypes
  <2>13. OtherTypes'
    BY <2>1, <2>2 DEF TypeOK, OtherTypes
  <2> QED  BY <2>11, <2>12, <2>13 DEF TypeOK, RingTypes, StreamTypes, OtherTypes
<1>4. CASE WriterSends
  <2>1. PICK n \in 1..Len(iov) :
       /\ srv' = IF up THEN srv \o Take(iov, n) ELSE srv
       /\ executed' = IF up THEN executed \o Take(iov, n) ELSE executed
       /\ IF n = Len(iov)
          THEN CommitNext
          ELSE /\ iov' = Drop(iov, n)
               /\ wpc' = IF rpc = "done" \/ fd = "closed"
                         THEN "done" ELSE "writev"
               /\ UNCHANGED committed
    BY <1>4 DEF WriterSends
  <2>2. n \in Nat /\ n <= Len(iov) /\ iov \in Seq(Ops)
    BY DEF TypeOK
  <2>3. Take(iov, n) \in Seq(Ops) /\ Drop(iov, n) \in Seq(Ops)
    BY <2>2, TakeDropType
  <2> DEFINE part == Take(iov, n)
  <2>4. part \in Seq(Ops \cup {"HELLO", "SELECT"})
    BY <2>3
  <2> HIDE DEF part
  <2>5. executed \o part \in Seq(Ops) /\ srv \o part \in Seq(Ops \cup {"HELLO", "SELECT"})
    BY <2>3, <2>4 DEF part, TypeOK
  <2>6. executed' \in Seq(Ops) /\ srv' \in Seq(Ops \cup {"HELLO", "SELECT"})
    BY <2>1, <2>5 DEF part, TypeOK
  <2>7. /\ committed' \in 0..Capacity /\ iov' \in Seq(Ops)
        /\ wpc' \in {"off", "event", "writev", "done"}
    BY <1>2, <2>1, <2>3 DEF TypeOK
  <2>8. UNCHANGED <<fate, queue, open, eventfd, rpc, parser, fd, up, wire,
                    control, bounds, accepted, garbled, down>>
    BY <1>4 DEF WriterSends
  <2> QED  BY <2>6, <2>7, <2>8 DEF TypeOK
<1>5. CASE WriterFails
  BY <1>5 DEF WriterFails, TypeOK
<1> QED  BY <1>3, <1>4, <1>5 DEF Writer

\* What a receive does to the ring: so many of the oldest commands leave it,
\* each with an answer, or the reader resumes what is not there.
Popped(n) ==
  /\ n <= Len(queue)
  /\ queue' = Drop(queue, n)
  /\ committed' = IF n < committed THEN committed - n ELSE 0
  /\ \A o \in Ops :
       IF \E j \in 1..n : queue[j] = o THEN fate'[o] \in {"reply", "wrong_reply"}
       ELSE fate'[o] = fate[o]
  /\ fate' \in [Ops -> {"new", "queued", "reply", "wrong_reply", "conn_err",
                        "ring_overflow"}]
  /\ rpc' \in {"parse", "done"}
  /\ worker' = worker

LEMMA FramesCount ==
  ASSUME NEW s \in Seq(Token)
  PROVE  Len(Frames(s)) \in Nat
<1> DEFINE ends == FrameEnds(s)
           end(j) == IF j = 0 THEN 0
                     ELSE CHOOSE n \in ends : Cardinality({m \in ends : m <= n}) = j
<1>1. Len(s) \in Nat /\ ends \in SUBSET (1..Len(s))
  BY DEF FrameEnds
<1>2. Cardinality(ends) \in Nat
  <2>1. IsFiniteSet(1..Len(s))
    BY <1>1, FS_Interval
  <2> QED  BY <1>1, <2>1, FS_Subset, FS_CardinalityType
<1>3. Frames(s) = [j \in 1..Cardinality(ends) |-> SubSeq(s, end(j - 1) + 1, end(j))]
  BY DEF Frames
<1> HIDE DEF ends, end
<1> QED  BY <1>2, <1>3

LEMMA DeliverPops ==
  ASSUME TypeOK, NEW buf \in Seq(Token), Deliver(buf)
  PROVE  /\ linebuf' \in Seq(Token)
         /\ \/ /\ Len(Frames(Sound(buf))) > Len(queue)
               /\ worker' = "crashed" /\ linebuf' = <<>>
               /\ UNCHANGED <<fate, queue, committed, rpc>>
            \/ /\ Popped(Len(Frames(Sound(buf)))) /\ linebuf' = Rest(Sound(buf))
<1> DEFINE frames == Frames(Sound(buf))
           n      == Len(frames)
<1>1. Sound(buf) \in Seq(Token) /\ n \in Nat
  BY SoundIs, FramesCount
<1>2. Rest(Sound(buf)) \in Seq(Token)
  <2>1. PICK l \in 0..Len(Sound(buf)) :
          Rest(Sound(buf)) = SubSeq(Sound(buf), l + 1, Len(Sound(buf)))
    BY <1>1, RestIs
  <2> DEFINE s == Sound(buf)
  <2> HIDE DEF s
  <2>2. SubSeq(s, l + 1, Len(s)) \in Seq(Token)
    BY <1>1 DEF s
  <2> QED  BY <2>1, <2>2 DEF s
<1> HIDE DEF n
<1>3. CASE n > Len(queue)
  <2>1. /\ worker' = "crashed" /\ linebuf' = <<>>
        /\ UNCHANGED <<fate, queue, committed, rpc>>
    BY <1>3 DEF Deliver, n
  <2> QED  BY <1>3, <2>1 DEF n
<1>4. CASE ~(n > Len(queue))
  <2>1. /\ fate' = [o \in Ops |->
                IF \E j \in 1..n : queue[j] = o
                THEN LET j == CHOOSE j \in 1..n : queue[j] = o
                     IN  IF frames[j] = Reply(o) THEN "reply" ELSE "wrong_reply"
                ELSE fate[o]]
        /\ queue' = Drop(queue, n)
        /\ committed' = IF n < committed THEN committed - n ELSE 0
        /\ linebuf' = Rest(Sound(buf))
        /\ rpc' = IF Sound(buf) # buf \/ wpc = "done" \/ fd = "closed"
                  THEN "done" ELSE "parse"
        /\ UNCHANGED worker
    BY <1>4 DEF Deliver, n
  <2>2. n <= Len(queue)
    BY <1>1, <1>4 DEF TypeOK
  <2>3. \A o \in Ops :
          IF \E j \in 1..n : queue[j] = o THEN fate'[o] \in {"reply", "wrong_reply"}
          ELSE fate'[o] = fate[o]
    BY <2>1
  <2>4. fate' \in [Ops -> {"new", "queued", "reply", "wrong_reply", "conn_err",
                           "ring_overflow"}]
    <3>1. \A o \in Ops : fate[o] \in {"new", "queued", "reply", "wrong_reply", "conn_err",
                           "ring_overflow"}
      BY DEF TypeOK
    <3> QED  BY <2>1, <3>1
  <2>5. Popped(n)
    BY <2>1, <2>2, <2>3, <2>4 DEF Popped
  <2> QED  BY <1>2, <2>1, <2>5 DEF n
<1> QED  BY <1>3, <1>4

LEMMA TypeReader ==
  ASSUME TypeOK, Reader
  PROVE  TypeOK'
<1> USE DEF ring, eventfd, writer, parser, socket, control, bounds, history
<1>1. CASE ReaderReceives
  <2>1. PICK n \in 0..Len(wire), tear \in BOOLEAN :
          /\ Arrives(n, tear) /\ torn' = TornAfter(n, tear)
          /\ \E buf \in Buffered(n) : Deliver(buf)
    BY <1>1 DEF ReaderReceives
  <2>2. PICK buf \in Buffered(n) : Deliver(buf)
    BY <2>1
  <2>3. buf \in Seq(Token)
    BY BufferedType DEF TypeOK
  <2>4. wire' \in Seq(Token) /\ tears' \in 0..MaxTears
    <3>1. wire' \in Seq(Token)
      BY <2>1, TakeDropType DEF Arrives, TypeOK
    <3>2. tears' \in 0..MaxTears
      BY <2>1, Constants DEF Arrives, TypeOK
    <3> QED  BY <3>1, <3>2
  <2>5. torn' \in {"no", "live", "stale"} /\ garbled' \in BOOLEAN
    BY <1>1, <2>1 DEF TornAfter, ReaderReceives, Joins, TypeOK
  <2>6. /\ linebuf' \in Seq(Token)
        /\ fate' \in [Ops -> {"new", "queued", "reply", "wrong_reply", "conn_err",
                              "ring_overflow"}]
        /\ queue' \in Seq(Ops) /\ committed' \in 0..Capacity
        /\ worker' \in {worker, "crashed"} /\ rpc' \in {"off", "parse", "done"}
    <3> DEFINE k == Len(Frames(Sound(buf)))
    <3>1. linebuf' \in Seq(Token)
      BY <2>2, <2>3, DeliverPops
    <3>2. k \in Nat
      BY <2>3, SoundIs, FramesCount
    <3>3. \/ worker' = "crashed" /\ UNCHANGED <<fate, queue, committed, rpc>>
          \/ Popped(k)
      BY <2>2, <2>3, DeliverPops
    <3> HIDE DEF k
    <3>4. CASE worker' = "crashed" /\ UNCHANGED <<fate, queue, committed, rpc>>
      BY <3>1, <3>4 DEF TypeOK
    <3>5. CASE Popped(k)
      <4>1. queue' \in Seq(Ops)
        BY <3>2, <3>5, TakeDropType DEF Popped, TypeOK
      <4>2. committed' \in 0..Capacity
        BY <3>2, <3>5, Constants DEF Popped, TypeOK
      <4> QED  BY <3>1, <3>5, <4>1, <4>2 DEF Popped
    <3> QED  BY <3>3, <3>4, <3>5
  <2>7. UNCHANGED <<open, eventfd, writer, fd, up, srv, first, alive, user,
                    losses, failures, accepted, executed, down>>
    BY <1>1 DEF ReaderReceives
  <2> QED  BY <2>4, <2>5, <2>6, <2>7 DEF TypeOK
<1>2. CASE ReaderFails
  BY <1>2 DEF ReaderFails, TypeOK
<1> QED  BY <1>1, <1>2 DEF Reader

LEMMA TypeStep ==
  ASSUME TypeOK, ModeInv, QueueInv, [Next]_vars
  PROVE  TypeOK'
<1> USE DEF ring, eventfd, writer, parser, socket, control, bounds, history
<1>1. ASSUME NEW o \in Ops, Await(o) PROVE TypeOK'
  BY <1>1, TypeAwait
<1>2. CASE Signal
  BY <1>2, Constants DEF Signal, TypeOK
<1> DEFINE Any == Ops \cup {"HELLO", "SELECT"}
<1>0. <<>> \in Seq(Any) /\ <<>> \in Seq(Token) /\ <<>> \in Seq(Ops) /\ 0 \in 0..Capacity
  BY Constants
<1>3. CASE Close \/ Destroy
  <2>1. /\ user' = "gone" /\ alive' = FALSE /\ fd' \in {"closed", "shut", fd}
        /\ UNCHANGED <<fate, ring, eventfd, writer, rpc, parser, up, srv, wire,
                       worker, first, bounds, history>>
    BY <1>3 DEF Close, Destroy
  <2>2. fd' \in {"open", "closed", "shut"}
    BY <2>1 DEF TypeOK
  <2>11. RingTypes'
    BY <2>1, <2>2 DEF TypeOK, RingTypes
  <2>12. StreamTypes'
    BY <2>1, <2>2 DEF TypeOK, StreamTypes
  <2>13. OtherTypes'
    BY <2>1, <2>2 DEF TypeOK, OtherTypes
  <2> QED  BY <2>11, <2>12, <2>13 DEF TypeOK, RingTypes, StreamTypes, OtherTypes
<1>5. CASE ServerAnswers
  <2>1. PICK answer \in Answers(Head(srv)) : wire' = wire \o answer
    BY <1>5 DEF ServerAnswers
  <2>2. Head(srv) \in Ops \cup {"HELLO", "SELECT"}
        /\ Tail(srv) \in Seq(Ops \cup {"HELLO", "SELECT"})
    BY <1>5 DEF ServerAnswers, TypeOK
  <2>3. wire' \in Seq(Token)
    BY <2>1, <2>2, ReplyType DEF TypeOK
  <2> QED  BY <1>5, <2>2, <2>3 DEF ServerAnswers, TypeOK
<1>6. CASE PeerCloses
  <2>1. PICK n \in 0..Len(wire) : wire' = Take(wire, n)
    BY <1>6 DEF PeerCloses
  <2>2. wire' \in Seq(Token)
    BY <2>1, TakeDropType DEF TypeOK
  <2>3. losses' \in 0..MaxLosses
    BY <1>6, Constants DEF PeerCloses, TypeOK
  <2>4. /\ up' = FALSE /\ srv' = <<>>
        /\ UNCHANGED <<fate, ring, eventfd, writer, rpc, parser, fd, control,
                       failures, tears, history>>
    BY <1>6 DEF PeerCloses
  <2>11. RingTypes'
    BY <1>0, <2>2, <2>3, <2>4 DEF TypeOK, RingTypes
  <2>12. StreamTypes'
    BY <1>0, <2>2, <2>3, <2>4 DEF TypeOK, StreamTypes
  <2>13. OtherTypes'
    BY <1>0, <2>2, <2>3, <2>4 DEF TypeOK, OtherTypes
  <2> QED  BY <2>11, <2>12, <2>13 DEF TypeOK, RingTypes, StreamTypes, OtherTypes
<1>7. CASE ConnectSpot
  BY <1>7, TypeConnect
<1>8. CASE Writer
  BY <1>8, TypeWriter
<1>9. CASE Reader
  BY <1>9, TypeReader
<1>10. CASE RaceEnds
  BY <1>10 DEF RaceEnds, TypeOK
<1>11. CASE DrainResumes
  <2>1. queue' \in Seq(Ops)
    BY <1>11 DEF DrainResumes, TypeOK
  <2>2. fate' \in [Ops -> {"new", "queued", "reply", "wrong_reply", "conn_err",
                           "ring_overflow"}]
    BY <1>11 DEF DrainResumes, SetFate, TypeOK
  <2> QED  BY <1>11, <2>1, <2>2 DEF DrainResumes, TypeOK
<1>12. CASE DrainDeletes
  <2>1. /\ worker' = "deleted"
        /\ fd' = "closed" /\ up' = FALSE /\ srv' = <<>> /\ wire' = <<>>
        /\ UNCHANGED <<fate, ring, eventfd, writer, rpc, parser, first, alive, user,
                       bounds, history>>
    BY <1>12 DEF DrainDeletes
  <2>11. RingTypes'
    BY <1>0, <2>1 DEF TypeOK, RingTypes
  <2>12. StreamTypes'
    BY <1>0, <2>1 DEF TypeOK, StreamTypes
  <2>13. OtherTypes'
    BY <1>0, <2>1 DEF TypeOK, OtherTypes
  <2> QED  BY <2>11, <2>12, <2>13 DEF TypeOK, RingTypes, StreamTypes, OtherTypes
<1>13. CASE DrainReconnects
  <2>1. /\ worker' = "tcp" /\ linebuf' = <<>> /\ torn' = "no"
        /\ fd' = "closed" /\ up' = FALSE /\ srv' = <<>> /\ wire' = <<>>
        /\ event' = FALSE /\ committed' = 0 /\ open' = TRUE
        /\ wpc' = "off" /\ iov' = <<>> /\ rpc' = "off"
        /\ UNCHANGED <<fate, queue, signals, first, alive, user, bounds, history>>
    BY <1>13 DEF DrainReconnects
  <2> QED  BY <1>0, <2>1 DEF TypeOK
<1>14. CASE UNCHANGED vars
  BY <1>14 DEF vars, TypeOK
<1> QED  BY <1>1, <1>2, <1>3, <1>5, <1>6, <1>7, <1>8, <1>9, <1>10, <1>11, <1>12,
            <1>13, <1>14 DEF Next, Worker, Finished


(***************************************************************************)
(* The ring: who waits, in which order, and who is told.                   *)
(***************************************************************************)

LEMMA ElemsAre ==
  ASSUME NEW S, NEW s \in Seq(S)
  PROVE  /\ Elems(s) = {s[k] : k \in 1..Len(s)}
         /\ \A x \in S : Elems(Append(s, x)) = Elems(s) \cup {x}
<1>1. Elems(s) = {s[k] : k \in 1..Len(s)}
  BY DEF Elems
<1>2. ASSUME NEW x \in S
      PROVE  Elems(Append(s, x)) = Elems(s) \cup {x}
  <2> DEFINE t == Append(s, x)
  <2>1. /\ Len(t) = Len(s) + 1 /\ t[Len(s) + 1] = x /\ Len(s) \in Nat
        /\ \A k \in 1..Len(s) : t[k] = s[k]
        /\ t \in Seq(S)
    OBVIOUS
  <2> HIDE DEF t
  <2>2. Elems(t) = {t[k] : k \in 1..(Len(s) + 1)}
    BY <2>1 DEF Elems
  <2>3. 1..(Len(s) + 1) = (1..Len(s)) \cup {Len(s) + 1}
    BY <2>1
  <2>4. Elems(t) = {s[k] : k \in 1..Len(s)} \cup {x}
    BY <2>1, <2>2, <2>3
  <2> QED  BY <1>1, <2>4 DEF t
<1> QED  BY <1>1, <1>2

LEMMA RingInit == Init => ModeInv /\ QueueInv /\ AcceptInv /\ SentInv /\ WaitInv
                            /\ WakeInv /\ DownInv
<1> SUFFICES ASSUME Init
             PROVE  ModeInv /\ QueueInv /\ AcceptInv /\ SentInv /\ WaitInv
                      /\ WakeInv /\ DownInv
  OBVIOUS
<1>1. /\ Len(queue) = 0 /\ Len(iov) = 0 /\ Len(executed) = 0 /\ Len(accepted) = 0
      /\ Elems(queue) = {} /\ Elems(iov) = {} /\ Elems(executed) = {}
  BY DEF Init, Elems
<1>2. Cardinality(Awaited) = 0
  <2>1. Awaited = {}
    BY DEF Init, Awaited
  <2> QED  BY <2>1, FS_EmptySet
<1>3. QueueInv
  BY <1>1, <1>2, Constants DEF Init, QueueInv
<1>4. AcceptInv /\ SentInv /\ WaitInv
  BY <1>1 DEF AcceptInv, SentInv, WaitInv
<1>5. ModeInv /\ WakeInv /\ DownInv
  BY <1>1 DEF Init, ModeInv, WakeInv, DownInv, Before
<1> QED  BY <1>3, <1>4, <1>5

\* A command is in the ring once: it was accepted once.
LEMMA QueueOnce ==
  ASSUME AcceptInv, WaitInv, TypeOK
  PROVE  \A j, k \in 1..Len(queue) : queue[j] = queue[k] => j = k
<1> SUFFICES ASSUME NEW j \in 1..Len(queue), NEW k \in 1..Len(queue), j < k,
                    queue[j] = queue[k]
             PROVE  FALSE
  OBVIOUS
<1>1. Ahead(queue[j], queue[k])
  BY DEF WaitInv
<1>2. PICK a, b \in 1..Len(accepted) : a < b /\ accepted[a] = accepted[b]
  BY <1>1 DEF Ahead
<1>3. a = b
  BY <1>2 DEF AcceptInv
<1> QED  BY <1>2, <1>3

LEMMA OrderSame ==
  ASSUME SentInv, WaitInv, UNCHANGED <<queue, committed, iov, executed, accepted>>
  PROVE  SentInv' /\ WaitInv'
<1>1. \A x, y : Ahead(x, y) => Ahead(x, y)'
  BY DEF Ahead
<1>2. SentInv'
  BY <1>1 DEF SentInv
<1>3. WaitInv'
  BY <1>1 DEF WaitInv
<1> QED  BY <1>2, <1>3

\* A step that does not touch the ring, the reader or the writer, and at most
\* takes the worker from one stage of connecting to another, or ends it.
LEMMA QuietStep ==
  ASSUME RingInv,
         UNCHANGED <<fate, ring, eventfd, writer, rpc, accepted, executed, down>>,
         \/ worker' = worker
         \/ worker \in Before /\ worker' \in Before \cup {"none", "deleted"}
  PROVE  /\ ModeInv' /\ QueueInv' /\ AcceptInv' /\ SentInv' /\ WaitInv' /\ WakeInv'
         /\ DownInv'
<1> USE DEF ring, eventfd, writer
<1>1. ModeInv'
  BY DEF RingInv, ModeInv, Before
<1>2. QueueInv'
  BY DEF RingInv, QueueInv, Awaited
<1>3. AcceptInv'
  <2>1. /\ Elems(queue') = Elems(queue) /\ Elems(iov') = Elems(iov)
        /\ Elems(executed') = Elems(executed) /\ Elems(accepted') = Elems(accepted)
    OBVIOUS
  <2> QED  BY <2>1 DEF RingInv, AcceptInv
<1>4. SentInv' /\ WaitInv'
  BY OrderSame DEF RingInv
<1>5. WakeInv' /\ DownInv'
  BY DEF RingInv, WakeInv, DownInv, Before, Elems
<1> QED  BY <1>1, <1>2, <1>3, <1>4, <1>5

LEMMA AwaitRing ==
  ASSUME RingInv, NEW o \in Ops, Await(o)
  PROVE  /\ ModeInv' /\ QueueInv' /\ AcceptInv' /\ SentInv' /\ WaitInv' /\ WakeInv'
         /\ DownInv'
<1> USE DEF eventfd, writer, control
<1>1. /\ TypeOK /\ fate[o] = "new"
      /\ UNCHANGED <<committed, open, event, writer, rpc, control, executed>>
  BY DEF RingInv, Await
<1>2. \A p \in Ops : fate[p] # "new" => fate'[p] # "new" /\ fate'[p] = fate[p]
  BY <1>1 DEF Await, SetFate
<1>3. /\ Cardinality(Awaited) \in Nat /\ Cardinality(Awaited)' \in Nat
      /\ Cardinality(Awaited) <= Cardinality(Awaited)'
  BY <1>1, <1>2, AwaitedGrows, Constants
<1>4. /\ queue \in Seq(Ops) /\ accepted \in Seq(Ops) /\ signals \in Nat
      /\ Len(queue) \in Nat /\ Len(accepted) \in Nat /\ committed \in Nat
  BY <1>1, Constants DEF TypeOK
<1>5. CASE open /\ Len(queue) < Capacity
  <2>1. /\ queue' = Append(queue, o) /\ accepted' = Append(accepted, o)
        /\ signals' = signals + 1 /\ SetFate({o}, "queued")
        /\ down' = IF worker = "run" THEN down ELSE down \cup {o}
    <3>1. ~(Len(queue) >= Capacity)
      BY <1>4, <1>5, Constants
    <3> QED  BY <1>5, <3>1 DEF Await
  <2>2. /\ Len(queue') = Len(queue) + 1 /\ queue'[Len(queue) + 1] = o
        /\ \A k \in 1..Len(queue) : queue'[k] = queue[k]
        /\ Len(accepted') = Len(accepted) + 1 /\ accepted'[Len(accepted) + 1] = o
        /\ \A k \in 1..Len(accepted) : accepted'[k] = accepted[k]
    BY <1>4, <2>1
  <2>3. \A x, y : Ahead(x, y) => Ahead(x, y)'
    <3> SUFFICES ASSUME NEW x, NEW y, Ahead(x, y) PROVE Ahead(x, y)'
      OBVIOUS
    <3>1. PICK j, k \in 1..Len(accepted) : j < k /\ accepted[j] = x /\ accepted[k] = y
      BY DEF Ahead
    <3>2. j \in 1..Len(accepted') /\ k \in 1..Len(accepted')
      BY <1>4, <2>2
    <3> QED  BY <2>2, <3>1, <3>2 DEF Ahead
  <2>4. \A x \in Elems(accepted) : Ahead(x, o)'
    <3> SUFFICES ASSUME NEW x \in Elems(accepted) PROVE Ahead(x, o)'
      OBVIOUS
    <3>1. PICK j \in 1..Len(accepted) : accepted[j] = x
      BY <1>4, ElemsAre
    <3>2. j \in 1..Len(accepted') /\ Len(accepted) + 1 \in 1..Len(accepted')
          /\ j < Len(accepted) + 1
      BY <1>4, <2>2
    <3> QED  BY <2>2, <3>1, <3>2 DEF Ahead
  <2>5. ModeInv' /\ WakeInv'
    <3>1. ModeInv'
      BY <1>1, <1>4, <1>5, <2>2 DEF RingInv, ModeInv, Before
    <3>2. signals' > 0
      BY <1>4, <2>1
    <3> QED  BY <3>1, <3>2 DEF WakeInv
  <2>6. QueueInv'
    <3>1. signals' <= Cardinality(Awaited)'
      <4>1. Cardinality(Awaited)' = Cardinality(Awaited) + 1
        BY <1>1, <2>1, AwaitedOne
      <4>2. signals <= Cardinality(Awaited)
        BY DEF RingInv, QueueInv
      <4> QED  BY <1>3, <1>4, <2>1, <4>1, <4>2
    <3>2. \A k \in 1..Len(queue') : fate'[queue'[k]] = "queued"
      <4> SUFFICES ASSUME NEW k \in 1..Len(queue') PROVE fate'[queue'[k]] = "queued"
        OBVIOUS
      <4>1. CASE k \in 1..Len(queue)
        BY <1>2, <1>4, <2>2, <4>1 DEF RingInv, QueueInv
      <4>2. CASE k = Len(queue) + 1
        BY <2>1, <2>2, <4>2 DEF SetFate
      <4> QED  BY <1>4, <2>2, <4>1, <4>2
    <3>3. Len(queue') <= Capacity
      BY <1>4, <1>5, <2>2, Constants
    <3> QED  BY <3>1, <3>2, <3>3 DEF QueueInv
  <2>7. o \notin Elems(accepted)
    BY <1>1, <1>4, ElemsAre DEF RingInv, AcceptInv
  <2>8. AcceptInv'
    <3>1. \A j, k \in 1..Len(accepted') : accepted'[j] = accepted'[k] => j = k
      <4>1. \A j \in 1..Len(accepted) : accepted[j] # o
        BY <1>4, <2>7 DEF Elems
      <4>2. \A j \in 1..Len(accepted') : j \in 1..Len(accepted) \/ j = Len(accepted) + 1
        BY <1>4, <2>2
      <4> QED  BY <2>2, <4>1, <4>2 DEF RingInv, AcceptInv
    <3>2. \A k \in 1..Len(accepted') : fate'[accepted'[k]] # "new"
      <4> SUFFICES ASSUME NEW k \in 1..Len(accepted') PROVE fate'[accepted'[k]] # "new"
        OBVIOUS
      <4>1. CASE k \in 1..Len(accepted)
        BY <1>2, <1>4, <2>2, <4>1 DEF RingInv, AcceptInv
      <4>2. CASE k = Len(accepted) + 1
        BY <2>1, <2>2, <4>2 DEF SetFate
      <4> QED  BY <1>4, <2>2, <4>1, <4>2
    <3>3. Elems(queue') = Elems(queue) \cup {o} /\ Elems(accepted') = Elems(accepted) \cup {o}
      BY <1>4, <2>1, ElemsAre
    <3>4. Elems(queue') \cup Elems(iov') \cup Elems(executed') \subseteq Elems(accepted')
      BY <1>1, <3>3 DEF RingInv, AcceptInv
    <3> QED  BY <3>1, <3>2, <3>4 DEF AcceptInv
  <2>9. \A k \in 1..Len(queue') : k \in 1..Len(queue) \/ (k = Len(queue) + 1 /\ queue'[k] = o)
    BY <1>4, <2>2
  <2>10. /\ \A j \in 1..Len(iov) : iov[j] \in Elems(accepted)
         /\ \A j \in 1..Len(executed) : executed[j] \in Elems(accepted)
         /\ \A j \in 1..Len(queue) : queue[j] \in Elems(accepted)
    <3>1. iov \in Seq(Ops) /\ executed \in Seq(Ops)
      BY <1>1 DEF TypeOK
    <3>2. /\ \A j \in 1..Len(iov) : iov[j] \in Elems(iov)
          /\ \A j \in 1..Len(executed) : executed[j] \in Elems(executed)
          /\ \A j \in 1..Len(queue) : queue[j] \in Elems(queue)
      BY <1>4, <3>1, ElemsAre
    <3> QED  BY <3>2 DEF RingInv, AcceptInv
  <2>11. SentInv'
    <3>1. /\ \A j, k \in 1..Len(executed) : j < k => Ahead(executed[j], executed[k])'
          /\ \A j \in 1..Len(executed), k \in 1..Len(iov) : Ahead(executed[j], iov[k])'
      BY <1>1, <2>3 DEF RingInv, SentInv
    <3>2. \A j \in 1..Len(executed), k \in 1..Len(queue') :
            committed < k => Ahead(executed[j], queue[k])' 
      <4> SUFFICES ASSUME NEW j \in 1..Len(executed), NEW k \in 1..Len(queue'), committed < k
                   PROVE  Ahead(executed[j], queue[k])'
        OBVIOUS
      <4>1. executed'[j] = executed[j]
        BY <1>1
      <4>2. CASE k \in 1..Len(queue)
        <5>1. Ahead(executed[j], queue[k])
          BY <4>2 DEF RingInv, SentInv
        <5> QED  BY <2>2, <2>3, <4>1, <4>2, <5>1
      <4>3. CASE k = Len(queue) + 1 /\ queue'[k] = o
        BY <2>4, <2>10, <4>1, <4>3
      <4> QED  BY <2>9, <4>2, <4>3
    <3> QED  BY <1>1, <3>1, <3>2 DEF SentInv
  <2>12. WaitInv'
    <3>1. \A j, k \in 1..Len(iov) : j < k => Ahead(iov[j], iov[k])'
      BY <1>1, <2>3 DEF RingInv, WaitInv
    <3>2. \A j \in 1..Len(iov), k \in 1..Len(queue') :
            committed < k => Ahead(iov[j], queue[k])'
      <4> SUFFICES ASSUME NEW j \in 1..Len(iov), NEW k \in 1..Len(queue'), committed < k
                   PROVE  Ahead(iov[j], queue[k])'
        OBVIOUS
      <4>1. iov'[j] = iov[j]
        BY <1>1
      <4>2. CASE k \in 1..Len(queue)
        <5>1. Ahead(iov[j], queue[k])
          BY <4>2 DEF RingInv, WaitInv
        <5> QED  BY <2>2, <2>3, <4>1, <4>2, <5>1
      <4>3. CASE k = Len(queue) + 1 /\ queue'[k] = o
        BY <2>4, <2>10, <4>1, <4>3
      <4> QED  BY <2>9, <4>2, <4>3
    <3>3. \A j, k \in 1..Len(queue') : j < k => Ahead(queue[j], queue[k])'
      <4> SUFFICES ASSUME NEW j \in 1..Len(queue'), NEW k \in 1..Len(queue'), j < k
                   PROVE  Ahead(queue[j], queue[k])'
        OBVIOUS
      <4>1. j \in 1..Len(queue) /\ queue'[j] = queue[j]
        BY <1>4, <2>2
      <4>2. CASE k \in 1..Len(queue)
        <5>1. Ahead(queue[j], queue[k])
          BY <4>1, <4>2 DEF RingInv, WaitInv
        <5> QED  BY <2>2, <2>3, <4>1, <4>2, <5>1
      <4>3. CASE k = Len(queue) + 1 /\ queue'[k] = o
        BY <2>4, <2>10, <4>1, <4>3
      <4> QED  BY <2>9, <4>2, <4>3
    <3> QED  BY <1>1, <3>1, <3>2, <3>3 DEF WaitInv
  <2>13. DownInv'
    <3>1. Elems(queue') = Elems(queue) \cup {o}
      BY <1>4, <2>1, ElemsAre
    <3> QED  BY <1>1, <2>1, <3>1 DEF RingInv, DownInv, Before
  <2> QED  BY <2>5, <2>6, <2>8, <2>11, <2>12, <2>13
<1>6. CASE ~(open /\ Len(queue) < Capacity)
  <2>1. UNCHANGED <<queue, signals, accepted, down>>
    BY <1>4, <1>6, Constants DEF Await
  <2>2. ModeInv' /\ WakeInv' /\ DownInv'
    BY <1>1, <2>1 DEF RingInv, ModeInv, WakeInv, DownInv, Before, Elems
  <2>3. \A k \in 1..Len(queue) : queue[k] \in Ops /\ fate[queue[k]] # "new"
    BY <1>4 DEF RingInv, QueueInv
  <2>4. signals <= Cardinality(Awaited)'
    BY <1>3, <1>4 DEF RingInv, QueueInv
  <2>5. QueueInv'
    BY <1>2, <2>1, <2>3, <2>4 DEF RingInv, QueueInv
  <2>6. AcceptInv'
    <3>1. \A k \in 1..Len(accepted) : accepted[k] \in Ops
      BY <1>4
    <3>2. /\ Elems(queue') = Elems(queue) /\ Elems(iov') = Elems(iov)
          /\ Elems(executed') = Elems(executed) /\ Elems(accepted') = Elems(accepted)
      BY <1>1, <2>1
    <3> QED  BY <1>1, <1>2, <2>1, <3>1, <3>2 DEF RingInv, AcceptInv
  <2>7. SentInv' /\ WaitInv'
    BY <1>1, <2>1, OrderSame DEF RingInv
  <2> QED  BY <2>2, <2>5, <2>6, <2>7
<1> QED  BY <1>5, <1>6


\* Commands leave the ring, oldest first, and their coroutines are resumed;
\* the writer keeps its place in the ring.
LEMMA QueueLeft ==
  ASSUME RingInv, NEW n \in 0..Len(queue), queue' = Drop(queue, n), committed' \in Nat,
         \A k \in Nat : committed' < k => committed < n + k,
         UNCHANGED <<signals, iov, executed, accepted>>,
         \A o \in Ops : IF \E j \in 1..n : queue[j] = o THEN fate'[o] # "new"
                        ELSE fate'[o] = fate[o]
  PROVE  /\ QueueInv' /\ AcceptInv' /\ SentInv' /\ WaitInv'
         /\ Len(queue') = Len(queue) - n /\ Elems(queue') \subseteq Elems(queue)
<1>1. /\ queue \in Seq(Ops) /\ iov \in Seq(Ops) /\ executed \in Seq(Ops)
      /\ accepted \in Seq(Ops) /\ Len(queue) \in Nat /\ n \in Nat /\ committed \in Nat
      /\ Len(iov) \in Nat /\ Len(executed) \in Nat /\ signals \in Nat
  BY Constants DEF RingInv, TypeOK
<1>2. /\ queue' \in Seq(Ops) /\ Len(queue') = Len(queue) - n
      /\ \A k \in 1..Len(queue') : queue'[k] = queue[n + k]
  <2>1. n \in 0..Len(queue) /\ Len(queue) \in n..Len(queue)
    BY <1>1
  <2> QED  BY <1>1, <2>1, SubSeqType DEF Drop
<1>3. \A k \in 1..Len(queue') : n + k \in 1..Len(queue) /\ n + k > n
  BY <1>1, <1>2
<1>4. \A o \in Ops : fate[o] # "new" => fate'[o] # "new"
  OBVIOUS
<1>5. \A j, k \in 1..Len(queue) : queue[j] = queue[k] => j = k
  BY QueueOnce DEF RingInv
<1>6. Elems(queue') \subseteq Elems(queue)
  <2>1. /\ Elems(queue) = {queue[k] : k \in 1..Len(queue)}
        /\ Elems(queue') = {queue'[k] : k \in 1..Len(queue')}
    BY <1>1, <1>2, ElemsAre
  <2> QED  BY <1>2, <1>3, <2>1
<1>7. QueueInv'
  <2>1. signals' <= Cardinality(Awaited)'
    <3>1. /\ Cardinality(Awaited) \in 0..Cardinality(Ops)
          /\ Cardinality(Awaited)' \in 0..Cardinality(Ops)
          /\ Cardinality(Awaited) <= Cardinality(Awaited)'
      BY <1>4, AwaitedGrows DEF RingInv
    <3>2. signals <= Cardinality(Awaited)
      BY DEF RingInv, QueueInv
    <3> DEFINE a == Cardinality(Awaited)
               b == Cardinality(Awaited)'
    <3>3. a \in Nat /\ b \in Nat /\ a <= b /\ signals <= a
      BY <3>1, <3>2, Constants
    <3> HIDE DEF a, b
    <3>4. signals' <= b
      BY <1>1, <3>3
    <3> QED  BY <3>4 DEF b
  <2>2. \A k \in 1..Len(queue') : fate'[queue'[k]] = "queued"
    <3> SUFFICES ASSUME NEW k \in 1..Len(queue') PROVE fate'[queue'[k]] = "queued"
      OBVIOUS
    <3>1. queue'[k] = queue[n + k] /\ n + k \in 1..Len(queue) /\ n + k > n
      BY <1>2, <1>3
    <3>2. fate[queue[n + k]] = "queued" /\ queue[n + k] \in Ops
      BY <1>1, <3>1 DEF RingInv, QueueInv
    <3>3. ~ \E j \in 1..n : queue[j] = queue[n + k]
      <4> SUFFICES ASSUME NEW j \in 1..n, queue[j] = queue[n + k] PROVE FALSE
        OBVIOUS
      <4>1. j \in 1..Len(queue)
        BY <1>1
      <4>2. j = n + k
        BY <1>5, <3>1, <4>1
      <4> QED  BY <1>1, <3>1, <4>2
    <3> QED  BY <3>1, <3>2, <3>3
  <2>3. Len(queue') <= Capacity
    BY <1>1, <1>2, Constants DEF RingInv, QueueInv
  <2> QED  BY <2>1, <2>2, <2>3 DEF QueueInv
<1>8. AcceptInv'
  <2>1. /\ Elems(iov') = Elems(iov)
        /\ Elems(executed') = Elems(executed) /\ Elems(accepted') = Elems(accepted)
    OBVIOUS
  <2>2. \A k \in 1..Len(accepted) : accepted[k] \in Ops
    BY <1>1
  <2> QED  BY <1>4, <1>6, <2>1, <2>2 DEF RingInv, AcceptInv
<1>9. \A x, y : Ahead(x, y) => Ahead(x, y)'
  BY DEF Ahead
<1>10. SentInv'
  <2>1. \A j \in 1..Len(executed), k \in 1..Len(queue') :
          committed' < k => Ahead(executed[j], queue'[k])
    BY <1>2, <1>3 DEF RingInv, SentInv
  <2> QED  BY <1>9, <2>1 DEF RingInv, SentInv
<1>11. WaitInv'
  <2>1. \A j \in 1..Len(iov), k \in 1..Len(queue') :
          committed' < k => Ahead(iov[j], queue'[k])
    BY <1>2, <1>3 DEF RingInv, WaitInv
  <2>2. \A j, k \in 1..Len(queue') : j < k => Ahead(queue'[j], queue'[k])
    <3> SUFFICES ASSUME NEW j \in 1..Len(queue'), NEW k \in 1..Len(queue'), j < k
                 PROVE  Ahead(queue'[j], queue'[k])
      OBVIOUS
    <3>1. n + j < n + k /\ n + j \in 1..Len(queue) /\ n + k \in 1..Len(queue)
      BY <1>1, <1>3
    <3> QED  BY <1>2, <3>1 DEF RingInv, WaitInv
  <2> QED  BY <1>9, <2>1, <2>2 DEF RingInv, WaitInv
<1> QED  BY <1>2, <1>6, <1>7, <1>8, <1>10, <1>11

\* What a writev sent, and what is next: the rest of the batch, or the next.
LEMMA SendRing ==
  ASSUME RingInv, WriterSends
  PROVE  /\ ModeInv' /\ QueueInv' /\ AcceptInv' /\ SentInv' /\ WaitInv' /\ WakeInv'
         /\ DownInv'
<1> USE DEF eventfd, control
<1>1. PICK n \in 1..Len(iov) :
       /\ executed' = IF up THEN executed \o Take(iov, n) ELSE executed
       /\ IF n = Len(iov)
          THEN CommitNext
          ELSE /\ iov' = Drop(iov, n)
               /\ wpc' = IF rpc = "done" \/ fd = "closed"
                         THEN "done" ELSE "writev"
               /\ UNCHANGED committed
  BY DEF WriterSends
<1>2. /\ worker = "run" /\ worker' = "run" /\ wpc = "writev" /\ rpc' = rpc
      /\ UNCHANGED <<fate, queue, open, signals, event, accepted, down>>
  BY DEF WriterSends
<1>3. /\ queue \in Seq(Ops) /\ iov \in Seq(Ops) /\ executed \in Seq(Ops)
      /\ Len(queue) \in Nat /\ n \in Nat /\ n <= Len(iov) /\ committed \in Nat
      /\ Len(iov) \in Nat /\ Len(executed) \in Nat
      /\ committed <= Len(queue) /\ rpc # "off"
  BY <1>2, Constants DEF RingInv, TypeOK, ModeInv
<1>4. /\ iov' \in Seq(Ops) /\ committed' \in committed..Len(queue)
      /\ \A k \in 1..Len(iov') :
           \/ n + k \in 1..Len(iov) /\ iov'[k] = iov[n + k] /\ committed' = committed
           \/ committed + k \in 1..committed' /\ iov'[k] = queue[committed + k]
                /\ n = Len(iov)
      /\ wpc' \in {"event", "writev", "done"}
      /\ wpc' = "event" => committed' = Len(queue) /\ iov' = <<>>
  <2>1. CASE n = Len(iov)
    <3>1. CommitNext
      BY <1>1, <2>1
    <3>2. /\ committed' \in committed..Len(queue)
          /\ iov' \in Seq(Ops) /\ Len(iov') = committed' - committed
          /\ \A k \in 1..Len(iov') : iov'[k] = queue[committed + k]
          /\ wpc' \in {"event", "writev", "done"}
          /\ wpc' = "event" => committed = Len(queue) /\ committed' = committed
      BY <1>3, <3>1, NextBatch DEF RingInv
    <3>3. \A k \in 1..Len(iov') : committed + k \in 1..committed'
      <4> SUFFICES ASSUME NEW k \in 1..Len(iov') PROVE committed + k \in 1..committed'
        OBVIOUS
      <4> DEFINE a == committed
                 b == committed'
                 l == Len(iov')
      <4>1. a \in Nat /\ b \in a..Len(queue) /\ Len(queue) \in Nat /\ l = b - a
            /\ k \in 1..l
        BY <1>3, <3>2
      <4> HIDE DEF a, b, l
      <4>2. a + k \in 1..b
        BY <4>1
      <4> QED  BY <4>2 DEF a, b
    <3>4. wpc' = "event" => iov' = <<>>
      BY <1>3, <3>2
    <3> QED  BY <2>1, <3>2, <3>3, <3>4
  <2>2. CASE n # Len(iov)
    <3>1. iov' = SubSeq(iov, n + 1, Len(iov)) /\ committed' = committed
          /\ wpc' \in {"writev", "done"}
      BY <1>1, <2>2 DEF Drop
    <3>2. /\ iov' \in Seq(Ops) /\ Len(iov') = Len(iov) - n
          /\ \A k \in 1..(Len(iov) - n) : iov'[k] = iov[n + k]
      <4>1. n \in 0..Len(iov) /\ Len(iov) \in n..Len(iov)
        BY <1>3
      <4> QED  BY <1>3, <3>1, <4>1, SubSeqType
    <3>3. \A k \in 1..Len(iov') : n + k \in 1..Len(iov)
      BY <1>3, <3>2
    <3>4. committed' \in committed..Len(queue)
      BY <1>3, <3>1
    <3> QED  BY <3>1, <3>2, <3>3, <3>4
  <2> QED  BY <2>1, <2>2
<1>5. /\ executed' \in Seq(Ops)
      /\ \A j \in 1..Len(executed') :
           \/ j \in 1..Len(executed) /\ executed'[j] = executed[j]
           \/ \E i \in 1..n : j = Len(executed) + i /\ executed'[j] = iov[i]
  <2>1. CASE ~up
    BY <1>1, <1>3, <2>1
  <2>2. CASE up
    <3> DEFINE part == Take(iov, n)
    <3>1. /\ part \in Seq(Ops) /\ Len(part) = n
          /\ \A i \in 1..n : part[i] = iov[i]
      BY <1>3 DEF Take
    <3> HIDE DEF part
    <3>2. executed' = executed \o part
      BY <1>1, <2>2 DEF part
    <3>3. /\ executed' \in Seq(Ops) /\ Len(executed') = Len(executed) + n
          /\ \A j \in 1..Len(executed) : executed'[j] = executed[j]
          /\ \A i \in 1..n : executed'[Len(executed) + i] = part[i]
      <4>1. /\ executed \o part \in Seq(Ops) /\ Len(executed \o part) = Len(executed) + n
            /\ \A j \in 1..Len(executed) : (executed \o part)[j] = executed[j]
            /\ \A i \in 1..n : (executed \o part)[Len(executed) + i] = part[i]
        <5>1. executed \in Seq(Ops) /\ part \in Seq(Ops)
          BY <1>3, <3>1
        <5>2. /\ executed \o part \in Seq(Ops)
              /\ Len(executed \o part) = Len(executed) + Len(part)
              /\ \A j \in 1..Len(executed) : (executed \o part)[j] = executed[j]
              /\ \A i \in 1..Len(part) : (executed \o part)[Len(executed) + i] = part[i]
          BY ONLY <5>1, ConcatParts
        <5> QED  BY <3>1, <5>2
      <4> QED  BY <3>2, <4>1
    <3> SUFFICES ASSUME NEW j \in 1..Len(executed'), ~(j \in 1..Len(executed))
                 PROVE  \E i \in 1..n : j = Len(executed) + i /\ executed'[j] = iov[i]
      BY <3>3
    <3>4. j - Len(executed) \in 1..n /\ Len(executed) + (j - Len(executed)) = j
      BY <1>3, <3>3
    <3> QED  BY <3>1, <3>3, <3>4
  <2> QED  BY <2>1, <2>2
<1>6. \A x, y : Ahead(x, y) => Ahead(x, y)'
  BY <1>2 DEF Ahead
<1>7. SentInv'
  <2>1. \A j, k \in 1..Len(executed') : j < k => Ahead(executed'[j], executed'[k])
    <3> SUFFICES ASSUME NEW j \in 1..Len(executed'), NEW k \in 1..Len(executed'), j < k
                 PROVE  Ahead(executed'[j], executed'[k])
      OBVIOUS
    <3>1. CASE k \in 1..Len(executed) /\ executed'[k] = executed[k]
      <4>1. j \in 1..Len(executed)
        BY <1>3, <3>1
      <4>2. executed'[j] = executed[j]
        BY <1>3, <1>5, <4>1
      <4> QED  BY <3>1, <4>1, <4>2 DEF RingInv, SentInv
    <3>2. ASSUME NEW i \in 1..n, k = Len(executed) + i, executed'[k] = iov[i]
          PROVE  Ahead(executed'[j], executed'[k])
      <4>1. i \in 1..Len(iov)
        BY <1>3
      <4>2. CASE j \in 1..Len(executed) /\ executed'[j] = executed[j]
        BY <3>2, <4>1, <4>2 DEF RingInv, SentInv
      <4>3. ASSUME NEW l \in 1..n, j = Len(executed) + l, executed'[j] = iov[l]
            PROVE  Ahead(executed'[j], executed'[k])
        <5>1. l < i /\ l \in 1..Len(iov)
          BY <1>3, <3>2, <4>3
        <5> QED  BY <3>2, <4>1, <4>3, <5>1 DEF RingInv, WaitInv
      <4> QED  BY <1>5, <4>2, <4>3
    <3> QED  BY <1>5, <3>1, <3>2
  <2>2. \A j \in 1..Len(executed'), k \in 1..Len(iov') : Ahead(executed'[j], iov'[k])
    <3> SUFFICES ASSUME NEW j \in 1..Len(executed'), NEW k \in 1..Len(iov')
                 PROVE  Ahead(executed'[j], iov'[k])
      OBVIOUS
    <3>1. CASE n + k \in 1..Len(iov) /\ iov'[k] = iov[n + k]
      <4>1. ASSUME NEW i \in 1..n, executed'[j] = iov[i]
            PROVE  Ahead(executed'[j], iov'[k])
        <5>1. i < n + k /\ i \in 1..Len(iov)
          BY <1>3
        <5> QED  BY <3>1, <4>1, <5>1 DEF RingInv, WaitInv
      <4>2. CASE j \in 1..Len(executed) /\ executed'[j] = executed[j]
        BY <3>1, <4>2 DEF RingInv, SentInv
      <4> QED  BY <1>5, <4>1, <4>2
    <3>2. CASE committed + k \in 1..committed' /\ iov'[k] = queue[committed + k]
      <4>1. committed < committed + k /\ committed + k \in 1..Len(queue)
        BY <1>3, <1>4, <3>2
      <4>2. ASSUME NEW i \in 1..n, executed'[j] = iov[i]
            PROVE  Ahead(executed'[j], iov'[k])
        <5>1. i \in 1..Len(iov)
          BY <1>3
        <5> QED  BY <3>2, <4>1, <4>2, <5>1 DEF RingInv, WaitInv
      <4>3. CASE j \in 1..Len(executed) /\ executed'[j] = executed[j]
        BY <3>2, <4>1, <4>3 DEF RingInv, SentInv
      <4> QED  BY <1>5, <4>2, <4>3
    <3> QED  BY <1>4, <3>1, <3>2
  <2>3. \A j \in 1..Len(executed'), k \in 1..Len(queue) :
          committed' < k => Ahead(executed'[j], queue[k])
    <3> SUFFICES ASSUME NEW j \in 1..Len(executed'), NEW k \in 1..Len(queue), committed' < k
                 PROVE  Ahead(executed'[j], queue[k])
      OBVIOUS
    <3>1. committed < k
      BY <1>3, <1>4
    <3>2. ASSUME NEW i \in 1..n, executed'[j] = iov[i]
          PROVE  Ahead(executed'[j], queue[k])
      <4>1. i \in 1..Len(iov)
        BY <1>3
      <4> QED  BY <3>1, <3>2, <4>1 DEF RingInv, WaitInv
    <3>3. CASE j \in 1..Len(executed) /\ executed'[j] = executed[j]
      BY <3>1, <3>3 DEF RingInv, SentInv
    <3> QED  BY <1>5, <3>2, <3>3
  <2> QED  BY <1>2, <1>6, <2>1, <2>2, <2>3 DEF SentInv
<1>8. WaitInv'
  <2>1. \A j, k \in 1..Len(iov') : j < k => Ahead(iov'[j], iov'[k])
    <3> SUFFICES ASSUME NEW j \in 1..Len(iov'), NEW k \in 1..Len(iov'), j < k
                 PROVE  Ahead(iov'[j], iov'[k])
      OBVIOUS
    <3>1. CASE n = Len(iov)
      <4>1. \A l \in 1..Len(iov') : committed + l \in 1..Len(queue)
                                    /\ iov'[l] = queue[committed + l]
        BY <1>3, <1>4, <3>1
      <4>2. committed + j < committed + k
        BY <1>3
      <4> QED  BY <4>1, <4>2 DEF RingInv, WaitInv
    <3>2. CASE n # Len(iov)
      <4>1. \A l \in 1..Len(iov') : n + l \in 1..Len(iov) /\ iov'[l] = iov[n + l]
        BY <1>4, <3>2
      <4>2. n + j < n + k
        BY <1>3
      <4> QED  BY <4>1, <4>2 DEF RingInv, WaitInv
    <3> QED  BY <3>1, <3>2
  <2>2. \A j \in 1..Len(iov'), k \in 1..Len(queue) :
          committed' < k => Ahead(iov'[j], queue[k])
    <3> SUFFICES ASSUME NEW j \in 1..Len(iov'), NEW k \in 1..Len(queue), committed' < k
                 PROVE  Ahead(iov'[j], queue[k])
      OBVIOUS
    <3>1. committed < k
      BY <1>3, <1>4
    <3>2. CASE n + j \in 1..Len(iov) /\ iov'[j] = iov[n + j]
      BY <3>1, <3>2 DEF RingInv, WaitInv
    <3>3. CASE committed + j \in 1..committed' /\ iov'[j] = queue[committed + j]
      <4>1. committed + j < k /\ committed + j \in 1..Len(queue)
        BY <1>3, <1>4, <3>3
      <4> QED  BY <3>3, <4>1 DEF RingInv, WaitInv
    <3> QED  BY <1>4, <3>2, <3>3
  <2> QED  BY <1>2, <1>6, <2>1, <2>2 DEF RingInv, WaitInv
<1>9. AcceptInv'
  <2>1. /\ \A j \in 1..Len(executed) : executed[j] \in Elems(accepted)
        /\ \A j \in 1..Len(iov) : iov[j] \in Elems(accepted)
        /\ \A j \in 1..Len(queue) : queue[j] \in Elems(accepted)
    <3>1. /\ \A j \in 1..Len(iov) : iov[j] \in Elems(iov)
          /\ \A j \in 1..Len(executed) : executed[j] \in Elems(executed)
          /\ \A j \in 1..Len(queue) : queue[j] \in Elems(queue)
      BY <1>3, ElemsAre
    <3> QED  BY <3>1 DEF RingInv, AcceptInv
  <2>2. \A j \in 1..Len(iov') : iov'[j] \in Elems(accepted)
    <3>1. \A k \in 1..committed' : k \in 1..Len(queue)
      BY <1>3, <1>4
    <3> QED  BY <1>4, <2>1, <3>1
  <2>3. \A j \in 1..Len(executed') : executed'[j] \in Elems(accepted)
    <3>1. \A i \in 1..n : i \in 1..Len(iov)
      BY <1>3
    <3> QED  BY <1>5, <2>1, <3>1
  <2>4. Elems(iov') \subseteq Elems(accepted) /\ Elems(executed') \subseteq Elems(accepted)
    BY <1>4, <1>5, <2>2, <2>3, ElemsAre
  <2>5. Elems(accepted') = Elems(accepted) /\ Elems(queue') = Elems(queue)
    BY <1>2
  <2> QED  BY <1>2, <2>4, <2>5 DEF RingInv, AcceptInv
<1>10. QueueInv' /\ DownInv'
  BY <1>2 DEF RingInv, QueueInv, Awaited, DownInv, Before
<1>11. ModeInv'
  <2>1. committed' <= Len(queue')
    BY <1>2, <1>3, <1>4
  <2> QED  BY <1>2, <1>3, <1>4, <2>1 DEF ModeInv, Before
<1>12. WakeInv'
  <2>1. wpc' = "event" => ~(committed' < Len(queue'))
    BY <1>2, <1>3, <1>4
  <2> QED  BY <1>4, <2>1 DEF WakeInv
<1> QED  BY <1>7, <1>8, <1>9, <1>10, <1>11, <1>12


LEMMA WakesRing ==
  ASSUME RingInv, WriterWakes
  PROVE  /\ ModeInv' /\ QueueInv' /\ AcceptInv' /\ SentInv' /\ WaitInv' /\ WakeInv'
         /\ DownInv'
<1> USE DEF control, history
<1>1. /\ worker = "run" /\ worker' = "run" /\ wpc = "event" /\ rpc' = rpc /\ rpc # "off"
      /\ UNCHANGED <<fate, queue, open, signals, accepted, executed, down>>
      /\ iov = <<>>
  BY DEF WriterWakes, RingInv, ModeInv
<1>2. /\ queue \in Seq(Ops) /\ executed \in Seq(Ops) /\ Len(queue) \in Nat
      /\ committed \in Nat /\ committed <= Len(queue)
  BY <1>1, Constants DEF RingInv, TypeOK, ModeInv
<1>3. CommitNext
  BY DEF WriterWakes
<1>4. /\ committed' \in committed..Len(queue)
      /\ iov' \in Seq(Ops) /\ Len(iov') = committed' - committed
      /\ \A k \in 1..Len(iov') : iov'[k] = queue[committed + k]
      /\ wpc' \in {"event", "writev", "done"}
      /\ wpc' = "event" => committed = Len(queue) /\ committed' = committed
  BY <1>2, <1>3, NextBatch DEF RingInv
<1>5. \A k \in 1..Len(iov') :
        /\ committed + k \in 1..Len(queue) /\ committed < committed + k
        /\ iov'[k] = queue[committed + k]
        /\ \A l \in 1..Len(queue) : committed' < l => committed + k < l
  <2> SUFFICES ASSUME NEW k \in 1..Len(iov')
               PROVE  /\ committed + k \in 1..Len(queue) /\ committed < committed + k
                      /\ \A l \in 1..Len(queue) : committed' < l => committed + k < l
    BY <1>4
  <2> DEFINE a == committed
             b == committed'
             m == Len(iov')
             q == Len(queue)
  <2>1. a \in Nat /\ q \in Nat /\ b \in a..q /\ m = b - a /\ k \in 1..m
    BY <1>2, <1>4
  <2> HIDE DEF a, b, m, q
  <2>2. a + k \in 1..q /\ a < a + k /\ \A l \in 1..q : b < l => a + k < l
    BY <2>1
  <2> QED  BY <2>2 DEF a, b, q
<1>6. \A x, y : Ahead(x, y) => Ahead(x, y)'
  BY <1>1 DEF Ahead
<1>7. \A l \in 1..Len(queue) : committed' < l => committed < l
  BY <1>2, <1>4
<1>8. SentInv'
  <2>1. \A j \in 1..Len(executed), k \in 1..Len(iov') : Ahead(executed[j], iov'[k])
    BY <1>5 DEF RingInv, SentInv
  <2>2. \A j \in 1..Len(executed), k \in 1..Len(queue) :
          committed' < k => Ahead(executed[j], queue[k])
    BY <1>7 DEF RingInv, SentInv
  <2> QED  BY <1>1, <1>6, <2>1, <2>2 DEF RingInv, SentInv
<1>9. WaitInv'
  <2>1. \A j, k \in 1..Len(iov') : j < k => Ahead(iov'[j], iov'[k])
    <3> SUFFICES ASSUME NEW j \in 1..Len(iov'), NEW k \in 1..Len(iov'), j < k
                 PROVE  Ahead(iov'[j], iov'[k])
      OBVIOUS
    <3>1. committed + j < committed + k
      BY <1>2
    <3> QED  BY <1>5, <3>1 DEF RingInv, WaitInv
  <2>2. \A j \in 1..Len(iov'), k \in 1..Len(queue) :
          committed' < k => Ahead(iov'[j], queue[k])
    BY <1>5 DEF RingInv, WaitInv
  <2> QED  BY <1>1, <1>6, <2>1, <2>2 DEF RingInv, WaitInv
<1>10. AcceptInv'
  <2>1. Elems(iov') \subseteq Elems(queue)
    <3>1. /\ Elems(iov') = {iov'[k] : k \in 1..Len(iov')}
          /\ Elems(queue) = {queue[k] : k \in 1..Len(queue)}
      <4>1. iov' \in Seq(Ops) /\ queue \in Seq(Ops)
        BY <1>2, <1>4
      <4> QED  BY ONLY <4>1, ElemsAre
    <3> QED  BY <1>5, <3>1
  <2>2. /\ Elems(accepted') = Elems(accepted) /\ Elems(queue') = Elems(queue)
        /\ Elems(executed') = Elems(executed)
    BY <1>1
  <2> QED  BY <1>1, <2>1, <2>2 DEF RingInv, AcceptInv
<1>11. QueueInv' /\ DownInv'
  BY <1>1 DEF RingInv, QueueInv, Awaited, DownInv, Before
<1>12. wpc' = "event" => iov' = <<>> /\ ~(committed' < Len(queue'))
  BY <1>1, <1>2, <1>4
<1>13. ModeInv'
  <2>1. committed' <= Len(queue')
    BY <1>1, <1>2, <1>4
  <2> QED  BY <1>1, <1>4, <1>12, <2>1 DEF ModeInv, Before
<1>14. WakeInv'
  BY <1>4, <1>12 DEF WakeInv
<1> QED  BY <1>8, <1>9, <1>10, <1>11, <1>13, <1>14

\* The two ways in which commands leave the ring: their frames arrived, or the
\* drain resumes one.
LEMMA PoppedRing ==
  ASSUME RingInv, NEW n \in Nat, Popped(n), worker = "run",
         UNCHANGED <<open, signals, event, wpc, iov, executed, accepted, down>>
  PROVE  /\ ModeInv' /\ QueueInv' /\ AcceptInv' /\ SentInv' /\ WaitInv' /\ WakeInv'
         /\ DownInv'
<1>1. /\ queue \in Seq(Ops) /\ Len(queue) \in Nat /\ committed \in Nat
      /\ committed <= Len(queue) /\ n \in 0..Len(queue) /\ wpc # "off"
  BY Constants DEF RingInv, TypeOK, ModeInv, Popped
<1>2. /\ queue' = Drop(queue, n) /\ worker' = "run" /\ rpc' \in {"parse", "done"}
      /\ committed' = IF n < committed THEN committed - n ELSE 0
      /\ \A o \in Ops : IF \E j \in 1..n : queue[j] = o THEN fate'[o] # "new"
                        ELSE fate'[o] = fate[o]
  BY DEF Popped
<1>3. committed' \in Nat /\ \A k \in Nat : committed' < k => committed < n + k
  BY <1>1, <1>2
<1>4. /\ QueueInv' /\ AcceptInv' /\ SentInv' /\ WaitInv'
      /\ Len(queue') = Len(queue) - n
  BY <1>1, <1>2, <1>3, QueueLeft
<1>5. ModeInv'
  <2>1. committed' <= Len(queue')
    BY <1>1, <1>2, <1>4
  <2> QED  BY <1>1, <1>2, <2>1 DEF ModeInv, Before, RingInv
<1>6. WakeInv'
  <2>1. committed' < Len(queue') => committed < Len(queue)
    BY <1>1, <1>2, <1>4
  <2> QED  BY <1>2, <2>1 DEF WakeInv, RingInv
<1>7. DownInv'
  BY <1>2 DEF DownInv, Before
<1> QED  BY <1>4, <1>5, <1>6, <1>7

LEMMA DrainRing ==
  ASSUME RingInv, DrainResumes
  PROVE  /\ ModeInv' /\ QueueInv' /\ AcceptInv' /\ SentInv' /\ WaitInv' /\ WakeInv'
         /\ DownInv'
<1> USE DEF eventfd, writer, control, history
<1>1. /\ queue \in Seq(Ops) /\ Len(queue) \in Nat /\ committed \in Nat /\ queue # <<>>
      /\ worker \in {"drain", "last_drain"} /\ worker' = worker
      /\ UNCHANGED <<committed, open, signals, event, wpc, iov, rpc, executed, accepted, down>>
  BY Constants DEF RingInv, TypeOK, DrainResumes
<1>2. 1 \in 0..Len(queue) /\ Head(queue) = queue[1] /\ Tail(queue) = Drop(queue, 1)
  BY <1>1 DEF Drop
<1>3. queue' = Drop(queue, 1) /\ SetFate({queue[1]}, "conn_err")
  BY <1>2 DEF DrainResumes
<1>4. \A o \in Ops : IF \E j \in 1..1 : queue[j] = o THEN fate'[o] # "new"
                     ELSE fate'[o] = fate[o]
  BY <1>3 DEF SetFate
<1>5. committed' \in Nat /\ \A k \in Nat : committed' < k => committed < 1 + k
  BY <1>1
<1>6. QueueInv' /\ AcceptInv' /\ SentInv' /\ WaitInv'
  BY <1>1, <1>2, <1>3, <1>4, <1>5, QueueLeft
<1>7. ModeInv' /\ WakeInv' /\ DownInv'
  BY <1>1 DEF RingInv, ModeInv, WakeInv, DownInv, Before
<1> QED  BY <1>6, <1>7

LEMMA ConnectRing ==
  ASSUME RingInv, ConnectSpot
  PROVE  /\ ModeInv' /\ QueueInv' /\ AcceptInv' /\ SentInv' /\ WaitInv' /\ WakeInv'
         /\ DownInv'
<1> USE DEF ring, eventfd, writer, parser, socket, control, bounds, history
<1>1. GiveUp => worker' \in {"none", "backoff", "deleted"}
  BY DEF GiveUp
<1>2. CASE TcpConnects \/ ConnectFails \/ HandshakeBreaks \/ HandshakeUnparseable
             \/ BackoffEnds \/ HelloReplied \/ HandshakeReceives
  <2>1. UNCHANGED <<fate, ring, eventfd, writer, rpc, accepted, executed, down>>
    BY <1>2 DEF TcpConnects, ConnectFails, HandshakeBreaks, HandshakeUnparseable,
                BackoffEnds, HelloReplied, HandshakeReceives
  <2>2. \/ worker' = worker
        \/ worker \in Before /\ worker' \in Before \cup {"none", "deleted"}
    BY <1>1, <1>2 DEF TcpConnects, ConnectFails, HandshakeBreaks, HandshakeUnparseable,
                BackoffEnds, HelloReplied, HandshakeReceives, Handshaking, Before
  <2> QED  BY <2>1, <2>2, QuietStep
<1>3. CASE SelectReplied
  <2>1. /\ worker = "select"
        /\ UNCHANGED <<fate, ring, eventfd, iov, accepted, executed>>
    BY <1>3 DEF SelectReplied
  <2>2. CASE worker' = "run"
    <3>1. wpc' = "event" /\ rpc' = "parse"
      BY <1>1, <1>3, <2>2 DEF SelectReplied
    <3>2. /\ wpc = "off" /\ iov = <<>> /\ committed = 0 /\ Len(queue) \in Nat
      BY <2>1 DEF RingInv, ModeInv, Before, TypeOK
    <3>3. ModeInv'
      BY <2>1, <2>2, <3>1, <3>2 DEF ModeInv, Before
    <3>4. WakeInv'
      BY <2>1, <2>2, <3>2 DEF RingInv, WakeInv, Before
    <3>5. DownInv'
      BY <2>2 DEF DownInv, Before
    <3>6. QueueInv'
      BY <2>1 DEF RingInv, QueueInv, Awaited
    <3>7. AcceptInv'
      <4>1. /\ Elems(queue') = Elems(queue) /\ Elems(iov') = Elems(iov)
            /\ Elems(executed') = Elems(executed) /\ Elems(accepted') = Elems(accepted)
        BY <2>1
      <4> QED  BY <2>1, <4>1 DEF RingInv, AcceptInv
    <3>8. SentInv' /\ WaitInv'
      BY <2>1, OrderSame DEF RingInv
    <3> QED  BY <3>3, <3>4, <3>5, <3>6, <3>7, <3>8
  <2>3. CASE worker' # "run"
    <3>1. /\ worker' \in {"none", "backoff", "deleted"}
          /\ UNCHANGED <<rpc, wpc, down>>
      BY <1>1, <1>3, <2>3 DEF SelectReplied
    <3>2. worker \in Before /\ worker' \in Before \cup {"none", "deleted"}
      BY <2>1, <3>1 DEF Before
    <3> QED  BY <2>1, <3>1, <3>2, QuietStep
  <2> QED  BY <2>2, <2>3
<1> QED  BY <1>2, <1>3 DEF ConnectSpot

LEMMA ReaderRing ==
  ASSUME RingInv, Reader
  PROVE  /\ ModeInv' /\ QueueInv' /\ AcceptInv' /\ SentInv' /\ WaitInv' /\ WakeInv'
         /\ DownInv'
<1> USE DEF ring, eventfd, writer, parser, socket, control, bounds, history
<1>1. CASE ReaderReceives
  <2>1. PICK n \in 0..Len(wire) : \E buf \in Buffered(n) : Deliver(buf)
    BY <1>1 DEF ReaderReceives
  <2>2. PICK buf \in Buffered(n) : Deliver(buf)
    BY <2>1
  <2>3. buf \in Seq(Token)
    BY BufferedType DEF RingInv, TypeOK
  <2> DEFINE k == Len(Frames(Sound(buf)))
  <2>4. k \in Nat
    BY <2>3, SoundIs, FramesCount
  <2>5. \/ worker' = "crashed" /\ UNCHANGED <<fate, queue, committed, rpc>>
        \/ Popped(k)
    BY <2>2, <2>3, DeliverPops DEF RingInv
  <2> HIDE DEF k
  <2>6. /\ worker = "run"
        /\ UNCHANGED <<open, signals, event, wpc, iov, executed, accepted, down>>
    BY <1>1 DEF ReaderReceives
  <2>7. CASE Popped(k)
    BY <2>4, <2>6, <2>7, PoppedRing
  <2>8. CASE worker' = "crashed" /\ UNCHANGED <<fate, queue, committed, rpc>>
    <3>1. ModeInv' /\ WakeInv' /\ DownInv'
      BY <2>6, <2>8 DEF RingInv, ModeInv, WakeInv, DownInv, Before
    <3>2. QueueInv'
      BY <2>6, <2>8 DEF RingInv, QueueInv, Awaited
    <3>3. AcceptInv'
      <4>1. /\ Elems(queue') = Elems(queue) /\ Elems(iov') = Elems(iov)
            /\ Elems(executed') = Elems(executed) /\ Elems(accepted') = Elems(accepted)
        BY <2>6, <2>8
      <4> QED  BY <2>6, <2>8, <4>1 DEF RingInv, AcceptInv
    <3>4. SentInv' /\ WaitInv'
      BY <2>6, <2>8, OrderSame DEF RingInv
    <3> QED  BY <3>1, <3>2, <3>3, <3>4
  <2> QED  BY <2>5, <2>7, <2>8
<1>2. CASE ReaderFails
  <2>1. /\ worker = "run" /\ worker' = "run" /\ rpc = "parse" /\ rpc' = "done"
        /\ UNCHANGED <<fate, ring, eventfd, writer, accepted, executed, down>>
    BY <1>2 DEF ReaderFails
  <2>2. ModeInv' /\ WakeInv' /\ DownInv'
    BY <2>1 DEF RingInv, ModeInv, WakeInv, DownInv, Before
  <2>3. QueueInv'
    BY <2>1 DEF RingInv, QueueInv, Awaited
  <2>4. AcceptInv'
    <3>1. /\ Elems(queue') = Elems(queue) /\ Elems(iov') = Elems(iov)
          /\ Elems(executed') = Elems(executed) /\ Elems(accepted') = Elems(accepted)
      BY <2>1
    <3> QED  BY <2>1, <3>1 DEF RingInv, AcceptInv
  <2>5. SentInv' /\ WaitInv'
    BY <2>1, OrderSame DEF RingInv
  <2> QED  BY <2>2, <2>3, <2>4, <2>5
<1> QED  BY <1>1, <1>2 DEF Reader

\* The steps that change neither what waits nor what was accepted or sent.
LEMMA OtherRing ==
  ASSUME RingInv,
         Signal \/ WriterFails \/ RaceEnds \/ DrainDeletes \/ DrainReconnects
  PROVE  /\ ModeInv' /\ QueueInv' /\ AcceptInv' /\ SentInv' /\ WaitInv' /\ WakeInv'
         /\ DownInv'
<1> USE DEF ring, eventfd, writer, parser, socket, control, bounds, history
<1>1. /\ UNCHANGED <<fate, queue, accepted, executed, down>>
      /\ signals \in Nat /\ signals' \in Nat /\ signals' <= signals
  BY Constants DEF RingInv, TypeOK, Signal, WriterFails, RaceEnds, DrainDeletes,
                   DrainReconnects
<1>2. CASE DrainReconnects
  <2>1. Len(queue) = 0 /\ Elems(queue') = {} /\ Elems(iov') = {} /\ Len(iov') = 0
    BY <1>2 DEF DrainReconnects, Elems
  <2>2. ModeInv' /\ WakeInv' /\ DownInv'
    BY <1>2, <2>1 DEF DrainReconnects, ModeInv, WakeInv, DownInv, Before
  <2>3. QueueInv'
    BY <1>1, <1>2 DEF DrainReconnects, RingInv, QueueInv, Awaited
  <2>4. AcceptInv'
    <3>1. Elems(executed') = Elems(executed) /\ Elems(accepted') = Elems(accepted)
      BY <1>1
    <3> QED  BY <1>1, <2>1, <3>1 DEF RingInv, AcceptInv
  <2>5. \A x, y : Ahead(x, y) => Ahead(x, y)'
    BY <1>1 DEF Ahead
  <2>6. SentInv' /\ WaitInv'
    BY <1>1, <2>1, <2>5 DEF RingInv, SentInv, WaitInv
  <2> QED  BY <2>2, <2>3, <2>4, <2>6
<1>3. CASE Signal \/ WriterFails \/ RaceEnds \/ DrainDeletes
  <2>1. UNCHANGED <<committed, iov>>
    BY <1>3 DEF Signal, WriterFails, RaceEnds, DrainDeletes
  <2>2. ModeInv'
    BY <1>1, <1>3 DEF RingInv, ModeInv, Before, Signal, WriterFails, RaceEnds, DrainDeletes
  <2>3. WakeInv' /\ DownInv'
    <3>1. CASE Signal
      BY <1>1, <3>1 DEF Signal, RingInv, WakeInv, DownInv, Before
    <3>2. CASE WriterFails \/ RaceEnds \/ DrainDeletes
      <4>1. DrainDeletes => Elems(queue') = {}
        BY DEF DrainDeletes, Elems
      <4> QED  BY <1>1, <3>2, <4>1 DEF WriterFails, RaceEnds, DrainDeletes,
                                        RingInv, WakeInv, DownInv, Before
    <3> QED  BY <1>3, <3>1, <3>2
  <2>4. QueueInv'
    <3> DEFINE a == Cardinality(Awaited)
    <3>1. Cardinality(Awaited)' = a /\ signals <= a /\ a \in Nat
      <4>1. a \in 0..Cardinality(Ops)
        BY <1>1, AwaitedGrows DEF RingInv
      <4> QED  BY <1>1, <4>1, Constants DEF Awaited, RingInv, QueueInv
    <3> HIDE DEF a
    <3>2. signals' <= Cardinality(Awaited)'
      BY <1>1, <3>1
    <3> QED  BY <1>1, <3>2 DEF RingInv, QueueInv
  <2>5. AcceptInv'
    <3>1. /\ Elems(queue') = Elems(queue) /\ Elems(iov') = Elems(iov)
          /\ Elems(executed') = Elems(executed) /\ Elems(accepted') = Elems(accepted)
      BY <1>1, <2>1
    <3> QED  BY <1>1, <2>1, <3>1 DEF RingInv, AcceptInv
  <2>6. SentInv' /\ WaitInv'
    BY <1>1, <2>1, OrderSame DEF RingInv
  <2> QED  BY <2>2, <2>3, <2>4, <2>5, <2>6
<1> QED  BY <1>2, <1>3

LEMMA RingStep ==
  ASSUME RingInv, [Next]_vars
  PROVE  RingInv'
<1> USE DEF ring, eventfd, writer, parser, socket, control, bounds, history
<1> DEFINE Goal == /\ ModeInv' /\ QueueInv' /\ AcceptInv' /\ SentInv' /\ WaitInv'
                   /\ WakeInv' /\ DownInv'
<1>1. TypeOK'
  BY TypeStep DEF RingInv
<1> SUFFICES Goal
  BY <1>1 DEF RingInv
<1>2. ASSUME NEW o \in Ops, Await(o) PROVE Goal
  BY <1>2, AwaitRing
<1>3. CASE Close \/ Destroy \/ ServerAnswers \/ PeerCloses \/ UNCHANGED vars
  <2>1. /\ UNCHANGED <<fate, ring, eventfd, writer, rpc, accepted, executed, down>>
        /\ worker' = worker
    BY <1>3 DEF Close, Destroy, ServerAnswers, PeerCloses, vars
  <2> QED  BY <2>1, QuietStep
<1>4. CASE ConnectSpot
  BY <1>4, ConnectRing
<1>5. CASE Reader
  BY <1>5, ReaderRing
<1>6. CASE WriterWakes
  BY <1>6, WakesRing
<1>7. CASE WriterSends
  BY <1>7, SendRing
<1>8. CASE DrainResumes
  BY <1>8, DrainRing
<1>9. CASE Signal \/ WriterFails \/ RaceEnds \/ DrainDeletes \/ DrainReconnects
  BY <1>9, OtherRing
<1> HIDE DEF Goal
<1> QED  BY <1>2, <1>3, <1>4, <1>5, <1>6, <1>7, <1>8, <1>9
         DEF Next, Writer, Worker, Finished

LEMMA RingAlways == Spec => []RingInv
<1>1. Init => RingInv
  BY TypeInit, RingInit DEF RingInv
<1>2. RingInv /\ [Next]_vars => RingInv'
  BY RingStep
<1> QED  BY <1>1, <1>2, PTL DEF Spec

\* Every variable keeps its type; in particular the ring never holds more
\* than its capacity and no more eventfd writes are under way than coroutines
\* have asked.
THEOREM PipelineTypeCorrect == Spec => []TypeOK
<1>1. RingInv => TypeOK
  BY DEF RingInv
<1> QED  BY <1>1, RingAlways, PTL

\* While the writer sleeps and the ring has a command it has not seen, the
\* eventfd is readable or a write of it is under way: WriterWakes reads the
\* eventfd before it looks at the ring.
THEOREM PipelineNoLostWakeup == Spec => []NoLostWakeup
<1>1. RingInv => NoLostWakeup
  BY DEF RingInv, NoLostWakeup, WakeInv, ModeInv
<1> QED  BY <1>1, RingAlways, PTL

\* The worker that deletes the pipe leaves nobody in the ring but who came
\* since the connection was lost.
THEOREM PipelineDeletedAfterDrain == Spec => []DeletedAfterDrain
<1>1. RingInv => DeletedAfterDrain
  BY DEF RingInv, DeletedAfterDrain, DownInv
<1> QED  BY <1>1, RingAlways, PTL

\* Across partial writes, failed connections and drains, the server is sent
\* commands in the order they were accepted, and none twice.
THEOREM PipelineSentOnceInOrder == Spec => []SentOnceInOrder
<1>1. ASSUME RingInv PROVE SentOnceInOrder
  <2> SUFFICES ASSUME NEW i \in DOMAIN executed, NEW j \in DOMAIN executed, i < j
               PROVE  IndexOf(accepted, executed[i]) < IndexOf(accepted, executed[j])
    BY DEF SentOnceInOrder
  <2>1. /\ i \in 1..Len(executed) /\ j \in 1..Len(executed)
        /\ DOMAIN accepted = 1..Len(accepted)
    BY <1>1 DEF RingInv, TypeOK
  <2>2. PICK a, b \in 1..Len(accepted) :
          a < b /\ accepted[a] = executed[i] /\ accepted[b] = executed[j]
    BY <1>1, <2>1 DEF RingInv, SentInv, Ahead
  <2>3. \A k, l \in 1..Len(accepted) : accepted[k] = accepted[l] => k = l
    BY <1>1 DEF RingInv, AcceptInv
  <2>4. IndexOf(accepted, executed[i]) = a /\ IndexOf(accepted, executed[j]) = b
    BY <2>1, <2>2, <2>3 DEF IndexOf
  <2> QED  BY <2>2, <2>4
<1> QED  BY <1>1, RingAlways, PTL

\* A coroutine that got an answer gets no second one: the reader and the
\* drain resume only who is in the ring, and who is in the ring was not
\* resumed yet.
THEOREM PipelineSettledOnce == Spec => SettledOnce
<1>1. ASSUME RingInv, [Next]_vars, NEW o \in Ops, fate[o] \notin {"new", "queued"}
      PROVE  fate'[o] = fate[o]
  <2> USE DEF ring, eventfd, writer, parser, socket, control, bounds, history
  <2>1. /\ queue \in Seq(Ops) /\ Len(queue) \in Nat
        /\ \A k \in 1..Len(queue) : queue[k] # o
    BY <1>1 DEF RingInv, TypeOK, QueueInv
  <2>2. ASSUME NEW p \in Ops, Await(p) PROVE fate'[o] = fate[o]
    BY <1>1, <2>2 DEF Await, SetFate
  <2>3. CASE ReaderReceives
    <3>1. PICK n \in 0..Len(wire) : \E buf \in Buffered(n) : Deliver(buf)
      BY <2>3 DEF ReaderReceives
    <3>2. PICK buf \in Buffered(n) : Deliver(buf)
      BY <3>1
    <3>3. buf \in Seq(Token)
      BY <1>1, BufferedType DEF RingInv, TypeOK
    <3> DEFINE k == Len(Frames(Sound(buf)))
    <3>4. k \in Nat
      BY <3>3, SoundIs, FramesCount
    <3>5. UNCHANGED fate \/ Popped(k)
      BY <1>1, <3>2, <3>3, DeliverPops DEF RingInv
    <3> HIDE DEF k
    <3>6. CASE Popped(k)
      <4>1. ~ \E j \in 1..k : queue[j] = o
        BY <2>1, <3>4, <3>6 DEF Popped
      <4> QED  BY <3>6, <4>1 DEF Popped
    <3> QED  BY <3>5, <3>6
  <2>4. CASE DrainResumes
    <3>1. Head(queue) # o
      BY <2>1, <2>4 DEF DrainResumes
    <3> QED  BY <2>4, <3>1 DEF DrainResumes, SetFate
  <2>5. CASE \/ Signal \/ Close \/ Destroy \/ ServerAnswers \/ PeerCloses
             \/ WriterWakes \/ WriterSends \/ WriterFails \/ ReaderFails
             \/ RaceEnds \/ DrainDeletes \/ DrainReconnects \/ UNCHANGED vars
    BY <2>5 DEF Signal, Close, Destroy, ServerAnswers, PeerCloses, WriterWakes,
                WriterSends, WriterFails, ReaderFails, RaceEnds, DrainDeletes,
                DrainReconnects, vars
  <2>6. CASE ConnectSpot
    BY <2>6 DEF ConnectSpot, TcpConnects, ConnectFails, HandshakeBreaks,
                HandshakeReceives, HelloReplied, SelectReplied,
                HandshakeUnparseable, BackoffEnds
  <2> QED  BY <1>1, <2>2, <2>3, <2>4, <2>5, <2>6 DEF Next, Writer, Reader, Worker, Finished
<1>2. RingInv /\ [Next]_vars
        => [\A o \in Ops : fate[o] \notin {"new", "queued"} => fate'[o] = fate[o]]_vars
  BY <1>1
<1> QED  BY <1>2, RingAlways, PTL DEF Spec, SettledOnce


(***************************************************************************)
(* The stream of replies: it grows by the reply to the next command.       *)
(***************************************************************************)

LEMMA ExtendSpeaks ==
  ASSUME NEW s \in Seq(Token), NEW ops \in Seq(Ops), Speaks(s, ops), Boundary(s, Len(s)),
         NEW k, k = Leaves(s, Len(s)) + 1, k <= Len(ops)
  PROVE  LET t == s \o Reply(ops[k])
         IN  /\ t \in Seq(Token) /\ Speaks(t, ops)
             /\ Boundary(t, Len(t)) /\ Leaves(t, Len(t)) = k
<1> DEFINE N == Len(s)
           r == Reply(ops[k])
           t == s \o r
<1>0. N \in Nat
  OBVIOUS
<1>1. k \in 1..Len(ops) /\ ops[k] \in Ops /\ Leaves(s, N) = k - 1 /\ k \in Nat
  <2>1. Leaves(s, N) \in Nat /\ k = Leaves(s, N) + 1 /\ Len(ops) \in Nat
    BY <1>0, LeavesStep
  <2>2. k \in 1..Len(ops) /\ Leaves(s, N) = k - 1
    BY <2>1
  <2> QED  BY <2>2
<1>2. r \in Seq(Token)
  <2>1. ops[k] \notin {"HELLO", "SELECT"}
    BY <1>1, OpsAssumption
  <2>2. r \in Answers(ops[k])
    BY <2>1 DEF Answers
  <2> QED  BY <1>1, <2>2, ReplyType
<1>3. \/ /\ ops[k] \in Nested /\ Len(r) = 2
         /\ r[1] = Tok(ops[k], "agg", 1) /\ r[2] = Tok(ops[k], "leaf", 0)
      \/ /\ ops[k] \notin Nested /\ Len(r) = 1
         /\ r[1] = Tok(ops[k], "leaf", 0)
  BY DEF Reply
<1>4. /\ t \in Seq(Token) /\ Len(t) = N + Len(r)
      /\ \A n \in 1..N : t[n] = s[n]
      /\ \A n \in 1..Len(r) : t[N + n] = r[n]
  BY <1>2, ConcatParts
<1> HIDE DEF N, r, t
<1>5. ASSUME NEW n \in 0..N
      PROVE  /\ Leaves(t, n) = Leaves(s, n) /\ Leaves(t, n) \in Nat
             /\ Boundary(t, n) <=> Boundary(s, n)
  <2>1. \A m \in 1..n : t[m] = s[m]
    BY <1>0, <1>4
  <2>2. Leaves(t, n) = Leaves(s, n)
    BY <2>1, LeavesSame
  <2>3. Leaves(t, n) \in Nat
    <3>1. n \in Nat
      BY <1>0
    <3> QED  BY <3>1, LeavesStep
  <2>4. n = 0 \/ n \in 1..n
    BY <1>0
  <2> QED  BY <2>1, <2>2, <2>3, <2>4 DEF Boundary
<1>6. Leaves(t, N) = k - 1 /\ Boundary(t, N)
  BY <1>0, <1>1, <1>5 DEF N
<1>7. ASSUME NEW n \in 1..N
      PROVE  LET j == Leaves(t, n - 1) + 1
             IN  /\ j <= Len(ops)
                 /\ t[n] = IF ops[j] \in Nested /\ Boundary(t, n - 1)
                           THEN Tok(ops[j], "agg", 1) ELSE Tok(ops[j], "leaf", 0)
  <2>1. n - 1 \in 0..N /\ t[n] = s[n]
    BY <1>0, <1>4
  <2>2. LET j == Leaves(s, n - 1) + 1
        IN  /\ j <= Len(ops)
            /\ s[n] = IF ops[j] \in Nested /\ Boundary(s, n - 1)
                      THEN Tok(ops[j], "agg", 1) ELSE Tok(ops[j], "leaf", 0)
    BY DEF Speaks, N
  <2> QED  BY <1>5, <2>1, <2>2
<1>8. /\ (N + 1) - 1 = N /\ (N + 2) - 1 = N + 1 /\ (N + 1) + 1 = N + 2 /\ N + 1 \in Nat
      /\ N + 1 # 0 /\ N + 2 # 0
  BY <1>0
<1>9. /\ Leaves(t, N + 1) = Leaves(t, N) + (IF t[N + 1].kind = "leaf" THEN 1 ELSE 0)
      /\ Leaves(t, (N + 1) + 1) = Leaves(t, N + 1) + (IF t[(N + 1) + 1].kind = "leaf" THEN 1 ELSE 0)
  BY <1>0, <1>8, LeavesStep
<1>10. ASSUME ops[k] \notin Nested
       PROVE  t \in Seq(Token) /\ Speaks(t, ops) /\ Boundary(t, Len(t)) /\ Leaves(t, Len(t)) = k
  <2>1. Len(t) = N + 1 /\ t[N + 1] = Tok(ops[k], "leaf", 0) /\ t[N + 1].kind = "leaf"
    <3>1. Len(r) = 1 /\ r[1] = Tok(ops[k], "leaf", 0) /\ 1 \in 1..Len(r)
      BY <1>3, <1>10
    <3> QED  BY <1>4, <3>1 DEF Tok
  <2>2. Leaves(t, Len(t)) = k /\ Boundary(t, Len(t))
    BY <1>1, <1>6, <1>9, <2>1 DEF Boundary
  <2>3. LET j == Leaves(t, (N + 1) - 1) + 1
        IN  /\ j <= Len(ops)
            /\ t[N + 1] = IF ops[j] \in Nested /\ Boundary(t, (N + 1) - 1)
                          THEN Tok(ops[j], "agg", 1) ELSE Tok(ops[j], "leaf", 0)
    <3>1. Leaves(t, (N + 1) - 1) + 1 = k
      BY <1>1, <1>6, <1>8
    <3> QED  BY <1>1, <1>10, <2>1, <3>1
  <2>4. \A n \in 1..Len(t) : n \in 1..N \/ n = N + 1
    BY <1>0, <2>1
  <2>5. Speaks(t, ops)
    BY <1>7, <2>3, <2>4 DEF Speaks
  <2> QED  BY <1>4, <2>2, <2>5
<1>11. ASSUME ops[k] \in Nested
       PROVE  t \in Seq(Token) /\ Speaks(t, ops) /\ Boundary(t, Len(t)) /\ Leaves(t, Len(t)) = k
  <2>1. /\ Len(t) = N + 2
        /\ t[N + 1] = Tok(ops[k], "agg", 1) /\ t[N + 1].kind = "agg"
        /\ t[N + 2] = Tok(ops[k], "leaf", 0) /\ t[N + 2].kind = "leaf"
    <3>1. /\ Len(r) = 2 /\ 1 \in 1..Len(r) /\ 2 \in 1..Len(r)
          /\ r[1] = Tok(ops[k], "agg", 1) /\ r[2] = Tok(ops[k], "leaf", 0)
      BY <1>3, <1>11
    <3> QED  BY <1>4, <3>1 DEF Tok
  <2>2. Leaves(t, N + 1) = k - 1 /\ Leaves(t, Len(t)) = k /\ Boundary(t, Len(t))
        /\ ~Boundary(t, N + 1)
    <3>1. Leaves(t, N + 1) = k - 1
      BY <1>1, <1>6, <1>9, <2>1
    <3>2. Leaves(t, N + 2) = k
      BY <1>1, <1>8, <1>9, <2>1, <3>1
    <3> QED  BY <1>8, <2>1, <3>1, <3>2 DEF Boundary
  <2>3. LET j == Leaves(t, (N + 1) - 1) + 1
        IN  /\ j <= Len(ops)
            /\ t[N + 1] = IF ops[j] \in Nested /\ Boundary(t, (N + 1) - 1)
                          THEN Tok(ops[j], "agg", 1) ELSE Tok(ops[j], "leaf", 0)
    <3>1. Leaves(t, (N + 1) - 1) + 1 = k /\ Boundary(t, (N + 1) - 1)
      BY <1>1, <1>6, <1>8
    <3> QED  BY <1>1, <1>11, <2>1, <3>1
  <2>4. LET j == Leaves(t, (N + 2) - 1) + 1
        IN  /\ j <= Len(ops)
            /\ t[N + 2] = IF ops[j] \in Nested /\ Boundary(t, (N + 2) - 1)
                          THEN Tok(ops[j], "agg", 1) ELSE Tok(ops[j], "leaf", 0)
    <3>1. Leaves(t, (N + 2) - 1) + 1 = k /\ ~Boundary(t, (N + 2) - 1)
      BY <1>1, <1>8, <2>2
    <3> QED  BY <1>1, <1>11, <2>1, <3>1
  <2>5. \A n \in 1..Len(t) : n \in 1..N \/ n = N + 1 \/ n = N + 2
    BY <1>0, <2>1
  <2>6. Speaks(t, ops)
    BY <1>7, <2>3, <2>4, <2>5 DEF Speaks
  <2> QED  BY <1>4, <2>2, <2>6
<1>12. t \in Seq(Token) /\ Speaks(t, ops) /\ Boundary(t, Len(t)) /\ Leaves(t, Len(t)) = k
  BY <1>10, <1>11
<1> QED  BY <1>12 DEF t, r

\* No line of a stream of replies fails to parse.
LEMMA SpeaksSound ==
  ASSUME NEW s \in Seq(Token), NEW ops, Speaks(s, ops)
  PROVE  Sound(s) = s
<1>1. \A n \in 1..Len(s) : s[n].kind # "bad"
  BY SpeaksPlain DEF Plain
<1> QED  BY <1>1, SoundIs

(***************************************************************************)
(* The stream of a handshake.                                              *)
(***************************************************************************)

HelloAnswers  == {HelloReply, Error("HELLO")}
SelectAnswers == {SelectReply, Error("SELECT")}

\* t holds the first tokens of an answer h to HELLO and one to SELECT, s.
Greets(t, h, s) ==
  /\ Len(t) <= Len(h) + 1
  /\ \A n \in 1..Len(t) : t[n] = IF n <= Len(h) THEN h[n] ELSE s[1]

LEMMA AnswersAre ==
  /\ \A s \in SelectAnswers : /\ s \in Seq(Token) /\ Len(s) = 1
                              /\ s[1].kind \in {"ok", "leaf"} /\ s[1].more = 0
  /\ \A h \in HelloAnswers :
       /\ h \in Seq(Token)
       /\ \/ /\ h = HelloReply /\ Len(h) = 3
             /\ h[1].more = 2 /\ h[2].more = 0 /\ h[3].more = 0
             /\ h[1].kind = "agg" /\ h[2].kind = "leaf" /\ h[3].kind = "agg"
          \/ /\ h = Error("HELLO") /\ Len(h) = 1
             /\ h[1].more = 0 /\ h[1].kind = "leaf"
  /\ Answers("HELLO") = HelloAnswers /\ Answers("SELECT") = SelectAnswers
<1>1. \A s \in SelectAnswers : /\ Len(s) = 1
                               /\ s[1].kind \in {"ok", "leaf"} /\ s[1].more = 0
  BY DEF SelectAnswers, SelectReply, Error, Tok
<1>2. \A h \in HelloAnswers :
        \/ /\ h = HelloReply /\ Len(h) = 3
           /\ h[1].more = 2 /\ h[2].more = 0 /\ h[3].more = 0
           /\ h[1].kind = "agg" /\ h[2].kind = "leaf" /\ h[3].kind = "agg"
        \/ /\ h = Error("HELLO") /\ Len(h) = 1
           /\ h[1].more = 0 /\ h[1].kind = "leaf"
  BY DEF HelloAnswers, HelloReply, Error, Tok
<1>3. Answers("HELLO") = HelloAnswers /\ Answers("SELECT") = SelectAnswers
  BY DEF Answers, HelloAnswers, SelectAnswers
<1>4. /\ \A s \in SelectAnswers : s \in Seq(Token)
      /\ \A h \in HelloAnswers : h \in Seq(Token)
  BY <1>3, ReplyType
<1> QED  BY <1>1, <1>2, <1>3, <1>4

\* Where no element announces others, each is a frame.
LEMMA SingleEnds ==
  ASSUME NEW s \in Seq(Token), \A n \in 1..Len(s) : s[n].more = 0
  PROVE  FrameEnds(s) = 1..Len(s)
<1>1. Len(s) \in Nat /\ DOMAIN s = 1..Len(s)
  OBVIOUS
<1> DEFINE T == {n \in 0..Len(s) : Owed(s)[n] = 0 - n}
<1>2. 0 \in T
  BY <1>1, OwedSteps
<1>3. ASSUME NEW n \in 0..(Len(s) - 1), n \in T PROVE n + 1 \in T
  <2>1. n + 1 \in 1..Len(s) /\ (n + 1) - 1 = n /\ n \in Nat
    BY <1>1
  <2>2. Owed(s)[n + 1] = Owed(s)[n] + s[n + 1].more - 1
    BY <1>1, <2>1, OwedSteps
  <2>3. Owed(s)[n] = 0 - n /\ s[n + 1].more = 0
    BY <1>3, <2>1
  <2> QED  BY <1>1, <2>1, <2>2, <2>3
<1>4. 0..Len(s) \subseteq T
  <2> HIDE DEF T
  <2> QED  BY <1>1, <1>2, <1>3, UpTo
<1>5. \A n \in 1..Len(s) : \A m \in 0..(n - 1) : Owed(s)[n] < Owed(s)[m]
  <2> SUFFICES ASSUME NEW n \in 1..Len(s), NEW m \in 0..(n - 1)
               PROVE  Owed(s)[n] < Owed(s)[m]
    OBVIOUS
  <2>1. n \in 0..Len(s) /\ m \in 0..Len(s) /\ m < n
    BY <1>1
  <2>2. Owed(s)[n] = 0 - n /\ Owed(s)[m] = 0 - m
    BY <1>4, <2>1
  <2> QED  BY <2>1, <2>2
<1> QED  BY <1>1, <1>5 DEF FrameEnds

\* The first frame of a handshake is the whole answer to HELLO.
LEMMA GreetsFrame ==
  ASSUME NEW t \in Seq(Token), NEW h \in HelloAnswers, NEW s \in SelectAnswers,
         Greets(t, h, s)
  PROVE  /\ Sound(t) = t
         /\ Frames(t) # <<>> => /\ Len(Frames(t)[1]) = Len(h) /\ Len(h) <= Len(t)
                                /\ Frames(t)[1][1] = h[1]
<1>1. Len(t) \in Nat /\ DOMAIN t = 1..Len(t)
  OBVIOUS
<1>2. /\ Len(s) = 1 /\ s[1].kind \in {"ok", "leaf"} /\ s[1].more = 0
  BY AnswersAre
<1>3. Sound(t) = t
  <2>1. \A n \in 1..Len(h) : h[n].kind # "bad"
    BY AnswersAre
  <2>2. \A n \in 1..Len(t) : t[n].kind # "bad"
    <3> SUFFICES ASSUME NEW n \in 1..Len(t) PROVE t[n].kind # "bad"
      OBVIOUS
    <3>1. CASE n <= Len(h)
      <4>1. n \in 1..Len(h) /\ t[n] = h[n]
        BY <3>1, AnswersAre DEF Greets
      <4> QED  BY <2>1, <4>1
    <3>2. CASE ~(n <= Len(h))
      BY <1>2, <3>2 DEF Greets
    <3> QED  BY <3>1, <3>2
  <2> QED  BY <2>2, SoundIs
<1>4. ASSUME Frames(t) # <<>>
      PROVE  /\ Len(Frames(t)[1]) = Len(h) /\ Len(h) <= Len(t)
             /\ Frames(t)[1][1] = h[1]
  <2> DEFINE e == Len(Frames(t)[1])
  <2>1. /\ e \in 1..Len(t) /\ Frames(t)[1][1] = t[1] /\ e \in FrameEnds(t)
        /\ \A n \in FrameEnds(t) : e <= n
    BY <1>4, FirstFrameLength
  <2> HIDE DEF e
  <2>2. CASE h = HelloReply /\ Len(h) = 3
    <3>1. /\ h[1].more = 2 /\ h[2].more = 0 /\ h[3].more = 0
          /\ \A n \in 1..Len(t) : n <= 3 => t[n] = h[n]
      BY <2>2, AnswersAre DEF Greets
    <3>2. Owed(t)[0] = 0 /\ \A n \in 1..Len(t) : Owed(t)[n] = Owed(t)[n - 1] + t[n].more - 1
      BY <1>1, OwedSteps
    <3>3. 1 \in 1..Len(t) => Owed(t)[1] = 1
      <4> SUFFICES ASSUME 1 \in 1..Len(t) PROVE Owed(t)[1] = 1
        OBVIOUS
      <4>1. Owed(t)[1] = Owed(t)[1 - 1] + t[1].more - 1 /\ t[1] = h[1] /\ 1 - 1 = 0
        BY <3>1, <3>2
      <4> QED  BY <3>1, <3>2, <4>1
    <3>4. 2 \in 1..Len(t) => Owed(t)[2] = 0
      <4> SUFFICES ASSUME 2 \in 1..Len(t) PROVE Owed(t)[2] = 0
        OBVIOUS
      <4>1. Owed(t)[2] = Owed(t)[2 - 1] + t[2].more - 1 /\ t[2] = h[2] /\ 2 - 1 = 1
        BY <3>1, <3>2
      <4>2. Owed(t)[1] = 1
        BY <1>1, <3>3
      <4> QED  BY <3>1, <4>1, <4>2
    <3>5. 3 \in 1..Len(t) => Owed(t)[3] = 0 - 1
      <4> SUFFICES ASSUME 3 \in 1..Len(t) PROVE Owed(t)[3] = 0 - 1
        OBVIOUS
      <4>1. Owed(t)[3] = Owed(t)[3 - 1] + t[3].more - 1 /\ t[3] = h[3] /\ 3 - 1 = 2
        BY <3>1, <3>2
      <4>2. Owed(t)[2] = 0
        BY <1>1, <3>4
      <4> QED  BY <3>1, <4>1, <4>2
    <3>6. \A m \in 0..(e - 1) : Owed(t)[e] < Owed(t)[m]
      BY <2>1 DEF FrameEnds
    <3>7. e # 1 /\ e # 2
      <4>1. 0 \in 0..(e - 1)
        BY <2>1
      <4>2. Owed(t)[e] < 0
        BY <3>2, <3>6, <4>1
      <4> QED  BY <2>1, <3>3, <3>4, <4>2
    <3>8. 3 \in 1..Len(t)
      BY <1>1, <2>1, <3>7
    <3>9. 1 \in 1..Len(t) /\ 2 \in 1..Len(t)
      BY <1>1, <3>8
    <3>10. 3 \in FrameEnds(t)
      <4>1. \A m \in 0..(3 - 1) : m = 0 \/ m = 1 \/ m = 2
        OBVIOUS
      <4>2. \A m \in 0..(3 - 1) : Owed(t)[3] < Owed(t)[m]
        BY <3>2, <3>3, <3>4, <3>5, <3>8, <3>9, <4>1
      <4> QED  BY <1>1, <3>8, <4>2 DEF FrameEnds
    <3>11. e = 3
      BY <1>1, <2>1, <3>7, <3>10
    <3>12. t[1] = h[1]
      BY <3>1, <3>9
    <3> QED  BY <1>1, <2>1, <2>2, <3>8, <3>11, <3>12 DEF e
  <2>3. CASE h = Error("HELLO") /\ Len(h) = 1
    <3>1. \A n \in 1..Len(t) : t[n].more = 0
      BY <1>2, <2>3, AnswersAre DEF Greets
    <3>2. FrameEnds(t) = 1..Len(t)
      BY <3>1, SingleEnds
    <3>3. 1 \in 1..Len(t)
      BY <1>1, <2>1
    <3>4. e = 1
      BY <1>1, <2>1, <3>2, <3>3
    <3>5. t[1] = h[1]
      BY <2>3, <3>3 DEF Greets
    <3>6. Frames(t)[1][1] = h[1] /\ Len(h) <= Len(t)
      <4>1. Frames(t)[1][1] = h[1]
        BY <2>1, <3>5
      <4>2. Len(h) = 1 /\ 1 <= Len(t)
        BY <1>1, <2>3, <3>3
      <4>3. Len(h) <= Len(t)
        BY ONLY <4>2
      <4> QED  BY <4>1, <4>3
    <3>7. e = Len(h)
      BY <2>3, <3>4
    <3> QED  BY <3>6, <3>7 DEF e
  <2> QED  BY <2>2, <2>3, AnswersAre
<1> QED  BY <1>3, <1>4

\* An answer to SELECT alone is one frame.
LEMMA SelectFrame ==
  ASSUME NEW s \in SelectAnswers
  PROVE  /\ Sound(s) = s /\ FrameEnds(s) = {1}
         /\ Frames(s) # <<>> => Len(Frames(s)[1]) = 1 /\ Frames(s)[1][1] = s[1]
<1>1. s \in Seq(Token) /\ Len(s) = 1 /\ s[1].kind \in {"ok", "leaf"} /\ s[1].more = 0
  BY AnswersAre
<1>2. \A n \in 1..Len(s) : n = 1
  BY <1>1
<1>3. Sound(s) = s
  BY <1>1, <1>2, SoundIs
<1>4. FrameEnds(s) = 1..1
  BY <1>1, <1>2, SingleEnds
<1>5. ASSUME Frames(s) # <<>>
      PROVE  Len(Frames(s)[1]) = 1 /\ Frames(s)[1][1] = s[1]
  <2>1. Len(Frames(s)[1]) \in 1..Len(s) /\ Frames(s)[1][1] = s[1]
    BY <1>1, <1>5, FirstFrameLength
  <2> QED  BY <1>1, <2>1
<1> QED  BY <1>3, <1>4, <1>5


(***************************************************************************)
(* What is on the connection, as long as the remains of no earlier one     *)
(* were joined to it.                                                      *)
(***************************************************************************)

\* The tokens on their way are the replies to the commands of q that were
\* sent, the first sent of them, from the oldest on; the server still has to
\* answer the others.
Stream(s, q, sent, todo, peer) ==
  /\ sent \in 0..Len(q)
  /\ Speaks(s, SubSeq(q, 1, sent))
  /\ IF peer
     THEN /\ Boundary(s, Len(s))
          /\ Len(todo) = sent - Leaves(s, Len(s))
          /\ \A n \in 1..Len(todo) : todo[n] = q[Leaves(s, Len(s)) + n]
     ELSE todo = <<>>

StreamInv == worker = "run" =>
  /\ torn # "stale"
  /\ Len(iov) <= committed
  /\ \A n \in 1..Len(iov) : iov[n] = queue[committed - Len(iov) + n]
  /\ Stream(linebuf \o wire, queue, committed - Len(iov), srv, up)

\* The answers to HELLO and SELECT, as far as they are on their way.
Greeting(s, todo, peer) ==
  \E h \in HelloAnswers, a \in SelectAnswers :
    /\ Greets(s, h, a)
    /\ IF peer
       THEN \/ todo = <<"HELLO", "SELECT">> /\ Len(s) = 0
            \/ todo = <<"SELECT">> /\ Len(s) = Len(h)
            \/ todo = <<>> /\ Len(s) = Len(h) + 1
       ELSE todo = <<>>

Selecting(s, todo, peer) ==
  \/ todo = <<>> /\ s \in SelectAnswers
  \/ peer /\ todo = <<"SELECT">> /\ s = <<>>
  \/ ~peer /\ todo = <<>> /\ s = <<>>

\* An answer to SELECT may stay in the line buffer when HELLO was answered by
\* an error.
HandshakeInv ==
  /\ worker \in {"tcp", "backoff"} => linebuf \in SelectAnswers \cup {<<>>}
  /\ worker = "hello" =>
       \/ linebuf \in SelectAnswers
       \/ /\ torn = "stale" => linebuf = <<>>
          /\ Greeting(linebuf \o wire, srv, up)
  /\ worker = "select" => torn # "stale" /\ Selecting(linebuf \o wire, srv, up)

LEMMA TakeIs ==
  ASSUME NEW q \in Seq(Ops), NEW m \in 0..Len(q)
  PROVE  /\ SubSeq(q, 1, m) \in Seq(Ops) /\ Len(SubSeq(q, 1, m)) = m
         /\ \A k \in 1..m : SubSeq(q, 1, m)[k] = q[k]
<1>1. 0 \in 0..Len(q) /\ m \in Nat
  OBVIOUS
<1>2. /\ SubSeq(q, 0 + 1, m) \in Seq(Ops) /\ Len(SubSeq(q, 0 + 1, m)) = m - 0
      /\ \A k \in 1..(m - 0) : SubSeq(q, 0 + 1, m)[k] = q[0 + k]
  BY <1>1, SubSeqType
<1>3. 0 + 1 = 1 /\ m - 0 = m /\ \A k \in 1..m : 0 + k = k
  BY <1>1
<1> QED  BY <1>2, <1>3

\* A connection that breaks loses the end of the stream.
LEMMA StreamCut ==
  ASSUME NEW s \in Seq(Token), NEW q \in Seq(Ops), NEW m, NEW todo, NEW peer,
         Stream(s, q, m, todo, peer),
         NEW t \in Seq(Token), Len(t) <= Len(s), \A n \in 1..Len(t) : t[n] = s[n]
  PROVE  Stream(t, q, m, <<>>, FALSE)
<1> DEFINE ops == SubSeq(q, 1, m)
<1>1. m \in 0..Len(q) /\ Speaks(s, ops)
  BY DEF Stream
<1>2. ops \in Seq(Ops)
  BY <1>1, TakeIs
<1> HIDE DEF ops
<1>3. Len(ops) <= Len(ops) /\ \A k \in 1..Len(ops) : ops[k] = ops[k]
  BY <1>2
<1>4. Speaks(t, ops)
  BY <1>1, <1>2, <1>3, PrefixSpeaks
<1> QED  BY <1>1, <1>4 DEF Stream, ops

\* Commands may be added behind those that were sent.
LEMMA StreamMore ==
  ASSUME NEW s \in Seq(Token), NEW q \in Seq(Ops), NEW m, NEW todo, NEW peer,
         Stream(s, q, m, todo, peer),
         NEW r \in Seq(Ops), m <= Len(r), \A k \in 1..m : r[k] = q[k]
  PROVE  Stream(s, r, m, todo, peer)
<1> DEFINE ops  == SubSeq(q, 1, m)
           more == SubSeq(r, 1, m)
           L    == Leaves(s, Len(s))
<1>1. m \in 0..Len(q) /\ Speaks(s, ops) /\ m \in 0..Len(r) /\ m \in Nat
  BY DEF Stream
<1>2. /\ ops \in Seq(Ops) /\ Len(ops) = m /\ \A k \in 1..m : ops[k] = q[k]
      /\ more \in Seq(Ops) /\ Len(more) = m /\ \A k \in 1..m : more[k] = r[k]
  BY <1>1, TakeIs
<1>3. L \in Nat
  BY LeavesStep
<1> HIDE DEF ops, more
<1>4. Speaks(s, more)
  <2>1. /\ Len(s) <= Len(s) /\ \A n \in 1..Len(s) : s[n] = s[n]
        /\ Len(ops) <= Len(more) /\ \A k \in 1..Len(ops) : more[k] = ops[k]
    BY <1>1, <1>2
  <2> QED  BY <1>1, <1>2, <2>1, PrefixSpeaks
<1>5. ASSUME peer
      PROVE  /\ Boundary(s, Len(s)) /\ Len(todo) = m - L
             /\ \A n \in 1..Len(todo) : todo[n] = r[L + n]
  <2>1. /\ Boundary(s, Len(s)) /\ Len(todo) = m - L
        /\ \A n \in 1..Len(todo) : todo[n] = q[L + n]
    BY <1>5 DEF Stream
  <2> HIDE DEF L
  <2>2. \A n \in 1..Len(todo) : L + n \in 1..m
    BY <1>1, <1>3, <2>1
  <2> QED  BY <2>1, <2>2
<1>6. ~peer => todo = <<>>
  BY DEF Stream
<1> QED  BY <1>1, <1>4, <1>5, <1>6 DEF Stream, more

\* writev takes the next n commands.
LEMMA StreamSend ==
  ASSUME NEW s \in Seq(Token), NEW q \in Seq(Ops), NEW m, NEW todo, NEW peer,
         Stream(s, q, m, todo, peer),
         NEW n \in Nat, m + n <= Len(q),
         NEW more,
         peer => /\ Len(more) = Len(todo) + n
                 /\ \A k \in 1..Len(todo) : more[k] = todo[k]
                 /\ \A k \in 1..n : more[Len(todo) + k] = q[m + k],
         ~peer => more = todo
  PROVE  Stream(s, q, m + n, more, peer)
<1> DEFINE ops  == SubSeq(q, 1, m)
           next == SubSeq(q, 1, m + n)
           L    == Leaves(s, Len(s))
<1>1. /\ m \in 0..Len(q) /\ Speaks(s, ops) /\ m + n \in 0..Len(q) /\ m \in Nat
      /\ Len(q) \in Nat
  BY DEF Stream
<1>2. /\ ops \in Seq(Ops) /\ Len(ops) = m /\ \A k \in 1..m : ops[k] = q[k]
      /\ next \in Seq(Ops) /\ Len(next) = m + n /\ \A k \in 1..(m + n) : next[k] = q[k]
  BY <1>1, TakeIs
<1>3. L \in Nat
  BY LeavesStep
<1> HIDE DEF ops, next
<1>4. Speaks(s, next)
  <2>1. /\ Len(s) <= Len(s) /\ \A k \in 1..Len(s) : s[k] = s[k]
        /\ Len(ops) <= Len(next) /\ \A k \in 1..Len(ops) : next[k] = ops[k]
    BY <1>1, <1>2
  <2> QED  BY <1>1, <1>2, <2>1, PrefixSpeaks
<1>5. ASSUME peer
      PROVE  /\ Boundary(s, Len(s)) /\ Len(more) = (m + n) - L
             /\ \A k \in 1..Len(more) : more[k] = q[L + k]
  <2>1. /\ Boundary(s, Len(s)) /\ Len(todo) = m - L
        /\ \A k \in 1..Len(todo) : todo[k] = q[L + k]
    BY <1>5 DEF Stream
  <2>2. /\ Len(more) = Len(todo) + n
        /\ \A k \in 1..Len(todo) : more[k] = todo[k]
        /\ \A k \in 1..n : more[Len(todo) + k] = q[m + k]
    BY <1>5
  <2> HIDE DEF L
  <2> DEFINE a == Len(todo)
  <2>3. a = m - L /\ a \in Int
    BY <1>1, <1>3, <2>1
  <2>4. Len(more) = (m + n) - L
    BY <1>1, <1>3, <2>1, <2>2
  <2>5. ASSUME NEW k \in 1..Len(more)
        PROVE  more[k] = q[L + k]
    <3>1. k \in Nat /\ Len(more) = a + n /\ a \in Int
      BY <1>1, <1>3, <2>2, <2>3, <2>4
    <3>2. CASE k <= a
      <4>1. k \in 1..Len(todo)
        BY <3>1, <3>2
      <4> QED  BY <2>1, <2>2, <4>1
    <3>3. CASE k > a
      <4>1. a + (k - a) = k /\ m + (k - a) = L + k
        BY <1>1, <1>3, <2>3, <3>1
      <4>2. k - a \in 1..n
        BY <3>1, <3>3
      <4>3. more[a + (k - a)] = q[m + (k - a)]
        BY <2>2, <4>2
      <4> QED  BY <4>1, <4>3
    <3> QED  BY <3>1, <3>2, <3>3
  <2> QED  BY <2>1, <2>4, <2>5
<1>6. ~peer => more = <<>>
  BY DEF Stream
<1> QED  BY <1>1, <1>4, <1>5, <1>6 DEF Stream, next


\* The server answers the oldest command it has.
LEMMA StreamAnswer ==
  ASSUME NEW s \in Seq(Token), NEW q \in Seq(Ops), NEW m, NEW S, NEW todo \in Seq(S),
         Stream(s, q, m, todo, TRUE), todo # <<>>
  PROVE  /\ Head(todo) \in Ops
         /\ Stream(s \o Reply(Head(todo)), q, m, Tail(todo), TRUE)
<1> DEFINE ops == SubSeq(q, 1, m)
           L   == Leaves(s, Len(s))
<1>1. /\ m \in 0..Len(q) /\ Speaks(s, ops) /\ m \in Nat /\ Boundary(s, Len(s))
      /\ Len(todo) = m - L /\ \A n \in 1..Len(todo) : todo[n] = q[L + n]
  BY DEF Stream
<1>2. /\ ops \in Seq(Ops) /\ Len(ops) = m /\ \A k \in 1..m : ops[k] = q[k]
  BY <1>1, TakeIs
<1>3. L \in Nat
  BY LeavesStep
<1>4. /\ Len(todo) \in Nat /\ 1 \in 1..Len(todo) /\ Head(todo) = todo[1]
      /\ Len(Tail(todo)) = Len(todo) - 1
      /\ \A n \in 1..(Len(todo) - 1) : Tail(todo)[n] = todo[n + 1]
  OBVIOUS
<1> DEFINE k    == L + 1
           left == Tail(todo)
<1> HIDE DEF ops, left
<1>5. k = Leaves(s, Len(s)) + 1 /\ k <= Len(ops) /\ k \in 1..m
  BY <1>1, <1>2, <1>3, <1>4
<1>6. ops[k] = Head(todo) /\ Head(todo) \in Ops
  <2>1. Head(todo) = q[k]
    BY <1>1, <1>4
  <2>2. ops[k] = q[k] /\ ops[k] \in Ops
    BY <1>2, <1>5
  <2> QED  BY <2>1, <2>2
<1> DEFINE t == s \o Reply(ops[k])
<1>7. t \in Seq(Token) /\ Speaks(t, ops) /\ Boundary(t, Len(t)) /\ Leaves(t, Len(t)) = k
  <2> HIDE DEF k
  <2> QED  BY <1>1, <1>2, <1>5, ExtendSpeaks
<1>8. /\ Len(left) = m - k
      /\ \A n \in 1..Len(left) : left[n] = q[k + n]
  <2> HIDE DEF L
  <2>1. Len(left) = m - k
    BY <1>1, <1>3, <1>4 DEF left
  <2>2. ASSUME NEW n \in 1..Len(left) PROVE left[n] = q[k + n]
    <3>1. n \in 1..(Len(todo) - 1) /\ n + 1 \in 1..Len(todo) /\ L + (n + 1) = k + n
      BY <1>1, <1>3, <1>4, <2>1
    <3>2. left[n] = todo[n + 1]
      BY <1>4, <3>1 DEF left
    <3>3. todo[n + 1] = q[L + (n + 1)]
      BY <1>1, <3>1
    <3> QED  BY <3>1, <3>2, <3>3
  <2> QED  BY <2>1, <2>2
<1> HIDE DEF t, k
<1>9. Stream(t, q, m, left, TRUE)
  BY <1>1, <1>7, <1>8 DEF Stream, ops
<1>10. t = s \o Reply(Head(todo))
  BY <1>6 DEF t
<1> QED  BY <1>6, <1>9, <1>10 DEF left

\* The reader takes whole replies, and the ring loses their commands.
LEMMA StreamPop ==
  ASSUME NEW s \in Seq(Token), NEW q \in Seq(Ops), NEW m, NEW todo, NEW peer,
         Stream(s, q, m, todo, peer),
         NEW l \in 0..Len(s), Boundary(s, l),
         NEW t \in Seq(Token), Len(t) = Len(s) - l,
         \A n \in 1..Len(t) : t[n] = s[l + n],
         NEW r \in Seq(Ops), Len(r) = Len(q) - Leaves(s, l),
         \A n \in 1..Len(r) : r[n] = q[Leaves(s, l) + n]
  PROVE  /\ Leaves(s, l) \in 0..m
         /\ Stream(t, r, m - Leaves(s, l), todo, peer)
<1> DEFINE ops  == SubSeq(q, 1, m)
           k    == Leaves(s, l)
           rest == SubSeq(r, 1, m - k)
           L    == Leaves(s, Len(s))
<1>1. /\ m \in 0..Len(q) /\ Speaks(s, ops) /\ m \in Nat /\ Len(q) \in Nat
      /\ l \in Nat /\ Len(s) \in Nat
  BY DEF Stream
<1>2. /\ ops \in Seq(Ops) /\ Len(ops) = m /\ \A n \in 1..m : ops[n] = q[n]
  BY <1>1, TakeIs
<1>3. L \in Nat /\ k \in Nat
  BY <1>1, LeavesStep
<1>4. /\ t \in Seq(Token) /\ Len(t) = Len(s) - l
      /\ \A n \in 1..Len(t) : t[n] = s[l + n]
  OBVIOUS
<1> HIDE DEF ops, rest, L
<1>5. k \in 0..m
  BY <1>1, <1>2, LeavesBound
<1>6. /\ r \in Seq(Ops) /\ Len(r) = Len(q) - k
      /\ \A n \in 1..(Len(q) - k) : r[n] = q[k + n]
  OBVIOUS
<1> HIDE DEF k
<1>7. m - k \in 0..Len(r) /\ m - k \in Nat
  BY <1>1, <1>3, <1>5, <1>6
<1>8. /\ rest \in Seq(Ops) /\ Len(rest) = m - k
      /\ \A n \in 1..(m - k) : rest[n] = r[n]
  BY <1>6, <1>7, TakeIs DEF rest
<1>9. /\ Speaks(t, rest)
      /\ \A n \in 0..Len(t) : Leaves(t, n) = Leaves(s, l + n) - k
  <2>1. /\ Len(rest) = Len(ops) - Leaves(s, l)
        /\ \A n \in 1..Len(rest) : rest[n] = ops[Leaves(s, l) + n]
    <3> SUFFICES ASSUME NEW n \in 1..(m - k) PROVE rest[n] = ops[k + n]
      BY <1>2, <1>8 DEF k
    <3>1. k + n \in 1..m /\ n \in 1..(Len(q) - k)
      BY <1>1, <1>3, <1>5
    <3> QED  BY <1>2, <1>6, <1>8, <3>1
  <2> QED  BY <1>1, <1>2, <1>4, <1>8, <2>1, DropSpeaks DEF k
<1>10. Leaves(t, Len(t)) = L - k
  <2>1. Len(t) \in 0..Len(t) /\ l + Len(t) = Len(s)
    BY <1>1, <1>4
  <2> QED  BY <1>9, <2>1 DEF L
<1>11. ASSUME peer
       PROVE  /\ Boundary(t, Len(t))
              /\ Len(todo) = (m - k) - Leaves(t, Len(t))
              /\ \A n \in 1..Len(todo) : todo[n] = r[Leaves(t, Len(t)) + n]
  <2>1. /\ Boundary(s, Len(s)) /\ Len(todo) = m - L
        /\ \A n \in 1..Len(todo) : todo[n] = q[L + n]
    BY <1>11 DEF Stream, L
  <2>2. Boundary(t, Len(t))
    <3>1. CASE Len(t) = 0
      BY <3>1 DEF Boundary
    <3>2. CASE Len(t) # 0
      <4>1. Len(t) \in 1..Len(t) /\ l + Len(t) = Len(s) /\ Len(s) # 0
        BY <1>1, <1>4, <3>2
      <4>2. t[Len(t)] = s[Len(s)]
        BY <1>4, <4>1
      <4> QED  BY <2>1, <4>1, <4>2 DEF Boundary
    <3> QED  BY <3>1, <3>2
  <2>3. Len(todo) = (m - k) - (L - k)
    BY <1>1, <1>3, <2>1
  <2>4. L - k \in Nat
    <3>1. Leaves(t, Len(t)) \in Nat
      <4>1. Len(t) \in Nat
        BY <1>4
      <4> QED  BY <4>1, LeavesStep
    <3> QED  BY <1>10, <3>1
  <2>5. ASSUME NEW n \in 1..Len(todo) PROVE todo[n] = r[(L - k) + n]
    <3>1. n \in Nat /\ n <= m - L
      BY <2>1
    <3>2. (L - k) + n \in 1..(Len(q) - k) /\ k + ((L - k) + n) = L + n
      BY <1>1, <1>3, <2>4, <3>1
    <3> QED  BY <1>6, <2>1, <3>2
  <2> QED  BY <1>10, <2>2, <2>3, <2>5
<1>12. ~peer => todo = <<>>
  BY DEF Stream
<1>13. Stream(t, r, m - k, todo, peer)
  BY <1>7, <1>9, <1>11, <1>12 DEF Stream, rest
<1> QED  BY <1>5, <1>13 DEF k


(***************************************************************************)
(* What is on the connection, in two parts: what the parser has, and what  *)
(* is still on its way.                                                    *)
(***************************************************************************)

LEMMA SameSequence ==
  ASSUME NEW S, NEW s \in Seq(S), NEW t \in Seq(S), Len(s) = Len(t),
         \A n \in 1..Len(s) : s[n] = t[n]
  PROVE  s = t
OBVIOUS

\* A receive takes n tokens from the one part to the other.
LEMMA Received ==
  ASSUME NEW a \in Seq(Token), NEW w \in Seq(Token), NEW n \in 0..Len(w)
  PROVE  /\ a \o Take(w, n) \in Seq(Token) /\ Len(a \o Take(w, n)) = Len(a) + n
         /\ Len(a \o Take(w, n)) <= Len(a \o w)
         /\ \A k \in 1..Len(a \o Take(w, n)) : (a \o Take(w, n))[k] = (a \o w)[k]
         /\ (a \o Take(w, n)) \o Drop(w, n) = a \o w
<1> DEFINE b == Take(w, n)
           c == Drop(w, n)
           A == a \o b
           W == a \o w
           B == A \o c
<1>1. Len(w) \in Nat /\ Len(a) \in Nat /\ n \in Nat /\ n <= Len(w)
  OBVIOUS
<1>2. /\ b \in Seq(Token) /\ Len(b) = n /\ \A k \in 1..n : b[k] = w[k]
  <2>1. 0 \in 0..Len(w) /\ n \in 0..Len(w) /\ n - 0 = n /\ \A k \in 1..n : 0 + k = k
    BY <1>1
  <2>2. /\ SubSeq(w, 0 + 1, n) \in Seq(Token) /\ Len(SubSeq(w, 0 + 1, n)) = n - 0
        /\ \A k \in 1..(n - 0) : SubSeq(w, 0 + 1, n)[k] = w[0 + k]
    BY <2>1, SubSeqType
  <2>3. 0 + 1 = 1
    OBVIOUS
  <2> QED  BY <2>1, <2>2, <2>3 DEF Take
<1>3. /\ c \in Seq(Token) /\ Len(c) = Len(w) - n /\ \A k \in 1..(Len(w) - n) : c[k] = w[n + k]
  <2>1. Len(w) \in n..Len(w)
    BY <1>1
  <2> QED  BY <2>1, SubSeqType DEF Drop
<1> HIDE DEF b, c, A, W, B
<1>4. /\ A \in Seq(Token) /\ Len(A) = Len(a) + n
      /\ \A k \in 1..Len(a) : A[k] = a[k]
      /\ \A k \in 1..n : A[Len(a) + k] = w[k]
  <2>1. b \in Seq(Token)
    BY <1>2
  <2>2. /\ A \in Seq(Token) /\ Len(A) = Len(a) + Len(b)
        /\ \A k \in 1..Len(a) : A[k] = a[k]
        /\ \A k \in 1..Len(b) : A[Len(a) + k] = b[k]
    BY <2>1, ConcatParts DEF A
  <2> QED  BY <1>2, <2>2
<1>5. /\ W \in Seq(Token) /\ Len(W) = Len(a) + Len(w)
      /\ \A k \in 1..Len(a) : W[k] = a[k]
      /\ \A k \in 1..Len(w) : W[Len(a) + k] = w[k]
  BY ConcatParts DEF W
<1>6. /\ B \in Seq(Token) /\ Len(B) = Len(A) + Len(c)
      /\ \A k \in 1..Len(A) : B[k] = A[k]
      /\ \A k \in 1..Len(c) : B[Len(A) + k] = c[k]
  <2>1. A \in Seq(Token) /\ c \in Seq(Token)
    BY <1>3, <1>4
  <2> QED  BY <2>1, ConcatParts DEF B
<1>7. \A k \in 1..Len(A) : A[k] = W[k]
  <2> SUFFICES ASSUME NEW k \in 1..(Len(a) + n) PROVE A[k] = W[k]
    BY <1>4
  <2>1. CASE k <= Len(a)
    BY <1>4, <1>5, <2>1
  <2>2. CASE k > Len(a)
    <3>1. k - Len(a) \in 1..n /\ k - Len(a) \in 1..Len(w) /\ Len(a) + (k - Len(a)) = k
      BY <1>1, <2>2
    <3>2. A[Len(a) + (k - Len(a))] = w[k - Len(a)] /\ W[Len(a) + (k - Len(a))] = w[k - Len(a)]
      BY <1>4, <1>5, <3>1
    <3> QED  BY <3>1, <3>2
  <2> QED  BY <1>1, <2>1, <2>2
<1>8. \A k \in 1..Len(B) : B[k] = W[k]
  <2> SUFFICES ASSUME NEW k \in 1..Len(B) PROVE B[k] = W[k]
    OBVIOUS
  <2>1. Len(A) \in Nat /\ Len(c) \in Nat /\ k \in Nat /\ k <= Len(A) + Len(c) /\ k >= 1
    BY <1>1, <1>3, <1>4, <1>6
  <2>2. CASE k <= Len(A)
    <3>1. k \in 1..Len(A)
      BY <2>1, <2>2
    <3> QED  BY <1>6, <1>7, <3>1
  <2>3. CASE k > Len(A)
    <3> DEFINE j == k - Len(A)
    <3>1. j \in 1..Len(c) /\ Len(A) + j = k
      BY <2>1, <2>3
    <3>2. j \in 1..(Len(w) - n) /\ n + j \in 1..Len(w) /\ Len(a) + (n + j) = k
      BY <1>1, <1>3, <1>4, <2>1, <3>1
    <3> HIDE DEF j
    <3>3. B[k] = c[j] /\ c[j] = w[n + j]
      BY <1>3, <1>6, <3>1, <3>2
    <3>4. W[k] = w[n + j]
      BY <1>5, <3>2
    <3> QED  BY <3>3, <3>4
  <2> QED  BY <2>1, <2>2, <2>3
<1>9. Len(B) = Len(W)
  BY <1>1, <1>3, <1>4, <1>5, <1>6
<1>10. B = W
  BY <1>5, <1>6, <1>8, <1>9, SameSequence
<1>11. Len(A) <= Len(W)
  BY <1>1, <1>4, <1>5
<1> QED  BY <1>4, <1>7, <1>10, <1>11 DEF A, W, B, b, c

\* The stream of a handshake that breaks.
LEMMA GreetingCut ==
  ASSUME NEW s \in Seq(Token), NEW todo, NEW peer, Greeting(s, todo, peer),
         NEW t \in Seq(Token), Len(t) <= Len(s), \A n \in 1..Len(t) : t[n] = s[n]
  PROVE  Greeting(t, <<>>, FALSE)
<1>1. PICK h \in HelloAnswers, a \in SelectAnswers : Greets(s, h, a)
  BY DEF Greeting
<1>2. Len(h) \in Nat /\ Len(s) \in Nat /\ Len(t) \in Nat
  BY AnswersAre
<1>3. Greets(t, h, a)
  <2>1. Len(t) <= Len(h) + 1
    BY <1>1, <1>2 DEF Greets
  <2>2. \A n \in 1..Len(t) : n \in 1..Len(s)
    BY <1>2
  <2> QED  BY <1>1, <2>1, <2>2 DEF Greets
<1> QED  BY <1>3 DEF Greeting

\* The server answers HELLO, then SELECT.
LEMMA GreetingAnswer ==
  ASSUME NEW s \in Seq(Token), NEW todo, Greeting(s, todo, TRUE), todo # <<>>,
         NEW x \in Answers(Head(todo))
  PROVE  Greeting(s \o x, Tail(todo), TRUE)
<1>1. PICK h \in HelloAnswers, a \in SelectAnswers :
        /\ Greets(s, h, a)
        /\ \/ todo = <<"HELLO", "SELECT">> /\ Len(s) = 0
           \/ todo = <<"SELECT">> /\ Len(s) = Len(h)
  BY DEF Greeting
<1>2. Len(h) \in Nat /\ Len(s) \in Nat /\ Len(a) = 1
  BY AnswersAre
<1> DEFINE t == s \o x
<1>3. CASE todo = <<"HELLO", "SELECT">> /\ Len(s) = 0
  <2>1. Head(todo) = "HELLO" /\ Tail(todo) = <<"SELECT">>
    BY <1>3
  <2>2. x \in HelloAnswers /\ x \in Seq(Token) /\ Len(x) \in Nat
    BY <2>1, AnswersAre
  <2>3. /\ Len(t) = Len(s) + Len(x)
        /\ \A n \in 1..Len(x) : t[Len(s) + n] = x[n]
    BY <2>2, ConcatParts
  <2> HIDE DEF t
  <2>4. Len(t) = Len(x) /\ \A n \in 1..Len(x) : t[n] = x[n]
    BY <1>3, <2>2, <2>3
  <2>5. Greets(t, x, a)
    <3>1. Len(t) <= Len(x) + 1
      BY <2>2, <2>4
    <3> QED  BY <2>2, <2>4, <3>1 DEF Greets
  <2> QED  BY <2>1, <2>2, <2>4, <2>5 DEF Greeting, t
<1>4. CASE todo = <<"SELECT">> /\ Len(s) = Len(h)
  <2>1. Head(todo) = "SELECT" /\ Tail(todo) = <<>>
    BY <1>4
  <2>2. x \in SelectAnswers /\ x \in Seq(Token) /\ Len(x) = 1
    BY <2>1, AnswersAre
  <2>3. /\ Len(t) = Len(s) + 1
        /\ \A n \in 1..Len(s) : t[n] = s[n]
        /\ t[Len(s) + 1] = x[1]
    <3>1. /\ Len(t) = Len(s) + Len(x)
          /\ \A n \in 1..Len(s) : t[n] = s[n]
          /\ \A n \in 1..Len(x) : t[Len(s) + n] = x[n]
      BY <2>2, ConcatParts
    <3> QED  BY <2>2, <3>1
  <2> HIDE DEF t
  <2>4. Greets(t, h, x)
    <3>1. ASSUME NEW n \in 1..Len(t)
          PROVE  t[n] = IF n <= Len(h) THEN h[n] ELSE x[1]
      <4>1. CASE n <= Len(h)
        <5>1. n \in 1..Len(s)
          BY <1>2, <1>4, <4>1
        <5> QED  BY <1>1, <2>3, <4>1, <5>1 DEF Greets
      <4>2. CASE ~(n <= Len(h))
        <5>1. n = Len(s) + 1
          BY <1>2, <1>4, <2>3, <4>2
        <5> QED  BY <2>3, <4>2, <5>1
      <4> QED  BY <4>1, <4>2
    <3>2. Len(t) <= Len(h) + 1
      BY <1>2, <1>4, <2>3
    <3> QED  BY <3>1, <3>2 DEF Greets
  <2>5. Len(t) = Len(h) + 1
    BY <1>4, <2>3
  <2> QED  BY <2>1, <2>2, <2>4, <2>5 DEF Greeting, t
<1> QED  BY <1>1, <1>3, <1>4


\* Behind the answer to HELLO comes the one to SELECT, or nothing.
LEMMA AfterHello ==
  ASSUME NEW s \in Seq(Token), NEW h \in HelloAnswers, NEW a \in SelectAnswers,
         Greets(s, h, a), Len(h) <= Len(s),
         NEW t \in Seq(Token), Len(t) = Len(s) - Len(h),
         \A n \in 1..Len(t) : t[n] = s[Len(h) + n]
  PROVE  \/ t = <<>> /\ Len(s) = Len(h)
         \/ t = a /\ Len(s) = Len(h) + 1
<1>1. /\ Len(h) \in Nat /\ Len(s) \in Nat /\ Len(a) = 1 /\ a \in Seq(Token)
      /\ Len(s) <= Len(h) + 1
  BY AnswersAre DEF Greets
<1>2. CASE Len(s) = Len(h)
  BY <1>1, <1>2
<1>3. CASE Len(s) = Len(h) + 1
  <2>1. Len(t) = 1 /\ 1 \in 1..Len(t) /\ Len(h) + 1 \in 1..Len(s) /\ ~(Len(h) + 1 <= Len(h))
    BY <1>1, <1>3
  <2>2. t[1] = a[1]
    BY <2>1 DEF Greets
  <2>3. \A n \in 1..Len(t) : t[n] = a[n]
    <3>1. \A n \in 1..Len(t) : n = 1
      BY ONLY <2>1
    <3> QED  BY ONLY <2>2, <3>1
  <2>4. t = a
    <3> HIDE DEF SelectAnswers
    <3> QED  BY <1>1, <2>1, <2>3, SameSequence
  <2> QED  BY <1>3, <2>4
<1> QED  BY <1>1, <1>2, <1>3

LEMMA GreetingSound ==
  ASSUME NEW s \in Seq(Token), NEW todo, NEW peer, Greeting(s, todo, peer),
         NEW b \in Seq(Token), Len(b) <= Len(s), \A n \in 1..Len(b) : b[n] = s[n]
  PROVE  Sound(b) = b
<1>1. PICK h \in HelloAnswers, a \in SelectAnswers : Greets(s, h, a)
  BY DEF Greeting
<1>2. Len(h) \in Nat /\ Len(s) \in Nat /\ Len(b) \in Nat
  BY AnswersAre
<1>3. Greets(b, h, a)
  <2>1. Len(b) <= Len(h) + 1
    BY <1>1, <1>2 DEF Greets
  <2>2. \A n \in 1..Len(b) : n \in 1..Len(s)
    BY <1>2
  <2> QED  BY <1>1, <2>1, <2>2 DEF Greets
<1> QED  BY <1>3, GreetsFrame

\* The reply the parser takes for the one to HELLO is the one to HELLO.
LEMMA GreetingFrame ==
  ASSUME NEW s \in Seq(Token), NEW todo, NEW peer, Greeting(s, todo, peer),
         NEW b \in Seq(Token), Len(b) <= Len(s), \A n \in 1..Len(b) : b[n] = s[n],
         Frames(b) # <<>>,
         NEW t \in Seq(Token), Len(t) = Len(s) - Len(Frames(b)[1]),
         \A n \in 1..Len(t) : t[n] = s[Len(Frames(b)[1]) + n],
         NEW c \in Seq(Token), Len(c) = Len(b) - Len(Frames(b)[1]),
         \A n \in 1..Len(c) : c[n] = b[Len(Frames(b)[1]) + n]
  PROVE  Selecting(t, todo, peer) /\ c \in SelectAnswers \cup {<<>>}
<1>1. PICK h \in HelloAnswers, a \in SelectAnswers :
        /\ Greets(s, h, a)
        /\ IF peer
           THEN \/ todo = <<"HELLO", "SELECT">> /\ Len(s) = 0
                \/ todo = <<"SELECT">> /\ Len(s) = Len(h)
                \/ todo = <<>> /\ Len(s) = Len(h) + 1
           ELSE todo = <<>>
  BY DEF Greeting
<1>2. Len(h) \in Nat /\ Len(h) >= 1 /\ Len(s) \in Nat /\ Len(b) \in Nat
  BY AnswersAre
<1>3. Greets(b, h, a)
  <2>1. Len(b) <= Len(h) + 1
    BY <1>1, <1>2 DEF Greets
  <2>2. \A n \in 1..Len(b) : n \in 1..Len(s)
    BY <1>2
  <2> QED  BY <1>1, <2>1, <2>2 DEF Greets
<1>4. Len(Frames(b)[1]) = Len(h) /\ Len(h) <= Len(b)
  BY <1>3, GreetsFrame
<1>5. \/ t = <<>> /\ Len(s) = Len(h)
      \/ t = a /\ Len(s) = Len(h) + 1
  <2>1. /\ Len(h) <= Len(s) /\ Len(t) = Len(s) - Len(h)
        /\ \A n \in 1..Len(t) : t[n] = s[Len(h) + n]
    BY <1>2, <1>4
  <2> QED  BY <1>1, <2>1, AfterHello
<1>6. c = <<>> \/ c = a
  <2>1. /\ Len(h) <= Len(b) /\ Len(c) = Len(b) - Len(h)
        /\ \A n \in 1..Len(c) : c[n] = b[Len(h) + n]
    BY <1>2, <1>4
  <2> QED  BY <1>3, <2>1, AfterHello
<1>7. Selecting(t, todo, peer)
  BY <1>1, <1>2, <1>5 DEF Selecting
<1> QED  BY <1>6, <1>7

LEMMA SelectingCut ==
  ASSUME NEW s \in Seq(Token), NEW todo, NEW peer, Selecting(s, todo, peer),
         NEW t \in Seq(Token), Len(t) <= Len(s), \A n \in 1..Len(t) : t[n] = s[n]
  PROVE  Selecting(t, <<>>, FALSE)
<1>1. Len(t) \in Nat /\ Len(s) \in Nat
  OBVIOUS
<1>2. CASE s = <<>>
  <2>1. t = <<>>
    BY <1>1, <1>2
  <2> QED  BY <2>1 DEF Selecting
<1>3. CASE s \in SelectAnswers
  <2>1. Len(s) = 1
    BY <1>3, AnswersAre
  <2>2. t = <<>> \/ Len(t) = Len(s)
    BY <1>1, <2>1
  <2>3. Len(t) = Len(s) => t = s
    BY SameSequence
  <2> QED  BY <1>3, <2>2, <2>3 DEF Selecting
<1> QED  BY <1>2, <1>3 DEF Selecting

LEMMA SelectingAnswer ==
  ASSUME NEW s \in Seq(Token), NEW todo, Selecting(s, todo, TRUE), todo # <<>>,
         NEW x \in Answers(Head(todo))
  PROVE  Selecting(s \o x, Tail(todo), TRUE)
<1>1. todo = <<"SELECT">> /\ s = <<>>
  BY DEF Selecting
<1>2. Head(todo) = "SELECT" /\ Tail(todo) = <<>>
  BY <1>1
<1>3. x \in SelectAnswers /\ x \in Seq(Token)
  BY <1>2, AnswersAre
<1>4. s \o x = x
  BY <1>1, <1>3
<1> QED  BY <1>2, <1>3, <1>4 DEF Selecting

\* The reply the parser takes for the one to SELECT is all there is.
LEMMA SelectingFrame ==
  ASSUME NEW s \in Seq(Token), NEW todo, NEW peer, Selecting(s, todo, peer),
         NEW b \in Seq(Token), Len(b) <= Len(s), \A n \in 1..Len(b) : b[n] = s[n]
  PROVE  /\ Sound(b) = b
         /\ Frames(b) # <<>> => /\ Len(Frames(b)[1]) = 1 /\ Len(s) = 1 /\ Len(b) = 1
                                /\ todo = <<>>
<1>1. Len(b) \in Nat /\ Len(s) \in Nat
  OBVIOUS
<1>2. \/ Len(s) = 0
      \/ Len(s) = 1 /\ s[1].kind \in {"ok", "leaf"} /\ todo = <<>>
  BY AnswersAre DEF Selecting
<1>3. \A n \in 1..Len(b) : b[n].kind # "bad"
  BY <1>1, <1>2
<1>4. Sound(b) = b
  BY <1>3, SoundIs
<1>5. ASSUME Frames(b) # <<>>
      PROVE  /\ Len(Frames(b)[1]) = 1 /\ Len(s) = 1 /\ Len(b) = 1
             /\ todo = <<>>
  <2>1. Len(Frames(b)[1]) \in 1..Len(b)
    BY <1>5, FirstFrameLength
  <2> QED  BY <1>1, <1>2, <2>1
<1> QED  BY <1>4, <1>5


(***************************************************************************)
(* The rest of the inductive invariant, and its steps.                     *)
(***************************************************************************)

Right == (\A o \in Ops : fate[o] # "wrong_reply") /\ worker # "crashed"

Good == StreamInv /\ HandshakeInv /\ Right

ReplyInv == ~garbled => Good

\* A step that leaves the connection as it is.
LEMMA SameStream ==
  ASSUME Good, worker' = worker, \A o \in Ops : fate'[o] \in {fate[o], "conn_err"},
         UNCHANGED <<linebuf, wire, torn, queue, committed, iov, srv, up>>
  PROVE  Good'
<1>1. StreamInv'
  BY DEF Good, StreamInv
<1>2. HandshakeInv'
  BY DEF Good, HandshakeInv
<1>3. Right'
  BY DEF Good, Right
<1> QED  BY <1>1, <1>2, <1>3 DEF Good

\* A step that gives the connection up.
LEMMA NoStream ==
  ASSUME Good, \A o \in Ops : fate'[o] \in {fate[o], "conn_err"},
         \/ worker' \in {"none", "drain", "last_drain", "deleted"}
         \/ worker' \in {"tcp", "backoff"} /\ linebuf' \in SelectAnswers \cup {<<>>}
  PROVE  Good'
<1>1. StreamInv' /\ HandshakeInv'
  BY DEF StreamInv, HandshakeInv
<1>2. Right'
  BY DEF Good, Right
<1> QED  BY <1>1, <1>2 DEF Good

LEMMA GoodInit == Init => Good
<1> SUFFICES ASSUME Init PROVE Good
  OBVIOUS
<1>1. StreamInv /\ HandshakeInv
  BY DEF Init, StreamInv, HandshakeInv
<1>2. Right
  BY DEF Init, Right
<1> QED  BY <1>1, <1>2 DEF Good

\* A command that joins the ring is behind those that were sent.
LEMMA AwaitGood ==
  ASSUME RingInv, Good, NEW o \in Ops, Await(o)
  PROVE  Good'
<1> USE DEF eventfd, writer, parser, socket, control
<1>1. /\ worker' = worker
      /\ UNCHANGED <<linebuf, wire, torn, committed, iov, srv, up>>
  BY DEF Await
<1>2. Right'
  <2>1. \A p \in Ops : fate'[p] \in {fate[p], "conn_err", "ring_overflow", "queued"}
    BY DEF Await, SetFate
  <2> QED  BY <1>1, <2>1 DEF Good, Right
<1>3. HandshakeInv'
  BY <1>1 DEF Good, HandshakeInv
<1>4. StreamInv'
  <2> SUFFICES ASSUME worker = "run"
               PROVE  /\ torn # "stale" /\ Len(iov) <= committed
                      /\ \A n \in 1..Len(iov) : iov[n] = queue'[committed - Len(iov) + n]
                      /\ Stream(linebuf \o wire, queue', committed - Len(iov), srv, up)
    BY <1>1 DEF StreamInv
  <2>1. /\ torn # "stale" /\ Len(iov) <= committed
        /\ \A n \in 1..Len(iov) : iov[n] = queue[committed - Len(iov) + n]
        /\ Stream(linebuf \o wire, queue, committed - Len(iov), srv, up)
    BY DEF Good, StreamInv
  <2>2. /\ queue \in Seq(Ops) /\ Len(queue) \in Nat /\ committed \in Nat
        /\ iov \in Seq(Ops) /\ Len(iov) \in Nat
        /\ committed <= Len(queue) /\ linebuf \o wire \in Seq(Token)
    BY Constants DEF RingInv, TypeOK, ModeInv
  <2>3. /\ queue' \in Seq(Ops) /\ Len(queue) <= Len(queue')
        /\ \A k \in 1..Len(queue) : queue'[k] = queue[k]
    <3> DEFINE r == Append(queue, o)
    <3>1. queue' = queue \/ queue' = r
      BY DEF Await
    <3>2. /\ r \in Seq(Ops) /\ Len(queue) <= Len(r)
          /\ \A k \in 1..Len(queue) : r[k] = queue[k]
      BY <2>2
    <3> HIDE DEF r
    <3>3. CASE queue' = queue
      BY <2>2, <3>3
    <3>4. CASE queue' = r
      BY <3>2, <3>4
    <3> QED  BY <3>1, <3>3, <3>4
  <2> DEFINE m == committed - Len(iov)
             s == linebuf \o wire
  <2>4. m \in Nat /\ m <= Len(queue') /\ \A k \in 1..m : queue'[k] = queue[k]
    BY <2>1, <2>2, <2>3
  <2>5. \A n \in 1..Len(iov) : iov[n] = queue'[m + n]
    <3>1. \A n \in 1..Len(iov) : m + n \in 1..Len(queue)
      BY <2>1, <2>2
    <3> QED  BY <2>1, <2>3, <3>1
  <2>6. Stream(s, queue', m, srv, up)
    <3> HIDE DEF m, s
    <3>1. s \in Seq(Token) /\ Stream(s, queue, m, srv, up)
      BY <2>1, <2>2 DEF m, s
    <3> QED  BY <2>2, <2>3, <2>4, <3>1, StreamMore
  <2> QED  BY <2>1, <2>5, <2>6
<1> QED  BY <1>2, <1>3, <1>4 DEF Good

\* The server answers a command it was sent, or HELLO or SELECT.
LEMMA ServerGood ==
  ASSUME RingInv, Good, ServerAnswers
  PROVE  Good'
<1> USE DEF ring, eventfd, writer, parser, control, bounds, history
<1>1. PICK x \in Answers(Head(srv)) : wire' = wire \o x
  BY DEF ServerAnswers
<1>2. /\ up = TRUE /\ srv # <<>> /\ srv' = Tail(srv)
      /\ UNCHANGED <<fate, queue, committed, iov, linebuf, torn, up, worker>>
  BY DEF ServerAnswers, RingInv, TypeOK
<1>3. /\ linebuf \in Seq(Token) /\ wire \in Seq(Token) /\ linebuf \o wire \in Seq(Token)
      /\ srv \in Seq(Ops \cup {"HELLO", "SELECT"})
      /\ Head(srv) \in Ops \cup {"HELLO", "SELECT"} /\ x \in Seq(Token)
  <2>1. /\ linebuf \in Seq(Token) /\ wire \in Seq(Token)
        /\ srv \in Seq(Ops \cup {"HELLO", "SELECT"})
    BY DEF RingInv, TypeOK
  <2>2. Head(srv) \in Ops \cup {"HELLO", "SELECT"}
    BY <1>2, <2>1
  <2> QED  BY <1>1, <2>1, <2>2, ReplyType
<1>4. linebuf \o wire' = (linebuf \o wire) \o x
  BY <1>1, <1>3
<1>5. Right'
  BY <1>2 DEF Good, Right
<1>6. HandshakeInv'
  <2>1. CASE worker = "hello"
    <3>1. CASE linebuf \in SelectAnswers
      BY <1>2, <2>1, <3>1 DEF HandshakeInv
    <3>2. CASE linebuf \notin SelectAnswers
      <4>1. (torn = "stale" => linebuf = <<>>) /\ Greeting(linebuf \o wire, srv, TRUE)
        BY <1>2, <2>1, <3>2 DEF Good, HandshakeInv
      <4>2. Greeting((linebuf \o wire) \o x, Tail(srv), TRUE)
        BY <1>1, <1>2, <1>3, <4>1, GreetingAnswer
      <4> QED  BY <1>2, <1>4, <2>1, <4>1, <4>2 DEF HandshakeInv
    <3> QED  BY <3>1, <3>2
  <2>2. CASE worker = "select"
    <3>1. torn # "stale" /\ Selecting(linebuf \o wire, srv, TRUE)
      BY <1>2, <2>2 DEF Good, HandshakeInv
    <3>2. Selecting((linebuf \o wire) \o x, Tail(srv), TRUE)
      BY <1>1, <1>2, <1>3, <3>1, SelectingAnswer
    <3> QED  BY <1>2, <1>4, <2>2, <3>1, <3>2 DEF HandshakeInv
  <2>3. CASE worker \notin {"hello", "select"}
    BY <1>2, <2>3 DEF Good, HandshakeInv
  <2> QED  BY <2>1, <2>2, <2>3
<1>7. StreamInv'
  <2> SUFFICES ASSUME worker = "run"
               PROVE  /\ torn # "stale" /\ Len(iov) <= committed
                      /\ \A n \in 1..Len(iov) : iov[n] = queue[committed - Len(iov) + n]
                      /\ Stream(linebuf \o wire', queue, committed - Len(iov), srv', TRUE)
    BY <1>2 DEF StreamInv
  <2>1. /\ torn # "stale" /\ Len(iov) <= committed
        /\ \A n \in 1..Len(iov) : iov[n] = queue[committed - Len(iov) + n]
        /\ Stream(linebuf \o wire, queue, committed - Len(iov), srv, TRUE)
    BY <1>2 DEF Good, StreamInv
  <2>2. queue \in Seq(Ops)
    BY DEF RingInv, TypeOK
  <2>3. /\ Head(srv) \in Ops
        /\ Stream((linebuf \o wire) \o Reply(Head(srv)), queue, committed - Len(iov), Tail(srv), TRUE)
    <3> DEFINE m == committed - Len(iov)
               s == linebuf \o wire
    <3> HIDE DEF m, s
    <3>1. s \in Seq(Token) /\ Stream(s, queue, m, srv, TRUE)
      BY <1>3, <2>1 DEF m, s
    <3>2. Head(srv) \in Ops /\ Stream(s \o Reply(Head(srv)), queue, m, Tail(srv), TRUE)
      BY <1>2, <1>3, <2>2, <3>1, StreamAnswer
    <3> QED  BY <3>2 DEF m, s
  <2>4. x = Reply(Head(srv))
    BY <1>1, <2>3, OpsAssumption DEF Answers
  <2> QED  BY <1>2, <1>4, <2>1, <2>3, <2>4
<1> QED  BY <1>5, <1>6, <1>7 DEF Good

\* A connection that breaks loses the end of what is on its way, and what
\* the server has not answered.
LEMMA PeerGood ==
  ASSUME RingInv, Good, PeerCloses
  PROVE  Good'
<1> USE DEF ring, eventfd, writer, parser, control, bounds, history
<1>1. PICK n \in 0..Len(wire) : wire' = Take(wire, n)
  BY DEF PeerCloses
<1>2. /\ up' = FALSE /\ srv' = <<>>
      /\ UNCHANGED <<fate, queue, committed, iov, linebuf, torn, worker>>
  BY DEF PeerCloses
<1> DEFINE s == linebuf \o wire
           t == linebuf \o Take(wire, n)
           m == committed - Len(iov)
<1>3. linebuf \in Seq(Token) /\ wire \in Seq(Token) /\ queue \in Seq(Ops) /\ s \in Seq(Token)
  BY DEF RingInv, TypeOK
<1>4. t \in Seq(Token) /\ Len(t) <= Len(s) /\ \A k \in 1..Len(t) : t[k] = s[k]
  BY <1>3, Received
<1>5. linebuf' \o wire' = t
  BY <1>1, <1>2
<1> HIDE DEF s, t, m
<1>6. Right'
  BY <1>2 DEF Good, Right
<1>7. HandshakeInv'
  <2>1. CASE worker = "hello"
    <3>1. CASE linebuf \in SelectAnswers
      BY <1>2, <2>1, <3>1 DEF HandshakeInv
    <3>2. CASE linebuf \notin SelectAnswers
      <4>1. (torn = "stale" => linebuf = <<>>) /\ Greeting(s, srv, up)
        BY <2>1, <3>2 DEF Good, HandshakeInv, s
      <4>2. Greeting(t, <<>>, FALSE)
        BY <1>3, <1>4, <4>1, GreetingCut
      <4> QED  BY <1>2, <1>5, <2>1, <4>1, <4>2 DEF HandshakeInv
    <3> QED  BY <3>1, <3>2
  <2>2. CASE worker = "select"
    <3>1. torn # "stale" /\ Selecting(s, srv, up)
      BY <2>2 DEF Good, HandshakeInv, s
    <3>2. Selecting(t, <<>>, FALSE)
      BY <1>3, <1>4, <3>1, SelectingCut
    <3> QED  BY <1>2, <1>5, <2>2, <3>1, <3>2 DEF HandshakeInv
  <2>3. CASE worker \notin {"hello", "select"}
    BY <1>2, <2>3 DEF Good, HandshakeInv
  <2> QED  BY <2>1, <2>2, <2>3
<1>8. StreamInv'
  <2> SUFFICES ASSUME worker = "run" PROVE StreamInv'
    BY <1>2 DEF StreamInv
  <2>1. /\ torn # "stale" /\ Len(iov) <= committed
        /\ \A k \in 1..Len(iov) : iov[k] = queue[committed - Len(iov) + k]
        /\ Stream(s, queue, m, srv, up)
    BY DEF Good, StreamInv, s, m
  <2>2. Stream(t, queue, m, <<>>, FALSE)
    BY <1>3, <1>4, <2>1, StreamCut
  <2> QED  BY <1>2, <1>5, <2>1, <2>2 DEF StreamInv, m
<1> QED  BY <1>6, <1>7, <1>8 DEF Good


\* The parser gives up the first e tokens of what it has.
LEMMA Parsed ==
  ASSUME NEW b \in Seq(Token), NEW w \in Seq(Token), NEW e \in 0..Len(b)
  PROVE  /\ Drop(b, e) \in Seq(Token) /\ Len(Drop(b, e)) = Len(b) - e
         /\ \A n \in 1..Len(Drop(b, e)) : Drop(b, e)[n] = b[e + n]
         /\ Drop(b, e) \o w \in Seq(Token) /\ Len(Drop(b, e) \o w) = Len(b \o w) - e
         /\ \A n \in 1..Len(Drop(b, e) \o w) : (Drop(b, e) \o w)[n] = (b \o w)[e + n]
<1> DEFINE c == Drop(b, e)
           t == c \o w
           s == b \o w
<1>1. Len(b) \in Nat /\ Len(w) \in Nat /\ e \in Nat /\ e <= Len(b)
  OBVIOUS
<1>2. /\ c \in Seq(Token) /\ Len(c) = Len(b) - e
      /\ \A n \in 1..(Len(b) - e) : c[n] = b[e + n]
  <2>1. Len(b) \in e..Len(b)
    BY <1>1
  <2> QED  BY <2>1, SubSeqType DEF Drop
<1> HIDE DEF c, t, s
<1>3. /\ t \in Seq(Token) /\ Len(t) = Len(c) + Len(w)
      /\ \A n \in 1..Len(c) : t[n] = c[n]
      /\ \A n \in 1..Len(w) : t[Len(c) + n] = w[n]
  <2>1. c \in Seq(Token)
    BY <1>2
  <2> QED  BY <2>1, ConcatParts DEF t
<1>4. /\ s \in Seq(Token) /\ Len(s) = Len(b) + Len(w)
      /\ \A n \in 1..Len(b) : s[n] = b[n]
      /\ \A n \in 1..Len(w) : s[Len(b) + n] = w[n]
  BY ConcatParts DEF s
<1>5. Len(t) = Len(s) - e
  BY <1>1, <1>2, <1>3, <1>4
<1>6. ASSUME NEW n \in 1..Len(t) PROVE t[n] = s[e + n]
  <2>1. Len(c) \in Nat /\ n \in Nat /\ n >= 1 /\ n <= Len(c) + Len(w)
    BY <1>1, <1>2, <1>3
  <2>2. CASE n <= Len(c)
    <3>1. n \in 1..Len(c) /\ n \in 1..(Len(b) - e) /\ e + n \in 1..Len(b)
      BY <1>1, <1>2, <2>1, <2>2
    <3> QED  BY <1>2, <1>3, <1>4, <3>1
  <2>3. CASE n > Len(c)
    <3> DEFINE j == n - Len(c)
    <3>1. j \in 1..Len(w) /\ Len(c) + j = n /\ Len(b) + j = e + n
      BY <1>1, <1>2, <2>1, <2>3
    <3> HIDE DEF j
    <3>2. t[n] = w[j] /\ s[e + n] = w[j]
      BY <1>3, <1>4, <3>1
    <3> QED  BY <3>2
  <2> QED  BY <2>1, <2>2, <2>3
<1> QED  BY <1>2, <1>3, <1>5, <1>6 DEF c, t, s

\* The prefix the parser has.
LEMMA Held ==
  ASSUME NEW b \in Seq(Token), NEW w \in Seq(Token)
  PROVE  /\ b \o w \in Seq(Token) /\ Len(b) <= Len(b \o w)
         /\ \A n \in 1..Len(b) : b[n] = (b \o w)[n]
<1>1. Len(b) \in Nat /\ Len(w) \in Nat
  OBVIOUS
<1>2. /\ b \o w \in Seq(Token) /\ Len(b \o w) = Len(b) + Len(w)
      /\ \A n \in 1..Len(b) : (b \o w)[n] = b[n]
  BY ConcatParts
<1> QED  BY <1>1, <1>2

LEMMA TcpGood ==
  ASSUME RingInv, Good, TcpConnects
  PROVE  Good'
<1> USE DEF ring, eventfd, writer, bounds, history
<1>1. /\ worker = "tcp" /\ worker' = "hello" /\ up' = TRUE /\ wire' = <<>>
      /\ srv' = <<"HELLO", "SELECT">> /\ linebuf' = linebuf /\ fate' = fate
  BY DEF TcpConnects
<1>2. Right'
  BY <1>1 DEF Good, Right
<1>3. StreamInv'
  BY <1>1 DEF StreamInv
<1>4. HandshakeInv'
  <2>1. CASE linebuf \in SelectAnswers
    BY <1>1, <2>1 DEF HandshakeInv
  <2>2. CASE linebuf \notin SelectAnswers
    <3>1. linebuf = <<>>
      BY <1>1, <2>2 DEF Good, HandshakeInv
    <3>2. linebuf' \o wire' = <<>>
      BY <1>1, <3>1
    <3>3. HelloReply \in HelloAnswers /\ SelectReply \in SelectAnswers
      BY DEF HelloAnswers, SelectAnswers
    <3>4. Greeting(<<>>, <<"HELLO", "SELECT">>, TRUE)
      <4>1. Len(<<>>) = 0 /\ Len(HelloReply) \in Nat
        BY <3>3, AnswersAre
      <4>2. Greets(<<>>, HelloReply, SelectReply)
        BY <4>1 DEF Greets
      <4> QED  BY <3>3, <4>1, <4>2 DEF Greeting
    <3> QED  BY <1>1, <3>1, <3>2, <3>4 DEF HandshakeInv
  <2> QED  BY <2>1, <2>2
<1> QED  BY <1>2, <1>3, <1>4 DEF Good

LEMMA ReceiveGood ==
  ASSUME RingInv, Good, HandshakeReceives, ~garbled'
  PROVE  Good'
<1> USE DEF ring, eventfd, writer, bounds, history, control
<1>1. PICK n \in 0..Len(wire), tear \in BOOLEAN :
        /\ Arrives(n, tear) /\ linebuf' \in Buffered(n)
        /\ torn' = TornAfter(n, tear) /\ garbled' = (garbled \/ Joins(n))
  BY DEF HandshakeReceives
<1>2. ~Joins(n)
  BY <1>1
<1>3. linebuf' = linebuf \o Take(wire, n) /\ wire' = Drop(wire, n)
  BY <1>1, <1>2, BufferedPlain DEF Arrives
<1>4. /\ worker \in {"hello", "select"} /\ worker' = worker /\ Waiting
      /\ UNCHANGED <<fate, up, srv>>
  BY DEF HandshakeReceives, Handshaking
<1>5. linebuf \in Seq(Token) /\ wire \in Seq(Token) /\ torn \in {"no", "live", "stale"}
  BY DEF RingInv, TypeOK
<1>6. linebuf' \o wire' = linebuf \o wire
  BY <1>3, <1>5, Received
<1>7. Right' /\ StreamInv'
  BY <1>4 DEF Good, Right, StreamInv
<1>8. torn' = "stale" => torn = "stale" /\ n = 0
  BY <1>1, <1>2, <1>5 DEF Arrives, TornAfter, Joins
<1>9. HandshakeInv'
  <2>1. CASE worker = "hello"
    <3>1. linebuf \notin SelectAnswers
      BY <1>4, SelectFrame DEF Waiting
    <3>2. (torn = "stale" => linebuf = <<>>) /\ Greeting(linebuf \o wire, srv, up)
      BY <2>1, <3>1 DEF Good, HandshakeInv
    <3>3. torn' = "stale" => linebuf' = <<>>
      <4>1. Len(Take(wire, 0)) = 0 /\ Take(wire, 0) \in Seq(Token)
        BY <1>5 DEF Take
      <4>2. <<>> \o Take(wire, 0) = <<>>
        BY <4>1
      <4> QED  BY <1>3, <1>8, <3>2, <4>2
    <3> QED  BY <1>4, <1>6, <2>1, <3>2, <3>3 DEF HandshakeInv
  <2>2. CASE worker = "select"
    <3>1. torn # "stale" /\ Selecting(linebuf \o wire, srv, up)
      BY <2>2 DEF Good, HandshakeInv
    <3> QED  BY <1>4, <1>6, <1>8, <2>2, <3>1 DEF HandshakeInv
  <2> QED  BY <1>4, <2>1, <2>2
<1> QED  BY <1>7, <1>9 DEF Good

LEMMA HelloGood ==
  ASSUME RingInv, Good, HelloReplied
  PROVE  Good'
<1> USE DEF ring, eventfd, writer, socket
<1> DEFINE frames == Frames(Sound(linebuf))
           e == Len(frames[1])
<1>1. /\ worker = "hello" /\ frames # <<>>
      /\ linebuf' = Drop(linebuf, e)
      /\ UNCHANGED <<fate, torn>>
      /\ \/ /\ frames[1][1].kind = "agg" /\ worker' = "select"
            /\ UNCHANGED <<up, srv, wire>>
         \/ /\ frames[1][1].kind # "agg" /\ worker' \in {"none", "backoff", "deleted"}
  BY DEF HelloReplied, GiveUp
<1>2. linebuf \in Seq(Token) /\ wire \in Seq(Token)
  BY DEF RingInv, TypeOK
<1> HIDE DEF frames
<1>3. CASE linebuf \in SelectAnswers
  <2>1. frames = Frames(linebuf) /\ linebuf[1].kind # "agg" /\ Len(linebuf) = 1
    BY <1>3, SelectFrame, AnswersAre DEF frames
  <2>2. e = 1 /\ frames[1][1].kind # "agg"
    BY <1>1, <1>3, <2>1, SelectFrame
  <2>3. linebuf' = <<>>
    <3>1. Drop(linebuf, 1) \in Seq(Token) /\ Len(Drop(linebuf, 1)) = Len(linebuf) - 1
      <4>1. 1 \in 0..Len(linebuf)
        BY <2>1
      <4> QED  BY ONLY <1>2, <4>1, Parsed
    <3> QED  BY <1>1, <2>1, <2>2, <3>1
  <2>4. worker' \in {"none", "backoff", "deleted"}
    BY <1>1, <2>2
  <2> QED  BY <1>1, <2>3, <2>4, NoStream
<1>4. CASE linebuf \notin SelectAnswers
  <2> DEFINE s == linebuf \o wire
             c == Drop(linebuf, e)
             t == Drop(linebuf, e) \o wire
  <2>1. (torn = "stale" => linebuf = <<>>) /\ Greeting(s, srv, up)
    BY <1>1, <1>4 DEF Good, HandshakeInv
  <2>2. s \in Seq(Token) /\ Len(linebuf) <= Len(s) /\ \A n \in 1..Len(linebuf) : linebuf[n] = s[n]
    BY <1>2, Held
  <2> HIDE DEF s
  <2>3. Sound(linebuf) = linebuf
    BY <1>2, <2>1, <2>2, GreetingSound
  <2>4. frames = Frames(linebuf)
    BY <2>3 DEF frames
  <2>5. e \in 1..Len(linebuf) /\ torn # "stale"
    <3>1. e \in 1..Len(linebuf)
      BY <1>1, <1>2, <2>4, FirstFrameLength
    <3> QED  BY <2>1, <3>1
  <2>6. e \in 0..Len(linebuf)
    BY <2>5
  <2>7. /\ c \in Seq(Token) /\ Len(c) = Len(linebuf) - e
        /\ \A n \in 1..Len(c) : c[n] = linebuf[e + n]
        /\ t \in Seq(Token) /\ Len(t) = Len(s) - e
        /\ \A n \in 1..Len(t) : t[n] = s[e + n]
    <3> HIDE DEF e
    <3> QED  BY <1>2, <2>6, Parsed DEF s
  <2> HIDE DEF c, t
  <2>8. Selecting(t, srv, up) /\ c \in SelectAnswers \cup {<<>>}
    <3>1. Frames(linebuf) # <<>>
      BY <1>1, <2>4
    <3>2. /\ Len(c) = Len(linebuf) - Len(Frames(linebuf)[1])
          /\ \A n \in 1..Len(c) : c[n] = linebuf[Len(Frames(linebuf)[1]) + n]
          /\ Len(t) = Len(s) - Len(Frames(linebuf)[1])
          /\ \A n \in 1..Len(t) : t[n] = s[Len(Frames(linebuf)[1]) + n]
      BY <2>4, <2>7
    <3>3. c \in Seq(Token) /\ t \in Seq(Token)
      BY <2>7
    <3> QED  BY ONLY <1>2, <2>1, <2>2, <3>1, <3>2, <3>3, GreetingFrame
  <2>9. linebuf' = c /\ (wire' = wire => linebuf' \o wire' = t)
    BY <1>1 DEF c, t
  <2>10. CASE frames[1][1].kind = "agg"
    <3>1. worker' = "select" /\ UNCHANGED <<up, srv, wire, fate, torn>>
      BY <1>1, <2>10
    <3>2. HandshakeInv' /\ StreamInv'
      BY <2>5, <2>8, <2>9, <3>1 DEF HandshakeInv, StreamInv
    <3>3. Right'
      BY <3>1 DEF Good, Right
    <3> QED  BY <3>2, <3>3 DEF Good
  <2>11. CASE frames[1][1].kind # "agg"
    <3>1. worker' \in {"none", "backoff", "deleted"} /\ fate' = fate
      BY <1>1, <2>11
    <3> QED  BY <2>8, <2>9, <3>1, NoStream
  <2> QED  BY <2>10, <2>11
<1> QED  BY <1>3, <1>4

LEMMA SelectGood ==
  ASSUME RingInv, Good, SelectReplied
  PROVE  Good'
<1> USE DEF ring, eventfd
<1> DEFINE frames == Frames(Sound(linebuf))
           e == Len(frames[1])
<1>1. /\ worker = "select" /\ frames # <<>>
      /\ linebuf' = Drop(linebuf, e)
      /\ UNCHANGED <<fate, torn, queue, committed, iov>>
      /\ \/ worker' = "run" /\ UNCHANGED <<up, srv, wire>>
         \/ worker' \in {"none", "backoff", "deleted"}
  BY DEF SelectReplied, GiveUp
<1>2. linebuf \in Seq(Token) /\ wire \in Seq(Token) /\ queue \in Seq(Ops)
  BY DEF RingInv, TypeOK
<1> HIDE DEF frames
<1> DEFINE s == linebuf \o wire
<1>3. torn # "stale" /\ Selecting(s, srv, up)
  BY <1>1 DEF Good, HandshakeInv
<1>4. /\ s \in Seq(Token) /\ Len(s) = Len(linebuf) + Len(wire) /\ Len(linebuf) <= Len(s)
      /\ \A n \in 1..Len(linebuf) : linebuf[n] = s[n]
  BY <1>2, Held, ConcatParts
<1> HIDE DEF s
<1>5. Sound(linebuf) = linebuf
  BY <1>2, <1>3, <1>4, SelectingFrame
<1>6. frames = Frames(linebuf)
  BY <1>5 DEF frames
<1>7. e = 1 /\ Len(s) = 1 /\ Len(linebuf) = 1 /\ srv = <<>>
  BY <1>1, <1>2, <1>3, <1>4, <1>6, SelectingFrame
<1>8. wire = <<>>
  <2>1. Len(wire) \in Nat
    BY <1>2
  <2>2. Len(wire) = 0
    <3> DEFINE l == Len(linebuf)
               w == Len(wire)
    <3>1. 1 = l + w /\ l = 1 /\ w \in Nat
      BY <1>4, <1>7, <2>1
    <3> HIDE DEF l, w
    <3>2. w = 0
      BY ONLY <3>1
    <3> QED  BY <3>2 DEF w
  <2> QED  BY <1>2, <2>2
<1>9. linebuf' = <<>>
  <2>1. Drop(linebuf, 1) \in Seq(Token) /\ Len(Drop(linebuf, 1)) = Len(linebuf) - 1
    <3>1. 1 \in 0..Len(linebuf)
      BY <1>7
    <3> QED  BY ONLY <1>2, <3>1, Parsed
  <2> QED  BY <1>1, <1>7, <2>1
<1>10. CASE worker' \in {"none", "backoff", "deleted"}
  BY <1>1, <1>9, <1>10, NoStream
<1>11. CASE worker' = "run" /\ UNCHANGED <<up, srv, wire>>
  <2>1. iov = <<>> /\ committed = 0 /\ Len(iov) = 0 /\ Len(iov) <= committed /\ committed - Len(iov) = 0
    <3>1. iov = <<>> /\ committed = 0
      BY <1>1 DEF RingInv, ModeInv, Before
    <3> DEFINE l == Len(iov)
               m == committed
    <3>2. l = 0 /\ m = 0
      BY <3>1
    <3> HIDE DEF l, m
    <3>3. l <= m /\ m - l = 0
      BY <3>2
    <3> QED  BY <3>1, <3>2, <3>3 DEF l, m
  <2>2. linebuf' \o wire' = <<>>
    BY <1>8, <1>9, <1>11
  <2>3. Stream(<<>>, queue, 0, <<>>, up)
    <3>1. Len(<<>>) = 0 /\ Len(queue) \in Nat
      BY <1>2
    <3>2. Leaves(<<>>, 0) = 0
      BY LeavesStep
    <3>3. Speaks(<<>>, SubSeq(queue, 1, 0))
      BY <3>1 DEF Speaks
    <3> QED  BY <3>1, <3>2, <3>3 DEF Stream, Boundary
  <2>4. StreamInv'
    BY <1>1, <1>3, <1>7, <1>11, <2>1, <2>2, <2>3 DEF StreamInv
  <2>5. HandshakeInv'
    BY <1>11 DEF HandshakeInv
  <2>6. Right'
    BY <1>1, <1>11 DEF Good, Right
  <2> QED  BY <2>4, <2>5, <2>6 DEF Good
<1> QED  BY <1>1, <1>10, <1>11

LEMMA ConnectGood ==
  ASSUME RingInv, Good, ConnectSpot, ~garbled'
  PROVE  Good'
<1> USE DEF ring, eventfd, writer, parser, socket, bounds, history
<1>1. CASE TcpConnects
  BY <1>1, TcpGood
<1>2. CASE ConnectFails \/ HandshakeBreaks
  <2>1. worker' \in {"none", "backoff", "deleted"} /\ fate' = fate
    BY <1>2 DEF ConnectFails, HandshakeBreaks, GiveUp
  <2>2. linebuf' \in SelectAnswers \cup {<<>>}
    BY <1>2 DEF ConnectFails, HandshakeBreaks, Good, HandshakeInv
  <2> QED  BY <2>1, <2>2, NoStream
<1>3. CASE HandshakeReceives
  BY <1>3, ReceiveGood
<1>4. CASE HelloReplied
  BY <1>4, HelloGood
<1>5. CASE SelectReplied
  BY <1>5, SelectGood
<1>6. CASE HandshakeUnparseable
  <2>1. worker \in {"hello", "select"} /\ Sound(linebuf) # linebuf
    BY <1>6 DEF HandshakeUnparseable, Handshaking
  <2>2. linebuf \in Seq(Token) /\ wire \in Seq(Token)
    BY DEF RingInv, TypeOK
  <2>3. linebuf \notin SelectAnswers
    BY <2>1, SelectFrame
  <2> DEFINE s == linebuf \o wire
  <2>4. s \in Seq(Token) /\ Len(linebuf) <= Len(s) /\ \A n \in 1..Len(linebuf) : linebuf[n] = s[n]
    BY <2>2, Held
  <2>5. Greeting(s, srv, up) \/ Selecting(s, srv, up)
    BY <2>1, <2>3 DEF Good, HandshakeInv
  <2> HIDE DEF s
  <2>6. Sound(linebuf) = linebuf
    BY <2>2, <2>4, <2>5, GreetingSound, SelectingFrame
  <2> QED  BY <2>1, <2>6
<1>7. CASE BackoffEnds
  <2>1. worker' \in {"tcp", "deleted"} /\ fate' = fate
    BY <1>7 DEF BackoffEnds
  <2>2. linebuf' \in SelectAnswers \cup {<<>>}
    BY <1>7 DEF BackoffEnds, Good, HandshakeInv
  <2> QED  BY <2>1, <2>2, NoStream
<1> QED  BY <1>1, <1>2, <1>3, <1>4, <1>5, <1>6, <1>7 DEF ConnectSpot


\* The writer that wakes takes its batch from behind what was sent.
LEMMA WakesGood ==
  ASSUME RingInv, Good, WriterWakes
  PROVE  Good'
<1> USE DEF parser, socket, control, bounds, history
<1>1. /\ worker = "run" /\ worker' = "run" /\ CommitNext
      /\ iov = <<>>
      /\ UNCHANGED <<fate, queue, linebuf, torn, up, srv, wire>>
  BY DEF WriterWakes, RingInv, ModeInv
<1>2. /\ torn # "stale"
      /\ Stream(linebuf \o wire, queue, committed - Len(iov), srv, up)
  BY <1>1 DEF Good, StreamInv
<1>3. /\ committed \in Nat /\ committed <= Len(queue) /\ Len(queue) \in Nat
  BY <1>1, Constants DEF RingInv, TypeOK, ModeInv
<1>4. /\ committed' \in committed..Len(queue)
      /\ Len(iov') = committed' - committed
      /\ \A n \in 1..Len(iov') : iov'[n] = queue[committed + n]
  BY <1>1, <1>3, NextBatch DEF RingInv
<1>5. committed - Len(iov) = committed
  <2>1. Len(iov) = 0
    BY <1>1
  <2> QED  BY <1>3, <2>1
<1>6. committed' - Len(iov') = committed /\ Len(iov') <= committed'
  <2> DEFINE c == committed'
             l == Len(iov')
  <2>1. c \in Nat /\ l = c - committed /\ committed <= c
    BY <1>3, <1>4
  <2> HIDE DEF c, l
  <2>2. c - l = committed /\ l <= c
    BY <1>3, <2>1
  <2> QED  BY <2>2 DEF c, l
<1>7. StreamInv'
  BY <1>1, <1>2, <1>4, <1>5, <1>6 DEF StreamInv
<1>8. HandshakeInv' /\ Right'
  BY <1>1 DEF HandshakeInv, Good, Right
<1> QED  BY <1>7, <1>8 DEF Good

\* What writev takes is what comes next.
LEMMA SendsGood ==
  ASSUME RingInv, Good, WriterSends
  PROVE  Good'
<1> USE DEF parser, control, bounds, eventfd
<1>1. PICK n \in 1..Len(iov) :
        /\ srv' = IF up THEN srv \o Take(iov, n) ELSE srv
        /\ IF n = Len(iov)
           THEN CommitNext
           ELSE iov' = Drop(iov, n) /\ UNCHANGED committed
  BY DEF WriterSends
<1>2. /\ worker = "run" /\ worker' = "run"
      /\ UNCHANGED <<fate, queue, linebuf, torn, up, wire>>
  BY DEF WriterSends
<1> DEFINE m == committed - Len(iov)
           s == linebuf \o wire
<1>3. /\ torn # "stale" /\ Len(iov) <= committed
      /\ \A k \in 1..Len(iov) : iov[k] = queue[m + k]
      /\ Stream(s, queue, m, srv, up)
  BY <1>2 DEF Good, StreamInv
<1>4. /\ committed \in Nat /\ committed <= Len(queue) /\ Len(queue) \in Nat
      /\ iov \in Seq(Ops) /\ Len(iov) \in Nat /\ queue \in Seq(Ops)
      /\ srv \in Seq(Ops \cup {"HELLO", "SELECT"}) /\ s \in Seq(Token)
  BY <1>2, Constants DEF RingInv, TypeOK, ModeInv
<1>5. m \in Nat /\ m + n <= committed /\ n \in Nat /\ m + n <= Len(queue) /\ m + n \in Nat
  BY <1>3, <1>4
<1>6. /\ Take(iov, n) \in Seq(Ops) /\ Len(Take(iov, n)) = n
      /\ \A k \in 1..n : Take(iov, n)[k] = iov[k]
  <2>1. n \in 0..Len(iov)
    BY <1>4
  <2> QED  BY <1>4, <2>1, TakeIs DEF Take
<1>7. up => /\ Len(srv') = Len(srv) + n
            /\ \A k \in 1..Len(srv) : srv'[k] = srv[k]
            /\ \A k \in 1..n : srv'[Len(srv) + k] = queue[m + k]
  <2> SUFFICES ASSUME up
               PROVE  /\ Len(srv') = Len(srv) + n
                      /\ \A k \in 1..Len(srv) : srv'[k] = srv[k]
                      /\ \A k \in 1..n : srv'[Len(srv) + k] = queue[m + k]
    OBVIOUS
  <2> DEFINE b == Take(iov, n)
             v == srv \o b
             Any == Ops \cup {"HELLO", "SELECT"}
  <2>1. srv' = v
    BY <1>1
  <2>2. b \in Seq(Any)
    BY <1>6
  <2> HIDE DEF b, m, s, Any
  <2>3. /\ Len(v) = Len(srv) + Len(b)
        /\ \A k \in 1..Len(srv) : v[k] = srv[k]
        /\ \A k \in 1..Len(b) : v[Len(srv) + k] = b[k]
    <3>1. srv \in Seq(Any)
      BY <1>4 DEF Any
    <3> QED  BY <2>2, <3>1, ConcatParts
  <2> HIDE DEF v
  <2>4. Len(b) = n /\ \A k \in 1..n : b[k] = queue[m + k]
    <3>1. \A k \in 1..n : k \in 1..Len(iov)
      BY <1>4
    <3> QED  BY <1>3, <1>6, <3>1 DEF b
  <2> QED  BY <2>1, <2>3, <2>4
<1>8. Stream(s, queue, m + n, srv', up)
  <2>1. ~up => srv' = srv
    BY <1>1
  <2> HIDE DEF m, s
  <2> QED  BY <1>3, <1>4, <1>5, <1>7, <2>1, StreamSend
<1>9. /\ committed' - Len(iov') = m + n /\ Len(iov') <= committed'
      /\ \A k \in 1..Len(iov') : iov'[k] = queue[(m + n) + k]
  <2>1. CASE n = Len(iov)
    <3>1. /\ committed' \in committed..Len(queue)
          /\ Len(iov') = committed' - committed
          /\ \A k \in 1..Len(iov') : iov'[k] = queue[committed + k]
      BY <1>1, <1>4, <2>1, NextBatch DEF RingInv
    <3>2. m + n = committed
      BY <1>4, <2>1
    <3> DEFINE c == committed'
               l == Len(iov')
               d == m + n
    <3>3. c \in Nat /\ l = c - d /\ d <= c /\ d \in Nat
      <4> HIDE DEF d, m
      <4>1. d = committed
        BY <3>2 DEF d
      <4> QED  BY <1>4, <3>1, <4>1
    <3> HIDE DEF c, l, d
    <3>4. c - l = d /\ l <= c
      BY <3>3
    <3> QED  BY <3>1, <3>2, <3>4 DEF c, l, d
  <2>2. CASE n # Len(iov)
    <3>1. iov' = Drop(iov, n) /\ committed' = committed
      BY <1>1, <2>2
    <3>2. /\ Len(Drop(iov, n)) = Len(iov) - n
          /\ \A k \in 1..(Len(iov) - n) : Drop(iov, n)[k] = iov[n + k]
      <4>1. n \in 0..Len(iov) /\ Len(iov) \in n..Len(iov)
        BY <1>4
      <4> QED  BY <1>4, <4>1, SubSeqType DEF Drop
    <3>3. committed - (Len(iov) - n) = m + n /\ Len(iov) - n <= committed
      BY <1>3, <1>4
    <3>4. ASSUME NEW k \in 1..(Len(iov) - n) PROVE iov[n + k] = queue[(m + n) + k]
      <4>1. n + k \in 1..Len(iov) /\ m + (n + k) = (m + n) + k
        BY <1>4, <1>5
      <4> QED  BY <1>3, <4>1
    <3> QED  BY <3>1, <3>2, <3>3, <3>4
  <2> QED  BY <2>1, <2>2
<1>10. StreamInv'
  <2> HIDE DEF m
  <2> QED  BY <1>2, <1>3, <1>8, <1>9 DEF StreamInv
<1>11. HandshakeInv' /\ Right'
  BY <1>2 DEF HandshakeInv, Good, Right
<1> QED  BY <1>10, <1>11 DEF Good


\* In a stream of replies, Rest keeps what follows the last whole reply.
LEMMA RestSpeaks ==
  ASSUME NEW b \in Seq(Token), NEW ops, Speaks(b, ops)
  PROVE  \E l \in 0..Len(b) :
           /\ Rest(b) = Drop(b, l) /\ Boundary(b, l)
           /\ Leaves(b, l) = Leaves(b, Len(b))
<1> DEFINE ends == FrameEnds(b)
<1>1. PICK l \in 0..Len(b) :
        /\ Rest(b) = SubSeq(b, l + 1, Len(b))
        /\ l = 0 \/ l \in ends
        /\ \A n \in ends : n <= l
  BY RestIs
<1>2. Len(b) \in Nat /\ DOMAIN b = 1..Len(b) /\ Plain(b) /\ l \in 0..Len(b)
  BY SpeaksPlain
<1>3. /\ ends = {n \in 1..Len(b) : b[n].kind = "leaf"}
      /\ Cardinality(ends) = Leaves(b, Len(b))
      /\ Cardinality({m \in ends : m <= l}) = Leaves(b, l)
  BY <1>2, PlainEnds
<1> HIDE DEF ends
<1>4. {m \in ends : m <= l} = ends
  BY <1>1
<1>5. Boundary(b, l)
  BY <1>1, <1>3 DEF Boundary
<1> QED  BY <1>1, <1>3, <1>4, <1>5 DEF Drop

\* The reader gives every complete reply to the coroutine that waits for it.
LEMMA ReceivesGood ==
  ASSUME RingInv, Good, ReaderReceives, ~garbled'
  PROVE  Good'
<1> USE DEF eventfd, writer
<1>1. PICK n \in 0..Len(wire), tear \in BOOLEAN :
        /\ Arrives(n, tear) /\ torn' = TornAfter(n, tear)
        /\ \E buf \in Buffered(n) : Deliver(buf)
  BY DEF ReaderReceives
<1>2. worker = "run" /\ UNCHANGED <<iov, up, srv>>
  BY DEF ReaderReceives
<1> DEFINE m == committed - Len(iov)
           s == linebuf \o wire
           b == linebuf \o Take(wire, n)
           w == Drop(wire, n)
<1>3. /\ torn # "stale" /\ Len(iov) <= committed
      /\ \A k \in 1..Len(iov) : iov[k] = queue[m + k]
      /\ Stream(s, queue, m, srv, up)
  BY <1>2 DEF Good, StreamInv
<1>4. /\ committed \in Nat /\ committed <= Len(queue) /\ Len(queue) \in Nat
      /\ iov \in Seq(Ops) /\ Len(iov) \in Nat /\ queue \in Seq(Ops)
      /\ linebuf \in Seq(Token) /\ wire \in Seq(Token) /\ s \in Seq(Token)
      /\ fate \in [Ops -> {"new", "queued", "reply", "wrong_reply", "conn_err",
                           "ring_overflow"}]
  BY <1>2, Constants DEF RingInv, TypeOK, ModeInv
<1>5. Deliver(b)
  <2>1. ~Joins(n)
    BY <1>3 DEF Joins
  <2> QED  BY <1>1, <2>1, BufferedPlain
<1>6. wire' = w /\ torn' # "stale"
  BY <1>1, <1>3 DEF Arrives, TornAfter
<1>7. /\ b \in Seq(Token) /\ Len(b) <= Len(s) /\ Len(b) \in Nat /\ Len(s) \in Nat
      /\ \A k \in 1..Len(b) : b[k] = s[k]
      /\ b \o w = s /\ w \in Seq(Token)
  <2>1. w \in Seq(Token)
    BY <1>4, TakeDropType
  <2>2. /\ b \in Seq(Token) /\ Len(b) <= Len(s)
        /\ \A k \in 1..Len(b) : b[k] = s[k]
        /\ b \o w = s
    BY <1>4, Received
  <2> HIDE DEF b, s, w
  <2>3. Len(b) \in Nat /\ Len(s) \in Nat
    BY <1>4, <2>2
  <2> QED  BY <2>1, <2>2, <2>3
<1>8. m \in Nat /\ m <= Len(queue) /\ m \in 0..Len(queue)
  BY <1>3, <1>4
<1> HIDE DEF m, s, b, w
<1> DEFINE ops == SubSeq(queue, 1, m)
<1>9. Speaks(s, ops) /\ ops \in Seq(Ops) /\ Len(ops) = m /\ \A k \in 1..m : ops[k] = queue[k]
  BY <1>3, <1>4, <1>8, TakeIs DEF Stream
<1> HIDE DEF ops
<1>10. Speaks(b, ops)
  <2>1. Len(ops) <= Len(ops) /\ \A k \in 1..Len(ops) : ops[k] = ops[k]
    BY <1>8, <1>9
  <2> QED  BY <1>4, <1>7, <1>9, <2>1, PrefixSpeaks
<1>11. PICK l \in 0..Len(b) :
         /\ Rest(b) = Drop(b, l) /\ Boundary(b, l)
         /\ Leaves(b, l) = Leaves(b, Len(b))
  BY <1>7, <1>10, RestSpeaks
<1> DEFINE frames == Frames(Sound(b))
           N      == Len(frames)
<1>12. /\ Sound(b) = b /\ N = Leaves(b, Len(b))
       /\ \A j \in 1..N : frames[j] = Reply(ops[j])
  <2>1. Sound(b) = b
    BY <1>7, <1>10, SpeaksSound
  <2>2. /\ Len(Frames(b)) = Leaves(b, Len(b))
        /\ \A j \in 1..Leaves(b, Len(b)) : Frames(b)[j] = Reply(ops[j])
    BY <1>7, <1>10, FrameIs
  <2> QED  BY <2>1, <2>2
<1>13. N \in 0..m
  <2>1. Leaves(b, l) \in 0..Len(ops)
    BY <1>7, <1>9, <1>10, <1>11, LeavesBound
  <2> HIDE DEF N
  <2> QED  BY <1>9, <1>11, <1>12, <2>1
<1>14. /\ l \in 0..Len(s) /\ Boundary(s, l) /\ Leaves(s, l) = N
  <2>1. l \in 0..Len(s) /\ \A k \in 1..l : b[k] = s[k]
    BY <1>7
  <2>2. Leaves(b, l) = Leaves(s, l)
    BY <2>1, LeavesSame
  <2>3. Boundary(s, l)
    <3>1. l = 0 \/ l \in 1..l
      BY <2>1
    <3> QED  BY <1>11, <2>1, <3>1 DEF Boundary
  <2> HIDE DEF N
  <2> QED  BY <1>11, <1>12, <2>1, <2>2, <2>3
<1> HIDE DEF N
<1>15. /\ fate' = [o \in Ops |->
                     IF \E j \in 1..N : queue[j] = o
                     THEN LET j == CHOOSE j \in 1..N : queue[j] = o
                          IN  IF frames[j] = Reply(o) THEN "reply" ELSE "wrong_reply"
                     ELSE fate[o]]
       /\ queue' = Drop(queue, N)
       /\ committed' = IF N < committed THEN committed - N ELSE 0
       /\ linebuf' = Rest(b) /\ worker' = worker
  <2>1. ~(N > Len(queue))
    BY <1>8, <1>13
  <2>2. linebuf' = Rest(Sound(b))
    BY <1>5, <2>1 DEF Deliver, N
  <2>3. linebuf' = Rest(b)
    BY <1>12, <2>2
  <2> QED  BY <1>5, <2>1, <2>3 DEF Deliver, N
<1> HIDE DEF frames
<1>16. Right'
  <2>1. ASSUME NEW o \in Ops PROVE fate'[o] # "wrong_reply"
    <3>1. CASE \E j \in 1..N : queue[j] = o
      <4> DEFINE j == CHOOSE j \in 1..N : queue[j] = o
      <4>1. j \in 1..N /\ queue[j] = o
        BY <3>1
      <4>2. fate'[o] = IF frames[j] = Reply(o) THEN "reply" ELSE "wrong_reply"
        BY <1>15, <3>1
      <4> HIDE DEF j
      <4>3. j \in 1..m
        BY <1>8, <1>13, <4>1
      <4>4. frames[j] = Reply(o)
        BY <1>9, <1>12, <4>1, <4>3
      <4> QED  BY <4>2, <4>4
    <3>2. CASE ~ \E j \in 1..N : queue[j] = o
      <4>1. fate'[o] = fate[o]
        BY <1>15, <3>2
      <4> QED  BY <4>1 DEF Good, Right
    <3> QED  BY <3>1, <3>2
  <2> QED  BY <1>2, <1>15, <2>1 DEF Right
<1>17. /\ Len(iov) <= committed' /\ committed' - Len(iov) = m - N
  <2> DEFINE c == committed'
             i == Len(iov)
             k == committed
  <2>1. c = (IF N < k THEN k - N ELSE 0) /\ m = k - i /\ i <= k
    BY <1>3, <1>15 DEF m
  <2>2. k \in Nat /\ i \in Nat /\ N \in 0..m
    BY <1>4, <1>13
  <2> HIDE DEF c, i, k
  <2>3. i <= c /\ c - i = m - N
    BY <2>1, <2>2
  <2> QED  BY <2>3 DEF c, i
<1> DEFINE r == Drop(queue, N)
           t == Drop(b, l) \o w
<1>18. /\ r \in Seq(Ops) /\ Len(r) = Len(queue) - N
       /\ \A k \in 1..(Len(queue) - N) : r[k] = queue[N + k]
  <2>1. N \in 0..Len(queue) /\ Len(queue) \in N..Len(queue)
    BY <1>4, <1>8, <1>13
  <2> QED  BY <1>4, <2>1, SubSeqType DEF Drop
<1>19. /\ t \in Seq(Token) /\ Len(t) = Len(s) - l
       /\ \A k \in 1..Len(t) : t[k] = s[l + k]
  BY <1>7, Parsed
<1> HIDE DEF r, t
<1>20. Stream(t, r, m - N, srv, up)
  <2>1. /\ Len(r) = Len(queue) - Leaves(s, l)
        /\ \A k \in 1..Len(r) : r[k] = queue[Leaves(s, l) + k]
    BY <1>14, <1>18
  <2>2. Stream(t, r, m - Leaves(s, l), srv, up)
    BY <1>3, <1>4, <1>14, <1>18, <1>19, <2>1, StreamPop
  <2> QED  BY <1>14, <2>2
<1>21. \A k \in 1..Len(iov) : iov[k] = r[(m - N) + k]
  <2> SUFFICES ASSUME NEW k \in 1..Len(iov) PROVE iov[k] = r[(m - N) + k]
    OBVIOUS
  <2>1. m + Len(iov) <= Len(queue)
    BY <1>3, <1>4 DEF m
  <2>2. (m - N) + k \in 1..(Len(queue) - N) /\ N + ((m - N) + k) = m + k
    BY <1>4, <1>8, <1>13, <2>1
  <2> QED  BY <1>3, <1>18, <2>2
<1>22. queue' = r /\ linebuf' \o wire' = t /\ worker' = "run"
  BY <1>2, <1>6, <1>11, <1>15 DEF r, t
<1>23. StreamInv'
  BY <1>2, <1>6, <1>17, <1>20, <1>21, <1>22 DEF StreamInv
<1>24. HandshakeInv'
  BY <1>22 DEF HandshakeInv
<1> QED  BY <1>16, <1>23, <1>24 DEF Good

LEMMA ReplyStep ==
  ASSUME RingInv, ReplyInv, [Next]_vars
  PROVE  ReplyInv'
<1> SUFFICES ASSUME ~garbled' PROVE Good'
  BY DEF ReplyInv
<1>1. ~garbled
  <2> USE DEF history
  <2>1. \A o \in Ops : Await(o) => garbled' = garbled
    BY DEF Await
  <2>2. ConnectSpot => garbled' = garbled \/ garbled'
    BY DEF ConnectSpot, TcpConnects, ConnectFails, HandshakeBreaks, HandshakeReceives,
           HelloReplied, SelectReplied, HandshakeUnparseable, BackoffEnds, RingInv, TypeOK
  <2>3. Writer \/ Reader \/ Worker => garbled' = garbled \/ garbled'
    BY DEF Writer, WriterWakes, WriterSends, WriterFails, Reader, ReaderReceives,
           ReaderFails, Worker, RaceEnds, DrainResumes, DrainDeletes, DrainReconnects,
           RingInv, TypeOK
  <2>4. Signal \/ Close \/ Destroy \/ ServerAnswers \/ PeerCloses \/ Finished \/ UNCHANGED vars
          => garbled' = garbled
    BY DEF Signal, Close, Destroy, ServerAnswers, PeerCloses, Finished, vars
  <2> QED  BY <2>1, <2>2, <2>3, <2>4 DEF Next
<1>2. Good
  BY <1>1 DEF ReplyInv
<1>3. ASSUME NEW o \in Ops, Await(o) PROVE Good'
  BY <1>2, <1>3, AwaitGood
<1>4. CASE ServerAnswers
  BY <1>2, <1>4, ServerGood
<1>5. CASE PeerCloses
  BY <1>2, <1>5, PeerGood
<1>6. CASE ConnectSpot
  BY <1>2, <1>6, ConnectGood
<1>7. CASE WriterWakes
  BY <1>2, <1>7, WakesGood
<1>8. CASE WriterSends
  BY <1>2, <1>8, SendsGood
<1>9. CASE ReaderReceives
  BY <1>2, <1>9, ReceivesGood
<1>10. CASE Signal \/ Close \/ Destroy \/ WriterFails \/ ReaderFails \/ UNCHANGED vars
  <2>1. /\ worker' = worker /\ fate' = fate
        /\ UNCHANGED <<linebuf, wire, torn, queue, committed, iov, srv, up>>
    BY <1>10 DEF Signal, Close, Destroy, WriterFails, ReaderFails, vars, ring, eventfd,
                 writer, parser, socket, control, bounds, history
  <2> QED  BY <1>2, <2>1, SameStream
<1>11. CASE DrainResumes
  <2>1. /\ worker' = worker /\ worker \in {"drain", "last_drain"}
        /\ \A o \in Ops : fate'[o] \in {fate[o], "conn_err"}
    BY <1>11 DEF DrainResumes, SetFate, control
  <2> QED  BY <1>2, <2>1, NoStream
<1>12. CASE RaceEnds \/ DrainDeletes
  <2>1. worker' \in {"drain", "last_drain", "deleted"} /\ fate' = fate
    BY <1>12 DEF RaceEnds, DrainDeletes
  <2> QED  BY <1>2, <2>1, NoStream
<1>13. CASE DrainReconnects
  <2>1. worker' = "tcp" /\ fate' = fate /\ linebuf' = <<>>
    BY <1>13 DEF DrainReconnects
  <2> QED  BY <1>2, <2>1, NoStream
<1> QED  BY <1>3, <1>4, <1>5, <1>6, <1>7, <1>8, <1>9, <1>10, <1>11, <1>12, <1>13
         DEF Next, Writer, Reader, Worker, Finished

LEMMA ReplyAlways == Spec => [](RingInv /\ ReplyInv)
<1>1. Init => RingInv /\ ReplyInv
  BY TypeInit, RingInit, GoodInit DEF RingInv, ReplyInv
<1>2. RingInv /\ ReplyInv /\ [Next]_vars => RingInv' /\ ReplyInv'
  BY RingStep, ReplyStep
<1> QED  BY <1>1, <1>2, PTL DEF Spec

\* Every coroutine is given the whole reply to its own command and pop never
\* meets an empty ring, across every reconnection and however the network
\* cuts the stream: what is on the connection is always, token by token, the
\* replies to the oldest commands in the ring.
THEOREM PipelineRepliesMatch == Spec => []RepliesMatch
<1>1. RingInv /\ ReplyInv => RepliesMatch
  BY DEF ReplyInv, Good, Right, RepliesMatch
<1> QED  BY <1>1, ReplyAlways, PTL

\* While writev reads the payloads of its batch, the coroutines whose frames
\* hold them are suspended: the batch lies in the ring behind everything the
\* reader can have popped.
THEOREM PipelinePayloadsAlive == Spec => []PayloadsAlive
<1>1. ASSUME RingInv, ReplyInv, ~garbled, wpc = "writev", NEW k \in DOMAIN iov
      PROVE  fate[iov[k]] = "queued"
  <2>1. Good /\ worker = "run"
    BY <1>1 DEF ReplyInv, RingInv, ModeInv, Good, Right
  <2>2. /\ Len(iov) <= committed
        /\ \A n \in 1..Len(iov) : iov[n] = queue[committed - Len(iov) + n]
    BY <2>1 DEF Good, StreamInv
  <2>3. /\ k \in 1..Len(iov) /\ Len(iov) \in Nat /\ committed \in Nat
        /\ committed <= Len(queue) /\ Len(queue) \in Nat
    BY <1>1, <2>1, Constants DEF RingInv, TypeOK, ModeInv
  <2>4. committed - Len(iov) + k \in 1..Len(queue)
    BY <2>2, <2>3
  <2> QED  BY <1>1, <2>2, <2>3, <2>4 DEF RingInv, QueueInv
<1>2. RingInv /\ ReplyInv => PayloadsAlive
  BY <1>1 DEF PayloadsAlive
<1> QED  BY <1>2, ReplyAlways, PTL
=============================================================================
