--------------------------- MODULE ClusterProofs ----------------------------
(***************************************************************************)
(* Theorems about Cluster, for every set of commands, slots and nodes,     *)
(* every capacity and every number of migrations and losses: the types of  *)
(* its variables and that a shard gets one pipe, that a waiting coroutine  *)
(* is in exactly one place, that it is given its own reply, and that its   *)
(* command runs at most once.                                              *)
(***************************************************************************)
EXTENDS Cluster, FiniteSetTheorems, TLAPS

(***************************************************************************)
(* The inductive invariant.                                                *)
(***************************************************************************)

\* What a ring holds are commands with their own coroutines, and noops.
Proper == {Command(o) : o \in Ops} \cup {AskingNoop}

\* A reply that redirects says where to.
Sound(r) == r \in Replies /\ (r.kind \in {"moved", "ask"} => r.to \in Nodes)

RingTypes ==
  /\ queue \in [Nodes -> Seq(Entries)]
  /\ \A n \in Nodes : Len(queue[n]) <= Capacity + 1 /\ committed[n] \in 0..Len(queue[n])
  /\ \A n \in Nodes : \A k \in 1..Len(queue[n]) : queue[n][k] \in Proper
  /\ committed \in [Nodes -> Nat]
  /\ open \in [Nodes -> BOOLEAN] /\ event \in [Nodes -> BOOLEAN]

UserTypes ==
  /\ slot \in [Slots -> Nodes]
  /\ shard \in [Nodes -> {"absent", "init", "connecting", "connected"}]
  /\ conn \in [Nodes -> {"none", "connecting", "up", "lost", "draining"}]
  /\ pc \in [Ops -> {"new", "try", "create", "launch", "push", "pushed"}]
  /\ at \in [Ops -> Nodes]
  /\ fate \in [Ops -> {"none", "conn_err", "overflow", "reply", "other", "null"}]
  /\ created \in [Nodes -> 0..1]

LoopType == [phase : {"idle", "handle", "forward"}, node : Nodes \cup {"none"},
             val : Replies, left : Nat, first : BOOLEAN, entry : Entries]

LoopTypes == loop \in LoopType /\ loop.entry \in Proper /\ Sound(loop.val)

FarTypes ==
  /\ owner \in [Slots -> Nodes] /\ moving \in [Slots -> Nodes \cup {"none"}]
  /\ asked \in [Nodes -> BOOLEAN]
  /\ srv \in [Nodes -> Seq(Ops \cup {"ASKING"})]
  /\ wire \in [Nodes -> Seq(Replies)]
  /\ \A n \in Nodes : \A k \in 1..Len(wire[n]) : Sound(wire[n][k])
  /\ executed \in [Ops -> Nat]
  /\ overrun \cup lost \cup batched \subseteq Ops

TypeInv == RingTypes /\ UserTypes /\ LoopTypes /\ FarTypes

\* A shard has one maker: it is in create while the shard is connecting, and
\* in launch until the worker runs.  Nobody comes to a shard that is absent.
MakerInv ==
  /\ \A o \in Ops : pc[o] = "create" => shard[at[o]] = "connecting"
  /\ \A o \in Ops : pc[o] = "launch" => shard[at[o]] = "connected" /\ conn[at[o]] = "none"
  /\ \A o, p \in Ops :
       pc[o] = pc[p] /\ pc[o] \in {"create", "launch"} /\ at[o] = at[p] => o = p
  /\ \A n \in Nodes : shard[n] # "connected" => created[n] = 0 /\ conn[n] = "none"
  /\ \A s \in Slots : shard[slot[s]] # "absent"
  /\ \A o \in Ops : pc[o] = "try" => shard[at[o]] # "absent"

\* Replies the loop has received and not yet taken an entry for.
Held(n) == IF loop.node # n THEN 0
           ELSE IF loop.phase = "handle" THEN loop.left ELSE loop.left - 1

\* The loop works on a connection that is up, or was when it received.
LoopInv ==
  /\ \/ loop = Idle
     \/ /\ loop.phase \in {"handle", "forward"} /\ loop.node \in Nodes /\ loop.left >= 1
        /\ conn[loop.node] \in {"up", "lost"} /\ committed[loop.node] >= Held(loop.node)
  /\ loop.phase = "forward" => /\ loop.val.kind \in {"moved", "ask"}
                               /\ shard[loop.val.to] # "absent"
  /\ \A n \in Nodes : conn[n] = "draining" => loop = Idle
  /\ \A n \in Nodes : conn[n] \in {"none", "connecting", "draining"} => committed[n] = 0

\* An entry takes the reply to its own payload, but for overrun ones.
Fits(e, p) == e.payload = p \/ {e.payload, p} \subseteq overrun \cup {"ASKING"}

\* What a connection carries are the commands committed and not answered, in
\* the order of the ring.
FarAt(n) == conn[n] = "up" =>
  /\ committed[n] = Held(n) + Len(wire[n]) + Len(srv[n])
  /\ \A k \in 1..Len(wire[n]) :
       Fits(queue[n][Held(n) + k], wire[n][k].of) /\ wire[n][k].kind # "null"
  /\ \A k \in 1..Len(srv[n]) : Fits(queue[n][Held(n) + Len(wire[n]) + k], srv[n][k])
FarInv == \A n \in Nodes : FarAt(n)

\* The first reply of a batch meets its own command.
FirstInv ==
  /\ loop.phase = "handle" /\ loop.first =>
       Fits(queue[loop.node][1], loop.val.of) /\ loop.val.kind # "null"
  /\ loop.phase = "forward" /\ ~loop.first => loop.entry.handle \in batched \cup {"noop"}

Tracked == Ops \ (overrun \cup lost)

HomeOf(o) ==
  /\ \A n, m \in Nodes : \A j, k \in Nat : Holds(o, n, j) /\ Holds(o, m, k) => n = m /\ j = k
  /\ \A n \in Nodes : \A k \in Nat : Holds(o, n, k) => pc[o] = "pushed" /\ fate[o] = "none"
  /\ pc[o] = "pushed" /\ fate[o] = "none" => \E n \in Nodes : \E k \in Nat : Holds(o, n, k)
HomeInv == \A o \in Tracked : HomeOf(o)

\* A command has run exactly if the reply on its way says so, and one that is
\* not sent, or is redirected, has not.  So a command runs once, and gets its
\* own reply.
Ran(o, kind) == executed[o] = IF kind = "ok" THEN 1 ELSE 0

DoneOf(o) ==
  /\ pc[o] # "pushed" => executed[o] = 0 /\ fate[o] = "none"
  /\ executed[o] \in {0, 1} /\ fate[o] \notin {"other", "null"}
  /\ fate[o] = "reply" => executed[o] = 1
  /\ fate[o] = "overflow" => executed[o] = 0

UnsentOf(o) ==
  \A n \in Nodes : \A k \in 1..Len(queue[n]) :
    queue[n][k].handle = o /\ k > committed[n] => executed[o] = 0

SentOf(o) ==
  \A n \in Nodes : conn[n] = "up" =>
    /\ \A k \in 1..Len(srv[n]) : srv[n][k] = o => executed[o] = 0
    /\ \A k \in 1..Len(wire[n]) : wire[n][k].of = o => Ran(o, wire[n][k].kind)

HandOf(o) ==
  /\ loop.phase = "handle" /\ loop.first /\ loop.val.of = o => Ran(o, loop.val.kind)
  /\ loop.phase = "forward" /\ loop.entry.handle = o => executed[o] = 0

RunOf(o) == DoneOf(o) /\ UnsentOf(o) /\ SentOf(o) /\ HandOf(o)
RunInv == \A o \in Ops \ Spoiled : RunOf(o)


(***************************************************************************)
(* Records, sequences and the ring.                                        *)
(***************************************************************************)

\* Entries are commands with their own coroutines or noops.
LEMMA ProperEntries ==
  /\ Proper \subseteq Entries
  /\ AskingNoop \in Proper /\ AskingNoop.handle = "noop" /\ AskingNoop.payload = "ASKING"
  /\ \A o \in Ops : Command(o) \in Proper /\ Command(o).handle = o /\ Command(o).payload = o
  /\ \A e \in Proper : \/ e.handle = "noop" /\ e.payload = "ASKING"
                       \/ e.handle \in Ops /\ e.payload = e.handle
BY NamesAssumption DEF Proper, Command, AskingNoop, Entries

\* An idle loop.
LEMMA IdleIs ==
  /\ Idle \in LoopType /\ Idle.entry \in Proper /\ Sound(Idle.val)
  /\ Idle.phase = "idle" /\ Idle.node = "none" /\ ~Idle.first /\ Idle.left = 0
<1>1. Reply("ASKING", "null", "none") \in Replies
  BY DEF Reply, Replies
<1>2. AskingNoop \in Entries
  BY ProperEntries
<1>3. Sound(Idle.val)
  BY <1>1 DEF Sound, Idle, Reply
<1> QED  BY <1>1, <1>2, <1>3, ProperEntries DEF Idle, LoopType

\* The loop with a reply to handle and with an entry to forward.
LEMMA HandlingIs ==
  ASSUME NEW n \in Nodes, NEW val, Sound(val), NEW left \in Nat, NEW first \in BOOLEAN
  PROVE  LET l == Handling(n, val, left, first)
         IN  /\ l \in LoopType /\ l.entry \in Proper /\ Sound(l.val)
             /\ l.phase = "handle" /\ l.node = n /\ l.val = val
             /\ l.left = left /\ l.first = first
BY ProperEntries DEF Handling, LoopType, Sound

LEMMA ForwardingIs ==
  ASSUME NEW e \in Proper, LoopTypes
  PROVE  LET l == Forwarding(e)
         IN  /\ l \in LoopType /\ l.entry = e /\ Sound(l.val)
             /\ l.phase = "forward" /\ l.node = loop.node /\ l.val = loop.val
             /\ l.left = loop.left /\ l.first = loop.first
BY ProperEntries DEF Forwarding, LoopTypes, LoopType

\* The loop after a reply of its batch.
LEMMA NextIs ==
  ASSUME LoopTypes, loop.node \in Nodes, loop.left >= 1, NEW val, Sound(val)
  PROVE  LET l == NextReply(val)
         IN  /\ l \in LoopType /\ l.entry \in Proper /\ Sound(l.val) /\ ~l.first
             /\ l.phase # "forward"
             /\ \/ loop.left = 1 /\ l = Idle
                \/ /\ loop.left > 1 /\ l.phase = "handle" /\ l.node = loop.node
                   /\ l.left = loop.left - 1 /\ l.val = val
<1>1. CASE loop.left = 1
  BY <1>1, IdleIs DEF NextReply
<1>2. CASE loop.left > 1
  <2>1. loop.left - 1 \in Nat
    BY <1>2 DEF LoopTypes, LoopType
  <2> QED  BY <1>2, <2>1, ProperEntries DEF NextReply, Handling, LoopTypes, LoopType, Sound
<1> QED  BY <1>1, <1>2 DEF LoopTypes, LoopType

LEMMA TailIs ==
  ASSUME NEW S, NEW s \in Seq(S), s # <<>>
  PROVE  /\ Len(s) >= 1 /\ Head(s) = s[1] /\ Head(s) \in S
         /\ Tail(s) \in Seq(S) /\ Len(Tail(s)) = Len(s) - 1
         /\ \A k \in 1..(Len(s) - 1) : Tail(s)[k] = s[k + 1]
OBVIOUS

LEMMA AppendIs ==
  ASSUME NEW S, NEW s \in Seq(S), NEW e \in S
  PROVE  /\ Append(s, e) \in Seq(S) /\ Len(Append(s, e)) = Len(s) + 1
         /\ \A k \in 1..Len(s) : Append(s, e)[k] = s[k]
         /\ Append(s, e)[Len(s) + 1] = e
OBVIOUS

LEMMA ConcatIs ==
  ASSUME NEW S, NEW s \in Seq(S), NEW t \in Seq(S)
  PROVE  /\ s \o t \in Seq(S) /\ Len(s \o t) = Len(s) + Len(t)
         /\ \A k \in 1..Len(s) : (s \o t)[k] = s[k]
         /\ \A k \in 1..Len(t) : (s \o t)[Len(s) + k] = t[k]
OBVIOUS

LEMMA RestIs ==
  ASSUME NEW S, NEW s \in Seq(S), NEW k \in 1..Len(s)
  PROVE  /\ SubSeq(s, k + 1, Len(s)) \in Seq(S)
         /\ Len(SubSeq(s, k + 1, Len(s))) = Len(s) - k
         /\ \A j \in 1..(Len(s) - k) : SubSeq(s, k + 1, Len(s))[j] = s[k + j]
<1> DEFINE a == Len(s)
           t == SubSeq(s, k + 1, a)
<1>1. a \in Nat /\ k \in 1..a
  OBVIOUS
<1>2. /\ t \in Seq(S) /\ Len(t) = (IF k + 1 <= a THEN a - (k + 1) + 1 ELSE 0)
      /\ \A j \in 1..Len(t) : t[j] = s[k + 1 + j - 1]
  <2>1. \A j \in (k + 1)..a : j \in 1..a
    BY <1>1
  <2> QED  BY <1>1, <2>1
<1> HIDE DEF t
<1>3. Len(t) = a - k
  BY <1>1, <1>2
<1>4. \A j \in 1..(a - k) : k + 1 + j - 1 = k + j
  BY <1>1
<1>5. \A j \in 1..(a - k) : t[j] = s[k + j]
  BY <1>2, <1>3, <1>4
<1> QED  BY <1>2, <1>3, <1>5 DEF t, a

\* Replies that are sound.
LEMMA ReplyIs ==
  ASSUME NEW p \in Ops \cup {"ASKING"}, NEW kind \in {"ok", "moved", "ask", "odd", "null"},
         NEW to \in Nodes \cup {"none"}, kind \in {"moved", "ask"} => to \in Nodes
  PROVE  /\ Sound(Reply(p, kind, to)) /\ Reply(p, kind, to).of = p
         /\ Reply(p, kind, to).kind = kind /\ Reply(p, kind, to).to = to
BY DEF Sound, Reply, Replies

\* What is redirected: the entry, behind ASKING's noop or alone.
LEMMA RedirectedIs ==
  ASSUME LoopTypes
  PROVE  /\ Redirected \in Seq(Entries) /\ Len(Redirected) \in {1, 2}
         /\ Redirected[Len(Redirected)] = loop.entry
         /\ Len(Redirected) = 2 => Redirected[1] = AskingNoop
         /\ \A k \in 1..Len(Redirected) : Redirected[k] \in Proper
<1>1. loop.entry \in Entries /\ AskingNoop \in Entries
  BY ProperEntries DEF LoopTypes
<1>2. CASE loop.val.kind = "ask"
  <2>1. Redirected = <<AskingNoop, loop.entry>>
    BY <1>2 DEF Redirected
  <2> QED  BY <1>1, <2>1, ProperEntries DEF LoopTypes
<1>3. CASE loop.val.kind # "ask"
  <2>1. Redirected = <<loop.entry>>
    BY <1>3 DEF Redirected
  <2> QED  BY <1>1, <2>1, ProperEntries DEF LoopTypes
<1> QED  BY <1>2, <1>3

\* The ring after a push; a push_n that overruns it loses the oldest entry to
\* the newest.
LEMMA PushedIs ==
  ASSUME NEW q \in Seq(Entries), Len(q) < Capacity,
         NEW new \in Seq(Entries), Len(new) \in {1, 2}
  PROVE  /\ Pushed(q, new) \in Seq(Entries)
         /\ Len(Pushed(q, new)) = Len(q) + Len(new)
         /\ Len(Pushed(q, new)) <= Capacity + 1
         /\ \A k \in 1..Len(new) : Pushed(q, new)[Len(q) + k] = new[k]
         /\ \A k \in 1..Len(q) :
              k > 1 \/ Len(q) + Len(new) <= Capacity => Pushed(q, new)[k] = q[k]
         /\ Len(q) + Len(new) > Capacity => Len(q) >= 1 /\ Pushed(q, new)[1] = new[Len(new)]
<1> DEFINE all == q \o new
           a == Len(q)
           b == Len(new)
<1>1. /\ all \in Seq(Entries) /\ Len(all) = a + b
      /\ \A k \in 1..a : all[k] = q[k]
      /\ \A k \in 1..b : all[a + k] = new[k]
  BY ConcatIs
<1>2. a \in Nat /\ b \in {1, 2} /\ a < Capacity /\ Capacity \in Nat /\ Capacity >= 2
  BY CapacityAssumption
<1>3. Pushed(q, new) = IF Len(all) > Capacity THEN [all EXCEPT ![1] = all[Len(all)]] ELSE all
  BY DEF Pushed
<1>4. SUFFICES /\ Pushed(q, new) \in Seq(Entries)
               /\ Len(Pushed(q, new)) = a + b
               /\ a + b <= Capacity + 1
               /\ \A k \in 1..b : Pushed(q, new)[a + k] = new[k]
               /\ \A k \in 1..a : k > 1 \/ a + b <= Capacity => Pushed(q, new)[k] = q[k]
               /\ a + b > Capacity => a >= 1 /\ Pushed(q, new)[1] = new[b]
  OBVIOUS
<1> HIDE DEF all, a, b
<1>5. CASE a + b > Capacity
  <2>1. a >= 1 /\ b = 2 /\ 1 \in 1..(a + b) /\ a + b \in 1..(a + b) /\ b \in 1..b
    BY <1>2, <1>5
  <2>2. all[a + b] = new[b]
    BY <1>1, <2>1
  <2>3. all[a + b] \in Entries
    BY <1>1, <2>1
  <2>4. Pushed(q, new) = [all EXCEPT ![1] = new[b]]
    BY <1>1, <1>3, <1>5, <2>2
  <2>5. /\ Pushed(q, new) \in Seq(Entries) /\ Len(Pushed(q, new)) = a + b
        /\ \A k \in 1..(a + b) : k # 1 => Pushed(q, new)[k] = all[k]
        /\ Pushed(q, new)[1] = new[b]
    BY <1>1, <2>1, <2>2, <2>3, <2>4
  <2>6. \A k \in 1..b : a + k \in 1..(a + b) /\ a + k # 1
    BY <1>2, <2>1
  <2>7. \A k \in 1..a : k \in 1..(a + b) /\ (k > 1 => k # 1)
    BY <1>2, <2>1
  <2> QED  BY <1>1, <1>2, <1>5, <2>1, <2>5, <2>6, <2>7
<1>6. CASE ~(a + b > Capacity)
  <2>1. Pushed(q, new) = all
    BY <1>1, <1>3, <1>6
  <2> QED  BY <1>1, <1>2, <1>6, <2>1
<1> QED  BY <1>5, <1>6


(***************************************************************************)
(* What the steps do to the rings.                                         *)
(***************************************************************************)

\* At work, the loop has a node, a reply and committed commands.
LEMMA AtWork ==
  ASSUME TypeInv, LoopInv, loop.phase # "idle"
  PROVE  /\ loop.phase \in {"handle", "forward"} /\ loop.node \in Nodes
         /\ loop.left \in Nat /\ loop.left >= 1 /\ loop.first \in BOOLEAN
         /\ conn[loop.node] \in {"up", "lost"} /\ Sound(loop.val)
         /\ loop.phase = "handle" => committed[loop.node] >= loop.left
         /\ loop.phase = "forward" =>
              committed[loop.node] >= loop.left - 1 /\ loop.val.to \in Nodes
BY IdleIs DEF TypeInv, LoopTypes, LoopType, LoopInv, Held, Sound

\* A pop shortens one ring.
LEMMA HandlePops ==
  ASSUME TypeInv, LoopInv, Handle
  PROVE  LET n == loop.node
         IN  /\ n \in Nodes /\ loop.phase = "handle" /\ queue[n] # <<>>
             /\ Len(queue[n]) >= 1 /\ committed[n] >= 1
             /\ Head(queue[n]) = queue[n][1] /\ queue[n][1] \in Proper
             /\ queue' \in [Nodes -> Seq(Entries)] /\ committed' \in [Nodes -> Nat]
             /\ \A m \in Nodes : m # n => queue'[m] = queue[m] /\ committed'[m] = committed[m]
             /\ Len(queue'[n]) = Len(queue[n]) - 1 /\ committed'[n] = committed[n] - 1
             /\ \A k \in 1..(Len(queue[n]) - 1) : queue'[n][k] = queue[n][k + 1]
<1> DEFINE n == loop.node
<1>1. loop.phase = "handle" /\ queue[n] # <<>>
  BY DEF Handle
<1>2. n \in Nodes /\ committed[n] >= 1 /\ committed[n] \in Nat
  BY <1>1, AtWork DEF TypeInv, RingTypes
<1>3. /\ queue' = [queue EXCEPT ![n] = Tail(queue[n])]
      /\ committed' = [committed EXCEPT ![n] = committed[n] - 1]
  BY DEF Handle
<1>4. queue \in [Nodes -> Seq(Entries)] /\ committed \in [Nodes -> Nat] /\ queue[n] \in Seq(Entries)
  BY <1>2 DEF TypeInv, RingTypes
<1>5. /\ Len(queue[n]) >= 1 /\ Head(queue[n]) = queue[n][1]
      /\ Tail(queue[n]) \in Seq(Entries) /\ Len(Tail(queue[n])) = Len(queue[n]) - 1
      /\ \A k \in 1..(Len(queue[n]) - 1) : Tail(queue[n])[k] = queue[n][k + 1]
  BY <1>1, <1>4, TailIs
<1>6. queue[n][1] \in Proper
  BY <1>2, <1>4, <1>5 DEF TypeInv, RingTypes
<1>7. committed[n] - 1 \in Nat
  BY <1>2
<1> HIDE DEF n
<1> SUFFICES /\ queue' \in [Nodes -> Seq(Entries)] /\ committed' \in [Nodes -> Nat]
             /\ \A m \in Nodes : m # n => queue'[m] = queue[m] /\ committed'[m] = committed[m]
             /\ queue'[n] = Tail(queue[n]) /\ committed'[n] = committed[n] - 1
  BY <1>1, <1>2, <1>5, <1>6 DEF n
<1> QED  BY <1>2, <1>3, <1>4, <1>5, <1>7

\* A push lengthens one ring.
LEMMA PushAppends ==
  ASSUME TypeInv, NEW o \in Ops, Push(o)
  PROVE  LET n == at[o]
         IN  /\ n \in Nodes /\ committed' = committed
             /\ \/ queue' = queue /\ Refusal(n) # "none"
                \/ /\ Refusal(n) = "none" /\ Len(queue[n]) < Capacity
                   /\ queue' \in [Nodes -> Seq(Entries)]
                   /\ \A m \in Nodes : m # n => queue'[m] = queue[m]
                   /\ Len(queue'[n]) = Len(queue[n]) + 1
                   /\ \A k \in 1..Len(queue[n]) : queue'[n][k] = queue[n][k]
                   /\ queue'[n][Len(queue[n]) + 1] = Command(o)
<1> DEFINE n == at[o]
<1>1. n \in Nodes /\ queue \in [Nodes -> Seq(Entries)] /\ queue[n] \in Seq(Entries)
  BY DEF TypeInv, UserTypes, RingTypes
<1>2. Command(o) \in Entries
  BY ProperEntries
<1>3. committed' = committed
  BY DEF Push
<1>4. CASE Refusal(n) # "none"
  <2>1. queue' = queue
    BY <1>4 DEF Push
  <2> QED  BY <1>1, <1>3, <1>4, <2>1
<1>5. CASE Refusal(n) = "none"
  <2>1. queue' = [queue EXCEPT ![n] = Append(queue[n], Command(o))]
    BY <1>5 DEF Push
  <2>2. ~(Len(queue[n]) >= Capacity)
    BY <1>5 DEF Refusal
  <2>3. Len(queue[n]) < Capacity
    BY <1>1, <2>2, CapacityAssumption
  <2>4. /\ Append(queue[n], Command(o)) \in Seq(Entries)
        /\ Len(Append(queue[n], Command(o))) = Len(queue[n]) + 1
        /\ \A k \in 1..Len(queue[n]) : Append(queue[n], Command(o))[k] = queue[n][k]
        /\ Append(queue[n], Command(o))[Len(queue[n]) + 1] = Command(o)
    BY <1>1, <1>2, AppendIs
  <2>5. /\ queue'[n] = Append(queue[n], Command(o)) /\ queue' \in [Nodes -> Seq(Entries)]
        /\ \A m \in Nodes : m # n => queue'[m] = queue[m]
    BY <1>1, <2>1, <2>4
  <2> HIDE DEF n
  <2>6. SUFFICES /\ n \in Nodes /\ committed' = committed
                 /\ Refusal(n) = "none" /\ Len(queue[n]) < Capacity
                 /\ queue' \in [Nodes -> Seq(Entries)]
                 /\ \A m \in Nodes : m # n => queue'[m] = queue[m]
                 /\ Len(queue'[n]) = Len(queue[n]) + 1
                 /\ \A k \in 1..Len(queue[n]) : queue'[n][k] = queue[n][k]
                 /\ queue'[n][Len(queue[n]) + 1] = Command(o)
    BY DEF n
  <2> QED  BY <1>1, <1>3, <1>5, <2>3, <2>4, <2>5
<1> QED  BY <1>4, <1>5

\* A redirect lengthens one ring, and spoils at most its oldest and its newest
\* entry.
LEMMA ForwardAppends ==
  ASSUME TypeInv, LoopInv, Forward
  PROVE  LET n == loop.val.to
         IN  /\ n \in Nodes /\ loop.phase = "forward" /\ committed' = committed
             /\ \/ queue' = queue /\ overrun' = overrun /\ Refusal(n) # "none"
                \/ /\ Refusal(n) = "none" /\ Len(queue[n]) < Capacity /\ fate' = fate
                   /\ queue' \in [Nodes -> Seq(Entries)]
                   /\ overrun \subseteq overrun' /\ overrun' \subseteq Ops
                   /\ \A m \in Nodes : m # n => queue'[m] = queue[m]
                   /\ Len(queue'[n]) = Len(queue[n]) + Len(Redirected)
                   /\ Len(queue'[n]) <= Capacity + 1
                   /\ \A k \in 1..Len(Redirected) :
                        queue'[n][Len(queue[n]) + k] = Redirected[k]
                   /\ \A k \in 1..Len(queue[n]) :
                        \/ queue'[n][k] = queue[n][k]
                        \/ /\ k = 1 /\ queue'[n][k] = loop.entry
                           /\ {queue[n][k].handle, loop.entry.handle}
                                \subseteq overrun' \cup {"noop"}
<1> DEFINE n == loop.val.to
<1>1. loop.phase = "forward" /\ committed' = committed
  BY DEF Forward
<1>2. n \in Nodes
  BY <1>1, AtWork
<1>3. queue \in [Nodes -> Seq(Entries)] /\ queue[n] \in Seq(Entries) /\ overrun \subseteq Ops
  BY <1>2 DEF TypeInv, RingTypes, FarTypes
<1>4. CASE Refusal(n) # "none"
  <2>1. queue' = queue /\ overrun' = overrun
    BY <1>4 DEF Forward
  <2> QED  BY <1>1, <1>2, <1>4, <2>1
<1>5. CASE Refusal(n) = "none"
  <2> DEFINE q == queue[n]
             w == Redirected
  <2>1. /\ queue' = [queue EXCEPT ![n] = Pushed(q, w)] /\ fate' = fate
        /\ overrun' = overrun \cup Overwritten(q, w)
    BY <1>5 DEF Forward
  <2>2. ~(Len(q) >= Capacity)
    BY <1>5 DEF Refusal
  <2>3. Len(q) < Capacity
    BY <1>3, <2>2, CapacityAssumption
  <2>4. /\ w \in Seq(Entries) /\ Len(w) \in {1, 2} /\ w[Len(w)] = loop.entry
        /\ loop.entry \in Proper
    BY RedirectedIs DEF TypeInv, LoopTypes
  <2> HIDE DEF w
  <2>5. /\ Pushed(q, w) \in Seq(Entries) /\ Len(Pushed(q, w)) = Len(q) + Len(w)
        /\ Len(Pushed(q, w)) <= Capacity + 1
        /\ \A k \in 1..Len(w) : Pushed(q, w)[Len(q) + k] = w[k]
        /\ \A k \in 1..Len(q) :
             k > 1 \/ Len(q) + Len(w) <= Capacity => Pushed(q, w)[k] = q[k]
        /\ Len(q) + Len(w) > Capacity => Len(q) >= 1 /\ Pushed(q, w)[1] = w[Len(w)]
    BY <1>3, <2>3, <2>4, PushedIs
  <2>6. Len(q) + Len(w) > Capacity =>
          {q[1].handle, loop.entry.handle} \subseteq overrun' \cup {"noop"}
    <3>1. SUFFICES ASSUME Len(q) + Len(w) > Capacity
                   PROVE  {q[1].handle, loop.entry.handle} \subseteq overrun' \cup {"noop"}
      OBVIOUS
    <3>2. Head(q) = q[1]
      BY <1>3, <2>5, <3>1
    <3>3. Overwritten(q, w) = Touched(q[1].handle) \cup Touched(loop.entry.handle)
      BY <2>4, <3>1, <3>2 DEF Overwritten
    <3> QED  BY <2>1, <3>3 DEF Touched
  <2>7. Overwritten(q, w) \subseteq Ops
    <3>1. CASE Len(q) + Len(w) > Capacity
      <4>1. Head(q) = q[1] /\ 1 \in 1..Len(q)
        BY <1>3, <2>5, <3>1
      <4>2. q[1] \in Proper
        BY <1>2, <4>1 DEF TypeInv, RingTypes
      <4>3. Overwritten(q, w) = Touched(q[1].handle) \cup Touched(loop.entry.handle)
        BY <2>4, <3>1, <4>1 DEF Overwritten
      <4> QED  BY <2>4, <4>2, <4>3, ProperEntries DEF Touched
    <3>2. CASE ~(Len(q) + Len(w) > Capacity)
      BY <3>2 DEF Overwritten
    <3> QED  BY <3>1, <3>2
  <2>8. \A k \in 1..Len(q) : \/ Pushed(q, w)[k] = q[k]
                             \/ /\ k = 1 /\ Pushed(q, w)[k] = loop.entry
                                /\ {q[k].handle, loop.entry.handle} \subseteq overrun' \cup {"noop"}
    <3>1. SUFFICES ASSUME NEW k \in 1..Len(q), Pushed(q, w)[k] # q[k]
                   PROVE  /\ k = 1 /\ Pushed(q, w)[k] = loop.entry
                          /\ {q[k].handle, loop.entry.handle} \subseteq overrun' \cup {"noop"}
      OBVIOUS
    <3>2. ~(k > 1) /\ ~(Len(q) + Len(w) <= Capacity)
      BY <2>5, <3>1
    <3>3. k = 1
      BY <1>3, <3>2
    <3>4. Len(q) + Len(w) > Capacity
      BY <1>3, <2>4, <3>2, CapacityAssumption
    <3> QED  BY <2>4, <2>5, <2>6, <3>3, <3>4
  <2>9. /\ queue' \in [Nodes -> Seq(Entries)] /\ queue'[n] = Pushed(q, w)
        /\ \A m \in Nodes : m # n => queue'[m] = queue[m]
    BY <1>2, <1>3, <2>1, <2>5
  <2> HIDE DEF n
  <2>10. q = queue[n] /\ n = loop.val.to /\ w = Redirected
    BY DEF n, w
  <2> HIDE DEF q
  <2> QED  BY <1>1, <1>2, <1>3, <1>5, <2>1, <2>3, <2>5, <2>7, <2>8, <2>9, <2>10
<1> QED  BY <1>4, <1>5


(***************************************************************************)
(* Types.                                                                  *)
(***************************************************************************)

LEMMA RingTypesStep ==
  ASSUME TypeInv, LoopInv, FarInv, [Next]_vars
  PROVE  RingTypes'
<1> USE DEF TypeInv
<1>a. /\ queue \in [Nodes -> Seq(Entries)] /\ committed \in [Nodes -> Nat]
      /\ open \in [Nodes -> BOOLEAN] /\ event \in [Nodes -> BOOLEAN]
      /\ \A n \in Nodes : Len(queue[n]) <= Capacity + 1 /\ committed[n] \in 0..Len(queue[n])
      /\ \A n \in Nodes : \A k \in 1..Len(queue[n]) : queue[n][k] \in Proper
      /\ \A n \in Nodes : queue[n] \in Seq(Entries) /\ Len(queue[n]) \in Nat
  BY DEF RingTypes
<1>same. ASSUME UNCHANGED <<queue, committed>>, open' \in [Nodes -> BOOLEAN],
                event' \in [Nodes -> BOOLEAN]
         PROVE  RingTypes'
  BY <1>a, <1>same DEF RingTypes
<1>1. ASSUME NEW o \in Ops, GetSlot(o) \/ TryConnect(o) \/ Create(o) \/ Launch(o)
      PROVE  RingTypes'
  BY <1>1, <1>a, <1>same DEF GetSlot, TryConnect, Create, Launch, rings
<1>2. ASSUME NEW o \in Ops, Push(o)
      PROVE  RingTypes'
  <2>1. open' = open /\ event' \in [Nodes -> BOOLEAN] /\ committed' = committed
    BY <1>2, <1>a DEF Push
  <2>2. CASE queue' = queue
    BY <1>same, <2>1, <2>2, <1>a
  <2>3. CASE queue' # queue
    <3> DEFINE n == at[o]
               q == queue[n]
               t == queue'[n]
    <3>1. /\ n \in Nodes /\ Len(q) < Capacity /\ queue' \in [Nodes -> Seq(Entries)]
          /\ \A m \in Nodes : m # n => queue'[m] = queue[m]
          /\ Len(t) = Len(q) + 1
          /\ \A k \in 1..Len(q) : t[k] = q[k]
          /\ t[Len(q) + 1] = Command(o)
      BY <1>2, <2>3, PushAppends
    <3>2. /\ Len(q) \in Nat /\ Len(q) <= Capacity + 1 /\ committed[n] \in 0..Len(q)
          /\ \A k \in 1..Len(q) : q[k] \in Proper
      BY <1>a, <3>1
    <3>3. Command(o) \in Proper
      BY ProperEntries
    <3> HIDE DEF t
    <3>4. \A k \in 1..Len(t) : t[k] \in Proper
      <4> SUFFICES ASSUME NEW k \in 1..Len(t) PROVE t[k] \in Proper
        OBVIOUS
      <4>1. k \in 1..Len(q) \/ k = Len(q) + 1
        BY <3>1, <3>2
      <4> QED  BY <3>1, <3>2, <3>3, <4>1
    <3>5. Len(t) <= Capacity + 1 /\ committed[n] \in 0..Len(t)
      BY <3>1, <3>2, CapacityAssumption
    <3>6. \A m \in Nodes : /\ Len(queue'[m]) <= Capacity + 1
                           /\ committed'[m] \in 0..Len(queue'[m])
                           /\ \A k \in 1..Len(queue'[m]) : queue'[m][k] \in Proper
      <4> SUFFICES ASSUME NEW m \in Nodes
                   PROVE  /\ Len(queue'[m]) <= Capacity + 1
                          /\ committed'[m] \in 0..Len(queue'[m])
                          /\ \A k \in 1..Len(queue'[m]) : queue'[m][k] \in Proper
        OBVIOUS
      <4>1. CASE m = n
        BY <2>1, <3>4, <3>5, <4>1 DEF t
      <4>2. CASE m # n
        BY <1>a, <2>1, <3>1, <4>2
      <4> QED  BY <4>1, <4>2
    <3> QED  BY <1>a, <2>1, <3>1, <3>6 DEF RingTypes
  <2> QED  BY <2>2, <2>3
<1>3. ASSUME NEW n \in Nodes, Connected(n) \/ Receive(n) \/ Serve(n) \/ PeerCloses(n)
      PROVE  RingTypes'
  BY <1>3, <1>a, <1>same DEF Connected, Receive, Serve, PeerCloses, rings
<1>4. ASSUME NEW n \in Nodes, Send(n)
      PROVE  RingTypes'
  <2>1. /\ queue' = queue /\ open' = open /\ event' \in [Nodes -> BOOLEAN]
        /\ committed' = [committed EXCEPT ![n] = Len(queue[n])]
    BY <1>4, <1>a DEF Send
  <2>2. \A m \in Nodes : committed'[m] \in 0..Len(queue[m])
    BY <1>a, <2>1
  <2> QED  BY <1>a, <2>1, <2>2 DEF RingTypes
<1>5. ASSUME NEW n \in Nodes, Drain(n)
      PROVE  RingTypes'
  <2>1. /\ queue' = [queue EXCEPT ![n] = <<>>] /\ event' = event
        /\ open' = [open EXCEPT ![n] = FALSE]
        /\ committed' = [committed EXCEPT ![n] = 0]
    BY <1>5 DEF Drain
  <2>2. /\ queue' \in [Nodes -> Seq(Entries)] /\ committed' \in [Nodes -> Nat]
        /\ open' \in [Nodes -> BOOLEAN] /\ queue'[n] = <<>> /\ committed'[n] = 0
        /\ \A m \in Nodes : m # n => queue'[m] = queue[m] /\ committed'[m] = committed[m]
    BY <1>a, <2>1
  <2>3. 0 <= Capacity + 1
    BY CapacityAssumption
  <2>4. \A m \in Nodes : /\ Len(queue'[m]) <= Capacity + 1
                         /\ committed'[m] \in 0..Len(queue'[m])
                         /\ \A k \in 1..Len(queue'[m]) : queue'[m][k] \in Proper
    <3> SUFFICES ASSUME NEW m \in Nodes
                 PROVE  /\ Len(queue'[m]) <= Capacity + 1
                        /\ committed'[m] \in 0..Len(queue'[m])
                        /\ \A k \in 1..Len(queue'[m]) : queue'[m][k] \in Proper
      OBVIOUS
    <3>1. CASE m = n
      <4>1. Len(queue'[m]) = 0 /\ committed'[m] = 0
        BY <2>2, <3>1
      <4> QED  BY <2>3, <4>1
    <3>2. CASE m # n
      BY <1>a, <2>2, <3>2
    <3> QED  BY <3>1, <3>2
  <2> QED  BY <1>a, <2>1, <2>2, <2>4 DEF RingTypes
<1>6. ASSUME NEW n \in Nodes, Reset(n)
      PROVE  RingTypes'
  BY <1>6, <1>a, <1>same DEF Reset
<1>7. ASSUME Handle
      PROVE  RingTypes'
  <2> DEFINE n == loop.node
             q == queue[n]
             t == queue'[n]
  <2>1. open' = open /\ event' = event
    BY <1>7 DEF Handle
  <2>2. /\ n \in Nodes /\ committed[n] >= 1
        /\ queue' \in [Nodes -> Seq(Entries)] /\ committed' \in [Nodes -> Nat]
        /\ \A m \in Nodes : m # n => queue'[m] = queue[m] /\ committed'[m] = committed[m]
        /\ Len(t) = Len(q) - 1 /\ committed'[n] = committed[n] - 1
        /\ \A k \in 1..(Len(q) - 1) : t[k] = q[k + 1]
    BY <1>7, HandlePops
  <2>3. /\ Len(q) \in Nat /\ Len(q) <= Capacity + 1 /\ committed[n] \in 0..Len(q)
        /\ \A k \in 1..Len(q) : q[k] \in Proper
    BY <1>a, <2>2
  <2> HIDE DEF t
  <2>4. \A k \in 1..Len(t) : t[k] \in Proper
    <3> SUFFICES ASSUME NEW k \in 1..Len(t) PROVE t[k] \in Proper
      OBVIOUS
    <3>1. k \in 1..(Len(q) - 1) /\ k + 1 \in 1..Len(q)
      BY <2>2, <2>3
    <3> QED  BY <2>2, <2>3, <3>1
  <2>5. Len(t) <= Capacity + 1 /\ committed'[n] \in 0..Len(t)
    BY <2>2, <2>3, CapacityAssumption
  <2>6. \A m \in Nodes : /\ Len(queue'[m]) <= Capacity + 1
                         /\ committed'[m] \in 0..Len(queue'[m])
                         /\ \A k \in 1..Len(queue'[m]) : queue'[m][k] \in Proper
    <3> SUFFICES ASSUME NEW m \in Nodes
                 PROVE  /\ Len(queue'[m]) <= Capacity + 1
                        /\ committed'[m] \in 0..Len(queue'[m])
                        /\ \A k \in 1..Len(queue'[m]) : queue'[m][k] \in Proper
      OBVIOUS
    <3>1. CASE m = n
      BY <2>4, <2>5, <3>1 DEF t
    <3>2. CASE m # n
      BY <1>a, <2>2, <3>2
    <3> QED  BY <3>1, <3>2
  <2> QED  BY <1>a, <2>1, <2>2, <2>6 DEF RingTypes
<1>8. ASSUME Forward
      PROVE  RingTypes'
  <2> DEFINE n == loop.val.to
             q == queue[n]
             t == queue'[n]
             w == Redirected
  <2>1. open' = open /\ event' \in [Nodes -> BOOLEAN] /\ committed' = committed
    BY <1>8, <1>a DEF Forward
  <2>2. CASE queue' = queue
    BY <1>same, <2>1, <2>2, <1>a
  <2>3. CASE queue' # queue
    <3>1. /\ n \in Nodes /\ queue' \in [Nodes -> Seq(Entries)]
          /\ \A m \in Nodes : m # n => queue'[m] = queue[m]
          /\ Len(t) = Len(q) + Len(w) /\ Len(t) <= Capacity + 1
          /\ \A k \in 1..Len(w) : t[Len(q) + k] = w[k]
          /\ \A k \in 1..Len(q) : t[k] \in {q[k], loop.entry}
      BY <1>8, <2>3, ForwardAppends
    <3>2. /\ Len(q) \in Nat /\ committed[n] \in 0..Len(q)
          /\ \A k \in 1..Len(q) : q[k] \in Proper
      BY <1>a, <3>1
    <3>3. loop.entry \in Proper /\ Len(w) \in {1, 2} /\ \A k \in 1..Len(w) : w[k] \in Proper
      BY RedirectedIs DEF LoopTypes
    <3> HIDE DEF t, w
    <3>4. \A k \in 1..Len(t) : t[k] \in Proper
      <4> SUFFICES ASSUME NEW k \in 1..Len(t) PROVE t[k] \in Proper
        OBVIOUS
      <4>1. CASE k \in 1..Len(q)
        BY <3>1, <3>2, <3>3, <4>1
      <4>2. CASE k \notin 1..Len(q)
        <5>1. k - Len(q) \in 1..Len(w) /\ Len(q) + (k - Len(q)) = k
          BY <3>1, <3>2, <3>3, <4>2
        <5> QED  BY <3>1, <3>3, <5>1
      <4> QED  BY <4>1, <4>2
    <3>5. committed[n] \in 0..Len(t)
      BY <3>1, <3>2, <3>3
    <3>6. \A m \in Nodes : /\ Len(queue'[m]) <= Capacity + 1
                           /\ committed'[m] \in 0..Len(queue'[m])
                           /\ \A k \in 1..Len(queue'[m]) : queue'[m][k] \in Proper
      <4> SUFFICES ASSUME NEW m \in Nodes
                   PROVE  /\ Len(queue'[m]) <= Capacity + 1
                          /\ committed'[m] \in 0..Len(queue'[m])
                          /\ \A k \in 1..Len(queue'[m]) : queue'[m][k] \in Proper
        OBVIOUS
      <4>1. CASE m = n
        BY <2>1, <3>1, <3>4, <3>5, <4>1 DEF t
      <4>2. CASE m # n
        BY <1>a, <2>1, <3>1, <4>2
      <4> QED  BY <4>1, <4>2
    <3> QED  BY <1>a, <2>1, <3>1, <3>6 DEF RingTypes
  <2> QED  BY <2>2, <2>3
<1>9. ASSUME Migration \/ UNCHANGED vars
      PROVE  RingTypes'
  BY <1>9, <1>a, <1>same DEF Migration, StartMove, FinishMove, vars, rings
<1> QED
  BY <1>1, <1>2, <1>3, <1>4, <1>5, <1>6, <1>7, <1>8, <1>9
  DEF Next, User, Shard, Node, Finished

\* The value a reply leaves behind is still one.
LEMMA NullIs ==
  ASSUME Sound(loop.val)
  PROVE  LET v == Reply(loop.val.of, "null", loop.val.to)
         IN  Sound(v) /\ v.of = loop.val.of /\ v.kind = "null" /\ v.to = loop.val.to
BY DEF Sound, Reply, Replies

\* After the loop's own steps.
LEMMA LoopAfter ==
  ASSUME TypeInv, LoopInv, Handle \/ Forward
  PROVE  /\ LoopTypes'
         /\ \/ loop' = Idle
            \/ /\ loop'.phase = "handle" /\ ~loop'.first /\ loop'.node = loop.node
               /\ loop.left > 1 /\ loop'.left = loop.left - 1
            \/ /\ Handle /\ loop'.phase = "forward" /\ loop'.node = loop.node
               /\ loop'.left = loop.left /\ loop'.first = loop.first
               /\ loop'.val = loop.val /\ loop.val.kind \in {"moved", "ask"}
               /\ loop'.entry = Head(queue[loop.node])
<1>0. /\ loop.node \in Nodes /\ loop.left >= 1 /\ Sound(loop.val)
      /\ loop.phase \in {"handle", "forward"} /\ LoopTypes
  BY AtWork DEF Handle, Forward, TypeInv
<1>next. ASSUME NEW val, Sound(val), loop' = NextReply(val)
         PROVE  /\ LoopTypes'
                /\ \/ loop' = Idle
                   \/ /\ loop'.phase = "handle" /\ ~loop'.first /\ loop'.node = loop.node
                      /\ loop.left > 1 /\ loop'.left = loop.left - 1
  <2>1. LET l == NextReply(val)
        IN  /\ l \in LoopType /\ l.entry \in Proper /\ Sound(l.val) /\ ~l.first
            /\ l.phase # "forward"
            /\ \/ loop.left = 1 /\ l = Idle
               \/ /\ loop.left > 1 /\ l.phase = "handle" /\ l.node = loop.node
                  /\ l.left = loop.left - 1 /\ l.val = val
    BY <1>0, <1>next, NextIs
  <2> QED  BY <1>next, <2>1 DEF LoopTypes
<1>1. CASE Forward
  BY <1>0, <1>1, <1>next DEF Forward
<1>2. CASE Handle
  <2> DEFINE e == Head(queue[loop.node])
  <2>1. e \in Proper
    BY <1>2, HandlePops
  <2>2. CASE loop.val.kind \in {"ok", "null"}
    <3>1. loop' = NextReply(Reply(loop.val.of, "null", loop.val.to))
      BY <1>2, <2>2 DEF Handle
    <3>2. Sound(Reply(loop.val.of, "null", loop.val.to))
      BY <1>0, NullIs
    <3> QED  BY <1>next, <3>1, <3>2
  <2>3. CASE loop.val.kind \in {"moved", "ask"}
    <3>1. loop' = Forwarding(e)
      BY <1>2, <2>3 DEF Handle
    <3> HIDE DEF e
    <3>2. LET l == Forwarding(e)
          IN  /\ l \in LoopType /\ l.entry = e /\ Sound(l.val)
              /\ l.phase = "forward" /\ l.node = loop.node /\ l.val = loop.val
              /\ l.left = loop.left /\ l.first = loop.first
      BY <1>0, <2>1, ForwardingIs
    <3> QED  BY <1>2, <2>1, <2>3, <3>1, <3>2 DEF LoopTypes, e
  <2>4. CASE loop.val.kind = "odd"
    <3>1. loop' = Idle
      BY <1>2, <2>4 DEF Handle
    <3> QED  BY <3>1, IdleIs DEF LoopTypes
  <2> QED  BY <1>2, <2>2, <2>3, <2>4 DEF Handle
<1> QED  BY <1>1, <1>2

LEMMA LoopTypesStep ==
  ASSUME TypeInv, LoopInv, [Next]_vars
  PROVE  LoopTypes'
<1>same. ASSUME loop' = loop
         PROVE  LoopTypes'
  BY <1>same DEF TypeInv, LoopTypes
<1>1. ASSUME NEW o \in Ops, User(o)
      PROVE  LoopTypes'
  BY <1>1, <1>same DEF User, GetSlot, TryConnect, Create, Launch, Push
<1>2. ASSUME NEW n \in Nodes, Connected(n) \/ Send(n) \/ Drain(n) \/ Reset(n) \/ Node(n)
      PROVE  LoopTypes'
  BY <1>2, <1>same DEF Connected, Send, Drain, Reset, Node, Serve, PeerCloses
<1>3. ASSUME NEW n \in Nodes, Receive(n)
      PROVE  LoopTypes'
  <2>1. PICK k \in 1..Len(wire[n]) : loop' = Handling(n, wire[n][1], k, TRUE)
    BY <1>3 DEF Receive
  <2>2. Len(wire[n]) \in Nat /\ Sound(wire[n][1])
    <3>1. wire[n] \in Seq(Replies)
      BY DEF TypeInv, FarTypes
    <3>2. 1 \in 1..Len(wire[n])
      BY <3>1
    <3> QED  BY <3>1, <3>2 DEF TypeInv, FarTypes
  <2>3. k \in Nat
    BY <2>2
  <2>4. LET l == Handling(n, wire[n][1], k, TRUE)
        IN  l \in LoopType /\ l.entry \in Proper /\ Sound(l.val)
    BY <2>2, <2>3, HandlingIs
  <2> QED  BY <2>1, <2>4 DEF LoopTypes
<1>4. ASSUME Handle \/ Forward
      PROVE  LoopTypes'
  BY <1>4, LoopAfter
<1>5. ASSUME Migration \/ UNCHANGED vars
      PROVE  LoopTypes'
  BY <1>5, <1>same DEF Migration, StartMove, FinishMove, vars
<1> QED
  BY <1>1, <1>2, <1>3, <1>4, <1>5 DEF Next, Shard, Finished

LEMMA UserTypesStep ==
  ASSUME TypeInv, LoopInv, MakerInv, [Next]_vars
  PROVE  UserTypes'
<1> USE DEF TypeInv
<1>0. /\ slot \in [Slots -> Nodes]
      /\ shard \in [Nodes -> {"absent", "init", "connecting", "connected"}]
      /\ conn \in [Nodes -> {"none", "connecting", "up", "lost", "draining"}]
      /\ pc \in [Ops -> {"new", "try", "create", "launch", "push", "pushed"}]
      /\ at \in [Ops -> Nodes]
      /\ fate \in [Ops -> {"none", "conn_err", "overflow", "reply", "other", "null"}]
      /\ created \in [Nodes -> 0..1]
      /\ \A o \in Ops : SlotOf[o] \in Slots
  BY SlotAssumption DEF UserTypes
<1>same. ASSUME UNCHANGED <<slot, shard, conn, pc, at, fate, created>>
         PROVE  UserTypes'
  BY <1>same, <1>0 DEF UserTypes
<1>1. ASSUME NEW o \in Ops, GetSlot(o) \/ TryConnect(o) \/ Launch(o)
      PROVE  UserTypes'
  BY <1>1, <1>0 DEF UserTypes, GetSlot, TryConnect, Launch, router, history
<1>2. ASSUME NEW o \in Ops, Create(o)
      PROVE  UserTypes'
  <2>1. at[o] \in Nodes /\ created[at[o]] = 0
    BY <1>0, <1>2 DEF MakerInv, Create
  <2>2. created' = [created EXCEPT ![at[o]] = created[at[o]] + 1]
    BY <1>2 DEF Create
  <2>3. created' \in [Nodes -> 0..1]
    BY <1>0, <2>1, <2>2
  <2> QED  BY <1>0, <1>2, <2>3 DEF UserTypes, Create
<1>3. ASSUME NEW o \in Ops, Push(o)
      PROVE  UserTypes'
  <2>1. Refusal(at[o]) \in {"none", "conn_err", "overflow"}
    BY DEF Refusal
  <2> QED  BY <1>0, <1>3, <2>1 DEF UserTypes, Push, router, history
<1>4. ASSUME NEW n \in Nodes, Connected(n) \/ Reset(n) \/ PeerCloses(n)
      PROVE  UserTypes'
  BY <1>4, <1>0 DEF UserTypes, Connected, Reset, PeerCloses, router, history, users
<1>5. ASSUME NEW n \in Nodes, Send(n) \/ Receive(n) \/ Serve(n)
      PROVE  UserTypes'
  BY <1>5, <1>same DEF Send, Receive, Serve, router, history, users
<1>6. ASSUME NEW n \in Nodes, Drain(n)
      PROVE  UserTypes'
  BY <1>6, <1>0 DEF UserTypes, Drain, router, history
<1>7. ASSUME Handle
      PROVE  UserTypes'
  <2>1. /\ pc' = pc /\ at' = at /\ created' = created
    BY <1>7 DEF Handle
  <2>2. loop.node \in Nodes /\ Sound(loop.val)
    BY <1>7, AtWork DEF Handle
  <2>3. CASE loop.val.kind \in {"ok", "null"}
    <3>1. Outcome(Head(queue[loop.node]), loop.val) \in {"null", "reply", "other"}
      BY DEF Outcome
    <3>2. /\ Resumed(Head(queue[loop.node]).handle, Outcome(Head(queue[loop.node]), loop.val))
          /\ UNCHANGED <<slot, shard, conn>>
      BY <1>7, <2>3 DEF Handle, router
    <3>3. fate' \in [Ops -> {"none", "conn_err", "overflow", "reply", "other", "null"}]
      BY <1>0, <3>1, <3>2 DEF Resumed
    <3> QED  BY <1>0, <2>1, <3>2, <3>3 DEF UserTypes
  <2>4. CASE loop.val.kind \in {"moved", "ask"}
    <3>1. /\ UNCHANGED <<conn, fate>> /\ loop.val.to \in Nodes
          /\ shard' \in [Nodes -> {"absent", "init", "connecting", "connected"}]
      BY <1>0, <1>7, <2>2, <2>4 DEF Handle, Sound
    <3>2. slot' \in [Slots -> Nodes]
      BY <1>0, <1>7, <2>4, <3>1 DEF Handle
    <3> QED  BY <1>0, <2>1, <3>1, <3>2 DEF UserTypes
  <2>5. CASE loop.val.kind = "odd"
    BY <1>0, <1>7, <2>1, <2>2, <2>5 DEF UserTypes, Handle, router
  <2> QED  BY <1>7, <2>3, <2>4, <2>5 DEF Handle
<1>8. ASSUME Forward
      PROVE  UserTypes'
  <2> DEFINE n == loop.val.to
  <2>1. n \in Nodes /\ UNCHANGED <<slot, pc, at>>
    BY <1>8, AtWork DEF Forward
  <2>2. /\ shard' \in [Nodes -> {"absent", "init", "connecting", "connected"}]
        /\ conn' \in [Nodes -> {"none", "connecting", "up", "lost", "draining"}]
    BY <1>0, <1>8, <2>1 DEF Forward
  <2>3. created' \in [Nodes -> 0..1]
    <3>1. created' = [created EXCEPT ![n] = IF shard[n] = "init" THEN created[n] + 1
                                           ELSE created[n]]
      BY <1>8 DEF Forward
    <3>2. shard[n] = "init" => created[n] = 0
      BY <2>1 DEF MakerInv
    <3> QED  BY <1>0, <2>1, <3>1, <3>2
  <2>4. fate' \in [Ops -> {"none", "conn_err", "overflow", "reply", "other", "null"}]
    <3>1. Refusal(n) \in {"none", "conn_err", "overflow"}
      BY DEF Refusal
    <3>2. CASE Refusal(n) = "none"
      BY <1>0, <1>8, <3>2 DEF Forward
    <3>3. CASE Refusal(n) # "none"
      BY <1>0, <1>8, <3>1, <3>3 DEF Forward, Resumed
    <3> QED  BY <3>2, <3>3
  <2> QED  BY <1>0, <2>1, <2>2, <2>3, <2>4 DEF UserTypes
<1>9. ASSUME Migration \/ UNCHANGED vars
      PROVE  UserTypes'
  BY <1>9, <1>same DEF Migration, StartMove, FinishMove, vars, router, history, users
<1> QED
  BY <1>1, <1>2, <1>3, <1>4, <1>5, <1>6, <1>7, <1>8, <1>9
  DEF Next, User, Shard, Node, Finished

\* A node answers the oldest command it has.
LEMMA ServeAnswers ==
  ASSUME TypeInv, NEW n \in Nodes, Serve(n)
  PROVE  LET p == srv[n][1]
             r == wire'[n][Len(wire[n]) + 1]
         IN  /\ conn[n] = "up" /\ Len(srv[n]) >= 1 /\ p \in Ops \cup {"ASKING"}
             /\ srv' \in [Nodes -> Seq(Ops \cup {"ASKING"})]
             /\ \A m \in Nodes : m # n => srv'[m] = srv[m] /\ wire'[m] = wire[m]
             /\ Len(srv'[n]) = Len(srv[n]) - 1
             /\ \A k \in 1..(Len(srv[n]) - 1) : srv'[n][k] = srv[n][k + 1]
             /\ wire' \in [Nodes -> Seq(Replies)] /\ Len(wire'[n]) = Len(wire[n]) + 1
             /\ \A k \in 1..Len(wire[n]) : wire'[n][k] = wire[n][k]
             /\ Sound(r) /\ r.of = p /\ r.kind # "null"
             /\ \/ p = "ASKING" /\ executed' = executed
                \/ /\ p \in Ops /\ r.kind = "ok"
                   /\ executed' = [executed EXCEPT ![p] = executed[p] + 1]
                \/ p \in Ops /\ r.kind # "ok" /\ executed' = executed
<1> USE DEF TypeInv
<1> DEFINE s == srv[n]
           p == srv[n][1]
<1>0. /\ s \in Seq(Ops \cup {"ASKING"}) /\ wire[n] \in Seq(Replies)
      /\ srv \in [Nodes -> Seq(Ops \cup {"ASKING"})] /\ wire \in [Nodes -> Seq(Replies)]
      /\ owner \in [Slots -> Nodes] /\ moving \in [Slots -> Nodes \cup {"none"}]
  BY DEF FarTypes
<1>1. conn[n] = "up" /\ s # <<>> /\ srv' = [srv EXCEPT ![n] = Tail(s)]
  BY DEF Serve
<1>2. /\ Len(s) >= 1 /\ Head(s) = p /\ p \in Ops \cup {"ASKING"}
      /\ Tail(s) \in Seq(Ops \cup {"ASKING"}) /\ Len(Tail(s)) = Len(s) - 1
      /\ \A k \in 1..(Len(s) - 1) : Tail(s)[k] = s[k + 1]
  BY <1>0, <1>1, TailIs
<1>3. /\ srv' \in [Nodes -> Seq(Ops \cup {"ASKING"})] /\ srv'[n] = Tail(s)
      /\ \A m \in Nodes : m # n => srv'[m] = srv[m]
  BY <1>0, <1>1, <1>2
<1>4. ASSUME NEW r, wire' = [wire EXCEPT ![n] = Append(wire[n], r)], Sound(r)
      PROVE  /\ wire' \in [Nodes -> Seq(Replies)] /\ Len(wire'[n]) = Len(wire[n]) + 1
             /\ \A k \in 1..Len(wire[n]) : wire'[n][k] = wire[n][k]
             /\ wire'[n][Len(wire[n]) + 1] = r
             /\ \A m \in Nodes : m # n => wire'[m] = wire[m]
  <2>1. r \in Replies
    BY <1>4 DEF Sound
  <2>2. /\ Append(wire[n], r) \in Seq(Replies) /\ Len(Append(wire[n], r)) = Len(wire[n]) + 1
        /\ \A k \in 1..Len(wire[n]) : Append(wire[n], r)[k] = wire[n][k]
        /\ Append(wire[n], r)[Len(wire[n]) + 1] = r
    BY <1>0, <2>1, AppendIs
  <2>3. wire'[n] = Append(wire[n], r) /\ \A m \in Nodes : m # n => wire'[m] = wire[m]
    BY <1>0, <1>4
  <2>4. wire' \in [Nodes -> Seq(Replies)]
    BY <1>0, <1>4, <2>2
  <2> QED  BY <2>2, <2>3, <2>4
<1>5. CASE p = "ASKING"
  <2>1. wire' = [wire EXCEPT ![n] = Append(wire[n], Reply(p, "ok", "none"))] /\ executed' = executed
    BY <1>2, <1>5 DEF Serve
  <2>2. Sound(Reply(p, "ok", "none")) /\ Reply(p, "ok", "none").of = p
        /\ Reply(p, "ok", "none").kind = "ok"
    BY <1>2, ReplyIs
  <2> HIDE DEF s, p
  <2>3. s = srv[n] /\ p = srv[n][1]
    BY DEF s, p
  <2>4. /\ wire' \in [Nodes -> Seq(Replies)] /\ Len(wire'[n]) = Len(wire[n]) + 1
        /\ \A k \in 1..Len(wire[n]) : wire'[n][k] = wire[n][k]
        /\ wire'[n][Len(wire[n]) + 1] = Reply(p, "ok", "none")
        /\ \A m \in Nodes : m # n => wire'[m] = wire[m]
    BY <1>4, <2>1, <2>2
  <2> QED  BY <1>1, <1>2, <1>3, <1>5, <2>1, <2>2, <2>3, <2>4
<1>6. CASE p # "ASKING"
  <2>1. p \in Ops /\ SlotOf[p] \in Slots
    BY <1>2, <1>6, SlotAssumption
  <2>pick. PICK m \in Peers(n) : \E kind \in Answers(m, SlotOf[p], asked[n]) :
          /\ wire' = [wire EXCEPT ![n] = Append(wire[n], Reply(p, kind,
                        CASE kind = "ask"   -> moving[SlotOf[p]]
                          [] kind = "moved" -> owner[SlotOf[p]]
                          [] OTHER          -> "none"))]
          /\ executed' = IF kind = "ok" THEN [executed EXCEPT ![p] = executed[p] + 1]
                         ELSE executed
    BY <1>2, <1>6 DEF Serve
  <2>2. PICK kind \in Answers(m, SlotOf[p], asked[n]) :
          /\ wire' = [wire EXCEPT ![n] = Append(wire[n], Reply(p, kind,
                        CASE kind = "ask"   -> moving[SlotOf[p]]
                          [] kind = "moved" -> owner[SlotOf[p]]
                          [] OTHER          -> "none"))]
          /\ executed' = IF kind = "ok" THEN [executed EXCEPT ![p] = executed[p] + 1]
                         ELSE executed
    BY <2>pick
  <2>3. kind \in {"ok", "ask", "moved", "odd"}
    BY <2>2 DEF Answers
  <2>4. kind = "ask" => moving[SlotOf[p]] # "none"
    BY <2>2 DEF Answers
  <2> DEFINE to == CASE kind = "ask"   -> moving[SlotOf[p]]
                     [] kind = "moved" -> owner[SlotOf[p]]
                     [] OTHER          -> "none"
  <2>5. to \in Nodes \cup {"none"} /\ (kind \in {"moved", "ask"} => to \in Nodes)
    BY <1>0, <2>1, <2>3, <2>4
  <2>6. wire' = [wire EXCEPT ![n] = Append(wire[n], Reply(p, kind, to))]
    BY <2>2
  <2> HIDE DEF to
  <2>7. Sound(Reply(p, kind, to)) /\ Reply(p, kind, to).of = p /\ Reply(p, kind, to).kind = kind
    BY <1>2, <2>3, <2>5 DEF Sound, Reply, Replies
  <2> HIDE DEF s, p
  <2>8. s = srv[n] /\ p = srv[n][1]
    BY DEF s, p
  <2>9. /\ wire' \in [Nodes -> Seq(Replies)] /\ Len(wire'[n]) = Len(wire[n]) + 1
        /\ \A k \in 1..Len(wire[n]) : wire'[n][k] = wire[n][k]
        /\ wire'[n][Len(wire[n]) + 1] = Reply(p, kind, to)
        /\ \A x \in Nodes : x # n => wire'[x] = wire[x]
    BY <1>4, <2>6, <2>7
  <2>10. kind # "null"
    BY <2>3
  <2>11. \/ kind = "ok" /\ executed' = [executed EXCEPT ![p] = executed[p] + 1]
         \/ kind # "ok" /\ executed' = executed
    BY <2>2
  <2> QED  BY <1>1, <1>2, <1>3, <2>1, <2>7, <2>8, <2>9, <2>10, <2>11
<1> QED  BY <1>5, <1>6

LEMMA FarTypesStep ==
  ASSUME TypeInv, LoopInv, [Next]_vars
  PROVE  FarTypes'
<1> USE DEF TypeInv
<1>0. /\ owner \in [Slots -> Nodes] /\ moving \in [Slots -> Nodes \cup {"none"}]
      /\ asked \in [Nodes -> BOOLEAN]
      /\ srv \in [Nodes -> Seq(Ops \cup {"ASKING"})] /\ wire \in [Nodes -> Seq(Replies)]
      /\ \A n \in Nodes : \A k \in 1..Len(wire[n]) : Sound(wire[n][k])
      /\ executed \in [Ops -> Nat] /\ overrun \cup lost \cup batched \subseteq Ops
      /\ \A n \in Nodes : wire[n] \in Seq(Replies) /\ srv[n] \in Seq(Ops \cup {"ASKING"})
  BY DEF FarTypes
<1>same. ASSUME UNCHANGED <<owner, moving, asked, srv, wire, executed>>,
                overrun' \cup lost' \cup batched' \subseteq Ops
         PROVE  FarTypes'
  BY <1>same, <1>0 DEF FarTypes
<1>far. ASSUME UNCHANGED <<owner, moving, executed, overrun, lost, batched>>,
               asked' \in [Nodes -> BOOLEAN], NEW n \in Nodes,
               srv' = [srv EXCEPT ![n] = <<>>] \/ srv' = srv,
               wire' = [wire EXCEPT ![n] = <<>>] \/ wire' = wire
        PROVE  FarTypes'
  <2>1. srv' \in [Nodes -> Seq(Ops \cup {"ASKING"})] /\ wire' \in [Nodes -> Seq(Replies)]
    <3>1. <<>> \in Seq(Ops \cup {"ASKING"}) /\ <<>> \in Seq(Replies)
      OBVIOUS
    <3>2. srv' \in [Nodes -> Seq(Ops \cup {"ASKING"})]
      BY <1>0, <1>far, <3>1
    <3>3. wire' \in [Nodes -> Seq(Replies)]
      BY <1>0, <1>far, <3>1
    <3> QED  BY <3>2, <3>3
  <2>2. \A m \in Nodes : wire'[m] = wire[m] \/ wire'[m] = <<>>
    BY <1>0, <1>far
  <2>3. \A m \in Nodes : \A k \in 1..Len(wire'[m]) : Sound(wire'[m][k])
    <3> SUFFICES ASSUME NEW m \in Nodes, NEW k \in 1..Len(wire'[m])
                 PROVE  Sound(wire'[m][k])
      OBVIOUS
    <3>1. CASE wire'[m] = wire[m]
      BY <1>0, <3>1
    <3>2. CASE wire'[m] = <<>>
      <4>1. Len(wire'[m]) = 0
        BY <3>2
      <4> QED  BY <4>1
    <3> QED  BY <2>2, <3>1, <3>2
  <2> QED  BY <1>0, <1>far, <2>1, <2>3 DEF FarTypes
<1>1. ASSUME NEW o \in Ops, User(o)
      PROVE  FarTypes'
  BY <1>1, <1>0, <1>same
  DEF User, GetSlot, TryConnect, Create, Launch, Push, servers, history
<1>2. ASSUME NEW n \in Nodes, Drain(n) \/ Reset(n)
      PROVE  FarTypes'
  BY <1>2, <1>0, <1>same DEF Drain, Reset, servers, history
<1>3. ASSUME NEW n \in Nodes, Connected(n) \/ PeerCloses(n)
      PROVE  FarTypes'
  BY <1>3, <1>0, <1>far DEF Connected, PeerCloses, history
<1>4. ASSUME NEW n \in Nodes, Send(n)
      PROVE  FarTypes'
  <2> DEFINE new == [i \in 1..(Len(queue[n]) - committed[n]) |->
                       queue[n][committed[n] + i].payload]
  <2>1. /\ UNCHANGED <<owner, moving, asked, wire, executed, overrun, lost, batched>>
        /\ srv' = [srv EXCEPT ![n] = srv[n] \o new]
    BY <1>4 DEF Send, history
  <2>2. /\ queue[n] \in Seq(Entries) /\ committed[n] \in 0..Len(queue[n])
        /\ Len(queue[n]) \in Nat
    BY DEF RingTypes
  <2>3. Len(queue[n]) - committed[n] \in Nat
    BY <2>2
  <2>4. \A i \in 1..(Len(queue[n]) - committed[n]) : committed[n] + i \in 1..Len(queue[n])
    BY <2>2
  <2>5. \A k \in 1..Len(queue[n]) : queue[n][k].payload \in Ops \cup {"ASKING"}
    <3>1. \A k \in 1..Len(queue[n]) : queue[n][k] \in Entries
      BY <2>2
    <3> QED  BY <3>1 DEF Entries
  <2>6. new \in Seq(Ops \cup {"ASKING"})
    BY <2>3, <2>4, <2>5
  <2> HIDE DEF new
  <2>7. srv[n] \o new \in Seq(Ops \cup {"ASKING"})
    BY <1>0, <2>6, ConcatIs
  <2>8. srv' \in [Nodes -> Seq(Ops \cup {"ASKING"})]
    BY <1>0, <2>1, <2>7
  <2> QED  BY <1>0, <2>1, <2>8 DEF FarTypes
<1>5. ASSUME NEW n \in Nodes, Receive(n)
      PROVE  FarTypes'
  <2>1. PICK k \in 1..Len(wire[n]) :
          wire' = [wire EXCEPT ![n] = SubSeq(wire[n], k + 1, Len(wire[n]))]
    BY <1>5 DEF Receive
  <2>2. UNCHANGED <<owner, moving, asked, srv, executed, overrun, lost, batched>>
    BY <1>5 DEF Receive, history
  <2> DEFINE t == SubSeq(wire[n], k + 1, Len(wire[n]))
  <2>3. /\ t \in Seq(Replies) /\ Len(t) = Len(wire[n]) - k
        /\ \A j \in 1..(Len(wire[n]) - k) : t[j] = wire[n][k + j]
    BY <1>0, RestIs
  <2>6. \A j \in 1..(Len(wire[n]) - k) : k + j \in 1..Len(wire[n])
    BY <1>0
  <2> HIDE DEF t
  <2>7. wire' = [wire EXCEPT ![n] = t]
    BY <2>1 DEF t
  <2>4. wire' \in [Nodes -> Seq(Replies)]
    BY <1>0, <2>3, <2>7
  <2>5. \A m \in Nodes : \A j \in 1..Len(wire'[m]) : Sound(wire'[m][j])
    <3> SUFFICES ASSUME NEW m \in Nodes, NEW j \in 1..Len(wire'[m])
                 PROVE  Sound(wire'[m][j])
      OBVIOUS
    <3>1. CASE m = n
      BY <1>0, <2>3, <2>6, <2>7, <3>1
    <3>2. CASE m # n
      BY <1>0, <2>1, <3>2
    <3> QED  BY <3>1, <3>2
  <2> QED  BY <1>0, <2>2, <2>4, <2>5 DEF FarTypes
<1>6. ASSUME NEW n \in Nodes, Serve(n)
      PROVE  FarTypes'
  <2> DEFINE r == wire'[n][Len(wire[n]) + 1]
  <2>1. /\ srv' \in [Nodes -> Seq(Ops \cup {"ASKING"})]
        /\ wire' \in [Nodes -> Seq(Replies)] /\ Len(wire'[n]) = Len(wire[n]) + 1
        /\ \A m \in Nodes : m # n => wire'[m] = wire[m]
        /\ \A k \in 1..Len(wire[n]) : wire'[n][k] = wire[n][k]
        /\ Sound(r)
    BY <1>6, ServeAnswers
  <2>2. executed' \in [Ops -> Nat]
    <3> DEFINE p == srv[n][1]
    <3>1. \/ executed' = executed
          \/ p \in Ops /\ executed' = [executed EXCEPT ![p] = executed[p] + 1]
      BY <1>6, ServeAnswers
    <3> HIDE DEF p
    <3> QED  BY <1>0, <3>1
  <2>3. asked' \in [Nodes -> BOOLEAN]
    BY <1>0, <1>6 DEF Serve
  <2>4. UNCHANGED <<owner, moving, overrun, lost, batched>>
    BY <1>6 DEF Serve
  <2>5. \A m \in Nodes : \A k \in 1..Len(wire'[m]) : Sound(wire'[m][k])
    <3> SUFFICES ASSUME NEW m \in Nodes, NEW k \in 1..Len(wire'[m])
                 PROVE  Sound(wire'[m][k])
      OBVIOUS
    <3>1. CASE m = n
      <4>1. Len(wire[n]) \in Nat
        BY <1>0
      <4>2. k \in 1..Len(wire[n]) \/ k = Len(wire[n]) + 1
        BY <2>1, <3>1, <4>1
      <4> QED  BY <1>0, <2>1, <3>1, <4>2
    <3>2. CASE m # n
      BY <1>0, <2>1, <3>2
    <3> QED  BY <3>1, <3>2
  <2> QED  BY <1>0, <2>1, <2>2, <2>3, <2>4, <2>5 DEF FarTypes
<1>7. ASSUME Handle
      PROVE  FarTypes'
  <2>1. Touched(Head(queue[loop.node]).handle) \subseteq Ops
    <3>1. Head(queue[loop.node]) \in Proper
      BY <1>7, HandlePops
    <3> QED  BY <3>1, ProperEntries DEF Touched
  <2>2. /\ overrun' = overrun
        /\ batched' \subseteq batched \cup Touched(Head(queue[loop.node]).handle)
        /\ lost' \subseteq lost \cup Touched(Head(queue[loop.node]).handle)
    BY <1>7 DEF Handle
  <2> QED  BY <1>0, <1>7, <1>same, <2>1, <2>2 DEF Handle, servers
<1>8. ASSUME Forward
      PROVE  FarTypes'
  <2>1. overrun' \subseteq Ops
    BY <1>0, <1>8, ForwardAppends
  <2> QED  BY <1>0, <1>8, <1>same, <2>1 DEF Forward, servers
<1>9. ASSUME Migration \/ UNCHANGED vars
      PROVE  FarTypes'
  <2>1. CASE UNCHANGED vars
    BY <1>0, <1>same, <2>1 DEF vars, servers, history
  <2>2. ASSUME NEW s \in Slots, FinishMove(s) \/ \E m \in Nodes : StartMove(s, m)
        PROVE  FarTypes'
    <3>1. owner' \in [Slots -> Nodes] /\ moving' \in [Slots -> Nodes \cup {"none"}]
      BY <1>0, <2>2 DEF FinishMove, StartMove
    <3> QED  BY <1>0, <2>2, <3>1 DEF FarTypes, FinishMove, StartMove, history
  <2> QED  BY <1>9, <2>1, <2>2 DEF Migration
<1> QED
  BY <1>1, <1>2, <1>3, <1>4, <1>5, <1>6, <1>7, <1>8, <1>9
  DEF Next, User, Shard, Node, Finished


(***************************************************************************)
(* One maker per shard; what the loop works on.                            *)
(***************************************************************************)

LEMMA MakerStep ==
  ASSUME TypeInv, LoopInv, MakerInv, [Next]_vars
  PROVE  MakerInv'
<1>0. /\ slot \in [Slots -> Nodes]
      /\ shard \in [Nodes -> {"absent", "init", "connecting", "connected"}]
      /\ conn \in [Nodes -> {"none", "connecting", "up", "lost", "draining"}]
      /\ pc \in [Ops -> {"new", "try", "create", "launch", "push", "pushed"}]
      /\ at \in [Ops -> Nodes] /\ created \in [Nodes -> 0..1]
      /\ \A o \in Ops : SlotOf[o] \in Slots
  BY SlotAssumption DEF TypeInv, UserTypes
\* A step that makes no shard and moves no maker.
<1>same. ASSUME UNCHANGED <<at, created, pc>>,
                \A n \in Nodes : \/ shard'[n] = shard[n]
                                 \/ shard[n] = "absent" /\ shard'[n] = "init",
                \A n \in Nodes : conn[n] = "none" <=> conn'[n] = "none",
                \A s \in Slots : slot'[s] \in Nodes /\ shard'[slot'[s]] # "absent"
         PROVE  MakerInv'
  BY <1>0, <1>same DEF MakerInv
<1>1. ASSUME NEW o \in Ops, GetSlot(o)
      PROVE  MakerInv'
  BY <1>0, <1>1 DEF GetSlot, MakerInv, router, history
<1>2. ASSUME NEW o \in Ops, TryConnect(o)
      PROVE  MakerInv'
  BY <1>0, <1>2 DEF TryConnect, MakerInv, history
<1>3. ASSUME NEW o \in Ops, Create(o)
      PROVE  MakerInv'
  BY <1>0, <1>3 DEF Create, MakerInv
<1>4. ASSUME NEW o \in Ops, Launch(o)
      PROVE  MakerInv'
  BY <1>0, <1>4 DEF Launch, MakerInv, router, history
<1>5. ASSUME NEW o \in Ops, Push(o)
      PROVE  MakerInv'
  BY <1>0, <1>5 DEF Push, MakerInv, router, history
<1>6. ASSUME NEW n \in Nodes, Connected(n) \/ Drain(n) \/ Reset(n) \/ PeerCloses(n)
      PROVE  MakerInv'
  <2>1. \A m \in Nodes : conn[m] = "none" <=> conn'[m] = "none"
    BY <1>0, <1>6 DEF Connected, Drain, Reset, PeerCloses
  <2> QED
    BY <1>0, <1>6, <1>same, <2>1
    DEF MakerInv, Connected, Drain, Reset, PeerCloses, router, users, history
<1>7. ASSUME NEW n \in Nodes, Send(n) \/ Receive(n) \/ Serve(n)
      PROVE  MakerInv'
  BY <1>0, <1>7, <1>same DEF MakerInv, Send, Receive, Serve, router, users, history
<1>8. ASSUME Handle
      PROVE  MakerInv'
  <2>1. /\ UNCHANGED <<at, created, pc>> /\ loop.node \in Nodes /\ Sound(loop.val)
        /\ conn[loop.node] \in {"up", "lost"}
    BY <1>8, AtWork DEF Handle
  <2>2. CASE loop.val.kind \in {"ok", "null", "odd"}
    <3>1. UNCHANGED <<slot, shard>> /\ conn' \in {conn, [conn EXCEPT ![loop.node] = "lost"]}
      BY <1>8, <2>2 DEF Handle, router
    <3>2. \A m \in Nodes : conn[m] = "none" <=> conn'[m] = "none"
      BY <1>0, <2>1, <3>1
    <3> QED  BY <1>0, <1>same, <2>1, <3>1, <3>2 DEF MakerInv
  <2>3. CASE loop.val.kind \in {"moved", "ask"}
    <3> DEFINE n == loop.val.to
    <3>1. n \in Nodes
      BY <2>1, <2>3 DEF Sound
    <3>2. /\ conn' = conn
          /\ shard' = [shard EXCEPT ![n] = IF shard[n] = "absent" THEN "init" ELSE shard[n]]
          /\ slot' \in {slot, [slot EXCEPT ![SlotOf[loop.val.of]] = n]}
      BY <1>8, <2>3 DEF Handle
    <3> HIDE DEF n
    <3>3. shard'[n] # "absent" /\ \A m \in Nodes : shard[m] # "absent" => shard'[m] # "absent"
      BY <1>0, <3>1, <3>2
    <3>4. \A s \in Slots : slot'[s] \in {slot[s], n}
      BY <1>0, <3>2
    <3>5. \A s \in Slots : slot'[s] \in Nodes /\ shard'[slot'[s]] # "absent"
      BY <1>0, <3>1, <3>3, <3>4 DEF MakerInv
    <3>6. \A m \in Nodes : \/ shard'[m] = shard[m]
                           \/ shard[m] = "absent" /\ shard'[m] = "init"
      BY <1>0, <3>1, <3>2
    <3> QED  BY <1>same, <2>1, <3>2, <3>5, <3>6
  <2> QED  BY <1>8, <2>2, <2>3 DEF Handle
<1>9. ASSUME Forward
      PROVE  MakerInv'
  <2> DEFINE n == loop.val.to
  <2>1. /\ n \in Nodes /\ UNCHANGED <<slot, pc, at>> /\ shard[n] \in {"init", "connected"}
    BY <1>0, <1>9, AtWork DEF Forward, LoopInv
  <2>2. /\ shard' = [shard EXCEPT ![n] = "connected"]
        /\ created' = [created EXCEPT ![n] = IF shard[n] = "init" THEN created[n] + 1
                                             ELSE created[n]]
        /\ conn' = [conn EXCEPT ![n] = IF shard[n] = "init" THEN "connecting" ELSE conn[n]]
    BY <1>9 DEF Forward
  <2> HIDE DEF n
  <2>3. CASE shard[n] = "connected"
    <3>1. shard' = shard /\ created' = created /\ conn' = conn
      BY <1>0, <2>1, <2>2, <2>3
    <3> QED  BY <1>0, <1>same, <2>1, <3>1 DEF MakerInv
  <2>4. CASE shard[n] = "init"
    <3>1. /\ shard'[n] = "connected"
          /\ \A m \in Nodes : m # n => /\ shard'[m] = shard[m] /\ created'[m] = created[m]
                                       /\ conn'[m] = conn[m]
      BY <1>0, <2>1, <2>2
    <3>2. \A o \in Ops : pc[o] \in {"create", "launch"} => at[o] # n
      BY <1>0, <2>1, <2>4 DEF MakerInv
    <3> QED  BY <1>0, <2>1, <3>1, <3>2 DEF MakerInv
  <2> QED  BY <2>1, <2>3, <2>4
<1>10. ASSUME Migration \/ UNCHANGED vars
       PROVE  MakerInv'
  BY <1>0, <1>10, <1>same
  DEF MakerInv, Migration, StartMove, FinishMove, vars, router, users, history
<1> QED
  BY <1>1, <1>2, <1>3, <1>4, <1>5, <1>6, <1>7, <1>8, <1>9, <1>10
  DEF Next, User, Shard, Node, Finished

LEMMA LoopStep ==
  ASSUME TypeInv, LoopInv, MakerInv, FarInv, [Next]_vars
  PROVE  LoopInv'
<1>0. /\ shard \in [Nodes -> {"absent", "init", "connecting", "connected"}]
      /\ conn \in [Nodes -> {"none", "connecting", "up", "lost", "draining"}]
      /\ committed \in [Nodes -> Nat] /\ at \in [Ops -> Nodes]
  BY DEF TypeInv, UserTypes, RingTypes
\* No step of the loop, and none of a connection it works on.
<1>same. ASSUME loop' = loop,
                \A n \in Nodes : /\ shard[n] # "absent" => shard'[n] # "absent"
                                 /\ conn'[n] = "draining" => loop = Idle
                                 /\ conn'[n] \in {"none", "connecting", "draining"} =>
                                      committed'[n] = 0,
                loop.node \in Nodes => /\ committed'[loop.node] = committed[loop.node]
                                       /\ conn'[loop.node] = conn[loop.node] \/ conn'[loop.node] = "lost"
         PROVE  LoopInv'
  <2>1. loop.phase = "forward" => loop.val.to \in Nodes
    BY AtWork
  <2>2. Held(loop.node)' = Held(loop.node)
    BY <1>same DEF Held
  <2>3. loop.phase = "forward" => loop.val.kind \in {"moved", "ask"} /\ shard'[loop.val.to] # "absent"
    BY <1>same, <2>1 DEF LoopInv
  <2>4. CASE loop = Idle
    BY <1>same, <2>3, <2>4 DEF LoopInv
  <2>5. CASE loop # Idle
    BY <1>same, <2>2, <2>3, <2>5 DEF LoopInv
  <2> QED  BY <2>4, <2>5
<1>1. ASSUME NEW o \in Ops, GetSlot(o) \/ Push(o)
      PROVE  LoopInv'
  BY <1>1, <1>same DEF GetSlot, Push, LoopInv, router, rings
<1>2. ASSUME NEW o \in Ops, TryConnect(o) \/ Create(o)
      PROVE  LoopInv'
  BY <1>0, <1>2, <1>same DEF TryConnect, Create, LoopInv, rings
<1>3. ASSUME NEW o \in Ops, Launch(o)
      PROVE  LoopInv'
  <2>1. /\ at[o] \in Nodes /\ conn[at[o]] = "none" /\ committed[at[o]] = 0
    BY <1>0, <1>3 DEF Launch, MakerInv, LoopInv
  <2>2. loop.node \in Nodes => loop.node # at[o]
    BY <2>1, IdleIs, NamesAssumption DEF LoopInv
  <2>3. /\ loop' = loop /\ shard' = shard /\ committed' = committed
        /\ conn' = [conn EXCEPT ![at[o]] = "connecting"]
    BY <1>3 DEF Launch, router, rings
  <2> QED  BY <1>0, <1>same, <2>1, <2>2, <2>3 DEF LoopInv
<1>4. ASSUME NEW n \in Nodes, Connected(n) \/ Send(n) \/ Drain(n)
      PROVE  LoopInv'
  <2>1. /\ loop = Idle /\ loop' = loop /\ shard' = shard /\ loop.node \notin Nodes
        /\ loop.phase = "idle"
    BY <1>4, IdleIs, NamesAssumption
    DEF Connected, Send, Drain, LoopFree, router
  <2>2. \A m \in Nodes : conn'[m] \in {"none", "connecting", "draining"} => committed'[m] = 0
    BY <1>0, <1>4 DEF Connected, Send, Drain, LoopInv, rings
  <2> QED  BY <1>same, <2>1, <2>2
<1>5. ASSUME NEW n \in Nodes, Reset(n)
      PROVE  LoopInv'
  <2>1. /\ loop = Idle /\ loop' = loop /\ shard' = shard /\ loop.node \notin Nodes
    BY <1>5, IdleIs, NamesAssumption DEF Reset, LoopInv, router
  <2>2. \A m \in Nodes : conn'[m] \in {"none", "connecting", "draining"} => committed'[m] = 0
    BY <1>0, <1>5 DEF Reset, LoopInv
  <2> QED  BY <1>same, <2>1, <2>2
<1>6. ASSUME NEW n \in Nodes, Serve(n) \/ PeerCloses(n)
      PROVE  LoopInv'
  BY <1>0, <1>6, <1>same DEF Serve, PeerCloses, LoopInv, router, rings
<1>7. ASSUME NEW n \in Nodes, Receive(n)
      PROVE  LoopInv'
  <2>1. PICK k \in 1..Len(wire[n]) : loop' = Handling(n, wire[n][1], k, TRUE)
    BY <1>7 DEF Receive
  <2>2. /\ loop = Idle /\ conn[n] = "up" /\ UNCHANGED <<shard, conn, committed>>
        /\ \A m \in Nodes : conn[m] # "draining"
    BY <1>7 DEF Receive, LoopFree, router, rings
  <2>3. wire[n] \in Seq(Replies) /\ srv[n] \in Seq(Ops \cup {"ASKING"})
    BY DEF TypeInv, FarTypes
  <2>4. Len(wire[n]) \in Nat /\ Len(srv[n]) \in Nat /\ Held(n) = 0
    BY <2>2, <2>3, IdleIs, NamesAssumption DEF Held
  <2>5. committed[n] >= k
    BY <2>2, <2>4 DEF FarInv, FarAt
  <2>6. k \in Nat /\ k >= 1
    BY <2>4
  <2>7. /\ loop'.phase = "handle" /\ loop'.node = n /\ loop'.left = k
    BY <2>1 DEF Handling
  <2>8. Held(loop.node)' = k
    BY <2>7 DEF Held
  <2> QED  BY <2>2, <2>5, <2>6, <2>7, <2>8 DEF LoopInv
<1>8. ASSUME Handle \/ Forward
      PROVE  LoopInv'
  <2> DEFINE n == loop.node
  <2>0. /\ n \in Nodes /\ loop.left \in Nat /\ conn[n] \in {"up", "lost"} /\ loop # Idle
        /\ Sound(loop.val)
    BY <1>8, AtWork, IdleIs DEF Handle, Forward
  <2>1. \/ loop' = Idle
        \/ /\ loop'.phase = "handle" /\ loop'.node = n
           /\ loop.left > 1 /\ loop'.left = loop.left - 1
        \/ /\ Handle /\ loop'.phase = "forward" /\ loop'.node = n
           /\ loop'.left = loop.left /\ loop'.val = loop.val
           /\ loop.val.kind \in {"moved", "ask"}
    BY <1>8, LoopAfter
  <2>2. /\ conn'[n] \in {"up", "lost"} /\ committed'[n] \in Nat
        /\ committed'[n] >= loop.left - 1 /\ loop.left >= 1
        /\ \A m \in Nodes : conn'[m] # "draining"
        /\ \A m \in Nodes : conn'[m] \in {"none", "connecting"} => committed'[m] = 0
    <3>1. CASE Handle
      <4>1. conn' \in {conn, [conn EXCEPT ![n] = "lost"]}
        BY <3>1 DEF Handle
      <4>2. /\ committed'[n] = committed[n] - 1 /\ committed[n] >= 1
            /\ \A m \in Nodes : m # n => committed'[m] = committed[m]
        BY <3>1, HandlePops
      <4>3. committed[n] >= loop.left /\ loop.left >= 1 /\ committed[n] \in Nat
        BY <1>0, <2>0, <3>1, AtWork DEF Handle
      <4>4. \A m \in Nodes : conn[m] # "draining"
        BY <2>0 DEF LoopInv
      <4>5. \A m \in Nodes : conn'[m] \in {"none", "connecting"} => m # n /\ conn'[m] = conn[m]
        BY <1>0, <2>0, <4>1
      <4>6. \A m \in Nodes : conn[m] \in {"none", "connecting"} => committed[m] = 0
        BY DEF LoopInv
      <4>7. conn'[n] \in {"up", "lost"} /\ \A m \in Nodes : conn'[m] # "draining"
        BY <1>0, <2>0, <4>1, <4>4
      <4>8. committed'[n] \in Nat /\ committed'[n] >= loop.left - 1
        BY <2>0, <4>2, <4>3
      <4> QED  BY <4>2, <4>3, <4>5, <4>6, <4>7, <4>8
    <3>2. CASE Forward
      <4>1. /\ committed' = committed /\ loop.val.to \in Nodes /\ committed[n] >= loop.left - 1
            /\ loop.left >= 1
        BY <3>2, AtWork DEF Forward
      <4>2. conn' = [conn EXCEPT ![loop.val.to] =
                       IF shard[loop.val.to] = "init" THEN "connecting" ELSE conn[loop.val.to]]
        BY <3>2 DEF Forward
      <4>3. shard[loop.val.to] = "init" => conn[loop.val.to] = "none" /\ committed[loop.val.to] = 0
        BY <4>1 DEF MakerInv, LoopInv
      <4>4. \A m \in Nodes : conn[m] # "draining"
        BY <2>0 DEF LoopInv
      <4>5. \A m \in Nodes : conn[m] \in {"none", "connecting"} => committed[m] = 0
        BY DEF LoopInv
      <4>6. \A m \in Nodes : \/ conn'[m] = conn[m]
                             \/ /\ conn'[m] = "connecting" /\ conn[m] = "none"
                                /\ committed[m] = 0
        BY <1>0, <4>1, <4>2, <4>3
      <4>7. committed[n] \in Nat
        BY <1>0, <2>0
      <4> QED  BY <2>0, <4>1, <4>4, <4>5, <4>6, <4>7
    <3> QED  BY <1>8, <3>1, <3>2
  <2>3. CASE loop' = Idle
    <3>1. ~(loop'.phase = "forward")
      BY <2>3, IdleIs
    <3> QED  BY <2>2, <2>3, <3>1 DEF LoopInv
  <2>4. CASE /\ loop'.phase = "handle" /\ loop'.node = n
             /\ loop.left > 1 /\ loop'.left = loop.left - 1
    <3>1. Held(loop.node)' = loop.left - 1
      BY <2>4 DEF Held
    <3>2. loop.left - 1 >= 1
      BY <2>0, <2>4
    <3> QED  BY <2>0, <2>2, <2>4, <3>1, <3>2 DEF LoopInv
  <2>5. CASE /\ Handle /\ loop'.phase = "forward" /\ loop'.node = n
             /\ loop'.left = loop.left /\ loop'.val = loop.val
             /\ loop.val.kind \in {"moved", "ask"}
    <3>1. Held(loop.node)' = loop.left - 1
      BY <2>5 DEF Held
    <3>2. loop.val.to \in Nodes
      BY <2>0, <2>5 DEF Sound
    <3>3. shard'[loop.val.to] # "absent"
      BY <1>0, <2>5, <3>2 DEF Handle
    <3> QED  BY <2>0, <2>2, <2>5, <3>1, <3>3 DEF LoopInv
  <2> QED  BY <2>1, <2>3, <2>4, <2>5
<1>9. ASSUME Migration \/ UNCHANGED vars
      PROVE  LoopInv'
  BY <1>9, <1>same DEF LoopInv, Migration, StartMove, FinishMove, vars, router, rings
<1> QED
  BY <1>1, <1>2, <1>3, <1>4, <1>5, <1>6, <1>7, <1>8, <1>9
  DEF Next, User, Shard, Node, Finished


(***************************************************************************)
(* What a connection carries.                                              *)
(***************************************************************************)

LEMMA FarNumbers ==
  ASSUME TypeInv, LoopInv, NEW n \in Nodes
  PROVE  /\ Held(n) \in Nat /\ committed[n] \in Nat /\ Len(queue[n]) \in Nat
         /\ committed[n] <= Len(queue[n]) /\ Len(wire[n]) \in Nat /\ Len(srv[n]) \in Nat
<1>1. /\ wire[n] \in Seq(Replies) /\ srv[n] \in Seq(Ops \cup {"ASKING"})
      /\ queue[n] \in Seq(Entries) /\ committed[n] \in 0..Len(queue[n])
  BY DEF TypeInv, FarTypes, RingTypes
<1>2. Held(n) \in Nat
  <2>1. CASE loop.node = n
    <3>1. loop # Idle
      BY <2>1, IdleIs, NamesAssumption
    <3>2. loop.left \in Nat /\ loop.left >= 1
      BY <3>1 DEF TypeInv, LoopTypes, LoopType, LoopInv
    <3> QED  BY <2>1, <3>2 DEF Held
  <2>2. CASE loop.node # n
    BY <2>2 DEF Held
  <2> QED  BY <2>1, <2>2
<1> QED  BY <1>1, <1>2

\* A step that leaves a connection alone: it may add to the ring, and spoil
\* the oldest entry.
LEMMA FarSame ==
  ASSUME TypeInv, LoopInv, NEW n \in Nodes, FarAt(n),
         conn'[n] = "up" => conn[n] = "up",
         wire'[n] = wire[n], srv'[n] = srv[n], committed'[n] = committed[n],
         Held(n)' = Held(n), overrun \subseteq overrun',
         \A k \in 1..Len(queue[n]) :
           \/ queue'[n][k] = queue[n][k]
           \/ {queue[n][k].payload, queue'[n][k].payload} \subseteq overrun' \cup {"ASKING"}
  PROVE  FarAt(n)'
<1>0. /\ Held(n) \in Nat /\ committed[n] <= Len(queue[n]) /\ Len(wire[n]) \in Nat
      /\ Len(srv[n]) \in Nat /\ Len(queue[n]) \in Nat /\ committed[n] \in Nat
  BY FarNumbers
<1>1. SUFFICES ASSUME conn'[n] = "up"
               PROVE  FarAt(n)'
  BY DEF FarAt
<1>2. /\ committed[n] = Held(n) + Len(wire[n]) + Len(srv[n])
      /\ \A k \in 1..Len(wire[n]) :
           Fits(queue[n][Held(n) + k], wire[n][k].of) /\ wire[n][k].kind # "null"
      /\ \A k \in 1..Len(srv[n]) : Fits(queue[n][Held(n) + Len(wire[n]) + k], srv[n][k])
  BY <1>1 DEF FarAt
<1>3. ASSUME NEW k \in 1..Len(queue[n]), NEW p, Fits(queue[n][k], p)
      PROVE  \/ queue'[n][k].payload = p
             \/ {queue'[n][k].payload, p} \subseteq overrun' \cup {"ASKING"}
  BY <1>3 DEF Fits
<1>4. \A k \in 1..Len(wire[n]) : Held(n) + k \in 1..Len(queue[n])
  BY <1>0, <1>2
<1>5. \A k \in 1..Len(srv[n]) : Held(n) + Len(wire[n]) + k \in 1..Len(queue[n])
  BY <1>0, <1>2
<1>6. \A k \in 1..Len(wire[n]) :
         /\ \/ queue'[n][Held(n) + k].payload = wire[n][k].of
            \/ {queue'[n][Held(n) + k].payload, wire[n][k].of} \subseteq overrun' \cup {"ASKING"}
         /\ wire[n][k].kind # "null"
  BY <1>2, <1>3, <1>4
<1>7. \A k \in 1..Len(srv[n]) :
         \/ queue'[n][Held(n) + Len(wire[n]) + k].payload = srv[n][k]
         \/ {queue'[n][Held(n) + Len(wire[n]) + k].payload, srv[n][k]}
              \subseteq overrun' \cup {"ASKING"}
  BY <1>2, <1>3, <1>5
<1> QED  BY <1>2, <1>6, <1>7 DEF FarAt, Fits

LEMMA ReceiveFar ==
  ASSUME TypeInv, LoopInv, FarInv, NEW n \in Nodes, Receive(n)
  PROVE  FarInv'
<1> DEFINE q == queue[n]
           w == wire[n]
           W == Len(wire[n])
           S == Len(srv[n])
<1>0. /\ wire \in [Nodes -> Seq(Replies)] /\ FarAt(n) /\ \A m \in Nodes : FarAt(m)
  BY DEF TypeInv, FarTypes, FarInv
<1>1. PICK k \in 1..W : /\ loop' = Handling(n, w[1], k, TRUE)
                        /\ wire' = [wire EXCEPT ![n] = SubSeq(w, k + 1, W)]
  BY DEF Receive
<1>2. /\ loop = Idle /\ conn[n] = "up" /\ UNCHANGED <<conn, committed, queue, srv, overrun>>
  BY DEF Receive, LoopFree, rings, history
<1>3. Held(n) = 0 /\ W \in Nat /\ S \in Nat /\ committed[n] \in Nat
  BY <1>2, IdleIs, NamesAssumption, FarNumbers DEF Held
<1>4. Held(n)' = k /\ \A m \in Nodes : m # n => Held(m)' = Held(m)
  <2>1. loop'.phase = "handle" /\ loop'.node = n /\ loop'.left = k
    BY <1>1 DEF Handling
  <2>2. \A m \in Nodes : Held(m) = 0
    BY <1>2, IdleIs, NamesAssumption DEF Held
  <2> QED  BY <2>1, <2>2 DEF Held
<1>5. /\ committed[n] = 0 + W + S
      /\ \A j \in 1..W : Fits(q[0 + j], w[j].of) /\ w[j].kind # "null"
      /\ \A j \in 1..S : Fits(q[0 + W + j], srv[n][j])
  BY <1>0, <1>2, <1>3 DEF FarAt
<1> DEFINE t == wire'[n]
<1>6. Len(t) = W - k /\ \A j \in 1..(W - k) : t[j] = w[k + j]
  <2>1. w \in Seq(Replies)
    BY <1>0
  <2>2. /\ Len(SubSeq(w, k + 1, W)) = W - k
        /\ \A j \in 1..(W - k) : SubSeq(w, k + 1, W)[j] = w[k + j]
    BY <2>1, RestIs
  <2> QED  BY <1>0, <1>1, <2>2
<1> HIDE DEF t, W, S, w, q
<1>7. /\ committed[n] = k + Len(t) + S
      /\ \A j \in 1..Len(t) : k + j \in 1..W /\ 0 + (k + j) = k + j
      /\ \A j \in 1..S : 0 + W + j = k + Len(t) + j
  BY <1>3, <1>5, <1>6
<1>8. /\ \A j \in 1..Len(t) : Fits(q[k + j], t[j].of) /\ t[j].kind # "null"
      /\ \A j \in 1..S : Fits(q[k + Len(t) + j], srv[n][j])
  BY <1>5, <1>6, <1>7
<1>9. FarAt(n)'
  BY <1>2, <1>4, <1>7, <1>8 DEF FarAt, Fits, t, S, q
<1>10. ASSUME NEW m \in Nodes, m # n
       PROVE  FarAt(m)'
  <2>1. wire'[m] = wire[m]
    BY <1>0, <1>1, <1>10
  <2> QED  BY <1>0, <1>2, <1>4, <1>10, <2>1, FarSame
<1> QED  BY <1>9, <1>10 DEF FarInv

LEMMA ServeFar ==
  ASSUME TypeInv, LoopInv, FarInv, NEW n \in Nodes, Serve(n)
  PROVE  FarInv'
<1> DEFINE q == queue[n]
           w == wire[n]
           t == wire'[n]
           s == srv[n]
           u == srv'[n]
           W == Len(wire[n])
           S == Len(srv[n])
           h == Held(n)
<1>1. /\ conn[n] = "up" /\ S >= 1
      /\ \A m \in Nodes : m # n => srv'[m] = srv[m] /\ wire'[m] = wire[m]
      /\ Len(u) = S - 1 /\ \A k \in 1..(S - 1) : u[k] = s[k + 1]
      /\ Len(t) = W + 1 /\ \A k \in 1..W : t[k] = w[k]
      /\ t[W + 1].of = s[1] /\ t[W + 1].kind # "null"
  BY ServeAnswers
<1>2. UNCHANGED <<loop, conn, committed, queue, overrun>>
  BY DEF Serve, rings
<1>3. Held(n)' = h /\ \A m \in Nodes : Held(m)' = Held(m)
  BY <1>2 DEF Held
<1>4. h \in Nat /\ W \in Nat /\ S \in Nat /\ committed[n] \in Nat
  BY FarNumbers
<1>5. /\ committed[n] = h + W + S
      /\ \A k \in 1..W : Fits(q[h + k], w[k].of) /\ w[k].kind # "null"
      /\ \A k \in 1..S : Fits(q[h + W + k], s[k])
  BY <1>1 DEF FarInv, FarAt
<1> HIDE DEF q, w, t, s, u, W, S, h
<1>6. committed[n] = h + Len(t) + Len(u)
  BY <1>1, <1>4, <1>5
<1>7. \A k \in 1..Len(t) : Fits(q[h + k], t[k].of) /\ t[k].kind # "null"
  <2> SUFFICES ASSUME NEW k \in 1..Len(t)
               PROVE  Fits(q[h + k], t[k].of) /\ t[k].kind # "null"
    OBVIOUS
  <2>1. k \in 1..W \/ k = W + 1
    BY <1>1, <1>4
  <2>2. CASE k \in 1..W
    BY <1>1, <1>5, <2>2
  <2>3. CASE k = W + 1
    <3>1. 1 \in 1..S /\ h + W + 1 = h + k
      BY <1>1, <1>4, <2>3
    <3>2. Fits(q[h + k], s[1])
      BY <1>5, <3>1
    <3> QED  BY <1>1, <2>3, <3>2
  <2> QED  BY <2>1, <2>2, <2>3
<1>8. \A k \in 1..Len(u) : Fits(q[h + Len(t) + k], u[k])
  <2> SUFFICES ASSUME NEW k \in 1..Len(u)
               PROVE  Fits(q[h + Len(t) + k], u[k])
    OBVIOUS
  <2>1. k \in 1..(S - 1) /\ k + 1 \in 1..S /\ h + W + (k + 1) = h + Len(t) + k
    <3>1. k \in 1..(S - 1)
      BY <1>1
    <3>2. k + 1 \in 1..S /\ h + W + (k + 1) = h + (W + 1) + k
      BY <1>4, <3>1
    <3> QED  BY <1>1, <3>1, <3>2
  <2>2. Fits(q[h + W + (k + 1)], s[k + 1])
    BY <1>5, <2>1
  <2> QED  BY <1>1, <2>1, <2>2
<1>9. FarAt(n)'
  BY <1>2, <1>3, <1>6, <1>7, <1>8 DEF FarAt, Fits, q, t, u
<1>10. ASSUME NEW m \in Nodes, m # n
       PROVE  FarAt(m)'
  BY <1>1, <1>2, <1>3, <1>10, FarSame DEF FarInv
<1> QED  BY <1>9, <1>10 DEF FarInv

LEMMA HandleFar ==
  ASSUME TypeInv, LoopInv, FarInv, Handle
  PROVE  FarInv'
<1>0. loop.node \in Nodes /\ loop.phase = "handle"
  BY HandlePops
<1> PICK n \in Nodes : n = loop.node
  BY <1>0
<1> DEFINE q == queue[n]
           t == queue'[n]
           c == committed[n]
           d == committed'[n]
           L == Len(queue[n])
           W == Len(wire[n])
           S == Len(srv[n])
           h == Held(n)
<1>1. /\ loop.phase = "handle" /\ L >= 1 /\ c >= 1
      /\ \A m \in Nodes : m # n => queue'[m] = queue[m] /\ committed'[m] = committed[m]
      /\ d = c - 1 /\ \A k \in 1..(L - 1) : t[k] = q[k + 1]
  BY HandlePops
<1>2. UNCHANGED <<wire, srv, overrun>> /\ conn' \in {conn, [conn EXCEPT ![n] = "lost"]}
  BY DEF Handle, servers
<1>3. /\ h = loop.left /\ loop.left \in Nat /\ loop.left >= 1
      /\ W \in Nat /\ S \in Nat /\ c \in Nat /\ L \in Nat /\ c <= L
  BY <1>1, AtWork, FarNumbers DEF Held
<1>4. \/ loop' = Idle
      \/ loop'.phase = "handle" /\ loop'.node = n /\ loop'.left = loop.left - 1
      \/ loop'.phase = "forward" /\ loop'.node = n /\ loop'.left = loop.left
  BY LoopAfter
<1>5. \A m \in Nodes : m # n => Held(m)' = Held(m)
  BY <1>4, IdleIs, NamesAssumption DEF Held
<1>6. conn \in [Nodes -> {"none", "connecting", "up", "lost", "draining"}]
  BY DEF TypeInv, UserTypes
<1>7. ASSUME conn'[n] = "up"
      PROVE  FarAt(n)'
  <2>1. conn[n] = "up" /\ conn' = conn
    BY <1>1, <1>2, <1>6, <1>7
  <2>2. loop.val.kind # "odd"
    <3>1. loop.val.kind = "odd" => conn'[n] = "lost"
      BY <1>1, <1>6 DEF Handle
    <3> QED  BY <1>7, <3>1
  <2>3. Held(n)' = h - 1
    <3>1. CASE loop' # Idle
      BY <1>3, <1>4, <3>1 DEF Held
    <3>2. CASE loop' = Idle
      <4>1. loop.left = 1
        <5>1. CASE loop.val.kind \in {"ok", "null"}
          <6>1. loop' = NextReply(Reply(loop.val.of, "null", loop.val.to))
            BY <5>1 DEF Handle
          <6> QED  BY <3>2, <6>1, IdleIs DEF NextReply, Handling
        <5>2. CASE loop.val.kind \in {"moved", "ask"}
          <6>1. loop' = Forwarding(Head(queue[n]))
            BY <5>2 DEF Handle
          <6> QED  BY <3>2, <6>1, IdleIs DEF Forwarding
        <5> QED  BY <2>2, <5>1, <5>2 DEF Handle
      <4>2. Held(n)' = 0
        BY <1>1, <3>2, IdleIs, NamesAssumption DEF Held
      <4> QED  BY <1>3, <4>1, <4>2
    <3> QED  BY <3>1, <3>2
  <2>4. /\ c = h + W + S
        /\ \A k \in 1..W : Fits(q[h + k], wire[n][k].of) /\ wire[n][k].kind # "null"
        /\ \A k \in 1..S : Fits(q[h + W + k], srv[n][k])
    BY <1>1, <2>1 DEF FarInv, FarAt
  <2> HIDE DEF q, t, W, S, h, c, d, L
  <2>5. /\ d = (h - 1) + W + S
        /\ \A k \in 1..W : (h - 1) + k \in 1..(L - 1) /\ (h - 1) + k + 1 = h + k
        /\ \A k \in 1..S : /\ (h - 1) + W + k \in 1..(L - 1)
                            /\ (h - 1) + W + k + 1 = h + W + k
    BY <1>1, <1>3, <2>4
  <2>6. /\ \A k \in 1..W : t[(h - 1) + k] = q[h + k]
        /\ \A k \in 1..S : t[(h - 1) + W + k] = q[h + W + k]
    BY <1>1, <2>5
  <2>7. /\ \A k \in 1..W : Fits(t[(h - 1) + k], wire[n][k].of) /\ wire[n][k].kind # "null"
        /\ \A k \in 1..S : Fits(t[(h - 1) + W + k], srv[n][k])
    BY <2>4, <2>6
  <2>8. /\ d = Held(n)' + W + S
        /\ \A k \in 1..W : Fits(t[Held(n)' + k], wire[n][k].of) /\ wire[n][k].kind # "null"
        /\ \A k \in 1..S : Fits(t[Held(n)' + W + k], srv[n][k])
    BY <2>3, <2>5, <2>7
  <2>9. wire' = wire /\ srv' = srv /\ overrun' = overrun
    BY <1>2
  <2> QED  BY <2>8, <2>9 DEF FarAt, Fits, t, W, S, d
<1>8. FarAt(n)'
  BY <1>7 DEF FarAt
<1>9. ASSUME NEW m \in Nodes, m # n
      PROVE  FarAt(m)'
  <2>1. conn'[m] = conn[m]
    BY <1>2, <1>6, <1>9
  <2> QED  BY <1>1, <1>2, <1>5, <1>9, <2>1, FarSame DEF FarInv
<1> QED  BY <1>8, <1>9 DEF FarInv

LEMMA ForwardFar ==
  ASSUME TypeInv, LoopInv, MakerInv, FarInv, Forward
  PROVE  FarInv'
<1> DEFINE n == loop.val.to
<1>1. UNCHANGED <<wire, srv, committed>>
  BY DEF Forward, servers
<1>2. /\ n \in Nodes /\ loop.phase = "forward" /\ loop.left \in Nat /\ loop.node \in Nodes
      /\ loop.left >= 1
  BY AtWork DEF Forward
<1>3. \A m \in Nodes : Held(m)' = Held(m)
  <2>1. loop' = NextReply(loop.val)
    BY DEF Forward
  <2>2. CASE loop.left = 1
    BY <1>2, <2>1, <2>2, IdleIs, NamesAssumption DEF Held, NextReply
  <2>3. CASE loop.left # 1
    BY <1>2, <2>1, <2>3 DEF Held, NextReply, Handling
  <2> QED  BY <2>2, <2>3
<1>4. \A m \in Nodes : conn'[m] = "up" => conn[m] = "up"
  <2>1. conn' = [conn EXCEPT ![n] = IF shard[n] = "init" THEN "connecting" ELSE conn[n]]
    BY DEF Forward
  <2>2. conn \in [Nodes -> {"none", "connecting", "up", "lost", "draining"}]
    BY DEF TypeInv, UserTypes
  <2> QED  BY <1>2, <2>1, <2>2
<1>5. /\ overrun \subseteq overrun'
      /\ \A m \in Nodes : m # n => queue'[m] = queue[m]
      /\ \A k \in 1..Len(queue[n]) :
           \/ queue'[n][k] = queue[n][k]
           \/ /\ queue'[n][k] = loop.entry
              /\ {queue[n][k].handle, loop.entry.handle} \subseteq overrun' \cup {"noop"}
  BY ForwardAppends
<1>6. /\ loop.entry \in Proper
      /\ \A k \in 1..Len(queue[n]) : queue[n][k] \in Proper
  BY <1>2 DEF TypeInv, LoopTypes, RingTypes
<1>7. ASSUME NEW e \in Proper, e.handle \in overrun' \cup {"noop"}
      PROVE  e.payload \in overrun' \cup {"ASKING"}
  BY <1>7, ProperEntries, NamesAssumption
<1> HIDE DEF n
<1>8. \A m \in Nodes : \A k \in 1..Len(queue[m]) :
        \/ queue'[m][k] = queue[m][k]
        \/ {queue[m][k].payload, queue'[m][k].payload} \subseteq overrun' \cup {"ASKING"}
  BY <1>5, <1>6, <1>7
<1>9. ASSUME NEW m \in Nodes
      PROVE  FarAt(m)'
  BY <1>1, <1>3, <1>4, <1>5, <1>8, FarSame DEF FarInv
<1> QED  BY <1>9 DEF FarInv

LEMMA FarStep ==
  ASSUME TypeInv, LoopInv, MakerInv, FarInv, [Next]_vars
  PROVE  FarInv'
<1>0. /\ conn \in [Nodes -> {"none", "connecting", "up", "lost", "draining"}]
      /\ committed \in [Nodes -> Nat] /\ at \in [Ops -> Nodes]
      /\ srv \in [Nodes -> Seq(Ops \cup {"ASKING"})] /\ wire \in [Nodes -> Seq(Replies)]
      /\ queue \in [Nodes -> Seq(Entries)] /\ \A n \in Nodes : FarAt(n)
  BY DEF TypeInv, UserTypes, RingTypes, FarTypes, FarInv
<1>same. ASSUME NEW m \in Nodes, conn'[m] = "up" => conn[m] = "up",
                wire'[m] = wire[m], srv'[m] = srv[m], committed'[m] = committed[m],
                queue'[m] = queue[m], Held(m)' = Held(m), overrun \subseteq overrun'
         PROVE  FarAt(m)'
  BY <1>0, <1>same, FarSame
<1>down. ASSUME NEW m \in Nodes, conn'[m] # "up"
         PROVE  FarAt(m)'
  BY <1>down DEF FarAt
<1>held. ASSUME loop' = loop
         PROVE  \A m \in Nodes : Held(m)' = Held(m)
  BY <1>held DEF Held
<1>1. ASSUME NEW o \in Ops, GetSlot(o) \/ TryConnect(o) \/ Create(o)
      PROVE  FarInv'
  BY <1>1, <1>same, <1>held
  DEF GetSlot, TryConnect, Create, FarInv, rings, servers, history
<1>2. ASSUME NEW o \in Ops, Launch(o)
      PROVE  FarInv'
  <2>1. /\ conn' = [conn EXCEPT ![at[o]] = "connecting"] /\ loop' = loop
        /\ UNCHANGED <<wire, srv, committed, queue, overrun>>
    BY <1>2 DEF Launch, rings, servers, history
  <2>2. \A m \in Nodes : conn'[m] = "up" => conn[m] = "up"
    BY <1>0, <2>1
  <2> QED  BY <1>same, <1>held, <2>1, <2>2 DEF FarInv
<1>3. ASSUME NEW o \in Ops, Push(o)
      PROVE  FarInv'
  <2> DEFINE n == at[o]
  <2>1. /\ conn' = conn /\ loop' = loop /\ UNCHANGED <<wire, srv, committed, overrun>>
    BY <1>3 DEF Push, servers, history
  <2>2. \A m \in Nodes : \A k \in 1..Len(queue[m]) : queue'[m][k] = queue[m][k]
    BY <1>3, PushAppends
  <2>3. ASSUME NEW m \in Nodes
        PROVE  FarAt(m)'
    <3>1. Held(m)' = Held(m)
      BY <1>held, <2>1
    <3> QED  BY <1>0, <2>1, <2>2, <3>1, FarSame
  <2> QED  BY <2>3 DEF FarInv
<1>4. ASSUME NEW n \in Nodes, Connected(n)
      PROVE  FarInv'
  <2>1. /\ loop = Idle /\ loop' = loop /\ UNCHANGED <<queue, committed, overrun>>
        /\ conn[n] = "connecting"
        /\ conn' = [conn EXCEPT ![n] = "up"]
        /\ srv' = [srv EXCEPT ![n] = <<>>] /\ wire' = [wire EXCEPT ![n] = <<>>]
    BY <1>4 DEF Connected, LoopFree, rings, history
  <2>2. committed[n] = 0 /\ Held(n)' = 0
    BY <2>1, IdleIs, NamesAssumption DEF LoopInv, Held
  <2>3. srv'[n] = <<>> /\ wire'[n] = <<>> /\ committed'[n] = 0
    BY <1>0, <2>1, <2>2
  <2>4. Len(srv'[n]) = 0 /\ Len(wire'[n]) = 0
    BY <2>3
  <2>5. FarAt(n)'
    BY <2>2, <2>3, <2>4 DEF FarAt
  <2>6. ASSUME NEW m \in Nodes, m # n
        PROVE  FarAt(m)'
    <3>1. conn'[m] = conn[m] /\ srv'[m] = srv[m] /\ wire'[m] = wire[m]
      BY <1>0, <2>1, <2>6
    <3> QED  BY <1>same, <1>held, <2>1, <3>1
  <2> QED  BY <2>5, <2>6 DEF FarInv
<1>5. ASSUME NEW n \in Nodes, Send(n)
      PROVE  FarInv'
  <2> DEFINE q == queue[n]
             c == committed[n]
             L == Len(queue[n])
             new == [i \in 1..(L - c) |-> q[c + i].payload]
             W == Len(wire[n])
             S == Len(srv[n])
  <2>1. /\ loop = Idle /\ loop' = loop /\ conn' = conn /\ UNCHANGED <<queue, wire, overrun>>
        /\ conn[n] = "up" /\ srv' = [srv EXCEPT ![n] = srv[n] \o new]
        /\ committed' = [committed EXCEPT ![n] = L]
    BY <1>5 DEF Send, LoopFree, history
  <2>2. Held(n) = 0 /\ Held(n)' = 0
    BY <2>1, IdleIs, NamesAssumption DEF Held
  <2>3. c \in Nat /\ L \in Nat /\ c <= L /\ W \in Nat /\ S \in Nat
    BY FarNumbers
  <2>4. /\ c = W + S
        /\ \A k \in 1..W : Fits(q[k], wire[n][k].of) /\ wire[n][k].kind # "null"
        /\ \A k \in 1..S : Fits(q[W + k], srv[n][k])
    <3>1. /\ c = Held(n) + W + S
          /\ \A k \in 1..W : Fits(q[Held(n) + k], wire[n][k].of) /\ wire[n][k].kind # "null"
          /\ \A k \in 1..S : Fits(q[Held(n) + W + k], srv[n][k])
      BY <1>0, <2>1 DEF FarAt
    <3> HIDE DEF W, S, c, q
    <3>2. 0 + W = W /\ \A k \in 1..W : 0 + k = k
      BY <2>3
    <3> QED  BY <2>2, <3>1, <3>2
  <2>5. new \in Seq(Ops \cup {"ASKING"}) /\ Len(new) = L - c
        /\ \A i \in 1..(L - c) : new[i] = q[c + i].payload
    <3>1. q \in Seq(Entries) /\ \A i \in 1..L : q[i] \in Entries
      BY <1>0
    <3> HIDE DEF q
    <3>2. L - c \in Nat /\ \A i \in 1..(L - c) : c + i \in 1..L
      BY <2>3
    <3>3. \A i \in 1..(L - c) : q[c + i].payload \in Ops \cup {"ASKING"}
      BY <3>1, <3>2 DEF Entries
    <3> HIDE DEF L, c
    <3> QED  BY <3>2, <3>3
  <2> HIDE DEF new
  <2>6. /\ Len(srv[n] \o new) = S + (L - c)
        /\ \A k \in 1..S : (srv[n] \o new)[k] = srv[n][k]
        /\ \A k \in 1..(L - c) : (srv[n] \o new)[S + k] = new[k]
    <3>1. srv[n] \in Seq(Ops \cup {"ASKING"}) /\ new \in Seq(Ops \cup {"ASKING"})
      BY <1>0, <2>5
    <3>2. /\ Len(srv[n] \o new) = Len(srv[n]) + Len(new)
          /\ \A k \in 1..Len(srv[n]) : (srv[n] \o new)[k] = srv[n][k]
          /\ \A k \in 1..Len(new) : (srv[n] \o new)[Len(srv[n]) + k] = new[k]
      BY <3>1, ConcatIs
    <3> QED  BY <2>5, <3>2
  <2>7. srv'[n] = srv[n] \o new /\ committed'[n] = L
    BY <1>0, <2>1
  <2> DEFINE t == srv'[n]
  <2>8. /\ Len(t) = S + (L - c)
        /\ \A k \in 1..S : t[k] = srv[n][k]
        /\ \A k \in 1..(L - c) : t[S + k] = new[k]
    BY <2>6, <2>7
  <2> HIDE DEF t, W, S, c, L
  <2>9. \A k \in 1..Len(t) : Fits(q[W + k], t[k])
    <3> SUFFICES ASSUME NEW k \in 1..Len(t) PROVE Fits(q[W + k], t[k])
      OBVIOUS
    <3>1. CASE k \in 1..S
      BY <2>4, <2>8, <3>1
    <3>2. CASE k \notin 1..S
      <4>1. k - S \in 1..(L - c) /\ S + (k - S) = k /\ c + (k - S) = W + k
        BY <2>3, <2>4, <2>8, <3>2
      <4>2. t[k] = q[W + k].payload
        BY <2>5, <2>8, <4>1
      <4> QED  BY <4>2 DEF Fits
    <3> QED  BY <3>1, <3>2
  <2>10. L = 0 + W + Len(t) /\ \A k \in 1..Len(t) : 0 + W + k = W + k
    BY <2>3, <2>4, <2>8
  <2>11. \A k \in 1..W : 0 + k = k
    BY <2>3
  <2>12. /\ committed'[n] = Held(n)' + W + Len(t)
         /\ \A k \in 1..W : Fits(q[Held(n)' + k], wire[n][k].of) /\ wire[n][k].kind # "null"
         /\ \A k \in 1..Len(t) : Fits(q[Held(n)' + W + k], t[k])
    BY <2>2, <2>4, <2>7, <2>9, <2>10, <2>11
  <2>13. q = queue'[n] /\ W = Len(wire'[n]) /\ wire'[n] = wire[n] /\ t = srv'[n]
    BY <2>1 DEF W, t
  <2>14. FarAt(n)'
    BY <2>1, <2>12, <2>13 DEF FarAt, Fits
  <2>15. ASSUME NEW m \in Nodes, m # n
         PROVE  FarAt(m)'
    <3>1. committed'[m] = committed[m] /\ srv'[m] = srv[m]
      BY <1>0, <2>1, <2>15
    <3> QED  BY <1>same, <1>held, <2>1, <3>1
  <2> QED  BY <2>14, <2>15 DEF FarInv
<1>6. ASSUME NEW n \in Nodes, Drain(n) \/ Reset(n) \/ PeerCloses(n)
      PROVE  FarInv'
  <2>1. /\ loop' = loop /\ conn'[n] # "up" /\ overrun' = overrun
        /\ \A m \in Nodes : m # n =>
             /\ conn'[m] = conn[m] /\ wire'[m] = wire[m] /\ srv'[m] = srv[m]
             /\ committed'[m] = committed[m] /\ queue'[m] = queue[m]
    BY <1>0, <1>6 DEF Drain, Reset, PeerCloses, rings, servers, history
  <2> QED  BY <1>same, <1>down, <1>held, <2>1 DEF FarInv
<1>7. ASSUME Migration \/ UNCHANGED vars
      PROVE  FarInv'
  BY <1>7, <1>same, <1>held
  DEF FarInv, Migration, StartMove, FinishMove, vars, rings, servers, history
<1>8. ASSUME NEW n \in Nodes, Receive(n)
      PROVE  FarInv'
  BY <1>8, ReceiveFar
<1>9. ASSUME NEW n \in Nodes, Serve(n)
      PROVE  FarInv'
  BY <1>9, ServeFar
<1>10. ASSUME Handle
       PROVE  FarInv'
  BY <1>10, HandleFar
<1>11. ASSUME Forward
       PROVE  FarInv'
  BY <1>11, ForwardFar
<1> QED
  BY <1>1, <1>2, <1>3, <1>4, <1>5, <1>6, <1>7, <1>8, <1>9, <1>10, <1>11
  DEF Next, User, Shard, Node, Finished


(***************************************************************************)
(* The first reply of a batch.                                             *)
(***************************************************************************)

LEMMA FirstStep ==
  ASSUME TypeInv, LoopInv, MakerInv, FarInv, FirstInv, [Next]_vars
  PROVE  FirstInv'
<1>same. ASSUME loop' = loop, overrun' = overrun, batched' = batched,
                loop.phase = "handle" => queue'[loop.node][1] = queue[loop.node][1]
         PROVE  FirstInv'
  BY <1>same DEF FirstInv, Fits
<1>idle. ASSUME loop'.phase = "idle" \/ (loop'.phase = "handle" /\ ~loop'.first)
         PROVE  FirstInv'
  BY <1>idle DEF FirstInv
<1>1. ASSUME NEW o \in Ops, GetSlot(o) \/ TryConnect(o) \/ Create(o) \/ Launch(o)
      PROVE  FirstInv'
  BY <1>1, <1>same DEF GetSlot, TryConnect, Create, Launch, rings, history
<1>2. ASSUME NEW o \in Ops, Push(o)
      PROVE  FirstInv'
  <2>1. \A m \in Nodes : \A k \in 1..Len(queue[m]) : queue'[m][k] = queue[m][k]
    BY <1>2, PushAppends
  <2>2. loop.phase = "handle" => loop.node \in Nodes /\ 1 \in 1..Len(queue[loop.node])
    <3> SUFFICES ASSUME loop.phase = "handle"
                 PROVE  loop.node \in Nodes /\ 1 \in 1..Len(queue[loop.node])
      OBVIOUS
    <3>1. /\ loop.node \in Nodes /\ loop.left \in Nat /\ loop.left >= 1
          /\ committed[loop.node] >= loop.left
      BY AtWork
    <3>2. /\ committed[loop.node] \in Nat /\ Len(queue[loop.node]) \in Nat
          /\ committed[loop.node] <= Len(queue[loop.node])
      BY <3>1, FarNumbers
    <3> QED  BY <3>1, <3>2
  <2> QED  BY <1>2, <1>same, <2>1, <2>2 DEF Push, history
<1>3. ASSUME NEW n \in Nodes, Connected(n) \/ Send(n) \/ Drain(n) \/ Reset(n)
      PROVE  FirstInv'
  <2>1. loop = Idle /\ loop' = loop
    BY <1>3 DEF Connected, Send, Drain, Reset, LoopFree, LoopInv
  <2> QED  BY <1>idle, <2>1, IdleIs
<1>4. ASSUME NEW n \in Nodes, Node(n)
      PROVE  FirstInv'
  BY <1>4, <1>same DEF Node, Serve, PeerCloses, rings, history
<1>5. ASSUME NEW n \in Nodes, Receive(n)
      PROVE  FirstInv'
  <2>1. PICK k \in 1..Len(wire[n]) : loop' = Handling(n, wire[n][1], k, TRUE)
    BY <1>5 DEF Receive
  <2>2. /\ conn[n] = "up" /\ Held(n) = 0 /\ Len(wire[n]) \in Nat
        /\ queue' = queue /\ overrun' = overrun /\ batched' = batched
    BY <1>5, IdleIs, NamesAssumption, FarNumbers
    DEF Receive, LoopFree, Held, rings, history
  <2>3. 1 \in 1..Len(wire[n]) /\ 0 + 1 = 1
    BY <2>2
  <2>4. Fits(queue[n][1], wire[n][1].of) /\ wire[n][1].kind # "null"
    BY <2>2, <2>3 DEF FarInv, FarAt
  <2>5. loop'.phase = "handle" /\ loop'.node = n /\ loop'.val = wire[n][1]
    BY <2>1 DEF Handling
  <2> QED  BY <2>2, <2>4, <2>5 DEF FirstInv, Fits
<1>6. ASSUME Handle
      PROVE  FirstInv'
  <2>1. CASE loop'.phase = "forward"
    <3>1. loop'.entry = Head(queue[loop.node]) /\ loop'.first = loop.first
      BY <1>6, <2>1, LoopAfter, IdleIs
    <3>2. ~loop.first => loop'.entry.handle \in batched' \cup {"noop"}
      BY <1>6, <3>1 DEF Handle, Touched
    <3> QED  BY <2>1, <3>1, <3>2 DEF FirstInv
  <2>2. CASE loop'.phase # "forward"
    BY <1>6, <1>idle, <2>2, LoopAfter, IdleIs
  <2> QED  BY <2>1, <2>2
<1>7. ASSUME Forward
      PROVE  FirstInv'
  <2>1. loop.phase = "forward"
    BY <1>7 DEF Forward
  <2>2. ~Handle
    BY <2>1 DEF Handle
  <2> QED  BY <1>7, <1>idle, <2>2, LoopAfter, IdleIs
<1>8. ASSUME Migration \/ UNCHANGED vars
      PROVE  FirstInv'
  BY <1>8, <1>same DEF Migration, StartMove, FinishMove, vars, rings, history
<1> QED
  BY <1>1, <1>2, <1>3, <1>4, <1>5, <1>6, <1>7, <1>8
  DEF Next, User, Shard, Finished


(***************************************************************************)
(* Where coroutines are.                                                   *)
(***************************************************************************)

\* Places by number.
LEMMA HoldsIs ==
  ASSUME TypeInv, NEW o, NEW n \in Nodes, NEW k
  PROVE  Holds(o, n, k) <=>
           \/ k \in 1..Len(queue[n]) /\ queue[n][k].handle = o
           \/ k = 0 /\ loop.phase = "forward" /\ loop.node = n /\ loop.entry.handle = o
<1>1. queue[n] \in Seq(Entries)
  BY DEF TypeInv, RingTypes
<1>2. DOMAIN queue[n] = 1..Len(queue[n])
  BY <1>1
<1> QED  BY <1>2 DEF Holds

\* A step after which a coroutine is where it was.
LEMMA HomeSame ==
  ASSUME NEW o \in Ops, HomeOf(o), pc'[o] = "pushed" <=> pc[o] = "pushed",
         pc[o] = "pushed" => (fate'[o] = "none" <=> fate[o] = "none"),
         \A n \in Nodes : \A k \in Nat : Holds(o, n, k)' <=> Holds(o, n, k)
  PROVE  HomeOf(o)'
<1>1. /\ \A n, m \in Nodes : \A j, k \in Nat :
           Holds(o, n, j) /\ Holds(o, m, k) => n = m /\ j = k
      /\ \A n \in Nodes : \A k \in Nat : Holds(o, n, k) => pc[o] = "pushed" /\ fate[o] = "none"
      /\ pc[o] = "pushed" /\ fate[o] = "none" =>
           \E n \in Nodes : \E k \in Nat : Holds(o, n, k)
  BY DEF HomeOf
<1>2. /\ \A n, m \in Nodes : \A j, k \in Nat :
           Holds(o, n, j)' /\ Holds(o, m, k)' => n = m /\ j = k
      /\ \A n \in Nodes : \A k \in Nat :
           Holds(o, n, k)' => pc'[o] = "pushed" /\ fate'[o] = "none"
      /\ pc'[o] = "pushed" /\ fate'[o] = "none" =>
           \E n \in Nodes : \E k \in Nat : Holds(o, n, k)'
  BY <1>1
<1> QED  BY <1>2 DEF HomeOf

\* A coroutine that has left, and one that has one place.
LEMMA HomeGone ==
  ASSUME NEW o \in Ops, ~(pc'[o] = "pushed" /\ fate'[o] = "none"),
         \A n \in Nodes : \A k \in Nat : ~Holds(o, n, k)'
  PROVE  HomeOf(o)'
BY DEF HomeOf

LEMMA HomeAt ==
  ASSUME NEW o \in Ops, pc'[o] = "pushed", fate'[o] = "none",
         NEW n \in Nodes, NEW k \in Nat,
         \A m \in Nodes : \A j \in Nat : Holds(o, m, j)' <=> (m = n /\ j = k)
  PROVE  HomeOf(o)'
<1>1. \E m \in Nodes : \E j \in Nat : Holds(o, m, j)'
  OBVIOUS
<1>2. \A m, x \in Nodes : \A j, i \in Nat : Holds(o, m, j)' /\ Holds(o, x, i)' => m = x /\ j = i
  OBVIOUS
<1>3. \A m \in Nodes : \A j \in Nat : Holds(o, m, j)' => pc'[o] = "pushed" /\ fate'[o] = "none"
  OBVIOUS
<1> QED  BY <1>1, <1>2, <1>3 DEF HomeOf

LEMMA HandleHome ==
  ASSUME TypeInv, TypeInv', LoopInv, HomeInv, Handle
  PROVE  HomeInv'
<1>0. loop.node \in Nodes /\ loop.phase = "handle"
  BY HandlePops
<1> PICK n \in Nodes : n = loop.node
  BY <1>0
<1> DEFINE e == queue[n][1]
           L == Len(queue[n])
<1>1. /\ L >= 1 /\ Head(queue[n]) = e /\ e \in Proper
      /\ \A m \in Nodes : m # n => queue'[m] = queue[m]
      /\ Len(queue'[n]) = L - 1 /\ \A k \in 1..(L - 1) : queue'[n][k] = queue[n][k + 1]
  BY HandlePops
<1>2. L \in Nat
  BY FarNumbers
<1>3. \/ loop' = Idle
      \/ loop'.phase = "handle"
      \/ /\ loop'.phase = "forward" /\ loop'.node = n
         /\ loop'.entry = e /\ loop.val.kind \in {"moved", "ask"}
  BY <1>1, LoopAfter
<1>4. /\ pc' = pc /\ overrun' = overrun /\ lost \subseteq lost'
      /\ \A o \in Ops : o # e.handle => fate'[o] = fate[o]
  <2>1. fate \in [Ops -> {"none", "conn_err", "overflow", "reply", "other", "null"}]
    BY DEF TypeInv, UserTypes
  <2>2. CASE loop.val.kind \in {"ok", "null"}
    BY <1>1, <2>1, <2>2 DEF Handle, Resumed
  <2>3. CASE loop.val.kind \in {"moved", "ask", "odd"}
    BY <2>3 DEF Handle
  <2> QED  BY <2>2, <2>3 DEF Handle
<1>5. ASSUME NEW o \in Ops, NEW m \in Nodes, NEW k \in Nat
      PROVE  Holds(o, m, k) <=> k \in 1..Len(queue[m]) /\ queue[m][k].handle = o
  BY <1>0, <1>5, HoldsIs
<1>6. ASSUME NEW o \in Ops, NEW m \in Nodes, NEW k \in Nat
      PROVE  Holds(o, m, k)' <=>
               \/ k \in 1..Len(queue'[m]) /\ queue'[m][k].handle = o
               \/ k = 0 /\ loop'.phase = "forward" /\ loop'.node = m /\ loop'.entry.handle = o
  <2>1. queue'[m] \in Seq(Entries)
    BY DEF TypeInv, RingTypes
  <2>2. DOMAIN queue'[m] = 1..Len(queue'[m])
    BY <2>1
  <2> QED  BY <2>2 DEF Holds
<1>7. \A o \in Ops : Holds(o, n, 1) <=> e.handle = o
  <2>1. 1 \in 1..L /\ 1 \in Nat
    BY <1>1, <1>2
  <2> QED  BY <1>5, <2>1
\* The places left in rings.
<1>8. ASSUME NEW o \in Ops, NEW m \in Nodes, NEW k \in Nat,
             k \in 1..Len(queue'[m]), queue'[m][k].handle = o
      PROVE  IF m = n THEN Holds(o, n, k + 1) ELSE Holds(o, m, k)
  <2>1. CASE m # n
    BY <1>1, <1>5, <1>8, <2>1
  <2>2. CASE m = n
    <3> HIDE DEF L
    <3>1. k \in 1..(L - 1) /\ k + 1 \in 1..L /\ k + 1 \in Nat
      BY <1>1, <1>2, <1>8, <2>2
    <3>2. queue[n][k + 1].handle = o
      BY <1>1, <1>8, <2>2, <3>1
    <3>3. k + 1 \in 1..Len(queue[n])
      BY <3>1 DEF L
    <3>4. Holds(o, n, k + 1)
      BY <1>5, <3>1, <3>2, <3>3
    <3> QED  BY <2>2, <3>4
  <2> QED  BY <2>1, <2>2
<1>9. SUFFICES ASSUME NEW o \in Tracked'
               PROVE  HomeOf(o)'
  BY DEF HomeInv
<1>10. o \in Tracked /\ o \in Ops /\ HomeOf(o)
  BY <1>4 DEF Tracked, HomeInv
\* Whoever is popped goes on, or into the loop's hands.
<1>11. CASE o = e.handle
  <2>1. Holds(o, n, 1) /\ 1 \in Nat
    BY <1>7, <1>10, <1>11
  <2>2. pc[o] = "pushed" /\ fate[o] = "none"
    BY <1>10, <2>1 DEF HomeOf
  <2>3. \A m \in Nodes : \A k \in Nat : Holds(o, m, k) => m = n /\ k = 1
    BY <1>10, <2>1 DEF HomeOf
  <2>4. \A m \in Nodes : \A k \in Nat : ~(k \in 1..Len(queue'[m]) /\ queue'[m][k].handle = o)
    <3> SUFFICES ASSUME NEW m \in Nodes, NEW k \in Nat,
                        k \in 1..Len(queue'[m]), queue'[m][k].handle = o
                 PROVE  FALSE
      OBVIOUS
    <3>1. IF m = n THEN Holds(o, n, k + 1) ELSE Holds(o, m, k)
      BY <1>8, <1>10
    <3>2. k >= 1 /\ k + 1 \in Nat /\ k + 1 # 1
      OBVIOUS
    <3> QED  BY <2>3, <3>1, <3>2
  <2>5. CASE loop.val.kind \in {"ok", "null"}
    <3>1. Outcome(e, loop.val) # "none"
      BY DEF Outcome
    <3>2. fate' = [x \in Ops |-> IF x = e.handle /\ fate[x] = "none" THEN Outcome(e, loop.val)
                                ELSE fate[x]]
      BY <1>1, <2>5 DEF Handle, Resumed
    <3>3. fate'[o] # "none"
      BY <1>10, <1>11, <2>2, <3>1, <3>2
    <3>4. ~(loop'.phase = "forward")
      BY <1>3, <2>5, IdleIs
    <3>5. \A m \in Nodes : \A k \in Nat : ~Holds(o, m, k)'
      BY <1>6, <1>10, <2>4, <3>4
    <3> QED  BY <1>10, <3>3, <3>5, HomeGone
  <2>6. CASE loop.val.kind \in {"moved", "ask"}
    <3>1. fate' = fate /\ loop' = Forwarding(Head(queue[n]))
      BY <2>6 DEF Handle
    <3>2. loop'.phase = "forward" /\ loop'.node = n /\ loop'.entry = e
      BY <1>1, <3>1 DEF Forwarding
    <3>3. \A m \in Nodes : \A k \in Nat : Holds(o, m, k)' <=> (m = n /\ k = 0)
      BY <1>6, <1>10, <1>11, <2>4, <3>2
    <3>4. pc'[o] = "pushed" /\ fate'[o] = "none" /\ 0 \in Nat
      BY <1>4, <2>2, <3>1
    <3> QED  BY <1>10, <3>3, <3>4, HomeAt
  <2>7. CASE loop.val.kind = "odd"
    <3>1. o \in lost'
      BY <1>1, <1>10, <1>11, <2>7, NamesAssumption DEF Handle, Touched
    <3> QED  BY <3>1 DEF Tracked
  <2> QED  BY <2>5, <2>6, <2>7 DEF Handle
\* The others move up.
<1>12. CASE o # e.handle
  <2>1. pc'[o] = pc[o] /\ fate'[o] = fate[o]
    BY <1>4, <1>10, <1>12
  <2>2. \A m \in Nodes : \A k \in Nat :
          Holds(o, m, k)' <=> (k \in 1..Len(queue'[m]) /\ queue'[m][k].handle = o)
    BY <1>3, <1>6, <1>10, <1>12, IdleIs
  <2>3. \A m \in Nodes : \A k \in Nat :
          Holds(o, m, k)' => Holds(o, m, IF m = n THEN k + 1 ELSE k)
    <3> SUFFICES ASSUME NEW m \in Nodes, NEW k \in Nat, Holds(o, m, k)'
                 PROVE  Holds(o, m, IF m = n THEN k + 1 ELSE k)
      OBVIOUS
    <3>1. k \in 1..Len(queue'[m]) /\ queue'[m][k].handle = o
      BY <2>2
    <3> QED  BY <1>8, <1>10, <3>1
  <2>4. ASSUME NEW m \in Nodes, NEW k \in Nat, Holds(o, m, k)
        PROVE  \E j \in Nat : Holds(o, m, j)'
    <3>1. k \in 1..Len(queue[m]) /\ queue[m][k].handle = o
      BY <1>5, <1>10, <2>4
    <3>2. CASE m # n
      BY <1>1, <2>2, <3>1, <3>2
    <3>3. CASE m = n
      <4>1. k # 1
        BY <1>12, <3>1, <3>3
      <4> DEFINE j == k - 1
      <4>2. j \in Nat /\ j + 1 = k /\ j \in 1..(L - 1)
        BY <1>2, <3>1, <3>3, <4>1
      <4>3. queue'[m][j].handle = o
        <5>1. queue'[n][j] = queue[n][j + 1]
          BY <1>1, <4>2
        <5> QED  BY <3>1, <3>3, <4>2, <5>1
      <4>4. j \in 1..Len(queue'[m])
        BY <1>1, <3>3, <4>2
      <4> HIDE DEF j
      <4> QED  BY <2>2, <4>2, <4>3, <4>4
    <3> QED  BY <3>2, <3>3
  <2>5. \A m, x \in Nodes : \A j, k \in Nat :
          Holds(o, m, j)' /\ Holds(o, x, k)' => m = x /\ j = k
    <3> SUFFICES ASSUME NEW m \in Nodes, NEW x \in Nodes, NEW j \in Nat, NEW k \in Nat,
                        Holds(o, m, j)', Holds(o, x, k)'
                 PROVE  m = x /\ j = k
      OBVIOUS
    <3> DEFINE a == IF m = n THEN j + 1 ELSE j
               b == IF x = n THEN k + 1 ELSE k
    <3>1. Holds(o, m, a) /\ Holds(o, x, b)
      BY <2>3
    <3>2. a \in Nat /\ b \in Nat
      OBVIOUS
    <3>3. m = x /\ a = b
      <4> HIDE DEF a, b
      <4> QED  BY <1>10, <3>1, <3>2 DEF HomeOf
    <3> QED  BY <3>3
  <2>6. \A m \in Nodes : \A k \in Nat : Holds(o, m, k)' => pc'[o] = "pushed" /\ fate'[o] = "none"
    <3> SUFFICES ASSUME NEW m \in Nodes, NEW k \in Nat, Holds(o, m, k)'
                 PROVE  pc'[o] = "pushed" /\ fate'[o] = "none"
      OBVIOUS
    <3> DEFINE a == IF m = n THEN k + 1 ELSE k
    <3>1. Holds(o, m, a) /\ a \in Nat
      BY <2>3
    <3> HIDE DEF a
    <3> QED  BY <1>10, <2>1, <3>1 DEF HomeOf
  <2>7. pc'[o] = "pushed" /\ fate'[o] = "none" =>
          \E m \in Nodes : \E k \in Nat : Holds(o, m, k)'
    BY <1>10, <2>1, <2>4 DEF HomeOf
  <2> QED  BY <2>5, <2>6, <2>7 DEF HomeOf
<1> QED  BY <1>11, <1>12

LEMMA ForwardHome ==
  ASSUME TypeInv, TypeInv', LoopInv, HomeInv, Forward
  PROVE  HomeInv'
<1>0. loop.val.to \in Nodes /\ loop.node \in Nodes /\ loop.phase = "forward"
  BY AtWork DEF Forward
<1> PICK n \in Nodes : n = loop.val.to
  BY <1>0
<1> PICK f \in Nodes : f = loop.node
  BY <1>0
<1> DEFINE e == loop.entry
           L == Len(queue[n])
           w == Redirected
<1>1. \/ queue' = queue /\ overrun' = overrun /\ Refusal(n) # "none"
      \/ /\ Refusal(n) = "none" /\ fate' = fate
         /\ overrun \subseteq overrun'
         /\ \A m \in Nodes : m # n => queue'[m] = queue[m]
         /\ Len(queue'[n]) = L + Len(w)
         /\ \A k \in 1..Len(w) : queue'[n][L + k] = w[k]
         /\ \A k \in 1..L :
              \/ queue'[n][k] = queue[n][k]
              \/ /\ k = 1 /\ queue'[n][k] = e
                 /\ {queue[n][k].handle, e.handle} \subseteq overrun' \cup {"noop"}
  BY ForwardAppends
<1>2. /\ e \in Proper /\ Len(w) \in {1, 2} /\ w[Len(w)] = e
      /\ Len(w) = 2 => w[1].handle = "noop"
  BY RedirectedIs, ProperEntries DEF TypeInv, LoopTypes
<1>3. loop'.phase # "forward"
  <2>1. ~Handle
    BY <1>0 DEF Handle
  <2> QED  BY <2>1, LoopAfter, IdleIs
<1>4. pc' = pc /\ lost' = lost
  BY DEF Forward
<1>5. ASSUME NEW o \in Ops, NEW m \in Nodes, NEW k \in Nat
      PROVE  Holds(o, m, k) <=> \/ (k \in 1..Len(queue[m]) /\ queue[m][k].handle = o)
                                \/ (k = 0 /\ m = f /\ e.handle = o)
  BY <1>0, <1>5, HoldsIs
<1>6. ASSUME NEW o \in Ops, NEW m \in Nodes, NEW k \in Nat
      PROVE  Holds(o, m, k)' <=> (k \in 1..Len(queue'[m]) /\ queue'[m][k].handle = o)
  <2>1. queue'[m] \in Seq(Entries)
    BY DEF TypeInv, RingTypes
  <2>2. DOMAIN queue'[m] = 1..Len(queue'[m])
    BY <2>1
  <2> QED  BY <1>3, <2>2 DEF Holds
<1>7. L \in Nat
  BY FarNumbers
<1>8. SUFFICES ASSUME NEW o \in Tracked'
               PROVE  HomeOf(o)'
  BY DEF HomeInv
<1>9. o \in Tracked /\ o \in Ops /\ HomeOf(o) /\ o \notin overrun' /\ o # "noop"
  BY <1>1, <1>4, NamesAssumption DEF Tracked, HomeInv
<1>10. fate \in [Ops -> {"none", "conn_err", "overflow", "reply", "other", "null"}]
  BY DEF TypeInv, UserTypes
<1>11. CASE Refusal(n) # "none"
  <2>1. queue' = queue
    BY <1>1, <1>11
  <2>2. fate' = [x \in Ops |-> IF x = e.handle /\ fate[x] = "none" THEN Refusal(n) ELSE fate[x]]
    BY <1>11 DEF Forward, Resumed
  <2>3. CASE o = e.handle
    <3>1. Holds(o, f, 0) /\ 0 \in Nat
      BY <1>5, <1>9, <2>3
    <3>2. fate[o] = "none" /\ \A m \in Nodes : \A k \in Nat : Holds(o, m, k) => k = 0
      BY <1>9, <3>1 DEF HomeOf
    <3>3. fate'[o] # "none"
      BY <1>9, <1>11, <2>2, <2>3, <3>2
    <3>4. \A m \in Nodes : \A k \in Nat : ~Holds(o, m, k)'
      <4> SUFFICES ASSUME NEW m \in Nodes, NEW k \in Nat, Holds(o, m, k)'
                   PROVE  FALSE
        OBVIOUS
      <4>1. k \in 1..Len(queue[m]) /\ queue[m][k].handle = o
        BY <1>6, <1>9, <2>1
      <4> QED  BY <1>5, <1>9, <3>2, <4>1
    <3> QED  BY <1>9, <3>3, <3>4, HomeGone
  <2>4. CASE o # e.handle
    <3>1. fate'[o] = fate[o]
      BY <1>9, <1>10, <2>2, <2>4
    <3>2. \A m \in Nodes : \A k \in Nat : Holds(o, m, k)' <=> Holds(o, m, k)
      BY <1>5, <1>6, <1>9, <2>1, <2>4
    <3> QED  BY <1>4, <1>9, <3>1, <3>2, HomeSame
  <2> QED  BY <2>3, <2>4
<1>12. CASE Refusal(n) = "none"
  <2> DEFINE t == queue'[n]
             W == Len(w)
  <2>1. /\ fate' = fate /\ \A m \in Nodes : m # n => queue'[m] = queue[m]
        /\ Len(t) = L + W /\ \A k \in 1..W : t[L + k] = w[k]
        /\ \A k \in 1..L :
             \/ t[k] = queue[n][k]
             \/ /\ t[k] = e
                /\ {queue[n][k].handle, e.handle} \subseteq overrun' \cup {"noop"}
    BY <1>1, <1>12
  <2>2. \A k \in 1..L : t[k].handle = o <=> queue[n][k].handle = o
    BY <1>9, <2>1
  <2>3. W \in {1, 2} /\ w[W] = e /\ (W = 2 => w[1].handle = "noop")
    BY <1>2
  <2> HIDE DEF w, t, W, L
  <2>4. \A k \in Nat : (k \in 1..Len(t) /\ t[k].handle = o)
          <=> ((k \in 1..L /\ queue[n][k].handle = o) \/ (k = L + W /\ e.handle = o))
    <3> SUFFICES ASSUME NEW k \in Nat
                 PROVE  (k \in 1..Len(t) /\ t[k].handle = o)
                        <=> ((k \in 1..L /\ queue[n][k].handle = o) \/ (k = L + W /\ e.handle = o))
      OBVIOUS
    <3>1. CASE k \in 1..L
      <4>1. k \in 1..(L + W) /\ k # L + W
        BY <1>7, <2>3, <3>1
      <4> QED  BY <2>1, <2>2, <3>1, <4>1
    <3>2. CASE k = L + W
      <4>1. k \in 1..(L + W) /\ k \notin 1..L /\ W \in 1..W
        BY <1>7, <2>3, <3>2
      <4>2. t[k] = e
        BY <2>1, <2>3, <3>2, <4>1
      <4> QED  BY <2>1, <3>2, <4>1, <4>2
    <3>3. CASE k \notin 1..L /\ k # L + W
      <4>1. k \in 1..(L + W) => W = 2 /\ k = L + 1 /\ 1 \in 1..W
        BY <1>7, <2>3, <3>3
      <4>2. k \in 1..(L + W) => t[k].handle = "noop"
        BY <2>1, <2>3, <4>1
      <4> QED  BY <1>9, <2>1, <3>3, <4>2
    <3> QED  BY <3>1, <3>2, <3>3
  <2>5. \A k \in Nat : Holds(o, n, k)'
          <=> ((k \in 1..L /\ queue[n][k].handle = o) \/ (k = L + W /\ e.handle = o))
    BY <1>6, <1>9, <2>4 DEF t
  <2>6. \A m \in Nodes : \A k \in Nat :
          m # n => (Holds(o, m, k)' <=> (k \in 1..Len(queue[m]) /\ queue[m][k].handle = o))
    BY <1>6, <1>9, <2>1
  <2>7. L = Len(queue[n])
    BY DEF L
  <2>8. CASE o = e.handle
    <3>1. Holds(o, f, 0) /\ 0 \in Nat
      BY <1>5, <1>9, <2>8
    <3>2. /\ pc[o] = "pushed" /\ fate[o] = "none"
          /\ \A m \in Nodes : \A k \in Nat : Holds(o, m, k) => k = 0
      BY <1>9, <3>1 DEF HomeOf
    <3>3. \A m \in Nodes : \A k \in Nat : ~(k \in 1..Len(queue[m]) /\ queue[m][k].handle = o)
      BY <1>5, <1>9, <3>2
    <3>4. \A m \in Nodes : \A k \in Nat : Holds(o, m, k)' <=> (m = n /\ k = L + W)
      BY <2>5, <2>6, <2>7, <2>8, <3>3
    <3>5. L + W \in Nat
      BY <1>7, <2>3
    <3> QED  BY <1>4, <1>9, <2>1, <3>2, <3>4, <3>5, HomeAt
  <2>9. CASE o # e.handle
    <3>1. \A m \in Nodes : \A k \in Nat : Holds(o, m, k)' <=> Holds(o, m, k)
      BY <1>5, <1>9, <2>5, <2>6, <2>7, <2>9
    <3> QED  BY <1>4, <1>9, <2>1, <3>1, HomeSame
  <2> QED  BY <2>8, <2>9
<1> QED  BY <1>11, <1>12


\* A push puts its coroutine at the end of a ring.
LEMMA PushHome ==
  ASSUME TypeInv, TypeInv', HomeInv, NEW p \in Ops, Push(p)
  PROVE  HomeInv'
<1> DEFINE n == at[p]
           L == Len(queue[n])
<1>1. /\ n \in Nodes
      /\ \/ queue' = queue /\ Refusal(n) # "none"
         \/ /\ Refusal(n) = "none"
            /\ \A m \in Nodes : m # n => queue'[m] = queue[m]
            /\ Len(queue'[n]) = L + 1 /\ \A k \in 1..L : queue'[n][k] = queue[n][k]
            /\ queue'[n][L + 1] = Command(p)
  BY PushAppends
<1>2. /\ pc[p] = "push" /\ pc' = [pc EXCEPT ![p] = "pushed"]
      /\ fate' = [fate EXCEPT ![p] = Refusal(n)]
      /\ loop' = loop /\ overrun' = overrun /\ lost' = lost
  BY DEF Push, history
<1>3. /\ pc \in [Ops -> {"new", "try", "create", "launch", "push", "pushed"}]
      /\ fate \in [Ops -> {"none", "conn_err", "overflow", "reply", "other", "null"}]
      /\ queue[n] \in Seq(Entries)
  BY <1>1 DEF TypeInv, UserTypes, RingTypes
<1>4. L \in Nat
  BY <1>3
<1>5. Command(p).handle = p
  BY ProperEntries
<1>6. SUFFICES ASSUME NEW o \in Tracked
               PROVE  HomeOf(o)'
  BY <1>2 DEF HomeInv, Tracked
<1>7. o \in Ops /\ HomeOf(o)
  BY DEF HomeInv, Tracked
<1> HIDE DEF n
<1>8. ASSUME NEW m \in Nodes, NEW k \in Nat
      PROVE  /\ Holds(o, m, k) <=>
                  \/ (k \in 1..Len(queue[m]) /\ queue[m][k].handle = o)
                  \/ (k = 0 /\ loop.phase = "forward" /\ loop.node = m /\ loop.entry.handle = o)
             /\ Holds(o, m, k)' <=>
                  \/ (k \in 1..Len(queue'[m]) /\ queue'[m][k].handle = o)
                  \/ (k = 0 /\ loop.phase = "forward" /\ loop.node = m /\ loop.entry.handle = o)
  <2>1. queue[m] \in Seq(Entries) /\ queue'[m] \in Seq(Entries)
    BY DEF TypeInv, RingTypes
  <2>2. DOMAIN queue[m] = 1..Len(queue[m]) /\ DOMAIN queue'[m] = 1..Len(queue'[m])
    BY <2>1
  <2> QED  BY <1>2, <2>2 DEF Holds
<1>9. CASE Refusal(n) # "none"
  <2>1. queue' = queue
    BY <1>1, <1>9
  <2>2. \A m \in Nodes : \A k \in Nat : Holds(o, m, k)' <=> Holds(o, m, k)
    BY <1>8, <2>1
  <2>3. CASE o = p
    <3>1. \A m \in Nodes : \A k \in Nat : ~Holds(o, m, k)'
      BY <1>2, <1>7, <2>2, <2>3 DEF HomeOf
    <3> QED  BY <1>2, <1>3, <1>7, <1>9, <2>3, <3>1, HomeGone
  <2>4. CASE o # p
    BY <1>2, <1>3, <1>7, <2>2, <2>4, HomeSame
  <2> QED  BY <2>3, <2>4
<1>10. CASE Refusal(n) = "none"
  <2> DEFINE t == queue'[n]
  <2>1. /\ \A m \in Nodes : m # n => queue'[m] = queue[m]
        /\ Len(t) = L + 1 /\ \A k \in 1..L : t[k] = queue[n][k]
        /\ t[L + 1] = Command(p)
    BY <1>1, <1>10
  <2> HIDE DEF L, t
  <2>2. \A k \in Nat : (k \in 1..Len(t) /\ t[k].handle = o)
          <=> ((k \in 1..L /\ queue[n][k].handle = o) \/ (k = L + 1 /\ o = p))
    <3> SUFFICES ASSUME NEW k \in Nat
                 PROVE  (k \in 1..Len(t) /\ t[k].handle = o)
                        <=> ((k \in 1..L /\ queue[n][k].handle = o) \/ (k = L + 1 /\ o = p))
      OBVIOUS
    <3>1. k \in 1..Len(t) <=> (k \in 1..L \/ k = L + 1)
      BY <1>4, <2>1
    <3>2. k = L + 1 => k \notin 1..L
      BY <1>4
    <3>3. k = L + 1 => t[k].handle = p
      BY <1>5, <2>1
    <3> QED  BY <2>1, <3>1, <3>2, <3>3
  <2>3. \A m \in Nodes : \A k \in Nat :
          Holds(o, m, k)' <=> (Holds(o, m, k) \/ (m = n /\ k = L + 1 /\ o = p))
    <3> SUFFICES ASSUME NEW m \in Nodes, NEW k \in Nat
                 PROVE  Holds(o, m, k)' <=> (Holds(o, m, k) \/ (m = n /\ k = L + 1 /\ o = p))
      OBVIOUS
    <3>1. CASE m # n
      BY <1>8, <2>1, <3>1
    <3>2. CASE m = n
      <4>1. (k \in 1..Len(queue'[m]) /\ queue'[m][k].handle = o)
            <=> ((k \in 1..Len(queue[m]) /\ queue[m][k].handle = o) \/ (k = L + 1 /\ o = p))
        BY <2>2, <3>2 DEF t, L
      <4> QED  BY <1>8, <3>2, <4>1
    <3> QED  BY <3>1, <3>2
  <2>4. CASE o = p
    <3>1. \A m \in Nodes : \A k \in Nat : Holds(o, m, k)' <=> (m = n /\ k = L + 1)
      BY <1>2, <1>7, <2>3, <2>4 DEF HomeOf
    <3>2. pc'[o] = "pushed" /\ fate'[o] = "none" /\ L + 1 \in Nat
      BY <1>2, <1>3, <1>4, <1>10, <2>4
    <3> QED  BY <1>1, <1>7, <3>1, <3>2, HomeAt
  <2>5. CASE o # p
    <3>1. pc'[o] = pc[o] /\ fate'[o] = fate[o]
      BY <1>2, <1>3, <1>7, <2>5
    <3>2. \A m \in Nodes : \A k \in Nat : Holds(o, m, k)' <=> Holds(o, m, k)
      BY <2>3, <2>5
    <3> QED  BY <1>7, <3>1, <3>2, HomeSame
  <2> QED  BY <2>4, <2>5
<1> QED  BY <1>9, <1>10

\* A drain answers everybody in its ring.
LEMMA DrainHome ==
  ASSUME TypeInv, TypeInv', HomeInv, NEW n \in Nodes, Drain(n)
  PROVE  HomeInv'
<1>1. /\ queue \in [Nodes -> Seq(Entries)] /\ queue' = [queue EXCEPT ![n] = <<>>]
      /\ loop' = loop /\ loop = Idle /\ overrun' = overrun /\ lost' = lost /\ pc' = pc
      /\ fate' = [o \in Ops |-> IF o \in Waiting(n) /\ fate[o] = "none" THEN "conn_err"
                                ELSE fate[o]]
  BY DEF Drain, LoopFree, history, TypeInv, RingTypes
<1>2. SUFFICES ASSUME NEW o \in Tracked
               PROVE  HomeOf(o)'
  BY <1>1 DEF HomeInv, Tracked
<1>3. o \in Ops /\ HomeOf(o) /\ o # "noop"
  BY NamesAssumption DEF HomeInv, Tracked
<1>4. ASSUME NEW m \in Nodes, NEW k \in Nat
      PROVE  /\ Holds(o, m, k) <=> (k \in 1..Len(queue[m]) /\ queue[m][k].handle = o)
             /\ Holds(o, m, k)' <=> (m # n /\ Holds(o, m, k))
  <2>1. queue[m] \in Seq(Entries) /\ loop.phase = "idle" /\ loop'.phase = "idle"
    BY <1>1, IdleIs
  <2>2. DOMAIN queue[m] = 1..Len(queue[m])
    BY <2>1
  <2>3. m # n => queue'[m] = queue[m]
    BY <1>1
  <2>4. m = n => queue'[m] = <<>>
    BY <1>1
  <2> QED  BY <2>1, <2>2, <2>3, <2>4 DEF Holds
<1>5. ASSUME NEW k \in Nat, Holds(o, n, k)
      PROVE  HomeOf(o)'
  <2>1. k \in 1..Len(queue[n]) /\ queue[n][k].handle = o
    BY <1>4, <1>5
  <2>2. DOMAIN queue[n] = 1..Len(queue[n])
    BY <1>1
  <2>3. o \in Waiting(n) /\ fate[o] = "none"
    BY <1>3, <1>5, <2>1, <2>2 DEF Waiting, HomeOf
  <2>4. fate'[o] # "none"
    BY <1>1, <1>3, <2>3
  <2>5. \A m \in Nodes : \A j \in Nat : Holds(o, m, j) => m = n
    BY <1>3, <1>5 DEF HomeOf
  <2> QED  BY <1>3, <1>4, <2>4, <2>5, HomeGone
<1>6. ASSUME \A k \in Nat : ~Holds(o, n, k)
      PROVE  HomeOf(o)'
  <2>1. o \notin Waiting(n)
    <3> SUFFICES ASSUME o \in Waiting(n) PROVE FALSE
      OBVIOUS
    <3>1. PICK k \in DOMAIN queue[n] : queue[n][k].handle = o
      BY DEF Waiting
    <3>2. DOMAIN queue[n] = 1..Len(queue[n])
      BY <1>1
    <3> QED  BY <1>4, <1>6, <3>1, <3>2
  <2>2. fate'[o] = fate[o]
    BY <1>1, <1>3, <2>1
  <2>3. \A m \in Nodes : \A k \in Nat : Holds(o, m, k)' <=> Holds(o, m, k)
    BY <1>4, <1>6
  <2> QED  BY <1>1, <1>3, <2>2, <2>3, HomeSame
<1> QED  BY <1>5, <1>6

LEMMA HomeStep ==
  ASSUME TypeInv, TypeInv', LoopInv, HomeInv, [Next]_vars
  PROVE  HomeInv'
<1>same. ASSUME queue' = queue, fate' = fate, overrun' = overrun, lost' = lost,
                \/ loop' = loop
                \/ loop.phase # "forward" /\ loop'.phase # "forward",
                \A o \in Ops : pc'[o] = "pushed" <=> pc[o] = "pushed"
         PROVE  HomeInv'
  <2> SUFFICES ASSUME NEW o \in Tracked
               PROVE  HomeOf(o)'
    BY <1>same DEF HomeInv, Tracked
  <2>1. o \in Ops /\ HomeOf(o)
    BY DEF HomeInv, Tracked
  <2>2. \A m \in Nodes : \A k \in Nat : Holds(o, m, k)' <=> Holds(o, m, k)
    BY <1>same DEF Holds
  <2> QED  BY <1>same, <2>1, <2>2, HomeSame
<1>1. ASSUME NEW o \in Ops, GetSlot(o) \/ TryConnect(o) \/ Create(o) \/ Launch(o)
      PROVE  HomeInv'
  <2>1. pc \in [Ops -> {"new", "try", "create", "launch", "push", "pushed"}]
    BY DEF TypeInv, UserTypes
  <2>2. \A x \in Ops : pc'[x] = "pushed" <=> pc[x] = "pushed"
    BY <1>1, <2>1 DEF GetSlot, TryConnect, Create, Launch
  <2>3. UNCHANGED <<queue, fate, overrun, lost, loop>>
    BY <1>1 DEF GetSlot, TryConnect, Create, Launch, rings, history
  <2> QED  BY <1>same, <2>2, <2>3
<1>2. ASSUME NEW o \in Ops, Push(o)
      PROVE  HomeInv'
  BY <1>2, PushHome
<1>3. ASSUME NEW n \in Nodes, Connected(n) \/ Send(n) \/ Reset(n) \/ Node(n)
      PROVE  HomeInv'
  BY <1>3, <1>same DEF Connected, Send, Reset, Node, Serve, PeerCloses, rings, users, history
<1>4. ASSUME NEW n \in Nodes, Drain(n)
      PROVE  HomeInv'
  BY <1>4, DrainHome
<1>5. ASSUME NEW n \in Nodes, Receive(n)
      PROVE  HomeInv'
  <2>1. loop.phase # "forward" /\ loop'.phase # "forward"
    BY <1>5, IdleIs DEF Receive, LoopFree, Handling
  <2> QED  BY <1>5, <1>same, <2>1 DEF Receive, rings, users, history
<1>6. ASSUME Handle
      PROVE  HomeInv'
  BY <1>6, HandleHome
<1>7. ASSUME Forward
      PROVE  HomeInv'
  BY <1>7, ForwardHome
<1>8. ASSUME Migration \/ UNCHANGED vars
      PROVE  HomeInv'
  BY <1>8, <1>same DEF Migration, StartMove, FinishMove, vars, rings, users, history
<1> QED
  BY <1>1, <1>2, <1>3, <1>4, <1>5, <1>6, <1>7, <1>8
  DEF Next, User, Shard, Finished



(***************************************************************************)
(* What runs, and whose reply it is.                                       *)
(***************************************************************************)

\* Unspoiled commands are tracked.
LEMMA UnspoiledIs ==
  ASSUME NEW o \in Ops \ Spoiled, HomeInv, RunInv
  PROVE  /\ o \in Ops /\ o \notin batched /\ o \notin overrun /\ o \notin lost /\ o # "noop"
         /\ o # "ASKING" /\ HomeOf(o) /\ DoneOf(o) /\ UnsentOf(o) /\ SentOf(o) /\ HandOf(o)
BY NamesAssumption DEF Spoiled, HomeInv, Tracked, RunInv, RunOf

\* The reply to a command fits nobody else's entry.
LEMMA FitsOwn ==
  ASSUME NEW o \in Ops, o \notin overrun, NEW e \in Proper, Fits(e, o)
  PROVE  e.handle = o /\ e.payload = o
<1>1. e.payload = o
  BY NamesAssumption DEF Fits
<1> QED  BY <1>1, ProperEntries, NamesAssumption

\* A step that only moves entries about.
LEMMA UnsentSame ==
  ASSUME NEW o \in Ops, UnsentOf(o), executed'[o] = executed[o],
         \A n \in Nodes : queue'[n] = queue[n] /\ committed'[n] = committed[n]
  PROVE  UnsentOf(o)'
BY DEF UnsentOf

LEMMA SentSame ==
  ASSUME NEW o \in Ops, SentOf(o), executed'[o] = executed[o],
         \A n \in Nodes : conn'[n] = "up" => /\ conn[n] = "up" /\ srv'[n] = srv[n]
                                             /\ wire'[n] = wire[n]
  PROVE  SentOf(o)'
BY DEF SentOf, Ran

LEMMA HandSame ==
  ASSUME NEW o \in Ops, HandOf(o), executed'[o] = executed[o], loop' = loop
  PROVE  HandOf(o)'
BY DEF HandOf, Ran

\* A push adds a command that has not run.
LEMMA PushRun ==
  ASSUME TypeInv, HomeInv, RunInv, NEW p \in Ops, Push(p), NEW o \in Ops \ Spoiled
  PROVE  RunOf(o)'
<1> DEFINE n == at[p]
           L == Len(queue[n])
<1>0. /\ o \in Ops /\ DoneOf(o) /\ UnsentOf(o) /\ SentOf(o) /\ HandOf(o)
  BY UnspoiledIs
<1>1. /\ n \in Nodes /\ committed' = committed
      /\ \/ queue' = queue
         \/ /\ \A m \in Nodes : m # n => queue'[m] = queue[m]
            /\ Len(queue'[n]) = L + 1 /\ \A k \in 1..L : queue'[n][k] = queue[n][k]
            /\ queue'[n][L + 1] = Command(p)
  BY PushAppends
<1>2. /\ pc[p] = "push" /\ pc' = [pc EXCEPT ![p] = "pushed"]
      /\ fate' = [fate EXCEPT ![p] = Refusal(n)]
      /\ UNCHANGED <<loop, conn, srv, wire, executed>>
  BY DEF Push, history, servers
<1>3. /\ pc \in [Ops -> {"new", "try", "create", "launch", "push", "pushed"}]
      /\ fate \in [Ops -> {"none", "conn_err", "overflow", "reply", "other", "null"}]
      /\ queue[n] \in Seq(Entries)
  BY <1>1 DEF TypeInv, UserTypes, RingTypes
<1>4. Refusal(n) \in {"none", "conn_err", "overflow"} /\ Command(p).handle = p
  BY ProperEntries DEF Refusal
<1>5. o = p => executed[o] = 0
  BY <1>0, <1>2 DEF DoneOf
<1>6. DoneOf(o)'
  <2>1. CASE o = p
    BY <1>0, <1>2, <1>3, <1>4, <1>5, <2>1 DEF DoneOf
  <2>2. CASE o # p
    BY <1>0, <1>2, <1>3, <2>2 DEF DoneOf
  <2> QED  BY <2>1, <2>2
<1> HIDE DEF n
<1>7. UnsentOf(o)'
  <2> SUFFICES ASSUME NEW m \in Nodes, NEW k \in 1..Len(queue'[m]),
                      queue'[m][k].handle = o, k > committed'[m]
               PROVE  executed'[o] = 0
    BY DEF UnsentOf
  <2>1. CASE queue'[m] = queue[m]
    BY <1>0, <1>1, <1>2, <2>1 DEF UnsentOf
  <2>2. CASE m = n /\ Len(queue'[n]) = L + 1 /\ queue'[n][L + 1] = Command(p)
             /\ \A j \in 1..L : queue'[n][j] = queue[n][j]
    <3>1. L \in Nat
      BY <1>3
    <3> HIDE DEF L
    <3>2. k \in 1..L \/ k = L + 1
      BY <2>2, <3>1
    <3>3. CASE k \in 1..L
      <4>1. queue[n][k].handle = o /\ k > committed[n]
        BY <1>1, <2>2, <3>3
      <4> QED  BY <1>0, <1>1, <1>2, <3>3, <4>1 DEF UnsentOf, L
    <3>4. CASE k = L + 1
      BY <1>2, <1>4, <1>5, <2>2, <3>4
    <3> QED  BY <3>2, <3>3, <3>4
  <2> QED  BY <1>1, <2>1, <2>2
<1>8. SentOf(o)' /\ HandOf(o)'
  BY <1>0, <1>2, SentSame, HandSame
<1> QED  BY <1>6, <1>7, <1>8 DEF RunOf

\* The writer sends commands that have not run.
LEMMA SendRun ==
  ASSUME TypeInv, HomeInv, RunInv, NEW n \in Nodes, Send(n), NEW o \in Ops \ Spoiled
  PROVE  RunOf(o)'
<1> DEFINE L == Len(queue[n])
           c == committed[n]
           S == Len(srv[n])
           new == [i \in 1..(L - c) |-> queue[n][c + i].payload]
<1>0. o \in Ops /\ DoneOf(o) /\ UnsentOf(o) /\ SentOf(o) /\ HandOf(o) /\ o # "ASKING"
  BY UnspoiledIs
<1>1. /\ conn[n] = "up" /\ UNCHANGED <<conn, loop, pc, fate, wire, executed, queue>>
      /\ srv' = [srv EXCEPT ![n] = srv[n] \o new]
      /\ committed' = [committed EXCEPT ![n] = L]
  BY DEF Send, users, history
<1>2. /\ srv \in [Nodes -> Seq(Ops \cup {"ASKING"})] /\ committed \in [Nodes -> Nat]
      /\ queue[n] \in Seq(Entries) /\ c \in 0..L
      /\ \A k \in 1..L : queue[n][k] \in Proper
  BY DEF TypeInv, FarTypes, RingTypes
<1>3. L \in Nat /\ S \in Nat /\ c \in Nat
  BY <1>2
<1>4. ASSUME NEW i \in 1..(L - c)
      PROVE  c + i \in 1..L /\ c + i > c /\ queue[n][c + i] \in Proper
  <2>1. c + i \in 1..L /\ c + i > c
    BY <1>2, <1>3
  <2> QED  BY <1>2, <2>1
<1>5. new \in Seq(Ops \cup {"ASKING"}) /\ Len(new) = L - c
      /\ \A i \in 1..(L - c) : new[i] = queue[n][c + i].payload
  <2>1. \A i \in 1..(L - c) : queue[n][c + i].payload \in Ops \cup {"ASKING"}
    BY <1>4, ProperEntries
  <2>2. L - c \in Nat
    BY <1>2, <1>3
  <2> QED  BY <2>1, <2>2
<1> HIDE DEF new
<1>6. /\ Len(srv'[n]) = S + (L - c)
      /\ \A k \in 1..S : srv'[n][k] = srv[n][k]
      /\ \A k \in 1..(L - c) : srv'[n][S + k] = new[k]
  BY <1>1, <1>2, <1>5, ConcatIs
<1>7. SentOf(o)'
  <2>1. ASSUME NEW k \in 1..Len(srv'[n]), srv'[n][k] = o
        PROVE  executed[o] = 0
    <3>1. CASE k \in 1..S
      BY <1>0, <1>1, <1>6, <2>1, <3>1 DEF SentOf
    <3>2. CASE k \notin 1..S
      <4> DEFINE i == k - S
      <4> HIDE DEF L, c, S
      <4>1. i \in 1..(L - c) /\ S + i = k
        BY <1>2, <1>3, <1>6, <3>2
      <4> HIDE DEF i
      <4>2. queue[n][c + i].payload = o
        BY <1>5, <1>6, <2>1, <4>1
      <4>3. /\ c + i \in 1..L /\ c + i > c /\ queue[n][c + i].handle = o
        BY <1>0, <1>4, <4>1, <4>2, ProperEntries
      <4> QED  BY <1>0, <4>3 DEF UnsentOf, L, c
    <3> QED  BY <3>1, <3>2
  <2>2. \A m \in Nodes : m # n => srv'[m] = srv[m]
    BY <1>1, <1>2
  <2> QED  BY <1>0, <1>1, <2>1, <2>2 DEF SentOf, Ran
<1>8. UnsentOf(o)'
  <2> SUFFICES ASSUME NEW m \in Nodes, NEW k \in 1..Len(queue'[m]),
                      queue'[m][k].handle = o, k > committed'[m]
               PROVE  executed'[o] = 0
    BY DEF UnsentOf
  <2>1. CASE m # n
    BY <1>0, <1>1, <1>2, <2>1 DEF UnsentOf
  <2>2. CASE m = n
    <3>1. committed'[m] = L /\ k \in 1..L
      BY <1>1, <1>2, <2>2
    <3> HIDE DEF L
    <3> QED  BY <1>3, <3>1
  <2> QED  BY <2>1, <2>2
<1>9. DoneOf(o)' /\ HandOf(o)'
  BY <1>0, <1>1, HandSame DEF DoneOf
<1> QED  BY <1>7, <1>8, <1>9 DEF RunOf

\* A batch begins with the first reply on the wire.
LEMMA ReceiveRun ==
  ASSUME TypeInv, HomeInv, RunInv, NEW n \in Nodes, Receive(n), NEW o \in Ops \ Spoiled
  PROVE  RunOf(o)'
<1>0. o \in Ops /\ DoneOf(o) /\ UnsentOf(o) /\ SentOf(o) /\ HandOf(o)
  BY UnspoiledIs
<1>1. /\ conn[n] = "up" /\ UNCHANGED <<conn, pc, fate, executed, queue, committed, srv>>
      /\ wire \in [Nodes -> Seq(Replies)]
  BY DEF Receive, users, rings, history, TypeInv, FarTypes
<1>2. PICK k \in 1..Len(wire[n]) :
        /\ loop' = Handling(n, wire[n][1], k, TRUE)
        /\ wire' = [wire EXCEPT ![n] = SubSeq(wire[n], k + 1, Len(wire[n]))]
  BY DEF Receive
<1> DEFINE W == Len(wire[n])
<1>3. Len(wire'[n]) = W - k /\ \A j \in 1..(W - k) : wire'[n][j] = wire[n][k + j]
  BY <1>1, <1>2, RestIs
<1>4. W \in Nat
  BY <1>1
<1>5. HandOf(o)'
  <2>1. loop'.phase = "handle" /\ loop'.val = wire[n][1]
    BY <1>2 DEF Handling
  <2>2. 1 \in 1..W
    BY <1>2, <1>4
  <2> QED  BY <1>0, <1>1, <2>1, <2>2 DEF HandOf, SentOf, Ran
<1>6. SentOf(o)'
  <2>1. ASSUME NEW j \in 1..Len(wire'[n]), wire'[n][j].of = o
        PROVE  Ran(o, wire'[n][j].kind)
    <3> HIDE DEF W
    <3>1. j \in 1..(W - k) /\ k + j \in 1..W
      BY <1>2, <1>3, <1>4 DEF W
    <3> QED  BY <1>0, <1>1, <1>3, <2>1, <3>1 DEF SentOf, W
  <2>2. \A m \in Nodes : m # n => wire'[m] = wire[m]
    BY <1>1, <1>2
  <2> QED  BY <1>0, <1>1, <2>1, <2>2 DEF SentOf, Ran
<1>7. DoneOf(o)' /\ UnsentOf(o)'
  BY <1>0, <1>1, UnsentSame DEF DoneOf
<1> QED  BY <1>5, <1>6, <1>7 DEF RunOf

\* Those whom a drain answers had pushed.
LEMMA DrainRun ==
  ASSUME TypeInv, HomeInv, RunInv, NEW n \in Nodes, Drain(n), NEW o \in Ops \ Spoiled
  PROVE  RunOf(o)'
<1>0. o \in Ops /\ HomeOf(o) /\ DoneOf(o) /\ UnsentOf(o) /\ SentOf(o) /\ HandOf(o)
  BY UnspoiledIs
<1>1. /\ queue' = [queue EXCEPT ![n] = <<>>] /\ committed' = [committed EXCEPT ![n] = 0]
      /\ conn' = [conn EXCEPT ![n] = "draining"]
      /\ UNCHANGED <<loop, pc, executed, srv, wire>>
      /\ fate' = [x \in Ops |-> IF x \in Waiting(n) /\ fate[x] = "none" THEN "conn_err"
                                ELSE fate[x]]
      /\ queue \in [Nodes -> Seq(Entries)] /\ committed \in [Nodes -> Nat]
      /\ conn \in [Nodes -> {"none", "connecting", "up", "lost", "draining"}]
  BY DEF Drain, history, servers, TypeInv, RingTypes, UserTypes
<1>2. ASSUME o \in Waiting(n)
      PROVE  pc[o] = "pushed"
  <2>1. PICK k \in DOMAIN queue[n] : queue[n][k].handle = o
    BY <1>2 DEF Waiting
  <2>2. k \in Nat /\ Holds(o, n, k)
    BY <1>1, <2>1 DEF Holds
  <2> QED  BY <1>0, <2>2 DEF HomeOf
<1>3. DoneOf(o)'
  BY <1>0, <1>1, <1>2 DEF DoneOf
<1>4. UnsentOf(o)'
  <2>1. Len(queue'[n]) = 0
    BY <1>1
  <2>2. \A m \in Nodes : m # n => queue'[m] = queue[m] /\ committed'[m] = committed[m]
    BY <1>1
  <2> QED  BY <1>0, <1>1, <2>1, <2>2 DEF UnsentOf
<1>5. SentOf(o)'
  <2>1. \A m \in Nodes : conn'[m] = "up" => conn[m] = "up"
    BY <1>1
  <2> QED  BY <1>0, <1>1, <2>1, SentSame
<1>6. HandOf(o)'
  BY <1>0, <1>1, HandSame
<1> QED  BY <1>3, <1>4, <1>5, <1>6 DEF RunOf

\* A command that a node is about to run is committed in the ring of that
\* connection and nowhere else: no other node, no reply and no redirect has it.
LEMMA AloneWhenServed ==
  ASSUME TypeInv, LoopInv, FarInv, FirstInv, HomeInv, RunInv,
         NEW n \in Nodes, conn[n] = "up", Len(srv[n]) >= 1,
         NEW o \in Ops \ Spoiled, srv[n][1] = o
  PROVE  /\ pc[o] = "pushed" /\ fate[o] = "none"
         /\ \A m \in Nodes : \A k \in 1..Len(queue[m]) :
              queue[m][k].handle = o => k <= committed[m]
         /\ \A m \in Nodes : conn[m] = "up" =>
              /\ \A k \in 1..Len(srv[m]) : srv[m][k] = o => m = n /\ k = 1
              /\ \A k \in 1..Len(wire[m]) : wire[m][k].of # o
         /\ ~(loop.phase = "handle" /\ loop.first /\ loop.val.of = o)
         /\ ~(loop.phase = "forward" /\ loop.entry.handle = o)
<1>0. o \in Ops /\ o \notin overrun /\ HomeOf(o)
  BY UnspoiledIs
<1>1. \A m \in Nodes : \A k \in 1..Len(queue[m]) : queue[m][k] \in Proper
  BY DEF TypeInv, RingTypes
\* The place in the ring of what is on the wire or at the node.
<1>2. ASSUME NEW m \in Nodes, conn[m] = "up", NEW k \in 1..Len(srv[m]), srv[m][k] = o
      PROVE  LET j == Held(m) + Len(wire[m]) + k
             IN  j \in Nat /\ j >= 1 /\ j <= committed[m] /\ Holds(o, m, j)
  <2> DEFINE j == Held(m) + Len(wire[m]) + k
  <2>1. /\ committed[m] = Held(m) + Len(wire[m]) + Len(srv[m])
        /\ Fits(queue[m][j], o)
    BY <1>2 DEF FarInv, FarAt
  <2>2. j \in Nat /\ j >= 1 /\ j <= committed[m] /\ j \in 1..Len(queue[m])
    <3> DEFINE h == Held(m)
               W == Len(wire[m])
               S == Len(srv[m])
               c == committed[m]
               L == Len(queue[m])
    <3>1. h \in Nat /\ W \in Nat /\ S \in Nat /\ c \in Nat /\ L \in Nat /\ c <= L
      BY FarNumbers
    <3>2. c = h + W + S /\ k \in 1..S
      BY <2>1
    <3> HIDE DEF h, W, S, c, L
    <3>3. h + W + k \in Nat /\ h + W + k >= 1 /\ h + W + k <= c /\ h + W + k \in 1..L
      BY <3>1, <3>2
    <3> QED  BY <3>3 DEF h, W, S, c, L
  <2> HIDE DEF j
  <2>3. queue[m][j].handle = o
    BY <1>0, <1>1, <2>1, <2>2, FitsOwn
  <2>4. Holds(o, m, j)
    BY <2>2, <2>3, HoldsIs
  <2> QED  BY <2>2, <2>4 DEF j
<1>3. ASSUME NEW m \in Nodes, conn[m] = "up", NEW k \in 1..Len(wire[m]), wire[m][k].of = o
      PROVE  LET j == Held(m) + k IN  j \in Nat /\ Holds(o, m, j)
  <2> DEFINE j == Held(m) + k
  <2>1. /\ committed[m] = Held(m) + Len(wire[m]) + Len(srv[m])
        /\ Fits(queue[m][j], o)
    BY <1>3 DEF FarInv, FarAt
  <2>2. j \in Nat /\ j \in 1..Len(queue[m])
    BY <2>1, FarNumbers
  <2> HIDE DEF j
  <2>3. queue[m][j].handle = o
    BY <1>0, <1>1, <2>1, <2>2, FitsOwn
  <2>4. Holds(o, m, j)
    BY <2>2, <2>3, HoldsIs
  <2> QED  BY <2>2, <2>4 DEF j
\* Its own place.
<1> DEFINE i == Held(n) + Len(wire[n]) + 1
<1>4. i \in Nat /\ i >= 1 /\ i <= committed[n] /\ Holds(o, n, i)
  <2>1. 1 \in 1..Len(srv[n])
    BY FarNumbers
  <2> QED  BY <1>2, <2>1
<1>5. \A m \in Nodes : \A k \in Nat : Holds(o, m, k) => m = n /\ k = i
  <2> HIDE DEF i
  <2> QED  BY <1>0, <1>4 DEF HomeOf
<1>6. pc[o] = "pushed" /\ fate[o] = "none"
  <2> HIDE DEF i
  <2> QED  BY <1>0, <1>4 DEF HomeOf
<1>7. ASSUME NEW m \in Nodes, NEW k \in 1..Len(queue[m]), queue[m][k].handle = o
      PROVE  k <= committed[m]
  <2> HIDE DEF i
  <2>1. Holds(o, m, k) /\ k \in Nat
    BY <1>7, HoldsIs
  <2> QED  BY <1>4, <1>5, <2>1
<1>8. ASSUME NEW m \in Nodes, conn[m] = "up", NEW k \in 1..Len(srv[m]), srv[m][k] = o
      PROVE  m = n /\ k = 1
  <2>1. m = n /\ Held(m) + Len(wire[m]) + k = i
    <3> HIDE DEF i
    <3> QED  BY <1>2, <1>5, <1>8
  <2> QED  BY <2>1, FarNumbers
<1>9. ASSUME NEW m \in Nodes, conn[m] = "up", NEW k \in 1..Len(wire[m]), wire[m][k].of = o
      PROVE  FALSE
  <2>1. m = n /\ Held(m) + k = i
    <3> HIDE DEF i
    <3> QED  BY <1>3, <1>5, <1>9
  <2>2. Len(wire[n]) \in Nat /\ Held(n) \in Nat /\ k \in 1..Len(wire[n])
    BY <2>1, FarNumbers
  <2> QED  BY <2>1, <2>2
\* Nor does the loop have it.
<1>10. ~(loop.phase = "handle" /\ loop.first /\ loop.val.of = o)
  <2> SUFFICES ASSUME loop.phase = "handle", loop.first, loop.val.of = o
               PROVE  FALSE
    OBVIOUS
  <2>1. /\ loop.node \in Nodes /\ loop.left \in Nat /\ loop.left >= 1
        /\ committed[loop.node] >= loop.left
    BY AtWork
  <2>2. 1 \in 1..Len(queue[loop.node])
    BY <2>1, FarNumbers
  <2>3. queue[loop.node][1].handle = o
    BY <1>0, <1>1, <2>1, <2>2, FitsOwn DEF FirstInv
  <2>4. Holds(o, loop.node, 1) /\ 1 \in Nat
    BY <2>1, <2>2, <2>3, HoldsIs
  <2>5. loop.node = n /\ 1 = i
    <3> HIDE DEF i
    <3> QED  BY <1>5, <2>1, <2>4
  <2>6. Held(n) >= 1 /\ Held(n) \in Nat /\ Len(wire[n]) \in Nat
    BY <2>1, <2>5, FarNumbers DEF Held
  <2> QED  BY <2>5, <2>6
<1>11. ~(loop.phase = "forward" /\ loop.entry.handle = o)
  <2> SUFFICES ASSUME loop.phase = "forward", loop.entry.handle = o
               PROVE  FALSE
    OBVIOUS
  <2>1. loop.node \in Nodes
    BY AtWork
  <2>2. Holds(o, loop.node, 0) /\ 0 \in Nat
    BY DEF Holds
  <2>3. 0 = i
    <3> HIDE DEF i
    <3> QED  BY <1>5, <2>1, <2>2
  <2> QED  BY <1>4, <2>3
<1> HIDE DEF i
<1> QED  BY <1>6, <1>7, <1>8, <1>9, <1>10, <1>11

\* A node runs a command once, and its answer says so.
LEMMA ServeRun ==
  ASSUME TypeInv, LoopInv, FarInv, FirstInv, HomeInv, RunInv,
         NEW n \in Nodes, Serve(n), NEW o \in Ops \ Spoiled
  PROVE  RunOf(o)'
<1> DEFINE p == srv[n][1]
           W == Len(wire[n])
           S == Len(srv[n])
           r == wire'[n][W + 1]
<1>0. o \in Ops /\ DoneOf(o) /\ UnsentOf(o) /\ SentOf(o) /\ HandOf(o) /\ o # "ASKING"
  BY UnspoiledIs
<1>1. /\ conn[n] = "up" /\ S >= 1 /\ p \in Ops \cup {"ASKING"}
      /\ \A m \in Nodes : m # n => srv'[m] = srv[m] /\ wire'[m] = wire[m]
      /\ Len(srv'[n]) = S - 1 /\ \A k \in 1..(S - 1) : srv'[n][k] = srv[n][k + 1]
      /\ Len(wire'[n]) = W + 1 /\ \A k \in 1..W : wire'[n][k] = wire[n][k]
      /\ r.of = p
      /\ \/ p = "ASKING" /\ executed' = executed
         \/ /\ p \in Ops /\ r.kind = "ok"
            /\ executed' = [executed EXCEPT ![p] = executed[p] + 1]
         \/ p \in Ops /\ r.kind # "ok" /\ executed' = executed
  BY ServeAnswers
<1>2. UNCHANGED <<conn, loop, pc, fate, queue, committed>>
  BY DEF Serve, rings, users
<1>3. W \in Nat /\ S \in Nat /\ executed \in [Ops -> Nat]
  BY FarNumbers DEF TypeInv, FarTypes
<1>4. (1 \in 1..S) /\ \A k \in 1..(S - 1) : k + 1 \in 1..S /\ k + 1 # 1
  <2> HIDE DEF S
  <2> QED  BY <1>1, <1>3
<1>5. \A k \in 1..(W + 1) : k \in 1..W \/ k = W + 1
  <2> HIDE DEF W
  <2> QED  BY <1>3
\* Another's command: nothing of this one changes.
<1>6. CASE p # o
  <2>1. executed'[o] = executed[o]
    BY <1>0, <1>1, <1>3, <1>6
  <2>2. SentOf(o)'
    <3>1. ASSUME NEW k \in 1..Len(srv'[n]), srv'[n][k] = o
          PROVE  executed[o] = 0
      <4>1. k \in 1..(S - 1) /\ k + 1 \in 1..S /\ srv[n][k + 1] = o
        BY <1>1, <1>4, <3>1
      <4> QED  BY <1>0, <1>1, <4>1 DEF SentOf
    <3>2. ASSUME NEW k \in 1..Len(wire'[n]), wire'[n][k].of = o
          PROVE  Ran(o, wire'[n][k].kind)
      <4>1. k \in 1..W /\ wire[n][k] = wire'[n][k]
        BY <1>1, <1>5, <1>6, <3>2
      <4> QED  BY <1>0, <1>1, <3>2, <4>1 DEF SentOf
    <3> QED  BY <1>0, <1>1, <1>2, <2>1, <3>1, <3>2 DEF SentOf, Ran
  <2>3. DoneOf(o)' /\ UnsentOf(o)' /\ HandOf(o)'
    BY <1>0, <1>2, <2>1, UnsentSame, HandSame DEF DoneOf
  <2> QED  BY <2>2, <2>3 DEF RunOf
\* This command.
<1>7. CASE p = o
  <2>1. executed[o] = 0
    BY <1>0, <1>1, <1>4, <1>7 DEF SentOf
  <2>2. /\ pc[o] = "pushed" /\ fate[o] = "none"
        /\ \A m \in Nodes : \A k \in 1..Len(queue[m]) :
             queue[m][k].handle = o => k <= committed[m]
        /\ \A m \in Nodes : conn[m] = "up" =>
             /\ \A k \in 1..Len(srv[m]) : srv[m][k] = o => m = n /\ k = 1
             /\ \A k \in 1..Len(wire[m]) : wire[m][k].of # o
        /\ ~(loop.phase = "handle" /\ loop.first /\ loop.val.of = o)
        /\ ~(loop.phase = "forward" /\ loop.entry.handle = o)
    BY <1>1, <1>7, AloneWhenServed
  <2>3. executed'[o] = IF r.kind = "ok" THEN 1 ELSE 0
    BY <1>0, <1>1, <1>3, <1>7, <2>1
  <2>4. DoneOf(o)'
    BY <1>2, <2>2, <2>3 DEF DoneOf
  <2>5. UnsentOf(o)'
    <3> SUFFICES ASSUME NEW m \in Nodes, NEW k \in 1..Len(queue[m]),
                        queue[m][k].handle = o, k > committed[m]
                 PROVE  FALSE
      BY <1>2 DEF UnsentOf
    <3>1. k <= committed[m]
      BY <2>2
    <3> QED  BY <3>1, FarNumbers
  <2>6. SentOf(o)'
    <3>1. ASSUME NEW m \in Nodes, conn[m] = "up", NEW k \in 1..Len(srv'[m]), srv'[m][k] = o
          PROVE  FALSE
      <4>1. CASE m = n
        <5>1. k \in 1..(S - 1) /\ k + 1 \in 1..S /\ srv[n][k + 1] = o /\ k + 1 # 1
          BY <1>1, <1>4, <3>1, <4>1
        <5> QED  BY <1>1, <2>2, <5>1
      <4>2. CASE m # n
        BY <1>1, <2>2, <3>1, <4>2
      <4> QED  BY <4>1, <4>2
    <3>2. ASSUME NEW m \in Nodes, conn[m] = "up",
                 NEW k \in 1..Len(wire'[m]), wire'[m][k].of = o
          PROVE  executed'[o] = IF wire'[m][k].kind = "ok" THEN 1 ELSE 0
      <4>1. CASE m = n
        <5>1. k = W + 1
          BY <1>1, <1>5, <2>2, <3>2, <4>1
        <5> QED  BY <2>3, <4>1, <5>1
      <4>2. CASE m # n
        BY <1>1, <2>2, <3>2, <4>2
      <4> QED  BY <4>1, <4>2
    <3> QED  BY <1>2, <3>1, <3>2 DEF SentOf, Ran
  <2>7. HandOf(o)'
    BY <1>2, <2>2 DEF HandOf
  <2> QED  BY <2>4, <2>5, <2>6, <2>7 DEF RunOf
<1> QED  BY <1>6, <1>7

\* A coroutine that is given a reply is given its own: it is the first of its
\* batch, or the batch has spoiled it.
LEMMA HandleRun ==
  ASSUME TypeInv, LoopInv, FirstInv, HomeInv, RunInv, Handle, NEW o \in Ops \ Spoiled'
  PROVE  RunOf(o)'
<1>0. loop.node \in Nodes /\ loop.phase = "handle"
  BY HandlePops
<1> PICK n \in Nodes : n = loop.node
  BY <1>0
<1> DEFINE e == queue[n][1]
           L == Len(queue[n])
<1>1. /\ L >= 1 /\ Head(queue[n]) = e /\ e \in Proper /\ committed[n] >= 1
      /\ \A m \in Nodes : m # n => queue'[m] = queue[m] /\ committed'[m] = committed[m]
      /\ Len(queue'[n]) = L - 1 /\ committed'[n] = committed[n] - 1
      /\ \A k \in 1..(L - 1) : queue'[n][k] = queue[n][k + 1]
  BY HandlePops
<1>2. /\ UNCHANGED <<pc, srv, wire, executed, overrun>>
      /\ lost \subseteq lost'
      /\ batched' = IF loop.first THEN batched ELSE batched \cup Touched(e.handle)
      /\ conn' \in {conn, [conn EXCEPT ![n] = "lost"]}
  BY <1>1 DEF Handle, servers
<1>3. o \in Ops \ Spoiled /\ o \notin batched' /\ o \notin overrun /\ o \notin lost'
  BY <1>2 DEF Spoiled
<1>4. /\ o \in Ops /\ o # "noop" /\ o # "ASKING"
      /\ HomeOf(o) /\ DoneOf(o) /\ UnsentOf(o) /\ SentOf(o) /\ HandOf(o)
  BY <1>3, UnspoiledIs
<1>5. L \in Nat /\ committed[n] \in Nat
  BY FarNumbers
<1>6. /\ fate \in [Ops -> {"none", "conn_err", "overflow", "reply", "other", "null"}]
      /\ conn \in [Nodes -> {"none", "connecting", "up", "lost", "draining"}]
  BY DEF TypeInv, UserTypes
\* If it is its turn, the value is its own reply, and has it run or not.
<1>7. ASSUME o = e.handle
      PROVE  /\ pc[o] = "pushed" /\ loop.val.of = o /\ loop.val.kind # "null"
             /\ Ran(o, loop.val.kind)
  <2>1. Holds(o, n, 1) /\ 1 \in Nat
    <3>1. 1 \in 1..L
      BY <1>1, <1>5
    <3> QED  BY <1>7, <3>1, HoldsIs
  <2>2. pc[o] = "pushed"
    BY <1>4, <2>1 DEF HomeOf
  <2>3. loop.first
    BY <1>2, <1>3, <1>4, <1>7 DEF Touched
  <2>4. Fits(e, loop.val.of) /\ loop.val.kind # "null"
    BY <1>0, <2>3 DEF FirstInv
  <2>5. e.payload = o
    BY <1>1, <1>4, <1>7, ProperEntries
  <2>6. loop.val.of = o
    BY <1>3, <1>4, <2>4, <2>5 DEF Fits
  <2> QED  BY <1>0, <1>4, <2>2, <2>3, <2>4, <2>6 DEF HandOf
<1>8. DoneOf(o)'
  <2>1. CASE loop.val.kind \in {"ok", "null"}
    <3>1. fate' = [x \in Ops |-> IF x = e.handle /\ fate[x] = "none"
                                THEN Outcome(e, loop.val) ELSE fate[x]]
      BY <1>1, <2>1 DEF Handle, Resumed
    <3>2. CASE o = e.handle
      <4>1. Outcome(e, loop.val) = "reply" /\ executed[o] = 1
        BY <1>7, <2>1, <3>2 DEF Outcome, Ran
      <4>2. fate'[o] = "reply" \/ fate'[o] = fate[o]
        BY <1>4, <3>1, <4>1
      <4> QED  BY <1>2, <1>4, <1>7, <3>2, <4>1, <4>2 DEF DoneOf
    <3>3. CASE o # e.handle
      BY <1>2, <1>4, <3>1, <3>3 DEF DoneOf
    <3> QED  BY <3>2, <3>3
  <2>2. CASE loop.val.kind \in {"moved", "ask", "odd"}
    <3>1. fate' = fate
      BY <2>2 DEF Handle
    <3> QED  BY <1>2, <1>4, <3>1 DEF DoneOf
  <2> QED  BY <2>1, <2>2 DEF Handle
<1>9. UnsentOf(o)'
  <2> SUFFICES ASSUME NEW m \in Nodes, NEW k \in 1..Len(queue'[m]),
                      queue'[m][k].handle = o, k > committed'[m]
               PROVE  executed'[o] = 0
    BY DEF UnsentOf
  <2>1. CASE m # n
    BY <1>1, <1>2, <1>4, <2>1 DEF UnsentOf
  <2>2. CASE m = n
    <3> DEFINE c == committed[n]
               d == committed'[n]
    <3>1. k \in 1..(L - 1) /\ k > d /\ d = c - 1
      BY <1>1, <2>2
    <3>2. queue[n][k + 1].handle = o
      BY <1>1, <2>2, <3>1
    <3> HIDE DEF L, c, d
    <3>3. k + 1 \in 1..L /\ k + 1 > c
      BY <1>5, <3>1 DEF c
    <3> QED  BY <1>2, <1>4, <3>2, <3>3 DEF UnsentOf, L, c
  <2> QED  BY <2>1, <2>2
<1>10. SentOf(o)'
  <2>1. \A m \in Nodes : conn'[m] = "up" => conn[m] = "up"
    BY <1>2, <1>6
  <2> QED  BY <1>2, <1>4, <2>1, SentSame
<1>11. HandOf(o)'
  <2>1. CASE loop'.phase = "forward"
    <3>1. loop'.entry = e /\ loop.val.kind \in {"moved", "ask"}
      BY <1>1, <2>1, LoopAfter, IdleIs
    <3>2. o = e.handle => executed'[o] = 0
      BY <1>2, <1>7, <3>1 DEF Ran
    <3> QED  BY <2>1, <3>1, <3>2 DEF HandOf
  <2>2. CASE loop'.phase # "forward"
    <3>1. ~(loop'.phase = "handle" /\ loop'.first)
      BY <2>2, LoopAfter, IdleIs
    <3> QED  BY <2>2, <3>1 DEF HandOf
  <2> QED  BY <2>1, <2>2
<1> QED  BY <1>8, <1>9, <1>10, <1>11 DEF RunOf

\* What is redirected has not run, whether the other ring takes it or not.
LEMMA ForwardRun ==
  ASSUME TypeInv, LoopInv, HomeInv, RunInv, Forward, NEW o \in Ops \ Spoiled'
  PROVE  RunOf(o)'
<1>0. loop.val.to \in Nodes /\ loop.node \in Nodes /\ loop.phase = "forward"
  BY AtWork DEF Forward
<1> PICK n \in Nodes : n = loop.val.to
  BY <1>0
<1> DEFINE e == loop.entry
           L == Len(queue[n])
           w == Redirected
<1>1. /\ committed' = committed /\ overrun \subseteq overrun'
      /\ \/ queue' = queue /\ Refusal(n) # "none"
         \/ /\ Refusal(n) = "none" /\ fate' = fate
            /\ \A m \in Nodes : m # n => queue'[m] = queue[m]
            /\ Len(queue'[n]) = L + Len(w)
            /\ \A k \in 1..Len(w) : queue'[n][L + k] = w[k]
            /\ \A k \in 1..L :
                 \/ queue'[n][k] = queue[n][k]
                 \/ /\ queue'[n][k] = e
                    /\ e.handle \in overrun' \cup {"noop"}
  BY ForwardAppends
<1>2. Len(w) \in {1, 2} /\ w[Len(w)] = e /\ (Len(w) = 2 => w[1].handle = "noop")
  BY RedirectedIs, ProperEntries DEF TypeInv, LoopTypes
<1>3. UNCHANGED <<pc, srv, wire, executed, batched, lost>>
  BY DEF Forward, servers
<1>4. o \in Ops \ Spoiled /\ o \notin overrun'
  BY <1>1, <1>3 DEF Spoiled
<1>5. /\ o \in Ops /\ o # "noop" /\ HomeOf(o)
      /\ DoneOf(o) /\ UnsentOf(o) /\ SentOf(o) /\ HandOf(o)
  BY <1>4, UnspoiledIs
<1>6. o = e.handle => executed[o] = 0 /\ pc[o] = "pushed"
  <2>1. o = e.handle => Holds(o, loop.node, 0) /\ 0 \in Nat
    BY <1>0 DEF Holds
  <2> QED  BY <1>0, <1>5, <2>1 DEF HandOf, HomeOf
<1>7. L \in Nat
  BY FarNumbers
<1>8. DoneOf(o)'
  <2>1. CASE Refusal(n) = "none"
    BY <1>1, <1>3, <1>5, <2>1 DEF DoneOf
  <2>2. CASE Refusal(n) # "none"
    <3>1. fate' = [x \in Ops |-> IF x = e.handle /\ fate[x] = "none" THEN Refusal(n)
                                ELSE fate[x]]
      BY <2>2 DEF Forward, Resumed
    <3>2. Refusal(n) \in {"conn_err", "overflow"}
      BY <2>2 DEF Refusal
    <3>3. CASE o = e.handle
      <4>1. fate'[o] = fate[o] \/ fate'[o] \in {"conn_err", "overflow"}
        BY <1>5, <3>1, <3>2
      <4> QED  BY <1>3, <1>5, <1>6, <3>3, <4>1 DEF DoneOf
    <3>4. CASE o # e.handle
      BY <1>3, <1>5, <3>1, <3>4 DEF DoneOf
    <3> QED  BY <3>3, <3>4
  <2> QED  BY <2>1, <2>2
<1>9. UnsentOf(o)'
  <2> SUFFICES ASSUME NEW m \in Nodes, NEW k \in 1..Len(queue'[m]),
                      queue'[m][k].handle = o, k > committed[m]
               PROVE  executed[o] = 0
    BY <1>1, <1>3 DEF UnsentOf
  <2>1. CASE queue'[m] = queue[m]
    BY <1>5, <2>1 DEF UnsentOf
  <2>2. CASE queue'[m] # queue[m]
    <3> DEFINE t == queue'[n]
               W == Len(w)
    <3>1. /\ m = n /\ Len(t) = L + W /\ \A j \in 1..W : t[L + j] = w[j]
          /\ \A j \in 1..L : t[j] = queue[n][j] \/ (t[j] = e /\ e.handle \in overrun' \cup {"noop"})
      BY <1>1, <2>2
    <3>2. W \in {1, 2} /\ w[W] = e /\ (W = 2 => w[1].handle = "noop")
      BY <1>2
    <3>3. k \in 1..Len(t) /\ t[k].handle = o /\ k > committed[n]
      BY <3>1
    <3> HIDE DEF t, W, w, L
    <3>4. CASE k \in 1..L
      <4>1. queue[n][k].handle = o
        BY <1>4, <1>5, <3>1, <3>3, <3>4
      <4> QED  BY <1>5, <3>3, <3>4, <4>1 DEF UnsentOf, L
    <3>5. CASE k \notin 1..L
      <4> DEFINE j == k - L
      <4>1. j \in 1..W /\ L + j = k /\ (j = W \/ (W = 2 /\ j = 1))
        BY <1>7, <3>1, <3>2, <3>3, <3>5
      <4> HIDE DEF j
      <4>2. w[j].handle = o
        BY <3>1, <3>3, <4>1
      <4>3. w[j] = e
        BY <1>5, <3>2, <4>1, <4>2
      <4> QED  BY <1>6, <4>2, <4>3
    <3> QED  BY <3>4, <3>5
  <2> QED  BY <2>1, <2>2
<1>10. SentOf(o)'
  <2>1. conn' = [conn EXCEPT ![n] = IF shard[n] = "init" THEN "connecting" ELSE conn[n]]
    BY DEF Forward
  <2>2. conn \in [Nodes -> {"none", "connecting", "up", "lost", "draining"}]
    BY DEF TypeInv, UserTypes
  <2>3. \A m \in Nodes : conn'[m] = "up" => conn[m] = "up"
    BY <2>1, <2>2
  <2> QED  BY <1>3, <1>5, <2>3, SentSame
<1>11. HandOf(o)'
  <2>1. ~Handle
    BY <1>0 DEF Handle
  <2>2. loop'.phase # "forward" /\ ~(loop'.phase = "handle" /\ loop'.first)
    BY <2>1, LoopAfter, IdleIs
  <2> QED  BY <2>2 DEF HandOf
<1> QED  BY <1>8, <1>9, <1>10, <1>11 DEF RunOf

LEMMA RunStep ==
  ASSUME TypeInv, LoopInv, FarInv, FirstInv, HomeInv, RunInv, [Next]_vars
  PROVE  RunInv'
<1> SUFFICES ASSUME NEW o \in Ops \ Spoiled' PROVE RunOf(o)'
  BY DEF RunInv
<1>same. ASSUME Spoiled' = Spoiled, executed' = executed, fate' = fate,
                queue' = queue, committed' = committed, loop' = loop,
                pc'[o] # "pushed" => pc[o] # "pushed",
                \A m \in Nodes : conn'[m] = "up" =>
                  conn[m] = "up" /\ srv'[m] = srv[m] /\ wire'[m] = wire[m]
         PROVE  RunOf(o)'
  <2>1. o \in Ops /\ DoneOf(o) /\ UnsentOf(o) /\ SentOf(o) /\ HandOf(o)
    BY <1>same, UnspoiledIs
  <2>2. DoneOf(o)'
    BY <1>same, <2>1 DEF DoneOf
  <2> QED  BY <1>same, <2>1, <2>2, UnsentSame, SentSame, HandSame DEF RunOf
<1>0. /\ pc \in [Ops -> {"new", "try", "create", "launch", "push", "pushed"}]
      /\ conn \in [Nodes -> {"none", "connecting", "up", "lost", "draining"}]
      /\ srv \in [Nodes -> Seq(Ops \cup {"ASKING"})] /\ wire \in [Nodes -> Seq(Replies)]
      /\ at \in [Ops -> Nodes]
  BY DEF TypeInv, UserTypes, FarTypes
<1>1. ASSUME NEW p \in Ops, GetSlot(p) \/ TryConnect(p) \/ Create(p) \/ Launch(p)
      PROVE  RunOf(o)'
  <2>1. pc'[o] # "pushed" => pc[o] # "pushed"
    BY <1>0, <1>1 DEF GetSlot, TryConnect, Create, Launch
  <2>2. /\ UNCHANGED <<queue, committed, fate, loop, srv, wire, executed>>
        /\ Spoiled' = Spoiled
    BY <1>1 DEF GetSlot, TryConnect, Create, Launch, rings, servers, history, Spoiled
  <2>3. \A m \in Nodes : conn'[m] = "up" => conn[m] = "up"
    BY <1>0, <1>1 DEF GetSlot, TryConnect, Create, Launch
  <2> QED  BY <1>same, <2>1, <2>2, <2>3
<1>2. ASSUME NEW p \in Ops, Push(p)
      PROVE  RunOf(o)'
  <2>1. Spoiled' = Spoiled
    BY <1>2 DEF Push, history, Spoiled
  <2> QED  BY <1>2, <2>1, PushRun
<1>3. ASSUME NEW n \in Nodes, Connected(n)
      PROVE  RunOf(o)'
  <2>1. /\ UNCHANGED <<queue, committed, fate, pc, loop, executed>> /\ Spoiled' = Spoiled
        /\ srv' = [srv EXCEPT ![n] = <<>>] /\ wire' = [wire EXCEPT ![n] = <<>>]
        /\ conn' = [conn EXCEPT ![n] = "up"]
    BY <1>3 DEF Connected, rings, users, history, Spoiled
  <2>2. o \in Ops /\ DoneOf(o) /\ UnsentOf(o) /\ SentOf(o) /\ HandOf(o)
    BY <2>1, UnspoiledIs
  <2>3. SentOf(o)'
    <3>1. \A m \in Nodes : m # n =>
            conn'[m] = conn[m] /\ srv'[m] = srv[m] /\ wire'[m] = wire[m]
      BY <1>0, <2>1
    <3>2. Len(srv'[n]) = 0 /\ Len(wire'[n]) = 0
      BY <1>0, <2>1
    <3> QED  BY <2>1, <2>2, <3>1, <3>2 DEF SentOf, Ran
  <2>4. DoneOf(o)'
    BY <2>1, <2>2 DEF DoneOf
  <2> QED  BY <2>1, <2>2, <2>3, <2>4, UnsentSame, HandSame DEF RunOf
<1>4. ASSUME NEW n \in Nodes, Send(n) \/ Drain(n) \/ Receive(n) \/ Serve(n)
      PROVE  RunOf(o)'
  <2>1. Spoiled' = Spoiled
    BY <1>4 DEF Send, Drain, Receive, Serve, history, Spoiled
  <2> QED  BY <1>4, <2>1, SendRun, DrainRun, ReceiveRun, ServeRun
<1>5. ASSUME NEW n \in Nodes, Reset(n) \/ PeerCloses(n)
      PROVE  RunOf(o)'
  <2>1. UNCHANGED <<queue, committed, fate, pc, loop, executed>> /\ Spoiled' = Spoiled
    BY <1>5 DEF Reset, PeerCloses, rings, users, history, Spoiled
  <2>2. \A m \in Nodes : conn'[m] = "up" =>
          conn[m] = "up" /\ srv'[m] = srv[m] /\ wire'[m] = wire[m]
    BY <1>0, <1>5 DEF Reset, PeerCloses, servers
  <2> QED  BY <1>same, <2>1, <2>2
<1>6. ASSUME Handle
      PROVE  RunOf(o)'
  BY <1>6, HandleRun
<1>7. ASSUME Forward
      PROVE  RunOf(o)'
  BY <1>7, ForwardRun
<1>8. ASSUME Migration \/ UNCHANGED vars
      PROVE  RunOf(o)'
  BY <1>8, <1>same
  DEF Migration, StartMove, FinishMove, vars, rings, users, servers, history, Spoiled
<1> QED
  BY <1>1, <1>2, <1>3, <1>4, <1>5, <1>6, <1>7, <1>8
  DEF Next, User, Shard, Node, Finished


(***************************************************************************)
(* The invariant, and the theorems.                                        *)
(***************************************************************************)

IInv == TypeInv /\ MakerInv /\ LoopInv /\ FarInv /\ FirstInv /\ HomeInv /\ RunInv

LEMMA InvInit == Init => IInv
<1> SUFFICES ASSUME Init PROVE IInv
  OBVIOUS
<1> USE SlotAssumption, CapacityAssumption, BoundsAssumption, NamesAssumption
<1>1. /\ queue = [n \in Nodes |-> <<>>] /\ committed = [n \in Nodes |-> 0] /\ loop = Idle
      /\ conn = [n \in Nodes |-> "none"] /\ pc = [o \in Ops |-> "new"]
      /\ slot = Owners /\ overrun = {} /\ lost = {} /\ batched = {}
      /\ shard = [n \in Nodes |-> IF n \in Used THEN "init" ELSE "absent"]
  BY DEF Init
<1>2. RingTypes
  <2>1. \A n \in Nodes : queue[n] = <<>> /\ Len(queue[n]) = 0 /\ committed[n] = 0
    BY <1>1
  <2>2. queue \in [Nodes -> Seq(Entries)]
    BY <1>1
  <2>3. open \in [Nodes -> BOOLEAN] /\ event \in [Nodes -> BOOLEAN]
    BY DEF Init
  <2>4. committed \in [Nodes -> Nat]
    BY <1>1
  <2>5. 0 <= Capacity + 1
    OBVIOUS
  <2> QED  BY <2>1, <2>2, <2>3, <2>4, <2>5 DEF RingTypes
<1>3. UserTypes
  BY DEF Init, UserTypes
<1>4. LoopTypes
  BY <1>1, IdleIs DEF LoopTypes
<1>5. FarTypes
  <2>1. /\ srv = [n \in Nodes |-> <<>>] /\ wire = [n \in Nodes |-> <<>>]
        /\ asked = [n \in Nodes |-> FALSE] /\ executed = [o \in Ops |-> 0]
        /\ owner = Owners /\ moving = [s \in Slots |-> "none"]
    BY DEF Init
  <2>2. /\ srv \in [Nodes -> Seq(Ops \cup {"ASKING"})]
        /\ wire \in [Nodes -> Seq(Replies)]
        /\ \A n \in Nodes : Len(wire[n]) = 0
    BY <2>1
  <2> QED  BY <1>1, <2>1, <2>2 DEF FarTypes
<1>6. MakerInv
  <2>1. \A s \in Slots : slot[s] \in Nodes /\ slot[s] \in Used
    BY <1>1 DEF Used
  <2>2. \A s \in Slots : shard[slot[s]] # "absent"
    BY <1>1, <2>1
  <2> QED  BY <1>1, <2>2 DEF MakerInv, Init
<1>7. LoopInv
  BY <1>1, IdleIs DEF LoopInv
<1>8. FarInv
  BY <1>1 DEF FarInv, FarAt
<1>9. FirstInv
  BY <1>1, IdleIs DEF FirstInv
<1>10. HomeInv
  <2>1. \A o \in Ops, n \in Nodes : \A k \in Nat : ~Holds(o, n, k)
    BY <1>1, IdleIs DEF Holds
  <2> QED  BY <1>1, <2>1 DEF HomeInv, HomeOf, Tracked
<1>11. RunInv
  <2>1. ASSUME NEW o \in Ops
        PROVE  RunOf(o)
    <3>1. pc[o] = "new" /\ fate[o] = "none" /\ executed[o] = 0
      BY DEF Init
    <3>2. \A n \in Nodes : conn[n] # "up"
      BY <1>1
    <3> QED  BY <1>1, <3>1, <3>2, IdleIs DEF RunOf, DoneOf, UnsentOf, SentOf, HandOf
  <2> QED  BY <2>1 DEF RunInv
<1> QED
  BY <1>2, <1>3, <1>4, <1>5, <1>6, <1>7, <1>8, <1>9, <1>10, <1>11 DEF IInv, TypeInv

LEMMA InvStep == IInv /\ [Next]_vars => IInv'
<1> SUFFICES ASSUME IInv, [Next]_vars PROVE IInv'
  OBVIOUS
<1>1. TypeInv /\ MakerInv /\ LoopInv /\ FarInv /\ FirstInv /\ HomeInv /\ RunInv
  BY DEF IInv
<1>2. TypeInv'
  BY <1>1, RingTypesStep, UserTypesStep, LoopTypesStep, FarTypesStep DEF TypeInv
<1> QED
  BY <1>1, <1>2, MakerStep, LoopStep, FarStep, FirstStep, HomeStep, RunStep DEF IInv

LEMMA Invariant == Spec => []IInv
BY InvInit, InvStep, PTL DEF Spec

\* Every variable keeps its type: however users, redirects and reconnections
\* interleave in try_connect, a shard gets one pipe, and a ring one command
\* over its capacity at most.
THEOREM ClusterTypeCorrect == Spec => []TypeOK
<1>1. IInv => TypeOK
  BY DEF IInv, TypeInv, RingTypes, UserTypes, LoopTypes, LoopType, TypeOK
<1> QED  BY <1>1, Invariant, PTL

\* The places of a coroutine are those of its handle.
LEMMA PlacesAreHeld ==
  ASSUME TypeInv, NEW o
  PROVE  \A p : p \in Places(o) <=>
           \E n \in Nodes : \E k \in Nat : p = <<n, k>> /\ Holds(o, n, k)
<1>1. ASSUME NEW n \in Nodes, NEW k \in Nat, Holds(o, n, k)
      PROVE  <<n, k>> \in Places(o)
  <2>1. /\ queue[n] \in Seq(Entries) /\ Len(queue[n]) <= Capacity + 1
        /\ Len(queue[n]) \in Nat /\ Capacity \in Nat
    BY CapacityAssumption DEF TypeInv, RingTypes
  <2>2. k \in 1..Len(queue[n]) \/ k = 0
    BY <1>1, HoldsIs
  <2>3. k \in 0..(Capacity + 1)
    BY <2>1, <2>2
  <2> QED  BY <1>1, <2>3 DEF Places
<1>2. ASSUME NEW p \in Places(o)
      PROVE  \E n \in Nodes : \E k \in Nat : p = <<n, k>> /\ Holds(o, n, k)
  <2>1. p \in Nodes \X (0..(Capacity + 1)) /\ Holds(o, p[1], p[2])
    BY DEF Places
  <2>2. p = <<p[1], p[2]>> /\ p[1] \in Nodes /\ p[2] \in 0..(Capacity + 1)
    BY <2>1
  <2>3. p[2] \in Nat
    BY <2>2, CapacityAssumption
  <2> QED  BY <2>1, <2>2, <2>3
<1> QED  BY <1>1, <1>2

\* A coroutine that waits for its reply is in one place of one ring, or in
\* the hands of the loop, through any number of redirects, reconnections and
\* refusals; one that has an answer is nowhere, so nobody resumes it again.
\* Excepted are the coroutines whose slot ASKING's push_n overran (overrun) and
\* those popped with a redirect that cannot be read (lost).
THEOREM ClusterOneHome == Spec => []OneHome
<1>1. ASSUME IInv PROVE OneHome
  <2> SUFFICES ASSUME NEW o \in Tracked
               PROVE  Cardinality(Places(o)) =
                        IF pc[o] = "pushed" /\ fate[o] = "none" THEN 1 ELSE 0
    BY DEF OneHome, Tracked
  <2>1. TypeInv /\ HomeOf(o)
    BY <1>1 DEF IInv, HomeInv
  <2>2. CASE pc[o] = "pushed" /\ fate[o] = "none"
    <3>1. PICK n \in Nodes : \E k \in Nat : Holds(o, n, k)
      BY <2>1, <2>2 DEF HomeOf
    <3>2. PICK k \in Nat : Holds(o, n, k)
      BY <3>1
    <3>3. \A m \in Nodes : \A j \in Nat : Holds(o, m, j) => m = n /\ j = k
      BY <2>1, <3>2 DEF HomeOf
    <3>4. \A p : p \in Places(o) <=> p = <<n, k>>
      BY <2>1, <3>2, <3>3, PlacesAreHeld
    <3>5. Places(o) = {<<n, k>>}
      BY <3>4
    <3> QED  BY <2>2, <3>5, FS_Singleton
  <2>3. CASE ~(pc[o] = "pushed" /\ fate[o] = "none")
    <3>1. \A p : p \notin Places(o)
      BY <2>1, <2>3, PlacesAreHeld DEF HomeOf
    <3>2. Places(o) = {}
      BY <3>1
    <3> QED  BY <2>3, <3>2, FS_EmptySet
  <2> QED  BY <2>2, <2>3
<1> QED  BY <1>1, Invariant, PTL


\* Nobody is resumed with the reply to another command, nor with nothing,
\* whatever slots move between nodes, connections break and noops are put
\* between the commands, unless a batch of replies or a full ring touched it.
THEOREM ClusterRepliesMatch == Spec => []RepliesMatch
<1>1. IInv => RepliesMatch
  BY DEF IInv, RunInv, RunOf, DoneOf, RepliesMatch
<1> QED  BY <1>1, Invariant, PTL

\* A command runs at most once on all the nodes, once if its reply came, and
\* not at all if a full ring refused it, through redirects and reconnections.
\* Excepted are commands handled as a later reply of a batch, which may be sent
\* again behind a MOVED, and those overrun or lost (Spoiled).
THEOREM ClusterExecutedOnce == Spec => []ExecutedOnce
<1>1. IInv => ExecutedOnce
  BY DEF IInv, RunInv, RunOf, DoneOf, ExecutedOnce
<1> QED  BY <1>1, Invariant, PTL
=============================================================================
