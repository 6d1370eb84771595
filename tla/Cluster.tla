------------------------------ MODULE Cluster -------------------------------
(***************************************************************************)
(* RedisCluster (include/RedisCluster.hpp): the slot table, the shards and *)
(* their connections, the coroutines that come to a shard from any thread  *)
(* (get_pipe, try_connect, push), and the reader that follows MOVED and    *)
(* ASK by handing the waiting coroutine to another shard's ring.           *)
(*                                                                         *)
(* Users' steps interleave with the loop's.  The loop is one thread: what  *)
(* a reader or a worker does between two co_awaits is not interrupted by   *)
(* another coroutine of the loop, only by users, so a batch of replies is  *)
(* one step per reply and a redirect two.  Rings are the FIFO of RingQueue *)
(* with the one exception its push_n makes, the handshake is Pipeline's.   *)
(* The nodes and the kernel are external.                                  *)
(***************************************************************************)
EXTENDS Integers, Sequences, FiniteSets

CONSTANTS
  Ops,         \* commands, each awaited once by a coroutine of its own
  Slots,       \* hash slots
  SlotOf,      \* xredis::get_slot of each command's key
  Nodes,       \* nodes of the cluster, by their address
  Host, Port,  \* last octet and port of a node's address
  LocalHost,   \* the host 0.0.0.0 leads to
  Owners,      \* the assignment of slots CLUSTER SLOTS reports
  Capacity,    \* xcapacity
  MaxMoves,    \* bound: slots that begin to migrate
  MaxLosses,   \* bound: connections that break
  MaxOdd       \* bound: redirects parse_error cannot read

ASSUME SlotAssumption  == SlotOf \in [Ops -> Slots] /\ Owners \in [Slots -> Nodes]
ASSUME AddressAssumption == /\ Host \in [Nodes -> Nat] /\ Port \in [Nodes -> Nat]
                            /\ LocalHost \in Nat
ASSUME CapacityAssumption == Capacity \in Nat \ {0, 1}
ASSUME BoundsAssumption == {MaxMoves, MaxLosses, MaxOdd} \subseteq Nat
ASSUME NamesAssumption == {"noop", "ASKING"} \cap Ops = {} /\ "none" \notin Nodes

VARIABLES
  slot,                     \* Router::slot
  shard,                    \* Shard::connected; "absent": not in the table
  queue, committed, open,   \* a shard's ring, what was sent of it, ~STOP_BIT
  event,                    \* its eventfd is readable
  conn,                     \* where its worker is
  pc, at, fate,             \* the coroutines: step, shard, what they got
  loop,                     \* the reply the loop is handling
  owner, moving,            \* the nodes: who serves a slot, where it moves to
  asked, srv, wire,         \* a connection's far end: ASKING seen, commands
                            \* to answer, replies on their way
  moves, losses, odds,      \* counters for the bounds
  created, executed,        \* history, read by no action: pipes per shard,
  batched, overrun, lost    \* executions, commands touched by the batch,
                            \* by a full ring, by an unreadable redirect

router  == <<slot, shard>>
rings   == <<queue, committed, open, event>>
users   == <<pc, at, fate>>
servers == <<owner, moving, asked, srv, wire>>
bounds  == <<moves, losses, odds>>
history == <<created, executed, batched, overrun, lost>>
vars    == <<router, rings, conn, users, loop, servers, bounds, history>>

Command(o) == [handle |-> o, payload |-> o]
AskingNoop == [handle |-> "noop", payload |-> "ASKING"]
Entries    == [handle : Ops \cup {"noop"}, payload : Ops \cup {"ASKING"}]

\* A reply: whose payload it answers, what it says, where it redirects to.
Reply(p, kind, to) == [of |-> p, kind |-> kind, to |-> to]
Replies == [of : Ops \cup {"ASKING"}, kind : {"ok", "moved", "ask", "odd", "null"},
            to : Nodes \cup {"none"}]

\* The loop at rest; with left replies to take a popped entry for, the first of
\* its batch or not, and the value of that first; and with an entry popped.
Idle == [phase |-> "idle", node |-> "none", val |-> Reply("ASKING", "null", "none"),
         left |-> 0, first |-> FALSE, entry |-> AskingNoop]
Handling(n, val, left, first) ==
  [phase |-> "handle", node |-> n, val |-> val, left |-> left, first |-> first,
   entry |-> AskingNoop]
Forwarding(entry) ==
  [phase |-> "forward", node |-> loop.node, val |-> loop.val, left |-> loop.left,
   first |-> loop.first, entry |-> entry]

\* The loop runs one coroutine at a time; a drain and its reset are one.
LoopFree == loop = Idle /\ \A n \in Nodes : conn[n] # "draining"

Used == {Owners[s] : s \in Slots}

\* After connect(): the shards of CLUSTER SLOTS are in the table, unconnected.
Init ==
  /\ slot = Owners
  /\ shard = [n \in Nodes |-> IF n \in Used THEN "init" ELSE "absent"]
  /\ queue = [n \in Nodes |-> <<>>] /\ committed = [n \in Nodes |-> 0]
  /\ open = [n \in Nodes |-> TRUE] /\ event = [n \in Nodes |-> FALSE]
  /\ conn = [n \in Nodes |-> "none"]
  /\ pc = [o \in Ops |-> "new"] /\ at = [o \in Ops |-> slot[SlotOf[o]]]
  /\ fate = [o \in Ops |-> "none"]
  /\ loop = Idle
  /\ owner = Owners /\ moving = [s \in Slots |-> "none"]
  /\ asked = [n \in Nodes |-> FALSE]
  /\ srv = [n \in Nodes |-> <<>>] /\ wire = [n \in Nodes |-> <<>>]
  /\ moves = 0 /\ losses = 0 /\ odds = 0
  /\ created = [n \in Nodes |-> 0] /\ executed = [o \in Ops |-> 0]
  /\ batched = {} /\ overrun = {} /\ lost = {}

(***************************************************************************)
(* Addresses.  uint32toip returns a length one short, so the last digit of *)
(* the address is not dialled; what is left of a one-digit octet does not  *)
(* parse and leaves 0.0.0.0, this host.                                    *)
(***************************************************************************)

Dialled(host) == IF host >= 10 THEN host \div 10 ELSE LocalHost

\* Who answers a connection to n's address.
Peers(n) == {m \in Nodes : Host[m] = Dialled(Host[n]) /\ Port[m] = Port[n]}

(***************************************************************************)
(* Users: get_pipe, try_connect, CommandAwaiter::await_suspend.            *)
(***************************************************************************)

GetSlot(o) ==
  /\ pc[o] = "new"
  /\ at' = [at EXCEPT ![o] = slot[SlotOf[o]]]
  /\ pc' = [pc EXCEPT ![o] = "try"]
  /\ UNCHANGED <<router, rings, conn, fate, loop, servers, bounds, history>>

\* Mutant: a load and a store in the place of the compare-exchange.
TryConnect_NoCas(o) ==
  /\ pc[o] = "try"
  /\ pc' = [pc EXCEPT ![o] = IF shard[at[o]] = "connected" THEN "push" ELSE "create"]
  /\ shard' = [shard EXCEPT ![at[o]] = IF @ = "init" THEN "connecting" ELSE @]
  /\ UNCHANGED <<slot, rings, conn, at, fate, loop, servers, bounds, history>>

\* set_connecting; whoever comes second spins in wait_connected.
TryConnect(o) ==
  /\ pc[o] = "try" /\ shard[at[o]] # "connecting"
  /\ pc' = [pc EXCEPT ![o] = IF shard[at[o]] = "init" THEN "create" ELSE "push"]
  /\ shard' = [shard EXCEPT ![at[o]] = IF @ = "init" THEN "connecting" ELSE @]
  /\ UNCHANGED <<slot, rings, conn, at, fate, loop, servers, bounds, history>>

\* The new pipe is stored and set_connected lets the others at it.
Create(o) ==
  /\ pc[o] = "create"
  /\ shard' = [shard EXCEPT ![at[o]] = "connected"]
  /\ created' = [created EXCEPT ![at[o]] = @ + 1]
  /\ pc' = [pc EXCEPT ![o] = "launch"]
  /\ UNCHANGED <<slot, rings, conn, at, fate, loop, servers, bounds, executed,
                 batched, overrun, lost>>

\* Options, alive and the worker, which begins to connect.
Launch(o) ==
  /\ pc[o] = "launch"
  /\ conn' = [conn EXCEPT ![at[o]] = "connecting"]
  /\ pc' = [pc EXCEPT ![o] = "push"]
  /\ UNCHANGED <<router, rings, at, fate, loop, servers, bounds, history>>

\* What the ring tells a push.
Refusal(n) == CASE ~open[n]                 -> "conn_err"
                [] Len(queue[n]) >= Capacity -> "overflow"
                [] OTHER                    -> "none"

\* push, then the write of the eventfd that EventLoop brings to its end.
Push(o) ==
  LET n == at[o]
  IN  /\ pc[o] = "push"
      /\ pc' = [pc EXCEPT ![o] = "pushed"]
      /\ fate' = [fate EXCEPT ![o] = Refusal(n)]
      /\ IF Refusal(n) = "none"
         THEN /\ queue' = [queue EXCEPT ![n] = Append(@, Command(o))]
              /\ event' = [event EXCEPT ![n] = TRUE]
         ELSE UNCHANGED <<queue, event>>
      /\ UNCHANGED <<router, committed, open, conn, at, loop, servers, bounds,
                     history>>

(***************************************************************************)
(* worker and writer.                                                      *)
(***************************************************************************)

\* connect_spot succeeds, if anybody answers at the address dialled.
Connected(n) ==
  /\ LoopFree /\ conn[n] = "connecting" /\ Peers(n) # {}
  /\ conn' = [conn EXCEPT ![n] = "up"]
  /\ asked' = [asked EXCEPT ![n] = FALSE]
  /\ srv' = [srv EXCEPT ![n] = <<>>] /\ wire' = [wire EXCEPT ![n] = <<>>]
  /\ UNCHANGED <<router, rings, users, loop, owner, moving, bounds, history>>

\* The writer wakes and sends all that is new in the ring.
Send(n) ==
  /\ LoopFree /\ conn[n] = "up" /\ event[n]
  /\ event' = [event EXCEPT ![n] = FALSE]
  /\ srv' = [srv EXCEPT ![n] = @ \o [i \in 1..(Len(queue[n]) - committed[n]) |->
                                      queue[n][committed[n] + i].payload]]
  /\ committed' = [committed EXCEPT ![n] = Len(queue[n])]
  /\ UNCHANGED <<router, queue, open, conn, users, loop, owner, moving, asked,
                 wire, bounds, history>>

Waiting(n) == {queue[n][i].handle : i \in DOMAIN queue[n]} \ {"noop"}

\* Mutant: the commands stay in the ring for the next connection.
Drain_Keeps(n) ==
  /\ LoopFree /\ conn[n] = "lost"
  /\ conn' = [conn EXCEPT ![n] = "draining"]
  /\ open' = [open EXCEPT ![n] = FALSE]
  /\ committed' = [committed EXCEPT ![n] = 0]
  /\ UNCHANGED <<router, queue, event, users, loop, servers, bounds, history>>

\* race() has returned: the ring is stopped and everybody in it resumed.
Drain(n) ==
  /\ LoopFree /\ conn[n] = "lost"
  /\ conn' = [conn EXCEPT ![n] = "draining"]
  /\ open' = [open EXCEPT ![n] = FALSE]
  /\ queue' = [queue EXCEPT ![n] = <<>>]
  /\ committed' = [committed EXCEPT ![n] = 0]
  /\ fate' = [o \in Ops |-> IF o \in Waiting(n) /\ fate[o] = "none" THEN "conn_err"
                            ELSE fate[o]]
  /\ UNCHANGED <<router, event, pc, at, loop, servers, bounds, history>>

\* The eventfd is read empty and the ring opened; then the worker reconnects.
Reset(n) ==
  /\ conn[n] = "draining"
  /\ conn' = [conn EXCEPT ![n] = "connecting"]
  /\ open' = [open EXCEPT ![n] = TRUE]
  /\ event' = [event EXCEPT ![n] = FALSE]
  /\ UNCHANGED <<router, queue, committed, users, loop, servers, bounds, history>>

(***************************************************************************)
(* reader and handle_response.                                             *)
(***************************************************************************)

\* One reply is parsed, and with it those of the k that have arrived whole:
\* the loop handles each of them with the value of the first.
Receive(n) ==
  /\ LoopFree /\ conn[n] = "up"
  /\ \E k \in 1..Len(wire[n]) :
       /\ loop' = Handling(n, wire[n][1], k, TRUE)
       /\ wire' = [wire EXCEPT ![n] = SubSeq(@, k + 1, Len(@))]
  /\ UNCHANGED <<router, rings, conn, users, owner, moving, asked, srv, bounds,
                 history>>

\* On to the next reply of the batch, or back to the socket.
NextReply(val) == IF loop.left = 1 THEN Idle
                  ELSE Handling(loop.node, val, loop.left - 1, FALSE)

\* handle.resume(): a noop returns, a coroutine gets result().
Resumed(h, what) ==
  fate' = [o \in Ops |-> IF o = h /\ fate[o] = "none" THEN what ELSE fate[o]]

Outcome(entry, val) == CASE val.kind = "null"         -> "null"
                         [] val.of = entry.handle      -> "reply"
                         [] OTHER                      -> "other"

Touched(h) == {h} \ {"noop"}

\* pop, and the kinds of reply; moving the value out leaves a null behind.
Handle ==
  LET n     == loop.node
      entry == Head(queue[n])
      val   == loop.val
  IN  /\ loop.phase = "handle" /\ queue[n] # <<>>
      /\ queue' = [queue EXCEPT ![n] = Tail(@)]
      /\ committed' = [committed EXCEPT ![n] = @ - 1]
      /\ batched' = IF loop.first THEN batched ELSE batched \cup Touched(entry.handle)
      /\ \/ /\ val.kind \in {"ok", "null"}
            /\ Resumed(entry.handle, Outcome(entry, val))
            /\ loop' = NextReply(Reply(val.of, "null", val.to))
            /\ UNCHANGED <<router, conn, lost>>
         \/ /\ val.kind \in {"moved", "ask"}
            /\ shard' = [shard EXCEPT ![val.to] = IF @ = "absent" THEN "init" ELSE @]
            /\ slot' = IF val.kind = "moved" THEN [slot EXCEPT ![SlotOf[val.of]] = val.to]
                       ELSE slot
            /\ loop' = Forwarding(entry)
            /\ UNCHANGED <<conn, fate, lost>>
         \/ /\ val.kind = "odd"
            /\ lost' = lost \cup Touched(entry.handle)
            /\ conn' = [conn EXCEPT ![n] = "lost"]
            /\ loop' = Idle
            /\ UNCHANGED <<router, fate>>
      /\ UNCHANGED <<open, event, pc, at, servers, bounds, created, executed, overrun>>

\* The ring after push or push_n; a push_n into the last free slot wraps onto
\* the oldest entry.
Pushed(q, new) ==
  LET all == q \o new
  IN  IF Len(all) > Capacity THEN [all EXCEPT ![1] = all[Len(all)]] ELSE all

Overwritten(q, new) ==
  IF Len(q) + Len(new) > Capacity
  THEN Touched(Head(q).handle) \cup Touched(new[Len(new)].handle) ELSE {}

\* Mutant: ASKING's reply goes to the coroutine and its own to the noop.
Redirected_Swapped == IF loop.val.kind = "ask"
                      THEN <<[AskingNoop EXCEPT !.handle = loop.entry.handle],
                             [loop.entry EXCEPT !.handle = "noop"]>>
                      ELSE <<loop.entry>>

\* What goes into the other ring: with ASK, a noop coroutine takes ASKING's reply.
Redirected == IF loop.val.kind = "ask" THEN <<AskingNoop, loop.entry>>
              ELSE <<loop.entry>>

\* Mutant: a coroutine that a full ring refused is told so and queued all the same.
Forward_NoReturn ==
  LET to == loop.val.to
  IN  /\ loop.phase = "forward" /\ shard[to] # "connecting"
      /\ shard' = [shard EXCEPT ![to] = "connected"]
      /\ created' = [created EXCEPT ![to] = IF shard[to] = "init" THEN @ + 1 ELSE @]
      /\ conn' = [conn EXCEPT ![to] = IF shard[to] = "init" THEN "connecting" ELSE @]
      /\ queue' = [queue EXCEPT ![to] = @ \o Redirected]
      /\ event' = [event EXCEPT ![to] = TRUE]
      /\ overrun' = overrun
      /\ Resumed(loop.entry.handle, Refusal(to))
      /\ loop' = NextReply(loop.val)
      /\ UNCHANGED <<slot, committed, open, pc, at, servers, bounds, executed,
                     batched, lost>>

\* Mutant: the other shard's writer is not woken.
Forward_Silent ==
  LET to == loop.val.to
  IN  /\ loop.phase = "forward" /\ shard[to] # "connecting"
      /\ shard' = [shard EXCEPT ![to] = "connected"]
      /\ created' = [created EXCEPT ![to] = IF shard[to] = "init" THEN @ + 1 ELSE @]
      /\ conn' = [conn EXCEPT ![to] = IF shard[to] = "init" THEN "connecting" ELSE @]
      /\ queue' = [queue EXCEPT ![to] = Pushed(@, Redirected)]
      /\ loop' = NextReply(loop.val)
      /\ UNCHANGED <<slot, committed, open, event, pc, at, fate, servers, bounds,
                     executed, batched, overrun, lost>>

\* try_connect on the loop's thread, then push or push_n and the eventfd; the
\* coroutine is resumed with an error when the ring refuses it.
Forward ==
  LET to == loop.val.to
  IN  /\ loop.phase = "forward" /\ shard[to] # "connecting"
      /\ shard' = [shard EXCEPT ![to] = "connected"]
      /\ created' = [created EXCEPT ![to] = IF shard[to] = "init" THEN @ + 1 ELSE @]
      /\ conn' = [conn EXCEPT ![to] = IF shard[to] = "init" THEN "connecting" ELSE @]
      /\ IF Refusal(to) = "none"
         THEN /\ queue' = [queue EXCEPT ![to] = Pushed(@, Redirected)]
              /\ overrun' = overrun \cup Overwritten(queue[to], Redirected)
              /\ event' = [event EXCEPT ![to] = TRUE]
              /\ UNCHANGED fate
         ELSE /\ Resumed(loop.entry.handle, Refusal(to))
              /\ UNCHANGED <<queue, event, overrun>>
      /\ loop' = NextReply(loop.val)
      /\ UNCHANGED <<slot, committed, open, pc, at, servers, bounds, executed,
                     batched, lost>>

(***************************************************************************)
(* The cluster and the network (external).                                 *)
(***************************************************************************)

\* A node executes a command of a slot it owns, or that is moving to it when
\* asked; while a slot moves away its keys may be here or there.
Answers(m, s, asking) ==
  CASE owner[s] = m /\ moving[s] # "none"  -> {"ok", "ask"}
    [] owner[s] = m /\ moving[s] = "none"  -> {"ok"}
    [] owner[s] # m /\ asking /\ moving[s] = m -> {"ok"}
    [] OTHER -> {"moved"} \cup IF odds < MaxOdd THEN {"odd"} ELSE {}

Serve(n) ==
  /\ conn[n] = "up" /\ srv[n] # <<>>
  /\ srv' = [srv EXCEPT ![n] = Tail(@)]
  /\ LET p == Head(srv[n])
     IN  \/ /\ p = "ASKING"
            /\ asked' = [asked EXCEPT ![n] = TRUE]
            /\ wire' = [wire EXCEPT ![n] = Append(@, Reply(p, "ok", "none"))]
            /\ UNCHANGED <<executed, odds>>
         \/ /\ p # "ASKING"
            /\ asked' = [asked EXCEPT ![n] = FALSE]
            /\ \E m \in Peers(n) : \E kind \in Answers(m, SlotOf[p], asked[n]) :
                 /\ wire' = [wire EXCEPT ![n] = Append(@, Reply(p, kind,
                               CASE kind = "ask"   -> moving[SlotOf[p]]
                                 [] kind = "moved" -> owner[SlotOf[p]]
                                 [] OTHER          -> "none"))]
                 /\ executed' = IF kind = "ok" THEN [executed EXCEPT ![p] = @ + 1]
                                ELSE executed
                 /\ odds' = IF kind = "odd" THEN odds + 1 ELSE odds
  /\ UNCHANGED <<router, rings, conn, users, loop, owner, moving, moves, losses,
                 created, batched, overrun, lost>>

StartMove(s, m) ==
  /\ moves < MaxMoves /\ moving[s] = "none" /\ owner[s] # m
  /\ moves' = moves + 1
  /\ moving' = [moving EXCEPT ![s] = m]
  /\ UNCHANGED <<router, rings, conn, users, loop, owner, asked, srv, wire,
                 losses, odds, history>>

FinishMove(s) ==
  /\ moving[s] # "none"
  /\ owner' = [owner EXCEPT ![s] = moving[s]]
  /\ moving' = [moving EXCEPT ![s] = "none"]
  /\ UNCHANGED <<router, rings, conn, users, loop, asked, srv, wire, bounds,
                 history>>

\* What the node had not read or the client not received is gone.
PeerCloses(n) ==
  /\ conn[n] = "up" /\ losses < MaxLosses
  /\ losses' = losses + 1
  /\ conn' = [conn EXCEPT ![n] = "lost"]
  /\ srv' = [srv EXCEPT ![n] = <<>>] /\ wire' = [wire EXCEPT ![n] = <<>>]
  /\ UNCHANGED <<router, rings, users, loop, owner, moving, asked, moves, odds,
                 history>>

\* Everybody has an answer, or is known to have none coming.
Finished ==
  /\ \A o \in Ops : fate[o] # "none" \/ o \in overrun \cup lost
  /\ UNCHANGED vars

User(o) == GetSlot(o) \/ TryConnect(o) \/ Create(o) \/ Launch(o) \/ Push(o)
Shard(n) == Connected(n) \/ Send(n) \/ Drain(n) \/ Reset(n) \/ Receive(n)
Node(n) == Serve(n) \/ PeerCloses(n)
Migration == \E s \in Slots : FinishMove(s) \/ \E m \in Nodes : StartMove(s, m)

Next ==
  \/ \E o \in Ops : User(o)
  \/ \E n \in Nodes : Shard(n) \/ Node(n)
  \/ Handle \/ Forward \/ Migration \/ Finished

Spec == Init /\ [][Next]_vars

\* Threads and the loop run, timers and connects end, nodes answer; nobody has
\* to begin a command, move a slot or break a connection.
Fairness ==
  /\ \A o \in Ops : WF_vars(TryConnect(o)) /\ WF_vars(Create(o))
                    /\ WF_vars(Launch(o)) /\ WF_vars(Push(o))
  /\ \A n \in Nodes : WF_vars(Shard(n)) /\ WF_vars(Serve(n))
  /\ WF_vars(Handle) /\ WF_vars(Forward)

FairSpec == Spec /\ Fairness

(***************************************************************************)
(* Properties.                                                             *)
(***************************************************************************)

\* Every variable has its type; a shard never gets a second pipe, and no ring
\* more than the one command over its capacity that push_n allows.
TypeOK ==
  /\ slot \in [Slots -> Nodes]
  /\ shard \in [Nodes -> {"absent", "init", "connecting", "connected"}]
  /\ queue \in [Nodes -> Seq(Entries)]
  /\ \A n \in Nodes : Len(queue[n]) <= Capacity + 1 /\ committed[n] \in 0..Len(queue[n])
  /\ open \in [Nodes -> BOOLEAN] /\ event \in [Nodes -> BOOLEAN]
  /\ conn \in [Nodes -> {"none", "connecting", "up", "lost", "draining"}]
  /\ pc \in [Ops -> {"new", "try", "create", "launch", "push", "pushed"}]
  /\ at \in [Ops -> Nodes]
  /\ fate \in [Ops -> {"none", "conn_err", "overflow", "reply", "other", "null"}]
  /\ loop \in [phase : {"idle", "handle", "forward"}, node : Nodes \cup {"none"},
               val : Replies, left : Nat, first : BOOLEAN, entry : Entries]
  /\ created \in [Nodes -> 0..1]

Spoiled == batched \cup overrun \cup lost

\* Where a coroutine's handle is: the places in rings, and in the loop's hands.
Holds(o, n, k) ==
  \/ k \in DOMAIN queue[n] /\ queue[n][k].handle = o
  \/ k = 0 /\ loop.phase = "forward" /\ loop.node = n /\ loop.entry.handle = o

Places(o) == {p \in Nodes \X (0..(Capacity + 1)) : Holds(o, p[1], p[2])}

\* A coroutine that waits is in exactly one place, through any number of
\* redirects, and one that has its answer or has not pushed yet is in none:
\* otherwise it is never resumed, or resumed twice.  Not claimed of a coroutine
\* whose entry a push_n into the last free slot overwrote or left out of its
\* place (overrun), nor of one the reader popped with a redirect it cannot read
\* and let go of (lost): these the code may never resume.
OneHome ==
  \A o \in Ops \ (overrun \cup lost) :
    Cardinality(Places(o)) = IF pc[o] = "pushed" /\ fate[o] = "none" THEN 1 ELSE 0

\* Nobody is resumed with another command's reply, nor with nothing, however
\* redirects shift commands between connections (but for the batch and for an
\* overrun ring).
RepliesMatch ==
  \A o \in Ops \ Spoiled : fate[o] \notin {"other", "null"}

\* A command runs at most once on all nodes together, once if its reply came,
\* and not at all if a full ring refused it, also across redirects and
\* reconnections.  Not claimed of a command that was handled as a later reply of
\* a batch (the reader follows the first reply's redirect for it, and so sends
\* again what its node has executed), nor of one overrun or lost as above.
ExecutedOnce ==
  \A o \in Ops \ Spoiled :
    /\ executed[o] <= 1
    /\ fate[o] = "reply" => executed[o] = 1
    /\ fate[o] = "overflow" => executed[o] = 0

\* A command that is begun gets an answer, however slots move and connections
\* break, unless a full ring overran it (overrun) or the reader popped it with a
\* redirect it cannot read (lost); that the latter may be left for ever is what
\* NobodyStranded shows.
EverySettles ==
  \A o \in Ops : pc[o] # "new" ~> fate[o] # "none" \/ o \in overrun \cup lost

\* A redirect never leaves a coroutine without an answer: MOVED and ASK are
\* handled within the class (README.md).  Only the overrun ring is excepted.
NobodyStranded ==
  \A o \in Ops : pc[o] # "new" ~> fate[o] # "none" \/ o \in overrun

\* Every coroutine is resumed with a reply or an error, never with the null
\* a reply leaves behind when it is moved out: what transparent routing of
\* MOVED and ASK (README.md) comes to.
AnswersArrive == \A o \in Ops : fate[o] # "null"
=============================================================================
