------------------------------ MODULE Pipeline ------------------------------
(***************************************************************************)
(* One connection of RedisClient (include/RedisClient.hpp): the worker     *)
(* coroutine, the reader and the writer it races, the ring and the eventfd *)
(* through which user coroutines hand over commands, connect_spot with its *)
(* handshake, the parser's line buffer, and reconnection.                  *)
(*                                                                         *)
(* The worker, the reader and the writer run on one io_context, so a step  *)
(* is what one of them does between two co_awaits.  The ring is the atomic *)
(* FIFO that MPSCRing implements (and that the unshared ring is).  The     *)
(* kernel, the network and the server are external: they complete, delay   *)
(* or fail the operations awaited.                                         *)
(*                                                                         *)
(* A reply is a sequence of RESP elements (tokens).  A token announces how *)
(* many more elements belong to its frame, and the network may cut the     *)
(* stream between two tokens or inside one.                                *)
(***************************************************************************)
EXTENDS Integers, Sequences, FiniteSets

CONSTANTS
  Ops,          \* commands, each awaited once by a coroutine of its own
  Nested,       \* those of Ops the server answers with an aggregate
  Capacity,     \* xcapacity
  CommitBatch,  \* XREDIS_PIPELINE_BATCH_SIZE, iovecs per writev
  Endings,      \* how the user lets go: a subset of {"close", "destroy"}
  MaxLosses,    \* bound: connections the peer or the network breaks
  MaxFailures,  \* bound: handshakes that fail
  MaxTears      \* bound: receives that end inside a token

ASSUME OpsAssumption      == IsFiniteSet(Ops) /\ Ops \cap {"HELLO", "SELECT"} = {}
ASSUME NestedAssumption   == Nested \subseteq Ops
ASSUME CapacityAssumption == Capacity \in Nat \ {0}
ASSUME CommitAssumption   == CommitBatch \in Nat \ {0}
ASSUME EndingsAssumption  == Endings \subseteq {"close", "destroy"}
ASSUME BoundsAssumption   == {MaxLosses, MaxFailures, MaxTears} \subseteq Nat

VARIABLES
  fate,                       \* what each coroutine was resumed with
  queue, committed, open,     \* the ring: waiting commands, how many were
                              \* given to writev, and ~STOP_BIT
  signals, event,             \* eventfd writes submitted; eventfd readable
  wpc, iov,                   \* the writer, and what writev has left to send
  rpc,                        \* the reader
  linebuf, torn,              \* the parser's line buffer, and whether it ends
                              \* inside a token ("live": of this connection)
  fd, up, srv, wire,          \* the socket: our end, its peer, commands the
                              \* server has to answer, tokens on their way
  worker, first, alive, user, \* where the worker is; pipe->alive; the owner
  losses, failures, tears,    \* counters for the bounds
  accepted, executed, garbled, down  \* history, read by no action

ring    == <<queue, committed, open>>
eventfd == <<signals, event>>
writer  == <<wpc, iov>>
parser  == <<linebuf, torn>>
socket  == <<fd, up, srv, wire>>
control == <<worker, first, alive, user>>
bounds  == <<losses, failures, tears>>
history == <<accepted, executed, garbled, down>>
vars    == <<fate, ring, eventfd, writer, rpc, parser, socket, control,
             bounds, history>>

(***************************************************************************)
(* RESP elements and frames.                                               *)
(***************************************************************************)

Tok(source, kind, more) == [src |-> source, kind |-> kind, more |-> more]

Reply(o) == IF o \in Nested
            THEN <<Tok(o, "agg", 1), Tok(o, "leaf", 0)>>
            ELSE <<Tok(o, "leaf", 0)>>

\* HELLO answers a map (RESP3) or an array whose last member is an array;
\* SELECT answers +OK.  Either may answer a simple error.
HelloReply  == <<Tok("HELLO", "agg", 2), Tok("HELLO", "leaf", 0),
                 Tok("HELLO", "agg", 0)>>
SelectReply == <<Tok("SELECT", "ok", 0)>>
Error(cmd)  == <<Tok(cmd, "leaf", 0)>>

Answers(cmd) == CASE cmd = "HELLO"  -> {HelloReply, Error(cmd)}
                  [] cmd = "SELECT" -> {SelectReply, Error(cmd)}
                  [] OTHER          -> {Reply(cmd)}

\* The tokens before the first one that does not parse.
Sound(buf) ==
  LET bad == {n \in DOMAIN buf : buf[n].kind = "bad"}
  IN  IF bad = {} THEN buf
      ELSE SubSeq(buf, 1, (CHOOSE n \in bad : \A m \in bad : n <= m) - 1)

\* How many elements are still owed after n tokens, against one per frame.
Owed(buf) == LET owed[n \in 0..Len(buf)] ==
                   IF n = 0 THEN 0 ELSE owed[n - 1] + buf[n].more - 1
             IN  owed

\* A frame ends where fewer elements are owed than ever before.
FrameEnds(buf) ==
  LET owed == Owed(buf)
  IN  {n \in DOMAIN buf : \A m \in 0..(n - 1) : owed[n] < owed[m]}

Frames(buf) ==
  LET ends  == FrameEnds(buf)
      end(j) == IF j = 0 THEN 0
                ELSE CHOOSE n \in ends : Cardinality({m \in ends : m <= n}) = j
  IN  [j \in 1..Cardinality(ends) |-> SubSeq(buf, end(j - 1) + 1, end(j))]

\* Mutant: an unfinished frame is dropped with the complete ones.
Rest_Forgets(buf) == <<>>

\* What follows the complete frames: an unfinished one.
Rest(buf) ==
  LET ends == FrameEnds(buf)
      last == IF ends = {} THEN 0
              ELSE CHOOSE n \in ends : \A m \in ends : m <= n
  IN  SubSeq(buf, last + 1, Len(buf))

Drop(s, n) == SubSeq(s, n + 1, Len(s))
Take(s, n) == SubSeq(s, 1, n)

SetFate(ops, f) == fate' = [o \in Ops |-> IF o \in ops THEN f ELSE fate[o]]

Init ==
  /\ fate = [o \in Ops |-> "new"]
  /\ queue = <<>> /\ committed = 0 /\ open = TRUE
  /\ signals = 0 /\ event = FALSE
  /\ wpc = "off" /\ iov = <<>> /\ rpc = "off"
  /\ linebuf = <<>> /\ torn = "no"
  /\ fd = "closed" /\ up = FALSE /\ srv = <<>> /\ wire = <<>>
  /\ worker = "tcp" /\ first = TRUE /\ alive = FALSE /\ user = "connecting"
  /\ losses = 0 /\ failures = 0 /\ tears = 0
  /\ accepted = <<>> /\ executed = <<>> /\ garbled = FALSE /\ down = {}

(***************************************************************************)
(* The user: CommandAwaiter::await_suspend, close() and the destructor.    *)
(***************************************************************************)

\* Mutant: only the push into an empty ring signals the eventfd.
Await_SignalsOnce(o) ==
  /\ user = "connected" /\ fate[o] = "new"
  /\ open /\ Len(queue) < Capacity
  /\ queue' = Append(queue, o)
  /\ signals' = IF queue = <<>> THEN signals + 1 ELSE signals
  /\ SetFate({o}, "queued")
  /\ accepted' = Append(accepted, o)
  /\ UNCHANGED <<committed, open, event, writer, rpc, parser, socket, control,
                 bounds, executed, garbled, down>>

\* co_await redis.command(): allowed until close() (docs/API.md).
Await(o) ==
  /\ user = "connected"
  /\ fate[o] = "new"
  /\ \/ /\ ~open
        /\ SetFate({o}, "conn_err")
        /\ UNCHANGED <<queue, signals, accepted, down>>
     \/ /\ open
        /\ Len(queue) >= Capacity
        /\ SetFate({o}, "ring_overflow")
        /\ UNCHANGED <<queue, signals, accepted, down>>
     \/ /\ open
        /\ Len(queue) < Capacity
        /\ queue' = Append(queue, o)
        /\ signals' = signals + 1
        /\ SetFate({o}, "queued")
        /\ accepted' = Append(accepted, o)
        /\ down' = IF worker = "run" THEN down ELSE down \cup {o}
  /\ UNCHANGED <<committed, open, event, writer, rpc, parser, socket, control,
                 bounds, executed, garbled>>

\* The kernel executes a write of the eventfd that a push submitted.
Signal ==
  /\ signals > 0
  /\ signals' = signals - 1
  /\ event' = TRUE
  /\ UNCHANGED <<fate, ring, writer, rpc, parser, socket, control, bounds,
                 history>>

\* RedisClient::close(): ::close(fd) forgets the descriptor but does not
\* complete what io_uring already has in flight on the socket.
Close ==
  /\ "close" \in Endings
  /\ user = "connected"
  /\ user' = "gone"
  /\ alive' = FALSE
  /\ fd' = "closed"
  /\ UNCHANGED <<fate, ring, eventfd, writer, rpc, parser, up, srv, wire,
                 worker, first, bounds, history>>

\* Mutant: the destructor marks the pipe and leaves the socket alone.
Destroy_OnlyMarks ==
  /\ "destroy" \in Endings
  /\ user = "connected"
  /\ user' = "gone"
  /\ alive' = FALSE
  /\ UNCHANGED <<fate, ring, eventfd, writer, rpc, parser, socket, worker,
                 first, bounds, history>>

\* ~RedisClient(): ::shutdown(fd) ends what is in flight on the socket.
Destroy ==
  /\ "destroy" \in Endings
  /\ user = "connected"
  /\ user' = "gone"
  /\ alive' = FALSE
  /\ fd' = IF fd = "open" THEN "shut" ELSE fd
  /\ UNCHANGED <<fate, ring, eventfd, writer, rpc, parser, up, srv, wire,
                 worker, first, bounds, history>>

(***************************************************************************)
(* The server and the network (external).                                  *)
(***************************************************************************)

ServerAnswers ==
  /\ up /\ srv # <<>>
  /\ \E answer \in Answers(Head(srv)) :
       /\ Head(srv) \notin Ops /\ answer = Error(Head(srv))
            => failures < MaxFailures
       /\ wire' = wire \o answer
  /\ srv' = Tail(srv)
  /\ UNCHANGED <<fate, ring, eventfd, writer, rpc, parser, fd, up, control,
                 bounds, history>>

\* The connection breaks, wherever it is in its life; of the tokens on their way a prefix still arrives.
PeerCloses ==
  /\ up /\ losses < MaxLosses
  /\ losses' = losses + 1
  /\ up' = FALSE /\ srv' = <<>>
  /\ \E n \in 0..Len(wire) : wire' = Take(wire, n)
  /\ UNCHANGED <<fate, ring, eventfd, writer, rpc, parser, fd, control,
                 failures, tears, history>>

(***************************************************************************)
(* The parser's side of a receive: n whole tokens arrive, and possibly a   *)
(* part of the next.  What a failed connection left of a line is joined to *)
(* the first line of the next connection: the result does not parse, or    *)
(* (the remains of a simple string) it parses as something nobody sent.    *)
(***************************************************************************)

Arrives(n, tear) ==
  /\ n <= Len(wire)
  /\ n > 0 \/ (tear /\ torn # "live")
  /\ tear => n < Len(wire) /\ tears < MaxTears
  /\ tears' = IF tear THEN tears + 1 ELSE tears
  /\ wire' = Drop(wire, n)

Joins(n) == torn = "stale" /\ n > 0

Buffered(n) ==
  LET new == Take(wire, n)
  IN  {linebuf \o (IF Joins(n) THEN [new EXCEPT ![1].kind = k, ![1].more = 0]
                   ELSE new) : k \in {"bad", "leaf"}}

TornAfter(n, tear) ==
  IF tear THEN IF torn = "stale" /\ n = 0 THEN "stale" ELSE "live"
  ELSE IF n > 0 THEN "no" ELSE torn

(***************************************************************************)
(* connect_spot.                                                           *)
(***************************************************************************)

Handshaking == worker \in {"hello", "select"}

\* The parser needs more bytes: no complete frame, no unparseable line.
Waiting == Sound(linebuf) = linebuf /\ FrameEnds(linebuf) = {}

\* The TCP connection is there and HELLO and SELECT are sent in one buffer.
TcpConnects ==
  /\ worker = "tcp"
  /\ worker' = "hello"
  /\ fd' = "open" /\ up' = TRUE
  /\ srv' = <<"HELLO", "SELECT">> /\ wire' = <<>>
  /\ torn' = IF torn = "no" THEN "no" ELSE "stale"
  /\ UNCHANGED <<fate, ring, eventfd, writer, rpc, linebuf, first, alive, user,
                 bounds, history>>

\* After a failed connect_spot: client.close(), then connect() gives up and
\* the worker, unless it finds the pipe is dead, backs off.  The parser is
\* not reset.
GiveUp ==
  /\ fd' = "closed" /\ up' = FALSE /\ srv' = <<>> /\ wire' = <<>>
  /\ worker' = CASE first  -> "none"
                 [] alive  -> "backoff"
                 [] OTHER  -> "deleted"
  /\ user' = IF first THEN "failed" ELSE user

ConnectFails ==
  /\ worker = "tcp"
  /\ failures < MaxFailures \/ user = "gone"
  /\ failures' = failures + 1
  /\ GiveUp
  /\ UNCHANGED <<fate, ring, eventfd, writer, rpc, parser, first, alive,
                 losses, tears, history>>

\* A timeout or a lost connection while a handshake reply is incomplete: the
\* parser has moved pos past the elements it has, and what it has of the next
\* one stays in the line buffer.
HandshakeBreaks ==
  /\ Handshaking
  /\ Waiting
  /\ failures < MaxFailures \/ ~up \/ fd # "open"
  /\ failures' = failures + 1
  /\ linebuf' = <<>>
  /\ GiveUp
  /\ UNCHANGED <<fate, ring, eventfd, writer, rpc, torn, first, alive, losses,
                 tears, history>>

\* What was on its way may still win over a close.
HandshakeReceives ==
  /\ Handshaking
  /\ Waiting
  /\ \E n \in 0..Len(wire), tear \in BOOLEAN :
       /\ Arrives(n, tear)
       /\ linebuf' \in Buffered(n)
       /\ torn' = TornAfter(n, tear)
       /\ garbled' = (garbled \/ Joins(n))
  /\ UNCHANGED <<fate, ring, eventfd, writer, rpc, fd, up, srv, control,
                 losses, failures, accepted, executed, down>>

\* parser.parse() returns a frame: HELLO wants a map or an array.
HelloReplied ==
  LET frames == Frames(Sound(linebuf))
  IN  /\ worker = "hello"
      /\ frames # <<>>
      /\ linebuf' = Drop(linebuf, Len(frames[1]))
      /\ IF frames[1][1].kind = "agg"
         THEN /\ worker' = "select"
              /\ UNCHANGED <<socket, user, failures>>
         ELSE failures' = failures + 1 /\ GiveUp
      /\ UNCHANGED <<fate, ring, eventfd, writer, rpc, torn, first, alive,
                     losses, tears, history>>

\* SELECT wants the simple string OK.  Then connect() marks the pipe alive
\* and starts the worker; a reconnecting worker first looks whether the pipe
\* was closed meanwhile.
SelectReplied ==
  LET frames == Frames(Sound(linebuf))
  IN  /\ worker = "select"
      /\ frames # <<>>
      /\ linebuf' = Drop(linebuf, Len(frames[1]))
      /\ IF frames[1][1].kind = "ok"
         THEN /\ IF first \/ alive
                 THEN /\ worker' = "run" /\ rpc' = "parse" /\ wpc' = "event"
                      /\ UNCHANGED <<fd, up, srv, wire>>
                 ELSE /\ worker' = "deleted"
                      /\ fd' = "closed" /\ up' = FALSE
                      /\ srv' = <<>> /\ wire' = <<>>
                      /\ UNCHANGED <<rpc, wpc>>
              /\ alive' = (first \/ alive)
              /\ user' = IF first THEN "connected" ELSE user
              /\ first' = FALSE
              /\ down' = IF worker' = "run" THEN {} ELSE down
              /\ UNCHANGED failures
         ELSE /\ failures' = failures + 1
              /\ GiveUp
              /\ UNCHANGED <<rpc, wpc, alive, first, down>>
      /\ UNCHANGED <<fate, ring, eventfd, iov, torn, losses, tears, accepted,
                     executed, garbled>>

\* A complete line that does not parse fails the handshake; what follows it
\* in the line buffer stays there.
HandshakeUnparseable ==
  LET good == Sound(linebuf)
  IN  /\ Handshaking
      /\ Frames(good) = <<>> /\ good # linebuf
      /\ linebuf' = Drop(linebuf, Len(good) + 1)
      /\ failures' = failures + 1
      /\ GiveUp
      /\ UNCHANGED <<fate, ring, eventfd, writer, rpc, torn, first, alive,
                     losses, tears, history>>

\* The timer of the backoff fires.
BackoffEnds ==
  /\ worker = "backoff"
  /\ worker' = IF alive THEN "tcp" ELSE "deleted"
  /\ UNCHANGED <<fate, ring, eventfd, writer, rpc, parser, socket, first,
                 alive, user, bounds, history>>

(***************************************************************************)
(* The writer.  It is cancelled once the reader has returned: the next     *)
(* co_await then fails instead of waiting.                                 *)
(***************************************************************************)

\* Mutant: every writev starts from the oldest command of the ring.
CommitNext_Again ==
  LET num == IF Len(queue) < CommitBatch THEN Len(queue) ELSE CommitBatch
  IN  /\ committed' = num
      /\ iov' = SubSeq(queue, 1, num)
      /\ wpc' = IF rpc = "done" \/ fd = "closed" THEN "done"
                ELSE IF num = 0 THEN "event" ELSE "writev"

\* Mutant: the commands already given to writev count as room once more.
CommitNext_NoRoom ==
  LET num == IF Len(queue) < CommitBatch THEN Len(queue) ELSE CommitBatch
  IN  /\ committed' = committed + num
      /\ iov' = SubSeq(queue, 1, num)
      /\ wpc' = IF rpc = "done" \/ fd = "closed" THEN "done"
                ELSE IF num = 0 THEN "event" ELSE "writev"

\* prep_writev until the ring has nothing new, then back to the eventfd.
CommitNext ==
  LET room == Len(queue) - committed
      num  == IF room < CommitBatch THEN room ELSE CommitBatch
  IN  /\ committed' = committed + num
      /\ iov' = SubSeq(queue, committed + 1, committed + num)
      /\ wpc' = IF rpc = "done" THEN "done"
                ELSE IF num = 0 THEN "event"
                ELSE IF fd = "closed" THEN "done" ELSE "writev"

WriterWakes ==
  /\ worker = "run" /\ wpc = "event"
  /\ event
  /\ event' = FALSE
  /\ CommitNext
  /\ UNCHANGED <<fate, queue, open, signals, rpc, parser, socket, control,
                 bounds, history>>

\* writev takes the first n commands, or all of them; a peer that is gone
\* never gets them.
WriterSends ==
  /\ worker = "run" /\ wpc = "writev" /\ fd # "shut"
  /\ \E n \in 1..Len(iov) :
       /\ srv' = IF up THEN srv \o Take(iov, n) ELSE srv
       /\ executed' = IF up THEN executed \o Take(iov, n) ELSE executed
       /\ IF n = Len(iov)
          THEN CommitNext
          ELSE /\ iov' = Drop(iov, n)
               /\ wpc' = IF rpc = "done" \/ fd = "closed"
                         THEN "done" ELSE "writev"
               /\ UNCHANGED committed
  /\ UNCHANGED <<fate, queue, open, eventfd, rpc, parser, fd, up, wire,
                 control, bounds, accepted, garbled, down>>

\* Mutant: the race does not cancel the writer when the reader has returned.
WriterFails_NotCancelled ==
  /\ worker = "run"
  /\ wpc = "writev" /\ (~up \/ fd # "open")
  /\ wpc' = "done"
  /\ UNCHANGED <<fate, ring, eventfd, iov, rpc, parser, socket, control,
                 bounds, history>>

WriterFails ==
  /\ worker = "run"
  /\ \/ wpc = "writev" /\ (~up \/ fd # "open")
     \/ wpc \in {"event", "writev"} /\ rpc = "done"
  /\ wpc' = "done"
  /\ UNCHANGED <<fate, ring, eventfd, iov, rpc, parser, socket, control,
                 bounds, history>>

(***************************************************************************)
(* The reader.  Cancelled once the writer has returned.                    *)
(***************************************************************************)

\* Tokens arrive (or were there already): every complete frame is given to
\* the coroutine that is oldest in the ring.  parse takes the first,
\* try_parse_n and the next parse the others, without waiting in between.
Deliver(buf) ==
  LET frames == Frames(Sound(buf))
      n      == Len(frames)
  IN  IF n > Len(queue)
      THEN \* pop has no emptiness test: a null or stale handle is resumed
           /\ worker' = "crashed"
           /\ linebuf' = <<>>
           /\ UNCHANGED <<fate, queue, committed, rpc>>
      ELSE /\ fate' = [o \in Ops |->
                IF \E j \in 1..n : queue[j] = o
                THEN LET j == CHOOSE j \in 1..n : queue[j] = o
                     IN  IF frames[j] = Reply(o) THEN "reply" ELSE "wrong_reply"
                ELSE fate[o]]
           /\ queue' = Drop(queue, n)
           /\ committed' = IF n < committed THEN committed - n ELSE 0
           /\ linebuf' = Rest(Sound(buf))
           /\ rpc' = IF Sound(buf) # buf \/ wpc = "done" \/ fd = "closed"
                     THEN "done" ELSE "parse"
           /\ UNCHANGED worker

\* The handshake leaves no complete frame behind: the server has nothing to
\* answer but HELLO and SELECT before the writer runs.
ReaderReceives ==
  /\ worker = "run" /\ rpc = "parse"
  /\ Waiting
  /\ \E n \in 0..Len(wire), tear \in BOOLEAN :
       /\ Arrives(n, tear)
       /\ torn' = TornAfter(n, tear)
       /\ garbled' = (garbled \/ Joins(n))
       /\ \E buf \in Buffered(n) : Deliver(buf)
  /\ UNCHANGED <<open, eventfd, writer, fd, up, srv, first, alive, user,
                 losses, failures, accepted, executed, down>>

\* recv fails or returns 0: the peer is gone, the socket was shut down, or
\* the writer has returned.
ReaderFails ==
  /\ worker = "run" /\ rpc = "parse"
  /\ ~up \/ fd = "shut" \/ wpc = "done"
  /\ rpc' = "done"
  /\ UNCHANGED <<fate, ring, eventfd, writer, parser, socket, control, bounds,
                 history>>

(***************************************************************************)
(* The worker, once the race of reader and writer is over.                 *)
(***************************************************************************)

\* Mutant: the race is over as soon as the reader has returned.
RaceEnds_ReaderOnly ==
  /\ worker = "run"
  /\ rpc = "done"
  /\ worker' = IF alive THEN "drain" ELSE "last_drain"
  /\ open' = FALSE
  /\ UNCHANGED <<fate, queue, committed, eventfd, writer, rpc, parser, socket,
                 first, alive, user, bounds, history>>

\* The worker looks at alive once, before it drains.
RaceEnds ==
  /\ worker = "run"
  /\ rpc = "done" /\ wpc = "done"
  /\ worker' = IF alive THEN "drain" ELSE "last_drain"
  /\ open' = FALSE
  /\ UNCHANGED <<fate, queue, committed, eventfd, writer, rpc, parser, socket,
                 first, alive, user, bounds, history>>

\* Mutant: the drain resumes whoever was ever accepted.
DrainResumes_Everybody ==
  /\ worker \in {"drain", "last_drain"}
  /\ queue # <<>>
  /\ SetFate({accepted[k] : k \in DOMAIN accepted}, "conn_err")
  /\ queue' = <<>>
  /\ UNCHANGED <<committed, open, eventfd, writer, rpc, parser, socket,
                 control, bounds, history>>

\* ring.drain() resumes the oldest waiting coroutine with CONN ERR.
DrainResumes ==
  /\ worker \in {"drain", "last_drain"}
  /\ queue # <<>>
  /\ SetFate({Head(queue)}, "conn_err")
  /\ queue' = Tail(queue)
  /\ UNCHANGED <<committed, open, eventfd, writer, rpc, parser, socket,
                 control, bounds, history>>

\* Mutant: the pipe is deleted without a drain.
DrainDeletes_AtOnce ==
  /\ worker = "last_drain"
  /\ worker' = "deleted"
  /\ fd' = "closed" /\ up' = FALSE /\ srv' = <<>> /\ wire' = <<>>
  /\ UNCHANGED <<fate, ring, eventfd, writer, rpc, parser, first, alive, user,
                 bounds, history>>

\* The pipe was closed: it is deleted.
DrainDeletes ==
  /\ worker = "last_drain"
  /\ queue = <<>>
  /\ worker' = "deleted"
  /\ fd' = "closed" /\ up' = FALSE /\ srv' = <<>> /\ wire' = <<>>
  /\ UNCHANGED <<fate, ring, eventfd, writer, rpc, parser, first, alive, user,
                 bounds, history>>

\* Otherwise: client.close(), parser.reset(), empty the eventfd,
\* ring.reset(), and connect again.
DrainReconnects ==
  /\ worker = "drain"
  /\ queue = <<>>
  /\ worker' = "tcp"
  /\ fd' = "closed" /\ up' = FALSE /\ srv' = <<>> /\ wire' = <<>>
  /\ linebuf' = <<>> /\ torn' = "no"
  /\ event' = FALSE
  /\ committed' = 0 /\ open' = TRUE
  /\ wpc' = "off" /\ iov' = <<>> /\ rpc' = "off"
  /\ UNCHANGED <<fate, queue, signals, first, alive, user, bounds, history>>

\* Nothing is left to do: the pipe is gone, or every command was resolved
\* and the connection is idle, or it was closed while it was idle.
Finished ==
  /\ \/ worker \in {"none", "deleted", "crashed"}
     \/ /\ worker = "run"
        /\ queue = <<>>
        /\ user = "gone" \/ \A o \in Ops : fate[o] # "new"
  /\ UNCHANGED vars

ConnectSpot == \/ TcpConnects \/ ConnectFails \/ HandshakeBreaks
               \/ HandshakeReceives \/ HelloReplied \/ SelectReplied
               \/ HandshakeUnparseable \/ BackoffEnds
Writer == WriterWakes \/ WriterSends \/ WriterFails
Reader == ReaderReceives \/ ReaderFails
Worker == RaceEnds \/ DrainResumes \/ DrainDeletes \/ DrainReconnects

Next ==
  \/ \E o \in Ops : Await(o)
  \/ Signal \/ Close \/ Destroy
  \/ ServerAnswers \/ PeerCloses
  \/ ConnectSpot \/ Writer \/ Reader \/ Worker
  \/ Finished

Spec == Init /\ [][Next]_vars
(***************************************************************************)
(* Fairness: the kernel, the io_context and the server together do not     *)
(* stop while one of them has something to do: operations complete, timers *)
(* fire, the loop runs every coroutine whose operation is complete, and    *)
(* the server answers what it received.  Each of them has finitely much to *)
(* do for the commands there are, so nothing is assumed of any one of      *)
(* them.  Failures are bounded: in the end connecting works.  Nothing      *)
(* makes a user await or let go, or a connection break.                    *)
(***************************************************************************)
System == \/ Signal \/ ServerAnswers
          \/ ConnectSpot \/ Writer \/ Reader \/ Worker

FairSpec == Spec /\ WF_vars(System)

(***************************************************************************)
(* Properties.                                                             *)
(***************************************************************************)

Token == [src : Ops \cup {"HELLO", "SELECT"},
          kind : {"agg", "leaf", "ok", "bad"}, more : 0..2]

TypeOK ==
  /\ fate \in [Ops -> {"new", "queued", "reply", "wrong_reply", "conn_err",
                       "ring_overflow"}]
  /\ queue \in Seq(Ops) /\ committed \in 0..Capacity /\ open \in BOOLEAN
  /\ signals \in 0..Cardinality(Ops) /\ event \in BOOLEAN
  /\ wpc \in {"off", "event", "writev", "done"} /\ iov \in Seq(Ops)
  /\ rpc \in {"off", "parse", "done"}
  /\ linebuf \in Seq(Token) /\ torn \in {"no", "live", "stale"}
  /\ fd \in {"open", "closed", "shut"} /\ up \in BOOLEAN
  /\ srv \in Seq(Ops \cup {"HELLO", "SELECT"}) /\ wire \in Seq(Token)
  /\ worker \in {"none", "tcp", "hello", "select", "run", "drain", "last_drain",
                 "backoff", "deleted", "crashed"}
  /\ first \in BOOLEAN /\ alive \in BOOLEAN
  /\ user \in {"connecting", "connected", "failed", "gone"}
  /\ losses \in 0..MaxLosses /\ failures \in Nat /\ tears \in 0..MaxTears
  /\ accepted \in Seq(Ops) /\ executed \in Seq(Ops)
  /\ garbled \in BOOLEAN /\ down \subseteq Ops

Elems(s) == {s[k] : k \in DOMAIN s}

\* Every coroutine is given the whole reply to its own command, across every
\* reconnection and however the network cuts the stream, and pop never meets
\* an empty ring - unless the remains of a failed handshake were joined to
\* the replies of a later one (garbled).
RepliesMatch ==
  ~garbled => /\ \A o \in Ops : fate[o] # "wrong_reply"
              /\ worker # "crashed"

\* A coroutine that got an answer gets no second one.
SettledOnce ==
  [][\A o \in Ops : fate[o] \notin {"new", "queued"} => fate'[o] = fate[o]]_vars

\* writev reads its payloads out of the frames of suspended coroutines: those
\* of the commands it still has to send have not been resumed.
PayloadsAlive == ~garbled /\ wpc = "writev" => \A k \in DOMAIN iov : fate[iov[k]] = "queued"

\* The server receives commands in the order they were accepted and none
\* twice, reconnections included: a command is never sent again.
IndexOf(s, o) == CHOOSE k \in DOMAIN s : s[k] = o
SentOnceInOrder ==
  \A i, j \in DOMAIN executed : i < j =>
    IndexOf(accepted, executed[i]) < IndexOf(accepted, executed[j])

\* No accepted command waits for a wakeup that will not come: while the
\* writer sleeps, the eventfd is readable or about to be.
NoLostWakeup ==
  wpc = "event" /\ committed < Len(queue) => event \/ signals > 0

\* Deleting the pipe abandons no coroutine, but for those whose commands
\* were accepted since its connection was lost.
DeletedAfterDrain == worker = "deleted" => Elems(queue) \subseteq down

\* A command the ring accepted is answered: by the server, or by CONN ERR when
\* the connection breaks or the owner lets go.  Excepted are replies that are
\* out of step, and commands accepted while the connection was down if the
\* owner lets go before it is up.
EveryCommandSettles ==
  \A o \in Ops : fate[o] = "queued" ~>
    fate[o] # "queued" \/ garbled \/ (user = "gone" /\ o \in down)

\* Once the owner lets go, by close() or by the destructor and wherever the
\* worker is, the worker ends and the io_context can return.  Excepted are
\* replies that are out of step, and a close() while no command waits: it
\* leaves the receive in flight and the eventfd silent (see ClosingEnds).
LettingGoEnds ==
  user = "gone" ~> \/ worker = "deleted" \/ garbled
                   \/ fd = "closed" /\ worker = "run" /\ queue = <<>>

\* What docs/API.md says of close(), that it shuts the pipeline down exactly as
\* the destructor does, without that exception: the code does not keep it.
ClosingEnds == user = "gone" ~> worker = "deleted" \/ garbled
=============================================================================
