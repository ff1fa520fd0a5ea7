# Verification of the STOMP server and its client

TLA+ models of the Java STOMP server (`src/server`) and of its C++ client
(`src/SPL251-Assignment3-student-template/client/client`), the TLC runs that
check them on small instances, and TLAPS proofs of the main results for all
values of the constants. Paths below are relative to
`src/server/src/main/java/bgu/spl/net` unless they name a `.cpp` file.

## Inventory

| Component | State | Operations | Interacts with |
|---|---|---|---|
| `srv/connectionsImpl`, `impl/stomp/StompMessagingProtocolImpl` (the broker) | six concurrent maps (`activeClients`, `users`, `userID`, `loginID`, `SubID`, `IDchannel`), `channels` and its queues, `Terminate` of each connection | CONNECT, SUBSCRIBE, UNSUBSCRIBE, SEND, DISCONNECT, the broadcast, `addClient` | called by the threads of both servers; calls `send` of the handlers |
| `srv/ActorThreadPool` | `acts`, `playingNow`, the executor's queue | `submit`, `execute`, `complete`, `shutdown` | submitted to by the selector thread, runs the reactor's tasks |
| `srv/Reactor`, `srv/NonBlockingConnectionHandler` | selection keys and interest sets, `selectorTasks`, a `writeQueue` per connection, the shared `BUFFER_POOL` | the main loop, `handleAccept`, `continueRead`, `continueWrite`, `send`, `updateInterestedOps` | the pool, the broker, the network |
| `srv/BaseServer`, `srv/BlockingConnectionHandler` | a thread, `out`, `connected` and a monitor per connection | accept, `run`, `send` | the broker (one broadcast writes to all handlers), the network |
| `impl/stomp/StompMessageEncoderDecoderImpl` | a buffer of 1024 bytes | `decodeNextByte`, `encode` | between socket and protocol |
| `impl/echo/LineMessageEncoderDecoder`, `impl/rci/ObjectEncoderDecoder` | a growing array; a length and an array of that length | the same | the same |
| `ConnectionHandler.cpp` | the socket of a C++ client | `connect`, `sendLine`, `getLine`, `sendBytes`, `getBytes` | the client's threads, the network |
| client: `StompProtocol.cpp`, `StompClient.cpp` | `isConnected`, `subscriptionIds`, `eventsByChannel`, `protocolMutex`, `terminateProgram` | connect, join, exit, report, summary, logout; two threads | the server through one socket |
| `srv/StompMessageBuilder`, `StompMessageBuilder.cpp` | none | build frames | |
| news feed, the protocols of the RCI and echo examples | see Not modelled | | |
| `event.cpp`, `json.hpp` | none in use | | |

What is hard here: the frames of different connections interleave at every
access to a map, because only the broadcast takes a lock (the queue's
monitor); subscription bookkeeping is spread over three maps and a queue that
are written one after the other; calls fail half way with
NullPointerException; the selector thread and the pool's threads hand work to
each other through a queue and a wakeup; `submit` and `complete` decide
together who runs an actor; a publisher writes into sockets of peers that may
be gone or slow while it holds two monitors; the client's two threads each
block where the other cannot reach them.

What makes each component correct:

* broker: maps that agree with each other and with what the clients were told;
  broadcasts that neither throw, nor keep a monitor, nor reorder messages;
* pool: one task of an actor at a time, in order, none forgotten;
* reactor: no message and no wakeup lost; a main loop that goes on;
* thread-per-client server: a broadcast reaches all that are there, and no two
  threads wait for each other;
* decoders and sockets: however the bytes are cut, the messages come out whole
  and in order, and a decoder throws only on what it has no room for;
* client: both ends agree who is logged in; its subscription ids differ; each
  end gives up when the other is gone.

`PROJECT.json` lists the hazards of the code at their lines, with the
properties that cover each.

## Modules and their correspondence to the code

**StompBroker** (core). One program counter per connection, `pc[c]`: a
connection has at most one frame in process (a thread per connection, or the
serial executor). Each access to a shared map that another connection can come
between is one action; a read is folded into the step next to it only where no
other write can tell the difference (no channel is ever taken out of
`channels`, so the test, the lookup and the choice of the monitor of a SEND are
one step). `Nil` is Java's `null`, and an action whose code throws there takes
the branch `Throw`: the connection ends under the thread-per-client server,
only the frame under the reactor. Queues are bags of logins (`queues`) named by
the thread that allocates them, since two SUBSCRIBE frames can allocate one
each for a channel; a broadcast iterates with `todo`, and changes made
meanwhile may or may not be seen (`MayReflect`, the weakly consistent
iterator), also while the thread is handing a copy to a handler. `RemoveEntry`
is `Map.remove(k, v)` exactly: with the swapped arguments of `disconnect` it
removes nothing. `outbox` and `live` are history: what was given to each
connection for writing, and the subscriptions that a RECEIPT acknowledged.
`handleSend` returns the MESSAGE it has broadcast, and the connection handler
writes it to the publisher as the response, after the monitor of the queue was
given back (`Respond`); each entry of `outbox` says which of the two it is
(`copy`). A publisher that has subscribed thus gets two copies, and may get the
message of another publisher between them, so that it sees m1, m2, m1 where
another subscriber sees m1, m2: what is proved and checked about order and
about PubSub is about the broadcasts. **StompBrokerProps** states the
properties, and `CarefulSpec`, the behaviours with clients that subscribe with
an id they do not hold and unsubscribe with one they do.

**PubSub** is the promise of the whole server: a publication owes a copy to
each subscription there is when it begins, ends when each copy was given or
was lost with a member that is no longer attached, and no two publications of
a channel overlap; a subscription that comes or goes meanwhile may be served or
not. Two modules implement it. In StompBrokerProps (`Service`) the members are
logins, subscriptions are the entries of the queue of a channel, a publication
is the time a thread holds the queue's monitor, its copies left are `todo` and
the one underway, and those given are the messages of the publisher in the
outboxes. In TpcServer the members are connections, attached while
`connected`, and a copy is given when it was written to the socket, so the
promise covers the blocked and failing writes as well.

**SerialExecutor** is the promise of a pool: tasks of an actor one at a time
and in order. **ActorThreadPool** is the pool with `synchronized(act)` as a
monitor and each operation inside it a step; it implements SerialExecutor
under the mapping `runningNow`. A task that `complete` polls after
`shutdownNow` is rejected and lost; SerialExecutor allows that, as it starts
nothing after a shutdown.

**Reactor** composes the main loop, the handlers and the pool as
SerialExecutor specifies it (`Pool == INSTANCE SerialExecutor`), so the proof
that the pool implements it carries over. A message is one element of a
`writeQueue`, and only `produced - written` counts. A read leases a buffer
from `BUFFER_POOL` (`spare`) or allocates one, fills it with the number of the
chunk (`buffers`), and the task that holds it (`held`) gives it back when it
ends or throws. `RunTask` takes the path of
the exception when the key is cancelled or null; `WriteFails` leads to the
loop that never ends.

**TpcServer** refines what `Deliver` is to StompBroker under the
thread-per-client server: the write of a message with the two monitors held,
a peer with bounded room, an IOException that is caught (`DeliverFails`) or
ends the thread (`WriteFails`). `read`, `thread`, `out`, `connected` and
`open` are the fields of a handler and its thread; one channel suffices, as a
thread never holds the monitors of two queues.

**StompSession** is one run of the client against the decoder and the
protocol object of its connection. Bytes are pieces: the lines a frame starts
with, up to its first name; the pieces that the names of the command line and
of the keyboard are spelled with (`Spelling`: a word that is a command, a `^`,
text, more text than the decoder has room for); the header behind a name; line
ends; the `@` with the line ends after it. A name is one line, as `argv` and
`getline` give it. Login, passcode (`credential`) and topics are any names, the
empty one included. Which server is at the other end, the credential, and
whether the host is accepted are chosen at the start and never change.

`Process` compares the first line of a message with the commands, and the
handlers are cut down to what this session sees of them: whether the connection
gets into `loginID` (`Accepted`), whether it is taken out of `activeClients`
(`Disconnects`), what is answered (`Replies`) and whether they throw (`Fails`:
a header that is missing and is looked up in a concurrent map, the disconnect
of a connection that never logged in, a message of line ends only). A message
ends at each `^`, so a topic with a command behind a `^` has that command
recognized: the words in small letters. An exception (`Throws`) closes the
socket of a thread per client; under the reactor it drops what was read with
the chunk, any number of bytes, the last piece cut perhaps (`Tails`), and the
decoder goes on with what comes next. `torn` is history: bytes were dropped.
After that any frame of the client may stand at the start of a message.

`Respond` writes what a handler returned. `Broadcast` is a message of another
client on a channel that this login is a subscriber of, by this session or an
earlier one; it may come before the answer to the CONNECT, and its
topic may contain the words `CONNECTED` and `ERROR` that the client looks for
in every line. `Dial` is the connect of the socket. `SendConnect` aborts the
program for an empty login or passcode. `Summarize` stops the program when a
report that names the user has no description and fewer than 11 bytes: `find`
returns `npos`, `npos + 12` is 11, and `substr(11)` throws. `orderly` is
history: the user joined no topic twice and left topics last in, first out,
which is what the ids `size() + 1` need to stay distinct.

**Framing** is one direction of one connection at the level of bytes: the
write calls of a sender (`calls`, `tmp`), each taken by the socket in parts;
the bytes under way, of which a connection that breaks may lose some; reads of
any size; and one of the four decoders with its real buffer arithmetic
(`Full`, `Doubled`, `Length`). `codec` picks the pair: the client's `sendLine`
with the STOMP decoder, the STOMP encoder with `getLine`, `sendLine` with the
line decoder, the object encoder with its decoder. What is expected of each
is written without the decoders: `Stream` is what the messages become as bytes,
`AllTaken` the bytes a receiver takes for what it decoded, which must be the
beginning of what the socket took (`Seen`, without the NULs that
`getFrameAscii` drops), and each message must be `Whole`. `process` of the
STOMP server may throw on any message it is given (`ProcessThrows`); under the
reactor the rest of the chunk is then lost, which may end in the middle of the
next message. `got` counts the bytes read, `cut` and `since` what was read and
decoded when that last happened: from there on the stream is cut as before.

`MC*` modules give instances; the operators marked "mutant" are deviations
that the code could have had, and that the properties must tell from it.

## Runs

| Run | Instance | Shows |
|---|---|---|
| `broker_any` | 2 connections, 3 and 2 frames of every kind, well formed or not; 2 logins, 1 channel, 1 id; reactor | `TypeOK`, `LoginBacked`, `RoutesNeverMissing`, `IDchannelHasQueue`, `MonitorHeldByBroadcast`, `EveryFrameEnds` |
| `broker_warm` | 3 logged in connections (two of one user), 2, 2 and 1 frames, ids of their own, a channel that has a queue; `CarefulNext` | `SubscriptionRecorded`, `QueueMatchesSubscriptions`, `OrderAgreement`, and that the broker implements PubSub (`Publishes`) |
| `broker_race` | 2 clients log in and subscribe to a new channel | violates `SubscribersListed` |
| `broker_shared_ids` | the same, both with id 1 | violates `SubscriptionRecorded` |
| `pool` | 2 actors, 2 workers, 3 tasks each, shutdown at any time | `OneAtATime`, `NoStrandedTask`, `EveryTaskRuns`, and that the pool implements SerialExecutor |
| `reactor` | 2 connections, one may be closed; 1 chunk each, 1 message per chunk to either | `NoLostWrite`, `NoLostWakeup`, `ChunkIntact`, `EveryMessageWritten` |
| `reactor_dies` | the same | violates `MainLoopSurvives` |
| `tpc` | 3 connections, 2 publishers, 2 subscribers of which one may leave, room for 1 message | `OutputReady`, `PublishedToAll`, `EveryFrameAnswered`, `LeaverEnds`, and that the server implements PubSub (`Publishes`) |
| `session` | both servers, host accepted or not, six credentials, 2 commands, 1 broadcast; topics plain, with `^`, too long | `ConnectedIsLoggedIn`, `OnlyFirstHeard`, `DistinctIds`, `ClientEnds`, `ConnectReturns`, `ServerLetsGo` |
| `session_frames` | one credential, one plain topic, 2 commands | violates `FrameStartsMessage` |
| `session_logout` | the same, 2 commands | violates `LogoutEnds` |
| `framing` | four codecs, two messages of 0 to 4 bytes, room for 5, 1 and 4 bytes; the connection may break at any time | `DecodesStream`, `SentWhole`, `ThrowsOnlyOn`, `Arrives` |

Why the bounds are enough: the races of the broker are between two frames on
one key, so two connections with a shared login, id and channel meet all of
them, and the third connection of `broker_warm` is the second receiver that
order needs. Two workers and the selector are the three parties that can meet
at an actor's monitor. In `tpc` the two publishers and a subscriber are what a
circle of monitors and a cut broadcast need. In `session` the six credentials
are one that can be read, logins with a `^`, with a command behind one and of
more bytes than the decoder takes, and passcodes that are too long and empty;
two commands are two joins, a join and a report of the topic joined, or a join
and a logout, so that frames which throw and frames behind them are in one
chunk, and the summary of a channel nobody reported on goes on. That an id is
given again while another topic has one takes four commands (two joins, an exit
and a join), which is left to the theorem (`DistinctIdsAlways`). One broadcast
is enough to come before the answer or end the client, as a second finds it
connected or gone. In `framing` two messages are what a read across a boundary
needs; the messages contain the delimiter, a NUL and the length bytes of
others, some fill the decoder's room exactly and some exceed it by one, so each
branch of each decoder is taken. The capacity is scaled down from 1024 bytes:
only its comparison with the position matters. In `reactor` one chunk per
connection is enough for a buffer to be leased, given back and leased for the
other connection, before and after the tasks of both have run. What the
broker's and the pool's bounds leave open, the proofs close.

`broker_warm` starts where `broker_race` cannot happen: each login is in, and
the channel has a queue, as after one client created it and left it again. The
two violations are therefore the only ways found in which the bookkeeping goes
wrong: a race for a new channel, and an id used by two clients.

Deadlock is not checked: every instance stops when its bounds are used up, and
the client really can wait for ever.

### Fairness

Threads that can run are scheduled: weak fairness of `Process(c)`, of the
pool's threads, of the main loop, of `Run(c)`, and of the client's threads.
Nobody has to send: `Receive`, `Read`, `SubmitEnter` are not fair. The reactor
assumes strong fairness of a full write (`WriteAll`): a peer that stays reads,
so not every write is partial for ever; `tpc` assumes weak fairness of
`PeerReads` for the same reason. A peer that neither reads nor leaves blocks a
publisher of the thread-per-client server inside the monitors, and the code
has no timeout for it. In `session` the user goes on typing lines, or the
standard input has ended, which the client treats as an empty line;
`std::getline` cannot be interrupted otherwise. `framing` assumes weak fairness
of the receiver alone: it reads what is there. The sender need not send, and a
message counts only once it was reported as sent.

`ConnectReturns` is stated for the thread-per-client server, and for a reactor
that accepts the host and can read the CONNECT (`Readable`). Of the reactor its
premise excludes three cases in which nothing is answered and nothing closed,
and the client waits in `connect` for ever: a host that is refused; a login
with a `^`, which cuts the passcode off, so that the handling throws as for a
refused host; and a login or passcode with which the frame fills the decoder's
1024 bytes before its `^`.

## What the runs found

1. `handleSub` loses a subscriber when two clients create a channel at once
   (`broker_race`).
2. Subscription ids are global, while every client counts from 1
   (`broker_shared_ids`).
3. A posted change of interest for a connection closed meanwhile ends the main
   loop of the reactor (`reactor_dies`).
4. The decoder ends a message at `^` and leaves the `@` before the next frame:
   of this client's frames, the server recognizes the first CONNECT and no
   other, until an exception under the reactor drops bytes (`session_frames`).
5. After a logout the client never ends (`session_logout`).

## Proofs

**StompBrokerProofs**, for any sets of connections, logins, channels and
frames, under `KeyAssumption` (connection ids are Integers, logins and receipts
Strings) and the typing of the constants:

    IInv == TypeOK, Sound = Conn, LoginBacked, ListedRouted,
            IDchannelHasQueue, MonitorHeldByBroadcast

`Sound` says what each step of a handler knows of its locals (a login it has
found, a queue it locked); `ListedRouted` is `RoutesNeverMissing` strengthened
to the logins about to be put into a queue, which have routes because they come
from `loginID`. The argument turns on `disconnect`: its two-argument removes
compare an Integer with a String and do nothing, so `users`, `userID` and
`channels` only grow and what was once backed stays backed. With arguments in
the right order the theorem fails, as the mutant of `LoginBacked` shows. There
is one lemma per handler step; `RestInv` serves all steps that return or
throw. Theorems: `Invariant`, `TypeCorrect`, `LoginsBacked`, `RoutesExist`,
`QueuesExist`, `MonitorsReleased`.

**ActorThreadPoolProofs**, for any sets of actors and threads:

    IInv == TypeOK, InMonitor, OneCarrier, QueuedOnce, Playing, Waiting, Numbered

A turn of an actor is carried by one task in the queue or by one worker
(`OneCarrier`, `QueuedOnce`); an actor is in `playingNow` exactly when its turn
has a carrier or the selector is about to make one (`Playing`); tasks wait only
behind a carrier (`Waiting`); and done, running, queued and pending tasks are
numbered consecutively (`Numbered`), which gives the order. Theorems:
`Invariant`, `TypeCorrect`, `MutualExclusion`, `NothingStranded`, and
`Refinement`: the pool implements SerialExecutor.

**TpcServerProofs**, for any connections, frames and room:

    IInv == TypeOK, OutFirst, QueueHeld, OneCopy, Served

`OutFirst` is `OutputReady` for all that lead to it: `out` is set in the first
step of a thread, which alone can put its connection among those a broadcast
reaches. `QueueHeld` says that the holder of the queue's monitor is the one
thread inside the broadcast; `OneCopy` that a subscriber is still to be
visited, is the target or has got the message, one of the three; `Served` that
a broadcast owes whatever it has not given to those still connected. Theorems:
`Invariant`, `TypeCorrect`, `OutputSet`, `AllServed`, and `Refinement`: the
server implements PubSub, where a login subscribes, `Acquire` begins a
publication, `Deliver` gives a copy, `DeliverNot` and `DeliverFails` lose one,
`EndBroadcast` ends it, and every other step is a stutter.

**ReactorProofs**, for any connections, chunks and messages, in three layers
over the types

    IType == TypeOK, Jobs, LoopConn, Calling, OneBufferEach

`Calling` says that a peer not accepted yet has no channel and nothing in a
`writeQueue`, so that accepting it cannot lose a write; `LoopConn` that the
steps of `continueWrite` work on an accepted connection; `OneBufferEach` that
the chunks of a peer are in the socket, held by tasks, or done, which is what
makes the head of `held` the buffer of the task that ends. On them rest
`NoLostWrite`, inductive as it stands (one lemma for the steps of a task, one
for `RunTask`, one for the rest of the main loop: `Disarm` clears OP_WRITE only
of a connection that had been found drained, so a message produced since has
its change posted); `Awake`, which strengthens `NoLostWakeup` to every step
between the end of `runSelectionThreadTasks` and `select`; and `OneOwner`, that
no buffer is held or spare twice, with `ChunkIntact`. Theorems:
`TypeInvariant`, `TypeCorrect`, `WriteKept`, `WakeupKept`, `ChunkKept`. They
are about the behaviours in which the main loop may die or spin as well:
`NoLostWrite` claims nothing once it is dead.

**StompBrokerClientProofs**, on top of StompBrokerProofs, is about clients. The
bookkeeping is right only under hypotheses that `broker_race` and
`broker_shared_ids` show to be needed, so the theorems state them: `OwnIds` (no
two connections send one id) and `CarefulNext` (a client subscribes with an id
it does not hold and unsubscribes with one it does). `SubscriptionsRecorded`
starts from the empty server, with any number of frames in progress:

    IRecorded == Kept, Minded = Conn

`Kept` says what SubID and IDchannel hold for each acknowledged subscription,
with the exception that the last step of UNSUBSCRIBE makes; `Minded` that the
locals a handler has read are still what the maps say, which is what another
connection with the same id would break. `QueuesMatch` and
`WarmSubscribersListed` start from `WarmInit` for any assignment `own` of a
login to each connection that leaves no login without one, any connection that
created the channels, and any passcode:

    InWarm == IInv, IRecorded, Warm, Balanced

`Balanced` counts: the number of times a queue lists a login is that of the
acknowledged subscriptions not being taken back (`Entries`) and of the
SUBSCRIBE frames that have added theirs but not finished (`Joining`). A step
moves one subscription from one set to the other, so the proofs are about
cardinalities of sets that differ in one element. `OrderAgreed` needs no
careful client, only that each channel has its queue (`Warm`), and speaks of
the copies of broadcasts:

    IOrder == Locked, Numbered, Last, OrderAgreement

All broadcasts of a channel lock one queue (`Locked`), a message in an outbox
is one its publisher has sent (`Numbered`), and nothing follows the message of
a broadcast under way on its channel (`Last`). The response is left out of the
order on purpose: it is written outside the monitor.

**StompServiceProofs** proves `ServerPublishes`: under these hypotheses, and
for clients that have logged in before (`LoggedIn`: none sends CONNECT again),
the broker implements PubSub. The invariant `Serving` adds to `InWarm` and
`IOrder` that each login is routed to one connection of its own (`Routed`),
that no handler stops (`Settled`: `handleDisconnect` never finds the receipt it
looks up), that a broadcast iterates over the queue it locked (`Iterates`), and
that what it found is the connection of a login (`Found`). `Acquire` begins a
publication, the steps that hand over a copy or find its handler gone give or
lose it, `EndBroadcast` ends it; a change of a queue subscribes or
unsubscribes, the removal of a handler detaches, and every other step is a
stutter.

**StompSessionProofs**, for any names and their spelling, commands, broadcasts,
server and answer to the CONNECT:

    IType  == TypeOK, IsFiniteSet(Joined)
    IHeard == Greeted, LaterSent, OnlyFirstHeard,
              ~torn /\ ~overflown => InStep
    InStep == Framed, Begins until a command was heard, GoesOn after it

`Greeted` orders the login: a line with CONNECTED under way, the flag
`isConnected` and the client's threads each come after `loginID` has the
connection. Such a line need not be an answer, as a MESSAGE may contain the
word; but nobody sends one to a connection that is not logged in, and the
client itself sends nothing but its CONNECT before (`LaterSent`), which holds
across exceptions, since what is left of a stream starts no frame that was not
on it. `InStep` is why the server hears no frame after the first CONNECT as
long as nothing is dropped: whatever the client sends ends with the `@` of its
frame (`Framed`), the decoder cuts at `^`, so after the first message an `@` or
a part of a name is always ahead of the next command, in the buffer or under
way (`GoesOn`). `Numbered` says that the ids of an orderly user are distinct
and none exceeds the number of topics, which makes `size() + 1` new among the
topics subscribed at that time. Theorems: `TypeCorrect`,
`ConnectedIsLoggedInAlways`, `OnlyFirstHeardAlways`, `DistinctIdsAlways`.

**FramingProofs**, for any messages, room and number of messages, under
`FramingAssumption`: `getline` leaves no line end in a line, a serialized
object has between 1 and 2^31 - 1 bytes, the length has 4 bytes, and the array
of the line decoder is not empty, as doubling it would otherwise not make it
longer.

    IType   == TypeOK, and the number of write calls that are left
    Sending == written and Pending together are the Stream of the messages
    Reading == Flow, Shape, Inert, Ordered, ThrowsOnlyOn

`Flow` splits what was written, from the last `cut` on, into the bytes parsed,
those under way (`chunk`, `wire`) and those lost with the connection; the bytes
parsed are those taken for the messages decoded `since`, the length that has
been read (`Header`) and the buffer, and what is under way comes next in the
stream also when the socket takes more of it. `Shape` says that no delimiter is
in the buffer and each message is whole, `Inert` what state a decoder that has
thrown is left in, `Ordered` that lines and objects are a beginning of those
sent. It rests on `Length` undoing `FourBytes` up to 2^31 - 1, and on how a
stream goes on: after the bytes of the messages decoded so far, those of the
next message offered follow (`NextMessage`), and a line or an object cut from
them is that message (`LineCut`, `LengthIs`, `ObjectIs`). What `FlattenSeq`
makes of a sequence with one more element needs induction. It is proved for a
set of numbers that contains 0 and the successors of its members (`Induction`,
from the well-foundedness of < on Nat), which takes no theorem with an operator
for a parameter. Theorems: `TypeCorrect`, `SentWholeAlways`,
`DecodesStreamAlways`, `ThrowsOnlyOnAlways`.

Model-checked only: the nine liveness properties (`EveryFrameEnds`,
`EveryTaskRuns`, `EveryMessageWritten`, `EveryFrameAnswered`, `LeaverEnds`,
`ClientEnds`, `ConnectReturns`, `ServerLetsGo`, `Arrives`), since the prover
has no rules for fairness here. Every invariant and every refinement that a
passing run checks is also a theorem. What the bookkeeping theorems leave out
is what the violations show: a new channel with two creators, ids that clients
share.

## Not modelled

* `messageID` (printed into frames and read by nothing), the wording of frames,
  what `summarize` writes to its file, what `process` of the client prints, the
  command line of `main`.
* The `close` methods of the servers and of `BlockingConnectionHandler`, and
  `Reactor.close`: nobody calls them.
* The protocols of the news feed, RCI and echo examples, and with them
  `NewsFeed` and the commands. They cannot be served: `start` of their
  protocols throws, both servers call it, and the servers cast the protocol to
  an interface these do not implement. Their encoders and decoders stand alone
  and are modelled in Framing. The loop of `echoClient.cpp` keeps no state
  between `sendLine` and `getLine`, which are modelled.
* `event.cpp` is called by nothing, and `json.hpp`, which only it uses, is a
  vendored library; with its 24,640 lines it is nearly all of the C++ in the
  repository.
* A composition of client and broker. `OnlyFirstHeard` shows that the decoder
  delivers this client's frames torn, so few of them reach the maps. The broker
  is checked with every frame a client could send instead, and the session
  with what the handlers do to its own connection. Of the maps that outlive a
  connection the session knows only that other clients may publish to it.
* Topics that contain the words of a MESSAGE are modelled by the three kinds
  of lines the client tells apart; a name that contains a line end is not, as
  neither `getline` nor a command line of the usual kind gives one.

## Plan

1. Done: broker, pool with its abstraction, reactor with its buffers,
   thread-per-client server, session of the client, framing, PubSub and its two
   implementations; proofs of every invariant and refinement of the passing
   runs.
2. Proofs still worth writing: the refinement of PubSub for clients that log in
   during the run, where a login may be routed to another connection while a
   broadcast looks it up.
