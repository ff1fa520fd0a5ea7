------------------------------- MODULE Reactor -------------------------------
(***************************************************************************)
(* The reactor server: the selector thread of Reactor.serve, the           *)
(* NonBlockingConnectionHandler of each connection, and the tasks that     *)
(* process what was read, run by the thread pool that SerialExecutor       *)
(* specifies.  A task writes to its own connection (the response) and, by  *)
(* a broadcast, to others; it never touches a key, but posts the change of *)
(* the interest set to the selector thread and wakes it up.                *)
(*                                                                         *)
(* A message is one element of a writeQueue; only how many there are is    *)
(* kept: produced - written.  What is read into a buffer is the number of  *)
(* a chunk; the task made of it decodes what the buffer holds when it runs. *)
(***************************************************************************)
EXTENDS Naturals, Sequences

CONSTANTS Conn,
          Closers,   \* the connections whose peer may close them
          MaxReads,  \* bound: chunks of bytes each peer sends
          MaxOut,    \* bound: messages the processing of one chunk produces
          None

ASSUME ReactorAssumption == /\ Closers \subseteq Conn /\ None \notin Conn
                            /\ MaxReads \in [Conn -> Nat] /\ MaxOut \in Nat

VARIABLES
  peer,           \* the other end: "calling", "there" or "left"
  arrived,        \* chunks in the socket, not read yet
  sent,           \* chunks the peer sent so far
  chan,           \* the channel: "none", "open" or "closed"
  key,            \* its selection key: "none", "valid", "cancelled" or "gone"
  interest,       \* the interest set of the key
  produced,       \* messages put into the writeQueue so far
  written,        \* messages written and taken out of it so far
  terminate,      \* protocol.shouldTerminate()
  selectorTasks,  \* posted changes of interest: the connection and the key
  wake,           \* a wakeup that select has not consumed
  selected,       \* what the current round of the main loop still handles
  loop,           \* where the selector thread is: the step and the connection
  job,            \* the running task of each connection: step, target, output
  buffers,        \* what each buffer allocated so far holds: a chunk, or None
  spare,          \* BUFFER_POOL
  held,           \* the buffers of the tasks of a connection, in order
  submitted, running, done, down  \* the pool: see SerialExecutor

Pool == INSTANCE SerialExecutor WITH Act <- Conn

net == <<peer, arrived, sent>>
channels == <<chan, key>>
queues == <<produced, written, terminate>>
posts == <<selectorTasks, wake>>
bufs == <<buffers, spare, held>>
pool == <<submitted, running, done, down>>
vars == <<net, channels, interest, queues, posts, selected, loop, job, bufs, pool>>

Idle == [pc |-> "run", to |-> None, out |-> 0]

Init ==
  /\ peer = [c \in Conn |-> "calling"]
  /\ arrived = [c \in Conn |-> 0]
  /\ sent = [c \in Conn |-> 0]
  /\ chan = [c \in Conn |-> "none"]
  /\ key = [c \in Conn |-> "none"]
  /\ interest = [c \in Conn |-> {}]
  /\ produced = [c \in Conn |-> 0]
  /\ written = [c \in Conn |-> 0]
  /\ terminate = [c \in Conn |-> FALSE]
  /\ selectorTasks = << >>
  /\ wake = FALSE
  /\ selected = {}
  /\ loop = [pc |-> "select", conn |-> None]
  /\ job = [c \in Conn |-> Idle]
  /\ buffers = << >> /\ spare = << >> /\ held = [c \in Conn |-> << >>]
  /\ Pool!Init

-----------------------------------------------------------------------------
(* The peers                                                               *)

PeerSends(c) ==
  /\ peer[c] = "there" /\ sent[c] < MaxReads[c]
  /\ sent' = [sent EXCEPT ![c] = @ + 1]
  /\ arrived' = [arrived EXCEPT ![c] = @ + 1]
  /\ UNCHANGED <<peer, channels, interest, queues, posts, selected, loop, job,
                 bufs, pool>>

PeerLeaves(c) ==
  /\ c \in Closers /\ peer[c] = "there"
  /\ peer' = [peer EXCEPT ![c] = "left"]
  /\ UNCHANGED <<arrived, sent, channels, interest, queues, posts, selected,
                 loop, job, bufs, pool>>

-----------------------------------------------------------------------------
(* A task of connection c, on a thread of the pool                         *)

Start(c) ==
  /\ Pool!Start(c)
  /\ job' = [job EXCEPT ![c] = Idle]
  /\ UNCHANGED <<net, channels, interest, queues, posts, selected, loop, bufs>>

(* writeQueue.add: the response to c itself, after which the protocol of c *)
(* may want to terminate, or send to another connection, which ignores the *)
(* message once its own protocol does.                                     *)
Produce(c, t) ==
  /\ running[c] # 0 /\ job[c].pc = "run" /\ job[c].out < MaxOut
  /\ chan[t] # "none" /\ (t # c => ~terminate[t])
  /\ produced' = [produced EXCEPT ![t] = @ + 1]
  /\ \E last \in {FALSE, t = c} :
       terminate' = [terminate EXCEPT ![c] = @ \/ last]
  /\ job' = [job EXCEPT ![c] = [pc |-> "post", to |-> t, out |-> @.out + 1]]
  /\ UNCHANGED <<net, channels, interest, written, posts, selected, loop, bufs, pool>>

(* updateInterestedOps off the selector thread: the key is looked up now,  *)
(* its interest set is changed when the selector thread runs the task.     *)
KeyFor(t) == IF key[t] \in {"valid", "cancelled"} THEN "key" ELSE "null"

(* Mutant: nothing is posted when the key already waits for OP_WRITE.      *)
PostIfUnarmed(c) ==
  /\ job[c].pc = "post"
  /\ selectorTasks' = IF "write" \in interest[job[c].to] THEN selectorTasks
                      ELSE Append(selectorTasks, [conn |-> job[c].to,
                                                  key |-> KeyFor(job[c].to)])
  /\ job' = [job EXCEPT ![c].pc = "wakeup"]
  /\ UNCHANGED <<net, channels, interest, queues, wake, selected, loop, bufs, pool>>

Post(c) ==
  /\ job[c].pc = "post"
  /\ selectorTasks' = Append(selectorTasks,
                             [conn |-> job[c].to, key |-> KeyFor(job[c].to)])
  /\ job' = [job EXCEPT ![c].pc = "wakeup"]
  /\ UNCHANGED <<net, channels, interest, queues, wake, selected, loop, bufs, pool>>

(* Mutant: nobody calls selector.wakeup().                                 *)
NoWakeup(c) ==
  /\ job[c].pc = "wakeup"
  /\ job' = [job EXCEPT ![c].pc = "run", ![c].to = None]
  /\ UNCHANGED <<net, channels, interest, queues, posts, selected, loop, bufs, pool>>

Wakeup(c) ==
  /\ job[c].pc = "wakeup"
  /\ wake' = TRUE
  /\ job' = [job EXCEPT ![c].pc = "run", ![c].to = None]
  /\ UNCHANGED <<net, channels, interest, queues, selectorTasks, selected, loop,
                 bufs, pool>>

(* The task returns, or the processing of a message throws.                *)
Finish(c) ==
  /\ job[c].pc = "run"
  /\ Pool!Finish(c)
  /\ spare' = Append(spare, Head(held[c]))
  /\ held' = [held EXCEPT ![c] = Tail(@)]
  /\ UNCHANGED <<net, channels, interest, queues, posts, selected, loop, job,
                 buffers>>

-----------------------------------------------------------------------------
(* The selector thread                                                     *)

LoopAt(l, c) == loop' = [pc |-> l, conn |-> c]

HasInput(c) == arrived[c] > 0 \/ peer[c] = "left"

Ready == {s \in Conn \X {"read", "write"} :
            LET c == s[1] IN
            key[c] = "valid" /\ s[2] \in interest[c] /\ (s[2] = "read" => HasInput(c))}

(* select() blocks until a channel is ready or wakeup was called; it takes *)
(* cancelled keys out of the selector.                                     *)
Select ==
  /\ loop.pc = "select"
  /\ LET calls == {<<c, "accept">> : c \in {d \in Conn : peer[d] = "calling"}} IN
       /\ wake \/ Ready # {} \/ calls # {}
       /\ selected' = Ready \cup calls
  /\ wake' = FALSE
  /\ key' = [c \in Conn |-> IF key[c] = "cancelled" THEN "gone" ELSE key[c]]
  /\ LoopAt("tasks", None)
  /\ UNCHANGED <<net, chan, interest, queues, selectorTasks, job, bufs, pool>>

(* runSelectionThreadTasks: interestOps throws when the key is null or     *)
(* cancelled, and nothing in serve catches it.                             *)
RunTask ==
  /\ loop.pc = "tasks" /\ selectorTasks # << >>
  /\ selectorTasks' = Tail(selectorTasks)
  /\ LET t == Head(selectorTasks) IN
       IF t.key = "key" /\ key[t.conn] = "valid"
       THEN /\ interest' = [interest EXCEPT ![t.conn] = {"read", "write"}]
            /\ UNCHANGED loop
       ELSE LoopAt("dead", None) /\ UNCHANGED interest
  /\ UNCHANGED <<net, channels, queues, wake, selected, job, bufs, pool>>

TasksDone ==
  /\ loop.pc = "tasks" /\ selectorTasks = << >>
  /\ LoopAt("keys", None)
  /\ UNCHANGED <<net, channels, interest, queues, posts, selected, job, bufs, pool>>

(* One accept a round; the listening key is ready again while others call. *)
HandleAccept(c) ==
  /\ loop.pc = "keys" /\ <<c, "accept">> \in selected
  /\ selected' = {s \in selected : s[2] # "accept"}
  /\ peer' = [peer EXCEPT ![c] = "there"]
  /\ chan' = [chan EXCEPT ![c] = "open"]
  /\ key' = [key EXCEPT ![c] = "valid"]
  /\ interest' = [interest EXCEPT ![c] = {"read"}]
  /\ UNCHANGED <<arrived, sent, queues, posts, loop, job, bufs, pool>>

(* chan.close() cancels the key.                                           *)
CloseChannel(c) == /\ chan' = [chan EXCEPT ![c] = "closed"]
                   /\ key' = [key EXCEPT ![c] = "cancelled"]

(* A key that is not valid any more is passed over.                        *)
SkipKey(c, op) ==
  /\ loop.pc = "keys" /\ <<c, op>> \in selected /\ op # "accept"
  /\ key[c] # "valid"
  /\ selected' = selected \ {<<c, op>>}
  /\ UNCHANGED <<net, channels, interest, queues, posts, loop, job, bufs, pool>>

(* leaseBuffer: polled from the pool, or allocated when it is empty.       *)
Leased == IF spare = << >> THEN Len(buffers) + 1 ELSE Head(spare)

(* Mutant: continueRead gives the buffer back, whatever it has read.       *)
GivenBack == Append(IF spare = << >> THEN << >> ELSE Tail(spare), Leased)

Polled == IF spare = << >> THEN << >> ELSE Tail(spare)
ReadInto(b, what) == buffers' = IF b \in DOMAIN buffers
                                THEN [buffers EXCEPT ![b] = what]
                                ELSE Append(buffers, what)

(* Bytes become a task that holds the buffer; the end of the stream or a   *)
(* failed read gives it back and closes.                                   *)
ContinueRead(c) ==
  /\ loop.pc = "keys" /\ <<c, "read">> \in selected /\ key[c] = "valid"
  /\ selected' = selected \ {<<c, "read">>}
  /\ \/ /\ arrived[c] > 0
        /\ arrived' = [arrived EXCEPT ![c] = @ - 1]
        /\ Pool!Submit(c)
        /\ ReadInto(Leased, [conn |-> c, chunk |-> sent[c] - arrived'[c]])
        /\ spare' = Polled
        /\ held' = [held EXCEPT ![c] = Append(@, Leased)]
        /\ UNCHANGED channels
     \/ /\ peer[c] = "left"
        /\ CloseChannel(c)
        /\ buffers' = IF spare = << >> THEN Append(buffers, None) ELSE buffers
        /\ spare' = Append(Polled, Leased)
        /\ UNCHANGED <<arrived, held, pool>>
  /\ UNCHANGED <<peer, sent, interest, queues, posts, loop, job>>

(* continueWrite, after continueRead of the same key.                      *)
ContinueWrite(c) ==
  /\ loop.pc = "keys" /\ <<c, "write">> \in selected /\ <<c, "read">> \notin selected
  /\ key[c] = "valid"
  /\ selected' = selected \ {<<c, "write">>}
  /\ LoopAt("write", c)
  /\ UNCHANGED <<net, channels, interest, queues, posts, job, bufs, pool>>

NothingYet(c) == produced[c] = 0  \* mutant: counts what was produced only
Drained(c) == produced[c] = written[c]

(* One turn of the while loop that finds a message: written in full, in    *)
(* part, or not at all.  A failed write closes the channel, the message    *)
(* stays, and every further turn fails the same way.                       *)
WriteAll ==
  LET c == loop.conn IN
  /\ loop.pc = "write" /\ ~Drained(c)
  /\ written' = [written EXCEPT ![c] = @ + 1]
  /\ UNCHANGED <<net, channels, interest, produced, terminate, posts, selected,
                 loop, job, bufs, pool>>

WritePart ==
  /\ loop.pc = "write" /\ ~Drained(loop.conn)
  /\ LoopAt("keys", None)
  /\ UNCHANGED <<net, channels, interest, queues, posts, selected, job, bufs, pool>>

WriteFails ==
  /\ loop.pc = "write" /\ ~Drained(loop.conn)
  /\ peer[loop.conn] = "left"
  /\ CloseChannel(loop.conn)
  /\ LoopAt("spin", loop.conn)
  /\ UNCHANGED <<net, interest, queues, posts, selected, job, bufs, pool>>

(* The loop ends on an empty queue, which is then tested once more.        *)
WriteEmpty ==
  /\ loop.pc = "write" /\ Drained(loop.conn)
  /\ LoopAt("written", loop.conn)
  /\ UNCHANGED <<net, channels, interest, queues, posts, selected, job, bufs, pool>>

WriteEnd ==
  /\ loop.pc = "written"
  /\ LET c == loop.conn IN
       IF Drained(c) /\ terminate[c]
       THEN CloseChannel(c) /\ LoopAt("keys", None)
       ELSE /\ IF Drained(c) THEN LoopAt("disarm", c) ELSE LoopAt("keys", None)
            /\ UNCHANGED channels
  /\ UNCHANGED <<net, interest, queues, posts, selected, job, bufs, pool>>

(* updateInterestedOps(chan, OP_READ) on the selector thread.              *)
Disarm ==
  /\ loop.pc = "disarm"
  /\ interest' = [interest EXCEPT ![loop.conn] = {"read"}]
  /\ LoopAt("keys", None)
  /\ UNCHANGED <<net, channels, queues, posts, selected, job, bufs, pool>>

KeysDone ==
  /\ loop.pc = "keys" /\ selected = {}
  /\ LoopAt("select", None)
  /\ UNCHANGED <<net, channels, interest, queues, posts, selected, job, bufs, pool>>

-----------------------------------------------------------------------------
Peer(c) == PeerSends(c) \/ PeerLeaves(c)
Task(c) == \/ Start(c) \/ (\E t \in Conn : Produce(c, t)) \/ Post(c) \/ Wakeup(c)
           \/ Finish(c)
MainLoop == \/ Select \/ RunTask \/ TasksDone
            \/ \E c \in Conn : \/ HandleAccept(c) \/ ContinueRead(c) \/ ContinueWrite(c)
                               \/ \E op \in {"read", "write"} : SkipKey(c, op)
            \/ WriteAll \/ WritePart \/ WriteFails \/ WriteEmpty \/ WriteEnd \/ Disarm
            \/ KeysDone

Next == (\E c \in Conn : Peer(c) \/ Task(c)) \/ MainLoop

(* The threads run, and a peer that stays reads what is sent to it: a      *)
(* message is not written in part for ever.                                *)
Fairness == /\ WF_vars(MainLoop)
            /\ \A c \in Conn : /\ WF_vars(Task(c))
                               /\ SF_vars(WriteAll /\ loop.conn = c)

Spec == Init /\ [][Next]_vars /\ Fairness

-----------------------------------------------------------------------------
Op == {"read", "write"}

TypeOK ==
  /\ peer \in [Conn -> {"calling", "there", "left"}]
  /\ arrived \in [Conn -> Nat]
  /\ sent \in [Conn -> Nat]
  /\ chan \in [Conn -> {"none", "open", "closed"}]
  /\ key \in [Conn -> {"none", "valid", "cancelled", "gone"}]
  /\ interest \in [Conn -> SUBSET Op]
  /\ produced \in [Conn -> Nat]
  /\ written \in [Conn -> Nat] /\ \A c \in Conn : written[c] <= produced[c]
  /\ terminate \in [Conn -> BOOLEAN]
  /\ selectorTasks \in Seq([conn : Conn, key : {"key", "null"}])
  /\ wake \in BOOLEAN
  /\ selected \subseteq Conn \X (Op \cup {"accept"})
  /\ loop \in [pc : {"select", "tasks", "keys", "write", "written", "disarm",
                     "spin", "dead"},
               conn : Conn \cup {None}]
  /\ job \in [Conn -> [pc : {"run", "post", "wakeup"}, to : Conn \cup {None},
                       out : Nat]]
  /\ buffers \in Seq([conn : Conn, chunk : Nat] \cup {None})
  /\ spare \in Seq(DOMAIN buffers)
  /\ held \in [Conn -> Seq(DOMAIN buffers)]
  /\ submitted \in [Conn -> Nat]
  /\ running \in [Conn -> Nat]
  /\ done \in [Conn -> Nat]
  /\ down \in BOOLEAN

Posted(c) == \/ \E i \in DOMAIN selectorTasks : selectorTasks[i].conn = c
             \/ \E d \in Conn : job[d].pc = "post" /\ job[d].to = c
Armed(c) == "write" \in interest[c] /\ ~ (loop.pc = "disarm" /\ loop.conn = c)

(* A message in the writeQueue of an open channel is not forgotten: the    *)
(* key waits for OP_WRITE and the selector thread is not about to clear    *)
(* it, or a task that sets it is posted or about to be.                    *)
NoLostWrite ==
  \A c \in Conn : chan[c] = "open" /\ ~Drained(c) /\ loop.pc # "dead" =>
    Armed(c) \/ Posted(c)

(* The selector thread does not block in select with a task posted: the    *)
(* wakeup is pending or the thread that posted it is about to call it.     *)
NoLostWakeup ==
  loop.pc = "select" /\ selectorTasks # << >> =>
    wake \/ \E c \in Conn : job[c].pc = "wakeup"

(* The bytes a task decodes, when it runs at last, are those that were read *)
(* for it: task n of a connection has chunk n, although buffers go from    *)
(* task to task and the selector thread goes on reading into others.       *)
ChunkIntact ==
  \A c \in Conn : \A i \in DOMAIN held[c] :
    buffers[held[c][i]] = [conn |-> c, chunk |-> done[c] + i]

LoopAlive == loop.pc \notin {"dead", "spin"}

(* Every message for a connection that stays open is written in the end,   *)
(* as long as the main loop goes round.                                    *)
EveryMessageWritten ==
  \A c \in Conn :
    ~Drained(c) ~> (Drained(c) \/ chan[c] = "closed" \/ ~LoopAlive)

(* The main loop goes on whatever the peers do.                            *)
MainLoopSurvives == loop.pc # "dead"

=============================================================================
