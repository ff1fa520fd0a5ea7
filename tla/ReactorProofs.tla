---------------------------- MODULE ReactorProofs ----------------------------
(***************************************************************************)
(* Proofs about Reactor, for any connections, bounds and messages: its     *)
(* type invariant, that no message is left behind in a writeQueue, that no *)
(* wakeup is lost, and that a task decodes the chunk that was read for it. *)
(***************************************************************************)
EXTENDS Reactor, SequenceTheorems, TLAPS

(* A task is inside a step of its own only while it runs.                  *)
Jobs == \A c \in Conn : job[c].pc # "run" => running[c] # 0 /\ job[c].to \in Conn

(* The steps of continueWrite have a connection that was accepted.         *)
LoopConn == loop.pc \in {"write", "written", "disarm"} =>
              loop.conn \in Conn /\ peer[loop.conn] # "calling"

(* A peer that calls has no channel and no key, and one without them has   *)
(* nothing in its writeQueue.                                              *)
Calling ==
  /\ \A c \in Conn : peer[c] = "calling" => chan[c] = "none" /\ key[c] = "none"
  /\ \A c \in Conn : <<c, "accept">> \in selected => peer[c] = "calling"
  /\ \A c \in Conn : chan[c] = "none" => Drained(c)

(* The tasks of a connection that were submitted and have not ended hold   *)
(* one buffer each.                                                        *)
OneBufferEach ==
  \A c \in Conn : /\ submitted[c] + arrived[c] = sent[c]
                  /\ done[c] + Len(held[c]) = submitted[c]
                  /\ running[c] \in {0, done[c] + 1}
                  /\ running[c] # 0 => done[c] < submitted[c]

IType == TypeOK /\ Jobs /\ LoopConn /\ Calling /\ OneBufferEach

(* From the end of its tasks to the next select, the selector thread does  *)
(* not take a wakeup.                                                      *)
Awake ==
  loop.pc \notin {"tasks", "dead"} /\ selectorTasks # << >> =>
    wake \/ \E c \in Conn : job[c].pc = "wakeup"

(* No buffer is held or spare twice.                                       *)
OneOwner ==
  /\ \A i, j \in DOMAIN spare : spare[i] = spare[j] => i = j
  /\ \A c, d \in Conn : \A i \in DOMAIN held[c], j \in DOMAIN held[d] :
       held[c][i] = held[d][j] => c = d /\ i = j
  /\ \A c \in Conn : \A i \in DOMAIN held[c], j \in DOMAIN spare : held[c][i] # spare[j]

IBuffers == OneOwner /\ ChunkIntact

-----------------------------------------------------------------------------
JobRec == [pc : {"run", "post", "wakeup"}, to : Conn \cup {None}, out : Nat]

(* The parts of the type invariant, by kind.                               *)
LEMMA Counters ==
  ASSUME TypeOK
  PROVE  /\ arrived \in [Conn -> Nat] /\ sent \in [Conn -> Nat]
         /\ produced \in [Conn -> Nat] /\ written \in [Conn -> Nat]
         /\ \A c \in Conn : written[c] <= produced[c]
         /\ submitted \in [Conn -> Nat] /\ running \in [Conn -> Nat]
         /\ done \in [Conn -> Nat]
BY DEF TypeOK

(* The records and sequences.                                              *)
LEMMA Records ==
  ASSUME TypeOK
  PROVE  /\ job \in [Conn -> JobRec]
         /\ selectorTasks \in Seq([conn : Conn, key : {"key", "null"}])
         /\ buffers \in Seq([conn : Conn, chunk : Nat] \cup {None})
         /\ spare \in Seq(DOMAIN buffers)
         /\ held \in [Conn -> Seq(DOMAIN buffers)]
BY DEF TypeOK, JobRec

(* The flags, states and interest sets.                                    *)
LEMMA Flags ==
  ASSUME TypeOK
  PROVE  /\ terminate \in [Conn -> BOOLEAN] /\ wake \in BOOLEAN /\ down \in BOOLEAN
         /\ interest \in [Conn -> SUBSET Op]
         /\ peer \in [Conn -> {"calling", "there", "left"}]
         /\ chan \in [Conn -> {"none", "open", "closed"}]
         /\ key \in [Conn -> {"none", "valid", "cancelled", "gone"}]
BY DEF TypeOK

(* What the fields of a job are.                                           *)
LEMMA JobFields ==
  ASSUME NEW j \in JobRec
  PROVE  /\ j.pc \in {"run", "post", "wakeup"} /\ j.to \in Conn \cup {None}
         /\ j.out \in Nat
BY DEF JobRec

(* A step that changes the job of one connection.                          *)
LEMMA JobType ==
  ASSUME TypeOK, NEW c \in Conn, NEW j \in JobRec, job' = [job EXCEPT ![c] = j]
  PROVE  /\ job' \in [Conn -> JobRec]
         /\ job'[c] = j /\ \A d \in Conn \ {c} : job'[d] = job[d]
<1>1. job \in [Conn -> JobRec]
  BY Records
<1> QED BY <1>1

(* What types a step of a task that leaves net, channels and the main loop *)
(* alone has to keep.                                                      *)
LEMMA TaskTypeOK ==
  ASSUME TypeOK, UNCHANGED <<net, channels, interest, selected, loop>>,
         job' \in [Conn -> JobRec],
         produced' \in [Conn -> Nat], written' = written,
         \A c \in Conn : produced[c] <= produced'[c],
         terminate' \in [Conn -> BOOLEAN],
         selectorTasks' \in Seq([conn : Conn, key : {"key", "null"}]),
         wake' \in BOOLEAN, buffers' = buffers,
         spare' \in Seq(DOMAIN buffers), held' \in [Conn -> Seq(DOMAIN buffers)],
         submitted' = submitted, running' \in [Conn -> Nat],
         done' \in [Conn -> Nat], down' = down
  PROVE  TypeOK'
<1>1. \A c \in Conn : written'[c] <= produced'[c]
  BY DEF TypeOK
<1>2. /\ peer' \in [Conn -> {"calling", "there", "left"}]
      /\ arrived' \in [Conn -> Nat]
      /\ sent' \in [Conn -> Nat]
      /\ chan' \in [Conn -> {"none", "open", "closed"}]
      /\ key' \in [Conn -> {"none", "valid", "cancelled", "gone"}]
      /\ interest' \in [Conn -> SUBSET Op]
      /\ written' \in [Conn -> Nat]
      /\ selected' \subseteq Conn \X (Op \cup {"accept"})
      /\ buffers' \in Seq([conn : Conn, chunk : Nat] \cup {None})
      /\ submitted' \in [Conn -> Nat] /\ down' \in BOOLEAN
  BY DEF TypeOK, net, channels
<1>3. loop' \in [pc : {"select", "tasks", "keys", "write", "written", "disarm",
                       "spin", "dead"},
                 conn : Conn \cup {None}]
  BY DEF TypeOK
<1> QED BY <1>1, <1>2, <1>3 DEF TypeOK, JobRec

(* The peers, and the steps of a task.                                     *)
LEMMA PeerType ==
  ASSUME IType, NEW c \in Conn, Peer(c)
  PROVE  IType'
<1>1. /\ peer' \in [Conn -> {"calling", "there", "left"}]
      /\ arrived' \in [Conn -> Nat] /\ sent' \in [Conn -> Nat]
      /\ \A d \in Conn : submitted[d] + arrived'[d] = sent'[d]
      /\ \A d \in Conn : peer'[d] = "calling" <=> peer[d] = "calling"
      /\ UNCHANGED <<channels, interest, queues, posts, selected, loop, job, bufs, pool>>
  <2>1. CASE PeerSends(c)
    <3>1. peer' \in [Conn -> {"calling", "there", "left"}]
      BY <2>1, Flags DEF PeerSends, IType
    <3>2. /\ arrived' \in [Conn -> Nat] /\ sent' \in [Conn -> Nat]
          /\ \A d \in Conn : submitted[d] + arrived'[d] = sent'[d]
      BY <2>1, Counters DEF PeerSends, IType, OneBufferEach
    <3> QED BY <2>1, <3>1, <3>2 DEF PeerSends
  <2>2. CASE PeerLeaves(c)
    BY <2>2, Flags, Counters DEF PeerLeaves, IType, OneBufferEach
  <2> QED BY <2>1, <2>2 DEF Peer
<1>2. TypeOK'
  BY <1>1 DEF IType, TypeOK, channels, queues, posts, bufs, pool
<1>3. OneBufferEach'
  BY <1>1 DEF IType, OneBufferEach, bufs, pool
<1>4. Calling' /\ Jobs' /\ LoopConn'
  BY <1>1 DEF IType, Calling, Jobs, LoopConn, Drained, channels, queues, pool
<1> QED BY <1>2, <1>3, <1>4 DEF IType

(* Start, Produce, Post, Wakeup and Finish keep the types.                 *)
LEMMA TaskType ==
  ASSUME IType, NEW c \in Conn, Task(c)
  PROVE  IType'
<1> USE DEF IType
<1>1. CASE Start(c)
  <2>1. /\ Pool!Start(c) /\ job' = [job EXCEPT ![c] = Idle]
        /\ UNCHANGED <<net, channels, interest, queues, posts, selected, loop, bufs>>
    BY <1>1 DEF Start
  <2>2. Idle \in JobRec
    BY DEF Idle, JobRec
  <2>3. /\ job' \in [Conn -> JobRec] /\ job'[c].pc = "run"
        /\ \A d \in Conn \ {c} : job'[d] = job[d]
    BY <2>1, <2>2, JobType DEF Idle
  <2>4. /\ running[c] = 0 /\ done[c] < submitted[c]
        /\ running' = [running EXCEPT ![c] = done[c] + 1]
        /\ running' \in [Conn -> Nat] /\ UNCHANGED <<submitted, done, down>>
    BY <2>1, Counters DEF Pool!Start
  <2>5. TypeOK'
    <3>1. \A d \in Conn : produced[d] <= produced'[d]
      BY <2>1 DEF queues, TypeOK
    <3>2. /\ produced' \in [Conn -> Nat] /\ written' = written
          /\ terminate' \in [Conn -> BOOLEAN]
          /\ selectorTasks' \in Seq([conn : Conn, key : {"key", "null"}])
          /\ wake' \in BOOLEAN /\ buffers' = buffers
          /\ spare' \in Seq(DOMAIN buffers) /\ held' \in [Conn -> Seq(DOMAIN buffers)]
          /\ done' \in [Conn -> Nat]
      BY <2>1, <2>4 DEF queues, posts, bufs, TypeOK
    <3> QED BY <2>1, <2>3, <2>4, <3>1, <3>2, TaskTypeOK
  <2>6. Jobs'
    BY <2>3, <2>4 DEF Jobs, TypeOK
  <2>7. OneBufferEach'
    BY <2>1, <2>4 DEF OneBufferEach, TypeOK, net, bufs
  <2> QED BY <2>1, <2>5, <2>6, <2>7 DEF LoopConn, Calling, Drained, net, channels, queues
<1>2. ASSUME NEW t \in Conn, Produce(c, t) PROVE IType'
  <2> DEFINE j == [pc |-> "post", to |-> t, out |-> job[c].out + 1]
  <2>1. /\ produced' = [produced EXCEPT ![t] = @ + 1]
        /\ job' = [job EXCEPT ![c] = j]
        /\ chan[t] # "none" /\ running[c] # 0
        /\ UNCHANGED <<net, channels, interest, written, posts, selected, loop,
                       bufs, pool>>
    BY <1>2 DEF Produce
  <2>2. j \in JobRec
    <3>1. job[c].out + 1 \in Nat
      BY Records, JobFields
    <3> QED BY <3>1 DEF JobRec
  <2> HIDE DEF j
  <2>3. /\ job' \in [Conn -> JobRec] /\ job'[c] = j
        /\ \A d \in Conn \ {c} : job'[d] = job[d]
    BY <2>1, <2>2, JobType
  <2>4. terminate' \in [Conn -> BOOLEAN]
    <3>1. PICK last \in {FALSE, t = c} :
            terminate' = [terminate EXCEPT ![c] = terminate[c] \/ last]
      BY <1>2 DEF Produce
    <3> QED BY <3>1 DEF TypeOK
  <2>5. TypeOK'
    <3>1. produced' \in [Conn -> Nat] /\ \A d \in Conn : produced[d] <= produced'[d]
      BY <2>1, Counters
    <3>2. /\ selectorTasks' \in Seq([conn : Conn, key : {"key", "null"}])
          /\ wake' \in BOOLEAN /\ buffers' = buffers
          /\ spare' \in Seq(DOMAIN buffers) /\ held' \in [Conn -> Seq(DOMAIN buffers)]
          /\ submitted' = submitted /\ down' = down
          /\ running' \in [Conn -> Nat] /\ done' \in [Conn -> Nat]
      BY <2>1 DEF posts, bufs, pool, TypeOK
    <3> QED BY <2>1, <2>3, <2>4, <3>1, <3>2, TaskTypeOK
  <2>6. Jobs'
    BY <2>1, <2>3 DEF Jobs, pool, j
  <2>7. OneBufferEach'
    BY <2>1 DEF OneBufferEach, net, bufs, pool
  <2>8. Calling'
    BY <2>1 DEF Calling, Drained, net, channels, TypeOK
  <2> QED BY <2>1, <2>5, <2>6, <2>7, <2>8 DEF LoopConn, net
<1>3. CASE Post(c)
  <2> DEFINE p == [conn |-> job[c].to, key |-> KeyFor(job[c].to)]
             j == [job[c] EXCEPT !.pc = "wakeup"]
  <2>1. /\ selectorTasks' = Append(selectorTasks, p)
        /\ job' = [job EXCEPT ![c] = j] /\ job[c].pc = "post"
        /\ UNCHANGED <<net, channels, interest, queues, wake, selected, loop, bufs, pool>>
    BY <1>3 DEF Post
  <2>2. p \in [conn : Conn, key : {"key", "null"}]
    BY <2>1 DEF KeyFor, Jobs
  <2>3. j \in JobRec /\ j.to = job[c].to
    <3>1. job[c] \in JobRec
      BY Records
    <3> QED BY <3>1 DEF JobRec
  <2> HIDE DEF p, j
  <2>4. selectorTasks' \in Seq([conn : Conn, key : {"key", "null"}])
    BY <2>1, <2>2 DEF TypeOK
  <2>5. /\ job' \in [Conn -> JobRec] /\ job'[c] = j
        /\ \A d \in Conn \ {c} : job'[d] = job[d]
    BY <2>1, <2>3, JobType
  <2>6. TypeOK'
    <3>1. /\ produced' \in [Conn -> Nat] /\ \A d \in Conn : produced[d] <= produced'[d]
          /\ written' = written /\ terminate' \in [Conn -> BOOLEAN]
          /\ wake' \in BOOLEAN /\ buffers' = buffers
          /\ spare' \in Seq(DOMAIN buffers) /\ held' \in [Conn -> Seq(DOMAIN buffers)]
          /\ submitted' = submitted /\ down' = down
          /\ running' \in [Conn -> Nat] /\ done' \in [Conn -> Nat]
      BY <2>1, Counters, Records, Flags DEF queues, bufs, pool
    <3> QED BY <2>1, <2>4, <2>5, <3>1, TaskTypeOK
  <2>7. Jobs'
    BY <2>1, <2>3, <2>5 DEF Jobs, pool
  <2>8. OneBufferEach'
    BY <2>1 DEF OneBufferEach, net, bufs, pool
  <2> QED BY <2>1, <2>6, <2>7, <2>8 DEF LoopConn, Calling, Drained, net, channels, queues
<1>4. CASE Wakeup(c)
  <2> DEFINE j == [job[c] EXCEPT !.pc = "run", !.to = None]
  <2>1. /\ wake' = TRUE /\ job' = [job EXCEPT ![c] = j]
        /\ UNCHANGED <<net, channels, interest, queues, selectorTasks, selected, loop,
                       bufs, pool>>
    BY <1>4 DEF Wakeup, TypeOK
  <2>2. j \in JobRec /\ j.pc = "run"
    <3>1. job[c] \in JobRec
      BY Records
    <3> QED BY <3>1 DEF JobRec
  <2> HIDE DEF j
  <2>3. /\ job' \in [Conn -> JobRec] /\ job'[c] = j
        /\ \A d \in Conn \ {c} : job'[d] = job[d]
    BY <2>1, <2>2, JobType
  <2>4. TypeOK'
    <3>1. /\ produced' \in [Conn -> Nat] /\ \A d \in Conn : produced[d] <= produced'[d]
          /\ written' = written /\ terminate' \in [Conn -> BOOLEAN]
          /\ selectorTasks' \in Seq([conn : Conn, key : {"key", "null"}])
          /\ wake' \in BOOLEAN /\ buffers' = buffers
          /\ spare' \in Seq(DOMAIN buffers) /\ held' \in [Conn -> Seq(DOMAIN buffers)]
          /\ submitted' = submitted /\ down' = down
          /\ running' \in [Conn -> Nat] /\ done' \in [Conn -> Nat]
      BY <2>1, Counters, Records, Flags DEF queues, bufs, pool
    <3> QED BY <2>1, <2>3, <3>1, TaskTypeOK
  <2>5. Jobs'
    BY <2>1, <2>2, <2>3 DEF Jobs, pool
  <2>6. OneBufferEach'
    BY <2>1 DEF OneBufferEach, net, bufs, pool
  <2> QED BY <2>1, <2>4, <2>5, <2>6 DEF LoopConn, Calling, Drained, net, channels, queues
<1>5. CASE Finish(c)
  <2>1. /\ running[c] # 0 /\ done' = [done EXCEPT ![c] = running[c]]
        /\ running' = [running EXCEPT ![c] = 0]
        /\ UNCHANGED <<submitted, down>> /\ job[c].pc = "run"
    BY <1>5 DEF Finish, Pool!Finish
  <2>2. /\ spare' = Append(spare, Head(held[c]))
        /\ held' = [held EXCEPT ![c] = Tail(held[c])]
        /\ UNCHANGED <<net, channels, interest, queues, posts, selected, loop, job,
                       buffers>>
    BY <1>5 DEF Finish
  <2>3. /\ done[c] \in Nat /\ submitted[c] \in Nat /\ held[c] \in Seq(DOMAIN buffers)
        /\ running[c] = done[c] + 1 /\ done[c] < submitted[c]
        /\ done[c] + Len(held[c]) = submitted[c]
    BY <2>1 DEF TypeOK, OneBufferEach
  <2>4. held[c] # << >> /\ Len(Tail(held[c])) = Len(held[c]) - 1
        /\ Tail(held[c]) \in Seq(DOMAIN buffers) /\ Head(held[c]) \in DOMAIN buffers
    <3>1. Len(held[c]) \in Nat /\ Len(held[c]) # 0
      BY <2>3
    <3>2. held[c] # << >>
      BY <3>1, <2>3, EmptySeq
    <3> QED BY <2>3, <3>2, HeadTailProperties
  <2>5. /\ spare' \in Seq(DOMAIN buffers)
        /\ held' \in [Conn -> Seq(DOMAIN buffers)]
    BY <2>2, <2>4 DEF TypeOK
  <2>6. TypeOK'
    <3>1. /\ job' \in [Conn -> JobRec]
          /\ produced' \in [Conn -> Nat] /\ \A d \in Conn : produced[d] <= produced'[d]
          /\ written' = written /\ terminate' \in [Conn -> BOOLEAN]
          /\ selectorTasks' \in Seq([conn : Conn, key : {"key", "null"}])
          /\ wake' \in BOOLEAN
          /\ running' \in [Conn -> Nat] /\ done' \in [Conn -> Nat]
      BY <2>1, <2>2, Counters, Records, Flags DEF queues, posts
    <3> QED BY <2>1, <2>2, <2>5, <3>1, TaskTypeOK
  <2>7. Jobs'
    BY <2>1, <2>2 DEF Jobs, TypeOK
  <2>8. OneBufferEach'
    <3>1. /\ done'[c] = done[c] + 1 /\ running'[c] = 0 /\ Len(held'[c]) = Len(held[c]) - 1
      BY <2>1, <2>2, <2>3, <2>4 DEF TypeOK
    <3>2. \A d \in Conn \ {c} : /\ done'[d] = done[d] /\ running'[d] = running[d]
                                /\ held'[d] = held[d]
      BY <2>1, <2>2 DEF TypeOK
    <3>3. UNCHANGED <<submitted, sent, arrived>>
      BY <2>1, <2>2 DEF net
    <3>4. /\ submitted'[c] + arrived'[c] = sent'[c]
          /\ done'[c] + Len(held'[c]) = submitted'[c]
      <4>1. Len(held[c]) \in Nat
        BY <2>3
      <4>2. submitted[c] + arrived[c] = sent[c]
        BY DEF OneBufferEach
      <4>3. done[c] + 1 + (Len(held[c]) - 1) = submitted[c]
        BY <2>3, <4>1
      <4> QED BY <3>1, <3>3, <4>2, <4>3
    <3> QED BY <3>1, <3>2, <3>3, <3>4 DEF OneBufferEach
  <2> QED BY <2>2, <2>6, <2>7, <2>8 DEF LoopConn, Calling, Drained, net, channels, queues
<1> QED BY <1>1, <1>2, <1>3, <1>4, <1>5 DEF Task

-----------------------------------------------------------------------------
LoopRec == [pc : {"select", "tasks", "keys", "write", "written", "disarm", "spin",
                  "dead"},
            conn : Conn \cup {None}]
Selectable == Conn \X (Op \cup {"accept"})
Change == [conn : Conn, key : {"key", "null"}]

(* Where the selector thread is, and what it still has to handle.          *)
LEMMA Places ==
  ASSUME TypeOK
  PROVE  loop \in LoopRec /\ selected \subseteq Selectable /\ selectorTasks \in Seq(Change)
BY DEF TypeOK, LoopRec, Selectable, Change

(* LoopAt sets both fields of loop.                                        *)
LEMMA LoopAtType ==
  ASSUME NEW l \in {"select", "tasks", "keys", "write", "written", "disarm", "spin",
                    "dead"},
         NEW k \in Conn \cup {None}, LoopAt(l, k)
  PROVE  loop' \in LoopRec /\ loop'.pc = l /\ loop'.conn = k
BY DEF LoopAt, LoopRec

(* A step of the main loop other than continueRead.                        *)
LEMMA QuietType ==
  ASSUME IType,
         UNCHANGED <<arrived, sent, produced, terminate, job, bufs, pool>>,
         peer' \in [Conn -> {"calling", "there", "left"}],
         chan' \in [Conn -> {"none", "open", "closed"}],
         key' \in [Conn -> {"none", "valid", "cancelled", "gone"}],
         interest' \in [Conn -> SUBSET Op],
         written' \in [Conn -> Nat], \A c \in Conn : written'[c] <= produced[c],
         selectorTasks' \in Seq(Change), wake' \in BOOLEAN,
         selected' \subseteq Selectable,
         loop' \in LoopRec, LoopConn', Calling'
  PROVE  IType'
<1>1. TypeOK'
  <2>1. /\ arrived' \in [Conn -> Nat] /\ sent' \in [Conn -> Nat]
        /\ produced' \in [Conn -> Nat] /\ \A c \in Conn : written'[c] <= produced'[c]
        /\ submitted' \in [Conn -> Nat] /\ running' \in [Conn -> Nat]
        /\ done' \in [Conn -> Nat]
    BY Counters DEF IType, pool
  <2>2. /\ job' \in [Conn -> JobRec]
        /\ buffers' \in Seq([conn : Conn, chunk : Nat] \cup {None})
        /\ spare' \in Seq(DOMAIN buffers') /\ held' \in [Conn -> Seq(DOMAIN buffers')]
    BY Records DEF IType, bufs
  <2>3. terminate' \in [Conn -> BOOLEAN] /\ down' \in BOOLEAN
    BY Flags DEF IType, pool
  <2> QED BY <2>1, <2>2, <2>3 DEF TypeOK, JobRec, LoopRec, Selectable, Change
<1>2. Jobs'
  BY DEF IType, Jobs, pool
<1>3. OneBufferEach'
  BY DEF IType, OneBufferEach, bufs, pool
<1> QED BY <1>1, <1>2, <1>3 DEF IType

(* Every step of the main loop but continueRead keeps the types.           *)
LEMMA QuietLoopType ==
  ASSUME IType, NEW c,
         \/ Select \/ RunTask \/ TasksDone
         \/ (c \in Conn /\ HandleAccept(c)) \/ (c \in Conn /\ ContinueWrite(c))
         \/ (c \in Conn /\ \E op \in {"read", "write"} : SkipKey(c, op))
         \/ WriteAll \/ WritePart \/ WriteFails \/ WriteEmpty \/ WriteEnd \/ Disarm
         \/ KeysDone
  PROVE  IType'
<1> DEFINE Rest == UNCHANGED <<arrived, sent, produced, terminate, job, bufs, pool>>
<1>0. TypeOK /\ LoopConn /\ Calling
  BY DEF IType
<1>1. CASE Select
  <2>1. /\ Rest /\ UNCHANGED <<peer, chan, interest, written, selectorTasks>>
        /\ wake' = FALSE /\ LoopAt("tasks", None)
    BY <1>1 DEF Select, net, queues
  <2>2. key' \in [Conn -> {"none", "valid", "cancelled", "gone"}]
    BY <1>0, <1>1, Flags DEF Select
  <2>3. selected' = Ready \cup {<<d, "accept">> : d \in {e \in Conn : peer[e] = "calling"}}
    BY <1>1 DEF Select
  <2>4. selected' \subseteq Selectable
    BY <2>3 DEF Ready, Selectable, Op
  <2>5. \A d \in Conn : <<d, "accept">> \in selected' => peer[d] = "calling"
    BY <2>3 DEF Ready
  <2>6. Calling'
    BY <1>0, <1>1, <2>1, <2>5 DEF Calling, Drained, Select
  <2>7. loop' \in LoopRec /\ LoopConn'
    BY <2>1, LoopAtType DEF LoopConn
  <2> QED BY <1>0, <2>1, <2>2, <2>4, <2>6, <2>7, QuietType, Flags, Counters, Places
<1>2. CASE RunTask
  <2>1. /\ Rest /\ UNCHANGED <<peer, chan, key, written, wake, selected>>
        /\ selectorTasks # << >> /\ selectorTasks' = Tail(selectorTasks)
        /\ loop.pc = "tasks" /\ (loop' = loop \/ LoopAt("dead", None))
    BY <1>2 DEF RunTask, net, channels, queues
  <2>2. selectorTasks' \in Seq(Change) /\ Head(selectorTasks).conn \in Conn
    <3>1. Head(selectorTasks) \in Change /\ Tail(selectorTasks) \in Seq(Change)
      BY <1>0, <2>1, Places, HeadTailProperties
    <3> QED BY <2>1, <3>1 DEF Change
  <2>3. interest' \in [Conn -> SUBSET Op]
    BY <1>0, <1>2, <2>2, Flags DEF RunTask, Op
  <2>4. Calling'
    BY <1>0, <2>1 DEF Calling, Drained
  <2>5. loop' \in LoopRec /\ LoopConn'
    BY <1>0, <2>1, LoopAtType, Places DEF LoopConn
  <2> QED BY <1>0, <2>1, <2>2, <2>3, <2>4, <2>5, QuietType, Flags, Counters, Places
<1>3. CASE c \in Conn /\ HandleAccept(c)
  <2>1. /\ Rest /\ UNCHANGED <<written, selectorTasks, wake, loop>>
        /\ <<c, "accept">> \in selected
        /\ selected' = {s \in selected : s[2] # "accept"}
        /\ peer' = [peer EXCEPT ![c] = "there"]
        /\ chan' = [chan EXCEPT ![c] = "open"]
        /\ key' = [key EXCEPT ![c] = "valid"]
        /\ interest' = [interest EXCEPT ![c] = {"read"}]
    BY <1>3 DEF HandleAccept, queues, posts
  <2>2. /\ peer' \in [Conn -> {"calling", "there", "left"}]
        /\ chan' \in [Conn -> {"none", "open", "closed"}]
        /\ key' \in [Conn -> {"none", "valid", "cancelled", "gone"}]
        /\ interest' \in [Conn -> SUBSET Op]
    BY <1>0, <2>1, Flags DEF Op
  <2>3. Calling'
    <3>1. \A d \in Conn : <<d, "accept">> \notin selected'
      BY <2>1
    <3>2. \A d \in Conn : /\ peer'[d] = IF d = c THEN "there" ELSE peer[d]
                          /\ chan'[d] = IF d = c THEN "open" ELSE chan[d]
                          /\ key'[d] = IF d = c THEN "valid" ELSE key[d]
      BY <1>0, <2>1, Flags
    <3> QED BY <1>0, <2>1, <3>1, <3>2 DEF Calling, Drained
  <2>4. LoopConn' /\ loop' \in LoopRec /\ selected' \subseteq Selectable
    BY <1>0, <2>1, Places, Flags DEF LoopConn
  <2> QED BY <1>0, <2>1, <2>2, <2>3, <2>4, QuietType, Flags, Counters, Places
<1>4. ASSUME /\ Rest /\ UNCHANGED <<peer, selectorTasks, wake>>
             /\ interest' \in [Conn -> SUBSET Op]
             /\ written' \in [Conn -> Nat]
             /\ \A d \in Conn : written'[d] <= produced[d]
             /\ \A d \in Conn : chan[d] = "none" => written'[d] = written[d]
             /\ selected' \subseteq selected
             /\ \/ UNCHANGED <<chan, key>>
                \/ /\ loop.conn \in Conn /\ peer[loop.conn] # "calling"
                   /\ CloseChannel(loop.conn)
             /\ loop' \in LoopRec /\ LoopConn'
      PROVE  IType'
  <2>1. /\ chan' \in [Conn -> {"none", "open", "closed"}]
        /\ key' \in [Conn -> {"none", "valid", "cancelled", "gone"}]
        /\ \A d \in Conn : peer[d] = "calling" => chan'[d] = chan[d] /\ key'[d] = key[d]
        /\ \A d \in Conn : chan'[d] = "none" => chan[d] = "none"
    BY <1>0, <1>4, Flags DEF CloseChannel
  <2>2. selected' \subseteq Selectable
    BY <1>0, <1>4, Places
  <2>3. Calling'
    BY <1>0, <1>4, <2>1 DEF Calling, Drained
  <2> QED BY <1>0, <1>4, <2>1, <2>2, <2>3, QuietType, Flags, Places
<1>5. ASSUME /\ Rest /\ UNCHANGED <<peer, chan, key, written, selectorTasks, wake>>
             /\ interest' \in [Conn -> SUBSET Op]
             /\ selected' \subseteq selected
             /\ loop' \in LoopRec /\ LoopConn'
      PROVE  IType'
  BY <1>0, <1>4, <1>5, Counters
<1>6. loop \in LoopRec /\ interest \in [Conn -> SUBSET Op]
  BY <1>0, Places, Flags
<1>7. CASE TasksDone
  <2>1. loop' \in LoopRec /\ LoopConn'
    BY <1>7, LoopAtType DEF TasksDone, LoopConn
  <2> QED BY <1>5, <1>6, <1>7, <2>1 DEF TasksDone, net, channels, queues, posts
<1>8. CASE c \in Conn /\ ContinueWrite(c)
  <2>1. peer[c] # "calling" /\ LoopAt("write", c) /\ peer' = peer
    BY <1>0, <1>8 DEF ContinueWrite, Calling, net
  <2>2. loop' \in LoopRec /\ LoopConn'
    BY <1>8, <2>1, LoopAtType DEF LoopConn
  <2>3. selected' \subseteq selected
    BY <1>8 DEF ContinueWrite
  <2> QED BY <1>5, <1>6, <1>8, <2>2, <2>3 DEF ContinueWrite, net, channels, queues, posts
<1>9. ASSUME c \in Conn, NEW op \in {"read", "write"}, SkipKey(c, op) PROVE IType'
  <2>1. selected' \subseteq selected /\ LoopConn'
    BY <1>0, <1>9 DEF SkipKey, LoopConn, net
  <2> QED BY <1>5, <1>6, <1>9, <2>1 DEF SkipKey, net, channels, queues, posts
<1>10. CASE WriteAll
  <2>1. /\ loop.conn \in Conn /\ peer[loop.conn] # "calling" /\ ~Drained(loop.conn)
        /\ written' = [written EXCEPT ![loop.conn] = @ + 1]
        /\ Rest /\ UNCHANGED <<peer, chan, key, interest, selectorTasks, wake, selected,
                               loop>>
    BY <1>0, <1>10 DEF WriteAll, LoopConn, net, channels, posts
  <2>2. written[loop.conn] + 1 \in Nat /\ written[loop.conn] + 1 <= produced[loop.conn]
    BY <1>0, <2>1, Counters DEF Drained
  <2>3. written' \in [Conn -> Nat] /\ \A d \in Conn : written'[d] <= produced[d]
    BY <1>0, <2>1, <2>2, Counters
  <2>4. \A d \in Conn : chan[d] = "none" => written'[d] = written[d]
    BY <1>0, <2>1, Counters DEF Calling
  <2> QED BY <1>0, <1>4, <1>6, <2>1, <2>3, <2>4 DEF LoopConn
<1>11. CASE WritePart
  <2>1. loop' \in LoopRec /\ LoopConn'
    BY <1>11, LoopAtType DEF WritePart, LoopConn
  <2> QED BY <1>5, <1>6, <1>11, <2>1 DEF WritePart, net, channels, queues, posts
<1>12. CASE WriteFails
  <2>1. loop.conn \in Conn /\ peer[loop.conn] # "calling" /\ CloseChannel(loop.conn)
    BY <1>0, <1>12 DEF WriteFails, LoopConn
  <2>2. loop' \in LoopRec /\ LoopConn'
    BY <1>12, <2>1, LoopAtType DEF WriteFails, LoopConn
  <2> QED BY <1>0, <1>4, <1>6, <1>12, <2>1, <2>2, Counters DEF WriteFails, net, queues, posts
<1>13. CASE WriteEmpty
  <2>1. loop.conn \in Conn /\ peer[loop.conn] # "calling" /\ peer' = peer
    BY <1>0, <1>13 DEF WriteEmpty, LoopConn, net
  <2>2. loop' \in LoopRec /\ LoopConn'
    BY <1>13, <2>1, LoopAtType DEF WriteEmpty, LoopConn
  <2> QED BY <1>5, <1>6, <1>13, <2>2 DEF WriteEmpty, net, channels, queues, posts
<1>14. CASE WriteEnd
  <2>1. /\ loop.conn \in Conn /\ peer[loop.conn] # "calling" /\ peer' = peer
        /\ UNCHANGED <<chan, key>> \/ CloseChannel(loop.conn)
        /\ LoopAt("keys", None) \/ LoopAt("disarm", loop.conn)
    BY <1>0, <1>14 DEF WriteEnd, LoopConn, net, channels
  <2>2. loop' \in LoopRec /\ LoopConn'
    BY <2>1, LoopAtType DEF LoopConn
  <2> QED BY <1>0, <1>4, <1>6, <1>14, <2>1, <2>2, Counters DEF WriteEnd, net, queues, posts
<1>15. CASE Disarm
  <2>1. loop' \in LoopRec /\ LoopConn'
    BY <1>15, LoopAtType DEF Disarm, LoopConn
  <2>2. interest' \in [Conn -> SUBSET Op]
    BY <1>6, <1>15 DEF Disarm, Op
  <2> QED BY <1>5, <1>15, <2>1, <2>2 DEF Disarm, net, channels, queues, posts
<1>16. CASE KeysDone
  <2>1. loop' \in LoopRec /\ LoopConn'
    BY <1>16, LoopAtType DEF KeysDone, LoopConn
  <2> QED BY <1>5, <1>6, <1>16, <2>1 DEF KeysDone, net, channels, queues, posts
<1> QED BY <1>1, <1>2, <1>3, <1>7, <1>8, <1>9, <1>10, <1>11, <1>12, <1>13, <1>14, <1>15,
           <1>16


-----------------------------------------------------------------------------
(* The buffer continueRead leases, and what leasing leaves of the pool.    *)
Contents == [conn : Conn, chunk : Nat] \cup {None}

(* leaseBuffer takes the first spare buffer, or allocates the next.        *)
LEMMA Leasing ==
  ASSUME TypeOK
  PROVE  /\ Leased \in 1..(Len(buffers) + 1) /\ Polled \in Seq(DOMAIN buffers)
         /\ Len(buffers) \in Nat /\ DOMAIN buffers = 1..Len(buffers)
         /\ spare = << >> => Leased = Len(buffers) + 1
         /\ spare # << >> => Leased = Head(spare) /\ Leased \in DOMAIN buffers
<1>1. buffers \in Seq(Contents) /\ spare \in Seq(DOMAIN buffers)
  BY Records DEF Contents
<1>2. Len(buffers) \in Nat /\ DOMAIN buffers = 1..Len(buffers)
  BY <1>1, LenProperties
<1>3. CASE spare = << >>
  <2>1. << >> \in Seq(DOMAIN buffers)
    BY EmptySeq
  <2> QED BY <1>2, <1>3, <2>1 DEF Leased, Polled
<1>4. CASE spare # << >>
  <2>1. Head(spare) \in DOMAIN buffers /\ Tail(spare) \in Seq(DOMAIN buffers)
    BY <1>1, <1>4, HeadTailProperties
  <2> QED BY <1>2, <1>4, <2>1 DEF Leased, Polled
<1> QED BY <1>3, <1>4

(* A buffer more, if one had to be allocated.                              *)
LEMMA Growth ==
  ASSUME TypeOK, NEW w \in Contents, buffers' = Append(buffers, w)
  PROVE  /\ buffers' \in Seq(Contents) /\ DOMAIN buffers \subseteq DOMAIN buffers'
         /\ Len(buffers) + 1 \in DOMAIN buffers' /\ buffers'[Len(buffers) + 1] = w
         /\ \A b \in DOMAIN buffers : buffers'[b] = buffers[b]
<1>1. buffers \in Seq(Contents)
  BY Records DEF Contents
<1>2. /\ buffers' \in Seq(Contents) /\ Len(buffers') = Len(buffers) + 1
      /\ \A i \in 1..Len(buffers) : buffers'[i] = buffers[i]
      /\ buffers'[Len(buffers) + 1] = w
  BY <1>1, AppendProperties
<1>3. DOMAIN buffers = 1..Len(buffers) /\ DOMAIN buffers' = 1..Len(buffers')
      /\ Len(buffers) \in Nat
  BY <1>1, <1>2, LenProperties
<1> QED BY <1>2, <1>3

(* ReadInto changes the leased buffer and no other.                        *)
LEMMA Filling ==
  ASSUME TypeOK, NEW w \in Contents, ReadInto(Leased, w)
  PROVE  /\ buffers' \in Seq(Contents) /\ DOMAIN buffers \subseteq DOMAIN buffers'
         /\ Leased \in DOMAIN buffers' /\ buffers'[Leased] = w
         /\ \A b \in DOMAIN buffers : b # Leased => buffers'[b] = buffers[b]
<1>1. buffers \in Seq(Contents)
  BY Records DEF Contents
<1>2. CASE Leased \in DOMAIN buffers
  <2>1. buffers' = [buffers EXCEPT ![Leased] = w]
    BY <1>2 DEF ReadInto
  <2>2. buffers' \in Seq(Contents) /\ DOMAIN buffers' = DOMAIN buffers
    <3>1. DOMAIN buffers = 1..Len(buffers)
      BY <1>1, LenProperties
    <3> QED BY <1>1, <1>2, <2>1, <3>1, ExceptSeq
  <2> QED BY <1>2, <2>1, <2>2
<1>3. CASE Leased \notin DOMAIN buffers
  <2>1. buffers' = Append(buffers, w) /\ Leased = Len(buffers) + 1
    BY <1>3, Leasing DEF ReadInto
  <2> QED BY <2>1, Growth
<1> QED BY <1>2, <1>3

(* What continueRead keeps, whatever it has read.                          *)
LEMMA ReadType ==
  ASSUME IType, NEW c \in Conn, ContinueRead(c)
  PROVE  IType'
<1> USE DEF IType
<1>1. /\ selected' = selected \ {<<c, "read">>} /\ peer[c] # "calling"
      /\ UNCHANGED <<peer, sent, interest, queues, posts, loop, job>>
  BY DEF ContinueRead, Calling
<1>2. UNCHANGED <<produced, written, terminate, selectorTasks, wake>>
  BY <1>1 DEF queues, posts
<1>3. LoopConn' /\ selected' \subseteq Selectable
  BY <1>1, Places DEF LoopConn
<1>4. ASSUME /\ arrived' \in [Conn -> Nat] /\ submitted' \in [Conn -> Nat]
             /\ chan' \in [Conn -> {"none", "open", "closed"}]
             /\ key' \in [Conn -> {"none", "valid", "cancelled", "gone"}]
             /\ buffers' \in Seq(Contents)
             /\ spare' \in Seq(DOMAIN buffers') /\ held' \in [Conn -> Seq(DOMAIN buffers')]
             /\ UNCHANGED <<running, done, down>>
      PROVE  TypeOK'
  <2>1. /\ peer' \in [Conn -> {"calling", "there", "left"}]
        /\ sent' \in [Conn -> Nat] /\ interest' \in [Conn -> SUBSET Op]
        /\ produced' \in [Conn -> Nat] /\ written' \in [Conn -> Nat]
        /\ \A d \in Conn : written'[d] <= produced'[d]
        /\ terminate' \in [Conn -> BOOLEAN] /\ wake' \in BOOLEAN
    BY <1>1, <1>2, Flags, Counters
  <2>2. /\ selectorTasks' \in Seq(Change) /\ loop' \in LoopRec
        /\ job' \in [Conn -> JobRec]
    BY <1>1, <1>2, Places, Records
  <2>3. running' \in [Conn -> Nat] /\ done' \in [Conn -> Nat] /\ down' \in BOOLEAN
    BY <1>4, Flags, Counters
  <2> QED BY <1>3, <1>4, <2>1, <2>2, <2>3
          DEF TypeOK, JobRec, LoopRec, Selectable, Change, Contents
<1>5. CASE /\ arrived[c] > 0 /\ arrived' = [arrived EXCEPT ![c] = @ - 1]
           /\ Pool!Submit(c)
           /\ ReadInto(Leased, [conn |-> c, chunk |-> sent[c] - arrived'[c]])
           /\ spare' = Polled
           /\ held' = [held EXCEPT ![c] = Append(@, Leased)]
           /\ UNCHANGED channels
  <2>1. /\ arrived[c] \in Nat /\ submitted[c] \in Nat /\ done[c] \in Nat
        /\ submitted[c] + arrived[c] = sent[c] /\ sent[c] \in Nat
        /\ done[c] + Len(held[c]) = submitted[c]
    BY Counters DEF OneBufferEach
  <2>2. /\ arrived' \in [Conn -> Nat] /\ arrived'[c] = arrived[c] - 1
        /\ \A d \in Conn \ {c} : arrived'[d] = arrived[d]
    BY <1>5, <2>1, Counters
  <2>3. /\ submitted' = [submitted EXCEPT ![c] = @ + 1]
        /\ UNCHANGED <<running, done, down>>
    BY <1>5 DEF Pool!Submit
  <2>4. /\ submitted' \in [Conn -> Nat] /\ submitted'[c] = submitted[c] + 1
        /\ \A d \in Conn \ {c} : submitted'[d] = submitted[d]
    BY <2>1, <2>3, Counters
  <2>5. sent[c] - arrived'[c] = submitted[c] + 1
    BY <2>1, <2>2
  <2>6. [conn |-> c, chunk |-> sent[c] - arrived'[c]] \in Contents
    BY <2>1, <2>5 DEF Contents
  <2>7. /\ buffers' \in Seq(Contents) /\ DOMAIN buffers \subseteq DOMAIN buffers'
        /\ Leased \in DOMAIN buffers'
    BY <1>5, <2>6, Filling
  <2>8. spare' \in Seq(DOMAIN buffers')
    BY <1>5, <2>7, Leasing, SeqMonotonic
  <2>9. \A d \in Conn : held[d] \in Seq(DOMAIN buffers')
    BY <2>7, Records, SeqMonotonic
  <2>10. /\ Append(held[c], Leased) \in Seq(DOMAIN buffers')
         /\ Len(Append(held[c], Leased)) = Len(held[c]) + 1
    BY <2>7, <2>9, AppendProperties
  <2>11. /\ held' \in [Conn -> Seq(DOMAIN buffers')]
         /\ Len(held'[c]) = Len(held[c]) + 1
         /\ \A d \in Conn \ {c} : held'[d] = held[d]
    BY <1>5, <2>9, <2>10, Records
  <2>12. TypeOK'
    <3>1. /\ chan' \in [Conn -> {"none", "open", "closed"}]
          /\ key' \in [Conn -> {"none", "valid", "cancelled", "gone"}]
      BY <1>5, Flags DEF channels
    <3> QED BY <1>4, <2>2, <2>3, <2>4, <2>7, <2>8, <2>11, <3>1
  <2>13. OneBufferEach'
    <3>1. Len(held[c]) \in Nat
      BY Records, LenProperties
    <3>2. submitted'[c] + arrived'[c] = sent'[c]
      <4>1. (submitted[c] + 1) + (arrived[c] - 1) = sent[c]
        BY <2>1
      <4> QED BY <1>1, <2>2, <2>4, <4>1
    <3>4. done'[c] + Len(held'[c]) = submitted'[c]
      <4>1. done[c] + (Len(held[c]) + 1) = submitted[c] + 1
        BY <2>1, <3>1
      <4> QED BY <2>3, <2>4, <2>11, <4>1
    <3>3. done'[c] < submitted'[c] \/ running'[c] = 0
      BY <2>1, <2>3, <2>4 DEF OneBufferEach
    <3> QED BY <1>1, <2>2, <2>3, <2>4, <2>11, <3>2, <3>3, <3>4 DEF OneBufferEach
  <2>14. Calling' /\ Jobs'
    BY <1>1, <1>2, <1>5, <2>3 DEF Calling, Drained, Jobs, channels
  <2> QED BY <1>3, <2>12, <2>13, <2>14
<1>6. CASE /\ peer[c] = "left" /\ CloseChannel(c)
           /\ buffers' = IF spare = << >> THEN Append(buffers, None) ELSE buffers
           /\ spare' = Append(Polled, Leased)
           /\ UNCHANGED <<arrived, held, pool>>
  <2>1. UNCHANGED <<submitted, running, done, down>>
    BY <1>6 DEF pool
  <2>2. /\ buffers' \in Seq(Contents) /\ DOMAIN buffers \subseteq DOMAIN buffers'
        /\ Leased \in DOMAIN buffers'
    <3>1. None \in Contents
      BY DEF Contents
    <3>2. buffers \in Seq(Contents)
      BY Records DEF Contents
    <3> QED BY <1>6, <3>1, <3>2, Growth, Leasing
  <2>3. spare' \in Seq(DOMAIN buffers')
    <3>1. Polled \in Seq(DOMAIN buffers')
      BY <2>2, Leasing, SeqMonotonic
    <3> QED BY <1>6, <2>2, <3>1, AppendProperties
  <2>4. held' \in [Conn -> Seq(DOMAIN buffers')]
    <3>1. \A d \in Conn : held[d] \in Seq(DOMAIN buffers')
      BY <2>2, Records, SeqMonotonic
    <3>2. held \in [Conn -> Seq(DOMAIN buffers)]
      BY Records
    <3> QED BY <1>6, <3>1, <3>2
  <2>5. /\ chan' \in [Conn -> {"none", "open", "closed"}]
        /\ key' \in [Conn -> {"none", "valid", "cancelled", "gone"}]
        /\ \A d \in Conn : peer[d] = "calling" => chan'[d] = chan[d] /\ key'[d] = key[d]
        /\ \A d \in Conn : chan'[d] = "none" => chan[d] = "none"
    BY <1>1, <1>6, Flags DEF CloseChannel
  <2>6. TypeOK'
    <3>1. arrived' \in [Conn -> Nat] /\ submitted' \in [Conn -> Nat]
      BY <1>6, <2>1, Counters
    <3> QED BY <1>4, <2>1, <2>2, <2>3, <2>4, <2>5, <3>1
  <2>7. Calling' /\ Jobs' /\ OneBufferEach'
    BY <1>1, <1>2, <1>6, <2>1, <2>5 DEF Calling, Drained, Jobs, OneBufferEach
  <2> QED BY <1>3, <2>6, <2>7
<1> QED BY <1>5, <1>6 DEF ContinueRead

(* Every step keeps the types.                                             *)
LEMMA NextType ==
  ASSUME IType, [Next]_vars
  PROVE  IType'
<1>1. CASE UNCHANGED vars
  BY <1>1 DEF vars, net, channels, queues, posts, bufs, pool, IType, TypeOK, Jobs,
     LoopConn, Calling, Drained, OneBufferEach
<1>2. ASSUME NEW c \in Conn, Peer(c) PROVE IType'
  BY <1>2, PeerType
<1>3. ASSUME NEW c \in Conn, Task(c) PROVE IType'
  BY <1>3, TaskType
<1>4. ASSUME NEW c \in Conn, ContinueRead(c) PROVE IType'
  BY <1>4, ReadType
<1>5. CASE MainLoop
  <2>1. ASSUME NEW c \in Conn,
               HandleAccept(c) \/ ContinueWrite(c)
                 \/ \E op \in {"read", "write"} : SkipKey(c, op)
        PROVE  IType'
    BY <2>1, QuietLoopType
  <2>2. CASE \/ Select \/ RunTask \/ TasksDone \/ WriteAll \/ WritePart \/ WriteFails
             \/ WriteEmpty \/ WriteEnd \/ Disarm \/ KeysDone
    BY <2>2, QuietLoopType
  <2> QED BY <1>4, <1>5, <2>1, <2>2 DEF MainLoop
<1> QED BY <1>1, <1>2, <1>3, <1>5 DEF Next

(* The initial state has the types.                                        *)
LEMMA InitType == Init => IType
<1> SUFFICES ASSUME Init PROVE IType
  OBVIOUS
<1>1. << >> \in Seq([conn : Conn, key : {"key", "null"}])
  BY EmptySeq
<1>2. << >> \in Seq([conn : Conn, chunk : Nat] \cup {None})
  BY EmptySeq
<1>3. << >> \in Seq(DOMAIN buffers) /\ Len(<< >>) = 0
  BY EmptySeq
<1>4. Idle \in JobRec /\ Idle.pc = "run"
  BY DEF JobRec, Idle
<1>5. TypeOK
  <2>1. /\ peer \in [Conn -> {"calling", "there", "left"}]
        /\ arrived \in [Conn -> Nat] /\ sent \in [Conn -> Nat]
        /\ chan \in [Conn -> {"none", "open", "closed"}]
        /\ key \in [Conn -> {"none", "valid", "cancelled", "gone"}]
        /\ interest \in [Conn -> SUBSET Op]
        /\ produced \in [Conn -> Nat] /\ written \in [Conn -> Nat]
        /\ \A c \in Conn : written[c] <= produced[c]
        /\ terminate \in [Conn -> BOOLEAN] /\ wake \in BOOLEAN
    <3>1. produced = [c \in Conn |-> 0] /\ written = [c \in Conn |-> 0]
      BY DEF Init
    <3>2. /\ produced \in [Conn -> Nat] /\ written \in [Conn -> Nat]
          /\ \A c \in Conn : written[c] <= produced[c]
      BY <3>1
    <3>3. /\ peer \in [Conn -> {"calling", "there", "left"}]
          /\ chan \in [Conn -> {"none", "open", "closed"}]
          /\ key \in [Conn -> {"none", "valid", "cancelled", "gone"}]
          /\ interest \in [Conn -> SUBSET Op]
          /\ terminate \in [Conn -> BOOLEAN] /\ wake \in BOOLEAN
      BY DEF Init
    <3> QED BY <3>2, <3>3 DEF Init
  <2>2. /\ submitted \in [Conn -> Nat] /\ running \in [Conn -> Nat]
        /\ done \in [Conn -> Nat] /\ down \in BOOLEAN
    BY DEF Init, Pool!Init
  <2>3. loop \in LoopRec /\ selected \subseteq Selectable
    BY DEF Init, LoopRec
  <2>4. job \in [Conn -> JobRec]
    BY <1>4 DEF Init
  <2>5. /\ selectorTasks \in Seq([conn : Conn, key : {"key", "null"}])
        /\ buffers \in Seq([conn : Conn, chunk : Nat] \cup {None})
        /\ spare \in Seq(DOMAIN buffers) /\ held \in [Conn -> Seq(DOMAIN buffers)]
    BY <1>1, <1>2, <1>3 DEF Init
  <2> QED BY <2>1, <2>2, <2>3, <2>4, <2>5 DEF TypeOK, JobRec, LoopRec, Selectable
<1>6. Jobs /\ LoopConn /\ Calling
  BY <1>4 DEF Init, Jobs, LoopConn, Calling, Drained
<1>7. OneBufferEach
  <2>1. \A c \in Conn : /\ submitted[c] = 0 /\ arrived[c] = 0 /\ sent[c] = 0
                        /\ done[c] = 0 /\ running[c] = 0 /\ held[c] = << >>
    BY DEF Init, Pool!Init
  <2>2. \A c \in Conn : Len(held[c]) = 0
    BY <1>3, <2>1
  <2>3. \A c \in Conn : /\ submitted[c] + arrived[c] = 0
                        /\ done[c] + Len(held[c]) = 0
    <3>1. 0 + 0 = 0
      OBVIOUS
    <3> QED BY <2>1, <2>2, <3>1, Zenon
  <2> QED BY <2>1, <2>3 DEF OneBufferEach
<1> QED BY <1>5, <1>6, <1>7 DEF IType

-----------------------------------------------------------------------------
(* What the types of every reachable state are, whatever the connections,  *)
(* the bounds, and however many buffers and tasks there are.               *)
THEOREM TypeInvariant == Spec => []IType
<1>1. IType /\ [Next]_vars => IType'
  BY NextType
<1> QED BY <1>1, InitType, PTL DEF Spec

(* The type invariant the runs check.                                      *)
THEOREM TypeCorrect == Spec => []TypeOK
<1>1. IType => TypeOK
  BY DEF IType
<1> QED BY <1>1, TypeInvariant, PTL

-----------------------------------------------------------------------------
(* No lost wakeup.  What a step of a task does to the jobs.                *)
LEMMA JobSteps ==
  ASSUME IType, NEW c \in Conn, Task(c)
  PROVE  /\ \A d \in Conn \ {c} : job'[d] = job[d]
         /\ \/ job[c].pc = "run" /\ selectorTasks' = selectorTasks /\ wake' = wake
            \/ /\ job[c].pc = "post" /\ job'[c].pc = "wakeup"
               /\ \E k \in {"key", "null"} :
                    selectorTasks' = Append(selectorTasks, [conn |-> job[c].to, key |-> k])
            \/ job[c].pc = "wakeup" /\ selectorTasks' = selectorTasks /\ wake' = TRUE
<1>1. job \in [Conn -> JobRec]
  BY Records DEF IType
<1>2. CASE Start(c)
  <2>1. job[c].pc = "run"
    BY <1>1, <1>2 DEF Start, Pool!Start, IType, Jobs
  <2> QED BY <1>1, <1>2, <2>1 DEF Start, posts
<1>3. ASSUME NEW t \in Conn, Produce(c, t)
      PROVE  /\ \A d \in Conn \ {c} : job'[d] = job[d]
             /\ job[c].pc = "run" /\ selectorTasks' = selectorTasks /\ wake' = wake
  BY <1>1, <1>3 DEF Produce, posts
<1>4. CASE Post(c)
  <2>1. /\ job[c].pc = "post" /\ job' = [job EXCEPT ![c].pc = "wakeup"]
        /\ selectorTasks' = Append(selectorTasks,
                                   [conn |-> job[c].to, key |-> KeyFor(job[c].to)])
    BY <1>4 DEF Post
  <2>2. job'[c].pc = "wakeup" /\ \A d \in Conn \ {c} : job'[d] = job[d]
    BY <1>1, <2>1 DEF JobRec
  <2>3. KeyFor(job[c].to) \in {"key", "null"}
    BY DEF KeyFor
  <2> QED BY <2>1, <2>2, <2>3
<1>5. CASE Wakeup(c)
  BY <1>1, <1>5 DEF Wakeup
<1>6. CASE Finish(c)
  BY <1>6 DEF Finish, posts
<1> QED BY <1>2, <1>3, <1>4, <1>5, <1>6 DEF Task

(* What a step of the main loop does to the posted tasks.                  *)
LEMMA LoopSteps ==
  ASSUME MainLoop
  PROVE  /\ job' = job /\ loop.pc \notin {"dead", "spin"}
         /\ \/ loop.pc = "select" /\ loop'.pc = "tasks"
            \/ loop.pc = "tasks" /\ (loop' = loop \/ loop'.pc = "dead")
            \/ loop.pc = "tasks" /\ selectorTasks' = << >>
            \/ loop.pc # "tasks" /\ selectorTasks' = selectorTasks /\ wake' = wake
<1>1. ASSUME NEW c \in Conn,
             \/ HandleAccept(c) \/ ContinueRead(c) \/ ContinueWrite(c)
             \/ \E op \in {"read", "write"} : SkipKey(c, op)
      PROVE  /\ job' = job /\ loop.pc = "keys"
             /\ selectorTasks' = selectorTasks /\ wake' = wake
  BY <1>1 DEF HandleAccept, ContinueRead, ContinueWrite, SkipKey, posts
<1>2. CASE Select
  BY <1>2 DEF Select, LoopAt
<1>3. CASE RunTask
  BY <1>3 DEF RunTask, LoopAt
<1>4. CASE TasksDone
  BY <1>4 DEF TasksDone, posts
<1>5. CASE WriteAll \/ WritePart \/ WriteFails \/ WriteEmpty
  BY <1>5 DEF WriteAll, WritePart, WriteFails, WriteEmpty, posts
<1>6. CASE WriteEnd \/ Disarm \/ KeysDone
  BY <1>6 DEF WriteEnd, Disarm, KeysDone, posts
<1> QED BY <1>1, <1>2, <1>3, <1>4, <1>5, <1>6 DEF MainLoop

(* Every step keeps the selector thread awake while tasks are posted.      *)
LEMMA AwakeStep ==
  ASSUME IType, Awake, [Next]_vars
  PROVE  Awake'
<1>1. CASE UNCHANGED vars
  BY <1>1 DEF vars, posts, Awake
<1>2. ASSUME NEW c \in Conn, Peer(c) PROVE Awake'
  BY <1>2 DEF Peer, PeerSends, PeerLeaves, posts, Awake
<1>3. ASSUME NEW c \in Conn, Task(c) PROVE Awake'
  <2>1. loop' = loop
    BY <1>3 DEF Task, Start, Produce, Post, Wakeup, Finish
  <2> QED BY <1>3, <2>1, JobSteps DEF Awake
<1>4. CASE MainLoop
  BY <1>4, LoopSteps DEF Awake
<1> QED BY <1>1, <1>2, <1>3, <1>4 DEF Next

(* The selector thread never blocks in select with a change of interest    *)
(* posted and no wakeup due: Awake is what the steps of the loop between   *)
(* runSelectionThreadTasks and select keep.                                *)
THEOREM WakeupKept == Spec => []NoLostWakeup
<1>1. Init => Awake
  BY DEF Init, Awake
<1>2. IType /\ Awake /\ [Next]_vars => Awake'
  BY AwakeStep
<1>3. Awake => NoLostWakeup
  BY DEF Awake, NoLostWakeup
<1> QED BY <1>1, <1>2, <1>3, TypeInvariant, PTL DEF Spec

-----------------------------------------------------------------------------
(* No lost write.  Tasks posted stay posted, until they are run.           *)
LEMMA PostedStays ==
  ASSUME IType, NEW c \in Conn, Task(c), NEW d \in Conn, Posted(d)
  PROVE  Posted(d)'
<1>1. selectorTasks \in Seq(Change)
  BY Places DEF IType
<1>2. ASSUME NEW e \in Change, selectorTasks' = Append(selectorTasks, e)
      PROVE  /\ \A i \in DOMAIN selectorTasks : /\ i \in DOMAIN selectorTasks'
                                                /\ selectorTasks'[i] = selectorTasks[i]
             /\ Len(selectorTasks) + 1 \in DOMAIN selectorTasks'
             /\ selectorTasks'[Len(selectorTasks) + 1] = e
  <2>1. /\ selectorTasks' \in Seq(Change) /\ Len(selectorTasks') = Len(selectorTasks) + 1
        /\ \A i \in 1..Len(selectorTasks) : selectorTasks'[i] = selectorTasks[i]
        /\ selectorTasks'[Len(selectorTasks) + 1] = e
    BY <1>1, <1>2, AppendProperties
  <2>2. /\ Len(selectorTasks) \in Nat /\ DOMAIN selectorTasks = 1..Len(selectorTasks)
        /\ DOMAIN selectorTasks' = 1..Len(selectorTasks')
    BY <1>1, <2>1, LenProperties
  <2> QED BY <2>1, <2>2
<1>3. CASE job[c].pc # "post"
  <2>1. selectorTasks' = selectorTasks /\ \A b \in Conn \ {c} : job'[b] = job[b]
    BY <1>3, JobSteps
  <2> QED BY <1>3, <2>1 DEF Posted
<1>4. CASE job[c].pc = "post"
  <2>1. job[c].to \in Conn
    BY <1>4 DEF IType, Jobs
  <2>2. PICK k \in {"key", "null"} :
          selectorTasks' = Append(selectorTasks, [conn |-> job[c].to, key |-> k])
    BY <1>4, JobSteps
  <2>3. [conn |-> job[c].to, key |-> k] \in Change
    BY <2>1 DEF Change
  <2>4. /\ \A i \in DOMAIN selectorTasks : /\ i \in DOMAIN selectorTasks'
                                           /\ selectorTasks'[i] = selectorTasks[i]
        /\ \E i \in DOMAIN selectorTasks' : selectorTasks'[i].conn = job[c].to
    BY <1>2, <2>2, <2>3
  <2>5. \A b \in Conn \ {c} : job'[b] = job[b]
    BY JobSteps
  <2> QED BY <2>4, <2>5 DEF Posted
<1> QED BY <1>3, <1>4

(* NoLostWrite, one connection at a time.                                  *)
Remembered(c) == chan[c] = "open" /\ ~Drained(c) /\ loop.pc # "dead" =>
                   Armed(c) \/ Posted(c)

(* A task that produces a message is about to post the change.             *)
LEMMA TaskRemembers ==
  ASSUME IType, NEW c \in Conn, Task(c), NEW d \in Conn, Remembered(d)
  PROVE  Remembered(d)'
<1>1. UNCHANGED <<chan, interest, loop>> /\ written' = written
  BY DEF Task, Start, Produce, Post, Wakeup, Finish, channels, queues
<1>2. CASE produced'[d] = produced[d]
  <2>1. Armed(d)' <=> Armed(d)
    BY <1>1 DEF Armed
  <2> QED BY <1>1, <1>2, <2>1, PostedStays DEF Remembered, Drained
<1>3. CASE produced'[d] # produced[d]
  <2>1. PICK t \in Conn : Produce(c, t)
    BY <1>3 DEF Task, Start, Post, Wakeup, Finish, queues
  <2>2. d = t
    BY <1>3, <2>1, Counters DEF Produce, IType
  <2>3. job' = [job EXCEPT ![c] = [pc |-> "post", to |-> t, out |-> job[c].out + 1]]
    BY <2>1 DEF Produce
  <2>4. job'[c].pc = "post" /\ job'[c].to = d
    BY <2>2, <2>3, Records DEF IType
  <2> QED BY <2>4 DEF Remembered, Posted
<1> QED BY <1>2, <1>3

(* A posted change, once run, leaves the key waiting for OP_WRITE.         *)
LEMMA RunTaskRemembers ==
  ASSUME IType, RunTask, NEW d \in Conn, Remembered(d)
  PROVE  Remembered(d)'
<1> DEFINE t == Head(selectorTasks)
<1>1. /\ selectorTasks # << >> /\ selectorTasks' = Tail(selectorTasks)
      /\ loop.pc = "tasks"
      /\ UNCHANGED <<chan, produced, written, job>>
  BY DEF RunTask, channels, queues
<1>2. /\ selectorTasks \in Seq(Change) /\ interest \in [Conn -> SUBSET Op]
  BY Places, Flags DEF IType
<1>3. CASE loop'.pc = "dead"
  BY <1>3 DEF Remembered
<1>4. CASE loop'.pc # "dead"
  <2>1. loop' = loop /\ interest' = [interest EXCEPT ![t.conn] = {"read", "write"}]
    BY <1>4 DEF RunTask, LoopAt
  <2>2. CASE d = t.conn
    BY <1>1, <1>2, <2>1, <2>2 DEF Remembered, Armed
  <2>3. CASE d # t.conn
    <3>1. Armed(d)' <=> Armed(d)
      BY <1>2, <2>1, <2>3 DEF Armed
    <3>2. ASSUME NEW i \in DOMAIN selectorTasks, selectorTasks[i].conn = d
          PROVE  \E j \in DOMAIN selectorTasks' : selectorTasks'[j].conn = d
      <4>1. /\ DOMAIN selectorTasks = 1..Len(selectorTasks) /\ Len(selectorTasks) \in Nat
        BY <1>2, LenProperties
      <4>2. /\ selectorTasks' \in Seq(Change) /\ Len(selectorTasks') = Len(selectorTasks) - 1
            /\ \A j \in 1..Len(selectorTasks') : selectorTasks'[j] = selectorTasks[j + 1]
        BY <1>1, <1>2, HeadTailProperties
      <4>3. DOMAIN selectorTasks' = 1..Len(selectorTasks')
        BY <4>2, LenProperties
      <4>4. i # 1
        BY <2>3, <3>2
      <4>5. i - 1 \in 1..Len(selectorTasks') /\ (i - 1) + 1 = i
        BY <4>1, <4>2, <4>4
      <4> QED BY <3>2, <4>2, <4>3, <4>5
    <3>3. Posted(d) => Posted(d)'
      BY <1>1, <3>2 DEF Posted
    <3> QED BY <1>1, <2>1, <3>1, <3>3 DEF Remembered, Drained
  <2> QED BY <2>2, <2>3
<1> QED BY <1>3, <1>4

(* The other steps of the selector thread: accepting opens a channel whose *)
(* writeQueue is empty, and OP_WRITE is cleared only of a connection that  *)
(* was drained or for which a task is posted.                              *)
LEMMA LoopRemembers ==
  ASSUME IType, MainLoop, ~RunTask, NEW d \in Conn, Remembered(d)
  PROVE  Remembered(d)'
<1>1. ASSUME UNCHANGED <<job, produced>>,
             selectorTasks' = selectorTasks \/ selectorTasks = << >>,
             chan'[d] = "open" => chan[d] = "open" /\ written'[d] = written[d],
             loop.pc # "dead", Armed(d) => Armed(d)'
      PROVE  Remembered(d)'
  <2>1. Posted(d) => Posted(d)'
    BY <1>1, EmptySeq DEF Posted
  <2> QED BY <1>1, <2>1 DEF Remembered, Drained
<1>2. CASE Select
  BY <1>1, <1>2 DEF Select, queues, Armed, LoopAt
<1>3. CASE TasksDone
  BY <1>1, <1>3 DEF TasksDone, queues, posts, channels, Armed, LoopAt
<1>4. ASSUME NEW c \in Conn, HandleAccept(c) PROVE Remembered(d)'
  <2>1. /\ UNCHANGED <<produced, written, terminate, selectorTasks, wake, loop, job>>
        /\ <<c, "accept">> \in selected /\ loop.pc = "keys"
        /\ chan' = [chan EXCEPT ![c] = "open"]
        /\ interest' = [interest EXCEPT ![c] = {"read"}]
    BY <1>4 DEF HandleAccept, queues, posts
  <2>2. Drained(c)
    BY <2>1 DEF IType, Calling
  <2>3. CASE d = c
    BY <2>1, <2>2, <2>3 DEF Remembered, Drained
  <2>4. CASE d # c
    <3>1. chan'[d] = chan[d] /\ (Armed(d) => Armed(d)')
      BY <2>1, <2>4, Flags DEF IType, Armed
    <3> QED BY <1>1, <2>1, <3>1
  <2> QED BY <2>3, <2>4
<1>5. ASSUME NEW c \in Conn, ContinueRead(c) PROVE Remembered(d)'
  <2>1. /\ UNCHANGED <<interest, produced, written, selectorTasks, loop, job>>
        /\ loop.pc = "keys" /\ (UNCHANGED channels \/ CloseChannel(c))
    BY <1>5 DEF ContinueRead, queues, posts
  <2>2. chan'[d] = "open" => chan[d] = "open"
    BY <2>1, Flags DEF channels, CloseChannel, IType
  <2>3. Armed(d) => Armed(d)'
    BY <2>1 DEF Armed
  <2> QED BY <1>1, <2>1, <2>2, <2>3
<1>6. ASSUME NEW c \in Conn, ContinueWrite(c) PROVE Remembered(d)'
  <2>1. Armed(d) => Armed(d)'
    BY <1>6 DEF ContinueWrite, Armed, LoopAt
  <2> QED BY <1>1, <1>6, <2>1 DEF ContinueWrite, queues, posts, channels
<1>7. ASSUME NEW c \in Conn, NEW op \in {"read", "write"}, SkipKey(c, op)
      PROVE  Remembered(d)'
  <2>1. Armed(d) => Armed(d)'
    BY <1>7 DEF SkipKey, Armed
  <2> QED BY <1>1, <1>7, <2>1 DEF SkipKey, queues, posts, channels
<1>8. CASE WriteAll
  <2>1. /\ ~Drained(loop.conn) /\ written' = [written EXCEPT ![loop.conn] = @ + 1]
        /\ UNCHANGED <<chan, interest, produced, selectorTasks, loop, job>>
    BY <1>8 DEF WriteAll, channels, posts
  <2>2. d # loop.conn => written'[d] = written[d]
    BY <2>1, Counters DEF IType
  <2>3. (Armed(d) => Armed(d)') /\ (Posted(d) => Posted(d)')
    BY <2>1 DEF Armed, Posted
  <2> QED BY <2>1, <2>2, <2>3 DEF Remembered, Drained
<1>9. CASE WritePart \/ WriteEmpty \/ KeysDone
  <2>1. /\ UNCHANGED <<job, produced, selectorTasks, chan, written, interest>>
        /\ loop.pc \in {"write", "keys"} /\ loop'.pc # "disarm"
    BY <1>9 DEF WritePart, WriteEmpty, KeysDone, queues, posts, channels, LoopAt
  <2>2. Armed(d) => Armed(d)'
    BY <2>1 DEF Armed
  <2> QED BY <1>1, <2>1, <2>2
<1>10. CASE WriteFails
  <2>1. /\ UNCHANGED <<job, produced, selectorTasks, written, interest>>
        /\ loop.pc = "write" /\ loop'.pc # "disarm" /\ CloseChannel(loop.conn)
    BY <1>10 DEF WriteFails, queues, posts, LoopAt
  <2>2. (Armed(d) => Armed(d)') /\ (chan'[d] = "open" => chan[d] = "open")
    BY <2>1, Flags DEF Armed, CloseChannel, IType
  <2> QED BY <1>1, <2>1, <2>2
<1>11. CASE WriteEnd
  <2>1. /\ UNCHANGED <<job, produced, selectorTasks, written, interest>>
        /\ loop.pc = "written" /\ (UNCHANGED channels \/ CloseChannel(loop.conn))
        /\ loop'.pc = "disarm" => loop'.conn = loop.conn /\ Drained(loop.conn)
    BY <1>11 DEF WriteEnd, queues, posts, LoopAt
  <2>2. chan'[d] = "open" => chan[d] = "open"
    BY <2>1, Flags DEF channels, CloseChannel, IType
  <2>3. CASE Drained(d)
    BY <2>1, <2>3 DEF Remembered, Drained
  <2>4. CASE ~Drained(d)
    <3>1. Armed(d) => Armed(d)'
      BY <2>1, <2>4 DEF Armed
    <3> QED BY <1>1, <2>1, <2>2, <3>1
  <2> QED BY <2>3, <2>4
<1>12. CASE Disarm
  <2>1. /\ UNCHANGED <<job, produced, selectorTasks, written, chan>>
        /\ interest' = [interest EXCEPT ![loop.conn] = {"read"}]
        /\ loop.pc = "disarm" /\ loop'.pc = "keys"
    BY <1>12 DEF Disarm, queues, posts, channels, LoopAt
  <2>2. Armed(d) => Armed(d)'
    BY <2>1, Flags DEF Armed, IType
  <2> QED BY <1>1, <2>1, <2>2
<1> QED BY <1>2, <1>3, <1>4, <1>5, <1>6, <1>7, <1>8, <1>9, <1>10, <1>11, <1>12
        DEF MainLoop

(* Every step keeps what NoLostWrite says of each connection.              *)
LEMMA NextRemembers ==
  ASSUME IType, NoLostWrite, [Next]_vars
  PROVE  NoLostWrite'
<1>1. SUFFICES ASSUME NEW d \in Conn PROVE Remembered(d)'
  BY DEF NoLostWrite, Remembered
<1>2. Remembered(d)
  BY DEF NoLostWrite, Remembered
<1>3. CASE UNCHANGED vars
  BY <1>2, <1>3 DEF vars, channels, queues, posts, Remembered, Drained, Armed, Posted
<1>4. ASSUME NEW c \in Conn, Peer(c) PROVE Remembered(d)'
  BY <1>2, <1>4 DEF Peer, PeerSends, PeerLeaves, channels, queues, posts, Remembered,
     Drained, Armed, Posted
<1>5. ASSUME NEW c \in Conn, Task(c) PROVE Remembered(d)'
  BY <1>2, <1>5, TaskRemembers
<1>6. CASE MainLoop
  BY <1>2, <1>6, RunTaskRemembers, LoopRemembers
<1> QED BY <1>3, <1>4, <1>5, <1>6 DEF Next

(* A message that a task puts into the writeQueue of an open channel is not *)
(* forgotten, whichever way updateInterestedOps of that task and the steps  *)
(* of continueWrite interleave.                                            *)
THEOREM WriteKept == Spec => []NoLostWrite
<1>1. Init => NoLostWrite
  BY DEF Init, NoLostWrite
<1>2. IType /\ NoLostWrite /\ [Next]_vars => NoLostWrite'
  BY NextRemembers
<1> QED BY <1>1, <1>2, TypeInvariant, PTL DEF Spec

-----------------------------------------------------------------------------
(* The buffers: who owns the one continueRead leases, and who does after.  *)
LEMMA LeasedAlone ==
  ASSUME IType, OneOwner
  PROVE  /\ \A j \in DOMAIN Polled : Polled[j] # Leased
         /\ \A i, j \in DOMAIN Polled : Polled[i] = Polled[j] => i = j
         /\ \A c \in Conn : \A i \in DOMAIN held[c] :
              /\ held[c][i] # Leased
              /\ \A j \in DOMAIN Polled : held[c][i] # Polled[j]
<1>1. /\ spare \in Seq(DOMAIN buffers) /\ \A c \in Conn : held[c] \in Seq(DOMAIN buffers)
      /\ Len(buffers) \in Nat /\ DOMAIN buffers = 1..Len(buffers)
  BY Records, Leasing DEF IType
<1>2. \A c \in Conn : \A i \in DOMAIN held[c] : held[c][i] \in DOMAIN buffers
  BY <1>1, LenProperties, ElementOfSeq
<1>3. CASE spare = << >>
  <2>1. Polled = << >> /\ Leased = Len(buffers) + 1
    BY <1>3, Leasing DEF Polled, IType
  <2>2. DOMAIN Polled = {}
    BY <2>1
  <2>3. Leased \notin DOMAIN buffers
    BY <1>1, <2>1
  <2> QED BY <1>2, <2>2, <2>3
<1>4. CASE spare # << >>
  <2>1. Polled = Tail(spare) /\ Leased = Head(spare)
    BY <1>4, Leasing DEF Polled, IType
  <2>2. /\ Tail(spare) \in Seq(DOMAIN buffers) /\ Len(Tail(spare)) = Len(spare) - 1
        /\ \A i \in 1..Len(Tail(spare)) : Tail(spare)[i] = spare[i + 1]
    BY <1>1, <1>4, HeadTailProperties
  <2>3. /\ Len(spare) \in Nat /\ DOMAIN spare = 1..Len(spare)
        /\ DOMAIN Polled = 1..(Len(spare) - 1)
    BY <1>1, <2>1, <2>2, LenProperties
  <2>4. Len(spare) # 0
    BY <1>1, <1>4, EmptySeq
  <2>5. 1 \in DOMAIN spare /\ Leased = spare[1]
    BY <2>1, <2>3, <2>4
  <2>6. \A j \in DOMAIN Polled : /\ j + 1 \in DOMAIN spare /\ j + 1 # 1
                                 /\ Polled[j] = spare[j + 1]
    BY <2>1, <2>2, <2>3
  <2>7. \A i, j \in DOMAIN Polled : i + 1 = j + 1 => i = j
    BY <2>3
  <2> QED BY <2>5, <2>6, <2>7 DEF OneOwner
<1> QED BY <1>3, <1>4

(* A buffer appended to a sequence of others.                              *)
LEMMA AppendOnce ==
  ASSUME NEW S, NEW s \in Seq(S), NEW b \in S
  PROVE  /\ DOMAIN Append(s, b) = DOMAIN s \cup {Len(s) + 1}
         /\ Len(s) + 1 \notin DOMAIN s
         /\ Append(s, b)[Len(s) + 1] = b
         /\ \A i \in DOMAIN s : Append(s, b)[i] = s[i]
<1>1. /\ Append(s, b) \in Seq(S) /\ Len(Append(s, b)) = Len(s) + 1
      /\ \A i \in 1..Len(s) : Append(s, b)[i] = s[i]
      /\ Append(s, b)[Len(s) + 1] = b
  BY AppendProperties
<1>2. /\ Len(s) \in Nat /\ DOMAIN s = 1..Len(s)
      /\ DOMAIN Append(s, b) = 1..Len(Append(s, b))
  BY <1>1, LenProperties
<1> QED BY <1>1, <1>2

(* release: the task that ends gives the first of its buffers back.        *)
LEMMA FinishBuffers ==
  ASSUME IType, IBuffers, NEW c \in Conn, Finish(c)
  PROVE  IBuffers'
<1>1. /\ running[c] # 0 /\ done' = [done EXCEPT ![c] = running[c]]
      /\ spare' = Append(spare, Head(held[c])) /\ buffers' = buffers
      /\ held' = [held EXCEPT ![c] = Tail(held[c])]
  BY DEF Finish, Pool!Finish
<1>2. /\ \A d \in Conn : held[d] \in Seq(DOMAIN buffers)
      /\ held \in [Conn -> Seq(DOMAIN buffers)] /\ spare \in Seq(DOMAIN buffers)
      /\ done[c] \in Nat /\ submitted[c] \in Nat
      /\ running[c] = done[c] + 1 /\ done[c] < submitted[c]
      /\ done[c] + Len(held[c]) = submitted[c]
  BY <1>1, Records, Counters DEF IType, OneBufferEach
<1>3. Len(held[c]) \in Nat /\ DOMAIN held[c] = 1..Len(held[c]) /\ Len(held[c]) # 0
  BY <1>2, LenProperties
<1>4. held[c] # << >>
  BY <1>2, <1>3, EmptySeq
<1>5. /\ Head(held[c]) \in DOMAIN buffers /\ Head(held[c]) = held[c][1]
      /\ Tail(held[c]) \in Seq(DOMAIN buffers)
      /\ Len(Tail(held[c])) = Len(held[c]) - 1
      /\ \A i \in 1..Len(Tail(held[c])) : Tail(held[c])[i] = held[c][i + 1]
  BY <1>2, <1>4, HeadTailProperties
<1>6. DOMAIN Tail(held[c]) = 1..(Len(held[c]) - 1)
  BY <1>5, LenProperties
<1>7. /\ 1 \in DOMAIN held[c]
      /\ \A i \in DOMAIN held'[c] : /\ i + 1 \in DOMAIN held[c] /\ i + 1 # 1 /\ i \in Nat
                                    /\ held'[c][i] = held[c][i + 1]
  BY <1>1, <1>2, <1>3, <1>5, <1>6
<1>8. /\ \A d \in Conn \ {c} : held'[d] = held[d] /\ done'[d] = done[d]
      /\ done'[c] = done[c] + 1
  BY <1>1, <1>2, Counters DEF IType
<1>9. /\ DOMAIN spare' = DOMAIN spare \cup {Len(spare) + 1}
      /\ spare'[Len(spare) + 1] = held[c][1]
      /\ \A i \in DOMAIN spare : spare'[i] = spare[i]
  BY <1>1, <1>2, <1>5, AppendOnce
<1>10. \A d \in Conn : \A i \in DOMAIN held'[d] :
         /\ held'[d][i] # held[c][1]
         /\ \A j \in DOMAIN spare : held'[d][i] # spare[j]
  BY <1>7, <1>8 DEF IBuffers, OneOwner
<1>11. OneOwner'
  <2>1. \A i, j \in DOMAIN spare' : spare'[i] = spare'[j] => i = j
    BY <1>7, <1>9 DEF IBuffers, OneOwner
  <2>2. \A i, j \in DOMAIN held'[c] : i + 1 = j + 1 => i = j
    BY <1>7
  <2>3. \A d, e \in Conn : \A i \in DOMAIN held'[d], j \in DOMAIN held'[e] :
          held'[d][i] = held'[e][j] => d = e /\ i = j
    BY <1>7, <1>8, <2>2 DEF IBuffers, OneOwner
  <2>4. \A d \in Conn : \A i \in DOMAIN held'[d], j \in DOMAIN spare' :
          held'[d][i] # spare'[j]
    BY <1>9, <1>10
  <2> QED BY <2>1, <2>3, <2>4 DEF OneOwner
<1>12. ChunkIntact'
  <2>1. ASSUME NEW i \in DOMAIN held'[c]
        PROVE  buffers'[held'[c][i]] = [conn |-> c, chunk |-> done'[c] + i]
    <3>1. done[c] + (i + 1) = done'[c] + i
      <4>1. i \in Nat /\ done[c] \in Nat
        BY <1>2, <1>7
      <4>2. \A m, n \in Nat : m + (n + 1) = (m + 1) + n
        OBVIOUS
      <4>3. done[c] + (i + 1) = (done[c] + 1) + i
        BY <4>1, <4>2
      <4> QED BY <1>8, <4>3
    <3>2. buffers[held[c][i + 1]] = [conn |-> c, chunk |-> done[c] + (i + 1)]
      BY <1>7 DEF IBuffers, ChunkIntact
    <3> QED BY <1>1, <1>7, <3>1, <3>2
  <2>2. ASSUME NEW d \in Conn \ {c}, NEW i \in DOMAIN held'[d]
        PROVE  buffers'[held'[d][i]] = [conn |-> d, chunk |-> done'[d] + i]
    BY <1>1, <1>8, <2>2 DEF IBuffers, ChunkIntact
  <2> QED BY <2>1, <2>2 DEF ChunkIntact
<1> QED BY <1>11, <1>12 DEF IBuffers

(* continueRead: what was read is in the last of the buffers, and the      *)
(* others keep what they hold.                                             *)
LEMMA ReadBuffers ==
  ASSUME IType, IBuffers, NEW c \in Conn, ContinueRead(c)
  PROVE  IBuffers'
<1>1. /\ \A d \in Conn : held[d] \in Seq(DOMAIN buffers)
      /\ held \in [Conn -> Seq(DOMAIN buffers)]
      /\ \A d \in Conn : DOMAIN held[d] = 1..Len(held[d]) /\ Len(held[d]) \in Nat
      /\ \A d \in Conn : \A i \in DOMAIN held[d] : held[d][i] \in DOMAIN buffers
      /\ Polled \in Seq(DOMAIN buffers) /\ TypeOK
  BY Records, Leasing, LenProperties, ElementOfSeq DEF IType
<1>2. CASE /\ arrived[c] > 0 /\ arrived' = [arrived EXCEPT ![c] = @ - 1]
           /\ Pool!Submit(c)
           /\ ReadInto(Leased, [conn |-> c, chunk |-> sent[c] - arrived'[c]])
           /\ spare' = Polled
           /\ held' = [held EXCEPT ![c] = Append(@, Leased)]
  <2> DEFINE read == [conn |-> c, chunk |-> sent[c] - arrived'[c]]
             last == Len(held[c]) + 1
  <2>1. /\ done[c] + last = sent[c] - arrived'[c] /\ sent[c] - arrived'[c] \in Nat
    <3>1. /\ arrived[c] \in Nat /\ submitted[c] \in Nat /\ done[c] \in Nat
          /\ sent[c] \in Nat /\ Len(held[c]) \in Nat
          /\ submitted[c] + arrived[c] = sent[c]
          /\ done[c] + Len(held[c]) = submitted[c] /\ arrived'[c] = arrived[c] - 1
      BY <1>1, <1>2, Counters DEF OneBufferEach, IType
    <3>2. /\ sent[c] - (arrived[c] - 1) = submitted[c] + 1
          /\ done[c] + last = submitted[c] + 1
      BY <3>1
    <3> QED BY <3>1, <3>2
  <2>2. /\ DOMAIN buffers \subseteq DOMAIN buffers' /\ Leased \in DOMAIN buffers'
        /\ buffers'[Leased] = read
        /\ \A b \in DOMAIN buffers : b # Leased => buffers'[b] = buffers[b]
    <3>1. read \in Contents
      BY <2>1 DEF Contents
    <3> QED BY <1>1, <1>2, <3>1, Filling
  <2>3. held[c] \in Seq(DOMAIN buffers')
    BY <1>1, <2>2, SeqMonotonic
  <2>4. /\ DOMAIN Append(held[c], Leased) = DOMAIN held[c] \cup {last}
        /\ Append(held[c], Leased)[last] = Leased
        /\ \A i \in DOMAIN held[c] : Append(held[c], Leased)[i] = held[c][i]
    BY <2>2, <2>3, AppendOnce
  <2>5. /\ DOMAIN held'[c] = DOMAIN held[c] \cup {last} /\ held'[c][last] = Leased
        /\ \A i \in DOMAIN held[c] : held'[c][i] = held[c][i]
        /\ \A d \in Conn \ {c} : held'[d] = held[d]
    BY <1>1, <1>2, <2>4
  <2> HIDE DEF last
  <2>6. \A d \in Conn : \A i \in DOMAIN held'[d] :
          \/ d = c /\ i = last /\ held'[d][i] = Leased
          \/ i \in DOMAIN held[d] /\ held'[d][i] = held[d][i]
    BY <2>5
  <2>7. OneOwner'
    <3>1. \A i, j \in DOMAIN spare' : spare'[i] = spare'[j] => i = j
      BY <1>2, LeasedAlone DEF IBuffers
    <3>2. \A d, e \in Conn : \A i \in DOMAIN held'[d], j \in DOMAIN held'[e] :
            held'[d][i] = held'[e][j] => d = e /\ i = j
      BY <2>6, LeasedAlone DEF IBuffers, OneOwner
    <3>3. \A d \in Conn : \A i \in DOMAIN held'[d], j \in DOMAIN spare' :
            held'[d][i] # spare'[j]
      BY <1>2, <2>6, LeasedAlone DEF IBuffers
    <3> QED BY <3>1, <3>2, <3>3 DEF OneOwner
  <2>8. ChunkIntact'
    <3>1. done' = done
      BY <1>2 DEF Pool!Submit
    <3>2. ASSUME NEW d \in Conn, NEW i \in DOMAIN held'[d]
          PROVE  buffers'[held'[d][i]] = [conn |-> d, chunk |-> done[d] + i]
      <4>1. CASE d = c /\ i = last /\ held'[d][i] = Leased
        BY <2>1, <2>2, <4>1
      <4>2. CASE i \in DOMAIN held[d] /\ held'[d][i] = held[d][i]
        <5>1. held[d][i] # Leased
          BY <4>2, LeasedAlone DEF IBuffers
        <5>2. buffers'[held[d][i]] = buffers[held[d][i]]
          BY <1>1, <2>2, <4>2, <5>1
        <5> QED BY <4>2, <5>2 DEF IBuffers, ChunkIntact
      <4> QED BY <2>6, <4>1, <4>2
    <3> QED BY <3>1, <3>2 DEF ChunkIntact
  <2> QED BY <2>7, <2>8 DEF IBuffers
<1>3. CASE /\ buffers' = IF spare = << >> THEN Append(buffers, None) ELSE buffers
           /\ spare' = Append(Polled, Leased)
           /\ UNCHANGED <<arrived, held, pool>>
  <2>1. /\ DOMAIN buffers \subseteq DOMAIN buffers' /\ Leased \in DOMAIN buffers'
        /\ \A b \in DOMAIN buffers : buffers'[b] = buffers[b]
    <3>1. None \in Contents
      BY DEF Contents
    <3> QED BY <1>1, <1>3, <3>1, Growth, Leasing
  <2>2. Polled \in Seq(DOMAIN buffers')
    BY <1>1, <2>1, SeqMonotonic
  <2>3. /\ DOMAIN spare' = DOMAIN Polled \cup {Len(Polled) + 1}
        /\ spare'[Len(Polled) + 1] = Leased
        /\ \A i \in DOMAIN Polled : spare'[i] = Polled[i]
    BY <1>3, <2>1, <2>2, AppendOnce
  <2>4. OneOwner'
    <3>1. \A i, j \in DOMAIN spare' : spare'[i] = spare'[j] => i = j
      BY <2>3, LeasedAlone DEF IBuffers
    <3>2. \A d \in Conn : \A i \in DOMAIN held[d], j \in DOMAIN spare' :
            held[d][i] # spare'[j]
      BY <2>3, LeasedAlone DEF IBuffers
    <3> QED BY <1>3, <3>1, <3>2 DEF IBuffers, OneOwner
  <2>5. ChunkIntact'
    BY <1>1, <1>3, <2>1 DEF IBuffers, ChunkIntact, pool
  <2> QED BY <2>4, <2>5 DEF IBuffers
<1> QED BY <1>2, <1>3 DEF ContinueRead

(* Every step keeps the buffers apart and their chunks.                    *)
LEMMA NextBuffers ==
  ASSUME IType, IBuffers, [Next]_vars
  PROVE  IBuffers'
<1>1. ASSUME UNCHANGED bufs, done' = done PROVE IBuffers'
  BY <1>1 DEF bufs, IBuffers, OneOwner, ChunkIntact
<1>2. CASE UNCHANGED vars
  BY <1>1, <1>2 DEF vars, pool
<1>3. ASSUME NEW c \in Conn, Peer(c) PROVE IBuffers'
  BY <1>1, <1>3 DEF Peer, PeerSends, PeerLeaves, pool
<1>4. ASSUME NEW c \in Conn, Task(c) PROVE IBuffers'
  <2>1. CASE Finish(c)
    BY <2>1, FinishBuffers
  <2>2. CASE ~Finish(c)
    BY <1>1, <1>4, <2>2 DEF Task, Start, Produce, Post, Wakeup, Pool!Start, pool
  <2> QED BY <2>1, <2>2
<1>5. ASSUME NEW c \in Conn, ContinueRead(c) PROVE IBuffers'
  BY <1>5, ReadBuffers
<1>6. CASE MainLoop
  <2>1. ASSUME NEW c \in Conn,
               HandleAccept(c) \/ ContinueWrite(c)
                 \/ \E op \in {"read", "write"} : SkipKey(c, op)
        PROVE  IBuffers'
    BY <1>1, <2>1 DEF HandleAccept, ContinueWrite, SkipKey, pool
  <2>2. CASE \/ Select \/ RunTask \/ TasksDone \/ WriteAll \/ WritePart \/ WriteFails
             \/ WriteEmpty \/ WriteEnd \/ Disarm \/ KeysDone
    BY <1>1, <2>2 DEF Select, RunTask, TasksDone, WriteAll, WritePart, WriteFails,
       WriteEmpty, WriteEnd, Disarm, KeysDone, pool
  <2> QED BY <1>5, <1>6, <2>1, <2>2 DEF MainLoop
<1> QED BY <1>2, <1>3, <1>4, <1>6 DEF Next

(* A task decodes the bytes that were read for it, for any number of       *)
(* connections, chunks and buffers: no buffer is held twice, or held and   *)
(* in BUFFER_POOL.                                                         *)
THEOREM ChunkKept == Spec => []ChunkIntact
<1>1. Init => IBuffers
  <2> SUFFICES ASSUME Init PROVE IBuffers
    OBVIOUS
  <2>1. DOMAIN spare = {} /\ \A c \in Conn : DOMAIN held[c] = {}
    BY DEF Init
  <2> QED BY <2>1 DEF IBuffers, OneOwner, ChunkIntact
<1>2. IType /\ IBuffers /\ [Next]_vars => IBuffers'
  BY NextBuffers
<1>3. IBuffers => ChunkIntact
  BY DEF IBuffers
<1> QED BY <1>1, <1>2, <1>3, TypeInvariant, PTL DEF Spec
=============================================================================
