---------------------------- MODULE StompSession ----------------------------
(***************************************************************************)
(* One session of the C++ client with the server: the three threads of     *)
(* StompClient.cpp around a StompProtocol, the two byte streams of the     *)
(* socket, and at the other end the decoder and protocol object of the     *)
(* connection.                                                             *)
(*                                                                         *)
(* Bytes travel in pieces.  The names of commands in capitals are the      *)
(* lines a frame of the client starts with, up to its first name; those in *)
(* small letters are the same words where they stand in a name; "passcode" *)
(* and "id" are the header that follows a name, "nl" line ends, "^" that   *)
(* byte, "@" the @ and the line ends after it, "text" any other part of a  *)
(* name and "long" one of more bytes than the decoder has room for.        *)
(*                                                                         *)
(* The client reads lines: "CONNECTED" and "ERROR" are those that contain  *)
(* the word, "other" one or more that have no meaning for it.              *)
(***************************************************************************)
EXTENDS Naturals, Sequences, FiniteSets

CONSTANTS Topic,           \* what the user may name as a topic
          Credential,      \* the pairs of a login and a passcode
          Spelling,        \* the pieces of each of these names
          Brief,           \* topics that name a user, in less than 11 bytes
          MaxCommands,     \* bound: the lines that may do something
          MaxBroadcasts,   \* bound: the messages of other clients
          None

Own == {"CONNECT", "SUBSCRIBE", "UNSUBSCRIBE", "SEND", "DISCONNECT"}
Words == {"connect", "subscribe", "unsubscribe", "send", "disconnect"}
NamePiece == Words \cup {"^", "text", "long"}
Piece == Own \cup NamePiece \cup {"passcode", "id", "nl", "@"}
Line == {"CONNECTED", "ERROR", "other"}

Named == Topic \cup {c[1] : c \in Credential} \cup {c[2] : c \in Credential}

ASSUME SessionAssumption ==
  /\ Named \subseteq DOMAIN Spelling
  /\ \A n \in Named : Spelling[n] \in Seq(NamePiece)
  /\ \A c \in Credential : c = <<c[1], c[2]>>
  /\ \A t \in Topic : Spelling[t] # << >>
  /\ Brief \subseteq Topic /\ None \notin Topic
  /\ MaxCommands \in Nat /\ MaxBroadcasts \in Nat

VARIABLES
  hostAccepted,      \* never changes: the host of the CONNECT is 127.0.0.1,
  credential,        \* the login and the passcode of the command line,
  threadPerClient,   \* and which of the two servers is at the other end
  up, down,          \* the pieces to the server, the lines to the client
  served,            \* the server has the connection open
  active,            \* activeClients has it
  loggedIn,          \* loginID has it
  buffer,            \* the decoder's byteBuffer
  overflown,         \* it has no room left
  response,          \* what process returned and was not written yet
  broadcasts,        \* how many messages of other clients came
  heard,             \* history: the commands process has recognized
  torn,              \* history: an exception has dropped unread bytes
  main, input, socket,  \* where the three threads of the client are
  command,           \* what the user typed
  typed,             \* how many lines that was
  protocolMutex,     \* the thread that holds it
  isConnected, subscriptionIds, eventsByChannel,  \* StompProtocol
  terminateProgram,
  orderly            \* history: no topic was joined twice, and none left
                     \* but the one joined last

setup == <<hostAccepted, credential, threadPerClient>>
wire == <<up, down>>
decoder == <<buffer, overflown>>
server == <<served, active, loggedIn, decoder, response, broadcasts, heard, torn>>
threads == <<main, input, socket>>
keyboard == <<command, typed>>
protocol == <<isConnected, subscriptionIds, eventsByChannel, orderly>>
client == <<threads, keyboard, protocolMutex, protocol, terminateProgram>>
session == <<wire, server, client>>
vars == <<setup, session>>

NoCommand == [word |-> "none", topic |-> None]
Typed == [word : {"join", "exit", "report", "summary"}, topic : Topic]
           \cup [word : {"short", "nothing", "logout"}, topic : {None}]

Init ==
  /\ hostAccepted \in BOOLEAN /\ credential \in Credential
  /\ threadPerClient \in BOOLEAN
  /\ up = << >> /\ down = << >>
  /\ served = FALSE /\ active = FALSE /\ loggedIn = FALSE
  /\ buffer = << >> /\ overflown = FALSE
  /\ response = << >> /\ broadcasts = 0
  /\ heard = << >> /\ torn = FALSE
  /\ main = "dial" /\ input = "none" /\ socket = "none"
  /\ command = NoCommand /\ typed = 0
  /\ protocolMutex = None
  /\ isConnected = FALSE
  /\ subscriptionIds = [t \in Topic |-> 0]
  /\ eventsByChannel = [t \in Topic |-> 0]
  /\ terminateProgram = FALSE
  /\ orderly = TRUE

-----------------------------------------------------------------------------
(* The server's end.                                                       *)

Running == main \notin {"ended", "failed", "aborted"}

(* What is left of a piece of which a read took the first bytes.           *)
Tails(p) ==
  CASE p = "DISCONNECT" -> {"connect", "text", "nl"}
    [] p = "UNSUBSCRIBE" -> {"subscribe", "text", "nl"}
    [] p = "disconnect" -> {"connect", "text"}
    [] p = "unsubscribe" -> {"subscribe", "text"}
    [] p = "id" -> {"text", "nl"}
    [] p = "text" -> {"text"} \cup Words
    [] p = "long" -> {"text", "long"} \cup Words
    [] p = "@" -> {"nl"}
    [] p \in {"^", "nl"} -> {}
    [] OTHER -> {"text"}

(* The stream behind a read that took n pieces, and perhaps a part of the  *)
(* next, which is all the same to a decoder that has no room.              *)
After(n) ==
  LET rest == SubSeq(up, n + 1, Len(up))
  IN {rest} \cup IF rest = << >> \/ overflown THEN {}
                 ELSE {<<p>> \o Tail(rest) : p \in Tails(Head(rest))}

(* An exception ends a thread per client, which closes the socket.  Under  *)
(* the reactor it ends the task, and with it what was read of the socket.  *)
ThrowsOpen ==  \* mutant: the thread ends and leaves the socket open
  /\ \E n \in 1..Len(up) : up' \in After(n)
  /\ torn' = (torn \/ up' # Tail(up))
  /\ UNCHANGED served

ThrowsUnread ==  \* mutant: the bytes that were read are read again
  /\ served' = ~threadPerClient
  /\ UNCHANGED <<up, torn>>

Throws ==
  /\ served' = ~threadPerClient
  /\ IF threadPerClient THEN up' = << >> ELSE \E n \in 1..Len(up) : up' \in After(n)
  /\ torn' = (torn \/ up' # Tail(up))

(* process(message) looks for a command in the first line only.            *)
HeardUnchecked(message) ==  \* mutant: the first line, whatever it is
  IF message # << >> THEN <<Head(message)>> ELSE << >>
Heard(message) ==
  IF message # << >> /\ Head(message) \in Own \cup Words THEN <<Head(message)>> ELSE << >>

Has(message, p) == \E i \in DOMAIN message : message[i] = p
Is(message, commands) == message # << >> /\ Head(message) \in commands
(* split gives no line at all for line ends.                               *)
Blank(message) == message # << >> /\ \A i \in DOMAIN message : message[i] = "nl"

(* The handlers.  A word in a name has none of the headers of the frame,   *)
(* but for the id behind the topic of a SUBSCRIBE.                         *)
Accepted(message) == Is(message, {"CONNECT"}) /\ Has(message, "passcode") /\ hostAccepted
Subscribes(message) == Is(message, {"SUBSCRIBE"}) /\ Has(message, "id") /\ loggedIn
Unsubscribes(message) ==
  Is(message, {"UNSUBSCRIBE"}) \/ (Is(message, {"unsubscribe"}) /\ Has(message, "id"))

(* disconnect throws for a connection that never logged in.  Then handlers *)
(* return an error frame, which has no ERROR in it.                        *)
Disconnects(message) ==
  \/ Is(message, {"CONNECT", "connect"}) /\ ~Accepted(message)
  \/ Unsubscribes(message)
  \/ Is(message, {"SEND"})

(* A null header or a missing entry is a null key of a ConcurrentHashMap.  *)
Fails(message) ==
  \/ Blank(message)
  \/ Disconnects(message) /\ active /\ ~loggedIn
  \/ Is(message, {"SUBSCRIBE"}) /\ ~Subscribes(message)
  \/ Unsubscribes(message) \/ Is(message, {"unsubscribe"})
  \/ Is(message, {"subscribe", "send", "DISCONNECT", "disconnect"})

(* The lines of a MESSAGE; its destination may hold a word with a meaning. *)
Messages == {<<"other", l, "other">> : l \in Line}

(* What is written when a handler returns; a publisher that is subscribed  *)
(* gets its MESSAGE from the broadcast, too.                               *)
Replies(message) ==
  CASE Accepted(message) -> {<<"CONNECTED", "other">>}
    [] Subscribes(message) \/ Unsubscribes(message) -> {<<"other">>}
    [] Is(message, {"SEND"}) -> Messages \cup {m \o m : m \in Messages}
    [] Heard(message) = << >> /\ ~Blank(message) -> {<< >>}
    [] OTHER -> {}

(* Mutant: the put into loginID is missing.                                *)
AnsweredOnly(connect) == UNCHANGED loggedIn
LoggedIn(connect) == loggedIn' = (loggedIn \/ connect)

(* The task goes on with the next byte of its chunk.                       *)
ReadsOne ==  \* mutant: a chunk is decoded up to its first message only
  \E n \in 1..Len(up) : up' = SubSeq(up, n + 1, Len(up))
ReadsOn == up' = Tail(up)

Goes(lines) == response' = lines /\ ReadsOn /\ UNCHANGED <<served, torn>>

Process(message) ==
  /\ heard' = heard \o Heard(message)
  /\ LoggedIn(Accepted(message))
  /\ \/ \E lines \in Replies(message) : Goes(lines) /\ UNCHANGED active
     \/ Disconnects(message) /\ (active => loggedIn) /\ Goes(<<"other">>) /\ active' = FALSE
     \/ Fails(message) /\ Throws /\ UNCHANGED <<active, response>>

(* decodeNextByte; put throws on a full buffer, for this byte and for all  *)
(* that follow.                                                            *)
Decode ==
  /\ served /\ up # << >> /\ response = << >>
  /\ LET p == Head(up) IN
       \/ /\ overflown \/ p = "long"
          /\ overflown' = TRUE
          /\ Throws
          /\ UNCHANGED <<buffer, active, loggedIn, heard, response>>
       \/ /\ ~overflown /\ p = "^"
          /\ Process(buffer)
          /\ buffer' = << >>
          /\ UNCHANGED overflown
       \/ /\ ~overflown /\ p \notin {"^", "long"}
          /\ up' = Tail(up)
          /\ buffer' = Append(buffer, p)
          /\ UNCHANGED <<served, torn, overflown, active, loggedIn, heard, response>>
  /\ UNCHANGED <<down, broadcasts, client>>

(* The handler writes the response; a write to a client that is gone may   *)
(* fail, which closes the connection.                                      *)
Respond ==
  /\ served /\ response # << >>
  /\ \/ down' = down \o response /\ UNCHANGED served
     \/ ~Running /\ served' = FALSE /\ UNCHANGED down
  /\ response' = << >>
  /\ UNCHANGED <<up, active, loggedIn, decoder, broadcasts, heard, torn, client>>

(* Another client publishes to a channel that has the login, subscribed by *)
(* whom and when ever.                                                     *)
Broadcast ==
  /\ served /\ active /\ loggedIn /\ broadcasts < MaxBroadcasts
  /\ \E m \in Messages : down' = down \o m
  /\ broadcasts' = broadcasts + 1
  /\ UNCHANGED <<up, served, active, loggedIn, decoder, response, heard, torn, client>>

(* The end of the stream.                                                  *)
ServerCloses ==
  /\ served /\ up = << >> /\ response = << >> /\ ~Running
  /\ served' = FALSE
  /\ UNCHANGED <<wire, active, loggedIn, decoder, response, broadcasts, heard, torn, client>>

-----------------------------------------------------------------------------
(* sendLine: the bytes of a frame, or a failure.  A socket that the server *)
(* has closed may still take them.                                         *)

Login == credential[1]
Passcode == credential[2]

(* A report is sent with the rest of its line as topic and as message: the *)
(* search for the second space, from position 5, finds the first.          *)
Body(verb, t) ==
  CASE verb = "CONNECT" ->
         Spelling[Login] \o <<"passcode">> \o Spelling[Passcode] \o <<"nl">>
    [] verb = "SUBSCRIBE" -> Spelling[t] \o <<"id">>
    [] verb = "SEND" -> Spelling[t] \o <<"nl">> \o Spelling[t] \o <<"nl">>
    [] OTHER -> << >>
Frame(verb, t) == <<verb>> \o Body(verb, t) \o <<"^", "@">>

Send(verb, t) == up' = IF served THEN up \o Frame(verb, t) ELSE up
SendFails == ~served /\ UNCHANGED up

-----------------------------------------------------------------------------
(* The main thread: the connect of the socket, that of StompProtocol, then *)
(* the joins.                                                              *)

Dial ==
  /\ main = "dial"
  /\ \/ /\ main' = "connect" /\ protocolMutex' = "main"
        /\ served' = TRUE /\ active' = TRUE
     \/ main' = "failed" /\ UNCHANGED <<served, active, protocolMutex>>
  /\ UNCHANGED <<wire, loggedIn, decoder, response, broadcasts, heard, torn, input, socket,
                 keyboard, protocol, terminateProgram>>

Aborted == main' = "aborted" /\ input' = "done" /\ socket' = "done"

(* buildConnectMessage throws for an empty login or passcode.              *)
SendConnect ==
  /\ main = "connect"
  /\ IF << >> \in {Spelling[Login], Spelling[Passcode]} THEN Aborted /\ UNCHANGED up
     ELSE /\ Send("CONNECT", None) \/ SendFails
          /\ main' = "connectAgain" /\ UNCHANGED <<input, socket>>
  /\ UNCHANGED <<down, server, keyboard, protocolMutex, protocol, terminateProgram>>

SendConnectAgain ==
  /\ main = "connectAgain"
  /\ \/ Send("CONNECT", None) /\ main' = "answer"
     \/ SendFails /\ main' = "failed"
  /\ UNCHANGED <<down, server, input, socket, keyboard, protocolMutex, protocol,
                 terminateProgram>>

Answer ==
  /\ main = "answer"
  /\ \/ /\ down # << >> /\ Head(down) = "CONNECTED"
        /\ down' = Tail(down)
        /\ isConnected' = TRUE
        /\ main' = "join"
        /\ input' = "check" /\ socket' = "check"
     \/ /\ IF down = << >> THEN ~served ELSE Head(down) # "CONNECTED"
        /\ main' = "failed"
        /\ UNCHANGED <<down, isConnected, input, socket>>
  /\ protocolMutex' = None
  /\ UNCHANGED <<up, server, keyboard, subscriptionIds, eventsByChannel, orderly,
                 terminateProgram>>

Join ==
  /\ input = "done" /\ socket = "done"
  /\ main' = "ended"
  /\ UNCHANGED <<wire, server, input, socket, keyboard, protocolMutex, protocol,
                 terminateProgram>>

-----------------------------------------------------------------------------
(* inputThread                                                             *)

Input(l) == input' = l /\ UNCHANGED <<main, socket>>

InputCheck ==
  /\ input = "check"
  /\ Input(IF terminateProgram THEN "done" ELSE "getline")
  /\ UNCHANGED <<wire, server, keyboard, protocolMutex, protocol, terminateProgram>>

(* The user types a line; after MaxCommands of them only lines that do     *)
(* nothing, as at the end of the standard input.                           *)
Type(k) ==
  /\ input = "getline"
  /\ typed < MaxCommands \/ k.word = "nothing"
  /\ command' = k
  /\ typed' = IF typed < MaxCommands THEN typed + 1 ELSE typed
  /\ Input(IF k.word \in {"short", "summary", "nothing"} THEN k.word ELSE "lock")
  /\ UNCHANGED <<wire, server, protocolMutex, protocol, terminateProgram>>

(* substr throws out_of_range on a join or an exit that is too short, and  *)
(* a builder on an empty topic; nothing catches it: the program aborts.    *)
Abort ==
  /\ input = "short"
  /\ Aborted
  /\ UNCHANGED <<wire, server, keyboard, protocolMutex, protocol, terminateProgram>>

(* summarize reads the reports on a channel.  One that names the user and  *)
(* has no description is cut from position npos + 12, which is 11.         *)
Summarize ==
  /\ input = "summary" /\ protocolMutex = None
  /\ \/ Input("check")
     \/ eventsByChannel[command.topic] > 0 /\ command.topic \in Brief /\ Aborted
  /\ UNCHANGED <<wire, server, keyboard, protocolMutex, protocol, terminateProgram>>

(* An unknown command.                                                     *)
Nothing ==
  /\ input = "nothing"
  /\ Input("check")
  /\ UNCHANGED <<wire, server, keyboard, protocolMutex, protocol, terminateProgram>>

Word(w) == command.word = w
Subscribed(t) == subscriptionIds[t] # 0

(* subscribe and the tests of the other commands, under protocolMutex.     *)
Size == Cardinality({t \in Topic : Subscribed(t)})
SameId == IF Size = 0 THEN 1 ELSE Size  \* mutant: numbered from the last one
NewId == Size + 1

Lock ==
  /\ input = "lock" /\ protocolMutex = None
  /\ LET t == command.topic
         go == /\ isConnected
               /\ Word("exit") \/ Word("report") => Subscribed(t)
     IN /\ subscriptionIds' = IF go /\ Word("join")
                              THEN [subscriptionIds EXCEPT ![t] = NewId]
                              ELSE subscriptionIds
        /\ orderly' = (orderly /\ ~ (go /\ Word("join") /\ Subscribed(t)))
        /\ protocolMutex' = IF go THEN "input" ELSE None
        /\ Input(IF ~go THEN IF Word("logout") THEN "terminate" ELSE "check"
                 ELSE IF Word("exit") \/ Word("logout") THEN "first" ELSE "send")
  /\ UNCHANGED <<wire, server, keyboard, isConnected, eventsByChannel,
                 terminateProgram>>

VerbOf == CASE Word("join") -> "SUBSCRIBE"
            [] Word("exit") -> "UNSUBSCRIBE"
            [] Word("report") -> "SEND"
            [] OTHER -> "DISCONNECT"
NameSent == IF Word("join") \/ Word("report") THEN command.topic ELSE None

(* unsubscribe and disconnect send their frame twice and look at the       *)
(* result of the second time only.                                         *)
SendFirst ==
  /\ input = "first"
  /\ Send(VerbOf, NameSent) \/ SendFails
  /\ Input("send")
  /\ UNCHANGED <<down, server, keyboard, protocolMutex, protocol, terminateProgram>>

Unlock == /\ protocolMutex' = None
          /\ Input(IF Word("logout") THEN "terminate" ELSE "check")

SendAndUnlock ==
  /\ input = "send"
  /\ \/ /\ Send(VerbOf, NameSent)
        /\ isConnected' = (isConnected /\ ~Word("logout"))
        /\ subscriptionIds' = [t \in Topic |->
             IF Word("logout") \/ (Word("exit") /\ t = command.topic)
             THEN 0 ELSE subscriptionIds[t]]
        /\ eventsByChannel' = IF Word("report")
             THEN [eventsByChannel EXCEPT ![command.topic] = @ + 1]
             ELSE eventsByChannel
        /\ orderly' = (orderly /\ (Word("exit") => subscriptionIds[command.topic] = Size))
     \/ SendFails /\ UNCHANGED protocol
  /\ Unlock
  /\ UNCHANGED <<down, server, keyboard, terminateProgram>>

(* After disconnect, whatever it did.                                      *)
Terminate ==
  /\ input = "terminate"
  /\ terminateProgram' = TRUE
  /\ Input("check")
  /\ UNCHANGED <<wire, server, keyboard, protocolMutex, protocol>>

InputThread == \/ InputCheck \/ Abort \/ Summarize \/ Nothing \/ Lock \/ SendFirst
               \/ SendAndUnlock \/ Terminate

-----------------------------------------------------------------------------
(* socketThread                                                            *)

Socket(l) == socket' = l /\ UNCHANGED <<main, input>>

SocketCheck ==
  /\ socket = "check"
  /\ Socket(IF terminateProgram THEN "done" ELSE "getLine")
  /\ UNCHANGED <<wire, server, keyboard, protocolMutex, protocol, terminateProgram>>

(* A line with an ERROR ends the session, whatever it is a part of.        *)
GetLine ==
  /\ socket = "getLine" /\ down # << >>
  /\ down' = Tail(down)
  /\ Socket(IF Head(down) = "other" THEN "process" ELSE "check")
  /\ terminateProgram' = (terminateProgram \/ Head(down) = "ERROR")
  /\ UNCHANGED <<up, server, keyboard, protocolMutex, protocol>>

(* Mutant: the loop is left, the other thread is not told.                 *)
EndOfStreamUntold ==
  /\ socket = "getLine" /\ down = << >> /\ ~served
  /\ Socket("done")
  /\ UNCHANGED <<wire, server, keyboard, protocolMutex, protocol, terminateProgram>>

EndOfStream ==
  /\ socket = "getLine" /\ down = << >> /\ ~served
  /\ terminateProgram' = TRUE
  /\ Socket("done")
  /\ UNCHANGED <<wire, server, keyboard, protocolMutex, protocol>>

(* StompProtocol::process prints the line, under protocolMutex.            *)
ProcessLine ==
  /\ socket = "process" /\ protocolMutex = None
  /\ Socket("check")
  /\ UNCHANGED <<wire, server, keyboard, protocolMutex, protocol, terminateProgram>>

SocketThread == SocketCheck \/ GetLine \/ EndOfStream \/ ProcessLine

-----------------------------------------------------------------------------
MainThread == Dial \/ SendConnect \/ SendConnectAgain \/ Answer \/ Join
Server == Decode \/ Respond \/ ServerCloses

Next == /\ \/ MainThread \/ InputThread \/ SocketThread \/ Server \/ Broadcast
           \/ \E k \in Typed : Type(k)
        /\ UNCHANGED setup

(* The threads of both ends run, and the user goes on typing lines: the    *)
(* inputThread either waits for a line or takes a step of its own.         *)
Fairness == /\ WF_session(MainThread)
            /\ WF_session(InputThread \/ \E k \in Typed : Type(k))
            /\ WF_session(SocketThread) /\ WF_session(Server)

Spec == Init /\ [][Next]_vars /\ Fairness

-----------------------------------------------------------------------------
TypeOK ==
  /\ hostAccepted \in BOOLEAN /\ credential \in Credential /\ threadPerClient \in BOOLEAN
  /\ up \in Seq(Piece) /\ down \in Seq(Line)
  /\ served \in BOOLEAN /\ active \in BOOLEAN /\ loggedIn \in BOOLEAN
  /\ buffer \in Seq(Piece) /\ overflown \in BOOLEAN
  /\ response \in Seq(Line) /\ broadcasts \in 0..MaxBroadcasts
  /\ heard \in Seq(Own \cup Words) /\ torn \in BOOLEAN
  /\ main \in {"dial", "connect", "connectAgain", "answer", "join", "ended", "failed",
              "aborted"}
  /\ input \in {"none", "check", "getline", "short", "summary", "nothing", "lock",
               "first", "send", "terminate", "done"}
  /\ socket \in {"none", "check", "getLine", "process", "done"}
  /\ command \in Typed \cup {NoCommand} /\ typed \in 0..MaxCommands
  /\ protocolMutex \in {"main", "input", None}
  /\ isConnected \in BOOLEAN /\ terminateProgram \in BOOLEAN /\ orderly \in BOOLEAN
  /\ subscriptionIds \in [Topic -> Nat] /\ eventsByChannel \in [Topic -> Nat]

(* A client that takes itself for connected is logged in at the server,    *)
(* although it has sent its CONNECT twice and waits for one answer, and    *)
(* lines of other clients' messages may come before that answer.           *)
ConnectedIsLoggedIn == isConnected => loggedIn

(* As long as no exception has dropped bytes under the reactor, the server *)
(* recognizes of the frames of the client the first CONNECT alone, whatever *)
(* the user does: what is left of one frame, the @, comes before the       *)
(* command of the next.  Words behind a ^ in a name it does recognize.     *)
OnlyFirstHeard ==
  ~torn => \A i \in DOMAIN heard : IF i = 1 THEN heard[i] = "CONNECT" ELSE heard[i] \in Words

(* As long as the user joins no topic twice and leaves them in the opposite *)
(* order, the topics subscribed at one time have different ids, though an  *)
(* id is only the number of topics plus one and is given again after an    *)
(* exit.                                                                   *)
DistinctIds ==
  orderly => \A t, u \in Topic :
    Subscribed(t) /\ subscriptionIds[t] = subscriptionIds[u] => t = u

(* A CONNECT of which the reactor's server reads all the headers before a  *)
(* message ends or the decoder is full.                                    *)
Readable ==
  /\ ~Has(Spelling[Login], "^")
  /\ ~Has(Spelling[Login], "long") /\ ~Has(Spelling[Passcode], "long")

(* The login of the client comes to an end, with a server that closes the  *)
(* connection of a CONNECT it cannot process, or with one that accepts its *)
(* host and can read its CONNECT: connect waits for its answer with no     *)
(* timeout and the mutex held.                                             *)
ConnectReturns ==
  threadPerClient \/ (hostAccepted /\ Readable) =>
    (main = "dial" ~> main \notin {"dial", "connect", "connectAgain", "answer"})

(* The server gives the connection of a client that is gone up, even one   *)
(* whose decoder throws on every byte.                                     *)
ServerLetsGo == ~Running ~> ~served

(* When the server closes the connection, both threads of the client end,  *)
(* whichever of them was waiting, and the main thread joins them.          *)
ClientEnds == ~served /\ main # "dial" ~> ~Running

(* What the comment of the decoder says: a message ends at the end of a    *)
(* frame, so the next frame starts a message.                              *)
FrameStartsMessage == \A i \in DOMAIN buffer : buffer[i] \in Own => i = 1

(* After a logout the client ends.                                         *)
LogoutEnds == terminateProgram ~> ~Running

=============================================================================
