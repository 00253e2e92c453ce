------------------------------ MODULE EchoSockets ------------------------------
(***************************************************************************)
(* emscripten_sockets: the clients of client.cpp and the echo server of    *)
(* server.cpp.                                                             *)
(*                                                                         *)
(* There are three clients with a socket each: the page, which sends when  *)
(* a function is called and receives in a callback; a thread, which        *)
(* retries until it has sent, received and sent again; and the native      *)
(* program, which sends and closes. The server serves one at a time.       *)
(*                                                                         *)
(* A message is a few bytes and a NUL. TCP keeps the bytes but not the     *)
(* messages: the server reads any number of the bytes that are there into  *)
(* client_message and writes back what strlen() finds in it. A byte of a   *)
(* message is the number of the message in its socket.                     *)
(***************************************************************************)
EXTENDS Integers, Sequences

CONSTANTS
  MessageLength,  \* strlen(message)
  BufferSize,     \* of client_message, and of server_reply
  MaxSends        \* bound: messages that the page sends

VARIABLES
  gSocket,       \* g_socket: 0, -1, 1, or "page"
  threadPhase,   \* where the thread of run_sendReceiveInThread() is
  nativePhase,   \* where testConnect() is
  conn,          \* conn[s]: the connection of socket s
  up,            \* up[s]: bytes on their way to the server
  down,          \* down[s]: bytes on their way to the client
  backlog,       \* connections that wait to be accepted
  serving,       \* client_sock
  clientMessage, \* client_message, and a NUL behind it
  serverUp,      \* the server was not killed by writing to a connection that is gone
  sends,         \* history: sends[s]: messages sent on socket s
  got,           \* history: got[s]: bytes received on socket s
  ragged         \* history: the server has read less or more than one message at once

page == <<gSocket>>
streams == <<up, down, got>>
server == <<backlog, serving, clientMessage, serverUp, ragged>>
vars == <<page, threadPhase, nativePhase, conn, streams, server, sends>>

Sockets == {"page", "thread", "native"}
Nobody == "nobody"
Nul == 0
Junk == -1

TypeOK ==
  /\ gSocket \in {"0", "-1", "1", "page"}
  /\ threadPhase \in {"idle", "send", "recv", "send again", "done"}
  /\ nativePhase \in {"idle", "send", "close", "done"}
  /\ conn \in [Sockets -> {"none", "connecting", "open", "closed", "reset"}]
  /\ up \in [Sockets -> Seq(Nat)]
  /\ down \in [Sockets -> Seq(Int)]
  /\ backlog \in Seq(Sockets)
  /\ serving \in Sockets \cup {Nobody}
  /\ Len(clientMessage) = BufferSize + 1
  /\ serverUp \in BOOLEAN
  /\ sends \in [Sockets -> Nat]
  /\ got \in [Sockets -> Seq(Int)]
  /\ ragged \in BOOLEAN

\* the server listens; client_message is on the stack, with any content
Init ==
  /\ gSocket = "0"
  /\ threadPhase = "idle"
  /\ nativePhase = "idle"
  /\ conn = [s \in Sockets |-> "none"]
  /\ up = [s \in Sockets |-> <<>>]
  /\ down = [s \in Sockets |-> <<>>]
  /\ backlog = <<>>
  /\ serving = Nobody
  /\ \E junk \in {0, BufferSize} :
       clientMessage = [k \in 1 .. BufferSize + 1 |-> IF k <= junk THEN Junk ELSE Nul]
  /\ serverUp = TRUE
  /\ sends = [s \in Sockets |-> 0]
  /\ got = [s \in Sockets |-> <<>>]
  /\ ragged = FALSE

-----------------------------------------------------------------------------
(* Updates, each preceded by the wrong variant that mutation testing puts in *)
(* its place.                                                                *)

\* the bytes that recv() gave are written back, the NUL with them
EchoedAll(buffer, count) == SubSeq(buffer, 1, count)
\* write(): strlen(client_message) bytes of client_message, count of them just read
Echoed(buffer, count) ==
  SubSeq(buffer, 1, (CHOOSE k \in 1 .. Len(buffer) :
    buffer[k] = Nul /\ \A j \in 1 .. k - 1 : buffer[j] # Nul) - 1)

-----------------------------------------------------------------------------
(* The clients *)

\* createSocketAndConnect(), up to EINPROGRESS
ConnectBegins(s) == conn' = [conn EXCEPT ![s] = "connecting"]

\* the TCP connection is made
Handshake(s) ==
  /\ conn[s] = "connecting"
  /\ serverUp
  /\ conn' = [conn EXCEPT ![s] = "open"]
  /\ backlog' = Append(backlog, s)
  /\ UNCHANGED <<page, threadPhase, nativePhase, streams, serving, clientMessage, serverUp,
                 sends, ragged>>

CanSend(s) == conn[s] = "open" /\ serverUp

\* sendMessage() when send() succeeds: the message with its NUL
SendMessage(s) ==
  /\ sends' = [sends EXCEPT ![s] = @ + 1]
  /\ up' = [up EXCEPT ![s] = @ \o [k \in 1 .. MessageLength + 1 |->
       IF k <= MessageLength THEN sends[s] + 1 ELSE Nul]]
  /\ UNCHANGED <<down, got>>

\* recv() of all that is there
ReceiveMessage(s) ==
  /\ got' = [got EXCEPT ![s] = @ \o down[s]]
  /\ down' = [down EXCEPT ![s] = <<>>]
  /\ UNCHANGED up

\* run_connect(): a socket that could not be made or connected stays in g_socket, and
\* the page does not connect again
RunConnect ==
  /\ gSocket = "0"
  /\ \/ gSocket' = "page" /\ ConnectBegins("page")
     \/ gSocket' \in {"-1", "1"} /\ UNCHANGED conn
  /\ UNCHANGED <<threadPhase, nativePhase, streams, server, sends>>

\* run_sendMessage(): a message that cannot be sent, and one sent to socket 1, is gone
RunSendMessage ==
  /\ gSocket = "page"
  /\ CanSend("page")
  /\ sends["page"] < MaxSends
  /\ SendMessage("page")
  /\ UNCHANGED <<page, threadPhase, nativePhase, conn, server>>

\* readyRead(), the callback for the sockets of the page and of the thread
ReadyRead(s) ==
  /\ gSocket # "0"
  /\ s \in {"page", "thread"}
  /\ down[s] # <<>>
  /\ ReceiveMessage(s)
  /\ UNCHANGED <<page, threadPhase, nativePhase, conn, server, sends>>

\* run_sendReceiveInThread(), called once: createSocketAndConnect() returns -1 or a
\* socket, or 1, on which no send() succeeds
RunSendReceiveInThread ==
  /\ threadPhase = "idle"
  /\ \/ threadPhase' = "send" /\ ConnectBegins("thread")
     \/ threadPhase' \in {"send", "done"} /\ UNCHANGED conn
  /\ UNCHANGED <<page, nativePhase, streams, server, sends>>

\* a turn of one of the thread's loops that ends the loop; the other turns change nothing
ThreadStep ==
  /\ \/ /\ threadPhase \in {"send", "send again"}
        /\ CanSend("thread")
        /\ SendMessage("thread")
        /\ threadPhase' = IF threadPhase = "send" THEN "recv" ELSE "done"
     \/ /\ threadPhase = "recv"
        /\ down["thread"] # <<>> \/ ~ serverUp
        /\ ReceiveMessage("thread")
        /\ threadPhase' = "send again"
        /\ UNCHANGED sends
  /\ UNCHANGED <<page, nativePhase, conn, server>>

\* testConnect(): send() returns -1 or the length, not 0, which ends the loop
NativeStep ==
  /\ \/ /\ nativePhase = "idle"
        /\ nativePhase' \in {"send", "done"}
        /\ IF nativePhase' = "send" THEN ConnectBegins("native") ELSE UNCHANGED conn
        /\ UNCHANGED <<streams, sends>>
     \/ /\ nativePhase = "send"
        /\ nativePhase' = "close"
        /\ IF CanSend("native") THEN SendMessage("native") ELSE UNCHANGED <<streams, sends>>
        /\ UNCHANGED conn
     \/ /\ nativePhase = "close"
        /\ nativePhase' = "done"
        /\ conn' = [conn EXCEPT !["native"] = IF @ = "open" THEN "closed" ELSE "none"]
        /\ UNCHANGED <<streams, sends>>
  /\ UNCHANGED <<page, threadPhase, server>>

-----------------------------------------------------------------------------
(* The server *)

Accept ==
  /\ serving = Nobody
  /\ backlog # <<>>
  /\ serving' = Head(backlog)
  /\ backlog' = Tail(backlog)
  /\ UNCHANGED <<conn, streams, clientMessage, serverUp, ragged>>

\* recv() of count bytes and write(): the first write to a closed connection resets
\* it, another one may raise SIGPIPE
ReadAndEcho(count) ==
  /\ clientMessage' = SubSeq(up[serving], 1, count)
                        \o SubSeq(clientMessage, count + 1, BufferSize + 1)
  /\ up' = [up EXCEPT ![serving] = SubSeq(@, count + 1, Len(@))]
  /\ ragged' = (ragged \/ count # MessageLength + 1 \/ up[serving][count] # Nul)
  /\ down' = IF conn[serving] = "open"
               THEN [down EXCEPT ![serving] = @ \o Echoed(clientMessage', count)]
               ELSE down
  /\ conn' = [conn EXCEPT ![serving] = IF @ = "closed" THEN "reset" ELSE @]
  /\ \/ UNCHANGED serverUp
     \/ conn[serving] = "reset" /\ serverUp' = FALSE
  /\ UNCHANGED <<got, backlog, serving>>

\* recv() returns 0 or -1
ClientGone ==
  /\ \/ conn[serving] = "closed" /\ up[serving] = <<>>
     \/ conn[serving] = "reset"
  /\ serving' = Nobody
  /\ UNCHANGED <<conn, streams, backlog, clientMessage, serverUp, ragged>>

ServerStep ==
  /\ serverUp
  /\ \/ Accept
     \/ serving # Nobody /\ (\/ \E count \in 1 .. Len(up[serving]) :
                                  count <= BufferSize /\ ReadAndEcho(count)
                             \/ ClientGone)
  /\ UNCHANGED <<page, threadPhase, nativePhase, sends>>

\* the page's functions are not called any more, or the server waits for them
Rest == UNCHANGED vars

Next ==
  \/ RunConnect
  \/ RunSendMessage
  \/ RunSendReceiveInThread
  \/ ThreadStep
  \/ NativeStep
  \/ ServerStep
  \/ \E s \in Sockets : Handshake(s) \/ ReadyRead(s)
  \/ Rest

\* The thread, the programs and the network go on; what the user calls need not be.
Fairness ==
  /\ WF_vars(ThreadStep)
  /\ WF_vars(nativePhase # "idle" /\ NativeStep)
  /\ WF_vars(ServerStep)
  /\ \A s \in Sockets : WF_vars(Handshake(s))

Spec == Init /\ [][Next]_vars /\ Fairness

-----------------------------------------------------------------------------
(* Properties *)

Payloads(n) == [k \in 1 .. n * MessageLength |-> (k - 1) \div MessageLength + 1]

\* As long as the server reads one message at a time, a client gets back the bytes of
\* its own messages, once and in their order, without the NULs, and all of them if
\* it is served; who else is served between, and what an earlier client left in
\* client_message, does not matter. (With other reads bytes are lost at a NUL, or
\* others are echoed that were there before.)
EchoesInOrder ==
  ~ ragged =>
    \A s \in {"page", "thread"} :
      LET replies == got[s] \o down[s] IN
      /\ Len(replies) <= sends[s] * MessageLength
      /\ replies = SubSeq(Payloads(sends[s]), 1, Len(replies))
      /\ up[s] = <<>> => Len(replies) = sends[s] * MessageLength

\* A thread that has connected ends, unless the page has a socket: then the page may
\* occupy the server, or its callback may take the thread's reply.
ThreadServed ==
  (threadPhase = "send" /\ conn["thread"] # "none")
    ~> (threadPhase = "done" \/ gSocket # "0" \/ ~ serverUp)

=============================================================================
