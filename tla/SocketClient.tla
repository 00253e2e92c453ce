------------------------------ MODULE SocketClient ------------------------------
(***************************************************************************)
(* mqtt_simpleclient: WebSocketIODevice, which makes a byte stream of the  *)
(* messages of a web socket, and the window of the client that connects,   *)
(* disconnects and pings through it.                                       *)
(*                                                                         *)
(* The device takes every message into m_buffer and tells its reader, the  *)
(* MQTT client, which reads all there is if the device is open. Closing    *)
(* the device starts the closing handshake, in which messages may still    *)
(* come; opening it again makes a new connection.                          *)
(*                                                                         *)
(* QWebSocket, QMqttClient and the broker are external. A message is the   *)
(* pair of its session and its number in the session.                      *)
(***************************************************************************)
EXTENDS Integers, Sequences

CONSTANTS
  MaxSessions,  \* bound: connections in one behaviour
  MaxMessages   \* bound: messages that the broker sends in a session

VARIABLES
  buttonText,   \* the text of buttonConnect
  pingEnabled,  \* buttonPing is enabled
  pings,        \* pings of this session that are not answered
  deviceOpen,   \* the QIODevice is open
  socket,       \* m_socket
  buffer,       \* m_buffer, as messages
  mqtt,         \* the state of the QMqttClient
  session,      \* the number of calls of open()
  sent,         \* messages sent in this session that are on their way
  sentCount,    \* history: messages sent in this session
  arrived,      \* history: the messages that came in, in order
  read,         \* history: [message, session]: what was read, and by which session
  stray         \* history: the messages that came in while the device was closed

window == <<buttonText, pingEnabled, pings>>
stream == <<buffer, arrived, read, stray>>
vars == <<window, deviceOpen, socket, mqtt, session, sent, sentCount, stream>>

Sessions == 1 .. MaxSessions
Messages == Sessions \X (1 .. MaxMessages)

TypeOK ==
  /\ buttonText \in {"Connect", "Disconnect"}
  /\ pingEnabled \in BOOLEAN
  /\ pings \in 0 .. 1
  /\ deviceOpen \in BOOLEAN
  /\ socket \in {"closed", "connecting", "open", "closing"}
  /\ buffer \in Seq(Messages)
  /\ mqtt \in {"Disconnected", "Connecting", "Connected"}
  /\ session \in 0 .. MaxSessions
  /\ sent \in Seq(Messages)
  /\ sentCount \in 0 .. MaxMessages
  /\ arrived \in Seq(Messages)
  /\ read \in Seq([message : Messages, session : Sessions])
  /\ stray \subseteq Messages

Init ==
  /\ buttonText = "Connect"
  /\ pingEnabled = TRUE
  /\ pings = 0
  /\ deviceOpen = FALSE
  /\ socket = "closed"
  /\ buffer = <<>>
  /\ mqtt = "Disconnected"
  /\ session = 0
  /\ sent = <<>>
  /\ sentCount = 0
  /\ arrived = <<>>
  /\ read = <<>>
  /\ stray = {}

-----------------------------------------------------------------------------
(* Updates, each preceded by the wrong variant that mutation testing puts in *)
(* its place.                                                                *)

NothingRemoved(buf, bytesToRead) == buf
\* readData(): m_buffer without the bytes that were read
Remaining(buf, bytesToRead) == SubSeq(buf, bytesToRead + 1, Len(buf))

-----------------------------------------------------------------------------
(* The window *)

\* on_buttonConnect_clicked(), connectToWebSocketHost(), open(): m_buffer is kept
ConnectClicked ==
  /\ buttonText = "Connect"
  /\ session < MaxSessions
  /\ buttonText' = "Disconnect"
  /\ session' = session + 1
  /\ deviceOpen' = TRUE
  /\ socket' = "connecting"
  /\ sent' = <<>>
  /\ sentCount' = 0
  /\ pings' = 0
  /\ UNCHANGED <<pingEnabled, mqtt, stream>>

\* on_buttonConnect_clicked(), disconnectFromWebSocketHost(), close()
DisconnectClicked ==
  /\ buttonText = "Disconnect"
  /\ buttonText' = "Connect"
  /\ mqtt' = "Disconnected"
  /\ deviceOpen' = FALSE
  /\ socket' = IF socket = "open" THEN "closing" ELSE "closed"
  /\ UNCHANGED <<pingEnabled, pings, session, sent, sentCount, stream>>

\* on_buttonPing_clicked(): the button is disabled, connected or not
PingClicked ==
  /\ pingEnabled
  /\ pingEnabled' = FALSE
  /\ pings' = IF mqtt = "Connected" THEN 1 ELSE pings
  /\ UNCHANGED <<buttonText, deviceOpen, socket, mqtt, session, sent, sentCount, stream>>

\* pingResponseReceived
PingResponse ==
  /\ pings = 1
  /\ mqtt = "Connected"
  /\ socket = "open"
  /\ pings' = 0
  /\ pingEnabled' = TRUE
  /\ UNCHANGED <<buttonText, deviceOpen, socket, mqtt, session, sent, sentCount, stream>>

-----------------------------------------------------------------------------
(* The socket and the broker *)

\* onSocketConnected(), connectToHost()
OnSocketConnected ==
  /\ socket = "connecting"
  /\ socket' = "open"
  /\ mqtt' = "Connecting"
  /\ UNCHANGED <<window, deviceOpen, session, sent, sentCount, stream>>

BrokerAccepts ==
  /\ socket = "open"
  /\ mqtt = "Connecting"
  /\ mqtt' = "Connected"
  /\ UNCHANGED <<window, deviceOpen, socket, session, sent, sentCount, stream>>

\* the broker refuses, or ends the session: brokerDisconnected(); the device stays open
BrokerDisconnected ==
  /\ socket = "open"
  /\ mqtt \in {"Connecting", "Connected"}
  /\ mqtt' = "Disconnected"
  /\ buttonText' = "Connect"
  /\ UNCHANGED <<pingEnabled, pings, deviceOpen, socket, session, sent, sentCount, stream>>

BrokerSends ==
  /\ socket = "open"
  /\ mqtt = "Connected"
  /\ sentCount < MaxMessages
  /\ sentCount' = sentCount + 1
  /\ sent' = Append(sent, <<session, sentCount + 1>>)
  /\ UNCHANGED <<window, deviceOpen, socket, mqtt, session, stream>>

\* handleBinaryMessage(): readyRead() makes the client read all there is, through
\* readData(), if the device is open
HandleBinaryMessage ==
  /\ socket \in {"open", "closing"}
  /\ sent # <<>>
  /\ sent' = Tail(sent)
  /\ arrived' = Append(arrived, Head(sent))
  /\ LET all == Append(buffer, Head(sent)) IN
       IF deviceOpen
         THEN /\ read' = read \o [k \in DOMAIN all |-> [message |-> all[k], session |-> session]]
              /\ buffer' = Remaining(all, Len(all))
              /\ UNCHANGED stray
         ELSE /\ buffer' = all
              /\ stray' = stray \cup {Head(sent)}
              /\ UNCHANGED read
  /\ UNCHANGED <<window, deviceOpen, socket, mqtt, session, sentCount>>

\* the closing handshake ends, or the connection breaks: nothing is connected to
\* the socket's disconnected()
SocketClosed ==
  /\ socket \in {"connecting", "open", "closing"}
  /\ socket' = "closed"
  /\ UNCHANGED <<window, deviceOpen, mqtt, session, sent, sentCount, stream>>

\* the user connects no more
Rest ==
  /\ session = MaxSessions
  /\ UNCHANGED vars

Next ==
  \/ ConnectClicked
  \/ DisconnectClicked
  \/ PingClicked
  \/ PingResponse
  \/ OnSocketConnected
  \/ BrokerAccepts
  \/ BrokerDisconnected
  \/ BrokerSends
  \/ HandleBinaryMessage
  \/ SocketClosed
  \/ Rest

Spec == Init /\ [][Next]_vars

-----------------------------------------------------------------------------
(* Properties *)

\* The stream that is read is what came in: no byte is lost, repeated or out of
\* order, over disconnecting and connecting again at any time. A session reads
\* bytes of another one only if they came in while the device was closed: those
\* wait in m_buffer, and the next session gets them first.
StreamKept ==
  /\ [k \in DOMAIN read |-> read[k].message] \o buffer = arrived
  /\ \A k \in DOMAIN read : read[k].message[1] # read[k].session => read[k].message \in stray

-----------------------------------------------------------------------------
(* Why: the inductive invariant of the proofs *)

\* What is on its way was sent in this session, and what waits in m_buffer came in while the
\* device was closed.
IInv ==
  /\ TypeOK
  /\ deviceOpen \/ socket # "closed" => session > 0
  /\ \A k \in 1 .. Len(sent) : sent[k][1] = session
  /\ \A k \in 1 .. Len(buffer) : buffer[k] \in stray
  /\ StreamKept

=============================================================================
