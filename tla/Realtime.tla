------------------------------ MODULE Realtime ------------------------------
(***************************************************************************)
(* One user's sockets and one open conversation: connection and presence   *)
(* in chat.gateway.ts, the client's socket of lib/socket.ts, and the thread *)
(* of ChatScreen.tsx that the gateway's events and the client's own        *)
(* requests write to.                                                      *)
(*                                                                         *)
(* A socket is one connection: a client that comes back has another one.   *)
(* The tab is the client whose thread is open; other sockets of the same   *)
(* user are other devices.  A friend watches the user's presence.          *)
(***************************************************************************)
EXTENDS Naturals, Sequences, FiniteSets

CONSTANTS Sockets,   \* connections that may exist at once
          Msgs,      \* messages of the conversation
          None,      \* no socket
          MaxConn    \* a bound of the model: nobody connects while conn is there

ASSUME NoneIsFresh == None \notin Sockets
ASSUME MaxConnPositive == MaxConn \in Nat \ {0}

VARIABLES
  sock,              \* Sockets -> the socket, and its handlers' positions
  conn,              \* connections.get(user), 0: no entry
  light,             \* the friend's last presence event said online
  tab,               \* the socket of the tab, None: not connected
  rejected,          \* the server has disconnected the tab
  stored,            \* rows of messages
  due,               \* stored, and its handler is on the way to the emits
  asker,             \* Msgs -> the socket that sent it, None: the other person
  wire,              \* packets on their way to the tab
  screen,            \* Msgs -> copies in the thread's list
  bubble,            \* the optimistic message and its request
  load               \* the thread's GET of the messages, and its answer

presence == <<sock, conn, light>>
server   == <<stored, due, asker>>
client   == <<tab, rejected, wire, screen, bubble, load>>
vars     == <<presence, server, client>>

-----------------------------------------------------------------------------
\* up and down: handleConnection and handleDisconnect, at their next await.
Socket == [link : BOOLEAN,                     \* the transport is up
           me   : BOOLEAN,                     \* data.userId is set, the room joined
           up   : {"none", "verify", "tell"},
           down : {"none", "tell"}]
Free   == [link |-> FALSE, me |-> FALSE, up |-> "none", down |-> "none"]

Bubble == {"none", "kept", "sent", "handled"}
Packet == [kind : {"new", "ack"}, msg : Msgs] \cup [kind : {"nack"}]
Load   == [at : {"none", "asked", "answered"}, page : SUBSET Msgs]
NoLoad == [at |-> "none", page |-> {}]

Live       == {k \in Sockets : sock[k].link /\ sock[k].me}
OnWire(m)  == \E i \in DOMAIN wire : wire[i].kind # "nack" /\ wire[i].msg = m
Blank      == [m \in Msgs |-> 0]

-----------------------------------------------------------------------------
Init ==
  /\ sock = [k \in Sockets |-> Free] /\ conn = 0 /\ light = FALSE
  /\ stored = {} /\ due = {} /\ asker = [m \in Msgs |-> None]
  /\ tab = None /\ rejected = FALSE /\ wire = <<>>
  /\ screen = Blank /\ bubble = "none" /\ load = NoLoad

-----------------------------------------------------------------------------
(* Connection and presence.                                                *)

\* The transport is up and handleConnection awaits verifyAccess.  The tab
\* reconnects by itself unless the server has sent it away; what it kept goes out.
Connect(k, isTab) ==
  /\ sock[k] = Free /\ conn < MaxConn /\ \A m \in due : asker[m] # k
  /\ isTab => tab = None /\ ~rejected
  /\ sock' = [sock EXCEPT ![k] = [Free EXCEPT !.link = TRUE, !.up = "verify"]]
  /\ IF isTab THEN /\ tab' = k
                   /\ bubble' = IF bubble = "kept" THEN "sent" ELSE bubble
              ELSE UNCHANGED <<tab, bubble>>
  /\ UNCHANGED <<conn, light, server, rejected, wire, screen, load>>

\* Fault: the announcement does not wait for the first socket.
VerifyAlwaysTells(k) ==
  /\ sock[k].up = "verify"
  /\ sock' = [sock EXCEPT ![k].me = TRUE, ![k].up = "tell"]
  /\ conn' = 1
  /\ UNCHANGED <<light, server, client>>

\* The token is good: the socket is counted, also if it has gone meanwhile.
Verify(k) ==
  /\ sock[k].up = "verify"
  /\ sock' = [sock EXCEPT ![k].me = TRUE,
                          ![k].up = IF conn = 0 THEN "tell" ELSE "none"]
  /\ conn' = conn + 1
  /\ UNCHANGED <<light, server, client>>

\* What a client loses with its socket: packets on their way, and the ack.
TabDown(k) ==
  IF tab = k
    THEN /\ tab' = None /\ wire' = <<>>
         /\ bubble' = IF bubble = "kept" THEN bubble ELSE "none"
    ELSE UNCHANGED <<tab, wire, bubble>>

\* It is not, or has expired: the server closes the socket, and a client that is
\* sent away does not come back.
Reject(k) ==
  /\ sock[k].up = "verify"
  /\ sock' = [sock EXCEPT ![k] = Free]
  /\ rejected' = (rejected \/ tab = k)
  /\ TabDown(k)
  /\ UNCHANGED <<conn, light, server, screen, load>>

\* last_seen_at, privacy and friends are read, and the friend is told.
TellOnline(k) ==
  /\ sock[k].up = "tell"
  /\ sock' = [sock EXCEPT ![k].up = "none"]
  /\ light' = TRUE
  /\ UNCHANGED <<conn, server, client>>

\* The transport is gone, and with it the tab's: handleDisconnect, up to its first
\* await.  A socket that was never counted is not discounted.
Drop(k, up) ==
  /\ conn' = IF sock[k].me /\ conn > 0 THEN conn - 1 ELSE conn
  /\ sock' = [sock EXCEPT ![k].link = FALSE, ![k].up = up,
                ![k].down = IF sock[k].me /\ conn <= 1 THEN "tell" ELSE "none"]
  /\ TabDown(k)

Disconnect(k) ==
  /\ sock[k].link
  /\ Drop(k, sock[k].up)
  /\ UNCHANGED <<light, server, rejected, screen, load>>

\* A statement of the announcement throws, and the socket is sent away for it.
TellOnlineFail(k) ==
  /\ sock[k].up = "tell"
  /\ IF sock[k].link
       THEN Drop(k, "none") /\ rejected' = (rejected \/ tab = k)
       ELSE /\ sock' = [sock EXCEPT ![k].up = "none"]
            /\ UNCHANGED <<conn, tab, rejected, wire, bubble>>
  /\ UNCHANGED <<light, server, screen, load>>

TellOffline(k) ==
  /\ sock[k].down = "tell"
  /\ sock' = [sock EXCEPT ![k].down = "none"]
  /\ light' = FALSE
  /\ UNCHANGED <<conn, server, client>>

\* A statement of it throws: the friend goes on seeing the light.
TellOfflineFail(k) ==
  /\ sock[k].down = "tell"
  /\ sock' = [sock EXCEPT ![k].down = "none"]
  /\ UNCHANGED <<conn, light, server, client>>

\* The socket object is garbage.
Forget(k) ==
  /\ ~sock[k].link /\ sock[k].up = "none" /\ sock[k].down = "none" /\ sock[k].me
  /\ sock' = [sock EXCEPT ![k] = Free]
  /\ UNCHANGED <<conn, light, server, client>>

-----------------------------------------------------------------------------
(* Sending and receiving.                                                  *)

\* Thread.send: the text appears, and message:send goes out or is kept until the
\* socket is back.
Tap ==
  /\ bubble = "none" /\ stored # Msgs
  /\ bubble' = IF tab = None THEN "kept" ELSE "sent"
  /\ UNCHANGED <<presence, server, tab, rejected, wire, screen, load>>

\* Fault: the members are told before the row is stored.
SendEmitsFirst(m) ==
  /\ bubble = "sent" /\ sock[tab].me /\ m \notin stored
  /\ due' = due \cup {m} /\ asker' = [asker EXCEPT ![m] = tab]
  /\ bubble' = "handled"
  /\ UNCHANGED <<presence, stored, tab, rejected, wire, screen, load>>

\* onSend: send() has committed the row; memberIds and the emits are to come.
SendStore(m) ==
  /\ bubble = "sent" /\ sock[tab].me /\ m \notin stored
  /\ stored' = stored \cup {m} /\ due' = due \cup {m}
  /\ asker' = [asker EXCEPT ![m] = tab]
  /\ bubble' = "handled"
  /\ UNCHANGED <<presence, tab, rejected, wire, screen, load>>

\* It fails, as it does on a socket whose handleConnection is not through.
SendFail ==
  /\ bubble = "sent"
  /\ wire' = Append(wire, [kind |-> "nack"])
  /\ bubble' = "handled"
  /\ UNCHANGED <<presence, server, tab, rejected, screen, load>>

\* The other person's message; the handler may fail before its emits.
OtherStore(m) ==
  /\ m \notin stored
  /\ stored' = stored \cup {m} /\ due' \in {due \cup {m}, due}
  /\ UNCHANGED <<presence, asker, client>>

\* Fault: the ack does not wait for the emit.
AckOnly(m) ==
  /\ m \in due
  /\ due' = due \ {m}
  /\ wire' = IF tab \notin Live THEN wire
             ELSE IF asker[m] = tab THEN Append(wire, [kind |-> "ack", msg |-> m])
             ELSE wire
  /\ UNCHANGED <<presence, stored, asker, tab, rejected, screen, bubble, load>>

\* message:new into the user's room, and then the ack to the socket that asked.
FanOut(m) ==
  LET new == <<[kind |-> "new", msg |-> m]>>
      ack == <<[kind |-> "ack", msg |-> m]>>
  IN  /\ m \in due
      /\ due' = due \ {m}
      /\ wire' = wire \o (IF tab \in Live THEN new ELSE <<>>)
                      \o (IF tab # None /\ asker[m] = tab THEN ack ELSE <<>>)
      /\ UNCHANGED <<presence, stored, asker, tab, rejected, screen, bubble, load>>

\* The row is read back or the members are, and it throws: the sender is refused what
\* is stored, and nobody is told of it.  A process that dies is this for every handler,
\* after a Disconnect for every socket.
EmitFail(m) ==
  LET nack == <<[kind |-> "nack"]>>
  IN  /\ m \in due /\ asker[m] # None
      /\ due' = due \ {m}
      /\ wire' = wire \o (IF asker[m] = tab THEN nack ELSE <<>>)
      /\ UNCHANGED <<presence, stored, asker, tab, rejected, screen, bubble, load>>

\* Fault: the handler of message:new looks for no copy.
ReceiveBlindly ==
  LET p == Head(wire)
  IN  /\ wire # <<>> /\ p.kind = "new"
      /\ wire' = Tail(wire)
      /\ screen' = [screen EXCEPT ![p.msg] = @ + 1]
      /\ UNCHANGED <<presence, server, tab, rejected, bubble, load>>

ReceiveNew ==
  LET p == Head(wire)
  IN  /\ wire # <<>> /\ p.kind = "new"
      /\ wire' = Tail(wire)
      /\ screen' = [screen EXCEPT ![p.msg] = IF @ > 0 THEN @ ELSE 1]
      /\ UNCHANGED <<presence, server, tab, rejected, bubble, load>>

\* Fault: a refusal leaves the bubble.
ReceiveAckOnly ==
  LET p == Head(wire)
  IN  /\ wire # <<>> /\ p.kind # "new"
      /\ wire' = Tail(wire)
      /\ screen' = IF p.kind = "ack" THEN [screen EXCEPT ![p.msg] = @ + 1] ELSE screen
      /\ bubble' = IF p.kind = "ack" THEN "none" ELSE bubble
      /\ UNCHANGED <<presence, server, tab, rejected, load>>

\* The bubble goes; the message is appended, whether or not it is there already.
ReceiveAck ==
  LET p == Head(wire)
  IN  /\ wire # <<>> /\ p.kind # "new"
      /\ wire' = Tail(wire)
      /\ screen' = IF p.kind = "ack" THEN [screen EXCEPT ![p.msg] = @ + 1] ELSE screen
      /\ bubble' = "none"
      /\ UNCHANGED <<presence, server, tab, rejected, load>>

-----------------------------------------------------------------------------
(* Opening the thread: an empty list, and a GET that replaces it.          *)

Open ==
  /\ load.at = "none" /\ bubble = "none" /\ \A m \in Msgs : ~OnWire(m)
  /\ screen' = Blank
  /\ load' = [NoLoad EXCEPT !.at = "asked"]
  /\ UNCHANGED <<presence, server, tab, rejected, wire, bubble>>

LoadRead ==
  /\ load.at = "asked"
  /\ load' = [at |-> "answered", page |-> stored]
  /\ UNCHANGED <<presence, server, tab, rejected, wire, screen, bubble>>

LoadShow ==
  /\ load.at = "answered"
  /\ screen' = [m \in Msgs |-> IF m \in load.page THEN 1 ELSE 0]
  /\ load' = NoLoad
  /\ UNCHANGED <<presence, server, tab, rejected, wire, bubble>>

\* The request fails: the list stays as it is.
LoadFail ==
  /\ load.at # "none"
  /\ load' = NoLoad
  /\ UNCHANGED <<presence, server, tab, rejected, wire, screen, bubble>>

-----------------------------------------------------------------------------
\* What a connection does on its own, and what the gateway's handlers go on with.
Presence ==
  \E k \in Sockets :
    \/ \E isTab \in BOOLEAN : Connect(k, isTab)
    \/ Verify(k) \/ Reject(k) \/ TellOnline(k)
    \/ Disconnect(k) \/ TellOffline(k) \/ Forget(k)

Failure == \E k \in Sockets : TellOnlineFail(k) \/ TellOfflineFail(k)

Handle  == SendFail \/ \E m \in Msgs : SendStore(m)
Emit    == \E m \in Msgs : FanOut(m) \/ EmitFail(m)
Deliver == ReceiveNew \/ ReceiveAck
Screen  == Tap \/ Open \/ LoadRead \/ LoadShow \/ LoadFail

Next ==
  \/ Presence \/ Failure \/ Handle \/ Emit \/ Deliver \/ Screen
  \/ \E m \in Msgs : OtherStore(m)

Spec == Init /\ [][Next]_vars

\* The server handles what has arrived and finishes it, or fails at it, and a
\* connection delivers.
Fairness == WF_vars(Handle) /\ WF_vars(Emit) /\ WF_vars(Deliver)

-----------------------------------------------------------------------------
(* Type invariant                                                          *)

TypeOK ==
  /\ sock \in [Sockets -> Socket]
  /\ conn \in Nat /\ light \in BOOLEAN
  /\ tab \in Sockets \cup {None} /\ rejected \in BOOLEAN
  /\ due \in SUBSET stored /\ stored \in SUBSET Msgs
  /\ asker \in [Msgs -> Sockets \cup {None}]
  /\ wire \in Seq(Packet)
  /\ screen \in [Msgs -> Nat] /\ bubble \in Bubble /\ load \in Load

-----------------------------------------------------------------------------
(* What every interleaving keeps.                                          *)

\* "userId -> number of open sockets, so presence flips only on the last one": the
\* count never falls below the sockets that are joined, so that nobody with a
\* socket loses the entry.
CountCoversSockets == conn >= Cardinality(Live)

\* The thread's two writers, the event and the ack, show a message once to who
\* receives it and at most twice to who sent it.
CopiesBounded ==
  \A m \in Msgs : screen[m] <= (IF asker[m] = None THEN 1 ELSE 2)

\* What is on its way to the emits, or emitted, reaches the list of a tab that keeps its
\* connection and does not load.  Only the user's own may be given up before its emits,
\* by a handler that fails: then who sent it is told that it was not sent.
Covered(m) == m \in due \/ OnWire(m) \/ screen[m] > 0

Refused == \E i \in DOMAIN wire : wire[i].kind = "nack"

NothingDropped ==
  \A m \in Msgs :
    Covered(m) /\ tab \in Live /\ tab' = tab /\ load' = load =>
      \/ Covered(m)'
      \/ m \in due /\ asker[m] # None /\ (asker[m] = tab => Refused')

NothingLostWhileConnected == [][NothingDropped]_vars

\* "On a slow connection this is the difference between fast and broken": the
\* optimistic bubble of a sent message is replaced or withdrawn in the end.
BubbleResolves == bubble = "sent" ~> bubble = "none"
=============================================================================
