--------------------------- MODULE RealtimeProofs ---------------------------
(***************************************************************************)
(* Proofs about Realtime and RealtimeSerial, for any sockets and messages  *)
(* and any bound on the connections.                                       *)
(*                                                                         *)
(* Two arguments share no variable but tab: the gateway's count and the    *)
(* friend's light follow the sockets; the copies of a message on screen    *)
(* follow the packets, of which there is one of a kind.                    *)
(***************************************************************************)
EXTENDS RealtimeSerial, FiniteSetTheorems, SequenceTheorems, TLAPS

-----------------------------------------------------------------------------
(* Packets.                                                                *)

LEMMA PacketTypes ==
  /\ \A p \in Packet : /\ p.kind \in {"new", "ack", "nack"}
                       /\ p.kind # "nack" => p.msg \in Msgs
  /\ [kind |-> "nack"] \in Packet
  /\ \A m \in Msgs : /\ [kind |-> "new", msg |-> m] \in Packet
                     /\ [kind |-> "ack", msg |-> m] \in Packet
  BY DEF Packet

\* The first packet is delivered, the others stay in their order.
LEMMA Delivered ==
  ASSUME NEW w \in Seq(Packet), w # <<>>
  PROVE  /\ 1 \in DOMAIN w /\ Head(w) = w[1] /\ Head(w) \in Packet
         /\ Tail(w) \in Seq(Packet)
         /\ \A i \in DOMAIN Tail(w) : i + 1 \in DOMAIN w /\ Tail(w)[i] = w[i + 1]
         /\ \A i \in DOMAIN w : i # 1 => i - 1 \in DOMAIN Tail(w) /\ Tail(w)[i - 1] = w[i]
<1>1. Len(w) \in Nat \ {0} /\ DOMAIN w = 1..Len(w)
  BY EmptySeq, LenProperties
<1>2. /\ Tail(w) \in Seq(Packet) /\ DOMAIN Tail(w) = 1..(Len(w) - 1)
      /\ \A i \in 1..(Len(w) - 1) : Tail(w)[i] = w[i + 1]
  BY <1>1, HeadTailProperties, LenProperties
<1>3. Head(w) = w[1] /\ Head(w) \in Packet
  BY <1>1, HeadTailProperties, ElementOfSeq
<1>4. QED
  BY <1>1, <1>2, <1>3

\* What is put behind w.
LEMMA Queued ==
  ASSUME NEW w \in Seq(Packet), NEW n \in Seq(Packet)
  PROVE  /\ w \o n \in Seq(Packet)
         /\ \A i \in DOMAIN w : i \in DOMAIN (w \o n) /\ (w \o n)[i] = w[i]
         /\ \A i \in DOMAIN n : i + Len(w) \in DOMAIN (w \o n) /\ (w \o n)[i + Len(w)] = n[i]
         /\ \A i \in DOMAIN (w \o n) :
              \/ i \in DOMAIN w /\ (w \o n)[i] = w[i]
              \/ i - Len(w) \in DOMAIN n /\ (w \o n)[i] = n[i - Len(w)]
<1>1. /\ Len(w) \in Nat /\ DOMAIN w = 1..Len(w)
      /\ Len(n) \in Nat /\ DOMAIN n = 1..Len(n)
  BY LenProperties
<1>2. /\ w \o n \in Seq(Packet) /\ DOMAIN (w \o n) = 1..(Len(w) + Len(n))
      /\ \A i \in 1..(Len(w) + Len(n)) :
           (w \o n)[i] = IF i <= Len(w) THEN w[i] ELSE n[i - Len(w)]
  BY ConcatProperties, LenProperties
<1>3. QED
  BY <1>1, <1>2

LEMMA QueuedTogether ==
  ASSUME NEW u \in Seq(Packet), NEW v \in Seq(Packet), NEW w \in Seq(Packet)
  PROVE  (u \o v) \o w = u \o (v \o w)
  BY ConcatAssociative, SMTT(30)

\* message:new and the ack of one emit, as what FanOut puts behind the wire.
LEMMA Emitted ==
  ASSUME TypeOK, NEW m \in Msgs, FanOut(m)
  PROVE  \E n \in Seq(Packet) :
           /\ wire' = wire \o n
           /\ \A i \in DOMAIN n :
                /\ n[i].kind \in {"new", "ack"} /\ n[i].msg = m
                /\ n[i].kind = "ack" => asker[m] # None
           /\ \A i, j \in DOMAIN n : n[i].kind = "ack" /\ n[j].kind = "ack" => i = j
           /\ tab \in Live => 1 \in DOMAIN n
<1> DEFINE new == <<[kind |-> "new", msg |-> m]>>
           ack == <<[kind |-> "ack", msg |-> m]>>
           a   == IF tab \in Live THEN new ELSE <<>>
           b   == IF tab # None /\ asker[m] = tab THEN ack ELSE <<>>
<1>1. /\ wire' = (wire \o a) \o b /\ wire \in Seq(Packet)
      /\ a \in Seq(Packet) /\ b \in Seq(Packet)
  <2>1. new \in Seq(Packet) /\ ack \in Seq(Packet)
    BY PacketTypes
  <2>2. QED
    BY <2>1 DEF FanOut, TypeOK
<1>2. /\ Len(a) \in Nat /\ (tab \in Live => 1 \in DOMAIN a)
      /\ \A i \in DOMAIN a : a[i].kind = "new" /\ a[i].msg = m
  OBVIOUS
<1>3. \A i \in DOMAIN b : i = 1 /\ b[i].kind = "ack" /\ b[i].msg = m /\ asker[m] # None
  <2>1. DOMAIN ack = {1} /\ ack[1].kind = "ack" /\ ack[1].msg = m
    OBVIOUS
  <2>2. CASE b = ack /\ asker[m] # None
    BY <2>1, <2>2
  <2>3. CASE b = <<>>
    <3>1. DOMAIN b = {}
      BY <2>3
    <3>2. QED
      BY <3>1
  <2>4. QED
    BY <2>2, <2>3
<1> HIDE DEF a, b
<1> DEFINE n == a \o b
<1>5. wire' = wire \o n
  <2>1. wire \in Seq(Packet) /\ a \in Seq(Packet) /\ b \in Seq(Packet)
    BY <1>1
  <2>2. (wire \o a) \o b = wire \o (a \o b)
    BY <2>1, QueuedTogether
  <2>3. QED
    BY <1>1, <2>2
<1>4. /\ n \in Seq(Packet)
      /\ \A i \in DOMAIN a : i \in DOMAIN n
      /\ \A i \in DOMAIN n : \/ i \in DOMAIN a /\ n[i] = a[i]
                             \/ i - Len(a) \in DOMAIN b /\ n[i] = b[i - Len(a)]
  BY <1>1, Queued
<1>6. \A i \in DOMAIN n : i \in Nat
  BY <1>4, LenProperties
<1> HIDE DEF n
<1>7. ASSUME NEW i \in DOMAIN n
      PROVE  /\ n[i].kind \in {"new", "ack"} /\ n[i].msg = m
             /\ n[i].kind = "ack" => asker[m] # None /\ i = 1 + Len(a)
  <2>1. CASE i \in DOMAIN a /\ n[i] = a[i]
    BY <1>2, <2>1
  <2>2. CASE i - Len(a) \in DOMAIN b /\ n[i] = b[i - Len(a)]
    BY <1>2, <1>3, <1>6, <2>2
  <2>3. QED
    BY <1>4, <2>1, <2>2
<1>8. \A i, j \in DOMAIN n : n[i].kind = "ack" /\ n[j].kind = "ack" => i = j
  BY <1>7
<1>9. tab \in Live => 1 \in DOMAIN n
  BY <1>2, <1>4
<1>10. QED
  BY <1>4, <1>5, <1>7, <1>8, <1>9

\* The refusal of what was stored, if the one who asked is still there.
LEMMA Refusal ==
  ASSUME TypeOK, NEW m \in Msgs, EmitFail(m)
  PROVE  \E n \in Seq(Packet) :
           /\ wire' = wire \o n
           /\ \A i \in DOMAIN n : n[i].kind = "nack"
           /\ asker[m] = tab => 1 \in DOMAIN n
<1> DEFINE nack == <<[kind |-> "nack"]>>
           n    == IF asker[m] = tab THEN nack ELSE <<>>
<1>1. nack \in Seq(Packet) /\ <<>> \in Seq(Packet)
  BY PacketTypes, EmptySeq
<1>2. wire' = wire \o n /\ n \in Seq(Packet)
  BY <1>1 DEF EmitFail
<1>3. \A i \in DOMAIN nack : nack[i].kind = "nack"
  OBVIOUS
<1>4. /\ \A i \in DOMAIN n : n[i].kind = "nack"
      /\ asker[m] = tab => 1 \in DOMAIN n
  BY <1>3
<1>5. QED
  BY <1>2, <1>4

-----------------------------------------------------------------------------
(* Types.                                                                  *)

\* The tab goes down with its socket and loses what is on the wire.
LEMMA TabGoesDown ==
  ASSUME TypeOK, NEW k \in Sockets, TabDown(k)
  PROVE  /\ tab' \in Sockets \cup {None} /\ wire' \in Seq(Packet) /\ bubble' \in Bubble
         /\ \/ tab # k /\ tab' = tab /\ wire' = wire
            \/ tab = k /\ tab' = None /\ wire' = <<>>
<1>1. <<>> \in Seq(Packet)
  BY EmptySeq
<1>2. QED
  BY <1>1 DEF TabDown, TypeOK, Bubble

\* What is left of a socket that is gone.
Dropped(k, up) ==
  [sock[k] EXCEPT !.link = FALSE, !.up = up,
     !.down = IF sock[k].me /\ conn <= 1 THEN "tell" ELSE "none"]

LEMMA DropMoves ==
  ASSUME TypeOK, NEW k \in Sockets, NEW up \in {"none", "verify", "tell"}, Drop(k, up)
  PROVE  /\ Dropped(k, up) \in Socket /\ sock' = [sock EXCEPT ![k] = Dropped(k, up)]
         /\ sock' \in [Sockets -> Socket] /\ conn' \in Nat
<1>1. PICK down \in {"none", "tell"} : down = IF sock[k].me /\ conn <= 1 THEN "tell" ELSE "none"
  OBVIOUS
<1>2. [sock[k] EXCEPT !.link = FALSE, !.up = up, !.down = down] \in Socket
  BY DEF TypeOK, Socket
<1>3. sock' = [sock EXCEPT ![k] = [sock[k] EXCEPT !.link = FALSE, !.up = up, !.down = down]]
  BY <1>1 DEF Drop
<1>4. conn' \in Nat
  BY DEF Drop, TypeOK
<1>5. QED
  BY <1>1, <1>2, <1>3, <1>4 DEF Dropped, TypeOK

LEMMA PresenceKeepsTypes ==
  ASSUME TypeOK, Presence
  PROVE  TypeOK'
<1> USE DEF TypeOK, server, client, presence
<1>1. ASSUME NEW k \in Sockets, NEW isTab \in BOOLEAN, Connect(k, isTab) PROVE TypeOK'
  BY <1>1 DEF Connect, Socket, Free, Bubble
<1>2. ASSUME NEW k \in Sockets, Verify(k) PROVE TypeOK'
  <2>1. sock[k] \in Socket
    OBVIOUS
  <2>2. [sock[k] EXCEPT !.me = TRUE, !.up = IF conn = 0 THEN "tell" ELSE "none"] \in Socket
    BY <2>1 DEF Socket
  <2>3. sock' = [sock EXCEPT ![k] = [sock[k] EXCEPT !.me = TRUE,
                                        !.up = IF conn = 0 THEN "tell" ELSE "none"]]
    BY <1>2 DEF Verify
  <2>4. sock' \in [Sockets -> Socket]
    BY <2>2, <2>3
  <2>5. QED
    BY <1>2, <2>4 DEF Verify
<1>3. ASSUME NEW k \in Sockets, Reject(k) PROVE TypeOK'
  <2>1. sock' \in [Sockets -> Socket]
    BY <1>3 DEF Reject, Socket, Free
  <2>2. QED
    BY <1>3, <2>1, TabGoesDown DEF Reject
<1>4. ASSUME NEW k \in Sockets, TellOnline(k) PROVE TypeOK'
  <2>1. [sock[k] EXCEPT !.up = "none"] \in Socket
    BY DEF Socket
  <2>2. sock' = [sock EXCEPT ![k] = [sock[k] EXCEPT !.up = "none"]]
    BY <1>4 DEF TellOnline
  <2>3. QED
    BY <1>4, <2>1, <2>2 DEF TellOnline
<1>5. ASSUME NEW k \in Sockets, Disconnect(k) PROVE TypeOK'
  <2>1. sock[k].up \in {"none", "verify", "tell"}
    BY DEF Socket
  <2>2. QED
    BY <1>5, <2>1, DropMoves, TabGoesDown DEF Disconnect, Drop
<1>6. ASSUME NEW k \in Sockets, TellOffline(k) PROVE TypeOK'
  <2>1. [sock[k] EXCEPT !.down = "none"] \in Socket
    BY DEF Socket
  <2>2. sock' = [sock EXCEPT ![k] = [sock[k] EXCEPT !.down = "none"]]
    BY <1>6 DEF TellOffline
  <2>3. QED
    BY <1>6, <2>1, <2>2 DEF TellOffline
<1>7. ASSUME NEW k \in Sockets, Forget(k) PROVE TypeOK'
  BY <1>7 DEF Forget, Socket, Free
<1>8. QED
  BY <1>1, <1>2, <1>3, <1>4, <1>5, <1>6, <1>7 DEF Presence

\* Announcements that fail.
LEMMA FailureKeepsTypes ==
  ASSUME TypeOK, Failure
  PROVE  TypeOK'
<1> USE DEF TypeOK, server, client
<1>1. ASSUME NEW k \in Sockets, TellOnlineFail(k) PROVE TypeOK'
  <2>1. CASE sock[k].link
    BY <1>1, <2>1, DropMoves, TabGoesDown DEF TellOnlineFail, Drop
  <2>2. CASE ~sock[k].link
    <3>1. [sock[k] EXCEPT !.up = "none"] \in Socket
      BY DEF Socket
    <3>2. sock' = [sock EXCEPT ![k] = [sock[k] EXCEPT !.up = "none"]]
      BY <1>1, <2>2 DEF TellOnlineFail
    <3>3. QED
      BY <1>1, <2>2, <3>1, <3>2 DEF TellOnlineFail
  <2>3. QED
    BY <2>1, <2>2
<1>2. ASSUME NEW k \in Sockets, TellOfflineFail(k) PROVE TypeOK'
  <2>1. [sock[k] EXCEPT !.down = "none"] \in Socket
    BY DEF Socket
  <2>2. sock' = [sock EXCEPT ![k] = [sock[k] EXCEPT !.down = "none"]]
    BY <1>2 DEF TellOfflineFail
  <2>3. QED
    BY <1>2, <2>1, <2>2 DEF TellOfflineFail
<1>3. QED
  BY <1>1, <1>2 DEF Failure

\* What is stored, emitted, delivered and shown.
LEMMA MessagesKeepTypes ==
  ASSUME TypeOK,
         Handle \/ Emit \/ Deliver \/ Screen \/ \E m \in Msgs : OtherStore(m)
  PROVE  TypeOK'
<1> USE DEF TypeOK, server, client, presence
<1>1. CASE SendFail
  <2>1. wire' \in Seq(Packet)
    BY <1>1, PacketTypes, AppendProperties DEF SendFail
  <2>2. QED
    BY <1>1, <2>1 DEF SendFail, Bubble
<1>2. ASSUME NEW m \in Msgs, SendStore(m) PROVE TypeOK'
  BY <1>2 DEF SendStore, Bubble
<1>3. ASSUME NEW m \in Msgs, OtherStore(m) PROVE TypeOK'
  BY <1>3 DEF OtherStore
<1>4. ASSUME NEW m \in Msgs, FanOut(m) PROVE TypeOK'
  <2>1. PICK n \in Seq(Packet) : wire' = wire \o n
    BY <1>4, Emitted
  <2>2. wire' \in Seq(Packet)
    BY <2>1, Queued
  <2>3. QED
    BY <1>4, <2>2 DEF FanOut
<1>4a. ASSUME NEW m \in Msgs, EmitFail(m) PROVE TypeOK'
  <2>1. PICK n \in Seq(Packet) : wire' = wire \o n
    BY <1>4a, Refusal
  <2>2. wire' \in Seq(Packet)
    BY <2>1, Queued
  <2>3. QED
    BY <1>4a, <2>2 DEF EmitFail
<1>5. CASE Deliver
  <2>1. wire # <<>>
    BY <1>5 DEF Deliver, ReceiveNew, ReceiveAck
  <2>2. /\ Tail(wire) \in Seq(Packet)
        /\ Head(wire).kind \in {"new", "ack", "nack"}
        /\ Head(wire).kind # "nack" => Head(wire).msg \in Msgs
    BY <2>1, Delivered, PacketTypes
  <2>3. CASE ReceiveNew
    BY <2>2, <2>3 DEF ReceiveNew
  <2>4. CASE ReceiveAck
    BY <2>2, <2>4 DEF ReceiveAck, Bubble
  <2>5. QED
    BY <1>5, <2>3, <2>4 DEF Deliver
<1>6. CASE Tap \/ Open
  BY <1>6 DEF Tap, Open, Bubble, Blank, Load, NoLoad
<1>7. CASE LoadRead
  BY <1>7 DEF LoadRead, Load
<1>8. CASE LoadShow \/ LoadFail
  <2>1. load' \in Load
    BY <1>8 DEF LoadShow, LoadFail, NoLoad, Load
  <2>2. screen' \in [Msgs -> Nat]
    BY <1>8 DEF LoadShow, LoadFail
  <2>3. QED
    BY <1>8, <2>1, <2>2 DEF LoadShow, LoadFail
<1>9. QED
  BY <1>1, <1>2, <1>3, <1>4, <1>5, <1>6, <1>7, <1>8, <1>4a DEF Handle, Emit, Screen

LEMMA TypeStep == TypeOK /\ [Next]_vars => TypeOK'
<1>1. TypeOK /\ UNCHANGED vars => TypeOK'
  BY DEF vars, presence, server, client, TypeOK
<1>2. QED
  BY <1>1, PresenceKeepsTypes, FailureKeepsTypes, MessagesKeepTypes DEF Next

LEMMA TypeInit == Init => TypeOK
<1>1. <<>> \in Seq(Packet)
  BY EmptySeq
<1>2. Free \in Socket /\ NoLoad \in Load /\ "none" \in Bubble
  BY DEF Free, Socket, NoLoad, Load, Bubble
<1>3. Init => /\ sock \in [Sockets -> Socket] /\ screen \in [Msgs -> Nat]
              /\ asker \in [Msgs -> Sockets \cup {None}]
  BY <1>2 DEF Init, Blank
<1>4. Init => /\ wire \in Seq(Packet) /\ load \in Load /\ bubble \in Bubble
              /\ tab \in Sockets \cup {None}
  BY <1>1, <1>2 DEF Init
<1>5. Init => conn \in Nat
  BY DEF Init
<1>6. Init => /\ light \in BOOLEAN /\ rejected \in BOOLEAN
              /\ due \in SUBSET stored /\ stored \in SUBSET Msgs
  BY Zenon DEF Init
<1>7. QED
  BY <1>3, <1>4, <1>5, <1>6 DEF TypeOK

\* The tables, the wire and the screen hold what they are declared to hold.
THEOREM TypeCorrect == Spec => []TypeOK
  BY TypeInit, TypeStep, PTL DEF Spec

-----------------------------------------------------------------------------
(* Sockets and their count.                                                *)

LEMMA OneMoreOrLess ==
  ASSUME NEW L, IsFiniteSet(L), NEW k
  PROVE  /\ Cardinality(L) \in Nat /\ (Cardinality(L) = 0 <=> L = {})
         /\ IsFiniteSet(L \cup {k}) /\ IsFiniteSet(L \ {k})
         /\ Cardinality(L \cup {k}) = Cardinality(L) + IF k \in L THEN 0 ELSE 1
         /\ Cardinality(L \ {k}) = Cardinality(L) - IF k \in L THEN 1 ELSE 0
<1>1. Cardinality(L) \in Nat /\ (Cardinality(L) = 0 <=> L = {})
  BY FS_CardinalityType, FS_EmptySet
<1>2. /\ IsFiniteSet(L \cup {k})
      /\ Cardinality(L \cup {k}) = Cardinality(L) + IF k \in L THEN 0 ELSE 1
  BY <1>1, FS_AddElement
<1>3. /\ IsFiniteSet(L \ {k})
      /\ Cardinality(L \ {k}) = Cardinality(L) - IF k \in L THEN 1 ELSE 0
  BY <1>1, FS_RemoveElement
<1>4. QED
  BY <1>1, <1>2, <1>3

\* A handler moves one socket: who is joined changes by that socket.
LEMMA SocketMoves ==
  ASSUME TypeOK, NEW k \in Sockets, NEW row \in Socket, sock' = [sock EXCEPT ![k] = row]
  PROVE  /\ sock'[k] = row /\ \A l \in Sockets \ {k} : sock'[l] = sock[l]
         /\ Live' = IF row.link /\ row.me THEN Live \cup {k} ELSE Live \ {k}
<1>1. sock'[k] = row /\ \A l \in Sockets \ {k} : sock'[l] = sock[l]
  BY DEF TypeOK
<1>2. \A l \in Sockets : sock'[l].link /\ sock'[l].me <=>
                           IF l = k THEN row.link /\ row.me ELSE sock[l].link /\ sock[l].me
  BY <1>1
<1>3. QED
  BY <1>1, <1>2 DEF Live

\* Connect, Reject, Forget: a socket that is not joined comes or goes.
Passes(k, row) ==
  /\ k \notin Live /\ ~(row.link /\ row.me) /\ UNCHANGED <<conn, light>>
  /\ sock[k].up # "tell" /\ (sock[k].up = "verify" \/ sock[k].down = "none")
  /\ row.up # "tell" /\ row.down = "none"

\* Verify
Joins(k, row) ==
  /\ sock[k].up = "verify" /\ k \notin Live
  /\ row.me /\ row.link = sock[k].link /\ row.down = sock[k].down
  /\ row.up = IF conn = 0 THEN "tell" ELSE "none"
  /\ conn' = conn + 1 /\ light' = light

\* Disconnect
Leaves(k, row) ==
  /\ sock[k].link /\ ~row.link /\ row.up = sock[k].up
  /\ k \in Live \/ sock[k].up = "verify"
  /\ conn' = IF k \in Live /\ conn > 0 THEN conn - 1 ELSE conn
  /\ row.down = IF k \in Live /\ conn <= 1 THEN "tell" ELSE "none"
  /\ light' = light

\* TellOnline, TellOffline
Tells(k, row) ==
  /\ row.link = sock[k].link /\ row.me = sock[k].me /\ conn' = conn
  /\ \/ /\ sock[k].up = "tell" /\ row.up = "none" /\ row.down = sock[k].down
        /\ light' = TRUE
     \/ /\ sock[k].down = "tell" /\ row.down = "none" /\ row.up = sock[k].up
        /\ light' = FALSE

Moves(k, row) ==
  /\ sock' = [sock EXCEPT ![k] = row]
  /\ row.up = "verify" => ~row.me
  /\ row.link /\ ~row.me => row.up = "verify"
  /\ Passes(k, row) \/ Joins(k, row) \/ Leaves(k, row) \/ Tells(k, row)

\* Every handler of the gateway moves one socket in one of these ways.
LEMMA PresenceMoves ==
  ASSUME TypeOK, SocketInv, Presence
  PROVE  \E k \in Sockets, row \in Socket : Moves(k, row)
<1> USE DEF Socket, Free
<1>1. ASSUME NEW k \in Sockets
      PROVE  /\ sock[k] \in Socket
             /\ sock[k].up = "verify" => ~sock[k].me
             /\ sock[k].link /\ ~sock[k].me => sock[k].up = "verify"
             /\ k \in Live <=> sock[k].link /\ sock[k].me
  BY DEF TypeOK, SocketInv, Live
<1>2. ASSUME NEW k \in Sockets, NEW isTab \in BOOLEAN, Connect(k, isTab)
      PROVE  \E row \in Socket : Moves(k, row)
  <2> DEFINE row == [Free EXCEPT !.link = TRUE, !.up = "verify"]
  <2>1. row \in Socket /\ sock' = [sock EXCEPT ![k] = row]
    BY <1>2 DEF Connect
  <2>2. Passes(k, row)
    BY <1>1, <1>2 DEF Connect, Passes
  <2>3. QED
    BY <2>1, <2>2 DEF Moves
<1>3. ASSUME NEW k \in Sockets, Verify(k)
      PROVE  \E row \in Socket : Moves(k, row)
  <2> DEFINE row == [sock[k] EXCEPT !.me = TRUE, !.up = IF conn = 0 THEN "tell" ELSE "none"]
  <2>1. row \in Socket /\ sock' = [sock EXCEPT ![k] = row]
    BY <1>1, <1>3 DEF Verify
  <2>2. Joins(k, row)
    BY <1>1, <1>3 DEF Verify, Joins
  <2>3. row.up # "verify" /\ row.me
    BY <1>1
  <2>4. QED
    BY <2>1, <2>2, <2>3 DEF Moves
<1>4. ASSUME NEW k \in Sockets, Reject(k) \/ Forget(k)
      PROVE  \E row \in Socket : Moves(k, row)
  <2>1. Free \in Socket /\ sock' = [sock EXCEPT ![k] = Free]
    BY <1>4 DEF Reject, Forget
  <2>2. Passes(k, Free)
    BY <1>1, <1>4 DEF Reject, Forget, Passes
  <2>3. QED
    BY <2>1, <2>2 DEF Moves
<1>5. ASSUME NEW k \in Sockets, Disconnect(k)
      PROVE  \E row \in Socket : Moves(k, row)
  <2> DEFINE row == Dropped(k, sock[k].up)
  <2>1. row \in Socket /\ sock' = [sock EXCEPT ![k] = row]
    BY <1>1, <1>5, DropMoves DEF Disconnect
  <2>2. ~row.link /\ row.up = sock[k].up /\ row.me = sock[k].me
    BY <1>1 DEF Dropped
  <2>3. Leaves(k, row)
    BY <1>1, <1>5, <2>2 DEF Disconnect, Drop, Dropped, Leaves
  <2>4. QED
    BY <1>1, <2>1, <2>2, <2>3 DEF Moves
<1>6. ASSUME NEW k \in Sockets, TellOnline(k) \/ TellOffline(k)
      PROVE  \E row \in Socket : Moves(k, row)
  <2>1. CASE TellOnline(k)
    <3> DEFINE row == [sock[k] EXCEPT !.up = "none"]
    <3>1. row \in Socket /\ sock' = [sock EXCEPT ![k] = row]
      BY <1>1, <2>1 DEF TellOnline
    <3>2. Tells(k, row) /\ row.up = "none"
      BY <1>1, <2>1 DEF TellOnline, Tells
    <3>3. row.link /\ ~row.me => FALSE
      BY <1>1, <2>1 DEF TellOnline
    <3>4. QED
      BY <3>1, <3>2, <3>3 DEF Moves
  <2>2. CASE TellOffline(k)
    <3> DEFINE row == [sock[k] EXCEPT !.down = "none"]
    <3>1. row \in Socket /\ sock' = [sock EXCEPT ![k] = row]
      BY <1>1, <2>2 DEF TellOffline
    <3>2. Tells(k, row) /\ row.up = sock[k].up /\ row.link = sock[k].link /\ row.me = sock[k].me
      BY <1>1, <2>2 DEF TellOffline, Tells
    <3>3. QED
      BY <1>1, <3>1, <3>2 DEF Moves
  <2>3. QED
    BY <1>6, <2>1, <2>2
<1>7. QED
  BY <1>2, <1>3, <1>4, <1>5, <1>6 DEF Presence

\* The count covers the joined sockets.
LEMMA CountStep ==
  ASSUME TypeOK, SocketInv, CountInv, Presence
  PROVE  SocketInv' /\ CountInv'
<1>1. PICK k \in Sockets, row \in Socket : Moves(k, row)
  BY PresenceMoves
<1>2. /\ sock'[k] = row /\ \A l \in Sockets \ {k} : sock'[l] = sock[l]
      /\ Live' = IF row.link /\ row.me THEN Live \cup {k} ELSE Live \ {k}
  BY <1>1, SocketMoves DEF Moves
<1>3. SocketInv'
  BY <1>1, <1>2 DEF SocketInv, Moves
<1>4. /\ Cardinality(Live) \in Nat
      /\ IsFiniteSet(Live \cup {k}) /\ IsFiniteSet(Live \ {k})
      /\ Cardinality(Live \cup {k}) = Cardinality(Live) + IF k \in Live THEN 0 ELSE 1
      /\ Cardinality(Live \ {k}) = Cardinality(Live) - IF k \in Live THEN 1 ELSE 0
  BY OneMoreOrLess DEF CountInv
<1>5. conn \in Nat /\ conn >= Cardinality(Live)
  BY DEF TypeOK, CountInv, CountCoversSockets
<1>6. k \in Live <=> sock[k].link /\ sock[k].me
  BY DEF Live
<1>7. conn' >= Cardinality(Live')
  <2>1. CASE Passes(k, row) \/ Joins(k, row)
    BY <1>2, <1>4, <1>5, <2>1 DEF Passes, Joins
  <2>2. CASE Leaves(k, row)
    BY <1>2, <1>4, <1>5, <2>2 DEF Leaves
  <2>3. CASE Tells(k, row)
    BY <1>2, <1>4, <1>5, <1>6, <2>3 DEF Tells
  <2>4. QED
    BY <1>1, <2>1, <2>2, <2>3 DEF Moves
<1>8. QED
  BY <1>2, <1>3, <1>4, <1>7 DEF CountInv, CountCoversSockets

\* Nor does a failure leave fewer counted than joined.
LEMMA FailureKeepsCount ==
  ASSUME TypeOK, SocketInv, CountInv, Failure
  PROVE  SocketInv' /\ CountInv'
<1>1. ASSUME NEW k \in Sockets, NEW row \in Socket, sock' = [sock EXCEPT ![k] = row],
             row.up # "verify", row.link => row.me /\ k \in Live /\ conn' = conn,
             ~row.link => conn' = IF k \in Live /\ conn > 0 THEN conn - 1 ELSE conn
      PROVE  SocketInv' /\ CountInv'
  <2>1. /\ sock'[k] = row /\ \A l \in Sockets \ {k} : sock'[l] = sock[l]
        /\ Live' = IF row.link /\ row.me THEN Live \cup {k} ELSE Live \ {k}
    BY <1>1, SocketMoves
  <2>2. /\ Cardinality(Live) \in Nat
        /\ IsFiniteSet(Live \cup {k}) /\ IsFiniteSet(Live \ {k})
        /\ Cardinality(Live \cup {k}) = Cardinality(Live) + IF k \in Live THEN 0 ELSE 1
        /\ Cardinality(Live \ {k}) = Cardinality(Live) - IF k \in Live THEN 1 ELSE 0
    BY OneMoreOrLess DEF CountInv
  <2>3. conn \in Nat /\ conn >= Cardinality(Live)
    BY DEF TypeOK, CountInv, CountCoversSockets
  <2>4. SocketInv'
    BY <1>1, <2>1 DEF SocketInv
  <2>5. CountInv'
    BY <1>1, <2>1, <2>2, <2>3 DEF CountInv, CountCoversSockets
  <2>6. QED
    BY <2>4, <2>5
<1>2. ASSUME NEW k \in Sockets
      PROVE  /\ sock[k] \in Socket
             /\ sock[k].up = "verify" => ~sock[k].me
             /\ sock[k].link /\ ~sock[k].me => sock[k].up = "verify"
             /\ k \in Live <=> sock[k].link /\ sock[k].me
  BY DEF TypeOK, SocketInv, Live
<1>3. ASSUME NEW k \in Sockets, TellOnlineFail(k)
      PROVE  SocketInv' /\ CountInv'
  <2>1. CASE sock[k].link
    <3> DEFINE row == Dropped(k, "none")
    <3>1. row \in Socket /\ sock' = [sock EXCEPT ![k] = row]
      BY <1>3, <2>1, DropMoves DEF TellOnlineFail
    <3>2. ~row.link /\ row.up = "none"
      BY <1>2 DEF Dropped, Socket
    <3>3. conn' = IF k \in Live /\ conn > 0 THEN conn - 1 ELSE conn
      BY <1>2, <1>3, <2>1 DEF TellOnlineFail, Drop
    <3> HIDE DEF row
    <3>4. QED
      BY <1>1, <3>1, <3>2, <3>3
  <2>2. CASE ~sock[k].link
    <3> DEFINE row == [sock[k] EXCEPT !.up = "none"]
    <3>1. row \in Socket /\ sock' = [sock EXCEPT ![k] = row] /\ conn' = conn
      BY <1>2, <1>3, <2>2 DEF TellOnlineFail, Socket
    <3>2. ~row.link /\ row.up = "none"
      BY <1>2, <2>2 DEF Socket
    <3>3. k \notin Live
      BY <1>2, <2>2
    <3> HIDE DEF row
    <3>4. QED
      BY <1>1, <3>1, <3>2, <3>3
  <2>3. QED
    BY <2>1, <2>2
<1>4. ASSUME NEW k \in Sockets, TellOfflineFail(k)
      PROVE  SocketInv' /\ CountInv'
  <2> DEFINE row == [sock[k] EXCEPT !.down = "none"]
  <2>1. row \in Socket /\ sock' = [sock EXCEPT ![k] = row] /\ conn' = conn
    BY <1>2, <1>4 DEF TellOfflineFail, Socket
  <2>2. row.link = sock[k].link /\ row.me = sock[k].me /\ row.up = sock[k].up
    BY <1>2 DEF Socket
  <2>3. \A l \in Sockets : /\ sock'[l].up = sock[l].up /\ sock'[l].me = sock[l].me
                            /\ sock'[l].link = sock[l].link
    BY <2>1, <2>2, SocketMoves
  <2>4. Live' = Live
    BY <2>3 DEF Live
  <2>5. QED
    BY <2>1, <2>3, <2>4 DEF SocketInv, CountInv, CountCoversSockets
<1>5. QED
  BY <1>3, <1>4 DEF Failure

\* While handlers do not overlap the count is exact, and what the light will be told
\* is so when it is told.
LEMMA LightStep ==
  ASSUME TypeOK, SocketInv, CountInv, LightInv, Presence, AtMostOne'
  PROVE  LightInv'
<1>1. PICK k \in Sockets, row \in Socket : Moves(k, row)
  BY PresenceMoves
<1>2. /\ sock'[k] = row /\ \A l \in Sockets \ {k} : sock'[l] = sock[l]
      /\ Live' = IF row.link /\ row.me THEN Live \cup {k} ELSE Live \ {k}
  BY <1>1, SocketMoves DEF Moves
<1>3. /\ Cardinality(Live) \in Nat /\ (Cardinality(Live) = 0 <=> Live = {})
      /\ IsFiniteSet(Live \cup {k}) /\ IsFiniteSet(Live \ {k})
      /\ Cardinality(Live \cup {k}) = Cardinality(Live) + IF k \in Live THEN 0 ELSE 1
      /\ Cardinality(Live \ {k}) = Cardinality(Live) - IF k \in Live THEN 1 ELSE 0
  BY OneMoreOrLess DEF CountInv
<1>4. conn = Cardinality(Live) /\ AtMostOne
  BY DEF LightInv
<1>5. k \in Live <=> sock[k].link /\ sock[k].me
  BY DEF Live
\* The handler in flight, and the one that comes next, are alone.
<1>6. ASSUME NEW l \in Sockets \ {k}
      PROVE  /\ sock[k].up # "none" \/ sock[k].down # "none" =>
                  sock[l].up = "none" /\ sock[l].down = "none"
             /\ row.up # "none" \/ row.down # "none" =>
                  sock[l].up = "none" /\ sock[l].down = "none"
  <2>1. sock'[l] = sock[l] /\ l # k
    BY <1>2
  <2>2. (InFlight(k) /\ InFlight(l) => k = l) /\ (InFlight(k)' /\ InFlight(l)' => k = l)
    BY <1>4 DEF AtMostOne
  <2>3. QED
    BY <1>2, <2>1, <2>2 DEF InFlight
<1>7. /\ sock[k].up = "none" \/ sock[k].down = "none"
      /\ row.up = "none" \/ row.down = "none"
      /\ sock[k].up = "verify" => sock[k].link
      /\ row.up = "verify" => row.link
  BY <1>2, <1>4 DEF AtMostOne
<1> DEFINE quiet == \A l \in Sockets \ {k} : sock[l].up # "tell" /\ sock[l].down # "tell"
<1>8. /\ sock[k].up = "tell" => Live # {}
      /\ sock[k].down = "tell" => Live = {}
      /\ \A l \in Sockets \ {k} : /\ sock[l].up = "tell" => Live # {}
                                  /\ sock[l].down = "tell" => Live = {}
      /\ quiet /\ sock[k].up # "tell" /\ sock[k].down # "tell" => light = (Live # {})
  BY DEF LightInv
<1>9. SUFFICES
        /\ conn' = Cardinality(Live')
        /\ row.up = "tell" => Live' # {}
        /\ row.down = "tell" => Live' = {}
        /\ \A l \in Sockets \ {k} : /\ sock[l].up = "tell" => Live' # {}
                                    /\ sock[l].down = "tell" => Live' = {}
        /\ quiet /\ row.up # "tell" /\ row.down # "tell" => light' = (Live' # {})
  BY <1>2 DEF LightInv
<1>10. CASE Passes(k, row)
  <2>1. Live' = Live
    BY <1>2, <1>10 DEF Passes
  <2>2. sock[k].down # "tell"
    BY <1>7, <1>10 DEF Passes
  <2>3. QED
    BY <1>4, <1>8, <1>10, <2>1, <2>2 DEF Passes
<1>11. CASE Joins(k, row)
  <2>1. Live' = Live \cup {k} /\ quiet /\ sock[k].down = "none"
    BY <1>2, <1>6, <1>7, <1>11 DEF Joins
  <2>2. row.up # "tell" => light
    BY <1>3, <1>4, <1>8, <1>11, <2>1 DEF Joins
  <2>3. QED
    BY <1>3, <1>4, <1>6, <1>7, <1>11, <2>1, <2>2 DEF Joins
<1>12. CASE Leaves(k, row)
  <2>1. k \in Live
    BY <1>7, <1>12 DEF Leaves
  <2>2. Live' = Live \ {k} /\ conn' = Cardinality(Live')
    BY <1>2, <1>3, <1>4, <1>12, <2>1 DEF Leaves
  <2>3. row.down = "tell" <=> Live' = {}
    <3>1. IsFiniteSet(Live') => (Cardinality(Live') = 0 <=> Live' = {})
      BY OneMoreOrLess
    <3>2. QED
      BY <1>3, <1>4, <1>12, <2>1, <2>2, <3>1 DEF Leaves
  <2>4. sock[k].down # "tell"
    BY <1>8, <2>1
  <2>5. QED
    BY <1>6, <1>7, <1>8, <1>12, <2>1, <2>2, <2>3, <2>4 DEF Leaves
<1>13. CASE Tells(k, row)
  <2>1. Live' = Live
    BY <1>2, <1>5, <1>13 DEF Tells
  <2>2. QED
    BY <1>4, <1>6, <1>7, <1>8, <1>13, <2>1 DEF Tells
<1>14. QED
  BY <1>1, <1>10, <1>11, <1>12, <1>13 DEF Moves

-----------------------------------------------------------------------------
(* Packets and copies.                                                     *)

CopiesInv == CopiesBounded /\ WireInv

\* Presence takes the wire with the tab, and nothing else of a message.
LEMMA PresenceKeepsCopies ==
  ASSUME TypeOK, CopiesInv, Presence \/ Failure
  PROVE  CopiesInv'
<1>1. UNCHANGED <<stored, due, asker, screen>>
  BY DEF Presence, Connect, Verify, Reject, TellOnline, Disconnect, TellOffline, Forget,
         Failure, TellOnlineFail, TellOfflineFail, server, client
<1>2. wire' = wire \/ wire' = <<>>
  <2>1. CASE Presence
    BY <2>1, TabGoesDown DEF Presence, Connect, Verify, Reject, TellOnline, Disconnect, Drop,
                             TellOffline, Forget, client
  <2>2. CASE Failure
    BY <2>2, TabGoesDown DEF Failure, TellOnlineFail, TellOfflineFail, Drop, client
  <2>3. QED
    BY <2>1, <2>2
<1>3. CASE wire' = wire
  BY <1>1, <1>3 DEF CopiesInv, CopiesBounded, WireInv, OnWire
<1>4. CASE wire' = <<>>
  <2>1. DOMAIN wire' = {}
    BY <1>4
  <2>2. QED
    BY <1>1, <2>1 DEF CopiesInv, CopiesBounded, WireInv, OnWire
<1>5. QED
  BY <1>2, <1>3, <1>4

\* A row is stored: nobody has seen it yet.
LEMMA StoreKeepsCopies ==
  ASSUME TypeOK, CopiesInv, NEW m \in Msgs, SendStore(m) \/ OtherStore(m)
  PROVE  CopiesInv'
<1>1. /\ m \notin stored
      /\ stored' = stored \cup {m} /\ due' \subseteq due \cup {m}
      /\ UNCHANGED <<wire, screen>>
      /\ \A n \in Msgs \ {m} : asker'[n] = asker[n]
  BY DEF SendStore, OtherStore, client, TypeOK, CopiesInv, WireInv
<1>2. ~OnWire(m) /\ screen[m] <= 1
  BY <1>1 DEF CopiesInv, WireInv
<1>3. CopiesBounded'
  BY <1>1, <1>2 DEF CopiesInv, CopiesBounded, TypeOK
<1>4. \A i \in DOMAIN wire : wire[i].kind = "ack" => wire[i].msg # m /\ wire[i].msg \in Msgs
  <2>1. \A i \in DOMAIN wire : wire[i] \in Packet
    BY ElementOfSeq, LenProperties DEF TypeOK
  <2>2. QED
    BY <1>2, <2>1, PacketTypes DEF OnWire
<1>5. WireInv'
  BY <1>1, <1>2, <1>4 DEF CopiesInv, WireInv, OnWire
<1>6. QED
  BY <1>3, <1>5 DEF CopiesInv

\* The one emit of a message.
LEMMA EmitKeepsCopies ==
  ASSUME TypeOK, CopiesInv, NEW m \in Msgs, FanOut(m)
  PROVE  CopiesInv'
<1>1. PICK n \in Seq(Packet) :
        /\ wire' = wire \o n
        /\ \A i \in DOMAIN n : /\ n[i].kind \in {"new", "ack"} /\ n[i].msg = m
                               /\ n[i].kind = "ack" => asker[m] # None
        /\ \A i, j \in DOMAIN n : n[i].kind = "ack" /\ n[j].kind = "ack" => i = j
  BY Emitted
<1>2. m \in due /\ due' = due \ {m} /\ UNCHANGED <<stored, asker, screen>>
  BY DEF FanOut
<1>3. ~OnWire(m) /\ screen[m] <= 1
  BY <1>2 DEF CopiesInv, WireInv
<1>4. \A i \in DOMAIN wire' :
        \/ i \in DOMAIN wire /\ wire'[i] = wire[i]
        \/ i - Len(wire) \in DOMAIN n /\ wire'[i] = n[i - Len(wire)]
  BY <1>1, Queued DEF TypeOK
<1>5. Len(wire) \in Nat /\ \A i \in DOMAIN wire' : i \in Nat
  BY <1>1, Queued, LenProperties DEF TypeOK
\* A packet is one of those that were there, of other messages, or a new one of m.
<1>6. ASSUME NEW i \in DOMAIN wire', wire'[i].kind # "nack"
      PROVE  \/ i \in DOMAIN wire /\ wire'[i] = wire[i] /\ wire[i].msg # m
             \/ /\ i - Len(wire) \in DOMAIN n /\ wire'[i] = n[i - Len(wire)]
                /\ wire'[i].msg = m
  BY <1>1, <1>3, <1>4, <1>6 DEF OnWire
<1>7. CopiesBounded'
  BY <1>2 DEF CopiesInv, CopiesBounded
<1>8. ASSUME NEW o \in Msgs, o \notin stored' \/ o \in due'
      PROVE  ~OnWire(o)' /\ screen'[o] <= 1
  <2>1. ~OnWire(o) /\ screen[o] <= 1 /\ o # m
    BY <1>2, <1>8 DEF CopiesInv, WireInv, TypeOK
  <2>2. QED
    BY <1>2, <1>6, <2>1 DEF OnWire
<1>9. ASSUME NEW i \in DOMAIN wire', wire'[i].kind = "ack"
      PROVE  asker'[wire'[i].msg] # None /\ screen'[wire'[i].msg] <= 1
  BY <1>1, <1>2, <1>3, <1>6, <1>9 DEF CopiesInv, WireInv
<1>10. ASSUME NEW i \in DOMAIN wire', NEW j \in DOMAIN wire',
              wire'[i].kind = "ack", wire'[j].kind = "ack", wire'[i].msg = wire'[j].msg
       PROVE  i = j
  <2>1. CASE wire'[i].msg = m
    <3>1. i - Len(wire) = j - Len(wire)
      BY <1>1, <1>6, <1>10, <2>1
    <3>2. QED
      BY <1>5, <3>1
  <2>2. CASE wire'[i].msg # m
    BY <1>6, <1>10, <2>2 DEF CopiesInv, WireInv
  <2>3. QED
    BY <2>1, <2>2
<1>11. QED
  BY <1>7, <1>8, <1>9, <1>10 DEF CopiesInv, WireInv

\* Refusals are packets of no message.
LEMMA RefusalKeepsCopies ==
  ASSUME TypeOK, CopiesInv, NEW n \in Seq(Packet), wire' = wire \o n,
         \A i \in DOMAIN n : n[i].kind = "nack",
         UNCHANGED <<stored, asker, screen>>, due' \subseteq due
  PROVE  CopiesInv'
<1>1. \A i \in DOMAIN wire' : wire'[i].kind # "nack" => i \in DOMAIN wire /\ wire'[i] = wire[i]
  BY Queued DEF TypeOK
<1>2. CopiesBounded'
  BY DEF CopiesInv, CopiesBounded
<1>3. \A m \in Msgs : OnWire(m)' => OnWire(m)
  BY <1>1 DEF OnWire
<1>4. WireInv'
  BY <1>1, <1>3 DEF CopiesInv, WireInv
<1>5. QED
  BY <1>2, <1>4 DEF CopiesInv

\* A handler that fails, before its row or after it.
LEMMA FailKeepsCopies ==
  ASSUME TypeOK, CopiesInv, SendFail \/ \E m \in Msgs : EmitFail(m)
  PROVE  CopiesInv'
<1>1. CASE SendFail
  <2> DEFINE n == <<[kind |-> "nack"]>>
  <2>1. n \in Seq(Packet) /\ \A i \in DOMAIN n : n[i].kind = "nack"
    BY PacketTypes
  <2>2. wire' = wire \o n
    BY <1>1, PacketTypes, AppendIsConcat DEF SendFail, TypeOK
  <2>3. UNCHANGED <<stored, asker, screen, due>>
    BY <1>1 DEF SendFail, server
  <2> HIDE DEF n
  <2>4. QED
    BY <2>1, <2>2, <2>3, RefusalKeepsCopies
<1>2. ASSUME NEW m \in Msgs, EmitFail(m)
      PROVE  CopiesInv'
  BY <1>2, Refusal, RefusalKeepsCopies DEF EmitFail
<1>3. QED
  BY <1>1, <1>2

\* The event finds no copy or leaves the list alone; the ack adds the second copy at most.
LEMMA DeliveryKeepsCopies ==
  ASSUME TypeOK, CopiesInv, Deliver
  PROVE  CopiesInv'
<1> DEFINE p == Head(wire)
<1>1. wire # <<>> /\ wire' = Tail(wire) /\ UNCHANGED <<stored, due, asker>>
  BY DEF Deliver, ReceiveNew, ReceiveAck, server
<1>2. /\ 1 \in DOMAIN wire /\ p = wire[1] /\ p \in Packet
      /\ \A i \in DOMAIN wire' : i + 1 \in DOMAIN wire /\ wire'[i] = wire[i + 1]
      /\ \A i \in DOMAIN wire' : i \in Nat /\ i # 0
  BY <1>1, Delivered, LenProperties DEF TypeOK
<1>3. \A m \in Msgs : OnWire(m)' => OnWire(m)
  BY <1>2 DEF OnWire
<1>4. CASE screen' = screen
  <2>1. CopiesBounded'
    BY <1>1, <1>4 DEF CopiesInv, CopiesBounded
  <2>2. WireInv'
    BY <1>1, <1>2, <1>3, <1>4 DEF CopiesInv, WireInv
  <2>3. QED
    BY <2>1, <2>2 DEF CopiesInv
<1>5. CASE p.kind = "new" /\ screen' = [screen EXCEPT ![p.msg] = IF @ > 0 THEN @ ELSE 1]
  <2>1. p.msg \in Msgs /\ OnWire(p.msg)
    BY <1>2, <1>5, PacketTypes DEF OnWire
  <2>2. \A m \in Msgs : screen'[m] <= screen[m] \/ screen'[m] = 1
    BY <1>5, <2>1 DEF TypeOK
  <2>3. \A m \in Msgs : /\ screen[m] \in Nat /\ screen'[m] \in Nat
                        /\ screen[m] <= 1 => screen'[m] <= 1
    BY <1>5, <2>1 DEF TypeOK
  <2>4. CopiesBounded'
    BY <1>1, <2>2, <2>3 DEF CopiesInv, CopiesBounded
  <2>5. \A i \in DOMAIN wire' : wire'[i].kind = "ack" => wire'[i].msg \in Msgs
    <3>1. \A i \in DOMAIN wire : wire[i] \in Packet
      BY ElementOfSeq, LenProperties DEF TypeOK
    <3>2. QED
      BY <1>2, <3>1, PacketTypes
  <2>6. WireInv'
    BY <1>1, <1>2, <1>3, <2>3, <2>5 DEF CopiesInv, WireInv
  <2>7. QED
    BY <2>4, <2>6 DEF CopiesInv
<1>6. CASE p.kind = "ack" /\ screen' = [screen EXCEPT ![p.msg] = @ + 1]
  <2>1. p.msg \in Msgs /\ OnWire(p.msg) /\ asker[p.msg] # None /\ screen[p.msg] <= 1
    BY <1>2, <1>6, PacketTypes DEF OnWire, CopiesInv, WireInv
  <2>2. /\ screen'[p.msg] = screen[p.msg] + 1 /\ screen[p.msg] \in Nat
        /\ \A m \in Msgs \ {p.msg} : screen'[m] = screen[m]
    BY <1>6, <2>1 DEF TypeOK
  <2>3. CopiesBounded'
    <3> SUFFICES ASSUME NEW m \in Msgs
                 PROVE  screen'[m] <= (IF asker[m] = None THEN 1 ELSE 2)
      BY <1>1 DEF CopiesBounded
    <3>1. CASE m = p.msg
      BY <2>1, <2>2, <3>1
    <3>2. CASE m # p.msg
      BY <2>2, <3>2 DEF CopiesInv, CopiesBounded
    <3>3. QED
      BY <3>1, <3>2
  \* No other ack is on its way for it.
  <2>4. ASSUME NEW i \in DOMAIN wire', wire'[i].kind = "ack"
        PROVE  wire'[i].msg # p.msg /\ wire'[i].msg \in Msgs
    <3>1. i + 1 \in DOMAIN wire /\ wire'[i] = wire[i + 1] /\ i + 1 # 1
      BY <1>2
    <3>2. wire[i + 1] \in Packet
      BY <3>1, ElementOfSeq, LenProperties DEF TypeOK
    <3>3. QED
      BY <1>2, <1>6, <2>4, <3>1, <3>2, PacketTypes DEF CopiesInv, WireInv
  <2>5. ASSUME NEW m \in Msgs, m \notin stored' \/ m \in due'
        PROVE  ~OnWire(m)' /\ screen'[m] <= 1
    <3>1. ~OnWire(m) /\ screen[m] <= 1
      BY <1>1, <2>5 DEF CopiesInv, WireInv
    <3>2. QED
      BY <1>3, <2>1, <2>2, <3>1
  <2>6. ASSUME NEW i \in DOMAIN wire', wire'[i].kind = "ack"
        PROVE  asker'[wire'[i].msg] # None /\ screen'[wire'[i].msg] <= 1
    BY <1>1, <1>2, <2>2, <2>4, <2>6 DEF CopiesInv, WireInv
  <2>7. ASSUME NEW i \in DOMAIN wire', NEW j \in DOMAIN wire',
               wire'[i].kind = "ack", wire'[j].kind = "ack", wire'[i].msg = wire'[j].msg
        PROVE  i = j
    <3>1. i + 1 = j + 1
      BY <1>2, <2>7 DEF CopiesInv, WireInv
    <3>2. QED
      BY <1>2, <3>1
  <2>8. WireInv'
    BY <2>5, <2>6, <2>7 DEF WireInv
  <2>9. QED
    BY <2>3, <2>8 DEF CopiesInv
<1>7. QED
  BY <1>2, <1>4, <1>5, <1>6, PacketTypes DEF Deliver, ReceiveNew, ReceiveAck

\* The thread is opened when nothing is on its way; a page has each message once.
LEMMA LoadKeepsCopies ==
  ASSUME TypeOK, CopiesInv, Tap \/ Open \/ LoadRead \/ LoadShow \/ LoadFail
  PROVE  CopiesInv'
<1>1. UNCHANGED <<stored, due, asker, wire>>
  BY DEF Tap, Open, LoadRead, LoadShow, LoadFail, server
<1>2. \A m \in Msgs : screen'[m] = screen[m] \/ screen'[m] \in {0, 1}
  BY DEF Tap, Open, LoadRead, LoadShow, LoadFail, Blank
<1>3. \A i \in DOMAIN wire : wire[i].kind = "ack" => wire[i].msg \in Msgs
  BY ElementOfSeq, LenProperties, PacketTypes DEF TypeOK
<1>4. CopiesBounded'
  BY <1>1, <1>2 DEF CopiesInv, CopiesBounded
<1>5. WireInv'
  BY <1>1, <1>2, <1>3 DEF CopiesInv, WireInv, OnWire
<1>6. QED
  BY <1>4, <1>5 DEF CopiesInv

-----------------------------------------------------------------------------
(* The results.                                                            *)

LEMMA InitIInv == Init => IInv
<1> SUFFICES ASSUME Init PROVE IInv
  OBVIOUS
<1>1. TypeOK
  BY TypeInit
<1>2. SocketInv /\ Live = {}
  BY DEF Init, SocketInv, Live, Free
<1>3. CountInv
  BY <1>2, FS_EmptySet DEF Init, CountInv, CountCoversSockets
<1>4. DOMAIN wire = {}
  BY DEF Init
<1>5. CopiesBounded /\ WireInv
  BY <1>4 DEF Init, Blank, CopiesBounded, WireInv, OnWire
<1>6. QED
  BY <1>1, <1>2, <1>3, <1>5 DEF IInv

LEMMA StepIInv ==
  ASSUME IInv, [Next]_vars
  PROVE  IInv'
<1>1. TypeOK'
  BY TypeStep DEF IInv
<1>2. CASE Presence
  BY <1>1, <1>2, CountStep, PresenceKeepsCopies DEF IInv, CopiesInv
<1>2a. CASE Failure
  BY <1>1, <1>2a, FailureKeepsCount, PresenceKeepsCopies DEF IInv, CopiesInv
<1>3. CASE ~Presence /\ ~Failure
  <2>1. UNCHANGED presence
    BY <1>3 DEF Next, vars, Handle, SendFail, SendStore, Emit, FanOut, EmitFail, Deliver, ReceiveNew,
                ReceiveAck, OtherStore, Screen, Tap, Open, LoadRead, LoadShow, LoadFail
  <2>2. SocketInv' /\ CountInv'
    BY <2>1 DEF presence, IInv, SocketInv, CountInv, CountCoversSockets, Live
  <2>3. UNCHANGED vars => CopiesInv'
    BY DEF vars, server, client, IInv, CopiesInv, CopiesBounded, WireInv, OnWire
  <2>4. CopiesInv'
    BY <1>3, <2>3, StoreKeepsCopies, EmitKeepsCopies, FailKeepsCopies,
       DeliveryKeepsCopies, LoadKeepsCopies DEF Next, Handle, Emit, Screen, IInv, CopiesInv
  <2>5. QED
    BY <1>1, <2>2, <2>4 DEF IInv, CopiesInv
<1>4. QED
  BY <1>2, <1>2a, <1>3

\* The inductive invariant holds in every reachable state.
THEOREM Invariance == Spec => []IInv
<1>1. IInv /\ [Next]_vars => IInv'
  BY StepIInv
<1>2. QED
  BY InitIInv, <1>1, PTL DEF Spec

\* The event and the ack show a message once to who receives it and at most twice to
\* who sent it, whatever is loaded or lost in between.
THEOREM CopiesCorrect == Spec => []CopiesBounded
<1>1. IInv => CopiesBounded
  BY DEF IInv
<1>2. QED
  BY <1>1, Invariance, PTL

\* A packet that is not the first stays on the wire when the first is delivered.
LEMMA DeliveryDropsNothing ==
  ASSUME TypeOK, Deliver, NEW m \in Msgs, Covered(m)
  PROVE  Covered(m)'
<1> DEFINE p == Head(wire)
<1>1. wire # <<>> /\ wire' = Tail(wire) /\ UNCHANGED due
  BY DEF Deliver, ReceiveNew, ReceiveAck, server
<1>2. /\ p = wire[1] /\ p \in Packet
      /\ \A i \in DOMAIN wire : i # 1 => i - 1 \in DOMAIN wire' /\ wire'[i - 1] = wire[i]
  BY <1>1, Delivered DEF TypeOK
<1>3. \A n \in Msgs : screen[n] \in Nat /\ (screen[n] > 0 => screen'[n] > 0)
  <2>1. CASE ReceiveNew
    BY <1>2, <2>1, PacketTypes DEF ReceiveNew, TypeOK
  <2>2. CASE ReceiveAck
    BY <1>2, <2>2, PacketTypes DEF ReceiveAck, TypeOK
  <2>3. QED
    BY <2>1, <2>2 DEF Deliver
<1>4. CASE OnWire(m)
  <2>1. PICK i \in DOMAIN wire : wire[i].kind # "nack" /\ wire[i].msg = m
    BY <1>4 DEF OnWire
  <2>2. CASE i = 1
    BY <1>2, <1>3, <2>1, <2>2, PacketTypes
    DEF Deliver, ReceiveNew, ReceiveAck, TypeOK, Covered
  <2>3. CASE i # 1
    BY <1>2, <2>1, <2>3 DEF Covered, OnWire
  <2>4. QED
    BY <2>2, <2>3
<1>5. QED
  BY <1>1, <1>3, <1>4 DEF Covered

\* What is to be emitted, or is on its way, or is shown, stays so for a tab that is joined
\* and keeps its connection and its list, if no handler fails before the emit.
LEMMA StepDropsNothing ==
  ASSUME TypeOK, Next, NEW m \in Msgs, Covered(m), tab \in Live, tab' = tab, load' = load,
         ~EmitFail(m)
  PROVE  Covered(m)'
<1>0. tab \in Sockets /\ tab # None
  BY NoneIsFresh DEF Live
<1>1. CASE Presence \/ Failure
  <2>2. UNCHANGED <<due, screen>>
    BY <1>1 DEF Presence, Connect, Verify, Reject, TellOnline, Disconnect, TellOffline,
                Forget, Failure, TellOnlineFail, TellOfflineFail, server, client
  <2>3. wire' = wire
    <3>1. CASE Presence
      BY <1>0, <3>1, TabGoesDown DEF Presence, Connect, Verify, Reject, TellOnline, Disconnect,
                                     Drop, TellOffline, Forget, client
    <3>2. CASE Failure
      BY <1>0, <3>2, TabGoesDown DEF Failure, TellOnlineFail, TellOfflineFail, Drop, client
    <3>3. QED
      BY <1>1, <3>1, <3>2
  <2>4. QED
    BY <2>2, <2>3 DEF Covered, OnWire
<1>2. ASSUME NEW n \in Msgs, FanOut(n)
      PROVE  Covered(m)'
  <2>1. PICK q \in Seq(Packet) :
          /\ wire' = wire \o q
          /\ \A i \in DOMAIN q : q[i].kind \in {"new", "ack"} /\ q[i].msg = n
          /\ tab \in Live => 1 \in DOMAIN q
    BY <1>2, Emitted
  <2>2. OnWire(m) \/ m = n => OnWire(m)'
    <3>1. /\ \A i \in DOMAIN wire : i \in DOMAIN wire' /\ wire'[i] = wire[i]
          /\ 1 + Len(wire) \in DOMAIN wire' /\ wire'[1 + Len(wire)] = q[1]
      BY <2>1, Queued DEF TypeOK
    <3>2. q[1].kind # "nack" /\ q[1].msg = n
      BY <2>1
    <3>3. QED
      BY <3>1, <3>2 DEF OnWire
  <2>3. due' = due \ {n} /\ screen' = screen
    BY <1>2 DEF FanOut
  <2>4. QED
    BY <2>2, <2>3 DEF Covered
<1>8. ASSUME NEW n \in Msgs, EmitFail(n)
      PROVE  Covered(m)'
  <2>1. n # m
    BY <1>8
  <2>2. PICK q \in Seq(Packet) : wire' = wire \o q
    BY <1>8, Refusal
  <2>3. \A i \in DOMAIN wire : i \in DOMAIN wire' /\ wire'[i] = wire[i]
    BY <2>2, Queued DEF TypeOK
  <2>4. due' = due \ {n} /\ screen' = screen
    BY <1>8 DEF EmitFail
  <2>5. QED
    BY <2>1, <2>3, <2>4 DEF Covered, OnWire
<1>3. CASE SendFail
  <2>1. wire \in Seq(Packet) /\ [kind |-> "nack"] \in Packet
    BY PacketTypes DEF TypeOK
  <2>2. \A i \in DOMAIN wire : i \in DOMAIN wire' /\ wire'[i] = wire[i]
    BY <1>3, <2>1, AppendProperties, LenProperties DEF SendFail
  <2>3. QED
    BY <1>3, <2>2 DEF SendFail, server, Covered, OnWire
<1>4. ASSUME NEW n \in Msgs, SendStore(n) \/ OtherStore(n)
      PROVE  Covered(m)'
  BY <1>4 DEF SendStore, OtherStore, client, Covered, OnWire
<1>5. CASE Tap
  BY <1>5 DEF Tap, server, Covered, OnWire
<1>6. CASE Open \/ LoadRead \/ LoadShow \/ LoadFail
  BY <1>6 DEF Open, LoadRead, LoadShow, LoadFail, NoLoad, TypeOK, Load
<1>7. QED
  BY <1>1, <1>2, <1>3, <1>4, <1>5, <1>6, <1>8, DeliveryDropsNothing
  DEF Next, Handle, Emit, Screen

\* onSend(): what is on its way to the emits reaches a joined tab that keeps its connection
\* and its list; only the user's own is given up, by a handler that fails, and then who
\* sent it is refused it.
THEOREM NothingIsLost == Spec => NothingLostWhileConnected
<1>1. TypeOK /\ [Next]_vars => [NothingDropped]_vars
  <2> SUFFICES ASSUME TypeOK, Next PROVE NothingDropped
    OBVIOUS
  <2>1. ASSUME NEW m \in Msgs, Covered(m), tab \in Live, tab' = tab, load' = load,
               ~EmitFail(m)
        PROVE  Covered(m)'
    BY <2>1, StepDropsNothing
  <2>2. ASSUME NEW m \in Msgs, EmitFail(m), asker[m] = tab
        PROVE  Refused'
    <3>1. PICK n \in Seq(Packet) : /\ wire' = wire \o n /\ 1 \in DOMAIN n
                                   /\ \A i \in DOMAIN n : n[i].kind = "nack"
      BY <2>2, Refusal
    <3>2. 1 + Len(wire) \in DOMAIN wire' /\ wire'[1 + Len(wire)] = n[1]
      BY <3>1, Queued DEF TypeOK
    <3>3. QED
      BY <3>1, <3>2 DEF Refused
  <2>3. QED
    BY <2>1, <2>2 DEF NothingDropped, EmitFail
<1>2. QED
  BY <1>1, TypeCorrect, PTL DEF Spec, NothingLostWhileConnected

-----------------------------------------------------------------------------
(* The history.                                                            *)

LEMMA InitHInv == HistoryInit => HInv
<1> SUFFICES ASSUME HistoryInit PROVE HInv
  OBVIOUS
<1>1. IInv /\ \A k \in Sockets : sock[k] = Free
  BY InitIInv DEF HistoryInit, Init
<1>2. Live = {} /\ conn = 0 /\ ~light
  BY <1>1 DEF HistoryInit, Init, Live, Free
<1>3. AtMostOne
  BY <1>1 DEF AtMostOne, InFlight, Free
<1>4. conn = Cardinality(Live)
  BY <1>2, FS_EmptySet
<1>5. light = (Live # {})
  BY <1>2, Zenon DEF HistoryInit, Init
<1>6. \A k \in Sockets : sock[k].up = "none" /\ sock[k].down = "none"
  BY <1>1 DEF Free
<1>7. LightInv
  BY <1>3, <1>4, <1>5, <1>6 DEF LightInv
<1>8. QED
  BY <1>1, <1>7 DEF HInv

LEMMA StepHInv == HInv /\ [HistoryNext]_<<vars, serial>> => HInv'
<1> SUFFICES ASSUME HInv, [HistoryNext]_<<vars, serial>>
             PROVE  HInv'
  OBVIOUS
<1>1. [Next]_vars
  BY DEF HistoryNext
<1>2. IInv'
  BY <1>1, StepIInv DEF HInv
<1>3. ASSUME serial' PROVE LightInv'
  <2>1. LightInv /\ (AtMostOne' \/ UNCHANGED vars)
    BY <1>3 DEF HInv, HistoryNext
  <2>2. UNCHANGED presence => LightInv'
    BY <2>1 DEF presence, LightInv, AtMostOne, InFlight, Live
  <2>3. ~Presence /\ ~Failure => UNCHANGED presence
    BY <1>1 DEF Next, vars, Handle, SendFail, SendStore, Emit, FanOut, EmitFail, Deliver, ReceiveNew,
                ReceiveAck, OtherStore, Screen, Tap, Open, LoadRead, LoadShow, LoadFail
  <2>4. Failure => UNCHANGED presence
    BY <1>3 DEF HistoryNext, vars
  <2>5. QED
    BY <2>1, <2>2, <2>3, <2>4, LightStep DEF HInv, IInv, vars
<1>4. QED
  BY <1>2, <1>3 DEF HInv

\* While the handlers of connections have neither overlapped nor failed, the count is
\* exact.
THEOREM LightInvariance == HistorySpec => []HInv
  BY InitHInv, StepHInv, PTL DEF HistorySpec

\* Nobody with a socket loses the entry, and, unless two of the handlers overlapped or one
\* failed, the friend who watches knows, between them, whether the user has a socket.
THEOREM PresenceCorrect == HistorySpec => []PresenceIsTrue
<1>1. HInv => PresenceIsTrue
  <2> SUFFICES ASSUME HInv PROVE PresenceIsTrue
    OBVIOUS
  <2>1. CountCoversSockets
    BY DEF HInv, IInv, CountInv
  <2>2. ASSUME serial, \A k \in Sockets : ~InFlight(k)
        PROVE  light = (Live # {})
    <3>1. LightInv
      BY <2>2 DEF HInv
    <3>2. \A k \in Sockets : sock[k].up # "tell" /\ sock[k].down # "tell"
      BY <2>2 DEF InFlight
    <3>3. QED
      BY <3>1, <3>2 DEF LightInv
  <2>3. QED
    BY <2>1, <2>2, Zenon DEF PresenceIsTrue
<1>2. QED
  BY <1>1, LightInvariance, PTL
=============================================================================
