--------------------------- MODULE MessagesProofs ---------------------------
(***************************************************************************)
(* Proofs about Messages, for all users, keys and handlers.                *)
(*                                                                         *)
(* A row of messages is written once and keeps its conversation, sender    *)
(* and nonce, and a handler that has a message is in its conversation:     *)
(* IInv.  Threads are counted against the handlers about to make one:      *)
(* ThreadInv.                                                              *)
(***************************************************************************)
EXTENDS MessagesSerial, FiniteSetTheorems, TLAPS

\* What the handler q still knows of the rows t of messages, whatever has run since.
Coherent(q, t) ==
  /\ q.at # "idle" => q.me \in Users
  /\ q.at \in {"assert", "nonce", "insert", "react"} => q.conv \in Convs
  /\ q.at \in {"find", "create", "nonce", "insert"} => q.msg = None /\ q.nonce \in Nonces
  /\ q.at = "assert" /\ q.msg = None => q.nonce \in Nonces
  /\ q.at \in {"react", "fan_out", "emit"} => q.msg # None
  /\ q.at \in {"assert", "react"} /\ q.msg # None =>
       t[q.msg].state # "none" /\ t[q.msg].conv = q.conv
  /\ q.at \in {"fan_out", "emit"} =>
       /\ q.nonce \in Nonces /\ t[q.msg].state # "none"
       /\ t[q.msg].from = q.me /\ t[q.msg].nonce = q.nonce

RowsAreWhole ==
  \A m \in Msgs : IF msg[m].state = "none" THEN msg[m] = NoMsg
                  ELSE msg[m].conv \in Convs /\ msg[m].from \in Users

OneRowPerNonce ==
  \A m1, m2 \in Msgs :
    msg[m1].state # "none" /\ msg[m1].from = msg[m2].from
      /\ msg[m1].nonce = msg[m2].nonce => m1 = m2

IInv ==
  /\ TypeOK
  /\ RowsAreWhole
  /\ OneRowPerNonce
  /\ \A r \in Reqs : Coherent(req[r], msg)

\* A row keeps everything but its state, and is never unwritten.
RowsKept ==
  \A m \in Msgs : msg[m].state # "none" =>
    /\ msg'[m].state # "none" /\ msg'[m].conv = msg[m].conv
    /\ msg'[m].from = msg[m].from /\ msg'[m].nonce = msg[m].nonce

-----------------------------------------------------------------------------
(* IInv is inductive.                                                      *)

LEMMA InitIInv == Init => IInv
<1> SUFFICES ASSUME Init PROVE IInv
  OBVIOUS
<1>1. Idle \in Request /\ Coherent(Idle, msg)
  BY NoneIsFresh DEF Idle, Request, Coherent
<1>2. NoMsg \in MsgRow
  BY DEF NoMsg, MsgRow
<1>3. TypeOK
  BY <1>1, <1>2 DEF Init, TypeOK
<1>4. RowsAreWhole /\ OneRowPerNonce
  BY DEF Init, RowsAreWhole, OneRowPerNonce, NoMsg
<1>5. QED
  BY <1>1, <1>3, <1>4 DEF Init, IInv

\* A step that keeps the rows and changes one handler keeps the others.
LEMMA HandlerMoves ==
  ASSUME IInv, RowsKept, NEW r \in Reqs, NEW q \in Request, Coherent(q, msg'),
         req' = [req EXCEPT ![r] = q]
  PROVE  req' \in [Reqs -> Request] /\ \A s \in Reqs : Coherent(req'[s], msg')
<1>1. req' \in [Reqs -> Request]
  BY DEF IInv, TypeOK
<1>2. ASSUME NEW s \in Reqs PROVE Coherent(req'[s], msg')
  <2>1. CASE s = r
    BY <2>1 DEF IInv, TypeOK
  <2>2. CASE s # r
    <3>1. req'[s] = req[s] /\ req[s] \in Request /\ Coherent(req[s], msg)
      BY <2>2 DEF IInv, TypeOK
    <3>2. req[s].msg \in Msgs \cup {None}
      BY <3>1 DEF Request
    <3>3. QED
      BY <3>1, <3>2 DEF Coherent, RowsKept
  <2>3. QED
    BY <2>1, <2>2
<1>3. QED
  BY <1>1, <1>2

\* The case of most steps: the rows are not touched.
LEMMA QuietStep ==
  ASSUME IInv, NEW r \in Reqs, NEW q \in Request, Coherent(q, msg),
         req' = [req EXCEPT ![r] = q], UNCHANGED <<made, present, msg>>,
         emoji' \in [Msgs -> SUBSET Users], heard' \in SUBSET (Users \X Msgs)
  PROVE  IInv' /\ RowsKept
<1>1. RowsKept
  BY DEF RowsKept
<1>2. req' \in [Reqs -> Request] /\ \A s \in Reqs : Coherent(req'[s], msg')
  BY <1>1, HandlerMoves
<1>3. TypeOK' /\ RowsAreWhole' /\ OneRowPerNonce'
  BY <1>2 DEF IInv, TypeOK, RowsAreWhole, OneRowPerNonce
<1>4. QED
  BY <1>1, <1>2, <1>3 DEF IInv

LEMMA IdleFits == Idle \in Request /\ \A t : Coherent(Idle, t)
  BY DEF Idle, Request, Coherent

LEMMA HandlerTyped ==
  ASSUME IInv, NEW r \in Reqs
  PROVE  req[r] \in Request /\ Coherent(req[r], msg)
  BY DEF IInv, TypeOK

LEMMA ArriveIInv ==
  ASSUME IInv, NEW r \in Reqs, Arrive(r)
  PROVE  IInv' /\ RowsKept
<1>1. PICK q \in Request : Begin(r, q) /\ Coherent(q, msg)
  <2>1. CASE \E me \in Users, n \in Nonces : SendTo(r, me, n)
    <3>1. PICK me \in Users, n \in Nonces : SendTo(r, me, n)
      BY <2>1
    <3> DEFINE q == [Idle EXCEPT !.at = "find", !.me = me, !.nonce = n]
    <3>2. q \in Request /\ Coherent(q, msg)
      BY DEF Idle, Request, Coherent, InFlight
    <3>3. QED
      BY <3>1, <3>2 DEF SendTo
  <2>2. CASE \E me \in Users, n \in Nonces, c \in Convs : SendInto(r, me, c, n)
    <3>1. PICK me \in Users, n \in Nonces, c \in Convs : SendInto(r, me, c, n)
      BY <2>2
    <3> DEFINE q == [Idle EXCEPT !.at = "assert", !.me = me, !.conv = c, !.nonce = n]
    <3>2. q \in Request /\ Coherent(q, msg)
      BY DEF Idle, Request, Coherent, InFlight
    <3>3. QED
      BY <3>1, <3>2 DEF SendInto
  <2>3. CASE \E me \in Users, m \in Msgs : ReactRead(r, me, m)
    <3>1. PICK me \in Users, m \in Msgs : ReactRead(r, me, m)
      BY <2>3
    <3> DEFINE q == [Idle EXCEPT !.at = "assert", !.me = me,
                       !.conv = msg[m].conv, !.msg = m]
    <3>2. msg[m].state # "none" /\ msg[m].conv \in Convs /\ m # None
      BY <3>1, NoneIsFresh DEF ReactRead, IInv, RowsAreWhole
    <3>3. q \in Request /\ Coherent(q, msg)
      BY <3>2 DEF Idle, Request, Coherent, InFlight
    <3>4. QED
      BY <3>1, <3>3 DEF ReactRead
  <2>4. QED
    BY <2>1, <2>2, <2>3 DEF Arrive
<1>2. QED
  BY <1>1, QuietStep DEF Begin, rows, IInv, TypeOK

LEMMA ReadIInv ==
  ASSUME IInv, NEW r \in Reqs,
         Find(r) \/ AssertMember(r) \/ SendNonce(r) \/ FanOutRead(r)
  PROVE  IInv' /\ RowsKept
<1>0. req[r] \in Request /\ Coherent(req[r], msg)
  BY HandlerTyped
<1>1. PICK q \in Request : req' = [req EXCEPT ![r] = q] /\ Coherent(q, msg)
  <2>1. CASE Finish(r)
    BY <2>1, IdleFits DEF Finish
  <2>2. CASE Find(r)
    <3>1. CASE Goto(r, "create")
      <4> DEFINE q == [req[r] EXCEPT !.at = "create"]
      <4>1. q \in Request /\ Coherent(q, msg)
        BY <1>0, <2>2 DEF Find, Request, Coherent, InFlight
      <4>2. QED
        BY <3>1, <4>1 DEF Goto, IInv, TypeOK
    <3>2. CASE \E c \in made : req' = [req EXCEPT ![r].at = "assert", ![r].conv = c]
      <4>1. PICK c \in made : req' = [req EXCEPT ![r].at = "assert", ![r].conv = c]
        BY <3>2
      <4> DEFINE q == [req[r] EXCEPT !.at = "assert", !.conv = c]
      <4>2. c \in Convs
        BY DEF IInv, TypeOK
      <4>3. q \in Request /\ Coherent(q, msg)
        BY <1>0, <2>2, <4>2 DEF Find, Request, Coherent, InFlight
      <4>4. QED
        BY <4>1, <4>3 DEF IInv, TypeOK
    <3>3. QED
      BY <2>2, <3>1, <3>2 DEF Find
  <2>3. CASE AssertMember(r) /\ MemberGoesOn(r)
    <3> DEFINE q == [req[r] EXCEPT !.at = IF req[r].msg = None THEN "nonce" ELSE "react"]
    <3>1. q \in Request /\ Coherent(q, msg)
      BY <1>0, <2>3 DEF AssertMember, Request, Coherent, InFlight
    <3>2. QED
      BY <2>3, <3>1 DEF MemberGoesOn, Goto, IInv, TypeOK
  <2>4. CASE SendNonce(r)
    <3>1. CASE Goto(r, "insert")
      <4> DEFINE q == [req[r] EXCEPT !.at = "insert"]
      <4>1. q \in Request /\ Coherent(q, msg)
        BY <1>0, <2>4 DEF SendNonce, Request, Coherent, InFlight
      <4>2. QED
        BY <3>1, <4>1 DEF Goto, IInv, TypeOK
    <3>2. CASE \E m \in Stored(req[r].me, req[r].nonce) :
                 req' = [req EXCEPT ![r].at = "fan_out", ![r].msg = m]
      <4>1. PICK m \in Stored(req[r].me, req[r].nonce) :
                   req' = [req EXCEPT ![r].at = "fan_out", ![r].msg = m]
        BY <3>2
      <4> DEFINE q == [req[r] EXCEPT !.at = "fan_out", !.msg = m]
      <4>2. /\ req[r].at = "nonce" /\ req[r].me \in Users /\ req[r].nonce \in Nonces
            /\ m \in Msgs /\ msg[m].from = req[r].me /\ msg[m].nonce = req[r].nonce
        BY <1>0, <2>4 DEF SendNonce, Coherent, Stored
      <4>3. msg[m].state # "none" /\ m # None
        BY <4>2, NoneIsFresh DEF IInv, RowsAreWhole, NoMsg
      <4>4. q \in Request /\ Coherent(q, msg)
        BY <1>0, <4>2, <4>3 DEF Request, Coherent, InFlight
      <4>5. QED
        BY <4>1, <4>4 DEF IInv, TypeOK
    <3>3. QED
      BY <2>4, <3>1, <3>2 DEF SendNonce
  <2>5. CASE FanOutRead(r)
    <3> DEFINE to == present[msg[req[r].msg].conv]
               q  == [req[r] EXCEPT !.at = "emit", !.to = to]
    <3>1. req[r].msg \in Msgs
      BY <1>0, <2>5 DEF FanOutRead, Coherent, Request
    <3>2. to \subseteq Users
      BY <1>0, <2>5, <3>1 DEF FanOutRead, Coherent, IInv, TypeOK, RowsAreWhole
    <3>3. q \in Request /\ Coherent(q, msg)
      BY <1>0, <2>5, <3>2 DEF FanOutRead, Request, Coherent, InFlight
    <3>4. QED
      BY <2>5, <3>3 DEF FanOutRead, IInv, TypeOK
  <2>6. QED
    BY <2>1, <2>2, <2>3, <2>4, <2>5 DEF AssertMember
<1>2. QED
  BY <1>1, QuietStep DEF Find, AssertMember, SendNonce, FanOutRead, rows, IInv, TypeOK

LEMMA EndIInv ==
  ASSUME IInv, NEW r \in Reqs,
         FanOut(r) \/ (\E on \in BOOLEAN : ReactWrite(r, on)) \/ Abort(r)
  PROVE  IInv' /\ RowsKept
<1>0. req[r] \in Request /\ Coherent(req[r], msg)
  BY HandlerTyped
<1>1. req' = [req EXCEPT ![r] = Idle] /\ UNCHANGED <<made, present, msg>>
  BY DEF FanOut, ReactWrite, Abort, Finish, rows
<1>2. CASE FanOut(r)
  <2>1. req[r].msg \in Msgs
    BY <1>0, <1>2 DEF FanOut, Coherent, Request
  <2>2. req[r].to \subseteq Users
    BY <1>0 DEF Request
  <2>3. heard' \in SUBSET (Users \X Msgs)
    BY <1>2, <2>1, <2>2 DEF FanOut
  <2>4. QED
    BY <1>1, <1>2, <2>3, IdleFits, QuietStep DEF FanOut, rows, IInv, TypeOK
<1>3. ASSUME NEW on \in BOOLEAN, ReactWrite(r, on)
      PROVE  IInv' /\ RowsKept
  <2>1. req[r].me \in Users
    BY <1>0, <1>3 DEF ReactWrite, Coherent
  <2>2. emoji' \in [Msgs -> SUBSET Users]
    BY <1>3, <2>1 DEF ReactWrite, IInv, TypeOK
  <2>3. QED
    BY <1>1, <1>3, <2>2, IdleFits, QuietStep DEF ReactWrite
<1>4. CASE Abort(r)
  BY <1>1, <1>4, IdleFits, QuietStep DEF Abort, rows, IInv, TypeOK
<1>5. QED
  BY <1>2, <1>3, <1>4

LEMMA CreateIInv ==
  ASSUME IInv, NEW r \in Reqs, NEW c \in Convs, CreateDirect(r, c)
  PROVE  IInv' /\ RowsKept
<1> DEFINE q == [req[r] EXCEPT !.at = "assert", !.conv = c]
<1>1. req[r] \in Request /\ Coherent(req[r], msg)
  BY HandlerTyped
<1>2. q \in Request /\ Coherent(q, msg')
  BY <1>1 DEF CreateDirect, Request, Coherent, InFlight
<1>3. RowsKept /\ req' = [req EXCEPT ![r] = q]
  BY DEF CreateDirect, RowsKept, IInv, TypeOK
<1>4. req' \in [Reqs -> Request] /\ \A s \in Reqs : Coherent(req'[s], msg')
  BY <1>2, <1>3, HandlerMoves
<1>5. TypeOK' /\ RowsAreWhole' /\ OneRowPerNonce'
  BY <1>4 DEF CreateDirect, IInv, TypeOK, RowsAreWhole, OneRowPerNonce
<1>6. QED
  BY <1>3, <1>4, <1>5 DEF IInv

LEMMA InsertIInv ==
  ASSUME IInv, NEW r \in Reqs, NEW m \in Msgs, SendInsert(r, m)
  PROVE  IInv' /\ RowsKept
<1> DEFINE q   == [req[r] EXCEPT !.at = "fan_out", !.msg = m]
           new == [state |-> "sent", conv |-> req[r].conv,
                   from |-> req[r].me, nonce |-> req[r].nonce]
<1>1. req[r] \in Request /\ Coherent(req[r], msg)
  BY HandlerTyped
<1>2. req[r].me \in Users /\ req[r].conv \in Convs /\ req[r].nonce \in Nonces /\ m # None
  BY <1>1, NoneIsFresh DEF SendInsert, Coherent
<1>3. msg' = [msg EXCEPT ![m] = new] /\ msg' \in [Msgs -> MsgRow]
  BY <1>2 DEF SendInsert, MsgRow, IInv, TypeOK
<1>4. q \in Request /\ Coherent(q, msg')
  BY <1>1, <1>2, <1>3 DEF Request, Coherent, InFlight, IInv, TypeOK
<1>5. RowsKept /\ req' = [req EXCEPT ![r] = q]
  BY <1>3 DEF SendInsert, RowsKept, IInv, TypeOK
<1>6. req' \in [Reqs -> Request] /\ \A s \in Reqs : Coherent(req'[s], msg')
  BY <1>4, <1>5, HandlerMoves
<1>7. TypeOK'
  BY <1>3, <1>6 DEF SendInsert, IInv, TypeOK
<1>8. RowsAreWhole'
  BY <1>2, <1>3 DEF IInv, RowsAreWhole, TypeOK
<1>9. OneRowPerNonce'
  <2>1. \A n \in Msgs : n # m => ~(msg[n].from = req[r].me /\ msg[n].nonce = req[r].nonce)
    BY DEF SendInsert, Stored
  <2>2. QED
    BY <1>3, <2>1 DEF IInv, OneRowPerNonce, TypeOK
<1>10. QED
  BY <1>5, <1>6, <1>7, <1>8, <1>9 DEF IInv

LEMMA SurroundingsIInv ==
  ASSUME IInv, Surroundings
  PROVE  IInv' /\ RowsKept
<1>1. CASE \E m \in Msgs : DeleteMessage(m)
  <2>1. PICK m \in Msgs : DeleteMessage(m)
    BY <1>1
  <2>2. msg' = [msg EXCEPT ![m].state = "deleted"] /\ msg' \in [Msgs -> MsgRow]
    <3>1. msg[m] \in [state : {"sent", "deleted"}, conv : Convs, from : Users, nonce : Nonces]
      BY <2>1 DEF DeleteMessage, MsgRow, NoMsg, IInv, TypeOK
    <3>2. [msg[m] EXCEPT !.state = "deleted"] \in MsgRow
      BY <3>1 DEF MsgRow
    <3>3. QED
      BY <2>1, <3>2 DEF DeleteMessage, IInv, TypeOK
  <2>3. \A n \in Msgs : /\ msg'[n].conv = msg[n].conv /\ msg'[n].from = msg[n].from
                        /\ msg'[n].nonce = msg[n].nonce
                        /\ msg'[n].state = "none" <=> msg[n].state = "none"
                        /\ msg'[n].state = "none" => msg'[n] = msg[n]
    BY <2>1, <2>2 DEF DeleteMessage, IInv, TypeOK, MsgRow
  <2>4. RowsKept
    BY <2>3 DEF RowsKept
  <2>5. \A s \in Reqs : Coherent(req'[s], msg')
    <3> TAKE s \in Reqs
    <3>1. req'[s] = req[s] /\ req[s] \in Request /\ Coherent(req[s], msg)
      BY <2>1, HandlerTyped DEF DeleteMessage
    <3>2. req[s].msg \in Msgs \cup {None}
      BY <3>1 DEF Request
    <3>3. QED
      BY <2>3, <3>1, <3>2 DEF Coherent
  <2>6. TypeOK' /\ RowsAreWhole' /\ OneRowPerNonce'
    BY <2>1, <2>2, <2>3 DEF DeleteMessage, IInv, TypeOK, RowsAreWhole, OneRowPerNonce
  <2>7. QED
    BY <2>4, <2>5, <2>6 DEF IInv
<1>2. CASE \E u \in Users, c \in Convs : Leave(u, c)
  <2>1. PICK u \in Users, c \in Convs : Leave(u, c)
    BY <1>2
  <2>2. TypeOK'
    BY <2>1 DEF Leave, IInv, TypeOK
  <2>3. QED
    BY <2>1, <2>2 DEF Leave, IInv, RowsAreWhole, OneRowPerNonce, RowsKept
<1>3. QED
  BY <1>1, <1>2 DEF Surroundings

\* Every step keeps IInv and the rows.
LEMMA StepIInv ==
  ASSUME IInv, [Next]_vars
  PROVE  IInv' /\ RowsKept
<1>1. CASE UNCHANGED vars
  BY <1>1 DEF vars, IInv, TypeOK, RowsAreWhole, OneRowPerNonce, RowsKept
<1>2. ASSUME NEW r \in Reqs, Continue(r)
      PROVE  IInv' /\ RowsKept
  BY <1>2, ReadIInv, EndIInv, CreateIInv, InsertIInv DEF Continue
<1>3. QED
  BY <1>1, <1>2, ArriveIInv, EndIInv, SurroundingsIInv DEF Next

\* The invariant of Messages: rows are whole and written once per nonce, and what each
\* handler in flight has read is still so.
THEOREM Invariance == Spec => []IInv
<1>1. QED
  BY InitIInv, StepIInv, PTL DEF Spec

\* The variables of Messages keep their types.
THEOREM TypeCorrect == Spec => []TypeOK
<1>1. IInv => TypeOK
  BY DEF IInv
<1>2. QED
  BY <1>1, Invariance, PTL

\* send(): one row per nonce of a sender, and the answer to every retry is that row.
THEOREM RetriesAreSafe == Spec => []NonceIsIdempotent
<1>1. ASSUME IInv PROVE NonceIsIdempotent
  <2>1. ASSUME NEW r \in Reqs, req[r].at \in {"fan_out", "emit"}
        PROVE  req[r].msg \in Stored(req[r].me, req[r].nonce)
    <3>1. req[r] \in Request /\ Coherent(req[r], msg)
      BY <1>1, HandlerTyped
    <3>2. req[r].msg \in Msgs
      BY <2>1, <3>1 DEF Coherent, Request
    <3>3. QED
      BY <2>1, <3>1, <3>2 DEF Coherent, Stored
  <2>2. QED
    BY <1>1, <2>1 DEF IInv, OneRowPerNonce, NonceIsIdempotent
<1>2. QED
  BY <1>1, Invariance, PTL
-----------------------------------------------------------------------------
(* Who has left stays out.                                                 *)

\* A handler gets past the membership check only as a member, or is past it already.
LEMMA OnlyMembersPass ==
  ASSUME IInv, [Next]_vars, NEW r \in Reqs, NEW u \in Users, NEW c \in made,
         u \notin present[c], ~Past(req[r], u, c)
  PROVE  ~Past(req'[r], u, c)
<1>1. req[r] \in Request /\ req \in [Reqs -> Request]
  BY DEF IInv, TypeOK
<1>2. CASE req'[r] = req[r]
  BY <1>2
<1>3. CASE Finish(r)
  BY <1>1, <1>3 DEF Finish, Idle, Past
<1>4. CASE Find(r) \/ \E d \in Convs : CreateDirect(r, d)
  <2>1. req'[r].at \in {"assert", "create"}
    BY <1>1, <1>4 DEF Find, CreateDirect, Goto, Request
  <2>2. QED
    BY <2>1 DEF Past
<1>5. CASE AssertMember(r) /\ ~Finish(r)
  <2>1. req[r].me \in present[req[r].conv]
    BY <1>5 DEF AssertMember
  <2>2. req'[r].me = req[r].me /\ req'[r].conv = req[r].conv
    BY <1>1, <1>5, <2>1 DEF AssertMember, MemberGoesOn, Goto, Request
  <2>3. QED
    BY <2>1, <2>2 DEF Past
<1>6. CASE SendNonce(r)
  <2>1. /\ req'[r].me = req[r].me /\ req'[r].conv = req[r].conv
        /\ req[r].at = "nonce" /\ req'[r].at \in {"insert", "fan_out"}
    BY <1>1, <1>6 DEF SendNonce, Goto, Request
  <2>2. QED
    BY <2>1 DEF Past
<1>7. CASE \E m \in Msgs : SendInsert(r, m)
  <2>1. req'[r].at = "fan_out"
    BY <1>1, <1>7 DEF SendInsert, Request
  <2>2. QED
    BY <2>1 DEF Past
<1>7a. CASE FanOutRead(r)
  <2>1. req'[r].at = "emit"
    BY <1>1, <1>7a DEF FanOutRead, Request
  <2>2. QED
    BY <2>1 DEF Past
<1>8. ASSUME NEW s \in Reqs, s # r, Arrive(s) \/ Continue(s) \/ Abort(s)
      PROVE  req'[r] = req[r]
  <2>1. \E q : req' = [req EXCEPT ![s] = q]
    BY <1>1, <1>8 DEF Arrive, SendTo, SendInto, ReactRead, Begin, Continue, Find,
       AssertMember, MemberGoesOn, SendNonce, FanOutRead, FanOut, CreateDirect,
       SendInsert, ReactWrite, Abort, Goto, Finish
  <2>2. QED
    BY <1>1, <1>8, <2>1
<1>9. CASE Surroundings
  BY <1>2, <1>9 DEF Surroundings, DeleteMessage, Leave
<1>10. CASE Arrive(r)
  <2>1. req'[r].at \in {"find", "assert"}
    BY ZenonT(40), <1>1, <1>10 DEF Arrive, SendTo, SendInto, ReactRead, Begin, Idle
  <2>2. QED
    BY <2>1 DEF Past
<1>11. CASE Continue(r) \/ Abort(r)
  BY <1>3, <1>4, <1>5, <1>6, <1>7, <1>11, <1>7a DEF Continue, Abort, FanOut, ReactWrite
<1>12. CASE UNCHANGED vars
  BY <1>2, <1>12 DEF vars
<1>13. CASE \E s \in Reqs : Arrive(s) \/ Continue(s) \/ Abort(s)
  <2>1. PICK s \in Reqs : Arrive(s) \/ Continue(s) \/ Abort(s)
    BY <1>13
  <2>2. CASE s = r
    BY <1>10, <1>11, <2>1, <2>2
  <2>3. CASE s # r
    BY <1>2, <1>8, <2>1, <2>3
  <2>4. QED
    BY <2>2, <2>3
<1>14. QED
  BY <1>9, <1>12, <1>13 DEF Next

\* Nobody enters a conversation that exists.
LEMMA NobodyEnters ==
  ASSUME TypeOK, [Next]_vars, NEW c \in made
  PROVE  c \in made' /\ present'[c] \subseteq present[c]
<1>1. CASE \E r \in Reqs, d \in Convs : CreateDirect(r, d)
  BY <1>1 DEF CreateDirect, TypeOK
<1>2. CASE \E u \in Users, d \in Convs : Leave(u, d)
  BY <1>2 DEF Leave, TypeOK
<1>3. CASE UNCHANGED <<present, made>>
  BY <1>3
<1>4. QED
  BY <1>1, <1>2, <1>3
  DEF Next, Arrive, SendTo, SendInto, ReactRead, Begin, Continue, Find, AssertMember,
      SendNonce, FanOutRead, FanOut, SendInsert, ReactWrite, Abort, Surroundings, DeleteMessage,
      rows, vars

\* A row appears in c, or a reaction changes in c, by a handler past its check there.
LEMMA OnlyPastWrite ==
  ASSUME IInv, [Next]_vars, NEW u \in Users, NEW c \in made, Settled(u, c)
  PROVE  /\ Posts(u, c)' = Posts(u, c)
         /\ \A m \in Msgs : msg[m].conv = c => (u \in emoji'[m] <=> u \in emoji[m])
<1>1. CASE \E r \in Reqs, m \in Msgs : SendInsert(r, m)
  <2>1. PICK r \in Reqs, m \in Msgs : SendInsert(r, m)
    BY <1>1
  <2>2. ~(req[r].me = u /\ req[r].conv = c)
    BY <2>1 DEF Settled, Past, SendInsert
  <2>3. msg[m] = NoMsg /\ u # None
    BY <2>1, NoneIsFresh DEF SendInsert, IInv, RowsAreWhole
  <2>4. Posts(u, c)' = Posts(u, c)
    BY <2>1, <2>2, <2>3 DEF SendInsert, Posts, IInv, TypeOK, NoMsg
  <2>5. QED
    BY <2>1, <2>4 DEF SendInsert
<1>2. CASE \E r \in Reqs, on \in BOOLEAN : ReactWrite(r, on)
  <2>1. PICK r \in Reqs, on \in BOOLEAN : ReactWrite(r, on)
    BY <1>2
  <2>2. Coherent(req[r], msg) /\ req[r] \in Request
    BY HandlerTyped
  <2>3. msg[req[r].msg].conv = req[r].conv /\ req[r].msg \in Msgs
    BY <2>1, <2>2 DEF ReactWrite, Coherent, Request
  <2>4. ~(req[r].me = u /\ req[r].conv = c)
    BY <2>1 DEF Settled, Past, ReactWrite
  <2>5. QED
    BY <2>1, <2>3, <2>4 DEF ReactWrite, Posts, IInv, TypeOK
<1>3. CASE \E m \in Msgs : DeleteMessage(m)
  BY <1>3 DEF DeleteMessage, Posts, IInv, TypeOK, MsgRow
<1>4. CASE UNCHANGED <<msg, emoji>>
  BY <1>4 DEF Posts
<1>5. QED
  BY <1>1, <1>2, <1>3, <1>4
  DEF Next, Arrive, SendTo, SendInto, ReactRead, Begin, Continue, Find, AssertMember,
      SendNonce, FanOutRead, FanOut, CreateDirect, Abort, Surroundings, Leave, rows, vars

\* Who is told was among the recipients that a handler had read.
LEMMA OnlyRecipientsHear ==
  ASSUME Next, NEW u, NEW m, <<u, m>> \in heard'
  PROVE  \E r \in Reqs : req[r].at = "emit" /\ req[r].msg = m /\ u \in req[r].to
<1>1. CASE \E r \in Reqs : FanOut(r)
  BY <1>1 DEF FanOut
<1>2. CASE heard' = {}
  BY <1>2
<1>3. QED
  BY <1>1, <1>2
  DEF Next, Arrive, SendTo, SendInto, ReactRead, Begin, Continue, Find, AssertMember,
      SendNonce, FanOutRead, CreateDirect, SendInsert, ReactWrite, Abort, Surroundings,
      DeleteMessage, Leave, vars

\* A handler comes to its emits only by reading the members.
LEMMA RecipientsAreRead ==
  ASSUME IInv, NEW r \in Reqs, NEW s \in Reqs, Arrive(s) \/ Continue(s) \/ Abort(s)
  PROVE  req'[r] = req[r] \/ FanOutRead(r) \/ req'[r].at # "emit"
<1>1. req \in [Reqs -> Request]
  BY DEF IInv, TypeOK
<1>2. CASE Arrive(s)
  BY ZenonT(40), <1>1, <1>2 DEF Arrive, SendTo, SendInto, ReactRead, Begin, Idle
<1>3. CASE FanOutRead(s)
  BY <1>1, <1>3 DEF FanOutRead
<1>4. CASE \E at : Goto(s, at) /\ at \in {"nonce", "react", "insert", "create"}
  BY <1>1, <1>4 DEF Goto, Request
<1>5. CASE Finish(s)
  BY <1>1, <1>5 DEF Finish, Idle
<1>6. CASE \E c : req' = [req EXCEPT ![s].at = "assert", ![s].conv = c]
  BY <1>1, <1>6 DEF Request
<1>7. CASE \E m : req' = [req EXCEPT ![s].at = "fan_out", ![s].msg = m]
  BY <1>1, <1>7 DEF Request
<1>8. QED
  BY <1>2, <1>3, <1>4, <1>5, <1>6, <1>7
  DEF Continue, Find, CreateDirect, AssertMember, MemberGoesOn, SendNonce, SendInsert,
      FanOut, ReactWrite, Abort

\* Only a member is read as a recipient, and a message stays in its conversation.
LEMMA OnlyMembersAreTold ==
  ASSUME IInv, RowsKept, [Next]_vars, NEW r \in Reqs, NEW u \in Users, NEW c \in made,
         u \notin present[c], ~Telling(req[r], u, c)
  PROVE  ~Telling(req[r], u, c)'
<1>1. req \in [Reqs -> Request] /\ Coherent(req[r], msg)
  BY DEF IInv, TypeOK
<1>2. CASE req'[r] = req[r]
  <2>1. SUFFICES ASSUME req[r].at = "emit"
                 PROVE  msg'[req[r].msg].conv = msg[req[r].msg].conv
    BY <1>2 DEF Telling
  <2>2. req[r].msg \in Msgs /\ msg[req[r].msg].state # "none"
    BY <1>1, <2>1 DEF Coherent, Request
  <2>3. QED
    BY <2>2 DEF RowsKept
<1>3. CASE FanOutRead(r)
  <2>1. /\ req'[r].msg = req[r].msg /\ req'[r].to = present[msg[req[r].msg].conv]
        /\ msg' = msg
    BY <1>1, <1>3 DEF FanOutRead, rows, Request
  <2>2. QED
    BY <2>1 DEF Telling
<1>4. CASE req'[r].at # "emit"
  BY <1>4 DEF Telling
<1>5. CASE \E s \in Reqs : Arrive(s) \/ Continue(s) \/ Abort(s)
  BY <1>2, <1>3, <1>4, <1>5, RecipientsAreRead
<1>6. QED
  BY <1>2, <1>5 DEF Next, Surroundings, DeleteMessage, Leave, vars

\* assertMember(), memberIds(): who has left a thread, with nothing in flight past the
\* check of what he does or past the reading of whom to tell, posts, reacts and hears
\* in it no more, and never comes back.
THEOREM LeavingIsFinal == Spec => LeaverStaysOut
<1>1. ASSUME IInv, [Next]_vars PROVE [StaysOut]_vars
  <2> SUFFICES ASSUME vars' # vars PROVE StaysOut
    OBVIOUS
  <2>1. ASSUME NEW u \in Users, NEW c \in Convs, Settled(u, c)
        PROVE  /\ Settled(u, c)'
               /\ Posts(u, c)' = Posts(u, c)
               /\ \A m \in Msgs : msg[m].conv = c => (u \in emoji'[m] <=> u \in emoji[m])
    <3>1. c \in made' /\ u \notin present'[c]
      BY <1>1, <2>1, NobodyEnters DEF Settled, IInv
    <3>2. \A r \in Reqs : ~Past(req'[r], u, c)
      BY <1>1, <2>1, OnlyMembersPass DEF Settled
    <3>3. \A r \in Reqs : ~Telling(req[r], u, c)'
      BY <1>1, <2>1, StepIInv, OnlyMembersAreTold DEF Settled
    <3>4. Settled(u, c)'
      BY <3>1, <3>2, <3>3 DEF Settled, Past, Telling
    <3>5. QED
      BY <1>1, <2>1, <3>4, OnlyPastWrite DEF Settled
  <2>2. ASSUME NEW u \in Users, NEW c \in Convs, Settled(u, c),
               NEW m \in Msgs, msg[m].conv = c, <<u, m>> \in heard'
        PROVE  FALSE
    <3>1. Next
      BY <1>1
    <3>2. PICK r \in Reqs : req[r].at = "emit" /\ req[r].msg = m /\ u \in req[r].to
      BY <2>2, <3>1, OnlyRecipientsHear
    <3>3. QED
      BY <2>2, <3>2 DEF Settled, Telling
  <2>3. QED
    BY <2>1, <2>2 DEF StaysOut
<1>2. QED
  BY Invariance, <1>1, PTL DEF Spec, LeaverStaysOut
-----------------------------------------------------------------------------
(* Two people, one thread.                                                 *)

\* The handlers that have found no thread.
Makers == {r \in Reqs : Making(req[r])}

\* Each thread beyond the first was made by a handler that had found none, and none
\* finds none any more: threads and makers together are no more than handlers.
ThreadInv ==
  /\ IInv
  /\ IsFiniteSet(made)
  /\ made # {} => Cardinality(made) + Cardinality(Makers) <= Cardinality(Reqs)
  /\ serial => AtMostOne /\ (made # {} => Makers = {} /\ Cardinality(made) = 1)

\* There are finitely many handlers, and so of makers.
LEMMA MakersCounted ==
  /\ Cardinality(Reqs) \in Nat
  /\ IsFiniteSet(Makers) /\ Cardinality(Makers) \in Nat
  /\ Cardinality(Makers) <= Cardinality(Reqs)
<1>1. Makers \in SUBSET Reqs
  BY DEF Makers
<1>2. QED
  BY <1>1, HandlersAreFinite, FS_Subset, FS_CardinalityType

LEMMA CreateKeepsThreads ==
  ASSUME ThreadInv, IInv', NEW r \in Reqs, NEW c \in Convs, CreateDirect(r, c),
         serial' => serial /\ AtMostOne'
  PROVE  ThreadInv'
<1>1. r \in Makers /\ made' = made \cup {c} /\ c \notin made
  BY DEF CreateDirect, Makers, Making
<1>2. Makers' = Makers \ {r}
  BY <1>1 DEF CreateDirect, Makers, Making, ThreadInv, IInv, TypeOK, Request
<1>3. IsFiniteSet(made') /\ Cardinality(made') = Cardinality(made) + 1
  BY <1>1, FS_AddElement DEF ThreadInv
<1>4. Cardinality(Makers') = Cardinality(Makers) - 1
  BY <1>1, <1>2, MakersCounted, FS_RemoveElement
<1>5. made = {} => Cardinality(made) = 0
  BY FS_EmptySet
<1>6. Cardinality(made) \in Nat
  BY FS_CardinalityType DEF ThreadInv
<1>7. Cardinality(made') + Cardinality(Makers') <= Cardinality(Reqs)
  BY <1>3, <1>4, <1>5, <1>6, MakersCounted DEF ThreadInv
<1>8. ASSUME serial'
      PROVE  AtMostOne' /\ Makers' = {} /\ Cardinality(made') = 1
  <2>1. made = {}
    BY <1>1, <1>8 DEF ThreadInv
  <2>2. Makers \subseteq {r}
    BY <1>1, <1>8 DEF ThreadInv, AtMostOne, Makers, Making, InFlight
  <2>3. Makers' = {}
    BY <1>2, <2>2
  <2>4. Cardinality(made') = 1
    BY <1>3, <1>5, <2>1
  <2>5. QED
    BY <1>8, <2>3, <2>4
<1>9. QED
  BY <1>3, <1>7, <1>8 DEF ThreadInv

\* No other step makes a thread, and none but Find makes a maker, while there is none.
LEMMA OthersKeepThreads ==
  ASSUME ThreadInv, [Next]_vars,
         ~\E r \in Reqs, c \in Convs : CreateDirect(r, c)
  PROVE  made' = made /\ (made # {} => Makers' \subseteq Makers)
<1>1. req \in [Reqs -> Request]
  BY DEF ThreadInv, IInv, TypeOK
<1>2. made' = made
  BY DEF Next, Arrive, SendTo, SendInto, ReactRead, Begin, Continue, Find, AssertMember,
         SendNonce, FanOutRead, FanOut, SendInsert, ReactWrite, Abort, Surroundings, DeleteMessage,
         Leave, rows, vars
<1>3. ASSUME NEW r \in Reqs, made # {}, req'[r].at = "create"
      PROVE  req[r].at = "create"
  <2>1. ASSUME NEW s \in Reqs, Arrive(s)
        PROVE  req[r].at = "create"
    <3>1. req'[s].at \in {"find", "assert"} /\ (s # r => req'[r] = req[r])
      BY ZenonT(40), <1>1, <2>1
      DEF Arrive, SendTo, SendInto, ReactRead, Begin, Idle
    <3>2. QED
      BY <1>3, <3>1
  <2>2. ASSUME NEW s \in Reqs, Continue(s) \/ Abort(s)
        PROVE  req[r].at = "create"
    <3>1. CASE Find(s)
      BY <1>1, <1>3, <3>1 DEF Find, Request
    <3>2. CASE \E at : Goto(s, at) /\ at \in {"nonce", "react", "insert"}
      BY <1>1, <1>3, <3>2 DEF Goto, Request
    <3>3. CASE Finish(s)
      BY <1>1, <1>3, <3>3 DEF Finish, Idle
    <3>4. CASE SendNonce(s) \/ \E m \in Msgs : SendInsert(s, m)
      BY <1>1, <1>3, <3>4 DEF SendNonce, SendInsert, Goto, Request
    <3>5. CASE FanOutRead(s)
      BY <1>1, <1>3, <3>5 DEF FanOutRead, Request
    <3>6. QED
      BY <2>2, <3>1, <3>2, <3>3, <3>4, <3>5
      DEF Continue, AssertMember, MemberGoesOn, FanOut, ReactWrite, Abort
  <2>3. CASE UNCHANGED req
    BY <1>3, <2>3
  <2>4. QED
    BY <2>1, <2>2, <2>3 DEF Next, Surroundings, DeleteMessage, Leave, vars
<1>4. QED
  BY <1>2, <1>3 DEF Makers, Making

LEMMA StepThreadInv ==
  ASSUME ThreadInv, [HistoryNext]_<<vars, serial>>
  PROVE  ThreadInv'
<1>1. [Next]_vars
  BY DEF HistoryNext
<1>2. IInv'
  BY <1>1, StepIInv DEF ThreadInv
<1>3. serial' => serial /\ AtMostOne'
  <2>1. CASE HistoryNext
    BY <2>1 DEF HistoryNext
  <2>2. CASE UNCHANGED <<vars, serial>>
    <3>1. req' = req /\ serial' = serial
      BY <2>2 DEF vars
    <3>2. QED
      BY <3>1 DEF ThreadInv, AtMostOne
  <2>3. QED
    BY <2>1, <2>2
<1>4. CASE \E r \in Reqs, c \in Convs : CreateDirect(r, c)
  BY <1>2, <1>3, <1>4, CreateKeepsThreads
<1>5. CASE ~\E r \in Reqs, c \in Convs : CreateDirect(r, c)
  <2>1. made' = made /\ (made # {} => Makers' \subseteq Makers)
    BY <1>1, <1>5, OthersKeepThreads
  <2>2. made # {} => Cardinality(Makers') <= Cardinality(Makers) /\ Cardinality(Makers') \in Nat
    BY <2>1, MakersCounted, FS_Subset, FS_CardinalityType
  <2>3. Cardinality(made) \in Nat
    BY FS_CardinalityType DEF ThreadInv
  <2>4. made' # {} => Cardinality(made') + Cardinality(Makers') <= Cardinality(Reqs)
    BY <2>1, <2>2, <2>3, MakersCounted DEF ThreadInv
  <2>5. serial' => AtMostOne' /\ (made' # {} => Makers' = {} /\ Cardinality(made') = 1)
    BY <1>3, <2>1 DEF ThreadInv
  <2>6. QED
    BY <1>2, <2>1, <2>4, <2>5 DEF ThreadInv
<1>6. QED
  BY <1>4, <1>5

\* directWith(): two people have at most as many threads as taps at one moment, one
\* when handlers do not overlap, and none is made once they have one.
THEOREM ThreadsAreFew == HistorySpec => OneThread
<1>1. HistoryInit => ThreadInv
  <2> SUFFICES ASSUME HistoryInit PROVE ThreadInv
    OBVIOUS
  <2>1. IInv
    BY InitIInv DEF HistoryInit
  <2>2. made = {} /\ AtMostOne
    BY DEF HistoryInit, Init, AtMostOne, Idle, InFlight
  <2>3. QED
    BY <2>1, <2>2, FS_EmptySet DEF ThreadInv
<1>2. ThreadInv /\ [HistoryNext]_<<vars, serial>> => ThreadInv'
  BY StepThreadInv
<1>3. ThreadInv => ThreadsBounded
  <2> SUFFICES ASSUME ThreadInv PROVE ThreadsBounded
    OBVIOUS
  <2>1. Cardinality(made) \in Nat /\ (made = {} => Cardinality(made) = 0)
    BY FS_EmptySet, FS_CardinalityType DEF ThreadInv
  <2>2. QED
    BY <2>1, MakersCounted DEF ThreadInv, ThreadsBounded
<1>4. ThreadInv' => ThreadsBounded'
  BY <1>3, PTL
<1>5. ThreadInv /\ [HistoryNext]_<<vars, serial>> => [NoNewThread]_<<vars, serial>>
  <2> SUFFICES ASSUME ThreadInv, [HistoryNext]_<<vars, serial>>, made # {},
                      \A r \in Reqs : ~Making(req[r])
               PROVE  made' = made
    BY DEF NoNewThread
  <2>1. [Next]_vars
    BY DEF HistoryNext
  <2>2. ~\E r \in Reqs, c \in Convs : CreateDirect(r, c)
    BY DEF CreateDirect, Making
  <2>3. QED
    BY <2>1, <2>2, OthersKeepThreads
<1>6. ThreadInv /\ [HistoryNext]_<<vars, serial>>
        => [ThreadsBounded' /\ NoNewThread]_<<vars, serial>>
  BY <1>2, <1>4, <1>5
<1>7. QED
  BY <1>1, <1>2, <1>6, PTL DEF HistorySpec, OneThread
=============================================================================
