---------------------------- MODULE CallsProofs ----------------------------
(***************************************************************************)
(* Proofs about Calls and CallsSerial, for every set of users, call keys   *)
(* and requests, and about CallClientSerial, the hook at the two ends of a *)
(* call, for every set of calls.                                           *)
(*                                                                         *)
(* A step of the server either moves one handler and leaves the table of   *)
(* calls alone (HandlerMoves), or rewrites rows in a way that no handler   *)
(* in flight can notice (HistoryKept): they keep their parties and lose no *)
(* timestamp.  Every action is an instance of one of the two.              *)
(***************************************************************************)
EXTENDS CallsSerial, CallClientSerial, TLAPS

USE DEF Live, Final, Status

\* Init: nothing exists and nobody has asked for anything.
LEMMA InitIInv == Init => IInv
  BY DEF Init, IInv, TypeOK, RowInv, RequestInv, Coherent, EventsMatchCall,
         NoticeAfterCommit, CallRow, NoRow, Request, Idle, InFlight,
         StartSteps, AcceptSteps, EndSteps, Rows, Parties, Event

\* A step that moves handler r to a position it can vouch for, and may add
\* events that match their call, keeps the invariant.
LEMMA HandlerMoves ==
  ASSUME IInv, NEW r \in Reqs, NEW q \in Request, Coherent(q),
         req' = [req EXCEPT ![r] = q],
         UNCHANGED <<call, rungOut, notified, online>>,
         event' \in Event \cup {NoEvent}, EventsMatchCall'
  PROVE  IInv'
<1>1. TypeOK'
  BY DEF IInv, TypeOK
<1>2. RowInv' /\ NoticeAfterCommit'
  BY DEF IInv, RowInv, NoticeAfterCommit
<1>3. RequestInv'
  BY DEF IInv, TypeOK, RequestInv, Coherent, Rows, Parties
<1>4. QED
  BY <1>1, <1>2, <1>3 DEF IInv

\* The statements that write the table of calls keep its history: an insert
\* takes an unused key, an update leaves the parties and set timestamps alone.
LEMMA InsertKeepsHistory ==
  ASSUME IInv, NEW r \in Reqs, NEW c \in CallIds, StartInsert(r, c)
  PROVE  HistoryKept
  BY DEF StartInsert, HistoryKept, Rows, IInv, TypeOK

LEMMA UpdateKeepsHistory ==
  ASSUME IInv, NEW r \in Reqs, AcceptWrite(r) \/ EndWrite(r)
  PROVE  HistoryKept
<1> PICK q \in Request : q = req[r]
  BY DEF IInv, TypeOK
<1>1. CASE AcceptWrite(r)
  BY <1>1 DEF AcceptWrite, HistoryKept, Rows, IInv, TypeOK, CallRow
<1>2. CASE EndWrite(r)
  <2>1. q.out \in Final
    BY <1>2 DEF EndWrite, IInv, RequestInv, Coherent, EndSteps
  <2>2. QED
    BY <1>2, <2>1 DEF EndWrite, HistoryKept, Rows, IInv, TypeOK, CallRow
<1>3. QED
  BY <1>1, <1>2

LEMMA SweepKeepsHistory ==
  ASSUME IInv, ExpireRinging
  PROVE  HistoryKept
  BY DEF ExpireRinging, Overdue, HistoryKept, Rows, IInv, TypeOK, CallRow

\* A step that keeps the history of rows keeps handlers and notifications coherent.
LEMMA HistoryKeepsCoherence ==
  ASSUME IInv, HistoryKept, NEW q \in Request, Coherent(q)
  PROVE  Coherent(q)'
  BY DEF HistoryKept, Coherent, Parties, InFlight, StartSteps, AcceptSteps, EndSteps

LEMMA HistoryKeepsNotices ==
  ASSUME IInv, HistoryKept, UNCHANGED notified
  PROVE  NoticeAfterCommit'
<1>1. ASSUME NEW c \in CallIds, notified[c] > 0
      PROVE  call'[c].ended
  <2>1. call[c].ended /\ c \in Rows
    BY <1>1 DEF IInv, RowInv, NoticeAfterCommit, Rows
  <2>2. QED
    BY <2>1 DEF HistoryKept
<1>2. QED
  BY <1>1 DEF NoticeAfterCommit

\* A step that emits nothing has no event to answer for.
LEMMA SilenceMatches ==
  ASSUME Silent
  PROVE  event' \in Event \cup {NoEvent} /\ EventsMatchCall'
  BY DEF Silent, EventsMatchCall

\* Every row's parties are users, and the other party is one of them.
LEMMA OtherPartyIsAParty ==
  ASSUME IInv, NEW c \in Rows, NEW u \in Parties(c)
  PROVE  OtherParty(c, u) \in Parties(c) /\ OtherParty(c, u) \in Users
  BY DEF IInv, RowInv, Rows, Parties, OtherParty

\* An event that matches its call when it is emitted matches it afterwards.
LEMMA EmitMatches ==
  ASSUME IInv, UNCHANGED <<call, online>>,
         NEW kind \in {"incoming", "accepted", "ended", "signal"},
         NEW c \in Rows, NEW to \in Parties(c), Emit(kind, c, to),
         kind = "incoming" => to = call[c].callee,
         kind = "accepted" => call[c].started,
         kind = "ended" => call[c].ended
  PROVE  event' \in Event \cup {NoEvent} /\ EventsMatchCall'
<1>1. [kind |-> kind, call |-> c, to |-> to] \in Event
  BY DEF IInv, RowInv, Rows, Parties, Event
<1>2. event' \in Event \cup {NoEvent}
  BY <1>1 DEF Emit
<1>3. EventsMatchCall'
  BY DEF Emit, IInv, EventsMatchCall, Rows, Parties
<1>4. QED
  BY <1>2, <1>3

-----------------------------------------------------------------------------
(* One lemma per kind of action.                                           *)

\* A handler's first statement reads the tables and starts a record.
LEMMA ArriveKeepsIInv ==
  ASSUME IInv, NEW r \in Reqs, Arrive(r)
  PROVE  IInv'
<1> USE DEF Idle, Request, InFlight, StartSteps, AcceptSteps, EndSteps
<1>1. ASSUME NEW u \in Users, NEW v \in Users, StartCheck(r, u, v)
      PROVE  IInv'
  <2> DEFINE q == [Idle EXCEPT !.at = "start_busy", !.user = u, !.peer = v]
  <2>1. u # v
    BY <1>1 DEF StartCheck
  <2>2. q \in Request /\ Coherent(q)
    BY <2>1 DEF Coherent
  <2>3. event' \in Event \cup {NoEvent} /\ EventsMatchCall'
    BY <1>1, SilenceMatches DEF StartCheck
  <2>4. QED
    BY <1>1, <2>2, <2>3, HandlerMoves DEF StartCheck
<1>2. ASSUME NEW u \in Users, NEW c \in CallIds, AcceptRead(r, u, c)
      PROVE  IInv'
  <2> DEFINE q == [Idle EXCEPT !.at = "accept_write", !.user = u, !.call = c]
  <2>1. q \in Request /\ Coherent(q)
    BY <1>2 DEF Coherent, AcceptRead
  <2>2. event' \in Event \cup {NoEvent} /\ EventsMatchCall'
    BY <1>2, SilenceMatches DEF AcceptRead
  <2>3. QED
    BY <1>2, <2>1, <2>2, HandlerMoves DEF AcceptRead
<1>3. ASSUME NEW u \in Users, NEW c \in CallIds, NEW failed \in BOOLEAN,
             EndRead(r, u, c, failed)
      PROVE  IInv'
  <2> DEFINE over == call[c].status \in Final
             out  == IF over THEN call[c].status ELSE Verdict(u, c, failed)
             q    == [Idle EXCEPT !.at = IF over THEN "end_emit" ELSE "end_write",
                                    !.user = u, !.call = c, !.out = out]
  <2>1. u \in Parties(c) /\ c \in Rows
    BY <1>3 DEF EndRead
  <2>2. /\ call[c].status \in Status
        /\ over => call[c].ended
        /\ call[c].status = "active" => call[c].started
    BY <2>1 DEF IInv, TypeOK, RowInv, CallRow, Rows
  <2>3. ~over => /\ Verdict(u, c, failed) \in Final
                 /\ Verdict(u, c, failed) = "ended" => call[c].started
                 /\ Verdict(u, c, failed) = "missed" => u = call[c].initiator
                 /\ Verdict(u, c, failed) = "rejected" => u = call[c].callee
    BY <2>1, <2>2 DEF Verdict, Parties
  <2>4. q \in Request /\ Coherent(q)
    BY <2>1, <2>2, <2>3 DEF Coherent
  <2>5. event' \in Event \cup {NoEvent} /\ EventsMatchCall'
    BY <1>3, SilenceMatches DEF EndRead
  <2>6. QED
    BY <1>3, <2>4, <2>5, HandlerMoves DEF EndRead
<1>4. ASSUME NEW u \in Users, NEW c \in CallIds, SignalRead(r, u, c)
      PROVE  IInv'
  <2> DEFINE q == [Idle EXCEPT !.at = "signal_relay", !.user = u, !.call = c]
  <2>1. q \in Request /\ Coherent(q)
    BY <1>4 DEF Coherent, SignalRead
  <2>2. event' \in Event \cup {NoEvent} /\ EventsMatchCall'
    BY <1>4, SilenceMatches DEF SignalRead
  <2>3. QED
    BY <1>4, <2>1, <2>2, HandlerMoves DEF SignalRead
<1>5. QED
  BY <1>1, <1>2, <1>3, <1>4 DEF Arrive

\* The statements that write the table of calls: the rows only gain, so every
\* other handler and notification stays coherent.
LEMMA WriteKeepsIInv ==
  ASSUME IInv, HistoryKept, NEW r \in Reqs, NEW q \in Request,
         Coherent(q)', req' = [req EXCEPT ![r] = q],
         call' \in [CallIds -> CallRow], RowInv',
         Silent, UNCHANGED <<rungOut, notified, online>>
  PROVE  IInv'
<1>1. TypeOK'
  BY SilenceMatches DEF IInv, TypeOK
<1>2. EventsMatchCall' /\ NoticeAfterCommit'
  BY HistoryKeepsNotices, SilenceMatches
<1>3. ASSUME NEW s \in Reqs PROVE Coherent(req[s])'
  <2>1. CASE s = r
    BY <2>1 DEF IInv, TypeOK
  <2>2. CASE s # r
    <3>1. req[s] \in Request /\ Coherent(req[s]) /\ req'[s] = req[s]
      BY <2>2 DEF IInv, TypeOK, RequestInv
    <3>2. QED
      BY <3>1, HistoryKeepsCoherence DEF Coherent
  <2>3. QED
    BY <2>1, <2>2
<1>4. QED
  BY <1>1, <1>2, <1>3 DEF IInv, RequestInv

\* Each later statement of a handler.
LEMMA ContinueKeepsIInv ==
  ASSUME IInv, NEW r \in Reqs, Continue(r)
  PROVE  IInv'
<1> USE DEF InFlight, StartSteps, AcceptSteps, EndSteps
\* The record before the step, as a constant: q' is q.
<1> PICK q \in Request : q = req[r]
  BY DEF IInv, TypeOK
<1>0. Coherent(q) /\ Idle \in Request /\ Coherent(Idle)
  BY DEF IInv, TypeOK, RequestInv, Coherent, Idle, Request
<1>1. CASE StartBusy(r)
  <2>1. event' \in Event \cup {NoEvent} /\ EventsMatchCall'
    BY <1>1, SilenceMatches DEF StartBusy
  <2>2. CASE Finish(r)
    BY <1>0, <1>1, <2>1, <2>2, HandlerMoves DEF StartBusy, Finish
  <2>3. CASE Goto(r, "start_insert")
    <3> DEFINE n == [q EXCEPT !.at = "start_insert"]
    <3>1. n \in Request /\ Coherent(n)
      BY <1>0, <1>1 DEF StartBusy, Coherent, Request
    <3>2. req' = [req EXCEPT ![r] = n]
      BY <2>3 DEF Goto
    <3>3. QED
      BY <1>1, <2>1, <3>1, <3>2, HandlerMoves DEF StartBusy
  <2>4. QED
    BY <1>1, <2>2, <2>3 DEF StartBusy
<1>2. CASE \E c \in CallIds : StartInsert(r, c)
  <2> PICK c \in CallIds : StartInsert(r, c)
    BY <1>2
  <2> DEFINE row == [NoRow EXCEPT !.status = "ringing", !.initiator = q.user,
                                  !.callee = q.peer, !.joined = {q.user}]
             n   == [q EXCEPT !.at = "start_ring", !.call = c]
  <2>1. q.user \in Users /\ q.peer \in Users /\ q.user # q.peer
    BY <1>0 DEF StartInsert, Coherent
  <2>2. row \in CallRow /\ call' = [call EXCEPT ![c] = row]
    BY <2>1 DEF StartInsert, NoRow, CallRow
  <2>3. call' \in [CallIds -> CallRow] /\ RowInv'
    BY <2>1, <2>2 DEF IInv, TypeOK, RowInv, NoRow
  <2>4. HistoryKept
    BY InsertKeepsHistory
  <2>5. n \in Request /\ Coherent(n)'
    <3>1. n \in Request /\ n.at = "start_ring" /\ n.call = c
          /\ n.user = q.user /\ n.peer = q.peer
      BY <1>0 DEF Request
    <3>2. /\ call'[c].initiator = q.user /\ call'[c].callee = q.peer
          /\ c \in Rows'
      BY <2>2 DEF IInv, TypeOK, Rows, NoRow
    <3>3. QED
      BY <2>1, <3>1, <3>2 DEF Coherent, Parties
  <2>6. req' = [req EXCEPT ![r] = n]
    BY DEF StartInsert, IInv, TypeOK
  <2>7. QED
    BY <2>3, <2>4, <2>5, <2>6, WriteKeepsIInv DEF StartInsert
<1>3. CASE StartRing(r)
  <2>1. q.call \in Rows /\ q.peer = call[q.call].callee
    BY <1>0, <1>3 DEF StartRing, Coherent
  <2>2. event' \in Event \cup {NoEvent} /\ EventsMatchCall'
    BY <1>3, <2>1, EmitMatches DEF StartRing, Parties
  <2>3. QED
    BY <1>0, <1>3, <2>2, HandlerMoves DEF StartRing, Finish
<1>4. CASE AcceptWrite(r)
  <2> DEFINE c   == q.call
             row == [call[c] EXCEPT !.status = "active", !.started = TRUE,
                                    !.joined = call[c].joined \cup {q.user}]
             n   == [q EXCEPT !.at = "accept_emit"]
  <2>1. c \in Rows /\ q.user \in Users
    BY <1>0, <1>4 DEF AcceptWrite, Coherent, IInv, RowInv, Rows, Parties
  <2>2. call' = [call EXCEPT ![c] = row] /\ row \in CallRow
    <3>1. call' = [call EXCEPT ![c] = row]
      BY <1>4 DEF AcceptWrite
    <3>2. call[c] \in CallRow
      BY <2>1 DEF IInv, TypeOK, Rows
    <3>3. row \in CallRow
      BY <2>1, <3>2 DEF CallRow
    <3>4. QED
      BY <3>1, <3>3
  <2>3. call' \in [CallIds -> CallRow] /\ RowInv'
    BY ZenonT(40), <2>1, <2>2 DEF IInv, TypeOK, RowInv, Rows, CallRow
  <2>4. HistoryKept
    BY UpdateKeepsHistory, <1>4
  <2>5. n \in Request /\ Coherent(n)'
    <3>1. n \in Request /\ n.at = "accept_emit" /\ n.call = c /\ n.user = q.user
      BY <1>0 DEF Request
    <3>2. call'[c].started /\ c \in Rows' /\ Parties(c)' = Parties(c)
      BY <2>1, <2>2 DEF IInv, TypeOK, Rows, Parties, CallRow
    <3>3. q.user \in Parties(c)
      BY <1>0, <1>4 DEF AcceptWrite, Coherent
    <3>4. QED
      BY <3>1, <3>2, <3>3 DEF Coherent
  <2>6. req' = [req EXCEPT ![r] = n]
    BY <1>4 DEF AcceptWrite, Goto
  <2>7. QED
    BY <1>4, <2>3, <2>4, <2>5, <2>6, WriteKeepsIInv DEF AcceptWrite
<1>5. CASE AcceptEmit(r)
  <2>1. q.call \in Rows /\ q.user \in Parties(q.call) /\ call[q.call].started
    BY <1>0, <1>5 DEF AcceptEmit, Coherent
  <2>2. event' \in Event \cup {NoEvent} /\ EventsMatchCall'
    BY <1>5, <2>1, OtherPartyIsAParty, EmitMatches DEF AcceptEmit
  <2>3. QED
    BY <1>0, <1>5, <2>2, HandlerMoves DEF AcceptEmit, Finish
<1>6. CASE EndWrite(r)
  <2> DEFINE c   == q.call
             row == [call[c] EXCEPT !.status = q.out, !.ended = TRUE, !.left = TRUE]
             n   == [q EXCEPT !.at =
                       IF q.out = "missed" THEN "end_notify" ELSE "end_emit"]
  <2>1. /\ c \in Rows /\ q.out \in Final
        /\ q.out = "ended" => call[c].started
    BY <1>0, <1>6 DEF EndWrite, Coherent
  <2>2. call' = [call EXCEPT ![c] = row] /\ row \in CallRow
    <3>1. call' = [call EXCEPT ![c] = row]
      BY <1>6 DEF EndWrite
    <3>2. call[c] \in CallRow
      BY <2>1 DEF IInv, TypeOK, Rows
    <3>3. row \in CallRow
      BY <2>1, <3>2 DEF CallRow
    <3>4. QED
      BY <3>1, <3>3
  <2>3. call' \in [CallIds -> CallRow] /\ RowInv'
    BY ZenonT(40), <2>1, <2>2 DEF IInv, TypeOK, RowInv, Rows, CallRow
  <2>4. HistoryKept
    BY UpdateKeepsHistory, <1>6
  <2>5. n \in Request /\ Coherent(n)'
    <3>1. n \in Request /\ n.at \in {"end_notify", "end_emit"}
          /\ n.call = c /\ n.user = q.user /\ n.out = q.out
      BY <1>0 DEF Request
    <3>2. call'[c].ended /\ c \in Rows' /\ Parties(c)' = Parties(c)
      BY <2>1, <2>2 DEF IInv, TypeOK, Rows, Parties, CallRow
    <3>3. q.user \in Parties(c)
      BY <1>0, <1>6 DEF EndWrite, Coherent
    <3>4. QED
      BY <2>1, <3>1, <3>2, <3>3 DEF Coherent
  <2>6. req' = [req EXCEPT ![r] = n]
    BY <1>6 DEF EndWrite, Goto
  <2>7. QED
    BY <1>6, <2>3, <2>4, <2>5, <2>6, WriteKeepsIInv DEF EndWrite
<1>7. CASE EndNotify(r)
  <2> DEFINE n == [q EXCEPT !.at = "end_emit"]
  <2>1. q.call \in Rows /\ call[q.call].ended
    BY <1>0, <1>7 DEF EndNotify, Coherent
  <2>2. n \in Request /\ Coherent(n) /\ req' = [req EXCEPT ![r] = n]
    BY <1>0, <1>7 DEF EndNotify, Goto, Coherent, Request
  <2>3. TypeOK' /\ NoticeAfterCommit'
    BY <1>7, <2>1, <2>2, SilenceMatches
       DEF EndNotify, IInv, TypeOK, NoticeAfterCommit, Rows
  <2>4. RowInv' /\ EventsMatchCall'
    BY <1>7, SilenceMatches DEF EndNotify, IInv, RowInv
  <2>5. RequestInv'
    BY <1>7, <2>2 DEF EndNotify, IInv, TypeOK, RequestInv, Coherent, Rows, Parties
  <2>6. QED
    BY <2>3, <2>4, <2>5 DEF IInv
<1>8. CASE EndEmit(r)
  <2>1. q.call \in Rows /\ q.user \in Parties(q.call) /\ call[q.call].ended
    BY <1>0, <1>8 DEF EndEmit, Coherent
  <2>2. event' \in Event \cup {NoEvent} /\ EventsMatchCall'
    BY <1>8, <2>1, OtherPartyIsAParty, EmitMatches DEF EndEmit
  <2>3. QED
    BY <1>0, <1>8, <2>2, HandlerMoves DEF EndEmit, Finish
<1>9. CASE SignalRelay(r)
  <2>1. q.call \in Rows /\ q.user \in Parties(q.call)
    BY <1>0, <1>9 DEF SignalRelay, Coherent
  <2>2. event' \in Event \cup {NoEvent} /\ EventsMatchCall'
    BY <1>9, <2>1, OtherPartyIsAParty, EmitMatches DEF SignalRelay
  <2>3. QED
    BY <1>0, <1>9, <2>2, HandlerMoves DEF SignalRelay, Finish
<1>10. QED
  BY <1>1, <1>2, <1>3, <1>4, <1>5, <1>6, <1>7, <1>8, <1>9 DEF Continue

\* The sweep marks every overdue ringing call missed in one statement.
LEMMA SweepKeepsIInv ==
  ASSUME IInv, ExpireRinging
  PROVE  IInv'
<1>1. call' \in [CallIds -> CallRow] /\ RowInv'
  <2>1. ASSUME NEW c \in CallIds
        PROVE  [call[c] EXCEPT !.status = "missed", !.ended = TRUE] \in CallRow
    BY DEF IInv, TypeOK, CallRow
  <2>2. call' \in [CallIds -> CallRow]
    BY <2>1 DEF ExpireRinging, IInv, TypeOK
  <2>3. ASSUME NEW c \in CallIds, c \in Overdue
        PROVE  /\ call'[c].status = "missed" /\ call'[c].ended
               /\ call'[c].initiator = call[c].initiator
               /\ call'[c].callee = call[c].callee
               /\ call'[c].joined = call[c].joined
               /\ call[c].status = "ringing"
    BY <2>3 DEF ExpireRinging, Overdue, IInv, TypeOK, CallRow
  <2>4. ASSUME NEW c \in CallIds, c \notin Overdue
        PROVE  call'[c] = call[c]
    BY <2>4 DEF ExpireRinging
  <2>5. QED
    BY <2>2, <2>3, <2>4 DEF IInv, RowInv
<1>2. HistoryKept
  BY SweepKeepsHistory
<1>3. EventsMatchCall' /\ NoticeAfterCommit'
  BY <1>2, HistoryKeepsNotices, SilenceMatches DEF ExpireRinging
<1>4. ASSUME NEW s \in Reqs PROVE Coherent(req[s])'
  <2>1. req[s] \in Request /\ Coherent(req[s]) /\ req' = req
    BY DEF ExpireRinging, IInv, TypeOK, RequestInv
  <2>2. QED
    BY <1>2, <2>1, HistoryKeepsCoherence DEF Coherent
<1>5. TypeOK'
  BY <1>1, SilenceMatches DEF ExpireRinging, IInv, TypeOK
<1>6. QED
  BY <1>1, <1>3, <1>4, <1>5 DEF IInv, RequestInv

\* Time and sockets touch nothing IInv relates.
LEMMA SurroundingsKeepIInv ==
  ASSUME IInv, UNCHANGED <<call, notified, req>>,
         event' = event \/ Silent,
         rungOut' \subseteq CallIds, online' \subseteq Users
  PROVE  IInv'
  BY DEF IInv, TypeOK, RowInv, RequestInv, Coherent, EventsMatchCall,
         NoticeAfterCommit, Rows, Parties, Silent

\* Every step of the specification preserves the inductive invariant.
LEMMA StepIInv == IInv /\ [Next]_vars => IInv'
<1> SUFFICES ASSUME IInv, [Next]_vars PROVE IInv'
  OBVIOUS
<1> USE DEF IInv, TypeOK
<1>1. ASSUME NEW r \in Reqs, Arrive(r) PROVE IInv'
  BY <1>1, ArriveKeepsIInv
<1>2. ASSUME NEW r \in Reqs, Continue(r) PROVE IInv'
  BY <1>2, ContinueKeepsIInv
<1>3. ASSUME NEW r \in Reqs, Abort(r) PROVE IInv'
  <2>1. Idle \in Request /\ Coherent(Idle)
    BY DEF Idle, Request, Coherent, InFlight, StartSteps,
           AcceptSteps, EndSteps
  <2>2. event' \in Event \cup {NoEvent} /\ EventsMatchCall'
    BY <1>3, SilenceMatches DEF Abort
  <2>3. QED
    BY <1>3, <2>1, <2>2, HandlerMoves DEF Abort, Finish
<1>4. CASE ExpireRinging
  BY <1>4, SweepKeepsIInv
<1>5. ASSUME NEW c \in CallIds, RingTimeout(c) PROVE IInv'
  BY <1>5, SurroundingsKeepIInv DEF RingTimeout
<1>6. ASSUME NEW u \in Users, Disconnect(u) \/ Reconnect(u) PROVE IInv'
  BY <1>6, SurroundingsKeepIInv DEF Disconnect, Reconnect
<1>7. CASE UNCHANGED vars
  BY <1>7, SurroundingsKeepIInv DEF vars
<1>8. QED
  BY <1>1, <1>2, <1>3, <1>4, <1>5, <1>6, <1>7 DEF Next, Surroundings

-----------------------------------------------------------------------------
(* The theorems.                                                           *)

\* IInv holds in every reachable state.
THEOREM Invariance == Spec => []IInv
<1>1. QED
  BY InitIInv, StepIInv, PTL DEF Spec

\* The tables and the handlers' variables keep their types.
THEOREM TypeCorrect == Spec => []TypeOK
<1>1. IInv => TypeOK
  BY DEF IInv
<1>2. QED
  BY <1>1, Invariance, PTL

\* The gateway addresses only the two parties of a call and tells them only what
\* its row already says; a call logged as 'ended' was answered and has both
\* timestamps, however the handlers overlapped.
THEOREM LogCorrect == Spec => []LogIsSound
<1>1. IInv => LogIsSound
  BY DEF IInv, RowInv, EndedWasAnswered, LogIsSound
<1>2. QED
  BY <1>1, Invariance, PTL

\* A step writes the table of calls only through one of these statements.
LEMMA WritersOfCalls ==
  ASSUME [Next]_vars
  PROVE  \/ \E r \in Reqs, c \in CallIds : StartInsert(r, c)
         \/ \E r \in Reqs : AcceptWrite(r)
         \/ \E r \in Reqs : EndWrite(r)
         \/ ExpireRinging
         \/ UNCHANGED call
<1>1. ASSUME NEW r \in Reqs, Arrive(r) \/ Abort(r) PROVE UNCHANGED call
  BY <1>1 DEF Arrive, Abort, StartCheck, AcceptRead, EndRead, SignalRead
<1>2. ASSUME NEW r \in Reqs, Continue(r)
      PROVE  \/ \E c \in CallIds : StartInsert(r, c)
             \/ AcceptWrite(r) \/ EndWrite(r)
             \/ UNCHANGED call
  BY <1>2 DEF Continue, StartBusy, StartRing, AcceptEmit, EndNotify, EndEmit,
              SignalRelay
<1>3. ASSUME NEW c \in CallIds, RingTimeout(c) PROVE UNCHANGED call
  BY <1>3 DEF RingTimeout
<1>4. ASSUME NEW u \in Users, Disconnect(u) \/ Reconnect(u)
      PROVE  UNCHANGED call
  BY <1>4 DEF Disconnect, Reconnect
<1>5. QED
  BY <1>1, <1>2, <1>3, <1>4 DEF Next, Surroundings, vars

\* What one step does to the table of calls.
LEMMA StepKeepsHistory == IInv /\ [Next]_vars => HistoryKept
<1> SUFFICES ASSUME IInv, [Next]_vars PROVE HistoryKept
  OBVIOUS
<1>1. UNCHANGED call => HistoryKept
  BY DEF HistoryKept, Rows
<1>2. QED
  BY <1>1, WritersOfCalls, InsertKeepsHistory, UpdateKeepsHistory,
     SweepKeepsHistory

\* Who wrote a verdict that one step put into the log.
LEMMA StepAttributesVerdicts == IInv /\ [Next]_vars => VerdictsAttributed
<1> SUFFICES ASSUME IInv, [Next]_vars,
                    NEW c \in CallIds, call'[c].status # call[c].status
             PROVE  /\ call'[c].status = "rejected" =>
                         \E r \in Reqs : Commits(r, c) /\ req[r].user = call[c].callee
                    /\ call'[c].status = "missed" =>
                         \/ c \in Overdue
                         \/ \E r \in Reqs : Commits(r, c)
                                           /\ req[r].user = call[c].initiator
  BY DEF VerdictsAttributed
<1>1. ASSUME NEW r \in Reqs, NEW d \in CallIds, StartInsert(r, d)
      PROVE  call'[c].status = "ringing"
  BY <1>1 DEF StartInsert, NoRow, IInv, TypeOK
<1>2. ASSUME NEW r \in Reqs, AcceptWrite(r) PROVE call'[c].status = "active"
  BY <1>2 DEF AcceptWrite, IInv, TypeOK, CallRow
<1>3. ASSUME NEW r \in Reqs, EndWrite(r)
      PROVE  /\ Commits(r, c) /\ call'[c].status = req[r].out
             /\ req[r].out = "missed" => req[r].user = call[c].initiator
             /\ req[r].out = "rejected" => req[r].user = call[c].callee
  <2>1. req[r].at = "end_write" /\ req'[r].at # "end_write"
    BY <1>3 DEF EndWrite, Goto, IInv, TypeOK, Request
  <2>2. req[r].call = c /\ call'[c].status = req[r].out
    BY <1>3 DEF EndWrite, IInv, TypeOK, CallRow
  <2>3. QED
    BY <2>1, <2>2 DEF Commits, IInv, RequestInv, Coherent
<1>4. CASE ExpireRinging
  BY <1>4 DEF ExpireRinging, IInv, TypeOK, CallRow
<1>5. QED
  BY <1>1, <1>2, <1>3, <1>4, WritersOfCalls

\* No row is removed, re-addressed, stripped of a timestamp or made to ring again,
\* and the log blames the party who acted, or the timeout, whatever the handler had
\* read when it chose its verdict.
THEOREM HistoryCorrect == Spec => LogIsFinal
<1>1. IInv /\ [Next]_vars => [HistoryKept /\ VerdictsAttributed]_vars
  BY StepKeepsHistory, StepAttributesVerdicts
<1>2. QED
  BY <1>1, Invariance, PTL DEF Spec, LogIsFinal

-----------------------------------------------------------------------------
(* One handler at a time: SerialInv is inductive.                          *)

LEMMA SerialStepIInv == SerialInv /\ [SerialNext]_vars => IInv'
<1>1. [SerialNext]_vars => [Next]_vars
  BY DEF SerialNext, Next
<1>2. QED
  BY <1>1, StepIInv DEF SerialInv

\* What is left to show of a step of the only handler in flight.
LEMMA Alone ==
  ASSUME NEW r \in Reqs, AllIdle(Reqs \ {r}),
         \A s \in Reqs \ {r} : req'[s] = req[s],
         Current(req[r])', IInv', \A c \in CallIds : MissedOnce(c)'
  PROVE  SerialInv'
<1>1. \A s \in Reqs \ {r} : Current(req[s])' /\ req'[s].at \notin InFlight
  BY DEF AllIdle, InFlight, StartSteps, AcceptSteps, EndSteps, Current
<1>2. OneAtATime'
  BY <1>1 DEF OneAtATime
<1>3. QED
  BY <1>1, <1>2 DEF SerialInv

\* The statements of a handler that write no row.
LEMMA SerialRead ==
  ASSUME NEW r \in Reqs, AllIdle(Reqs \ {r}), SerialInv, IInv',
         UNCHANGED <<call, notified>>,
         NEW q \in Request, req' = [req EXCEPT ![r] = q], Current(q)
  PROVE  SerialInv'
<1>1. /\ req'[r] = q
      /\ \A s \in Reqs \ {r} : req'[s] = req[s]
  BY DEF SerialInv, IInv, TypeOK
<1>2. Current(req[r])'
  BY <1>1 DEF Current, InCall, Parties
<1>3. \A c \in CallIds : MissedOnce(c)'
  BY DEF SerialInv, MissedOnce
<1>4. QED
  BY <1>1, <1>2, <1>3, Alone

\* What the first statement reads is so in the state it reads it from.
LEMMA SerialArrive ==
  ASSUME NEW r \in Reqs, AllIdle(Reqs \ {r}), SerialInv, IInv', Arrive(r)
  PROVE  SerialInv'
<1> USE DEF Idle, Request, InFlight, StartSteps, AcceptSteps, EndSteps
<1>1. ASSUME NEW u \in Users, NEW v \in Users, StartCheck(r, u, v)
      PROVE  SerialInv'
  <2> DEFINE q == [Idle EXCEPT !.at = "start_busy", !.user = u, !.peer = v]
  <2>1. q \in Request /\ Current(q)
    BY DEF Current
  <2>2. QED
    BY <1>1, <2>1, SerialRead DEF StartCheck
<1>2. ASSUME NEW u \in Users, NEW c \in CallIds, AcceptRead(r, u, c)
      PROVE  SerialInv'
  <2> DEFINE q == [Idle EXCEPT !.at = "accept_write", !.user = u, !.call = c]
  <2>1. q \in Request /\ Current(q)
    BY <1>2 DEF Current, AcceptRead
  <2>2. QED
    BY <1>2, <2>1, SerialRead DEF AcceptRead
<1>3. ASSUME NEW u \in Users, NEW c \in CallIds, NEW failed \in BOOLEAN,
             EndRead(r, u, c, failed)
      PROVE  SerialInv'
  <2> DEFINE over == call[c].status \in Final
             out  == IF over THEN call[c].status ELSE Verdict(u, c, failed)
             q    == [Idle EXCEPT !.at = IF over THEN "end_emit" ELSE "end_write",
                                    !.user = u, !.call = c, !.out = out]
  <2>1. call[c].status \in Status
    BY <1>3 DEF EndRead, Rows, SerialInv, IInv, TypeOK, CallRow
  <2>2. ~over =>
          /\ Verdict(u, c, failed) \in Final
          /\ Verdict(u, c, failed) = "ended" => call[c].status = "active"
          /\ Verdict(u, c, failed) \in {"missed", "rejected"} =>
               call[c].status = "ringing"
    <3>1. CASE failed
      BY <3>1 DEF Verdict
    <3>2. CASE ~failed /\ call[c].status = "active"
      BY <3>2 DEF Verdict
    <3>3. CASE ~failed /\ call[c].status = "ringing"
      BY <3>3 DEF Verdict
    <3>4. QED
      BY <2>1, <3>1, <3>2, <3>3
  <2>3. over => out \in Final
    OBVIOUS
  <2>4. ~over => out = Verdict(u, c, failed)
    OBVIOUS
  <2> HIDE DEF out
  <2>5. out \in Final
    BY <2>2, <2>3, <2>4
  <2>6. q \in Request
    BY <2>5
  <2>7. Current(q)
    <3>1. CASE over
      BY <3>1 DEF Current
    <3>2. CASE ~over
      <4>1. /\ q.at = "end_write" /\ q.call = c
            /\ q.out = Verdict(u, c, failed)
        BY <3>2, <2>4
      <4>2. call[c].status \in Live
        BY <2>1, <3>2
      <4>3. QED
        BY <2>2, <3>2, <4>1, <4>2 DEF Current
    <3>3. QED
      BY <3>1, <3>2
  <2>8. QED
    BY <1>3, <2>6, <2>7, SerialRead DEF EndRead, out
<1>4. ASSUME NEW u \in Users, NEW c \in CallIds, SignalRead(r, u, c)
      PROVE  SerialInv'
  <2> DEFINE q == [Idle EXCEPT !.at = "signal_relay", !.user = u, !.call = c]
  <2>1. q \in Request /\ Current(q)
    BY DEF Current
  <2>2. QED
    BY <1>4, <2>1, SerialRead DEF SignalRead
<1>5. QED
  BY <1>1, <1>2, <1>3, <1>4 DEF Arrive

\* A handler that finishes has nothing left to rely on.
LEMMA SerialFinish ==
  ASSUME NEW r \in Reqs, AllIdle(Reqs \ {r}), SerialInv, IInv',
         UNCHANGED <<call, notified>>, Finish(r)
  PROVE  SerialInv'
<1>1. Idle \in Request /\ Current(Idle)
  BY DEF Idle, Request, Current
<1>2. QED
  BY <1>1, SerialRead DEF Finish

\* A row of calls that is live, or not yet there, has no notice of a missed call.
LEMMA LiveUnnoticed ==
  ASSUME SerialInv, NEW c \in CallIds, call[c].status # "missed"
  PROVE  notified[c] = 0
  BY DEF SerialInv, IInv, TypeOK, MissedOnce

\* Each later statement of the only handler in flight.
LEMMA SerialContinue ==
  ASSUME NEW r \in Reqs, AllIdle(Reqs \ {r}), SerialInv, IInv', Continue(r)
  PROVE  SerialInv'
<1> PICK q \in Request : q = req[r]
  BY DEF SerialInv, IInv, TypeOK
<1>0. Coherent(q) /\ Current(q) /\ TypeOK
  BY DEF SerialInv, IInv, RequestInv
<1>1. CASE StartBusy(r)
  <2>1. CASE Finish(r)
    BY <1>1, <2>1, SerialFinish DEF StartBusy
  <2>2. CASE ~InCall(q.user) /\ ~InCall(q.peer) /\ Goto(r, "start_insert")
    <3> DEFINE n == [q EXCEPT !.at = "start_insert"]
    <3>1. n \in Request /\ Current(n)
      BY <2>2 DEF Current, Request, InFlight, StartSteps
    <3>2. req' = [req EXCEPT ![r] = n]
      BY <2>2 DEF Goto
    <3>3. QED
      BY <1>1, <3>1, <3>2, SerialRead DEF StartBusy
  <2>3. QED
    BY <1>1, <2>1, <2>2 DEF StartBusy
<1>2. CASE \E c \in CallIds : StartInsert(r, c)
  <2> PICK c \in CallIds : StartInsert(r, c)
    BY <1>2
  <2>1. /\ req'[r].at = "start_ring"
        /\ \A s \in Reqs \ {r} : req'[s] = req[s]
    BY <1>0 DEF StartInsert, TypeOK, Request
  <2>2. notified[c] = 0 /\ notified' = notified
    BY LiveUnnoticed DEF StartInsert, Rows
  <2>3. \A d \in CallIds \ {c} : call'[d] = call[d]
    BY <1>0 DEF StartInsert, TypeOK
  <2>4. \A d \in CallIds : MissedOnce(d)'
    BY <2>2, <2>3 DEF SerialInv, MissedOnce
  <2>5. Current(req[r])'
    BY <2>1 DEF Current
  <2>6. QED
    BY <2>1, <2>4, <2>5, Alone
<1>3. CASE StartRing(r) \/ AcceptEmit(r) \/ EndEmit(r) \/ SignalRelay(r)
  BY <1>3, SerialFinish DEF StartRing, AcceptEmit, EndEmit, SignalRelay
<1>4. CASE AcceptWrite(r)
  <2>1. /\ req'[r].at = "accept_emit"
        /\ \A s \in Reqs \ {r} : req'[s] = req[s]
    BY <1>0, <1>4 DEF AcceptWrite, Goto, TypeOK, Request
  <2>2. q.call \in CallIds /\ call[q.call].status = "ringing"
    BY <1>0, <1>4 DEF AcceptWrite, Coherent, Current, Rows, InFlight, AcceptSteps
  <2>3. notified[q.call] = 0 /\ notified' = notified
    BY <1>4, <2>2, LiveUnnoticed DEF AcceptWrite
  <2>4. \A d \in CallIds \ {q.call} : call'[d] = call[d]
    BY <1>0, <1>4 DEF AcceptWrite, TypeOK
  <2>5. \A d \in CallIds : MissedOnce(d)'
    BY <2>3, <2>4 DEF SerialInv, MissedOnce
  <2>6. Current(req[r])'
    BY <2>1 DEF Current
  <2>7. QED
    BY <2>1, <2>5, <2>6, Alone
<1>5. CASE EndWrite(r)
  <2>1. /\ q.call \in CallIds /\ q.out \in Final
        /\ call[q.call].status \in Live
    BY <1>0, <1>5 DEF EndWrite, Coherent, Current, Rows, InFlight, EndSteps
  <2>2. /\ req'[r].at = IF q.out = "missed" THEN "end_notify" ELSE "end_emit"
        /\ req'[r].call = q.call
        /\ \A s \in Reqs \ {r} : req'[s] = req[s]
    BY <1>0, <1>5 DEF EndWrite, Goto, TypeOK, Request
  <2>3. notified[q.call] = 0 /\ notified' = notified
    BY <1>5, <2>1, LiveUnnoticed DEF EndWrite
  <2>4. \A d \in CallIds \ {q.call} : call'[d] = call[d]
    BY <1>0, <1>5 DEF EndWrite, TypeOK
  <2>5. call'[q.call].status = q.out
    BY <1>0, <1>5, <2>1 DEF EndWrite, TypeOK, CallRow
  <2>6. \A d \in CallIds : MissedOnce(d)'
    BY <2>3, <2>4 DEF SerialInv, MissedOnce
  <2>7. Current(req[r])'
    BY <2>2, <2>3, <2>5 DEF Current
  <2>8. QED
    BY <2>2, <2>6, <2>7, Alone
<1>6. CASE EndNotify(r)
  <2>1. /\ q.call \in CallIds
        /\ call[q.call].status = "missed" /\ notified[q.call] = 0
    BY <1>0, <1>6 DEF EndNotify, Coherent, Current, Rows, InFlight, EndSteps
  <2>2. /\ req'[r].at = "end_emit"
        /\ \A s \in Reqs \ {r} : req'[s] = req[s]
    BY <1>0, <1>6 DEF EndNotify, Goto, TypeOK, Request
  <2>3. /\ notified'[q.call] = 1 /\ call' = call
        /\ \A d \in CallIds \ {q.call} : notified'[d] = notified[d]
    BY <1>0, <1>6, <2>1 DEF EndNotify, TypeOK
  <2>4. \A d \in CallIds : MissedOnce(d)'
    BY <2>1, <2>3 DEF SerialInv, MissedOnce
  <2>5. Current(req[r])'
    BY <2>2 DEF Current
  <2>6. QED
    BY <2>2, <2>4, <2>5, Alone
<1>7. QED
  BY <1>1, <1>2, <1>3, <1>4, <1>5, <1>6 DEF Continue

\* Statements that find no handler in flight, and those that touch no row.
LEMMA SerialSweep ==
  ASSUME AllIdle(Reqs), SerialInv, IInv', ExpireRinging
  PROVE  SerialInv'
<1>1. \A r \in Reqs : Current(req[r])'
  BY DEF ExpireRinging, AllIdle, InFlight, StartSteps, AcceptSteps, EndSteps, Current
<1>2. OneAtATime'
  BY DEF ExpireRinging, SerialInv, OneAtATime
<1>3. ASSUME NEW c \in CallIds PROVE MissedOnce(c)'
  <2>1. CASE c \in Overdue
    <3>1. notified[c] = 0 /\ notified' = notified
      BY <2>1, LiveUnnoticed DEF Overdue, ExpireRinging
    <3>2. QED
      BY <3>1 DEF MissedOnce
  <2>2. CASE c \notin Overdue
    BY <2>2 DEF ExpireRinging, SerialInv, MissedOnce
  <2>3. QED
    BY <2>1, <2>2
<1>4. QED
  BY <1>1, <1>2, <1>3 DEF SerialInv

LEMMA SerialIdle ==
  ASSUME SerialInv, IInv', UNCHANGED <<call, notified, req>>
  PROVE  SerialInv'
<1>1. \A r \in Reqs : Current(req[r])'
  BY DEF SerialInv, Current, InCall, Parties
<1>2. OneAtATime' /\ \A c \in CallIds : MissedOnce(c)'
  BY DEF SerialInv, OneAtATime, MissedOnce
<1>3. QED
  BY <1>1, <1>2 DEF SerialInv

LEMMA SerialInductive == SerialInv /\ [SerialNext]_vars => SerialInv'
<1> SUFFICES ASSUME SerialInv, [SerialNext]_vars PROVE SerialInv'
  OBVIOUS
<1>1. IInv'
  BY SerialStepIInv
<1>2. ASSUME NEW r \in Reqs, AllIdle(Reqs \ {r}),
             Arrive(r) \/ Continue(r) \/ Abort(r)
      PROVE  SerialInv'
  BY <1>1, <1>2, SerialArrive, SerialContinue, SerialFinish DEF Abort
<1>3. CASE AllIdle(Reqs) /\ ExpireRinging
  BY <1>1, <1>3, SerialSweep
<1>4. CASE Surroundings
  BY <1>1, <1>4, SerialIdle DEF Surroundings, RingTimeout, Disconnect, Reconnect
<1>5. CASE UNCHANGED vars
  BY <1>1, <1>5, SerialIdle DEF vars
<1>6. QED
  BY <1>2, <1>3, <1>4, <1>5 DEF SerialNext

LEMMA SerialInit == HistoryInit => SerialInv
<1> SUFFICES ASSUME HistoryInit PROVE SerialInv
  OBVIOUS
<1>1. IInv
  BY InitIInv DEF HistoryInit
<1>2. \A r \in Reqs : req[r].at = "idle"
  BY DEF HistoryInit, Init, Idle
<1>3. OneAtATime /\ \A r \in Reqs : Current(req[r])
  BY <1>2 DEF OneAtATime, Current, InFlight, StartSteps, AcceptSteps, EndSteps
<1>4. \A c \in CallIds : MissedOnce(c)
  BY DEF HistoryInit, Init, MissedOnce
<1>5. QED
  BY <1>1, <1>3, <1>4 DEF SerialInv

\* What the one handler in flight has read is still so, as long as no two overlap.
THEOREM SerialInvariance == HistorySpec => [](serial => SerialInv)
<1>1. HistoryInit => (serial => SerialInv)
  BY SerialInit
<1>2. (serial => SerialInv) /\ [HistoryNext]_<<vars, serial>>
        => (serial => SerialInv)'
  <2> SUFFICES ASSUME serial => SerialInv, [HistoryNext]_<<vars, serial>>, serial'
               PROVE  SerialInv'
    OBVIOUS
  <2>1. serial /\ [SerialNext]_vars
    BY DEF HistoryNext
  <2>2. QED
    BY <2>1, SerialInductive
<1>3. QED
  BY <1>1, <1>2, PTL DEF HistorySpec

\* Only a missed call is notified as missed, and once, while no two handlers
\* have overlapped.
THEOREM NoticesCorrect == HistorySpec => []NoticesMatchLog
<1>1. (serial => SerialInv) => NoticesMatchLog
  BY DEF SerialInv, NoticesMatchLog
<1>2. QED
  BY <1>1, SerialInvariance, PTL

-----------------------------------------------------------------------------
(* The refinement: while no two handlers have overlapped, a statement that *)
(* writes the table of calls is a move of CallLog on what the log shows.   *)

\* What a statement that rewrites row c shows the log.
LEMMA LogOfRow ==
  ASSUME TypeOK, NEW c \in CallIds, NEW row,
         call' = [call EXCEPT ![c] = row]
  PROVE  lives' = [lives EXCEPT ![c] = [status    |-> row.status,
                                        initiator |-> row.initiator,
                                        callee    |-> row.callee]]
  BY DEF TypeOK, lives

\* A call changes only its status in the log.
LEMMA LogOfStatus ==
  ASSUME TypeOK, NEW c \in CallIds, NEW row,
         call' = [call EXCEPT ![c] = row],
         row.initiator = call[c].initiator, row.callee = call[c].callee
  PROVE  lives' = [lives EXCEPT ![c].status = row.status]
<1>1. lives[c] = [status    |-> call[c].status,
                  initiator |-> call[c].initiator,
                  callee    |-> call[c].callee]
  BY DEF lives
<1>2. [lives[c] EXCEPT !.status = row.status] =
        [status |-> row.status, initiator |-> row.initiator, callee |-> row.callee]
  BY <1>1
<1>3. QED
  BY <1>2, LogOfRow

LEMMA InsertRings ==
  ASSUME SerialInv, NEW r \in Reqs, NEW c \in CallIds, StartInsert(r, c)
  PROVE  \E u, v \in Users : Promise!Ring(c, u, v)
<1> PICK q \in Request : q = req[r]
  BY DEF SerialInv, IInv, TypeOK
<1> DEFINE row == [NoRow EXCEPT !.status = "ringing", !.initiator = q.user,
                                !.callee = q.peer, !.joined = {q.user}]
<1>1. /\ q.user \in Users /\ q.peer \in Users /\ q.user # q.peer
      /\ ~InCall(q.user) /\ ~InCall(q.peer)
  BY DEF StartInsert, SerialInv, IInv, RequestInv, Coherent, Current, StartSteps
<1>2. lives[c].status = "none"
  BY DEF StartInsert, Rows, lives
<1>3. Promise!Free(q.user) /\ Promise!Free(q.peer)
  <2>1. ASSUME NEW d \in CallIds, lives[d].status \in {"ringing", "active"}
        PROVE  /\ call[d].status \in {"ringing", "active"}
               /\ Parties(d) = {lives[d].initiator, lives[d].callee}
    BY <2>1 DEF lives, Parties
  <2>2. ASSUME NEW u \in Users, ~InCall(u)
        PROVE  Promise!Free(u)
    BY <2>1, <2>2 DEF Promise!Free, Promise!Live, InCall
  <2>3. QED
    BY <1>1, <2>2
<1>4. lives' = [lives EXCEPT ![c] =
                  [status |-> "ringing", initiator |-> q.user, callee |-> q.peer]]
  <2>1. call' = [call EXCEPT ![c] = row]
    BY DEF StartInsert
  <2>2. row.status = "ringing" /\ row.initiator = q.user /\ row.callee = q.peer
    BY DEF NoRow
  <2>3. TypeOK
    BY DEF SerialInv, IInv
  <2> HIDE DEF row
  <2>4. lives' = [lives EXCEPT ![c] = [status    |-> row.status,
                                       initiator |-> row.initiator,
                                       callee    |-> row.callee]]
    BY <2>1, <2>3, LogOfRow
  <2>5. QED
    BY <2>2, <2>4
<1>5. Promise!Ring(c, q.user, q.peer)
  BY <1>1, <1>2, <1>3, <1>4, ZenonT(40) DEF Promise!Ring
<1>6. QED
  BY <1>1, <1>5

LEMMA AcceptAnswers ==
  ASSUME SerialInv, NEW r \in Reqs, AcceptWrite(r)
  PROVE  \E c \in CallIds : Promise!Answer(c)
<1> PICK q \in Request : q = req[r]
  BY DEF SerialInv, IInv, TypeOK
<1> DEFINE c   == q.call
           row == [call[c] EXCEPT !.status = "active", !.started = TRUE,
                                  !.joined = call[c].joined \cup {q.user}]
<1>1. c \in CallIds /\ call[c].status = "ringing"
  BY DEF AcceptWrite, SerialInv, IInv, RequestInv, Coherent, Current, Rows,
         InFlight, AcceptSteps
<1>2. call[c] \in CallRow
  BY <1>1 DEF SerialInv, IInv, TypeOK
<1>3. call' = [call EXCEPT ![c] = row]
  BY DEF AcceptWrite
<1>4. /\ row.status = "active"
      /\ row.initiator = call[c].initiator /\ row.callee = call[c].callee
  BY <1>2 DEF CallRow
<1>5. lives' = [lives EXCEPT ![c].status = "active"]
  BY <1>1, <1>3, <1>4, LogOfStatus DEF SerialInv, IInv
<1>6. lives[c].status = "ringing"
  BY <1>1 DEF lives
<1>7. QED
  BY <1>1, <1>5, <1>6 DEF Promise!Answer, Promise!Become

LEMMA EndFinishes ==
  ASSUME SerialInv, NEW r \in Reqs, EndWrite(r)
  PROVE  \E c \in CallIds : \/ Promise!HangUp(c) \/ Promise!GiveUp(c)
                            \/ Promise!Decline(c) \/ Promise!MediaFail(c)
<1> PICK q \in Request : q = req[r]
  BY DEF SerialInv, IInv, TypeOK
<1> DEFINE c   == q.call
           row == [call[c] EXCEPT !.status = q.out, !.ended = TRUE, !.left = TRUE]
<1>1. /\ c \in CallIds /\ q.out \in Final
      /\ call[c].status \in Live
      /\ q.out = "ended" => call[c].status = "active"
      /\ q.out \in {"missed", "rejected"} => call[c].status = "ringing"
  BY DEF EndWrite, SerialInv, IInv, RequestInv, Coherent, Current, Rows,
         InFlight, EndSteps
<1>2. call[c] \in CallRow
  BY <1>1 DEF SerialInv, IInv, TypeOK
<1>3. call' = [call EXCEPT ![c] = row]
  BY DEF EndWrite
<1>4. /\ row.status = q.out
      /\ row.initiator = call[c].initiator /\ row.callee = call[c].callee
  BY <1>2 DEF CallRow
<1>5. lives' = [lives EXCEPT ![c].status = q.out]
  BY <1>1, <1>3, <1>4, LogOfStatus DEF SerialInv, IInv
<1>6. lives[c].status = call[c].status
  BY <1>1 DEF lives
<1>7. QED
  BY <1>1, <1>5, <1>6
     DEF Promise!HangUp, Promise!GiveUp, Promise!Decline, Promise!MediaFail,
         Promise!Become, Promise!Live

LEMMA SweepRingsOut ==
  ASSUME SerialInv, ExpireRinging
  PROVE  Promise!RingOut
<1>1. Overdue \in SUBSET {c \in CallIds : lives[c].status = "ringing"}
  BY DEF Overdue, lives, SerialInv, IInv, TypeOK
<1>2. ASSUME NEW c \in CallIds
      PROVE  lives'[c] = IF c \in Overdue
                           THEN [lives[c] EXCEPT !.status = "missed"] ELSE lives[c]
  <2>1. call[c] \in CallRow
    BY DEF SerialInv, IInv, TypeOK
  <2>2. call'[c] = IF c \in Overdue
                     THEN [call[c] EXCEPT !.status = "missed", !.ended = TRUE]
                     ELSE call[c]
    BY DEF ExpireRinging
  <2>3. /\ lives[c] = [status    |-> call[c].status,
                       initiator |-> call[c].initiator,
                       callee    |-> call[c].callee]
        /\ lives'[c] = [status    |-> call'[c].status,
                        initiator |-> call'[c].initiator,
                        callee    |-> call'[c].callee]
    BY DEF lives
  <2>4. CASE c \in Overdue
    BY <2>1, <2>2, <2>3, <2>4 DEF CallRow
  <2>5. CASE c \notin Overdue
    BY <2>2, <2>3, <2>5
  <2>6. QED
    BY <2>4, <2>5
<1>3. lives' = [c \in CallIds |->
                  IF c \in Overdue THEN [lives[c] EXCEPT !.status = "missed"]
                                   ELSE lives[c]]
  BY <1>2 DEF lives
<1>4. QED
  BY <1>1, <1>3 DEF Promise!RingOut

\* Every step of the server is a step of the log or leaves it alone.
LEMMA SerialStepsLog == SerialInv /\ [SerialNext]_vars => [Promise!Next]_lives
<1> SUFFICES ASSUME SerialInv, [SerialNext]_vars PROVE [Promise!Next]_lives
  OBVIOUS
<1>1. [Next]_vars
  BY DEF SerialNext, Next
<1>2. UNCHANGED call => UNCHANGED lives
  BY DEF lives
<1>3. QED
  BY <1>1, <1>2, WritersOfCalls, InsertRings, AcceptAnswers, EndFinishes,
     SweepRingsOut DEF Promise!Next

\* start's busy check, accept's ringing check and end's early return give every
\* call the life CallLog describes, until two handlers overlap.
THEOREM LogRefinement == HistorySpec => ImplementsCallLog
<1>1. HistoryInit => Promise!Init
  BY DEF HistoryInit, Init, Promise!Init, lives, NoRow
<1>2. (serial => SerialInv) /\ [HistoryNext]_<<vars, serial>>
        => [serial' => [Promise!Next]_lives]_vars
  BY SerialStepsLog DEF HistoryNext
<1>3. QED
  BY <1>1, <1>2, SerialInvariance, PTL DEF HistorySpec, ImplementsCallLog

-----------------------------------------------------------------------------
(* The call client: for any number of calls between its two ends.  An       *)
(* action hands the hook of one client to Go, which the server answers.     *)
(* Whoever keeps the shape of the hook, puts no second answer into a queue *)
(* and leaves the microphone to the call it belongs to, keeps HInv.         *)

\* A call has two ends, and the other end is a client.
LEMMA OtherEnd ==
  ASSUME NEW p \in Clients
  PROVE  Other(p) \in Clients /\ Other(p) # p
<1>1. \E q \in Clients : q # p
  BY TwoEnds
<1> QED
  BY <1>1 DEF Other

Whole(h) == h.pc.call = NoCall => h.pc = NoPeer

\* A connection that is not there, and one that is new, are well-formed.
LEMMA NoPeerType == NoPeer \in Peer /\ NoPeer.call = NoCall /\ NoPeer.sig = "stable"
  BY BoundsAreNats DEF NoPeer, Peer

LEMMA NewPeerType ==
  ASSUME NEW c \in Calls
  PROVE  NewPeer(c) \in Peer /\ NewPeer(c).call = c
  BY NoPeerType DEF NewPeer, Peer

\* cleanup() leaves a hook without a connection, a call or its microphone.
LEMMA CleanupType ==
  ASSUME NEW h \in Hook
  PROVE  /\ Cleanup(h) \in Hook /\ Whole(Cleanup(h))
         /\ Cleanup(h).cur = NoCall /\ Cleanup(h).inc = h.inc /\ Cleanup(h).st = h.st
         /\ Cleanup(h).mics = h.mics \ {h.stream} /\ Cleanup(h).idles = h.idles
  BY NoPeerType, ZenonT(60) DEF Cleanup, Hook, Whole

\* Candidates that are added and a microphone that is granted change nothing else the
\* functions of the hook rely on.
LEMMA FlushType ==
  ASSUME NEW h \in Hook, Whole(h)
  PROVE  /\ Flush(h) \in Hook /\ Whole(Flush(h))
         /\ Flush(h).cur = h.cur /\ Flush(h).inc = h.inc /\ Flush(h).st = h.st
         /\ Flush(h).mics = h.mics /\ Flush(h).stream = h.stream
         /\ Flush(h).pc.call = h.pc.call /\ Flush(h).pc.tracks = h.pc.tracks
<1>1. h.pc \in Peer /\ h.cands \subseteq Calls
  BY DEF Hook
<1>2. /\ Flush(h) \in Hook
      /\ Flush(h).pc = [h.pc EXCEPT !.cand = h.pc.cand \/ h.pc.call \in h.cands]
      /\ Flush(h).cur = h.cur /\ Flush(h).inc = h.inc /\ Flush(h).st = h.st
      /\ Flush(h).mics = h.mics /\ Flush(h).stream = h.stream
  <2> DEFINE b == h.pc.cand \/ h.pc.call \in h.cands
             n == [h.pc EXCEPT !.cand = b]
  <2>1. b \in BOOLEAN
    BY <1>1 DEF Peer
  <2>2. Flush(h) = [h EXCEPT !.pc.cand = b, !.cands = {}]
    BY DEF Flush
  <2> HIDE DEF b
  <2>3. n \in Peer
    BY <1>1, <2>1 DEF Peer
  <2>4. Flush(h) = [[h EXCEPT !.cands = {}] EXCEPT !.pc = n]
    BY <1>1, <2>2 DEF Hook, Peer
  <2> HIDE DEF n
  <2>5. /\ Flush(h) \in Hook /\ Flush(h).pc = n
        /\ Flush(h).cur = h.cur /\ Flush(h).inc = h.inc /\ Flush(h).st = h.st
        /\ Flush(h).mics = h.mics /\ Flush(h).stream = h.stream
    BY <2>3, <2>4 DEF Hook
  <2> QED
    BY <2>5 DEF n, b
<1>3. h.pc.call = NoCall => Flush(h).pc = NoPeer
  <2> SUFFICES ASSUME h.pc.call = NoCall PROVE Flush(h).pc = NoPeer
    OBVIOUS
  <2>1. h.pc = NoPeer /\ NoCall \notin h.cands
    BY <1>1, NoCallIsFresh DEF Whole
  <2>2. (h.pc.cand \/ h.pc.call \in h.cands) = FALSE
    <3>1. NoPeer.cand = FALSE
      BY DEF NoPeer
    <3> QED
      BY <2>1, <3>1, h.pc.call = NoCall
  <2>3. Flush(h).pc = [NoPeer EXCEPT !.cand = FALSE]
    BY <1>2, <2>1, <2>2
  <2> QED
    BY <2>3 DEF NoPeer
<1> QED
  BY <1>1, <1>2, <1>3 DEF Whole, Peer

\* Whatever the connection has heard of the other side's tracks is well-formed.
LEMMA EarsType ==
  ASSUME NEW pc \in Peer, NEW tracks \in BOOLEAN
  PROVE  Ears(pc, tracks) \in {"no", "yes", "missed"}
  BY DEF Ears, Peer

LEMMA GrantedType ==
  ASSUME NEW h \in Hook, Whole(h), NEW c \in Calls
  PROVE  /\ Granted(h, c) \in Hook /\ Whole(Granted(h, c))
         /\ Granted(h, c).cur = h.cur /\ Granted(h, c).inc = h.inc
         /\ Granted(h, c).st = h.st /\ Granted(h, c).pc.call = h.pc.call
         /\ Granted(h, c).mics = h.mics \cup {c} /\ Granted(h, c).stream = c
         /\ Granted(h, c).offer = h.offer
<1> DEFINE g == Granted(h, c)
<1>1. h.pc \in Peer
  BY DEF Hook
<1>2. g \in Hook /\ g.pc = [h.pc EXCEPT !.tracks = @ \/ h.pc.call = c, !.need = @ \/ h.pc.call = c]
      /\ g.cur = h.cur /\ g.inc = h.inc /\ g.st = h.st
      /\ g.mics = h.mics \cup {c} /\ g.stream = c /\ g.offer = h.offer
  <2> DEFINE a == h.pc.tracks \/ h.pc.call = c
             b == h.pc.need \/ h.pc.call = c
             n == [h.pc EXCEPT !.tracks = a, !.need = b]
  <2>1. a \in BOOLEAN /\ b \in BOOLEAN
    BY <1>1 DEF Peer
  <2>2. g = [h EXCEPT !.stream = c, !.mics = h.mics \cup {c}, !.pc.tracks = a, !.pc.need = b]
    BY DEF Granted
  <2> HIDE DEF a, b, g
  <2>3. n \in Peer
    BY <1>1, <2>1 DEF Peer
  <2>4. g = [[h EXCEPT !.stream = c, !.mics = h.mics \cup {c}] EXCEPT !.pc = n]
    BY <1>1, <2>2 DEF Hook, Peer
  <2> HIDE DEF n
  <2>5. g \in Hook /\ g.pc = n /\ g.cur = h.cur /\ g.inc = h.inc /\ g.st = h.st
        /\ g.mics = h.mics \cup {c} /\ g.stream = c /\ g.offer = h.offer
    BY <2>3, <2>4 DEF Hook
  <2> QED
    BY <2>5 DEF n, a, b
<1>3. h.pc.call = NoCall => g.pc = NoPeer
  <2> SUFFICES ASSUME h.pc.call = NoCall PROVE g.pc = NoPeer
    OBVIOUS
  <2>1. h.pc = NoPeer /\ NoPeer.call # c
    BY NoCallIsFresh, NoPeerType DEF Whole
  <2> HIDE DEF g
  <2>2. /\ (h.pc.tracks \/ h.pc.call = c) = FALSE
        /\ (h.pc.need \/ h.pc.call = c) = FALSE
    <3>1. NoPeer.tracks = FALSE /\ NoPeer.need = FALSE
      BY DEF NoPeer
    <3> QED
      BY <2>1, <3>1
  <2>3. g.pc = [NoPeer EXCEPT !.tracks = FALSE, !.need = FALSE]
    BY <1>2, <2>1, <2>2
  <2> QED
    BY <2>3, ZenonT(60) DEF NoPeer
<1> QED
  BY <1>1, <1>2, <1>3 DEF Whole, Peer

-----------------------------------------------------------------------------
(* Shape.                                                                  *)

\* What the server is asked, what was lost and what went wrong are well-formed.
Extras == asks' \subseteq Ask /\ lost' \subseteq Calls /\ faults' \in 0..MaxFaults

\* A step that changes one hook, and keeps the other variables' types.
LEMMA ShapeStep ==
  ASSUME Shape, NEW p \in Clients, NEW h \in Hook, Whole(h),
         me' = [me EXCEPT ![p] = h],
         task' \in [Clients -> [Calls -> Task]],
         queue' \in [Clients -> Seq(Note)], wire' \subseteq Sent,
         line' \in [Calls -> Row], Extras
  PROVE  Shape'
<1>1. me' \in [Clients -> Hook]
  BY DEF Shape, HookTypeOK
<1>2. \A q \in Clients : me'[q].pc.call = NoCall => me'[q].pc = NoPeer
  BY DEF Shape, HookTypeOK, Whole
<1>3. ASSUME NEW q \in Clients, NEW i \in DOMAIN queue'[q]
      PROVE  queue'[q][i].call \in Calls
  <2>1. queue'[q] \in Seq(Note)
    OBVIOUS
  <2>2. queue'[q][i] \in Note
    BY <2>1
  <2> QED
    BY <2>2 DEF Note
<1>4. \A s \in wire' : s.to \in Clients /\ s.call \in Calls
  BY DEF Sent
<1> QED
  BY <1>1, <1>2, <1>3, <1>4 DEF Shape, HookTypeOK, Extras

\* The hook and the queue of one client, read off Shape.
LEMMA HookShape ==
  ASSUME Shape, NEW p \in Clients
  PROVE  /\ me[p] \in Hook /\ Whole(me[p]) /\ me[p].pc \in Peer
         /\ queue[p] \in Seq(Note)
         /\ queue[p] # <<>> =>
              /\ Head(queue[p]) \in Note /\ Head(queue[p]) = queue[p][1]
              /\ Len(queue[p]) \in Nat \ {0}
              /\ Tail(queue[p]) \in Seq(Note)
              /\ Rest(p) = [queue EXCEPT ![p] = Tail(queue[p])]
              /\ Rest(p) \in [Clients -> Seq(Note)]
<1>1. /\ me[p] \in Hook /\ Whole(me[p]) /\ queue[p] \in Seq(Note)
      /\ queue \in [Clients -> Seq(Note)]
  BY DEF Shape, HookTypeOK, Whole
<1>2. me[p].pc \in Peer
  BY <1>1 DEF Hook
<1>3. ASSUME queue[p] # <<>>
      PROVE  /\ Head(queue[p]) \in Note /\ Head(queue[p]) = queue[p][1]
             /\ Len(queue[p]) \in Nat \ {0} /\ Tail(queue[p]) \in Seq(Note)
  BY <1>1, <1>3
<1>4. Rest(p) = [queue EXCEPT ![p] = Tail(queue[p])]
  BY <1>1 DEF Rest
<1> QED
  BY <1>1, <1>2, <1>3, <1>4

\* What waits moves up by at most one place, and what is added is no call that rings,
\* nor an answer to the client that called.
Quiet(q, e) ==
  \/ e.kind \in {"ended", "accepted"}
  \/ e.kind \in {"joined", "refused"} /\ Caller[e.call] # q /\ line[e.call] # "none"

Advances(q) ==
  \E k \in {0, 1} :
    \A i \in DOMAIN queue'[q] :
      \/ Quiet(q, queue'[q][i])
      \/ i + k \in DOMAIN queue[q] /\ queue'[q][i] = queue[q][i + k]

FromQueue(p, from) == \/ from = queue
                      \/ queue[p] # <<>> /\ from = Rest(p)

Remembered == \A c \in Calls : line[c] # "none" => line'[c] # "none"

\* A queue without its first event is a queue, with everything one place up.
LEMMA FromShape ==
  ASSUME Shape, NEW p \in Clients, NEW from, FromQueue(p, from)
  PROVE  /\ from \in [Clients -> Seq(Note)]
         /\ \A q \in Clients : \E k \in {0, 1} :
              \A i \in DOMAIN from[q] :
                i + k \in DOMAIN queue[q] /\ from[q][i] = queue[q][i + k]
<1>1. CASE from = queue
  <2>1. queue \in [Clients -> Seq(Note)]
    BY DEF Shape
  <2>2. \A q \in Clients : \A i \in DOMAIN from[q] :
          i + 0 \in DOMAIN queue[q] /\ from[q][i] = queue[q][i + 0]
    BY <1>1, <2>1
  <2> QED
    BY <1>1, <2>1, <2>2
<1>2. CASE queue[p] # <<>> /\ from = Rest(p)
  <2>1. /\ from \in [Clients -> Seq(Note)]
        /\ from[p] = Tail(queue[p]) /\ Tail(queue[p]) \in Seq(Note)
        /\ queue \in [Clients -> Seq(Note)]
        /\ \A q \in Clients : q # p => from[q] = queue[q]
    BY <1>2, HookShape DEF Shape
  <2>2. \A i \in DOMAIN from[p] :
          i + 1 \in DOMAIN queue[p] /\ from[p][i] = queue[p][i + 1]
    BY <1>2, <2>1
  <2>3. \A q \in Clients : q # p => \A i \in DOMAIN from[q] :
          i + 0 \in DOMAIN queue[q] /\ from[q][i] = queue[q][i + 0]
    BY <2>1
  <2> QED
    BY <2>1, <2>2, <2>3
<1> QED
  BY <1>1, <1>2 DEF FromQueue

\* What Go does to a well-formed hook keeps Shape, forgets no call the server knows
\* of, and adds to no queue.
LEMMA GoShape ==
  ASSUME Shape, NEW p \in Clients, NEW h \in Hook, Whole(h),
         NEW from, FromQueue(p, from),
         NEW sent \in SUBSET Sent, NEW ends \in SUBSET Calls,
         Go(p, h, from, sent, ends),
         task' \in [Clients -> [Calls -> Task]]
  PROVE  /\ Shape' /\ Remembered
         /\ me' = [me EXCEPT ![p] = h]
         /\ \A q \in Clients : Advances(q)
<1>1. /\ from \in [Clients -> Seq(Note)]
      /\ \A q \in Clients : \E k \in {0, 1} :
           \A i \in DOMAIN from[q] :
             i + k \in DOMAIN queue[q] /\ from[q][i] = queue[q][i + k]
  BY FromShape, SMTT(30)
<1>2. queue' = from /\ wire' \subseteq Sent /\ me' = [me EXCEPT ![p] = h]
  BY DEF Go, Shape
<1>3. line' \in [Calls -> Row] /\ Remembered
  BY DEF Go, Shape, HookTypeOK, Remembered
<1>4. Extras
  <2>1. \A c \in ends : EndOf(c, p) \in Ask
    BY DEF EndOf, Ask
  <2> QED
    BY <2>1 DEF Go, Shape, HookTypeOK, Extras
<1>5. Shape'
  BY <1>1, <1>2, <1>3, <1>4, ShapeStep
<1>6. \A q \in Clients : Advances(q)
  BY <1>1, <1>2 DEF Advances
<1> QED
  BY <1>2, <1>3, <1>5, <1>6

-----------------------------------------------------------------------------
(* Roles, and the microphones.                                             *)

\* A call that asked stays so until it is told.
Asking(q) ==
  \A c \in Calls :
    Caller[c] = q /\ task[q][c].at = "asking" =>
      \/ task'[q][c].at = "asking"
      \/ \A i \in DOMAIN queue'[q] :
           queue'[q][i].call = c => queue'[q][i].kind \notin {"started", "refused"}

Rung(q, c) == c # NoCall => Caller[c] # q /\ line[c] # "none"

\* Who is told what about a call: kept by a step that takes from the front of a
\* queue, adds what is quiet, and rings nobody anew.
LEMMA RolesStep ==
  ASSUME Shape, Shape', Roles, Remembered,
         \A q \in Clients : Advances(q) /\ Asking(q) /\ Rung(q, me'[q].inc)
  PROVE  Roles'
<1>1. ASSUME NEW q \in Clients
      PROVE  me'[q].inc # NoCall => /\ Caller[me'[q].inc] # q
                                  /\ line'[me'[q].inc] # "none"
  <2>1. me'[q].inc \in Calls \cup {NoCall}
    BY DEF Shape, HookTypeOK, Hook
  <2> QED
    BY <2>1 DEF Rung, Remembered
<1>2. ASSUME NEW q \in Clients
      PROVE  \A i \in DOMAIN queue'[q] :
               LET e == queue'[q][i]
               IN  /\ e.kind = "started" => Caller[e.call] = q
                   /\ e.kind \in {"joined", "incoming"} => Caller[e.call] # q
                   /\ e.kind \in {"incoming", "started", "joined", "refused"} =>
                        line'[e.call] # "none"
                   /\ Replies(q, i)' => task'[q][e.call].at = "asking"
  <2>1. PICK k \in {0, 1} : \A i \in DOMAIN queue'[q] :
          \/ Quiet(q, queue'[q][i])
          \/ i + k \in DOMAIN queue[q] /\ queue'[q][i] = queue[q][i + k]
    BY DEF Advances
  <2> SUFFICES ASSUME NEW i \in DOMAIN queue'[q]
               PROVE  LET e == queue'[q][i]
                      IN  /\ e.kind = "started" => Caller[e.call] = q
                          /\ e.kind \in {"joined", "incoming"} => Caller[e.call] # q
                          /\ e.kind \in {"incoming", "started", "joined", "refused"} =>
                               line'[e.call] # "none"
                          /\ Replies(q, i)' => task'[q][e.call].at = "asking"
    OBVIOUS
  <2>3. queue'[q][i].call \in Calls
    BY DEF Shape, HookTypeOK
  <2>6. CASE Quiet(q, queue'[q][i])
    BY <2>3, <2>6 DEF Quiet, Replies, Remembered
  <2> SUFFICES ASSUME ~Quiet(q, queue'[q][i])
               PROVE  LET e == queue'[q][i]
                      IN  /\ e.kind = "started" => Caller[e.call] = q
                          /\ e.kind \in {"joined", "incoming"} => Caller[e.call] # q
                          /\ e.kind \in {"incoming", "started", "joined", "refused"} =>
                               line'[e.call] # "none"
                          /\ Replies(q, i)' => task'[q][e.call].at = "asking"
    BY <2>6
  <2>2. i + k \in DOMAIN queue[q] /\ queue'[q][i] = queue[q][i + k]
    BY <2>1
  <2>4. LET e == queue[q][i + k]
        IN  /\ e.kind = "started" => Caller[e.call] = q
            /\ e.kind \in {"joined", "incoming"} => Caller[e.call] # q
            /\ e.kind \in {"incoming", "started", "joined", "refused"} =>
                 line[e.call] # "none"
            /\ Replies(q, i + k) => task[q][e.call].at = "asking"
    BY <2>2 DEF Roles
  <2>5. Replies(q, i)' => task'[q][queue'[q][i].call].at = "asking"
    BY <2>2, <2>3, <2>4 DEF Replies, Asking
  <2> QED
    BY <2>2, <2>3, <2>4, <2>5 DEF Remembered
<1>3. ASSUME NEW q \in Clients,
             NEW i \in DOMAIN queue'[q], NEW j \in DOMAIN queue'[q],
             Replies(q, i)', Replies(q, j)', queue'[q][i].call = queue'[q][j].call
      PROVE  i = j
  <2>1. PICK k \in {0, 1} : \A l \in DOMAIN queue'[q] :
          \/ Quiet(q, queue'[q][l])
          \/ l + k \in DOMAIN queue[q] /\ queue'[q][l] = queue[q][l + k]
    BY DEF Advances
  <2>2. /\ i + k \in DOMAIN queue[q] /\ queue'[q][i] = queue[q][i + k]
        /\ j + k \in DOMAIN queue[q] /\ queue'[q][j] = queue[q][j + k]
    BY <1>3, <2>1 DEF Replies, Quiet
  <2>3. Replies(q, i + k) /\ Replies(q, j + k)
    BY <1>3, <2>2 DEF Replies
  <2>4. i + k = j + k
    BY <1>3, <2>2, <2>3 DEF Roles
  <2>5. queue'[q] \in Seq(Note)
    BY DEF Shape
  <2> QED
    BY <2>4, <2>5
<1> QED
  BY <1>1, <1>2, <1>3 DEF Roles

Dark(h) == /\ h.mics \subseteq {h.cur} /\ h.mics \subseteq {h.stream}
           /\ h.st = "ringing" /\ h.inc # NoCall => h.cur = NoCall

Undisturbed == steady /\ NeverOvertaken /\ Lit

\* What every action is shown to do.
Kept == Shape' /\ Roles' /\ (Undisturbed /\ NeverOvertaken' => Lit')

\* The microphones: one client's hook at a time.
LEMMA LitStep ==
  ASSUME Shape, Lit, NEW p \in Clients, NEW h, Dark(h), me' = [me EXCEPT ![p] = h]
  PROVE  Lit'
  BY DEF Shape, HookTypeOK, Lit, Dark

LEMMA LitHook ==
  ASSUME Lit, NEW p \in Clients
  PROVE  Dark(me[p])
  BY DEF Lit, Dark

\* Every action that uses Go is an instance of this.
LEMMA GoKept ==
  ASSUME Shape, Roles, NEW p \in Clients, NEW h \in Hook, Whole(h),
         NEW from, FromQueue(p, from),
         NEW sent \in SUBSET Sent, NEW ends \in SUBSET Calls,
         Go(p, h, from, sent, ends),
         task' \in [Clients -> [Calls -> Task]],
         \A q \in Clients : Asking(q), h.inc = me[p].inc \/ Rung(p, h.inc),
         Undisturbed /\ NeverOvertaken' => Dark(h)
  PROVE  Kept
<1>1. /\ Shape' /\ Remembered /\ me' = [me EXCEPT ![p] = h]
      /\ \A q \in Clients : Advances(q)
  BY GoShape
<1>2. \A q \in Clients : Rung(q, me[q].inc)
  BY DEF Roles, Rung
<1>3. \A q \in Clients : Rung(q, me'[q].inc)
  BY <1>1, <1>2 DEF Shape, HookTypeOK
<1>4. Roles'
  BY <1>1, <1>3, RolesStep
<1>5. Undisturbed /\ NeverOvertaken' => Lit'
  BY <1>1, LitStep DEF Undisturbed
<1> QED
  BY <1>1, <1>4, <1>5 DEF Kept

\* What call() and accept() wait for is kept by a step that leaves them alone, or
\* closes their connections.
LEMMA TasksSame ==
  ASSUME Shape, UNCHANGED task
  PROVE  task' \in [Clients -> [Calls -> Task]] /\ \A q \in Clients : Asking(q)
  BY DEF Shape, HookTypeOK, Asking

LEMMA TasksStep ==
  ASSUME Shape, NEW p \in Clients, NEW T \in [Calls -> Task],
         task' = [task EXCEPT ![p] = T],
         \A c \in Calls : task[p][c].at = "asking" => T[c].at = "asking"
  PROVE  task' \in [Clients -> [Calls -> Task]] /\ \A q \in Clients : Asking(q)
<1>1. task \in [Clients -> [Calls -> Task]]
  BY DEF Shape, HookTypeOK
<1>2. task' \in [Clients -> [Calls -> Task]]
  BY <1>1
<1>3. ASSUME NEW q \in Clients, NEW c \in Calls
      PROVE  task[q][c].at = "asking" => task'[q][c].at = "asking"
  BY <1>1
<1> QED
  BY <1>2, <1>3 DEF Asking

LEMMA TasksClosed ==
  ASSUME Shape, NEW p \in Clients, CloseTasks(p)
  PROVE  task' \in [Clients -> [Calls -> Task]] /\ \A q \in Clients : Asking(q)
<1>1. task \in [Clients -> [Calls -> Task]]
  BY DEF Shape, HookTypeOK
<1> DEFINE T == [c \in Calls |-> IF Applies(p, c) THEN Done
                                   ELSE IF me[p].pc.call = c
                                     THEN [task[p][c] EXCEPT !.open = FALSE]
                                   ELSE task[p][c]]
<1>2. task' = [task EXCEPT ![p] = T]
  BY DEF CloseTasks
<1>3. ASSUME NEW c \in Calls
      PROVE  T[c] \in Task /\ (task[p][c].at = "asking" => T[c].at = "asking")
  <2>1. task[p][c] \in Task
    BY <1>1
  <2> QED
    BY <2>1 DEF Task, Applies, Done
<1> HIDE DEF T
<1>4. T \in [Calls -> Task]
  BY <1>3 DEF T
<1> QED
  BY <1>1, <1>2, <1>3, <1>4, TasksStep

\* accept() is through with the offer that was parked.
LEMMA TasksAnswered ==
  ASSUME Shape, NEW p \in Clients,
         task' = [task EXCEPT ![p] = [x \in Calls |-> IF Applies(p, x) THEN Done ELSE @[x]]]
  PROVE  task' \in [Clients -> [Calls -> Task]] /\ \A q \in Clients : Asking(q)
<1>1. task \in [Clients -> [Calls -> Task]]
  BY DEF Shape, HookTypeOK
<1> DEFINE T == [c \in Calls |-> IF Applies(p, c) THEN Done ELSE task[p][c]]
<1>2. task' = [task EXCEPT ![p] = T]
  OBVIOUS
<1>3. ASSUME NEW c \in Calls
      PROVE  T[c] \in Task /\ (task[p][c].at = "asking" => T[c].at = "asking")
  <2>1. task[p][c] \in Task
    BY <1>1
  <2> QED
    BY <2>1 DEF Task, Applies, Done
<1> HIDE DEF T
<1>4. T \in [Calls -> Task]
  BY <1>3 DEF T
<1> QED
  BY <1>1, <1>2, <1>3, <1>4, TasksStep

\* The function of one call goes on; if the client had asked for it, nothing more
\* will be said.
LEMMA TasksSet ==
  ASSUME Shape, NEW p \in Clients, NEW c \in Calls, NEW t \in Task, Set(p, c, t),
         \/ Caller[c] # p \/ task[p][c].at # "asking"
         \/ \A i \in DOMAIN queue'[p] :
              queue'[p][i].call = c => queue'[p][i].kind \notin {"started", "refused"}
  PROVE  /\ task' \in [Clients -> [Calls -> Task]] /\ \A q \in Clients : Asking(q)
         /\ task'[p][c] = t
<1>1. task \in [Clients -> [Calls -> Task]]
  BY DEF Shape, HookTypeOK
<1>2. task' = [task EXCEPT ![p] = [task[p] EXCEPT ![c] = t]]
  BY DEF Set
<1>3. [task[p] EXCEPT ![c] = t] \in [Calls -> Task]
  BY <1>1
<1>4. task' \in [Clients -> [Calls -> Task]]
  BY <1>1, <1>2, <1>3
<1>5. /\ task'[p][c] = t
      /\ \A q \in Clients, d \in Calls : q # p \/ d # c => task'[q][d] = task[q][d]
  BY <1>1, <1>2
<1> QED
  BY <1>4, <1>5 DEF Asking

\* The first event: its call, and what is left when it was the answer.
LEMMA Heading ==
  ASSUME Shape, Roles, NEW p \in Clients, NEW kind, Takes(p, kind)
  PROVE  LET e == Head(queue[p])
             r == Tail(queue[p])
         IN  /\ queue[p] # <<>> /\ e.call \in Calls /\ e.kind = kind
             /\ FromQueue(p, Rest(p)) /\ Rest(p)[p] = r
             /\ kind \in {"incoming", "started", "joined", "refused"} =>
                  line[e.call] # "none"
             /\ kind = "started" => Caller[e.call] = p
             /\ kind \in {"joined", "incoming"} => Caller[e.call] # p
             /\ kind \in {"started", "refused"} /\ Caller[e.call] = p =>
                  /\ task[p][e.call].at = "asking"
                  /\ \A i \in DOMAIN r :
                       r[i].call = e.call => r[i].kind \notin {"started", "refused"}
<1>1. /\ queue[p] # <<>> /\ Head(queue[p]).kind = kind
      /\ queue[p] \in Seq(Note) /\ Head(queue[p]) = queue[p][1]
      /\ 1 \in DOMAIN queue[p] /\ Rest(p)[p] = Tail(queue[p])
  BY HookShape DEF Takes, Shape
<1>2. Head(queue[p]).call \in Calls
  BY <1>1, HookShape DEF Note
<1>3. LET e == queue[p][1]
      IN  /\ e.kind = "started" => Caller[e.call] = p
          /\ e.kind \in {"joined", "incoming"} => Caller[e.call] # p
          /\ e.kind \in {"incoming", "started", "joined", "refused"} => line[e.call] # "none"
          /\ Replies(p, 1) => task[p][e.call].at = "asking"
  BY <1>1 DEF Roles
<1>4. kind \in {"started", "refused"} /\ Caller[queue[p][1].call] = p => Replies(p, 1)
  BY <1>1 DEF Replies
<1>5. ASSUME kind \in {"started", "refused"}, Caller[queue[p][1].call] = p,
             NEW i \in DOMAIN Tail(queue[p]),
             Tail(queue[p])[i].call = queue[p][1].call,
             Tail(queue[p])[i].kind \in {"started", "refused"}
      PROVE  FALSE
  <2>1. i + 1 \in DOMAIN queue[p] /\ Tail(queue[p])[i] = queue[p][i + 1] /\ i \in Nat \ {0}
    BY <1>1
  <2>2. Replies(p, 1) /\ Replies(p, i + 1)
    BY <1>4, <1>5, <2>1 DEF Replies
  <2>3. 1 = i + 1
    BY <1>1, <1>5, <2>1, <2>2 DEF Roles
  <2> QED
    BY <2>1, <2>3
<1> QED
  BY <1>1, <1>2, <1>3, <1>4, <1>5 DEF FromQueue

-----------------------------------------------------------------------------
(* The user.                                                               *)

\* call() asks the server, which rings the other side or refuses: the one action
\* that adds an answer to the caller's queue.
LEMMA CallKept ==
  ASSUME Shape, Roles, NEW p \in Clients, NEW c \in Calls, Call(p, c)
  PROVE  Kept
<1> DEFINE h == [me[p] EXCEPT !.st = "calling", !.polite = FALSE]
           rang == queue' = Post(Post(queue, Other(p), Told("incoming", c)),
                                 p, Told("started", c))
           not  == queue' = Post(queue, p, Told("refused", c))
<1>1. /\ Other(p) \in Clients /\ Other(p) # p
      /\ \A q \in Clients : q = p \/ q = Other(p)
      /\ Caller[c] = p
  <2>1. \A q \in Clients : q = p \/ q = Other(p)
    BY TwoEnds, OtherEnd
  <2> QED
    BY <2>1, OtherEnd DEF Call
<1>2. /\ h \in Hook /\ Whole(h) /\ me' = [me EXCEPT ![p] = h]
      /\ \A q \in Clients : me'[q].inc = me[q].inc
      /\ h.cur = me[p].cur /\ h.mics = me[p].mics /\ h.stream = me[p].stream
      /\ h.st # "ringing"
  <2>1. /\ h \in Hook /\ Whole(h) /\ h.cur = me[p].cur /\ h.mics = me[p].mics
        /\ h.stream = me[p].stream /\ h.st # "ringing" /\ h.inc = me[p].inc
    <3>1. me[p] \in Hook /\ Whole(me[p])
      BY HookShape
    <3>2. h \in Hook /\ h.pc = me[p].pc
      BY <3>1 DEF Hook, States
    <3> QED
      BY <3>1, <3>2 DEF Hook, Whole
  <2>2. me' = [me EXCEPT ![p] = h]
    BY DEF Call
  <2> HIDE DEF h
  <2> QED
    BY <2>1, <2>2 DEF Shape, HookTypeOK
<1>3. /\ \A k \in {"incoming", "started", "refused"} :
            Told(k, c) \in Note /\ Told(k, c).kind = k /\ Told(k, c).call = c
  BY DEF Told, Note
<1>4. /\ queue \in [Clients -> Seq(Note)] /\ queue' \in [Clients -> Seq(Note)]
      /\ rang \/ not
  <2>1. queue \in [Clients -> Seq(Note)]
    BY DEF Shape
  <2>2. CASE rang
    <3> DEFINE f == [queue EXCEPT ![Other(p)] =
                       Append(queue[Other(p)], Told("incoming", c))]
    <3>1. f \in [Clients -> Seq(Note)]
      BY <1>1, <1>3, <2>1
    <3>2. queue' = [f EXCEPT ![p] = Append(f[p], Told("started", c))]
      BY <2>2 DEF Post
    <3> HIDE DEF f
    <3> QED
      <4>1. f[p] \in Seq(Note)
        BY <3>1
      <4>2. Append(f[p], Told("started", c)) \in Seq(Note)
        BY <1>3, <4>1
      <4>3. queue' \in [Clients -> Seq(Note)]
        BY <3>1, <3>2, <4>2
      <4> QED
        BY <2>1, <2>2, <4>3
  <2>3. CASE not
    BY <1>3, <2>1, <2>3 DEF Post
  <2> QED
    BY <2>1, <2>2, <2>3 DEF Call
<1>5. /\ line' \in [Calls -> Row] /\ line[c] = "none"
      /\ line'[c] # "none" /\ Remembered
  <2>1. line \in [Calls -> Row] /\ line[c] = "none"
    BY DEF Call, Shape, HookTypeOK
  <2>2. PICK s \in {"ringing", "expired"} : line' = [line EXCEPT ![c] = s]
    BY DEF Call
  <2> QED
    BY <2>1, <2>2 DEF Row, Remembered
<1>6. /\ task' \in [Clients -> [Calls -> Task]] /\ task'[p][c].at = "asking"
      /\ \A q \in Clients, d \in Calls : q # p \/ d # c => task'[q][d] = task[q][d]
  <2>1. task \in [Clients -> [Calls -> Task]]
        /\ [at |-> "asking", open |-> FALSE] \in Task
    BY DEF Shape, HookTypeOK, Task
  <2> QED
    BY <2>1 DEF Call, Set
<1> HIDE DEF h
<1>7. Shape'
  <2>1. wire' \subseteq Sent /\ Extras
    BY DEF Call, Shape, HookTypeOK, Extras
  <2> QED
    BY <1>2, <1>4, <1>5, <1>6, <2>1, ShapeStep
<1>8. ASSUME NEW q \in Clients, NEW i \in DOMAIN queue'[q]
      PROVE  \/ i \in DOMAIN queue[q] /\ queue'[q][i] = queue[q][i]
             \/ /\ i = Len(queue[q]) + 1
                /\ queue'[q][i].call = c
                /\ IF q = p THEN queue'[q][i].kind \in {"started", "refused"}
                            ELSE queue'[q][i].kind = "incoming"
  <2>1. CASE rang
    <3>1. /\ queue'[p] = Append(queue[p], Told("started", c))
          /\ queue'[Other(p)] = Append(queue[Other(p)], Told("incoming", c))
      BY <1>1, <1>4, <2>1 DEF Post
    <3>2. queue[q] \in Seq(Note)
      BY <1>4
    <3>3. CASE q = p
      <4>1. queue'[q] = Append(queue[q], Told("started", c))
        BY <3>1, <3>3
      <4> QED
        BY <1>3, <3>2, <3>3, <4>1
    <3>4. CASE q # p
      <4>1. queue'[q] = Append(queue[q], Told("incoming", c))
        BY <1>1, <3>1, <3>4
      <4> QED
        BY <1>3, <3>2, <3>4, <4>1
    <3> QED
      BY <3>3, <3>4
  <2>2. CASE not
    <3>1. /\ queue'[p] = Append(queue[p], Told("refused", c))
          /\ \A r \in Clients : r # p => queue'[r] = queue[r]
      BY <1>4, <2>2 DEF Post
    <3>2. CASE q = p
      BY <1>3, <1>4, <3>1, <3>2
    <3>3. CASE q # p
      BY <3>1, <3>3
    <3> QED
      BY <3>2, <3>3
  <2> QED
    BY <1>4, <2>1, <2>2
<1>9. \* nobody has been told of c
      \A q \in Clients : \A i \in DOMAIN queue[q] :
        queue[q][i].kind \in {"incoming", "started", "joined", "refused"} => queue[q][i].call # c
  BY <1>5 DEF Roles
<1>10. Roles'
  <2>1. ASSUME NEW q \in Clients
        PROVE  me'[q].inc # NoCall => /\ Caller[me'[q].inc] # q
                                    /\ line'[me'[q].inc] # "none"
    <3>1. me[q].inc \in Calls \cup {NoCall} /\ me'[q].inc = me[q].inc
      BY <1>2 DEF Shape, HookTypeOK, Hook
    <3> QED
      BY <1>5, <3>1 DEF Roles, Remembered
  <2>2. ASSUME NEW q \in Clients, NEW i \in DOMAIN queue'[q]
        PROVE  LET e == queue'[q][i]
               IN  /\ e.kind = "started" => Caller[e.call] = q
                   /\ e.kind \in {"joined", "incoming"} => Caller[e.call] # q
                   /\ e.kind \in {"incoming", "started", "joined", "refused"} =>
                        line'[e.call] # "none"
                   /\ Replies(q, i)' => task'[q][e.call].at = "asking"
    <3>1. CASE i \in DOMAIN queue[q] /\ queue'[q][i] = queue[q][i]
      <4>1. LET e == queue[q][i]
            IN  /\ e.kind = "started" => Caller[e.call] = q
                /\ e.kind \in {"joined", "incoming"} => Caller[e.call] # q
                /\ e.kind \in {"incoming", "started", "joined", "refused"} =>
                     line[e.call] # "none"
                /\ Replies(q, i) => task[q][e.call].at = "asking"
        BY <3>1 DEF Roles
      <4>2. queue[q][i].call \in Calls
        BY <3>1 DEF Shape, HookTypeOK
      <4>3. Replies(q, i)' => Replies(q, i) /\ queue[q][i].call # c
        BY <1>9, <3>1 DEF Replies
      <4> QED
        BY <1>5, <1>6, <3>1, <4>1, <4>2, <4>3 DEF Remembered
    <3>2. CASE /\ i = Len(queue[q]) + 1
               /\ queue'[q][i].call = c
               /\ IF q = p THEN queue'[q][i].kind \in {"started", "refused"}
                           ELSE queue'[q][i].kind = "incoming"
      BY <1>1, <1>5, <1>6, <3>2 DEF Replies
    <3> QED
      BY <1>8, <3>1, <3>2
  <2>3. ASSUME NEW q \in Clients,
               NEW i \in DOMAIN queue'[q], NEW j \in DOMAIN queue'[q],
               Replies(q, i)', Replies(q, j)', queue'[q][i].call = queue'[q][j].call
        PROVE  i = j
    <3>1. \A l \in {i, j} :
            \/ l \in DOMAIN queue[q] /\ queue'[q][l] = queue[q][l]
               /\ Replies(q, l) /\ queue'[q][l].call # c
            \/ l = Len(queue[q]) + 1 /\ queue'[q][l].call = c
      BY <1>8, <1>9, <2>3 DEF Replies
    <3>2. CASE queue'[q][i].call = c
      BY <2>3, <3>1, <3>2
    <3>3. CASE queue'[q][i].call # c
      <4>1. /\ i \in DOMAIN queue[q] /\ Replies(q, i) /\ queue'[q][i] = queue[q][i]
            /\ j \in DOMAIN queue[q] /\ Replies(q, j) /\ queue'[q][j] = queue[q][j]
        BY <2>3, <3>1, <3>3
      <4> QED
        BY <2>3, <4>1 DEF Roles
    <3> QED
      BY <3>2, <3>3
  <2> QED
    BY <2>1, <2>2, <2>3 DEF Roles
<1>11. ASSUME Undisturbed PROVE Lit'
  <2>1. Dark(h)
    BY <1>2, <1>11, LitHook DEF Undisturbed, Dark
  <2> QED
    BY <1>2, <1>11, <2>1, LitStep DEF Undisturbed
<1> QED
  BY <1>7, <1>10, <1>11 DEF Kept

\* accept(): `currentCall` is set before the ack.
LEMMA AcceptKept ==
  ASSUME Shape, Roles, NEW p \in Clients, Accept(p)
  PROVE  Kept
<1> DEFINE c == me[p].inc
           h == [me[p] EXCEPT !.cur = c, !.st = "connecting", !.polite = TRUE]
           joins == queue' = Post(Post(queue, Other(p), Told("accepted", c)),
                                  p, Told("joined", c))
           not   == queue' = Post(queue, p, Told("refused", c))
<1>1. /\ Other(p) \in Clients /\ Other(p) # p
      /\ me[p] \in Hook /\ Whole(me[p]) /\ me[p].st = "ringing"
      /\ c \in Calls /\ c # NoCall /\ Caller[c] # p /\ line[c] # "none"
  <2>1. me[p] \in Hook /\ c # NoCall /\ me[p].st = "ringing"
    BY HookShape DEF Accept
  <2>2. c \in Calls /\ Caller[c] # p /\ line[c] # "none"
    BY <2>1 DEF Hook, Roles
  <2> QED
    BY <2>1, <2>2, OtherEnd, HookShape
<1> HIDE DEF c
<1>2. /\ h \in Hook /\ Whole(h) /\ me' = [me EXCEPT ![p] = h]
      /\ h.inc = c /\ h.cur = c /\ h.mics = me[p].mics /\ h.stream = me[p].stream
      /\ h.st # "ringing"
  <2>1. h \in Hook /\ h.pc = me[p].pc
    BY <1>1 DEF Hook, States, c
  <2>2. /\ h.inc = c /\ h.cur = c /\ h.mics = me[p].mics
        /\ h.stream = me[p].stream /\ h.st # "ringing"
    BY <1>1 DEF Hook, c
  <2>3. me' = [me EXCEPT ![p] = h]
    BY DEF Accept, c
  <2> QED
    BY <1>1, <2>1, <2>2, <2>3 DEF Whole
<1> HIDE DEF h
<1>3. \A k \in {"accepted", "joined", "refused"} :
        Told(k, c) \in Note /\ Told(k, c).kind = k /\ Told(k, c).call = c
  BY <1>1 DEF Told, Note
<1>4. /\ queue \in [Clients -> Seq(Note)]
      /\ joins \/ not
  BY DEF Accept, Shape, c
<1>5. queue' \in [Clients -> Seq(Note)]
      /\ \A q \in Clients : Advances(q)
  <2>1. CASE not
    <3>1. queue' = [queue EXCEPT ![p] = Append(queue[p], Told("refused", c))]
      BY <2>1 DEF Post
    <3>2. queue[p] \in Seq(Note) /\ Append(queue[p], Told("refused", c)) \in Seq(Note)
      BY <1>3, <1>4
    <3>3. queue' \in [Clients -> Seq(Note)]
      BY <1>4, <3>1, <3>2
    <3>4. ASSUME NEW q \in Clients, NEW i \in DOMAIN queue'[q]
          PROVE  \/ Quiet(q, queue'[q][i])
                 \/ i + 0 \in DOMAIN queue[q] /\ queue'[q][i] = queue[q][i + 0]
      <4>1. CASE q = p
        <5>1. queue'[q] = Append(queue[p], Told("refused", c))
          BY <1>4, <3>1, <4>1
        <5>2. Quiet(q, Told("refused", c))
          BY <1>1, <1>3, <4>1 DEF Quiet
        <5> QED
          BY <3>2, <4>1, <5>1, <5>2
      <4>2. CASE q # p
        BY <1>4, <3>1, <4>2
      <4> QED
        BY <4>1, <4>2
    <3> QED
      BY <3>3, <3>4 DEF Advances
  <2>2. CASE joins
    <3> DEFINE f == [queue EXCEPT ![Other(p)] =
                       Append(queue[Other(p)], Told("accepted", c))]
    <3>1. f \in [Clients -> Seq(Note)] /\ f[p] = queue[p]
      BY <1>1, <1>3, <1>4
    <3>2. queue' = [f EXCEPT ![p] = Append(f[p], Told("joined", c))]
      BY <2>2 DEF Post
    <3>3. /\ queue[p] \in Seq(Note) /\ Append(queue[p], Told("joined", c)) \in Seq(Note)
          /\ queue[Other(p)] \in Seq(Note)
      BY <1>1, <1>3, <1>4
    <3>4. /\ queue' \in [Clients -> Seq(Note)]
          /\ queue'[p] = Append(queue[p], Told("joined", c))
          /\ queue'[Other(p)] = Append(queue[Other(p)], Told("accepted", c))
          /\ \A q \in Clients : q # p /\ q # Other(p) => queue'[q] = queue[q]
      BY <1>1, <1>4, <3>1, <3>2, <3>3
    <3> HIDE DEF f
    <3>5. ASSUME NEW q \in Clients, NEW i \in DOMAIN queue'[q]
          PROVE  \/ Quiet(q, queue'[q][i])
                 \/ i + 0 \in DOMAIN queue[q] /\ queue'[q][i] = queue[q][i + 0]
      <4>1. CASE q = p
        <5>1. Quiet(q, Told("joined", c))
          BY <1>1, <1>3, <4>1 DEF Quiet
        <5>2. queue'[q] = Append(queue[q], Told("joined", c)) /\ queue[q] \in Seq(Note)
          BY <3>3, <3>4, <4>1
        <5> QED
          BY <5>1, <5>2
      <4>2. CASE q = Other(p)
        <5>1. Quiet(q, Told("accepted", c))
          BY <1>3 DEF Quiet
        <5>2. queue'[q] = Append(queue[q], Told("accepted", c)) /\ queue[q] \in Seq(Note)
          BY <3>3, <3>4, <4>2
        <5> QED
          BY <5>1, <5>2
      <4>3. CASE q # p /\ q # Other(p)
        <5>1. queue'[q] = queue[q] /\ queue[q] \in Seq(Note)
          BY <1>4, <3>4, <4>3
        <5> QED
          BY <5>1
      <4> QED
        BY <4>1, <4>2, <4>3
    <3> QED
      BY <3>4, <3>5 DEF Advances
  <2> QED
    BY <1>4, <2>1, <2>2
<1>6. line' \in [Calls -> Row] /\ Remembered
  <2>1. line \in [Calls -> Row]
    BY DEF Shape, HookTypeOK
  <2>2. line' = [line EXCEPT ![c] = "active"] \/ line' = line
    BY DEF Accept, c
  <2> QED
    BY <1>1, <2>1, <2>2 DEF Row, Remembered
<1>7. task' \in [Clients -> [Calls -> Task]] /\ \A q \in Clients : Asking(q)
  <2>1. Set(p, c, [at |-> "joining", open |-> FALSE])
    BY DEF Accept, c
  <2>2. [at |-> "joining", open |-> FALSE] \in Task
    BY DEF Task
  <2> QED
    BY <1>1, <2>1, <2>2, TasksSet
<1>8. Shape'
  <2>1. wire' \subseteq Sent /\ Extras
    BY DEF Accept, Shape, HookTypeOK, Extras
  <2> QED
    BY <1>2, <1>5, <1>6, <1>7, <2>1, ShapeStep
<1>9. Roles'
  <2>1. ASSUME NEW q \in Clients PROVE Rung(q, me'[q].inc)
    <3>1. me'[q].inc = me[q].inc
      BY <1>2 DEF Shape, HookTypeOK, c
    <3> QED
      BY <3>1 DEF Roles, Rung
  <2> QED
    BY <1>5, <1>6, <1>7, <1>8, <2>1, RolesStep
<1>10. ASSUME Undisturbed PROVE Lit'
  <2>1. me[p].mics = {}
    <3>1. me[p].cur = NoCall /\ me[p].mics \subseteq {NoCall} /\ me[p].mics \subseteq Calls
      BY <1>1, <1>10 DEF Undisturbed, Lit, Hook, c
    <3> QED
      BY <3>1, NoCallIsFresh
  <2>2. Dark(h)
    BY <1>2, <2>1 DEF Dark
  <2> QED
    BY <1>2, <1>10, <2>2, LitStep DEF Undisturbed
<1> QED
  BY <1>8, <1>9, <1>10 DEF Kept

\* A hook that differs in nothing the microphone depends on.
Alike(h, g) == /\ h.mics = g.mics /\ h.cur = g.cur /\ h.stream = g.stream
               /\ h.inc \in {g.inc, NoCall} /\ h.st \in {g.st} \cup (States \ {"ringing"})

\* A step that changes nothing the microphone depends on.
LEMMA AlikeKept ==
  ASSUME Shape, Roles, NEW p \in Clients, NEW h \in Hook, Whole(h), Alike(h, me[p]),
         NEW from, FromQueue(p, from),
         NEW sent \in SUBSET Sent, NEW ends \in SUBSET Calls,
         Go(p, h, from, sent, ends),
         task' \in [Clients -> [Calls -> Task]], \A q \in Clients : Asking(q)
  PROVE  Kept
<1>1. h.inc = me[p].inc \/ Rung(p, h.inc)
  BY DEF Alike, Rung
<1>2. ASSUME Lit PROVE Dark(h)
  BY <1>2, LitHook DEF Alike, Dark
<1> QED
  BY <1>1, <1>2, GoKept DEF Undisturbed

\* decline(), hangUp() with its cleanup(), and the timer back to 'idle'.
LEMMA DeclineKept ==
  ASSUME Shape, Roles, NEW p \in Clients, Decline(p)
  PROVE  Kept
<1> DEFINE h == [me[p] EXCEPT !.inc = NoCall]
<1>1. /\ me[p] \in Hook /\ Whole(me[p]) /\ me[p].inc \in Calls
  BY HookShape DEF Decline, Hook
<1>2. h \in Hook /\ h.pc = me[p].pc /\ Alike(h, me[p])
  BY <1>1 DEF Hook, Alike
<1>3. Whole(h)
  BY <1>1, <1>2 DEF Whole
<1>4. Go(p, h, queue, {}, {me[p].inc}) /\ UNCHANGED task
  BY DEF Decline
<1> HIDE DEF h
<1> QED
  BY <1>1, <1>2, <1>3, <1>4, TasksSame, AlikeKept DEF FromQueue

\* cleanup() and what follows it.
LEMMA CleanupDark ==
  ASSUME Shape, Lit, NEW p \in Clients, NEW h \in Hook, h.cur = NoCall,
         h.mics = me[p].mics \ {me[p].stream}
  PROVE  Dark(h)
<1>1. h.mics = {}
  BY DEF Lit
<1> QED
  BY <1>1 DEF Dark

LEMMA HangUpKept ==
  ASSUME Shape, Roles, NEW p \in Clients, HangUp(p)
  PROVE  Kept
<1> DEFINE g == Cleanup(me[p])
           h == [g EXCEPT !.st = "ended", !.idles = @ + 1]
<1>1. /\ me[p] \in Hook /\ g \in Hook /\ Whole(g)
      /\ g.cur = NoCall /\ g.inc = me[p].inc /\ g.mics = me[p].mics \ {me[p].stream}
  BY HookShape, CleanupType
<1>2. Go(p, h, queue, {}, {me[p].cur} \ {NoCall}) /\ CloseTasks(p)
  BY DEF HangUp
<1> HIDE DEF g
<1>3. h \in Hook /\ h.pc = g.pc /\ h.cur = NoCall /\ h.inc = me[p].inc
      /\ h.mics = me[p].mics \ {me[p].stream}
  <2>1. g.idles \in Nat /\ g.idles + 1 \in Nat
    BY <1>1 DEF Hook
  <2>2. h = [[g EXCEPT !.st = "ended"] EXCEPT !.idles = g.idles + 1]
    BY <1>1 DEF Hook
  <2> HIDE DEF h
  <2> QED
    BY <1>1, <2>1, <2>2, ZenonT(60) DEF Hook, States
<1>4. Whole(h)
  BY <1>1, <1>3 DEF Whole
<1>5. {me[p].cur} \ {NoCall} \in SUBSET Calls
  BY <1>1 DEF Hook
<1> HIDE DEF h
<1> QED
  BY <1>2, <1>3, <1>4, <1>5, TasksClosed, CleanupDark, GoKept DEF FromQueue, Undisturbed

LEMMA IdleTimerKept ==
  ASSUME Shape, Roles, NEW p \in Clients, IdleTimer(p)
  PROVE  Kept
<1> DEFINE h == [me[p] EXCEPT !.st = "idle", !.idles = @ - 1]
<1>1. me[p] \in Hook /\ Whole(me[p]) /\ me[p].idles > 0 /\ me[p].idles \in Nat
  BY HookShape DEF IdleTimer, Hook
<1>2. h \in Hook /\ h.pc = me[p].pc /\ Alike(h, me[p])
  <2>1. me[p].idles - 1 \in Nat
    BY <1>1
  <2>2. h = [[me[p] EXCEPT !.st = "idle"] EXCEPT !.idles = me[p].idles - 1]
    BY <1>1 DEF Hook
  <2> HIDE DEF h
  <2> QED
    BY <1>1, <2>1, <2>2 DEF Hook, Alike, States
<1>3. Whole(h)
  BY <1>1, <1>2 DEF Whole
<1>4. Go(p, h, queue, {}, {}) /\ UNCHANGED task
  BY DEF IdleTimer, Turn
<1> HIDE DEF h
<1> QED
  BY <1>1, <1>2, <1>3, <1>4, TasksSame, AlikeKept DEF FromQueue

-----------------------------------------------------------------------------
(* call() and accept() after their awaits.                                 *)

\* The acks of call:start and call:accept, and a refusal.
LEMMA StartedKept ==
  ASSUME Shape, Roles, NEW p \in Clients, Started(p)
  PROVE  Kept
<1> DEFINE c == Head(queue[p]).call
           h == [me[p] EXCEPT !.cur = c, !.may = TRUE, !.pc = NewPeer(c)]
<1>1. /\ c \in Calls /\ Caller[c] = p /\ FromQueue(p, Rest(p))
      /\ Rest(p)[p] = Tail(queue[p]) /\ task[p][c].at = "asking"
      /\ \A i \in DOMAIN Tail(queue[p]) :
           Tail(queue[p])[i].call = c =>
             Tail(queue[p])[i].kind \notin {"started", "refused"}
  BY Heading DEF Started
<1>2. Go(p, h, Rest(p), {}, {}) /\ Set(p, c, [at |-> "calling", open |-> TRUE])
  BY DEF Started, Arrived
<1> HIDE DEF c
<1>3. me[p] \in Hook
  BY HookShape
<1>4. /\ h \in Hook /\ h.pc = NewPeer(c) /\ h.cur = c /\ h.inc = me[p].inc
      /\ h.mics = me[p].mics
  BY <1>1, <1>3, NewPeerType DEF Hook
<1>5. Whole(h)
  BY <1>1, <1>4, NewPeerType, NoCallIsFresh DEF Whole
<1> HIDE DEF h
<1>6. queue' = Rest(p)
  BY <1>2 DEF Go
<1>7. task' \in [Clients -> [Calls -> Task]] /\ \A q \in Clients : Asking(q)
  <2>1. [at |-> "calling", open |-> TRUE] \in Task
    BY DEF Task
  <2>2. \A i \in DOMAIN queue'[p] :
          queue'[p][i].call = c => queue'[p][i].kind \notin {"started", "refused"}
    BY <1>1, <1>6
  <2>3. Set(p, c, [at |-> "calling", open |-> TRUE])
    BY <1>2
  <2> QED
    BY <1>1, <2>1, <2>2, <2>3, TasksSet
<1>8. ASSUME Undisturbed PROVE Dark(h)
  <2>1. me[p].cur = NoCall /\ me[p].inc = NoCall
    BY <1>1, <1>8 DEF Undisturbed, NeverOvertaken, Overtaken
  <2>2. me[p].mics \subseteq {NoCall} /\ me[p].mics \subseteq Calls
    BY <1>3, <1>8, <2>1 DEF Undisturbed, Lit, Hook
  <2>3. h.mics = {}
    BY <1>4, <2>2, NoCallIsFresh
  <2> QED
    BY <1>4, <2>1, <2>3 DEF Dark
<1> QED
  BY <1>1, <1>2, <1>4, <1>5, <1>7, <1>8, GoKept

LEMMA JoinedKept ==
  ASSUME Shape, Roles, NEW p \in Clients, Joined(p)
  PROVE  Kept
<1> DEFINE c == Head(queue[p]).call
           h == [me[p] EXCEPT !.may = FALSE, !.pc = NewPeer(c)]
<1>1. c \in Calls /\ Caller[c] # p /\ FromQueue(p, Rest(p))
  BY Heading DEF Joined
<1>2. Go(p, h, Rest(p), {}, {}) /\ Set(p, c, [at |-> "answering", open |-> TRUE])
  BY DEF Joined, Arrived
<1> HIDE DEF c
<1>3. me[p] \in Hook
  BY HookShape
<1>4. h \in Hook /\ h.pc = NewPeer(c) /\ Alike(h, me[p])
  BY <1>1, <1>3, NewPeerType DEF Hook, Alike
<1>5. Whole(h)
  BY <1>1, <1>4, NewPeerType, NoCallIsFresh DEF Whole
<1> HIDE DEF h
<1>6. task' \in [Clients -> [Calls -> Task]] /\ \A q \in Clients : Asking(q)
  <2>1. [at |-> "answering", open |-> TRUE] \in Task
    BY DEF Task
  <2> QED
    BY <1>1, <1>2, <2>1, TasksSet
<1> QED
  BY <1>1, <1>2, <1>4, <1>5, <1>6, AlikeKept

LEMMA RefusedKept ==
  ASSUME Shape, Roles, NEW p \in Clients, Refused(p)
  PROVE  Kept
<1> DEFINE c == Head(queue[p]).call
           h == [me[p] EXCEPT !.st = "failed",
                              !.inc = IF Caller[c] = p THEN @ ELSE NoCall]
<1>1. /\ c \in Calls /\ FromQueue(p, Rest(p)) /\ Rest(p)[p] = Tail(queue[p])
      /\ Caller[c] = p => \A i \in DOMAIN Tail(queue[p]) :
                            Tail(queue[p])[i].call = c =>
                              Tail(queue[p])[i].kind \notin {"started", "refused"}
  BY Heading DEF Refused
<1>2. Go(p, h, Rest(p), {}, {}) /\ Set(p, c, Done)
  BY DEF Refused, Arrived
<1> HIDE DEF c
<1>3. me[p] \in Hook /\ Whole(me[p])
  BY HookShape
<1>4. h \in Hook /\ h.pc = me[p].pc /\ Alike(h, me[p])
  BY <1>3 DEF Hook, Alike, States
<1>5. Whole(h)
  BY <1>3, <1>4 DEF Whole
<1> HIDE DEF h
<1>6. queue' = Rest(p)
  BY <1>2 DEF Go
<1>7. task' \in [Clients -> [Calls -> Task]] /\ \A q \in Clients : Asking(q)
  <2>1. Done \in Task
    BY DEF Done, Task
  <2> QED
    BY <1>1, <1>2, <1>6, <2>1, TasksSet
<1> QED
  BY <1>1, <1>2, <1>4, <1>5, <1>7, AlikeKept

\* A function past its await is no question.
LEMMA Finished ==
  ASSUME Shape, NEW p \in Clients, NEW c \in Calls, Set(p, c, Done),
         task[p][c].at # "asking"
  PROVE  task' \in [Clients -> [Calls -> Task]] /\ \A q \in Clients : Asking(q)
<1>1. Done \in Task
  BY DEF Done, Task
<1> QED
  BY <1>1, TasksSet

\* The microphone of the call a client is in, when its function has not been overtaken.
LEMMA GrantedDark ==
  ASSUME Shape, Lit, NEW p \in Clients, NEW c \in Calls, me[p].cur = c,
         NEW h \in Hook, h.mics = me[p].mics \cup {c}, h.cur = me[p].cur,
         h.stream = c, h.inc \in {me[p].inc, NoCall}, h.st = me[p].st
  PROVE  Dark(h)
<1>1. Dark(me[p])
  BY LitHook
<1> QED
  BY <1>1 DEF Dark

\* The answer to the microphone prompt, when call() or accept() has not been overtaken
\* while it was open: the one step that turns a microphone on.
LEMMA CallMediaKept ==
  ASSUME Shape, Roles, NEW p \in Clients, NEW c \in Calls, CallMedia(p, c)
  PROVE  Kept
<1> DEFINE h == Granted(me[p], c)
<1>1. task[p][c].at = "calling"
  BY DEF CallMedia
<1>2. Go(p, h, queue, {}, {}) /\ Set(p, c, Done)
  BY DEF CallMedia, Turn
<1>3. /\ h \in Hook /\ Whole(h) /\ h.cur = me[p].cur /\ h.inc = me[p].inc
      /\ h.st = me[p].st /\ h.mics = me[p].mics \cup {c} /\ h.stream = c
  BY HookShape, GrantedType
<1> HIDE DEF h
<1>4. ASSUME Undisturbed PROVE Dark(h)
  <2>1. me[p].cur = c
    BY <1>1, <1>4 DEF Undisturbed, NeverOvertaken, Overtaken
  <2> QED
    BY <1>3, <1>4, <2>1, GrantedDark DEF Undisturbed
<1> QED
  BY <1>1, <1>2, <1>3, <1>4, Finished, GoKept DEF FromQueue

LEMMA AnswerMediaKept ==
  ASSUME Shape, Roles, NEW p \in Clients, NEW c \in Calls, AnswerMedia(p, c)
  PROVE  Kept
<1> DEFINE g == Granted(me[p], c)
           f == IF g.pc.remote THEN Flush(g) ELSE g
           h == [f EXCEPT !.inc = NoCall]
           k == [g EXCEPT !.pc.desc = g.offer, !.pc.by = c, !.offer = NoCall]
           like(x) == /\ x \in Hook /\ Whole(x) /\ x.cur = me[p].cur
                      /\ x.inc \in {me[p].inc, NoCall} /\ x.st = me[p].st
                      /\ x.mics = me[p].mics \cup {c} /\ x.stream = c
<1>1. task[p][c].at = "answering"
  BY DEF AnswerMedia
<1>2. like(g) /\ g.offer \in SDP \cup {NoCall} /\ g.pc \in Peer
  <2>1. like(g)
    BY HookShape, GrantedType
  <2> QED
    BY <2>1 DEF Hook
<1>3. \/ Go(p, h, queue, {}, {}) /\ Set(p, c, Done)
      \/ /\ g.offer # NoCall /\ g.pc.call # NoCall
         /\ Go(p, k, queue, {}, {}) /\ Set(p, c, [at |-> "applying", open |-> TRUE])
  BY DEF AnswerMedia, Turn
<1> HIDE DEF g
<1>4. ASSUME NEW x, like(x), Go(p, x, queue, {}, {}),
             task' \in [Clients -> [Calls -> Task]], \A q \in Clients : Asking(q)
      PROVE  Kept
  <2>1. ASSUME Undisturbed PROVE Dark(x)
    <3>1. me[p].cur = c
      BY <1>1, <2>1 DEF Undisturbed, NeverOvertaken, Overtaken
    <3> QED
      BY <1>4, <2>1, <3>1, GrantedDark DEF Undisturbed
  <2>2. x.inc = me[p].inc \/ Rung(p, x.inc)
    BY <1>4 DEF Rung
  <2> QED
    BY <1>4, <2>1, <2>2, GoKept DEF FromQueue
<1>5. CASE Go(p, h, queue, {}, {}) /\ Set(p, c, Done)
  <2>1. like(f)
    BY <1>2, FlushType
  <2> HIDE DEF f
  <2>2. h \in Hook /\ h.pc = f.pc /\ h.inc = NoCall
    BY <2>1 DEF Hook
  <2>3. /\ h.cur = me[p].cur /\ h.st = me[p].st
        /\ h.mics = me[p].mics \cup {c} /\ h.stream = c
    BY <2>1 DEF Hook
  <2>4. Whole(h)
    BY <2>1, <2>2 DEF Whole
  <2> HIDE DEF h
  <2>5. task' \in [Clients -> [Calls -> Task]] /\ \A q \in Clients : Asking(q)
    BY <1>1, <1>5, Finished
  <2> QED
    BY <1>4, <1>5, <2>2, <2>3, <2>4, <2>5
<1>6. CASE /\ g.offer # NoCall /\ g.pc.call # NoCall
           /\ Go(p, k, queue, {}, {}) /\ Set(p, c, [at |-> "applying", open |-> TRUE])
  <2> DEFINE n == [g.pc EXCEPT !.desc = g.offer, !.by = c]
  <2>1. n \in Peer /\ n.call = g.pc.call
    BY <1>2, <1>6 DEF Peer
  <2>2. k = [[g EXCEPT !.offer = NoCall] EXCEPT !.pc = n]
    BY <1>2 DEF Hook, Peer
  <2> HIDE DEF k
  <2>3. k \in Hook /\ k.pc = n
    BY <1>2, <2>1, <2>2 DEF Hook
  <2>4. /\ k.cur = me[p].cur /\ k.st = me[p].st /\ k.inc = g.inc
        /\ k.mics = me[p].mics \cup {c} /\ k.stream = c
    BY <1>2, <2>2 DEF Hook
  <2>5. like(k)
    BY <1>2, <1>6, <2>1, <2>3, <2>4 DEF Whole
  <2>6. task' \in [Clients -> [Calls -> Task]] /\ \A q \in Clients : Asking(q)
    <3>1. [at |-> "applying", open |-> TRUE] \in Task
      BY DEF Task
    <3> QED
      BY <1>1, <1>6, <3>1, TasksSet
  <2> QED
    BY <1>4, <1>6, <2>5, <2>6
<1> QED
  BY <1>3, <1>5, <1>6

LEMMA MediaFailsKept ==
  ASSUME Shape, Roles, NEW p \in Clients, NEW c \in Calls, MediaFails(p, c)
  PROVE  Kept
<1> DEFINE t == task[p][c]
           g == [me[p] EXCEPT !.stream = c, !.mics = @ \cup {c}]
           failed(h) == [h EXCEPT !.st = "failed",
                                  !.inc = IF t.at = "answering" THEN NoCall ELSE @]
<1>1. /\ t.at \in {"calling", "answering"} /\ Set(p, c, Done)
      /\ \/ Go(p, failed(me[p]), queue, {}, {c})
         \/ ~t.open /\ Go(p, failed(g), queue, {}, {c})
  BY DEF MediaFails
<1>2. me[p] \in Hook /\ Whole(me[p])
  BY HookShape
<1>3. task' \in [Clients -> [Calls -> Task]] /\ \A q \in Clients : Asking(q)
  BY <1>1, Finished
<1>4. CASE Go(p, failed(me[p]), queue, {}, {c})
  <2>1. failed(me[p]) \in Hook /\ Alike(failed(me[p]), me[p])
        /\ failed(me[p]).pc = me[p].pc
    BY <1>2 DEF Hook, Alike, States
  <2>2. Whole(failed(me[p]))
    BY <1>2, <2>1 DEF Whole
  <2> QED
    BY <1>3, <1>4, <2>1, <2>2, AlikeKept DEF FromQueue
<1>5. CASE ~t.open /\ Go(p, failed(g), queue, {}, {c})
  <2>1. g \in Hook /\ g.pc = me[p].pc /\ g.inc = me[p].inc
    BY <1>2 DEF Hook
  <2> HIDE DEF g
  <2>2. failed(g) \in Hook /\ failed(g).pc = me[p].pc
        /\ failed(g).inc \in {me[p].inc, NoCall}
    BY <2>1 DEF Hook, States
  <2>3. Whole(failed(g))
    <3>1. me[p].pc.call = NoCall => me[p].pc = NoPeer
      BY <1>2 DEF Whole
    <3> QED
      BY <2>2, <3>1 DEF Whole
  <2>4. ~Undisturbed
    <3>1. Overtaken(p, c)
      BY <1>1, <1>5 DEF Overtaken
    <3> QED
      BY <3>1 DEF Undisturbed, NeverOvertaken
  <2>5. failed(g).inc = me[p].inc \/ Rung(p, failed(g).inc)
    BY <2>2 DEF Rung
  <2> DEFINE k == failed(g)
  <2>6. k \in Hook /\ Whole(k) /\ (k.inc = me[p].inc \/ Rung(p, k.inc))
    BY <2>2, <2>3, <2>5
  <2>7. Go(p, k, queue, {}, {c})
    BY <1>5
  <2> HIDE DEF k
  <2> QED
    BY <1>3, <2>4, <2>6, <2>7, GoKept DEF FromQueue
<1> QED
  BY <1>1, <1>4, <1>5

-----------------------------------------------------------------------------
(* The server's events.                                                    *)

\* call:incoming, call:accepted and call:ended.
LEMMA IncomingKept ==
  ASSUME Shape, Roles, NEW p \in Clients, Incoming(p)
  PROVE  Kept
<1> DEFINE c == Head(queue[p]).call
           h == [me[p] EXCEPT !.inc = c, !.st = "ringing"]
<1>1. /\ c \in Calls /\ Caller[c] # p /\ line[c] # "none"
      /\ FromQueue(p, Rest(p))
  BY Heading DEF Incoming
<1>2. me[p] \in Hook /\ Whole(me[p])
  BY HookShape
<1>3. UNCHANGED task
  BY DEF Incoming
<1>4. CASE me[p].cur # NoCall
  <2>1. Go(p, me[p], Rest(p), {}, {c})
    BY <1>4 DEF Incoming
  <2>2. Alike(me[p], me[p])
    BY <1>2 DEF Alike, Hook
  <2> HIDE DEF c
  <2> QED
    BY <1>1, <1>2, <1>3, <2>1, <2>2, TasksSame, AlikeKept
<1>5. CASE me[p].cur = NoCall
  <2>1. Go(p, h, Rest(p), {}, {})
    BY <1>5 DEF Incoming, Arrived
  <2> HIDE DEF c
  <2>2. /\ h \in Hook /\ h.pc = me[p].pc /\ h.inc = c
        /\ h.mics = me[p].mics /\ h.cur = NoCall /\ h.stream = me[p].stream
    BY <1>1, <1>2, <1>5 DEF Hook, States
  <2>3. Whole(h)
    BY <1>2, <2>2 DEF Whole
  <2>4. ASSUME Undisturbed PROVE Dark(h)
    BY <1>5, <2>2, <2>4, LitHook DEF Undisturbed, Dark
  <2>5. Rung(p, h.inc)
    BY <1>1, <2>2 DEF Rung
  <2> HIDE DEF h
  <2> QED
    BY <1>1, <1>3, <2>1, <2>2, <2>3, <2>4, <2>5, TasksSame, GoKept
<1> QED
  BY <1>4, <1>5

LEMMA AcceptedKept ==
  ASSUME Shape, Roles, NEW p \in Clients, Accepted(p)
  PROVE  Kept
<1> DEFINE h == [me[p] EXCEPT !.st = "connecting"]
<1>1. FromQueue(p, Rest(p)) /\ me[p] \in Hook /\ Whole(me[p])
  BY Heading, HookShape DEF Accepted
<1>2. Go(p, h, Rest(p), {}, {}) /\ UNCHANGED task
  BY DEF Accepted, Arrived
<1>3. h \in Hook /\ h.pc = me[p].pc /\ Alike(h, me[p])
  BY <1>1 DEF Hook, Alike, States
<1>4. Whole(h)
  BY <1>1, <1>3 DEF Whole
<1> HIDE DEF h
<1> QED
  BY <1>1, <1>2, <1>3, <1>4, TasksSame, AlikeKept

LEMMA EndedKept ==
  ASSUME Shape, Roles, NEW p \in Clients, Ended(p)
  PROVE  Kept
<1> DEFINE g == Cleanup(me[p])
           h == [g EXCEPT !.inc = NoCall, !.st = "ended", !.idles = @ + 1]
<1>1. /\ me[p] \in Hook /\ Whole(me[p]) /\ g \in Hook /\ Whole(g)
      /\ g.cur = NoCall /\ g.mics = me[p].mics \ {me[p].stream}
      /\ FromQueue(p, Rest(p))
  BY HookShape, CleanupType, Heading DEF Ended, Leave
<1>2. CASE Go(p, me[p], Rest(p), {}, {}) /\ UNCHANGED task
  <2>1. Alike(me[p], me[p])
    BY <1>1 DEF Alike, Hook
  <2> QED
    BY <1>1, <1>2, <2>1, TasksSame, AlikeKept
<1>3. CASE Go(p, h, Rest(p), {}, {}) /\ CloseTasks(p)
  <2> HIDE DEF g
  <2>1. /\ h \in Hook /\ h.pc = g.pc /\ h.cur = NoCall /\ h.inc = NoCall
        /\ h.mics = me[p].mics \ {me[p].stream}
    <3>1. g.idles \in Nat /\ g.idles + 1 \in Nat
      BY <1>1 DEF Hook
    <3>2. h = [[g EXCEPT !.inc = NoCall, !.st = "ended"] EXCEPT !.idles = g.idles + 1]
      BY <1>1 DEF Hook
    <3> HIDE DEF h
    <3> QED
      BY <1>1, <3>1, <3>2, ZenonT(60) DEF Hook, States
  <2>2. Whole(h)
    BY <1>1, <2>1 DEF Whole
  <2>3. Rung(p, h.inc)
    BY <2>1 DEF Rung
  <2> HIDE DEF h
  <2> QED
    BY <1>1, <1>3, <2>1, <2>2, <2>3, TasksClosed, CleanupDark, GoKept DEF Undisturbed
<1>4. \/ Go(p, me[p], Rest(p), {}, {}) /\ UNCHANGED task
      \/ Go(p, h, Rest(p), {}, {}) /\ CloseTasks(p)
  BY DEF Ended, Leave, Arrived
<1> QED
  BY <1>2, <1>3, <1>4

\* A step of the connection that the server and the queues have no part in: it changes
\* nothing the microphone depends on.
LEMMA StayKept ==
  ASSUME Shape, Roles, NEW p \in Clients, NEW h \in Hook, Whole(h), Alike(h, me[p]),
         me' = [me EXCEPT ![p] = h], UNCHANGED <<task, queue, line>>,
         wire' \subseteq Sent, Extras, h.inc = me[p].inc
  PROVE  Kept
<1>1. Shape'
  BY ShapeStep DEF Shape, HookTypeOK
<1>2. \A q \in Clients : me'[q].inc = me[q].inc
  BY DEF Shape, HookTypeOK
<1>3. Roles'
  BY <1>2 DEF Roles, Replies
<1>4. ASSUME Undisturbed PROVE Lit'
  <2>1. Dark(h)
    BY <1>4, LitHook DEF Undisturbed, Alike, Dark
  <2> QED
    BY <1>4, <2>1, LitStep DEF Undisturbed
<1> QED
  BY <1>1, <1>3, <1>4 DEF Kept

\* A signal changes the connection, and what waits for it, and nothing else.
LEMMA HeardKept ==
  ASSUME Shape, Roles, NEW p \in Clients, NEW h \in Hook, Whole(h), Alike(h, me[p]),
         NEW s, NEW sent \in SUBSET Sent, Heard(p, s, h, sent), h.inc = me[p].inc
  PROVE  Kept
<1>1. /\ me' = [me EXCEPT ![p] = h] /\ UNCHANGED <<task, queue, line>>
      /\ wire' \subseteq Sent /\ Extras
  BY DEF Heard, server, Shape, HookTypeOK, Extras
<1> QED
  BY <1>1, StayKept

\* The signals: an offer, an answer, a candidate.
LEMMA OfferKept ==
  ASSUME Shape, Roles, NEW p \in Clients, NEW s, Offer(p, s)
  PROVE  Kept
<1> DEFINE o == [call |-> s.call, tracks |-> s.tracks]
           h == [me[p] EXCEPT !.offer = o]
           k == [me[p] EXCEPT !.pc.desc = o]
<1>1. /\ me[p] \in Hook /\ Whole(me[p]) /\ me[p].pc \in Peer /\ s \in Sent
      /\ Alike(me[p], me[p])
  <2>1. s \in Sent
    BY DEF Offer, Hears, Shape
  <2> QED
    BY <2>1, HookShape DEF Alike, Hook
<1>2. o \in SDP
  BY <1>1 DEF SDP, Sent
<1>3. \/ me[p].pc.call = NoCall /\ Heard(p, s, h, {})
      \/ Heard(p, s, me[p], {})
      \/ me[p].pc.call # NoCall /\ Heard(p, s, k, {})
  BY DEF Offer
<1> HIDE DEF o
<1>4. CASE me[p].pc.call = NoCall /\ Heard(p, s, h, {})
  <2>1. h \in Hook /\ h.pc = me[p].pc /\ Alike(h, me[p]) /\ h.inc = me[p].inc
    BY <1>1, <1>2 DEF Hook, Alike
  <2>2. Whole(h)
    BY <1>1, <2>1 DEF Whole
  <2> HIDE DEF h
  <2> QED
    BY <1>4, <2>1, <2>2, HeardKept
<1>5. CASE Heard(p, s, me[p], {})
  BY <1>1, <1>5, HeardKept
<1>6. CASE me[p].pc.call # NoCall /\ Heard(p, s, k, {})
  <2>1. k \in Hook /\ k.pc.call = me[p].pc.call /\ Alike(k, me[p]) /\ k.inc = me[p].inc
    BY <1>1, <1>2 DEF Hook, Peer, Alike
  <2>2. Whole(k)
    BY <1>6, <2>1 DEF Whole
  <2> HIDE DEF k
  <2> QED
    BY <1>6, <2>1, <2>2, HeardKept
<1> QED
  BY <1>3, <1>4, <1>5, <1>6

LEMMA TakeAnswerKept ==
  ASSUME Shape, Roles, NEW p \in Clients, NEW s, TakeAnswer(p, s)
  PROVE  Kept
<1> DEFINE e == Ears(me[p].pc, s.tracks)
           g == [me[p] EXCEPT !.pc.sig = "stable", !.pc.remote = TRUE, !.pc.hears = e]
<1>1. /\ me[p] \in Hook /\ Whole(me[p]) /\ me[p].pc \in Peer
      /\ Alike(me[p], me[p]) /\ e \in {"no", "yes", "missed"}
  <2>1. s.tracks \in BOOLEAN
    BY DEF TakeAnswer, Hears, Shape, Sent
  <2> QED
    BY <2>1, HookShape, EarsType DEF Alike, Hook
<1>2. \/ Heard(p, s, me[p], {})
      \/ me[p].pc.sig = "local" /\ Heard(p, s, Flush(g), {})
  BY <1>1 DEF TakeAnswer, Peer
<1> HIDE DEF e
<1>3. CASE Heard(p, s, me[p], {})
  BY <1>1, <1>3, HeardKept
<1>4. CASE me[p].pc.sig = "local" /\ Heard(p, s, Flush(g), {})
  <2>1. me[p].pc.call # NoCall
    BY <1>1, <1>4, NoPeerType DEF Whole
  <2>2. /\ g \in Hook /\ g.pc.call = me[p].pc.call
        /\ g.cur = me[p].cur /\ g.inc = me[p].inc /\ g.st = me[p].st
        /\ g.mics = me[p].mics /\ g.stream = me[p].stream
    BY <1>1, ZenonT(60) DEF Hook, Peer
  <2>3. Whole(g)
    BY <2>1, <2>2 DEF Whole
  <2> HIDE DEF g
  <2>4. /\ Flush(g) \in Hook /\ Whole(Flush(g)) /\ Alike(Flush(g), me[p])
        /\ Flush(g).inc = me[p].inc
    BY <2>2, <2>3, FlushType DEF Alike
  <2> QED
    BY <1>4, <2>4, HeardKept
<1> QED
  BY <1>2, <1>3, <1>4

LEMMA CandidateKept ==
  ASSUME Shape, Roles, NEW p \in Clients, NEW s, Candidate(p, s)
  PROVE  Kept
<1> DEFINE g == [me[p] EXCEPT !.pc.cand = TRUE]
           h == [me[p] EXCEPT !.cands = @ \cup {s.call}]
<1>1. /\ me[p] \in Hook /\ Whole(me[p]) /\ me[p].pc \in Peer /\ s.call \in Calls
      /\ Alike(me[p], me[p])
  <2>1. s \in Sent
    BY DEF Candidate, Hears, Shape
  <2> QED
    BY <2>1, HookShape DEF Alike, Hook, Sent
<1>2. \/ Heard(p, s, me[p], {})
      \/ me[p].pc.remote /\ Heard(p, s, g, {})
      \/ Heard(p, s, h, {})
  BY DEF Candidate
<1>3. CASE Heard(p, s, me[p], {})
  BY <1>1, <1>3, HeardKept
<1>4. CASE me[p].pc.remote /\ Heard(p, s, g, {})
  <2>1. me[p].pc.call # NoCall
    BY <1>1, <1>4 DEF Whole, NoPeer
  <2>2. /\ g \in Hook /\ g.pc.call = me[p].pc.call
        /\ Alike(g, me[p]) /\ g.inc = me[p].inc
    <3> DEFINE n == [me[p].pc EXCEPT !.cand = TRUE]
    <3>1. n \in Peer /\ n.call = me[p].pc.call
      BY <1>1 DEF Peer
    <3>2. g = [me[p] EXCEPT !.pc = n]
      BY <1>1 DEF Hook, Peer
    <3> HIDE DEF n, g
    <3> QED
      BY <1>1, <3>1, <3>2 DEF Hook, Alike
  <2>3. Whole(g)
    BY <2>1, <2>2 DEF Whole
  <2> HIDE DEF g
  <2> QED
    BY <1>4, <2>2, <2>3, HeardKept
<1>5. CASE Heard(p, s, h, {})
  <2>1. h \in Hook /\ h.pc = me[p].pc /\ Alike(h, me[p]) /\ h.inc = me[p].inc
    BY <1>1 DEF Hook, Alike
  <2>2. Whole(h)
    BY <1>1, <2>1 DEF Whole
  <2> HIDE DEF h
  <2> QED
    BY <1>5, <2>1, <2>2, HeardKept
<1> QED
  BY <1>2, <1>3, <1>4, <1>5

-----------------------------------------------------------------------------
(* The connection.                                                         *)

\* What only touches the connection, the state or the timers.
LEMMA ConnectionKept ==
  ASSUME Shape, Roles, NEW p \in Clients, NEW h \in Hook, Whole(h), Alike(h, me[p]),
         NEW sent \in SUBSET Sent, NEW ends \in SUBSET Calls,
         Go(p, h, queue, sent, ends), UNCHANGED task
  PROVE  Kept
  BY TasksSame, AlikeKept DEF FromQueue

\* onnegotiationneeded and the states of the connection.
LEMMA MakeOfferKept ==
  ASSUME Shape, Roles, NEW p \in Clients, MakeOffer(p)
  PROVE  Kept
<1> DEFINE h == [me[p] EXCEPT !.pc.making = TRUE, !.pc.need = FALSE]
<1>1. /\ me[p] \in Hook /\ Whole(me[p]) /\ me[p].pc \in Peer /\ me[p].pc.need
  BY HookShape DEF MakeOffer
<1>2. h \in Hook /\ h.pc.call = me[p].pc.call /\ Alike(h, me[p])
  <2> DEFINE n == [me[p].pc EXCEPT !.making = TRUE, !.need = FALSE]
  <2>1. n \in Peer /\ n.call = me[p].pc.call
    BY <1>1 DEF Peer
  <2>2. h = [me[p] EXCEPT !.pc = n]
    BY <1>1 DEF Hook, Peer
  <2> HIDE DEF n, h
  <2> QED
    BY <1>1, <2>1, <2>2 DEF Hook, Alike
<1>3. me[p].pc.call # NoCall
  BY <1>1 DEF Whole, NoPeer
<1>4. Whole(h)
  BY <1>2, <1>3 DEF Whole
<1>5. Go(p, h, queue, {}, {}) /\ UNCHANGED task
  BY DEF MakeOffer, Turn
<1> HIDE DEF h
<1> QED
  BY <1>2, <1>4, <1>5, ConnectionKept

LEMMA SendOfferKept ==
  ASSUME Shape, Roles, NEW p \in Clients, SendOffer(p)
  PROVE  Kept
<1> DEFINE h == [me[p] EXCEPT !.pc.making = FALSE, !.pc.sig = "local"]
           sent == {Signal(p, "offer", me[p].pc.call, me[p].pc.tracks),
                    Signal(p, "candidate", me[p].pc.call, FALSE)}
<1>1. /\ me[p] \in Hook /\ Whole(me[p]) /\ me[p].pc \in Peer /\ me[p].pc.making
      /\ Other(p) \in Clients
  BY HookShape, OtherEnd DEF SendOffer
<1>2. h \in Hook /\ h.pc.call = me[p].pc.call /\ Alike(h, me[p])
  <2> DEFINE n == [me[p].pc EXCEPT !.making = FALSE, !.sig = "local"]
  <2>1. n \in Peer /\ n.call = me[p].pc.call
    BY <1>1 DEF Peer
  <2>2. h = [me[p] EXCEPT !.pc = n]
    BY <1>1 DEF Hook, Peer
  <2> HIDE DEF n, h
  <2> QED
    BY <1>1, <2>1, <2>2 DEF Hook, Alike
<1>3. me[p].pc.call \in Calls
  BY <1>1 DEF Whole, NoPeer, Peer
<1>4. Whole(h)
  BY <1>2, <1>3, NoCallIsFresh DEF Whole
<1>5. sent \in SUBSET Sent
  BY <1>1, <1>3 DEF Signal, Sent, Peer
<1>6. Go(p, h, queue, sent, {}) /\ UNCHANGED task
  BY DEF SendOffer, Turn
<1> HIDE DEF h, sent
<1> QED
  BY <1>2, <1>4, <1>5, <1>6, ConnectionKept

\* setRemoteDescription and setLocalDescription, when the other side offers.
LEMMA DescribedKept ==
  ASSUME Shape, Roles, NEW p \in Clients, Described(p)
  PROVE  Kept
<1> DEFINE d == me[p].pc.desc
           e == Ears(me[p].pc, d.tracks)
           o == [d EXCEPT !.tracks = me[p].pc.tracks]
           g == [me[p] EXCEPT !.pc.sig = "remote", !.pc.remote = TRUE, !.pc.hears = e,
                              !.pc.desc = o]
           h == IF me[p].pc.by = NoCall THEN Flush(g) ELSE g
<1>1. me[p] \in Hook /\ Whole(me[p]) /\ me[p].pc \in Peer /\ d \in SDP
  BY HookShape DEF Described, Peer
<1>2. e \in {"no", "yes", "missed"} /\ o \in SDP
  BY <1>1, EarsType DEF SDP, Peer
<1>3. Go(p, h, queue, {}, {}) /\ UNCHANGED task
  BY DEF Described, Turn
<1>4. me[p].pc.call # NoCall
  BY <1>1, NoCallIsFresh DEF Whole, NoPeer, Described
<1> HIDE DEF e, o
<1>5. g \in Hook /\ g.pc.call = me[p].pc.call /\ Alike(g, me[p])
  <2> DEFINE n == [me[p].pc EXCEPT !.sig = "remote", !.remote = TRUE, !.hears = e,
                                   !.desc = o]
  <2>1. n \in Peer /\ n.call = me[p].pc.call
    BY <1>1, <1>2 DEF Peer
  <2>2. g = [me[p] EXCEPT !.pc = n]
    BY <1>1 DEF Hook, Peer
  <2> HIDE DEF n, g
  <2> QED
    BY <1>1, <2>1, <2>2 DEF Hook, Alike
<1>6. Whole(g)
  BY <1>4, <1>5 DEF Whole
<1> HIDE DEF g
<1>7. Flush(g) \in Hook /\ Whole(Flush(g)) /\ Alike(Flush(g), me[p])
  BY <1>5, <1>6, FlushType DEF Alike
<1>8. h \in Hook /\ Whole(h) /\ Alike(h, me[p])
  BY <1>5, <1>6, <1>7
<1> HIDE DEF h
<1> QED
  BY <1>3, <1>8, ConnectionKept

LEMMA AnsweredKept ==
  ASSUME Shape, Roles, NEW p \in Clients, Answered(p)
  PROVE  Kept
<1> DEFINE d == me[p].pc.desc
           c == IF me[p].pc.by = NoCall THEN d.call ELSE me[p].cur
           g(tracks) == [me[p] EXCEPT !.pc.sig = "stable", !.pc.desc = NoCall,
                           !.pc.by = NoCall,
                           !.pc.need = me[p].pc.tracks /\ ~tracks, !.may = TRUE]
           h(tracks) == IF me[p].pc.by = NoCall THEN g(tracks)
                        ELSE [Flush(g(tracks)) EXCEPT !.inc = NoCall]
           sent(tracks) == IF c = NoCall THEN {} ELSE {Signal(p, "answer", c, tracks)}
<1>1. /\ me[p] \in Hook /\ Whole(me[p]) /\ me[p].pc \in Peer /\ d \in SDP
      /\ me[p].pc.call # NoCall /\ Other(p) \in Clients
  <2>1. me[p] \in Hook /\ Whole(me[p]) /\ me[p].pc \in Peer /\ d \in SDP
    BY HookShape DEF Answered, Peer
  <2>2. me[p].pc.call # NoCall
    BY <2>1, NoCallIsFresh DEF Whole, NoPeer, Answered
  <2> QED
    BY <2>1, <2>2, OtherEnd
<1>2. PICK tracks \in {d.tracks, me[p].pc.tracks} :
        Go(p, h(tracks), queue, sent(tracks), {})
  BY DEF Answered, Turn
<1>3. task' \in [Clients -> [Calls -> Task]] /\ \A q \in Clients : Asking(q)
  BY TasksAnswered DEF Answered
<1>4. tracks \in BOOLEAN /\ me[p].pc.tracks \in BOOLEAN /\ c \in Calls \cup {NoCall}
  BY <1>1 DEF SDP, Peer, Hook
<1>5. sent(tracks) \in SUBSET Sent
  BY <1>1, <1>4 DEF Signal, Sent
<1> DEFINE need == me[p].pc.tracks /\ ~tracks
           x == g(tracks)
<1>6. x \in Hook /\ x.pc.call = me[p].pc.call /\ Alike(x, me[p])
  <2>1. need \in BOOLEAN
    BY <1>4
  <2>2. x = [me[p] EXCEPT !.pc.sig = "stable", !.pc.desc = NoCall, !.pc.by = NoCall,
                          !.pc.need = need, !.may = TRUE]
    OBVIOUS
  <2> HIDE DEF need, x
  <2> DEFINE n == [me[p].pc EXCEPT !.sig = "stable", !.desc = NoCall, !.by = NoCall,
                                   !.need = need]
  <2>3. n \in Peer /\ n.call = me[p].pc.call
    BY <1>1, <2>1 DEF Peer
  <2>4. x = [[me[p] EXCEPT !.may = TRUE] EXCEPT !.pc = n]
    BY <1>1, <2>2 DEF Hook, Peer
  <2> HIDE DEF n
  <2> QED
    BY <1>1, <2>3, <2>4 DEF Hook, Alike
<1> HIDE DEF need, x
<1>7. Whole(x)
  BY <1>1, <1>6 DEF Whole
<1>8. Flush(x) \in Hook /\ Whole(Flush(x)) /\ Alike(Flush(x), me[p])
  BY <1>6, <1>7, FlushType DEF Alike
<1> DEFINE y == [Flush(x) EXCEPT !.inc = NoCall]
<1>9. y \in Hook /\ Whole(y) /\ Alike(y, me[p])
  <2> DEFINE f == Flush(x)
  <2>1. f \in Hook /\ Whole(f) /\ Alike(f, me[p]) /\ y = [f EXCEPT !.inc = NoCall]
    BY <1>8
  <2> HIDE DEF f, y
  <2>2. y \in Hook /\ y.pc = f.pc /\ Alike(y, me[p])
    BY <2>1 DEF Hook, Alike
  <2> QED
    BY <2>1, <2>2 DEF Whole
<1>10. h(tracks) = x \/ h(tracks) = y
  BY DEF x
<1>11. h(tracks) \in Hook /\ Whole(h(tracks)) /\ Alike(h(tracks), me[p])
  BY <1>6, <1>7, <1>9, <1>10
<1> HIDE DEF h, sent
<1> QED
  BY <1>2, <1>3, <1>5, <1>11, AlikeKept DEF FromQueue

\* The states of the connection: a connection without its handlers keeps them to
\* itself.
LEMMA ConnectKept ==
  ASSUME Shape, Roles, NEW p \in Clients, Connect(p)
  PROVE  Kept
<1> DEFINE u == [me[p] EXCEPT !.pc.ice = "up"]
           h == [u EXCEPT !.st = "active", !.pc.restarts = 0, !.pc.timer = FALSE]
<1>1. /\ me[p] \in Hook /\ Whole(me[p]) /\ me[p].pc \in Peer /\ me[p].pc.call # NoCall
  BY HookShape DEF Connect
<1>2. u \in Hook /\ u.pc \in Peer /\ u.pc.call = me[p].pc.call /\ Alike(u, me[p])
  BY <1>1 DEF Hook, Peer, Alike
<1>3. (Go(p, u, queue, {}, {}) \/ Go(p, h, queue, {}, {})) /\ UNCHANGED task
  BY DEF Connect, Turn
<1> HIDE DEF u
<1>4. h \in Hook /\ h.pc.call = me[p].pc.call /\ Alike(h, me[p])
  <2> DEFINE n == [u.pc EXCEPT !.restarts = 0, !.timer = FALSE]
             s == [u EXCEPT !.st = "active"]
  <2>1. n \in Peer /\ n.call = u.pc.call
    <3>1. 0 \in 0..RESTARTS
      BY BoundsAreNats
    <3> QED
      BY <1>2, <3>1 DEF Peer
  <2>2. s \in Hook /\ s.pc = u.pc /\ s.pc \in Peer /\ Alike(s, me[p])
    BY <1>2 DEF Hook, States, Alike
  <2>3. h = [s EXCEPT !.pc.restarts = 0, !.pc.timer = FALSE]
    OBVIOUS
  <2> HIDE DEF s, h
  <2>4. h = [s EXCEPT !.pc = n]
    BY <2>2, <2>3 DEF Hook, Peer
  <2> HIDE DEF n
  <2> QED
    BY <1>2, <2>1, <2>2, <2>4 DEF Hook, Alike
<1> HIDE DEF h
<1>5. Whole(u) /\ Whole(h)
  BY <1>1, <1>2, <1>4 DEF Whole
<1> QED
  BY <1>2, <1>3, <1>4, <1>5, ConnectionKept

\* A step that goes wrong counts.
LEMMA FaultCounts == ASSUME Shape, Fault PROVE faults' \in 0..MaxFaults
  BY BoundsAreNats DEF Fault, Shape, HookTypeOK

LEMMA DropKept ==
  ASSUME Shape, Roles, NEW p \in Clients, Drop(p)
  PROVE  Kept
<1> DEFINE u == [me[p] EXCEPT !.pc.ice = "down"]
           h == [u EXCEPT !.st = "connecting", !.pc.timer = TRUE]
<1>1. /\ me[p] \in Hook /\ Whole(me[p]) /\ me[p].pc \in Peer
      /\ me[p].pc.ice \in {"up", "checking"}
  BY HookShape DEF Drop
<1>2. u \in Hook /\ u.pc \in Peer /\ u.pc.call = me[p].pc.call /\ Alike(u, me[p])
      /\ u.inc = me[p].inc
  BY <1>1 DEF Hook, Peer, Alike
<1>3. /\ me' = [me EXCEPT ![p] = u] \/ me' = [me EXCEPT ![p] = h]
      /\ UNCHANGED <<task, queue, wire, line, asks, lost>>
  BY DEF Drop, server
<1> HIDE DEF u
<1>4. h \in Hook /\ h.pc.call = me[p].pc.call /\ Alike(h, me[p]) /\ h.inc = me[p].inc
  BY <1>2, ZenonT(60) DEF Hook, Peer, Alike, States
<1>5. me[p].pc.call # NoCall
  BY <1>1 DEF Whole, NoPeer
<1>6. Whole(u) /\ Whole(h)
  BY <1>2, <1>4, <1>5 DEF Whole
<1> HIDE DEF h
<1>7. Extras /\ wire' \subseteq Sent
  BY <1>3, FaultCounts DEF Drop, Extras, Shape, HookTypeOK
<1> QED
  BY <1>2, <1>3, <1>4, <1>6, <1>7, StayKept

LEMMA RestartTimerKept ==
  ASSUME Shape, Roles, NEW p \in Clients, RestartTimer(p)
  PROVE  Kept
<1> DEFINE h == [me[p] EXCEPT !.pc.timer = FALSE]
           f == [h EXCEPT !.st = "failed"]
           r == [h EXCEPT !.pc.restarts = @ + 1, !.pc.need = TRUE, !.pc.ice = "checking"]
<1>1. /\ me[p] \in Hook /\ Whole(me[p]) /\ me[p].pc \in Peer /\ me[p].pc.timer
  BY HookShape DEF RestartTimer
<1>2. me[p].pc.call \in Calls
  BY <1>1 DEF Whole, NoPeer, Peer
<1>3. UNCHANGED task
  BY DEF RestartTimer
<1>4. \/ Go(p, h, queue, {}, {})
      \/ Go(p, f, queue, {}, {h.pc.call})
      \/ h.pc.restarts < RESTARTS /\ Go(p, r, queue, {}, {})
  <2>1. h.pc.restarts \in 0..RESTARTS
    BY <1>1 DEF Hook, Peer
  <2> HIDE DEF f, r
  <2>2. h.pc.restarts >= RESTARTS \/ h.pc.restarts < RESTARTS
    BY <2>1, BoundsAreNats
  <2> QED
    BY <2>2 DEF RestartTimer, Turn, f, r
<1> HIDE DEF f, r
<1>5. /\ h \in Hook /\ h.pc \in Peer /\ h.pc.call = me[p].pc.call /\ Alike(h, me[p])
  <2> DEFINE n == [me[p].pc EXCEPT !.timer = FALSE]
  <2>1. n \in Peer /\ n.call = me[p].pc.call
    BY <1>1 DEF Peer
  <2>2. h = [me[p] EXCEPT !.pc = n]
    BY <1>1 DEF Hook
  <2> HIDE DEF n, h
  <2> QED
    BY <1>1, <2>1, <2>2 DEF Hook, Alike
<1> HIDE DEF h
<1>6. CASE Go(p, h, queue, {}, {})
  BY <1>2, <1>3, <1>5, <1>6, ConnectionKept, NoCallIsFresh DEF Whole
<1>7. CASE Go(p, f, queue, {}, {h.pc.call})
  <2>1. f \in Hook /\ f.pc.call = me[p].pc.call /\ Alike(f, me[p])
    BY <1>1, <1>5 DEF Hook, Alike, States, f
  <2> QED
    BY <1>2, <1>3, <1>5, <1>7, <2>1, ConnectionKept, NoCallIsFresh DEF Whole
<1>8. CASE h.pc.restarts < RESTARTS /\ Go(p, r, queue, {}, {})
  <2>1. r \in Hook /\ r.pc.call = me[p].pc.call /\ Alike(r, me[p])
    <3>1. h.pc.restarts + 1 \in 0..RESTARTS
      BY <1>5, <1>8, BoundsAreNats DEF Peer
    <3> DEFINE n == [h.pc EXCEPT !.restarts = h.pc.restarts + 1, !.need = TRUE,
                                 !.ice = "checking"]
    <3>2. n \in Peer /\ n.call = h.pc.call
      BY <1>5, <3>1 DEF Peer
    <3>3. r = [h EXCEPT !.pc = n]
      BY <1>5 DEF Hook, Peer, r
    <3> HIDE DEF n
    <3> QED
      BY <1>1, <1>5, <3>2, <3>3 DEF Hook, Alike
  <2> QED
    BY <1>2, <1>3, <1>8, <2>1, ConnectionKept, NoCallIsFresh DEF Whole
<1> QED
  BY <1>4, <1>6, <1>7, <1>8

LEMMA FailKept ==
  ASSUME Shape, Roles, NEW p \in Clients, Fail(p)
  PROVE  Kept
<1> DEFINE u == [me[p] EXCEPT !.pc.ice = "failed"]
           h == [u EXCEPT !.st = "failed"]
<1>1. /\ me[p] \in Hook /\ Whole(me[p]) /\ me[p].pc \in Peer
  BY HookShape
<1>2. u \in Hook /\ u.pc \in Peer /\ u.pc.call = me[p].pc.call /\ Alike(u, me[p])
      /\ u.inc = me[p].inc /\ u.pc.remote = me[p].pc.remote
  BY <1>1 DEF Hook, Peer, Alike
<1>3. /\ me' = [me EXCEPT ![p] = u] \/ me' = [me EXCEPT ![p] = h]
      /\ UNCHANGED <<task, queue, wire, line, lost>> /\ u.pc.remote
      /\ asks' = asks \/ asks' = asks \cup {EndOf(u.pc.call, p)}
  BY DEF Fail
<1> HIDE DEF u
<1>4. me[p].pc.call \in Calls
  <2>1. me[p].pc.remote
    BY <1>2, <1>3
  <2> QED
    BY <1>1, <2>1 DEF Whole, NoPeer, Peer
<1>5. h \in Hook /\ h.pc.call = me[p].pc.call /\ Alike(h, me[p]) /\ h.inc = me[p].inc
  BY <1>2 DEF Hook, Peer, Alike, States
<1>6. Whole(u) /\ Whole(h)
  BY <1>2, <1>4, <1>5, NoCallIsFresh DEF Whole
<1> HIDE DEF h
<1>7. EndOf(u.pc.call, p) \in Ask
  BY <1>2, <1>4 DEF EndOf, Ask
<1>8. Extras /\ wire' \subseteq Sent
  BY <1>3, <1>7, FaultCounts DEF Fail, Extras, Shape, HookTypeOK
<1> QED
  BY <1>2, <1>3, <1>5, <1>6, <1>8, StayKept

-----------------------------------------------------------------------------
(* The server, and what it loses.                                          *)

\* A step that leaves the hooks and their functions alone, and only shortens a queue or
\* adds what is quiet.
LEMMA ServerKept ==
  ASSUME Shape, Roles, UNCHANGED <<me, task>>, Remembered,
         line' \in [Calls -> Row], queue' \in [Clients -> Seq(Note)],
         wire' \subseteq Sent, Extras, \A q \in Clients : Advances(q)
  PROVE  Kept
<1>1. Shape'
  <2>1. \A q \in Clients : \A i \in DOMAIN queue'[q] : queue'[q][i].call \in Calls
    <3>1. ASSUME NEW q \in Clients, NEW i \in DOMAIN queue'[q]
          PROVE  queue'[q][i] \in Note
      <4>1. queue'[q] \in Seq(Note)
        OBVIOUS
      <4> QED
        BY <4>1
    <3> QED
      BY <3>1 DEF Note
  <2> QED
    BY <2>1 DEF Shape, HookTypeOK, Extras, Sent
<1>2. \A q \in Clients : Asking(q) /\ Rung(q, me'[q].inc)
  BY DEF Asking, Roles, Rung
<1>3. Roles'
  BY <1>1, <1>2, RolesStep
<1>4. Lit => Lit'
  BY DEF Lit
<1> QED
  BY <1>1, <1>3, <1>4 DEF Kept, Undisturbed

\* Queues that stay as they are.
LEMMA QueuesStay ==
  ASSUME Shape, UNCHANGED queue
  PROVE  queue' \in [Clients -> Seq(Note)] /\ \A q \in Clients : Advances(q)
<1>1. ASSUME NEW q \in Clients PROVE Advances(q)
  <2>1. queue[q] \in Seq(Note)
    BY DEF Shape
  <2>2. \A i \in DOMAIN queue'[q] :
          i + 0 \in DOMAIN queue[q] /\ queue'[q][i] = queue[q][i + 0]
    BY <2>1
  <2> QED
    BY <2>2 DEF Advances
<1> QED
  BY <1>1 DEF Shape

\* end() and what may go wrong with it.
LEMMA EndCommitKept ==
  ASSUME Shape, Roles, NEW a, EndCommit(a)
  PROVE  Kept
<1>1. /\ UNCHANGED <<me, task, queue, wire, lost, faults>> /\ a \in Ask
      /\ asks' = (asks \ {a}) \cup {[a EXCEPT !.at = "committed"]}
      /\ line' = [line EXCEPT ![a.call] = IF @ \in Ongoing THEN "over" ELSE @]
      /\ line \in [Calls -> Row]
  BY DEF EndCommit, Shape, HookTypeOK
<1>2. a.call \in Calls /\ [a EXCEPT !.at = "committed"] \in Ask
  BY <1>1 DEF Ask
<1>3. line' \in [Calls -> Row] /\ Remembered
  BY <1>1, <1>2 DEF Row, Ongoing, Remembered
<1>4. Extras /\ wire' \subseteq Sent
  BY <1>1, <1>2 DEF Extras, Shape, HookTypeOK
<1> QED
  BY <1>1, <1>3, <1>4, QueuesStay, ServerKept

LEMMA EndTellKept ==
  ASSUME Shape, Roles, NEW a, EndTell(a)
  PROVE  Kept
<1> DEFINE e == Told("ended", a.call)
           o == Other(a.by)
<1>1. /\ UNCHANGED <<me, task, wire, line, lost, faults>> /\ a \in Ask
      /\ asks' = (asks \ {a}) \cup {[a EXCEPT !.at = "told"]}
      /\ queue' = [queue EXCEPT ![o] = Append(@, e)]
  BY DEF EndTell, Post, Shape, HookTypeOK
<1>2. a.call \in Calls /\ a.by \in Clients /\ [a EXCEPT !.at = "told"] \in Ask
  BY <1>1 DEF Ask
<1>3. e \in Note /\ e.kind = "ended" /\ o \in Clients
  BY <1>2, OtherEnd DEF Told, Note
<1>4. line' \in [Calls -> Row] /\ Remembered /\ Extras /\ wire' \subseteq Sent
  BY <1>1, <1>2 DEF Extras, Remembered, Shape, HookTypeOK
<1> HIDE DEF e, o
<1>5. queue \in [Clients -> Seq(Note)] /\ queue[o] \in Seq(Note)
  BY <1>3 DEF Shape
<1>6. queue' \in [Clients -> Seq(Note)]
  <2>1. Append(queue[o], e) \in Seq(Note)
    BY <1>3, <1>5
  <2> QED
    BY <1>1, <1>5, <2>1
<1>7. ASSUME NEW q \in Clients PROVE Advances(q)
  <2>1. ASSUME NEW i \in DOMAIN queue'[q]
        PROVE  \/ Quiet(q, queue'[q][i])
               \/ i + 0 \in DOMAIN queue[q] /\ queue'[q][i] = queue[q][i + 0]
    <3>1. CASE q = o
      <4>1. queue'[q] = Append(queue[q], e) /\ queue[q] \in Seq(Note)
        BY <1>1, <1>5, <3>1
      <4>2. Quiet(q, e)
        BY <1>3 DEF Quiet
      <4> QED
        BY <4>1, <4>2
    <3>2. CASE q # o
      <4>1. queue'[q] = queue[q] /\ queue[q] \in Seq(Note)
        BY <1>1, <1>5, <3>2
      <4> QED
        BY <4>1
    <3> QED
      BY <3>1, <3>2
  <2> QED
    BY <2>1 DEF Advances
<1> QED
  BY <1>1, <1>4, <1>6, <1>7, ServerKept

LEMMA EndLostKept ==
  ASSUME Shape, Roles, NEW a, EndLost(a)
  PROVE  Kept
<1>1. /\ UNCHANGED <<me, task, queue, wire, line>> /\ a.call \in Calls
      /\ asks' \subseteq asks /\ lost' = lost \cup {a.call} /\ faults' \in 0..MaxFaults
  BY FaultCounts DEF EndLost, Shape, HookTypeOK, Ask
<1>2. line' \in [Calls -> Row] /\ Remembered /\ Extras /\ wire' \subseteq Sent
  BY <1>1 DEF Extras, Remembered, Shape, HookTypeOK
<1> QED
  BY <1>1, <1>2, QueuesStay, ServerKept

LEMMA LoseSignalKept ==
  ASSUME Shape, Roles, NEW s, LoseSignal(s)
  PROVE  Kept
<1>1. /\ UNCHANGED <<me, task, queue, line, asks>> /\ s.call \in Calls
      /\ wire' \subseteq wire /\ lost' = lost \cup {s.call} /\ faults' \in 0..MaxFaults
  BY FaultCounts DEF LoseSignal, Shape, HookTypeOK
<1>2. line' \in [Calls -> Row] /\ Remembered /\ Extras /\ wire' \subseteq Sent
  BY <1>1 DEF Extras, Remembered, Shape, HookTypeOK
<1> QED
  BY <1>1, <1>2, QueuesStay, ServerKept

\* An event that is lost; an ack that is lost is a refusal, of the same call, to the
\* same client.
LEMMA LoseEventKept ==
  ASSUME Shape, Roles, NEW p \in Clients, LoseEvent(p)
  PROVE  Kept
<1> DEFINE e == Head(queue[p])
           r == Told("refused", e.call)
           t == Tail(queue[p])
<1>1. /\ UNCHANGED <<me, task, wire, line, asks>> /\ queue[p] # <<>>
      /\ lost' = lost \cup {e.call} /\ faults' \in 0..MaxFaults
  BY FaultCounts DEF LoseEvent
<1>2. /\ e \in Note /\ e = queue[p][1] /\ queue[p] \in Seq(Note) /\ t \in Seq(Note)
      /\ queue \in [Clients -> Seq(Note)] /\ 1 \in DOMAIN queue[p]
  BY <1>1, HookShape DEF Shape
<1>3. e.call \in Calls
  BY <1>2 DEF Note
<1>4. line' \in [Calls -> Row] /\ Remembered /\ Extras /\ wire' \subseteq Sent
  BY <1>1, <1>3 DEF Extras, Remembered, Shape, HookTypeOK
<1>5. CASE queue' = Rest(p)
  <2>1. Rest(p) \in [Clients -> Seq(Note)] /\ \A q \in Clients : Advances(q)
    <3>1. FromQueue(p, Rest(p))
      BY <1>1 DEF FromQueue
    <3>2. /\ Rest(p) \in [Clients -> Seq(Note)]
          /\ \A q \in Clients : \E k \in {0, 1} :
               \A i \in DOMAIN Rest(p)[q] :
                 i + k \in DOMAIN queue[q] /\ Rest(p)[q][i] = queue[q][i + k]
      BY <3>1, FromShape
    <3> QED
      BY <1>5, <3>2 DEF Advances
  <2> QED
    BY <1>1, <1>4, <1>5, <2>1, ServerKept
<1>6. CASE /\ e.kind \in {"started", "joined"}
           /\ queue' = [queue EXCEPT ![p] = <<r>> \o t]
  <2>1. r \in Note /\ r.kind = "refused" /\ r.call = e.call
    BY <1>3 DEF Told, Note
  <2> HIDE DEF e, r, t
  <2>2. /\ <<r>> \o t \in Seq(Note) /\ queue'[p] = <<r>> \o t
        /\ queue' \in [Clients -> Seq(Note)]
    <3>1. <<r>> \o t \in Seq(Note)
      BY <1>2, <2>1
    <3> QED
      BY <1>2, <1>6, <3>1
  <2>3. queue'[p][1] = r /\ DOMAIN queue'[p] = DOMAIN queue[p]
        /\ \A i \in DOMAIN queue[p] : i # 1 => queue'[p][i] = queue[p][i]
    <3>1. Len(t) = Len(queue[p]) - 1 /\ \A i \in 1..Len(t) : t[i] = queue[p][i + 1]
      BY <1>1, <1>2 DEF t
    <3>2. /\ Len(<<r>> \o t) = 1 + Len(t) /\ (<<r>> \o t)[1] = r
          /\ \A i \in 2..(1 + Len(t)) : (<<r>> \o t)[i] = t[i - 1]
      BY <1>2, <2>1
    <3> QED
      BY <1>2, <2>2, <3>1, <3>2
  <2>4. \A q \in Clients : q # p => queue'[q] = queue[q]
    BY <1>2, <1>6
  <2>5. \A q \in Clients : \A i \in DOMAIN queue'[q] :
          /\ i \in DOMAIN queue[q] /\ queue'[q][i].call = queue[q][i].call
          /\ \/ queue'[q][i] = queue[q][i]
             \/ /\ queue'[q][i].kind = "refused"
                /\ queue[q][i].kind \in {"started", "joined"}
    BY <1>2, <1>6, <2>1, <2>3, <2>4
  <2>6. ASSUME NEW q \in Clients, NEW i \in DOMAIN queue'[q], Replies(q, i)'
        PROVE  Replies(q, i)
    <3>1. queue[q][i].kind = "joined" => Caller[queue[q][i].call] # q
      BY <2>5, <2>6 DEF Roles
    <3> QED
      BY <2>5, <2>6, <3>1 DEF Replies
  <2>7. Roles'
    <3>1. ASSUME NEW q \in Clients
          PROVE  me'[q].inc # NoCall => Caller[me'[q].inc] # q /\ line'[me'[q].inc] # "none"
      BY <1>1 DEF Roles
    <3>2. ASSUME NEW q \in Clients, NEW i \in DOMAIN queue'[q]
          PROVE  LET x == queue'[q][i]
                 IN  /\ x.kind = "started" => Caller[x.call] = q
                     /\ x.kind \in {"joined", "incoming"} => Caller[x.call] # q
                     /\ x.kind \in {"incoming", "started", "joined", "refused"} =>
                          line'[x.call] # "none"
                     /\ Replies(q, i)' => task'[q][x.call].at = "asking"
      BY <1>1, <2>5, <2>6 DEF Roles
    <3>3. ASSUME NEW q \in Clients,
                 NEW i \in DOMAIN queue'[q], NEW j \in DOMAIN queue'[q],
                 Replies(q, i)', Replies(q, j)', queue'[q][i].call = queue'[q][j].call
          PROVE  i = j
      BY <2>5, <2>6, <3>3 DEF Roles
    <3> QED
      BY <3>1, <3>2, <3>3 DEF Roles
  <2>8. Shape'
    <3>1. ASSUME NEW q \in Clients, NEW i \in DOMAIN queue'[q]
          PROVE  queue'[q][i].call \in Calls
      <4>1. queue[q][i].call \in Calls
        BY <2>5 DEF Shape, HookTypeOK
      <4> QED
        BY <2>5, <4>1
    <3> QED
      BY <1>1, <1>4, <2>2, <3>1 DEF Shape, HookTypeOK, Extras
  <2>9. Lit => Lit'
    BY <1>1 DEF Lit
  <2> QED
    BY <2>7, <2>8, <2>9 DEF Kept, Undisturbed
<1> QED
  BY <1>5, <1>6 DEF LoseEvent

\* A signal the server does not relay, and the sweep.
LEMMA UnrelayedKept ==
  ASSUME Shape, Roles, NEW s \in wire, Unrelayed(s)
  PROVE  Kept
<1>1. UNCHANGED <<me, task, queue, line, asks, lost, faults>> /\ wire' \subseteq wire
  BY DEF Unrelayed, server
<1>2. line' \in [Calls -> Row] /\ Remembered /\ Extras /\ wire' \subseteq Sent
  BY <1>1 DEF Extras, Remembered, Shape, HookTypeOK
<1> QED
  BY <1>1, <1>2, QueuesStay, ServerKept

LEMMA ExpireKept ==
  ASSUME Shape, Roles, NEW c \in Calls, Expire(c)
  PROVE  Kept
<1>1. /\ UNCHANGED <<me, task, queue, wire, asks, lost, faults>>
      /\ line \in [Calls -> Row] /\ line' = [line EXCEPT ![c] = "expired"]
  BY DEF Expire, Shape, HookTypeOK
<1>2. line' \in [Calls -> Row] /\ Remembered
  BY <1>1 DEF Row, Remembered
<1>3. Extras /\ wire' \subseteq Sent
  BY <1>1 DEF Extras, Shape, HookTypeOK
<1> QED
  BY <1>1, <1>2, <1>3, QueuesStay, ServerKept

-----------------------------------------------------------------------------
(* The theorems.                                                           *)

\* At first nobody is in a call.
LEMMA HInvInit == SteadyInit => HInv
<1> SUFFICES ASSUME SteadyInit PROVE HInv
  OBVIOUS
<1>1. Fresh \in Hook /\ Whole(Fresh) /\ Dark(Fresh) /\ Fresh.inc = NoCall /\ Fresh.pc = NoPeer
  BY NoPeerType DEF Fresh, Hook, States, Whole, Dark
<1>2. \A p \in Clients : me[p] = Fresh /\ queue[p] = <<>> /\ \A c \in Calls : task[p][c] = Done
  BY DEF SteadyInit, HookInit
<1>3. Done \in Task /\ Done.at = "none" /\ "none" \in Row
  BY DEF Done, Task, Row
<1>4. Shape
  <2>1. me \in [Clients -> Hook] /\ task \in [Clients -> [Calls -> Task]]
    BY <1>1, <1>3 DEF SteadyInit, HookInit
  <2>2. line \in [Calls -> Row] /\ asks = {} /\ lost = {} /\ faults \in 0..MaxFaults
    BY <1>3, BoundsAreNats DEF SteadyInit, HookInit
  <2>3. queue \in [Clients -> Seq(Note)] /\ wire \subseteq Sent
    BY DEF SteadyInit, HookInit
  <2>4. \A p \in Clients : DOMAIN queue[p] = {}
    BY <1>2, DOMAIN <<>> = {}
  <2>5. \A s \in wire : FALSE
    BY DEF SteadyInit, HookInit
  <2> QED
    BY <1>1, <1>2, <2>1, <2>2, <2>3, <2>4, <2>5 DEF Shape, HookTypeOK
<1>5. Roles
  <2>1. \A p \in Clients : DOMAIN queue[p] = {} /\ me[p].inc = NoCall
    BY <1>1, <1>2, DOMAIN <<>> = {}
  <2> QED
    BY <2>1 DEF Roles
<1>6. NeverOvertaken
  BY <1>2, <1>3 DEF NeverOvertaken, Overtaken
<1>7. Lit
  BY <1>1, <1>2 DEF Lit, Dark
<1> QED
  BY <1>4, <1>5, <1>6, <1>7 DEF HInv

\* Every step, action by action.
LEMMA NextKept ==
  ASSUME Shape, Roles, [HookNext]_hookvars
  PROVE  Kept
<1>1. CASE UNCHANGED hookvars
  <2>1. Shape' /\ Roles'
    BY <1>1 DEF hookvars, Shape, HookTypeOK, Roles, Replies
  <2>2. Lit => Lit'
    BY <1>1 DEF hookvars, Lit
  <2> QED
    BY <2>1, <2>2 DEF Kept, Undisturbed
<1>2. ASSUME NEW p \in Clients, User(p) PROVE Kept
  BY <1>2, CallKept, AcceptKept, DeclineKept, HangUpKept DEF User
<1>3. ASSUME NEW p \in Clients, Media(p) PROVE Kept
  BY <1>3, CallMediaKept, AnswerMediaKept, MediaFailsKept DEF Media
<1>4. ASSUME NEW p \in Clients, Receive(p) PROVE Kept
  BY <1>4, StartedKept, JoinedKept, RefusedKept, IncomingKept, AcceptedKept, EndedKept
     DEF Receive
<1>5. ASSUME NEW p \in Clients, Listen(p) PROVE Kept
  BY <1>5, OfferKept, TakeAnswerKept, CandidateKept DEF Listen
<1>6. ASSUME NEW p \in Clients, Negotiate(p) PROVE Kept
  BY <1>6, MakeOfferKept, SendOfferKept, DescribedKept, AnsweredKept DEF Negotiate
<1>7. ASSUME NEW p \in Clients, Network(p) PROVE Kept
  BY <1>7, DropKept, FailKept, RestartTimerKept DEF Network
<1>8. ASSUME Serve PROVE Kept
  BY <1>8, EndCommitKept, EndTellKept DEF Serve
<1>9. ASSUME Loss PROVE Kept
  BY <1>9, EndLostKept, LoseEventKept, LoseSignalKept DEF Loss
<1> QED
  BY <1>1, <1>2, <1>3, <1>4, <1>5, <1>6, <1>7, <1>8, <1>9,
     ConnectKept, IdleTimerKept, UnrelayedKept, ExpireKept DEF HookNext

\* While no function has been overtaken, no step overtakes one either.
LEMMA HInvNext == HInv /\ [SteadyNext]_<<hookvars, steady>> => HInv'
<1> SUFFICES ASSUME HInv, [SteadyNext]_<<hookvars, steady>> PROVE HInv'
  OBVIOUS
<1>1. \/ HookNext /\ steady' = (steady /\ NeverOvertaken')
      \/ UNCHANGED hookvars /\ steady' = steady
  BY DEF SteadyNext
<1>2. Kept
  BY <1>1, NextKept DEF HInv
<1>3. steady' => steady /\ NeverOvertaken'
  <2>1. CASE HookNext /\ steady' = (steady /\ NeverOvertaken')
    BY <2>1, Zenon
  <2>2. CASE UNCHANGED hookvars /\ steady' = steady
    <3>1. NeverOvertaken => NeverOvertaken'
      BY <2>2 DEF hookvars, NeverOvertaken, Overtaken
    <3> QED
      BY <2>2, <3>1, Zenon DEF HInv
  <2> QED
    BY <1>1, <2>1, <2>2
<1>4. steady' => Lit'
  BY <1>2, <1>3 DEF Kept, Undisturbed, HInv
<1> QED
  BY <1>2, <1>3, <1>4 DEF Kept, HInv

\* The inductive invariant of the call hook, for any number of calls between its two
\* ends, of restarts and of changes of the network.
THEOREM HookInvariance == SteadySpec => []HInv
  BY HInvInit, HInvNext, PTL DEF SteadySpec

\* The hook's refs are what its functions expect, and no microphone is on but that of
\* the call its client is in, however the calls before it ended, as long as call() and
\* accept() are not overtaken (useCall.ts, cleanup: "Tracks first").
THEOREM HookCorrect == SteadySpec => []HookIsSound
<1>1. HInv => HookIsSound
  BY DEF HInv, Shape, Lit, HookIsSound, MicrophoneOff
<1> QED
  BY <1>1, HookInvariance, PTL
=============================================================================
