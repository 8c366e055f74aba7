------------------------------- MODULE Calls -------------------------------
(***************************************************************************)
(* The call server: calls.service.ts and the handlers of calls.gateway.ts. *)
(*                                                                         *)
(* A handler is a sequence of awaited database statements.  Each statement *)
(* (and each db.tx block, which locks the call's row first) is atomic;     *)
(* between two of them every other handler and the sweep may run.  So a    *)
(* request carries what it has read, in req[r], from the statement that    *)
(* read it to the statement that uses it.                                  *)
(*                                                                         *)
(* A request whose guard fails replies with an error and changes nothing,  *)
(* so a refusal in a handler's first statement is not a step of the model. *)
(***************************************************************************)
EXTENDS Naturals, FiniteSets

CONSTANTS Users,     \* accounts
          CallIds,   \* primary keys the calls table can hand out
          Reqs,      \* handlers that may be in flight at once
          None       \* SQL NULL, or a field a request does not use

ASSUME NoneIsFresh == None \notin Users \cup CallIds

VARIABLES call,       \* CallIds -> the row of calls and its call_participants
          rungOut,    \* calls created more than RING_TIMEOUT_MS ago
          notified,   \* CallIds -> number of call_missed notifications
          online,     \* users with a socket in their room
          req,        \* Reqs -> the handler's position and local variables
          event       \* what the last step delivered to a socket, or NoEvent

vars == <<call, rungOut, notified, online, req, event>>

-----------------------------------------------------------------------------
Live   == {"ringing", "active"}
Final  == {"ended", "missed", "rejected", "failed"}
Status == Live \cup Final

\* A row of calls with its two call_participants; status "none": no such row.
CallRow == [status    : Status \cup {"none"},
            initiator : Users \cup {None},
            callee    : Users \cup {None},
            joined    : SUBSET Users,       \* participants with joined_at
            left      : BOOLEAN,            \* participants have left_at
            started   : BOOLEAN,            \* started_at is set
            ended     : BOOLEAN]            \* ended_at is set

NoRow == [status |-> "none", initiator |-> None, callee |-> None,
          joined |-> {}, left |-> FALSE, started |-> FALSE, ended |-> FALSE]

Rows == {c \in CallIds : call[c].status # "none"}

Parties(c) == {call[c].initiator, call[c].callee}

OtherParty(c, u) ==
  IF u = call[c].initiator THEN call[c].callee ELSE call[c].initiator

InCall(u) == \E c \in CallIds : call[c].status \in Live /\ u \in Parties(c)

-----------------------------------------------------------------------------
(* Handlers in flight.  "at" names the statement the handler runs next.    *)

StartSteps  == {"start_busy", "start_insert", "start_ring"}
AcceptSteps == {"accept_write", "accept_emit"}
EndSteps    == {"end_write", "end_notify", "end_emit"}
InFlight    == StartSteps \cup AcceptSteps \cup EndSteps \cup {"signal_relay"}

Request == [at   : InFlight \cup {"idle"},
            user : Users \cup {None},
            peer : Users \cup {None},            \* calleeId of call:start
            call : CallIds \cup {None},
            out  : Final \cup {None}]            \* status end() computed

Idle == [at |-> "idle", user |-> None, peer |-> None, call |-> None, out |-> None]

Goto(r, step) == req' = [req EXCEPT ![r].at = step]
Finish(r)     == req' = [req EXCEPT ![r] = Idle]

\* server.to(`user:${to}`).emit(...): lost when the addressee has no socket.
Event == [kind : {"incoming", "accepted", "ended", "signal"},
          call : CallIds, to : Users]

NoEvent == [kind |-> "none", call |-> None, to |-> None]

Emit(kind, c, to) ==
  event' = IF to \in online THEN [kind |-> kind, call |-> c, to |-> to]
                             ELSE NoEvent

Silent == event' = NoEvent

-----------------------------------------------------------------------------
Init ==
  /\ call      = [c \in CallIds |-> NoRow]
  /\ rungOut   = {}
  /\ notified  = [c \in CallIds |-> 0]
  /\ online    = Users
  /\ req       = [r \in Reqs |-> Idle]
  /\ event     = NoEvent

-----------------------------------------------------------------------------
(* call:start                                                              *)

\* assertCallable asks the friends service and the account tables, which other
\* modules own: any two different users may pass it.
StartCheck(r, u, v) ==
  /\ req[r].at = "idle" /\ u \in online
  /\ u # v
  /\ req' = [req EXCEPT ![r] =
               [Idle EXCEPT !.at = "start_busy", !.user = u, !.peer = v]]
  /\ Silent /\ UNCHANGED <<call, rungOut, notified, online>>

StartBusy(r) ==
  /\ req[r].at = "start_busy"
  /\ IF InCall(req[r].user) \/ InCall(req[r].peer)
       THEN Finish(r)
       ELSE Goto(r, "start_insert")
  /\ Silent /\ UNCHANGED <<call, rungOut, notified, online>>

StartInsert(r, c) ==
  /\ req[r].at = "start_insert"
  /\ c \notin Rows
  /\ call' = [call EXCEPT ![c] =
                [NoRow EXCEPT !.status = "ringing",
                              !.initiator = req[r].user,
                              !.callee = req[r].peer,
                              !.joined = {req[r].user}]]
  /\ req' = [req EXCEPT ![r] = [@ EXCEPT !.at = "start_ring", !.call = c]]
  /\ Silent /\ UNCHANGED <<rungOut, notified, online>>

StartRing(r) ==
  /\ req[r].at = "start_ring"
  /\ Emit("incoming", req[r].call, req[r].peer)
  /\ Finish(r)
  /\ UNCHANGED <<call, rungOut, notified, online>>

-----------------------------------------------------------------------------
(* call:accept.  The service asks only that the accepter is a participant. *)

\* Fault: the caller is told before the row is written.
AcceptEmitsFirst(r, u, c) ==
  /\ req[r].at = "idle" /\ u \in online
  /\ c \in Rows /\ u \in Parties(c)
  /\ call[c].status = "ringing"
  /\ req' = [req EXCEPT ![r] =
               [Idle EXCEPT !.at = "accept_emit", !.user = u, !.call = c]]
  /\ Silent /\ UNCHANGED <<call, rungOut, notified, online>>

AcceptRead(r, u, c) ==
  /\ req[r].at = "idle" /\ u \in online
  /\ c \in Rows /\ u \in Parties(c)
  /\ call[c].status = "ringing"
  /\ req' = [req EXCEPT ![r] =
               [Idle EXCEPT !.at = "accept_write", !.user = u, !.call = c]]
  /\ Silent /\ UNCHANGED <<call, rungOut, notified, online>>

AcceptWrite(r) ==
  LET c == req[r].call IN
  /\ req[r].at = "accept_write"
  /\ call' = [call EXCEPT ![c] =
                [@ EXCEPT !.status = "active", !.started = TRUE,
                          !.joined = call[c].joined \cup {req[r].user}]]
  /\ Goto(r, "accept_emit")
  /\ Silent /\ UNCHANGED <<rungOut, notified, online>>

AcceptEmit(r) ==
  /\ req[r].at = "accept_emit"
  /\ Emit("accepted", req[r].call, OtherParty(req[r].call, req[r].user))
  /\ Finish(r)
  /\ UNCHANGED <<call, rungOut, notified, online>>

-----------------------------------------------------------------------------
(* call:end.  failed: the client's reason was 'failed'.                    *)

\* Fault: the two sides of an unanswered call are confused.
VerdictSwapsSides(u, c, failed) ==
  IF failed THEN "failed"
  ELSE IF call[c].status = "active" THEN "ended"
  ELSE IF u = call[c].initiator THEN "rejected" ELSE "missed"

Verdict(u, c, failed) ==
  IF failed THEN "failed"
  ELSE IF call[c].status = "active" THEN "ended"
  ELSE IF u = call[c].initiator THEN "missed" ELSE "rejected"

\* Fault: a call that is over is ended again.
EndAgain(r, u, c, failed) ==
  /\ req[r].at = "idle" /\ u \in online
  /\ c \in Rows /\ u \in Parties(c)
  /\ req' = [req EXCEPT ![r] =
               [Idle EXCEPT !.at = "end_write", !.user = u, !.call = c,
                            !.out = Verdict(u, c, failed)]]
  /\ Silent /\ UNCHANGED <<call, rungOut, notified, online>>

EndRead(r, u, c, failed) ==
  LET over == call[c].status \in Final
      out  == IF over THEN call[c].status ELSE Verdict(u, c, failed)
  IN  /\ req[r].at = "idle" /\ u \in online
      /\ c \in Rows /\ u \in Parties(c)
      /\ req' = [req EXCEPT ![r] =
                   [Idle EXCEPT !.at = IF over THEN "end_emit" ELSE "end_write",
                                  !.user = u, !.call = c, !.out = out]]
      /\ Silent /\ UNCHANGED <<call, rungOut, notified, online>>

\* Fault: every ended call is notified as missed.
EndAlwaysNotifies(r) ==
  /\ req[r].at = "end_write"
  /\ call' = [call EXCEPT ![req[r].call] =
                [@ EXCEPT !.status = req[r].out, !.ended = TRUE, !.left = TRUE]]
  /\ Goto(r, "end_notify")
  /\ Silent /\ UNCHANGED <<rungOut, notified, online>>

EndWrite(r) ==
  /\ req[r].at = "end_write"
  /\ call' = [call EXCEPT ![req[r].call] =
                [@ EXCEPT !.status = req[r].out, !.ended = TRUE, !.left = TRUE]]
  /\ Goto(r, IF req[r].out = "missed" THEN "end_notify" ELSE "end_emit")
  /\ Silent /\ UNCHANGED <<rungOut, notified, online>>

\* The row goes to the party who is not the initiator.
EndNotify(r) ==
  /\ req[r].at = "end_notify"
  /\ notified' = [notified EXCEPT ![req[r].call] = @ + 1]
  /\ Goto(r, "end_emit")
  /\ Silent /\ UNCHANGED <<call, rungOut, online>>

EndEmit(r) ==
  /\ req[r].at = "end_emit"
  /\ Emit("ended", req[r].call, OtherParty(req[r].call, req[r].user))
  /\ Finish(r)
  /\ UNCHANGED <<call, rungOut, notified, online>>

-----------------------------------------------------------------------------
(* call:signal relays an SDP or ICE payload and stores nothing.            *)

SignalRead(r, u, c) ==
  /\ req[r].at = "idle" /\ u \in online
  /\ c \in Rows /\ u \in Parties(c)
  /\ call[c].status \in Live
  /\ req' = [req EXCEPT ![r] =
               [Idle EXCEPT !.at = "signal_relay", !.user = u, !.call = c]]
  /\ Silent /\ UNCHANGED <<call, rungOut, notified, online>>

SignalRelay(r) ==
  /\ req[r].at = "signal_relay"
  /\ Emit("signal", req[r].call, OtherParty(req[r].call, req[r].user))
  /\ Finish(r)
  /\ UNCHANGED <<call, rungOut, notified, online>>

-----------------------------------------------------------------------------
(* The sweep: one UPDATE over every ringing row past its timeout.          *)

\* Fault: the sweep looks for the calls that were answered.
OverdueAnswered == {c \in rungOut : call[c].status = "active"}

Overdue == {c \in rungOut : call[c].status = "ringing"}

ExpireRinging ==
  /\ Overdue # {}
  /\ call' = [c \in CallIds |->
                IF c \in Overdue
                  THEN [call[c] EXCEPT !.status = "missed", !.ended = TRUE]
                  ELSE call[c]]
  /\ Silent /\ UNCHANGED <<rungOut, notified, online, req>>

-----------------------------------------------------------------------------
(* The surroundings: time, failures and sockets.                           *)

\* RING_TIMEOUT_MS have passed since the call was created.
RingTimeout(c) ==
  /\ call[c].status = "ringing" /\ c \notin rungOut
  /\ rungOut' = rungOut \cup {c}
  /\ Silent /\ UNCHANGED <<call, notified, online, req>>

\* A statement throws, or the process dies: the rest of the handler is lost.
Abort(r) ==
  /\ req[r].at \in InFlight
  /\ Finish(r)
  /\ Silent /\ UNCHANGED <<call, rungOut, notified, online>>

Disconnect(u) ==
  /\ u \in online
  /\ online' = online \ {u}
  /\ Silent /\ UNCHANGED <<call, rungOut, notified, req>>

Reconnect(u) ==
  /\ u \in Users \ online
  /\ online' = online \cup {u}
  /\ Silent /\ UNCHANGED <<call, rungOut, notified, req>>

-----------------------------------------------------------------------------
\* What the event loop and the database do next for a request in flight.
Continue(r) ==
  \/ StartBusy(r)
  \/ \E c \in CallIds : StartInsert(r, c)
  \/ StartRing(r)
  \/ AcceptWrite(r)
  \/ AcceptEmit(r)
  \/ EndWrite(r)
  \/ EndNotify(r)
  \/ EndEmit(r)
  \/ SignalRelay(r)

Arrive(r) ==
  \E u \in Users :
    \/ \E v \in Users : StartCheck(r, u, v)
    \/ \E c \in CallIds :
         \/ AcceptRead(r, u, c)
         \/ \E failed \in BOOLEAN : EndRead(r, u, c, failed)
         \/ SignalRead(r, u, c)

Surroundings ==
  \/ \E c \in CallIds : RingTimeout(c)
  \/ \E u \in Users : Disconnect(u) \/ Reconnect(u)

Next ==
  \/ \E r \in Reqs : Arrive(r) \/ Continue(r) \/ Abort(r)
  \/ ExpireRinging
  \/ Surroundings

Spec == Init /\ [][Next]_vars

\* The event loop finishes what it started, time passes, the timer fires;
\* nothing obliges a client to send anything.
Fairness ==
  /\ \A r \in Reqs : WF_vars(Continue(r))
  /\ \A c \in CallIds : WF_vars(RingTimeout(c))
  /\ WF_vars(ExpireRinging)

FairSpec == Spec /\ Fairness

-----------------------------------------------------------------------------
(* Type invariant                                                          *)

TypeOK ==
  /\ call \in [CallIds -> CallRow]
  /\ rungOut \subseteq CallIds
  /\ notified \in [CallIds -> Nat]
  /\ online \subseteq Users
  /\ req \in [Reqs -> Request]
  /\ event \in Event \cup {NoEvent}

-----------------------------------------------------------------------------
(* What the server keeps in every interleaving.                            *)

\* A call logged as 'ended' was answered: the log's duration_sec is the
\* difference of two timestamps that both exist (end(), history()).
EndedWasAnswered ==
  \A c \in CallIds :
    call[c].status = "ended" => call[c].started /\ call[c].ended

\* Whatever the client asked for, an event about a call reaches one of its two
\* parties, the invitation reaches the callee, and a party is told the call was
\* accepted only if it was (the gateway's emits after participantCall).
EventsMatchCall ==
  event # NoEvent =>
    /\ event.call \in Rows /\ event.to \in Parties(event.call)
    /\ event.kind = "incoming" => event.to = call[event.call].callee
    /\ event.kind = "accepted" => call[event.call].started
    /\ event.kind = "ended" => call[event.call].ended

\* Nobody is notified of a missed call before the row that says so is
\* committed (end(): the INSERT follows the transaction).
NoticeAfterCommit ==
  \A c \in CallIds : notified[c] > 0 => call[c].ended

\* Nobody is told what is not so.
LogIsSound == EndedWasAnswered /\ EventsMatchCall /\ NoticeAfterCommit

\* r is the handler whose transaction this step commits for call c.
Commits(r, c) == req[r].at = "end_write" /\ req[r].call = c /\ req'[r] # req[r]

\* "The callee declining a ringing call is rejected, the caller giving up is
\* missed": however stale the read the verdict was computed from, the log
\* blames the party who acted, or the timeout.
VerdictsAttributed ==
  \A c \in CallIds : call'[c].status # call[c].status =>
    /\ call'[c].status = "rejected" =>
         \E r \in Reqs : Commits(r, c) /\ req[r].user = call[c].callee
    /\ call'[c].status = "missed" =>
         \/ c \in Overdue
         \/ \E r \in Reqs : Commits(r, c) /\ req[r].user = call[c].initiator

\* A row of calls is a history: it is never removed or re-addressed, a
\* timestamp once set stays set, and a call that stopped ringing never rings
\* again, in whatever order the handlers' transactions commit.
HistoryKept ==
  \A c \in Rows :
    /\ c \in Rows'
    /\ call'[c].initiator = call[c].initiator
    /\ call'[c].callee = call[c].callee
    /\ call[c].started => call'[c].started
    /\ call[c].ended => call'[c].ended
    /\ call'[c].status = "ringing" => call[c].status = "ringing"

\* What the log says is final, and said of the right party.
LogIsFinal == [][HistoryKept /\ VerdictsAttributed]_vars

\* "A call nobody answers should not ring forever" (RING_TIMEOUT_MS).
RingingStops ==
  \A c \in CallIds : call[c].status = "ringing" ~> call[c].status # "ringing"

-----------------------------------------------------------------------------
(* The inductive strengthening of the invariants above: what a handler in  *)
(* flight still knows about its call, whatever has run since it read it.   *)

RowInv ==
  \A c \in CallIds :
    /\ call[c].status = "none" =>
         ~call[c].started /\ ~call[c].ended /\ call[c].joined = {}
    /\ call[c].status # "none" =>
         /\ call[c].initiator \in Users /\ call[c].callee \in Users
         /\ call[c].initiator # call[c].callee
         /\ call[c].initiator \in call[c].joined
    /\ call[c].status \in Final => call[c].ended
    /\ call[c].status \in {"active", "ended"} => call[c].started

\* What the handler record q may still rely on.
Coherent(q) ==
  /\ q.at \in StartSteps =>
       q.user \in Users /\ q.peer \in Users /\ q.user # q.peer
  /\ q.at \in InFlight \ {"start_busy", "start_insert"} =>
       q.call \in Rows /\ q.user \in Parties(q.call)
  /\ q.at = "start_ring" => q.peer = call[q.call].callee
  /\ q.at = "accept_emit" => call[q.call].started
  /\ q.at \in EndSteps => q.out \in Final
  /\ q.at = "end_write" /\ q.out = "ended" => call[q.call].started
  /\ q.at = "end_write" /\ q.out = "missed" => q.user = call[q.call].initiator
  /\ q.at = "end_write" /\ q.out = "rejected" => q.user = call[q.call].callee
  /\ q.at \in {"end_notify", "end_emit"} => call[q.call].ended

RequestInv == \A r \in Reqs : Coherent(req[r])

\* TypeOK, EventsMatchCall and NoticeAfterCommit preserved by every step.
IInv == TypeOK /\ RowInv /\ RequestInv /\ EventsMatchCall /\ NoticeAfterCommit

-----------------------------------------------------------------------------
(* What the source says and overlapping handlers break.                    *)

\* "One stale row locked both users out of calling permanently": a call whose
\* parties have both gone for good is not live for ever.
AbandonedCallEnds ==
  \A c \in CallIds :
    <>[](c \in Rows /\ Parties(c) \cap online = {})
      => <>[](call[c].status \notin Live)
=============================================================================
