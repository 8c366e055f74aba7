---------------------------- MODULE CallsSerial ----------------------------
(***************************************************************************)
(* The call server with a history variable: `serial` says that no two      *)
(* handlers have overlapped so far, that is that every request that        *)
(* arrived was finished or aborted before another arrived or the sweep     *)
(* ran. Requests still fail half-way, time passes and sockets drop between *)
(* two statements. While serial holds the server implements CallLog; Calls *)
(* shows what overlap leaves of that promise.                              *)
(***************************************************************************)
EXTENDS Calls

AllIdle(R) == \A r \in R : req[r].at \notin InFlight

SerialNext ==
  \/ \E r \in Reqs : /\ AllIdle(Reqs \ {r})
                     /\ Arrive(r) \/ Continue(r) \/ Abort(r)
  \/ AllIdle(Reqs) /\ ExpireRinging
  \/ Surroundings

VARIABLE serial       \* no two handlers have overlapped so far

HistoryInit == Init /\ serial = TRUE
HistoryNext == Next /\ serial' = (serial /\ SerialNext)
HistorySpec == HistoryInit /\ [][HistoryNext]_<<vars, serial>> /\ Fairness

lives == [c \in CallIds |-> [status    |-> call[c].status,
                              initiator |-> call[c].initiator,
                              callee    |-> call[c].callee]]

Promise == INSTANCE CallLog WITH log <- lives

\* start's busy check, accept's ringing check and end's early return are enough
\* to give every call the life CallLog describes: while no two handlers have
\* overlapped, every step is one of its moves or none.
ImplementsCallLog == Promise!Init /\ [][serial' => [Promise!Next]_lives]_vars

MissedOnce(c) == /\ notified[c] <= 1
                 /\ notified[c] = 1 => call[c].status = "missed"

\* A call that was completed is never notified as missed, and a missed one at
\* most once (end(): "a missed call is worth a notification; a completed one
\* is not").
NoticesMatchLog == serial => \A c \in CallIds : MissedOnce(c)

-----------------------------------------------------------------------------
(* The inductive strengthening: what the one handler in flight has read is *)
(* still so.                                                               *)

Current(q) ==
  /\ q.at = "start_insert" => ~InCall(q.user) /\ ~InCall(q.peer)
  /\ q.at = "accept_write" => call[q.call].status = "ringing"
  /\ q.at = "end_write" =>
       /\ call[q.call].status \in Live
       /\ q.out = "ended" => call[q.call].status = "active"
       /\ q.out \in {"missed", "rejected"} => call[q.call].status = "ringing"
  /\ q.at = "end_notify" =>
       call[q.call].status = "missed" /\ notified[q.call] = 0

OneAtATime ==
  \A r, s \in Reqs :
    req[r].at \in InFlight /\ req[s].at \in InFlight => r = s

SerialInv ==
  /\ IInv /\ OneAtATime
  /\ \A r \in Reqs : Current(req[r])
  /\ \A c \in CallIds : MissedOnce(c)
=============================================================================
