--------------------------- MODULE SessionsSerial ---------------------------
(***************************************************************************)
(* Sessions with a history variable: `serial` says that no two handlers    *)
(* have overlapped so far, that is that every request that arrived was     *)
(* finished or aborted before another arrived or a revocation was made.    *)
(*                                                                         *)
(* The comments of auth.service.ts, moderation.service.ts and password-    *)
(* reset.service.ts describe the runs in which it holds. What they say is  *)
(* kept there, failures between two statements included; that each of      *)
(* these sentences is broken once handlers overlap is due to overlap       *)
(* alone.                                                                  *)
(***************************************************************************)
EXTENDS Sessions

AllIdle(R) == \A r \in R : req[r].at \notin InFlight

SerialNext ==
  \/ \E r \in Reqs : /\ AllIdle(Reqs \ {r})
                     /\ Arrive(r) \/ Continue(r) \/ Abort(r)
  \/ AllIdle(Reqs) /\ Revocation
  \/ \E u \in Users : SuspensionLapses(u)

VARIABLE serial       \* no two handlers have overlapped so far

HistoryInit == Init /\ serial = TRUE
HistoryNext == Next /\ serial' = (serial /\ SerialNext)
HistorySpec == HistoryInit /\ [][HistoryNext]_<<vars, serial>>

Promises == /\ OneUsableTokenPerFamily /\ ReplayKillsFamily /\ BannedHasNoSession
            /\ ResetKillsFamily /\ OneDevicePerAgent

\* While no two handlers have overlapped, a login has one usable token at
\* most; replay kills it, and so does a reset; a banned account
\* has no session; and an agent that is known gets no second device.
PromisesKept == serial => Promises

-----------------------------------------------------------------------------
(* The inductive strengthening: what the one handler in flight has read is *)
(* still so.                                                               *)

\* Neither a replay nor a reset has reached the family.
Spared(f) ==
  \A s \in Family(f) : session[s].revoked \notin {"token_reuse", "password_reset"}

Current(q) ==
  /\ q.at \in {"device_find", "device_insert", "issue"} => account[q.user] # "banned"
  /\ q.at = "device_insert" =>
       \A d \in DeviceRows :
         device[d].user = q.user /\ device[d].agent = q.agent => device[d].revoked
  /\ q.at = "issue" /\ q.parent # None => Usable(q.parent)
  /\ q.at \in {"mark", "reply"} => Spared(q.family)
  /\ q.at = "mark" => \A s \in Family(q.family) : Usable(s) => s = q.parent
  /\ q.at = "reply" => \A s \in Family(q.family) : ~Usable(s)

OneAtATime ==
  \A r, s \in Reqs :
    req[r].at \in InFlight /\ req[s].at \in InFlight => r = s

SerialInv == IInv /\ OneAtATime /\ (\A r \in Reqs : Current(req[r])) /\ Promises
=============================================================================
