---------------------------- MODULE GroupsSerial ----------------------------
(***************************************************************************)
(* Groups with a history variable: `serial` says that no two handlers have *)
(* overlapped so far, failures between two statements included. While it   *)
(* holds the group is the machine the comments of chat.service.ts          *)
(* describe.                                                               *)
(***************************************************************************)
EXTENDS Groups

AllIdle(R) == \A r \in R : req[r].at \notin InFlight

SerialNext ==
  \/ \E me \in Users, others \in SUBSET Users : Create(me, others)
  \/ \E r \in Reqs : /\ AllIdle(Reqs \ {r})
                     /\ Arrive(r) \/ Continue(r) \/ Abort(r)

VARIABLE serial       \* no two handlers have overlapped so far

HistoryInit == Init /\ serial = TRUE
HistoryNext == Next /\ serial' = (serial /\ SerialNext)
HistorySpec == HistoryInit /\ [][HistoryNext]_<<vars, serial>>

\* removeMember: "an owner cannot be removed by an admin", nor an admin by an
\* admin: whoever is out by another's doing ranked below him at that moment.
RankRespected ==
  \A u \in present \ present' :
    \E r \in Reqs :
      \/ req[r].at = "leave" /\ req[r].me = u
      \/ /\ req[r].at = "remove" /\ req[r].other = u
         /\ \/ RoleIn(req[r].me) = "owner" /\ role[u] # "owner"
            \/ RoleIn(req[r].me) = "admin" /\ role[u] = "member"

RemovalRespectsRank == [][serial' => RankRespected]_vars

\* leave(): "a group with no owner can never be administered again": while no two
\* handlers have overlapped there is one as long as somebody is in, and the group is
\* retired exactly by the last to leave.
SomebodyIsInCharge == serial => GroupHasOwner /\ RetiredWhenEmpty

\* What the one handler in flight has read is still so.
Current(q) ==
  /\ q.at = "add" => q.me \in present
  /\ q.at \in {"remove_rank", "remove"} =>
       q.me \in present /\ q.me # q.other /\ q.role = role[q.me]
  /\ q.at = "remove" => /\ q.other \in present
                        /\ \/ role[q.other] = "member"
                           \/ role[q.other] = "admin" /\ q.role = "owner"
  /\ q.at = "leave" => q.me \in present /\ q.role = role[q.me]

OneAtATime ==
  \A r, s \in Reqs :
    req[r].at \in InFlight /\ req[s].at \in InFlight => r = s

\* With these GroupHasOwner is inductive under HistorySpec.
SerialInv ==
  /\ IInv /\ GroupHasOwner /\ RetiredWhenEmpty
  /\ ~Made => ~retired
  /\ \A r \in Reqs : Current(req[r])
  /\ OneAtATime
=============================================================================
