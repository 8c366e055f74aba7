--------------------------- MODULE FriendsSerial ----------------------------
(***************************************************************************)
(* Friends with a history variable: `serial` says that no two handlers     *)
(* have overlapped so far, failures between two statements included. While *)
(* it holds the service is FriendGraph: every step is one of its moves or  *)
(* none. Friends shows what overlapping handlers leave of it.              *)
(***************************************************************************)
EXTENDS Friends

AllIdle(R) == \A r \in R : req[r].at \notin InFlight

SerialNext ==
  \/ \E r \in Reqs : /\ AllIdle(Reqs \ {r})
                     /\ Arrive(r) \/ Continue(r) \/ Abort(r)
  \/ AllIdle(Reqs) /\ Decide

VARIABLE serial       \* no two handlers have overlapped so far

HistoryInit == Init /\ serial = TRUE
HistoryNext == Next /\ serial' = (serial /\ SerialNext)
HistorySpec == HistoryInit /\ [][HistoryNext]_<<vars, serial>>

asks  == {<<request[i].from, request[i].to>> :
            i \in {j \in RequestIds : request[j].status = "pending"}}
moves == <<asks, friends, blocks>>

Graph == INSTANCE FriendGraph WITH bonds <- friends, bars <- blocks

\* The checks of sendRequest and accept, and the transactions of accept and
\* block, give every pair of users the state machine of the header: while no two
\* handlers have overlapped, every step is a move of FriendGraph or none.
ImplementsFriendGraph == Graph!Init /\ [][serial' => [Graph!Next]_moves]_vars

-----------------------------------------------------------------------------
(* The inductive strengthening: what the one handler in flight has read is *)
(* still so, and no two requests cross.                                    *)

Current(q) ==
  /\ q.at \in {"send_state", "send_insert", "accept_tx"} => ~Blocked(q.me, q.other)
  /\ q.at = "send_insert" => /\ {q.me, q.other} \notin friends
                             /\ Pending(q.me, q.other) = {}
                             /\ Pending(q.other, q.me) = {}
  /\ q.at \in {"accept_block", "accept_tx"} => request[q.id].status = "pending"

OneAtATime ==
  \A r, s \in Reqs :
    req[r].at \in InFlight /\ req[s].at \in InFlight => r = s

NoneCrosses == \A a, b \in Users : Pending(a, b) = {} \/ Pending(b, a) = {}
NoSelfBlock == \A u \in Users : <<u, u>> \notin blocks

SerialInv ==
  /\ IInv /\ OneAtATime
  /\ \A r \in Reqs : Current(req[r])
  /\ NoneCrosses /\ NoSelfBlock
=============================================================================
