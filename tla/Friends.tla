------------------------------ MODULE Friends -------------------------------
(***************************************************************************)
(* Friend requests, friendships and blocks: friends.service.ts over the    *)
(* tables and the friend_count trigger of schema.sql.                      *)
(*                                                                         *)
(* sendRequest and accept are chains of awaited statements; only the last  *)
(* step of accept and all of block are transactions.  What a handler read  *)
(* (the block, the state, the pending row) may be stale when it writes.    *)
(***************************************************************************)
EXTENDS Naturals, FiniteSets

CONSTANTS Users,       \* active accounts
          OpenUsers,   \* those with who_can_contact = 'everyone'
          RequestIds,  \* primary keys of friend_requests
          Reqs,        \* handlers of more than one statement, in flight at once
          None         \* SQL NULL, or a local variable not yet set

ASSUME UsersAreFinite == IsFiniteSet(Users) /\ OpenUsers \subseteq Users
ASSUME NoneIsFresh == None \notin Users \cup RequestIds

VARIABLES friends,   \* rows of friendships, each the set of its two users
          count,     \* profiles.friend_count
          request,   \* RequestIds -> row of friend_requests
          blocks,    \* rows of blocks, <<blocker, blocked>>
          notices,   \* rows of notifications about friends
          req        \* Reqs -> a handler's position and local variables

vars == <<friends, count, request, blocks, notices, req>>

-----------------------------------------------------------------------------
\* user_a < user_b gives each unordered pair one possible row.
Pairs == {{a, b} : a, b \in Users} \ {{a} : a \in Users}

Status == {"none", "pending", "accepted", "rejected", "cancelled"}

RequestRow == [from : Users \cup {None}, to : Users \cup {None}, status : Status]
NoRequest  == [from |-> None, to |-> None, status |-> "none"]

Notice == [to : Users, kind : {"friend_request", "friend_accepted"}, actor : Users]

InFlight == {"send_block", "send_state", "send_incoming", "send_insert",
             "accept_read", "accept_block", "accept_tx",
             "notify_request", "notify_accept"}

Handler == [at    : InFlight \cup {"idle"},
            me    : Users \cup {None},
            other : Users \cup {None},
            id    : RequestIds \cup {None}]

Idle == [at |-> "idle", me |-> None, other |-> None, id |-> None]

\* is_blocked_between
Blocked(a, b) == <<a, b>> \in blocks \/ <<b, a>> \in blocks

Pending(a, b) == {i \in RequestIds : /\ request[i].status = "pending"
                                     /\ request[i].from = a /\ request[i].to = b}

Settle(S, status) ==
  request' = [i \in RequestIds |->
                IF i \in S THEN [request[i] EXCEPT !.status = status] ELSE request[i]]

\* Fault: a conflicting INSERT is counted too.
AddFriendsTwice(p) ==
  /\ friends' = friends \cup {p}
  /\ count' = [u \in Users |-> IF u \in p THEN count[u] + 1 ELSE count[u]]

\* INSERT INTO friendships ... ON CONFLICT DO NOTHING, with sync_friend_count
AddFriends(p) ==
  /\ friends' = friends \cup {p}
  /\ count' = [u \in Users |->
                 IF p \notin friends /\ u \in p THEN count[u] + 1 ELSE count[u]]

\* DELETE FROM friendships, with sync_friend_count: GREATEST(0, friend_count - 1)
DropFriends(p) ==
  /\ friends' = friends \ {p}
  /\ count' = [u \in Users |->
                 IF p \in friends /\ u \in p /\ count[u] > 0
                   THEN count[u] - 1 ELSE count[u]]

Goto(r, step) == req' = [req EXCEPT ![r].at = step]
Finish(r)     == req' = [req EXCEPT ![r] = Idle]

-----------------------------------------------------------------------------
Init ==
  /\ friends = {}
  /\ count   = [u \in Users |-> 0]
  /\ request = [i \in RequestIds |-> NoRequest]
  /\ blocks  = {}
  /\ notices = {}
  /\ req     = [r \in Reqs |-> Idle]

-----------------------------------------------------------------------------
(* sendRequest                                                             *)

\* assertReachable finds the account; its block check is the next statement.
SendArrive(r, me, other) ==
  /\ req[r].at = "idle" /\ me # other
  /\ req' = [req EXCEPT ![r] =
               [Idle EXCEPT !.at = "send_block", !.me = me, !.other = other]]
  /\ UNCHANGED <<friends, count, request, blocks, notices>>

SendCheckBlock(r) ==
  /\ req[r].at = "send_block"
  /\ IF Blocked(req[r].me, req[r].other) THEN Finish(r) ELSE Goto(r, "send_state")
  /\ UNCHANGED <<friends, count, request, blocks, notices>>

\* stateBetween answers with its first match, and 'blocked' comes first; the
\* caller has no branch for it and goes on as for 'none'.
SendReadState(r) ==
  LET me      == req[r].me
      other   == req[r].other
      blocked == Blocked(me, other)
      refused == ~blocked /\ ({me, other} \in friends \/ Pending(me, other) # {})
      crossed == ~blocked /\ ~refused /\ Pending(other, me) # {}
  IN  /\ req[r].at = "send_state"
      /\ \/ refused /\ Finish(r)
         \/ crossed /\ Goto(r, "send_incoming")
         \/ /\ ~refused /\ ~crossed
            /\ IF other \in OpenUsers THEN Goto(r, "send_insert") ELSE Finish(r)
      /\ UNCHANGED <<friends, count, request, blocks, notices>>

\* incoming!.id throws when the row is no longer pending.
SendFindIncoming(r) ==
  LET incoming == Pending(req[r].other, req[r].me)
  IN  /\ req[r].at = "send_incoming"
      /\ \/ \E i \in incoming :
              req' = [req EXCEPT ![r] = [@ EXCEPT !.at = "accept_read", !.id = i]]
         \/ incoming = {} /\ Finish(r)
      /\ UNCHANGED <<friends, count, request, blocks, notices>>

\* friend_requests_one_pending fails a second pending row in one direction.
SendInsert(r, i) ==
  LET me    == req[r].me
      other == req[r].other
  IN  /\ req[r].at = "send_insert"
      /\ request[i].status = "none"
      /\ IF Pending(me, other) = {}
           THEN /\ request' = [request EXCEPT ![i] =
                                 [from |-> me, to |-> other, status |-> "pending"]]
                /\ Goto(r, "notify_request")
           ELSE /\ Finish(r)
                /\ UNCHANGED request
      /\ UNCHANGED <<friends, count, blocks, notices>>

-----------------------------------------------------------------------------
(* accept, called by a client or by sendRequest                            *)

AcceptArrive(r, me, i) ==
  /\ req[r].at = "idle" /\ request[i].status # "none"
  /\ req' = [req EXCEPT ![r] =
               [Idle EXCEPT !.at = "accept_read", !.me = me, !.id = i]]
  /\ UNCHANGED <<friends, count, request, blocks, notices>>

AcceptRead(r) ==
  LET row == request[req[r].id]
  IN  /\ req[r].at = "accept_read"
      /\ IF row.to = req[r].me /\ row.status = "pending"
           THEN req' = [req EXCEPT ![r] =
                          [@ EXCEPT !.at = "accept_block", !.other = row.from]]
           ELSE Finish(r)
      /\ UNCHANGED <<friends, count, request, blocks, notices>>

\* Fault: the block is not asked for.
AcceptUnchecked(r) ==
  /\ req[r].at = "accept_block"
  /\ Goto(r, "accept_tx")
  /\ UNCHANGED <<friends, count, request, blocks, notices>>

AcceptCheckBlock(r) ==
  /\ req[r].at = "accept_block"
  /\ IF Blocked(req[r].me, req[r].other) THEN Finish(r) ELSE Goto(r, "accept_tx")
  /\ UNCHANGED <<friends, count, request, blocks, notices>>

\* Fault: "AND status = 'pending'" on the UPDATE, and the INSERT regardless.
AcceptCommitsAnyway(r) ==
  LET me    == req[r].me
      other == req[r].other
  IN  /\ req[r].at = "accept_tx"
      /\ request' = [i \in RequestIds |->
                       CASE i = req[r].id /\ request[i].status = "pending" ->
                              [request[i] EXCEPT !.status = "accepted"]
                         [] i \in Pending(me, other) \ {req[r].id} ->
                              [request[i] EXCEPT !.status = "cancelled"]
                         [] OTHER -> request[i]]
      /\ AddFriends({me, other})
      /\ Goto(r, "notify_accept")
      /\ UNCHANGED <<blocks, notices>>

\* The transaction: UPDATE ... WHERE id, whatever the row's status is by now,
\* the requests that point the other way, and the friendship.
AcceptCommit(r) ==
  LET me    == req[r].me
      other == req[r].other
  IN  /\ req[r].at = "accept_tx"
      /\ request' = [i \in RequestIds |->
                       CASE i = req[r].id -> [request[i] EXCEPT !.status = "accepted"]
                         [] i \in Pending(me, other) \ {req[r].id} ->
                              [request[i] EXCEPT !.status = "cancelled"]
                         [] OTHER -> request[i]]
      /\ AddFriends({me, other})
      /\ Goto(r, "notify_accept")
      /\ UNCHANGED <<blocks, notices>>

\* notify, after either of the two writes
Notify(r) ==
  /\ req[r].at \in {"notify_request", "notify_accept"}
  /\ notices' = notices \cup
       {[to    |-> req[r].other, actor |-> req[r].me,
         kind  |-> IF req[r].at = "notify_request" THEN "friend_request"
                                                   ELSE "friend_accepted"]}
  /\ Finish(r)
  /\ UNCHANGED <<friends, count, request, blocks>>

-----------------------------------------------------------------------------
(* One statement or one transaction each.                                  *)

Reject(me, i) ==
  /\ request[i].to = me /\ request[i].status = "pending"
  /\ Settle({i}, "rejected")
  /\ UNCHANGED <<friends, count, blocks, notices, req>>

Cancel(me, i) ==
  /\ request[i].from = me /\ request[i].status = "pending"
  /\ Settle({i}, "cancelled")
  /\ UNCHANGED <<friends, count, blocks, notices, req>>

Remove(me, other) ==
  /\ {me, other} \in friends
  /\ DropFriends({me, other})
  /\ UNCHANGED <<request, blocks, notices, req>>

\* Fault: the pending requests survive.
BlockKeepsRequests(me, other) ==
  /\ me # other
  /\ blocks' = blocks \cup {<<me, other>>}
  /\ DropFriends({me, other})
  /\ UNCHANGED <<request, notices, req>>

Block(me, other) ==
  /\ me # other
  /\ blocks' = blocks \cup {<<me, other>>}
  /\ DropFriends({me, other})
  /\ Settle(Pending(me, other) \cup Pending(other, me), "cancelled")
  /\ UNCHANGED <<notices, req>>

Unblock(me, other) ==
  /\ <<me, other>> \in blocks
  /\ blocks' = blocks \ {<<me, other>>}
  /\ UNCHANGED <<friends, count, request, notices, req>>

\* A statement throws, or the process dies: the rest of the handler is lost.
Abort(r) ==
  /\ req[r].at \in InFlight
  /\ Finish(r)
  /\ UNCHANGED <<friends, count, request, blocks, notices>>

-----------------------------------------------------------------------------
Arrive(r) ==
  \E me \in Users :
    \/ \E other \in Users : SendArrive(r, me, other)
    \/ \E i \in RequestIds : AcceptArrive(r, me, i)

Continue(r) ==
  \/ SendCheckBlock(r) \/ SendReadState(r) \/ SendFindIncoming(r)
  \/ \E i \in RequestIds : SendInsert(r, i)
  \/ AcceptRead(r) \/ AcceptCheckBlock(r) \/ AcceptCommit(r)
  \/ Notify(r)

Decide ==
  \E me \in Users :
    \/ \E i \in RequestIds : Reject(me, i) \/ Cancel(me, i)
    \/ \E other \in Users :
         Remove(me, other) \/ Block(me, other) \/ Unblock(me, other)

Next ==
  \/ \E r \in Reqs : Arrive(r) \/ Continue(r) \/ Abort(r)
  \/ Decide

Spec == Init /\ [][Next]_vars

-----------------------------------------------------------------------------
(* Type invariant                                                          *)

TypeOK ==
  /\ friends \subseteq Pairs
  /\ count \in [Users -> Nat]
  /\ request \in [RequestIds -> RequestRow]
  /\ blocks \subseteq Users \X Users
  /\ notices \subseteq Notice
  /\ req \in [Reqs -> Handler]

-----------------------------------------------------------------------------
(* What every interleaving keeps.                                          *)

\* friend_count is the number of friendships ("keeps profiles.friend_count
\* honest"), however often a row is inserted or deleted twice.
FriendCountIsExact ==
  \A u \in Users : count[u] = Cardinality({p \in friends : u \in p})

\* Nobody is a friend unasked: a friendship, and the notice of an acceptance,
\* has an accepted request between its two users; the notice of a request has
\* that request.  Removals, blocks and lost statements never undo it.
Asked(a, b, S) == \E i \in RequestIds :
                    request[i].from = a /\ request[i].to = b /\ request[i].status \in S

FriendshipsWereAccepted ==
  \A p \in friends : \E a, b \in p : Asked(a, b, {"accepted"})

NoticesAreTrue ==
  \A n \in notices :
    IF n.kind = "friend_accepted" THEN Asked(n.to, n.actor, {"accepted"})
                                  ELSE Asked(n.actor, n.to, Status \ {"none"})

\* One direction has one pending row at a time, though sendRequest looks for it
\* in one statement and inserts in a later one (friend_requests_one_pending).
OnePendingEachWay ==
  \A a, b \in Users : \A i, j \in Pending(a, b) : i = j

\* Requests and friendships are what their users did.
RequestsAreTrue == FriendshipsWereAccepted /\ NoticesAreTrue /\ OnePendingEachWay

\* A handler on a and b that has its last look at blocks behind it.
PastItsCheck(a, b) ==
  \E r \in Reqs : /\ req[r].at \in {"send_state", "send_insert", "accept_tx"}
                  /\ {req[r].me, req[r].other} = {a, b}

\* Blocked, with nothing left between the two and nothing on its way.
Severed(a, b) ==
  /\ Blocked(a, b)
  /\ {a, b} \notin friends
  /\ Pending(a, b) = {} /\ Pending(b, a) = {}
  /\ ~PastItsCheck(a, b)

\* Once a block has outlived the handlers that were past their check, no handler
\* brings a friendship or a request back before the block is lifted.
SeveredHolds ==
  \A a, b \in Users : a # b /\ Severed(a, b) => Severed(a, b)' \/ ~Blocked(a, b)'

SeveredUntilUnblocked == [][SeveredHolds]_vars

-----------------------------------------------------------------------------
(* The inductive strengthening: what a handler in flight may rely on.      *)

Coherent(q) ==
  /\ q.at \in {"send_block", "send_state", "send_incoming", "send_insert"} =>
       q.me \in Users /\ q.other \in Users /\ q.me # q.other
  /\ q.at = "accept_read" =>
       /\ q.me \in Users /\ q.id \in RequestIds
       /\ request[q.id].status # "none"
  /\ q.at \in {"accept_block", "accept_tx"} =>
       /\ q.me \in Users /\ q.other \in Users /\ q.me # q.other
       /\ q.id \in RequestIds /\ request[q.id].status # "none"
       /\ request[q.id].from = q.other /\ request[q.id].to = q.me
  /\ q.at \in {"notify_request", "notify_accept"} =>
       q.me \in Users /\ q.other \in Users
  /\ q.at = "notify_request" => Asked(q.me, q.other, Status \ {"none"})
  /\ q.at = "notify_accept"  => Asked(q.other, q.me, {"accepted"})

HandlerInv == \A r \in Reqs : Coherent(req[r])

\* CHECK (from_user_id <> to_user_id), and keys not used yet
RowInv ==
  \A i \in RequestIds :
    request[i].status # "none" =>
      /\ request[i].from \in Users /\ request[i].to \in Users
      /\ request[i].from # request[i].to

IInv ==
  /\ TypeOK /\ RowInv /\ HandlerInv
  /\ FriendCountIsExact /\ FriendshipsWereAccepted /\ NoticesAreTrue /\ OnePendingEachWay

-----------------------------------------------------------------------------
(* What the source says and overlapping handlers break.                    *)

\* "Blocking severs everything: the friendship, both pending requests, and any
\* future contact."
BlockSevers ==
  \A a, b \in Users : Blocked(a, b) =>
    {a, b} \notin friends /\ Pending(a, b) = {}
=============================================================================
