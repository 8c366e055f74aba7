------------------------------- MODULE Groups -------------------------------
(***************************************************************************)
(* Membership and roles of one group conversation: the group operations of *)
(* chat.service.ts.                                                        *)
(*                                                                         *)
(* Every operation reads the caller's role in one statement and writes in  *)
(* a later one; leave and removeMember write in a transaction, but what    *)
(* they act on was read before it.  Handlers touch one conversation, so    *)
(* one is enough.  Who is whose friend belongs to Friends: addMembers and  *)
(* createGroup may find any others to be.  System messages, titles and     *)
(* mutes are left out.                                                     *)
(***************************************************************************)
CONSTANTS Users,     \* active accounts
          Reqs,      \* handlers that may be in flight at once
          None       \* a local variable not yet set

ASSUME NoneIsFresh == None \notin Users

VARIABLES role,      \* conversation_members.role, "none": no row
          present,   \* members whose left_at is NULL
          retired,   \* conversations.deleted_at is set
          req        \* Reqs -> the handler's position and local variables

vars == <<role, present, retired, req>>

-----------------------------------------------------------------------------
Managers == {"owner", "admin"}
Role     == Managers \cup {"member", "none"}

\* The role of a user who has not left.
RoleIn(u) == IF u \in present THEN role[u] ELSE "none"

Made   == \E u \in Users : role[u] # "none"
Owners == {u \in present : role[u] = "owner"}

InFlight == {"add", "remove_rank", "remove", "leave", "set_role"}

Request == [at    : InFlight \cup {"idle"},
            me    : Users \cup {None},
            other : Users \cup {None},   \* whom removeMember or setRole is about
            todo  : SUBSET Users,        \* whom addMembers has still to insert
            role  : Role]                \* my role as read, or the role to set

Idle == [at |-> "idle", me |-> None, other |-> None, todo |-> {}, role |-> "none"]

Finish(r) == req' = [req EXCEPT ![r] = Idle]

-----------------------------------------------------------------------------
Init ==
  /\ role    = [u \in Users |-> "none"]
  /\ present = {}
  /\ retired = FALSE
  /\ req     = [r \in Reqs |-> Idle]

\* createGroup with those of the chosen people who are friends: until it commits
\* nobody knows the conversation.
Create(me, others) ==
  /\ ~Made /\ others # {} /\ me \notin others
  /\ role' = [u \in Users |-> CASE u = me       -> "owner"
                                [] u \in others -> "member"
                                [] OTHER        -> "none"]
  /\ present' = others \cup {me}
  /\ UNCHANGED <<retired, req>>

-----------------------------------------------------------------------------
(* addMembers: the people who are friends of the caller, one INSERT each.  *)

AddRead(r, me, others) ==
  /\ req[r].at = "idle" /\ RoleIn(me) \in Managers
  /\ others # {} /\ me \notin others
  /\ req' = [req EXCEPT ![r] =
               [Idle EXCEPT !.at = "add", !.me = me, !.todo = others]]
  /\ UNCHANGED <<role, present, retired>>

\* ON CONFLICT DO UPDATE SET left_at = NULL: who comes back has the role he had.
AddOne(r, u) ==
  LET rest == req[r].todo \ {u}
  IN  /\ req[r].at = "add" /\ u \in req[r].todo
      /\ role' = [role EXCEPT ![u] = IF @ = "none" THEN "member" ELSE @]
      /\ present' = present \cup {u}
      /\ IF rest = {} THEN Finish(r) ELSE req' = [req EXCEPT ![r].todo = rest]
      /\ UNCHANGED retired

-----------------------------------------------------------------------------
(* removeMember                                                            *)

RemoveRead(r, me, other) ==
  /\ req[r].at = "idle" /\ me # other
  /\ RoleIn(me) \in Managers
  /\ req' = [req EXCEPT ![r] = [Idle EXCEPT !.at = "remove_rank", !.me = me,
                                            !.other = other, !.role = RoleIn(me)]]
  /\ UNCHANGED <<role, present, retired>>

\* Fault: an admin removes an admin.
RemoveIgnoresRank(r) ==
  /\ req[r].at = "remove_rank"
  /\ IF RoleIn(req[r].other) \in {"admin", "member"}
       THEN req' = [req EXCEPT ![r].at = "remove"]
       ELSE Finish(r)
  /\ UNCHANGED <<role, present, retired>>

RemoveRank(r) ==
  LET theirs == RoleIn(req[r].other)
  IN  /\ req[r].at = "remove_rank"
      /\ IF theirs = "member" \/ (theirs = "admin" /\ req[r].role = "owner")
           THEN req' = [req EXCEPT ![r].at = "remove"]
           ELSE Finish(r)
      /\ UNCHANGED <<role, present, retired>>

RemoveWrite(r) ==
  /\ req[r].at = "remove"
  /\ present' = present \ {req[r].other}
  /\ Finish(r)
  /\ UNCHANGED <<role, retired>>

-----------------------------------------------------------------------------
(* leave                                                                   *)

LeaveRead(r, me) ==
  /\ req[r].at = "idle" /\ RoleIn(me) # "none"
  /\ req' = [req EXCEPT ![r] =
               [Idle EXCEPT !.at = "leave", !.me = me, !.role = RoleIn(me)]]
  /\ UNCHANGED <<role, present, retired>>

\* ORDER BY array_position(ARRAY['admin','member'], role), joined_at: an admin, or
\* else a member, or else another owner, whose rank is NULL; who joined first is
\* left open.
Heirs(rest) ==
  LET ranked(k) == {u \in rest : role[u] = k}
  IN  IF ranked("admin") # {} THEN ranked("admin")
      ELSE IF ranked("member") # {} THEN ranked("member")
      ELSE rest

\* Fault: the owner's leaving retires the group, whoever is left in it.
LeaveRetires(r) ==
  /\ req[r].at = "leave"
  /\ present' = present \ {req[r].me}
  /\ retired' = (retired \/ req[r].role = "owner")
  /\ Finish(r)
  /\ UNCHANGED role

LeaveWrite(r) ==
  LET rest == present \ {req[r].me}
  IN  /\ req[r].at = "leave"
      /\ present' = rest
      /\ \/ /\ req[r].role = "owner" /\ rest # {}
            /\ \E heir \in Heirs(rest) : role' = [role EXCEPT ![heir] = "owner"]
            /\ UNCHANGED retired
         \/ /\ req[r].role = "owner" /\ rest = {}
            /\ retired' = TRUE
            /\ UNCHANGED role
         \/ /\ req[r].role # "owner"
            /\ UNCHANGED <<role, retired>>
      /\ Finish(r)

-----------------------------------------------------------------------------
(* setRole, with a role of its signature: 'admin' | 'member'.  (The         *)
(* controller does not validate the body.)                                 *)

SetRead(r, me, other, new) ==
  /\ req[r].at = "idle" /\ me # other
  /\ RoleIn(me) = "owner"
  /\ req' = [req EXCEPT ![r] = [Idle EXCEPT !.at = "set_role", !.me = me,
                                            !.other = other, !.role = new]]
  /\ UNCHANGED <<role, present, retired>>

\* Fault: without "AND role <> 'owner'".
SetAnyRole(r) ==
  LET other == req[r].other
  IN  /\ req[r].at = "set_role"
      /\ role' = IF other \in present
                   THEN [role EXCEPT ![other] = req[r].role] ELSE role
      /\ Finish(r)
      /\ UNCHANGED <<present, retired>>

\* UPDATE ... WHERE left_at IS NULL AND role <> 'owner'
SetWrite(r) ==
  LET other == req[r].other
  IN  /\ req[r].at = "set_role"
      /\ role' = IF RoleIn(other) \in {"admin", "member"}
                   THEN [role EXCEPT ![other] = req[r].role] ELSE role
      /\ Finish(r)
      /\ UNCHANGED <<present, retired>>

\* A statement throws, or the process dies: the rest of the handler is lost.
Abort(r) ==
  /\ req[r].at \in InFlight
  /\ Finish(r)
  /\ UNCHANGED <<role, present, retired>>

-----------------------------------------------------------------------------
Arrive(r) ==
  \E me \in Users :
    \/ LeaveRead(r, me)
    \/ \E others \in SUBSET Users : AddRead(r, me, others)
    \/ \E other \in Users :
         \/ RemoveRead(r, me, other)
         \/ SetRead(r, me, other, "admin") \/ SetRead(r, me, other, "member")

Continue(r) ==
  \/ \E u \in Users : AddOne(r, u)
  \/ RemoveRank(r) \/ RemoveWrite(r)
  \/ LeaveWrite(r)
  \/ SetWrite(r)

Next ==
  \/ \E me \in Users, others \in SUBSET Users : Create(me, others)
  \/ \E r \in Reqs : Arrive(r) \/ Continue(r) \/ Abort(r)

Spec == Init /\ [][Next]_vars

-----------------------------------------------------------------------------
(* Type invariant                                                          *)

TypeOK ==
  /\ role \in [Users -> Role]
  /\ present \subseteq {u \in Users : role[u] # "none"}
  /\ retired \in BOOLEAN
  /\ req \in [Reqs -> Request]

-----------------------------------------------------------------------------
(* What every interleaving keeps.                                          *)

\* Ownership is neither taken nor given: an owner's row stays an owner's, and a
\* member becomes an owner only in the step in which an owner leaves (leave(),
\* and the role <> 'owner' of setRole()), however stale the roles they read.
OwnershipKept ==
  \A u \in Users :
    /\ role[u] = "owner" => role'[u] = "owner"
    /\ Made /\ role[u] # "owner" /\ role'[u] = "owner" =>
         /\ u \in present'
         /\ \E v \in Users \ {u} : role[v] = "owner" /\ v \notin present'

\* Nobody manages the group, and no manager's request is under way.
Orphaned ==
  /\ Made
  /\ \A u \in present : role[u] = "member"
  /\ \A r \in Reqs : req[r].at \notin {"add", "set_role"} /\ req[r].role # "owner"

\* "A group with no owner can never be administered again": from then on people
\* only leave.
OrphanHolds ==
  Orphaned => Orphaned' /\ present' \subseteq present /\ role' = role

OwnershipPasses == [][OwnershipKept /\ OrphanHolds]_vars

-----------------------------------------------------------------------------
(* The inductive strengthening: what a handler in flight may rely on.      *)

Coherent(q) ==
  /\ q.at = "add" => q.todo # {}
  /\ q.at \in {"remove_rank", "remove"} =>
       q.me \in Users /\ q.other \in Users /\ q.role \in Managers
  /\ q.at = "leave" => /\ q.me \in Users /\ q.role # "none"
                       /\ q.role = "owner" => role[q.me] = "owner"
  /\ q.at = "set_role" =>
       q.me \in Users /\ q.other \in Users /\ q.role \in {"admin", "member"}

HandlerInv == \A r \in Reqs : Coherent(req[r])

IInv == TypeOK /\ HandlerInv

-----------------------------------------------------------------------------
(* What the source says and overlapping handlers break.                    *)

\* "A group with no owner ... silently orphaning it is worse than picking a
\* successor": while somebody is in the group, it has an owner.
GroupHasOwner == present # {} => Owners # {}

\* "Last person out: retire the conversation", and not before.
RetiredWhenEmpty == Made => (retired <=> present = {})

\* "If the owner leaves, ownership passes": the group has one owner at a time.
OneOwner == \A u, v \in Owners : u = v
=============================================================================
