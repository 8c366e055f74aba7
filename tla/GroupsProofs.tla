---------------------------- MODULE GroupsProofs ----------------------------
(***************************************************************************)
(* Theorems about Groups and GroupsSerial, for every set of users and of   *)
(* handlers.                                                               *)
(***************************************************************************)
EXTENDS GroupsSerial, TLAPS

\* Whoever inherits was in the group, and nobody stops being an owner.
LEMMA HeirsRemain ==
  ASSUME NEW rest \in SUBSET Users
  PROVE  Heirs(rest) \subseteq rest
BY DEF Heirs

LEMMA HeirsExist ==
  ASSUME NEW rest \in SUBSET Users, rest # {}
  PROVE  Heirs(rest) # {}
BY DEF Heirs

-----------------------------------------------------------------------------
(* IInv is inductive.                                                      *)

LEMMA InitInv == Init => IInv
<1> SUFFICES ASSUME Init PROVE IInv
  OBVIOUS
<1>1. role \in [Users -> Role]
  BY DEF Init, Role
<1>2. req \in [Reqs -> Request]
  BY DEF Init, Request, Idle, Role
<1>3. TypeOK
  BY <1>1, <1>2 DEF Init, TypeOK
<1>4. HandlerInv
  BY DEF Init, Idle, HandlerInv, Coherent
<1> QED
  BY <1>3, <1>4 DEF IInv

LEMMA CreateInv ==
  ASSUME NEW me \in Users, NEW others \in SUBSET Users, IInv, Create(me, others)
  PROVE  IInv'
<1>1. \A u \in Users : role[u] = "none"
  BY DEF Create, Made
<1>2. role' \in [Users -> Role]
  BY DEF Create, Role, Managers
<1>3. present' \subseteq {u \in Users : role'[u] # "none"}
  BY DEF Create
<1>4. TypeOK'
  BY <1>2, <1>3 DEF IInv, TypeOK, Create
<1>5. ASSUME NEW r \in Reqs PROVE Coherent(req[r])'
  <2>1. Coherent(req[r])
    BY DEF IInv, HandlerInv
  <2>2. req[r] \in Request
    BY DEF IInv, TypeOK
  <2>3. ~(req[r].at = "leave" /\ req[r].role = "owner")
    BY <1>1, <2>1, <2>2 DEF Coherent, Request
  <2> QED
    BY <2>1, <2>3 DEF Coherent, Create
<1> QED
  BY <1>4, <1>5 DEF IInv, HandlerInv

\* A step of one handler that makes nobody less of an owner leaves the others
\* what they rely on.
LEMMA OthersUndisturbed ==
  ASSUME IInv, NEW r \in Reqs,
         \A s \in Reqs \ {r} : req'[s] = req[s],
         \A u \in Users : role[u] = "owner" => role'[u] = "owner",
         Coherent(req[r])'
  PROVE  HandlerInv'
<1> SUFFICES ASSUME NEW s \in Reqs, s # r PROVE Coherent(req[s])'
  BY DEF HandlerInv
<1>1. Coherent(req[s]) /\ req'[s] = req[s]
  BY DEF IInv, HandlerInv
<1> QED
  BY <1>1 DEF Coherent

LEMMA AddReadInv ==
  ASSUME NEW r \in Reqs, NEW me \in Users, NEW others \in SUBSET Users,
         IInv, AddRead(r, me, others)
  PROVE  IInv'
<1>1. TypeOK'
  BY DEF IInv, TypeOK, AddRead, Request, Idle, InFlight, Role
<1>2. Coherent(req[r])'
  BY DEF IInv, TypeOK, AddRead, Coherent, Idle
<1>3. HandlerInv'
  BY <1>2, OthersUndisturbed DEF IInv, TypeOK, AddRead
<1> QED
  BY <1>1, <1>3 DEF IInv

LEMMA AddOneInv ==
  ASSUME NEW r \in Reqs, NEW u \in Users, IInv, AddOne(r, u)
  PROVE  IInv'
<1>1. TypeOK
  BY DEF IInv
<1>2. role' \in [Users -> Role] /\ role'[u] # "none"
  BY <1>1 DEF TypeOK, AddOne, Role, Managers
<1>3. \A v \in Users \ {u} : role'[v] = role[v]
  BY <1>1 DEF TypeOK, AddOne
<1>4. present' \subseteq {v \in Users : role'[v] # "none"}
  BY <1>1, <1>2, <1>3 DEF TypeOK, AddOne
<1>5. req' \in [Reqs -> Request]
  BY <1>1 DEF TypeOK, AddOne, Finish, Idle, Request, Role
<1>6. TypeOK'
  BY <1>1, <1>2, <1>4, <1>5 DEF TypeOK, AddOne
<1>7. Coherent(req[r])'
  BY <1>1 DEF TypeOK, AddOne, Finish, Idle, Coherent, Request
<1>8. \A s \in Reqs \ {r} : req'[s] = req[s]
  BY <1>1 DEF TypeOK, AddOne, Finish
<1>9. \A v \in Users : role[v] = "owner" => role'[v] = "owner"
  BY <1>1 DEF TypeOK, AddOne
<1>10. HandlerInv'
  BY <1>7, <1>8, <1>9, OthersUndisturbed
<1> QED
  BY <1>6, <1>10 DEF IInv

LEMMA RemoveInv ==
  ASSUME NEW r \in Reqs, IInv,
         \/ \E me, other \in Users : RemoveRead(r, me, other)
         \/ RemoveRank(r)
         \/ RemoveWrite(r)
  PROVE  IInv'
<1>1. TypeOK
  BY DEF IInv
<1>2. CASE \E me, other \in Users : RemoveRead(r, me, other)
  <2>1. PICK me \in Users, other \in Users : RemoveRead(r, me, other)
    BY <1>2
  <2>2. TypeOK'
    BY <1>1, <2>1 DEF TypeOK, RemoveRead, Request, Idle, InFlight, RoleIn, Role, Managers
  <2>3. Coherent(req[r])'
    BY <1>1, <2>1 DEF TypeOK, RemoveRead, Coherent, Idle
  <2>4. HandlerInv'
    BY <1>1, <2>1, <2>3, OthersUndisturbed DEF TypeOK, RemoveRead
  <2> QED
    BY <2>2, <2>4 DEF IInv
<1>3. CASE RemoveRank(r)
  <2>1. TypeOK'
    BY <1>1, <1>3 DEF TypeOK, RemoveRank, Finish, Request, Idle, InFlight, Role
  <2>2. Coherent(req[r])'
    BY <1>1, <1>3 DEF IInv, HandlerInv, TypeOK, RemoveRank, Finish, Coherent, Idle, Request
  <2>3. HandlerInv'
    BY <1>1, <1>3, <2>2, OthersUndisturbed DEF TypeOK, RemoveRank, Finish
  <2> QED
    BY <2>1, <2>3 DEF IInv
<1>4. CASE RemoveWrite(r)
  <2>1. TypeOK'
    BY <1>1, <1>4 DEF TypeOK, RemoveWrite, Finish, Request, Idle, Role
  <2>2. Coherent(req[r])'
    BY <1>1, <1>4 DEF TypeOK, RemoveWrite, Finish, Coherent, Idle
  <2>3. HandlerInv'
    BY <1>1, <1>4, <2>2, OthersUndisturbed DEF TypeOK, RemoveWrite, Finish
  <2> QED
    BY <2>1, <2>3 DEF IInv
<1> QED
  BY <1>2, <1>3, <1>4

LEMMA LeaveReadInv ==
  ASSUME NEW r \in Reqs, NEW me \in Users, IInv, LeaveRead(r, me)
  PROVE  IInv'
<1>1. TypeOK
  BY DEF IInv
<1>2. TypeOK'
  BY <1>1 DEF TypeOK, LeaveRead, Request, Idle, InFlight, RoleIn, Role
<1>3. Coherent(req[r])'
  BY <1>1 DEF TypeOK, LeaveRead, Coherent, Idle, RoleIn
<1>4. HandlerInv'
  BY <1>1, <1>3, OthersUndisturbed DEF TypeOK, LeaveRead
<1> QED
  BY <1>2, <1>4 DEF IInv

LEMMA LeaveWriteInv ==
  ASSUME NEW r \in Reqs, IInv, LeaveWrite(r)
  PROVE  IInv'
<1>1. TypeOK
  BY DEF IInv
<1> DEFINE rest == present \ {req[r].me}
<1>2. \/ role' = role
      \/ \E heir \in rest : role' = [role EXCEPT ![heir] = "owner"]
  BY <1>1, HeirsRemain DEF TypeOK, LeaveWrite
<1>3. role' \in [Users -> Role]
  BY <1>1, <1>2 DEF TypeOK, Role, Managers
<1>4. \A u \in Users : /\ role[u] # "none" => role'[u] # "none"
                       /\ role[u] = "owner" => role'[u] = "owner"
  BY <1>1, <1>2 DEF TypeOK
<1>5. TypeOK'
  BY <1>1, <1>3, <1>4 DEF TypeOK, LeaveWrite, Finish, Request, Idle, Role
<1>6. Coherent(req[r])'
  BY <1>1 DEF TypeOK, LeaveWrite, Finish, Coherent, Idle
<1>7. \A s \in Reqs \ {r} : req'[s] = req[s]
  BY <1>1 DEF TypeOK, LeaveWrite, Finish
<1>8. HandlerInv'
  BY <1>4, <1>6, <1>7, OthersUndisturbed
<1> QED
  BY <1>5, <1>8 DEF IInv

LEMMA SetReadInv ==
  ASSUME NEW r \in Reqs, NEW me \in Users, NEW other \in Users,
         NEW new \in {"admin", "member"}, IInv, SetRead(r, me, other, new)
  PROVE  IInv'
<1>1. TypeOK
  BY DEF IInv
<1>2. TypeOK'
  BY <1>1 DEF TypeOK, SetRead, Request, Idle, InFlight, Role, Managers
<1>3. Coherent(req[r])'
  BY <1>1 DEF TypeOK, SetRead, Coherent, Idle
<1>4. HandlerInv'
  BY <1>1, <1>3, OthersUndisturbed DEF TypeOK, SetRead
<1> QED
  BY <1>2, <1>4 DEF IInv

LEMMA SetWriteInv ==
  ASSUME NEW r \in Reqs, IInv, SetWrite(r)
  PROVE  IInv'
<1>1. TypeOK
  BY DEF IInv
<1>2. req[r].role \in {"admin", "member"}
  BY DEF IInv, HandlerInv, Coherent, SetWrite
<1>3. role' \in [Users -> Role]
  BY <1>1, <1>2 DEF TypeOK, SetWrite, Role, Managers
<1>4. \A u \in Users : /\ role[u] # "none" => role'[u] # "none"
                       /\ role[u] = "owner" => role'[u] = "owner"
  BY <1>1, <1>2 DEF TypeOK, SetWrite, RoleIn
<1>5. TypeOK'
  BY <1>1, <1>3, <1>4 DEF TypeOK, SetWrite, Finish, Request, Idle, Role
<1>6. Coherent(req[r])'
  BY <1>1 DEF TypeOK, SetWrite, Finish, Coherent, Idle
<1>7. \A s \in Reqs \ {r} : req'[s] = req[s]
  BY <1>1 DEF TypeOK, SetWrite, Finish
<1>8. HandlerInv'
  BY <1>4, <1>6, <1>7, OthersUndisturbed
<1> QED
  BY <1>5, <1>8 DEF IInv

LEMMA AbortInv ==
  ASSUME NEW r \in Reqs, IInv, Abort(r)
  PROVE  IInv'
<1>1. TypeOK
  BY DEF IInv
<1>2. TypeOK'
  BY <1>1 DEF TypeOK, Abort, Finish, Request, Idle, Role
<1>3. Coherent(req[r])'
  BY <1>1 DEF TypeOK, Abort, Finish, Coherent, Idle
<1>4. HandlerInv'
  BY <1>1, <1>3, OthersUndisturbed DEF TypeOK, Abort, Finish
<1> QED
  BY <1>2, <1>4 DEF IInv

LEMMA StutterInv == IInv /\ UNCHANGED vars => IInv'
BY DEF IInv, TypeOK, HandlerInv, Coherent, vars

LEMMA NextInv == IInv /\ [Next]_vars => IInv'
<1> SUFFICES ASSUME IInv, [Next]_vars PROVE IInv'
  OBVIOUS
<1>1. CASE UNCHANGED vars
  BY <1>1, StutterInv
<1>2. ASSUME NEW me \in Users, NEW others \in SUBSET Users, Create(me, others)
      PROVE  IInv'
  BY <1>2, CreateInv
<1>3. ASSUME NEW r \in Reqs, Arrive(r) PROVE IInv'
  BY <1>3, AddReadInv, RemoveInv, LeaveReadInv, SetReadInv DEF Arrive
<1>4. ASSUME NEW r \in Reqs, Continue(r) PROVE IInv'
  BY <1>4, AddOneInv, RemoveInv, LeaveWriteInv, SetWriteInv DEF Continue
<1>5. ASSUME NEW r \in Reqs, Abort(r) PROVE IInv'
  BY <1>5, AbortInv
<1> QED
  BY <1>1, <1>2, <1>3, <1>4, <1>5 DEF Next

\* What every handler in flight may rely on, in every interleaving.
THEOREM Invariance == Spec => []IInv
<1>1. Init => IInv
  BY InitInv
<1>2. IInv /\ [Next]_vars => IInv'
  BY NextInv
<1> QED
  BY <1>1, <1>2, PTL DEF Spec

\* The variables keep their types.
THEOREM TypeCorrect == Spec => []TypeOK
<1>1. IInv => TypeOK
  BY DEF IInv
<1> QED
  BY <1>1, Invariance, PTL

-----------------------------------------------------------------------------
(* Ownership.                                                              *)

LEMMA LeaveKeepsOwnership ==
  ASSUME NEW r \in Reqs, IInv, LeaveWrite(r)
  PROVE  OwnershipKept
<1>1. TypeOK /\ Coherent(req[r])
  BY DEF IInv, HandlerInv
<1> DEFINE me   == req[r].me
           rest == present \ {me}
<1>2. CASE req[r].role = "owner" /\ rest # {}
  <2>1. PICK heir \in rest : role' = [role EXCEPT ![heir] = "owner"]
    BY <1>1, <1>2, HeirsRemain DEF TypeOK, LeaveWrite
  <2>2. present' = rest /\ me \in Users /\ role[me] = "owner"
    BY <1>1, <1>2 DEF LeaveWrite, Coherent
  <2> QED
    BY <1>1, <2>1, <2>2 DEF TypeOK, OwnershipKept
<1>3. CASE ~(req[r].role = "owner" /\ rest # {})
  <2>1. role' = role
    BY <1>3 DEF LeaveWrite
  <2> QED
    BY <2>1 DEF OwnershipKept
<1> QED
  BY <1>2, <1>3

LEMMA SetKeepsOwnership ==
  ASSUME NEW r \in Reqs, IInv, SetWrite(r)
  PROVE  OwnershipKept
<1>1. TypeOK /\ req[r].role \in {"admin", "member"}
  BY DEF IInv, HandlerInv, Coherent, SetWrite
<1> QED
  BY <1>1 DEF TypeOK, SetWrite, RoleIn, OwnershipKept

LEMMA AddKeepsOwnership ==
  ASSUME NEW r \in Reqs, NEW u \in Users, IInv, AddOne(r, u)
  PROVE  OwnershipKept
BY DEF IInv, TypeOK, AddOne, OwnershipKept

LEMMA CreateKeepsOwnership ==
  ASSUME NEW me \in Users, NEW others \in SUBSET Users, IInv, Create(me, others)
  PROVE  OwnershipKept
BY DEF Create, Made, OwnershipKept

LEMMA StepKeepsOwnership == IInv /\ [Next]_vars => OwnershipKept
<1> SUFFICES ASSUME IInv, [Next]_vars PROVE OwnershipKept
  OBVIOUS
<1>1. CASE UNCHANGED role
  BY <1>1 DEF OwnershipKept
<1>2. ASSUME NEW me \in Users, NEW others \in SUBSET Users, Create(me, others)
      PROVE  OwnershipKept
  BY <1>2, CreateKeepsOwnership
<1>3. ASSUME NEW r \in Reqs, Continue(r) PROVE OwnershipKept
  <2>1. CASE \E u \in Users : AddOne(r, u)
    BY <2>1, AddKeepsOwnership
  <2>2. CASE RemoveRank(r) \/ RemoveWrite(r)
    BY <1>1, <2>2 DEF RemoveRank, RemoveWrite
  <2>3. CASE LeaveWrite(r) \/ SetWrite(r)
    BY <2>3, LeaveKeepsOwnership, SetKeepsOwnership
  <2> QED
    BY <1>3, <2>1, <2>2, <2>3 DEF Continue
<1>4. ASSUME NEW r \in Reqs, Arrive(r) \/ Abort(r) PROVE UNCHANGED role
  BY <1>4 DEF Arrive, Abort, LeaveRead, AddRead, RemoveRead, SetRead
<1> QED
  BY <1>1, <1>2, <1>3, <1>4 DEF Next, vars

-----------------------------------------------------------------------------
(* Once a group is orphaned it stays so.                                   *)

LEMMA OrphanStep == IInv /\ [Next]_vars => OrphanHolds
<1> SUFFICES ASSUME IInv, [Next]_vars, Orphaned
             PROVE  Orphaned' /\ present' \subseteq present /\ role' = role
  BY DEF OrphanHolds
<1>1. TypeOK
  BY DEF IInv
<1>2. \A u \in Users : RoleIn(u) \notin Managers
  BY DEF Orphaned, RoleIn, Managers
<1>3. CASE UNCHANGED vars
  BY <1>3 DEF vars, Orphaned, Made
<1>4. ASSUME NEW r \in Reqs,
             role' = role, present' \subseteq present,
             \A s \in Reqs \ {r} : req'[s] = req[s],
             req'[r].at \notin {"add", "set_role"}, req'[r].role # "owner"
      PROVE  Orphaned' /\ present' \subseteq present /\ role' = role
  BY <1>4 DEF Orphaned, Made
<1>5. ASSUME NEW me \in Users, NEW others \in SUBSET Users, Create(me, others)
      PROVE  FALSE
  BY <1>5 DEF Create, Orphaned
<1>6. ASSUME NEW r \in Reqs, Arrive(r)
      PROVE  Orphaned' /\ present' \subseteq present /\ role' = role
  <2>1. PICK me \in Users : LeaveRead(r, me)
    BY <1>2, <1>6 DEF Arrive, AddRead, RemoveRead, SetRead, Managers
  <2>2. RoleIn(me) # "owner"
    BY <1>2 DEF Managers
  <2> QED
    BY <1>1, <1>4, <2>1, <2>2 DEF TypeOK, LeaveRead, Idle
<1>7. ASSUME NEW r \in Reqs, Continue(r) \/ Abort(r)
      PROVE  Orphaned' /\ present' \subseteq present /\ role' = role
  <2>1. req[r].at \notin {"add", "set_role"} /\ req[r].role # "owner"
    BY DEF Orphaned
  <2>2. RemoveRank(r) \/ RemoveWrite(r) \/ LeaveWrite(r) \/ Abort(r)
    BY <1>7, <2>1 DEF Continue, AddOne, SetWrite
  <2>3. role' = role /\ present' \subseteq present
    BY <2>1, <2>2 DEF RemoveRank, RemoveWrite, LeaveWrite, Abort
  <2>4. \/ req' = [req EXCEPT ![r] = Idle]
        \/ req' = [req EXCEPT ![r].at = "remove"]
    BY <2>2 DEF RemoveRank, RemoveWrite, LeaveWrite, Abort, Finish
  <2>5. /\ \A s \in Reqs \ {r} : req'[s] = req[s]
        /\ req'[r].at \notin {"add", "set_role"} /\ req'[r].role # "owner"
    BY <1>1, <2>1, <2>4 DEF TypeOK, Request, Idle
  <2> QED
    BY <1>4, <2>3, <2>5
<1> QED
  BY <1>3, <1>5, <1>6, <1>7 DEF Next

\* An owner's row stays an owner's, nobody becomes one but by the leaving of one,
\* and a group nobody manages stays so, however handlers overlap.
THEOREM OwnershipCorrect == Spec => OwnershipPasses
<1>1. IInv /\ [Next]_vars => [OwnershipKept /\ OrphanHolds]_vars
  BY StepKeepsOwnership, OrphanStep
<1> QED
  BY <1>1, Invariance, PTL DEF Spec, OwnershipPasses

-----------------------------------------------------------------------------
(* One handler at a time: SerialInv is inductive.                          *)

LEMMA SerialStepInv == SerialInv /\ [SerialNext]_vars => IInv'
<1>1. [SerialNext]_vars => [Next]_vars
  BY DEF SerialNext, Next
<1> QED
  BY <1>1, NextInv DEF SerialInv

\* What is left to show of a step of the only handler in flight.
LEMMA Alone ==
  ASSUME NEW r \in Reqs, AllIdle(Reqs \ {r}),
         \A s \in Reqs \ {r} : req'[s] = req[s],
         Current(req[r])', IInv', GroupHasOwner', RetiredWhenEmpty',
         (~Made => ~retired)'
  PROVE  SerialInv'
<1>1. \A s \in Reqs \ {r} : Current(req[s])' /\ req'[s].at \notin InFlight
  BY DEF AllIdle, InFlight, Current
<1>2. OneAtATime'
  BY <1>1 DEF OneAtATime
<1> QED
  BY <1>1, <1>2 DEF SerialInv

LEMMA SerialCreate ==
  ASSUME NEW me \in Users, NEW others \in SUBSET Users, SerialInv,
         Create(me, others), IInv'
  PROVE  SerialInv'
<1>1. ~Made /\ ~retired /\ req' = req /\ retired' = retired
  BY DEF Create, SerialInv
<1>2. \A u \in Users : RoleIn(u) = "none" /\ u \notin present
  BY <1>1 DEF Made, RoleIn, SerialInv, IInv, TypeOK
<1>3. role'[me] = "owner" /\ me \in present'
  BY DEF Create
<1>4. Made' /\ GroupHasOwner' /\ RetiredWhenEmpty'
  BY <1>1, <1>3 DEF Made, GroupHasOwner, Owners, RetiredWhenEmpty
<1>5. ASSUME NEW r \in Reqs PROVE Current(req[r])'
  <2>1. Current(req[r]) /\ Coherent(req[r])
    BY DEF SerialInv, IInv, HandlerInv
  <2>2. req[r].at \notin {"add", "remove_rank", "remove", "leave"}
    BY <1>2, <2>1 DEF Current, Coherent, SerialInv, IInv, TypeOK
  <2> QED
    BY <1>1, <2>2 DEF Current
<1>6. OneAtATime'
  BY <1>1 DEF SerialInv, OneAtATime
<1> QED
  BY <1>4, <1>5, <1>6 DEF SerialInv

\* Steps that write no row.
LEMMA SerialRead ==
  ASSUME NEW r \in Reqs, AllIdle(Reqs \ {r}), SerialInv, IInv',
         UNCHANGED <<role, present, retired>>,
         \A s \in Reqs \ {r} : req'[s] = req[s],
         Current(req[r])'
  PROVE  SerialInv'
<1>1. GroupHasOwner' /\ RetiredWhenEmpty' /\ (~Made => ~retired)'
  BY DEF SerialInv, GroupHasOwner, Owners, RetiredWhenEmpty, Made
<1> QED
  BY <1>1, Alone

LEMMA SerialArrive ==
  ASSUME NEW r \in Reqs, AllIdle(Reqs \ {r}), SerialInv, IInv', Arrive(r)
  PROVE  SerialInv'
<1>1. TypeOK
  BY DEF SerialInv, IInv
<1>2. UNCHANGED <<role, present, retired>>
  BY DEF Arrive, LeaveRead, AddRead, RemoveRead, SetRead
<1>3. \A s \in Reqs \ {r} : req'[s] = req[s]
  BY <1>1 DEF TypeOK, Arrive, LeaveRead, AddRead, RemoveRead, SetRead
<1>4. Current(req[r])'
  <2>1. CASE \E me \in Users : LeaveRead(r, me)
    BY <1>1, <2>1 DEF TypeOK, LeaveRead, Current, Idle, RoleIn
  <2>2. CASE \E me \in Users, others \in SUBSET Users : AddRead(r, me, others)
    BY <1>1, <2>2 DEF TypeOK, AddRead, Current, Idle, RoleIn, Managers
  <2>3. CASE \E me, other \in Users : RemoveRead(r, me, other)
    BY <1>1, <2>3 DEF TypeOK, RemoveRead, Current, Idle, RoleIn, Managers
  <2>4. CASE \E me, other \in Users :
               SetRead(r, me, other, "admin") \/ SetRead(r, me, other, "member")
    <3>1. PICK me, other \in Users, new \in {"admin", "member"} :
                 SetRead(r, me, other, new)
      BY <2>4
    <3>2. req'[r].at = "set_role"
      BY <1>1, <3>1 DEF TypeOK, SetRead, Idle
    <3> QED
      BY <3>2 DEF Current
  <2> QED
    BY <2>1, <2>2, <2>3, <2>4 DEF Arrive
<1> QED
  BY <1>2, <1>3, <1>4, SerialRead

LEMMA SerialRemoveRank ==
  ASSUME NEW r \in Reqs, AllIdle(Reqs \ {r}), SerialInv, IInv', RemoveRank(r)
  PROVE  SerialInv'
<1>1. TypeOK /\ Current(req[r])
  BY DEF SerialInv, IInv
<1>2. Current(req[r])'
  BY <1>1 DEF TypeOK, RemoveRank, Finish, Current, Idle, RoleIn, Request
<1>3. \A s \in Reqs \ {r} : req'[s] = req[s]
  BY <1>1 DEF TypeOK, RemoveRank, Finish
<1> QED
  BY <1>2, <1>3, SerialRead DEF RemoveRank

LEMMA SerialAbort ==
  ASSUME NEW r \in Reqs, AllIdle(Reqs \ {r}), SerialInv, IInv', Abort(r)
  PROVE  SerialInv'
<1>1. TypeOK
  BY DEF SerialInv, IInv
<1>2. Current(req[r])'
  BY <1>1 DEF TypeOK, Abort, Finish, Current, Idle
<1>3. \A s \in Reqs \ {r} : req'[s] = req[s]
  BY <1>1 DEF TypeOK, Abort, Finish
<1> QED
  BY <1>2, <1>3, SerialRead DEF Abort

LEMMA SerialAddOne ==
  ASSUME NEW r \in Reqs, NEW u \in Users, AllIdle(Reqs \ {r}), SerialInv, IInv',
         AddOne(r, u)
  PROVE  SerialInv'
<1>1. TypeOK /\ Current(req[r])
  BY DEF SerialInv, IInv
<1>2. req[r].me \in present
  BY <1>1 DEF Current, AddOne
<1>3. PICK o \in Owners : TRUE
  BY <1>2 DEF SerialInv, GroupHasOwner
<1>4. o \in Users /\ o \in present' /\ role'[o] = "owner"
  BY <1>1, <1>3 DEF TypeOK, Owners, AddOne
<1>5. Made /\ ~retired /\ retired' = retired
  BY <1>1, <1>2, <1>3, <1>4 DEF SerialInv, RetiredWhenEmpty, Made, AddOne, TypeOK
<1>6. GroupHasOwner' /\ RetiredWhenEmpty' /\ (~Made => ~retired)'
  BY <1>4, <1>5 DEF GroupHasOwner, RetiredWhenEmpty, Owners
<1>7. Current(req[r])'
  <2>1. /\ req'[r].at \in {"idle", "add"}
        /\ req'[r].at = "add" => req'[r].me = req[r].me
    BY <1>1 DEF TypeOK, AddOne, Finish, Idle, Request
  <2> QED
    BY <1>2, <2>1 DEF AddOne, Current
<1>8. \A s \in Reqs \ {r} : req'[s] = req[s]
  BY <1>1 DEF TypeOK, AddOne, Finish
<1> QED
  BY <1>6, <1>7, <1>8, Alone

LEMMA SerialRemoveWrite ==
  ASSUME NEW r \in Reqs, AllIdle(Reqs \ {r}), SerialInv, IInv', RemoveWrite(r)
  PROVE  SerialInv'
<1> DEFINE q == req[r]
<1>1. TypeOK /\ Current(q)
  BY DEF SerialInv, IInv
<1>2. q.me \in present /\ q.me # q.other /\ role[q.other] # "owner"
  BY <1>1 DEF Current, RemoveWrite
<1>3. PICK o \in Owners : TRUE
  BY <1>2 DEF SerialInv, GroupHasOwner
<1>4. o \in Users /\ o \in present' /\ role'[o] = "owner"
  BY <1>1, <1>2, <1>3 DEF TypeOK, Owners, RemoveWrite
<1>5. ~retired /\ retired' = retired
  BY <1>1, <1>2 DEF SerialInv, RetiredWhenEmpty, Made, RemoveWrite, TypeOK
<1>6. GroupHasOwner' /\ RetiredWhenEmpty' /\ (~Made => ~retired)'
  BY <1>4, <1>5 DEF GroupHasOwner, RetiredWhenEmpty, Owners
<1>7. Current(req[r])'
  BY <1>1 DEF TypeOK, RemoveWrite, Finish, Current, Idle
<1>8. \A s \in Reqs \ {r} : req'[s] = req[s]
  BY <1>1 DEF TypeOK, RemoveWrite, Finish
<1> QED
  BY <1>6, <1>7, <1>8, Alone

LEMMA SerialLeaveWrite ==
  ASSUME NEW r \in Reqs, AllIdle(Reqs \ {r}), SerialInv, IInv', LeaveWrite(r)
  PROVE  SerialInv'
<1> DEFINE me   == req[r].me
           rest == present \ {me}
<1>1. TypeOK /\ Current(req[r]) /\ Coherent(req[r])
  BY DEF SerialInv, IInv, HandlerInv
<1>2. me \in present /\ me \in Users /\ role[me] = req[r].role
  BY <1>1 DEF Current, Coherent, LeaveWrite
<1>3. Made /\ ~retired /\ present' = rest
  BY <1>1, <1>2 DEF SerialInv, RetiredWhenEmpty, Made, LeaveWrite, TypeOK
<1>4. GroupHasOwner' /\ RetiredWhenEmpty' /\ Made'
  <2>1. CASE req[r].role = "owner" /\ rest # {}
    <3>1. PICK heir \in rest : role' = [role EXCEPT ![heir] = "owner"]
      BY <1>1, <2>1, HeirsRemain DEF TypeOK, LeaveWrite
    <3>2. heir \in Users /\ heir \in present' /\ role'[heir] = "owner"
      BY <1>1, <1>3, <3>1 DEF TypeOK
    <3>3. retired' = retired
      BY <2>1 DEF LeaveWrite
    <3> QED
      BY <1>3, <3>2, <3>3 DEF GroupHasOwner, Owners, RetiredWhenEmpty, Made
  <2>2. CASE req[r].role = "owner" /\ rest = {}
    BY <1>3, <2>2 DEF LeaveWrite, GroupHasOwner, RetiredWhenEmpty, Made
  <2>3. CASE req[r].role # "owner"
    <3>1. PICK o \in Owners : TRUE
      BY <1>2 DEF SerialInv, GroupHasOwner
    <3>2. role' = role /\ retired' = retired
      BY <2>3 DEF LeaveWrite
    <3>3. o \in Users /\ o \in present' /\ role'[o] = "owner"
      BY <1>1, <1>2, <1>3, <2>3, <3>1, <3>2 DEF TypeOK, Owners
    <3> QED
      BY <1>3, <3>2, <3>3 DEF GroupHasOwner, Owners, RetiredWhenEmpty, Made
  <2> QED
    BY <2>1, <2>2, <2>3
<1>5. Current(req[r])'
  BY <1>1 DEF TypeOK, LeaveWrite, Finish, Current, Idle
<1>6. \A s \in Reqs \ {r} : req'[s] = req[s]
  BY <1>1 DEF TypeOK, LeaveWrite, Finish
<1> QED
  BY <1>4, <1>5, <1>6, Alone

LEMMA SerialSetWrite ==
  ASSUME NEW r \in Reqs, AllIdle(Reqs \ {r}), SerialInv, IInv', SetWrite(r)
  PROVE  SerialInv'
<1>1. TypeOK /\ req[r].role \in {"admin", "member"}
  BY DEF SerialInv, IInv, HandlerInv, Coherent, SetWrite
<1>2. \A u \in Users : /\ role[u] = "owner" => role'[u] = "owner"
                       /\ role[u] = "none" <=> role'[u] = "none"
  BY <1>1 DEF TypeOK, SetWrite, RoleIn
<1>3. present' = present /\ retired' = retired
  BY DEF SetWrite
<1>4. GroupHasOwner'
  BY <1>1, <1>2, <1>3 DEF SerialInv, GroupHasOwner, Owners, TypeOK
<1>5. RetiredWhenEmpty' /\ (~Made => ~retired)'
  BY <1>2, <1>3 DEF SerialInv, RetiredWhenEmpty, Made
<1>6. Current(req[r])'
  BY <1>1 DEF TypeOK, SetWrite, Finish, Current, Idle
<1>7. \A s \in Reqs \ {r} : req'[s] = req[s]
  BY <1>1 DEF TypeOK, SetWrite, Finish
<1> QED
  BY <1>4, <1>5, <1>6, <1>7, Alone

LEMMA SerialInductive == SerialInv /\ [SerialNext]_vars => SerialInv'
<1> SUFFICES ASSUME SerialInv, [SerialNext]_vars PROVE SerialInv'
  OBVIOUS
<1>1. IInv'
  BY SerialStepInv
<1>2. CASE UNCHANGED vars
  <2>1. GroupHasOwner' /\ RetiredWhenEmpty' /\ (~Made => ~retired)'
    BY <1>2 DEF vars, SerialInv, GroupHasOwner, Owners, RetiredWhenEmpty, Made
  <2>2. (\A r \in Reqs : Current(req[r]))' /\ OneAtATime'
    BY <1>2 DEF vars, SerialInv, Current, OneAtATime
  <2> QED
    BY <1>1, <2>1, <2>2 DEF SerialInv
<1>3. ASSUME NEW me \in Users, NEW others \in SUBSET Users, Create(me, others)
      PROVE  SerialInv'
  BY <1>1, <1>3, SerialCreate
<1>4. ASSUME NEW r \in Reqs, AllIdle(Reqs \ {r}), Arrive(r) \/ Continue(r) \/ Abort(r)
      PROVE  SerialInv'
  <2>1. CASE Arrive(r) \/ Abort(r)
    BY <1>1, <1>4, <2>1, SerialArrive, SerialAbort
  <2>2. CASE Continue(r)
    BY <1>1, <1>4, <2>2, SerialAddOne, SerialRemoveRank, SerialRemoveWrite,
       SerialLeaveWrite, SerialSetWrite DEF Continue
  <2> QED
    BY <1>4, <2>1, <2>2
<1> QED
  BY <1>2, <1>3, <1>4 DEF SerialNext

LEMMA SerialInit == Init => SerialInv
<1> SUFFICES ASSUME Init PROVE SerialInv
  OBVIOUS
<1>1. GroupHasOwner /\ RetiredWhenEmpty /\ (~Made => ~retired)
  BY DEF Init, GroupHasOwner, RetiredWhenEmpty, Made
<1>2. (\A r \in Reqs : Current(req[r])) /\ OneAtATime
  BY DEF Init, Idle, Current, OneAtATime, InFlight
<1> QED
  BY <1>1, <1>2, InitInv DEF SerialInv

\* While no two handlers have overlapped, SerialInv holds.
THEOREM SerialInvariance == HistorySpec => [](serial => SerialInv)
<1>1. HistoryInit => (serial => SerialInv)
  BY SerialInit DEF HistoryInit
<1>2. (serial => SerialInv) /\ [HistoryNext]_<<vars, serial>> => (serial => SerialInv)'
  <2>1. ASSUME serial => SerialInv, HistoryNext, serial'
        PROVE  SerialInv'
    <3>1. serial /\ SerialNext
      BY <2>1 DEF HistoryNext
    <3> QED
      BY <2>1, <3>1, SerialInductive
  <2>2. ASSUME serial => SerialInv, UNCHANGED <<vars, serial>>, serial'
        PROVE  SerialInv'
    BY <2>2, SerialInductive
  <2> QED
    BY <2>1, <2>2
<1> QED
  BY <1>1, <1>2, PTL DEF HistorySpec

\* Handlers that do not overlap, aborted anywhere, never leave people in a group
\* without an owner, and it is retired by the last one leaving and nothing else.
THEOREM OwnerCorrect == HistorySpec => []SomebodyIsInCharge
<1>1. (serial => SerialInv) => SomebodyIsInCharge
  BY DEF SerialInv, SomebodyIsInCharge
<1> QED
  BY <1>1, SerialInvariance, PTL

LEMMA RankStep == SerialInv /\ [SerialNext]_vars => RankRespected
<1> SUFFICES ASSUME SerialInv, [SerialNext]_vars,
                    NEW u \in present, u \notin present'
             PROVE  \E r \in Reqs :
                      \/ req[r].at = "leave" /\ req[r].me = u
                      \/ /\ req[r].at = "remove" /\ req[r].other = u
                         /\ \/ RoleIn(req[r].me) = "owner" /\ role[u] # "owner"
                            \/ RoleIn(req[r].me) = "admin" /\ role[u] = "member"
  BY DEF RankRespected
<1>1. PICK r \in Reqs : RemoveWrite(r) \/ LeaveWrite(r)
  <2>1. ASSUME NEW me \in Users, NEW others \in SUBSET Users, Create(me, others)
        PROVE  FALSE
    BY <2>1 DEF Create, Made, SerialInv, IInv, TypeOK
  <2>2. ASSUME NEW r \in Reqs, Arrive(r) \/ Abort(r) \/ RemoveRank(r) \/ SetWrite(r)
        PROVE  FALSE
    BY <2>2 DEF Arrive, Abort, LeaveRead, AddRead, RemoveRead, SetRead, RemoveRank, SetWrite
  <2>3. ASSUME NEW r \in Reqs, NEW v \in Users, AddOne(r, v)
        PROVE  FALSE
    BY <2>3 DEF AddOne
  <2>4. ~UNCHANGED vars
    BY DEF vars
  <2> QED
    BY <2>1, <2>2, <2>3, <2>4 DEF SerialNext, Continue
<1>2. Current(req[r]) /\ Coherent(req[r])
  BY DEF SerialInv, IInv, HandlerInv
<1>3. CASE RemoveWrite(r)
  <2>1. req[r].at = "remove" /\ req[r].other = u
    BY <1>3 DEF RemoveWrite
  <2>2. /\ RoleIn(req[r].me) = req[r].role /\ req[r].role \in Managers
        /\ role[u] = "member" \/ (role[u] = "admin" /\ req[r].role = "owner")
    BY <1>2, <2>1 DEF Current, Coherent, RoleIn
  <2> QED
    BY <2>1, <2>2 DEF Managers
<1>4. CASE LeaveWrite(r)
  BY <1>4 DEF LeaveWrite
<1> QED
  BY <1>1, <1>3, <1>4

\* Whoever is put out of a group ranked below the one who did it, while no two
\* handlers have overlapped.
THEOREM RemovalCorrect == HistorySpec => RemovalRespectsRank
<1>1. (serial => SerialInv) /\ [HistoryNext]_<<vars, serial>>
        => [serial' => RankRespected]_vars
  BY RankStep DEF HistoryNext
<1> QED
  BY <1>1, SerialInvariance, PTL DEF HistorySpec, RemovalRespectsRank
=============================================================================
