--------------------------- MODULE FriendsProofs ----------------------------
(***************************************************************************)
(* Proofs about Friends and FriendsSerial, for every set of users,         *)
(* requests and handlers.                                                  *)
(*                                                                         *)
(* Request rows are never deleted or re-addressed and an accepted one      *)
(* stays accepted (RowsKept), so what a handler read about its row is      *)
(* still true when it writes, except that the row is pending.              *)
(***************************************************************************)
EXTENDS FriendsSerial, FiniteSetTheorems, TLAPS

\* What no step takes away from friend_requests.
RowsKept ==
  \A i \in RequestIds : request[i].status # "none" =>
    /\ request'[i].from = request[i].from /\ request'[i].to = request[i].to
    /\ request'[i].status # "none"
    /\ request[i].status = "accepted" => request'[i].status = "accepted"
    /\ request'[i].status = "pending" => request[i].status = "pending"

-----------------------------------------------------------------------------
(* friend_count.                                                           *)

\* Friendships are finitely many, so they can be counted.
LEMMA FriendsAreFinite ==
  ASSUME NEW F, F \subseteq Pairs, NEW u
  PROVE  IsFiniteSet({p \in F : u \in p})
<1>1. Pairs \subseteq SUBSET Users
  BY DEF Pairs
<1>2. IsFiniteSet(SUBSET Users)
  BY UsersAreFinite, FS_SUBSET
<1>3. {p \in F : u \in p} \subseteq SUBSET Users
  BY <1>1
<1>4. QED
  BY <1>2, <1>3, FS_Subset

\* The trigger keeps the count when a friendship is inserted, twice or not,
LEMMA AddKeepsCount ==
  ASSUME TypeOK, FriendCountIsExact, NEW x \in Pairs, AddFriends(x)
  PROVE  /\ friends' \subseteq Pairs /\ count' \in [Users -> Nat]
         /\ FriendCountIsExact'
<1>1. friends' \subseteq Pairs /\ friends' = friends \cup {x}
  BY DEF AddFriends, TypeOK
<1>2. count' \in [Users -> Nat]
  BY DEF AddFriends, TypeOK
<1>3. ASSUME NEW u \in Users
      PROVE  count'[u] = Cardinality({p \in friends' : u \in p})
  <2> DEFINE S == {p \in friends : u \in p}
             T == {p \in friends' : u \in p}
  <2>1. IsFiniteSet(S)
    BY FriendsAreFinite DEF TypeOK
  <2>2. count[u] = Cardinality(S)
    BY DEF FriendCountIsExact
  <2>3. CASE x \in friends \/ u \notin x
    <3>1. T = S
      BY <1>1, <2>3
    <3>2. count'[u] = count[u]
      BY <2>3 DEF AddFriends
    <3>3. QED
      BY <2>2, <3>1, <3>2
  <2>4. CASE x \notin friends /\ u \in x
    <3>1. T = S \cup {x} /\ x \notin S
      BY <1>1, <2>4
    <3>2. Cardinality(T) = Cardinality(S) + 1
      BY <2>1, <3>1, FS_AddElement
    <3>3. count'[u] = count[u] + 1
      BY <2>4 DEF AddFriends
    <3>4. QED
      BY <2>2, <3>2, <3>3
  <2>5. QED
    BY <2>3, <2>4
<1>4. QED
  BY <1>1, <1>2, <1>3 DEF FriendCountIsExact

\* and when one is deleted; GREATEST(0, ...) never has to correct it.
LEMMA DropKeepsCount ==
  ASSUME TypeOK, FriendCountIsExact, NEW x, DropFriends(x)
  PROVE  /\ friends' \subseteq friends /\ count' \in [Users -> Nat]
         /\ FriendCountIsExact'
<1>1. friends' \subseteq friends /\ friends' = friends \ {x}
  BY DEF DropFriends
<1>2. count' \in [Users -> Nat]
  BY DEF DropFriends, TypeOK
<1>3. ASSUME NEW u \in Users
      PROVE  count'[u] = Cardinality({p \in friends' : u \in p})
  <2> DEFINE S == {p \in friends : u \in p}
             T == {p \in friends' : u \in p}
  <2>1. IsFiniteSet(S)
    BY FriendsAreFinite DEF TypeOK
  <2>2. count[u] = Cardinality(S) /\ count[u] \in Nat
    BY DEF FriendCountIsExact, TypeOK
  <2>3. CASE x \notin friends \/ u \notin x
    <3>1. T = S
      BY <1>1, <2>3
    <3>2. count'[u] = count[u]
      BY <2>3 DEF DropFriends
    <3>3. QED
      BY <2>2, <3>1, <3>2
  <2>4. CASE x \in friends /\ u \in x
    <3>1. T = S \ {x} /\ x \in S
      BY <1>1, <2>4
    <3> HIDE DEF S, T
    <3>2. Cardinality(T) = Cardinality(S) - 1 /\ Cardinality(S) \in Nat
      <4>1. Cardinality(S \ {x}) = Cardinality(S) - 1
        BY <2>1, <3>1, FS_RemoveElement
      <4>2. Cardinality(S) \in Nat
        BY <2>1, FS_CardinalityType
      <4>3. QED
        BY <3>1, <4>1, <4>2
    <3>3. Cardinality(S) # 0
      BY <2>1, <3>1, FS_EmptySet
    <3>4. count'[u] = count[u] - 1
      BY <2>2, <2>4, <3>2, <3>3 DEF DropFriends
    <3>5. QED
      BY <2>2, <3>2, <3>4 DEF T
  <2>5. QED
    BY <2>3, <2>4
<1>4. QED
  BY <1>1, <1>2, <1>3 DEF FriendCountIsExact

-----------------------------------------------------------------------------
(* What rows keep.                                                         *)

\* The empty tables.
LEMMA InitIInv == Init => IInv
<1> SUFFICES ASSUME Init PROVE IInv
  OBVIOUS
<1>1. TypeOK
  BY DEF Init, TypeOK, NoRequest, RequestRow, Status, Idle, Handler
<1>2. RowInv /\ HandlerInv /\ OnePendingEachWay
  BY DEF Init, RowInv, HandlerInv, Coherent, OnePendingEachWay, Pending, NoRequest, Idle
<1>3. FriendshipsWereAccepted /\ NoticesAreTrue
  BY DEF Init, FriendshipsWereAccepted, NoticesAreTrue
<1>4. FriendCountIsExact
  <2>1. ASSUME NEW u \in Users PROVE count[u] = Cardinality({p \in friends : u \in p})
    <3>1. {p \in friends : u \in p} = {}
      BY DEF Init
    <3>2. QED
      BY <3>1, FS_EmptySet DEF Init
  <2>2. QED
    BY <2>1 DEF FriendCountIsExact
<1>5. QED
  BY <1>1, <1>2, <1>3, <1>4 DEF IInv

\* A request that was made stays made, and an acceptance stays an acceptance.
LEMMA AskedKept ==
  ASSUME RowsKept, NEW a, NEW b, NEW S \in {{"accepted"}, Status \ {"none"}},
         request' \in [RequestIds -> RequestRow], Asked(a, b, S)
  PROVE  Asked(a, b, S)'
<1>1. PICK i \in RequestIds :
        request[i].from = a /\ request[i].to = b /\ request[i].status \in S
  BY DEF Asked
<1>2. request[i].status # "none"
  BY <1>1
<1>3. request'[i].from = a /\ request'[i].to = b /\ request'[i].status \in S
  BY <1>1, <1>2 DEF RowsKept, RequestRow
<1>4. QED
  BY <1>3 DEF Asked

\* What a handler knows survives every step that keeps the rows.
LEMMA CoherenceKept ==
  ASSUME RowsKept, request' \in [RequestIds -> RequestRow],
         NEW q \in Handler, Coherent(q)
  PROVE  Coherent(q)'
<1>1. q.at = "notify_request" => Asked(q.me, q.other, Status \ {"none"})'
  BY AskedKept DEF Coherent
<1>2. q.at = "notify_accept" => Asked(q.other, q.me, {"accepted"})'
  BY AskedKept DEF Coherent
<1>3. QED
  BY <1>1, <1>2 DEF Coherent, RowsKept

\* A step that keeps the rows, and moves at most one handler.
LEMMA HandlersKept ==
  ASSUME IInv, RowsKept, request' \in [RequestIds -> RequestRow],
         \/ req' = req
         \/ \E r \in Reqs, q \in Handler : /\ Coherent(q)'
                                           /\ req' = [req EXCEPT ![r] = q]
  PROVE  HandlerInv' /\ req' \in [Reqs -> Handler]
<1>1. ASSUME NEW s \in Reqs, req'[s] = req[s] PROVE Coherent(req[s])'
  <2> PICK p \in Handler : p = req[s]
    BY DEF IInv, TypeOK
  <2>1. Coherent(p)
    BY DEF IInv, HandlerInv
  <2>2. Coherent(p)'
    BY <2>1, CoherenceKept
  <2>3. QED
    BY <1>1, <2>2 DEF Coherent
<1>2. CASE req' = req
  BY <1>1, <1>2 DEF HandlerInv, IInv, TypeOK
<1>3. ASSUME NEW r \in Reqs, NEW q \in Handler, Coherent(q)', req' = [req EXCEPT ![r] = q]
      PROVE  HandlerInv' /\ req' \in [Reqs -> Handler]
  <2>1. req' \in [Reqs -> Handler]
    BY <1>3 DEF IInv, TypeOK
  <2>2. ASSUME NEW s \in Reqs PROVE Coherent(req[s])'
    <3>1. CASE s = r
      BY <1>3, <3>1 DEF Coherent, IInv, TypeOK
    <3>2. CASE s # r
      BY <1>1, <1>3, <3>2 DEF IInv, TypeOK
    <3>3. QED
      BY <3>1, <3>2
  <2>3. QED
    BY <2>1, <2>2 DEF HandlerInv
<1>4. QED
  BY <1>2, <1>3

\* Notices and friendships rest on rows that are kept.
LEMMA RecordsKept ==
  ASSUME IInv, RowsKept, request' \in [RequestIds -> RequestRow]
  PROVE  /\ friends' \subseteq friends => FriendshipsWereAccepted'
         /\ notices' = notices => NoticesAreTrue'
<1>1. ASSUME friends' \subseteq friends, NEW p \in friends'
      PROVE  (\E a, b \in p : Asked(a, b, {"accepted"}))'
  <2>1. PICK a \in p, b \in p : Asked(a, b, {"accepted"})
    BY <1>1 DEF IInv, FriendshipsWereAccepted
  <2>2. Asked(a, b, {"accepted"})'
    BY <2>1, AskedKept
  <2>3. QED
    BY <2>2
<1>2. ASSUME notices' = notices, NEW n \in notices'
      PROVE  (IF n.kind = "friend_accepted" THEN Asked(n.to, n.actor, {"accepted"})
                                 ELSE Asked(n.actor, n.to, Status \ {"none"}))'
  <2>1. CASE n.kind = "friend_accepted"
    <3>1. Asked(n.to, n.actor, {"accepted"})
      BY <1>2, <2>1 DEF IInv, NoticesAreTrue
    <3>2. Asked(n.to, n.actor, {"accepted"})'
      BY <3>1, AskedKept
    <3>3. QED
      BY <2>1, <3>2
  <2>2. CASE n.kind # "friend_accepted"
    <3>1. Asked(n.actor, n.to, Status \ {"none"})
      BY <1>2, <2>2 DEF IInv, NoticesAreTrue
    <3>2. Asked(n.actor, n.to, Status \ {"none"})'
      BY <3>1, AskedKept
    <3>3. QED
      BY <2>2, <3>2
  <2>3. QED
    BY <2>1, <2>2
<1>3. QED
  BY <1>1, <1>2 DEF FriendshipsWereAccepted, NoticesAreTrue

-----------------------------------------------------------------------------
(* The actions.                                                            *)

\* A step that only moves handlers or writes notices keeps what the rows say.
LEMMA TablesStay ==
  ASSUME IInv, UNCHANGED <<friends, count, request>>
  PROVE  /\ RowsKept /\ RowInv' /\ OnePendingEachWay' /\ FriendCountIsExact'
         /\ FriendshipsWereAccepted' /\ request' \in [RequestIds -> RequestRow]
         /\ notices' = notices => NoticesAreTrue'
<1>1. RowsKept
  BY DEF RowsKept
<1>2. RowInv' /\ OnePendingEachWay' /\ request' \in [RequestIds -> RequestRow]
  BY DEF IInv, RowInv, OnePendingEachWay, Pending, TypeOK
<1>3. FriendCountIsExact'
  BY DEF IInv, FriendCountIsExact
<1>4. QED
  BY <1>1, <1>2, <1>3, RecordsKept

\* A handler that reads and moves on.
LEMMA HandlerMoves ==
  ASSUME IInv, NEW r \in Reqs, NEW q \in Handler, Coherent(q),
         req' = [req EXCEPT ![r] = q],
         UNCHANGED <<friends, count, request, blocks, notices>>
  PROVE  IInv' /\ RowsKept
<1>1. /\ RowsKept /\ RowInv' /\ OnePendingEachWay' /\ FriendCountIsExact'
      /\ FriendshipsWereAccepted' /\ NoticesAreTrue'
      /\ request' \in [RequestIds -> RequestRow]
  BY TablesStay
<1>2. Coherent(q)'
  BY <1>1, CoherenceKept
<1>3. HandlerInv' /\ req' \in [Reqs -> Handler]
  BY <1>1, <1>2, HandlersKept
<1>4. TypeOK'
  BY <1>1, <1>3 DEF IInv, TypeOK
<1>5. QED
  BY <1>1, <1>3, <1>4 DEF IInv

\* A finished handler relies on nothing.
LEMMA IdleIsCoherent == Idle \in Handler /\ Coherent(Idle) /\ Coherent(Idle)'
  BY DEF Idle, Handler, Coherent, InFlight

\* Ending a handler early.
LEMMA FinishKeepsIInv ==
  ASSUME IInv, NEW r \in Reqs, Finish(r),
         UNCHANGED <<friends, count, request, blocks, notices>>
  PROVE  IInv' /\ RowsKept
  BY IdleIsCoherent, HandlerMoves DEF Finish

\* The reads of sendRequest and accept.
LEMMA ReadKeepsIInv ==
  ASSUME IInv, NEW r \in Reqs,
         \/ Arrive(r) \/ SendCheckBlock(r) \/ SendReadState(r) \/ SendFindIncoming(r)
         \/ AcceptRead(r) \/ AcceptCheckBlock(r) \/ Abort(r)
  PROVE  IInv' /\ RowsKept
<1> PICK q \in Handler : q = req[r]
  BY DEF IInv, TypeOK
<1>0. Coherent(q) /\ request \in [RequestIds -> RequestRow]
  BY DEF IInv, HandlerInv, TypeOK
<1>1. UNCHANGED <<friends, count, request, blocks, notices>>
  BY DEF Arrive, SendArrive, AcceptArrive, SendCheckBlock, SendReadState,
         SendFindIncoming, AcceptRead, AcceptCheckBlock, Abort
<1>2. ASSUME NEW me \in Users, NEW other \in Users, SendArrive(r, me, other)
      PROVE  IInv' /\ RowsKept
  <2>n. PICK n \in Handler :
          n = [Idle EXCEPT !.at = "send_block", !.me = me, !.other = other]
    BY DEF Idle, Handler, InFlight
  <2>1. n.at = "send_block" /\ n.me = me /\ n.other = other
    BY <2>n DEF Idle
  <2>2. Coherent(n) /\ req' = [req EXCEPT ![r] = n]
    BY <1>2, <2>n, <2>1 DEF SendArrive, Coherent
  <2>3. QED
    BY <1>1, <2>n, <2>2, HandlerMoves
<1>3. ASSUME NEW me \in Users, NEW i \in RequestIds, AcceptArrive(r, me, i)
      PROVE  IInv' /\ RowsKept
  <2>n. PICK n \in Handler :
          n = [Idle EXCEPT !.at = "accept_read", !.me = me, !.id = i]
    BY DEF Idle, Handler, InFlight
  <2>1. n.at = "accept_read" /\ n.me = me /\ n.id = i
    BY <2>n DEF Idle
  <2>2. Coherent(n) /\ req' = [req EXCEPT ![r] = n]
    BY <1>3, <2>n, <2>1 DEF AcceptArrive, Coherent
  <2>3. QED
    BY <1>1, <2>n, <2>2, HandlerMoves
\* Goto moves along one branch of the same call.
<1>4. ASSUME NEW from, NEW to, Goto(r, to), q.at = from,
             <<from, to>> \in {<<"send_block", "send_state">>,
                               <<"send_state", "send_incoming">>,
                               <<"send_state", "send_insert">>,
                               <<"accept_block", "accept_tx">>}
      PROVE  IInv' /\ RowsKept
  <2>n. PICK n \in Handler : n = [q EXCEPT !.at = to]
    BY <1>4, Zenon DEF Handler, InFlight
  <2>1. n.at = to /\ n.me = q.me /\ n.other = q.other /\ n.id = q.id
    BY <2>n DEF Handler
  <2>2. Coherent(n)
    BY <1>0, <1>4, <2>1 DEF Coherent
  <2>3. req' = [req EXCEPT ![r] = n]
    BY <1>4, <2>n DEF Goto
  <2>4. QED
    BY <1>1, <2>n, <2>2, <2>3, HandlerMoves
<1>5. CASE SendCheckBlock(r)
  BY <1>1, <1>4, <1>5, FinishKeepsIInv DEF SendCheckBlock
<1>6. CASE SendReadState(r)
  <2>1. /\ q.at = "send_state"
        /\ Finish(r) \/ Goto(r, "send_incoming") \/ Goto(r, "send_insert")
    BY <1>6 DEF SendReadState
  <2>2. QED
    BY <1>1, <1>4, <2>1, FinishKeepsIInv
<1>7. CASE AcceptCheckBlock(r)
  BY <1>1, <1>4, <1>7, FinishKeepsIInv DEF AcceptCheckBlock
<1>8. CASE SendFindIncoming(r)
  <2>1. ASSUME NEW i \in Pending(q.other, q.me),
               req' = [req EXCEPT ![r] = [q EXCEPT !.at = "accept_read", !.id = i]]
        PROVE  IInv' /\ RowsKept
    <3>1. i \in RequestIds /\ request[i].status = "pending"
      BY DEF Pending
    <3>n. PICK n \in Handler : n = [q EXCEPT !.at = "accept_read", !.id = i]
      BY <3>1, Zenon DEF Handler, InFlight
    <3>2. n.at = "accept_read" /\ n.me = q.me /\ n.id = i
      BY <3>n DEF Handler
    <3>3. Coherent(n)
      BY <1>0, <1>8, <3>1, <3>2 DEF Coherent, SendFindIncoming
    <3>4. req' = [req EXCEPT ![r] = n]
      BY <2>1, <3>n
    <3>5. QED
      BY <1>1, <3>n, <3>3, <3>4, HandlerMoves
  <2>2. QED
    BY <1>1, <1>8, <2>1, FinishKeepsIInv DEF SendFindIncoming
<1>9. CASE AcceptRead(r)
  <2>1. q.at = "accept_read" /\ q.id \in RequestIds /\ q.me \in Users
    BY <1>0, <1>9 DEF AcceptRead, Coherent
  <2> PICK other : other = request[q.id].from
    OBVIOUS
  <2>2. ASSUME request[q.id].to = q.me, request[q.id].status = "pending",
               req' = [req EXCEPT ![r] = [q EXCEPT !.at = "accept_block", !.other = other]]
        PROVE  IInv' /\ RowsKept
    <3>1. other \in Users /\ q.me # other
      BY <2>1, <2>2 DEF IInv, RowInv
    <3>n. PICK n \in Handler : n = [q EXCEPT !.at = "accept_block", !.other = other]
      BY <3>1, Zenon DEF Handler, InFlight
    <3>2. n.at = "accept_block" /\ n.me = q.me /\ n.other = other /\ n.id = q.id
      BY <3>n DEF Handler
    <3>3. Coherent(n)
      BY <2>1, <2>2, <3>1, <3>2 DEF Coherent
    <3>4. req' = [req EXCEPT ![r] = n]
      BY <2>2, <3>n
    <3>5. QED
      BY <1>1, <3>n, <3>3, <3>4, HandlerMoves
  <2>3. QED
    BY <1>1, <1>9, <2>2, FinishKeepsIInv DEF AcceptRead
<1>10. QED
  BY <1>1, <1>2, <1>3, <1>5, <1>6, <1>7, <1>8, <1>9, FinishKeepsIInv DEF Arrive, Abort

\* INSERT INTO friend_requests: a new row, and the handler goes on to notify.
LEMMA InsertKeepsIInv ==
  ASSUME IInv, NEW r \in Reqs, NEW i \in RequestIds, SendInsert(r, i)
  PROVE  IInv' /\ RowsKept
<1> PICK q \in Handler : q = req[r]
  BY DEF IInv, TypeOK
<1>0. /\ q.at = "send_insert" /\ q.me \in Users /\ q.other \in Users /\ q.me # q.other
      /\ request[i].status = "none" /\ request \in [RequestIds -> RequestRow]
      /\ UNCHANGED <<friends, count, blocks, notices>>
  BY DEF SendInsert, IInv, HandlerInv, Coherent, TypeOK
<1>1. CASE Pending(q.me, q.other) # {}
  BY <1>0, <1>1, FinishKeepsIInv DEF SendInsert
<1>2. CASE Pending(q.me, q.other) = {}
  <2>r. PICK row \in RequestRow : row = [from |-> q.me, to |-> q.other, status |-> "pending"]
    BY <1>0 DEF RequestRow, Status
  <2>n. PICK n \in Handler : n = [q EXCEPT !.at = "notify_request"]
    BY Zenon DEF Handler, InFlight
  <2>1. /\ request' = [request EXCEPT ![i] = row] /\ req' = [req EXCEPT ![r] = n]
        /\ row.from = q.me /\ row.to = q.other /\ row.status = "pending"
        /\ n.at = "notify_request" /\ n.me = q.me /\ n.other = q.other
    <3>1. request' = [request EXCEPT ![i] = row] /\ Goto(r, "notify_request")
      BY <1>2, <2>r DEF SendInsert
    <3>2. req' = [req EXCEPT ![r] = n]
      BY <3>1, <2>n DEF Goto
    <3>3. n.at = "notify_request" /\ n.me = q.me /\ n.other = q.other
      BY <2>n DEF Handler
    <3>4. row.from = q.me /\ row.to = q.other /\ row.status = "pending"
      BY <2>r
    <3>5. QED
      BY <3>1, <3>2, <3>3, <3>4
  <2>2. /\ request' \in [RequestIds -> RequestRow] /\ request'[i] = row
        /\ \A j \in RequestIds \ {i} : request'[j] = request[j]
    BY <1>0, <2>r, <2>1
  <2>3. RowsKept
    BY <1>0, <2>2 DEF RowsKept
  <2>4. RowInv'
    BY <1>0, <2>1, <2>2 DEF IInv, RowInv
  <2>5. OnePendingEachWay'
    <3>1. ASSUME NEW a \in Users, NEW b \in Users, NEW j \in RequestIds, NEW k \in RequestIds,
                 request'[j].status = "pending", request'[j].from = a, request'[j].to = b,
                 request'[k].status = "pending", request'[k].from = a, request'[k].to = b
          PROVE  j = k
      <4>1. CASE a = q.me /\ b = q.other
        BY <1>2, <2>1, <2>2, <3>1, <4>1 DEF Pending
      <4>2. CASE ~(a = q.me /\ b = q.other)
        BY <2>1, <2>2, <3>1, <4>2 DEF IInv, OnePendingEachWay, Pending
      <4>3. QED
        BY <4>1, <4>2
    <3>2. QED
      BY <3>1 DEF OnePendingEachWay, Pending
  <2>6. Coherent(n)'
    BY <1>0, <2>1, <2>2 DEF Coherent, Asked, Status
  <2>7. FriendshipsWereAccepted' /\ NoticesAreTrue' /\ FriendCountIsExact'
    BY <1>0, <2>2, <2>3, RecordsKept DEF IInv, FriendCountIsExact
  <2>8. HandlerInv' /\ req' \in [Reqs -> Handler]
    BY <2>n, <2>1, <2>2, <2>3, <2>6, HandlersKept
  <2>9. TypeOK'
    BY <1>0, <2>2, <2>8 DEF IInv, TypeOK
  <2>10. QED
    BY <2>3, <2>4, <2>5, <2>7, <2>8, <2>9 DEF IInv
<1>3. QED
  BY <1>1, <1>2

\* Rows only leave 'pending', or become 'accepted': what every UPDATE does.
LEMMA UpdateKeeps ==
  ASSUME IInv, request' \in [RequestIds -> RequestRow],
         \A i \in RequestIds :
           /\ request'[i].from = request[i].from /\ request'[i].to = request[i].to
           /\ \/ request'[i].status = request[i].status
              \/ /\ request[i].status = "pending"
                 /\ request'[i].status \in {"cancelled", "rejected"}
              \/ request[i].status # "none" /\ request'[i].status = "accepted"
  PROVE  RowsKept /\ RowInv' /\ OnePendingEachWay'
<1>1. RowsKept
  BY DEF RowsKept
<1>2. RowInv'
  BY DEF IInv, RowInv
<1>3. \A i \in RequestIds : request'[i].status = "pending" => request[i].status = "pending"
  OBVIOUS
<1>4. OnePendingEachWay'
  BY <1>3 DEF IInv, OnePendingEachWay, Pending
<1>5. QED
  BY <1>1, <1>2, <1>4

\* The transaction of accept.
LEMMA CommitKeepsIInv ==
  ASSUME IInv, NEW r \in Reqs, AcceptCommit(r)
  PROVE  IInv' /\ RowsKept
<1> PICK q \in Handler : q = req[r]
  BY DEF IInv, TypeOK
<1>0. /\ q.at = "accept_tx" /\ q.me \in Users /\ q.other \in Users /\ q.me # q.other
      /\ q.id \in RequestIds /\ request[q.id].status # "none"
      /\ request[q.id].from = q.other /\ request[q.id].to = q.me
      /\ request \in [RequestIds -> RequestRow] /\ UNCHANGED <<blocks, notices>>
  BY DEF AcceptCommit, IInv, HandlerInv, Coherent, TypeOK
<1>1. request' = [i \in RequestIds |->
                    CASE i = q.id -> [request[i] EXCEPT !.status = "accepted"]
                      [] i \in Pending(q.me, q.other) \ {q.id} ->
                           [request[i] EXCEPT !.status = "cancelled"]
                      [] OTHER -> request[i]]
  BY DEF AcceptCommit
<1>2. ASSUME NEW i \in RequestIds
      PROVE  /\ request'[i] \in RequestRow
             /\ request'[i].from = request[i].from /\ request'[i].to = request[i].to
             /\ \/ request'[i].status = request[i].status
                \/ request[i].status = "pending" /\ request'[i].status = "cancelled"
                \/ i = q.id /\ request'[i].status = "accepted"
             /\ i = q.id => request'[i].status = "accepted"
  <2>1. request[i] \in RequestRow
    BY <1>0
  <2>2. CASE i = q.id
    <3>1. request'[i] = [request[i] EXCEPT !.status = "accepted"]
      BY <1>1, <2>2
    <3>2. QED
      BY <2>1, <2>2, <3>1 DEF RequestRow, Status
  <2>3. CASE i \in Pending(q.me, q.other) \ {q.id}
    <3>1. request'[i] = [request[i] EXCEPT !.status = "cancelled"] /\ i # q.id
      BY <1>1, <2>3
    <3>2. request[i].status = "pending"
      BY <2>3 DEF Pending
    <3>3. QED
      BY <2>1, <3>1, <3>2 DEF RequestRow, Status
  <2>4. CASE i # q.id /\ i \notin Pending(q.me, q.other) \ {q.id}
    BY <1>1, <2>1, <2>4
  <2>5. QED
    BY <2>2, <2>3, <2>4
<1>3. request' \in [RequestIds -> RequestRow]
  BY <1>1, <1>2
<1>4. RowsKept /\ RowInv' /\ OnePendingEachWay'
  BY <1>0, <1>2, <1>3, UpdateKeeps
<1>5. Asked(q.other, q.me, {"accepted"})'
  BY <1>0, <1>2 DEF Asked
<1>6. {q.me, q.other} \in Pairs
  <2>1. {q.me, q.other} \notin {{a} : a \in Users}
    BY <1>0
  <2>2. QED
    BY <1>0, <2>1 DEF Pairs
<1>7. AddFriends({q.me, q.other})
  BY DEF AcceptCommit
<1>8. friends' \subseteq Pairs /\ count' \in [Users -> Nat] /\ FriendCountIsExact'
  BY <1>6, <1>7, AddKeepsCount DEF IInv
<1>9. FriendshipsWereAccepted'
  <2>1. ASSUME NEW p \in friends'
        PROVE  (\E a, b \in p : Asked(a, b, {"accepted"}))'
    <3>1. CASE p = {q.me, q.other}
      BY <1>5, <3>1
    <3>2. CASE p \in friends
      <4>1. PICK a \in p, b \in p : Asked(a, b, {"accepted"})
        BY <3>2 DEF IInv, FriendshipsWereAccepted
      <4>2. Asked(a, b, {"accepted"})'
        BY <1>3, <1>4, <4>1, AskedKept
      <4>3. QED
        BY <4>2
    <3>3. QED
      BY <1>7, <3>1, <3>2 DEF AddFriends
  <2>2. QED
    BY <2>1 DEF FriendshipsWereAccepted
<1>10. NoticesAreTrue'
  BY <1>0, <1>3, <1>4, RecordsKept
<1>n. PICK n \in Handler : n = [q EXCEPT !.at = "notify_accept"]
  BY Zenon DEF Handler, InFlight
<1>11. req' = [req EXCEPT ![r] = n]
  BY <1>n DEF AcceptCommit, Goto
<1>12. Coherent(n)'
  <2>1. n.at = "notify_accept" /\ n.me = q.me /\ n.other = q.other
    BY <1>n DEF Handler
  <2>2. QED
    BY <1>0, <1>5, <2>1 DEF Coherent
<1>13. HandlerInv' /\ req' \in [Reqs -> Handler]
  BY <1>n, <1>3, <1>4, <1>11, <1>12, HandlersKept
<1>14. TypeOK'
  BY <1>0, <1>3, <1>8, <1>13 DEF IInv, TypeOK
<1>15. QED
  BY <1>4, <1>8, <1>9, <1>10, <1>13, <1>14 DEF IInv

\* A notification follows the write it tells of.
LEMMA NotifyKeepsIInv ==
  ASSUME IInv, NEW r \in Reqs, Notify(r)
  PROVE  IInv' /\ RowsKept
<1> PICK q \in Handler : q = req[r]
  BY DEF IInv, TypeOK
<1> PICK kind \in {"friend_request", "friend_accepted"} :
           kind = IF q.at = "notify_request" THEN "friend_request" ELSE "friend_accepted"
  OBVIOUS
<1>0. /\ q.at \in {"notify_request", "notify_accept"} /\ Coherent(q)
      /\ q.me \in Users /\ q.other \in Users
      /\ UNCHANGED <<friends, count, request, blocks>> /\ req' = [req EXCEPT ![r] = Idle]
  BY DEF Notify, Finish, IInv, HandlerInv, Coherent
<1>n. PICK n \in Notice : n = [to |-> q.other, actor |-> q.me, kind |-> kind]
  <2>1. [to |-> q.other, actor |-> q.me, kind |-> kind] \in Notice
    BY <1>0, Zenon DEF Notice
  <2>2. QED
    BY <2>1
<1>1. notices' = notices \cup {n}
  BY <1>n DEF Notify
<1>2. /\ RowsKept /\ RowInv' /\ OnePendingEachWay' /\ FriendCountIsExact'
      /\ FriendshipsWereAccepted' /\ request' \in [RequestIds -> RequestRow]
  BY <1>0, TablesStay
<1>3. HandlerInv' /\ req' \in [Reqs -> Handler]
  BY <1>0, <1>2, IdleIsCoherent, HandlersKept
<1>4. IF n.kind = "friend_accepted" THEN Asked(n.to, n.actor, {"accepted"})
                                    ELSE Asked(n.actor, n.to, Status \ {"none"})
  <2>1. n.to = q.other /\ n.actor = q.me /\ n.kind = kind
    BY <1>n
  <2>2. QED
    BY <1>0, <2>1 DEF Coherent
<1>5. NoticesAreTrue'
  <2>1. \A m \in notices' :
          IF m.kind = "friend_accepted" THEN Asked(m.to, m.actor, {"accepted"})
                                        ELSE Asked(m.actor, m.to, Status \ {"none"})
    BY <1>1, <1>4 DEF IInv, NoticesAreTrue
  <2>2. QED
    BY <1>0, <2>1 DEF NoticesAreTrue, Asked
<1>6. TypeOK'
  BY <1>0, <1>n, <1>1, <1>3 DEF IInv, TypeOK
<1>7. QED
  BY <1>2, <1>3, <1>5, <1>6 DEF IInv

\* Single statements on the three tables.
LEMMA DecideKeepsIInv ==
  ASSUME IInv, Decide
  PROVE  IInv' /\ RowsKept
\* What each of them does: settles pending rows, drops at most one friendship,
\* and changes blocks between users.
<1>1. ASSUME NEW S, NEW status \in {"rejected", "cancelled"}, Settle(S, status),
             \A i \in S : i \in RequestIds => request[i].status = "pending",
             friends' \subseteq friends, count' \in [Users -> Nat], FriendCountIsExact',
             blocks' \subseteq Users \X Users, UNCHANGED <<notices, req>>
      PROVE  IInv' /\ RowsKept
  <2>1. ASSUME NEW i \in RequestIds
        PROVE  /\ request'[i] \in RequestRow
               /\ request'[i].from = request[i].from /\ request'[i].to = request[i].to
               /\ \/ request'[i].status = request[i].status
                  \/ request[i].status = "pending" /\ request'[i].status = status
    <3>1. request[i] \in RequestRow
      BY DEF IInv, TypeOK
    <3>2. CASE i \in S
      <4>1. request'[i] = [request[i] EXCEPT !.status = status]
        BY <1>1, <3>2 DEF Settle
      <4>2. QED
        BY <1>1, <3>1, <3>2, <4>1 DEF RequestRow, Status
    <3>3. CASE i \notin S
      BY <1>1, <3>1, <3>3 DEF Settle
    <3>4. QED
      BY <3>2, <3>3
  <2>2. request' \in [RequestIds -> RequestRow]
    BY <1>1, <2>1 DEF Settle
  <2>3. RowsKept /\ RowInv' /\ OnePendingEachWay'
    BY <2>1, <2>2, UpdateKeeps
  <2>4. FriendshipsWereAccepted' /\ NoticesAreTrue'
    BY <1>1, <2>2, <2>3, RecordsKept
  <2>5. HandlerInv' /\ req' \in [Reqs -> Handler]
    BY <1>1, <2>2, <2>3, HandlersKept
  <2>6. TypeOK'
    BY <1>1, <2>2, <2>5 DEF IInv, TypeOK
  <2>7. QED
    BY <1>1, <2>3, <2>4, <2>5, <2>6 DEF IInv
\* Nothing settled: the rows stay.
<1>2. ASSUME request' = request,
             friends' \subseteq friends, count' \in [Users -> Nat], FriendCountIsExact',
             blocks' \subseteq Users \X Users, UNCHANGED <<notices, req>>
      PROVE  IInv' /\ RowsKept
  <2>1. RowsKept /\ RowInv' /\ OnePendingEachWay' /\ request' \in [RequestIds -> RequestRow]
    BY <1>2 DEF RowsKept, IInv, RowInv, OnePendingEachWay, Pending, TypeOK
  <2>2. FriendshipsWereAccepted' /\ NoticesAreTrue'
    BY <1>2, <2>1, RecordsKept
  <2>3. HandlerInv' /\ req' \in [Reqs -> Handler]
    BY <1>2, <2>1, HandlersKept
  <2>4. TypeOK'
    BY <1>2, <2>1, <2>3 DEF IInv, TypeOK
  <2>5. QED
    BY <1>2, <2>1, <2>2, <2>3, <2>4 DEF IInv
<1>3. UNCHANGED <<friends, count>> =>
        friends' \subseteq friends /\ count' \in [Users -> Nat] /\ FriendCountIsExact'
  BY DEF IInv, TypeOK, FriendCountIsExact
<1>4. UNCHANGED blocks => blocks' \subseteq Users \X Users
  BY DEF IInv, TypeOK
<1>5. ASSUME NEW x, DropFriends(x)
      PROVE  friends' \subseteq friends /\ count' \in [Users -> Nat] /\ FriendCountIsExact'
  BY <1>5, DropKeepsCount DEF IInv
<1>6. ASSUME NEW me \in Users, NEW i \in RequestIds, Reject(me, i) \/ Cancel(me, i)
      PROVE  IInv' /\ RowsKept
  <2>1. /\ UNCHANGED <<friends, count>> /\ UNCHANGED blocks /\ UNCHANGED <<notices, req>>
        /\ \A j \in {i} : j \in RequestIds => request[j].status = "pending"
        /\ Settle({i}, "rejected") \/ Settle({i}, "cancelled")
    BY <1>6 DEF Reject, Cancel
  <2>2. QED
    BY <1>1, <1>3, <1>4, <2>1
<1>7. ASSUME NEW me \in Users, NEW other \in Users, Remove(me, other)
      PROVE  IInv' /\ RowsKept
  <2>1. /\ DropFriends({me, other}) /\ request' = request
        /\ UNCHANGED blocks /\ UNCHANGED <<notices, req>>
    BY <1>7 DEF Remove
  <2>2. QED
    BY <1>2, <1>4, <1>5, <2>1
<1>8. ASSUME NEW me \in Users, NEW other \in Users, Block(me, other)
      PROVE  IInv' /\ RowsKept
  <2> DEFINE S == Pending(me, other) \cup Pending(other, me)
  <2>1. /\ DropFriends({me, other}) /\ Settle(S, "cancelled")
        /\ UNCHANGED <<notices, req>>
    BY <1>8 DEF Block
  <2>2. blocks' \subseteq Users \X Users
    BY <1>8 DEF Block, IInv, TypeOK
  <2>3. \A i \in S : i \in RequestIds => request[i].status = "pending"
    BY DEF Pending
  <2>4. QED
    BY <1>1, <1>5, <2>1, <2>2, <2>3
<1>9. ASSUME NEW me \in Users, NEW other \in Users, Unblock(me, other)
      PROVE  IInv' /\ RowsKept
  <2>1. /\ UNCHANGED <<friends, count>> /\ request' = request
        /\ UNCHANGED <<notices, req>> /\ blocks' \subseteq Users \X Users
    BY <1>9 DEF Unblock, IInv, TypeOK
  <2>2. QED
    BY <1>2, <1>3, <2>1
<1>10. QED
  BY <1>6, <1>7, <1>8, <1>9 DEF Decide

\* Every step keeps the invariant and the rows.
LEMMA StepIInv ==
  ASSUME IInv, [Next]_vars
  PROVE  IInv' /\ RowsKept
<1>1. ASSUME NEW r \in Reqs, Continue(r) PROVE IInv' /\ RowsKept
  BY <1>1, ReadKeepsIInv, InsertKeepsIInv, CommitKeepsIInv, NotifyKeepsIInv DEF Continue
<1>2. CASE UNCHANGED vars
  <2>1. IInv'
    BY <1>2 DEF vars, IInv, TypeOK, RowInv, HandlerInv, Coherent, FriendCountIsExact,
                FriendshipsWereAccepted, NoticesAreTrue, OnePendingEachWay, Pending, Asked
  <2>2. RowsKept
    BY <1>2 DEF vars, RowsKept
  <2>3. QED
    BY <2>1, <2>2
<1>3. QED
  BY <1>1, <1>2, ReadKeepsIInv, DecideKeepsIInv DEF Next

-----------------------------------------------------------------------------
(* The results.                                                            *)

\* The inductive invariant holds in every reachable state.
THEOREM Invariance == Spec => []IInv
<1>1. IInv /\ [Next]_vars => IInv'
  BY StepIInv
<1>2. QED
  BY InitIInv, <1>1, PTL DEF Spec

\* Every row of the social tables and every handler is well formed.
THEOREM TypeCorrect == Spec => []TypeOK
<1>1. IInv => TypeOK
  BY DEF IInv
<1>2. QED
  BY Invariance, <1>1, PTL

\* profiles.friend_count is exact, however accepts, removals and blocks race.
THEOREM FriendCountHonest == Spec => []FriendCountIsExact
<1>1. IInv => FriendCountIsExact
  BY DEF IInv
<1>2. QED
  BY Invariance, <1>1, PTL

\* Nobody becomes a friend, or is told of a request, that was never made, and one
\* is pending at most once in each direction.
THEOREM NobodyIsFriendUnasked == Spec => []RequestsAreTrue
<1>1. IInv => RequestsAreTrue
  BY DEF IInv, RequestsAreTrue
<1>2. QED
  BY Invariance, <1>1, PTL

\* A friendship comes from the transaction of accept and from nowhere else.
LEMMA OnlyCommitBefriends ==
  ASSUME IInv, [Next]_vars, NEW p \in friends', p \notin friends
  PROVE  \E r \in Reqs : req[r].at = "accept_tx" /\ p = {req[r].me, req[r].other}
<1>1. ASSUME NEW x, DropFriends(x) PROVE FALSE
  BY <1>1 DEF DropFriends
<1>2. ASSUME Decide PROVE FALSE
  BY <1>1, <1>2 DEF Decide, Reject, Cancel, Remove, Block, Unblock
<1>3. ASSUME NEW r \in Reqs, Arrive(r) \/ Abort(r) PROVE FALSE
  BY <1>3 DEF Arrive, SendArrive, AcceptArrive, Abort
<1>4. ASSUME NEW r \in Reqs, Continue(r) PROVE AcceptCommit(r)
  BY <1>4 DEF Continue, SendCheckBlock, SendReadState, SendFindIncoming, SendInsert,
              AcceptRead, AcceptCheckBlock, Notify
<1>5. PICK r \in Reqs : AcceptCommit(r)
  BY <1>2, <1>3, <1>4 DEF Next, vars
<1>6. req[r].at = "accept_tx" /\ friends' = friends \cup {{req[r].me, req[r].other}}
  BY <1>5 DEF AcceptCommit, AddFriends
<1>7. QED
  BY <1>6

\* A pending row comes from the INSERT of sendRequest and from nowhere else.
LEMMA OnlyInsertAsks ==
  ASSUME IInv, [Next]_vars, NEW i \in RequestIds,
         request'[i].status = "pending", request[i].status # "pending"
  PROVE  \E r \in Reqs : /\ req[r].at = "send_insert"
                         /\ request'[i].from = req[r].me /\ request'[i].to = req[r].other
<1>1. request[i].status = "none" /\ request \in [RequestIds -> RequestRow]
  BY StepIInv DEF RowsKept, IInv, TypeOK
<1>2. ASSUME request'[i] = request[i] PROVE FALSE
  BY <1>2
<1>3. ASSUME NEW S, NEW status, i \notin S, Settle(S, status) PROVE FALSE
  BY <1>2, <1>3 DEF Settle
<1>4. ASSUME Decide PROVE FALSE
  BY <1>1, <1>2, <1>3, <1>4 DEF Decide, Reject, Cancel, Remove, Block, Unblock, Pending
<1>5. ASSUME NEW r \in Reqs, Arrive(r) \/ Abort(r) PROVE FALSE
  BY <1>2, <1>5 DEF Arrive, SendArrive, AcceptArrive, Abort
<1>6. ASSUME NEW r \in Reqs, AcceptCommit(r) PROVE FALSE
  <2> PICK q \in Handler : q = req[r]
    BY DEF IInv, TypeOK
  <2>1. request[q.id].status # "none"
    BY <1>6 DEF AcceptCommit, IInv, HandlerInv, Coherent
  <2>2. i # q.id /\ i \notin Pending(q.me, q.other)
    BY <1>1, <2>1 DEF Pending
  <2>3. request'[i] = request[i]
    BY <1>6, <2>2 DEF AcceptCommit
  <2>4. QED
    BY <1>2, <2>3
<1>7. ASSUME NEW r \in Reqs, Continue(r) PROVE \E j \in RequestIds : SendInsert(r, j)
  BY <1>2, <1>6, <1>7 DEF Continue, SendCheckBlock, SendReadState, SendFindIncoming,
                          AcceptRead, AcceptCheckBlock, Notify
<1>8. PICK r \in Reqs, j \in RequestIds : SendInsert(r, j)
  BY <1>2, <1>4, <1>5, <1>7 DEF Next, vars
<1>9. /\ req[r].at = "send_insert"
      /\ \/ request' = [request EXCEPT ![j] = [from |-> req[r].me, to |-> req[r].other,
                                               status |-> "pending"]]
         \/ request' = request
  BY <1>8 DEF SendInsert
<1>10. request'[i] = [from |-> req[r].me, to |-> req[r].other, status |-> "pending"]
  BY <1>1, <1>2, <1>9
<1>11. QED
  BY <1>9, <1>10

\* The positions of a handler that has looked at blocks for the last time.
Past == {"send_state", "send_insert", "accept_tx"}

\* No handler gets past its check on a blocked pair.
LEMMA ChecksHold ==
  ASSUME IInv, [Next]_vars, NEW r \in Reqs, req'[r].at \in Past
  PROVE  /\ req'[r].me \in Users /\ req'[r].other \in Users
         /\ \/ /\ req[r].at \in Past
               /\ req'[r].me = req[r].me /\ req'[r].other = req[r].other
            \/ ~Blocked(req'[r].me, req'[r].other)
<1> PICK q \in Handler : q = req[r]
  BY DEF IInv, TypeOK
<1>0. req \in [Reqs -> Handler] /\ IInv'
  BY StepIInv DEF IInv, TypeOK
<1>1. req'[r].me \in Users /\ req'[r].other \in Users
  BY <1>0 DEF IInv, HandlerInv, Coherent, Past
<1>2. ASSUME Finish(r) PROVE FALSE
  BY <1>0, <1>2 DEF Finish, Idle, Past
<1>3. ASSUME NEW step, Goto(r, step)
      PROVE  req'[r].at = step /\ req'[r].me = q.me /\ req'[r].other = q.other
  <2>1. req'[r] = [q EXCEPT !.at = step]
    BY <1>0, <1>3 DEF Goto
  <2>2. QED
    BY <2>1 DEF Handler
<1>4. ASSUME Arrive(r) PROVE FALSE
  BY ZenonT(40), <1>0, <1>4 DEF Arrive, SendArrive, AcceptArrive, Idle, Past
<1>5. CASE SendCheckBlock(r)
  BY <1>1, <1>2, <1>3, <1>5 DEF SendCheckBlock
<1>6. CASE SendReadState(r)
  BY <1>1, <1>2, <1>3, <1>6 DEF SendReadState, Past
<1>7. ASSUME SendFindIncoming(r) PROVE FALSE
  <2>1. ASSUME NEW i \in RequestIds,
               req' = [req EXCEPT ![r] = [q EXCEPT !.at = "accept_read", !.id = i]]
        PROVE  FALSE
    <3>1. req'[r] = [q EXCEPT !.at = "accept_read", !.id = i]
      BY <1>0, <2>1
    <3>2. QED
      BY <3>1 DEF Handler, Past
  <2>2. QED
    BY <1>2, <1>7, <2>1 DEF SendFindIncoming, Pending
<1>8. ASSUME NEW i \in RequestIds, SendInsert(r, i) PROVE FALSE
  BY <1>2, <1>3, <1>8 DEF SendInsert, Past
<1>9. ASSUME AcceptRead(r) PROVE FALSE
  <2> PICK other : other = request[q.id].from
    OBVIOUS
  <2>1. ASSUME req' = [req EXCEPT ![r] = [q EXCEPT !.at = "accept_block", !.other = other]]
        PROVE  FALSE
    <3>1. req'[r] = [q EXCEPT !.at = "accept_block", !.other = other]
      BY <1>0, <2>1
    <3>2. QED
      BY <3>1 DEF Handler, Past
  <2>2. QED
    BY <1>2, <1>9, <2>1 DEF AcceptRead
<1>10. CASE AcceptCheckBlock(r)
  BY <1>1, <1>2, <1>3, <1>10 DEF AcceptCheckBlock
<1>11. ASSUME AcceptCommit(r) PROVE FALSE
  BY <1>3, <1>11 DEF AcceptCommit, Past
<1>12. ASSUME Notify(r) PROVE FALSE
  BY <1>2, <1>12 DEF Notify
<1>13. ASSUME Abort(r) PROVE FALSE
  BY <1>2, <1>13 DEF Abort
<1>14. CASE req'[r] = req[r]
  BY <1>1, <1>14
<1>15. ASSUME NEW s \in Reqs, s # r, Arrive(s) \/ Continue(s) \/ Abort(s)
       PROVE  req'[r] = req[r]
  BY <1>0, <1>15 DEF Arrive, Continue, Abort, SendArrive, AcceptArrive, SendCheckBlock,
                     SendReadState, SendFindIncoming, SendInsert, AcceptRead,
                     AcceptCheckBlock, AcceptCommit, Notify, Goto, Finish
<1>16. ASSUME Decide PROVE req'[r] = req[r]
  BY <1>16 DEF Decide, Reject, Cancel, Remove, Block, Unblock
<1>17. QED
  BY <1>4, <1>5, <1>6, <1>7, <1>8, <1>9, <1>10, <1>11, <1>12, <1>13, <1>14, <1>15, <1>16
  DEF Next, Continue, vars

\* A block that has outlived the handlers past their check holds until lifted.
THEOREM BlocksHold == Spec => SeveredUntilUnblocked
<1>1. ASSUME IInv, [Next]_vars
      PROVE  [SeveredHolds]_vars
  <2>1. ASSUME NEW a \in Users, NEW b \in Users, a # b, Severed(a, b), Blocked(a, b)'
        PROVE  Severed(a, b)'
    <3>1. {a, b} \notin friends'
      BY <1>1, <2>1, OnlyCommitBefriends DEF Severed, PastItsCheck
    <3>2. Pending(a, b)' = {} /\ Pending(b, a)' = {}
      <4>1. ASSUME NEW i \in RequestIds, request'[i].status = "pending",
                   \/ request'[i].from = a /\ request'[i].to = b
                   \/ request'[i].from = b /\ request'[i].to = a
            PROVE  FALSE
        <5>1. CASE request[i].status = "pending"
          <6>1. RowsKept
            BY <1>1, StepIInv
          <6>2. request'[i].from = request[i].from /\ request'[i].to = request[i].to
            BY <5>1, <6>1 DEF RowsKept
          <6>3. QED
            BY <2>1, <4>1, <5>1, <6>2 DEF Severed, Pending
        <5>2. CASE request[i].status # "pending"
          <6>1. PICK r \in Reqs :
                  /\ req[r].at = "send_insert"
                  /\ request'[i].from = req[r].me /\ request'[i].to = req[r].other
            BY <1>1, <4>1, <5>2, OnlyInsertAsks
          <6>2. {req[r].me, req[r].other} = {a, b}
            BY <4>1, <6>1
          <6>3. QED
            BY <2>1, <6>1, <6>2 DEF Severed, PastItsCheck
        <5>3. QED
          BY <5>1, <5>2
      <4>2. QED
        BY <4>1 DEF Pending
    <3>3. ASSUME NEW r \in Reqs, req'[r].at \in Past, {req'[r].me, req'[r].other} = {a, b}
          PROVE  FALSE
      <4>1. CASE req[r].at \in Past /\ req'[r].me = req[r].me /\ req'[r].other = req[r].other
        BY <2>1, <3>3, <4>1 DEF Severed, PastItsCheck, Past
      <4>2. CASE ~Blocked(req'[r].me, req'[r].other)
        <5>1. \/ req'[r].me = a /\ req'[r].other = b
              \/ req'[r].me = b /\ req'[r].other = a
          BY <2>1, <3>3
        <5>2. QED
          BY <2>1, <4>2, <5>1 DEF Severed, Blocked
      <4>3. QED
        BY <1>1, <3>3, <4>1, <4>2, ChecksHold
    <3>4. QED
      BY <2>1, <3>1, <3>2, <3>3 DEF Severed, PastItsCheck, Past
  <2>2. QED
    BY <2>1 DEF SeveredHolds
<1>2. QED
  BY Invariance, <1>1, PTL DEF Spec, SeveredUntilUnblocked

-----------------------------------------------------------------------------
(* What each statement that writes friend_requests does to the pending     *)
(* rows, when its handler is alone.                                        *)

LEMMA InsertPends ==
  ASSUME SerialInv, NEW r \in Reqs, NEW i \in RequestIds, SendInsert(r, i),
         NEW a \in Users, NEW b \in Users
  PROVE  /\ Pending(req[r].me, req[r].other) = {}
         /\ Pending(a, b)' = IF a = req[r].me /\ b = req[r].other
                               THEN {i} ELSE Pending(a, b)
<1> PICK q \in Handler : q = req[r]
  BY DEF SerialInv, IInv, TypeOK
<1>1. Pending(q.me, q.other) = {}
  BY DEF SerialInv, Current, SendInsert
<1>2. /\ request[i].status = "none"
      /\ request' = [request EXCEPT ![i] =
                       [from |-> q.me, to |-> q.other, status |-> "pending"]]
  BY <1>1 DEF SendInsert
<1>3. /\ request'[i] = [from |-> q.me, to |-> q.other, status |-> "pending"]
      /\ \A j \in RequestIds \ {i} : request'[j] = request[j]
  BY <1>2 DEF SerialInv, IInv, TypeOK
<1>4. CASE a = q.me /\ b = q.other
  BY <1>1, <1>3, <1>4 DEF Pending
<1>5. CASE ~(a = q.me /\ b = q.other)
  <2>1. i \notin Pending(a, b) /\ i \notin Pending(a, b)'
    BY <1>2, <1>3, <1>5 DEF Pending
  <2>2. \A j \in RequestIds \ {i} : j \in Pending(a, b)' <=> j \in Pending(a, b)
    BY <1>3 DEF Pending
  <2>3. Pending(a, b) \subseteq RequestIds /\ Pending(a, b)' \subseteq RequestIds
    BY DEF Pending
  <2>4. Pending(a, b)' = Pending(a, b)
    BY <2>1, <2>2, <2>3
  <2>5. QED
    BY <1>1, <1>5, <2>4
<1>6. QED
  BY <1>1, <1>4, <1>5

LEMMA CommitPends ==
  ASSUME SerialInv, NEW r \in Reqs, AcceptCommit(r),
         NEW a \in Users, NEW b \in Users
  PROVE  Pending(a, b)' = IF a = req[r].other /\ b = req[r].me
                            THEN {} ELSE Pending(a, b)
<1> PICK q \in Handler : q = req[r]
  BY DEF SerialInv, IInv, TypeOK
<1>1. /\ q.me \in Users /\ q.other \in Users /\ q.id \in RequestIds
      /\ request[q.id].from = q.other /\ request[q.id].to = q.me
      /\ request[q.id].status = "pending"
  BY DEF AcceptCommit, SerialInv, IInv, HandlerInv, Coherent, Current
<1>2. q.id \in Pending(q.other, q.me)
  BY <1>1 DEF Pending
<1>3. Pending(q.me, q.other) = {} /\ Pending(q.other, q.me) = {q.id}
  BY <1>1, <1>2 DEF SerialInv, NoneCrosses, IInv, OnePendingEachWay
<1>4. \A i \in RequestIds :
        request'[i] = IF i = q.id THEN [request[i] EXCEPT !.status = "accepted"]
                                  ELSE request[i]
  BY <1>3 DEF AcceptCommit
<1>5. request'[q.id].status = "accepted"
  <2>1. request[q.id] \in RequestRow
    BY <1>1 DEF SerialInv, IInv, TypeOK
  <2>2. QED
    BY <1>1, <1>4, <2>1 DEF RequestRow
<1>6. Pending(a, b)' = Pending(a, b) \ {q.id}
  BY <1>4, <1>5 DEF Pending
<1>7. CASE a = q.other /\ b = q.me
  BY <1>3, <1>6, <1>7
<1>8. CASE ~(a = q.other /\ b = q.me)
  <2>1. q.id \notin Pending(a, b)
    BY <1>1, <1>8 DEF Pending
  <2>2. QED
    BY <1>6, <1>8, <2>1
<1>9. QED
  BY <1>7, <1>8

LEMMA SettlePends ==
  ASSUME TypeOK, NEW S, NEW status \in {"rejected", "cancelled"},
         Settle(S, status), NEW a, NEW b
  PROVE  Pending(a, b)' = Pending(a, b) \ S
<1>1. ASSUME NEW i \in RequestIds
      PROVE  /\ i \in S => request'[i].status = status
             /\ i \notin S => request'[i] = request[i]
  <2>1. request[i] \in RequestRow
    BY DEF TypeOK
  <2>2. QED
    BY <2>1 DEF Settle, RequestRow
<1>2. QED
  BY <1>1 DEF Pending

-----------------------------------------------------------------------------
(* One handler at a time: SerialInv is inductive.                          *)

LEMMA SerialStepIInv == SerialInv /\ [SerialNext]_vars => IInv'
<1>1. [SerialNext]_vars => [Next]_vars
  BY DEF SerialNext, Next
<1>2. QED
  BY <1>1, StepIInv DEF SerialInv

\* What is left to show of a step of the only handler in flight.
LEMMA Alone ==
  ASSUME NEW r \in Reqs, AllIdle(Reqs \ {r}),
         \A s \in Reqs \ {r} : req'[s] = req[s],
         Current(req[r])', IInv', NoneCrosses', NoSelfBlock'
  PROVE  SerialInv'
<1>1. \A s \in Reqs \ {r} : Current(req[s])' /\ req'[s].at \notin InFlight
  BY DEF AllIdle, InFlight, Current
<1>2. OneAtATime'
  BY <1>1 DEF OneAtATime
<1>3. QED
  BY <1>1, <1>2 DEF SerialInv

\* The statements of a handler that write no row another one reads.
LEMMA SerialRead ==
  ASSUME NEW r \in Reqs, AllIdle(Reqs \ {r}), SerialInv, IInv',
         UNCHANGED <<friends, request, blocks>>,
         NEW q, req' = [req EXCEPT ![r] = q], Current(q)
  PROVE  SerialInv'
<1>1. /\ req'[r] = q
      /\ \A s \in Reqs \ {r} : req'[s] = req[s]
  BY DEF SerialInv, IInv, TypeOK
<1>2. Current(req[r])'
  BY <1>1 DEF Current, Blocked, Pending
<1>3. NoneCrosses' /\ NoSelfBlock'
  BY DEF SerialInv, NoneCrosses, NoSelfBlock, Pending
<1>4. QED
  BY <1>1, <1>2, <1>3, Alone

LEMMA SerialFinish ==
  ASSUME NEW r \in Reqs, AllIdle(Reqs \ {r}), SerialInv, IInv',
         UNCHANGED <<friends, request, blocks>>, Finish(r)
  PROVE  SerialInv'
<1>1. Current(Idle)
  BY DEF Idle, Current
<1>2. QED
  BY <1>1, SerialRead DEF Finish

\* A handler's first statement is followed by one that relies on nothing.
LEMMA SerialArrive ==
  ASSUME NEW r \in Reqs, AllIdle(Reqs \ {r}), SerialInv, IInv', Arrive(r)
  PROVE  SerialInv'
<1>1. ASSUME NEW me \in Users, NEW other \in Users, SendArrive(r, me, other)
      PROVE  SerialInv'
  <2> DEFINE q == [Idle EXCEPT !.at = "send_block", !.me = me, !.other = other]
  <2>1. Current(q)
    BY DEF Idle, Current
  <2>2. QED
    BY <1>1, <2>1, SerialRead DEF SendArrive
<1>2. ASSUME NEW me \in Users, NEW i \in RequestIds, AcceptArrive(r, me, i)
      PROVE  SerialInv'
  <2> DEFINE q == [Idle EXCEPT !.at = "accept_read", !.me = me, !.id = i]
  <2>1. Current(q)
    BY DEF Idle, Current
  <2>2. QED
    BY <1>2, <2>1, SerialRead DEF AcceptArrive
<1>3. QED
  BY <1>1, <1>2 DEF Arrive

\* The checks of sendRequest and accept leave what they found.
LEMMA SerialCheck ==
  ASSUME NEW r \in Reqs, AllIdle(Reqs \ {r}), SerialInv, IInv',
         \/ SendCheckBlock(r) \/ SendReadState(r) \/ SendFindIncoming(r)
         \/ AcceptRead(r) \/ AcceptCheckBlock(r)
  PROVE  SerialInv'
<1> PICK q \in Handler : q = req[r]
  BY DEF SerialInv, IInv, TypeOK
<1>0. Current(q)
  BY DEF SerialInv
<1>1. UNCHANGED <<friends, request, blocks>>
  BY DEF SendCheckBlock, SendReadState, SendFindIncoming, AcceptRead, AcceptCheckBlock
<1>2. CASE Finish(r)
  BY <1>1, <1>2, SerialFinish
<1>3. CASE \E step \in {"send_state", "send_incoming", "send_insert", "accept_tx"} :
             Goto(r, step) /\ Current([q EXCEPT !.at = step])
  <2> PICK step \in {"send_state", "send_incoming", "send_insert", "accept_tx"} :
             Goto(r, step) /\ Current([q EXCEPT !.at = step])
    BY <1>3
  <2>1. req' = [req EXCEPT ![r] = [q EXCEPT !.at = step]]
    BY DEF Goto
  <2>2. QED
    BY <1>1, <2>1, SerialRead
<1>4. CASE SendCheckBlock(r)
  <2>1. ~Blocked(q.me, q.other) => Current([q EXCEPT !.at = "send_state"])
    BY DEF Current, Handler
  <2>2. QED
    BY <1>2, <1>3, <1>4, <2>1 DEF SendCheckBlock
<1>5. CASE SendReadState(r)
  <2>1. Current([q EXCEPT !.at = "send_incoming"])
    BY DEF Current, Handler
  <2>2. ~Blocked(q.me, q.other)
    BY <1>0, <1>5 DEF SendReadState, Current
  <2>3. /\ {q.me, q.other} \notin friends
        /\ Pending(q.me, q.other) = {} /\ Pending(q.other, q.me) = {}
        => Current([q EXCEPT !.at = "send_insert"])
    BY <2>2 DEF Current, Handler
  <2>4. \/ Finish(r)
        \/ Goto(r, "send_incoming")
        \/ /\ Goto(r, "send_insert")
           /\ {q.me, q.other} \notin friends
           /\ Pending(q.me, q.other) = {} /\ Pending(q.other, q.me) = {}
    BY <1>5, <2>2 DEF SendReadState
  <2>5. QED
    BY <1>2, <1>3, <2>1, <2>3, <2>4
<1>6. CASE SendFindIncoming(r)
  <2>1. ASSUME NEW i, req' = [req EXCEPT ![r] = [@ EXCEPT !.at = "accept_read", !.id = i]]
        PROVE  SerialInv'
    <3> DEFINE n == [q EXCEPT !.at = "accept_read", !.id = i]
    <3>1. Current(n)
      BY DEF Current, Handler
    <3>2. req' = [req EXCEPT ![r] = n]
      BY <2>1 DEF SerialInv, IInv, TypeOK
    <3>3. QED
      BY <1>1, <3>1, <3>2, SerialRead
  <2>2. QED
    BY <1>2, <1>6, <2>1 DEF SendFindIncoming
<1>7. CASE AcceptRead(r)
  <2>1. CASE request[q.id].status = "pending"
             /\ req' = [req EXCEPT ![r] = [@ EXCEPT !.at = "accept_block",
                                                    !.other = request[q.id].from]]
    <3> DEFINE n == [q EXCEPT !.at = "accept_block", !.other = request[q.id].from]
    <3>1. Current(n)
      BY <2>1 DEF Current, Handler
    <3>2. req' = [req EXCEPT ![r] = n]
      BY <2>1 DEF SerialInv, IInv, TypeOK
    <3>3. QED
      BY <1>1, <3>1, <3>2, SerialRead
  <2>2. QED
    BY <1>2, <1>7, <2>1 DEF AcceptRead
<1>8. CASE AcceptCheckBlock(r)
  <2>1. ~Blocked(q.me, q.other) => Current([q EXCEPT !.at = "accept_tx"])
    BY <1>0, <1>8 DEF AcceptCheckBlock, Current, Handler
  <2>2. QED
    BY <1>2, <1>3, <1>8, <2>1 DEF AcceptCheckBlock
<1>9. QED
  BY <1>4, <1>5, <1>6, <1>7, <1>8

\* After the two writes the handler has only a notice left to send.
LEMMA SerialWrite ==
  ASSUME NEW r \in Reqs, AllIdle(Reqs \ {r}), SerialInv, IInv',
         (\E i \in RequestIds : SendInsert(r, i)) \/ AcceptCommit(r)
  PROVE  SerialInv'
<1>1. Current(req[r])' /\ \A s \in Reqs \ {r} : req'[s] = req[s]
  <2>1. CASE \E i \in RequestIds : SendInsert(r, i)
    <3>1. req'[r].at \in {"idle", "notify_request"}
          /\ \A s \in Reqs \ {r} : req'[s] = req[s]
      BY <2>1 DEF SendInsert, Finish, Goto, Idle, SerialInv, IInv, TypeOK, Handler
    <3>2. QED
      BY <3>1 DEF Current
  <2>2. CASE AcceptCommit(r)
    <3>1. req'[r].at = "notify_accept"
          /\ \A s \in Reqs \ {r} : req'[s] = req[s]
      BY <2>2 DEF AcceptCommit, Goto, SerialInv, IInv, TypeOK, Handler
    <3>2. QED
      BY <3>1 DEF Current
  <2>3. QED
    BY <2>1, <2>2
<1>2. NoSelfBlock'
  BY DEF SendInsert, AcceptCommit, SerialInv, NoSelfBlock
<1>3. NoneCrosses'
  <2>1. ASSUME NEW i \in RequestIds, SendInsert(r, i), NEW a \in Users, NEW b \in Users
        PROVE  Pending(a, b)' = {} \/ Pending(b, a)' = {}
    <3>1. /\ Pending(req[r].me, req[r].other) = {}
          /\ Pending(req[r].other, req[r].me) = {}
          /\ req[r].me # req[r].other
      BY <2>1 DEF SerialInv, IInv, HandlerInv, Coherent, Current, SendInsert
    <3>2. Pending(a, b) = {} \/ Pending(b, a) = {}
      BY DEF SerialInv, NoneCrosses
    <3>3. QED
      BY <2>1, <3>1, <3>2, InsertPends
  <2>2. ASSUME AcceptCommit(r), NEW a \in Users, NEW b \in Users
        PROVE  Pending(a, b)' = {} \/ Pending(b, a)' = {}
    BY <2>2, CommitPends DEF SerialInv, NoneCrosses
  <2>3. QED
    BY <2>1, <2>2 DEF NoneCrosses
<1>4. QED
  BY <1>1, <1>2, <1>3, Alone

\* One statement or one transaction, while no handler is in flight.
LEMMA SerialDecide ==
  ASSUME AllIdle(Reqs), SerialInv, IInv', Decide
  PROVE  SerialInv'
<1>1. req' = req
  BY DEF Decide, Reject, Cancel, Remove, Block, Unblock
<1>2. OneAtATime' /\ \A r \in Reqs : Current(req[r])'
  BY <1>1 DEF SerialInv, OneAtATime, AllIdle, InFlight, Current
<1>3. NoSelfBlock'
  <2>1. ASSUME NEW me \in Users, NEW i \in RequestIds, Reject(me, i) \/ Cancel(me, i)
        PROVE  NoSelfBlock'
    BY <2>1 DEF Reject, Cancel, SerialInv, NoSelfBlock
  <2>2. ASSUME NEW me \in Users, NEW other \in Users, Remove(me, other) \/ Unblock(me, other)
        PROVE  NoSelfBlock'
    BY <2>2 DEF Remove, Unblock, SerialInv, NoSelfBlock
  <2>3. ASSUME NEW me \in Users, NEW other \in Users, Block(me, other)
        PROVE  NoSelfBlock'
    <3>1. \A u \in Users : <<u, u>> # <<me, other>>
      BY <2>3 DEF Block
    <3>2. QED
      BY <2>3, <3>1 DEF Block, SerialInv, NoSelfBlock
  <2>4. QED
    BY <2>1, <2>2, <2>3 DEF Decide
<1>4. \A a, b \in Users : Pending(a, b)' \subseteq Pending(a, b)
  <2>1. ASSUME NEW S, NEW status \in {"rejected", "cancelled"}, Settle(S, status)
        PROVE  \A a, b \in Users : Pending(a, b)' \subseteq Pending(a, b)
    BY <2>1, SettlePends DEF SerialInv, IInv
  <2>2. request' = request => \A a, b \in Users : Pending(a, b)' \subseteq Pending(a, b)
    BY DEF Pending
  <2>3. QED
    BY <2>1, <2>2 DEF Decide, Reject, Cancel, Remove, Block, Unblock
<1>5. NoneCrosses'
  BY <1>4 DEF SerialInv, NoneCrosses
<1>6. QED
  BY <1>2, <1>3, <1>5 DEF SerialInv

LEMMA SerialInductive == SerialInv /\ [SerialNext]_vars => SerialInv'
<1> SUFFICES ASSUME SerialInv, [SerialNext]_vars PROVE SerialInv'
  OBVIOUS
<1>1. IInv'
  BY SerialStepIInv
<1>2. ASSUME NEW r \in Reqs, AllIdle(Reqs \ {r}), Continue(r)
      PROVE  SerialInv'
  <2>1. Notify(r) => SerialInv'
    BY <1>1, <1>2, SerialFinish DEF Notify
  <2>2. QED
    BY <1>1, <1>2, <2>1, SerialCheck, SerialWrite DEF Continue
<1>3. ASSUME NEW r \in Reqs, AllIdle(Reqs \ {r}), Arrive(r) \/ Abort(r)
      PROVE  SerialInv'
  BY <1>1, <1>3, SerialArrive, SerialFinish DEF Abort
<1>4. CASE AllIdle(Reqs) /\ Decide
  BY <1>1, <1>4, SerialDecide
<1>5. CASE UNCHANGED vars
  <2>1. OneAtATime' /\ NoneCrosses' /\ NoSelfBlock'
    BY <1>5 DEF vars, SerialInv, OneAtATime, NoneCrosses, NoSelfBlock, Pending
  <2>2. \A r \in Reqs : Current(req[r])'
    BY <1>5 DEF vars, SerialInv, Current, Blocked, Pending
  <2>3. QED
    BY <1>1, <2>1, <2>2 DEF SerialInv
<1>6. QED
  BY <1>2, <1>3, <1>4, <1>5 DEF SerialNext

LEMMA SerialInit == HistoryInit => SerialInv
<1> SUFFICES ASSUME HistoryInit PROVE SerialInv
  OBVIOUS
<1>1. IInv
  BY InitIInv DEF HistoryInit
<1>2. \A r \in Reqs : req[r].at = "idle"
  BY DEF HistoryInit, Init, Idle
<1>3. OneAtATime /\ \A r \in Reqs : Current(req[r])
  BY <1>2 DEF OneAtATime, Current, InFlight
<1>4. NoneCrosses /\ NoSelfBlock
  BY DEF HistoryInit, Init, NoRequest, NoneCrosses, NoSelfBlock, Pending
<1>5. QED
  BY <1>1, <1>3, <1>4 DEF SerialInv

\* What the one handler in flight has read is still so, and requests never cross,
\* as long as no two handlers overlap.
THEOREM SerialInvariance == HistorySpec => [](serial => SerialInv)
<1>1. HistoryInit => (serial => SerialInv)
  BY SerialInit
<1>2. (serial => SerialInv) /\ [HistoryNext]_<<vars, serial>>
        => (serial => SerialInv)'
  <2> SUFFICES ASSUME serial => SerialInv, [HistoryNext]_<<vars, serial>>, serial'
               PROVE  SerialInv'
    OBVIOUS
  <2>1. serial /\ [SerialNext]_vars
    BY DEF HistoryNext
  <2>2. QED
    BY <2>1, SerialInductive
<1>3. QED
  BY <1>1, <1>2, PTL DEF HistorySpec

-----------------------------------------------------------------------------
(* The refinement: while no two handlers have overlapped, a statement that *)
(* writes a table is a move of FriendGraph.                                *)

\* A pair of users asks when it has a pending row.
LEMMA AsksArePending ==
  ASSUME IInv
  PROVE  /\ asks \subseteq Users \X Users
         /\ \A a, b \in Users : <<a, b>> \in asks <=> Pending(a, b) # {}
<1>1. ASSUME NEW j \in RequestIds, request[j].status = "pending"
      PROVE  request[j].from \in Users /\ request[j].to \in Users
  BY <1>1 DEF IInv, RowInv
<1>2. asks \subseteq Users \X Users
  BY <1>1 DEF asks
<1>3. ASSUME NEW a \in Users, NEW b \in Users
      PROVE  <<a, b>> \in asks <=> Pending(a, b) # {}
  BY DEF asks, Pending
<1>4. QED
  BY <1>2, <1>3

\* The requests after a step, from its effect on the pending rows.
LEMMA AsksBecome ==
  ASSUME IInv', NEW A, A \subseteq Users \X Users,
         \A a, b \in Users : Pending(a, b)' # {} <=> <<a, b>> \in A
  PROVE  asks' = A
<1>1. asks' \subseteq Users \X Users
  BY DEF asks, IInv, RowInv
<1>2. ASSUME NEW a \in Users, NEW b \in Users
      PROVE  <<a, b>> \in asks' <=> <<a, b>> \in A
  <2>1. <<a, b>> \in asks' <=> Pending(a, b)' # {}
    BY DEF asks, Pending
  <2>2. QED
    BY <2>1
<1>3. ASSUME NEW p \in Users \X Users
      PROVE  p \in asks' <=> p \in A
  <2>1. PICK a \in Users, b \in Users : p = <<a, b>>
    OBVIOUS
  <2>2. QED
    BY <1>2, <2>1
<1>4. QED
  BY <1>1, <1>3

LEMMA InsertSends ==
  ASSUME SerialInv, IInv', NEW r \in Reqs, NEW i \in RequestIds, SendInsert(r, i)
  PROVE  \E a, b \in Users : a # b /\ Graph!Send(a, b)
<1> PICK q \in Handler : q = req[r]
  BY DEF SerialInv, IInv, TypeOK
<1>1. /\ q.me \in Users /\ q.other \in Users /\ q.me # q.other
      /\ ~Blocked(q.me, q.other) /\ {q.me, q.other} \notin friends
      /\ Pending(q.me, q.other) = {} /\ Pending(q.other, q.me) = {}
  BY DEF SendInsert, SerialInv, IInv, HandlerInv, Coherent, Current
<1>2. <<q.me, q.other>> \notin asks /\ <<q.other, q.me>> \notin asks
  BY <1>1, AsksArePending DEF SerialInv
<1>3. asks' = asks \cup {<<q.me, q.other>>}
  <2> DEFINE A == asks \cup {<<q.me, q.other>>}
  <2>1. A \subseteq Users \X Users
    BY <1>1, AsksArePending DEF SerialInv
  <2>2. ASSUME NEW a \in Users, NEW b \in Users
        PROVE  Pending(a, b)' # {} <=> <<a, b>> \in A
    BY InsertPends, AsksArePending DEF SerialInv
  <2> HIDE DEF A
  <2>3. asks' = A
    BY <2>1, <2>2, AsksBecome
  <2>4. QED
    BY <2>3 DEF A
<1>4. UNCHANGED <<friends, blocks>>
  BY DEF SendInsert
<1>5. QED
  BY <1>1, <1>2, <1>3, <1>4 DEF Graph!Send, Graph!Barred, Blocked

LEMMA CommitAccepts ==
  ASSUME SerialInv, IInv', NEW r \in Reqs, AcceptCommit(r)
  PROVE  \E a, b \in Users : a # b /\ Graph!Accept(a, b)
<1> PICK q \in Handler : q = req[r]
  BY DEF SerialInv, IInv, TypeOK
<1>1. /\ q.me \in Users /\ q.other \in Users /\ q.me # q.other
      /\ q.id \in Pending(q.other, q.me)
      /\ ~Blocked(q.me, q.other)
  BY DEF AcceptCommit, SerialInv, IInv, HandlerInv, Coherent, Current, Pending
<1>2. <<q.other, q.me>> \in asks
  BY <1>1, AsksArePending DEF SerialInv
<1>3. asks' = asks \ {<<q.other, q.me>>}
  <2> DEFINE A == asks \ {<<q.other, q.me>>}
  <2>1. A \subseteq Users \X Users
    BY AsksArePending DEF SerialInv
  <2>2. ASSUME NEW a \in Users, NEW b \in Users
        PROVE  Pending(a, b)' # {} <=> <<a, b>> \in A
    BY CommitPends, AsksArePending DEF SerialInv
  <2> HIDE DEF A
  <2>3. asks' = A
    BY <2>1, <2>2, AsksBecome
  <2>4. QED
    BY <2>3 DEF A
<1>4. /\ friends' = friends \cup {{q.other, q.me}}
      /\ blocks' = blocks
  <2>1. friends' = friends \cup {{q.me, q.other}} /\ blocks' = blocks
    BY DEF AcceptCommit, AddFriends
  <2>2. QED
    BY <2>1
<1>5. QED
  BY <1>1, <1>2, <1>3, <1>4 DEF Graph!Accept, Graph!Barred, Blocked

LEMMA SettleWithdraws ==
  ASSUME SerialInv, IInv', NEW me \in Users, NEW i \in RequestIds,
         Reject(me, i) \/ Cancel(me, i)
  PROVE  \E a, b \in Users : a # b /\ Graph!Withdraw(a, b)
<1> PICK a, b : a = request[i].from /\ b = request[i].to
  OBVIOUS
<1>1. /\ a \in Users /\ b \in Users /\ a # b
      /\ i \in Pending(a, b)
      /\ UNCHANGED <<friends, blocks>>
      /\ \E status \in {"rejected", "cancelled"} : Settle({i}, status)
  BY DEF Reject, Cancel, SerialInv, IInv, RowInv, Pending
<1>2. Pending(a, b) = {i}
  BY <1>1 DEF SerialInv, IInv, OnePendingEachWay
<1>3. ASSUME NEW x \in Users, NEW y \in Users
      PROVE  Pending(x, y)' = Pending(x, y) \ {i}
  BY <1>1, SettlePends DEF SerialInv, IInv
<1>4. ASSUME NEW x \in Users, NEW y \in Users, i \in Pending(x, y)
      PROVE  x = a /\ y = b
  BY <1>4 DEF Pending
<1>5. asks' = asks \ {<<a, b>>}
  <2> DEFINE A == asks \ {<<a, b>>}
  <2>1. A \subseteq Users \X Users
    BY AsksArePending DEF SerialInv
  <2>2. ASSUME NEW x \in Users, NEW y \in Users
        PROVE  Pending(x, y)' # {} <=> <<x, y>> \in A
    <3>1. CASE x = a /\ y = b
      BY <1>2, <1>3, <3>1
    <3>2. CASE ~(x = a /\ y = b)
      <4>1. i \notin Pending(x, y)
        BY <1>4, <3>2
      <4>2. Pending(x, y)' = Pending(x, y)
        BY <1>3, <4>1
      <4>3. <<x, y>> \in A <=> <<x, y>> \in asks
        BY <3>2
      <4>4. QED
        BY <4>2, <4>3, AsksArePending DEF SerialInv
    <3>3. QED
      BY <3>1, <3>2
  <2> HIDE DEF A
  <2>3. asks' = A
    BY <2>1, <2>2, AsksBecome
  <2>4. QED
    BY <2>3 DEF A
<1>6. <<a, b>> \in asks
  BY <1>1, AsksArePending DEF SerialInv
<1>7. QED
  BY <1>1, <1>5, <1>6 DEF Graph!Withdraw

LEMMA BlockBlocks ==
  ASSUME SerialInv, IInv', NEW me \in Users, NEW other \in Users, Block(me, other)
  PROVE  me # other /\ Graph!Block(me, other)
<1> DEFINE S == Pending(me, other) \cup Pending(other, me)
           A == asks \ {<<me, other>>, <<other, me>>}
<1>1. /\ me # other
      /\ blocks' = blocks \cup {<<me, other>>}
      /\ friends' = friends \ {{me, other}}
      /\ Settle(S, "cancelled")
  BY DEF Block, DropFriends
<1>2. A \subseteq Users \X Users
  BY AsksArePending DEF SerialInv
<1>3. ASSUME NEW a \in Users, NEW b \in Users
      PROVE  Pending(a, b)' # {} <=> <<a, b>> \in A
  <2>1. Pending(a, b)' = Pending(a, b) \ S
    BY <1>1, SettlePends DEF SerialInv, IInv
  <2>2. CASE a = me /\ b = other
    BY <2>1, <2>2
  <2>3. CASE a = other /\ b = me
    BY <2>1, <2>3
  <2>4. CASE ~(a = me /\ b = other) /\ ~(a = other /\ b = me)
    <3>1. Pending(a, b) \cap S = {}
      BY <2>4 DEF Pending
    <3>2. Pending(a, b)' = Pending(a, b)
      BY <2>1, <3>1
    <3>3. <<a, b>> \in A <=> <<a, b>> \in asks
      BY <2>4
    <3>4. QED
      BY <3>2, <3>3, AsksArePending DEF SerialInv
  <2>5. QED
    BY <2>2, <2>3, <2>4
<1>4. asks' = A
  BY <1>2, <1>3, AsksBecome
<1>5. QED
  BY <1>1, <1>4 DEF Graph!Block

\* Statements that leave the pending rows alone.
LEMMA AsksStay ==
  ASSUME request' = request
  PROVE  asks' = asks
  BY DEF asks

\* Every step of the service is a move of the graph or leaves it alone.
LEMMA SerialStepsGraph == SerialInv /\ [SerialNext]_vars => [Graph!Next]_moves
<1> SUFFICES ASSUME SerialInv, [SerialNext]_vars PROVE [Graph!Next]_moves
  OBVIOUS
<1>1. IInv'
  BY SerialStepIInv
<1>2. ASSUME NEW r \in Reqs, Continue(r) PROVE [Graph!Next]_moves
  <2>1. CASE \E i \in RequestIds : SendInsert(r, i)
    BY <1>1, <2>1, InsertSends DEF Graph!Next
  <2>2. CASE AcceptCommit(r)
    BY <1>1, <2>2, CommitAccepts DEF Graph!Next
  <2>3. CASE \/ SendCheckBlock(r) \/ SendReadState(r) \/ SendFindIncoming(r)
             \/ AcceptRead(r) \/ AcceptCheckBlock(r) \/ Notify(r)
    <3>1. UNCHANGED <<request, friends, blocks>>
      BY <2>3 DEF SendCheckBlock, SendReadState, SendFindIncoming, AcceptRead,
                  AcceptCheckBlock, Notify
    <3>2. QED
      BY <3>1, AsksStay DEF moves
  <2>4. QED
    BY <1>2, <2>1, <2>2, <2>3 DEF Continue
<1>3. ASSUME NEW r \in Reqs, Arrive(r) \/ Abort(r) PROVE UNCHANGED moves
  <2>1. UNCHANGED <<request, friends, blocks>>
    BY <1>3 DEF Arrive, Abort, SendArrive, AcceptArrive
  <2>2. QED
    BY <2>1, AsksStay DEF moves
<1>4. ASSUME NEW me \in Users, NEW other \in Users, Remove(me, other)
      PROVE  me # other /\ Graph!Remove(me, other)
  <2>1. {me, other} \in Pairs
    BY <1>4 DEF Remove, SerialInv, IInv, TypeOK
  <2>2. me # other
    BY <2>1 DEF Pairs
  <2>3. QED
    BY <1>4, <2>2, AsksStay DEF Remove, DropFriends, Graph!Remove
<1>5. ASSUME NEW me \in Users, NEW other \in Users, Unblock(me, other)
      PROVE  me # other /\ Graph!Unblock(me, other)
  <2>1. me # other
    BY <1>5 DEF Unblock, SerialInv, NoSelfBlock
  <2>2. QED
    BY <1>5, <2>1, AsksStay DEF Unblock, Graph!Unblock
<1>6. CASE Decide
  BY <1>1, <1>4, <1>5, <1>6, SettleWithdraws, BlockBlocks DEF Decide, Graph!Next
<1>7. CASE UNCHANGED vars
  BY <1>7, AsksStay DEF vars, moves
<1>8. QED
  BY <1>2, <1>3, <1>6, <1>7 DEF SerialNext

\* The checks of sendRequest and accept, and the transactions of accept and block,
\* give every pair of users the state machine of the header, until two handlers
\* overlap.
THEOREM GraphRefinement == HistorySpec => ImplementsFriendGraph
<1>1. HistoryInit => Graph!Init
  BY DEF HistoryInit, Init, Graph!Init, asks, NoRequest
<1>2. (serial => SerialInv) /\ [HistoryNext]_<<vars, serial>>
        => [serial' => [Graph!Next]_moves]_vars
  BY SerialStepsGraph DEF HistoryNext
<1>3. QED
  BY <1>1, <1>2, SerialInvariance, PTL DEF HistorySpec, ImplementsFriendGraph
=============================================================================
