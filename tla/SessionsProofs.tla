-------------------------- MODULE SessionsProofs ---------------------------
(***************************************************************************)
(* Proofs about Sessions and SessionsSerial, for every set of users,       *)
(* devices, tokens and requests.                                           *)
(*                                                                         *)
(* A step keeps every session row, its user, device and family, and never  *)
(* brings a token back (RowsKept).  What a handler in flight knows follows *)
(* from that (CoherenceKept); the only step that adds a row is Issue.      *)
(*                                                                         *)
(* Then proofs about Page, the client of these handlers, for every set of  *)
(* calls, requests, tokens, streams and drafts.  A clean client has one    *)
(* request at a time on the wire that carries the cookie, so a token that  *)
(* was rotated is never sent (WebInv); a screen marks what it leaves       *)
(* behind, so what nothing marks is its own (CaptureInv).                  *)
(***************************************************************************)
EXTENDS SessionsSerial, Page, FiniteSetTheorems, TLAPS

\* What no step takes away from the tables.
RowsKept ==
  /\ \A s \in SessionRows :
       /\ s \in SessionRows'
       /\ session'[s].user = session[s].user
       /\ session'[s].device = session[s].device
       /\ session'[s].family = session[s].family
       /\ session[s].rotated # None => session'[s].rotated # None
       /\ session[s].revoked # None => session'[s].revoked = session[s].revoked
  /\ \A d \in DeviceRows :
       d \in DeviceRows' /\ device'[d].user = device[d].user

-----------------------------------------------------------------------------
\* No rows and no handlers: the invariant holds of the empty database.
LEMMA InitIInv == Init => IInv
  BY NoneIsFresh
  DEF Init, IInv, TypeOK, RowInv, FamilyIsOneLogin, RotationStaysInFamily,
      RequestInv, Coherent, SessionRows, DeviceRows, NoSession, NoDevice,
      SessionRow, DeviceRow, AccountStatus, Request, Idle, InFlight, Issuing

\* What a handler knows survives every step that keeps the rows.
LEMMA CoherenceKept ==
  ASSUME IInv, RowsKept, NEW q \in Request, Coherent(q)
  PROVE  Coherent(q)'
<1>1. \A f \in SessionIds : Family(f) \subseteq Family(f)'
  BY DEF RowsKept, Family
<1>2. ASSUME q.parent \in SessionRows
      PROVE  /\ session'[q.parent].user = session[q.parent].user
             /\ session'[q.parent].device = session[q.parent].device
  BY <1>2 DEF RowsKept
<1>3. q.at = "issue" => /\ q.device \in DeviceRows'
                        /\ device'[q.device].user = q.user
  BY DEF Coherent, RowsKept
<1>4. QED
  BY <1>1, <1>2, <1>3 DEF Coherent, RowsKept, Family

\* A step that keeps the rows and adds none keeps the families,
LEMMA FamiliesKept ==
  ASSUME IInv, RowsKept, SessionRows' = SessionRows
  PROVE  /\ \A f \in SessionIds : Family(f)' = Family(f)
         /\ FamilyIsOneLogin'
<1>1. \A f \in SessionIds : Family(f)' = Family(f)
  BY DEF RowsKept, Family
<1>2. \A s \in SessionRows : session[s].family \in SessionIds
  BY DEF IInv, FamilyIsOneLogin, SessionRows
<1>3. FamilyIsOneLogin'
  BY <1>1, <1>2 DEF IInv, RowsKept, FamilyIsOneLogin, Family
<1>4. QED
  BY <1>1, <1>3

\* and, when it rotates nothing, the rotations inside them.
LEMMA RotationsKept ==
  ASSUME IInv, RowsKept, SessionRows' = SessionRows,
         \A s \in SessionRows : session'[s].rotated = session[s].rotated
  PROVE  RotationStaysInFamily'
<1>1. \A s \in SessionRows : session[s].family \in SessionIds
  BY DEF IInv, FamilyIsOneLogin, SessionRows
<1>2. QED
  BY <1>1, FamiliesKept DEF IInv, RowsKept, RotationStaysInFamily, Family

\* A revocation touches only revoked_reason, and only where it is NULL.
LEMMA RevokeKeeps ==
  ASSUME IInv, NEW S, NEW reason \in Reasons, Revoke(S, reason)
  PROVE  /\ session' \in [SessionIds -> SessionRow]
         /\ SessionRows' = SessionRows
         /\ \A s \in SessionIds :
              /\ session'[s].user = session[s].user
              /\ session'[s].device = session[s].device
              /\ session'[s].family = session[s].family
              /\ session'[s].rotated = session[s].rotated
              /\ session[s].revoked # None => session'[s].revoked = session[s].revoked
              /\ s \notin SessionRows => session'[s] = session[s]
<1>1. \A s \in SessionIds : session[s] \in SessionRow
  BY DEF IInv, TypeOK
<1>2. ASSUME NEW s \in SessionIds
      PROVE  session'[s] \in SessionRow
  BY <1>1 DEF Revoke, SessionRow
<1>3. session' \in [SessionIds -> SessionRow]
  BY <1>2 DEF Revoke
<1>4. ASSUME NEW s \in SessionIds
      PROVE  /\ session'[s].user = session[s].user
             /\ session'[s].device = session[s].device
             /\ session'[s].family = session[s].family
             /\ session'[s].rotated = session[s].rotated
             /\ session[s].revoked # None => session'[s].revoked = session[s].revoked
             /\ s \notin SessionRows => session'[s] = session[s]
  BY <1>1 DEF Revoke, SessionRow
<1>5. SessionRows' = SessionRows
  BY <1>4 DEF SessionRows
<1>6. QED
  BY <1>3, <1>4, <1>5

\* A step that only moves handler r, to a record it can vouch for.
LEMMA HandlerMoves ==
  ASSUME IInv, NEW r \in Reqs, NEW q \in Request, Coherent(q),
         req' = [req EXCEPT ![r] = q],
         UNCHANGED <<account, device, session, known>>
  PROVE  IInv' /\ RowsKept
<1>1. RowsKept
  BY DEF RowsKept, SessionRows, DeviceRows
<1>2. TypeOK' /\ RowInv'
  BY DEF IInv, TypeOK, RowInv, SessionRows
<1>3. FamilyIsOneLogin' /\ RotationStaysInFamily'
  BY DEF IInv, FamilyIsOneLogin, RotationStaysInFamily, Family, SessionRows, DeviceRows
<1>4. ASSUME NEW s \in Reqs PROVE Coherent(req[s])'
  <2>1. CASE s = r
    BY <2>1 DEF IInv, TypeOK, Coherent, Family, SessionRows, DeviceRows
  <2>2. CASE s # r
    <3>1. req'[s] = req[s] /\ Coherent(req[s])
      BY <2>2 DEF IInv, TypeOK, RequestInv
    <3>2. QED
      BY <3>1 DEF Coherent, Family, SessionRows, DeviceRows
  <2>3. QED
    BY <2>1, <2>2
<1>5. QED
  BY <1>1, <1>2, <1>3, <1>4 DEF IInv, RequestInv

\* A step that rewrites tables, keeps the rows and moves at most handler r.
LEMMA TablesChange ==
  ASSUME IInv, RowsKept, NEW r \in Reqs, NEW q \in Request, Coherent(q)',
         req' = [req EXCEPT ![r] = q] \/ req' = req,
         TypeOK', RowInv', FamilyIsOneLogin', RotationStaysInFamily'
  PROVE  IInv'
<1>1. ASSUME NEW s \in Reqs PROVE Coherent(req[s])'
  <2>1. CASE req'[s] = q
    BY <2>1 DEF Coherent
  <2>2. CASE req'[s] = req[s]
    <3>1. req[s] \in Request /\ Coherent(req[s])
      BY DEF IInv, TypeOK, RequestInv
    <3>2. QED
      BY <2>2, <3>1, CoherenceKept DEF Coherent
  <2>3. QED
    BY <2>1, <2>2 DEF IInv, TypeOK
<1>2. QED
  BY <1>1 DEF IInv, RequestInv

\* A step that rewrites tables and moves no handler.
LEMMA TablesOnly ==
  ASSUME IInv, RowsKept, req' = req,
         TypeOK', RowInv', FamilyIsOneLogin', RotationStaysInFamily'
  PROVE  IInv'
<1>1. ASSUME NEW s \in Reqs PROVE Coherent(req[s])'
  <2>1. req[s] \in Request /\ Coherent(req[s])
    BY DEF IInv, TypeOK, RequestInv
  <2>2. QED
    BY <2>1, CoherenceKept DEF Coherent
<1>2. QED
  BY <1>1 DEF IInv, RequestInv

\* A finished handler relies on nothing.
LEMMA IdleIsCoherent == Idle \in Request /\ Coherent(Idle) /\ Coherent(Idle)'
  BY DEF Idle, Request, Coherent, InFlight, Issuing

-----------------------------------------------------------------------------
(* The actions.                                                            *)

\* A handler's first statement.
LEMMA ArriveKeepsIInv ==
  ASSUME IInv, NEW r \in Reqs, Arrive(r)
  PROVE  IInv' /\ RowsKept
<1> USE DEF Request, Idle, InFlight, Issuing
<1>1. ASSUME NEW u \in Users, NEW a \in Agents, RegisterRead(r, u, a)
      PROVE  IInv' /\ RowsKept
  <2> DEFINE q == [Idle EXCEPT !.at = "register_insert", !.user = u, !.agent = a]
  <2>1. q \in Request /\ Coherent(q)
    BY DEF Coherent
  <2>2. QED
    BY <1>1, <2>1, HandlerMoves DEF RegisterRead
<1>2. ASSUME NEW u \in Users, NEW a \in Agents, LoginRead(r, u, a)
      PROVE  IInv' /\ RowsKept
  <2> DEFINE q == [Idle EXCEPT !.at = "device_find", !.user = u, !.agent = a]
  <2>1. q \in Request /\ Coherent(q)
    BY DEF Coherent
  <2>2. QED
    BY <1>2, <2>1, HandlerMoves DEF LoginRead
<1>3. ASSUME NEW s \in SessionIds, RefreshRead(r, s)
      PROVE  IInv' /\ RowsKept
  <2> DEFINE new == session[s]
             p == [Idle EXCEPT !.at = "replay", !.family = new.family]
             q == [Idle EXCEPT !.at = "issue", !.user = new.user,
                                 !.device = new.device,
                                 !.family = new.family, !.parent = s]
  <2>1. /\ s \in SessionRows /\ new.family \in SessionRows
        /\ new.device \in DeviceRows /\ device[new.device].user = new.user
        /\ new.user \in Users /\ s \in Family(new.family)
    BY <1>3 DEF RefreshRead, IInv, TypeOK, RowInv, FamilyIsOneLogin, Family,
                SessionRows, SessionRow
  <2>2. p \in Request /\ Coherent(p)
    BY <2>1 DEF Coherent, SessionRows
  <2>3. q \in Request /\ Coherent(q)
    BY <2>1, NoneIsFresh DEF Coherent, SessionRows, DeviceRows
  <2>4. QED
    BY <1>3, <2>2, <2>3, HandlerMoves DEF RefreshRead
<1>4. QED
  BY <1>1, <1>2, <1>3 DEF Arrive

\* A revocation, whoever asks for it.
LEMMA RevocationKeepsRows ==
  ASSUME IInv, NEW S, NEW reason \in Reasons, Revoke(S, reason),
         device' \in [Devices -> DeviceRow],
         \A d \in DeviceRows : d \in DeviceRows' /\ device'[d].user = device[d].user,
         account' \in [Users -> AccountStatus], known' = known
  PROVE  /\ RowsKept /\ RowInv' /\ FamilyIsOneLogin' /\ RotationStaysInFamily'
         /\ req' \in [Reqs -> Request] => TypeOK'
<1>1. RowsKept
  BY RevokeKeeps DEF RowsKept, SessionRows
<1>2. FamilyIsOneLogin' /\ RotationStaysInFamily'
  BY <1>1, RevokeKeeps, FamiliesKept, RotationsKept DEF SessionRows
<1>3. RowInv'
  BY RevokeKeeps DEF IInv, RowInv
<1>4. req' \in [Reqs -> Request] => TypeOK'
  BY RevokeKeeps DEF IInv, TypeOK
<1>5. QED
  BY <1>1, <1>2, <1>3, <1>4

\* A new row: the first of a new family, or one more of a family of its user
\* and device.
LEMMA RowAdded ==
  ASSUME IInv, NEW s \in SessionIds, s \notin SessionRows, NEW f \in SessionIds,
         NEW new \in SessionRow,
         new.user \in Users, new.family = f, new.rotated = None,
         new.device \in DeviceRows, device[new.device].user = new.user,
         f # s => /\ f \in SessionRows
                  /\ \A t \in Family(f) : /\ session[t].user = new.user
                                          /\ session[t].device = new.device,
         session' = [session EXCEPT ![s] = new], UNCHANGED <<device, known>>
  PROVE  /\ RowsKept /\ RowInv' /\ FamilyIsOneLogin' /\ RotationStaysInFamily'
         /\ session' \in [SessionIds -> SessionRow]
         /\ \A g \in SessionIds :
              Family(g)' = IF g = f THEN Family(g) \cup {s} ELSE Family(g)
<1>1. /\ session'[s] = new /\ session' \in [SessionIds -> SessionRow]
      /\ \A t \in SessionIds \ {s} : session'[t] = session[t]
  BY DEF IInv, TypeOK
<1>2. SessionRows' = SessionRows \cup {s}
  BY <1>1, NoneIsFresh DEF SessionRows
<1>3. DeviceRows' = DeviceRows
  BY DEF DeviceRows
<1>4. RowsKept
  BY <1>1, <1>2, <1>3 DEF RowsKept, SessionRows
<1>5. RowInv'
  BY <1>1, <1>2 DEF IInv, RowInv
\* The new row joins f and no other family.
<1>6. ASSUME NEW g \in SessionIds
      PROVE  Family(g)' = IF g = f THEN Family(g) \cup {s} ELSE Family(g)
  <2>1. ASSUME NEW t \in SessionIds
        PROVE  t \in Family(g)' <=> t \in Family(g) \/ (g = f /\ t = s)
    <3>1. CASE t = s
      BY <1>1, <1>2, <3>1 DEF Family
    <3>2. CASE t # s
      BY <1>1, <1>2, <3>2 DEF Family
    <3>3. QED
      BY <3>1, <3>2
  <2>2. Family(g) \subseteq SessionIds /\ Family(g)' \subseteq SessionIds
    BY DEF Family, SessionRows
  <2>3. QED
    BY <2>1, <2>2
<1>7. f = s => Family(f) = {}
  BY DEF IInv, FamilyIsOneLogin, Family
<1>8. FamilyIsOneLogin'
  <2> SUFFICES ASSUME NEW t \in SessionRows'
               PROVE  /\ session'[t].family \in SessionRows'
                      /\ session'[t].device \in DeviceRows'
                      /\ device'[session'[t].device].user = session'[t].user
                      /\ \A x \in SessionRows' :
                           session'[x].family = session'[t].family =>
                             /\ session'[x].user = session'[t].user
                             /\ session'[x].device = session'[t].device
    BY DEF FamilyIsOneLogin, Family
  <2>1. \A x \in SessionRows : session[x].family = f =>
          session[x].user = new.user /\ session[x].device = new.device
    BY <1>7 DEF Family
  <2>2. CASE t = s
    BY <1>1, <1>2, <1>3, <2>1, <2>2 DEF SessionRows
  <2>3. CASE t # s
    <3>1. /\ t \in SessionRows /\ session'[t] = session[t]
          /\ session[t].family \in SessionRows
          /\ session[t].device \in DeviceRows
          /\ device[session[t].device].user = session[t].user
          /\ \A x \in SessionRows : session[x].family = session[t].family =>
               session[x].user = session[t].user
               /\ session[x].device = session[t].device
      BY <1>1, <1>2, <2>3 DEF IInv, FamilyIsOneLogin, Family, SessionRows
    <3>2. \A x \in SessionRows' : x # s => x \in SessionRows /\ session'[x] = session[x]
      BY <1>1, <1>2 DEF SessionRows
    <3>3. QED
      BY <1>1, <1>2, <1>3, <2>1, <3>1, <3>2
  <2>4. QED
    BY <2>2, <2>3
<1>9. RotationStaysInFamily'
  <2>1. ASSUME NEW t \in SessionRows', session'[t].rotated # None
        PROVE  (session[t].rotated \in Family(session[t].family) \ {t})'
    <3>1. t \in SessionRows /\ t # s /\ session'[t] = session[t]
      BY <1>1, <1>2, <2>1 DEF SessionRows
    <3> PICK g \in SessionIds : g = session[t].family
      BY <3>1 DEF IInv, FamilyIsOneLogin, SessionRows
    <3>2. session[t].rotated \in Family(g) \ {t}
      BY <2>1, <3>1 DEF IInv, RotationStaysInFamily
    <3>3. session'[t].rotated \in Family(g)' \ {t}
      BY <1>6, <3>1, <3>2
    <3>4. QED
      BY <3>1, <3>3 DEF Family
  <2>2. QED
    BY <2>1 DEF RotationStaysInFamily
<1>10. QED
  BY <1>1, <1>4, <1>5, <1>6, <1>8, <1>9

\* The handler's record after its insert is a handler's record.
LEMMA IssuedIsRequest ==
  ASSUME NEW q \in Request, NEW step \in {"reply", "mark"},
         NEW f \in SessionIds, NEW s \in SessionIds
  PROVE  [q EXCEPT !.at = step, !.family = f, !.token = s] \in Request
  BY Zenon DEF Request, InFlight, Issuing

\* Issue adds one row: the first of a new family, or the next of the parent's.
LEMMA IssueKeepsIInv ==
  ASSUME IInv, NEW r \in Reqs, NEW s \in SessionIds, Issue(r, s)
  PROVE  IInv' /\ RowsKept
<1> PICK q \in Request : q = req[r]
  BY DEF IInv, TypeOK
<1>1. /\ q.user \in Users /\ q.device \in DeviceRows
      /\ device[q.device].user = q.user
      /\ (q.family = None) <=> (q.parent = None)
      /\ q.parent # None => /\ q.parent \in Family(q.family)
                            /\ session[q.parent].user = q.user
                            /\ session[q.parent].device = q.device
  BY DEF Issue, IInv, RequestInv, Coherent
<1> PICK f \in SessionIds : f = IF q.family = None THEN s ELSE q.family
  BY DEF Request
<1> PICK step \in {"reply", "mark"} : step = IF q.parent = None THEN "reply" ELSE "mark"
  OBVIOUS
<1>r. PICK new \in SessionRow :
           new = [NoSession EXCEPT !.user = q.user, !.device = q.device, !.family = f]
  BY <1>1 DEF NoSession, SessionRow, DeviceRows
<1>n. PICK n \in Request : n = [q EXCEPT !.at = step, !.family = f, !.token = s]
  BY IssuedIsRequest
<1>2. /\ new.user = q.user /\ new.device = q.device /\ new.family = f
      /\ new.rotated = None
  BY <1>r DEF NoSession
<1>3. /\ n.at = step /\ n.family = f /\ n.token = s /\ n.parent = q.parent
  BY <1>n DEF Request
<1>4. /\ session' = [session EXCEPT ![s] = new] /\ req' = [req EXCEPT ![r] = n]
      /\ s \notin SessionRows /\ UNCHANGED <<account, device, known>>
  <2>1. /\ s \notin SessionRows /\ UNCHANGED <<account, device, known>>
        /\ session' = [session EXCEPT ![s] = new]
    BY <1>r DEF Issue
  <2>2. req' = [req EXCEPT ![r] = n]
    BY <1>n DEF Issue
  <2>3. QED
    BY <2>1, <2>2
<1>5. f # s => /\ f \in SessionRows
               /\ \A t \in Family(f) : /\ session[t].user = new.user
                                       /\ session[t].device = new.device
  <2>1. f # s => q.parent \in Family(f)
    BY <1>1
  <2>2. QED
    BY <1>1, <1>2, <2>1 DEF IInv, FamilyIsOneLogin, Family
<1>6. /\ RowsKept /\ RowInv' /\ FamilyIsOneLogin' /\ RotationStaysInFamily'
      /\ session' \in [SessionIds -> SessionRow]
      /\ Family(f)' = Family(f) \cup {s}
  <2>1. UNCHANGED <<device, known>>
    BY <1>4
  <2>0. new \in SessionRow
    BY <1>r
  <2>2. /\ RowsKept /\ RowInv' /\ FamilyIsOneLogin' /\ RotationStaysInFamily'
        /\ session' \in [SessionIds -> SessionRow]
        /\ \A g \in SessionIds :
              Family(g)' = IF g = f THEN Family(g) \cup {s} ELSE Family(g)
    BY ZenonT(40), <2>0, <1>1, <1>2, <1>4, <1>5, <2>1, RowAdded
  <2>3. QED
    BY <2>2
<1>7. TypeOK'
  BY <1>n, <1>4, <1>6 DEF IInv, TypeOK
<1>8. Coherent(n)'
  <2>1. s \in Family(f)'
    BY <1>6
  <2>2. n.at = "mark" => q.parent \in Family(f)' \ {s}
    BY <1>1, <1>3, <1>4, <1>6, NoneIsFresh DEF Family
  <2>3. QED
    BY <1>n, <1>3, <2>1, <2>2 DEF Coherent
<1>9. QED
  BY <1>n, <1>4, <1>6, <1>7, <1>8, TablesChange

\* rotated_to is set to a younger row of the same family.
LEMMA RefreshMarkKeepsIInv ==
  ASSUME IInv, NEW r \in Reqs, RefreshMark(r)
  PROVE  IInv' /\ RowsKept
<1> PICK q \in Request : q = req[r]
  BY DEF IInv, TypeOK
<1> PICK p \in SessionRows : p = q.parent
  BY DEF RefreshMark, IInv, RequestInv, Coherent, Family
<1> PICK t \in SessionRows : t = q.token
  BY DEF RefreshMark, IInv, RequestInv, Coherent, Family
<1>1. /\ p # t /\ session[p].family = session[t].family
      /\ q.at = "mark" /\ t \in Family(q.family)
  BY DEF RefreshMark, IInv, RequestInv, Coherent, Family
<1>2. /\ session' = [session EXCEPT ![p].rotated = t]
      /\ p \in SessionIds /\ t \in SessionIds /\ t # None
      /\ UNCHANGED <<account, device, known>>
  BY NoneIsFresh DEF RefreshMark, SessionRows
<1>3. ASSUME NEW s \in SessionIds
      PROVE  /\ session'[s].user = session[s].user
             /\ session'[s].device = session[s].device
             /\ session'[s].family = session[s].family
             /\ session'[s].rotated = IF s = p THEN t ELSE session[s].rotated
             /\ session'[s].revoked = session[s].revoked
             /\ s # p => session'[s] = session[s]
             /\ session'[s] \in SessionRow
  <2>1. session \in [SessionIds -> SessionRow]
    BY DEF IInv, TypeOK
  <2>2. QED
    BY <1>2, <2>1 DEF SessionRow
<1>4. SessionRows' = SessionRows
  BY <1>3 DEF SessionRows
<1>5. RowsKept
  BY <1>2, <1>3, <1>4 DEF RowsKept, SessionRows, DeviceRows
<1>6. RotationStaysInFamily'
  <2>1. ASSUME NEW s \in SessionRows', session'[s].rotated # None
        PROVE  (session[s].rotated \in Family(session[s].family) \ {s})'
    <3>1. s \in SessionRows /\ s \in SessionIds
      BY <1>4 DEF SessionRows
    <3>2. CASE s = p
      BY <1>1, <1>3, <1>4, <3>1, <3>2 DEF Family, SessionRows
    <3>3. CASE s # p
      <4> PICK g \in SessionIds : g = session[s].family
        BY <3>1 DEF IInv, FamilyIsOneLogin, SessionRows
      <4>1. session[s].rotated \in Family(g) \ {s}
        BY <1>3, <2>1, <3>1, <3>3 DEF IInv, RotationStaysInFamily
      <4>2. QED
        BY <1>3, <1>4, <3>1, <3>3, <4>1 DEF Family, SessionRows
    <3>4. QED
      BY <3>2, <3>3
  <2>2. QED
    BY <2>1 DEF RotationStaysInFamily
<1>7. TypeOK'
  <2>1. session' \in [SessionIds -> SessionRow]
    BY <1>2, <1>3 DEF IInv, TypeOK
  <2>2. req' \in [Reqs -> Request]
    BY DEF RefreshMark, Goto, IInv, TypeOK, Request, InFlight, Issuing
  <2>3. QED
    BY <1>2, <2>1, <2>2 DEF IInv, TypeOK
<1>8. RowInv'
  BY <1>2, <1>3, <1>4 DEF IInv, RowInv, SessionRows
<1>n. PICK n \in Request : n = [q EXCEPT !.at = "reply"]
  BY ZenonT(40) DEF Request, InFlight, Issuing
<1>9. n \in Request /\ req' = [req EXCEPT ![r] = n]
  BY <1>n DEF RefreshMark, Goto, IInv, TypeOK
<1>10. Coherent(n)'
  <2>1. n.at = "reply" /\ n.token = t /\ n.family = q.family
    BY <1>n DEF Request
  <2>2. q.family \in SessionIds
    BY <1>1, NoneIsFresh DEF Family, IInv, FamilyIsOneLogin, SessionRows
  <2>3. t \in Family(q.family)'
    BY <1>1, <1>4, <1>5, <2>2, FamiliesKept
  <2>4. QED
    BY <2>1, <2>3 DEF Coherent
<1>11. QED
  BY <1>5, <1>6, <1>7, <1>8, <1>9, <1>10, <1>4, FamiliesKept, TablesChange

\* A handler between its first and its last statement.
LEMMA ContinueKeepsIInv ==
  ASSUME IInv, NEW r \in Reqs, Continue(r)
  PROVE  IInv' /\ RowsKept
<1> PICK q \in Request : q = req[r]
  BY DEF IInv, TypeOK
<1>1. Coherent(q) /\ account \in [Users -> AccountStatus]
  BY DEF IInv, TypeOK, RequestInv
<1>2. CASE RegisterInsert(r)
  <2>1. RowsKept /\ FamilyIsOneLogin' /\ RotationStaysInFamily' /\ RowInv'
    BY <1>2 DEF RegisterInsert, IInv, RowsKept, FamilyIsOneLogin, RowInv,
                RotationStaysInFamily, Family, SessionRows, DeviceRows
  <2>2. account' \in [Users -> AccountStatus]
    BY <1>1, <1>2 DEF RegisterInsert, AccountStatus
  <2>n. PICK n \in Request : n = [q EXCEPT !.at = "device_find"]
    BY ZenonT(40) DEF Request, InFlight
  <2>3. /\ n.at = "device_find" /\ n.user = q.user /\ n.agent = q.agent
        /\ n.family = q.family /\ n.parent = q.parent
    BY <2>n DEF Request
  <2>4. n \in Request /\ Coherent(n)'
    BY <1>1, <1>2, <2>n, <2>3 DEF Coherent, RegisterInsert
  <2>5. req' = [req EXCEPT ![r] = n] \/ req' = [req EXCEPT ![r] = Idle]
    BY <1>2, <2>n DEF RegisterInsert, Goto, Finish
  <2>6. TypeOK'
    <3>1. req' \in [Reqs -> Request]
      BY <2>4, <2>5, IdleIsCoherent DEF IInv, TypeOK
    <3>2. QED
      BY <1>2, <2>2, <3>1 DEF RegisterInsert, IInv, TypeOK
  <2>7. CASE req' = [req EXCEPT ![r] = n]
    BY <2>1, <2>4, <2>6, <2>7, TablesChange
  <2>8. CASE req' = [req EXCEPT ![r] = Idle]
    BY <2>1, <2>6, <2>8, IdleIsCoherent, TablesChange
  <2>9. QED
    BY <2>1, <2>5, <2>7, <2>8
<1>3. CASE DeviceFind(r)
  <2>0. UNCHANGED <<account, device, session, known>> /\ q.at = "device_find"
    BY <1>3 DEF DeviceFind
  <2>1. ASSUME NEW d \in DeviceRows, device[d].user = q.user,
               req' = [req EXCEPT ![r] = [q EXCEPT !.at = "issue", !.device = d]]
        PROVE  IInv' /\ RowsKept
    <3>n. PICK n \in Request : n = [q EXCEPT !.at = "issue", !.device = d]
      BY ZenonT(40) DEF Request, InFlight, Issuing, DeviceRows
    <3>1. /\ n.at = "issue" /\ n.user = q.user /\ n.device = d
          /\ n.family = q.family /\ n.parent = q.parent
      BY <3>n DEF Request
    <3>2. Coherent(n)
      BY <1>1, <2>0, <2>1, <3>1 DEF Coherent
    <3>3. req' = [req EXCEPT ![r] = n]
      BY <2>1, <3>n
    <3>4. QED
      BY <2>0, <3>n, <3>2, <3>3, HandlerMoves
  <2>2. ASSUME Goto(r, "device_insert")
        PROVE  IInv' /\ RowsKept
    <3>n. PICK n \in Request : n = [q EXCEPT !.at = "device_insert"]
      BY ZenonT(40) DEF Request, InFlight
    <3>1. /\ n.at = "device_insert" /\ n.user = q.user /\ n.agent = q.agent
          /\ n.family = q.family /\ n.parent = q.parent
      BY <3>n DEF Request
    <3>2. Coherent(n)
      BY <1>1, <2>0, <3>1 DEF Coherent
    <3>3. req' = [req EXCEPT ![r] = n]
      BY <2>2, <3>n DEF Goto
    <3>4. QED
      BY <2>0, <3>n, <3>2, <3>3, HandlerMoves
  <2>3. QED
    BY <1>3, <2>1, <2>2 DEF DeviceFind
<1>4. ASSUME NEW d \in Devices, DeviceInsert(r, d)
      PROVE  IInv' /\ RowsKept
  <2>row. PICK new \in DeviceRow :
            new = [user |-> q.user, agent |-> q.agent, revoked |-> FALSE]
    BY <1>1, <1>4 DEF DeviceInsert, Coherent, DeviceRow
  <2>0. /\ device' = [device EXCEPT ![d] = new] /\ new.user = q.user /\ q.user \in Users
        /\ d \notin DeviceRows /\ UNCHANGED <<account, session, known>>
        /\ q.at = "device_insert"
    BY <1>1, <1>4, <2>row DEF DeviceInsert, Coherent
  <2>1. /\ device' \in [Devices -> DeviceRow] /\ device'[d].user = q.user
        /\ \A e \in Devices \ {d} : device'[e] = device[e]
    BY <2>row, <2>0 DEF IInv, TypeOK
  <2>2. d \in DeviceRows' /\ RowsKept
    BY <2>0, <2>1, NoneIsFresh DEF DeviceRows, RowsKept, SessionRows
  <2>3. SessionRows' = SessionRows /\ RowInv'
    BY <2>0 DEF IInv, RowInv, SessionRows
  <2>4. FamilyIsOneLogin' /\ RotationStaysInFamily'
    BY <2>0, <2>2, <2>3, FamiliesKept, RotationsKept
  <2>n. PICK n \in Request : n = [q EXCEPT !.at = "issue", !.device = d]
    BY ZenonT(40) DEF Request, InFlight, Issuing
  <2>5. /\ n.at = "issue" /\ n.user = q.user /\ n.device = d
        /\ n.family = q.family /\ n.parent = q.parent
    BY <2>n DEF Request
  <2>6. Coherent(n)'
    BY <1>1, <2>0, <2>1, <2>2, <2>5 DEF Coherent
  <2>7. req' = [req EXCEPT ![r] = n]
    BY <1>4, <2>n DEF DeviceInsert
  <2>8. TypeOK'
    BY <2>n, <2>0, <2>1, <2>7 DEF IInv, TypeOK
  <2>9. QED
    BY <2>n, <2>2, <2>3, <2>4, <2>6, <2>7, <2>8, TablesChange
<1>5. CASE ReplayRevoke(r)
  <2>1. /\ Revoke(Family(q.family), "token_reuse") /\ req' = [req EXCEPT ![r] = Idle]
        /\ UNCHANGED <<account, device, known>>
    BY <1>5 DEF ReplayRevoke, Finish
  <2>2. /\ device' \in [Devices -> DeviceRow]
        /\ \A d \in DeviceRows : d \in DeviceRows' /\ device'[d].user = device[d].user
    BY <2>1 DEF IInv, TypeOK, DeviceRows
  <2>3. req' \in [Reqs -> Request]
    BY <2>1, IdleIsCoherent DEF IInv, TypeOK
  <2>4. "token_reuse" \in Reasons
    BY DEF Reasons
  <2>5. /\ RowsKept /\ RowInv' /\ FamilyIsOneLogin' /\ RotationStaysInFamily' /\ TypeOK'
    BY <1>1, <2>1, <2>2, <2>3, <2>4, RevocationKeepsRows
  <2>6. QED
    BY <2>1, <2>5, IdleIsCoherent, TablesChange
<1>6. CASE Reply(r)
  <2>1. /\ known' = known \cup {q.token} /\ req' = [req EXCEPT ![r] = Idle]
        /\ UNCHANGED <<account, device, session>> /\ q.token \in SessionRows
    BY <1>1, <1>6 DEF Reply, Finish, Coherent, Family
  <2>2. RowsKept /\ FamilyIsOneLogin' /\ RotationStaysInFamily' /\ RowInv'
    BY <2>1 DEF IInv, RowsKept, FamilyIsOneLogin, RotationStaysInFamily, RowInv,
                Family, SessionRows, DeviceRows
  <2>3. TypeOK'
    BY <2>1, IdleIsCoherent DEF IInv, TypeOK, SessionRows
  <2>4. QED
    BY <2>1, <2>2, <2>3, IdleIsCoherent, TablesChange
<1>7. QED
  BY <1>2, <1>3, <1>4, <1>5, <1>6, IssueKeepsIInv, RefreshMarkKeepsIInv DEF Continue

\* The single statements that revoke.
LEMMA RevocationKeepsIInv ==
  ASSUME IInv, Revocation
  PROVE  IInv' /\ RowsKept
<1>0. Reasons = {"token_reuse", "logout", "logout_all", "device_revoked",
                 "password_reset", "suspend", "ban"}
  BY DEF Reasons
<1>1. ASSUME NEW S, NEW reason \in Reasons, Revoke(S, reason), req' = req, known' = known,
             account' \in [Users -> AccountStatus], device' \in [Devices -> DeviceRow],
             \A d \in DeviceRows : d \in DeviceRows' /\ device'[d].user = device[d].user
      PROVE  IInv' /\ RowsKept
  <2>1. req' \in [Reqs -> Request]
    BY <1>1 DEF IInv, TypeOK
  <2>2. QED
    BY <1>1, <2>1, RevocationKeepsRows, TablesOnly
<1>2. UNCHANGED device =>
        /\ device' \in [Devices -> DeviceRow]
        /\ \A d \in DeviceRows : d \in DeviceRows' /\ device'[d].user = device[d].user
  BY DEF IInv, TypeOK, DeviceRows
<1>3. UNCHANGED account => account' \in [Users -> AccountStatus]
  BY DEF IInv, TypeOK
<1>4. ASSUME NEW s \in SessionIds, Logout(s) PROVE IInv' /\ RowsKept
  BY <1>0, <1>1, <1>2, <1>3, <1>4 DEF Logout
<1>5. ASSUME NEW u \in Users, LogoutAll(u) PROVE IInv' /\ RowsKept
  BY <1>0, <1>1, <1>2, <1>3, <1>5 DEF LogoutAll
<1>6. ASSUME NEW u \in Users, ResetPassword(u) PROVE IInv' /\ RowsKept
  BY <1>0, <1>1, <1>2, <1>3, <1>6 DEF ResetPassword
<1>7. ASSUME NEW u \in Users, NEW action \in {"suspend", "ban"}, Sanction(u, action)
      PROVE  IInv' /\ RowsKept
  <2>1. account' \in [Users -> AccountStatus]
    BY <1>7 DEF Sanction, IInv, TypeOK, AccountStatus
  <2>2. QED
    BY <1>0, <1>1, <1>2, <1>7, <2>1 DEF Sanction
<1>8. ASSUME NEW d \in Devices, RevokeDevice(d) PROVE IInv' /\ RowsKept
  <2>1. /\ device' \in [Devices -> DeviceRow]
        /\ \A e \in DeviceRows : e \in DeviceRows' /\ device'[e].user = device[e].user
    BY <1>8 DEF RevokeDevice, IInv, TypeOK, DeviceRows, DeviceRow
  <2>2. QED
    BY <1>0, <1>1, <1>3, <1>8, <2>1 DEF RevokeDevice
<1>9. QED
  BY <1>4, <1>5, <1>6, <1>7, <1>8 DEF Revocation

\* Every step keeps the invariant and the rows.
LEMMA StepIInv ==
  ASSUME IInv, [Next]_vars
  PROVE  IInv' /\ RowsKept
<1>1. ASSUME NEW r \in Reqs, Abort(r) PROVE IInv' /\ RowsKept
  BY <1>1, IdleIsCoherent, HandlerMoves DEF Abort, Finish
<1>2. ASSUME NEW u \in Users, SuspensionLapses(u) PROVE IInv' /\ RowsKept
  <2>1. RowsKept /\ FamilyIsOneLogin' /\ RotationStaysInFamily' /\ RowInv'
    BY <1>2 DEF SuspensionLapses, IInv, RowsKept, FamilyIsOneLogin, RowInv,
                RotationStaysInFamily, Family, SessionRows, DeviceRows
  <2>2. TypeOK'
    BY <1>2 DEF SuspensionLapses, IInv, TypeOK, AccountStatus
  <2>3. QED
    BY <1>2, <2>1, <2>2, TablesOnly DEF SuspensionLapses
<1>3. CASE UNCHANGED vars
  <2>1. IInv'
    BY <1>3 DEF vars, IInv, TypeOK, RowInv, FamilyIsOneLogin, RequestInv, Coherent,
                RotationStaysInFamily, Family, SessionRows, DeviceRows
  <2>2. RowsKept
    BY <1>3 DEF vars, RowsKept, SessionRows, DeviceRows
  <2>3. QED
    BY <2>1, <2>2
<1>4. QED
  BY <1>1, <1>2, <1>3, ArriveKeepsIInv, ContinueKeepsIInv, RevocationKeepsIInv DEF Next

-----------------------------------------------------------------------------
(* The results.                                                            *)

\* The inductive invariant holds in every reachable state.
THEOREM Invariance == Spec => []IInv
<1>1. IInv /\ [Next]_vars => IInv'
  BY StepIInv
<1>2. QED
  BY InitIInv, <1>1, PTL DEF Spec

\* Every row and every handler of auth.service.ts is well formed.
THEOREM TypeCorrect == Spec => []TypeOK
<1>1. IInv => TypeOK
  BY DEF IInv
<1>2. QED
  BY Invariance, <1>1, PTL

\* A token family is one user's login on one device of theirs, and rotation
\* never leaves it: revoking the device, the user or the family reaches all of it.
THEOREM FamiliesAreLogins == Spec => []FamilyIsOneChain
<1>1. IInv => FamilyIsOneChain
  BY DEF IInv, FamilyIsOneChain
<1>2. QED
  BY Invariance, <1>1, PTL

\* No statement, however late, makes a retired token usable again.
LEMMA StepKeepsRetired == IInv /\ [Next]_vars => TokensStayRetired
<1>1. ASSUME IInv, [Next]_vars
      PROVE  TokensStayRetired
  <2>1. ASSUME NEW s \in known
        PROVE  /\ ~Usable(s) => ~Usable(s)'
               /\ session[s].revoked # None => session'[s].revoked = session[s].revoked
    <3>1. s \in SessionRows
      BY <1>1 DEF IInv, RowInv
    <3>2. RowsKept
      BY <1>1, StepIInv
    <3>3. /\ session[s].rotated # None => session'[s].rotated # None
          /\ session[s].revoked # None => session'[s].revoked = session[s].revoked
      BY <3>1, <3>2 DEF RowsKept
    <3>4. QED
      BY <3>3 DEF Usable, Fresh
  <2>2. QED
    BY <2>1 DEF TokensStayRetired
<1>2. QED
  BY <1>1

\* A token becomes usable only in the reply to the handler that issued it.
LEMMA OnlyReplyMakesUsable ==
  ASSUME IInv, [Next]_vars, NEW s \in SessionRows, ~Usable(s), Usable(s)'
  PROVE  \E r \in Reqs : req[r].at = "reply" /\ req[r].token = s
<1>1. ~(\E r \in Reqs : Reply(r)) => known' = known
  BY DEF Next, vars, Arrive, Continue, Revocation, RegisterRead, LoginRead, RefreshRead,
         RegisterInsert, DeviceFind, DeviceInsert, ReplayRevoke, Issue, RefreshMark,
         Abort, Logout, RevokeDevice, LogoutAll, ResetPassword, Sanction,
         SuspensionLapses
<1>2. s \notin known
  <2>1. RowsKept
    BY StepIInv
  <2>2. QED
    BY <2>1 DEF RowsKept, Usable, Fresh
<1>3. s \in known'
  BY DEF Usable
<1>4. QED
  BY <1>1, <1>2, <1>3 DEF Reply

\* Only Issue adds a session row.
LEMMA OnlyIssueAddsRows ==
  ASSUME IInv, [Next]_vars, NEW s \in SessionRows', s \notin SessionRows
  PROVE  \E r \in Reqs : Issue(r, s)
<1>0. session \in [SessionIds -> SessionRow]
  BY DEF IInv, TypeOK
<1>1. ASSUME NEW S, NEW reason \in Reasons, Revoke(S, reason) PROVE FALSE
  BY <1>1, RevokeKeeps
<1>2. ASSUME session' = session PROVE FALSE
  BY <1>2 DEF SessionRows
<1>3. ASSUME NEW r \in Reqs, RefreshMark(r) PROVE FALSE
  BY <1>0, <1>3 DEF RefreshMark, SessionRows, SessionRow
<1>4. ASSUME NEW r \in Reqs, NEW t \in SessionIds, Issue(r, t) PROVE t = s
  BY <1>0, <1>4 DEF Issue, SessionRows
<1>5. ASSUME NEW r \in Reqs, Arrive(r) \/ Abort(r) PROVE FALSE
  BY <1>2, <1>5 DEF Arrive, Abort, RegisterRead, LoginRead, RefreshRead
<1>6. ASSUME NEW r \in Reqs, Continue(r) PROVE Issue(r, s)
  BY <1>1, <1>2, <1>3, <1>4, <1>6
  DEF Continue, RegisterInsert, DeviceFind, DeviceInsert, ReplayRevoke, Reply, Reasons
<1>7. ASSUME Revocation PROVE FALSE
  BY <1>1, <1>7
  DEF Revocation, Logout, RevokeDevice, LogoutAll, ResetPassword, Sanction, Reasons
<1>8. QED
  BY <1>2, <1>5, <1>6, <1>7 DEF Next, vars, SuspensionLapses

\* The issued row and its handler name the same family.
LEMMA IssuedFamily ==
  ASSUME IInv, NEW r \in Reqs, NEW s \in SessionIds, Issue(r, s)
  PROVE  /\ req'[r].at \in Issuing
         /\ req'[r].family = IF req[r].family = None THEN s ELSE req[r].family
         /\ session'[s].family = req'[r].family
<1> PICK q \in Request : q = req[r]
  BY DEF IInv, TypeOK
<1>f. PICK f : f = IF q.family = None THEN s ELSE q.family
  OBVIOUS
<1>a. PICK step \in {"reply", "mark"} : step = IF q.parent = None THEN "reply" ELSE "mark"
  OBVIOUS
<1>1. req' = [req EXCEPT ![r] = [q EXCEPT !.at = step, !.family = f, !.token = s]]
  BY <1>f, <1>a DEF Issue
<1>2. req'[r] = [q EXCEPT !.at = step, !.family = f, !.token = s]
  BY <1>1 DEF IInv, TypeOK
<1>3. req'[r].at = step /\ req'[r].family = f
  BY <1>2 DEF Request
<1>4. session'[s] = [NoSession EXCEPT !.user = q.user, !.device = q.device, !.family = f]
  BY <1>f DEF Issue, IInv, TypeOK
<1>5. session'[s].family = f
  BY <1>4 DEF NoSession
<1>6. QED
  BY <1>3, <1>5, <1>f, <1>a DEF Issuing

\* A handler that issues into a family f of the table did so before the step, or
\* has just read a token of f that a client could use.
LEMMA IssuingHadAReason ==
  ASSUME IInv, [Next]_vars, NEW r \in Reqs, req'[r].at \in Issuing,
         NEW f \in SessionRows, req'[r].family = f
  PROVE  \/ req[r].at \in Issuing /\ req[r].family = f
         \/ \E s \in Family(f) : Usable(s)
<1>0. /\ req \in [Reqs -> Request] /\ f # None /\ f \in SessionIds
      /\ Coherent(req[r]) /\ known \subseteq SessionRows
  BY NoneIsFresh DEF IInv, TypeOK, RequestInv, RowInv, SessionRows
<1> USE <1>0 DEF Issuing
<1>1. ASSUME req'[r] = req[r]
      PROVE  req[r].at \in Issuing /\ req[r].family = f
  BY <1>1
<1>2. ASSUME NEW q \in Reqs, q # r, NEW n, req' = [req EXCEPT ![q] = n]
      PROVE  req'[r] = req[r]
  BY <1>2
<1>3. ASSUME Arrive(r)
      PROVE  \E s \in Family(f) : Usable(s)
  <2>1. PICK s \in SessionIds : RefreshRead(r, s) /\ req'[r].family = session[s].family
                                /\ Fresh(s)
    BY <1>3 DEF Arrive, RegisterRead, LoginRead, RefreshRead, Idle
  <2>2. QED
    BY <2>1 DEF RefreshRead, Usable, Family
<1>4. ASSUME Continue(r)
      PROVE  req[r].at \in Issuing /\ req[r].family = f
  <2>1. CASE RegisterInsert(r) \/ ReplayRevoke(r) \/ Reply(r)
    BY <2>1 DEF RegisterInsert, ReplayRevoke, Reply, Goto, Finish, Idle, Request
  <2>2. CASE DeviceFind(r) \/ \E d \in Devices : DeviceInsert(r, d)
    <3> PICK q \in Request : q = req[r]
      OBVIOUS
    <3>1. q.at \in {"device_find", "device_insert"} /\ q.family = None
      BY <2>2 DEF DeviceFind, DeviceInsert, Coherent
    <3>2. CASE DeviceFind(r)
      <4>1. ASSUME NEW d \in Devices,
                   req' = [req EXCEPT ![r] = [q EXCEPT !.at = "issue", !.device = d]]
            PROVE  req'[r].family = None
        BY <3>1, <4>1 DEF Request
      <4>2. Goto(r, "device_insert") => req'[r].family = None
        BY <3>1 DEF Goto, Request
      <4>3. QED
        BY <3>2, <4>1, <4>2 DEF DeviceFind, DeviceRows
    <3>3. CASE \E d \in Devices : DeviceInsert(r, d)
      <4>1. PICK d \in Devices :
              req' = [req EXCEPT ![r] = [q EXCEPT !.at = "issue", !.device = d]]
        BY <3>3 DEF DeviceInsert
      <4>2. QED
        BY <3>1, <4>1 DEF Request
    <3>4. QED
      BY <2>2, <3>2, <3>3
  <2>3. ASSUME NEW s \in SessionIds, Issue(r, s)
        PROVE  req[r].at \in Issuing /\ req[r].family = f
    <3>1. s \notin SessionRows /\ req[r].at = "issue"
      BY <2>3 DEF Issue
    <3>2. req'[r].family = IF req[r].family = None THEN s ELSE req[r].family
      BY <2>3, IssuedFamily
    <3>3. QED
      BY <3>1, <3>2
  <2>4. CASE RefreshMark(r)
    BY <2>4 DEF RefreshMark, Goto, Request
  <2>5. (\E s \in SessionIds : Issue(r, s)) => req[r].at \in Issuing /\ req[r].family = f
    BY <2>3
  <2>6. QED
    BY <1>4, <2>1, <2>2, <2>4, <2>5 DEF Continue
<1>5. ASSUME Abort(r) PROVE FALSE
  BY <1>5 DEF Abort, Finish, Idle, Request
<1>6. ASSUME NEW q \in Reqs, q # r, Arrive(q) \/ Continue(q) \/ Abort(q)
      PROVE  req'[r] = req[r]
  BY <1>6 DEF Arrive, Continue, Abort, RegisterRead, LoginRead, RefreshRead,
              RegisterInsert, DeviceFind, DeviceInsert, ReplayRevoke, Issue,
              RefreshMark, Reply, Goto, Finish
<1>7. ASSUME Revocation \/ \E u \in Users : SuspensionLapses(u)
      PROVE  req'[r] = req[r]
  BY <1>7 DEF Revocation, Logout, RevokeDevice, LogoutAll, ResetPassword, Sanction,
              SuspensionLapses
<1>8. QED
  BY <1>1, <1>3, <1>4, <1>5, <1>6, <1>7 DEF Next, vars

\* A family with no usable token and no handler inside it is dead for good.
LEMMA StepKeepsDead == IInv /\ [Next]_vars => DeadStayDead
<1>1. ASSUME IInv, [Next]_vars
      PROVE  DeadStayDead
  <2>1. ASSUME NEW f \in SessionIds, Dead(f)
        PROVE  Dead(f)'
    <3>1. f \in SessionRows /\ RowsKept /\ IInv'
      BY <1>1, <2>1, StepIInv DEF Dead, Family, IInv, FamilyIsOneLogin
    <3>2. ASSUME NEW r \in Reqs, req'[r].at \in Issuing
          PROVE  req'[r].family # f
      BY <1>1, <2>1, <3>1, <3>2, IssuingHadAReason DEF Dead
    <3>3. ASSUME NEW s \in Family(f)'
          PROVE  s \in Family(f)
      <4>1. CASE s \in SessionRows
        BY <3>1, <3>3, <4>1 DEF Family, RowsKept
      <4>2. CASE s \notin SessionRows
        <5>1. PICK r \in Reqs : Issue(r, s)
          BY <1>1, <3>3, <4>2, OnlyIssueAddsRows DEF Family
        <5>2. req'[r].at \in Issuing /\ req'[r].family = f
          <6>1. session'[s].family = f /\ s \in SessionIds
            BY <3>3, <4>2 DEF Family, SessionRows
          <6>2. QED
            BY <1>1, <5>1, <6>1, IssuedFamily
        <5>3. QED
          BY <3>2, <5>2
      <4>3. QED
        BY <4>1, <4>2
    <3>4. ASSUME NEW s \in Family(f), Usable(s)'
          PROVE  FALSE
      <4>1. s \in SessionRows /\ ~Usable(s) /\ session[s].family = f
        BY <2>1, <3>4 DEF Dead, Family
      <4>2. PICK r \in Reqs : req[r].at = "reply" /\ req[r].token = s
        BY <1>1, <3>4, <4>1, OnlyReplyMakesUsable
      <4>3. s \in Family(req[r].family)
        BY <1>1, <4>2 DEF IInv, RequestInv, Coherent
      <4>4. QED
        BY <2>1, <4>1, <4>2, <4>3 DEF Dead, Family, Issuing
    <3>5. Family(f)' # {}
      BY <2>1, <3>1 DEF Dead, Family, RowsKept
    <3>6. QED
      BY <3>2, <3>3, <3>4, <3>5 DEF Dead
  <2>2. QED
    BY <2>1 DEF DeadStayDead
<1>2. QED
  BY <1>1

\* No statement, however late, makes a retired token usable again, or brings back a
\* family that nothing holds a piece of.
THEOREM RetirementCorrect == Spec => RetirementIsFinal
<1>1. IInv /\ [Next]_vars => [TokensStayRetired /\ DeadStayDead]_vars
  BY StepKeepsRetired, StepKeepsDead
<1>2. QED
  BY Invariance, <1>1, PTL DEF Spec, RetirementIsFinal

-----------------------------------------------------------------------------
(* One handler at a time: the promises are inductive with SerialInv.       *)

LEMMA SerialStepIInv == SerialInv /\ [SerialNext]_vars => IInv'
<1>1. [SerialNext]_vars => [Next]_vars
  BY DEF SerialNext, Next
<1>2. QED
  BY <1>1, StepIInv DEF SerialInv

\* What is left to show of a step of the only handler in flight.
LEMMA Alone ==
  ASSUME NEW r \in Reqs, AllIdle(Reqs \ {r}),
         \A s \in Reqs \ {r} : req'[s] = req[s],
         Current(req[r])', IInv', Promises'
  PROVE  SerialInv'
<1>1. \A s \in Reqs \ {r} : Current(req[s])' /\ req'[s].at \notin InFlight
  BY DEF AllIdle, InFlight, Issuing, Current
<1>2. OneAtATime'
  BY <1>1 DEF OneAtATime
<1>3. QED
  BY <1>1, <1>2 DEF SerialInv

\* Steps that write no row.
LEMMA PromisesStay ==
  ASSUME Promises, UNCHANGED <<account, device, session, known>>
  PROVE  Promises'
  BY DEF Promises, OneUsableTokenPerFamily, ReplayKillsFamily, BannedHasNoSession,
         ResetKillsFamily, OneDevicePerAgent, Usable, Fresh, SessionRows, DeviceRows

LEMMA SerialRead ==
  ASSUME NEW r \in Reqs, AllIdle(Reqs \ {r}), SerialInv, IInv',
         UNCHANGED <<account, device, session, known>>,
         NEW q, req' = [req EXCEPT ![r] = q], Current(q)
  PROVE  SerialInv'
<1>1. /\ req'[r] = q
      /\ \A s \in Reqs \ {r} : req'[s] = req[s]
  BY DEF SerialInv, IInv, TypeOK
<1>2. Current(req[r])'
  BY <1>1 DEF Current, Spared, Family, Usable, Fresh, SessionRows, DeviceRows
<1>3. Promises'
  BY PromisesStay DEF SerialInv
<1>4. QED
  BY <1>1, <1>2, <1>3, Alone

LEMMA SerialFinish ==
  ASSUME NEW r \in Reqs, AllIdle(Reqs \ {r}), SerialInv, IInv',
         UNCHANGED <<account, device, session, known>>, Finish(r)
  PROVE  SerialInv'
<1>1. Current(Idle)
  BY DEF Idle, Current
<1>2. QED
  BY <1>1, SerialRead DEF Finish

\* What the first statement reads is so in the state it reads it from.
LEMMA SerialArrive ==
  ASSUME NEW r \in Reqs, AllIdle(Reqs \ {r}), SerialInv, IInv', Arrive(r)
  PROVE  SerialInv'
<1>1. ASSUME NEW u \in Users, NEW a \in Agents, RegisterRead(r, u, a)
      PROVE  SerialInv'
  <2> DEFINE q == [Idle EXCEPT !.at = "register_insert", !.user = u, !.agent = a]
  <2>1. Current(q)
    BY DEF Idle, Current
  <2>2. QED
    BY <1>1, <2>1, SerialRead DEF RegisterRead
<1>2. ASSUME NEW u \in Users, NEW a \in Agents, LoginRead(r, u, a)
      PROVE  SerialInv'
  <2> DEFINE q == [Idle EXCEPT !.at = "device_find", !.user = u, !.agent = a]
  <2>1. Current(q)
    BY <1>2 DEF LoginRead, Idle, Current
  <2>2. QED
    BY <1>2, <2>1, SerialRead DEF LoginRead
<1>3. ASSUME NEW s \in SessionIds, RefreshRead(r, s)
      PROVE  SerialInv'
  <2>1. CASE req' = [req EXCEPT ![r] =
                       [Idle EXCEPT !.at = "replay", !.family = session[s].family]]
    <3> DEFINE q == [Idle EXCEPT !.at = "replay", !.family = session[s].family]
    <3>1. Current(q)
      BY DEF Idle, Current
    <3>2. QED
      BY <1>3, <2>1, <3>1, SerialRead DEF RefreshRead
  <2>2. CASE /\ Fresh(s)
             /\ req' = [req EXCEPT ![r] =
                          [Idle EXCEPT !.at = "issue", !.user = session[s].user,
                                         !.device = session[s].device,
                                         !.family = session[s].family, !.parent = s]]
    <3> DEFINE q == [Idle EXCEPT !.at = "issue", !.user = session[s].user,
                                   !.device = session[s].device,
                                   !.family = session[s].family, !.parent = s]
    <3>1. s \in SessionRows /\ Usable(s)
      BY <1>3, <2>2 DEF RefreshRead, Usable, SerialInv, IInv, RowInv
    <3>2. account[session[s].user] # "banned"
      BY <2>2, <3>1 DEF SerialInv, Promises, BannedHasNoSession, Fresh
    <3>3. Current(q)
      BY <3>1, <3>2 DEF Idle, Current
    <3>4. QED
      BY <1>3, <2>2, <3>3, SerialRead DEF RefreshRead
  <2>3. QED
    BY <1>3, <2>1, <2>2 DEF RefreshRead
<1>4. QED
  BY <1>1, <1>2, <1>3 DEF Arrive

\* The account and the device of a login are written before its session.
LEMMA SerialRegister ==
  ASSUME NEW r \in Reqs, AllIdle(Reqs \ {r}), SerialInv, IInv', RegisterInsert(r)
  PROVE  SerialInv'
<1> PICK q \in Request : q = req[r]
  BY DEF SerialInv, IInv, TypeOK
<1>1. CASE Finish(r) /\ UNCHANGED account
  BY <1>1, SerialFinish DEF RegisterInsert
<1>2. CASE account' = [account EXCEPT ![q.user] = "active"] /\ Goto(r, "device_find")
  <2>1. q.user \in Users
    BY DEF RegisterInsert, SerialInv, IInv, RequestInv, Coherent
  <2>2. /\ account'[q.user] = "active"
        /\ \A u \in Users : account'[u] = "banned" => account[u] = "banned"
    BY <1>2, <2>1 DEF SerialInv, IInv, TypeOK
  <2>3. UNCHANGED <<device, session, known>>
    BY DEF RegisterInsert
  <2>4. /\ req'[r].at = "device_find" /\ req'[r].user = q.user
        /\ \A s \in Reqs \ {r} : req'[s] = req[s]
    BY <1>2 DEF Goto, SerialInv, IInv, TypeOK, Request
  <2>5. Current(req[r])'
    BY <2>2, <2>4 DEF Current
  <2>6. \A s \in SessionRows : session[s].user \in Users
    BY DEF SerialInv, IInv, TypeOK, SessionRow, SessionRows
  <2>7. BannedHasNoSession'
    BY <2>2, <2>3, <2>6 DEF SerialInv, Promises, BannedHasNoSession, SessionRows
  <2>8. Promises'
    BY <2>3, <2>7 DEF SerialInv, Promises, OneUsableTokenPerFamily, ReplayKillsFamily,
       ResetKillsFamily, OneDevicePerAgent, Usable, Fresh, SessionRows, DeviceRows
  <2>9. QED
    BY <2>4, <2>5, <2>8, Alone
<1>3. QED
  BY <1>1, <1>2 DEF RegisterInsert

LEMMA SerialDeviceFind ==
  ASSUME NEW r \in Reqs, AllIdle(Reqs \ {r}), SerialInv, IInv', DeviceFind(r)
  PROVE  SerialInv'
<1> PICK q \in Request : q = req[r]
  BY DEF SerialInv, IInv, TypeOK
<1>1. account[q.user] # "banned" /\ q.parent = None
  BY DEF DeviceFind, SerialInv, IInv, RequestInv, Coherent, Current
<1>2. ASSUME NEW d, req' = [req EXCEPT ![r] = [@ EXCEPT !.at = "issue", !.device = d]]
      PROVE  SerialInv'
  <2> DEFINE n == [q EXCEPT !.at = "issue", !.device = d]
  <2>1. Current(n)
    BY <1>1 DEF Current, Request
  <2>2. req' = [req EXCEPT ![r] = n]
    BY <1>2 DEF SerialInv, IInv, TypeOK
  <2>3. QED
    BY <2>1, <2>2, SerialRead DEF DeviceFind
<1>3. CASE /\ Goto(r, "device_insert")
           /\ {d \in DeviceRows : /\ device[d].user = q.user /\ device[d].agent = q.agent
                                  /\ ~device[d].revoked} = {}
  <2> DEFINE n == [q EXCEPT !.at = "device_insert"]
  <2>1. Current(n)
    BY <1>1, <1>3 DEF Current, Request
  <2>2. req' = [req EXCEPT ![r] = n]
    BY <1>3 DEF Goto
  <2>3. QED
    BY <2>1, <2>2, SerialRead DEF DeviceFind
<1>4. QED
  BY <1>2, <1>3 DEF DeviceFind

LEMMA SerialDeviceInsert ==
  ASSUME NEW r \in Reqs, NEW d \in Devices, AllIdle(Reqs \ {r}), SerialInv, IInv',
         DeviceInsert(r, d)
  PROVE  SerialInv'
<1> PICK q \in Request : q = req[r]
  BY DEF SerialInv, IInv, TypeOK
<1>1. /\ account[q.user] # "banned" /\ q.parent = None
      /\ \A e \in DeviceRows :
           device[e].user = q.user /\ device[e].agent = q.agent => device[e].revoked
  BY DEF DeviceInsert, SerialInv, IInv, RequestInv, Coherent, Current
<1>2. /\ device'[d] = [user |-> q.user, agent |-> q.agent, revoked |-> FALSE]
      /\ \A e \in Devices \ {d} : device'[e] = device[e]
      /\ UNCHANGED <<account, session, known>>
  BY DEF DeviceInsert, SerialInv, IInv, TypeOK
<1>3. OneDevicePerAgent'
  <2>1. ASSUME NEW e \in DeviceRows', e # d PROVE e \in DeviceRows /\ device'[e] = device[e]
    BY <1>2, <2>1 DEF DeviceRows
  <2>2. ASSUME NEW e \in DeviceRows', NEW g \in DeviceRows',
               device'[e].user = device'[g].user, device'[e].agent = device'[g].agent,
               ~device'[e].revoked, ~device'[g].revoked
        PROVE  e = g
    <3>1. CASE e # d /\ g # d
      BY <2>1, <2>2, <3>1 DEF SerialInv, Promises, OneDevicePerAgent
    <3>2. CASE e = d /\ g # d
      BY <1>1, <1>2, <2>1, <2>2, <3>2
    <3>3. CASE e # d /\ g = d
      BY <1>1, <1>2, <2>1, <2>2, <3>3
    <3>4. QED
      BY <3>1, <3>2, <3>3
  <2>3. QED
    BY <2>2 DEF OneDevicePerAgent
<1>4. Promises'
  BY <1>2, <1>3 DEF SerialInv, Promises, OneUsableTokenPerFamily, ReplayKillsFamily,
     BannedHasNoSession, ResetKillsFamily, Usable, Fresh, SessionRows
<1>5. /\ req'[r].at = "issue" /\ req'[r].user = q.user /\ req'[r].parent = None
      /\ \A s \in Reqs \ {r} : req'[s] = req[s]
  BY <1>1 DEF DeviceInsert, SerialInv, IInv, TypeOK, Request
<1>6. Current(req[r])'
  BY <1>1, <1>2, <1>5 DEF Current
<1>7. QED
  BY <1>4, <1>5, <1>6, Alone

\* The new row is the only usable one of its family but for the one it replaces.
LEMMA SerialIssue ==
  ASSUME NEW r \in Reqs, NEW s \in SessionIds, AllIdle(Reqs \ {r}), SerialInv, IInv',
         Issue(r, s)
  PROVE  SerialInv'
<1> PICK q \in Request : q = req[r]
  BY DEF SerialInv, IInv, TypeOK
<1> PICK f : f = IF q.family = None THEN s ELSE q.family
  OBVIOUS
<1>1. /\ q.user \in Users /\ q.device \in DeviceRows
      /\ (q.family = None) <=> (q.parent = None)
      /\ q.parent # None => q.parent \in Family(q.family) /\ Usable(q.parent)
      /\ account[q.user] # "banned"
  BY DEF Issue, SerialInv, IInv, RequestInv, Coherent, Current
<1>2. /\ s \notin SessionRows /\ s \notin known
      /\ session'[s] = [user |-> q.user, device |-> q.device, family |-> f,
                        rotated |-> None, revoked |-> None]
      /\ \A t \in SessionRows : session'[t] = session[t]
      /\ UNCHANGED <<account, device, known>>
  <2>1. session' = [session EXCEPT ![s] = [NoSession EXCEPT !.user = q.user,
                                              !.device = q.device, !.family = f]]
    BY DEF Issue
  <2>2. s \notin SessionRows /\ UNCHANGED <<account, device, known>>
    BY DEF Issue
  <2>3. QED
    BY <2>1, <2>2 DEF NoSession, SerialInv, IInv, TypeOK, RowInv, SessionRows
<1>3. SessionRows' = SessionRows \cup {s}
  <2>1. q.user # None
    BY <1>1, NoneIsFresh
  <2>2. \A t \in SessionIds \ {s} : session'[t] = session[t]
    BY DEF Issue, SerialInv, IInv, TypeOK
  <2>3. QED
    BY <1>2, <2>1, <2>2 DEF SessionRows
<1>4. ~Usable(s)' /\ \A t \in SessionRows : Usable(t)' <=> Usable(t)
  BY <1>2 DEF Usable, Fresh
\* The rows that were in the family already.
<1>5. ASSUME NEW t \in SessionRows, session[t].family = f
      PROVE  /\ q.parent # None /\ q.parent \in SessionRows /\ Usable(q.parent)
             /\ q.family = f /\ session[q.parent].family = f
  <2>1. f \in SessionRows
    BY <1>5 DEF SerialInv, IInv, FamilyIsOneLogin
  <2>2. q.family # None
    BY <1>2, <2>1
  <2>3. QED
    BY <1>1, <2>2 DEF Family
<1>6. ASSUME NEW t \in SessionRows, session[t].family = f
      PROVE  /\ session[t].revoked \notin {"token_reuse", "password_reset"}
             /\ Usable(t) => t = q.parent
  <2>1. session[q.parent].revoked = None /\ q.parent \in known
    BY <1>5, <1>6 DEF Usable, Fresh
  <2>2. session[t].revoked # "token_reuse"
    BY <1>5, <1>6, <2>1 DEF SerialInv, Promises, ReplayKillsFamily
  <2>3. session[t].revoked # "password_reset"
    BY <1>5, <1>6, <2>1 DEF SerialInv, Promises, ResetKillsFamily
  <2>4. Usable(t) => t \in known
    BY DEF Usable
  <2>5. Usable(t) => t = q.parent
    BY <1>5, <1>6, <2>1, <2>4 DEF SerialInv, Promises, OneUsableTokenPerFamily
  <2>6. QED
    BY <2>2, <2>3, <2>5
<1>7. OneUsableTokenPerFamily'
  <2>1. ASSUME NEW x \in known', Usable(x)' PROVE x \in known /\ x \in SessionRows /\ Usable(x)
    BY <1>2, <1>4, <2>1 DEF SerialInv, IInv, RowInv
  <2>2. QED
    BY <1>2, <2>1 DEF OneUsableTokenPerFamily, SerialInv, Promises
<1>8. ReplayKillsFamily'
  <2> SUFFICES ASSUME NEW x \in SessionRows', NEW y \in SessionRows',
                      session'[x].revoked = "token_reuse",
                      session'[y].family = session'[x].family
               PROVE  session'[y].revoked # None
    BY DEF ReplayKillsFamily
  <2>1. x \in SessionRows
    BY <1>2, <1>3, NullIsNoReason DEF Reasons
  <2>2. y \in SessionRows
    BY <1>2, <1>3, <1>6, <2>1
  <2>3. QED
    BY <1>2, <2>1, <2>2 DEF SerialInv, Promises, ReplayKillsFamily
<1>9. ResetKillsFamily'
  <2> SUFFICES ASSUME NEW x \in SessionRows', NEW y \in SessionRows',
                      session'[x].revoked = "password_reset",
                      session'[y].family = session'[x].family
               PROVE  ~Usable(y)'
    BY DEF ResetKillsFamily
  <2>1. x \in SessionRows
    BY <1>2, <1>3, NullIsNoReason DEF Reasons
  <2>2. CASE y = s
    BY <1>4, <2>2
  <2>3. CASE y \in SessionRows
    BY <1>2, <1>4, <2>1, <2>3 DEF SerialInv, Promises, ResetKillsFamily
  <2>4. QED
    BY <1>3, <2>2, <2>3
<1>10. BannedHasNoSession'
  BY <1>1, <1>2, <1>3 DEF SerialInv, Promises, BannedHasNoSession
<1>11. OneDevicePerAgent'
  BY <1>2 DEF SerialInv, Promises, OneDevicePerAgent, DeviceRows
<1>12. Promises'
  BY <1>7, <1>8, <1>9, <1>10, <1>11 DEF Promises
<1>13. /\ req'[r].at = IF q.parent = None THEN "reply" ELSE "mark"
       /\ req'[r].family = f /\ req'[r].parent = q.parent
       /\ \A t \in Reqs \ {r} : req'[t] = req[t]
  <2>1. req' = [req EXCEPT ![r] =
                  [q EXCEPT !.at = IF q.parent = None THEN "reply" ELSE "mark",
                            !.family = f, !.token = s]]
    BY DEF Issue
  <2>2. QED
    BY <2>1 DEF SerialInv, IInv, TypeOK, Request
<1>14. Current(req[r])'
  <2>1. ASSUME NEW t \in Family(f)'
        PROVE  \/ t = s
               \/ t \in SessionRows /\ session[t].family = f
    BY <1>2, <1>3 DEF Family
  <2>2. Spared(f)'
    <3>1. ASSUME NEW t \in Family(f)'
          PROVE  session'[t].revoked \notin {"token_reuse", "password_reset"}
      <4>1. CASE t = s
        BY <1>2, <4>1, NullIsNoReason DEF Reasons
      <4>2. CASE t \in SessionRows /\ session[t].family = f
        BY <1>2, <1>6, <4>2
      <4>3. QED
        BY <2>1, <4>1, <4>2
    <3>2. QED
      BY <3>1 DEF Spared
  <2>3. ASSUME NEW t \in Family(f)', Usable(t)'
        PROVE  q.parent # None /\ t = q.parent
    BY <1>4, <1>5, <1>6, <2>1, <2>3
  <2>4. QED
    BY <1>13, <2>2, <2>3 DEF Current
<1>15. QED
  BY <1>12, <1>13, <1>14, Alone

\* Rotation retires the token it replaces, the only one usable.
LEMMA SerialMark ==
  ASSUME NEW r \in Reqs, AllIdle(Reqs \ {r}), SerialInv, IInv', RefreshMark(r)
  PROVE  SerialInv'
<1> PICK q \in Request : q = req[r]
  BY DEF SerialInv, IInv, TypeOK
<1>1. /\ q.parent \in SessionRows /\ q.token \in SessionRows
      /\ q.at = "mark" /\ Current(q)
  BY DEF RefreshMark, SerialInv, IInv, RequestInv, Coherent, Family
<1>2. q.token # None
  BY <1>1, NoneIsFresh DEF SessionRows
<1>3. /\ session' = [session EXCEPT ![q.parent].rotated = q.token]
      /\ UNCHANGED <<account, device, known>>
  BY DEF RefreshMark
<1>4. ASSUME NEW s \in SessionIds
      PROVE  /\ session'[s].user = session[s].user
             /\ session'[s].family = session[s].family
             /\ session'[s].revoked = session[s].revoked
             /\ Usable(s)' => Usable(s) /\ s # q.parent
  <2>1. session \in [SessionIds -> SessionRow]
    BY DEF SerialInv, IInv, TypeOK
  <2>2. /\ session'[s].user = session[s].user
        /\ session'[s].family = session[s].family
        /\ session'[s].revoked = session[s].revoked
        /\ session'[s].rotated = IF s = q.parent THEN q.token ELSE session[s].rotated
    BY <1>3, <2>1 DEF SessionRow
  <2>3. QED
    BY <1>2, <1>3, <2>2 DEF Usable, Fresh
<1>5. SessionRows' = SessionRows /\ \A f : Family(f)' = Family(f)
  BY <1>4 DEF SessionRows, Family
<1>6. Promises'
  <2>1. OneUsableTokenPerFamily'
    BY <1>3, <1>4 DEF SerialInv, Promises, OneUsableTokenPerFamily, IInv, RowInv, SessionRows
  <2>2. ReplayKillsFamily' /\ ResetKillsFamily' /\ BannedHasNoSession'
    BY <1>3, <1>4, <1>5 DEF SerialInv, Promises, ReplayKillsFamily, ResetKillsFamily,
                            BannedHasNoSession, SessionRows
  <2>3. OneDevicePerAgent'
    BY <1>3 DEF SerialInv, Promises, OneDevicePerAgent, DeviceRows
  <2>4. QED
    BY <2>1, <2>2, <2>3 DEF Promises
<1>7. /\ req'[r].at = "reply" /\ req'[r].family = q.family
      /\ \A s \in Reqs \ {r} : req'[s] = req[s]
  BY DEF RefreshMark, Goto, SerialInv, IInv, TypeOK, Request
<1>8. Spared(q.family)' /\ \A s \in Family(q.family)' : ~Usable(s)'
  BY <1>1, <1>4, <1>5 DEF Current, Spared, Family, SessionRows
<1>9. Current(req[r])'
  BY <1>7, <1>8 DEF Current
<1>10. QED
  BY <1>6, <1>7, <1>9, Alone

\* The client gets the one token of its family that is usable.
LEMMA SerialReply ==
  ASSUME NEW r \in Reqs, AllIdle(Reqs \ {r}), SerialInv, IInv', Reply(r)
  PROVE  SerialInv'
<1> PICK q \in Request : q = req[r]
  BY DEF SerialInv, IInv, TypeOK
<1>1. q.token \in Family(q.family) /\ Current(q) /\ q.at = "reply"
  BY DEF Reply, SerialInv, IInv, RequestInv, Coherent
<1>2. known' = known \cup {q.token} /\ UNCHANGED <<account, device, session>>
  BY DEF Reply
<1>3. ASSUME NEW s \in SessionRows, Usable(s)'
      PROVE  /\ s = q.token \/ Usable(s)
             /\ s # q.token => session[s].family # q.family
  BY <1>1, <1>2, <1>3 DEF Usable, Fresh, Current, Family
<1>4. session[q.token].family = q.family /\ q.token \in SessionRows
  BY <1>1 DEF Family
<1>5. OneUsableTokenPerFamily'
  <2> SUFFICES ASSUME NEW x \in known', NEW y \in known', Usable(x)', Usable(y)',
                      session'[x].family = session'[y].family
               PROVE  x = y
    BY DEF OneUsableTokenPerFamily
  <2>1. x \in SessionRows /\ y \in SessionRows
    BY <1>2, <1>4 DEF SerialInv, IInv, RowInv
  <2>2. session[x].family = session[y].family
    BY <1>2
  <2>3. CASE x = q.token \/ y = q.token
    BY <1>3, <1>4, <2>1, <2>2, <2>3
  <2>4. CASE x # q.token /\ y # q.token
    BY <1>2, <1>3, <2>1, <2>2, <2>4 DEF SerialInv, Promises, OneUsableTokenPerFamily
  <2>5. QED
    BY <2>3, <2>4
<1>6. ResetKillsFamily'
  <2> SUFFICES ASSUME NEW x \in SessionRows, NEW y \in SessionRows,
                      session[x].revoked = "password_reset",
                      session[y].family = session[x].family, Usable(y)'
               PROVE  FALSE
    BY <1>2 DEF ResetKillsFamily, SessionRows
  <2>1. CASE y = q.token
    BY <1>1, <1>4, <2>1 DEF Current, Spared, Family
  <2>2. CASE Usable(y)
    BY <2>2 DEF SerialInv, Promises, ResetKillsFamily
  <2>3. QED
    BY <1>3, <2>1, <2>2
<1>7. Promises'
  BY <1>2, <1>5, <1>6 DEF SerialInv, Promises, ReplayKillsFamily, BannedHasNoSession,
     OneDevicePerAgent, SessionRows, DeviceRows
<1>8. /\ req'[r] = Idle
      /\ \A s \in Reqs \ {r} : req'[s] = req[s]
  BY DEF Reply, Finish, SerialInv, IInv, TypeOK
<1>9. Current(req[r])'
  BY <1>8 DEF Current, Idle
<1>10. QED
  BY <1>7, <1>8, <1>9, Alone

\* A revocation reaches all of a family or, for its user, all that the promise is about.
LEMMA RevokeKeepsPromises ==
  ASSUME SerialInv, NEW S, NEW reason \in Reasons, Revoke(S, reason), known' = known,
         reason = "token_reuse" => \E f : S = Family(f),
         reason = "password_reset" => \E u : S = OwnedBy(u)
  PROVE  /\ SessionRows' = SessionRows
         /\ \A s \in SessionRows : /\ session'[s].user = session[s].user
                                   /\ session[s].revoked # None \/ s \in S
                                        => session'[s].revoked # None
         /\ OneUsableTokenPerFamily' /\ ReplayKillsFamily' /\ ResetKillsFamily'
<1>1. /\ SessionRows' = SessionRows
      /\ \A s \in SessionRows : /\ session'[s].user = session[s].user
                                /\ session'[s].family = session[s].family
                                /\ session'[s].rotated = session[s].rotated
  BY RevokeKeeps DEF SerialInv, SessionRows
<1>2. ASSUME NEW s \in SessionRows
      PROVE  session'[s].revoked =
               IF s \in S /\ session[s].revoked = None THEN reason ELSE session[s].revoked
  <2>1. session[s] \in SessionRow
    BY DEF SerialInv, IInv, TypeOK, SessionRows
  <2>2. QED
    BY <2>1 DEF Revoke, SessionRow, SessionRows
<1>3. reason # None
  BY NullIsNoReason
<1>4. \A s \in SessionRows : session[s].revoked # None \/ s \in S => session'[s].revoked # None
  BY <1>2, <1>3
<1>5. \A s \in SessionRows : Usable(s)' => Usable(s)
  BY <1>1, <1>2, <1>3 DEF Usable, Fresh
<1>6. OneUsableTokenPerFamily'
  <2>1. known' \subseteq SessionRows
    BY DEF SerialInv, IInv, RowInv
  <2>2. QED
    BY <1>1, <1>5, <2>1 DEF SerialInv, Promises, OneUsableTokenPerFamily
<1>7. ReplayKillsFamily'
  <2> SUFFICES ASSUME NEW s \in SessionRows, NEW t \in SessionRows,
                      session'[s].revoked = "token_reuse",
                      session[t].family = session[s].family
               PROVE  session'[t].revoked # None
    BY <1>1 DEF ReplayKillsFamily
  <2>1. CASE session[s].revoked = "token_reuse"
    BY <1>4, <2>1 DEF SerialInv, Promises, ReplayKillsFamily
  <2>2. CASE session[s].revoked # "token_reuse"
    <3>1. s \in S /\ reason = "token_reuse"
      BY <1>2, <2>2
    <3>2. t \in S
      BY <3>1 DEF Family
    <3>3. QED
      BY <1>4, <3>2
  <2>3. QED
    BY <2>1, <2>2
<1>8. ResetKillsFamily'
  <2> SUFFICES ASSUME NEW s \in SessionRows, NEW t \in SessionRows,
                      session'[s].revoked = "password_reset",
                      session[t].family = session[s].family
               PROVE  ~Usable(t)'
    BY <1>1 DEF ResetKillsFamily
  <2>1. CASE session[s].revoked = "password_reset"
    BY <1>5, <2>1 DEF SerialInv, Promises, ResetKillsFamily
  <2>2. CASE session[s].revoked # "password_reset"
    <3>1. s \in S /\ reason = "password_reset"
      BY <1>2, <2>2
    <3>2. session[t].user = session[s].user
      BY DEF SerialInv, IInv, FamilyIsOneLogin, Family
    <3>3. t \in S
      BY <3>1, <3>2 DEF OwnedBy
    <3>4. QED
      BY <1>4, <3>3 DEF Usable, Fresh
  <2>3. QED
    BY <2>1, <2>2
<1>9. QED
  BY <1>1, <1>4, <1>6, <1>7, <1>8

\* The replay of a retired token revokes what is left of its family.
LEMMA SerialReplay ==
  ASSUME NEW r \in Reqs, AllIdle(Reqs \ {r}), SerialInv, IInv', ReplayRevoke(r)
  PROVE  SerialInv'
<1>1. /\ Revoke(Family(req[r].family), "token_reuse")
      /\ UNCHANGED <<account, device, known>>
  BY DEF ReplayRevoke
<1>2. "token_reuse" \in Reasons
  BY DEF Reasons
<1>3. /\ SessionRows' = SessionRows
      /\ \A s \in SessionRows : /\ session'[s].user = session[s].user
                                /\ session[s].revoked # None => session'[s].revoked # None
      /\ OneUsableTokenPerFamily' /\ ReplayKillsFamily' /\ ResetKillsFamily'
  BY <1>1, <1>2, RevokeKeepsPromises
<1>4. BannedHasNoSession' /\ OneDevicePerAgent'
  BY <1>1, <1>3 DEF SerialInv, Promises, BannedHasNoSession, OneDevicePerAgent, DeviceRows
<1>5. /\ req'[r] = Idle
      /\ \A s \in Reqs \ {r} : req'[s] = req[s]
  BY DEF ReplayRevoke, Finish, SerialInv, IInv, TypeOK
<1>6. Current(req[r])'
  BY <1>5 DEF Current, Idle
<1>7. Promises'
  BY <1>3, <1>4 DEF Promises
<1>8. QED
  BY <1>5, <1>6, <1>7, Alone

\* A revocation finds no handler in flight.
LEMMA SerialRevocation ==
  ASSUME AllIdle(Reqs), SerialInv, IInv', Revocation
  PROVE  SerialInv'
<1>0. Reasons = {"token_reuse", "logout", "logout_all", "device_revoked",
                 "password_reset", "suspend", "ban"}
  BY DEF Reasons
<1>1. req' = req
  BY DEF Revocation, Logout, LogoutAll, RevokeDevice, ResetPassword, Sanction
<1>2. OneAtATime' /\ \A r \in Reqs : Current(req[r])'
  BY <1>1 DEF AllIdle, OneAtATime, Current, InFlight, Issuing
<1>3. Promises' => SerialInv'
  BY <1>2 DEF SerialInv
<1>4. ASSUME NEW S, NEW reason \in Reasons, Revoke(S, reason),
             UNCHANGED <<account, device, known>>,
             reason # "token_reuse", reason = "password_reset" => \E u : S = OwnedBy(u)
      PROVE  Promises'
  <2>1. /\ SessionRows' = SessionRows
        /\ \A s \in SessionRows : /\ session'[s].user = session[s].user
                                  /\ session[s].revoked # None => session'[s].revoked # None
        /\ OneUsableTokenPerFamily' /\ ReplayKillsFamily' /\ ResetKillsFamily'
    BY <1>4, RevokeKeepsPromises
  <2>2. BannedHasNoSession' /\ OneDevicePerAgent'
    BY <1>4, <2>1 DEF SerialInv, Promises, BannedHasNoSession, OneDevicePerAgent, DeviceRows
  <2>3. QED
    BY <2>1, <2>2 DEF Promises
<1>5. ASSUME NEW s \in SessionIds, Logout(s) PROVE Promises'
  BY <1>0, <1>4, <1>5 DEF Logout
<1>6. ASSUME NEW u \in Users, LogoutAll(u) PROVE Promises'
  BY <1>0, <1>4, <1>6 DEF LogoutAll
<1>7. ASSUME NEW u \in Users, ResetPassword(u) PROVE Promises'
  BY <1>0, <1>4, <1>7 DEF ResetPassword
\* A device that is revoked is not in the way of another one.
<1>8. ASSUME NEW d \in Devices, RevokeDevice(d) PROVE Promises'
  <2>1. /\ SessionRows' = SessionRows
        /\ \A s \in SessionRows : /\ session'[s].user = session[s].user
                                  /\ session[s].revoked # None => session'[s].revoked # None
        /\ OneUsableTokenPerFamily' /\ ReplayKillsFamily' /\ ResetKillsFamily'
    BY <1>0, <1>8, RevokeKeepsPromises DEF RevokeDevice
  <2>2. BannedHasNoSession'
    BY <1>8, <2>1 DEF RevokeDevice, SerialInv, Promises, BannedHasNoSession
  <2>3. device' = [device EXCEPT ![d].revoked = TRUE] /\ device \in [Devices -> DeviceRow]
    BY <1>8 DEF RevokeDevice, SerialInv, IInv, TypeOK
  <2>4. \A e \in Devices : /\ device'[e].user = device[e].user
                           /\ device'[e].agent = device[e].agent
                           /\ ~device'[e].revoked => ~device[e].revoked
    BY <2>3 DEF DeviceRow
  <2>5. OneDevicePerAgent'
    BY <2>4 DEF SerialInv, Promises, OneDevicePerAgent, DeviceRows
  <2>6. QED
    BY <2>1, <2>2, <2>5 DEF Promises
\* A ban revokes what its user owns in the transaction that bans him.
<1>9. ASSUME NEW u \in Users, NEW action \in {"suspend", "ban"}, Sanction(u, action)
      PROVE  Promises'
  <2>1. /\ SessionRows' = SessionRows
        /\ \A s \in SessionRows : /\ session'[s].user = session[s].user
                                  /\ session[s].revoked # None \/ s \in OwnedBy(u)
                                       => session'[s].revoked # None
        /\ OneUsableTokenPerFamily' /\ ReplayKillsFamily' /\ ResetKillsFamily'
    BY <1>0, <1>9, RevokeKeepsPromises DEF Sanction
  <2>2. \A v \in Users \ {u} : account'[v] = account[v]
    BY <1>9 DEF Sanction, SerialInv, IInv, TypeOK
  <2>3. \A s \in SessionRows : session[s].user \in Users
    BY DEF SerialInv, IInv, TypeOK, SessionRow, SessionRows
  <2>4. BannedHasNoSession'
    <3> SUFFICES ASSUME NEW s \in SessionRows, account'[session[s].user] = "banned"
                 PROVE  session'[s].revoked # None
      BY <2>1 DEF BannedHasNoSession
    <3>1. CASE session[s].user = u
      BY <2>1, <3>1 DEF OwnedBy
    <3>2. CASE session[s].user # u
      BY <2>1, <2>2, <2>3, <3>2 DEF SerialInv, Promises, BannedHasNoSession
    <3>3. QED
      BY <3>1, <3>2
  <2>5. OneDevicePerAgent'
    BY <1>9 DEF Sanction, SerialInv, Promises, OneDevicePerAgent, DeviceRows
  <2>6. QED
    BY <2>1, <2>4, <2>5 DEF Promises
<1>10. QED
  BY <1>3, <1>5, <1>6, <1>7, <1>8, <1>9 DEF Revocation

\* Time lifts no ban, whoever is in flight.
LEMMA SerialLapse ==
  ASSUME SerialInv, IInv', NEW u \in Users, SuspensionLapses(u)
  PROVE  SerialInv'
<1>1. /\ UNCHANGED <<device, session, known, req>>
      /\ \A v \in Users : account'[v] = "banned" <=> account[v] = "banned"
  BY DEF SuspensionLapses, SerialInv, IInv, TypeOK
<1>2. \A s \in SessionRows : session[s].user \in Users
  BY DEF SerialInv, IInv, TypeOK, SessionRow, SessionRows
<1>3. Promises'
  BY <1>1, <1>2 DEF SerialInv, Promises, OneUsableTokenPerFamily, ReplayKillsFamily,
     BannedHasNoSession, ResetKillsFamily, OneDevicePerAgent, Usable, Fresh,
     SessionRows, DeviceRows
<1>4. ASSUME NEW r \in Reqs PROVE Current(req[r])'
  <2>1. req[r].at \in {"device_find", "device_insert"} => req[r].user \in Users
    BY DEF SerialInv, IInv, RequestInv, Coherent
  <2>2. req[r].at = "issue" => req[r].user \in Users
    BY DEF SerialInv, IInv, RequestInv, Coherent
  <2>3. Current(req[r])
    BY DEF SerialInv
  <2>4. QED
    BY <1>1, <2>1, <2>2, <2>3 DEF Current, Spared, Family, Usable, Fresh, SessionRows,
                                  DeviceRows
<1>5. OneAtATime'
  BY <1>1 DEF SerialInv, OneAtATime
<1>6. QED
  BY <1>3, <1>4, <1>5 DEF SerialInv

LEMMA SerialInductive == SerialInv /\ [SerialNext]_vars => SerialInv'
<1> SUFFICES ASSUME SerialInv, [SerialNext]_vars
             PROVE  SerialInv'
  OBVIOUS
<1>1. IInv'
  BY SerialStepIInv
<1>2. ASSUME NEW r \in Reqs, AllIdle(Reqs \ {r}), Continue(r)
      PROVE  SerialInv'
  BY <1>1, <1>2, SerialRegister, SerialDeviceFind, SerialDeviceInsert, SerialReplay,
     SerialIssue, SerialMark, SerialReply DEF Continue
<1>3. ASSUME NEW r \in Reqs, AllIdle(Reqs \ {r}), Abort(r)
      PROVE  SerialInv'
  BY <1>1, <1>3, SerialFinish DEF Abort
<1>4. CASE UNCHANGED vars
  <2>1. Promises'
    BY <1>4, PromisesStay DEF SerialInv, vars
  <2>2. OneAtATime' /\ \A r \in Reqs : Current(req[r])'
    BY <1>4 DEF vars, SerialInv, OneAtATime, Current, Spared, Family, Usable, Fresh,
                SessionRows, DeviceRows
  <2>3. QED
    BY <1>1, <2>1, <2>2 DEF SerialInv
<1>5. QED
  BY <1>1, <1>2, <1>3, <1>4, SerialArrive, SerialRevocation, SerialLapse DEF SerialNext

LEMMA SerialInit == HistoryInit => SerialInv
<1> SUFFICES ASSUME HistoryInit PROVE SerialInv
  OBVIOUS
<1>1. IInv
  BY InitIInv DEF HistoryInit
<1>2. /\ \A s \in SessionIds : session[s] = NoSession
      /\ \A d \in Devices : device[d] = NoDevice
      /\ \A r \in Reqs : req[r] = Idle
      /\ known = {}
  BY DEF HistoryInit, Init
<1>3. SessionRows = {} /\ DeviceRows = {}
  BY <1>2 DEF SessionRows, DeviceRows, NoSession, NoDevice
<1>4. Promises
  BY <1>2, <1>3 DEF Promises, OneUsableTokenPerFamily, ReplayKillsFamily,
     BannedHasNoSession, ResetKillsFamily, OneDevicePerAgent
<1>5. OneAtATime /\ \A r \in Reqs : Current(req[r])
  BY <1>2 DEF OneAtATime, Current, Idle, InFlight, Issuing
<1>6. QED
  BY <1>1, <1>4, <1>5 DEF SerialInv

\* While no two handlers have overlapped, what a handler has read stays so until
\* it writes.
THEOREM SerialInvariance == HistorySpec => [](serial => SerialInv)
<1>1. HistoryInit => (serial => SerialInv)
  BY SerialInit
<1>2. (serial => SerialInv) /\ [HistoryNext]_<<vars, serial>>
        => (serial => SerialInv)'
  <2> SUFFICES ASSUME serial => SerialInv, [HistoryNext]_<<vars, serial>>, serial'
               PROVE  SerialInv'
    OBVIOUS
  <2>1. serial /\ [SerialNext]_vars
    BY DEF HistoryNext
  <2>2. QED
    BY <2>1, SerialInductive
<1>3. QED
  BY <1>1, <1>2, PTL DEF HistorySpec

\* What the comments of auth.service.ts, moderation.service.ts and password-
\* reset.service.ts promise of refresh tokens, replays, resets, bans and devices is
\* kept as long as no two handlers have overlapped.
THEOREM PromisesCorrect == HistorySpec => []PromisesKept
<1>1. (serial => SerialInv) => PromisesKept
  BY DEF SerialInv, PromisesKept
<1>2. QED
  BY <1>1, SerialInvariance, PTL

-----------------------------------------------------------------------------
(***************************************************************************)
(* The client: WebClient, Capture and Page.                                *)
(***************************************************************************)

\* WebTypeOK without the bound on refreshes, which follows from WireOK.
WebTyped ==
  /\ cookie \in Tokens \cup {NoToken}
  /\ past \in [clean : BOOLEAN, killed : BOOLEAN, out : BOOLEAN]
  /\ row \in [Tokens -> [st : {"none", "live", "rotated", "dead"}, fam : Tokens]]
  /\ page \in [status : {"loading", "anon", "authed"}, access : {"none", "good", "stale"},
               refreshing : {"no", "asked", "true", "false"}]
  /\ call \in [Calls -> [at : {"idle", "measure", "sent", "wait", "again",
                               "me", "me_wait", "me_again"}, good : BOOLEAN]]

\* With one refresh under way at a time, the cardinality in WebTypeOK is met.
LEMMA TypedSplit ==
  ASSUME WireOK
  PROVE  WebTypeOK <=> WebTyped
<1> DEFINE S == {w \in Awaiting : wire[w].kind = "refresh"}
<1>1. \A v, w \in S : v = w
  BY DEF WireOK
<1> HIDE DEF S
<1>2. Cardinality(S) <= 1
  <2>1. CASE S = {}
    BY <2>1, FS_EmptySet
  <2>2. CASE S # {}
    <3>1. PICK w \in S : TRUE
      BY <2>2
    <3>2. S = {w}
      BY <1>1, <3>1
    <3> QED
      BY <3>2, FS_Singleton
  <2> QED
    BY <2>1, <2>2
<1> QED
  BY <1>2 DEF WebTypeOK, WebTyped, S

\* A wire carries a request or nothing.
LEMMA WireFacts ==
  ASSUME WireOK, NEW w \in Wires
  PROVE  /\ wire[w].at \in {"none", "asked", "answered"}
         /\ wire[w].at # "none" => wire[w] \in Packet
         /\ wire[w].at = "none" => wire[w] = Unused
  BY DEF WireOK, Packet, Unused

\* What WebInv says of a clean client.
CleanInv == past.clean => ~past.killed /\ OneRequest /\ InHand /\ SignedOut

\* The invariant in the three parts that the lemmas on the actions prove.
LEMMA WebInvSplit == WebInv <=> WebTyped /\ WireOK /\ CleanInv
  BY TypedSplit DEF WebInv, CleanInv

\* The same after a step.
LEMMA WebInvSplitNext == WebInv' <=> WebTyped' /\ WireOK' /\ CleanInv'
  BY WebInvSplit, PTL

\* A first visit has no session, and nothing is on the wire.
LEMMA WebInitInv == WebInit => WebInv
<1> SUFFICES ASSUME WebInit PROVE WebInv
  OBVIOUS
<1>1. WebTyped
  BY DEF WebInit, WebTyped, NewPage, NoCall
<1>2. \A w \in Wires : wire[w] = Unused /\ wire[w].at = "none"
  BY DEF WebInit, Unused
<1>3. WireOK
  BY <1>2 DEF WebInit, WireOK, Awaiting, Gives
<1>4. CleanInv
  BY <1>2, NoTokenIsNone
     DEF WebInit, CleanInv, OneRequest, InHand, SignedOut, OnTheWire, Gives, Spent,
         NoneLive
<1> QED
  BY <1>1, <1>3, <1>4, WebInvSplit

\* A fetch leaves the calls well-formed.
LEMMA FetchTyped ==
  ASSUME WebTyped, NEW c \in Calls, NEW at \in {"sent", "again", "me", "me_again"},
         Fetch(c, at)
  PROVE  call' \in [Calls -> [at : {"idle", "measure", "sent", "wait", "again",
                                    "me", "me_wait", "me_again"}, good : BOOLEAN]]
  BY DEF Fetch, WebTyped

\* A step that touches calls and the page's access token alone keeps the invariant,
\* as it speaks of neither.
LEMMA CallsOnly ==
  ASSUME WebInv, UNCHANGED <<cookie, row, wire, past>>, WebTyped',
         page'.status = page.status,
         page.refreshing = "asked" => page'.refreshing = "asked"
  PROVE  WebInv'
<1>1. WireOK /\ CleanInv
  BY WebInvSplit
<1>2. WireOK'
  BY <1>1 DEF WireOK, Awaiting, Gives
<1>3. CleanInv'
  BY <1>1 DEF CleanInv, OneRequest, InHand, SignedOut, OnTheWire, Gives, Spent, NoneLive
<1>4. WebTypeOK'
  <2>1. WebTypeOK
    BY DEF WebInv
  <2> QED
    BY <2>1 DEF WebTypeOK, WebTyped, Awaiting
<1> QED
  BY <1>2, <1>3, <1>4 DEF WebInv, CleanInv

\* A screen starts a call, or an upload measures its file first.
LEMMA BeginKept ==
  ASSUME WebInv, NEW c \in Calls, Begin(c)
  PROVE  WebInv'
<1>1. WebTyped
  BY WebInvSplit
<1>2. WebTyped'
  BY <1>1, FetchTyped DEF Begin, WebTyped
<1> QED
  BY <1>2, CallsOnly DEF Begin

\* The steps of an upload, and /users/me: no refresh is asked for.
LEMMA MeasuredKept ==
  ASSUME WebInv, NEW c \in Calls,
         Measured(c) \/ UploadUnauthorised(c) \/ MeAnswered(c)
  PROVE  WebInv'
<1>1. WebTyped
  BY WebInvSplit
<1>2. WebTyped' /\ UNCHANGED <<cookie, row, page, wire, past>>
  BY <1>1, FetchTyped DEF Measured, UploadUnauthorised, MeAnswered, WebTyped
<1> QED
  BY <1>2, CallsOnly

\* The answer that ends a call.
LEMMA AnsweredKept ==
  ASSUME WebInv, NEW c \in Calls, NEW ok \in BOOLEAN, Answered(c, ok)
  PROVE  WebInv'
<1>1. WebTyped
  BY WebInvSplit
<1>2. WebTyped'
  BY <1>1 DEF Answered, WebTyped, NoCall
<1> QED
  BY <1>2, CallsOnly DEF Answered

\* A request that the page itself sends, while nothing else carries the cookie if the
\* client is still clean.
LEMMA SendsKept ==
  ASSUME WebInv, NEW w \in Wires, NEW kind \in {"refresh", "login", "logout"},
         Sends(w, kind), UNCHANGED <<cookie, row>>, WebTyped',
         page'.status = page.status,
         page.refreshing = "asked" => page'.refreshing = "asked",
         kind = "refresh" => page.refreshing # "asked" /\ page'.refreshing = "asked",
         kind = "login" => page.status = "anon" /\ ~past'.out,
         past'.clean => past.clean /\ OnTheWire = {} /\ past'.killed = past.killed,
         past'.out => past.out
  PROVE  WebInv'
<1>1. WireOK /\ CleanInv /\ WebTyped
  BY WebInvSplit
<1> DEFINE p == [at |-> "asked", kind |-> kind, token |-> cookie,
                 new |-> NoToken, ok |-> FALSE, mine |-> TRUE]
<1>2. /\ p \in Packet /\ p.at = "asked" /\ p.kind = kind /\ p.token = cookie /\ p.mine
      /\ wire' = [wire EXCEPT ![w] = p]
  BY <1>1 DEF Sends, Packet, WebTyped
<1> HIDE DEF p
<1>3. /\ wire'[w] = p /\ ~Gives(w)' /\ w \in Awaiting' /\ w \in OnTheWire'
      /\ \A v \in Wires : v # w => wire'[v] = wire[v]
  BY <1>1, <1>2 DEF WireOK, Gives, Awaiting, OnTheWire
<1>4. WireOK'
  <2>1. wire' \in [Wires -> Packet \cup {Unused}]
    BY <1>1, <1>2 DEF WireOK
  <2>2. \A v \in Wires : Gives(v)' => wire'[v].new \in Tokens
    BY <1>1, <1>3 DEF WireOK, Gives
  <2>3. \A v \in Awaiting' : v # w => v \in Awaiting /\ wire'[v] = wire[v]
    BY <1>3 DEF Awaiting
  <2>4. \A v \in Awaiting' : wire'[v].kind = "refresh" => page'.refreshing = "asked"
    BY <1>1, <1>2, <1>3, <2>3 DEF WireOK
  <2>5. \A u, v \in Awaiting' :
          wire'[u].kind = "refresh" /\ wire'[v].kind = "refresh" => u = v
    BY <1>1, <1>2, <1>3, <2>3 DEF WireOK
  <2> QED
    BY <2>1, <2>2, <2>4, <2>5 DEF WireOK
<1>5. ASSUME past'.clean
      PROVE  ~past'.killed /\ OneRequest' /\ InHand' /\ SignedOut'
  <2>1. /\ past.clean /\ ~past.killed /\ InHand /\ SignedOut
        /\ past'.killed = past.killed /\ (past'.out => past.out)
    BY <1>1, <1>5 DEF CleanInv
  <2>2. \A v \in Wires : v # w => wire'[v].at = "none"
    BY <1>3, <1>5 DEF OnTheWire
  <2>3. OnTheWire' = {w} /\ \A v \in Wires : ~Gives(v) /\ ~Gives(v)'
    BY <1>3, <1>5, <2>2 DEF OnTheWire, Gives
  <2>4. OneRequest'
    BY <1>2, <1>3, <2>3 DEF OneRequest
  <2>5. InHand'
    BY <2>1, <2>3 DEF InHand, Spent
  <2>6. SignedOut'
    BY <1>2, <1>3, <2>1, <2>3 DEF SignedOut, Spent, NoneLive
  <2> QED
    BY <2>1, <2>4, <2>5, <2>6
<1> QED
  BY <1>4, <1>5, WebInvSplitNext DEF CleanInv

\* tryRefresh: a call joins the refresh under way, or starts the only one.
LEMMA JoinKept ==
  ASSUME WebInv, NEW c \in Calls,
         NEW waits \in {"wait", "me_wait"}, NEW retry \in {"again", "me_again"},
         NEW gives \in {"idle", "again"},
         Join(c, waits, retry, gives), UNCHANGED <<cookie, row>>
  PROVE  WebInv'
<1>1. WebTyped /\ WireOK /\ CleanInv
  BY WebInvSplit
<1>2. CASE /\ page.refreshing = "no"
           /\ \E w \in Wires : Sends(w, "refresh")
           /\ call' = [call EXCEPT ![c].at = waits]
           /\ page' = [page EXCEPT !.refreshing = "asked"]
           /\ Clean(Refreshes)
  <2>1. PICK w \in Wires : Sends(w, "refresh")
    BY <1>2
  <2>2. /\ past'.clean = (past.clean /\ Refreshes) /\ past'.killed = past.killed
        /\ past'.out = past.out
        /\ past' \in [clean : BOOLEAN, killed : BOOLEAN, out : BOOLEAN]
    <3>1. past' = [past EXCEPT !.clean = past.clean /\ Refreshes] /\ Refreshes \in BOOLEAN
      BY <1>2 DEF Clean, Refreshes
    <3>2. past \in [clean : BOOLEAN, killed : BOOLEAN, out : BOOLEAN]
      BY <1>1 DEF WebTyped
    <3> QED
      BY <3>1, <3>2
  <2>3. WebTyped' /\ page'.status = page.status /\ page'.refreshing = "asked"
    BY <1>1, <1>2, <2>2 DEF WebTyped
  <2>4. ASSUME Refreshes PROVE OnTheWire = {}
    BY <1>1, <1>2, <2>4 DEF Refreshes, OnTheWire, Awaiting, WireOK
  <2> QED
    BY <1>2, <2>1, <2>2, <2>3, <2>4, SendsKept
<1>3. CASE /\ page.refreshing = "asked"
           /\ call' = [call EXCEPT ![c].at = waits]
           /\ UNCHANGED <<page, wire, past>>
  <2>1. WebTyped'
    BY <1>1, <1>3 DEF WebTyped
  <2> QED
    BY <1>3, <2>1, CallsOnly
<1>4. CASE Fetch(c, retry) /\ UNCHANGED <<page, wire, past>>
  <2>1. WebTyped'
    BY <1>1, <1>4, FetchTyped DEF WebTyped
  <2> QED
    BY <1>4, <2>1, CallsOnly
<1>5. CASE /\ IF gives = "idle" THEN call' = [call EXCEPT ![c] = NoCall] ELSE Fetch(c, gives)
           /\ UNCHANGED <<page, wire, past>>
  <2>1. CASE gives = "idle"
    <3>1. call' = [call EXCEPT ![c] = NoCall] /\ UNCHANGED <<page, wire, past>>
      BY <1>5, <2>1
    <3>2. WebTyped'
      BY <1>1, <3>1 DEF WebTyped, NoCall
    <3> QED
      BY <3>1, <3>2, CallsOnly
  <2>2. CASE gives = "again"
    <3>1. WebTyped'
      BY <1>1, <1>5, <2>2, FetchTyped DEF WebTyped
    <3> QED
      BY <1>5, <3>1, CallsOnly
  <2> QED
    BY <2>1, <2>2
<1> QED
  BY <1>2, <1>3, <1>4, <1>5 DEF Join

\* A 401 makes the call join a refresh or give up.
LEMMA UnauthorisedKept ==
  ASSUME WebInv, NEW c \in Calls, Unauthorised(c)
  PROVE  WebInv'
<1>1. CASE QueryUnauthorised(c)
  BY <1>1, JoinKept DEF QueryUnauthorised
<1>2. CASE MeUnauthorised(c)
  BY <1>2, JoinKept DEF MeUnauthorised
<1> QED
  BY <1>1, <1>2, MeasuredKept DEF Unauthorised

\* login() from the signed-out page.
LEMMA SignInKept ==
  ASSUME WebInv, NEW w \in Wires, SignIn(w)
  PROVE  WebInv'
<1>1. WebTyped
  BY WebInvSplit
<1>2. past' = [past EXCEPT !.clean = past.clean /\ WireIdle, !.out = FALSE] /\ WireIdle \in BOOLEAN
  BY DEF SignIn, WireIdle
<1>3. /\ past'.clean = (past.clean /\ WireIdle) /\ past'.killed = past.killed /\ ~past'.out
      /\ past' \in [clean : BOOLEAN, killed : BOOLEAN, out : BOOLEAN]
  BY <1>1, <1>2 DEF WebTyped
<1>4. WebTyped'
  BY <1>1, <1>3 DEF WebTyped, SignIn
<1> QED
  BY <1>3, <1>4, SendsKept DEF SignIn, WireIdle

\* logout() over whatever the server still holds.
LEMMA SignOutKept ==
  ASSUME WebInv, NEW w \in Wires, SignOut(w)
  PROVE  WebInv'
<1>1. WebTyped
  BY WebInvSplit
<1>2. past' = [past EXCEPT !.clean = past.clean /\ WireIdle] /\ WireIdle \in BOOLEAN
  BY DEF SignOut, Clean, WireIdle
<1>3. /\ past'.clean = (past.clean /\ WireIdle) /\ past'.killed = past.killed
      /\ past'.out = past.out
      /\ past' \in [clean : BOOLEAN, killed : BOOLEAN, out : BOOLEAN]
  BY <1>1, <1>2 DEF WebTyped
<1>4. WebTyped'
  BY <1>1, <1>3 DEF WebTyped, SignOut
<1> QED
  BY <1>3, <1>4, SendsKept DEF SignOut, WireIdle

\* Loading the page asks for the session that the cookie names; requests of the page
\* before it remain on the wire as nobody's, and the client is clean only if there
\* were none.
LEMMA LoadKept ==
  ASSUME WebInv, NEW w \in Wires, Load(w)
  PROVE  WebInv'
<1>1. WebTyped /\ WireOK /\ CleanInv
  BY WebInvSplit
<1>2. past' = [past EXCEPT !.clean = past.clean /\ WireIdle] /\ WireIdle \in BOOLEAN
  BY DEF Load, Clean, WireIdle
<1>3. /\ past'.clean = (past.clean /\ WireIdle) /\ past'.killed = past.killed
      /\ past'.out = past.out
      /\ past' \in [clean : BOOLEAN, killed : BOOLEAN, out : BOOLEAN]
  BY <1>1, <1>2 DEF WebTyped
<1>4. WebTyped' /\ page'.status = "loading"
  BY <1>1, <1>3 DEF WebTyped, Load, NewPage, NoCall
<1> DEFINE p == [at |-> "asked", kind |-> "restore", token |-> cookie,
                 new |-> NoToken, ok |-> FALSE, mine |-> TRUE]
<1>5. /\ p \in Packet /\ p.at = "asked" /\ p.kind = "restore" /\ p.token = cookie /\ p.mine
      /\ wire' = [v \in Wires |-> IF v = w THEN p
                                  ELSE IF wire[v].at = "none" THEN Unused
                                  ELSE [wire[v] EXCEPT !.mine = FALSE]]
  BY <1>1 DEF Load, Packet, WebTyped
<1> HIDE DEF p
<1>6. ASSUME NEW v \in Wires, v # w, wire[v].at # "none"
      PROVE  /\ wire'[v] \in Packet /\ ~wire'[v].mine
             /\ wire'[v].at = wire[v].at /\ wire'[v].ok = wire[v].ok
             /\ wire'[v].kind = wire[v].kind /\ wire'[v].new = wire[v].new
  <2>1. wire[v] \in Packet
    BY <1>1, <1>6, WireFacts
  <2>2. wire'[v] = [wire[v] EXCEPT !.mine = FALSE]
    BY <1>5, <1>6
  <2> QED
    BY <2>1, <2>2 DEF Packet
<1>7. wire'[w] = p /\ \A v \in Wires : v # w /\ wire[v].at = "none" => wire'[v] = Unused
  BY <1>5
<1>8. WireOK'
  <2>1. wire' \in [Wires -> Packet \cup {Unused}]
    <3>1. \A v \in Wires : wire'[v] \in Packet \cup {Unused}
      BY <1>5, <1>6, <1>7
    <3>2. wire' = [v \in Wires |-> wire'[v]]
      BY <1>5
    <3> QED
      BY <3>1, <3>2
  <2>2. \A v \in Wires : Gives(v)' => wire'[v].new \in Tokens
    BY <1>1, <1>5, <1>6, <1>7 DEF WireOK, Gives, Unused
  <2>3. \A v \in Awaiting' : v = w
    BY <1>6, <1>7 DEF Awaiting, Unused
  <2> QED
    BY <1>5, <1>7, <2>1, <2>2, <2>3 DEF WireOK
<1>9. ASSUME past'.clean
      PROVE  ~past'.killed /\ OneRequest' /\ InHand' /\ SignedOut'
  <2>1. /\ past.clean /\ ~past.killed /\ InHand /\ SignedOut /\ OnTheWire = {}
    BY <1>1, <1>3, <1>9 DEF CleanInv, WireIdle
  <2>2. \A v \in Wires : v # w => wire'[v].at = "none"
    BY <1>7, <2>1 DEF OnTheWire, Unused
  <2>3. OnTheWire' = {w} /\ \A v \in Wires : ~Gives(v) /\ ~Gives(v)'
    BY <1>5, <1>7, <2>1, <2>2 DEF OnTheWire, Gives
  <2>4. UNCHANGED <<cookie, row>>
    BY DEF Load
  <2>5. OneRequest'
    BY <1>5, <1>7, <2>3, <2>4 DEF OneRequest
  <2>6. InHand'
    BY <2>1, <2>3, <2>4 DEF InHand, Spent
  <2>7. SignedOut'
    BY <1>3, <1>4, <1>5, <1>7, <2>1, <2>3, <2>4 DEF SignedOut, Spent, NoneLive
  <2> QED
    BY <1>3, <2>1, <2>5, <2>6, <2>7
<1> QED
  BY <1>4, <1>8, <1>9, WebInvSplitNext DEF CleanInv

\* The refresh is forgotten once settled, and an access token grows stale: nothing
\* that the invariant tells apart.
LEMMA ClearRefreshKept ==
  ASSUME WebInv, ClearRefresh \/ AccessExpires
  PROVE  WebInv'
<1>1. WebTyped
  BY WebInvSplit
<1>2. WebTyped'
  <2>1. CASE ClearRefresh
    BY <1>1, <2>1 DEF ClearRefresh, WebTyped
  <2>2. CASE AccessExpires
    <3> DEFINE R == [at : {"idle", "measure", "sent", "wait", "again",
                           "me", "me_wait", "me_again"}, good : BOOLEAN]
    <3>1. \A x \in R : [x EXCEPT !.good = FALSE] \in R
      OBVIOUS
    <3>2. call \in [Calls -> R] /\ call' = [c \in Calls |-> [call[c] EXCEPT !.good = FALSE]]
      BY <1>1, <2>2 DEF WebTyped, AccessExpires
    <3> HIDE DEF R
    <3>3. call' \in [Calls -> R]
      BY <3>1, <3>2
    <3> QED
      BY <1>1, <2>2, <3>3 DEF AccessExpires, WebTyped, R
  <2> QED
    BY <2>1, <2>2
<1>3. /\ page'.status = page.status /\ (page.refreshing = "asked" => page'.refreshing = "asked")
      /\ UNCHANGED <<cookie, row, wire, past>>
  BY <1>1 DEF ClearRefresh, AccessExpires, WebTyped
<1> QED
  BY <1>2, <1>3, CallsOnly

\* What issueTokens mints is not in the browser's hands, nor, for a clean client, in
\* the database as live.
LEMMA NewTokenFacts ==
  ASSUME WebTyped, Spare # {}
  PROVE  /\ NewToken \in Tokens /\ NewToken # cookie
         /\ \A w \in OnTheWire : NewToken # wire[w].token /\ NewToken # wire[w].new
         /\ past.clean => row[NewToken].st # "live"
<1>1. NewToken \in Spare
  BY DEF NewToken
<1>2. NewToken \in Tokens /\ NewToken \notin Held /\ (past.clean => row[NewToken].st # "live")
  BY <1>1 DEF Spare
<1> QED
  BY <1>2 DEF Held

\* There is a family for a login to start: of finitely many tokens, the cookie's
\* family or another one is free.
LEMMA NewFamilyType ==
  ASSUME WebTyped, Spare # {}
  PROVE  NewFamily \in Tokens
<1>1. NewToken \in Tokens
  BY NewTokenFacts
<1> DEFINE R == Tokens \ {NewToken}
           f == [t \in R |-> row[t].fam]
           free(g) == \A t \in R : row[t].st = "none" \/ row[t].fam # g
<1>2. ASSUME \A g \in Tokens : ~free(g) PROVE FALSE
  <2>1. f \in Surjection(R, Tokens)
    BY <1>2 DEF Surjection, WebTyped
  <2>2. IsFiniteSet(R) /\ Cardinality(R) = Cardinality(Tokens) - 1
    BY <1>1, TokensAreFinite, FS_RemoveElement
  <2>3. Cardinality(Tokens) <= Cardinality(R)
    BY <2>1, <2>2, FS_Surjection
  <2>4. Cardinality(Tokens) \in Nat
    BY TokensAreFinite, FS_CardinalityType
  <2> QED
    BY <2>2, <2>3, <2>4
<1>3. NewFamily = CHOOSE g \in Tokens : free(g)
  BY DEF NewFamily
<1> QED
  BY <1>2, <1>3

\* A step of the server keeps the wire well-formed.
LEMMA AnswerWire ==
  ASSUME WebInv, NEW w \in Wires, wire[w].at = "asked",
         NEW new \in Tokens \cup {NoToken}, NEW ok \in BOOLEAN, Answer(w, new, ok),
         wire[w].kind # "logout" /\ ok => new \in Tokens,
         UNCHANGED page
  PROVE  /\ WireOK' /\ OnTheWire' = OnTheWire /\ w \in OnTheWire
         /\ wire[w] \in Packet /\ wire'[w] \in Packet
         /\ wire'[w].at = "answered" /\ wire'[w].new = new /\ wire'[w].ok = ok
         /\ wire'[w].kind = wire[w].kind /\ wire'[w].token = wire[w].token
         /\ wire'[w].mine = wire[w].mine
         /\ \A v \in Wires : v # w => wire'[v] = wire[v]
         /\ OneRequest => OnTheWire = {w} /\ wire[w].token = cookie
         /\ OneRequest /\ UNCHANGED cookie =>
              /\ OneRequest' /\ \A v \in Wires : ~Gives(v)
              /\ \A v \in Wires : Gives(v)' => v = w
<1>1. WireOK /\ wire[w] \in Packet
  BY WebInvSplit, WireFacts
<1>2. wire' = [wire EXCEPT ![w].at = "answered", ![w].new = new, ![w].ok = ok]
  BY DEF Answer
<1>3. /\ wire'[w] = [wire[w] EXCEPT !.at = "answered", !.new = new, !.ok = ok]
      /\ \A v \in Wires : v # w => wire'[v] = wire[v]
  BY <1>1, <1>2 DEF WireOK
<1>4. /\ wire'[w] \in Packet
      /\ wire'[w].at = "answered" /\ wire'[w].new = new /\ wire'[w].ok = ok
      /\ wire'[w].kind = wire[w].kind /\ wire'[w].token = wire[w].token
      /\ wire'[w].mine = wire[w].mine
  BY <1>1, <1>3 DEF Packet
<1>5. OnTheWire' = OnTheWire /\ w \in OnTheWire /\ Awaiting' = Awaiting
  <2>1. \A v \in Wires : wire'[v].at # "none" <=> wire[v].at # "none"
    BY <1>3, <1>4
  <2>2. OnTheWire' = OnTheWire /\ w \in OnTheWire
    BY <2>1 DEF OnTheWire
  <2>3. \A v \in Wires : wire'[v].mine = wire[v].mine
    BY <1>3, <1>4
  <2>4. \A v \in Wires : v \in Awaiting' <=> v \in Awaiting
    BY <2>1, <2>3, Zenon DEF Awaiting
  <2>5. Awaiting' = Awaiting
    BY <2>4, Zenon DEF Awaiting
  <2> QED
    BY <2>2, <2>5
<1>6. WireOK'
  <2>1. wire' \in [Wires -> Packet \cup {Unused}]
    <3>1. \A v \in Wires : wire'[v] \in Packet \cup {Unused}
      BY <1>1, <1>3, <1>4 DEF WireOK
    <3>2. wire' = [v \in Wires |-> wire'[v]]
      BY <1>1, <1>2 DEF WireOK
    <3> QED
      BY <3>1, <3>2
  <2>2. \A v \in Wires : Gives(v)' => wire'[v].new \in Tokens
    BY <1>1, <1>3, <1>4 DEF WireOK, Gives
  <2>3. \A v \in Awaiting : wire'[v].kind = wire[v].kind
    BY <1>3, <1>4 DEF Awaiting
  <2> QED
    BY <1>1, <1>5, <2>1, <2>2, <2>3 DEF WireOK
<1>7. OneRequest => OnTheWire = {w} /\ wire[w].token = cookie
  BY <1>5 DEF OneRequest
<1>8. ASSUME OneRequest, UNCHANGED cookie
      PROVE  /\ OneRequest' /\ \A v \in Wires : ~Gives(v)
             /\ \A v \in Wires : Gives(v)' => v = w
  <2>1. OneRequest'
    BY <1>3, <1>4, <1>5, <1>8 DEF OneRequest
  <2>2. \A v \in Wires : v # w => wire[v].at \notin {"asked", "answered"}
    BY <1>7, <1>8 DEF OnTheWire
  <2> QED
    BY <1>3, <2>1, <2>2 DEF Gives
<1> QED
  BY <1>1, <1>3, <1>4, <1>5, <1>6, <1>7, <1>8

\* rotate and login: a new token is inserted, the old one of the request, if any, is
\* dead by then, and the answer carries the new one.
LEMMA MintKept ==
  ASSUME WebInv, NEW w \in Wires, wire[w].at = "asked", wire[w].kind # "logout",
         NEW fam \in Tokens,
         NEW rows \in [Tokens -> [st : {"none", "live", "rotated", "dead"}, fam : Tokens]],
         Mint(w, fam, rows), UNCHANGED <<cookie, page, call, past>>,
         past.clean /\ OneRequest /\ InHand /\ SignedOut =>
           /\ ~past.out /\ (page.status = "anon" => wire[w].kind = "login")
           /\ \A t \in Tokens : rows[t].st # "live"
           /\ cookie \in Tokens /\ rows[cookie].st = "rotated" => wire[w].kind # "login"
  PROVE  WebInv'
<1>1. WebTyped /\ WireOK /\ CleanInv
  BY WebInvSplit
<1>2. /\ NewToken \in Tokens /\ NewToken # cookie
      /\ Answer(w, NewToken, TRUE)
      /\ row' = [rows EXCEPT ![NewToken] = [st |-> "live", fam |-> fam]]
  BY <1>1, NewTokenFacts DEF Mint
<1>3. /\ row'[NewToken].st = "live"
      /\ \A t \in Tokens : t # NewToken => row'[t] = rows[t]
      /\ row' \in [Tokens -> [st : {"none", "live", "rotated", "dead"}, fam : Tokens]]
  BY <1>2
<1>4. /\ WireOK' /\ wire'[w] \in Packet
      /\ wire'[w].at = "answered" /\ wire'[w].new = NewToken /\ wire'[w].ok
      /\ wire'[w].kind = wire[w].kind
      /\ OnTheWire' = OnTheWire
      /\ OneRequest => OnTheWire = {w}
      /\ OneRequest => /\ OneRequest' /\ \A v \in Wires : ~Gives(v)
                       /\ \A v \in Wires : Gives(v)' => v = w
  BY <1>2, AnswerWire
<1>5. WebTyped'
  BY <1>1, <1>3 DEF WebTyped
<1>6. ASSUME past'.clean
      PROVE  ~past'.killed /\ OneRequest' /\ InHand' /\ SignedOut'
  <2>1. past.clean /\ ~past.killed /\ OneRequest /\ InHand /\ SignedOut
    BY <1>1, <1>6 DEF CleanInv
  <2>2. /\ ~past.out /\ (page.status = "anon" => wire[w].kind = "login")
        /\ \A t \in Tokens : rows[t].st # "live"
        /\ cookie \in Tokens /\ rows[cookie].st = "rotated" => wire[w].kind # "login"
    BY <2>1
  <2>3. Gives(w)' /\ \A v \in Wires : Gives(v)' => v = w
    BY <1>4, <2>1 DEF Gives
  <2>4. Spent'
    BY <1>2, <1>3, <2>2 DEF Spent
  <2>5. InHand'
    BY <1>2, <1>3, <1>4, <2>2, <2>3, <2>4 DEF InHand
  <2>6. SignedOut'
    BY <1>4, <2>1, <2>2, <2>3, <2>4 DEF SignedOut
  <2> QED
    BY <1>4, <2>1, <2>5, <2>6
<1> QED
  BY <1>4, <1>5, <1>6, WebInvSplitNext DEF CleanInv

\* refresh of a live token.
LEMMA ServerRotateKept ==
  ASSUME WebInv, NEW w \in Wires, ServerRotate(w)
  PROVE  WebInv'
<1> DEFINE old == wire[w].token
           rows == [row EXCEPT ![old].st = "rotated"]
<1>1. WebTyped /\ WireOK /\ CleanInv
  BY WebInvSplit
<1>2. /\ wire[w].at = "asked" /\ wire[w].kind \in {"restore", "refresh"}
      /\ old # NoToken /\ row[old].st = "live" /\ Mint(w, row[old].fam, rows)
      /\ UNCHANGED <<cookie, page, call, past>>
  BY DEF ServerRotate, Asked
<1>3. old \in Tokens
  BY <1>1, <1>2, WireFacts DEF Packet
<1>4. /\ row[old].fam \in Tokens
      /\ rows \in [Tokens -> [st : {"none", "live", "rotated", "dead"}, fam : Tokens]]
      /\ rows[old].st = "rotated" /\ \A t \in Tokens : t # old => rows[t] = row[t]
  BY <1>1, <1>3 DEF WebTyped
<1> HIDE DEF rows
<1>5. ASSUME past.clean, OneRequest, InHand, SignedOut
      PROVE  /\ ~past.out /\ (page.status = "anon" => wire[w].kind = "login")
             /\ \A t \in Tokens : rows[t].st # "live"
             /\ cookie \in Tokens /\ rows[cookie].st = "rotated" => wire[w].kind # "login"
  <2>1. old = cookie /\ \A v \in Wires : ~Gives(v)
    BY <1>2, <1>5 DEF OneRequest, OnTheWire, Gives
  <2>2. ~past.out /\ page.status # "anon"
    BY <1>2, <1>3, <1>5, <2>1 DEF SignedOut, Spent, NoneLive
  <2>3. \A t \in Tokens : rows[t].st # "live"
    BY <1>4, <1>5, <2>1 DEF InHand
  <2> QED
    BY <1>2, <2>2, <2>3
<1> QED
  BY <1>2, <1>4, <1>5, MintKept

\* login.
LEMMA ServerLoginKept ==
  ASSUME WebInv, NEW w \in Wires, ServerLogin(w)
  PROVE  WebInv'
<1>1. WebTyped /\ WireOK /\ CleanInv
  BY WebInvSplit
<1>2. /\ wire[w].at = "asked" /\ wire[w].kind = "login" /\ Mint(w, NewFamily, row)
      /\ UNCHANGED <<cookie, page, call, past>>
  BY DEF ServerLogin, Asked
<1>3. NewFamily \in Tokens
  BY <1>1, <1>2, NewFamilyType DEF Mint
<1>4. row \in [Tokens -> [st : {"none", "live", "rotated", "dead"}, fam : Tokens]]
  BY <1>1 DEF WebTyped
<1>5. ASSUME past.clean, OneRequest, InHand, SignedOut
      PROVE  /\ ~past.out /\ (page.status = "anon" => wire[w].kind = "login")
             /\ \A t \in Tokens : row[t].st # "live"
             /\ cookie \in Tokens /\ row[cookie].st = "rotated" => wire[w].kind # "login"
  <2>1. w \in OnTheWire /\ \A v \in Wires : ~Gives(v)
    BY <1>2, <1>5 DEF OneRequest, OnTheWire, Gives
  <2>2. ~past.out /\ Spent
    BY <1>2, <1>5, <2>1 DEF SignedOut
  <2>3. \A t \in Tokens : row[t].st # "live"
    BY <1>5, <2>1, <2>2 DEF InHand, Spent
  <2>4. cookie \in Tokens => row[cookie].st # "rotated"
    BY <1>5, <2>1 DEF InHand
  <2> QED
    BY <1>2, <2>2, <2>3, <2>4
<1> QED
  BY <1>2, <1>3, <1>4, <1>5, MintKept

\* An answer that brings no token, after a statement that makes none live.
LEMMA DenyKept ==
  ASSUME WebInv, NEW w \in Wires, wire[w].at = "asked", NEW ok \in BOOLEAN,
         ok => wire[w].kind = "logout",
         Answer(w, NoToken, ok), UNCHANGED <<cookie, page, call>>,
         row' \in [Tokens -> [st : {"none", "live", "rotated", "dead"}, fam : Tokens]],
         \A t \in Tokens : row'[t].st \in {row[t].st, "dead"},
         past' \in [clean : BOOLEAN, killed : BOOLEAN, out : BOOLEAN],
         past'.out = past.out, past'.clean => past.clean,
         past'.clean /\ OneRequest /\ InHand /\ SignedOut =>
           /\ past'.killed = past.killed
           /\ wire[w].kind = "restore" => Spent'
           /\ wire[w].kind = "logout" => NoneLive'
  PROVE  WebInv'
<1>1. WebTyped /\ WireOK /\ CleanInv
  BY WebInvSplit
<1>2. /\ WireOK' /\ wire'[w] \in Packet
      /\ wire'[w].at = "answered" /\ wire'[w].ok = ok /\ wire'[w].kind = wire[w].kind
      /\ OnTheWire' = OnTheWire /\ w \in OnTheWire
      /\ OneRequest => OnTheWire = {w}
      /\ OneRequest => /\ OneRequest' /\ \A v \in Wires : ~Gives(v)
                       /\ \A v \in Wires : Gives(v)' => v = w
  <2>1. wire[w].kind # "logout" /\ ok => NoToken \in Tokens
    OBVIOUS
  <2> QED
    BY <2>1, AnswerWire, SMTT(40)
<1>3. WebTyped'
  BY <1>1 DEF WebTyped
<1>4. ASSUME past'.clean
      PROVE  ~past'.killed /\ OneRequest' /\ InHand' /\ SignedOut'
  <2>1. past.clean /\ ~past.killed /\ OneRequest /\ InHand /\ SignedOut
    BY <1>1, <1>4 DEF CleanInv
  <2>2. /\ past'.killed = past.killed
        /\ wire[w].kind = "restore" => Spent'
        /\ wire[w].kind = "logout" => NoneLive'
    BY <1>4, <2>1
  <2>3. \A v \in Wires : ~Gives(v) /\ ~Gives(v)'
    BY <1>2, <2>1 DEF Gives
  <2>4. (Spent => Spent') /\ (NoneLive => NoneLive')
    BY DEF Spent, NoneLive
  <2>5. InHand'
    BY <2>1, <2>3 DEF InHand
  <2>6. SignedOut'
    BY <1>2, <2>1, <2>2, <2>3, <2>4 DEF SignedOut
  <2> QED
    BY <1>2, <2>1, <2>2, <2>5, <2>6
<1> QED
  BY <1>2, <1>3, <1>4, WebInvSplitNext DEF CleanInv

\* refresh of a rotated token takes the family away; a clean client never sends one.
LEMMA ServerReplayKept ==
  ASSUME WebInv, NEW w \in Wires, ServerReplay(w)
  PROVE  WebInv'
<1> DEFINE old == wire[w].token
<1>1. WebTyped /\ WireOK
  BY WebInvSplit
<1>2. /\ wire[w].at = "asked" /\ wire[w].kind \in {"restore", "refresh"}
      /\ old # NoToken /\ row[old].st \in {"rotated", "dead"}
      /\ row' = [t \in Tokens |->
                   IF row[t].fam = row[old].fam /\ row[t].st # "none"
                     THEN [row[t] EXCEPT !.st = "dead"] ELSE row[t]]
      /\ past' = [past EXCEPT !.killed = past.killed \/ row[old].st = "rotated"]
      /\ Answer(w, NoToken, FALSE) /\ UNCHANGED <<cookie, page, call>>
  BY DEF ServerReplay, Asked
<1>3. old \in Tokens
  BY <1>1, <1>2, WireFacts DEF Packet
<1>4. \A t \in Tokens : /\ row'[t] \in [st : {"none", "live", "rotated", "dead"}, fam : Tokens]
                        /\ row'[t].st \in {row[t].st, "dead"}
  BY <1>1, <1>2 DEF WebTyped
<1>5. /\ row' \in [Tokens -> [st : {"none", "live", "rotated", "dead"}, fam : Tokens]]
      /\ row'[old].st = "dead"
  <2>1. row' \in [Tokens -> [st : {"none", "live", "rotated", "dead"}, fam : Tokens]]
    BY <1>2, <1>4
  <2>2. row'[old] = [row[old] EXCEPT !.st = "dead"]
    BY <1>2, <1>3
  <2>3. row[old] \in [st : {"none", "live", "rotated", "dead"}, fam : Tokens]
    BY <1>1, <1>3 DEF WebTyped
  <2> QED
    BY <2>1, <2>2, <2>3
<1>6. past \in [clean : BOOLEAN, killed : BOOLEAN, out : BOOLEAN]
  BY <1>1 DEF WebTyped
<1>7. /\ past' \in [clean : BOOLEAN, killed : BOOLEAN, out : BOOLEAN]
      /\ past'.out = past.out /\ past'.clean = past.clean
      /\ row[old].st # "rotated" => past'.killed = past.killed
  BY <1>2, <1>6
<1>8. ASSUME OneRequest, InHand
      PROVE  row[old].st # "rotated" /\ Spent'
  <2>1. old = cookie /\ \A v \in Wires : ~Gives(v)
    BY <1>2, <1>8 DEF OneRequest, OnTheWire, Gives
  <2> QED
    BY <1>2, <1>3, <1>5, <1>8, <2>1 DEF InHand, Spent
<1> QED
  BY <1>2, <1>4, <1>5, <1>7, <1>8, DenyKept

\* refresh without a session.
LEMMA ServerRefuseKept ==
  ASSUME WebInv, NEW w \in Wires, ServerRefuse(w)
  PROVE  WebInv'
<1>1. WebTyped
  BY WebInvSplit
<1> DEFINE quiet == wire[w].kind = "restore" => wire[w].token = NoToken
<1>2. /\ wire[w].at = "asked" /\ wire[w].kind \in {"restore", "refresh", "login"}
      /\ Answer(w, NoToken, FALSE) /\ UNCHANGED <<cookie, row, page, call>>
      /\ past' = [past EXCEPT !.clean = past.clean /\ quiet]
  BY DEF ServerRefuse, Asked, Clean
<1>3. /\ past \in [clean : BOOLEAN, killed : BOOLEAN, out : BOOLEAN] /\ quiet \in BOOLEAN
      /\ row \in [Tokens -> [st : {"none", "live", "rotated", "dead"}, fam : Tokens]]
  BY <1>1 DEF WebTyped
<1> HIDE DEF quiet
<1>4. /\ past' \in [clean : BOOLEAN, killed : BOOLEAN, out : BOOLEAN]
      /\ past'.out = past.out /\ past'.killed = past.killed
      /\ past'.clean = (past.clean /\ quiet)
  BY <1>2, <1>3
<1>5. ASSUME quiet, OneRequest, wire[w].kind = "restore"
      PROVE  Spent'
  <2>1. cookie' = NoToken
    BY <1>2, <1>5 DEF OneRequest, OnTheWire, quiet
  <2> QED
    BY <2>1, NoTokenIsNone DEF Spent
<1> QED
  BY <1>2, <1>3, <1>4, <1>5, DenyKept

\* logout revokes the session that the cookie names, which is the only one.
LEMMA ServerLogoutKept ==
  ASSUME WebInv, NEW w \in Wires, ServerLogout(w)
  PROVE  WebInv'
<1> DEFINE old == wire[w].token
<1>1. WebTyped /\ WireOK
  BY WebInvSplit
<1>2. /\ wire[w].at = "asked" /\ wire[w].kind = "logout"
      /\ row' = IF old # NoToken /\ row[old].st = "live"
                  THEN [row EXCEPT ![old].st = "dead"] ELSE row
      /\ Answer(w, NoToken, TRUE) /\ UNCHANGED <<cookie, page, call, past>>
  BY DEF ServerLogout, Asked
<1>3. old \in Tokens \cup {NoToken}
  BY <1>1, <1>2, WireFacts DEF Packet
<1>4. /\ row' \in [Tokens -> [st : {"none", "live", "rotated", "dead"}, fam : Tokens]]
      /\ \A t \in Tokens : row'[t].st \in {row[t].st, "dead"}
      /\ old \in Tokens => row'[old].st # "live"
  BY <1>1, <1>2, <1>3, NoTokenIsNone DEF WebTyped
<1>5. ASSUME OneRequest, InHand PROVE NoneLive'
  <2>1. old = cookie /\ \A v \in Wires : ~Gives(v)
    BY <1>2, <1>5 DEF OneRequest, OnTheWire, Gives
  <2> QED
    BY <1>4, <1>5, <2>1 DEF InHand, NoneLive
<1>6. past \in [clean : BOOLEAN, killed : BOOLEAN, out : BOOLEAN]
  BY <1>1 DEF WebTyped
<1> QED
  BY <1>2, <1>4, <1>5, <1>6, DenyKept

\* A ban, a reset or a replay elsewhere revokes every session of the account.
LEMMA RevokeAllKept ==
  ASSUME WebInv, RevokeAll
  PROVE  WebInv'
<1>1. WebTyped /\ WireOK /\ CleanInv
  BY WebInvSplit
<1>2. /\ row' = [t \in Tokens |-> IF row[t].st = "live" THEN [row[t] EXCEPT !.st = "dead"]
                                                       ELSE row[t]]
      /\ UNCHANGED <<cookie, page, call, wire, past>>
  BY DEF RevokeAll
<1>3. \A t \in Tokens : /\ row'[t] \in [st : {"none", "live", "rotated", "dead"}, fam : Tokens]
                        /\ row'[t].st \in {row[t].st, "dead"} /\ row'[t].st # "live"
  BY <1>1, <1>2 DEF WebTyped
<1>4. WebTyped'
  BY <1>1, <1>2, <1>3 DEF WebTyped
<1>5. WireOK'
  BY <1>1, <1>2 DEF WireOK, Gives, Awaiting
<1>6. CleanInv'
  <2>1. NoneLive' /\ Spent'
    BY <1>3 DEF NoneLive, Spent
  <2>2. OneRequest => OneRequest'
    BY <1>2 DEF OneRequest, OnTheWire
  <2>3. InHand => InHand'
    BY <1>1, <1>2, <1>3, <2>1 DEF InHand, Gives, WireOK
  <2>4. SignedOut => SignedOut'
    BY <1>2, <2>1 DEF SignedOut, Gives, OnTheWire
  <2> QED
    BY <1>1, <1>2, <2>2, <2>3, <2>4 DEF CleanInv
<1> QED
  BY <1>4, <1>5, <1>6, WebInvSplitNext

\* The calls that waited for the refresh go on.
LEMMA ResumedTyped ==
  ASSUME WebTyped, NEW ok \in BOOLEAN
  PROVE  Resumed(ok) \in [Calls -> [at : {"idle", "measure", "sent", "wait", "again",
                                          "me", "me_wait", "me_again"}, good : BOOLEAN]]
<1>1. ASSUME NEW c \in Calls
      PROVE  Resumed(ok)[c] \in [at : {"idle", "measure", "sent", "wait", "again",
                                       "me", "me_wait", "me_again"}, good : BOOLEAN]
  <2>1. call[c] \in [at : {"idle", "measure", "sent", "wait", "again",
                           "me", "me_wait", "me_again"}, good : BOOLEAN]
    BY DEF WebTyped
  <2>2. CASE call[c].at = "wait"
    BY <2>2 DEF Resumed, NoCall
  <2>3. CASE call[c].at = "me_wait"
    BY <2>3 DEF Resumed
  <2>4. CASE call[c].at \notin {"wait", "me_wait"}
    BY <2>1, <2>4 DEF Resumed
  <2> QED
    BY <2>2, <2>3, <2>4
<1> QED
  BY <1>1 DEF Resumed

\* What the page makes of an answer: who it takes itself for, and whether its refresh
\* is over.
LEMMA SettleFacts ==
  ASSUME WebTyped, NEW w \in Wires, wire[w] \in Packet, NEW ok \in BOOLEAN, Settle(w, ok)
  PROVE  /\ page' \in [status : {"loading", "anon", "authed"},
                       access : {"none", "good", "stale"},
                       refreshing : {"no", "asked", "true", "false"}]
         /\ call' \in [Calls -> [at : {"idle", "measure", "sent", "wait", "again",
                                       "me", "me_wait", "me_again"}, good : BOOLEAN]]
         /\ ~(wire[w].mine /\ wire[w].kind = "refresh") => page'.refreshing = page.refreshing
         /\ page'.status = "anon" =>
              \/ page.status = "anon"
              \/ wire[w].kind = "restore" /\ ~ok
              \/ wire[w].kind = "logout"
         /\ wire[w].mine /\ wire[w].kind \in {"restore", "login"} /\ ok =>
              page'.status = "authed"
<1> DEFINE authed(yes) == page' = [page EXCEPT !.status = IF yes THEN "authed" ELSE "anon",
                                              !.access = IF yes THEN "good" ELSE "none"]
<1>1. /\ page \in [status : {"loading", "anon", "authed"}, access : {"none", "good", "stale"},
                   refreshing : {"no", "asked", "true", "false"}]
      /\ call \in [Calls -> [at : {"idle", "measure", "sent", "wait", "again",
                                   "me", "me_wait", "me_again"}, good : BOOLEAN]]
      /\ wire[w].kind \in {"restore", "refresh", "login", "logout"} /\ wire[w].mine \in BOOLEAN
  BY DEF WebTyped, Packet
<1>2. CASE ~wire[w].mine
  BY <1>1, <1>2 DEF Settle
<1>3. CASE wire[w].mine /\ wire[w].kind = "restore"
  <2>1. authed(ok) /\ UNCHANGED call
    BY <1>3 DEF Settle
  <2> QED
    BY <1>1, <1>3, <2>1
<1>4. CASE wire[w].mine /\ wire[w].kind = "login"
  <2>1. (IF ok THEN authed(TRUE) ELSE UNCHANGED page) /\ UNCHANGED call
    BY <1>4 DEF Settle
  <2> QED
    BY <1>1, <1>4, <2>1
<1>5. CASE wire[w].mine /\ wire[w].kind = "logout"
  <2>1. authed(FALSE) /\ UNCHANGED call
    BY <1>5 DEF Settle
  <2> QED
    BY <1>1, <1>5, <2>1
<1>6. CASE wire[w].mine /\ wire[w].kind = "refresh"
  <2>1. /\ page' = [page EXCEPT !.refreshing = IF ok THEN "true" ELSE "false",
                                !.access = IF ok THEN "good" ELSE @]
        /\ call' = Resumed(ok)
    BY <1>6 DEF Settle
  <2> QED
    BY <1>1, <1>6, <2>1, ResumedTyped
<1> QED
  BY <1>1, <1>2, <1>3, <1>4, <1>5, <1>6

\* The wire after an answer has arrived or was lost.
LEMMA WireFreed ==
  ASSUME WebInv, NEW w \in Wires, wire[w].at # "none", wire' = [wire EXCEPT ![w] = Unused],
         ~(wire[w].mine /\ wire[w].kind = "refresh") => page'.refreshing = page.refreshing
  PROVE  /\ WireOK' /\ w \notin OnTheWire' /\ ~Gives(w)'
         /\ \A v \in Wires : v # w => wire'[v] = wire[v]
         /\ OneRequest => OnTheWire = {w} /\ OnTheWire' = {}
<1>1. WireOK
  BY WebInvSplit
<1>2. /\ wire'[w] = Unused /\ wire'[w].at = "none"
      /\ \A v \in Wires : v # w => wire'[v] = wire[v]
  BY <1>1 DEF WireOK, Unused
<1>3. w \notin OnTheWire' /\ ~Gives(w)' /\ w \notin Awaiting'
  BY <1>2 DEF OnTheWire, Gives, Awaiting
<1>4. \A v \in Awaiting' : v \in Awaiting /\ v # w /\ wire'[v] = wire[v]
  BY <1>2, <1>3 DEF Awaiting
<1>5. WireOK'
  <2>1. wire' \in [Wires -> Packet \cup {Unused}]
    BY <1>1 DEF WireOK
  <2>2. \A v \in Wires : Gives(v)' => wire'[v].new \in Tokens
    BY <1>1, <1>2, <1>3 DEF WireOK, Gives
  <2>3. \A v \in Awaiting' : wire'[v].kind = "refresh" => page'.refreshing = "asked"
    <3>1. wire[w].mine => w \in Awaiting
      BY DEF Awaiting
    <3> QED
      BY <1>1, <1>4, <3>1 DEF WireOK
  <2>4. \A u, v \in Awaiting' :
          wire'[u].kind = "refresh" /\ wire'[v].kind = "refresh" => u = v
    BY <1>1, <1>4 DEF WireOK
  <2> QED
    BY <2>1, <2>2, <2>3, <2>4 DEF WireOK
<1>6. OneRequest => OnTheWire = {w} /\ OnTheWire' = {}
  BY <1>2 DEF OneRequest, OnTheWire
<1> QED
  BY <1>2, <1>3, <1>5, <1>6

\* A lost answer: the client is clean no longer if it carried a token.
LEMMA LoseKept ==
  ASSUME WebInv, NEW w \in Wires, Lose(w)
  PROVE  WebInv'
<1>1. WebTyped /\ WireOK
  BY WebInvSplit
<1>2. /\ wire[w].at # "none" /\ Settle(w, FALSE) /\ wire' = [wire EXCEPT ![w] = Unused]
      /\ past' = [past EXCEPT !.clean = FALSE, !.out = past.out \/ SignsOut(w)]
      /\ UNCHANGED <<cookie, row>>
  BY DEF Lose
<1>3. wire[w] \in Packet
  BY <1>1, <1>2, WireFacts
<1>4. /\ past \in [clean : BOOLEAN, killed : BOOLEAN, out : BOOLEAN] /\ SignsOut(w) \in BOOLEAN
  BY <1>1, <1>3 DEF WebTyped, SignsOut, Packet
<1>5. past' \in [clean : BOOLEAN, killed : BOOLEAN, out : BOOLEAN] /\ ~past'.clean
  BY <1>2, <1>4
<1>6. WebTyped'
  BY <1>1, <1>2, <1>3, <1>5, SettleFacts DEF WebTyped
<1>7. WireOK'
  BY <1>1, <1>2, <1>3, SettleFacts, WireFreed
<1> QED
  BY <1>5, <1>6, <1>7, WebInvSplitNext DEF CleanInv

\* An answer arrives: the cookie is set by it, and the page settles.
LEMMA ReceiveKept ==
  ASSUME WebInv, NEW w \in Wires, Receive(w)
  PROVE  WebInv'
<1>1. WebTyped /\ WireOK /\ CleanInv
  BY WebInvSplit
<1>2. /\ wire[w].at = "answered" /\ Settle(w, wire[w].ok)
      /\ wire' = [wire EXCEPT ![w] = Unused]
      /\ cookie' = IF wire[w].kind = "logout" THEN NoToken
                   ELSE IF wire[w].ok THEN wire[w].new ELSE cookie
      /\ past' = [past EXCEPT !.out = past.out \/ SignsOut(w)]
      /\ UNCHANGED row
  BY DEF Receive
<1>3. /\ wire[w] \in Packet /\ wire[w].ok \in BOOLEAN
      /\ wire[w].kind \in {"restore", "refresh", "login", "logout"}
      /\ Gives(w) <=> wire[w].ok /\ wire[w].kind # "logout"
      /\ Gives(w) => wire[w].new \in Tokens
  <2>1. wire[w] \in Packet
    BY <1>1, <1>2, WireFacts
  <2> QED
    BY <1>1, <1>2, <2>1 DEF Packet, Gives, WireOK
<1>4. past \in [clean : BOOLEAN, killed : BOOLEAN, out : BOOLEAN] /\ SignsOut(w) \in BOOLEAN
  BY <1>1, <1>3 DEF WebTyped, SignsOut, Packet
<1>5. /\ past' \in [clean : BOOLEAN, killed : BOOLEAN, out : BOOLEAN]
      /\ past'.clean = past.clean /\ past'.killed = past.killed
      /\ past'.out => past.out \/ wire[w].kind = "logout"
  BY <1>2, <1>4 DEF SignsOut
<1>6. /\ page' \in [status : {"loading", "anon", "authed"}, access : {"none", "good", "stale"},
                    refreshing : {"no", "asked", "true", "false"}]
      /\ call' \in [Calls -> [at : {"idle", "measure", "sent", "wait", "again",
                                    "me", "me_wait", "me_again"}, good : BOOLEAN]]
      /\ ~(wire[w].mine /\ wire[w].kind = "refresh") => page'.refreshing = page.refreshing
      /\ page'.status = "anon" =>
           \/ page.status = "anon"
           \/ wire[w].kind = "restore" /\ ~wire[w].ok
           \/ wire[w].kind = "logout"
      /\ wire[w].mine /\ wire[w].kind \in {"restore", "login"} /\ wire[w].ok =>
           page'.status = "authed"
  BY <1>1, <1>2, <1>3, SettleFacts
<1>7. cookie' \in Tokens \cup {NoToken}
  BY <1>1, <1>2, <1>3 DEF WebTyped
<1>8. WebTyped'
  BY <1>1, <1>2, <1>5, <1>6, <1>7 DEF WebTyped
<1>9. /\ WireOK' /\ w \notin OnTheWire'
      /\ OneRequest => OnTheWire = {w} /\ OnTheWire' = {}
  BY <1>2, <1>6, WireFreed
<1>10. ASSUME past'.clean
       PROVE  ~past'.killed /\ OneRequest' /\ InHand' /\ SignedOut'
  <2>1. past.clean /\ ~past.killed /\ OneRequest /\ InHand /\ SignedOut
    BY <1>1, <1>5, <1>10 DEF CleanInv
  <2>2. /\ OnTheWire' = {} /\ \A v \in Wires : ~Gives(v)'
        /\ \A v \in Wires : Gives(v) => v = w
        /\ w \in OnTheWire /\ wire[w].mine
    <3>1. OnTheWire' = {} /\ OnTheWire = {w}
      BY <1>9, <2>1
    <3>2. \A v \in Wires : Gives(v)' => v \in OnTheWire'
      BY DEF Gives, OnTheWire
    <3>3. \A v \in Wires : Gives(v) => v \in OnTheWire
      BY DEF Gives, OnTheWire
    <3> QED
      BY <2>1, <3>1, <3>2, <3>3 DEF OneRequest
  <2>3. CASE wire[w].kind = "logout"
    <3>1. NoneLive /\ NoneLive' /\ cookie' = NoToken
      BY <1>2, <2>1, <2>2, <2>3 DEF SignedOut, NoneLive
    <3>2. InHand' /\ Spent'
      BY <2>2, <3>1, NoTokenIsNone DEF InHand, Spent, NoneLive
    <3> QED
      BY <1>5, <2>1, <2>2, <3>1, <3>2 DEF OneRequest, SignedOut
  <2>4. CASE Gives(w)
    <3>1. cookie' = wire[w].new /\ wire[w].new \in Tokens /\ row' = row
      BY <1>2, <1>3, <2>4
    <3>2. InHand'
      BY <2>1, <2>2, <2>4, <3>1 DEF InHand, Spent
    <3>3. page'.status # "anon" /\ (past'.out => NoneLive')
      BY <1>2, <1>3, <1>5, <1>6, <2>1, <2>2, <2>4 DEF SignedOut, NoneLive
    <3> QED
      BY <1>5, <2>1, <2>2, <3>2, <3>3 DEF OneRequest, SignedOut
  <2>5. CASE wire[w].kind # "logout" /\ ~wire[w].ok
    <3>1. cookie' = cookie /\ row' = row /\ \A v \in Wires : ~Gives(v)
      BY <1>2, <1>3, <2>2, <2>5
    <3>2. InHand'
      BY <2>1, <2>2, <3>1 DEF InHand, Spent
    <3>3. /\ page'.status = "anon" => Spent'
          /\ past'.out => NoneLive'
      BY <1>2, <1>3, <1>5, <1>6, <2>1, <2>2, <2>5, <3>1 DEF SignedOut, NoneLive, Spent
    <3> QED
      BY <1>5, <2>1, <2>2, <3>2, <3>3 DEF OneRequest, SignedOut
  <2> QED
    BY <1>3, <2>3, <2>4, <2>5
<1> QED
  BY <1>8, <1>9, <1>10, WebInvSplitNext DEF CleanInv

-----------------------------------------------------------------------------

\* A step of the screens.
CaptureStep ==
  \/ C!Gesture \/ C!Send \/ C!LeaveCapture("away") \/ C!CaptureAnew
  \/ \E i \in Streams, ok \in BOOLEAN : C!Sent(i, ok)
  \/ C!Prompts \/ C!Clock \/ C!Blobs
  \/ UNCHANGED capture

\* createObjectURL returns a new URL.
LEMMA UrlFree ==
  ASSUME C!CaptureTypeOK, Drafts # urls
  PROVE  C!NewUrl \in Drafts /\ C!NewUrl \notin urls
<1>1. \E d \in Drafts : d \notin urls
  BY DEF C!CaptureTypeOK
<1> QED
  BY <1>1 DEF C!NewUrl

\* A page that was just loaded lights nothing.
LEMMA CaptureAnewKept ==
  ASSUME C!CaptureInv, C!CaptureAnew
  PROVE  C!CaptureInv'
<1>1. C!CaptureTypeOK'
  BY NoDraftIsNone
     DEF C!CaptureInv, C!CaptureTypeOK, C!CaptureAnew, C!Calm, C!In, C!Fate, C!Lit,
         C!devices, C!flow
<1>2. C!Marked'
  BY DEF C!CaptureInv, C!CaptureTypeOK, C!Marked, C!Recording, C!Camera, C!CaptureAnew,
         C!Calm, C!In, C!Fate, C!Lit, C!devices, C!flow
<1>3. ASSUME calm' PROVE C!Tidy'
  BY <1>3, NoDraftIsNone
     DEF C!CaptureInv, C!CaptureTypeOK, C!Marked, C!Tidy, C!Unsettled, C!Recording,
         C!Camera, C!Voice, C!CaptureAnew, C!Calm, C!In, C!Fate, C!Lit, C!devices, C!flow
<1> QED
  BY <1>1, <1>2, <1>3 DEF C!CaptureInv

\* CameraScreen mounts and asks for the camera.
LEMMA EnterKept ==
  ASSUME C!CaptureInv, NEW i \in Streams, C!Enter(i)
  PROVE  C!CaptureInv'
<1>1. C!CaptureTypeOK'
  BY NoDraftIsNone
     DEF C!CaptureInv, C!CaptureTypeOK, C!Enter, C!Start, C!Free, C!Calm, C!In, C!Fate,
         C!Lit, C!devices, C!flow
<1>2. C!Marked'
  BY DEF C!CaptureInv, C!CaptureTypeOK, C!Marked, C!Recording, C!Camera, C!Enter, C!Start,
         C!Free, C!Calm, C!In, C!Fate, C!Lit, C!devices, C!flow
<1>3. ASSUME calm' PROVE C!Tidy'
  BY <1>3, NoDraftIsNone
     DEF C!CaptureInv, C!CaptureTypeOK, C!Marked, C!Tidy, C!Unsettled, C!Recording,
         C!Camera, C!Voice, C!Enter, C!Start, C!Free, C!Calm, C!In, C!Fate, C!Lit,
         C!devices, C!flow
<1> QED
  BY <1>1, <1>2, <1>3 DEF C!CaptureInv

\* The camera is turned, or tried again: what was held is stopped first.
LEMMA RestartKept ==
  ASSUME C!CaptureInv, NEW i \in Streams, C!Restart(i)
  PROVE  C!CaptureInv'
<1>1. C!CaptureTypeOK'
  BY NoDraftIsNone
     DEF C!CaptureInv, C!CaptureTypeOK, C!Restart, C!Start, C!Free, C!Calm, C!In, C!Fate,
         C!Lit, C!devices, C!flow
<1>2. C!Marked'
  BY DEF C!CaptureInv, C!CaptureTypeOK, C!Marked, C!Recording, C!Camera, C!Restart,
         C!Start, C!Free, C!Calm, C!In, C!Fate, C!Lit, C!devices, C!flow
<1>3. ASSUME calm' PROVE C!Tidy'
  BY <1>3, NoDraftIsNone
     DEF C!CaptureInv, C!CaptureTypeOK, C!Marked, C!Tidy, C!Unsettled, C!Recording,
         C!Camera, C!Voice, C!Restart, C!Start, C!Free, C!Calm, C!In, C!Fate, C!Lit,
         C!devices, C!flow
<1> QED
  BY <1>1, <1>2, <1>3 DEF C!CaptureInv

\* The prompt for the camera is answered with a stream.
LEMMA CameraGrantedKept ==
  ASSUME C!CaptureInv, NEW i \in Streams, C!CameraGranted(i)
  PROVE  C!CaptureInv'
<1>1. C!CaptureTypeOK'
  BY NoDraftIsNone
     DEF C!CaptureInv, C!CaptureTypeOK, C!CameraGranted, C!Calm, C!In, C!Fate, C!Lit,
         C!devices, C!flow
<1>2. C!Marked'
  BY DEF C!CaptureInv, C!CaptureTypeOK, C!Marked, C!Recording, C!Camera, C!CameraGranted,
         C!Calm, C!In, C!Fate, C!Lit, C!devices, C!flow
<1>3. ASSUME calm' PROVE C!Tidy'
  BY <1>3, NoDraftIsNone
     DEF C!CaptureInv, C!CaptureTypeOK, C!Marked, C!Tidy, C!Unsettled, C!Recording,
         C!Camera, C!Voice, C!CameraGranted, C!Calm, C!In, C!Fate, C!Lit, C!devices,
         C!flow
<1> QED
  BY <1>1, <1>2, <1>3 DEF C!CaptureInv

\* The prompt for the camera is refused.
LEMMA CameraRefusedKept ==
  ASSUME C!CaptureInv, NEW i \in Streams, C!CameraRefused(i)
  PROVE  C!CaptureInv'
<1>1. C!CaptureTypeOK'
  BY NoDraftIsNone
     DEF C!CaptureInv, C!CaptureTypeOK, C!CameraRefused, C!Calm, C!In, C!Fate, C!Lit,
         C!devices, C!flow
<1>2. C!Marked'
  BY DEF C!CaptureInv, C!CaptureTypeOK, C!Marked, C!Recording, C!Camera, C!CameraRefused,
         C!Calm, C!In, C!Fate, C!Lit, C!devices, C!flow
<1>3. ASSUME calm' PROVE C!Tidy'
  BY <1>3, NoDraftIsNone
     DEF C!CaptureInv, C!CaptureTypeOK, C!Marked, C!Tidy, C!Unsettled, C!Recording,
         C!Camera, C!Voice, C!CameraRefused, C!Calm, C!In, C!Fate, C!Lit, C!devices,
         C!flow
<1> QED
  BY <1>1, <1>2, <1>3 DEF C!CaptureInv

\* The editor is cancelled: its URL is revoked.
LEMMA CancelKept ==
  ASSUME C!CaptureInv, NEW i \in Streams, C!Cancel(i)
  PROVE  C!CaptureInv'
<1>1. C!CaptureTypeOK'
  BY NoDraftIsNone
     DEF C!CaptureInv, C!CaptureTypeOK, C!Cancel, C!Close, C!Start, C!Free, C!Calm, C!In,
         C!Fate, C!Lit, C!devices, C!flow
<1>2. C!Marked'
  BY DEF C!CaptureInv, C!CaptureTypeOK, C!Marked, C!Recording, C!Camera, C!Cancel,
         C!Close, C!Start, C!Free, C!Calm, C!In, C!Fate, C!Lit, C!devices, C!flow
<1>3. ASSUME calm' PROVE C!Tidy'
  BY <1>3, NoDraftIsNone
     DEF C!CaptureInv, C!CaptureTypeOK, C!Marked, C!Tidy, C!Unsettled, C!Recording,
         C!Camera, C!Voice, C!Cancel, C!Close, C!Start, C!Free, C!Calm, C!In, C!Fate,
         C!Lit, C!devices, C!flow
<1> QED
  BY <1>1, <1>2, <1>3 DEF C!CaptureInv

\* The editor hands over what it shows.
LEMMA SendKept ==
  ASSUME C!CaptureInv, C!Send
  PROVE  C!CaptureInv'
<1>1. C!CaptureTypeOK'
  BY NoDraftIsNone
     DEF C!CaptureInv, C!CaptureTypeOK, C!Send, C!Calm, C!In, C!Fate, C!Lit, C!devices,
         C!flow
<1>2. C!Marked'
  BY DEF C!CaptureInv, C!CaptureTypeOK, C!Marked, C!Recording, C!Camera, C!Send, C!Calm,
         C!In, C!Fate, C!Lit, C!devices, C!flow
<1>3. ASSUME calm' PROVE C!Tidy'
  BY <1>3, NoDraftIsNone
     DEF C!CaptureInv, C!CaptureTypeOK, C!Marked, C!Tidy, C!Unsettled, C!Recording,
         C!Camera, C!Voice, C!Send, C!Calm, C!In, C!Fate, C!Lit, C!devices, C!flow
<1> QED
  BY <1>1, <1>2, <1>3 DEF C!CaptureInv

\* The upload has settled: the screen that sent it closes if it went well.
LEMMA SentKept ==
  ASSUME C!CaptureInv, NEW i \in Streams, NEW ok \in BOOLEAN, C!Sent(i, ok)
  PROVE  C!CaptureInv'
<1>1. C!CaptureTypeOK'
  BY NoDraftIsNone
     DEF C!CaptureInv, C!CaptureTypeOK, C!Sent, C!Close, C!Start, C!Free, C!Calm, C!In,
         C!Fate, C!Lit, C!devices, C!flow
<1>2. C!Marked'
  BY DEF C!CaptureInv, C!CaptureTypeOK, C!Marked, C!Recording, C!Camera, C!Sent, C!Close,
         C!Start, C!Free, C!Calm, C!In, C!Fate, C!Lit, C!devices, C!flow
<1>3. ASSUME calm' PROVE C!Tidy'
  BY <1>3, NoDraftIsNone
     DEF C!CaptureInv, C!CaptureTypeOK, C!Marked, C!Tidy, C!Unsettled, C!Recording,
         C!Camera, C!Voice, C!Sent, C!Close, C!Start, C!Free, C!Calm, C!In, C!Fate, C!Lit,
         C!devices, C!flow
<1> QED
  BY <1>1, <1>2, <1>3 DEF C!CaptureInv

\* Home takes the camera or the editor away.
LEMMA LeaveCaptureKept ==
  ASSUME C!CaptureInv, NEW to \in {"chat", "away"}, C!LeaveCapture(to)
  PROVE  C!CaptureInv'
<1>1. C!CaptureTypeOK'
  BY NoDraftIsNone
     DEF C!CaptureInv, C!CaptureTypeOK, C!LeaveCapture, C!Unmount, C!Quiet, C!Calm, C!In,
         C!Fate, C!Lit, C!devices, C!flow
<1>2. C!Marked'
  BY DEF C!CaptureInv, C!CaptureTypeOK, C!Marked, C!Recording, C!Camera, C!LeaveCapture,
         C!Unmount, C!Quiet, C!Calm, C!In, C!Fate, C!Lit, C!devices, C!flow
<1>3. ASSUME calm' PROVE C!Tidy'
  BY <1>3, NoDraftIsNone
     DEF C!CaptureInv, C!CaptureTypeOK, C!Marked, C!Tidy, C!Unsettled, C!Recording,
         C!Camera, C!Voice, C!LeaveCapture, C!Unmount, C!Quiet, C!Calm, C!In, C!Fate,
         C!Lit, C!devices, C!flow
<1> QED
  BY <1>1, <1>2, <1>3 DEF C!CaptureInv

\* A finger on the shutter.
LEMMA PressKept ==
  ASSUME C!CaptureInv, C!Press
  PROVE  C!CaptureInv'
<1>1. C!CaptureTypeOK'
  BY NoDraftIsNone
     DEF C!CaptureInv, C!CaptureTypeOK, C!Press, C!Calm, C!In, C!Fate, C!Lit, C!devices,
         C!flow
<1>2. C!Marked'
  BY DEF C!CaptureInv, C!CaptureTypeOK, C!Marked, C!Recording, C!Camera, C!Press, C!Calm,
         C!In, C!Fate, C!Lit, C!devices, C!flow
<1>3. ASSUME calm' PROVE C!Tidy'
  BY <1>3, NoDraftIsNone
     DEF C!CaptureInv, C!CaptureTypeOK, C!Marked, C!Tidy, C!Unsettled, C!Recording,
         C!Camera, C!Voice, C!Press, C!Calm, C!In, C!Fate, C!Lit, C!devices, C!flow
<1> QED
  BY <1>1, <1>2, <1>3 DEF C!CaptureInv

\* The finger was held long enough for a video: the microphone is asked for.
LEMMA HoldKept ==
  ASSUME C!CaptureInv, NEW i \in Streams, C!Hold(i)
  PROVE  C!CaptureInv'
<1>1. C!CaptureTypeOK'
  BY NoDraftIsNone
     DEF C!CaptureInv, C!CaptureTypeOK, C!Hold, C!Free, C!Calm, C!In, C!Fate, C!Lit,
         C!devices, C!flow
<1>2. C!Marked'
  BY DEF C!CaptureInv, C!CaptureTypeOK, C!Marked, C!Recording, C!Camera, C!Hold, C!Free,
         C!Calm, C!In, C!Fate, C!Lit, C!devices, C!flow
<1>3. ASSUME calm' PROVE C!Tidy'
  BY <1>3, NoDraftIsNone
     DEF C!CaptureInv, C!CaptureTypeOK, C!Marked, C!Tidy, C!Unsettled, C!Recording,
         C!Camera, C!Voice, C!Hold, C!Free, C!Calm, C!In, C!Fate, C!Lit, C!devices, C!flow
<1> QED
  BY <1>1, <1>2, <1>3 DEF C!CaptureInv

\* The prompt for the microphone is answered, either way.
LEMMA MicAnsweredKept ==
  ASSUME C!CaptureInv, NEW i \in Streams, NEW ok \in BOOLEAN, C!MicAnswered(i, ok)
  PROVE  C!CaptureInv'
<1>1. C!CaptureTypeOK'
  BY NoDraftIsNone
     DEF C!CaptureInv, C!CaptureTypeOK, C!MicAnswered, C!Calm, C!In, C!Fate, C!Lit,
         C!devices, C!flow
<1>2. C!Marked'
  BY DEF C!CaptureInv, C!CaptureTypeOK, C!Marked, C!Recording, C!Camera, C!MicAnswered,
         C!Calm, C!In, C!Fate, C!Lit, C!devices, C!flow
<1>3. ASSUME calm' PROVE C!Tidy'
  BY <1>3, NoDraftIsNone
     DEF C!CaptureInv, C!CaptureTypeOK, C!Marked, C!Tidy, C!Unsettled, C!Recording,
         C!Camera, C!Voice, C!MicAnswered, C!Calm, C!In, C!Fate, C!Lit, C!devices, C!flow
<1> QED
  BY <1>1, <1>2, <1>3 DEF C!CaptureInv

\* The finger lets go: a photograph, or the end of the recording.
LEMMA ReleaseKept ==
  ASSUME C!CaptureInv, C!Release
  PROVE  C!CaptureInv'
<1>1. C!CaptureTypeOK'
  BY NoDraftIsNone
     DEF C!CaptureInv, C!CaptureTypeOK, C!Release, C!Calm, C!In, C!Fate, C!Lit, C!devices,
         C!flow
<1>2. C!Marked'
  BY DEF C!CaptureInv, C!CaptureTypeOK, C!Marked, C!Recording, C!Camera, C!Release,
         C!Calm, C!In, C!Fate, C!Lit, C!devices, C!flow
<1>3. ASSUME calm' PROVE C!Tidy'
  BY <1>3, NoDraftIsNone
     DEF C!CaptureInv, C!CaptureTypeOK, C!Marked, C!Tidy, C!Unsettled, C!Recording,
         C!Camera, C!Voice, C!Release, C!Calm, C!In, C!Fate, C!Lit, C!devices, C!flow
<1> QED
  BY <1>1, <1>2, <1>3 DEF C!CaptureInv

\* A video has reached its longest.
LEMMA MaxVideoKept ==
  ASSUME C!CaptureInv, C!MaxVideo
  PROVE  C!CaptureInv'
<1>1. C!CaptureTypeOK'
  BY NoDraftIsNone
     DEF C!CaptureInv, C!CaptureTypeOK, C!MaxVideo, C!Calm, C!In, C!Fate, C!Lit,
         C!devices, C!flow
<1>2. C!Marked'
  BY DEF C!CaptureInv, C!CaptureTypeOK, C!Marked, C!Recording, C!Camera, C!MaxVideo,
         C!Calm, C!In, C!Fate, C!Lit, C!devices, C!flow
<1>3. ASSUME calm' PROVE C!Tidy'
  BY <1>3, NoDraftIsNone
     DEF C!CaptureInv, C!CaptureTypeOK, C!Marked, C!Tidy, C!Unsettled, C!Recording,
         C!Camera, C!Voice, C!MaxVideo, C!Calm, C!In, C!Fate, C!Lit, C!devices, C!flow
<1> QED
  BY <1>1, <1>2, <1>3 DEF C!CaptureInv

\* A chat is opened.
LEMMA OpenChatKept ==
  ASSUME C!CaptureInv, C!OpenChat
  PROVE  C!CaptureInv'
<1>1. C!CaptureTypeOK'
  BY NoDraftIsNone
     DEF C!CaptureInv, C!CaptureTypeOK, C!OpenChat, C!Calm, C!In, C!Fate, C!Lit,
         C!devices, C!flow
<1>2. C!Marked'
  BY DEF C!CaptureInv, C!CaptureTypeOK, C!Marked, C!Recording, C!Camera, C!OpenChat,
         C!Calm, C!In, C!Fate, C!Lit, C!devices, C!flow
<1>3. ASSUME calm' PROVE C!Tidy'
  BY <1>3, NoDraftIsNone
     DEF C!CaptureInv, C!CaptureTypeOK, C!Marked, C!Tidy, C!Unsettled, C!Recording,
         C!Camera, C!Voice, C!OpenChat, C!Calm, C!In, C!Fate, C!Lit, C!devices, C!flow
<1> QED
  BY <1>1, <1>2, <1>3 DEF C!CaptureInv

\* The voice recorder is started.
LEMMA VoicePressKept ==
  ASSUME C!CaptureInv, NEW i \in Streams, C!VoicePress(i)
  PROVE  C!CaptureInv'
<1>1. C!CaptureTypeOK'
  BY NoDraftIsNone
     DEF C!CaptureInv, C!CaptureTypeOK, C!VoicePress, C!Free, C!Calm, C!In, C!Fate, C!Lit,
         C!devices, C!flow
<1>2. C!Marked'
  BY DEF C!CaptureInv, C!CaptureTypeOK, C!Marked, C!Recording, C!Camera, C!VoicePress,
         C!Free, C!Calm, C!In, C!Fate, C!Lit, C!devices, C!flow
<1>3. ASSUME calm' PROVE C!Tidy'
  BY <1>3, NoDraftIsNone, ZenonT(40)
     DEF C!CaptureInv, C!CaptureTypeOK, C!Marked, C!Tidy, C!Unsettled, C!Recording,
         C!Camera, C!Voice, C!VoicePress, C!Free, C!Calm, C!In, C!Fate, C!Lit, C!devices,
         C!flow
<1> QED
  BY <1>1, <1>2, <1>3 DEF C!CaptureInv

\* The prompt for the voice message is answered with a stream.
LEMMA VoiceGrantedKept ==
  ASSUME C!CaptureInv, NEW i \in Streams, C!VoiceGranted(i)
  PROVE  C!CaptureInv'
<1>1. C!CaptureTypeOK'
  BY NoDraftIsNone
     DEF C!CaptureInv, C!CaptureTypeOK, C!VoiceGranted, C!Calm, C!In, C!Fate, C!Lit,
         C!devices, C!flow
<1>2. C!Marked'
  BY DEF C!CaptureInv, C!CaptureTypeOK, C!Marked, C!Recording, C!Camera, C!VoiceGranted,
         C!Calm, C!In, C!Fate, C!Lit, C!devices, C!flow
<1>3. ASSUME calm' PROVE C!Tidy'
  BY <1>3, NoDraftIsNone
     DEF C!CaptureInv, C!CaptureTypeOK, C!Marked, C!Tidy, C!Unsettled, C!Recording,
         C!Camera, C!Voice, C!VoiceGranted, C!Calm, C!In, C!Fate, C!Lit, C!devices, C!flow
<1> QED
  BY <1>1, <1>2, <1>3 DEF C!CaptureInv

\* The prompt for the voice message is refused.
LEMMA VoiceRefusedKept ==
  ASSUME C!CaptureInv, NEW i \in Streams, C!VoiceRefused(i)
  PROVE  C!CaptureInv'
<1>1. C!CaptureTypeOK'
  BY NoDraftIsNone
     DEF C!CaptureInv, C!CaptureTypeOK, C!VoiceRefused, C!Calm, C!In, C!Fate, C!Lit,
         C!devices, C!flow
<1>2. C!Marked'
  BY DEF C!CaptureInv, C!CaptureTypeOK, C!Marked, C!Recording, C!Camera, C!VoiceRefused,
         C!Calm, C!In, C!Fate, C!Lit, C!devices, C!flow
<1>3. ASSUME calm' PROVE C!Tidy'
  BY <1>3, NoDraftIsNone
     DEF C!CaptureInv, C!CaptureTypeOK, C!Marked, C!Tidy, C!Unsettled, C!Recording,
         C!Camera, C!Voice, C!VoiceRefused, C!Calm, C!In, C!Fate, C!Lit, C!devices, C!flow
<1> QED
  BY <1>1, <1>2, <1>3 DEF C!CaptureInv

\* A voice message ends, at its longest or by hand.
LEMMA VoiceStopKept ==
  ASSUME C!CaptureInv, NEW i \in Streams, C!VoiceStop(i)
  PROVE  C!CaptureInv'
<1>1. C!CaptureTypeOK'
  BY NoDraftIsNone
     DEF C!CaptureInv, C!CaptureTypeOK, C!VoiceStop, C!Calm, C!In, C!Fate, C!Lit,
         C!devices, C!flow
<1>2. C!Marked'
  BY DEF C!CaptureInv, C!CaptureTypeOK, C!Marked, C!Recording, C!Camera, C!VoiceStop,
         C!Calm, C!In, C!Fate, C!Lit, C!devices, C!flow
<1>3. ASSUME calm' PROVE C!Tidy'
  BY <1>3, NoDraftIsNone
     DEF C!CaptureInv, C!CaptureTypeOK, C!Marked, C!Tidy, C!Unsettled, C!Recording,
         C!Camera, C!Voice, C!VoiceStop, C!Calm, C!In, C!Fate, C!Lit, C!devices, C!flow
<1> QED
  BY <1>1, <1>2, <1>3 DEF C!CaptureInv

\* The chat is left.
LEMMA LeaveChatKept ==
  ASSUME C!CaptureInv, C!LeaveChat
  PROVE  C!CaptureInv'
<1>1. C!CaptureTypeOK'
  BY NoDraftIsNone
     DEF C!CaptureInv, C!CaptureTypeOK, C!LeaveChat, C!Calm, C!In, C!Fate, C!Lit,
         C!devices, C!flow
<1>2. C!Marked'
  BY DEF C!CaptureInv, C!CaptureTypeOK, C!Marked, C!Recording, C!Camera, C!LeaveChat,
         C!Calm, C!In, C!Fate, C!Lit, C!devices, C!flow
<1>3. ASSUME calm' PROVE C!Tidy'
  BY <1>3, NoDraftIsNone
     DEF C!CaptureInv, C!CaptureTypeOK, C!Marked, C!Tidy, C!Unsettled, C!Recording,
         C!Camera, C!Voice, C!LeaveChat, C!Calm, C!In, C!Fate, C!Lit, C!devices, C!flow
<1> QED
  BY <1>1, <1>2, <1>3 DEF C!CaptureInv

\* open(): the new draft's URL is the only one, and the editor shows it.
LEMMA OpenedFacts ==
  ASSUME C!CaptureInv, NEW m \in [Streams -> C!Fate], C!Opened(m)
  PROVE  /\ urls' \subseteq Drafts /\ active' \in urls' /\ active' \in Drafts
         /\ urls' = (urls \ {active}) \cup {active'}
         /\ media' \in [Streams -> C!Fate] /\ finger' \in {"up", "timer", "down"}
         /\ calm' \in BOOLEAN /\ (calm' => calm)
         /\ screen = "camera" => /\ screen' = "editor" /\ media' = C!Unmount(m)
                                 /\ calm' = (calm /\ C!Quiet)
         /\ screen # "camera" => media' = m /\ screen' = screen /\ calm' = calm
<1>1. C!NewUrl \in Drafts /\ C!NewUrl \notin urls
  BY UrlFree DEF C!CaptureInv, C!Opened
<1>2. C!Unmount(m) \in [Streams -> C!Fate]
  BY DEF C!Unmount, C!Fate, C!Lit
<1> QED
  BY <1>1, <1>2 DEF C!Opened, C!CaptureInv, C!CaptureTypeOK, C!Calm

\* A file is picked instead of a shot.
LEMMA PickFileKept ==
  ASSUME C!CaptureInv, C!PickFile
  PROVE  C!CaptureInv'
<1>1. /\ screen = "camera" /\ C!Opened(media) /\ media \in [Streams -> C!Fate]
      /\ rec' = IF rec = "on" THEN IF C!In("mic_on") = {} THEN "ending" ELSE "none" ELSE rec
      /\ UNCHANGED <<view, shot, sending>>
  BY DEF C!PickFile, C!CaptureInv, C!CaptureTypeOK
<1>2. /\ urls' \subseteq Drafts /\ active' \in urls' /\ active' \in Drafts
      /\ urls' = (urls \ {active}) \cup {active'}
      /\ media' \in [Streams -> C!Fate] /\ finger' \in {"up", "timer", "down"}
      /\ calm' \in BOOLEAN /\ screen' = "editor"
      /\ media' = C!Unmount(media) /\ calm' = (calm /\ C!Quiet)
  BY <1>1, OpenedFacts
<1>3. C!CaptureTypeOK'
  BY <1>1, <1>2 DEF C!CaptureInv, C!CaptureTypeOK
<1>4. C!Marked'
  BY <1>1, <1>2
     DEF C!CaptureInv, C!CaptureTypeOK, C!Marked, C!Recording, C!Camera, C!Unmount
<1>5. ASSUME calm' PROVE C!Tidy'
  <2>1. C!Tidy /\ calm /\ rec # "on" /\ C!In("asked") \cup C!In("mic_asked") = {}
    BY <1>2, <1>5 DEF C!CaptureInv, C!Quiet
  <2>2. urls = {}
    BY <1>1, <2>1 DEF C!Tidy
  <2> QED
    BY <1>1, <1>2, <2>1, <2>2
       DEF C!Tidy, C!Unsettled, C!Recording, C!Camera, C!Voice, C!Unmount, C!In
<1> QED
  BY <1>3, <1>4, <1>5 DEF C!CaptureInv

\* The recorder's last chunk has come.
LEMMA RecordedKept ==
  ASSUME C!CaptureInv, C!Recorded
  PROVE  C!CaptureInv'
<1> DEFINE m == [i \in Streams |-> IF media[i] = "mic_on" THEN "free" ELSE media[i]]
<1>1. /\ m \in [Streams -> C!Fate] /\ rec \in {"ending", "stray"} /\ rec' = "none"
      /\ UNCHANGED <<view, shot, sending>>
      /\ \A i \in Streams : media[i] # "mic_on" => m[i] = media[i]
      /\ \A i \in Streams : m[i] # "mic_on" /\ (media[i] = "mic_on" => m[i] = "free")
  BY DEF C!Recorded, C!CaptureInv, C!CaptureTypeOK, C!Fate, C!Lit
<1>2. CASE rec = "ending" /\ C!Opened(m)
  <2>1. /\ urls' \subseteq Drafts /\ active' \in urls' /\ active' \in Drafts
        /\ urls' = (urls \ {active}) \cup {active'}
        /\ media' \in [Streams -> C!Fate] /\ finger' \in {"up", "timer", "down"}
        /\ calm' \in BOOLEAN /\ (calm' => calm) /\ screen' = "editor"
        /\ screen = "camera" => media' = C!Unmount(m) /\ calm' = (calm /\ C!Quiet)
        /\ screen # "camera" => screen = "editor" /\ media' = m /\ calm' = calm
    <3>1. screen \in {"camera", "editor"}
      BY <1>2 DEF C!CaptureInv, C!Marked, C!Recording
    <3> HIDE DEF m
    <3> QED
      BY <1>1, <1>2, <3>1, OpenedFacts
  <2> HIDE DEF m
  <2>2. C!CaptureTypeOK'
    BY <1>1, <2>1 DEF C!CaptureInv, C!CaptureTypeOK
  <2>3. C!Marked'
    BY <1>1, <2>1
       DEF C!CaptureInv, C!CaptureTypeOK, C!Marked, C!Recording, C!Camera, C!Unmount
  <2>4. ASSUME calm' PROVE C!Tidy'
    <3>1. C!Tidy /\ urls \subseteq {active}
      BY <2>1, <2>4 DEF C!CaptureInv, C!Tidy
    <3>2. screen = "camera" => C!In("asked") \cup C!In("mic_asked") = {}
      BY <2>1, <2>4 DEF C!Quiet
    <3> QED
      BY <1>1, <1>2, <2>1, <3>1, <3>2
         DEF C!Tidy, C!Marked, C!CaptureInv, C!Unsettled, C!Recording, C!Camera, C!Voice,
             C!Unmount, C!In
  <2> QED
    BY <2>2, <2>3, <2>4 DEF C!CaptureInv
<1>3. CASE /\ media' = m /\ UNCHANGED <<screen, finger, active, calm>>
           /\ \/ urls' = urls
              \/ rec = "stray" /\ Drafts # urls /\ urls' = urls \cup {C!NewUrl}
  <2> HIDE DEF m
  <2>1. C!CaptureTypeOK'
    BY <1>1, <1>3, UrlFree DEF C!CaptureInv, C!CaptureTypeOK
  <2>2. C!Marked'
    BY <1>1, <1>3 DEF C!CaptureInv, C!CaptureTypeOK, C!Marked, C!Recording, C!Camera
  <2>3. ASSUME calm' PROVE C!Tidy'
    BY <1>1, <1>3, <2>3
       DEF C!Tidy, C!Marked, C!CaptureInv, C!Unsettled, C!Recording, C!Camera, C!Voice,
           C!In
  <2> QED
    BY <2>1, <2>2, <2>3 DEF C!CaptureInv
<1> QED
  BY <1>2, <1>3 DEF C!Recorded

\* toBlob has called back.
LEMMA PhotographedKept ==
  ASSUME C!CaptureInv, C!Photographed
  PROVE  C!CaptureInv'
<1>1. shot # "none" /\ shot' = "none" /\ UNCHANGED <<view, sending>>
  BY DEF C!Photographed
<1>2. CASE /\ shot = "due" /\ C!Opened(media)
           /\ rec' = IF screen = "camera" /\ rec = "on"
                       THEN IF C!In("mic_on") = {} THEN "ending" ELSE "none" ELSE rec
  <2>1. /\ urls' \subseteq Drafts /\ active' \in urls' /\ active' \in Drafts
        /\ urls' = (urls \ {active}) \cup {active'}
        /\ media' \in [Streams -> C!Fate] /\ finger' \in {"up", "timer", "down"}
        /\ calm' \in BOOLEAN /\ (calm' => calm) /\ screen' = "editor"
        /\ screen = "camera" => media' = C!Unmount(media) /\ calm' = (calm /\ C!Quiet)
        /\ screen # "camera" => screen = "editor" /\ media' = media /\ calm' = calm
    <3>1. screen \in {"camera", "editor"} /\ media \in [Streams -> C!Fate]
      BY <1>2 DEF C!CaptureInv, C!CaptureTypeOK, C!Marked
    <3> QED
      BY <1>1, <1>2, <3>1, OpenedFacts
  <2>2. C!CaptureTypeOK'
    BY <1>1, <1>2, <2>1 DEF C!CaptureInv, C!CaptureTypeOK
  <2>3. C!Marked'
    BY <1>1, <1>2, <2>1
       DEF C!CaptureInv, C!CaptureTypeOK, C!Marked, C!Recording, C!Camera, C!Unmount
  <2>4. ASSUME calm' PROVE C!Tidy'
    <3>1. C!Tidy /\ urls \subseteq {active}
      BY <2>1, <2>4 DEF C!CaptureInv, C!Tidy
    <3>2. screen = "camera" => C!In("asked") \cup C!In("mic_asked") = {} /\ rec # "on"
      BY <2>1, <2>4 DEF C!Quiet
    <3> QED
      BY <1>1, <1>2, <2>1, <3>1, <3>2
         DEF C!Tidy, C!Marked, C!CaptureInv, C!Unsettled, C!Recording, C!Camera, C!Voice,
             C!Unmount, C!In
  <2> QED
    BY <2>2, <2>3, <2>4 DEF C!CaptureInv
<1>3. CASE /\ UNCHANGED <<screen, finger, media, rec, active, calm>>
           /\ \/ urls' = urls
              \/ shot = "stray" /\ Drafts # urls /\ urls' = urls \cup {C!NewUrl}
  <2>1. C!CaptureTypeOK'
    BY <1>1, <1>3, UrlFree DEF C!CaptureInv, C!CaptureTypeOK
  <2>2. C!Marked'
    BY <1>1, <1>3 DEF C!CaptureInv, C!CaptureTypeOK, C!Marked, C!Recording, C!Camera
  <2>3. ASSUME calm' PROVE C!Tidy'
    BY <1>1, <1>3, <2>3
       DEF C!Tidy, C!Marked, C!CaptureInv, C!Unsettled, C!Recording, C!Camera, C!Voice,
           C!In
  <2> QED
    BY <2>1, <2>2, <2>3 DEF C!CaptureInv
<1> QED
  BY <1>2, <1>3 DEF C!Photographed

\* The screens' state is all that their invariant reads.
LEMMA CaptureStill ==
  ASSUME C!CaptureInv, UNCHANGED capture
  PROVE  C!CaptureInv'
  BY DEF C!CaptureInv, C!CaptureTypeOK, C!Marked, C!Tidy, C!In, C!Recording, C!Camera,
         C!Voice, C!Unsettled, capture

\* Every step of the screens keeps their invariant.
LEMMA CaptureKept ==
  ASSUME C!CaptureInv, CaptureStep
  PROVE  C!CaptureInv'
<1>1. CASE C!Gesture
  BY <1>1, OpenChatKept, LeaveChatKept, PickFileKept, PressKept, ReleaseKept,
     LeaveCaptureKept, EnterKept, RestartKept, CancelKept, HoldKept, VoicePressKept
     DEF C!Gesture, C!LeaveCamera
<1>2. CASE C!Prompts
  BY <1>2, CameraGrantedKept, CameraRefusedKept, MicAnsweredKept, VoiceGrantedKept,
     VoiceRefusedKept DEF C!Prompts
<1>3. CASE C!Clock \/ C!Blobs
  BY <1>3, MaxVideoKept, VoiceStopKept, RecordedKept, PhotographedKept
     DEF C!Clock, C!Blobs
<1> QED
  BY <1>1, <1>2, <1>3, SendKept, SentKept, LeaveCaptureKept, CaptureAnewKept, CaptureStill
     DEF CaptureStep

-----------------------------------------------------------------------------
(* The page.                                                               *)

\* The client's state and the server's are all that WebInv reads.
LEMMA WebStill ==
  ASSUME WebInv, UNCHANGED web
  PROVE  WebInv'
  BY DEF WebInv, WebTypeOK, WireOK, OneRequest, InHand, SignedOut, web,
         Gives, Spent, NoneLive, OnTheWire, Awaiting

\* Every answer of the server keeps the invariant.
LEMMA ServerKept ==
  ASSUME WebInv, NEW w \in Wires, Server(w)
  PROVE  WebInv'
  BY ServerRotateKept, ServerReplayKept, ServerRefuseKept, ServerLoginKept, ServerLogoutKept
     DEF Server

\* What a page does that is signed in no longer.
LEMMA LeaveKept ==
  ASSUME C!CaptureInv, Leave
  PROVE  C!CaptureInv'
<1>1. CASE screen = "chat"
  BY <1>1, LeaveChatKept DEF Leave
<1>2. CASE screen = "away"
  BY <1>2, CaptureStill DEF Leave
<1>3. CASE screen \notin {"chat", "away"}
  BY <1>3, LeaveCaptureKept DEF Leave
<1> QED
  BY <1>1, <1>2, <1>3

\* The invariant holds of a page that was just opened for the first time.
LEMMA PageInitInv == PageInit => PageInv
<1> SUFFICES ASSUME PageInit PROVE PageInv
  OBVIOUS
<1>1. WebInv
  BY WebInitInv DEF PageInit
<1>2. C!CaptureInv
  BY DEF PageInit, C!CaptureInit, C!CaptureInv, C!CaptureTypeOK, C!Marked, C!Tidy,
         C!Recording, C!Camera, C!Voice, C!Unsettled, C!In, C!Fate, C!Lit
<1> QED
  BY <1>1, <1>2 DEF PageInv

\* Every step of the page, of the screens and of the server keeps the invariant.
LEMMA PageInductive == PageInv /\ [PageNext]_pagevars => PageInv'
<1> SUFFICES ASSUME PageInv, [PageNext]_pagevars PROVE PageInv'
  OBVIOUS
<1>1. WebInv /\ C!CaptureInv
  BY DEF PageInv
<1>2. CASE UNCHANGED pagevars
  BY <1>1, <1>2, WebStill, CaptureStill DEF pagevars, PageInv
<1>3. CASE Use
  BY <1>1, <1>3, WebStill, CaptureKept DEF Use, CaptureStep, PageInv
<1>4. CASE Ask
  <2>1. WebInv'
    BY <1>1, <1>4, UploadsAreCalls, BeginKept DEF Ask
  <2>2. C!CaptureInv'
    BY <1>1, <1>4, SendKept, CaptureStill DEF Ask
  <2> QED
    BY <2>1, <2>2 DEF PageInv
<1>5. ASSUME NEW c \in Calls, CallStep(c) PROVE PageInv'
  <2>1. WebInv'
    BY <1>1, <1>5, MeasuredKept, UnauthorisedKept, AnsweredKept DEF CallStep
  <2>2. C!CaptureInv'
    BY <1>1, <1>5, SentKept, CaptureStill DEF CallStep
  <2> QED
    BY <2>1, <2>2 DEF PageInv
<1>6. ASSUME NEW w \in Wires, WireStep(w) PROVE PageInv'
  <2>1. WebInv'
    BY <1>1, <1>6, ServerKept, ReceiveKept, LoseKept DEF WireStep
  <2>2. C!CaptureInv'
    BY <1>1, <1>6, LeaveKept, CaptureStill DEF WireStep
  <2> QED
    BY <2>1, <2>2 DEF PageInv
<1>7. ASSUME NEW w \in Wires, SignInOrOut(w) PROVE PageInv'
  BY <1>1, <1>7, SignInKept, SignOutKept, CaptureStill DEF SignInOrOut, PageInv
<1>8. ASSUME NEW w \in Wires, Reload(w) PROVE PageInv'
  BY <1>1, <1>8, LoadKept, CaptureAnewKept DEF Reload, PageInv
<1>9. CASE (C!Prompts \/ C!Clock \/ C!Blobs) /\ UNCHANGED web
  BY <1>1, <1>9, WebStill, CaptureKept DEF CaptureStep, PageInv
<1>10. CASE (ClearRefresh \/ AccessExpires \/ RevokeAll) /\ UNCHANGED capture
  BY <1>1, <1>10, ClearRefreshKept, RevokeAllKept, CaptureStill DEF PageInv
<1> QED
  BY <1>2, <1>3, <1>4, <1>5, <1>6, <1>7, <1>8, <1>9, <1>10 DEF PageNext

\* In every reachable state the client and the screens are as WebInv and CaptureInv
\* say: one request at a time carries the newest token of a clean client, and what is
\* lit and every object URL belong to the screen that is there.
THEOREM PageInvariance == PageSpec => []PageInv
  BY PageInitInv, PageInductive, PTL DEF PageSpec

\* The page's state, the requests on the wire, the sessions and the screens' devices
\* are always well-formed, and the store never has two refreshes under way.
THEOREM PageTypeCorrect == PageSpec => []PageTypeOK
<1>1. PageInv => PageTypeOK
  BY DEF PageInv, WebInv, PageTypeOK, C!CaptureInv
<1> QED
  BY <1>1, PageInvariance, PTL

\* What lib/api.ts promises of its single-flight refresh: the server never takes a
\* client's reuse for theft, and a log-out leaves no session, however many calls fail
\* at once, as long as no other page or lost answer has come between.
THEOREM SingleFlightCorrect == PageSpec => []SingleFlightIsEnough
<1>1. PageInv => SingleFlightIsEnough
  BY DEF PageInv, WebInv, SignedOut, NoneLive, SingleFlightIsEnough
<1> QED
  BY <1>1, PageInvariance, PTL

\* The comments in useCamera.ts, HomeScreen.tsx and VoiceRecorder.tsx on the privacy
\* light and object URLs hold: a stream is lit and a URL kept only for the screen
\* that is there, also when an answer takes that screen away.
THEOREM NothingIsLeft == PageSpec => []LeavesNothingBehind
<1>1. ASSUME C!CaptureInv, calm
      PROVE  \A i, j \in C!In("held") : i = j
  BY <1>1 DEF C!CaptureInv, C!Tidy, C!Camera, C!In
<1>2. ASSUME C!CaptureInv, calm, NEW i \in Streams
      PROVE  CASE media[i] = "held"     -> screen = "camera"
               [] media[i] = "mic_on"   -> rec \in {"on", "ending"}
               [] media[i] = "voice_on" -> screen = "chat"
               [] OTHER                 -> media[i] \notin C!Lit
  BY <1>2 DEF C!CaptureInv, C!CaptureTypeOK, C!Marked, C!Tidy, C!Camera, C!Voice,
              C!Unsettled, C!Recording, C!Lit
<1>3. ASSUME C!CaptureInv, calm
      PROVE  urls = IF screen = "editor" THEN {active} ELSE {}
  BY <1>3 DEF C!CaptureInv, C!Tidy
<1>4. PageInv => LeavesNothingBehind
  BY <1>1, <1>2, <1>3 DEF PageInv, LeavesNothingBehind, C!LeavesNothingBehind
<1> QED
  BY <1>4, PageInvariance, PTL
=============================================================================
