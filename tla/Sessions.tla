------------------------------ MODULE Sessions ------------------------------
(***************************************************************************)
(* Accounts, devices and refresh-token sessions: auth.service.ts with the  *)
(* revocations of password-reset.service.ts and moderation.service.ts.     *)
(*                                                                         *)
(* A refresh token is a row of sessions; the tokens that descend from one  *)
(* login by rotation form a family, named here by its first row.  Refresh, *)
(* login and register are chains of awaited statements outside any         *)
(* transaction, so a revocation may fall between any two of them.          *)
(***************************************************************************)
EXTENDS Naturals, FiniteSets

CONSTANTS Users,        \* accounts, named by their unique username
          Agents,       \* user-agent strings
          Devices,      \* primary keys of devices
          SessionIds,   \* primary keys of sessions, each with its token
          Reqs,         \* handlers of more than one statement, in flight at once
          None          \* SQL NULL, or a field a request does not use

ASSUME NoneIsFresh == None \notin Users \cup Agents \cup Devices \cup SessionIds

VARIABLES account,   \* Users -> status of the users row
          device,    \* Devices -> row of devices
          session,   \* SessionIds -> row of sessions
          known,     \* tokens that reached a client
          req        \* Reqs -> the handler's position and local variables

vars == <<account, device, session, known, req>>

-----------------------------------------------------------------------------
\* "lapsed": status is still 'suspended', but suspended_until has passed.
AccountStatus == {"none", "active", "suspended", "lapsed", "banned"}

DeviceRow == [user : Users \cup {None}, agent : Agents \cup {None},
              revoked : BOOLEAN]
NoDevice  == [user |-> None, agent |-> None, revoked |-> FALSE]

Reasons == {"token_reuse", "logout", "logout_all", "device_revoked",
            "password_reset", "suspend", "ban"}

ASSUME NullIsNoReason == None \notin Reasons

SessionRow == [user    : Users \cup {None},
               device  : Devices \cup {None},
               family  : SessionIds \cup {None},
               rotated : SessionIds \cup {None},    \* rotated_to
               revoked : Reasons \cup {None}]       \* revoked_reason
NoSession  == [user |-> None, device |-> None, family |-> None,
               rotated |-> None, revoked |-> None]

DeviceRows  == {d \in Devices : device[d].user # None}
SessionRows == {s \in SessionIds : session[s].user # None}

Family(f) == {s \in SessionRows : session[s].family = f}

\* A row refresh() answers with a new token (until expires_at; an expired token
\* is refused and changes nothing, as one that is never presented).
Fresh(s)  == session[s].rotated = None /\ session[s].revoked = None
Usable(s) == s \in known /\ Fresh(s)

\* Fault: without "AND revoked_at IS NULL" the last reason wins.
RevokeAgain(S, reason) ==
  session' = [s \in SessionIds |->
                IF s \in S \cap SessionRows
                  THEN [session[s] EXCEPT !.revoked = reason]
                  ELSE session[s]]

\* UPDATE sessions SET revoked_at, revoked_reason WHERE ... AND revoked_at IS NULL
Revoke(S, reason) ==
  session' = [s \in SessionIds |->
                IF s \in S \cap SessionRows /\ session[s].revoked = None
                  THEN [session[s] EXCEPT !.revoked = reason]
                  ELSE session[s]]

-----------------------------------------------------------------------------
Issuing  == {"issue", "mark", "reply"}
InFlight == {"register_insert", "device_find", "device_insert", "replay"} \cup Issuing

Request == [at     : InFlight \cup {"idle"},
            user   : Users \cup {None},
            agent  : Agents \cup {None},
            device : Devices \cup {None},
            family : SessionIds \cup {None},    \* None until a login issues
            parent : SessionIds \cup {None},    \* the row refresh() read
            token  : SessionIds \cup {None}]    \* the row it issued

Idle == [at |-> "idle", user |-> None, agent |-> None, device |-> None,
            family |-> None, parent |-> None, token |-> None]

Goto(r, step) == req' = [req EXCEPT ![r].at = step]
Finish(r)     == req' = [req EXCEPT ![r] = Idle]

-----------------------------------------------------------------------------
Init ==
  /\ account = [u \in Users |-> "none"]
  /\ device  = [d \in Devices |-> NoDevice]
  /\ session = [s \in SessionIds |-> NoSession]
  /\ known   = {}
  /\ req     = [r \in Reqs |-> Idle]

-----------------------------------------------------------------------------
(* register and login, up to the session they issue.                       *)

RegisterRead(r, u, a) ==
  /\ req[r].at = "idle" /\ account[u] = "none"
  /\ req' = [req EXCEPT ![r] =
               [Idle EXCEPT !.at = "register_insert", !.user = u, !.agent = a]]
  /\ UNCHANGED <<account, device, session, known>>

\* The unique constraint fails the second of two inserts of one username.
RegisterInsert(r) ==
  /\ req[r].at = "register_insert"
  /\ IF account[req[r].user] = "none"
       THEN /\ account' = [account EXCEPT ![req[r].user] = "active"]
            /\ Goto(r, "device_find")
       ELSE /\ Finish(r)
            /\ UNCHANGED account
  /\ UNCHANGED <<device, session, known>>

\* The row is read and the password verified; a wrong one changes nothing.
LoginRead(r, u, a) ==
  /\ req[r].at = "idle"
  /\ account[u] \in {"active", "lapsed"}
  /\ req' = [req EXCEPT ![r] =
               [Idle EXCEPT !.at = "device_find", !.user = u, !.agent = a]]
  /\ UNCHANGED <<account, device, session, known>>

\* registerDevice: any of the matching rows, or none.
DeviceFind(r) ==
  LET found == {d \in DeviceRows : /\ device[d].user = req[r].user
                                   /\ device[d].agent = req[r].agent
                                   /\ ~device[d].revoked}
  IN  /\ req[r].at = "device_find"
      /\ \/ \E d \in found :
              req' = [req EXCEPT ![r] = [@ EXCEPT !.at = "issue", !.device = d]]
         \/ found = {} /\ Goto(r, "device_insert")
      /\ UNCHANGED <<account, device, session, known>>

DeviceInsert(r, d) ==
  /\ req[r].at = "device_insert"
  /\ d \notin DeviceRows
  /\ device' = [device EXCEPT ![d] =
                  [user |-> req[r].user, agent |-> req[r].agent, revoked |-> FALSE]]
  /\ req' = [req EXCEPT ![r] = [@ EXCEPT !.at = "issue", !.device = d]]
  /\ UNCHANGED <<account, session, known>>

-----------------------------------------------------------------------------
(* refresh.  The client presents a token it holds.                         *)

RefreshRead(r, s) ==
  LET row == session[s] IN
  /\ req[r].at = "idle" /\ s \in known
  /\ \/ /\ row.rotated # None \/ row.revoked # None
        /\ req' = [req EXCEPT ![r] =
                     [Idle EXCEPT !.at = "replay", !.family = row.family]]
     \/ /\ Fresh(s)
        /\ req' = [req EXCEPT ![r] =
                     [Idle EXCEPT !.at = "issue", !.user = row.user,
                                    !.device = row.device,
                                    !.family = row.family, !.parent = s]]
  /\ UNCHANGED <<account, device, session, known>>

\* Fault: the rotated tokens of the family are passed over.
ReplaySparesRotated(r) ==
  /\ req[r].at = "replay"
  /\ Revoke({s \in Family(req[r].family) : session[s].rotated = None}, "token_reuse")
  /\ Finish(r)
  /\ UNCHANGED <<account, device, known>>

ReplayRevoke(r) ==
  /\ req[r].at = "replay"
  /\ Revoke(Family(req[r].family), "token_reuse")
  /\ Finish(r)
  /\ UNCHANGED <<account, device, known>>

\* issueTokens: familyId ?? randomUUID().
Issue(r, s) ==
  LET q == req[r]
      f == IF q.family = None THEN s ELSE q.family
  IN  /\ q.at = "issue"
      /\ s \notin SessionRows
      /\ session' = [session EXCEPT ![s] =
                       [NoSession EXCEPT !.user = q.user, !.device = q.device,
                                         !.family = f]]
      /\ req' = [req EXCEPT ![r] =
                   [@ EXCEPT !.at = IF q.parent = None THEN "reply" ELSE "mark",
                             !.family = f, !.token = s]]
      /\ UNCHANGED <<account, device, known>>

\* Fault: WHERE family_id marks the new row with the others.
RefreshMarksFamily(r) ==
  /\ req[r].at = "mark"
  /\ session' = [s \in SessionIds |->
                   IF s \in Family(req[r].family)
                     THEN [session[s] EXCEPT !.rotated = req[r].token]
                     ELSE session[s]]
  /\ Goto(r, "reply")
  /\ UNCHANGED <<account, device, known>>

\* UPDATE sessions SET rotated_to WHERE id: whatever the row says by now.
RefreshMark(r) ==
  /\ req[r].at = "mark"
  /\ session' = [session EXCEPT ![req[r].parent].rotated = req[r].token]
  /\ Goto(r, "reply")
  /\ UNCHANGED <<account, device, known>>

\* publicUser, then the response that carries the token.
Reply(r) ==
  /\ req[r].at = "reply"
  /\ known' = known \cup {req[r].token}
  /\ Finish(r)
  /\ UNCHANGED <<account, device, session>>

-----------------------------------------------------------------------------
(* Revocations: one statement or one transaction each.                     *)

Logout(s) ==
  /\ s \in known
  /\ Revoke({s}, "logout")
  /\ UNCHANGED <<account, device, known, req>>

OwnedBy(u) == {s \in SessionRows : session[s].user = u}

LogoutAll(u) ==
  /\ account[u] # "none"
  /\ Revoke(OwnedBy(u), "logout_all")
  /\ UNCHANGED <<account, device, known, req>>

RevokeDevice(d) ==
  /\ d \in DeviceRows
  /\ Revoke({s \in SessionRows : session[s].device = d}, "device_revoked")
  /\ device' = [device EXCEPT ![d].revoked = TRUE]
  /\ UNCHANGED <<account, known, req>>

\* PasswordResetService.complete, once its code has been checked.
ResetPassword(u) ==
  /\ account[u] # "none"
  /\ Revoke(OwnedBy(u), "password_reset")
  /\ UNCHANGED <<account, device, known, req>>

\* ModerationService.act with 'suspend' or 'ban'.
Sanction(u, action) ==
  /\ account[u] # "none"
  /\ Revoke(OwnedBy(u), action)
  /\ account' = [account EXCEPT ![u] =
                   IF action = "ban" THEN "banned" ELSE "suspended"]
  /\ UNCHANGED <<device, known, req>>

-----------------------------------------------------------------------------
(* Time and failures.                                                      *)

SuspensionLapses(u) ==
  /\ account[u] = "suspended"
  /\ account' = [account EXCEPT ![u] = "lapsed"]
  /\ UNCHANGED <<device, session, known, req>>

\* A statement throws, the process dies, or the response is lost.
Abort(r) ==
  /\ req[r].at \in InFlight
  /\ Finish(r)
  /\ UNCHANGED <<account, device, session, known>>

-----------------------------------------------------------------------------
Arrive(r) ==
  \/ \E u \in Users, a \in Agents : RegisterRead(r, u, a) \/ LoginRead(r, u, a)
  \/ \E s \in SessionIds : RefreshRead(r, s)

Continue(r) ==
  \/ RegisterInsert(r)
  \/ DeviceFind(r)
  \/ \E d \in Devices : DeviceInsert(r, d)
  \/ ReplayRevoke(r)
  \/ \E s \in SessionIds : Issue(r, s)
  \/ RefreshMark(r)
  \/ Reply(r)

Revocation ==
  \/ \E s \in SessionIds : Logout(s)
  \/ \E d \in Devices : RevokeDevice(d)
  \/ \E u \in Users :
       \/ LogoutAll(u) \/ ResetPassword(u)
       \/ Sanction(u, "suspend") \/ Sanction(u, "ban")

Next ==
  \/ \E r \in Reqs : Arrive(r) \/ Continue(r) \/ Abort(r)
  \/ Revocation
  \/ \E u \in Users : SuspensionLapses(u)

Spec == Init /\ [][Next]_vars

-----------------------------------------------------------------------------
(* Type invariant                                                          *)

TypeOK ==
  /\ account \in [Users -> AccountStatus]
  /\ device \in [Devices -> DeviceRow]
  /\ session \in [SessionIds -> SessionRow]
  /\ known \subseteq SessionIds
  /\ req \in [Reqs -> Request]

-----------------------------------------------------------------------------
(* What every interleaving keeps.                                          *)

\* A family is one login: all its sessions have one user and one device, and
\* the device is that user's, so revoking the device or the user's sessions
\* reaches every rotation of the chain (refresh(), revokeDevice()).
FamilyIsOneLogin ==
  \A s \in SessionRows :
    /\ session[s].family \in SessionRows
    /\ session[s].device \in DeviceRows
    /\ device[session[s].device].user = session[s].user
    /\ \A t \in Family(session[s].family) :
         session[t].user = session[s].user /\ session[t].device = session[s].device

\* rotated_to leads to another session of the same family, however many
\* refreshes of one token raced to set it.
RotationStaysInFamily ==
  \A s \in SessionRows : session[s].rotated # None =>
    session[s].rotated \in Family(session[s].family) \ {s}

\* A login is one chain of tokens on one device.
FamilyIsOneChain == FamilyIsOneLogin /\ RotationStaysInFamily

\* A token a client has held is never usable again once it was rotated or
\* revoked, whatever statement lands late; and the first reason stands.
TokensStayRetired ==
  \A s \in known :
    /\ ~Usable(s) => ~Usable(s)'
    /\ session[s].revoked # None => session'[s].revoked = session[s].revoked

\* Nothing usable is left of the family, and no handler holds a piece of it.
Dead(f) ==
  /\ Family(f) # {}
  /\ \A s \in Family(f) : ~Usable(s)
  /\ \A r \in Reqs : req[r].at \in Issuing => req[r].family # f

\* "The entire family is revoked, forcing a fresh login": a family with no
\* usable token comes back only through a refresh that was already past its
\* read; once none is in flight it is dead for ever.
DeadStayDead == \A f \in SessionIds : Dead(f) => Dead(f)'

RetirementIsFinal == [][TokensStayRetired /\ DeadStayDead]_vars

-----------------------------------------------------------------------------
(* The inductive strengthening: what a handler in flight may rely on.      *)

Coherent(q) ==
  /\ q.at \in {"register_insert", "device_find", "device_insert", "issue"} =>
       q.user \in Users
  /\ q.at \in {"register_insert", "device_find", "device_insert"} =>
       q.agent \in Agents /\ q.family = None /\ q.parent = None
  /\ q.at = "replay" => q.family \in SessionRows
  /\ q.at = "issue" =>
       /\ q.device \in DeviceRows /\ device[q.device].user = q.user
       /\ (q.family = None) <=> (q.parent = None)
       /\ q.parent # None => /\ q.parent \in Family(q.family)
                             /\ session[q.parent].user = q.user
                             /\ session[q.parent].device = q.device
  /\ q.at \in {"mark", "reply"} => q.token \in Family(q.family)
  /\ q.at = "mark" => q.parent \in Family(q.family) \ {q.token}

RequestInv == \A r \in Reqs : Coherent(req[r])

RowInv ==
  /\ known \subseteq SessionRows
  /\ \A s \in SessionIds \ SessionRows : session[s] = NoSession

IInv == TypeOK /\ RowInv /\ FamilyIsOneLogin /\ RotationStaysInFamily /\ RequestInv

-----------------------------------------------------------------------------
(* What the source says and overlapping handlers break.                    *)

\* "Every refresh mints a new token and marks the old one as rotated": a
\* family has one usable token at a time.
OneUsableTokenPerFamily ==
  \A s, t \in known : Usable(s) /\ Usable(t)
                        /\ session[s].family = session[t].family => s = t

\* "Replaying the retired token means it was stolen; the whole family dies."
ReplayKillsFamily ==
  \A s, t \in SessionRows :
    session[s].revoked = "token_reuse" /\ session[t].family = session[s].family
      => session[t].revoked # None

\* "A banned account's sessions die immediately."
BannedHasNoSession ==
  \A s \in SessionRows :
    account[session[s].user] = "banned" => session[s].revoked # None

\* "Completing a reset revokes every session": nothing of a family that a
\* reset revoked is usable.
ResetKillsFamily ==
  \A s, t \in SessionRows :
    session[s].revoked = "password_reset" /\ session[t].family = session[s].family
      => ~Usable(t)

\* "One device row per user-agent string, reused across logins."
OneDevicePerAgent ==
  \A d, e \in DeviceRows :
    /\ device[d].user = device[e].user /\ device[d].agent = device[e].agent
    /\ ~device[d].revoked /\ ~device[e].revoked
    => d = e
=============================================================================
