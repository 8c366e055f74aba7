------------------------------ MODULE Messages ------------------------------
(***************************************************************************)
(* The direct conversations of two people and the messages in them: the    *)
(* other half of chat.service.ts, with the fan-out of chat.gateway.ts.     *)
(*                                                                         *)
(* Whether the two may write to each other (blocks, friends, privacy) is   *)
(* asked before anything here and belongs to Friends; what a thread shows  *)
(* on the screen belongs to Realtime.                                      *)
(***************************************************************************)
EXTENDS Naturals, FiniteSets

CONSTANTS Users,     \* the two people
          Convs,     \* primary keys of conversations
          Msgs,      \* primary keys of messages
          Nonces,    \* client_nonce values a client generates
          Reqs,      \* handlers that may be in flight at once
          None       \* a local variable not yet set

ASSUME NoneIsFresh == None \notin Users \cup Convs \cup Msgs \cup Nonces

VARIABLES present,   \* Convs -> those whose left_at is NULL
          made,      \* conversations that exist
          msg,       \* Msgs -> the row of messages
          emoji,     \* Msgs -> users with a row in message_reactions
          heard,     \* message:new as emitted by the last step: whose room, what
          req        \* Reqs -> the handler's position and local variables

vars == <<present, made, msg, emoji, heard, req>>
rows == <<present, made, msg, emoji>>

-----------------------------------------------------------------------------
NoMsg  == [state |-> "none", conv |-> None, from |-> None, nonce |-> None]
MsgRow == [state : {"sent", "deleted"}, conv : Convs, from : Users, nonce : Nonces]
            \cup {NoMsg}

InFlight == {"find", "create", "assert", "nonce", "insert", "react", "fan_out", "emit"}

Request == [at    : InFlight \cup {"idle"},
            me    : Users \cup {None},
            conv  : Convs \cup {None},
            nonce : Nonces \cup {None},
            msg   : Msgs \cup {None},
            to    : SUBSET Users]   \* recipients

Idle == [at |-> "idle", me |-> None, conv |-> None,
         nonce |-> None, msg |-> None, to |-> {}]

Finish(r)   == req' = [req EXCEPT ![r] = Idle]
Goto(r, at) == req' = [req EXCEPT ![r].at = at]

Stored(u, n) == {m \in Msgs : msg[m].from = u /\ msg[m].nonce = n}

-----------------------------------------------------------------------------
Init ==
  /\ present = [c \in Convs |-> {}]
  /\ made    = {}
  /\ msg     = [m \in Msgs |-> NoMsg]
  /\ emoji   = [m \in Msgs |-> {}]
  /\ heard   = {}
  /\ req     = [r \in Reqs |-> Idle]

Begin(r, q) ==
  /\ req[r].at = "idle"
  /\ req' = [req EXCEPT ![r] = q]
  /\ UNCHANGED rows /\ heard' = {}

-----------------------------------------------------------------------------
(* send, to a person or into a conversation.                               *)

\* With toUserId: directWith comes first.
SendTo(r, me, n) ==
  Begin(r, [Idle EXCEPT !.at = "find", !.me = me, !.nonce = n])

\* A client has the ids of the conversations it was ever in.
SendInto(r, me, c, n) ==
  /\ c \in made
  /\ Begin(r, [Idle EXCEPT !.at = "assert", !.me = me, !.conv = c, !.nonce = n])

\* Fault: a conversation that somebody left is not found.
FindOnlyWhole(r) ==
  /\ req[r].at = "find"
  /\ \/ \E c \in made : /\ present[c] = Users
                        /\ req' = [req EXCEPT ![r].at = "assert", ![r].conv = c]
     \/ ~(\E c \in made : present[c] = Users) /\ Goto(r, "create")
  /\ UNCHANGED rows /\ heard' = {}

\* The membership rows are joined whether or not left_at is set; LIMIT 1.
Find(r) ==
  /\ req[r].at = "find"
  /\ \/ \E c \in made : req' = [req EXCEPT ![r].at = "assert", ![r].conv = c]
     \/ made = {} /\ Goto(r, "create")
  /\ UNCHANGED rows /\ heard' = {}

CreateDirect(r, c) ==
  /\ req[r].at = "create" /\ c \notin made
  /\ made'    = made \cup {c}
  /\ present' = [present EXCEPT ![c] = Users]
  /\ req'     = [req EXCEPT ![r].at = "assert", ![r].conv = c]
  /\ UNCHANGED <<msg, emoji>> /\ heard' = {}

\* send and react go on to what they came for.
MemberGoesOn(r) == Goto(r, IF req[r].msg = None THEN "nonce" ELSE "react")

\* Fault: any row of conversation_members will do.
AssertEverMember(r) ==
  /\ req[r].at = "assert"
  /\ MemberGoesOn(r)
  /\ UNCHANGED rows /\ heard' = {}

AssertMember(r) ==
  /\ req[r].at = "assert"
  /\ IF req[r].me \in present[req[r].conv] THEN MemberGoesOn(r) ELSE Finish(r)
  /\ UNCHANGED rows /\ heard' = {}

\* A retried nonce is answered with the message it stored.
SendNonce(r) ==
  LET dup == Stored(req[r].me, req[r].nonce)
  IN  /\ req[r].at = "nonce"
      /\ IF dup = {} THEN Goto(r, "insert")
         ELSE \E m \in dup : req' = [req EXCEPT ![r].at = "fan_out", ![r].msg = m]
      /\ UNCHANGED rows /\ heard' = {}

\* Fault: without the index messages_nonce.
InsertUnchecked(r, m) ==
  /\ req[r].at = "insert" /\ msg[m].state = "none"
  /\ msg' = [msg EXCEPT ![m] = [state |-> "sent", conv |-> req[r].conv,
                               from |-> req[r].me, nonce |-> req[r].nonce]]
  /\ req' = [req EXCEPT ![r].at = "fan_out", ![r].msg = m]
  /\ UNCHANGED <<present, made, emoji>> /\ heard' = {}

\* The unique index on (sender_id, client_nonce) fails the second INSERT.
SendInsert(r, m) ==
  /\ req[r].at = "insert" /\ msg[m].state = "none"
  /\ Stored(req[r].me, req[r].nonce) = {}
  /\ msg' = [msg EXCEPT ![m] = [state |-> "sent", conv |-> req[r].conv,
                               from |-> req[r].me, nonce |-> req[r].nonce]]
  /\ req' = [req EXCEPT ![r].at = "fan_out", ![r].msg = m]
  /\ UNCHANGED <<present, made, emoji>> /\ heard' = {}

\* onSend: the members of now, the sender among them.
FanOutRead(r) ==
  /\ req[r].at = "fan_out"
  /\ req' = [req EXCEPT ![r].at = "emit", ![r].to = present[msg[req[r].msg].conv]]
  /\ UNCHANGED rows /\ heard' = {}

\* The emits, to those who were members then, and the ack.
FanOut(r) ==
  /\ req[r].at = "emit"
  /\ heard' = req[r].to \X {req[r].msg}
  /\ Finish(r)
  /\ UNCHANGED rows

-----------------------------------------------------------------------------
(* Reactions, deletion, leaving.                                           *)

ReactRead(r, me, m) ==
  /\ msg[m].state = "sent"
  /\ Begin(r, [Idle EXCEPT !.at = "assert", !.me = me,
                 !.conv = msg[m].conv, !.msg = m])

\* Set or, with a null emoji, cleared: the body is not looked at before.
ReactWrite(r, on) ==
  /\ req[r].at = "react"
  /\ emoji' = [emoji EXCEPT ![req[r].msg] =
                 IF on THEN @ \cup {req[r].me} ELSE @ \ {req[r].me}]
  /\ Finish(r)
  /\ UNCHANGED <<present, made, msg>> /\ heard' = {}

\* One statement: own, and not yet deleted.
DeleteMessage(m) ==
  /\ msg[m].state = "sent"
  /\ msg' = [msg EXCEPT ![m].state = "deleted"]
  /\ UNCHANGED <<present, made, emoji, req>> /\ heard' = {}

\* Fault: leaving sets sender_id of what was written to NULL.
LeaveAnonymises(u, c) ==
  /\ u \in present[c]
  /\ present' = [present EXCEPT ![c] = @ \ {u}]
  /\ msg' = [m \in Msgs |-> IF msg[m].from = u THEN [msg[m] EXCEPT !.from = None] ELSE msg[m]]
  /\ UNCHANGED <<made, emoji, req>> /\ heard' = {}

\* leave, whose reading of the role cannot go stale: everybody in a direct
\* conversation is a member, and nobody can change that.
Leave(u, c) ==
  /\ u \in present[c]
  /\ present' = [present EXCEPT ![c] = @ \ {u}]
  /\ UNCHANGED <<made, msg, emoji, req>> /\ heard' = {}

\* A statement throws (a duplicate nonce does), or the process dies.
Abort(r) ==
  /\ req[r].at \in InFlight
  /\ Finish(r)
  /\ UNCHANGED rows /\ heard' = {}

-----------------------------------------------------------------------------
Arrive(r) ==
  \E me \in Users :
    \/ \E n \in Nonces : \/ SendTo(r, me, n)
                         \/ \E c \in Convs : SendInto(r, me, c, n)
    \/ \E m \in Msgs : ReactRead(r, me, m)

Continue(r) ==
  \/ Find(r) \/ AssertMember(r) \/ SendNonce(r) \/ FanOutRead(r) \/ FanOut(r)
  \/ \E c \in Convs : CreateDirect(r, c)
  \/ \E m \in Msgs : SendInsert(r, m)
  \/ \E on \in BOOLEAN : ReactWrite(r, on)

Surroundings ==
  \/ \E m \in Msgs : DeleteMessage(m)
  \/ \E u \in Users, c \in Convs : Leave(u, c)

Next ==
  \/ \E r \in Reqs : Arrive(r) \/ Continue(r) \/ Abort(r)
  \/ Surroundings

Spec == Init /\ [][Next]_vars

-----------------------------------------------------------------------------
(* Type invariant                                                          *)

TypeOK ==
  /\ made \in SUBSET Convs
  /\ present \in [Convs -> SUBSET Users]
  /\ msg \in [Msgs -> MsgRow]
  /\ emoji \in [Msgs -> SUBSET Users]
  /\ heard \in SUBSET (Users \X Msgs)
  /\ req \in [Reqs -> Request]

-----------------------------------------------------------------------------
(* What every interleaving keeps.                                          *)

\* send(): "A retry after a timeout returns the original message rather than
\* posting a second copy": one row per nonce of a sender, however the retries
\* overlap, and the answer to each is that row.
NonceIsIdempotent ==
  /\ \A m1, m2 \in Msgs :
       msg[m1].state # "none" /\ msg[m1].from = msg[m2].from
         /\ msg[m1].nonce = msg[m2].nonce => m1 = m2
  /\ \A r \in Reqs :
       req[r].at \in {"fan_out", "emit"} =>
         req[r].msg \in Stored(req[r].me, req[r].nonce)

\* A handler that has found no conversation, and will make one.
Making(q) == q.at = "create"

\* directWith(): "two people must never end up with two parallel threads".  Once
\* they have one and nobody is about to make another, they never get a second,
\* not even when one of them has left the first.
NoNewThread ==
  made # {} /\ (\A r \in Reqs : ~Making(req[r])) => made' = made

\* assertMember asks in an earlier statement than the one that writes, and memberIds
\* in an earlier one than the emit: who has left may still post, react or be told by
\* what was past those when he left.  Once nothing is, he posts, reacts and hears no
\* more, and since directWith finds the thread he left, he is out for good.
Past(q, u, c) ==
  q.me = u /\ q.conv = c /\ q.at \in {"nonce", "insert", "react"}

Telling(q, u, c) ==
  q.at = "emit" /\ msg[q.msg].conv = c /\ u \in q.to

Posts(u, c) == {m \in Msgs : msg[m].from = u /\ msg[m].conv = c}

Settled(u, c) ==
  /\ c \in made /\ u \notin present[c]
  /\ \A r \in Reqs : ~Past(req[r], u, c) /\ ~Telling(req[r], u, c)

StaysOut ==
  \A u \in Users, c \in Convs :
    Settled(u, c) =>
      /\ Settled(u, c)'
      /\ Posts(u, c)' = Posts(u, c)
      /\ \A m \in Msgs : msg[m].conv = c =>
           /\ u \in emoji'[m] <=> u \in emoji[m]
           /\ <<u, m>> \notin heard'

LeaverStaysOut == [][StaysOut]_vars
=============================================================================
