------------------------------- MODULE Snaps -------------------------------
(***************************************************************************)
(* One piece of media and everything that refers to it: its upload, the    *)
(* snaps that send it, the messages that carry it, a story that shows it,  *)
(* the Memories that keep it, and the worker that expires snaps and purges *)
(* media nobody needs (snaps.service.ts, media.service.ts,                 *)
(* stories.service.ts, chat.service.ts, cleanup.service.ts).               *)
(*                                                                         *)
(* Handlers on different media touch different rows, so one is enough.     *)
(* Friendships and blocks belong to Friends, and who is in a conversation  *)
(* to Groups and Messages: here they change freely.                        *)
(***************************************************************************)
EXTENDS Naturals, FiniteSets

CONSTANTS Users,     \* active accounts
          Owner,     \* who captured the media
          SnapIds,   \* primary keys of snaps
          MsgIds,    \* messages with the media, as many as there are at once
          StoryIds,  \* primary keys of stories
          Privacies, \* the privacy a story is posted with
          Standings, \* how another user may stand with the owner
          Reqs,      \* handlers that may be in flight at once
          None       \* a local variable not yet set

ASSUME OwnerIsUser == Owner \in Users
ASSUME PrivaciesAreThree ==
  Privacies # {} /\ Privacies \subseteq {"everyone", "friends", "custom"}
ASSUME StandingsAreThree ==
  "friend" \in Standings /\ Standings \subseteq {"friend", "stranger", "blocked"}
ASSUME NoneIsFresh == None \notin Users \cup SnapIds \cup StoryIds

VARIABLES media,     \* media.status; "removed": deleted_at is set too
          object,    \* the bytes under storage_key
          standing,  \* how each other user stands with the owner
          snap,      \* SnapIds -> Users -> the row of snap_recipients
          story,     \* StoryIds -> the row of stories, with its views
          told,      \* SnapIds -> Users -> snap_opened notices to the owner
          attached,  \* the messages that carry the media and are not deleted
          saved,     \* somebody has a row in memories
          req        \* Reqs -> the handler's position and local variables

vars == <<media, object, standing, snap, story, told, attached, saved, req>>
rows == <<media, object, standing, snap, story, told, attached, saved>>

-----------------------------------------------------------------------------
REPLAY_LIMIT == 1

\* due: not yet expired, and expires_at is past.
Row   == [status  : {"none", "delivered", "opened", "expired"},
          due     : BOOLEAN,
          opened  : BOOLEAN,      \* opened_at is set
          replays : Nat]
NoRow == [status |-> "none", due |-> FALSE, opened |-> FALSE, replays |-> 0]

\* over: expires_at is past.  For "custom", audience is story_audience.
Story   == [state    : {"none", "posted", "removed"},
            over     : BOOLEAN,
            privacy  : Privacies,
            audience : SUBSET Users,
            viewers  : SUBSET Users,   \* rows of story_views
            count    : Nat]            \* view_count
NoStory == [state |-> "none", over |-> FALSE, privacy |-> CHOOSE p \in Privacies : TRUE,
            audience |-> {}, viewers |-> {}, count |-> 0]

Ops == {"send", "post", "save", "attach", "other"}

InFlight == {"put", "mark", "auth_row", "auth_block", "auth_refs", "allowed",
             "insert", "post", "save", "attach", "open_block", "open_expire", "open_write",
             "open_notify", "view_write", "remove_write", "select", "purge", "purged"}

Request == [at    : InFlight \cup {"idle"},
            op    : Ops,
            me    : Users,
            snap  : SnapIds \cup {None},
            story : StoryIds \cup {None},
            to    : SUBSET Users,      \* recipients, or a custom audience
            row   : Row,               \* the recipient row as read
            ok    : BOOLEAN]           \* the bytes were stored

Idle == [at |-> "idle", op |-> "other", me |-> Owner, snap |-> None,
         story |-> None, to |-> {}, row |-> NoRow, ok |-> FALSE]

Finish(r)   == req' = [req EXCEPT ![r] = Idle]
Goto(r, at) == req' = [req EXCEPT ![r].at = at]

\* The row that was read is of no more use.
LetGo(r, at) == req' = [req EXCEPT ![r].at = at, ![r].row = NoRow]

Friend(u)  == u # Owner /\ standing[u] = "friend"
Blocked(u) == standing[u] = "blocked"

\* Who is in a story's audience; the blocks are asked for separately.
MaySee(u, t) ==
  /\ story[t].state = "posted" /\ ~story[t].over
  /\ \/ u = Owner
     \/ story[t].privacy = "everyone"
     \/ story[t].privacy = "friends" /\ Friend(u)
     \/ story[t].privacy = "custom" /\ u \in story[t].audience

\* What authorise() accepts beside ownership: a snap to the viewer, a message in a
\* conversation the viewer is in (member), or a story.
Reaches(u, member) ==
  \/ \E s \in SnapIds : snap[s][u].status \in {"delivered", "opened"}
  \/ member /\ attached # {}
  \/ u # Owner /\ \E t \in StoryIds : MaySee(u, t)

\* A snap, a story or somebody's Memories refer to it.
Kept ==
  \/ \E s \in SnapIds, u \in Users : snap[s][u].status \in {"delivered", "opened"}
  \/ \E t \in StoryIds : story[t].state = "posted"
  \/ saved

\* What keeps media from the purge.  A message counts until it is deleted: one that
\* has disappeared, or whose reader has left, counts still.
Needed == Kept \/ attached # {}

Sent(s) == \E u \in Users : snap[s][u].status # "none"

\* A client has the id: upload answers with it when the bytes are stored.
Known == media \in {"ready", "removed"}

-----------------------------------------------------------------------------
Init ==
  /\ media    = "none"
  /\ object   = "none"
  /\ standing = [u \in Users |-> "friend"]
  /\ snap     = [s \in SnapIds |-> [u \in Users |-> NoRow]]
  /\ story    = [t \in StoryIds |-> NoStory]
  /\ told     = [s \in SnapIds |-> [u \in Users |-> 0]]
  /\ attached = {}
  /\ saved    = FALSE
  /\ req      = [r \in Reqs |-> Idle]

-----------------------------------------------------------------------------
(* upload: the row first, then the bytes, then the row marked.             *)

UploadInsert(r) ==
  /\ req[r].at = "idle" /\ media = "none"
  /\ media' = "uploading"
  /\ req' = [req EXCEPT ![r] = [Idle EXCEPT !.at = "put"]]
  /\ UNCHANGED <<object, standing, snap, story, told, attached, saved>>

UploadPut(r) ==
  /\ req[r].at = "put"
  /\ \E stored \in BOOLEAN :
       /\ object' = IF stored THEN "stored" ELSE object
       /\ req' = [req EXCEPT ![r].at = "mark", ![r].ok = stored]
  /\ UNCHANGED <<media, standing, snap, story, told, attached, saved>>

UploadMark(r) ==
  /\ req[r].at = "mark"
  /\ media' = IF req[r].ok THEN "ready" ELSE "failed"
  /\ Finish(r)
  /\ UNCHANGED <<object, standing, snap, story, told, attached, saved>>

-----------------------------------------------------------------------------
(* authorise: the row, the block, the references, each in a statement of   *)
(* its own.  open and view end with it too, to sign the URL they answer    *)
(* with; that writes nothing and is left out.                              *)

\* Where send, post, save and a message go on.
AuthorisedTo(r) == Goto(r, IF req[r].op = "send" THEN "allowed" ELSE req[r].op)

AuthRow(r) ==
  /\ req[r].at = "auth_row"
  /\ IF media \in {"none", "removed"} THEN Finish(r)
     ELSE IF req[r].me = Owner THEN AuthorisedTo(r)
     ELSE Goto(r, "auth_block")
  /\ UNCHANGED rows

AuthBlock(r) ==
  /\ req[r].at = "auth_block"
  /\ IF Blocked(req[r].me) THEN Finish(r) ELSE Goto(r, "auth_refs")
  /\ UNCHANGED rows

AuthRefs(r) ==
  /\ req[r].at = "auth_refs"
  /\ \E member \in BOOLEAN :
       IF Reaches(req[r].me, member) THEN AuthorisedTo(r) ELSE Finish(r)
  /\ UNCHANGED rows

-----------------------------------------------------------------------------
(* send: authorise, the recipients who are friends, the transaction.       *)

SendArrive(r, to) ==
  /\ req[r].at = "idle" /\ Known
  /\ to # {} /\ Owner \notin to
  /\ req' = [req EXCEPT ![r] = [Idle EXCEPT !.at = "auth_row", !.op = "send",
                                            !.to = to]]
  /\ UNCHANGED rows

SendAllowed(r) ==
  LET allowed == {u \in req[r].to : Friend(u)}
  IN  /\ req[r].at = "allowed"
      /\ IF allowed = {} THEN Finish(r)
         ELSE req' = [req EXCEPT ![r].at = "insert", ![r].to = allowed]
      /\ UNCHANGED rows

SendInsert(r, s) ==
  /\ req[r].at = "insert" /\ ~Sent(s)
  /\ snap' = [snap EXCEPT ![s] =
                [u \in Users |-> IF u \in req[r].to
                                   THEN [NoRow EXCEPT !.status = "delivered"]
                                   ELSE NoRow]]
  /\ Finish(r)
  /\ UNCHANGED <<media, object, standing, story, told, attached, saved>>

-----------------------------------------------------------------------------
(* open                                                                    *)

OpenRead(r, u, s) ==
  /\ req[r].at = "idle" /\ snap[s][u].status # "none"
  /\ req' = [req EXCEPT ![r] = [Idle EXCEPT !.at = "open_block",
                                  !.me = u, !.snap = s, !.row = snap[s][u]]]
  /\ UNCHANGED rows

\* Fault: an expired snap is not refused.
OpenIgnoresExpiry(r) ==
  /\ req[r].at = "open_block"
  /\ IF Blocked(req[r].me) \/ (req[r].row.opened /\ req[r].row.replays >= REPLAY_LIMIT)
       THEN Finish(r) ELSE Goto(r, "open_write")
  /\ UNCHANGED rows

\* Fault: the replay count is compared after the limit has been passed.
OpenBlockOffByOne(r) ==
  LET row == req[r].row
  IN  /\ req[r].at = "open_block"
      /\ \/ Blocked(req[r].me) /\ Finish(r)
         \/ ~Blocked(req[r].me) /\ LetGo(r, "open_expire")
         \/ /\ ~Blocked(req[r].me) /\ row.status # "expired" /\ ~row.due
            /\ IF row.opened /\ row.replays > REPLAY_LIMIT
                 THEN Finish(r) ELSE Goto(r, "open_write")
      /\ UNCHANGED rows

\* Time may have passed since the row was read, so that it is found expired.
OpenBlock(r) ==
  LET row == req[r].row
  IN  /\ req[r].at = "open_block"
      /\ \/ Blocked(req[r].me) /\ Finish(r)
         \/ ~Blocked(req[r].me) /\ LetGo(r, "open_expire")
         \/ /\ ~Blocked(req[r].me) /\ row.status # "expired" /\ ~row.due
            /\ IF row.opened /\ row.replays >= REPLAY_LIMIT
                 THEN Finish(r) ELSE Goto(r, "open_write")
      /\ UNCHANGED rows

OpenExpire(r) ==
  /\ req[r].at = "open_expire"
  /\ snap' = [snap EXCEPT ![req[r].snap][req[r].me].status = "expired",
                       ![req[r].snap][req[r].me].due = FALSE]
  /\ Finish(r)
  /\ UNCHANGED <<media, object, standing, story, told, attached, saved>>

\* Fault: opened_at is not set.
OpenForgetsTime(r) ==
  LET s == req[r].snap
      u == req[r].me
      replay == req[r].row.opened
  IN  /\ req[r].at = "open_write"
      /\ snap' = [snap EXCEPT ![s][u] =
                    [snap[s][u] EXCEPT !.status = "opened", !.due = FALSE,
                       !.replays = snap[s][u].replays + IF replay THEN 1 ELSE 0]]
      /\ IF replay THEN Finish(r) ELSE LetGo(r, "open_notify")
      /\ UNCHANGED <<media, object, standing, story, told, attached, saved>>

\* UPDATE ... WHERE id = $1, whatever has become of the row.
OpenWrite(r) ==
  LET s == req[r].snap
      u == req[r].me
      replay == req[r].row.opened
  IN  /\ req[r].at = "open_write"
      /\ snap' = [snap EXCEPT ![s][u] =
                    [snap[s][u] EXCEPT !.status = "opened", !.opened = TRUE,
                       !.due = FALSE,
                       !.replays = snap[s][u].replays + IF replay THEN 1 ELSE 0]]
      /\ IF replay THEN Finish(r) ELSE LetGo(r, "open_notify")
      /\ UNCHANGED <<media, object, standing, story, told, attached, saved>>

OpenNotify(r) ==
  /\ req[r].at = "open_notify"
  /\ told' = [told EXCEPT ![req[r].snap][req[r].me] = @ + 1]
  /\ Finish(r)
  /\ UNCHANGED <<media, object, standing, snap, story, attached, saved>>

-----------------------------------------------------------------------------
(* Stories: post, view (which a reaction repeats), remove.                 *)

PostArrive(r) ==
  /\ req[r].at = "idle" /\ Known
  /\ req' = [req EXCEPT ![r] = [Idle EXCEPT !.at = "auth_row", !.op = "post"]]
  /\ UNCHANGED rows

\* A custom audience is those named in it who are friends.
PostInsert(r, t) ==
  /\ req[r].at = "post" /\ story[t].state = "none"
  /\ \E privacy \in Privacies, named \in SUBSET Users :
       /\ privacy = "custom" <=> named # {}
       /\ story' = [story EXCEPT ![t] =
                      [NoStory EXCEPT !.state = "posted", !.privacy = privacy,
                                      !.audience = {u \in named : Friend(u)}]]
  /\ Finish(r)
  /\ UNCHANGED <<media, object, standing, snap, told, attached, saved>>

ViewRead(r, u, t) ==
  /\ req[r].at = "idle" /\ u # Owner
  /\ MaySee(u, t) /\ ~Blocked(u)
  /\ req' = [req EXCEPT ![r] = [Idle EXCEPT !.at = "view_write",
                                            !.me = u, !.story = t]]
  /\ UNCHANGED rows

\* ON CONFLICT DO NOTHING, and the count only for a new row.
ViewWrite(r) ==
  LET t == req[r].story
      new == req[r].me \notin story[t].viewers
  IN  /\ req[r].at = "view_write"
      /\ story' = [story EXCEPT ![t] =
                     [story[t] EXCEPT !.viewers = story[t].viewers \cup {req[r].me},
                                      !.count = story[t].count + IF new THEN 1 ELSE 0]]
      /\ Finish(r)
      /\ UNCHANGED <<media, object, standing, snap, told, attached, saved>>

\* Nothing reads the rest of a deleted row.
StoryRemove(t) ==
  /\ story[t].state = "posted"
  /\ story' = [story EXCEPT ![t] = [NoStory EXCEPT !.state = "removed"]]
  /\ UNCHANGED <<media, object, standing, snap, told, attached, saved, req>>

-----------------------------------------------------------------------------
(* Messages that carry the media (chat.service.ts).                        *)

\* A picture, a video or a voice message is authorised, and refused to others than
\* the owner; a text message takes the media id as it comes.
AttachArrive(r) ==
  /\ req[r].at = "idle" /\ Known
  /\ \E at \in {"auth_row", "attach"} :
       req' = [req EXCEPT ![r] = [Idle EXCEPT !.at = at, !.op = "attach"]]
  /\ UNCHANGED rows

AttachInsert(r, m) ==
  /\ req[r].at = "attach" /\ m \notin attached
  /\ attached' = attached \cup {m}
  /\ Finish(r)
  /\ UNCHANGED <<media, object, standing, snap, story, told, saved>>

MessageDelete(m) ==
  /\ m \in attached
  /\ attached' = attached \ {m}
  /\ UNCHANGED <<media, object, standing, snap, story, told, saved, req>>

-----------------------------------------------------------------------------
(* Memories, and the owner's own delete.                                   *)

SaveArrive(r, u) ==
  /\ req[r].at = "idle" /\ Known
  /\ req' = [req EXCEPT ![r] = [Idle EXCEPT !.at = "auth_row", !.op = "save", !.me = u]]
  /\ UNCHANGED rows

SaveInsert(r) ==
  /\ req[r].at = "save"
  /\ saved' = TRUE
  /\ Finish(r)
  /\ UNCHANGED <<media, object, standing, snap, story, told, attached>>

RemoveRead(r) ==
  /\ req[r].at = "idle" /\ media = "ready"
  /\ req' = [req EXCEPT ![r] = [Idle EXCEPT !.at = "remove_write"]]
  /\ UNCHANGED rows

\* The row is marked; the bytes stay, and no worker comes for them.
RemoveWrite(r) ==
  /\ req[r].at = "remove_write"
  /\ media' = "removed"
  /\ Finish(r)
  /\ UNCHANGED <<object, standing, snap, story, told, attached, saved>>

-----------------------------------------------------------------------------
(* runCleanup, which the timer starts whether or not the last has ended.   *)

SweepExpire(r) ==
  /\ req[r].at = "idle" /\ media # "none"
  /\ snap' = [s \in SnapIds |-> [u \in Users |->
                IF snap[s][u].due THEN [snap[s][u] EXCEPT !.status = "expired", !.due = FALSE]
                                  ELSE snap[s][u]]]
  /\ req' = [req EXCEPT ![r] = [Idle EXCEPT !.at = "select"]]
  /\ UNCHANGED <<media, object, standing, story, told, attached, saved>>

\* Fault: Memories are not asked for.
SelectForgetsMemories(r) ==
  /\ req[r].at = "select"
  /\ IF media = "removed" \/ (\A s \in SnapIds : ~Sent(s))
        \/ \E s \in SnapIds, u \in Users : snap[s][u].status \in {"delivered", "opened"}
        \/ \E t \in StoryIds : story[t].state = "posted"
        \/ attached # {}
       THEN Finish(r) ELSE Goto(r, "purge")
  /\ UNCHANGED rows

SweepSelect(r) ==
  /\ req[r].at = "select"
  /\ IF media # "removed" /\ ~Needed /\ \E s \in SnapIds : Sent(s)
       THEN Goto(r, "purge") ELSE Finish(r)
  /\ UNCHANGED rows

\* storage.remove, which may throw: the next run retries.
Purge(r) ==
  /\ req[r].at = "purge"
  /\ \/ object' = "gone" /\ Goto(r, "purged")
     \/ UNCHANGED object /\ Finish(r)
  /\ UNCHANGED <<media, standing, snap, story, told, attached, saved>>

PurgeMark(r) ==
  /\ req[r].at = "purged"
  /\ media' = "removed"
  /\ Finish(r)
  /\ UNCHANGED <<object, standing, snap, story, told, attached, saved>>

-----------------------------------------------------------------------------
(* Around the handlers: failures, time, friendships and blocks.            *)

\* A statement throws, or the process dies: the rest of the handler is lost.
Abort(r) ==
  /\ req[r].at \in InFlight
  /\ Finish(r)
  /\ UNCHANGED rows

\* expires_at of a recipient row passes.
SnapDue(s, u) ==
  /\ snap[s][u].status \in {"delivered", "opened"} /\ ~snap[s][u].due
  /\ snap' = [snap EXCEPT ![s][u].due = TRUE]
  /\ UNCHANGED <<media, object, standing, story, told, attached, saved, req>>

StoryOver(t) ==
  /\ story[t].state = "posted" /\ ~story[t].over
  /\ story' = [story EXCEPT ![t].over = TRUE]
  /\ UNCHANGED <<media, object, standing, snap, told, attached, saved, req>>

Stand(u, how) ==
  /\ u # Owner /\ standing[u] # how
  /\ standing' = [standing EXCEPT ![u] = how]
  /\ UNCHANGED <<media, object, snap, story, told, attached, saved, req>>

Arrive(r) ==
  \/ UploadInsert(r) \/ RemoveRead(r) \/ SweepExpire(r)
  \/ \E to \in SUBSET Users : SendArrive(r, to)
  \/ PostArrive(r) \/ AttachArrive(r)
  \/ \E u \in Users : \/ SaveArrive(r, u)
                      \/ \E s \in SnapIds : OpenRead(r, u, s)
                      \/ \E t \in StoryIds : ViewRead(r, u, t)

Continue(r) ==
  \/ UploadPut(r) \/ UploadMark(r)
  \/ AuthRow(r) \/ AuthBlock(r) \/ AuthRefs(r)
  \/ SendAllowed(r) \/ \E s \in SnapIds : SendInsert(r, s)
  \/ OpenBlock(r) \/ OpenExpire(r) \/ OpenWrite(r) \/ OpenNotify(r)
  \/ \E t \in StoryIds : PostInsert(r, t)
  \/ \E m \in MsgIds : AttachInsert(r, m)
  \/ ViewWrite(r) \/ SaveInsert(r) \/ RemoveWrite(r)
  \/ SweepSelect(r) \/ Purge(r) \/ PurgeMark(r)

Surroundings ==
  \/ \E s \in SnapIds, u \in Users : SnapDue(s, u)
  \/ \E t \in StoryIds : StoryOver(t) \/ StoryRemove(t)
  \/ \E m \in MsgIds : MessageDelete(m)
  \/ \E u \in Users, how \in Standings : Stand(u, how)

Next ==
  \/ \E r \in Reqs : Arrive(r) \/ Continue(r) \/ Abort(r)
  \/ Surroundings

Spec == Init /\ [][Next]_vars

-----------------------------------------------------------------------------
(* Type invariant                                                          *)

\* Its columns agree: opened_at and the replays with the status.
Lived(row) ==
  /\ row.status = "none" => row = NoRow
  /\ row.status = "opened" => row.opened
  /\ row.status = "delivered" => ~row.opened
  /\ row.due => row.status \in {"delivered", "opened"}
  /\ row.replays > 0 => row.opened

TypeOK ==
  /\ media \in {"none", "uploading", "failed", "ready", "removed"}
  /\ object \in {"none", "stored", "gone"}
  /\ standing \in [Users -> Standings]
  /\ snap \in [SnapIds -> [Users -> Row]]
  /\ \A s \in SnapIds, u \in Users : Lived(snap[s][u])
  /\ story \in [StoryIds -> Story]
  /\ told \in [SnapIds -> [Users -> Nat]]
  /\ attached \in SUBSET MsgIds
  /\ saved \in BOOLEAN
  /\ req \in [Reqs -> Request]

-----------------------------------------------------------------------------
(* What every interleaving keeps.                                          *)

\* An open that may still write over the recipient row.
Opening(q, s, u) ==
  /\ q.snap = s /\ q.me = u
  /\ \/ q.at = "open_block" /\ q.row.status # "expired"
     \/ q.at = "open_write"

\* Once a snap has expired and no open that read it before is in flight, it is
\* expired for good, whatever arrives afterwards (open(), runCleanup()).
ExpiryHolds ==
  \A s \in SnapIds, u \in Users :
    LET lost == /\ snap[s][u].status = "expired"
                /\ \A r \in Reqs : ~Opening(req[r], s, u)
    IN  lost => lost'

\* The media is deleted, no snap, story or Memories refer to it, and no handler that
\* has passed its checks is still to let them.
Dead ==
  /\ media = "removed" /\ ~Kept
  /\ \A r \in Reqs :
       /\ req[r].at \notin {"mark", "allowed", "insert", "post", "save", "auth_block",
                            "auth_refs"}
       /\ \A s \in SnapIds, u \in Users : ~Opening(req[r], s, u)

\* Nothing revives it: authorise() finds no deleted row, and an expired snap is
\* not opened (the fear of runCleanup()'s comment, from the other side).  A message is
\* excepted: as text it carries any id.
DeathHolds == Dead => Dead'

\* Whatever was in flight when the worker ran, a snap that has expired and media that
\* is deleted do not come back.
GoneForGood == [][ExpiryHolds /\ DeathHolds]_vars

\* The row precedes the bytes (upload()'s comment: bytes with no row are an orphan
\* nothing knows about), and ready media has had its bytes stored.  They may be gone
\* again: the worker removes them first, and may fail before it marks the row.
RowBeforeBytes ==
  /\ object # "none" => media # "none"
  /\ media = "ready" => object # "none"

=============================================================================
