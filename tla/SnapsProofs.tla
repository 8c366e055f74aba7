---------------------------- MODULE SnapsProofs -----------------------------
(***************************************************************************)
(* Proofs about Snaps, for any users, snaps, stories and handlers.         *)
(*                                                                         *)
(* The lemmas of the second section say, for one variable at a time, who   *)
(* may change it and how; everything after them follows from these.        *)
(***************************************************************************)
EXTENDS SnapsSerial, Counting, FiniteSetTheorems, TLAPS

Authorising == {"auth_row", "auth_block", "auth_refs"}

\* Positions that only requests about uploaded media reach.
Late == InFlight \ {"put", "mark", "select"}

\* What a handler knows of the media m and the bytes o, whatever has run since.
Knows(q, m, o) ==
  /\ q.at \in Authorising => q.op # "other"
  /\ q.at \in {"put", "mark"} => m = "uploading"
  /\ q.at = "mark" /\ q.ok => o # "none"
  /\ q.at = "open_notify" => ~q.row.opened
  /\ q.at \in Late => m \in {"ready", "removed"}

\* Nothing refers to media that is not uploaded yet.
NothingEarly ==
  ~Known => /\ \A s \in SnapIds, u \in Users : snap[s][u].status = "none"
            /\ \A t \in StoryIds : story[t].state = "none"

OneUpload == \A r, s \in Reqs :
               req[r].at \in {"put", "mark"} /\ req[s].at \in {"put", "mark"} => r = s

IInv ==
  /\ TypeOK
  /\ \A r \in Reqs : Knows(req[r], media, object)
  /\ NothingEarly /\ OneUpload /\ RowBeforeBytes

-----------------------------------------------------------------------------
(* Types, and what a step does to a handler.                               *)

LEMMA IdleFits == Idle \in Request /\ \A m, o : Knows(Idle, m, o)
  BY OwnerIsUser DEF Idle, Request, Knows, NoRow, Row, Ops, InFlight, Authorising, Late

LEMMA NoStoryFits == NoStory \in Story /\ \A p \in Privacies, a \in SUBSET Users :
                       [NoStory EXCEPT !.state = "posted", !.privacy = p, !.audience = a] \in Story
  BY PrivaciesAreThree DEF NoStory, Story

\* Where the handler q may go.
Moved(q, p) ==
  \/ p = Idle
  \/ q.at = "idle" /\ p.at = "put" /\ media = "none" /\ media' = "uploading"
  \/ q.at = "put" /\ p.at = "mark" /\ (p.ok => object' = "stored")
  \/ q.at = "idle" /\ p.at = "auth_row" /\ p.op # "other" /\ Known
  \/ q.at = "idle" /\ p.at = "attach" /\ Known
  \/ /\ q.at \in Authorising /\ p.op = q.op
     /\ p.at \in {"auth_block", "auth_refs", "allowed", "post", "save", "attach"}
     /\ p.at = "auth_block" => q.at = "auth_row"
     /\ q.at = "auth_row" => media # "removed"
  \/ q.at = "allowed" /\ p.at = "insert"
  \/ /\ q.at = "idle" /\ p.at = "open_block" /\ p.snap \in SnapIds /\ p.me \in Users
     /\ p.row = snap[p.snap][p.me] /\ p.row.status # "none"
  \/ q.at = "open_block" /\ p.at = "open_expire"
  \/ /\ q.at = "open_block" /\ p.at = "open_write"
     /\ p.snap = q.snap /\ p.me = q.me /\ p.row = q.row
     /\ q.row.status # "expired"
     /\ q.row.opened => ~(q.row.replays >= REPLAY_LIMIT)
  \/ /\ q.at = "open_write" /\ p.at = "open_notify" /\ ~q.row.opened
     /\ p.snap = q.snap /\ p.me = q.me /\ p.row = NoRow
     /\ q.snap \in SnapIds => snap'[q.snap][q.me].opened
  \/ q.at = "idle" /\ p.at = "view_write" /\ \E t \in StoryIds : story[t].state = "posted"
  \/ q.at = "idle" /\ p.at = "remove_write" /\ media = "ready"
  \/ q.at = "idle" /\ p.at = "select" /\ media # "none"
  \/ q.at = "select" /\ p.at = "purge" /\ ~Needed /\ media # "removed"
     /\ \E s \in SnapIds : Sent(s)
  \/ q.at = "purge" /\ p.at = "purged"

\* A step changes one handler at most, to another of the same type.
LEMMA Moves ==
  ASSUME TypeOK, \A r \in Reqs : Knows(req[r], media, object), [Next]_vars
  PROVE  \/ UNCHANGED req
         \/ \E r \in Reqs, p \in Request : /\ req' = [req EXCEPT ![r] = p]
                                           /\ Moved(req[r], p)
<1> DEFINE Goal(r) == \E p \in Request : /\ req' = [req EXCEPT ![r] = p]
                                         /\ Moved(req[r], p)
<1>0. ASSUME NEW r \in Reqs
      PROVE  req[r] \in Request /\ Idle \in Request
             /\ (req[r].at \in Authorising => req[r].op # "other")
  BY IdleFits DEF TypeOK, Knows
<1>1. ASSUME NEW r \in Reqs, Finish(r) PROVE Goal(r)
  BY <1>0, <1>1 DEF Finish, Moved
<1>2. ASSUME NEW r \in Reqs, UploadInsert(r) \/ RemoveRead(r) \/ SweepExpire(r) PROVE Goal(r)
  <2>1. PICK at \in {"put", "remove_write", "select"} :
          /\ req[r].at = "idle" /\ req' = [req EXCEPT ![r] = [Idle EXCEPT !.at = at]]
          /\ \/ at = "put" /\ media = "none" /\ media' = "uploading"
             \/ at = "remove_write" /\ media = "ready"
             \/ at = "select" /\ media # "none"
    BY <1>2 DEF UploadInsert, RemoveRead, SweepExpire
  <2> DEFINE p == [Idle EXCEPT !.at = at]
  <2>2. p \in Request
    BY <1>0 DEF Request, InFlight
  <2>3. Moved(req[r], p)
    BY <2>1 DEF Moved, Idle
  <2>4. QED
    BY <2>1, <2>2, <2>3
<1>3. ASSUME NEW r \in Reqs, NEW p \in {[Idle EXCEPT !.at = "auth_row", !.op = "post"]}
        \cup {[Idle EXCEPT !.at = "auth_row", !.op = "send", !.to = to] : to \in SUBSET Users}
        \cup {[Idle EXCEPT !.at = "auth_row", !.op = "save", !.me = u] : u \in Users}
        \cup {[Idle EXCEPT !.at = at, !.op = "attach"] : at \in {"auth_row", "attach"}},
             req[r].at = "idle", Known, req' = [req EXCEPT ![r] = p]
      PROVE  Goal(r)
  <2>1. p \in Request
    <3>1. [Idle EXCEPT !.at = "auth_row", !.op = "post"] \in Request
      BY <1>0 DEF Request, InFlight, Ops
    <3>2. \A to \in SUBSET Users :
            [Idle EXCEPT !.at = "auth_row", !.op = "send", !.to = to] \in Request
      BY <1>0 DEF Request, InFlight, Ops
    <3>3. \A u \in Users :
            [Idle EXCEPT !.at = "auth_row", !.op = "save", !.me = u] \in Request
      BY <1>0 DEF Request, InFlight, Ops
    <3>4. \A at \in {"auth_row", "attach"} : [Idle EXCEPT !.at = at, !.op = "attach"] \in Request
      BY <1>0 DEF Request, InFlight, Ops
    <3>5. QED
      BY <1>3, <3>1, <3>2, <3>3, <3>4
  <2>2. p.at = "attach" \/ (p.at = "auth_row" /\ p.op # "other")
    BY <1>3 DEF Idle
  <2>3. Moved(req[r], p)
    BY <1>3, <2>2 DEF Moved
  <2>4. QED
    BY <1>3, <2>1, <2>3
<1>4. ASSUME NEW r \in Reqs, NEW u \in Users, NEW s \in SnapIds, OpenRead(r, u, s)
      PROVE  Goal(r)
  <2> DEFINE p == [Idle EXCEPT !.at = "open_block", !.me = u, !.snap = s, !.row = snap[s][u]]
  <2>1. snap[s][u] \in Row
    BY DEF TypeOK
  <2>2. p \in Request
    BY <1>0, <2>1 DEF Request, InFlight
  <2>3. Moved(req[r], p)
    BY <1>4 DEF Moved, OpenRead, Idle
  <2>4. QED
    BY <1>4, <2>2, <2>3 DEF OpenRead
<1>5. ASSUME NEW r \in Reqs, NEW u \in Users, NEW t \in StoryIds, ViewRead(r, u, t)
      PROVE  Goal(r)
  <2> DEFINE p == [Idle EXCEPT !.at = "view_write", !.me = u, !.story = t]
  <2>1. p \in Request
    BY <1>0 DEF Request, Idle, InFlight
  <2>2. Moved(req[r], p)
    BY <1>5 DEF Moved, ViewRead, MaySee, Idle
  <2>3. QED
    BY <1>5, <2>1, <2>2 DEF ViewRead
<1>6. ASSUME NEW r \in Reqs, UploadPut(r) PROVE Goal(r)
  <2>1. PICK stored \in BOOLEAN :
          /\ req' = [req EXCEPT ![r].at = "mark", ![r].ok = stored]
          /\ object' = IF stored THEN "stored" ELSE object
    BY <1>6 DEF UploadPut
  <2> DEFINE p == [req[r] EXCEPT !.at = "mark", !.ok = stored]
  <2>2. /\ p \in Request /\ p.at = "mark" /\ p.ok = stored
    <3>1. "mark" \in InFlight
      BY DEF InFlight
    <3>2. QED
      BY <1>0, <3>1 DEF Request
  <2>3. req' = [req EXCEPT ![r] = p]
    BY <1>0, <2>1 DEF TypeOK, Request
  <2>4. req[r].at = "put" /\ (stored => object' = "stored")
    BY <1>6, <2>1 DEF UploadPut
  <2>5. Moved(req[r], p)
    BY <2>2, <2>4 DEF Moved
  <2>6. QED
    BY <2>2, <2>3, <2>5
<1>7. ASSUME NEW r \in Reqs, NEW at \in InFlight, Goto(r, at),
             Moved(req[r], [req[r] EXCEPT !.at = at])
      PROVE  Goal(r)
  <2> DEFINE p == [req[r] EXCEPT !.at = at]
  <2>1. req' = [req EXCEPT ![r] = p] /\ p \in Request
    BY <1>0, <1>7 DEF Goto, Request, TypeOK
  <2>2. QED
    BY <1>7, <2>1
<1>8. ASSUME NEW r \in Reqs, AuthRow(r) \/ AuthBlock(r) \/ AuthRefs(r) PROVE Goal(r)
  <2>1. CASE Finish(r)
    BY <1>1, <2>1
  <2>2. CASE ~Finish(r)
    <3>1. /\ req[r].at \in Authorising
          /\ req[r].at = "auth_row" => media # "removed"
          /\ \E at \in {"auth_block", "auth_refs", "allowed", "post", "save", "attach"} :
               Goto(r, at) /\ (at = "auth_block" => req[r].at = "auth_row")
      BY <1>0, <1>8, <2>2
      DEF AuthRow, AuthBlock, AuthRefs, AuthorisedTo, Authorising, Request, Ops
    <3>2. PICK at \in {"auth_block", "auth_refs", "allowed", "post", "save", "attach"} :
            Goto(r, at) /\ (at = "auth_block" => req[r].at = "auth_row")
      BY <3>1
    <3>3. Moved(req[r], [req[r] EXCEPT !.at = at])
      BY <1>0, <3>1, <3>2 DEF Moved, Request
    <3>4. at \in InFlight
      BY DEF InFlight
    <3>5. QED
      BY <1>7, <3>2, <3>3, <3>4
  <2>3. QED
    BY <2>1, <2>2
<1>15. ASSUME NEW r \in Reqs, NEW at \in InFlight, LetGo(r, at),
              Moved(req[r], [req[r] EXCEPT !.at = at, !.row = NoRow])
       PROVE  Goal(r)
  <2> DEFINE p == [req[r] EXCEPT !.at = at, !.row = NoRow]
  <2>1. NoRow \in Row
    BY DEF NoRow, Row
  <2>2. p \in Request
    BY <1>0, <2>1 DEF Request
  <2>3. req' = [req EXCEPT ![r] = p]
    BY <1>0, <1>15 DEF LetGo, Request, TypeOK
  <2>4. QED
    BY <1>15, <2>2, <2>3
<1>9. ASSUME NEW r \in Reqs, OpenBlock(r) \/ OpenWrite(r) \/ SweepSelect(r) \/ Purge(r)
      PROVE  Goal(r)
  <2>1. CASE Finish(r)
    BY <1>1, <2>1
  <2>2. ASSUME OpenWrite(r)
        PROVE  req[r].snap \in SnapIds => snap'[req[r].snap][req[r].me].opened
    <3> DEFINE s == req[r].snap
               u == req[r].me
               new == [snap[s][u] EXCEPT !.status = "opened", !.opened = TRUE, !.due = FALSE,
                         !.replays = snap[s][u].replays + IF req[r].row.opened THEN 1 ELSE 0]
    <3>1. snap' = [snap EXCEPT ![s][u] = new] /\ u \in Users
          /\ snap \in [SnapIds -> [Users -> Row]]
      BY <1>0, <2>2 DEF OpenWrite, TypeOK, Request
    <3>2. s \in SnapIds => new.opened
      BY <3>1 DEF Row
    <3> HIDE DEF new
    <3>3. QED
      BY <3>1, <3>2
  <2>3. CASE ~Finish(r)
    <3>1. CASE OpenBlock(r)
      <4>1. CASE LetGo(r, "open_expire") /\ req[r].at = "open_block"
        <5>1. Moved(req[r], [req[r] EXCEPT !.at = "open_expire", !.row = NoRow])
          BY <1>0, <4>1 DEF Moved, Request
        <5>2. QED
          BY <1>15, <4>1, <5>1 DEF InFlight
      <4>2. CASE Goto(r, "open_write")
        <5>1. Moved(req[r], [req[r] EXCEPT !.at = "open_write"])
          <6>1. /\ req[r].at = "open_block" /\ req[r].row.status # "expired"
                /\ req[r].row.opened => ~(req[r].row.replays >= REPLAY_LIMIT)
            BY <1>0, <2>3, <3>1, <4>2 DEF OpenBlock, Goto, LetGo, Finish, Idle, TypeOK, Request
          <6>2. QED
            BY <1>0, <6>1 DEF Moved, Request
        <5>2. QED
          BY <1>7, <4>2, <5>1 DEF InFlight
      <4>3. QED
        BY <2>3, <3>1, <4>1, <4>2 DEF OpenBlock
    <3>2. CASE OpenWrite(r)
      <4>1. LetGo(r, "open_notify") /\ req[r].at = "open_write" /\ ~req[r].row.opened
        BY <2>3, <3>2 DEF OpenWrite
      <4>2. Moved(req[r], [req[r] EXCEPT !.at = "open_notify", !.row = NoRow])
        BY <1>0, <2>2, <3>2, <4>1 DEF Moved, Request
      <4>3. QED
        BY <1>15, <4>1, <4>2 DEF InFlight
    <3>3. CASE SweepSelect(r) \/ Purge(r)
      <4>1. PICK at \in {"purge", "purged"} :
              Goto(r, at) /\ Moved(req[r], [req[r] EXCEPT !.at = at])
        <5>1. CASE SweepSelect(r)
          BY <1>0, <2>3, <5>1 DEF SweepSelect, Moved, Request
        <5>2. CASE Purge(r)
          BY <1>0, <2>3, <5>2 DEF Purge, Moved, Request
        <5>3. QED
          BY <3>3, <5>1, <5>2
      <4>2. QED
        BY <1>7, <4>1 DEF InFlight
    <3>4. QED
      BY <1>9, <3>1, <3>2, <3>3
  <2>4. QED
    BY <2>1, <2>3
<1>10. ASSUME NEW r \in Reqs, SendAllowed(r) PROVE Goal(r)
  <2>1. CASE Finish(r)
    BY <1>1, <2>1
  <2>2. CASE ~Finish(r)
    <3> DEFINE to == {u \in req[r].to : Friend(u)}
               p == [req[r] EXCEPT !.at = "insert", !.to = to]
    <3>0. /\ req' = [req EXCEPT ![r].at = "insert", ![r].to = to]
          /\ req[r] \in Request /\ to \in SUBSET Users
      BY <1>0, <1>10, <2>2 DEF SendAllowed, Request
    <3> HIDE DEF to
    <3>1. req' = [req EXCEPT ![r] = p] /\ p \in Request
      BY <3>0 DEF Request, InFlight, TypeOK
    <3>2. Moved(req[r], p)
      BY <1>0, <1>10 DEF SendAllowed, Moved, Request
    <3>3. QED
      BY <3>1, <3>2
  <2>3. QED
    BY <2>1, <2>2
<1>11. ASSUME NEW r \in Reqs, Arrive(r) PROVE Goal(r)
  <2> HIDE DEF Goal
  <2>1. CASE (\E to \in SUBSET Users : SendArrive(r, to)) \/ PostArrive(r)
             \/ AttachArrive(r) \/ \E u \in Users : SaveArrive(r, u)
    BY <1>3, <2>1 DEF SendArrive, PostArrive, AttachArrive, SaveArrive
  <2>2. QED
    BY <1>11, <1>2, <1>4, <1>5, <2>1 DEF Arrive
<1>12. ASSUME NEW r \in Reqs, Continue(r) \/ Abort(r) PROVE Goal(r)
  <2> HIDE DEF Goal
  <2>1. \/ Finish(r) \/ UploadPut(r) \/ SendAllowed(r)
        \/ AuthRow(r) \/ AuthBlock(r) \/ AuthRefs(r)
        \/ OpenBlock(r) \/ OpenWrite(r) \/ SweepSelect(r) \/ Purge(r)
    BY <1>12 DEF Continue, Abort, UploadMark, SendInsert, OpenExpire, OpenNotify, PostInsert,
                 ViewWrite, AttachInsert, SaveInsert, RemoveWrite, PurgeMark
  <2>2. QED
    BY <2>1, <1>1, <1>6, <1>8, <1>9, <1>10
<1>13. CASE Surroundings \/ UNCHANGED vars
  BY <1>13 DEF Surroundings, SnapDue, StoryOver, StoryRemove, MessageDelete, Stand, vars
<1>14. QED
  BY <1>11, <1>12, <1>13 DEF Next
-----------------------------------------------------------------------------
(* Who changes each table, and how.                                        *)

\* The steps that write each table.
LEMMA Writers ==
  ASSUME [Next]_vars
  PROVE  /\ UNCHANGED media \/ \E r \in Reqs : \/ UploadInsert(r) \/ UploadMark(r)
                                              \/ RemoveWrite(r) \/ PurgeMark(r)
         /\ UNCHANGED object \/ \E r \in Reqs : UploadPut(r) \/ Purge(r)
         /\ UNCHANGED saved \/ \E r \in Reqs : SaveInsert(r)
         /\ \/ UNCHANGED attached
            \/ \E m \in MsgIds : MessageDelete(m) \/ \E r \in Reqs : AttachInsert(r, m)
         /\ \/ UNCHANGED snap
            \/ \E r \in Reqs : \/ \E s \in SnapIds : SendInsert(r, s)
                               \/ OpenExpire(r) \/ OpenWrite(r) \/ SweepExpire(r)
            \/ \E s \in SnapIds, u \in Users : SnapDue(s, u)
         /\ \/ UNCHANGED story
            \/ \E r \in Reqs : ViewWrite(r) \/ \E t \in StoryIds : PostInsert(r, t)
            \/ \E t \in StoryIds : StoryOver(t) \/ StoryRemove(t)
         /\ UNCHANGED told \/ \E r \in Reqs : OpenNotify(r)
         /\ UNCHANGED standing \/ \E u \in Users, how \in Standings : Stand(u, how)
<1>1. ASSUME NEW r \in Reqs, Arrive(r)
      PROVE  /\ UNCHANGED <<object, saved, attached, story, told, standing>>
             /\ UNCHANGED media \/ UploadInsert(r)
             /\ UNCHANGED snap \/ SweepExpire(r)
  BY <1>1 DEF Arrive, UploadInsert, RemoveRead, SweepExpire, SendArrive, PostArrive,
              AttachArrive, SaveArrive, OpenRead, ViewRead, rows
<1>2. ASSUME NEW r \in Reqs, Continue(r) \/ Abort(r)
      PROVE  /\ UNCHANGED media \/ UploadMark(r) \/ RemoveWrite(r) \/ PurgeMark(r)
             /\ UNCHANGED object \/ UploadPut(r) \/ Purge(r)
             /\ UNCHANGED saved \/ SaveInsert(r)
             /\ UNCHANGED attached \/ \E m \in MsgIds : AttachInsert(r, m)
             /\ \/ UNCHANGED snap \/ OpenExpire(r) \/ OpenWrite(r)
                \/ \E s \in SnapIds : SendInsert(r, s)
             /\ UNCHANGED story \/ ViewWrite(r) \/ \E t \in StoryIds : PostInsert(r, t)
             /\ UNCHANGED told \/ OpenNotify(r)
             /\ UNCHANGED standing
  BY <1>2 DEF Continue, Abort, UploadPut, UploadMark, AuthRow, AuthBlock, AuthRefs,
              SendAllowed, SendInsert, OpenBlock, OpenExpire, OpenWrite, OpenNotify,
              PostInsert, ViewWrite, AttachInsert, SaveInsert, RemoveWrite, SweepSelect, Purge,
              PurgeMark,
              rows
<1>3. CASE Surroundings \/ UNCHANGED vars
  BY <1>3 DEF Surroundings, SnapDue, StoryOver, StoryRemove, MessageDelete, Stand, vars
<1>4. QED
  BY <1>1, <1>2, <1>3 DEF Next

LEMMA MediaMoves ==
  ASSUME [Next]_vars, media' # media
  PROVE  \/ media = "none" /\ media' = "uploading"
         \/ \E r \in Reqs : /\ req[r].at = "mark" /\ req' = [req EXCEPT ![r] = Idle]
                            /\ media' = IF req[r].ok THEN "ready" ELSE "failed"
         \/ \E r \in Reqs : req[r].at \in {"remove_write", "purged"} /\ media' = "removed"
<1>1. PICK r \in Reqs : \/ UploadInsert(r) \/ UploadMark(r)
                       \/ RemoveWrite(r) \/ PurgeMark(r)
  BY Writers
<1>2. QED
  BY <1>1 DEF UploadInsert, UploadMark, RemoveWrite, PurgeMark, Finish

LEMMA ObjectMoves ==
  ASSUME [Next]_vars, object' # object
  PROVE  \/ \E r \in Reqs : req[r].at = "put" /\ object' = "stored"
         \/ \E r \in Reqs : /\ req[r].at = "purge" /\ object' = "gone"
                            /\ req' = [req EXCEPT ![r].at = "purged"]
<1>1. PICK r \in Reqs : UploadPut(r) \/ Purge(r)
  BY Writers
<1>2. QED
  BY <1>1 DEF UploadPut, Purge, Goto

LEMMA SavedMoves ==
  ASSUME [Next]_vars
  PROVE  UNCHANGED saved \/ \E r \in Reqs : req[r].at = "save" /\ saved' = TRUE
<1>1. ASSUME NEW r \in Reqs, SaveInsert(r) PROVE req[r].at = "save" /\ saved' = TRUE
  BY <1>1 DEF SaveInsert
<1>2. QED
  BY <1>1, Writers

LEMMA AttachedMoves ==
  ASSUME TypeOK, [Next]_vars
  PROVE  /\ attached' \in SUBSET MsgIds
         /\ attached' \subseteq attached \/ \E r \in Reqs : req[r].at = "attach"
  BY Writers DEF TypeOK, AttachInsert, MessageDelete

\* A row of snap_recipients is written by send, by open, by the worker, or by time.
LEMMA SnapMoves ==
  ASSUME TypeOK, [Next]_vars
  PROVE  /\ snap' \in [SnapIds -> [Users -> Row]]
         /\ \A s \in SnapIds, u \in Users :
              LET old == snap[s][u]
                  new == snap'[s][u]
              IN  \/ new = old
                  \/ /\ \E r \in Reqs : req[r].at = "insert"
                     /\ ~Sent(s) /\ new.replays = 0 /\ ~new.opened /\ ~new.due
                     /\ new.status = "delivered" \/ new = NoRow
                  \/ /\ old.due \/ \E r \in Reqs : req[r].at = "open_expire"
                     /\ new = [old EXCEPT !.status = "expired", !.due = FALSE]
                  \/ \E r \in Reqs :
                       /\ req[r].at = "open_write" /\ req[r].snap = s /\ req[r].me = u
                       /\ new.status = "opened" /\ new.opened
                       /\ new.replays = old.replays + IF req[r].row.opened THEN 1 ELSE 0
                       /\ req' = [req EXCEPT ![r] = IF req[r].row.opened THEN Idle
                                                    ELSE [req[r] EXCEPT !.at = "open_notify",
                                                                        !.row = NoRow]]
                  \/ /\ old.status \in {"delivered", "opened"}
                     /\ new = [old EXCEPT !.due = TRUE]
<1> DEFINE Fine(s, u, old, new) ==
             \/ new = old
             \/ /\ \E r \in Reqs : req[r].at = "insert"
                /\ ~Sent(s) /\ new.replays = 0 /\ ~new.opened /\ ~new.due
                /\ new.status = "delivered" \/ new = NoRow
             \/ /\ old.due \/ \E r \in Reqs : req[r].at = "open_expire"
                /\ new = [old EXCEPT !.status = "expired", !.due = FALSE]
             \/ \E r \in Reqs :
                  /\ req[r].at = "open_write" /\ req[r].snap = s /\ req[r].me = u
                  /\ new.status = "opened" /\ new.opened
                  /\ new.replays = old.replays + IF req[r].row.opened THEN 1 ELSE 0
                  /\ req' = [req EXCEPT ![r] = IF req[r].row.opened THEN Idle
                                               ELSE [req[r] EXCEPT !.at = "open_notify",
                                                                   !.row = NoRow]]
             \/ /\ old.status \in {"delivered", "opened"}
                /\ new = [old EXCEPT !.due = TRUE]
           Goal == /\ snap' \in [SnapIds -> [Users -> Row]]
                   /\ \A s \in SnapIds, u \in Users : Fine(s, u, snap[s][u], snap'[s][u])
<1> SUFFICES Goal
  OBVIOUS
<1>0. snap \in [SnapIds -> [Users -> Row]] /\ NoRow \in Row
      /\ \A r \in Reqs : req[r] \in Request
  BY DEF TypeOK, NoRow, Row
<1>1. ASSUME NEW r \in Reqs, NEW s \in SnapIds, SendInsert(r, s) PROVE Goal
  <2> DEFINE new(u) == IF u \in req[r].to THEN [NoRow EXCEPT !.status = "delivered"] ELSE NoRow
  <2>1. \A u \in Users : /\ new(u) \in Row /\ new(u).replays = 0 /\ ~new(u).opened
                         /\ ~new(u).due /\ (new(u).status = "delivered" \/ new(u) = NoRow)
    BY DEF NoRow, Row
  <2>2. snap' = [snap EXCEPT ![s] = [u \in Users |-> new(u)]] /\ ~Sent(s)
        /\ req[r].at = "insert"
    BY <1>1 DEF SendInsert
  <2> HIDE DEF new
  <2>3. snap' \in [SnapIds -> [Users -> Row]]
    BY <1>0, <2>1, <2>2
  <2>4. ASSUME NEW z \in SnapIds, NEW u \in Users PROVE Fine(z, u, snap[z][u], snap'[z][u])
    <3>1. snap'[z][u] = IF z = s THEN new(u) ELSE snap[z][u]
      BY <1>0, <2>2
    <3>2. QED
      BY <2>1, <2>2, <3>1
  <2>5. QED
    BY <2>3, <2>4
<1>2. ASSUME NEW r \in Reqs, OpenExpire(r) PROVE Goal
  <2> DEFINE s == req[r].snap
             u == req[r].me
  <2>1. /\ snap' = [snap EXCEPT ![s][u].status = "expired", ![s][u].due = FALSE]
        /\ req[r].at = "open_expire"
    BY <1>2 DEF OpenExpire
  <2>2. snap' = [snap EXCEPT ![s][u] = [snap[s][u] EXCEPT !.status = "expired", !.due = FALSE]]
    BY <1>0, <2>1 DEF Row
  <2> DEFINE new == [snap[s][u] EXCEPT !.status = "expired", !.due = FALSE]
  <2>3. s \in SnapIds /\ u \in Users => new \in Row
    <3>1. \A row \in Row : [row EXCEPT !.status = "expired", !.due = FALSE] \in Row
      BY DEF Row
    <3>2. s \in SnapIds /\ u \in Users => snap[s][u] \in Row
      BY <1>0
    <3>3. QED
      BY <3>1, <3>2
  <2> HIDE DEF new
  <2>4. /\ snap' \in [SnapIds -> [Users -> Row]]
        /\ \A z \in SnapIds, v \in Users :
             snap'[z][v] = IF z = s /\ v = u THEN new ELSE snap[z][v]
    <3>1. snap' = [snap EXCEPT ![s][u] = new]
      BY <2>2 DEF new
    <3>2. CASE s \in SnapIds /\ u \in Users
      BY <1>0, <2>3, <3>1, <3>2
    <3>3. CASE ~(s \in SnapIds /\ u \in Users)
      BY <1>0, <3>1, <3>3
    <3>4. QED
      BY <3>2, <3>3
  <2>5. \A z \in SnapIds, v \in Users : Fine(z, v, snap[z][v], snap'[z][v])
    <3> SUFFICES ASSUME NEW z \in SnapIds, NEW v \in Users
                 PROVE  Fine(z, v, snap[z][v], snap'[z][v])
      OBVIOUS
    <3>1. snap'[z][v] = IF z = s /\ v = u THEN new ELSE snap[z][v]
      BY <2>4
    <3>2. CASE z = s /\ v = u
      BY <2>1, <3>1, <3>2 DEF new
    <3>3. CASE ~(z = s /\ v = u)
      BY <3>1, <3>3
    <3>4. QED
      BY <3>2, <3>3
  <2>6. QED
    BY <2>4, <2>5
<1>3. ASSUME NEW r \in Reqs, OpenWrite(r) PROVE Goal
  <2> DEFINE s == req[r].snap
             u == req[r].me
             new == [snap[s][u] EXCEPT !.status = "opened", !.opened = TRUE, !.due = FALSE,
                       !.replays = snap[s][u].replays + IF req[r].row.opened THEN 1 ELSE 0]
  <2>1. snap' = [snap EXCEPT ![s][u] = new] /\ req[r].at = "open_write"
        /\ req' = [req EXCEPT ![r] = IF req[r].row.opened THEN Idle
                                     ELSE [req[r] EXCEPT !.at = "open_notify",
                                                         !.row = NoRow]]
    BY <1>0, <1>3 DEF OpenWrite, Finish, LetGo, TypeOK
  <2>2. CASE s \in SnapIds /\ u \in Users
    <3>0. snap[s][u] \in Row
      BY <1>0, <2>2
    <3>1. /\ new \in Row /\ new.status = "opened" /\ new.opened
          /\ new.replays = snap[s][u].replays + IF req[r].row.opened THEN 1 ELSE 0
      <4> DEFINE k == IF req[r].row.opened THEN 1 ELSE 0
      <4>1. k \in Nat
        OBVIOUS
      <4> HIDE DEF k
      <4>2. snap[s][u].replays + k \in Nat
        BY <3>0, <4>1 DEF Row
      <4>3. new = [snap[s][u] EXCEPT !.status = "opened", !.opened = TRUE, !.due = FALSE,
                                     !.replays = snap[s][u].replays + k]
        BY DEF k
      <4>4. new \in Row /\ new.status = "opened" /\ new.opened
            /\ new.replays = snap[s][u].replays + k
        BY <3>0, <4>2, <4>3 DEF Row
      <4>5. QED
        BY <4>4 DEF k
    <3> HIDE DEF new
    <3>2. snap' \in [SnapIds -> [Users -> Row]]
          /\ \A z \in SnapIds, v \in Users :
               snap'[z][v] = IF z = s /\ v = u THEN new ELSE snap[z][v]
      BY <1>0, <2>1, <2>2, <3>1
    <3>3. Fine(s, u, snap[s][u], new)
      BY <2>1, <3>1
    <3> HIDE DEF Fine, s, u
    <3>4. ASSUME NEW z \in SnapIds, NEW v \in Users
          PROVE  Fine(z, v, snap[z][v], snap'[z][v])
      <4>1. CASE z = s /\ v = u
        <5>1. snap'[z][v] = new
          BY <3>2, <4>1
        <5>2. QED
          BY <3>3, <4>1, <5>1
      <4>2. CASE ~(z = s /\ v = u)
        <5>1. snap'[z][v] = snap[z][v]
          BY <3>2, <4>2
        <5>2. QED
          BY <5>1 DEF Fine
      <4>3. QED
        BY <4>1, <4>2
    <3>5. QED
      BY <3>2, <3>4
  <2>3. CASE ~(s \in SnapIds /\ u \in Users)
    <3> HIDE DEF new
    <3>1. snap' \in [SnapIds -> [Users -> Row]]
          /\ \A z \in SnapIds, v \in Users : snap'[z][v] = snap[z][v]
      BY <1>0, <2>1, <2>3
    <3>2. \A z \in SnapIds, v \in Users : Fine(z, v, snap[z][v], snap'[z][v])
      BY <3>1
    <3>3. QED
      BY <3>1, <3>2
  <2>4. QED
    BY <2>2, <2>3
<1>4. ASSUME NEW r \in Reqs, SweepExpire(r) PROVE Goal
  <2>1. \A z \in SnapIds, v \in Users :
          snap'[z][v] = IF snap[z][v].due
                          THEN [snap[z][v] EXCEPT !.status = "expired", !.due = FALSE]
                          ELSE snap[z][v]
    BY <1>4 DEF SweepExpire
  <2>2. \A row \in Row : [row EXCEPT !.status = "expired", !.due = FALSE] \in Row
    BY DEF Row
  <2>3. \A z \in SnapIds, v \in Users : snap'[z][v] \in Row
    BY <1>0, <2>1, <2>2
  <2>4. snap' \in [SnapIds -> [Users -> Row]]
    BY <1>4, <2>3 DEF SweepExpire
  <2>5. \A z \in SnapIds, v \in Users : Fine(z, v, snap[z][v], snap'[z][v])
    BY <2>1
  <2>6. QED
    BY <2>4, <2>5
<1>5. ASSUME NEW s \in SnapIds, NEW u \in Users, SnapDue(s, u) PROVE Goal
  <2> DEFINE new == [snap[s][u] EXCEPT !.due = TRUE]
  <2>1. snap' = [snap EXCEPT ![s][u] = new] /\ snap[s][u].status \in {"delivered", "opened"}
    BY <1>0, <1>5 DEF SnapDue
  <2>2. new \in Row
    <3>1. snap[s][u] \in Row
      BY <1>0
    <3>2. QED
      BY <3>1 DEF Row
  <2>3. Fine(s, u, snap[s][u], new)
    BY <2>1
  <2> HIDE DEF new
  <2>4. /\ snap' \in [SnapIds -> [Users -> Row]]
        /\ \A z \in SnapIds, v \in Users :
             snap'[z][v] = IF z = s /\ v = u THEN new ELSE snap[z][v]
    BY <1>0, <2>1, <2>2
  <2>5. ASSUME NEW z \in SnapIds, NEW v \in Users
        PROVE  Fine(z, v, snap[z][v], snap'[z][v])
    <3> HIDE DEF Fine
    <3>1. CASE z = s /\ v = u
      <4>1. snap'[z][v] = new
        BY <2>4, <3>1
      <4>2. QED
        BY <2>3, <3>1, <4>1
    <3>2. CASE ~(z = s /\ v = u)
      <4>1. snap'[z][v] = snap[z][v]
        BY <2>4, <3>2
      <4>2. QED
        BY <4>1 DEF Fine
    <3>3. QED
      BY <3>1, <3>2
  <2>6. QED
    BY <2>4, <2>5
<1>6. CASE UNCHANGED snap
  BY <1>0, <1>6
<1>7. QED
  <2> HIDE DEF Goal
  <2>1. QED
    BY <1>1, <1>2, <1>3, <1>4, <1>5, <1>6, Writers

\* A story is posted once, its viewers are counted one by one, and time and its
\* author end it.
LEMMA StoryMoves ==
  ASSUME TypeOK, [Next]_vars
  PROVE  /\ story' \in [StoryIds -> Story]
         /\ \A t \in StoryIds :
              \/ /\ story'[t].state = story[t].state
                 /\ \/ UNCHANGED <<story[t].viewers, story[t].count>>
                    \/ \E u \in Users \ story[t].viewers :
                         /\ story'[t].viewers = story[t].viewers \cup {u}
                         /\ story'[t].count = story[t].count + 1
              \/ /\ story[t].state = "none" => \E r \in Reqs : req[r].at = "post"
                 /\ story'[t].state = "posted" => \E r \in Reqs : req[r].at = "post"
                 /\ story'[t].viewers = {} /\ story'[t].count = 0
<1> DEFINE Fine(t) ==
             \/ /\ story'[t].state = story[t].state
                /\ \/ UNCHANGED <<story[t].viewers, story[t].count>>
                   \/ \E u \in Users \ story[t].viewers :
                        /\ story'[t].viewers = story[t].viewers \cup {u}
                        /\ story'[t].count = story[t].count + 1
             \/ /\ story[t].state = "none" => \E r \in Reqs : req[r].at = "post"
                /\ story'[t].state = "posted" => \E r \in Reqs : req[r].at = "post"
                /\ story'[t].viewers = {} /\ story'[t].count = 0
           Goal == story' \in [StoryIds -> Story] /\ \A t \in StoryIds : Fine(t)
<1> SUFFICES Goal
  OBVIOUS
<1>0. story \in [StoryIds -> Story] /\ \A r \in Reqs : req[r] \in Request
  BY DEF TypeOK
<1>1. ASSUME NEW r \in Reqs, NEW t \in StoryIds, PostInsert(r, t) PROVE Goal
  <2>1. PICK privacy \in Privacies, named \in SUBSET Users :
          story' = [story EXCEPT ![t] =
                      [NoStory EXCEPT !.state = "posted", !.privacy = privacy,
                                      !.audience = {u \in named : Friend(u)}]]
    BY <1>1 DEF PostInsert
  <2>2. QED
    BY <1>0, <1>1, <2>1 DEF PostInsert, NoStory, Story
<1>2. ASSUME NEW r \in Reqs, ViewWrite(r) PROVE Goal
  <2> DEFINE t == req[r].story
             u == req[r].me
             new == [story[t] EXCEPT !.viewers = story[t].viewers \cup {u},
                       !.count = story[t].count + IF u \notin story[t].viewers THEN 1 ELSE 0]
  <2>1. story' = [story EXCEPT ![t] = new] /\ u \in Users
    BY <1>0, <1>2 DEF ViewWrite, Request
  <2>2. CASE t \in StoryIds
    <3>0. story[t] \in Story
      BY <1>0, <2>2
    <3>1. /\ new \in Story /\ new.state = story[t].state
          /\ \/ new.viewers = story[t].viewers /\ new.count = story[t].count
             \/ /\ u \notin story[t].viewers /\ new.viewers = story[t].viewers \cup {u}
                /\ new.count = story[t].count + 1
      <4>1. CASE u \in story[t].viewers
        <5>1. story[t].viewers \cup {u} = story[t].viewers
              /\ story[t].count + 0 = story[t].count
          BY <3>0, <4>1 DEF Story
        <5>2. /\ new.viewers = story[t].viewers /\ new.count = story[t].count
              /\ new.state = story[t].state
          BY <3>0, <4>1, <5>1 DEF Story
        <5>3. new \in Story
          BY <3>0, <4>1, <5>1 DEF Story
        <5>4. QED
          BY <5>2, <5>3
      <4>2. CASE u \notin story[t].viewers
        <5>1. new = [story[t] EXCEPT !.viewers = story[t].viewers \cup {u},
                                     !.count = story[t].count + 1]
          BY <4>2
        <5>2. /\ story[t].viewers \cup {u} \in SUBSET Users
              /\ story[t].count + 1 \in Nat
          BY <2>1, <3>0 DEF Story
        <5>3. \A v \in SUBSET Users, n \in Nat :
                [story[t] EXCEPT !.viewers = v, !.count = n] \in Story
          BY <3>0 DEF Story
        <5>4. new \in Story
          BY <5>1, <5>2, <5>3
        <5>5. QED
          BY <3>0, <4>2, <5>1, <5>4 DEF Story
      <4>3. QED
        BY <4>1, <4>2
    <3> HIDE DEF new
    <3>2. \A z \in StoryIds : story'[z] = IF z = t THEN new ELSE story[z]
      BY <1>0, <2>1
    <3>3. QED
      BY <1>0, <2>1, <2>2, <3>1, <3>2
  <2>3. CASE t \notin StoryIds
    BY <1>0, <2>1, <2>3
  <2>4. QED
    BY <2>2, <2>3
<1>3. ASSUME NEW t \in StoryIds, StoryOver(t) PROVE Goal
  BY <1>0, <1>3 DEF StoryOver, Story
<1>9. ASSUME NEW t \in StoryIds, StoryRemove(t) PROVE Goal
  <2> DEFINE new == [NoStory EXCEPT !.state = "removed"]
  <2>1. new \in Story /\ new.state = "removed" /\ new.viewers = {} /\ new.count = 0
    BY NoStoryFits DEF NoStory, Story
  <2>2. story' = [story EXCEPT ![t] = new] /\ story[t].state = "posted"
    BY <1>9 DEF StoryRemove
  <2> HIDE DEF new
  <2>3. QED
    BY <1>0, <2>1, <2>2
<1>4. CASE UNCHANGED story
  BY <1>0, <1>4
<1>5. QED
  <2> HIDE DEF Goal
  <2>1. QED
    BY <1>1, <1>2, <1>3, <1>4, <1>9, Writers

\* Only the handler of a first open tells the owner, and ends with that.
LEMMA ToldMoves ==
  ASSUME TypeOK, [Next]_vars
  PROVE  /\ told' \in [SnapIds -> [Users -> Nat]]
         /\ \A s \in SnapIds, u \in Users :
              \/ told'[s][u] = told[s][u]
              \/ \E r \in Reqs :
                   /\ req[r].at = "open_notify" /\ req[r].snap = s /\ req[r].me = u
                   /\ told'[s][u] = told[s][u] + 1
                   /\ req' = [req EXCEPT ![r] = Idle]
<1>0. told \in [SnapIds -> [Users -> Nat]]
  BY DEF TypeOK
<1>1. ASSUME NEW r \in Reqs, OpenNotify(r)
      PROVE  /\ told' \in [SnapIds -> [Users -> Nat]]
             /\ \A s \in SnapIds, u \in Users :
                  \/ told'[s][u] = told[s][u]
                  \/ /\ req[r].at = "open_notify" /\ req[r].snap = s /\ req[r].me = u
                     /\ told'[s][u] = told[s][u] + 1
                     /\ req' = [req EXCEPT ![r] = Idle]
  <2> DEFINE s == req[r].snap
             u == req[r].me
  <2>1. /\ req[r].at = "open_notify" /\ req' = [req EXCEPT ![r] = Idle]
        /\ told' = [told EXCEPT ![s][u] = told[s][u] + 1]
    BY <1>1 DEF OpenNotify, Finish
  <2>2. s \in SnapIds /\ u \in Users => told[s][u] + 1 \in Nat
    BY <1>0
  <2> HIDE DEF s, u
  <2>3. /\ told' \in [SnapIds -> [Users -> Nat]]
        /\ \A z \in SnapIds, v \in Users :
             told'[z][v] = IF z = s /\ v = u THEN told[s][u] + 1 ELSE told[z][v]
    <3>1. CASE s \in SnapIds /\ u \in Users
      BY <1>0, <2>1, <2>2, <3>1
    <3>2. CASE ~(s \in SnapIds /\ u \in Users)
      BY <1>0, <2>1, <3>2
    <3>3. QED
      BY <3>1, <3>2
  <2>4. QED
    BY <2>1, <2>3 DEF s, u
<1>2. QED
  BY <1>0, <1>1, Writers
-----------------------------------------------------------------------------
(* IInv is inductive.                                                      *)

LEMMA InitIInv == Init => IInv
<1> SUFFICES ASSUME Init PROVE IInv
  OBVIOUS
<1>1. TypeOK
  <2>1. /\ snap \in [SnapIds -> [Users -> Row]]
        /\ \A s \in SnapIds, u \in Users : Lived(snap[s][u])
    BY DEF Init, Lived, NoRow, Row
  <2>2. QED
    BY <2>1, IdleFits, NoStoryFits, StandingsAreThree DEF Init, TypeOK
<1>2. /\ \A r \in Reqs : Knows(req[r], media, object)
      /\ OneUpload
  BY IdleFits DEF Init, OneUpload, Idle
<1>3. NothingEarly /\ RowBeforeBytes
  BY DEF Init, NothingEarly, RowBeforeBytes, NoRow, NoStory
<1>4. QED
  BY <1>1, <1>2, <1>3 DEF IInv

LEMMA TypeStep ==
  ASSUME IInv, [Next]_vars
  PROVE  TypeOK'
<1>1. media' \in {"none", "uploading", "failed", "ready", "removed"}
  BY MediaMoves DEF IInv, TypeOK
<1>2. object' \in {"none", "stored", "gone"}
  BY ObjectMoves DEF IInv, TypeOK
<1>3. standing' \in [Users -> Standings]
  BY Writers DEF IInv, TypeOK, Stand
<1>4. snap' \in [SnapIds -> [Users -> Row]]
  BY SnapMoves DEF IInv
<1>9. ASSUME NEW s \in SnapIds, NEW u \in Users PROVE Lived(snap'[s][u])
  <2>1. TypeOK /\ snap[s][u] \in Row /\ snap'[s][u] \in Row /\ Lived(snap[s][u])
    BY <1>4 DEF IInv, TypeOK
  <2> DEFINE old == snap[s][u]
             new == snap'[s][u]
  <2>2. CASE new = old
    BY <2>1, <2>2
  <2>3. CASE new.replays = 0 /\ ~new.opened /\ ~new.due
             /\ (new.status = "delivered" \/ new = NoRow)
    BY <2>3 DEF Lived, NoRow
  <2>4. CASE new = [old EXCEPT !.status = "expired", !.due = FALSE]
    BY <2>1, <2>4 DEF Lived, Row
  <2>5. CASE new.status = "opened" /\ new.opened
    BY <2>5 DEF Lived
  <2>6. CASE old.status \in {"delivered", "opened"} /\ new = [old EXCEPT !.due = TRUE]
    BY <2>1, <2>6 DEF Lived, Row
  <2>7. \/ new = old
        \/ new.replays = 0 /\ ~new.opened /\ ~new.due
           /\ (new.status = "delivered" \/ new = NoRow)
        \/ new = [old EXCEPT !.status = "expired", !.due = FALSE]
        \/ new.status = "opened" /\ new.opened
        \/ old.status \in {"delivered", "opened"} /\ new = [old EXCEPT !.due = TRUE]
    BY ZenonT(60), <2>1, SnapMoves
  <2>8. QED
    BY <2>2, <2>3, <2>4, <2>5, <2>6, <2>7
<1>5. story' \in [StoryIds -> Story] /\ told' \in [SnapIds -> [Users -> Nat]]
  BY StoryMoves, ToldMoves DEF IInv
<1>6. saved' \in BOOLEAN /\ attached' \in SUBSET MsgIds
  BY SavedMoves, AttachedMoves DEF IInv, TypeOK
<1>7. req' \in [Reqs -> Request]
  BY Moves DEF IInv, TypeOK
<1>8. QED
  BY <1>1, <1>2, <1>3, <1>4, <1>5, <1>6, <1>7, <1>9 DEF TypeOK

\* What a step leaves of a handler, seen from that handler.
LEMMA HandlerMoves ==
  ASSUME IInv, [Next]_vars, NEW s \in Reqs
  PROVE  /\ req[s] \in Request /\ req'[s] \in Request
         /\ Knows(req[s], media, object)
         /\ req'[s] = req[s] \/ Moved(req[s], req'[s])
<1>1. req \in [Reqs -> Request] /\ \A r \in Reqs : Knows(req[r], media, object)
  BY DEF IInv, TypeOK
<1>2. CASE UNCHANGED req
  BY <1>1, <1>2
<1>3. ASSUME NEW r \in Reqs, NEW p \in Request, req' = [req EXCEPT ![r] = p],
             Moved(req[r], p)
      PROVE  req'[s] \in Request /\ (req'[s] = req[s] \/ Moved(req[s], req'[s]))
  <2>1. req'[s] = IF s = r THEN p ELSE req[s]
    BY <1>1, <1>3
  <2>2. QED
    BY <1>1, <1>3, <2>1
<1>4. QED
  BY <1>1, <1>2, <1>3, Moves DEF IInv

\* Uploaded media stays uploaded, bytes do not vanish without a trace, and only the
\* upload ends the upload.
LEMMA MediaStays ==
  ASSUME IInv, [Next]_vars
  PROVE  /\ Known => Known'
         /\ object # "none" => object' # "none"
         /\ media # "none" => media' # "none"
         /\ \A s \in Reqs : req[s].at \in {"put", "mark"} =>
              media' = "uploading" \/ req'[s] = Idle
<1>0. /\ \A r \in Reqs : Knows(req[r], media, object)
      /\ OneUpload /\ req \in [Reqs -> Request]
  BY DEF IInv, TypeOK
<1>1. Known => Known'
  BY <1>0, MediaMoves DEF Known, Knows
<1>2. object # "none" => object' # "none"
  BY ObjectMoves
<1>3. media # "none" => media' # "none"
  BY MediaMoves
<1>4. ASSUME NEW s \in Reqs, req[s].at \in {"put", "mark"}
      PROVE  media' = "uploading" \/ req'[s] = Idle
  <2>1. media = "uploading"
    BY <1>0, <1>4 DEF Knows
  <2>2. ASSUME NEW r \in Reqs, req[r].at = "mark", req' = [req EXCEPT ![r] = Idle]
        PROVE  req'[s] = Idle
    <3>1. r = s
      BY <1>0, <1>4, <2>2 DEF OneUpload
    <3>2. QED
      BY <1>0, <2>2, <3>1
  <2>3. ASSUME NEW r \in Reqs, req[r].at \in {"remove_write", "purged"} PROVE FALSE
    BY <1>0, <2>1, <2>3 DEF Knows, Late, InFlight
  <2>4. QED
    BY <2>1, <2>2, <2>3, MediaMoves
<1>5. QED
  BY <1>1, <1>2, <1>3, <1>4

LEMMA KnowsStep ==
  ASSUME IInv, [Next]_vars, NEW s \in Reqs
  PROVE  Knows(req'[s], media', object')
<1> DEFINE q == req[s]
           p == req'[s]
<1>0. /\ Knows(q, media, object) /\ (p = q \/ Moved(q, p))
      /\ Known => Known'
      /\ object # "none" => object' # "none"
      /\ q.at \in {"put", "mark"} => media' = "uploading" \/ p = Idle
      /\ NothingEarly /\ p.at \in InFlight \cup {"idle"}
  BY HandlerMoves, MediaStays DEF IInv, Request
<1>1. Knows(Idle, media', object')
  BY IdleFits
<1>2. q.at \in Late => Known'
  BY <1>0 DEF Knows, Known
<1>3. p.at \in Late => Known'
  <2>1. CASE p = q \/ p = Idle
    BY <1>0, <1>2, <2>1 DEF Idle, Late, InFlight
  <2>2. CASE q.at = "idle" /\ (p.at \in {"auth_row", "open_block", "view_write", "remove_write"})
    BY <1>0, <2>2 DEF Moved, Known, NothingEarly, Idle, Authorising
  <2>3. CASE q.at = "select" /\ p.at = "purge"
    BY <1>0, <2>3 DEF Moved, Known, NothingEarly, Sent, Idle, Authorising
  <2>4. CASE q.at \in Late
    BY <1>2, <2>4
  <2>5. QED
    BY <1>0, <2>1, <2>2, <2>3, <2>4 DEF Moved, Late, InFlight, Authorising
<1>4. p.at \in Authorising => p.op # "other"
  BY <1>0 DEF Moved, Knows, Authorising, Idle
<1>5. p.at \in {"put", "mark"} => media' = "uploading"
  BY <1>0 DEF Moved, Knows, Authorising, Idle
<1>6. p.at = "mark" /\ p.ok => object' # "none"
  BY <1>0 DEF Moved, Knows, Authorising, Idle
<1>7. p.at = "open_notify" => ~p.row.opened
  BY <1>0 DEF Moved, Knows, Authorising, Idle, NoRow
<1>8. QED
  BY <1>3, <1>4, <1>5, <1>6, <1>7 DEF Knows, Known

LEMMA StepIInv == IInv /\ [Next]_vars => IInv'
<1> SUFFICES ASSUME IInv, [Next]_vars PROVE IInv'
  OBVIOUS
<1>0. /\ TypeOK /\ NothingEarly /\ OneUpload /\ RowBeforeBytes
      /\ \A r \in Reqs : Knows(req[r], media, object)
  BY DEF IInv
<1>2. NothingEarly'
  <2> SUFFICES ASSUME ~Known'
               PROVE  /\ \A s \in SnapIds, u \in Users : snap'[s][u].status = "none"
                      /\ \A t \in StoryIds : story'[t].state = "none"
    BY DEF NothingEarly
  <2>1. ~Known
    BY MediaStays
  <2>2. \A r \in Reqs : req[r].at \notin {"insert", "open_expire", "open_write", "post"}
    BY <1>0, <2>1 DEF Knows, Known, Late, InFlight
  <2>3. \A s \in SnapIds, u \in Users : snap[s][u] = NoRow
    BY <1>0, <2>1 DEF NothingEarly, TypeOK, Lived
  <2>4. ASSUME NEW s \in SnapIds, NEW u \in Users PROVE snap'[s][u] = snap[s][u]
    <3>1. ~snap[s][u].due /\ snap[s][u].status = "none"
      BY <2>3 DEF NoRow
    <3>2. QED
      BY <1>0, <2>2, <3>1, SnapMoves
  <2>5. \A t \in StoryIds : story'[t].state = "none"
    BY <1>0, <2>1, <2>2, StoryMoves DEF NothingEarly
  <2>6. QED
    BY <2>3, <2>4, <2>5 DEF NoRow
<1>3. OneUpload'
  <2> SUFFICES ASSUME NEW r \in Reqs, NEW s \in Reqs, req'[r].at \in {"put", "mark"},
                      req'[s].at \in {"put", "mark"}, r # s
               PROVE  FALSE
    BY DEF OneUpload
  <2>1. \A z \in {r, s} : \/ req[z].at \in {"put", "mark"}
                          \/ media = "none" /\ req'[z] # req[z]
    BY HandlerMoves DEF Moved, Authorising, Idle
  <2>2. \A z \in {r, s} : req[z].at \in {"put", "mark"} => media = "uploading"
    BY <1>0 DEF Knows
  <2>3. req'[r] = req[r] \/ req'[s] = req[s]
    BY <1>0, Moves DEF TypeOK
  <2>4. QED
    BY <1>0, <2>1, <2>2, <2>3 DEF OneUpload
<1>4. RowBeforeBytes'
  <2>1. object' # "none" => media' # "none"
    <3>1. ASSUME NEW r \in Reqs, req[r].at = "put" PROVE media # "none"
      BY <1>0, <3>1 DEF Knows
    <3>2. ASSUME NEW r \in Reqs, req[r].at = "purge" PROVE media # "none"
      BY <1>0, <3>2 DEF Knows, Late, InFlight
    <3>3. QED
      BY <1>0, <3>1, <3>2, ObjectMoves, MediaStays DEF RowBeforeBytes
  <2>2. media' = "ready" => object' # "none"
    BY <1>0, MediaMoves, MediaStays DEF RowBeforeBytes, Knows
  <2>3. QED
    BY <2>1, <2>2 DEF RowBeforeBytes
<1>5. QED
  BY <1>2, <1>3, <1>4, TypeStep, KnowsStep DEF IInv

\* The invariant of Snaps: what each handler in flight has read is still so.
THEOREM Invariance == Spec => []IInv
<1>1. QED
  BY InitIInv, StepIInv, PTL DEF Spec

\* The variables of Snaps keep their types.
THEOREM TypeCorrect == Spec => []TypeOK
<1>1. IInv => TypeOK
  BY DEF IInv
<1>2. QED
  BY <1>1, Invariance, PTL
-----------------------------------------------------------------------------
(* What is gone stays gone.                                                *)

LEMMA ExpiryStep == IInv /\ [Next]_vars => ExpiryHolds
<1> SUFFICES ASSUME IInv, [Next]_vars, NEW s \in SnapIds, NEW u \in Users,
                    snap[s][u].status = "expired", \A r \in Reqs : ~Opening(req[r], s, u)
             PROVE  snap'[s][u].status = "expired" /\ \A r \in Reqs : ~Opening(req'[r], s, u)
  BY DEF ExpiryHolds
<1>0. TypeOK /\ snap[s][u] \in Row
  BY DEF IInv, TypeOK
<1>1. snap'[s][u].status = "expired"
  <2>1. [snap[s][u] EXCEPT !.due = TRUE].status = snap[s][u].status
    BY <1>0 DEF Row
  <2>2. [snap[s][u] EXCEPT !.status = "expired", !.due = FALSE].status = "expired"
    BY <1>0 DEF Row
  <2>3. \A r \in Reqs : ~(req[r].at = "open_write" /\ req[r].snap = s /\ req[r].me = u)
    BY DEF Opening
  <2>4. Sent(s)
    BY DEF Sent
  <2>5. QED
    BY <1>0, <2>1, <2>2, <2>3, <2>4, SnapMoves
<1>2. ASSUME NEW r \in Reqs, Opening(req'[r], s, u) PROVE FALSE
  <2>1. req'[r] # req[r] /\ Moved(req[r], req'[r]) /\ ~Opening(req[r], s, u)
    BY <1>2, HandlerMoves
  <2>2. CASE req'[r].at = "open_block"
    <3>1. req'[r].row = snap[s][u]
      BY <1>2, <2>1, <2>2 DEF Moved, Opening, Idle, Authorising
    <3>2. QED
      BY <1>2, <2>2, <3>1 DEF Opening
  <2>3. CASE req'[r].at = "open_write"
    <3>1. /\ req[r].at = "open_block" /\ req[r].snap = s /\ req[r].me = u
          /\ req[r].row.status # "expired"
      BY <1>2, <2>1, <2>3 DEF Moved, Opening, Idle, Authorising
    <3>2. QED
      BY <2>1, <3>1 DEF Opening
  <2>4. QED
    BY <1>2, <2>2, <2>3 DEF Opening
<1>3. QED
  BY <1>1, <1>2

\* Only a handler past its checks makes somebody keep the media.
LEMMA KeepMoves ==
  ASSUME IInv, [Next]_vars, ~Kept, Kept'
  PROVE  \E r \in Reqs : \/ req[r].at \in {"insert", "post", "save"}
                         \/ \E s \in SnapIds, u \in Users : Opening(req[r], s, u)
<1> DEFINE Reviving == \E r \in Reqs : \/ req[r].at \in {"insert", "post", "save"}
                                       \/ \E s \in SnapIds, u \in Users : Opening(req[r], s, u)
<1>1. ASSUME NEW s \in SnapIds, NEW u \in Users, snap'[s][u].status \in {"delivered", "opened"}
      PROVE  Reviving
  <2>1. TypeOK /\ snap[s][u] \in Row /\ snap[s][u].status \notin {"delivered", "opened"}
    BY DEF IInv, TypeOK, Kept
  <2>2. [snap[s][u] EXCEPT !.due = TRUE].status = snap[s][u].status
    BY <2>1 DEF Row
  <2>3. [snap[s][u] EXCEPT !.status = "expired", !.due = FALSE].status = "expired"
    BY <2>1 DEF Row
  <2>4. \E r \in Reqs : \/ req[r].at = "insert"
                        \/ req[r].at = "open_write" /\ req[r].snap = s /\ req[r].me = u
    BY <1>1, <2>1, <2>2, <2>3, SnapMoves
  <2>5. QED
    BY <2>4 DEF Opening
<1>2. ASSUME NEW t \in StoryIds, story'[t].state = "posted" PROVE Reviving
  BY <1>2, StoryMoves DEF IInv, Kept
<1>3. ASSUME saved' PROVE Reviving
  BY <1>3, SavedMoves DEF Kept
<1>4. QED
  BY <1>1, <1>2, <1>3 DEF Kept

\* The same of messages: only such a handler makes media needed.
LEMMA NeedMoves ==
  ASSUME IInv, [Next]_vars, ~Needed, Needed'
  PROVE  \E r \in Reqs : \/ req[r].at \in {"insert", "post", "save", "attach"}
                         \/ \E s \in SnapIds, u \in Users : Opening(req[r], s, u)
<1>1. CASE Kept'
  BY <1>1, KeepMoves DEF Needed
<1>2. CASE attached' # {}
  BY <1>2, AttachedMoves DEF IInv, Needed
<1>3. QED
  BY <1>1, <1>2 DEF Needed

LEMMA DeathStep == IInv /\ [Next]_vars => DeathHolds
<1> SUFFICES ASSUME IInv, [Next]_vars, Dead PROVE Dead'
  BY DEF DeathHolds
<1> DEFINE Past == {"mark", "allowed", "insert", "post", "save", "auth_block", "auth_refs"}
<1>0. /\ TypeOK /\ media = "removed" /\ ~Kept
      /\ \A r \in Reqs : /\ req[r].at \notin Past
                         /\ \A s \in SnapIds, u \in Users : ~Opening(req[r], s, u)
      /\ \A r \in Reqs : Knows(req[r], media, object)
  BY DEF Dead, IInv
<1>1. \A r \in Reqs : req[r].at # "put"
  BY <1>0 DEF Knows
<1>2. media' = "removed"
  BY <1>0, MediaMoves
<1>3. ~Kept'
  BY <1>0, KeepMoves
<1>4. ASSUME NEW r \in Reqs
      PROVE  /\ req'[r].at \notin Past
             /\ \A s \in SnapIds, u \in Users : ~Opening(req'[r], s, u)
  <2>1. req'[r] = req[r] \/ Moved(req[r], req'[r])
    BY HandlerMoves
  <2>2. req'[r].at \notin Past
    BY <1>0, <1>1, <2>1 DEF Moved, Idle, Authorising
  <2>3. ASSUME NEW s \in SnapIds, NEW u \in Users, Opening(req'[r], s, u) PROVE FALSE
    <3>1. CASE snap[s][u].status = "expired"
      BY <1>0, <2>3, <3>1, ExpiryStep DEF ExpiryHolds
    <3>2. CASE snap[s][u].status = "none"
      <4>1. req'[r] # req[r] /\ ~Opening(req[r], s, u)
        BY <1>0, <2>3
      <4>2. CASE req'[r].at = "open_block"
        <5>1. req'[r].row = snap[s][u] /\ req'[r].row.status # "none"
          BY <2>1, <2>3, <4>1, <4>2 DEF Moved, Opening, Idle, Authorising
        <5>2. QED
          BY <3>2, <5>1
      <4>3. CASE req'[r].at = "open_write"
        <5>1. /\ req[r].at = "open_block" /\ req[r].snap = s /\ req[r].me = u
              /\ req[r].row.status # "expired"
          BY <2>1, <2>3, <4>1, <4>3 DEF Moved, Opening, Idle, Authorising
        <5>2. QED
          BY <4>1, <5>1 DEF Opening
      <4>4. QED
        BY <2>3, <4>2, <4>3 DEF Opening
    <3>3. snap[s][u].status \in {"expired", "none"}
      BY <1>0 DEF TypeOK, Row, Kept
    <3>4. QED
      BY <3>1, <3>2, <3>3
  <2>4. QED
    BY <2>2, <2>3
<1>5. QED
  BY <1>2, <1>3, <1>4 DEF Dead

\* open(), runCleanup(), authorise(): a snap that has expired, and deleted media that no
\* snap, story or Memories refer to, stay so whatever was in flight.
THEOREM NothingComesBack == Spec => GoneForGood
<1>1. IInv /\ [Next]_vars => [ExpiryHolds /\ DeathHolds]_vars
  BY ExpiryStep, DeathStep
<1>2. QED
  BY <1>1, Invariance, PTL DEF Spec, GoneForGood
-----------------------------------------------------------------------------
(* The argument of Counting: S is one of finitely many sets of handlers,   *)
(* one of them adds what it has checked, or nobody adds and nobody passes. *)

LEMMA SlotsCounted ==
  ASSUME NEW R, IsFiniteSet(R), NEW S \in SUBSET R
  PROVE  /\ IsFiniteSet(S) /\ Cardinality(S) \in Nat
         /\ Cardinality(S) <= Cardinality(R) /\ Cardinality(R) \in Nat
         /\ \A T \in SUBSET S : Cardinality(T) \in Nat /\ Cardinality(T) <= Cardinality(S)
         /\ \A r \in S : Cardinality(S \ {r}) = Cardinality(S) - 1
<1>1. IsFiniteSet(S) /\ Cardinality(S) \in Nat
  BY FS_Subset, FS_CardinalityType
<1>2. Cardinality(S) <= Cardinality(R) /\ Cardinality(R) \in Nat
  BY FS_Subset, FS_CardinalityType
<1>3. \A T \in SUBSET S : Cardinality(T) \in Nat /\ Cardinality(T) <= Cardinality(S)
  BY <1>1, FS_Subset, FS_CardinalityType
<1>4. \A r \in S : Cardinality(S \ {r}) = Cardinality(S) - 1
  BY <1>1, FS_RemoveElement
<1>5. QED
  BY <1>1, <1>2, <1>3, <1>4

\* One of them adds its one.
LEMMA OneCounts ==
  ASSUME NEW R, IsFiniteSet(R), NEW k \in Nat, NEW base \in Nat, NEW S \in SUBSET R,
         NEW r \in S, NEW T \in SUBSET (S \ {r}), NEW alone, NEW stillAlone,
         Counted(k, base, S, R, alone), stillAlone => alone /\ S \subseteq {r}
  PROVE  Counted(k + 1, base, T, R, stillAlone)
<1>1. Cardinality(T) \in Nat /\ Cardinality(T) <= Cardinality(S) - 1
  BY ZenonT(40), SlotsCounted
<1>2. k + 1 + Cardinality(T) <= base + Cardinality(R) \/ k < base
  BY <1>1, SlotsCounted DEF Counted
<1>3. ASSUME stillAlone, k >= base
      PROVE  T = {} /\ k = base
  BY <1>3 DEF Counted
<1>4. QED
  BY <1>2, <1>3 DEF Counted

\* The count does not grow, and above base nobody passes the check.
LEMMA NobodyPasses ==
  ASSUME NEW R, IsFiniteSet(R), NEW k \in Nat, NEW base \in Nat, NEW S \in SUBSET R,
         NEW j \in 0..k, NEW T \in SUBSET R, NEW alone, NEW stillAlone,
         Counted(k, base, S, R, alone), stillAlone => alone, j > base => T \subseteq S
  PROVE  Counted(j, base, T, R, stillAlone)
<1>1. j > base => Cardinality(T) \in Nat /\ Cardinality(T) <= Cardinality(S)
  BY SlotsCounted
<1>2. QED
  BY <1>1, SlotsCounted DEF Counted

\* The limit is overrun by the number of handlers, by one if they do not overlap.
LEMMA CountedBounds ==
  ASSUME NEW R, IsFiniteSet(R), NEW k \in Nat, NEW base \in Nat, NEW S \in SUBSET R,
         NEW alone, Counted(k, base, S, R, alone)
  PROVE  k <= base + IF alone THEN 1 ELSE Cardinality(R)
  BY SlotsCounted DEF Counted

-----------------------------------------------------------------------------
(* The invariant of the history.                                           *)

\* Past the limit and about to count a replay, and about to tell the owner.
Replaying(s, u) == {r \in Reqs : /\ req[r].snap = s /\ req[r].me = u /\ req[r].row.opened
                                 /\ \/ /\ req[r].at = "open_block"
                                       /\ ~(req[r].row.replays >= REPLAY_LIMIT)
                                    \/ req[r].at = "open_write"}
Telling(s, u)   == {r \in Reqs : /\ req[r].snap = s /\ req[r].me = u /\ ~req[r].row.opened
                                 /\ req[r].at \in {"open_block", "open_write", "open_notify"}}

ReplayInv == \A s \in SnapIds, u \in Users :
               Counted(snap[s][u].replays, REPLAY_LIMIT - 1, Replaying(s, u), Reqs, serial)

\* A snap of which somebody was told has been opened, so nobody opens it first.
TellInv ==
  \A s \in SnapIds, u \in Users :
    /\ told[s][u] > 0 => snap[s][u].opened
    /\ \A r \in Reqs : req[r].at = "open_notify" /\ req[r].snap = s /\ req[r].me = u
                         => snap[s][u].opened
    /\ Counted(told[s][u], 0, Telling(s, u), Reqs, serial)

ViewsCounted == \A t \in StoryIds : /\ IsFiniteSet(story[t].viewers)
                                    /\ story[t].count = Cardinality(story[t].viewers)

\* The worker that does not overlap with anybody purges what nobody needs.
PurgeInv == serial => \A r \in Reqs : req[r].at = "purge" => ~Needed

HInv ==
  /\ IInv /\ (serial => AtMostOne)
  /\ ReplayInv /\ TellInv /\ ViewsCounted /\ PurgeInv

LEMMA InitHInv == HistoryInit => HInv
<1> SUFFICES ASSUME HistoryInit PROVE HInv
  OBVIOUS
<1>1. IInv /\ AtMostOne
  BY InitIInv DEF HistoryInit, Init, AtMostOne, Idle, InFlight
<1>2. ReplayInv /\ TellInv /\ PurgeInv
  BY DEF HistoryInit, Init, ReplayInv, TellInv, PurgeInv, Counted, NoRow, Idle, REPLAY_LIMIT
<1>3. ViewsCounted
  BY FS_EmptySet DEF HistoryInit, Init, ViewsCounted, NoStory
<1>4. QED
  BY <1>1, <1>2, <1>3 DEF HInv

\* Who writes while handlers do not overlap is alone.
LEMMA WriterIsAlone ==
  ASSUME serial => AtMostOne, NEW r \in Reqs, req[r].at \in InFlight, NEW S \in SUBSET Reqs,
         \A s \in S : req[s].at \in InFlight
  PROVE  serial => S \subseteq {r}
  BY DEF AtMostOne

LEMMA ReplayStep ==
  ASSUME IInv, [Next]_vars, ReplayInv, serial => AtMostOne, serial' => serial
  PROVE  ReplayInv'
<1> SUFFICES ASSUME NEW s \in SnapIds, NEW u \in Users
             PROVE  Counted(snap'[s][u].replays, 0, Replaying(s, u)', Reqs, serial')
  BY DEF ReplayInv, REPLAY_LIMIT
<1>a. REPLAY_LIMIT - 1 = 0
  BY DEF REPLAY_LIMIT
<1>0. /\ TypeOK /\ snap[s][u] \in Row /\ snap[s][u].replays \in Nat
      /\ req \in [Reqs -> Request]
      /\ Replaying(s, u) \in SUBSET Reqs /\ Replaying(s, u)' \in SUBSET Reqs
      /\ Counted(snap[s][u].replays, 0, Replaying(s, u), Reqs, serial)
  BY <1>a DEF IInv, TypeOK, Row, ReplayInv, Replaying
<1>1. ASSUME NEW r \in Reqs, req[r].at = "open_write", req[r].snap = s, req[r].me = u,
             req[r].row.opened, req' = [req EXCEPT ![r] = Idle],
             snap'[s][u].replays = snap[s][u].replays + 1
      PROVE  Counted(snap'[s][u].replays, 0, Replaying(s, u)', Reqs, serial')
  <2>1. r \in Replaying(s, u) /\ Replaying(s, u)' \in SUBSET (Replaying(s, u) \ {r})
    BY <1>0, <1>1 DEF Replaying, Idle
  <2>2. serial' => serial /\ Replaying(s, u) \subseteq {r}
    BY <1>1, WriterIsAlone DEF Replaying, InFlight
  <2>3. Counted(snap[s][u].replays + 1, 0, Replaying(s, u)', Reqs, serial')
    BY <1>0, <2>1, <2>2, HandlersAreFinite, OneCounts
  <2>4. QED
    BY <1>1, <2>3
<1>2. CASE snap'[s][u].replays \in {snap[s][u].replays, 0}
  <2>1. ASSUME snap[s][u].replays > 0 PROVE Replaying(s, u)' \subseteq Replaying(s, u)
    <3> SUFFICES ASSUME NEW r \in Replaying(s, u)', r \notin Replaying(s, u) PROVE FALSE
      OBVIOUS
    <3>1. /\ req'[r].snap = s /\ req'[r].me = u /\ req'[r].row.opened
          /\ \/ req'[r].at = "open_block" /\ ~(req'[r].row.replays >= REPLAY_LIMIT)
             \/ req'[r].at = "open_write"
      BY DEF Replaying
    <3>2. r \in Reqs /\ req'[r] # req[r] /\ Moved(req[r], req'[r])
      BY HandlerMoves DEF Replaying
    <3>3. CASE req'[r].at = "open_block"
      <4>1. req'[r].row = snap[s][u]
        BY <3>1, <3>2, <3>3 DEF Moved, Idle, Authorising
      <4>2. QED
        BY <1>0, <2>1, <3>1, <3>3, <4>1 DEF REPLAY_LIMIT
    <3>4. CASE req'[r].at = "open_write"
      <4>1. /\ req[r].at = "open_block" /\ req[r].snap = s /\ req[r].me = u
            /\ req[r].row.opened /\ ~(req[r].row.replays >= REPLAY_LIMIT)
        BY <3>1, <3>2, <3>4 DEF Moved, Idle, Authorising
      <4>2. QED
        BY <3>2, <4>1 DEF Replaying
    <3>5. QED
      BY <3>1, <3>3, <3>4
  <2>2. snap'[s][u].replays \in 0..snap[s][u].replays
        /\ (snap'[s][u].replays > 0 => snap[s][u].replays > 0)
    BY <1>0, <1>2
  <2>3. QED
    BY <1>0, <2>1, <2>2, HandlersAreFinite, NobodyPasses
<1>3. [snap[s][u] EXCEPT !.due = TRUE].replays = snap[s][u].replays
      /\ [snap[s][u] EXCEPT !.status = "expired", !.due = FALSE].replays = snap[s][u].replays
  BY <1>0 DEF Row
<1>4. \/ snap'[s][u].replays \in {snap[s][u].replays, 0}
      \/ \E r \in Reqs :
           /\ req[r].at = "open_write" /\ req[r].snap = s /\ req[r].me = u
           /\ snap'[s][u].replays = snap[s][u].replays + IF req[r].row.opened THEN 1 ELSE 0
           /\ req[r].row.opened => req' = [req EXCEPT ![r] = Idle]
  <2> DEFINE old == snap[s][u]
             new == snap'[s][u]
  <2>1. \/ new = old \/ new.replays = 0
        \/ new = [old EXCEPT !.status = "expired", !.due = FALSE]
        \/ new = [old EXCEPT !.due = TRUE]
        \/ \E r \in Reqs :
             /\ req[r].at = "open_write" /\ req[r].snap = s /\ req[r].me = u
             /\ new.replays = old.replays + IF req[r].row.opened THEN 1 ELSE 0
             /\ req[r].row.opened => req' = [req EXCEPT ![r] = Idle]
    <3> DEFINE Opened(r) ==
                 /\ req[r].at = "open_write" /\ req[r].snap = s /\ req[r].me = u
                 /\ new.status = "opened" /\ new.opened
                 /\ new.replays = old.replays + IF req[r].row.opened THEN 1 ELSE 0
                 /\ req' = [req EXCEPT ![r] = IF req[r].row.opened THEN Idle
                                              ELSE [req[r] EXCEPT !.at = "open_notify",
                                                                  !.row = NoRow]]
    <3>1. \/ new = old \/ new.replays = 0
          \/ new = [old EXCEPT !.status = "expired", !.due = FALSE]
          \/ new = [old EXCEPT !.due = TRUE]
          \/ \E r \in Reqs : Opened(r)
      BY ZenonT(60), <1>0, SnapMoves
    <3>2. QED
      BY <3>1
  <2>2. QED
    BY <1>3, <2>1
<1>5. snap[s][u].replays + 0 = snap[s][u].replays
  BY <1>0
<1>6. QED
  BY <1>1, <1>2, <1>4, <1>5

LEMMA TellStep ==
  ASSUME IInv, [Next]_vars, TellInv, serial => AtMostOne, serial' => serial
  PROVE  TellInv'
<1> SUFFICES ASSUME NEW s \in SnapIds, NEW u \in Users
             PROVE  /\ told'[s][u] > 0 => snap'[s][u].opened
                    /\ \A r \in Reqs :
                         req'[r].at = "open_notify" /\ req'[r].snap = s /\ req'[r].me = u
                           => snap'[s][u].opened
                    /\ Counted(told'[s][u], 0, Telling(s, u)', Reqs, serial')
  BY DEF TellInv
<1>0. /\ TypeOK /\ snap[s][u] \in Row /\ told[s][u] \in Nat
      /\ req \in [Reqs -> Request]
      /\ Telling(s, u) \in SUBSET Reqs /\ Telling(s, u)' \in SUBSET Reqs
      /\ told[s][u] > 0 => snap[s][u].opened
      /\ \A r \in Reqs : req[r].at = "open_notify" /\ req[r].snap = s /\ req[r].me = u
                           => snap[s][u].opened
      /\ Counted(told[s][u], 0, Telling(s, u), Reqs, serial)
  BY DEF IInv, TypeOK, TellInv, Telling
<1>1. snap[s][u].opened => snap'[s][u].opened
  <2>1. [snap[s][u] EXCEPT !.due = TRUE].opened = snap[s][u].opened
        /\ [snap[s][u] EXCEPT !.status = "expired", !.due = FALSE].opened = snap[s][u].opened
    BY <1>0 DEF Row
  <2>2. ~Sent(s) => ~snap[s][u].opened
    BY <1>0 DEF Sent, TypeOK, Lived, NoRow
  <2>3. QED
    BY <1>0, <2>1, <2>2, SnapMoves
<1>2. told'[s][u] > 0 => snap'[s][u].opened
  BY <1>0, <1>1, ToldMoves
<1>3. ASSUME NEW r \in Reqs, req'[r].at = "open_notify", req'[r].snap = s, req'[r].me = u
      PROVE  snap'[s][u].opened
  <2>1. CASE req'[r] = req[r]
    BY <1>0, <1>1, <1>3, <2>1
  <2>2. CASE Moved(req[r], req'[r])
    BY <1>3, <2>2 DEF Moved, Idle, Authorising
  <2>3. QED
    BY <2>1, <2>2, HandlerMoves
<1>4. ASSUME NEW r \in Reqs, req[r].at = "open_notify", req[r].snap = s, req[r].me = u,
             told'[s][u] = told[s][u] + 1, req' = [req EXCEPT ![r] = Idle]
      PROVE  Counted(told'[s][u], 0, Telling(s, u)', Reqs, serial')
  <2>1. ~req[r].row.opened
    BY <1>4, HandlerMoves DEF Knows
  <2>2. r \in Telling(s, u) /\ Telling(s, u)' \in SUBSET (Telling(s, u) \ {r})
    BY <1>0, <1>4, <2>1 DEF Telling, Idle
  <2>3. serial' => serial /\ Telling(s, u) \subseteq {r}
    BY <1>4, WriterIsAlone DEF Telling, InFlight
  <2>4. Counted(told[s][u] + 1, 0, Telling(s, u)', Reqs, serial')
    BY <1>0, <2>2, <2>3, HandlersAreFinite, OneCounts
  <2>5. QED
    BY <1>4, <2>4
<1>5. ASSUME told'[s][u] = told[s][u]
      PROVE  Counted(told'[s][u], 0, Telling(s, u)', Reqs, serial')
  <2>1. ASSUME told[s][u] > 0 PROVE Telling(s, u)' \subseteq Telling(s, u)
    <3> SUFFICES ASSUME NEW r \in Telling(s, u)', r \notin Telling(s, u) PROVE FALSE
      OBVIOUS
    <3>1. /\ req'[r].snap = s /\ req'[r].me = u /\ ~req'[r].row.opened
          /\ req'[r].at \in {"open_block", "open_write", "open_notify"}
      BY DEF Telling
    <3>2. r \in Reqs /\ req'[r] # req[r] /\ Moved(req[r], req'[r])
      BY HandlerMoves DEF Telling
    <3>3. CASE req'[r].at = "open_block"
      <4>1. req'[r].row = snap[s][u]
        BY <3>1, <3>2, <3>3 DEF Moved, Idle, Authorising
      <4>2. QED
        BY <1>0, <2>1, <3>1, <4>1
    <3>4. CASE req'[r].at \in {"open_write", "open_notify"}
      <4>1. /\ req[r].at \in {"open_block", "open_write"} /\ req[r].snap = s
            /\ req[r].me = u /\ ~req[r].row.opened
        BY <3>1, <3>2, <3>4 DEF Moved, Idle, Authorising
      <4>2. QED
        BY <3>2, <4>1 DEF Telling
    <3>5. QED
      BY <3>1, <3>3, <3>4
  <2>2. told'[s][u] \in 0..told[s][u]
    BY <1>0, <1>5
  <2>3. QED
    BY <1>0, <1>5, <2>1, <2>2, HandlersAreFinite, NobodyPasses
<1>6. Counted(told'[s][u], 0, Telling(s, u)', Reqs, serial')
  BY <1>0, <1>4, <1>5, ToldMoves
<1>7. QED
  BY <1>2, <1>3, <1>6

LEMMA ViewsStep ==
  ASSUME IInv, [Next]_vars, ViewsCounted
  PROVE  ViewsCounted'
<1> SUFFICES ASSUME NEW t \in StoryIds
             PROVE  /\ IsFiniteSet(story'[t].viewers)
                    /\ story'[t].count = Cardinality(story'[t].viewers)
  BY DEF ViewsCounted
<1>0. TypeOK /\ IsFiniteSet(story[t].viewers) /\ story[t].count = Cardinality(story[t].viewers)
  BY DEF IInv, ViewsCounted
<1>1. CASE story'[t].viewers = {} /\ story'[t].count = 0
  BY <1>1, FS_EmptySet
<1>2. CASE UNCHANGED <<story[t].viewers, story[t].count>>
  BY <1>0, <1>2
<1>3. ASSUME NEW u \in Users \ story[t].viewers,
             story'[t].viewers = story[t].viewers \cup {u},
             story'[t].count = story[t].count + 1
      PROVE  /\ IsFiniteSet(story'[t].viewers)
             /\ story'[t].count = Cardinality(story'[t].viewers)
  <2>1. /\ IsFiniteSet(story[t].viewers \cup {u})
        /\ Cardinality(story[t].viewers \cup {u}) = Cardinality(story[t].viewers) + 1
    BY <1>0, FS_AddElement
  <2>2. QED
    BY <1>0, <1>3, <2>1
<1>4. QED
  BY <1>0, <1>1, <1>2, <1>3, StoryMoves

LEMMA PurgeStep ==
  ASSUME IInv, [Next]_vars, PurgeInv, serial => AtMostOne, serial' => serial
  PROVE  PurgeInv'
<1> SUFFICES ASSUME serial', NEW r \in Reqs, req'[r].at = "purge", Needed' PROVE FALSE
  BY DEF PurgeInv
<1>1. req[r].at \in {"select", "purge"} /\ ~Needed
  <2>1. CASE req'[r] = req[r]
    BY <2>1 DEF PurgeInv
  <2>2. CASE Moved(req[r], req'[r])
    BY <2>2 DEF Moved, Idle, Authorising
  <2>3. QED
    BY <2>1, <2>2, HandlerMoves
<1>2. PICK q \in Reqs : req[q].at \in {"insert", "post", "save", "attach",
                                   "open_block", "open_write"}
  BY <1>1, NeedMoves DEF Opening
<1>3. QED
  BY <1>1, <1>2 DEF AtMostOne, InFlight

LEMMA SerialStep ==
  ASSUME serial => AtMostOne, [HistoryNext]_<<vars, serial>>
  PROVE  serial' => serial /\ AtMostOne'
<1>1. CASE HistoryNext
  BY <1>1 DEF HistoryNext
<1>2. CASE UNCHANGED <<vars, serial>>
  <2>1. req' = req /\ serial' = serial
    BY <1>2 DEF vars
  <2>2. QED
    BY <2>1 DEF AtMostOne
<1>3. QED
  BY <1>1, <1>2

LEMMA StepHInv == HInv /\ [HistoryNext]_<<vars, serial>> => HInv'
<1> SUFFICES ASSUME HInv, [HistoryNext]_<<vars, serial>> PROVE HInv'
  OBVIOUS
<1>1. [Next]_vars
  BY DEF HistoryNext
<1>2. serial' => serial /\ AtMostOne'
  BY SerialStep DEF HInv
<1>3. IInv /\ (serial => AtMostOne) /\ ReplayInv /\ TellInv /\ ViewsCounted /\ PurgeInv
  BY DEF HInv
<1>4. IInv' /\ ViewsCounted'
  BY <1>1, <1>3, StepIInv, ViewsStep
<1>5. ReplayInv' /\ TellInv' /\ PurgeInv'
  BY <1>1, <1>2, <1>3, ReplayStep, TellStep, PurgeStep
<1>6. QED
  BY <1>2, <1>4, <1>5 DEF HInv

\* The counts of replays, of notices and of views, and what the worker is about to purge.
THEOREM HistoryInvariance == HistorySpec => []HInv
<1>1. QED
  BY InitHInv, StepHInv, PTL DEF HistorySpec

\* open(), view(): handlers that overlap overrun the replay limit and the notices of a
\* snap by one less than they are, and the views of a story are counted exactly.
THEOREM CountsAreKept == HistorySpec => []CountsBounded
<1>1. HInv => CountsBounded
  <2> DEFINE n == IF serial THEN 1 ELSE Cardinality(Reqs)
  <2> SUFFICES ASSUME HInv, NEW s \in SnapIds, NEW u \in Users
               PROVE  snap[s][u].replays < REPLAY_LIMIT + n /\ told[s][u] <= n
    BY DEF CountsBounded, HInv, ViewsCounted
  <2>0. /\ snap[s][u].replays \in Nat /\ told[s][u] \in Nat
        /\ Replaying(s, u) \in SUBSET Reqs /\ Telling(s, u) \in SUBSET Reqs
        /\ Counted(snap[s][u].replays, REPLAY_LIMIT - 1, Replaying(s, u), Reqs, serial)
        /\ Counted(told[s][u], 0, Telling(s, u), Reqs, serial)
    <3>1. IInv /\ ReplayInv /\ TellInv
      BY DEF HInv
    <3>2. snap[s][u] \in Row /\ told[s][u] \in Nat
      BY <3>1 DEF IInv, TypeOK
    <3>3. QED
      BY <3>1, <3>2 DEF Row, ReplayInv, TellInv, Replaying, Telling
  <2>1. REPLAY_LIMIT - 1 = 0 /\ REPLAY_LIMIT = 1 /\ n \in Nat
    BY SlotsCounted, HandlersAreFinite DEF REPLAY_LIMIT
  <2>2. snap[s][u].replays <= 0 + n
    <3>1. Counted(snap[s][u].replays, 0, Replaying(s, u), Reqs, serial)
      BY <2>0, <2>1
    <3>2. QED
      BY <2>0, <3>1, HandlersAreFinite, CountedBounds
  <2>3. told[s][u] <= 0 + n
    BY <2>0, HandlersAreFinite, CountedBounds
  <2>4. QED
    BY <2>0, <2>1, <2>2, <2>3
<1>2. QED
  BY <1>1, HistoryInvariance, PTL

\* upload(), runCleanup(): no bytes without a row that knows of them, and none removed
\* that somebody still needs, unless handlers overlap.
THEOREM BytesStay == HistorySpec => BytesAreKept
<1>1. HInv /\ HInv' /\ [HistoryNext]_<<vars, serial>>
        => [RowBeforeBytes' /\ NeededStays]_<<vars, serial>>
  <2> SUFFICES ASSUME HInv, HInv', [HistoryNext]_<<vars, serial>>
               PROVE  RowBeforeBytes' /\ NeededStays
    OBVIOUS
  <2>1. RowBeforeBytes'
    BY DEF HInv, IInv
  <2>2. [Next]_vars /\ (serial' => serial)
    <3>1. [Next]_vars
      BY DEF HistoryNext
    <3>2. QED
      BY <3>1, SerialStep DEF HInv
  <2>3. \A r \in Reqs : serial /\ req[r].at = "purge" => ~Needed
    BY DEF HInv, PurgeInv
  <2>4. NeededStays
    BY <2>2, <2>3, ObjectMoves DEF NeededStays
  <2>5. QED
    BY <2>1, <2>4
<1>2. QED
  BY <1>1, HistoryInvariance, PTL DEF HistorySpec, BytesAreKept
=============================================================================
