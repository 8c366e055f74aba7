----------------------------- MODULE CallClient -----------------------------
(***************************************************************************)
(* The call hook of the web client, useCall.ts, at both ends of a call, the *)
(* relay between them, and the browser's peer connections.                 *)
(*                                                                         *)
(* call:start and call:accept are handled by the server when they are made,  *)
(* call:end in its own time, and what it emits waits in the client's queue   *)
(* unless the socket faults; how its handlers interleave is the matter of    *)
(* Calls.  Signals overtake one another and the end of their call, since    *)
(* each is a handler that awaits the database before it emits.             *)
(***************************************************************************)
EXTENDS Naturals, Sequences

CONSTANTS Clients,      \* the two ends
          Calls,        \* attempts to call
          Caller,       \* who makes which
          NoCall,       \* no call
          RESTARTS,     \* how often a lost connection is restarted: 2
          MaxFaults,    \* a bound of the model: how often the network changes or loses
                        \* something, or a statement of the server throws
          MaxTimers     \* a bound of the model: nobody hangs up while so many
                        \* timers back to 'idle' are running

ASSUME CallerIsClient == Caller \in [Calls -> Clients]
ASSUME NoCallIsFresh == NoCall \notin Calls
ASSUME TwoEnds == \E p, q \in Clients : p # q /\ Clients = {p, q}
ASSUME BoundsAreNats == RESTARTS \in Nat /\ MaxFaults \in Nat

VARIABLES
  me,        \* Clients -> the hook's state and refs
  task,      \* Clients -> Calls -> call() or accept() at its next await
  queue,     \* Clients -> the acks and events on their way to them
  wire,      \* the signals on their way
  line,      \* Calls -> the status of the server's row
  asks,      \* call:end, at the server
  lost,      \* the calls of which somebody missed an event, an ack or a signal
  faults     \* how often something of that kind has happened

hookvars == <<me, task, queue, wire, line, asks, lost, faults>>
server   == <<line, asks, lost>>

-----------------------------------------------------------------------------
Other(p) == CHOOSE q \in Clients : q # p
Ongoing  == {"ringing", "active"}

\* tracks: the sender's microphone is in it.
SDP == [call : Calls, tracks : BOOLEAN]

Peer == [call : Calls \cup {NoCall},
         tracks : BOOLEAN,              \* media added, and the handlers of its events
         sig : {"stable", "local", "remote"}, making : BOOLEAN, need : BOOLEAN,
         desc : SDP \cup {NoCall},      \* the offer being applied, then its answer
         by : Calls \cup {NoCall},      \* the accept() that awaits that
         remote : BOOLEAN, cand : BOOLEAN,
         hears : {"no", "yes", "missed"},
         ice : {"new", "up", "down", "checking", "failed"},
         timer : BOOLEAN, restarts : 0..RESTARTS]
NoPeer == [call |-> NoCall, tracks |-> FALSE, sig |-> "stable", making |-> FALSE,
           need |-> FALSE, desc |-> NoCall, by |-> NoCall, remote |-> FALSE,
           cand |-> FALSE, hears |-> "no", ice |-> "new", timer |-> FALSE, restarts |-> 0]
NewPeer(c) == [NoPeer EXCEPT !.call = c]

States == {"idle", "calling", "ringing", "connecting", "active", "ended", "failed"}

Hook == [st : States, inc : Calls \cup {NoCall}, cur : Calls \cup {NoCall},
         polite : BOOLEAN, may : BOOLEAN, stream : Calls \cup {NoCall},
         mics : SUBSET Calls, offer : SDP \cup {NoCall}, cands : SUBSET Calls,
         idles : Nat, pc : Peer]
Fresh == [st |-> "idle", inc |-> NoCall, cur |-> NoCall, polite |-> FALSE,
          may |-> FALSE, stream |-> NoCall, mics |-> {}, offer |-> NoCall,
          cands |-> {}, idles |-> 0, pc |-> NoPeer]

\* At an await of the server's ack, of getUserMedia, or of the offer that was parked;
\* open: its pc is not closed.
Task == [at : {"none", "asking", "joining", "calling", "answering", "applying"},
         open : BOOLEAN]
Done == [at |-> "none", open |-> FALSE]

Row == {"none", "ringing", "active", "over", "expired"}
Ask == [call : Calls, by : Clients, at : {"asked", "committed", "told"}]

Told(kind, c) == [kind |-> kind, call |-> c]

\* Candidates are gathered on both sides: one, the offering side's, stands for them.
\* It is enough for a pair, so that those the answering side gathers before it has a
\* handler for them are no loss here.
Signal(p, kind, c, tracks) ==
  [to |-> Other(p), kind |-> kind, call |-> c, tracks |-> tracks]

-----------------------------------------------------------------------------
HookInit ==
  /\ me = [p \in Clients |-> Fresh]
  /\ task = [p \in Clients |-> [c \in Calls |-> Done]]
  /\ queue = [p \in Clients |-> <<>>] /\ wire = {}
  /\ line = [c \in Calls |-> "none"] /\ asks = {} /\ lost = {}
  /\ faults = 0

-----------------------------------------------------------------------------
(* What the hook's functions do to its refs.                               *)

\* Fault: the connection is closed and the tracks go on.
CleanupLeavesTracks(h) ==
  [h EXCEPT !.stream = NoCall, !.pc = NoPeer, !.cands = {},
            !.offer = NoCall, !.may = FALSE, !.cur = NoCall]

Cleanup(h) ==
  [h EXCEPT !.mics = @ \ {h.stream}, !.stream = NoCall, !.pc = NoPeer, !.cands = {},
            !.offer = NoCall, !.may = FALSE, !.cur = NoCall]

\* accept() at its last await: its connection applies the offer that was parked.
Applies(p, c) == me[p].pc.by = c /\ task[p][c].at = "applying"

\* ... and to a function that still awaits the connection it has closed.  What a closed
\* connection had under way never comes back: accept() is not resumed.
CloseTasks(p) ==
  task' = [task EXCEPT ![p] =
            [c \in Calls |-> IF Applies(p, c) THEN Done
                             ELSE IF me[p].pc.call = c THEN [@[c] EXCEPT !.open = FALSE]
                             ELSE @[c]]]

\* A candidate that waited belongs to this connection, or is stale and harmless.
Flush(h) == [h EXCEPT !.pc.cand = @ \/ h.pc.call \in h.cands, !.cands = {}]

\* setRemoteDescription fires 'track' once: a connection without a handler misses it.
Ears(pc, tracks) == IF pc.hears # "no" \/ ~tracks THEN pc.hears
                    ELSE IF pc.tracks THEN "yes" ELSE "missed"

Post(q, p, event) == [q EXCEPT ![p] = Append(@, event)]

EndOf(c, p) == [call |-> c, by |-> p, at |-> "asked"]

\* The hook of p becomes h; it emits signals, and call:end for the calls of ends.
Go(p, h, from, sent, ends) ==
  /\ me' = [me EXCEPT ![p] = h]
  /\ wire' = wire \cup sent
  /\ queue' = from
  /\ asks' = asks \cup {EndOf(c, p) : c \in ends}
  /\ UNCHANGED <<line, lost, faults>>

\* ... and nothing arrives, or is sent to the server.
Turn(p, h, sent) == Go(p, h, queue, sent, {})

\* Client p takes the next event.
Takes(p, kind) == queue[p] # <<>> /\ Head(queue[p]).kind = kind
Rest(p)        == [queue EXCEPT ![p] = Tail(@)]
Arrived(p, h)  == Go(p, h, Rest(p), {}, {})

Fault == faults < MaxFaults /\ faults' = faults + 1

Set(p, c, t) == task' = [task EXCEPT ![p][c] = t]

-----------------------------------------------------------------------------
(* The user.                                                               *)

\* call(): the overlay is not in the way.  The server rings the other side, unless
\* one of the two has a call, or it finds another reason not to.
Call(p, c) ==
  /\ Caller[c] = p /\ line[c] = "none"
  /\ me[p].st = "idle" /\ me[p].inc = NoCall
  /\ me' = [me EXCEPT ![p].st = "calling", ![p].polite = FALSE]
  /\ Set(p, c, [at |-> "asking", open |-> FALSE])
  /\ \/ /\ \A d \in Calls : line[d] \notin Ongoing
        /\ line' = [line EXCEPT ![c] = "ringing"]
        /\ queue' = Post(Post(queue, Other(p), Told("incoming", c)),
                         p, Told("started", c))
     \/ /\ line' = [line EXCEPT ![c] = "expired"]
        /\ queue' = Post(queue, p, Told("refused", c))
  /\ UNCHANGED <<wire, asks, lost, faults>>

Accept(p) ==
  LET c == me[p].inc
  IN  /\ c # NoCall /\ me[p].st = "ringing"
      /\ me' = [me EXCEPT ![p].cur = c, ![p].st = "connecting", ![p].polite = TRUE]
      /\ Set(p, c, [at |-> "joining", open |-> FALSE])
      /\ IF line[c] = "ringing"
           THEN /\ line' = [line EXCEPT ![c] = "active"]
                /\ queue' = Post(Post(queue, Other(p), Told("accepted", c)),
                                 p, Told("joined", c))
           ELSE /\ queue' = Post(queue, p, Told("refused", c))
                /\ UNCHANGED line
      /\ UNCHANGED <<wire, asks, lost, faults>>

\* Nothing else is reset: the state stays, and so does what is parked.
Decline(p) ==
  LET c == me[p].inc
  IN  /\ c # NoCall /\ me[p].st = "ringing"
      /\ Go(p, [me[p] EXCEPT !.inc = NoCall], queue, {}, {c})
      /\ UNCHANGED task

HangUp(p) ==
  LET h == me[p]
  IN  /\ h.st # "idle" \/ h.inc # NoCall
      /\ ~(h.st = "ringing" /\ h.inc # NoCall)
      /\ h.idles < MaxTimers
      /\ Go(p, [Cleanup(h) EXCEPT !.st = "ended", !.idles = @ + 1],
            queue, {}, {h.cur} \ {NoCall})
      /\ CloseTasks(p)

\* setTimeout(() => setState('idle'), 600), whatever has begun since.
IdleTimer(p) ==
  /\ me[p].idles > 0
  /\ Turn(p, [me[p] EXCEPT !.st = "idle", !.idles = @ - 1], {})
  /\ UNCHANGED task

-----------------------------------------------------------------------------
(* call() and accept() after their awaits.                                 *)

\* The ack of call:start: there is a call, and buildPeer asks for the microphone.
Started(p) ==
  LET c == Head(queue[p]).call
  IN  /\ Takes(p, "started")
      /\ Arrived(p, [me[p] EXCEPT !.cur = c, !.may = TRUE, !.pc = NewPeer(c)])
      /\ Set(p, c, [at |-> "calling", open |-> TRUE])

\* The ack of call:accept.
Joined(p) ==
  LET c == Head(queue[p]).call
  IN  /\ Takes(p, "joined")
      /\ Arrived(p, [me[p] EXCEPT !.may = FALSE, !.pc = NewPeer(c)])
      /\ Set(p, c, [at |-> "answering", open |-> TRUE])

\* Either ack says no.
Refused(p) ==
  LET c == Head(queue[p]).call
  IN  /\ Takes(p, "refused")
      /\ Arrived(p, [me[p] EXCEPT !.st = "failed",
                                  !.inc = IF Caller[c] = p THEN @ ELSE NoCall])
      /\ Set(p, c, Done)

\* The tracks are added and the handlers assigned, in one go.
Granted(h, c) ==
  [h EXCEPT !.stream = c, !.mics = @ \cup {c},
            !.pc.tracks = @ \/ h.pc.call = c, !.pc.need = @ \/ h.pc.call = c]

\* The caller's tracks are added, which will open the negotiation.
CallMedia(p, c) ==
  /\ task[p][c] = [at |-> "calling", open |-> TRUE]
  /\ Turn(p, Granted(me[p], c), {})
  /\ Set(p, c, Done)

\* Fault: an offer that came before the connection is not kept.
DropPendingOffer(p, c) ==
  /\ task[p][c] = [at |-> "answering", open |-> TRUE]
  /\ Turn(p, [Granted(me[p], c) EXCEPT !.inc = NoCall, !.offer = NoCall], {})
  /\ Set(p, c, Done)

\* The callee's: then the offer that waited is applied, or at once the candidates are
\* released.
AnswerMedia(p, c) ==
  LET h == Granted(me[p], c)
  IN  /\ task[p][c] = [at |-> "answering", open |-> TRUE]
      /\ IF h.offer = NoCall \/ h.pc.call = NoCall
           THEN /\ Turn(p, [(IF h.pc.remote THEN Flush(h) ELSE h) EXCEPT !.inc = NoCall], {})
                /\ Set(p, c, Done)
           ELSE /\ h.pc.desc = NoCall
                /\ Turn(p, [h EXCEPT !.pc.desc = h.offer, !.pc.by = c, !.offer = NoCall], {})
                /\ Set(p, c, [at |-> "applying", open |-> TRUE])

\* The prompt is refused, or addTrack throws on a connection that was closed
\* meanwhile: by then the microphone is on.
MediaFails(p, c) ==
  LET t == task[p][c]
      failed(h) == [h EXCEPT !.st = "failed",
                             !.inc = IF t.at = "answering" THEN NoCall ELSE @]
  IN  /\ t.at \in {"calling", "answering"}
      /\ \/ Go(p, failed(me[p]), queue, {}, {c})
         \/ /\ ~t.open
            /\ Go(p, failed([me[p] EXCEPT !.stream = c, !.mics = @ \cup {c}]),
                  queue, {}, {c})
      /\ Set(p, c, Done)

-----------------------------------------------------------------------------
(* The server's events.                                                    *)

\* call:incoming, declined at once by a client that has a call.
Incoming(p) ==
  LET h == me[p]
      c == Head(queue[p]).call
  IN  /\ Takes(p, "incoming")
      /\ IF h.cur # NoCall
           THEN Go(p, h, Rest(p), {}, {c})
           ELSE Arrived(p, [h EXCEPT !.inc = c, !.st = "ringing"])
      /\ UNCHANGED task

\* call:accepted is not asked which call it is about.
Accepted(p) ==
  /\ Takes(p, "accepted")
  /\ Arrived(p, [me[p] EXCEPT !.st = "connecting"])
  /\ UNCHANGED task

Leave(p, calls) ==
  LET h == me[p]
  IN  /\ Takes(p, "ended")
      /\ IF Head(queue[p]).call \notin calls
           THEN Arrived(p, h) /\ UNCHANGED task
           ELSE /\ Arrived(p, [Cleanup(h) EXCEPT !.inc = NoCall, !.st = "ended",
                                                 !.idles = @ + 1])
                /\ CloseTasks(p)

\* Fault: the event is heeded only by the screen that rings.
EndedIfRinging(p) == Leave(p, {me[p].inc})

Ended(p) == Leave(p, {me[p].cur, me[p].inc})

\* A signal reaches its client, after the events of its call that came before it.
Hears(p, s, kind) ==
  /\ s \in wire /\ s.to = p /\ s.kind = kind
  /\ \A i \in DOMAIN queue[p] :
       queue[p][i].call = s.call =>
         queue[p][i].kind \notin {"started", "incoming", "accepted"}

Heard(p, s, h, sent) ==
  /\ me' = [me EXCEPT ![p] = h]
  /\ wire' = (wire \ {s}) \cup sent
  /\ UNCHANGED <<task, queue, server, faults>>

\* For another call, or a connection of another call: ignored, or refused.
Foreign(h, s) == h.pc.call # NoCall /\ (s.call # h.cur \/ h.pc.call # h.cur)

\* An offer is parked, ignored (another call's, or a collision that the impolite
\* side wins), or applied; the polite side's own offer is then rolled back, once
\* setLocalDescription is through with it.  An offer that comes while another is being
\* applied waits for that.
Offer(p, s) ==
  LET h == me[p]
      o == [call |-> s.call, tracks |-> s.tracks]
      clash == h.pc.making \/ h.pc.sig # "stable"
  IN  /\ Hears(p, s, "offer")
      /\ IF h.pc.call = NoCall THEN Heard(p, s, [h EXCEPT !.offer = o], {})
         ELSE IF Foreign(h, s) \/ (clash /\ ~h.polite) THEN Heard(p, s, h, {})
         ELSE /\ ~h.pc.making /\ h.pc.desc = NoCall
              /\ Heard(p, s, [h EXCEPT !.pc.desc = o], {})

\* An answer without an offer of one's own throws, and is shown as an error.
TakeAnswer(p, s) ==
  LET h == me[p]
  IN  /\ Hears(p, s, "answer")
      /\ Heard(p, s, IF Foreign(h, s) \/ h.pc.sig # "local" \/ h.pc.desc # NoCall THEN h
                     ELSE Flush([h EXCEPT !.pc.sig = "stable", !.pc.remote = TRUE,
                                          !.pc.hears = Ears(h.pc, s.tracks)]), {})

\* A candidate waits for the connection, and then for its remote description.
Candidate(p, s) ==
  LET h == me[p]
  IN  /\ Hears(p, s, "candidate")
      /\ Heard(p, s, IF Foreign(h, s) THEN h
                     ELSE IF h.pc.remote THEN [h EXCEPT !.pc.cand = TRUE]
                     ELSE [h EXCEPT !.cands = @ \cup {s.call}], {})

\* The server relays no signal of a call that is over.
Unrelayed(s) ==
  /\ s \in wire /\ line[s.call] \notin Ongoing
  /\ wire' = wire \ {s}
  /\ UNCHANGED <<me, task, queue, server, faults>>

-----------------------------------------------------------------------------
(* The browser's connection.                                               *)

\* setRemoteDescription of an offer is through, and setLocalDescription begins to
\* make the answer.  The listener releases the candidates first, accept() later.
Described(p) ==
  LET h == me[p]
      d == h.pc.desc
      g == [h EXCEPT !.pc.sig = "remote", !.pc.remote = TRUE,
                     !.pc.hears = Ears(h.pc, d.tracks),
                     !.pc.desc = [d EXCEPT !.tracks = h.pc.tracks]]
  IN  /\ d # NoCall /\ h.pc.sig # "remote"
      /\ Turn(p, IF h.pc.by = NoCall THEN Flush(g) ELSE g, {})
      /\ UNCHANGED task

\* It is through: the answer carries a microphone that was added in time; one that was
\* not is still to be negotiated.  accept() answers for the call its client is in then.
Answered(p) ==
  LET h == me[p]
      d == h.pc.desc
      c == IF h.pc.by = NoCall THEN d.call ELSE h.cur
  IN  /\ d # NoCall /\ h.pc.sig = "remote"
      /\ \E tracks \in {d.tracks, h.pc.tracks} :
           LET g == [h EXCEPT !.pc.sig = "stable", !.pc.desc = NoCall, !.pc.by = NoCall,
                              !.pc.need = h.pc.tracks /\ ~tracks, !.may = TRUE]
           IN  Turn(p, IF h.pc.by = NoCall THEN g ELSE [Flush(g) EXCEPT !.inc = NoCall],
                    IF c = NoCall THEN {} ELSE {Signal(p, "answer", c, tracks)})
      /\ task' = [task EXCEPT ![p] = [x \in Calls |-> IF Applies(p, x) THEN Done ELSE @[x]]]

\* onnegotiationneeded: only a side that may offers, and only when it is stable.
MakeOffer(p) ==
  LET h == me[p]
  IN  /\ h.pc.need /\ h.may /\ ~h.pc.making
      /\ h.pc.sig = "stable" /\ h.pc.desc = NoCall
      /\ Turn(p, [h EXCEPT !.pc.making = TRUE, !.pc.need = FALSE], {})
      /\ UNCHANGED task

\* setLocalDescription is through.
SendOffer(p) ==
  LET h == me[p]
  IN  /\ h.pc.making
      /\ Turn(p, [h EXCEPT !.pc.making = FALSE, !.pc.sig = "local"],
              {Signal(p, "offer", h.pc.call, h.pc.tracks),
               Signal(p, "candidate", h.pc.call, FALSE)})
      /\ UNCHANGED task

\* A pair of candidates works, as soon as both ends have a description.  A connection
\* without its handlers does not hear of that, nor of what becomes of it.
Connect(p) ==
  LET h == me[p]
      g == me[Other(p)]
      up == [h EXCEPT !.pc.ice = "up"]
  IN  /\ h.pc.call # NoCall /\ h.pc.call = g.pc.call
      /\ h.pc.remote /\ g.pc.remote /\ (h.pc.cand \/ g.pc.cand)
      /\ h.pc.ice \in {"new", "down", "checking"}
      /\ Turn(p, IF h.pc.tracks
                   THEN [up EXCEPT !.st = "active", !.pc.restarts = 0, !.pc.timer = FALSE]
                   ELSE up, {})
      /\ UNCHANGED task

\* 'disconnected': the network changed; wait four seconds.
Drop(p) ==
  LET h == [me[p] EXCEPT !.pc.ice = "down"]
  IN  /\ me[p].pc.ice \in {"up", "checking"} /\ Fault
      /\ me' = [me EXCEPT ![p] = IF h.pc.tracks
                                   THEN [h EXCEPT !.st = "connecting", !.pc.timer = TRUE]
                                   ELSE h]
      /\ UNCHANGED <<task, queue, wire, server>>

\* The side that may offer restarts ICE, RESTARTS times at most; the other waits.
RestartTimer(p) ==
  LET h == [me[p] EXCEPT !.pc.timer = FALSE]
  IN  /\ me[p].pc.timer
      /\ IF h.pc.ice # "down" \/ ~h.may THEN Turn(p, h, {})
         ELSE IF h.pc.restarts >= RESTARTS
           THEN Go(p, [h EXCEPT !.st = "failed"], queue, {}, {h.pc.call})
         ELSE Turn(p, [h EXCEPT !.pc.restarts = @ + 1, !.pc.need = TRUE,
                                !.pc.ice = "checking"], {})
      /\ UNCHANGED task

Fail(p) ==
  LET h == [me[p] EXCEPT !.pc.ice = "failed"]
  IN  /\ h.pc.remote /\ me[p].pc.ice \in {"new", "down", "checking"} /\ Fault
      /\ IF h.pc.tracks
           THEN /\ me' = [me EXCEPT ![p] = [h EXCEPT !.st = "failed"]]
                /\ asks' = asks \cup {EndOf(h.pc.call, p)}
           ELSE me' = [me EXCEPT ![p] = h] /\ UNCHANGED asks
      /\ UNCHANGED <<task, queue, wire, line, lost>>

-----------------------------------------------------------------------------
(* The server.                                                             *)

\* end(): the row is over, if it was not yet.
EndCommit(a) ==
  /\ a \in asks /\ a.at = "asked"
  /\ line' = [line EXCEPT ![a.call] = IF @ \in Ongoing THEN "over" ELSE @]
  /\ asks' = (asks \ {a}) \cup {[a EXCEPT !.at = "committed"]}
  /\ UNCHANGED <<me, task, queue, wire, lost, faults>>

\* The other side is told, also of a call that was over already.
EndTell(a) ==
  /\ a \in asks /\ a.at = "committed"
  /\ queue' = Post(queue, Other(a.by), Told("ended", a.call))
  /\ asks' = (asks \ {a}) \cup {[a EXCEPT !.at = "told"]}
  /\ UNCHANGED <<me, task, wire, line, lost, faults>>

\* A statement of onEnd throws, before or after the commit: nobody is told.
EndLost(a) ==
  /\ a \in asks /\ a.at # "told" /\ Fault
  /\ asks' = asks \ {a} /\ lost' = lost \cup {a.call}
  /\ UNCHANGED <<me, task, queue, wire, line>>

\* The socket of p is down: what is emitted to it is gone, and an ack that does not
\* come is a refusal.
LoseEvent(p) ==
  LET e == Head(queue[p])
  IN  /\ queue[p] # <<>> /\ e.kind # "refused" /\ Fault
      /\ queue' = IF e.kind \in {"started", "joined"}
                    THEN [queue EXCEPT ![p] = <<Told("refused", e.call)>> \o Tail(@)]
                    ELSE Rest(p)
      /\ lost' = lost \cup {e.call}
      /\ UNCHANGED <<me, task, wire, line, asks>>

LoseSignal(s) ==
  /\ s \in wire /\ line[s.call] \in Ongoing /\ Fault
  /\ wire' = wire \ {s} /\ lost' = lost \cup {s.call}
  /\ UNCHANGED <<me, task, queue, line, asks>>

\* The server's sweep tells nobody.
Expire(c) ==
  /\ line[c] = "ringing"
  /\ line' = [line EXCEPT ![c] = "expired"]
  /\ UNCHANGED <<me, task, queue, wire, asks, lost, faults>>

-----------------------------------------------------------------------------
User(p) ==
  \/ \E c \in Calls : Call(p, c)
  \/ Accept(p) \/ Decline(p) \/ HangUp(p)

Media(p) ==
  \E c \in Calls : CallMedia(p, c) \/ AnswerMedia(p, c) \/ MediaFails(p, c)

Receive(p) ==
  \/ Started(p) \/ Joined(p) \/ Refused(p)
  \/ Incoming(p) \/ Accepted(p) \/ Ended(p)

Listen(p) == \E s \in wire : Offer(p, s) \/ TakeAnswer(p, s) \/ Candidate(p, s)

Negotiate(p) == MakeOffer(p) \/ SendOffer(p) \/ Described(p) \/ Answered(p)
Network(p)   == Drop(p) \/ Fail(p) \/ RestartTimer(p)

Serve        == \E a \in asks : EndCommit(a) \/ EndTell(a)

Loss ==
  \/ \E a \in asks : EndLost(a)
  \/ \E p \in Clients : LoseEvent(p)
  \/ \E s \in wire : LoseSignal(s)

HookNext ==
  \/ \E p \in Clients :
       \/ User(p) \/ Media(p) \/ Receive(p) \/ Listen(p)
       \/ Negotiate(p) \/ Network(p) \/ Connect(p) \/ IdleTimer(p)
  \/ Serve \/ Loss
  \/ \E s \in wire : Unrelayed(s)
  \/ \E c \in Calls : Expire(c)

HookSpec == HookInit /\ [][HookNext]_hookvars

\* The server handles call:end, the event loops run, signals arrive unless they are
\* lost, a prompt is answered, and a pair of candidates that can work is found.  It is
\* enough that one of these goes on as long as one can.
Works ==
  \/ Serve
  \/ \E p \in Clients :
       Media(p) \/ Receive(p) \/ Listen(p) \/ Negotiate(p) \/ Connect(p)

HookFairness == WF_hookvars(Works)

-----------------------------------------------------------------------------
(* Type invariant                                                          *)

HookTypeOK ==
  /\ me \in [Clients -> Hook]
  /\ task \in [Clients -> [Calls -> Task]]
  /\ \A p \in Clients : \A i \in DOMAIN queue[p] : queue[p][i].call \in Calls
  /\ \A s \in wire : s.to \in Clients /\ s.call \in Calls
  /\ line \in [Calls -> Row] /\ asks \subseteq Ask /\ lost \subseteq Calls
  /\ faults \in 0..MaxFaults

-----------------------------------------------------------------------------
(* What the two ends come to.                                              *)

\* What could mix up two calls: a signal of another call, parked or on its way.
Unmixed(c) ==
  /\ \A p \in Clients : /\ me[p].offer # NoCall => me[p].offer.call = c
                        /\ me[p].cands \subseteq {c}
  /\ \A s \in wire : s.call = c

\* Someone has left it, it has failed, or the network has changed.
Left(c) ==
  \/ line[c] \notin Ongoing
  \/ \E p \in Clients : \/ me[p].cur # c \/ me[p].st = "failed"
                        \/ me[p].pc.ice \in {"down", "checking", "failed"}

Connected(c) == \A p \in Clients : me[p].pc.call = c /\ me[p].pc.ice = "up"
Hear(c, p)   == me[p].pc.call = c /\ me[p].pc.hears = "yes"

\* The callee's connection was up, and answered, before its microphone was.
Early(c) == me[Other(Caller[c])].pc.hears = "missed"

\* "Both sides doing the same thing is exactly how a connection deadlocks": whatever
\* order its signals come in, an answered call is connected, and shown as such to a
\* callee that hears the caller, unless somebody leaves it, something of it is lost, or
\* the network changes.  An offer that comes while the callee is asked for its
\* microphone is excepted: it connects, but a callee without handlers stays deaf.
NegotiationSettles ==
  \A c \in Calls :
    line[c] = "active" /\ Unmixed(c)
      ~> \/ Left(c) \/ c \in lost
         \/ /\ Connected(c)
            /\ Early(c) \/ (Hear(c, Other(Caller[c])) /\ me[Other(Caller[c])].st = "active")

\* "Only the caller opens negotiation", lest "audio and video flow one way only, with
\* no error anywhere": both sides of a connected call come to hear each other.
BothWays ==
  \A c \in Calls :
    Connected(c) ~> Left(c) \/ c \in lost \/ \A p \in Clients : Hear(c, p)

\* Whoever ends a call is heard, unless the server fails or something is lost on its
\* way: the other end leaves it, whatever it was waiting for.  What has been asked stays
\* asked, so that nobody stays in such a call, or comes back to it.
LeaverIsHeard ==
  \A c \in Calls :
    (\E a \in asks : a.call = c)
      ~> \/ c \in lost
         \/ \A a \in asks :
              a.call = c => me[Other(a.by)].cur # c /\ me[Other(a.by)].inc # c
=============================================================================
