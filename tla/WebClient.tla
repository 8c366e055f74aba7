------------------------------ MODULE WebClient ------------------------------
(***************************************************************************)
(* How a page of the web client stays signed in: the shared refresh of     *)
(* lib/api.ts, the retries of api() and of uploadMedia(), the store of     *)
(* features/auth/store.ts, and what the four cookie routes of              *)
(* auth.controller.ts do with the one refresh cookie of the browser.       *)
(*                                                                         *)
(* The server's part is the row a token is found by, read and written in   *)
(* one step: Sessions has the statements.  The cookie outlives the page: a *)
(* response that arrives for a page that is gone still sets it.            *)
(***************************************************************************)
EXTENDS Naturals, FiniteSets

CONSTANTS Tokens,   \* refresh tokens the browser or a message holds at once
          Calls,    \* requests a page has under way at once
          Uploads,  \* those of uploadMedia(); the others are of api()
          Wires,    \* requests under way to the cookie routes
          NoToken   \* no token

ASSUME UploadsAreCalls == Uploads \subseteq Calls
ASSUME TokensAreFinite == IsFiniteSet(Tokens)
ASSUME NoTokenIsNone == NoToken \notin Tokens

VARIABLES
  cookie,   \* REFRESH_COOKIE
  row,      \* sessions: the state and the family of each token
  page,     \* useAuth's status, accessToken and refreshing
  call,     \* Calls -> what its function awaits, and if its access token is good
  wire,     \* Wires -> a request to a cookie route, or the response to it
  past      \* history variables: see SingleFlightIsEnough

web == <<cookie, row, page, call, wire, past>>

-----------------------------------------------------------------------------
Unused == [at |-> "none"]
NoCall == [at |-> "idle", good |-> FALSE]

Busy(c)   == call[c].at # "idle"
Awaiting  == {w \in Wires : wire[w].at # "none" /\ wire[w].mine}
OnTheWire == {w \in Wires : wire[w].at # "none"}

\* A token nobody holds can be taken again for a new one, unless it is one that an
\* undisturbed browser should not have forgotten.
Held  == {cookie} \cup UNION {{wire[w].token, wire[w].new} : w \in OnTheWire}
Spare == {t \in Tokens \ Held : row[t].st # "live" \/ ~past.clean}

\* They are interchangeable, and so are families and wires: the next is any that is free.
NewToken  == CHOOSE t \in Spare : TRUE
NewFamily == CHOOSE f \in Tokens :
               \A t \in Tokens \ {NewToken} : row[t].st = "none" \/ row[t].fam # f
FreeWire(w) == wire[w].at = "none" /\ w = CHOOSE v \in Wires : wire[v].at = "none"

\* Nothing is under way that sets the cookie, or nothing but refreshes of this page.
WireIdle  == OnTheWire = {}
Refreshes == \A w \in OnTheWire : wire[w].mine /\ wire[w].kind = "refresh"
Clean(quiet) == past' = [past EXCEPT !.clean = @ /\ quiet]

\* fetch() sends the cookie of this moment.
Sends(w, kind) ==
  /\ FreeWire(w)
  /\ wire' = [wire EXCEPT ![w] = [at |-> "asked", kind |-> kind, token |-> cookie,
                                  new |-> NoToken, ok |-> FALSE, mine |-> TRUE]]

-----------------------------------------------------------------------------
(* The page is loaded: restore().                                          *)

NewPage == [status |-> "loading", access |-> "none", refreshing |-> "no"]

WebInit ==
  /\ cookie = NoToken /\ row = [t \in Tokens |-> [st |-> "none", fam |-> t]]
  /\ page = [NewPage EXCEPT !.status = "anon"]
  /\ call = [c \in Calls |-> NoCall] /\ wire = [w \in Wires |-> Unused]
  /\ past = [clean |-> TRUE, killed |-> FALSE, out |-> FALSE]

\* What the old page awaited is answered to nobody; its cookies count all the same.
Load(w) ==
  /\ FreeWire(w)
  /\ page' = NewPage /\ call' = [c \in Calls |-> NoCall]
  /\ wire' = [v \in Wires |->
                IF v = w THEN [at |-> "asked", kind |-> "restore", token |-> cookie,
                               new |-> NoToken, ok |-> FALSE, mine |-> TRUE]
                ELSE IF wire[v].at = "none" THEN Unused
                ELSE [wire[v] EXCEPT !.mine = FALSE]]
  /\ Clean(WireIdle)
  /\ UNCHANGED <<cookie, row>>

-----------------------------------------------------------------------------
(* api() and uploadMedia().                                                *)

\* The token of a call is that of the moment its fetch is made.
Fetch(c, at) == call' = [call EXCEPT ![c] = [at |-> at, good |-> page.access = "good"]]

Begin(c) ==
  /\ page.status = "authed" /\ ~Busy(c)
  /\ IF c \in Uploads THEN call' = [call EXCEPT ![c].at = "measure"] ELSE Fetch(c, "sent")
  /\ UNCHANGED <<cookie, row, page, wire, past>>

\* "A corrupt or exotic file must not hang the upload forever": loaded, failed or bailed
\* out of, and the token is read after it.
Measured(c) ==
  /\ call[c].at = "measure"
  /\ Fetch(c, "sent")
  /\ UNCHANGED <<cookie, row, page, wire, past>>

\* Fault: every 401 makes a refresh of its own.
JoinUnshared(c, waits, retry, gives) ==
  /\ \E w \in Wires : Sends(w, "refresh")
  /\ call' = [call EXCEPT ![c].at = waits]
  /\ page' = [page EXCEPT !.refreshing = "asked"]
  /\ Clean(Refreshes)

\* refresh(): `refreshing ??= ...', and what the caller does once it settles.
Join(c, waits, retry, gives) ==
  \/ /\ page.refreshing = "no"
     /\ \E w \in Wires : Sends(w, "refresh")
     /\ call' = [call EXCEPT ![c].at = waits]
     /\ page' = [page EXCEPT !.refreshing = "asked"]
     /\ Clean(Refreshes)
  \/ /\ page.refreshing = "asked"
     /\ call' = [call EXCEPT ![c].at = waits]
     /\ UNCHANGED <<page, wire, past>>
  \/ /\ page.refreshing = "true" /\ Fetch(c, retry)
     /\ UNCHANGED <<page, wire, past>>
  \/ /\ page.refreshing = "false"
     /\ IF gives = "idle" THEN call' = [call EXCEPT ![c] = NoCall] ELSE Fetch(c, gives)
     /\ UNCHANGED <<page, wire, past>>

\* Fault: a retry that gets a 401 is retried again.
RetryForever(c) ==
  /\ call[c].at \in {"sent", "again"} /\ c \notin Uploads /\ ~call[c].good
  /\ Join(c, "wait", "again", "idle")
  /\ UNCHANGED <<cookie, row>>

\* A 401: api() retries once if the refresh returned true.
QueryUnauthorised(c) ==
  /\ call[c].at = "sent" /\ c \notin Uploads /\ ~call[c].good
  /\ Join(c, "wait", "again", "idle")
  /\ UNCHANGED <<cookie, row>>

\* uploadMedia() calls api('/auth/me') and takes no notice of how that ends.
UploadUnauthorised(c) ==
  /\ call[c].at = "sent" /\ c \in Uploads /\ ~call[c].good
  /\ Fetch(c, "me")
  /\ UNCHANGED <<cookie, row, page, wire, past>>

MeUnauthorised(c) ==
  /\ call[c].at = "me" /\ ~call[c].good
  /\ Join(c, "me_wait", "me_again", "again")
  /\ UNCHANGED <<cookie, row>>

\* Any other answer to /auth/me, none, or the 401 to its retry.
MeAnswered(c) ==
  /\ call[c].at \in {"me", "me_again"}
  /\ Fetch(c, "again")
  /\ UNCHANGED <<cookie, row, page, wire, past>>

\* The last answer: with what was asked for, an error, none, or a second 401.
Answered(c, ok) ==
  /\ call[c].at \in {"sent", "again"} /\ (ok => call[c].good)
  /\ call' = [call EXCEPT ![c] = NoCall]
  /\ UNCHANGED <<cookie, row, page, wire, past>>

-----------------------------------------------------------------------------
(* The store.                                                              *)

\* AuthScreen shows the form of signIn and signUp.
SignIn(w) ==
  /\ page.status = "anon" /\ \A v \in Awaiting : wire[v].kind # "login"
  /\ Sends(w, "login")
  /\ past' = [past EXCEPT !.clean = @ /\ WireIdle, !.out = FALSE]
  /\ UNCHANGED <<cookie, row, page, call>>

SignOut(w) ==
  /\ page.status = "authed" /\ \A v \in Awaiting : wire[v].kind # "logout"
  /\ Sends(w, "logout")
  /\ Clean(WireIdle)
  /\ UNCHANGED <<cookie, row, page, call>>

-----------------------------------------------------------------------------
(* AuthController and AuthService.                                         *)

Answer(w, new, ok) ==
  wire' = [wire EXCEPT ![w].at = "answered", ![w].new = new, ![w].ok = ok]

Mint(w, fam, rows) ==
  /\ Spare # {}
  /\ row' = [rows EXCEPT ![NewToken] = [st |-> "live", fam |-> fam]]
  /\ Answer(w, NewToken, TRUE)

Asked(w, kinds) == wire[w].at = "asked" /\ wire[w].kind \in kinds

\* The token is rotated ...
ServerRotate(w) ==
  LET old == wire[w].token
  IN  /\ Asked(w, {"restore", "refresh"}) /\ old # NoToken /\ row[old].st = "live"
      /\ Mint(w, row[old].fam, [row EXCEPT ![old].st = "rotated"])
      /\ UNCHANGED <<cookie, page, call, past>>

\* ... and one that was, or is revoked, takes its family with it.
ServerReplay(w) ==
  LET old == wire[w].token
  IN  /\ Asked(w, {"restore", "refresh"}) /\ old # NoToken
      /\ row[old].st \in {"rotated", "dead"}
      /\ row' = [t \in Tokens |->
                   IF row[t].fam = row[old].fam /\ row[t].st # "none"
                     THEN [row[t] EXCEPT !.st = "dead"] ELSE row[t]]
      /\ past' = [past EXCEPT !.killed = @ \/ row[old].st = "rotated"]
      /\ Answer(w, NoToken, FALSE)
      /\ UNCHANGED <<cookie, page, call>>

\* No cookie, no such user, a limit reached, an error.  A page that is loaded in vain
\* asks for a log-in, whose session takes the cookie from one that is still live.
ServerRefuse(w) ==
  /\ Asked(w, {"restore", "refresh", "login"})
  /\ Answer(w, NoToken, FALSE)
  /\ Clean(wire[w].kind = "restore" => wire[w].token = NoToken)
  /\ UNCHANGED <<cookie, row, page, call>>

ServerLogin(w) ==
  /\ Asked(w, {"login"})
  /\ Mint(w, NewFamily, row)
  /\ UNCHANGED <<cookie, page, call, past>>

\* The presented token is revoked, and no other of its family.
ServerLogout(w) ==
  LET old == wire[w].token
  IN  /\ Asked(w, {"logout"})
      /\ row' = IF old # NoToken /\ row[old].st = "live"
                  THEN [row EXCEPT ![old].st = "dead"] ELSE row
      /\ Answer(w, NoToken, TRUE)
      /\ UNCHANGED <<cookie, page, call, past>>

\* "Log out everywhere", a reset or a ban, of another device.
RevokeAll ==
  /\ \E t \in Tokens : row[t].st = "live"
  /\ row' = [t \in Tokens |-> IF row[t].st = "live" THEN [row[t] EXCEPT !.st = "dead"]
                                                     ELSE row[t]]
  /\ UNCHANGED <<cookie, page, call, wire, past>>

-----------------------------------------------------------------------------
(* The answers arrive, or do not.                                          *)

\* The calls that awaited the shared refresh go on in the order they joined, before
\* its promise is cleared.
Resumed(ok) ==
  [c \in Calls |->
     CASE call[c].at = "wait"    -> IF ok THEN [at |-> "again", good |-> TRUE] ELSE NoCall
       [] call[c].at = "me_wait" -> [at   |-> IF ok THEN "me_again" ELSE "again",
                                     good |-> ok \/ page.access = "good"]
       [] OTHER                  -> call[c]]

\* What the function that awaits the wire does with it.
Settle(w, ok) ==
  LET kind == wire[w].kind
      authed(yes) == page' = [page EXCEPT !.status = IF yes THEN "authed" ELSE "anon",
                                          !.access = IF yes THEN "good" ELSE "none"]
  IN  IF ~wire[w].mine THEN UNCHANGED <<page, call>>
      ELSE CASE kind = "restore" -> authed(ok) /\ UNCHANGED call
             [] kind = "login"   -> (IF ok THEN authed(TRUE) ELSE UNCHANGED page)
                                    /\ UNCHANGED call
             [] kind = "logout"  -> authed(FALSE) /\ UNCHANGED call
             [] kind = "refresh" ->
                  /\ page' = [page EXCEPT !.refreshing = IF ok THEN "true" ELSE "false",
                                          !.access = IF ok THEN "good" ELSE @]
                  /\ call' = Resumed(ok)

SignsOut(w) == wire[w].kind = "logout" /\ wire[w].mine

\* Set-Cookie counts whoever asked.
Receive(w) ==
  /\ wire[w].at = "answered"
  /\ Settle(w, wire[w].ok)
  /\ wire' = [wire EXCEPT ![w] = Unused]
  /\ cookie' = IF wire[w].kind = "logout" THEN NoToken
               ELSE IF wire[w].ok THEN wire[w].new ELSE cookie
  /\ past' = [past EXCEPT !.out = @ \/ SignsOut(w)]
  /\ UNCHANGED row

\* The request or its response is lost: for the page both are a failed fetch.
Lose(w) ==
  /\ wire[w].at # "none"
  /\ Settle(w, FALSE)
  /\ wire' = [wire EXCEPT ![w] = Unused]
  /\ past' = [past EXCEPT !.clean = FALSE, !.out = @ \/ SignsOut(w)]
  /\ UNCHANGED <<cookie, row>>

\* "Cleared on the next tick so concurrent callers all observe this result."
ClearRefresh ==
  /\ page.refreshing \in {"true", "false"}
  /\ page' = [page EXCEPT !.refreshing = "no"]
  /\ UNCHANGED <<cookie, row, call, wire, past>>

\* ACCESS_TOKEN_TTL.
AccessExpires ==
  /\ page.access = "good"
  /\ page' = [page EXCEPT !.access = "stale"]
  /\ call' = [c \in Calls |-> [call[c] EXCEPT !.good = FALSE]]
  /\ UNCHANGED <<cookie, row, wire, past>>

-----------------------------------------------------------------------------
Server(w) == \/ ServerRotate(w) \/ ServerReplay(w) \/ ServerRefuse(w)
             \/ ServerLogin(w) \/ ServerLogout(w)

Unauthorised(c) == QueryUnauthorised(c) \/ UploadUnauthorised(c) \/ MeUnauthorised(c)

\* The type invariant, with one shared refresh at a time.
WebTypeOK ==
  /\ cookie \in Tokens \cup {NoToken} /\ past \in [clean : BOOLEAN, killed : BOOLEAN, out : BOOLEAN]
  /\ row \in [Tokens -> [st : {"none", "live", "rotated", "dead"}, fam : Tokens]]
  /\ page \in [status : {"loading", "anon", "authed"}, access : {"none", "good", "stale"},
               refreshing : {"no", "asked", "true", "false"}]
  /\ call \in [Calls -> [at : {"idle", "measure", "sent", "wait", "again",
                               "me", "me_wait", "me_again"}, good : BOOLEAN]]
  /\ Cardinality({w \in Awaiting : wire[w].kind = "refresh"}) <= 1

\* "Five parallel 401s must not fire five refreshes - that races, and four of them
\* rotate a token another already used, which the server correctly treats as theft": as
\* long as no answer is lost or denied and no route that sets the cookie overtakes
\* another, no session is taken for stolen, however the calls, the expiry and the retries
\* fall, and whoever has signed out has left no session that a cookie could restore.
SingleFlightIsEnough ==
  past.clean => /\ ~past.killed
                /\ past.out => \A t \in Tokens : row[t].st # "live"

\* "One retry after a successful refresh, then give up - otherwise a revoked session
\* loops forever": whatever the server answers, and however often the token expires,
\* every call ends, and the page does not stay on the brand mark.
CallsEnd ==
  /\ \A c \in Calls : Busy(c) ~> ~Busy(c)
  /\ page.status = "loading" ~> page.status # "loading"

-----------------------------------------------------------------------------
(* The inductive strengthening of SingleFlightIsEnough.                    *)

Packet == [at : {"asked", "answered"}, kind : {"restore", "refresh", "login", "logout"},
           token : Tokens \cup {NoToken}, new : Tokens \cup {NoToken},
           ok : BOOLEAN, mine : BOOLEAN]

\* The answer that w carries sets the cookie.
Gives(w) == wire[w].at = "answered" /\ wire[w].ok /\ wire[w].kind # "logout"

\* Requests and answers are well-formed, and the page has one refresh at a time.
WireOK ==
  /\ wire \in [Wires -> Packet \cup {Unused}]
  /\ \A w \in Wires : Gives(w) => wire[w].new \in Tokens
  /\ \A w \in Awaiting : wire[w].kind = "refresh" => page.refreshing = "asked"
  /\ \A v, w \in Awaiting :
       wire[v].kind = "refresh" /\ wire[w].kind = "refresh" => v = w

NoneLive == \A t \in Tokens : row[t].st # "live"
Spent    == cookie \in Tokens => row[cookie].st # "live"

\* One request at a time carries the cookie, and is this page's ...
OneRequest ==
  /\ \A v, w \in OnTheWire : v = w
  /\ \A w \in OnTheWire : wire[w].mine /\ wire[w].token = cookie

\* ... so that a session is in the cookie or on its way there, and a rotated token is
\* in the cookie only until the answer that replaces it arrives.
InHand ==
  /\ \A t \in Tokens :
       row[t].st = "live" => t = cookie \/ \E w \in Wires : Gives(w) /\ wire[w].new = t
  /\ cookie \in Tokens /\ row[cookie].st = "rotated" =>
       \E w \in Wires : Gives(w) /\ wire[w].kind # "login"
  /\ \A w \in Wires : Gives(w) => Spent /\ row[wire[w].new].st # "rotated"

\* Nobody signs in, or has signed out, over a session.
SignedOut ==
  /\ page.status = "anon" =>
       Spent /\ \A w \in Wires : Gives(w) => wire[w].kind = "login"
  /\ \A w \in OnTheWire :
       /\ wire[w].kind = "login" => Spent /\ ~past.out
       /\ wire[w].kind = "restore" /\ wire[w].at = "answered" /\ ~wire[w].ok => Spent
       /\ wire[w].kind = "logout" /\ wire[w].at = "answered" => NoneLive
  /\ past.out => NoneLive

WebInv ==
  /\ WebTypeOK /\ WireOK
  /\ past.clean => ~past.killed /\ OneRequest /\ InHand /\ SignedOut
=============================================================================
