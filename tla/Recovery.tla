------------------------------ MODULE Recovery ------------------------------
(***************************************************************************)
(* What happens to one account from outside its sessions: the password     *)
(* reset of password-reset.service.ts, with the screen of ResetFlow.tsx     *)
(* that walks through it, and the reports and decisions of                 *)
(* moderation.service.ts about the account and its content.                *)
(*                                                                         *)
(* Codes are numbered as they are created, all within an hour.  A code may *)
(* be typed whether or not its mail arrived: a lost one is never typed.    *)
(* What either service does to the sessions is in Sessions.                *)
(***************************************************************************)
EXTENDS Naturals, FiniteSets

CONSTANTS MaxCodes,               \* a bound of the model: codes ever created
          MaxRows,                \* a bound of the model: codes and reports together
          MAX_ATTEMPTS,           \* 5 in the code
          MAX_REQUESTS_PER_HOUR,  \* 5 in the code
          Reporters,
          Reports,                \* primary keys of reports
          Targets,                \* "user", "content": what they are about
          Reqs,                   \* handlers that may be in flight at once
          None

ASSUME LimitsPositive ==
  MaxCodes \in Nat /\ MAX_ATTEMPTS \in Nat \ {0} /\ MAX_REQUESTS_PER_HOUR \in Nat \ {0}

VARIABLES
  account,   \* the row of users, and the content that is reported
  code,      \* Codes -> the row of verification_codes
  report,    \* Reports -> the row of reports
  log,       \* Reports -> rows of moderation_actions and admin_audit_logs
  screen,    \* ResetFlow: its step, the code typed, and whether it is busy
  req        \* Reqs -> the handler's position and local variables

reset == <<code, screen>>
cases == <<report, log>>
vars  == <<account, reset, cases, req>>

Codes == 1..MaxCodes

-----------------------------------------------------------------------------
Account == [status : {"active", "suspended", "banned"}, up : BOOLEAN]

\* uses: how often the password was set with it.
CodeRow == [state : {"none", "live", "spent", "expired"}, attempts : Nat, uses : Nat]
NoCode  == [state |-> "none", attempts |-> 0, uses |-> 0]

Final    == {"actioned", "dismissed", "escalated"}
Report   == [status : {"none", "open"} \cup Final,
             by : Reporters \cup {None}, on : Targets \cup {None}]
NoReport == [status |-> "none", by |-> None, on |-> None]

Actions == {"warn", "remove_content", "suspend", "ban", "dismiss", "escalate"}

\* The screen's calls: the form, "Send a new code", the code and the password.
Forms == {"forgot", "resend", "verify", "complete"}

InFlight == {"count", "retire", "insert", "send", "burn", "miss", "set", "file", "decide"}

\* code: the row findLive returned, or the newest that request() has retired.
\* form: which of the screen's calls it answers.  case: the report that is decided;
\* by, on: one to be filed.
Request == [at : InFlight \cup {"idle"}, code : Codes \cup {0},
            form : Forms \cup {None}, case : Reports \cup {None},
            by : Reporters \cup {None}, on : Targets \cup {None}]
Idle == [at |-> "idle", code |-> 0, form |-> None,
         case |-> None, by |-> None, on |-> None]

\* code 0: a wrong one, or none.
Screen == [step : {"request", "code", "password", "done"},
           code : Codes \cup {0}, busy : BOOLEAN]

Finish(r)   == req' = [req EXCEPT ![r] = Idle]
Goto(r, at) == req' = [req EXCEPT ![r].at = at]

Live    == {c \in Codes : code[c].state = "live"}
Created == {c \in Codes : code[c].state # "none"}
Filed   == {n \in Reports : report[n].status # "none"}
Room    == Cardinality(Created) + Cardinality(Filed) < MaxRows

\* findLive: ORDER BY created_at DESC LIMIT 1.
Newest == {c \in Live : \A d \in Live : d <= c}

\* run(): the screen sends a call ...
Ask(form) == screen' = IF form = None THEN screen ELSE [screen EXCEPT !.busy = TRUE]

\* ... and is free again, where the answer takes it.
Answer(form) ==
  screen' = IF form = None THEN screen
            ELSE [screen EXCEPT !.busy = FALSE,
                   !.step = CASE form = "forgot"   -> "code"
                              [] form = "verify"   -> "password"
                              [] form = "complete" -> "done"
                              [] OTHER             -> @,
                   !.code = IF form = "resend" THEN 0 ELSE @]

\* The answer is an error.
Refuse(form) == screen' = IF form = None THEN screen ELSE [screen EXCEPT !.busy = FALSE]

-----------------------------------------------------------------------------
Init ==
  /\ account = [status |-> "active", up |-> TRUE]
  /\ code = [c \in Codes |-> NoCode]
  /\ report = [n \in Reports |-> NoReport] /\ log = [n \in Reports |-> 0]
  /\ screen = [step |-> "request", code |-> 0, busy |-> FALSE]
  /\ req = [r \in Reqs |-> Idle]

-----------------------------------------------------------------------------
(* request().                                                              *)

\* The reply is the same for a banned account, to which nothing happens.
Forgot(r, form) ==
  /\ req[r] = Idle
  /\ IF account.status = "banned"
       THEN UNCHANGED req /\ Answer(form)
       ELSE /\ req' = [req EXCEPT ![r] = [Idle EXCEPT !.at = "count", !.form = form]]
            /\ Ask(form)
  /\ UNCHANGED <<account, code, cases>>

RequestCount(r) ==
  /\ req[r].at = "count"
  /\ IF Cardinality(Created) >= MAX_REQUESTS_PER_HOUR
       THEN Finish(r) /\ Answer(req[r].form)
       ELSE Goto(r, "retire") /\ UNCHANGED screen
  /\ UNCHANGED <<account, code, cases>>

\* The transaction's UPDATE: it retires the codes that are there when it starts.
RequestRetire(r) ==
  /\ req[r].at = "retire"
  /\ req' = [req EXCEPT ![r].at = "insert", ![r].code = Cardinality(Created)]
  /\ UNCHANGED <<account, reset, cases>>

\* Fault: the older codes stay.
InsertBeside(r) ==
  \E c \in Codes :
    /\ req[r].at = "insert" /\ Created = 1..(c - 1) /\ Room
    /\ code' = [code EXCEPT ![c].state = "live"]
    /\ Goto(r, "send")
    /\ UNCHANGED <<account, screen, cases>>

\* The transaction's INSERT, with which it commits.
RequestInsert(r) ==
  \E c \in Codes :
    /\ req[r].at = "insert" /\ Created = 1..(c - 1) /\ Room
    /\ code' = [d \in Codes |->
                  IF d = c THEN [code[d] EXCEPT !.state = "live"]
                  ELSE IF d <= req[r].code THEN [code[d] EXCEPT !.state = "spent"]
                  ELSE code[d]]
    /\ Goto(r, "send")
    /\ UNCHANGED <<account, screen, cases>>

\* delivery.send says whether it delivered, and nobody asks.
RequestSend(r) ==
  /\ req[r].at = "send"
  /\ Finish(r) /\ Answer(req[r].form)
  /\ UNCHANGED <<account, code, cases>>

-----------------------------------------------------------------------------
(* verify() and complete().                                                *)

\* findLive, the cap and the comparison: what is to be written next.
Check(r, goal, guess, form) ==
  /\ req[r] = Idle
  /\ IF Newest = {}
       THEN UNCHANGED <<req, screen>>
       ELSE \E c \in Newest :
              LET next == IF code[c].attempts >= MAX_ATTEMPTS THEN "burn"
                          ELSE IF guess # c THEN "miss"
                          ELSE IF goal = "complete" THEN "set" ELSE "idle"
              IN  IF next = "idle"
                    THEN UNCHANGED req /\ Answer(form)
                    ELSE /\ req' = [req EXCEPT ![r] =
                              [Idle EXCEPT !.at = next, !.code = c, !.form = form]]
                         /\ Ask(form)
  /\ UNCHANGED <<account, code, cases>>

\* Somebody guesses, or has a code from the mail.
Try(r) ==
  \E goal \in {"verify", "complete"}, guess \in Created \cup {0} :
    Check(r, goal, guess, None)

Burn(r) ==
  /\ req[r].at = "burn"
  /\ code' = [code EXCEPT ![req[r].code].state = "spent"]
  /\ Finish(r) /\ Refuse(req[r].form)
  /\ UNCHANGED <<account, cases>>

\* attempts + 1, whatever it has become since it was read.
Miss(r) ==
  /\ req[r].at = "miss"
  /\ code' = [code EXCEPT ![req[r].code].attempts = @ + 1]
  /\ Finish(r) /\ Refuse(req[r].form)
  /\ UNCHANGED <<account, cases>>

\* Fault: the code may be used again.
SetKeepsCode(r) ==
  /\ req[r].at = "set"
  /\ code' = [code EXCEPT ![req[r].code].uses = @ + 1]
  /\ Finish(r) /\ Answer(req[r].form)
  /\ UNCHANGED <<account, cases>>

\* The password is hashed; then the transaction, which looks at the code no more.
SetPassword(r) ==
  /\ req[r].at = "set"
  /\ code' = [code EXCEPT ![req[r].code].state = "spent", ![req[r].code].uses = @ + 1]
  /\ Finish(r) /\ Answer(req[r].form)
  /\ UNCHANGED <<account, cases>>

-----------------------------------------------------------------------------
(* ResetFlow.tsx.                                                          *)

\* The field is not disabled while a call is in flight.
TypeCode ==
  /\ screen.step = "code"
  /\ \E guess \in Created \cup {0} : screen' = [screen EXCEPT !.code = guess]
  /\ UNCHANGED <<account, code, cases, req>>

\* A form is submitted; "Send a new code" is a button that is never disabled.
Submit(r) ==
  \/ screen.step = "request" /\ ~screen.busy /\ Forgot(r, "forgot")
  \/ screen.step = "code" /\ Forgot(r, "resend")
  \/ screen.step = "code" /\ ~screen.busy /\ Check(r, "verify", screen.code, "verify")
  \/ screen.step = "password" /\ ~screen.busy
     /\ Check(r, "complete", screen.code, "complete")

-----------------------------------------------------------------------------
(* report() and act().                                                     *)

Open(n) == report[n].status = "open"

\* Fault: nobody looks for a report that is open.
FileBlindly(r, by, on) ==
  /\ req[r] = Idle
  /\ req' = [req EXCEPT ![r] = [Idle EXCEPT !.at = "file", !.by = by, !.on = on]]
  /\ UNCHANGED <<account, reset, cases>>

\* One open report per person and target is looked for ...
FileRead(r, by, on) ==
  /\ req[r] = Idle
  /\ ~\E n \in Reports : Open(n) /\ report[n].by = by /\ report[n].on = on
  /\ req' = [req EXCEPT ![r] = [Idle EXCEPT !.at = "file", !.by = by, !.on = on]]
  /\ UNCHANGED <<account, reset, cases>>

\* ... and then one is inserted.
FileInsert(r) ==
  /\ req[r].at = "file" /\ Room
  /\ \E n \in Reports :
       /\ n \notin Filed
       /\ report' = [report EXCEPT ![n] =
                       [status |-> "open", by |-> req[r].by, on |-> req[r].on]]
  /\ Finish(r)
  /\ UNCHANGED <<account, reset, log>>

\* assertAdmin, and the report's status.
ActRead(r, n) ==
  /\ req[r] = Idle /\ Open(n)
  /\ req' = [req EXCEPT ![r] = [Idle EXCEPT !.at = "decide", !.case = n]]
  /\ UNCHANGED <<account, reset, cases>>

Fits(n, action) ==
  /\ action \in {"ban", "suspend"} => report[n].on = "user"
  /\ action = "remove_content" => report[n].on # "user"

Outcome(action) == CASE action = "escalate" -> "escalated"
                     [] action = "dismiss"  -> "dismissed"
                     [] OTHER               -> "actioned"

\* The transaction: the effect, the report and the two records.  An action that
\* does not fit the target rolls it back: Abort.
ActWrite(r) ==
  \E action \in Actions :
    LET n == req[r].case
    IN  /\ req[r].at = "decide" /\ Fits(n, action)
        /\ account' = [account EXCEPT
              !.status = IF action = "ban" THEN "banned"
                         ELSE IF action = "suspend" THEN "suspended" ELSE @,
              !.up = @ /\ action # "remove_content"]
        /\ report' = [report EXCEPT ![n].status = Outcome(action)]
        /\ log' = [log EXCEPT ![n] = @ + 1]
        /\ Finish(r)
        /\ UNCHANGED reset

-----------------------------------------------------------------------------
(* What happens around the two services.                                   *)

\* Sessions: a login ends a suspension whose time has come.
SuspensionLapses ==
  /\ account.status = "suspended"
  /\ account' = [account EXCEPT !.status = "active"]
  /\ UNCHANGED <<reset, cases, req>>

CodeExpires(c) ==
  /\ code[c].state = "live"
  /\ code' = [code EXCEPT ![c].state = "expired"]
  /\ UNCHANGED <<account, screen, cases, req>>

\* A statement fails: the transaction is rolled back, the request answered 500.
Abort(r) ==
  /\ req[r] # Idle
  /\ Finish(r) /\ Refuse(req[r].form)
  /\ UNCHANGED <<account, code, cases>>

-----------------------------------------------------------------------------
Arrive(r) ==
  \/ Forgot(r, None) \/ Try(r) \/ Submit(r)
  \/ \E by \in Reporters, on \in Targets : FileRead(r, by, on)
  \/ \E n \in Reports : ActRead(r, n)

Continue(r) ==
  \/ RequestCount(r) \/ RequestRetire(r) \/ RequestInsert(r) \/ RequestSend(r)
  \/ Burn(r) \/ Miss(r) \/ SetPassword(r)
  \/ FileInsert(r) \/ ActWrite(r)

Surroundings == SuspensionLapses \/ \E c \in Codes : CodeExpires(c)

Next ==
  \/ \E r \in Reqs : Arrive(r) \/ Continue(r) \/ Abort(r)
  \/ TypeCode \/ Surroundings

Spec == Init /\ [][Next]_vars

-----------------------------------------------------------------------------
(* Type invariant                                                          *)

TypeOK ==
  /\ account \in Account
  /\ code \in [Codes -> CodeRow]
  /\ report \in [Reports -> Report] /\ log \in [Reports -> Nat]
  /\ screen \in Screen
  /\ req \in [Reqs -> Request]
=============================================================================
