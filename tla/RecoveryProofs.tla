--------------------------- MODULE RecoveryProofs ---------------------------
(***************************************************************************)
(* Proofs about Recovery, for any limits, reports and handlers.            *)
(*                                                                         *)
(* UsesInv, GuessInv, LogInv and FileInv are the argument of Counting for  *)
(* one count each.  Live codes are counted by giving each a handler of its *)
(* own: LiveInv.                                                           *)
(***************************************************************************)
EXTENDS RecoverySerial, Counting, FiniteSetTheorems, FunctionTheorems, TLAPS

\* What the handler q still knows of the codes t that are created, whatever has run since.
Knows(q, t) ==
  /\ q.at = "insert" => q.code \in t \cup {0}
  /\ q.at \in {"burn", "miss", "set"} => q.code \in t
  /\ q.at = "decide" => q.case \in Reports
  /\ q.at = "file" => q.by \in Reporters /\ q.on \in Targets

\* Codes are numbered as they are created.
Numbered == \E n \in 0..MaxCodes : Created = 1..n

IInv ==
  /\ TypeOK
  /\ Numbered
  /\ \A r \in Reqs : Knows(req[r], Created)

-----------------------------------------------------------------------------
(* IInv is inductive.                                                      *)

LEMMA IdleFits == Idle \in Request /\ \A t : Knows(Idle, t)
  BY DEF Idle, Request, Knows

LEMMA InitIInv == Init => IInv
<1> SUFFICES ASSUME Init PROVE IInv
  OBVIOUS
<1>1. TypeOK
  BY IdleFits DEF Init, TypeOK, Account, CodeRow, NoCode, Report, NoReport, Screen
<1>2. Created = 1..0
  BY DEF Init, Created, NoCode
<1>3. Numbered
  BY <1>2, LimitsPositive DEF Numbered
<1>4. QED
  BY <1>1, <1>3, IdleFits DEF Init, IInv

\* The created codes are 1..n, and n counts them.
LEMMA CreatedCounted ==
  ASSUME Numbered
  PROVE  Cardinality(Created) \in 0..MaxCodes /\ Created = 1..Cardinality(Created)
<1>1. PICK n \in 0..MaxCodes : Created = 1..n
  BY DEF Numbered
<1>2. Cardinality(1..n) = n
  BY FS_Interval
<1>3. QED
  BY <1>1, <1>2

\* The screen keeps its type whatever it is told.
LEMMA ScreenStays ==
  ASSUME screen \in Screen, NEW form \in Forms \cup {None},
         Ask(form) \/ Answer(form) \/ Refuse(form) \/ UNCHANGED screen
  PROVE  screen' \in Screen
<1>1. CASE Ask(form) \/ Refuse(form) \/ UNCHANGED screen
  BY <1>1 DEF Ask, Refuse, Screen
<1>2. CASE Answer(form)
  BY <1>2 DEF Answer, Screen, Forms
<1>3. QED
  BY <1>1, <1>2

\* A step that changes one handler keeps the others.
LEMMA HandlerMoves ==
  ASSUME IInv, NEW r \in Reqs, NEW q \in Request, Knows(q, Created'),
         req' = [req EXCEPT ![r] = q], Created \subseteq Created'
  PROVE  req' \in [Reqs -> Request] /\ \A s \in Reqs : Knows(req'[s], Created')
  BY DEF IInv, TypeOK, Knows

\* The case of most steps: neither a code nor a report is written.
LEMMA QuietStep ==
  ASSUME IInv, NEW r \in Reqs, NEW q \in Request, Knows(q, Created), req' = [req EXCEPT ![r] = q],
         UNCHANGED <<account, code, cases>>, screen' \in Screen
  PROVE  IInv'
<1>1. req' \in [Reqs -> Request] /\ \A s \in Reqs : Knows(req'[s], Created')
  <2>1. Created' = Created
    BY DEF Created
  <2>2. QED
    BY <2>1, HandlerMoves
<1>2. TypeOK' /\ Numbered'
  BY <1>1 DEF IInv, TypeOK, cases, Numbered, Created
<1>3. QED
  BY <1>1, <1>2 DEF IInv

LEMMA HandlerTyped ==
  ASSUME IInv, NEW r \in Reqs
  PROVE  req[r] \in Request /\ Knows(req[r], Created) /\ req[r].form \in Forms \cup {None}
  BY DEF IInv, TypeOK, Request

LEMMA ForgotIInv ==
  ASSUME IInv, NEW r \in Reqs, NEW form \in Forms \cup {None}, Forgot(r, form)
  PROVE  IInv'
<1>1. screen' \in Screen
  BY ScreenStays DEF Forgot, IInv, TypeOK
<1>2. CASE UNCHANGED req
  <2>1. req' = [req EXCEPT ![r] = req[r]]
    BY <1>2 DEF IInv, TypeOK
  <2>2. QED
    BY <1>1, <2>1, HandlerTyped, QuietStep DEF Forgot
<1>3. CASE req' = [req EXCEPT ![r] = [Idle EXCEPT !.at = "count", !.form = form]]
  <2> DEFINE q == [Idle EXCEPT !.at = "count", !.form = form]
  <2>1. q \in Request /\ Knows(q, Created)
    BY DEF Idle, Request, Knows, InFlight
  <2>2. QED
    BY <1>1, <1>3, <2>1, QuietStep DEF Forgot
<1>4. QED
  BY <1>2, <1>3 DEF Forgot

LEMMA CheckIInv ==
  ASSUME IInv, NEW r \in Reqs, NEW goal, NEW guess, NEW form \in Forms \cup {None},
         Check(r, goal, guess, form)
  PROVE  IInv'
<1>1. screen' \in Screen
  BY ScreenStays DEF Check, IInv, TypeOK
<1>2. CASE UNCHANGED req
  <2>1. req' = [req EXCEPT ![r] = req[r]]
    BY <1>2 DEF IInv, TypeOK
  <2>2. QED
    BY <1>1, <2>1, HandlerTyped, QuietStep DEF Check
<1>3. CASE \E c \in Newest, next \in {"burn", "miss", "set"} :
        req' = [req EXCEPT ![r] = [Idle EXCEPT !.at = next, !.code = c, !.form = form]]
  <2>1. PICK c \in Newest, next \in {"burn", "miss", "set"} :
        req' = [req EXCEPT ![r] = [Idle EXCEPT !.at = next, !.code = c, !.form = form]]
    BY <1>3
  <2> DEFINE q == [Idle EXCEPT !.at = next, !.code = c, !.form = form]
  <2>2. c \in Codes /\ c \in Created
    BY DEF Newest, Live, Created
  <2>3. q \in Request /\ Knows(q, Created)
    BY <2>2 DEF Idle, Request, Knows, InFlight
  <2>4. QED
    BY <1>1, <2>1, <2>3, QuietStep DEF Check
<1>4. QED
  BY <1>2, <1>3 DEF Check

LEMMA ArriveIInv ==
  ASSUME IInv, NEW r \in Reqs, Arrive(r)
  PROVE  IInv'
<1>1. CASE Try(r)
  BY <1>1, CheckIInv DEF Try
<1>2. CASE Forgot(r, None) \/ Submit(r)
  BY <1>2, ForgotIInv, CheckIInv DEF Submit, Forms
<1>3. CASE \E by \in Reporters, on \in Targets : FileRead(r, by, on)
  <2>1. PICK by \in Reporters, on \in Targets : FileRead(r, by, on)
    BY <1>3
  <2> DEFINE q == [Idle EXCEPT !.at = "file", !.by = by, !.on = on]
  <2>2. q \in Request /\ Knows(q, Created)
    BY DEF Idle, Request, Knows, InFlight
  <2>3. QED
    BY <2>1, <2>2, QuietStep DEF FileRead, reset, cases, IInv, TypeOK
<1>4. CASE \E n \in Reports : ActRead(r, n)
  <2>1. PICK n \in Reports : ActRead(r, n)
    BY <1>4
  <2> DEFINE q == [Idle EXCEPT !.at = "decide", !.case = n]
  <2>2. q \in Request /\ Knows(q, Created)
    BY DEF Idle, Request, Knows, InFlight
  <2>3. QED
    BY <2>1, <2>2, QuietStep DEF ActRead, reset, cases, IInv, TypeOK
<1>5. QED
  BY <1>1, <1>2, <1>3, <1>4 DEF Arrive

LEMMA RequestIInv ==
  ASSUME IInv, NEW r \in Reqs,
         RequestCount(r) \/ RequestRetire(r) \/ RequestSend(r) \/ Abort(r)
  PROVE  IInv'
<1>0. req[r] \in Request /\ Knows(req[r], Created) /\ req[r].form \in Forms \cup {None}
  BY HandlerTyped
<1>1. screen' \in Screen
  BY <1>0, ScreenStays DEF RequestCount, RequestRetire, RequestSend, Abort, reset, IInv, TypeOK
<1>2. CASE Finish(r)
  BY <1>1, <1>2, IdleFits, QuietStep
  DEF Finish, RequestCount, RequestRetire, RequestSend, Abort, reset, cases
<1>3. CASE RequestCount(r) /\ Goto(r, "retire")
  <2> DEFINE q == [req[r] EXCEPT !.at = "retire"]
  <2>1. q \in Request /\ Knows(q, Created)
    BY <1>0 DEF Request, Knows, InFlight
  <2>2. QED
    BY <1>1, <1>3, <2>1, QuietStep DEF RequestCount, Goto, IInv, TypeOK
<1>4. CASE RequestRetire(r)
  <2> DEFINE q == [req[r] EXCEPT !.at = "insert", !.code = Cardinality(Created)]
  <2>1. /\ Cardinality(Created) \in Codes \cup {0}
        /\ Cardinality(Created) \in Created \cup {0}
    BY CreatedCounted, LimitsPositive DEF IInv, Codes
  <2>2. q \in Request /\ Knows(q, Created)
    BY ZenonT(40), <1>0, <2>1 DEF Request, Knows, InFlight
  <2>3. QED
    BY <1>1, <1>4, <2>2, QuietStep DEF RequestRetire, reset, cases, IInv, TypeOK
<1>5. QED
  BY <1>2, <1>3, <1>4 DEF RequestCount, RequestSend, Abort

LEMMA InsertIInv ==
  ASSUME IInv, NEW r \in Reqs, RequestInsert(r)
  PROVE  IInv'
<1>0. req[r] \in Request /\ Knows(req[r], Created)
  BY HandlerTyped
<1>1. PICK c \in Codes :
        /\ req[r].at = "insert" /\ Created = 1..(c - 1)
        /\ code' = [d \in Codes |->
                      IF d = c THEN [code[d] EXCEPT !.state = "live"]
                      ELSE IF d <= req[r].code THEN [code[d] EXCEPT !.state = "spent"]
                      ELSE code[d]]
        /\ Goto(r, "send")
        /\ UNCHANGED <<account, screen, cases>>
  BY DEF RequestInsert
<1>2. req[r].code \in 0..(c - 1) /\ c \in 1..MaxCodes
  BY <1>0, <1>1, LimitsPositive DEF Knows, Codes
<1>3. code' \in [Codes -> CodeRow]
  BY <1>1 DEF IInv, TypeOK, CodeRow
<1>4. Created' = 1..c
  <2>1. \A d \in Codes : d \in Created' <=> d \in Created \/ d = c
    BY <1>1, <1>2, LimitsPositive DEF Created, Codes, CodeRow, IInv, TypeOK
  <2>2. QED
    BY <1>1, <1>2, <2>1, LimitsPositive DEF Created, Codes
<1> DEFINE q == [req[r] EXCEPT !.at = "send"]
<1>5. q \in Request /\ Knows(q, Created') /\ req' = [req EXCEPT ![r] = q]
  BY <1>0, <1>1 DEF Request, Knows, InFlight, Goto, IInv, TypeOK
<1>6. Created \subseteq Created'
  BY <1>1, <1>2, <1>4
<1>7. req' \in [Reqs -> Request] /\ \A s \in Reqs : Knows(req'[s], Created')
  BY <1>5, <1>6, HandlerMoves
<1>8. QED
  BY <1>1, <1>2, <1>3, <1>4, <1>7, LimitsPositive DEF IInv, TypeOK, Numbered, cases

\* A code's row is changed, and is created before and after.
LEMMA CodeStep ==
  ASSUME IInv, NEW r \in Reqs, Burn(r) \/ Miss(r) \/ SetPassword(r)
  PROVE  IInv'
<1>0. req[r] \in Request /\ Knows(req[r], Created) /\ req[r].form \in Forms \cup {None}
  BY HandlerTyped
<1>1. screen' \in Screen
  BY <1>0, ScreenStays DEF Burn, Miss, SetPassword, IInv, TypeOK
<1>2. req[r].code \in Created
  BY <1>0 DEF Burn, Miss, SetPassword, Knows
<1>3. req[r].code \in Codes /\ code[req[r].code].state # "none"
  BY <1>2 DEF Created
<1>4. code' \in [Codes -> CodeRow] /\ Created' = Created
  BY <1>3 DEF Burn, Miss, SetPassword, IInv, TypeOK, CodeRow, Created
<1>5. req' = [req EXCEPT ![r] = Idle] /\ UNCHANGED <<account, cases>>
  BY DEF Burn, Miss, SetPassword, Finish
<1>6. req' \in [Reqs -> Request] /\ \A s \in Reqs : Knows(req'[s], Created')
  BY <1>4, <1>5, IdleFits, HandlerMoves
<1>7. QED
  BY <1>1, <1>4, <1>5, <1>6 DEF IInv, TypeOK, Numbered, cases

LEMMA CaseStep ==
  ASSUME IInv, NEW r \in Reqs, FileInsert(r) \/ ActWrite(r)
  PROVE  IInv'
<1>0. req[r] \in Request /\ Knows(req[r], Created)
  BY HandlerTyped
<1>1. req' = [req EXCEPT ![r] = Idle] /\ UNCHANGED reset
  BY DEF FileInsert, ActWrite, Finish
<1>2. Created' = Created /\ screen' = screen /\ code' = code
  BY <1>1 DEF reset, Created
<1>3. req' \in [Reqs -> Request] /\ \A s \in Reqs : Knows(req'[s], Created')
  BY <1>1, <1>2, IdleFits, HandlerMoves
<1>4. account' \in Account /\ report' \in [Reports -> Report] /\ log' \in [Reports -> Nat]
  <2>1. CASE FileInsert(r)
    BY <1>0, <2>1 DEF FileInsert, Knows, IInv, TypeOK, Report
  <2>2. CASE ActWrite(r)
    <3>1. req[r].case \in Reports
      BY <1>0, <2>2 DEF ActWrite, Knows
    <3>2. \A action \in Actions : Outcome(action) \in Final
      BY DEF Outcome, Final
    <3>3. report' \in [Reports -> Report] /\ log' \in [Reports -> Nat]
      <4>1. PICK action \in Actions :
              /\ report' = [report EXCEPT ![req[r].case].status = Outcome(action)]
              /\ log' = [log EXCEPT ![req[r].case] = @ + 1]
        BY <2>2 DEF ActWrite
      <4>2. QED
        BY <3>1, <3>2, <4>1 DEF IInv, TypeOK, Report
    <3>4. account' \in Account
      BY <2>2 DEF ActWrite, IInv, TypeOK, Account
    <3>5. QED
      BY <3>3, <3>4
  <2>3. QED
    BY <2>1, <2>2
<1>5. QED
  BY <1>2, <1>3, <1>4 DEF IInv, TypeOK, Numbered

LEMMA AroundIInv ==
  ASSUME IInv, TypeCode \/ Surroundings
  PROVE  IInv'
<1>1. CASE TypeCode
  BY <1>1 DEF TypeCode, IInv, TypeOK, Screen, cases, Created, Numbered
<1>2. CASE SuspensionLapses
  BY <1>2 DEF SuspensionLapses, IInv, TypeOK, Account, reset, cases, Created, Numbered
<1>3. CASE \E c \in Codes : CodeExpires(c)
  <2>1. code' \in [Codes -> CodeRow] /\ Created' = Created
    BY <1>3 DEF CodeExpires, IInv, TypeOK, CodeRow, Created
  <2>2. QED
    BY <1>3, <2>1 DEF CodeExpires, IInv, TypeOK, cases, Numbered
<1>4. QED
  BY <1>1, <1>2, <1>3 DEF Surroundings

LEMMA StepIInv == IInv /\ [Next]_vars => IInv'
<1> SUFFICES ASSUME IInv, [Next]_vars PROVE IInv'
  OBVIOUS
<1>1. CASE UNCHANGED vars
  BY <1>1 DEF vars, reset, cases, IInv, TypeOK, Numbered, Created
<1>2. ASSUME NEW r \in Reqs, Continue(r)
      PROVE  IInv'
  BY <1>2, RequestIInv, InsertIInv, CodeStep, CaseStep DEF Continue
<1>3. QED
  BY <1>1, <1>2, ArriveIInv, RequestIInv, AroundIInv DEF Next

\* The invariant of Recovery: what each handler in flight has read is still so.
THEOREM Invariance == Spec => []IInv
<1>1. QED
  BY InitIInv, StepIInv, PTL DEF Spec

\* The variables of Recovery keep their types.
THEOREM TypeCorrect == Spec => []TypeOK
<1>1. IInv => TypeOK
  BY DEF IInv
<1>2. QED
  BY <1>1, Invariance, PTL
-----------------------------------------------------------------------------
(* What a step does to a handler, to a code and to the cases.              *)

LEMMA Moves ==
  ASSUME IInv, [Next]_vars, NEW s \in Reqs, req'[s] # req[s]
  PROVE  \/ req'[s] = Idle
         \/ req'[s].at \in {"count", "retire", "send"}
         \/ req'[s].at = "insert" /\ req'[s].code = Cardinality(Created)
         \/ /\ req'[s].at \in {"burn", "miss", "set"} /\ req'[s].code \in Newest
            /\ req'[s].at = "miss" => code[req'[s].code].attempts < MAX_ATTEMPTS
         \/ req'[s].at = "decide" /\ Open(req'[s].case)
         \/ /\ req'[s].at = "file"
            /\ ~\E n \in Reports : /\ Open(n) /\ report[n].by = req'[s].by
                                   /\ report[n].on = req'[s].on
<1>0. req \in [Reqs -> Request] /\ req[s] \in Request
  BY DEF IInv, TypeOK
<1>1. ASSUME NEW r \in Reqs, NEW goal, NEW guess, NEW form, Check(r, goal, guess, form)
      PROVE  /\ req'[s].at \in {"burn", "miss", "set"} /\ req'[s].code \in Newest
             /\ req'[s].at = "miss" => code[req'[s].code].attempts < MAX_ATTEMPTS
  <2>1. PICK c \in Newest, next \in {"burn", "miss", "set"} :
          /\ req' = [req EXCEPT ![r] = [Idle EXCEPT !.at = next, !.code = c, !.form = form]]
          /\ next = "miss" => ~(code[c].attempts >= MAX_ATTEMPTS)
    BY <1>1 DEF Check
  <2>2. c \in Codes
    BY DEF Newest, Live
  <2>3. code[c].attempts < MAX_ATTEMPTS \/ code[c].attempts >= MAX_ATTEMPTS
    BY <2>2, LimitsPositive DEF IInv, TypeOK, CodeRow
  <2>4. s = r /\ req'[s].at = next /\ req'[s].code = c
    BY <1>0, <2>1 DEF Idle
  <2>5. QED
    BY <2>1, <2>3, <2>4
<1>2. ASSUME NEW r \in Reqs, NEW form, Forgot(r, form)
      PROVE  req'[s].at = "count"
  BY <1>0, <1>2 DEF Forgot, Idle
<1>3. ASSUME NEW r \in Reqs, Arrive(r)
      PROVE  \/ req'[s].at = "count"
             \/ /\ req'[s].at \in {"burn", "miss", "set"} /\ req'[s].code \in Newest
                /\ req'[s].at = "miss" => code[req'[s].code].attempts < MAX_ATTEMPTS
             \/ req'[s].at = "decide" /\ Open(req'[s].case)
             \/ /\ req'[s].at = "file"
                /\ ~\E n \in Reports : /\ Open(n) /\ report[n].by = req'[s].by
                                       /\ report[n].on = req'[s].on
  <2>1. CASE Forgot(r, None) \/ Try(r) \/ Submit(r)
    BY <1>1, <1>2, <2>1 DEF Try, Submit
  <2>2. CASE \E by \in Reporters, on \in Targets : FileRead(r, by, on)
    BY <1>0, <2>2 DEF FileRead, Idle
  <2>3. CASE \E n \in Reports : ActRead(r, n)
    BY <1>0, <2>3 DEF ActRead, Idle
  <2>4. QED
    BY <1>3, <2>1, <2>2, <2>3 DEF Arrive
<1>4. ASSUME NEW r \in Reqs, Continue(r) \/ Abort(r)
      PROVE  \/ req'[s] = req[s]
             \/ req'[s] = Idle
             \/ req'[s].at \in {"count", "retire", "send"}
             \/ req'[s].at = "insert" /\ req'[s].code = Cardinality(Created)
  <2>1. CASE Finish(r)
    BY <1>0, <2>1 DEF Finish
  <2>2. CASE \E at \in {"retire", "send"} : Goto(r, at)
    BY <1>0, <2>2 DEF Goto, Request
  <2>3. CASE RequestRetire(r)
    BY <1>0, <2>3 DEF RequestRetire, Request
  <2>4. QED
    BY <1>4, <2>1, <2>2, <2>3
    DEF Continue, RequestCount, RequestInsert, RequestSend, Burn, Miss, SetPassword,
        FileInsert, ActWrite, Abort
<1>5. CASE TypeCode \/ Surroundings \/ UNCHANGED vars
  BY <1>5 DEF TypeCode, Surroundings, SuspensionLapses, CodeExpires, vars
<1>6. QED
  BY <1>3, <1>4, <1>5 DEF Next

\* A row of verification_codes gets one more use, one more attempt, or another state.
LEMMA CodeMoves ==
  ASSUME IInv, [Next]_vars, NEW c \in Codes
  PROVE  \/ /\ \E r \in Reqs : SetPassword(r) /\ req[r].code = c
            /\ code'[c].uses = code[c].uses + 1 /\ code'[c].attempts = code[c].attempts
            /\ code'[c].state = "spent"
         \/ /\ \E r \in Reqs : Miss(r) /\ req[r].code = c
            /\ code'[c].uses = code[c].uses /\ code'[c].attempts = code[c].attempts + 1
            /\ code'[c].state = code[c].state
         \/ /\ code'[c].uses = code[c].uses /\ code'[c].attempts = code[c].attempts
            /\ \/ code'[c].state \in {code[c].state, "spent"}
               \/ code[c].state = "live" /\ code'[c].state = "expired"
               \/ code[c].state = "none" /\ code'[c].state = "live"
<1>0. code \in [Codes -> CodeRow] /\ code[c] \in CodeRow
  BY DEF IInv, TypeOK
<1>1. CASE \E r \in Reqs : RequestInsert(r)
  <2>1. PICK r \in Reqs, d \in Codes :
          /\ Created = 1..(d - 1)
          /\ code' = [e \in Codes |->
                        IF e = d THEN [code[e] EXCEPT !.state = "live"]
                        ELSE IF e <= req[r].code THEN [code[e] EXCEPT !.state = "spent"]
                        ELSE code[e]]
    BY <1>1 DEF RequestInsert
  <2>2. code[d].state = "none"
    BY <2>1, LimitsPositive DEF Created, Codes
  <2>3. QED
    BY <1>0, <2>1, <2>2 DEF CodeRow
<1>2. CASE \E r \in Reqs : Burn(r)
  BY <1>0, <1>2 DEF Burn, CodeRow
<1>3. CASE \E r \in Reqs : Miss(r)
  <2>1. PICK r \in Reqs : Miss(r)
    BY <1>3
  <2>2. CASE req[r].code = c
    BY <1>0, <2>1, <2>2 DEF Miss, CodeRow
  <2>3. CASE req[r].code # c
    BY <1>0, <2>1, <2>3 DEF Miss, CodeRow
  <2>4. QED
    BY <2>2, <2>3
<1>4. CASE \E r \in Reqs : SetPassword(r)
  <2>1. PICK r \in Reqs : SetPassword(r)
    BY <1>4
  <2>2. CASE req[r].code = c
    BY <1>0, <2>1, <2>2 DEF SetPassword, CodeRow
  <2>3. CASE req[r].code # c
    BY <1>0, <2>1, <2>3 DEF SetPassword, CodeRow
  <2>4. QED
    BY <2>2, <2>3
<1>5. CASE \E d \in Codes : CodeExpires(d)
  BY <1>0, <1>5 DEF CodeExpires, CodeRow
<1>6. CASE UNCHANGED code
  BY <1>6
<1>7. QED
  BY <1>1, <1>2, <1>3, <1>4, <1>5, <1>6
  DEF Next, Arrive, Forgot, Try, Submit, Check, FileRead, ActRead, Continue, RequestCount,
      RequestRetire, RequestSend, FileInsert, ActWrite, Abort, TypeCode, Surroundings,
      SuspensionLapses, vars, reset

\* Reports change where they are filed and decided.
LEMMA CaseMoves ==
  ASSUME [Next]_vars
  PROVE  \/ \E r \in Reqs : FileInsert(r) \/ ActWrite(r)
         \/ UNCHANGED <<report, log>>
  BY ZenonT(40) DEF Next, Arrive, Forgot, Try, Submit, Check, FileRead, ActRead, Continue,
         RequestCount, RequestRetire, RequestInsert, RequestSend, Burn, Miss, SetPassword,
         Abort, TypeCode, Surroundings, SuspensionLapses, CodeExpires, vars, cases
-----------------------------------------------------------------------------
(* The argument of Counting: S is one of finitely many sets of handlers,   *)
(* one of them adds what it has checked, or nobody adds and nobody passes. *)

LEMMA SlotsCounted ==
  ASSUME NEW R, IsFiniteSet(R), NEW S \in SUBSET R
  PROVE  /\ IsFiniteSet(S) /\ Cardinality(S) \in Nat
         /\ Cardinality(S) <= Cardinality(R) /\ Cardinality(R) \in Nat
         /\ \A T \in SUBSET S : Cardinality(T) \in Nat /\ Cardinality(T) <= Cardinality(S)
         /\ \A r \in S : Cardinality(S \ {r}) = Cardinality(S) - 1
<1>1. IsFiniteSet(S) /\ Cardinality(S) \in Nat
  BY FS_Subset, FS_CardinalityType
<1>2. Cardinality(S) <= Cardinality(R) /\ Cardinality(R) \in Nat
  BY FS_Subset, FS_CardinalityType
<1>3. \A T \in SUBSET S : Cardinality(T) \in Nat /\ Cardinality(T) <= Cardinality(S)
  BY <1>1, FS_Subset, FS_CardinalityType
<1>4. \A r \in S : Cardinality(S \ {r}) = Cardinality(S) - 1
  BY <1>1, FS_RemoveElement
<1>5. QED
  BY <1>1, <1>2, <1>3, <1>4

\* One of them adds its one.
LEMMA OneCounts ==
  ASSUME NEW R, IsFiniteSet(R), NEW k \in Nat, NEW base \in Nat, NEW S \in SUBSET R,
         NEW r \in S, NEW T \in SUBSET (S \ {r}), NEW alone, NEW stillAlone,
         Counted(k, base, S, R, alone), stillAlone => alone /\ S \subseteq {r}
  PROVE  Counted(k + 1, base, T, R, stillAlone)
<1>1. Cardinality(T) \in Nat /\ Cardinality(T) <= Cardinality(S) - 1
  BY ZenonT(40), SlotsCounted
<1>2. k + 1 + Cardinality(T) <= base + Cardinality(R) \/ k < base
  BY <1>1, SlotsCounted DEF Counted
<1>3. ASSUME stillAlone, k >= base
      PROVE  T = {} /\ k = base
  BY <1>3 DEF Counted
<1>4. QED
  BY <1>2, <1>3 DEF Counted

\* The count does not grow, and above base nobody passes the check.
LEMMA NobodyPasses ==
  ASSUME NEW R, IsFiniteSet(R), NEW k \in Nat, NEW base \in Nat, NEW S \in SUBSET R,
         NEW j \in 0..k, NEW T \in SUBSET R, NEW alone, NEW stillAlone,
         Counted(k, base, S, R, alone), stillAlone => alone, j > base => T \subseteq S
  PROVE  Counted(j, base, T, R, stillAlone)
<1>1. j > base => Cardinality(T) \in Nat /\ Cardinality(T) <= Cardinality(S)
  BY SlotsCounted
<1>2. QED
  BY <1>1, SlotsCounted DEF Counted

\* The limit is overrun by the number of handlers, by one if they do not overlap.
LEMMA CountedBounds ==
  ASSUME NEW R, IsFiniteSet(R), NEW k \in Nat, NEW base \in Nat, NEW S \in SUBSET R,
         NEW alone, Counted(k, base, S, R, alone)
  PROVE  k <= base + IF alone THEN 1 ELSE Cardinality(R)
  BY SlotsCounted DEF Counted

-----------------------------------------------------------------------------
(* The invariant of the history.                                           *)

Setting(c)     == {r \in Reqs : req[r].at = "set" /\ req[r].code = c}
Missing(c)     == {r \in Reqs : req[r].at = "miss" /\ req[r].code = c}
Deciding(n)    == {r \in Reqs : req[r].at = "decide" /\ req[r].case = n}
Filing(by, on) == {r \in Reqs : req[r].at = "file" /\ req[r].by = by /\ req[r].on = on}
Opened(by, on) == {n \in Reports : Open(n) /\ report[n].by = by /\ report[n].on = on}

\* A code that was used is spent, so nobody matches it any more.
UsesInv ==
  \A c \in Codes : /\ code[c].uses > 0 => code[c].state = "spent"
                   /\ Counted(code[c].uses, 0, Setting(c), Reqs, serial)

\* At the cap nobody compares a guess any more.
GuessInv ==
  \A c \in Codes : Counted(code[c].attempts, MAX_ATTEMPTS - 1, Missing(c), Reqs, serial)

\* A report with a decision is open no more.
LogInv ==
  \A n \in Reports : /\ log[n] > 0 => report[n].status \in Final
                     /\ Counted(log[n], 0, Deciding(n), Reqs, serial)

\* Next to an open report nobody files another.
FileInv ==
  \A by \in Reporters, on \in Targets :
    Counted(Cardinality(Opened(by, on)), 0, Filing(by, on), Reqs, serial)

\* Each live code was made by a handler of its own: one about to make another has
\* seen the one it made before, and retires it.
LiveInv ==
  /\ \E g \in [Live -> Reqs] :
       /\ \A c, d \in Live : g[c] = g[d] => c = d
       /\ \A c \in Live : req[g[c]].at = "insert" => c <= req[g[c]].code
  /\ serial => \A c, d \in Live : c = d
  /\ serial => \A r \in Reqs : req[r].at = "insert" => req[r].code = Cardinality(Created)

HInv ==
  /\ IInv /\ (serial => AtMostOne)
  /\ UsesInv /\ GuessInv /\ LogInv /\ FileInv /\ LiveInv

LEMMA InitHInv == HistoryInit => HInv
<1> SUFFICES ASSUME HistoryInit PROVE HInv
  OBVIOUS
<1>1. IInv /\ AtMostOne /\ Live = {}
  BY InitIInv DEF HistoryInit, Init, AtMostOne, Live, NoCode
<1>2. UsesInv /\ GuessInv /\ LogInv
  BY LimitsPositive
  DEF HistoryInit, Init, UsesInv, GuessInv, LogInv, Counted, NoCode, NoReport, Open
<1>3. FileInv
  <2>1. ASSUME NEW by \in Reporters, NEW on \in Targets
        PROVE  Cardinality(Opened(by, on)) = 0
    <3>1. Opened(by, on) = {}
      BY DEF Opened, Open, HistoryInit, Init, NoReport
    <3>2. QED
      BY <3>1, FS_EmptySet
  <2>2. QED
    BY <2>1 DEF FileInv, Counted
<1>4. LiveInv
  <2>1. [c \in {} |-> CHOOSE r \in Reqs : TRUE] \in [{} -> Reqs]
    OBVIOUS
  <2>2. QED
    BY <1>1, <2>1 DEF LiveInv, HistoryInit, Init, Idle
<1>5. QED
  BY <1>1, <1>2, <1>3, <1>4 DEF HInv

\* Who writes while handlers do not overlap is alone.
LEMMA WriterIsAlone ==
  ASSUME serial => AtMostOne, NEW r \in Reqs, req[r].at # "idle", NEW S \in SUBSET Reqs,
         \A s \in S : req[s].at # "idle"
  PROVE  serial => S \subseteq {r}
  BY DEF AtMostOne, Idle

LEMMA UsesStep ==
  ASSUME IInv, [Next]_vars, UsesInv, serial => AtMostOne, serial' => serial
  PROVE  UsesInv'
<1> SUFFICES ASSUME NEW c \in Codes
             PROVE  /\ code'[c].uses > 0 => code'[c].state = "spent"
                    /\ Counted(code'[c].uses, 0, Setting(c)', Reqs, serial')
  BY DEF UsesInv
<1>0. /\ code \in [Codes -> CodeRow] /\ code[c] \in CodeRow /\ code[c].uses \in Nat
      /\ req \in [Reqs -> Request]
      /\ Setting(c) \in SUBSET Reqs /\ Setting(c)' \in SUBSET Reqs
      /\ Counted(code[c].uses, 0, Setting(c), Reqs, serial)
      /\ code[c].uses > 0 => code[c].state = "spent"
  BY DEF IInv, TypeOK, CodeRow, UsesInv, Setting
<1>1. ASSUME NEW r \in Reqs, SetPassword(r), req[r].code = c
      PROVE  /\ code'[c].uses > 0 => code'[c].state = "spent"
             /\ Counted(code'[c].uses, 0, Setting(c)', Reqs, serial')
  <2>1. code'[c].uses = code[c].uses + 1 /\ code'[c].state = "spent"
    BY <1>0, <1>1 DEF SetPassword, CodeRow
  <2>2. r \in Setting(c) /\ Setting(c)' \in SUBSET (Setting(c) \ {r})
    BY <1>0, <1>1 DEF SetPassword, Setting, Finish, Idle
  <2>3. serial' => serial /\ Setting(c) \subseteq {r}
    BY <1>1, WriterIsAlone DEF SetPassword, Setting
  <2>4. Counted(code[c].uses + 1, 0, Setting(c)', Reqs, serial')
    BY <1>0, <2>2, <2>3, HandlersAreFinite, OneCounts
  <2>5. QED
    BY <2>1, <2>4
<1>2. CASE code'[c].uses = code[c].uses
  <2>1. ASSUME code[c].uses > 0 PROVE Setting(c)' \subseteq Setting(c)
    <3> SUFFICES ASSUME NEW s \in Reqs, req'[s].at = "set", req'[s].code = c,
                        req'[s] # req[s]
                 PROVE  FALSE
      BY DEF Setting
    <3>1. c \in Newest
      BY Moves DEF Idle
    <3>2. QED
      BY <1>0, <2>1, <3>1 DEF Newest, Live
  <2>2. code[c].uses > 0 => code'[c].state = "spent"
    BY <1>0, CodeMoves
  <2>3. Counted(code[c].uses, 0, Setting(c)', Reqs, serial')
    BY <1>0, <2>1, HandlersAreFinite, NobodyPasses
  <2>4. QED
    BY <1>2, <2>2, <2>3
<1>3. QED
  BY <1>1, <1>2, CodeMoves

LEMMA GuessStep ==
  ASSUME IInv, [Next]_vars, GuessInv, serial => AtMostOne, serial' => serial
  PROVE  GuessInv'
<1> SUFFICES ASSUME NEW c \in Codes
             PROVE  Counted(code'[c].attempts, MAX_ATTEMPTS - 1, Missing(c)', Reqs, serial')
  BY DEF GuessInv
<1>0. /\ code \in [Codes -> CodeRow] /\ code[c] \in CodeRow /\ code[c].attempts \in Nat
      /\ req \in [Reqs -> Request]
      /\ Missing(c) \in SUBSET Reqs /\ Missing(c)' \in SUBSET Reqs
      /\ Counted(code[c].attempts, MAX_ATTEMPTS - 1, Missing(c), Reqs, serial)
  BY DEF IInv, TypeOK, CodeRow, GuessInv, Missing
<1>1. MAX_ATTEMPTS - 1 \in Nat
  BY LimitsPositive
<1>2. ASSUME NEW r \in Reqs, Miss(r), req[r].code = c
      PROVE  Counted(code'[c].attempts, MAX_ATTEMPTS - 1, Missing(c)', Reqs, serial')
  <2>1. code'[c].attempts = code[c].attempts + 1
    BY <1>0, <1>2 DEF Miss, CodeRow
  <2>2. r \in Missing(c) /\ Missing(c)' \in SUBSET (Missing(c) \ {r})
    BY <1>0, <1>2 DEF Miss, Missing, Finish, Idle
  <2>3. serial' => serial /\ Missing(c) \subseteq {r}
    BY <1>2, WriterIsAlone DEF Miss, Missing
  <2>4. QED
    BY <1>0, <1>1, <2>1, <2>2, <2>3, HandlersAreFinite, OneCounts
<1>3. CASE code'[c].attempts = code[c].attempts
  <2>1. ASSUME code[c].attempts > MAX_ATTEMPTS - 1 PROVE Missing(c)' \subseteq Missing(c)
    <3> SUFFICES ASSUME NEW s \in Reqs, req'[s].at = "miss", req'[s].code = c,
                        req'[s] # req[s]
                 PROVE  FALSE
      BY DEF Missing
    <3>1. code[c].attempts < MAX_ATTEMPTS
      BY Moves DEF Idle
    <3>2. QED
      BY <1>0, <2>1, <3>1, LimitsPositive
  <2>2. Counted(code[c].attempts, MAX_ATTEMPTS - 1, Missing(c)', Reqs, serial')
    BY <1>0, <1>1, <2>1, HandlersAreFinite, NobodyPasses
  <2>3. QED
    BY <1>3, <2>2
<1>4. QED
  BY <1>2, <1>3, CodeMoves

LEMMA LogStep ==
  ASSUME IInv, [Next]_vars, LogInv, serial => AtMostOne, serial' => serial
  PROVE  LogInv'
<1> SUFFICES ASSUME NEW n \in Reports
             PROVE  /\ log'[n] > 0 => report'[n].status \in Final
                    /\ Counted(log'[n], 0, Deciding(n)', Reqs, serial')
  BY DEF LogInv
<1>0. /\ log \in [Reports -> Nat] /\ report \in [Reports -> Report]
      /\ req \in [Reqs -> Request]
      /\ Deciding(n) \in SUBSET Reqs /\ Deciding(n)' \in SUBSET Reqs
      /\ Counted(log[n], 0, Deciding(n), Reqs, serial)
      /\ log[n] > 0 => report[n].status \in Final
  BY DEF IInv, TypeOK, LogInv, Deciding
<1>1. ASSUME NEW r \in Reqs, ActWrite(r), req[r].case = n
      PROVE  /\ log'[n] > 0 => report'[n].status \in Final
             /\ Counted(log'[n], 0, Deciding(n)', Reqs, serial')
  <2>1. PICK action \in Actions :
          /\ report' = [report EXCEPT ![n].status = Outcome(action)]
          /\ log' = [log EXCEPT ![n] = @ + 1]
    BY <1>1 DEF ActWrite
  <2>2. log'[n] = log[n] + 1 /\ report'[n].status \in Final
    BY <1>0, <2>1 DEF Outcome, Final, Report
  <2>3. r \in Deciding(n) /\ Deciding(n)' \in SUBSET (Deciding(n) \ {r})
    BY <1>0, <1>1 DEF ActWrite, Deciding, Finish, Idle
  <2>4. serial' => serial /\ Deciding(n) \subseteq {r}
    BY <1>1, WriterIsAlone DEF ActWrite, Deciding
  <2>5. Counted(log[n] + 1, 0, Deciding(n)', Reqs, serial')
    BY <1>0, <2>3, <2>4, HandlersAreFinite, OneCounts
  <2>6. QED
    BY <2>2, <2>5
<1>2. CASE log'[n] = log[n] /\ (log[n] > 0 => report'[n].status \in Final)
  <2>1. ASSUME log[n] > 0 PROVE Deciding(n)' \subseteq Deciding(n)
    <3> SUFFICES ASSUME NEW s \in Reqs, req'[s].at = "decide", req'[s].case = n,
                        req'[s] # req[s]
                 PROVE  FALSE
      BY DEF Deciding
    <3>1. Open(n)
      BY Moves DEF Idle
    <3>2. QED
      BY <1>0, <2>1, <3>1 DEF Open, Final
  <2>2. Counted(log[n], 0, Deciding(n)', Reqs, serial')
    BY <1>0, <2>1, HandlersAreFinite, NobodyPasses
  <2>3. QED
    BY <1>2, <2>2
<1>3. ASSUME NEW r \in Reqs, ActWrite(r), req[r].case # n
      PROVE  log'[n] = log[n] /\ (log[n] > 0 => report'[n].status \in Final)
  <2>1. PICK action \in Actions :
          /\ report' = [report EXCEPT ![req[r].case].status = Outcome(action)]
          /\ log' = [log EXCEPT ![req[r].case] = @ + 1]
    BY <1>3 DEF ActWrite
  <2>2. QED
    BY <1>0, <1>3, <2>1
<1>4. ASSUME NEW r \in Reqs, FileInsert(r), log[n] > 0
      PROVE  report'[n].status \in Final
  BY <1>0, <1>4 DEF FileInsert, Filed, Final
<1>5. QED
  BY <1>0, <1>1, <1>2, <1>3, <1>4, CaseMoves DEF FileInsert

\* Reports that are open are reports, so they can be counted.
LEMMA OpenedCounted ==
  ASSUME NEW by, NEW on
  PROVE  /\ IsFiniteSet(Opened(by, on)) /\ Cardinality(Opened(by, on)) \in Nat
         /\ \A T \in SUBSET Opened(by, on) :
              Cardinality(T) \in 0..Cardinality(Opened(by, on))
         /\ Opened(by, on) # {} => Cardinality(Opened(by, on)) > 0
<1>1. Opened(by, on) \in SUBSET Reports
  BY DEF Opened
<1>2. IsFiniteSet(Opened(by, on)) /\ Cardinality(Opened(by, on)) \in Nat
  BY <1>1, ReportsAreFinite, FS_Subset, FS_CardinalityType
<1>3. QED
  BY <1>2, FS_Subset, FS_CardinalityType, FS_EmptySet

LEMMA FileStep ==
  ASSUME IInv, [Next]_vars, FileInv, serial => AtMostOne, serial' => serial
  PROVE  FileInv'
<1> SUFFICES ASSUME NEW by \in Reporters, NEW on \in Targets
             PROVE  Counted(Cardinality(Opened(by, on)'), 0, Filing(by, on)', Reqs, serial')
  BY DEF FileInv
<1> DEFINE k == Cardinality(Opened(by, on))
<1>0. /\ report \in [Reports -> Report] /\ req \in [Reqs -> Request] /\ k \in Nat
      /\ Filing(by, on) \in SUBSET Reqs /\ Filing(by, on)' \in SUBSET Reqs
      /\ Counted(k, 0, Filing(by, on), Reqs, serial)
  BY OpenedCounted DEF IInv, TypeOK, FileInv, Filing
<1>1. ASSUME NEW r \in Reqs, FileInsert(r), req[r].by = by, req[r].on = on
      PROVE  Counted(Cardinality(Opened(by, on)'), 0, Filing(by, on)', Reqs, serial')
  <2>1. PICK n \in Reports :
          /\ n \notin Filed
          /\ report' = [report EXCEPT ![n] = [status |-> "open", by |-> by, on |-> on]]
    BY <1>1 DEF FileInsert
  <2>2. n \notin Opened(by, on) /\ Opened(by, on)' = Opened(by, on) \cup {n}
    BY <1>0, <2>1 DEF Opened, Open, Filed
  <2>3. Cardinality(Opened(by, on)') = k + 1
    BY <2>2, OpenedCounted, FS_AddElement
  <2>4. r \in Filing(by, on) /\ Filing(by, on)' \in SUBSET (Filing(by, on) \ {r})
    BY <1>0, <1>1 DEF FileInsert, Filing, Finish, Idle
  <2>5. serial' => serial /\ Filing(by, on) \subseteq {r}
    BY <1>1, WriterIsAlone DEF FileInsert, Filing
  <2> HIDE DEF k
  <2>6. QED
    BY <1>0, <2>3, <2>4, <2>5, HandlersAreFinite, OneCounts
<1>2. CASE Opened(by, on)' \subseteq Opened(by, on)
  <2>1. Cardinality(Opened(by, on)') \in 0..k
    BY <1>2, OpenedCounted
  <2>2. ASSUME Opened(by, on) # {} PROVE Filing(by, on)' \subseteq Filing(by, on)
    <3> SUFFICES ASSUME NEW s \in Reqs, req'[s].at = "file", req'[s].by = by,
                        req'[s].on = on, req'[s] # req[s]
                 PROVE  FALSE
      BY DEF Filing
    <3>1. ~\E n \in Reports : Open(n) /\ report[n].by = by /\ report[n].on = on
      BY Moves DEF Idle
    <3>2. QED
      BY <2>2, <3>1 DEF Opened
  <2>3. k > 0 => Opened(by, on) # {}
    BY FS_EmptySet
  <2> HIDE DEF k
  <2>4. QED
    BY <1>0, <2>1, <2>2, <2>3, HandlersAreFinite, NobodyPasses
<1>3. ASSUME NEW r \in Reqs, FileInsert(r), ~(req[r].by = by /\ req[r].on = on)
      PROVE  Opened(by, on)' \subseteq Opened(by, on)
  BY <1>0, <1>3 DEF FileInsert, Opened, Open
<1>4. ASSUME NEW r \in Reqs, ActWrite(r)
      PROVE  Opened(by, on)' \subseteq Opened(by, on)
  <2>1. PICK action \in Actions :
          report' = [report EXCEPT ![req[r].case].status = Outcome(action)]
    BY <1>4 DEF ActWrite
  <2>2. Outcome(action) # "open"
    BY DEF Outcome
  <2>3. QED
    BY <1>0, <2>1, <2>2 DEF Opened, Open
<1>5. CASE UNCHANGED <<report, log>>
  BY <1>2, <1>5 DEF Opened, Open
<1>6. QED
  BY <1>1, <1>2, <1>3, <1>4, <1>5, CaseMoves

LEMMA InsertKeepsLive ==
  ASSUME IInv, LiveInv, NEW r \in Reqs, RequestInsert(r), serial => AtMostOne,
         serial' => serial
  PROVE  LiveInv'
<1>0. /\ req \in [Reqs -> Request] /\ Knows(req[r], Created) /\ req[r] \in Request
      /\ code \in [Codes -> CodeRow]
  BY HandlerTyped DEF IInv, TypeOK
<1>1. PICK c \in Codes :
        /\ req[r].at = "insert" /\ Created = 1..(c - 1)
        /\ code' = [d \in Codes |->
                      IF d = c THEN [code[d] EXCEPT !.state = "live"]
                      ELSE IF d <= req[r].code THEN [code[d] EXCEPT !.state = "spent"]
                      ELSE code[d]]
        /\ Goto(r, "send")
  BY DEF RequestInsert
<1>2. c \notin Live /\ Live' = {d \in Live : ~(d <= req[r].code)} \cup {c}
  BY <1>0, <1>1, LimitsPositive DEF Live, Created, Codes, CodeRow
<1>3. req'[r].at = "send" /\ \A s \in Reqs : s # r => req'[s] = req[s]
  BY <1>0, <1>1 DEF Goto, Request
<1>4. PICK g \in [Live -> Reqs] :
        /\ \A a, b \in Live : g[a] = g[b] => a = b
        /\ \A a \in Live : req[g[a]].at = "insert" => a <= req[g[a]].code
  BY DEF LiveInv
<1> DEFINE h == [d \in Live' |-> IF d = c THEN r ELSE g[d]]
<1>5. ASSUME NEW d \in Live', d # c
      PROVE  d \in Live /\ g[d] # r /\ g[d] \in Reqs
  <2>1. d \in Live /\ ~(d <= req[r].code)
    BY <1>2, <1>5
  <2>2. g[d] = r => d <= req[r].code
    BY <1>1, <1>4, <2>1
  <2>3. QED
    BY <2>1, <2>2
<1>6. h \in [Live' -> Reqs]
  BY <1>5
<1>7. \A a, b \in Live' : h[a] = h[b] => a = b
  BY <1>4, <1>5
<1>8. \A a \in Live' : req'[h[a]].at = "insert" => a <= req'[h[a]].code
  BY <1>3, <1>4, <1>5
<1>9. ASSUME serial'
      PROVE  /\ \A a, b \in Live' : a = b
             /\ \A s \in Reqs : req'[s].at # "insert"
  <2>1. \A s \in Reqs : s # r => req[s].at = "idle"
    BY <1>1, <1>9 DEF AtMostOne, Idle
  <2>2. req[r].code = Cardinality(Created) /\ Created = 1..Cardinality(Created)
        /\ Cardinality(Created) \in Nat
    BY <1>1, <1>9, CreatedCounted, LimitsPositive DEF LiveInv, IInv
  <2>3. Live \subseteq Created
    BY DEF Live, Created
  <2>4. Live' = {c}
    BY <1>2, <2>2, <2>3
  <2>5. QED
    BY <1>3, <2>1, <2>4
<1> HIDE DEF h
<1>10. QED
  BY <1>6, <1>7, <1>8, <1>9 DEF LiveInv

\* No other step makes a code live or created, and a handler that comes to the INSERT
\* has seen all codes.
LEMMA OthersKeepLive ==
  ASSUME IInv, [Next]_vars, ~\E r \in Reqs : RequestInsert(r)
  PROVE  /\ Live' \subseteq Live /\ Created' = Created
         /\ \A s \in Reqs : req'[s].at = "insert" =>
              \/ req'[s] = req[s]
              \/ req'[s].code = Cardinality(Created)
<1>0. req \in [Reqs -> Request] /\ code \in [Codes -> CodeRow]
  BY DEF IInv, TypeOK
<1>1. ASSUME NEW s \in Reqs, req'[s].at = "insert", req'[s] # req[s]
      PROVE  req'[s].code = Cardinality(Created)
  BY <1>1, Moves DEF Idle
<1>2. CASE \E r \in Reqs : Burn(r) \/ Miss(r) \/ SetPassword(r)
  <2>1. PICK r \in Reqs : Burn(r) \/ Miss(r) \/ SetPassword(r)
    BY <1>2
  <2>2. req[r].code \in Created
    BY <2>1, HandlerTyped DEF Burn, Miss, SetPassword, Knows
  <2>3. Live' \subseteq Live /\ Created' = Created
    BY <1>0, <2>1, <2>2 DEF Burn, Miss, SetPassword, Live, Created, CodeRow
  <2>4. QED
    BY <1>1, <2>3
<1>3. CASE \E c \in Codes : CodeExpires(c)
  BY <1>0, <1>1, <1>3 DEF CodeExpires, Live, Created, CodeRow
<1>4. CASE UNCHANGED code
  BY <1>1, <1>4 DEF Live, Created
<1>5. QED
  BY <1>2, <1>3, <1>4
  DEF Next, Arrive, Forgot, Try, Submit, Check, FileRead, ActRead, Continue, RequestCount,
      RequestRetire, RequestSend, FileInsert, ActWrite, Abort, TypeCode, Surroundings,
      SuspensionLapses, vars, reset

LEMMA LiveStep ==
  ASSUME IInv, [Next]_vars, LiveInv, serial => AtMostOne, serial' => serial
  PROVE  LiveInv'
<1>1. CASE \E r \in Reqs : RequestInsert(r)
  BY <1>1, InsertKeepsLive
<1>2. CASE ~\E r \in Reqs : RequestInsert(r)
  <2>0. /\ Live' \subseteq Live /\ Created' = Created
        /\ \A s \in Reqs : req'[s].at = "insert" =>
             \/ req'[s] = req[s]
             \/ req'[s].code = Cardinality(Created)
    BY <1>2, OthersKeepLive
  <2>1. PICK g \in [Live -> Reqs] :
          /\ \A a, b \in Live : g[a] = g[b] => a = b
          /\ \A a \in Live : req[g[a]].at = "insert" => a <= req[g[a]].code
    BY DEF LiveInv
  <2> DEFINE h == [d \in Live' |-> g[d]]
  <2>2. h \in [Live' -> Reqs] /\ \A a, b \in Live' : h[a] = h[b] => a = b
    BY <2>0, <2>1
  <2>3. ASSUME NEW a \in Live', req'[h[a]].at = "insert"
        PROVE  a <= req'[h[a]].code
    <3>1. CASE req'[h[a]] = req[h[a]]
      BY <2>0, <2>1, <2>3, <3>1
    <3>2. CASE req'[h[a]].code = Cardinality(Created)
      <4>1. a \in Created
        BY <2>0 DEF Live, Created
      <4>2. Created = 1..Cardinality(Created) /\ Cardinality(Created) \in Nat
        BY CreatedCounted, LimitsPositive DEF IInv
      <4>3. QED
        BY <3>2, <4>1, <4>2
    <3>3. QED
      BY <2>0, <2>2, <2>3, <3>1, <3>2
  <2>4. ASSUME serial'
        PROVE  /\ \A a, b \in Live' : a = b
               /\ \A s \in Reqs : req'[s].at = "insert" =>
                    req'[s].code = Cardinality(Created')
    BY <2>0, <2>4 DEF LiveInv
  <2> HIDE DEF h
  <2>5. QED
    BY <2>2, <2>3, <2>4 DEF LiveInv
<1>3. QED
  BY <1>1, <1>2

\* Every step keeps HInv.
LEMMA StepHInv == HInv /\ [HistoryNext]_<<vars, serial>> => HInv'
<1> SUFFICES ASSUME HInv, [HistoryNext]_<<vars, serial>> PROVE HInv'
  OBVIOUS
<1>1. [Next]_vars
  BY DEF HistoryNext
<1>2. serial' => serial /\ AtMostOne'
  <2>1. CASE HistoryNext
    BY <2>1 DEF HistoryNext
  <2>2. CASE UNCHANGED <<vars, serial>>
    <3>1. req' = req /\ serial' = serial
      BY <2>2 DEF vars
    <3>2. QED
      BY <3>1 DEF HInv, AtMostOne
  <2>3. QED
    BY <2>1, <2>2
<1>3. IInv /\ (serial => AtMostOne) /\ UsesInv /\ GuessInv /\ LogInv /\ FileInv /\ LiveInv
  BY DEF HInv
<1>4. IInv'
  BY <1>1, <1>3, StepIInv
<1>5. UsesInv' /\ GuessInv'
  BY <1>1, <1>2, <1>3, UsesStep, GuessStep
<1>6. LogInv' /\ FileInv' /\ LiveInv'
  BY <1>1, <1>2, <1>3, LogStep, FileStep, LiveStep
<1>7. QED
  BY <1>2, <1>4, <1>5, <1>6 DEF HInv

\* The invariant of RecoverySerial: what is counted and who is still to count.
THEOREM HistoryInvariance == HistorySpec => []HInv
<1>1. QED
  BY InitHInv, StepHInv, PTL DEF HistorySpec

LEMMA OverlapIsNat == Overlap \in Nat
  BY HandlersAreFinite, FS_CardinalityType DEF Overlap

\* "A code is burned" by the reset it pays for: n handlers that overlap use a code at
\* most n times, a single one once.
THEOREM UsesAreFew == HistorySpec => []CodesAreSingleUse
<1>1. HInv => CodesAreSingleUse
  <2> SUFFICES ASSUME HInv, NEW c \in Codes PROVE code[c].uses <= Overlap
    BY DEF CodesAreSingleUse
  <2>1. code[c].uses \in Nat /\ Setting(c) \in SUBSET Reqs
    BY DEF HInv, IInv, TypeOK, CodeRow, Setting
  <2>2. Counted(code[c].uses, 0, Setting(c), Reqs, serial)
    BY DEF HInv, UsesInv
  <2>3. code[c].uses <= 0 + Overlap
    BY <2>1, <2>2, HandlersAreFinite, CountedBounds DEF Overlap
  <2>4. QED
    BY <2>1, <2>3, OverlapIsNat
<1>2. QED
  BY <1>1, HistoryInvariance, PTL

\* "A new code retires the old ones", "the attempt counter still applies": n handlers
\* that overlap leave n live codes at most, and overrun the cap by n - 1 guesses.
THEOREM GuessesAreFew == HistorySpec => []GuessesBounded
<1>1. HInv => GuessesBounded
  <2> SUFFICES ASSUME HInv PROVE GuessesBounded
    OBVIOUS
  <2>1. ASSUME NEW c \in Codes PROVE code[c].attempts < MAX_ATTEMPTS + Overlap
    <3>1. code[c].attempts \in Nat /\ Missing(c) \in SUBSET Reqs
      BY DEF HInv, IInv, TypeOK, CodeRow, Missing
    <3>2. Counted(code[c].attempts, MAX_ATTEMPTS - 1, Missing(c), Reqs, serial)
      BY DEF HInv, GuessInv
    <3>3. MAX_ATTEMPTS - 1 \in Nat
      BY LimitsPositive
    <3>4. code[c].attempts <= MAX_ATTEMPTS - 1 + Overlap
      BY <3>1, <3>2, <3>3, HandlersAreFinite, CountedBounds DEF Overlap
    <3>5. QED
      BY <3>1, <3>4, LimitsPositive, OverlapIsNat
  <2>2. Cardinality(Live) <= Overlap
    <3>1. CASE serial
      <4>1. \A c, d \in Live : c = d
        BY <3>1 DEF HInv, LiveInv
      <4>2. CASE Live = {}
        BY <3>1, <4>2, FS_EmptySet DEF Overlap
      <4>3. ASSUME NEW c, Live = {c} PROVE Cardinality(Live) <= Overlap
        <5>1. Cardinality({c}) = 1
          BY FS_Singleton
        <5>2. Cardinality(Live) = 1
          BY <4>3, <5>1, Zenon
        <5>3. Overlap = 1
          BY <3>1, Zenon DEF Overlap
        <5>4. QED
          BY <5>2, <5>3
      <4>4. Live = {} \/ \E c : Live = {c}
        <5> SUFFICES ASSUME NEW c \in Live PROVE Live = {c}
          OBVIOUS
        <5>1. QED
          BY <4>1
      <4>5. QED
        BY <4>2, <4>3, <4>4
    <3>2. CASE ~serial
      <4>1. PICK g \in [Live -> Reqs] : \A c, d \in Live : g[c] = g[d] => c = d
        BY DEF HInv, LiveInv
      <4>2. g \in Injection(Live, Reqs)
        BY <4>1 DEF Injection, IsInjective
      <4>3. Cardinality(Live) <= Cardinality(Reqs)
        BY <4>2, HandlersAreFinite, FS_Injection
      <4>4. QED
        BY <3>2, <4>3 DEF Overlap
    <3>3. QED
      BY <3>1, <3>2
  <2>3. QED
    BY <2>1, <2>2 DEF GuessesBounded
<1>2. QED
  BY <1>1, HistoryInvariance, PTL

\* report(), act(): n handlers that overlap decide a report at most n times, and leave
\* at most n open reports of one person about one target.
THEOREM DecisionsAreFew == HistorySpec => []OneDecisionEach
<1>1. HInv => OneDecisionEach
  <2> SUFFICES ASSUME HInv PROVE OneDecisionEach
    OBVIOUS
  <2>1. ASSUME NEW n \in Reports PROVE log[n] <= Overlap
    <3>1. log[n] \in Nat /\ Deciding(n) \in SUBSET Reqs
      BY DEF HInv, IInv, TypeOK, Deciding
    <3>2. Counted(log[n], 0, Deciding(n), Reqs, serial)
      BY DEF HInv, LogInv
    <3>3. log[n] <= 0 + Overlap
      BY <3>1, <3>2, HandlersAreFinite, CountedBounds DEF Overlap
    <3>4. QED
      BY <3>1, <3>3, OverlapIsNat
  <2>2. ASSUME NEW by \in Reporters, NEW on \in Targets
        PROVE  Cardinality(Opened(by, on)) <= Overlap
    <3>1. Cardinality(Opened(by, on)) \in Nat /\ Filing(by, on) \in SUBSET Reqs
      BY OpenedCounted DEF Filing
    <3>2. Counted(Cardinality(Opened(by, on)), 0, Filing(by, on), Reqs, serial)
      BY DEF HInv, FileInv
    <3>3. Cardinality(Opened(by, on)) <= 0 + Overlap
      BY <3>1, <3>2, HandlersAreFinite, CountedBounds DEF Overlap
    <3>4. QED
      BY <3>1, <3>3, OverlapIsNat
  <2>3. QED
    BY <2>1, <2>2 DEF OneDecisionEach, Opened
<1>2. QED
  BY <1>1, HistoryInvariance, PTL
=============================================================================
