-------------------------------- MODULE Page --------------------------------
(***************************************************************************)
(* The page as a whole: WebClient's session and Capture's screens, as      *)
(* app/page.tsx and Home.tsx put them together.  Home is mounted while the *)
(* status is "authed", so that the answer to a log-out unmounts whatever   *)
(* the user has gone on to meanwhile; the editor's "Send" is one of        *)
(* WebClient's uploads, with its retries; a reload ends everything but     *)
(* what the browser and the server hold.                                   *)
(***************************************************************************)
EXTENDS WebClient

CONSTANTS Streams, Drafts, NoDraft

ASSUME NoDraftIsNone == NoDraft \notin Drafts

VARIABLES screen, view, finger, media, rec, shot, urls, active, sending, calm

C == INSTANCE Capture

capture  == <<screen, view, finger, media, rec, shot, urls, active, sending, calm>>
pagevars == <<web, capture>>

-----------------------------------------------------------------------------
Authed == page.status = "authed"

PageInit == WebInit /\ C!CaptureInit

\* What the user does on a screen of Home: the first is the camera's.
Use == Authed /\ C!Gesture /\ UNCHANGED web

\* A request of any screen, and the editor's upload.
Ask ==
  \/ \E c \in Calls \ Uploads : Begin(c) /\ UNCHANGED capture
  \/ \E c \in Uploads : Begin(c) /\ C!Send

\* The upload ends, and CaptureFlow.send with it.
CallStep(c) ==
  \/ (Measured(c) \/ Unauthorised(c) \/ MeAnswered(c)) /\ UNCHANGED capture
  \/ \E ok \in BOOLEAN :
       /\ Answered(c, ok)
       /\ IF c \in Uploads THEN \E i \in Streams : C!Sent(i, ok) ELSE UNCHANGED capture

\* Home unmounts when the status is "authed" no longer.
Leave ==
  CASE screen = "chat" -> C!LeaveChat
    [] screen = "away" -> UNCHANGED capture
    [] OTHER           -> C!LeaveCapture("away")

WireStep(w) ==
  \/ Server(w) /\ UNCHANGED capture
  \/ /\ Receive(w) \/ Lose(w)
     /\ IF Authed /\ page'.status # "authed" THEN Leave ELSE UNCHANGED capture

\* The header with "Sign out" is not over the camera.
SignInOrOut(w) ==
  /\ SignIn(w) \/ (screen \in {"chat", "away"} /\ SignOut(w))
  /\ UNCHANGED capture

\* The browser stops every track and forgets every URL.
Reload(w) == Load(w) /\ C!CaptureAnew

PageNext ==
  \/ Use \/ Ask
  \/ \E c \in Calls : CallStep(c)
  \/ \E w \in Wires : WireStep(w) \/ SignInOrOut(w) \/ Reload(w)
  \/ (C!Prompts \/ C!Clock \/ C!Blobs) /\ UNCHANGED web
  \/ (ClearRefresh \/ AccessExpires \/ RevokeAll) /\ UNCHANGED capture

\* Requests are answered or fail, timers fire; the user need not do anything.
PageFairness ==
  /\ \A c \in Calls : WF_pagevars(CallStep(c))
  /\ \A w \in Wires : WF_pagevars(WireStep(w))
  /\ WF_pagevars(C!MaxVideo /\ UNCHANGED web)
  /\ \A i \in Streams : WF_pagevars(C!VoiceStop(i) /\ UNCHANGED web)

PageSpec == PageInit /\ [][PageNext]_pagevars /\ PageFairness

-----------------------------------------------------------------------------
PageTypeOK == WebTypeOK /\ C!CaptureTypeOK

\* See Capture: what is lit and every object URL belong to what is on the screen, also
\* when the answer to a log-out or an upload takes the screen away.
LeavesNothingBehind == C!LeavesNothingBehind

\* See Capture: no recording runs forever.
RecordingsEnd == C!RecordingsEnd

\* The inductive invariant.
PageInv == WebInv /\ C!CaptureInv
=============================================================================
