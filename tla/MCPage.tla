------------------------------- MODULE MCPage -------------------------------
(***************************************************************************)
(* Page with three refresh tokens, an upload and another request, two      *)
(* requests to the cookie routes, two streams and two drafts.              *)
(***************************************************************************)
EXTENDS Page

\* Just signed in, with nothing under way but what the screens ask for.
Settled ==
  /\ past.clean /\ (Authed => page.access = "good" /\ page.refreshing = "no")
  /\ \A t \in Tokens : row[t].st = "none" \/ t = cookie
  /\ \A c \in Calls : call[c].at = "idle" \/ (c \in Uploads /\ call[c].at = "sent")
  /\ \A w \in OnTheWire : wire[w].kind = "logout" /\ wire[w].mine

AtRest == /\ \A i \in Streams : media[i] \in {"free", "held"}
          /\ rec = "none" /\ shot = "none" /\ finger = "up" /\ calm

\* The bounds.  Recorders: in a session that has just begun, and, once one of them was
\* overtaken, without an upload.  Cookie routes: while nothing is recorded, behind the
\* editor that sends or a tab without a camera; once an answer was lost, one route at a
\* time and no upload.
Recorders == Settled /\ (calm \/ (sending = "no" /\ ~past.out /\ OnTheWire = {}))
Lossy     == /\ screen = "away" /\ ~past.killed /\ Cardinality(OnTheWire) <= 1
             /\ \A c \in Uploads : ~Busy(c)
Routes    == AtRest /\ (screen = "away" \/ sending = "on") /\ (past.clean \/ Lossy)
Scope     == Recorders \/ Routes
=============================================================================
