------------------------------ MODULE CallLog ------------------------------
(***************************************************************************)
(* What the call server promises: the life of a call as the comments of    *)
(* calls.service.ts tell it, every operation one step.  A call rings only  *)
(* between two people who are in no other live call; it is answered,       *)
(* hung up or missed; once it is over its entry in the log never changes.  *)
(***************************************************************************)
CONSTANTS Users, CallIds, None

VARIABLE log   \* CallIds -> [status, initiator, callee]

Live == {"ringing", "active"}

Free(u) ==
  \A c \in CallIds :
    log[c].status \in Live => u \notin {log[c].initiator, log[c].callee}

Init ==
  log = [c \in CallIds |->
           [status |-> "none", initiator |-> None, callee |-> None]]

Ring(c, u, v) ==
  /\ log[c].status = "none"
  /\ u # v /\ Free(u) /\ Free(v)
  /\ log' = [log EXCEPT ![c] =
               [status |-> "ringing", initiator |-> u, callee |-> v]]

Become(c, from, to) ==
  /\ log[c].status \in from
  /\ log' = [log EXCEPT ![c].status = to]

Answer(c)   == Become(c, {"ringing"}, "active")
HangUp(c)   == Become(c, {"active"}, "ended")
GiveUp(c)   == Become(c, {"ringing"}, "missed")
Decline(c)  == Become(c, {"ringing"}, "rejected")
MediaFail(c) == Become(c, Live, "failed")

\* One run of the sweep misses every overdue call at once.
RingOut ==
  \E C \in SUBSET {c \in CallIds : log[c].status = "ringing"} :
    log' = [c \in CallIds |->
              IF c \in C THEN [log[c] EXCEPT !.status = "missed"] ELSE log[c]]

Next ==
  \/ RingOut
  \/ \E c \in CallIds :
       \/ \E u, v \in Users : Ring(c, u, v)
       \/ Answer(c) \/ HangUp(c) \/ GiveUp(c) \/ Decline(c) \/ MediaFail(c)

Spec == Init /\ [][Next]_log
=============================================================================
