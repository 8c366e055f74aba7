--------------------------- MODULE RecoverySerial ---------------------------
(***************************************************************************)
(* Recovery with a history variable, and what the comments promise: to the *)
(* letter when no two handlers overlap, up to their number when they do.   *)
(***************************************************************************)
EXTENDS Recovery

ASSUME HandlersAreFinite == IsFiniteSet(Reqs)
ASSUME ReportsAreFinite == IsFiniteSet(Reports)

VARIABLE serial       \* no two handlers have been in flight at once

AtMostOne == \A r, s \in Reqs : req[r] # Idle /\ req[s] # Idle => r = s

HistoryInit == Init /\ serial = TRUE
HistoryNext == Next /\ serial' = (serial /\ AtMostOne')
HistorySpec == HistoryInit /\ [][HistoryNext]_<<vars, serial>>

Overlap == IF serial THEN 1 ELSE Cardinality(Reqs)

\* "A new code retires the old ones, so only one is ever live", and "the attempt
\* counter still applies": n overlapping handlers leave at most n live codes, and
\* overrun the cap by at most n - 1 guesses.
GuessesBounded ==
  /\ Cardinality(Live) <= Overlap
  /\ \A c \in Codes : code[c].attempts < MAX_ATTEMPTS + Overlap

\* A code "is burned" by the reset it pays for: it sets the password once, and once
\* more only for each handler that had matched it before.
CodesAreSingleUse == \A c \in Codes : code[c].uses <= Overlap

\* report(), act(): "one open report per person per target", and a report that is
\* decided stays decided: n overlapping handlers make at most n of either.
OneDecisionEach ==
  /\ \A n \in Reports : log[n] <= Overlap
  /\ \A by \in Reporters, on \in Targets :
       Cardinality({n \in Reports : Open(n) /\ report[n].by = by /\ report[n].on = on})
         <= Overlap
=============================================================================
