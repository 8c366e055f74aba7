--------------------------- MODULE MessagesSerial ---------------------------
(***************************************************************************)
(* Messages with a history variable that tells the runs in which no two    *)
(* handlers have overlapped.                                               *)
(***************************************************************************)
EXTENDS Messages

ASSUME HandlersAreFinite == IsFiniteSet(Reqs)

VARIABLE serial       \* no two handlers have been in flight at once

AtMostOne == \A r, s \in Reqs :
               req[r].at \in InFlight /\ req[s].at \in InFlight => r = s

HistoryInit == Init /\ serial = TRUE
HistoryNext == Next /\ serial' = (serial /\ AtMostOne')
HistorySpec == HistoryInit /\ [][HistoryNext]_<<vars, serial>>

\* directWith(): "two people must never end up with two parallel threads, which is
\* what happens when both tap each other's profile at the same moment": at that
\* moment each tap makes one, and otherwise there is one.
ThreadsBounded == Cardinality(made) <= IF serial THEN 1 ELSE Cardinality(Reqs)

\* Both: as many threads as taps at one moment, and none later.
OneThread == [][ThreadsBounded' /\ NoNewThread]_<<vars, serial>>
=============================================================================
