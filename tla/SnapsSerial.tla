---------------------------- MODULE SnapsSerial -----------------------------
(***************************************************************************)
(* Snaps with a history variable that tells the runs in which no two       *)
(* handlers have overlapped, and what the comments promise of those.       *)
(***************************************************************************)
EXTENDS Snaps

ASSUME HandlersAreFinite == IsFiniteSet(Reqs)

VARIABLE serial       \* no two handlers have been in flight at once

AtMostOne == \A r, s \in Reqs :
               req[r].at \in InFlight /\ req[s].at \in InFlight => r = s

HistoryInit == Init /\ serial = TRUE
HistoryNext == Next /\ serial' = (serial /\ AtMostOne')
HistorySpec == HistoryInit /\ [][HistoryNext]_<<vars, serial>>

\* REPLAY_LIMIT of open(), ON CONFLICT DO NOTHING of view(): n handlers in flight
\* together overrun the replays and the notices of a snap by at most n - 1, a
\* single one by nothing, and the views of a story are counted exactly in any case.
CountsBounded ==
  LET n == IF serial THEN 1 ELSE Cardinality(Reqs)
  IN  /\ \A s \in SnapIds, u \in Users :
           /\ snap[s][u].replays < REPLAY_LIMIT + n
           /\ told[s][u] <= n
      /\ \A t \in StoryIds : story[t].count = Cardinality(story[t].viewers)

\* runCleanup: "Deleting bytes still reachable through another feature is the
\* failure that turns a cleanup job into an incident".
NeededStays == serial' /\ object = "stored" /\ Needed => object' = "stored"

\* No bytes without a row that knows of them, however the handlers overlap, and none
\* removed that somebody still needs, unless they do.
BytesAreKept == [][RowBeforeBytes' /\ NeededStays]_<<vars, serial>>
=============================================================================
