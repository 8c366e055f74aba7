--------------------------- MODULE RealtimeSerial ---------------------------
(***************************************************************************)
(* Realtime with a history variable: whether the handlers of connections   *)
(* and disconnections have neither overlapped nor failed so far.           *)
(***************************************************************************)
EXTENDS Realtime

VARIABLE serial

InFlight(k) == sock[k].up # "none" \/ sock[k].down # "none"

AtMostOne ==
  \A k, l \in Sockets :
    /\ InFlight(k) /\ InFlight(l) => k = l
    /\ sock[k].up = "none" \/ sock[k].down = "none"
    /\ sock[k].up = "verify" => sock[k].link

HistoryInit == Init /\ serial = TRUE
HistoryNext == Next /\ serial' = (serial /\ AtMostOne' /\ ~Failure)
HistorySpec == HistoryInit /\ [][HistoryNext]_<<vars, serial>> /\ Fairness

\* "presence flips only on the last one": nobody with a socket loses the entry, and,
\* unless two of the handlers overlapped or one failed, the friend who watches knows,
\* between them, whether the user has a socket.
PresenceIsTrue ==
  /\ CountCoversSockets
  /\ serial /\ (\A k \in Sockets : ~InFlight(k)) => light = (Live # {})

-----------------------------------------------------------------------------
(* The inductive strengthening.                                            *)

\* A socket whose token is not verified is not joined; a joined one is, or was, up.
SocketInv ==
  \A k \in Sockets : /\ sock[k].up = "verify" => ~sock[k].me
                     /\ sock[k].link /\ ~sock[k].me => sock[k].up = "verify"

CountInv == IsFiniteSet(Live) /\ CountCoversSockets

\* A message is emitted once and acknowledged once, and its ack finds at most one copy.
WireInv ==
  /\ \A m \in Msgs : m \notin stored \/ m \in due => ~OnWire(m) /\ screen[m] <= 1
  /\ \A i \in DOMAIN wire : wire[i].kind = "ack" =>
       asker[wire[i].msg] # None /\ screen[wire[i].msg] <= 1
  /\ \A i, j \in DOMAIN wire :
       /\ wire[i].kind = "ack" /\ wire[j].kind = "ack"
       /\ wire[i].msg = wire[j].msg
       => i = j

IInv == TypeOK /\ SocketInv /\ CountInv /\ CopiesBounded /\ WireInv

\* The count is exact, and the one handler in flight tells what is so.
LightInv ==
  /\ AtMostOne
  /\ conn = Cardinality(Live)
  /\ \A k \in Sockets : /\ sock[k].up = "tell" => Live # {}
                        /\ sock[k].down = "tell" => Live = {}
  /\ (\A k \in Sockets : sock[k].up # "tell" /\ sock[k].down # "tell")
       => light = (Live # {})

HInv == IInv /\ (serial => LightInv)
=============================================================================
