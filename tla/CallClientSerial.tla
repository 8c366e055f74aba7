-------------------------- MODULE CallClientSerial --------------------------
(***************************************************************************)
(* CallClient with a history variable: whether call() and accept() have,   *)
(* so far, never been overtaken by another call or a hang-up while they    *)
(* awaited the server or the microphone prompt.  An incoming call overtakes *)
(* a call() that awaits its ack: `currentCall` is not set before the ack,  *)
(* so that the other call is not declined, and can be accepted later.      *)
(***************************************************************************)
EXTENDS CallClient

VARIABLE steady

Overtaken(p, c) ==
  LET t == task[p][c]
  IN  \/ t.at = "asking" /\ (me[p].cur # NoCall \/ me[p].inc # NoCall)
      \/ t.at \in {"joining", "calling", "answering"} /\ me[p].cur # c
      \/ t.at \in {"calling", "answering"} /\ ~t.open

NeverOvertaken == \A p \in Clients, c \in Calls : ~Overtaken(p, c)

SteadyInit == HookInit /\ steady = TRUE
SteadyNext == HookNext /\ steady' = (steady /\ NeverOvertaken')
SteadySpec == SteadyInit /\ [][SteadyNext]_<<hookvars, steady>> /\ HookFairness

\* cleanup(): "Tracks first: this is what turns the camera light off".  A microphone
\* is on only for the call a client is in, however the last one ended, if no
\* function has been overtaken.
MicrophoneOff ==
  steady => \A p \in Clients : me[p].mics \subseteq {me[p].cur}

\* The hook's refs have the shape its functions expect, and hold no microphone more
\* than that.
HookIsSound == HookTypeOK /\ MicrophoneOff

-----------------------------------------------------------------------------
(* The inductive strengthening.                                            *)

Note == [kind : {"started", "joined", "refused", "incoming", "accepted", "ended"},
         call : Calls]
Sent == [to : Clients, kind : {"offer", "answer", "candidate"}, call : Calls,
         tracks : BOOLEAN]

\* What waits is well-formed, and a connection that is closed has nothing left.
Shape ==
  /\ HookTypeOK
  /\ queue \in [Clients -> Seq(Note)] /\ wire \subseteq Sent
  /\ \A p \in Clients : me[p].pc.call = NoCall => me[p].pc = NoPeer

\* The client that made a call is told how it went, once; the other is rung.
Replies(p, i) == queue[p][i].kind \in {"started", "refused"}
                 /\ Caller[queue[p][i].call] = p

Roles ==
  \A p \in Clients :
    /\ me[p].inc # NoCall => Caller[me[p].inc] # p /\ line[me[p].inc] # "none"
    /\ \A i \in DOMAIN queue[p] :
         LET e == queue[p][i]
         IN  /\ e.kind = "started" => Caller[e.call] = p
             /\ e.kind \in {"joined", "incoming"} => Caller[e.call] # p
             /\ e.kind \in {"incoming", "started", "joined", "refused"} =>
                  line[e.call] # "none"
             /\ Replies(p, i) => task[p][e.call].at = "asking"
    /\ \A i, j \in DOMAIN queue[p] :
         Replies(p, i) /\ Replies(p, j) /\ queue[p][i].call = queue[p][j].call => i = j

\* A microphone that is on is that of the call a client is in, and cleanup() finds it;
\* the screen rings only for a client that is in none.
Lit ==
  \A p \in Clients :
    /\ me[p].mics \subseteq {me[p].cur} /\ me[p].mics \subseteq {me[p].stream}
    /\ me[p].st = "ringing" /\ me[p].inc # NoCall => me[p].cur = NoCall

HInv == Shape /\ Roles /\ (steady => NeverOvertaken /\ Lit)
=============================================================================
