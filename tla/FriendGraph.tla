---------------------------- MODULE FriendGraph -----------------------------
(***************************************************************************)
(* What friends.service.ts promises, as its header draws it: between two   *)
(* users there is nothing, one request, or a friendship, and a block       *)
(* stands outside and severs either.                                       *)
(***************************************************************************)
EXTENDS FiniteSets

CONSTANT Users

VARIABLES asks,    \* pending requests, <<from, to>>
          bonds,   \* friendships, {a, b}
          bars     \* blocks, <<blocker, blocked>>

Barred(a, b) == <<a, b>> \in bars \/ <<b, a>> \in bars

Init == asks = {} /\ bonds = {} /\ bars = {}

\* NONE --send--> REQUESTED
Send(a, b) ==
  /\ ~Barred(a, b) /\ {a, b} \notin bonds
  /\ <<a, b>> \notin asks /\ <<b, a>> \notin asks
  /\ asks' = asks \cup {<<a, b>>}
  /\ UNCHANGED <<bonds, bars>>

\* PENDING --accept--> FRIENDS, also by sending back
Accept(a, b) ==
  /\ ~Barred(a, b) /\ <<a, b>> \in asks
  /\ asks' = asks \ {<<a, b>>}
  /\ bonds' = bonds \cup {{a, b}}
  /\ UNCHANGED bars

\* REQUESTED --cancel--> NONE, and the silent rejection
Withdraw(a, b) ==
  /\ <<a, b>> \in asks
  /\ asks' = asks \ {<<a, b>>}
  /\ UNCHANGED <<bonds, bars>>

\* FRIENDS --remove--> NONE
Remove(a, b) ==
  /\ {a, b} \in bonds
  /\ bonds' = bonds \ {{a, b}}
  /\ UNCHANGED <<asks, bars>>

Block(a, b) ==
  /\ bars' = bars \cup {<<a, b>>}
  /\ bonds' = bonds \ {{a, b}}
  /\ asks' = asks \ {<<a, b>>, <<b, a>>}

\* Unblocking does not restore the friendship.
Unblock(a, b) ==
  /\ bars' = bars \ {<<a, b>>}
  /\ UNCHANGED <<asks, bonds>>

Next ==
  \E a, b \in Users :
    /\ a # b
    /\ \/ Send(a, b) \/ Accept(a, b) \/ Withdraw(a, b) \/ Remove(a, b)
       \/ Block(a, b) \/ Unblock(a, b)

Spec == Init /\ [][Next]_<<asks, bonds, bars>>
=============================================================================
