------------------------------- MODULE Sessions -------------------------------
(***************************************************************************)
(* What src/common/net.h promises to a program: each peer has at most one  *)
(* session; its messages are heard in the name the session was given, each *)
(* once, and all of them before the end of a session that the peer closes. *)
(***************************************************************************)
EXTENDS Naturals

CONSTANTS Peer, Unnamed, NoSession, NoEvent

VARIABLES
  session,   \* the name of each peer's session, or NoSession
  unheard,   \* the messages each peer wrote that were not heard yet
  event      \* the last event raised: its kind and the name it came under

vars == <<session, unheard, event>>

Init ==
  /\ session = [p \in Peer |-> NoSession]
  /\ unheard = [p \in Peer |-> 0]
  /\ event = NoEvent

Say(p) ==
  /\ unheard' = [unheard EXCEPT ![p] = @ + 1]
  /\ UNCHANGED <<session, event>>

(***************************************************************************)
(* A session starts, by the peer or by the program, with a name or none;   *)
(* a name the program does not give may be another peer's.                 *)
(***************************************************************************)
Open(p, name) ==
  /\ session[p] = NoSession
  /\ session' = [session EXCEPT ![p] = name]
  /\ unheard'[p] <= unheard[p]
  /\ \A q \in Peer \ {p} : unheard'[q] = unheard[q]
  /\ event' \in {event, <<"connection", name>>}

(***************************************************************************)
(* The program refuses a session at the first message.                     *)
(***************************************************************************)
Refuse(p) ==
  /\ session[p] = NoSession /\ unheard[p] > 0
  /\ unheard' = [unheard EXCEPT ![p] = 0]
  /\ UNCHANGED <<session, event>>

Hear(p) ==
  /\ session[p] # NoSession
  /\ unheard'[p] < unheard[p]
  /\ \A q \in Peer \ {p} : unheard'[q] = unheard[q]
  /\ event' = <<"message", session[p]>>
  /\ UNCHANGED session

(***************************************************************************)
(* A message that makes the program open or drop a session.                *)
(***************************************************************************)
HearAndOpen(p, q) ==
  /\ session[p] # NoSession /\ session[q] = NoSession
  /\ unheard'[p] < unheard[p]
  /\ \A r \in Peer \ {p} : unheard'[r] = unheard[r]
  /\ event' = <<"message", session[p]>>
  /\ session' = [session EXCEPT ![q] = q]

HearAndDrop(p, q) ==
  /\ session[p] # NoSession /\ session[q] # NoSession
  /\ unheard'[p] < unheard[p] \/ p = q
  /\ \A r \in Peer \ {p, q} : unheard'[r] = unheard[r]
  /\ unheard'[q] = 0
  /\ event' = <<"message", session[p]>>
  /\ session' = [session EXCEPT ![q] = NoSession]

(***************************************************************************)
(* The peer closed, and everything it wrote was heard.                     *)
(***************************************************************************)
Leave(p) ==
  /\ session[p] # NoSession /\ unheard[p] = 0
  /\ event' = <<"disconnection", session[p]>>
  /\ session' = [session EXCEPT ![p] = NoSession]
  /\ UNCHANGED unheard

(***************************************************************************)
(* The network is closed, or the process ends.                             *)
(***************************************************************************)
End ==
  /\ session' = [p \in Peer |-> NoSession]
  /\ unheard' = [p \in Peer |-> 0]

Next ==
  \/ \E p \in Peer : Say(p) \/ Refuse(p) \/ Hear(p) \/ Leave(p) \/ \E name \in Peer \cup {Unnamed} : Open(p, name)
  \/ \E p, q \in Peer : HearAndOpen(p, q) \/ HearAndDrop(p, q)
  \/ End

Spec == Init /\ [][Next]_vars
==============================================================================
