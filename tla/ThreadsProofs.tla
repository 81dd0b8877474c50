----------------------------- MODULE ThreadsProofs -----------------------------
(***************************************************************************)
(* Proofs that names survive the interleaving of the controller's threads, *)
(* and that only a node that raced with a command can be up to date with a *)
(* wrong list; for every topology of the command line, every number of     *)
(* routers and every history of commands. The information table plays no   *)
(* part in it: nothing is assumed of T; for names, nor of what the prompt  *)
(* writes.                                                                 *)
(*                                                                         *)
(* HeldBetweenHandlers says nothing of a handler's steps, so it is not     *)
(* inductive.  What every step keeps is that connected nodes are held      *)
(* (Balanced), but for the one whose logout is not over, and that the      *)
(* handler of a login or logout finds at its end what it read at its       *)
(* beginning (HandlerHolds), since no other handler runs meanwhile.        *)
(***************************************************************************)
EXTENDS ControllerThreads, FiniteSetTheorems, TLAPS

Leaving(n) == net.op = "logout" /\ net.n = n

Balanced ==
  \A n \in Node : connected[n] <=> (\E c \in Client : clientId[c] = n) /\ ~Leaving(n)

HandlerHolds ==
  /\ net.op \in {"login", "logout"} => net.c \in Client /\ net.n \in Node
  /\ net.op = "login" => clientId[net.c] = Absent /\ ~connected[net.n]
  /\ net.op = "logout" => clientId[net.c] = net.n

NamesTyped ==
  /\ connected \in [Node -> BOOLEAN]
  /\ clientId \in [Client -> Node \cup {Absent, Garbage}]
  /\ nodes \subseteq Node
  /\ {"op", "c", "n", "at"} \subseteq DOMAIN net

TInv == NamesTyped /\ UniqueIds /\ (status = "running" => Balanced /\ HandlerHolds)

(***************************************************************************)
(* No name is held, and no node connected, at the start.                   *)
(***************************************************************************)
LEMMA TInvInit == ThreadsInit => TInv
  <1> SUFFICES ASSUME ThreadsInit PROVE TInv
    OBVIOUS
  <1>1. nodes \subseteq Node
    BY ControllerAssumption DEF ThreadsInit, Init, NoTopology
  <1>2. net.op = "idle" /\ {"op", "c", "n", "at"} \subseteq DOMAIN net
    BY DEF ThreadsInit, Idle
  <1> QED
    BY <1>1, <1>2, ControllerAssumption
    DEF ThreadsInit, Init, TInv, NamesTyped, UniqueIds, Balanced, HandlerHolds, Leaving

------------------------------------------------------------------------------
(***************************************************************************)
(* A step that leaves the names alone, and the handler that runs, keeps    *)
(* the invariant: the process may crash, the prompt may write.             *)
(***************************************************************************)
LEMMA SameNames ==
  ASSUME TInv, UNCHANGED <<connected, clientId, nodes>>, status = "running",
         {"op", "c", "n", "at"} \subseteq DOMAIN net',
         status' = "running" => net'.op = net.op /\ net'.c = net.c /\ net'.n = net.n
  PROVE  TInv'
  BY DEF TInv, NamesTyped, UniqueIds, Balanced, HandlerHolds, Leaving

(***************************************************************************)
(* A crash keeps it, at whichever step of a handler.                       *)
(***************************************************************************)
LEMMA CrashNames ==
  ASSUME TInv, status = "running", Crash, {"op", "c", "n", "at"} \subseteq DOMAIN net'
  PROVE  TInv'
  BY SameNames DEF Crash, graph, flags

(***************************************************************************)
(* The thread that is in no handler.                                       *)
(***************************************************************************)
LEMMA IdleFields ==
  /\ Idle.op = "idle" /\ {"op", "c", "n", "at"} \subseteq DOMAIN Idle
  BY DEF Idle

(***************************************************************************)
(* What the first step of a handler keeps in mind.                         *)
(***************************************************************************)
LEMMA BeginFields ==
  ASSUME NEW op, NEW c, NEW n, Begin(op, c, n)
  PROVE  /\ net'.op = op /\ net'.c = c /\ net'.n = n
         /\ {"op", "c", "n", "at"} \subseteq DOMAIN net'
  BY DEF Begin

(***************************************************************************)
(* The beginning of a login: the node is free.                             *)
(***************************************************************************)
LEMMA BeginLoginNames ==
  ASSUME TInv, NEW c \in Client, NEW want, BeginLogin(c, want)
  PROVE  TInv'
  <1>1. PICK n \in Free : Begin("login", c, n)
    BY DEF BeginLogin
  <1>2. /\ status = "running" /\ net = Idle /\ clientId[c] = Absent
        /\ UNCHANGED <<connected, clientId, nodes, status>>
    BY DEF BeginLogin, Serving, graph, flags
  <1>3. n \in Node /\ ~connected[n]
    BY DEF Free, TInv, NamesTyped
  <1> QED
    BY <1>1, <1>2, <1>3, BeginFields, IdleFields
    DEF TInv, NamesTyped, UniqueIds, Balanced, HandlerHolds, Leaving

(***************************************************************************)
(* A refused login gives no node's name.                                   *)
(***************************************************************************)
LEMMA EndAtOnceNames ==
  ASSUME TInv, NEW c \in Client, EndAtOnce(c)
  PROVE  TInv'
  <1>1. status = "running" /\ net = Idle /\ UNCHANGED net
    BY DEF EndAtOnce, Serving, threads
  <1>2. CASE Crash
    BY <1>1, <1>2, CrashNames, IdleFields
  <1>3. CASE /\ clientId[c] = Absent /\ clientId' = [clientId EXCEPT ![c] = Garbage]
             /\ UNCHANGED <<connected, nodes, status>>
    BY <1>1, <1>3, IdleFields, ControllerAssumption
    DEF TInv, NamesTyped, UniqueIds, Balanced, HandlerHolds, Leaving
  <1> QED
    BY <1>2, <1>3 DEF EndAtOnce, LoginRefused, graph, flags

(***************************************************************************)
(* A poll changes no name at its beginning.                                *)
(***************************************************************************)
LEMMA BeginPollNames ==
  ASSUME TInv, NEW c \in Client, BeginPoll(c)
  PROVE  TInv'
  <1>1. /\ status = "running" /\ net = Idle /\ Begin("poll", c, clientId[c])
        /\ UNCHANGED <<connected, clientId, nodes, status>>
    BY DEF BeginPoll, Serving, vars, graph, flags
  <1> QED
    BY <1>1, BeginFields, IdleFields
    DEF TInv, NamesTyped, UniqueIds, Balanced, HandlerHolds, Leaving

(***************************************************************************)
(* The beginning of a logout: its node is not connected any more, though   *)
(* its name is still held.                                                 *)
(***************************************************************************)
LEMMA BeginLogoutNames ==
  ASSUME TInv, NEW c \in Client, BeginLogout(c)
  PROVE  TInv'
  <1> DEFINE n == clientId[c]
  <1>1. /\ status = "running" /\ net = Idle /\ n \in Node /\ Begin("logout", c, n)
        /\ connected' = [connected EXCEPT ![n] = FALSE]
        /\ UNCHANGED <<clientId, nodes, status>>
    BY DEF BeginLogout, Serving, graph
  <1>2. /\ net'.op = "logout" /\ net'.c = c /\ net'.n = n
        /\ {"op", "c", "n", "at"} \subseteq DOMAIN net'
    BY <1>1, BeginFields
  <1> QED
    BY <1>1, <1>2, IdleFields
    DEF TInv, NamesTyped, UniqueIds, Balanced, HandlerHolds, Leaving

------------------------------------------------------------------------------
(***************************************************************************)
(* An iteration changes no name; it moves the cursor of its handler only.  *)
(***************************************************************************)
LEMMA IterateNames ==
  ASSUME TInv, Iterate \/ IterateNoInfo \/ IterateFreed
  PROVE  TInv'
  <1>1. status = "running" /\ {"op", "c", "n", "at"} \subseteq DOMAIN net
    BY DEF Iterate, IterateNoInfo, IterateFreed, TInv, NamesTyped
  <1>2. CASE Iterate
    <2>1. PICK list : Advance(list)
      BY <1>2 DEF Iterate
    <2>2. /\ net'.op = net.op /\ net'.c = net.c /\ net'.n = net.n
          /\ DOMAIN net' = DOMAIN net
      BY <1>1, <2>1 DEF Advance
    <2>3. UNCHANGED <<connected, clientId, nodes>>
      BY <1>2 DEF Iterate, graph
    <2> QED
      BY <1>1, <2>2, <2>3, SameNames
  <1>3. CASE IterateNoInfo
    BY <1>1, <1>3, CrashNames DEF IterateNoInfo, threads
  <1>4. CASE IterateFreed
    <2>1. CASE Crash /\ UNCHANGED net
      BY <1>1, <2>1, CrashNames
    <2>2. CASE net' = [net EXCEPT !.at = NoNode, !.rest = {}] /\ UNCHANGED vars
      <3>1. /\ net'.op = net.op /\ net'.c = net.c /\ net'.n = net.n
            /\ DOMAIN net' = DOMAIN net
        BY <1>1, <2>2
      <3>2. UNCHANGED <<connected, clientId, nodes>>
        BY <2>2 DEF vars, graph, flags
      <3> QED
        BY <1>1, <3>1, <3>2, SameNames
    <2> QED
      BY <1>4, <2>1, <2>2 DEF IterateFreed
  <1> QED
    BY <1>2, <1>3, <1>4

(***************************************************************************)
(* The end of a login: its node is still not connected, hence nobody's.    *)
(***************************************************************************)
LEMMA FinishLoginNames ==
  ASSUME TInv, FinishLogin
  PROVE  TInv'
  <1>1. /\ status = "running" /\ net.op = "login" /\ net' = Idle
        /\ connected' = [connected EXCEPT ![net.n] = TRUE]
        /\ clientId' = [clientId EXCEPT ![net.c] = net.n]
        /\ UNCHANGED <<nodes, status>>
    BY DEF FinishLogin, Finished, graph
  <1>2. /\ net.c \in Client /\ net.n \in Node /\ clientId[net.c] = Absent /\ ~connected[net.n]
        /\ Balanced /\ UniqueIds /\ NamesTyped
    BY <1>1 DEF TInv, HandlerHolds
  <1>3. \A c \in Client : clientId[c] # net.n
    BY <1>1, <1>2 DEF Balanced, Leaving
  <1>4. NamesTyped'
    BY <1>1, <1>2, IdleFields DEF NamesTyped
  <1>5. \A c \in Client : clientId'[c] = IF c = net.c THEN net.n ELSE clientId[c]
    BY <1>1, <1>2 DEF NamesTyped
  <1>6. UniqueIds'
    BY <1>2, <1>3, <1>5 DEF UniqueIds
  <1>7. Balanced'
    <2> SUFFICES ASSUME NEW n \in Node
                 PROVE  connected'[n] <=> \E c \in Client : clientId'[c] = n
      BY <1>1, IdleFields DEF Balanced, Leaving
    <2>1. CASE n = net.n
      BY <1>1, <1>2, <1>5, <2>1 DEF NamesTyped
    <2>2. CASE n # net.n
      <3>1. connected'[n] <=> connected[n]
        BY <1>1, <1>2, <2>2 DEF NamesTyped
      <3>2. connected[n] <=> \E c \in Client : clientId[c] = n
        BY <1>1, <1>2 DEF Balanced, Leaving
      <3>3. Absent # n
        BY ControllerAssumption
      <3> QED
        BY <1>2, <1>5, <2>2, <3>1, <3>2, <3>3
    <2> QED
      BY <2>1, <2>2
  <1> QED
    BY <1>1, <1>4, <1>6, <1>7, IdleFields DEF TInv, HandlerHolds

(***************************************************************************)
(* A poll changes no name at its end either.                               *)
(***************************************************************************)
LEMMA FinishPollNames ==
  ASSUME TInv, FinishPoll
  PROVE  TInv'
  <1>1. /\ status = "running" /\ net.op = "poll" /\ net' = Idle
        /\ UNCHANGED <<connected, clientId, nodes, status>>
    BY DEF FinishPoll, Finished, graph
  <1> QED
    BY <1>1, IdleFields DEF TInv, NamesTyped, UniqueIds, Balanced, HandlerHolds, Leaving

(***************************************************************************)
(* The end of a logout: the name it was about is the one that is given up. *)
(***************************************************************************)
LEMMA FinishLogoutNames ==
  ASSUME TInv, FinishLogout
  PROVE  TInv'
  <1>1. status = "running" /\ net.op = "logout" /\ net' = Idle
    BY DEF FinishLogout, Finished
  <1>2. CASE Crash
    BY <1>1, <1>2, CrashNames, IdleFields
  <1>3. CASE clientId' = [clientId EXCEPT ![net.c] = Absent] /\ UNCHANGED <<connected, nodes, status>>
    <2>1. /\ net.c \in Client /\ net.n \in Node /\ clientId[net.c] = net.n
          /\ Balanced /\ UniqueIds /\ NamesTyped
      BY <1>1 DEF TInv, HandlerHolds
    <2>2. \A c \in Client : clientId'[c] = IF c = net.c THEN Absent ELSE clientId[c]
      BY <1>3, <2>1 DEF NamesTyped
    <2>3. NamesTyped'
      BY <1>1, <1>3, <2>1, IdleFields DEF NamesTyped
    <2>4. UniqueIds'
      BY <2>1, <2>2, ControllerAssumption DEF UniqueIds
    <2>5. Balanced'
      <3> SUFFICES ASSUME NEW n \in Node
                   PROVE  connected[n] <=> \E c \in Client : clientId'[c] = n
        BY <1>1, <1>3, IdleFields DEF Balanced, Leaving
      <3>1. Absent # n
        BY ControllerAssumption
      <3>2. connected[n] <=> (\E c \in Client : clientId[c] = n) /\ n # net.n
        BY <1>1, <2>1 DEF Balanced, Leaving
      <3>3. n # net.n => ((\E c \in Client : clientId'[c] = n) <=> \E c \in Client : clientId[c] = n)
        BY <2>1, <2>2, <3>1
      <3>4. \A c \in Client : clientId'[c] # net.n
        BY <2>1, <2>2, ControllerAssumption DEF UniqueIds
      <3> QED
        BY <3>2, <3>3, <3>4
    <2> QED
      BY <1>1, <2>3, <2>4, <2>5, IdleFields DEF TInv, HandlerHolds
  <1> QED
    BY <1>2, <1>3 DEF FinishLogout, graph, flags

------------------------------------------------------------------------------
(***************************************************************************)
(* A command of the prompt changes no name, and no handler but for the     *)
(* edge under its cursor.                                                  *)
(***************************************************************************)
LEMMA CommandNames ==
  ASSUME TInv, NEW writes, Command(writes)
  PROVE  TInv'
  <1>1. status = "running" /\ UNCHANGED <<connected, clientId, nodes, net>>
    BY DEF Command, graph, flags
  <1> QED
    BY <1>1, SameNames DEF TInv, NamesTyped

(***************************************************************************)
(* Nor does a write of a command.                                          *)
(***************************************************************************)
LEMMA PromptWriteNames ==
  ASSUME TInv, PromptWrite
  PROVE  TInv'
  <1>1. status = "running" /\ UNCHANGED <<connected, clientId, nodes>>
    BY DEF PromptWrite
  <1>2. net' = net \/ net' = [net EXCEPT !.at = Freed]
    BY DEF PromptWrite
  <1>3. {"op", "c", "n", "at"} \subseteq DOMAIN net
    BY DEF TInv, NamesTyped
  <1>4. /\ net'.op = net.op /\ net'.c = net.c /\ net'.n = net.n
        /\ DOMAIN net' = DOMAIN net
    BY <1>2, <1>3
  <1> QED
    BY <1>1, <1>3, <1>4, SameNames

(***************************************************************************)
(* Every step of either thread keeps the invariant.                        *)
(***************************************************************************)
LEMMA TInvStep == TInv /\ [ThreadsNext]_allVars => TInv'
  <1> SUFFICES ASSUME TInv, [ThreadsNext]_allVars PROVE TInv'
    OBVIOUS
  <1>1. ASSUME NEW c \in Client,
               \/ \E want \in Node \cup {Garbage} : BeginLogin(c, want)
               \/ EndAtOnce(c) \/ BeginPoll(c) \/ BeginLogout(c)
        PROVE  TInv'
    BY <1>1, BeginLoginNames, EndAtOnceNames, BeginPollNames, BeginLogoutNames
  <1>2. CASE NetworkStep
    BY <1>2, IterateNames, FinishLoginNames, FinishPollNames, FinishLogoutNames DEF NetworkStep
  <1>3. ASSUME NEW m \in Node, NEW n \in Node, NEW w \in Weight,
               StartAddLink(m, n, w) \/ StartUpdateLink(m, n, w)
        PROVE  TInv'
    BY <1>3, CommandNames DEF StartAddLink, StartUpdateLink
  <1>4. ASSUME NEW m \in Node, NEW n \in Node, StartDelLink(m, n) PROVE TInv'
    BY <1>4, CommandNames DEF StartDelLink
  <1>5. ASSUME NEW n \in nodes, StartDisconnect(n) PROVE TInv'
    <2>1. PICK writes : Command(writes)
      BY <1>5 DEF StartDisconnect
    <2> QED
      BY <2>1, CommandNames
  <1>6. CASE PromptWrite
    BY <1>6, PromptWriteNames
  <1>7. CASE UNCHANGED allVars
    BY <1>7 DEF allVars, vars, threads, graph, flags, TInv, NamesTyped, UniqueIds, Balanced,
                HandlerHolds, Leaving
  <1> QED
    BY <1>1, <1>2, <1>3, <1>4, <1>5, <1>6, <1>7 DEF ThreadsNext

(***************************************************************************)
(* Names survive the interleaving of the two threads, whatever the         *)
(* topology and however many routers come and go: between two handlers of  *)
(* the network thread a node is connected exactly while one router holds   *)
(* its name (exec.c, LOG and LOGOUT, against the prompt's ADDLINK to       *)
(* DISCONNECT).                                                            *)
(***************************************************************************)
THEOREM NamesSurviveThreads == ThreadsSpec => []HeldBetweenHandlers
  <1>1. TInv => HeldBetweenHandlers
    <2> SUFFICES ASSUME TInv, net = Idle PROVE ConnectedIsHeld /\ UniqueIds
      BY DEF HeldBetweenHandlers
    <2> QED
      BY IdleFields DEF TInv, Balanced, Leaving, ConnectedIsHeld
  <1> QED
    BY TInvInit, TInvStep, <1>1, PTL DEF ThreadsSpec

------------------------------------------------------------------------------
(***************************************************************************)
(* What a node was told is right unless it raced with a command.           *)
(*                                                                         *)
(* FreshUnlessRaced says nothing of a handler or a command under way.      *)
(* What every step keeps (FreshInv) is that a node that was told wrong is  *)
(* one that is, or will be, marked: by the writes a command has still to   *)
(* make, or by the loop of a logout.                                       *)
(***************************************************************************)

Weights == Weight \cup {NoEdge, DefaultWeight}

Write == [do : {"mark", "label"}, m : Node, n : Node, w : Weights]

Handler ==
  [op : {"idle", "poll", "login", "logout"}, c : Client \cup {NoNode}, n : Node \cup {NoNode},
   at : Node \cup {NoNode, Freed}, rest : SUBSET Node, seen : SUBSET Node,
   list : [Node -> Weights] \cup {NoList}]

SharedTypes ==
  /\ weight \in [Edge -> Weights]
  /\ connected \in [Node -> BOOLEAN] /\ upToDate \in [Node -> BOOLEAN]
  /\ clientId \in [Client -> Node \cup {Absent, Garbage}]
  /\ nodes \subseteq Node
  /\ sent \in [Node -> [Node -> Weights] \cup {NoList}]
  /\ raced \subseteq Node
  /\ prompt \in Seq(Write)

HandlerTypes ==
  /\ net \in Handler
  /\ net.op = "idle" => net = Idle
  /\ net.op # "idle" => net.n \in Node /\ net.list \in [Node -> Weights]
  /\ net.at = NoNode => net.rest = {}

(***************************************************************************)
(* The writes of s that mark x for its next poll, and those that change a  *)
(* link of x.                                                              *)
(***************************************************************************)
Marks(s, x) == \E i \in DOMAIN s : s[i].do = "mark" /\ s[i].n = x

Labels(s, x) == \E i \in DOMAIN s : s[i].do = "label" /\ x \in {s[i].m, s[i].n}

(***************************************************************************)
(* x will be told again: it is marked, or the command still has to mark it.*)
(***************************************************************************)
ToBeTold(x) == ~upToDate[x] \/ Marks(prompt, x)

Right(x) == upToDate[x] => sent[x] = Neighborhood(x)

(***************************************************************************)
(* The nodes the loop of the handler has not been at the end of.           *)
(***************************************************************************)
Ahead == net.rest \cup {net.at}

Told ==
  \A x \in Node \ raced : Right(x) \/ ToBeTold(x) \/ (net.op = "logout" /\ x \in Ahead)

LabelsAreMarked == \A x \in Node \ raced : Labels(prompt, x) => ToBeTold(x)

(***************************************************************************)
(* The loop of a login or a logout marks every neighbour, but for the ends *)
(* of a link that a command makes or removes, which the command marks.     *)
(***************************************************************************)
Marking ==
  net.op \in {"login", "logout"} =>
    /\ \A x \in net.seen : ~upToDate[x]
    /\ \A x \in Ends(net.n) \ raced : x \in Ahead \/ ToBeTold(x)
    /\ \A x \in net.rest \ raced : x \in Ends(net.n) \/ ToBeTold(x)

(***************************************************************************)
(* The list of a poll that raced with no command is right as far as it     *)
(* goes.                                                                   *)
(***************************************************************************)
Polling ==
  net.op = "poll" /\ net.n \notin raced =>
    /\ net.at # Freed
    /\ Labels(prompt, net.n) => Marks(prompt, net.n)
    /\ Ends(net.n) \subseteq net.seen \cup Ahead
    /\ net.list = [m \in Node |-> IF m \in net.seen THEN Neighborhood(net.n)[m] ELSE NoEdge]

FreshInv == SharedTypes /\ HandlerTypes /\ Told /\ LabelsAreMarked /\ Marking /\ Polling

(***************************************************************************)
(* What is left of a command after its next write.                         *)
(***************************************************************************)
LEMMA TailOfWrites ==
  ASSUME NEW s \in Seq(Write), s # <<>>, NEW x \in Node
  PROVE  /\ Head(s) \in Write /\ Tail(s) \in Seq(Write)
         /\ Marks(s, x) => (Head(s).do = "mark" /\ Head(s).n = x) \/ Marks(Tail(s), x)
         /\ Labels(Tail(s), x) => Labels(s, x)
         /\ Head(s).do = "label" /\ x \in {Head(s).m, Head(s).n} => Labels(s, x)
  <1>1. /\ Head(s) \in Write /\ Tail(s) \in Seq(Write) /\ Head(s) = s[1] /\ Len(s) \in Nat
        /\ DOMAIN s = 1..Len(s) /\ DOMAIN Tail(s) = 1..(Len(s) - 1) /\ 1 \in DOMAIN s
        /\ \A i \in 1..(Len(s) - 1) : Tail(s)[i] = s[i + 1]
    OBVIOUS
  <1>2. Marks(s, x) => (Head(s).do = "mark" /\ Head(s).n = x) \/ Marks(Tail(s), x)
    <2> SUFFICES ASSUME NEW i \in DOMAIN s, s[i].do = "mark", s[i].n = x
                 PROVE  (Head(s).do = "mark" /\ Head(s).n = x) \/ Marks(Tail(s), x)
      BY DEF Marks
    <2>1. CASE i = 1
      BY <1>1, <2>1
    <2>2. CASE i # 1
      <3>1. i - 1 \in DOMAIN Tail(s) /\ Tail(s)[i - 1] = s[i]
        BY <1>1, <2>2
      <3> QED BY <3>1 DEF Marks
    <2> QED BY <2>1, <2>2
  <1>3. Labels(Tail(s), x) => Labels(s, x)
    <2> SUFFICES ASSUME NEW i \in DOMAIN Tail(s), Tail(s)[i].do = "label",
                        x \in {Tail(s)[i].m, Tail(s)[i].n}
                 PROVE  Labels(s, x)
      BY DEF Labels
    <2>1. i + 1 \in DOMAIN s /\ s[i + 1] = Tail(s)[i]
      BY <1>1
    <2> QED BY <2>1 DEF Labels
  <1>4. Head(s).do = "label" /\ x \in {Head(s).m, Head(s).n} => Labels(s, x)
    BY <1>1 DEF Labels
  <1> QED BY <1>1, <1>2, <1>3, <1>4

(***************************************************************************)
(* Nothing of the lists changes with the names, the table and the handler. *)
(***************************************************************************)
LEMMA SameView ==
  ASSUME UNCHANGED <<weight, connected, upToDate, sent, prompt>>, NEW x
  PROVE  /\ Right(x)' <=> Right(x)
         /\ ToBeTold(x)' <=> ToBeTold(x)
         /\ Ends(x)' = Ends(x)
         /\ Neighborhood(x)' = Neighborhood(x)
  BY DEF Right, ToBeTold, Ends, Adjacent, Neighborhood

(***************************************************************************)
(* The list a poll should return is one of weights.                        *)
(***************************************************************************)
LEMMA ListTyped ==
  ASSUME SharedTypes, NEW n \in Node
  PROVE  Neighborhood(n) \in [Node -> Weights]
  <1>1. \A m \in Node : {m, n} \in Edge
    BY DEF Edge
  <1>2. \A m \in Node : weight[{m, n}] \in Weights
    BY <1>1 DEF SharedTypes
  <1>3. NoEdge \in Weights
    BY DEF Weights
  <1> QED BY <1>2, <1>3 DEF Neighborhood

(***************************************************************************)
(* The loop of a handler starts with every neighbour ahead of it.          *)
(***************************************************************************)
LEMMA BeginView ==
  ASSUME NEW op \in {"poll", "login", "logout"}, NEW c \in Client, NEW n \in Node, Begin(op, c, n)
  PROVE  /\ net' \in Handler /\ HandlerTypes'
         /\ net'.op = op /\ net'.n = n /\ net'.at # Freed
         /\ net'.seen = {} /\ net'.list = [m \in Node |-> NoEdge]
         /\ Ends(n) \subseteq Ahead' /\ net'.rest \subseteq Ends(n)
  <1>1. PICK at \in IF Ends(n) = {} THEN {NoNode} ELSE Ends(n) :
          net' = [op |-> op, c |-> c, n |-> n, at |-> at, rest |-> Ends(n) \ {at}, seen |-> {},
                  list |-> [m \in Node |-> NoEdge]]
    BY DEF Begin
  <1>2. Ends(n) \subseteq Node
    BY DEF Ends
  <1>3. at \in Node \cup {NoNode} /\ at # Freed /\ (at = NoNode => Ends(n) = {})
    BY <1>2, ThreadsAssumption
  <1>4. [m \in Node |-> NoEdge] \in [Node -> Weights]
    BY DEF Weights
  <1>5. /\ net'.op = op /\ net'.c = c /\ net'.n = n /\ net'.at = at /\ net'.rest = Ends(n) \ {at}
        /\ net'.seen = {} /\ net'.list = [m \in Node |-> NoEdge]
    BY <1>1
  <1>6. net' \in Handler
    BY <1>1, <1>2, <1>3, <1>4 DEF Handler
  <1>7. HandlerTypes'
    BY <1>3, <1>4, <1>5, <1>6 DEF HandlerTypes
  <1> QED BY <1>3, <1>5, <1>6, <1>7 DEF Ahead

(***************************************************************************)
(* A move of its cursor leaves no neighbour out that was ahead of it, but  *)
(* for those a command removed.                                            *)
(***************************************************************************)
LEMMA AdvanceView ==
  ASSUME net \in Handler, net.op # "idle", net.n \in Node, net.at \in Node,
         NEW list \in [Node -> Weights], Advance(list)
  PROVE  /\ HandlerTypes'
         /\ net'.op = net.op /\ net'.n = net.n /\ net'.at # Freed
         /\ net'.seen = net.seen \cup {net.at} /\ net'.list = list
         /\ net.rest \cap Ends(net.n) \subseteq net'.seen \cup Ahead'
         /\ net'.rest \subseteq Ends(net.n)
  <1> DEFINE seen == net.seen \cup {net.at}
             rest == (net.rest \cap Ends(net.n)) \ seen
  <1>1. Ends(net.n) \subseteq Node
    BY DEF Ends
  <1>2. net.rest \subseteq Node /\ seen \subseteq Node /\ rest \subseteq Node
    BY DEF Handler
  <1>3. PICK m \in Node \cup {NoNode}, r \in SUBSET Node :
          /\ net' = [net EXCEPT !.at = m, !.rest = r, !.seen = seen, !.list = list]
          /\ r = rest \ {m} /\ (m = NoNode => r = {})
    <2>1. CASE \E m \in Ends(net.n) \ seen :
                 net' = [net EXCEPT !.at = m, !.rest = rest \ {m}, !.seen = seen, !.list = list]
      <3>1. PICK m \in Ends(net.n) \ seen :
              net' = [net EXCEPT !.at = m, !.rest = rest \ {m}, !.seen = seen, !.list = list]
        BY <2>1
      <3>2. m \in Node /\ m # NoNode /\ rest \ {m} \in SUBSET Node
        BY <1>1, <1>2, ThreadsAssumption
      <3> HIDE DEF seen, rest
      <3> QED BY <3>1, <3>2
    <2>2. CASE rest = {} /\ net' = [net EXCEPT !.at = NoNode, !.rest = {}, !.seen = seen, !.list = list]
      BY <2>2
    <2> QED BY <2>1, <2>2 DEF Advance
  <1> HIDE DEF seen, rest
  <1>4. /\ net' \in Handler
        /\ net'.op = net.op /\ net'.n = net.n /\ net'.at = m /\ net'.rest = r
        /\ net'.seen = seen /\ net'.list = list
    BY <1>2, <1>3 DEF Handler
  <1>5. HandlerTypes'
    BY <1>3, <1>4 DEF HandlerTypes
  <1>6. m # Freed
    BY ThreadsAssumption
  <1> QED BY <1>3, <1>4, <1>5, <1>6 DEF Ahead, seen, rest

(***************************************************************************)
(* A write on a link changes what its two ends should be told, and nothing *)
(* else.                                                                   *)
(***************************************************************************)
LEMMA WeightView ==
  ASSUME SharedTypes, NEW a \in Node, NEW b \in Node, NEW w,
         weight' = [weight EXCEPT ![{a, b}] = w], UNCHANGED connected
  PROVE  /\ \A m, n \in Node : {m, n} # {a, b} => (Adjacent(m, n)' <=> Adjacent(m, n))
         /\ \A x \in Node \ {a, b} : Neighborhood(x)' = Neighborhood(x)
  <1>1. \A m, n \in Node : {m, n} # {a, b} => weight'[{m, n}] = weight[{m, n}]
    <2> TAKE m \in Node, n \in Node
    <2>1. {m, n} \in Edge
      BY DEF Edge
    <2> QED BY <2>1 DEF SharedTypes
  <1>2. \A x \in Node \ {a, b}, m \in Node : {m, x} # {a, b}
    OBVIOUS
  <1>3. \A x \in Node \ {a, b} : Neighborhood(x)' = Neighborhood(x)
    BY <1>1, <1>2 DEF Neighborhood
  <1>4. \A m, n \in Node : {m, n} # {a, b} => (Adjacent(m, n)' <=> Adjacent(m, n))
    BY <1>1 DEF Adjacent
  <1> QED BY <1>3, <1>4

(***************************************************************************)
(* Whether a router is connected matters to the neighbours of its node.    *)
(***************************************************************************)
LEMMA ConnectedView ==
  ASSUME SharedTypes, NEW k \in Node, NEW v,
         connected' = [connected EXCEPT ![k] = v], UNCHANGED weight
  PROVE  \A x \in Node \ Ends(k) : Neighborhood(x)' = Neighborhood(x)
  <1> TAKE x \in Node \ Ends(k)
  <1>1. weight[{k, x}] = NoEdge
    BY DEF Ends, Adjacent
  <1>2. \A m \in Node \ {k} : connected'[m] = connected[m]
    BY DEF SharedTypes
  <1>3. \A m \in Node : (IF connected'[m] THEN weight[{m, x}] ELSE NoEdge)
                      = (IF connected[m] THEN weight[{m, x}] ELSE NoEdge)
    BY <1>1, <1>2
  <1> QED BY <1>3 DEF Neighborhood

------------------------------------------------------------------------------

(***************************************************************************)
(* No list was sent at the start.                                          *)
(***************************************************************************)
LEMMA FreshInit == ThreadsInit => FreshInv
  <1> SUFFICES ASSUME ThreadsInit PROVE FreshInv
    OBVIOUS
  <1>1. /\ connected = [n \in Node |-> FALSE] /\ upToDate = [n \in Node |-> FALSE]
        /\ clientId = [c \in Client |-> Absent] /\ sent = [n \in Node |-> NoList]
        /\ net = Idle /\ prompt = <<>> /\ raced = {}
    BY DEF ThreadsInit, Init
  <1>2. weight \in [Edge -> Weight \cup {NoEdge}] /\ nodes \subseteq Node
    BY ControllerAssumption DEF ThreadsInit, Init, NoTopology
  <1>3. SharedTypes
    <2>1. weight \in [Edge -> Weights]
      BY <1>2 DEF Weights
    <2>2. prompt \in Seq(Write)
      BY <1>1
    <2> QED BY <1>1, <1>2, <2>1, <2>2 DEF SharedTypes
  <1>4. HandlerTypes
    BY <1>1 DEF HandlerTypes, Handler, Idle
  <1>5. Told /\ LabelsAreMarked
    BY <1>1 DEF Told, LabelsAreMarked, ToBeTold
  <1>6. Marking /\ Polling
    BY <1>1 DEF Marking, Polling, Idle
  <1> QED BY <1>3, <1>4, <1>5, <1>6 DEF FreshInv

(***************************************************************************)
(* A step that changes names at most.                                      *)
(***************************************************************************)
LEMMA SameFresh ==
  ASSUME FreshInv, UNCHANGED <<weight, connected, upToDate, nodes, sent, prompt, raced, net>>,
         clientId' \in [Client -> Node \cup {Absent, Garbage}]
  PROVE  FreshInv'
  <1>1. SharedTypes' /\ HandlerTypes'
    BY DEF FreshInv, SharedTypes, HandlerTypes
  <1>2. Ahead' = Ahead
    BY DEF Ahead
  <1>3. Told' /\ LabelsAreMarked' /\ Marking' /\ Polling'
    BY <1>2, SameView DEF FreshInv, Told, LabelsAreMarked, Marking, Polling
  <1> QED BY <1>1, <1>3 DEF FreshInv

(***************************************************************************)
(* A crash, which changes nothing else.                                    *)
(***************************************************************************)
LEMMA CrashFresh ==
  ASSUME FreshInv, Crash, UNCHANGED <<prompt, raced, net>>
  PROVE  FreshInv'
  BY SameFresh DEF Crash, graph, flags, lists, FreshInv, SharedTypes

(***************************************************************************)
(* A refused login.                                                        *)
(***************************************************************************)
LEMMA EndAtOnceFresh ==
  ASSUME FreshInv, NEW c \in Client, EndAtOnce(c)
  PROVE  FreshInv'
  <1>1. UNCHANGED <<prompt, raced, net>>
    BY DEF EndAtOnce, threads
  <1>2. CASE Crash
    BY <1>1, <1>2, CrashFresh
  <1>3. CASE clientId' = [clientId EXCEPT ![c] = Garbage] /\ UNCHANGED <<graph, flags, sent>>
    <2>1. clientId' \in [Client -> Node \cup {Absent, Garbage}]
      BY <1>3 DEF FreshInv, SharedTypes
    <2> QED BY <1>1, <1>3, <2>1, SameFresh DEF graph, flags
  <1> QED BY <1>2, <1>3 DEF EndAtOnce, LoginRefused

(***************************************************************************)
(* The beginning of a login: its neighbours are all to be marked.          *)
(***************************************************************************)
LEMMA BeginLoginFresh ==
  ASSUME FreshInv, NEW c \in Client, NEW want, BeginLogin(c, want)
  PROVE  FreshInv'
  <1>1. PICK n \in Free : Begin("login", c, n)
    BY DEF BeginLogin
  <1>2. n \in Node
    BY DEF Free, FreshInv, SharedTypes
  <1>3. /\ net = Idle
        /\ UNCHANGED <<weight, connected, upToDate, nodes, sent, prompt, raced, clientId>>
    BY DEF BeginLogin, Serving, graph, flags, lists
  <1>4. /\ HandlerTypes' /\ net'.op = "login" /\ net'.n = n /\ net'.seen = {}
        /\ Ends(n) \subseteq Ahead' /\ net'.rest \subseteq Ends(n)
    BY <1>1, <1>2, BeginView
  <1>5. SharedTypes'
    BY <1>3 DEF FreshInv, SharedTypes
  <1>6. Told' /\ LabelsAreMarked'
    BY <1>3, SameView, IdleFields DEF FreshInv, Told, LabelsAreMarked
  <1>7. Marking' /\ Polling'
    BY <1>3, <1>4, SameView DEF Marking, Polling
  <1> QED BY <1>4, <1>5, <1>6, <1>7 DEF FreshInv

(***************************************************************************)
(* The beginning of a poll: its node is not up to date, so that nothing is *)
(* claimed of it any more; when a command is under way it has raced.       *)
(***************************************************************************)
LEMMA BeginPollFresh ==
  ASSUME FreshInv, NEW c \in Client, BeginPoll(c)
  PROVE  FreshInv'
  <1> DEFINE n == clientId[c]
  <1>1. /\ net = Idle /\ n \in Node /\ ~upToDate[n] /\ Begin("poll", c, n)
        /\ UNCHANGED <<weight, connected, upToDate, nodes, sent, prompt, clientId>>
        /\ raced' = IF prompt = <<>> THEN raced \ {n} ELSE raced \cup {n}
    BY DEF BeginPoll, Serving, vars, graph, flags, lists, FreshInv, SharedTypes
  <1> HIDE DEF n
  <1>2. /\ HandlerTypes' /\ net'.op = "poll" /\ net'.n = n /\ net'.seen = {} /\ net'.at # Freed
        /\ Ends(n) \subseteq Ahead' /\ net'.list = [m \in Node |-> NoEdge]
    BY <1>1, BeginView
  <1>3. SharedTypes'
    BY <1>1 DEF FreshInv, SharedTypes
  <1>4. \A x \in Node \ raced' : x \in Node \ raced \/ ~upToDate[x]
    BY <1>1
  <1>5. Told' /\ LabelsAreMarked'
    <2>1. \A x \in Node \ raced : Right(x) \/ ToBeTold(x)
      BY <1>1, IdleFields DEF FreshInv, Told
    <2>2. \A x \in Node : ~upToDate[x] => ToBeTold(x)
      BY DEF ToBeTold
    <2>3. \A x \in Node \ raced' : Right(x) \/ ToBeTold(x)
      BY <1>4, <2>1, <2>2
    <2>4. \A x \in Node \ raced' : Labels(prompt, x) => ToBeTold(x)
      BY <1>4, <2>2 DEF FreshInv, LabelsAreMarked
    <2> QED BY <1>1, <2>3, <2>4, SameView DEF Told, LabelsAreMarked
  <1>6. Polling'
    <2> SUFFICES ASSUME n \notin raced' PROVE Polling'
      BY <1>2 DEF Polling
    <2>1. prompt = <<>> /\ ~Labels(prompt, n)
      BY <1>1 DEF Labels
    <2> QED BY <1>1, <1>2, <2>1, SameView DEF Polling
  <1>7. Marking'
    BY <1>2 DEF Marking
  <1> QED BY <1>2, <1>3, <1>5, <1>6, <1>7 DEF FreshInv

(***************************************************************************)
(* The beginning of a logout: the lists of its neighbours are wrong from   *)
(* now on, and its loop has still to mark them.                            *)
(***************************************************************************)
LEMMA BeginLogoutFresh ==
  ASSUME FreshInv, NEW c \in Client, BeginLogout(c)
  PROVE  FreshInv'
  <1> DEFINE n == clientId[c]
  <1>1. /\ net = Idle /\ n \in Node /\ Begin("logout", c, n)
        /\ connected' = [connected EXCEPT ![n] = FALSE]
        /\ UNCHANGED <<weight, upToDate, nodes, sent, prompt, raced, clientId>>
    BY DEF BeginLogout, Serving, graph, lists
  <1> HIDE DEF n
  <1>2. /\ HandlerTypes' /\ net'.op = "logout" /\ net'.n = n /\ net'.seen = {}
        /\ Ends(n) \subseteq Ahead' /\ net'.rest \subseteq Ends(n)
    BY <1>1, BeginView
  <1>3. SharedTypes'
    BY <1>1 DEF FreshInv, SharedTypes
  <1>4. \A x \in Node \ Ends(n) : Right(x)' <=> Right(x)
    BY <1>1, ConnectedView DEF FreshInv, Right
  <1>5. \A x : (ToBeTold(x)' <=> ToBeTold(x)) /\ Ends(x)' = Ends(x)
    BY <1>1 DEF ToBeTold, Ends, Adjacent
  <1>6. Told'
    BY <1>1, <1>2, <1>4, <1>5, IdleFields DEF FreshInv, Told
  <1>7. LabelsAreMarked' /\ Marking' /\ Polling'
    BY <1>1, <1>2, <1>5 DEF FreshInv, LabelsAreMarked, Marking, Polling
  <1> QED BY <1>2, <1>3, <1>6, <1>7 DEF FreshInv

(***************************************************************************)
(* An iteration of a loop: one more right entry of the list, or one more   *)
(* neighbour marked.                                                       *)
(***************************************************************************)
LEMMA IterateFresh ==
  ASSUME FreshInv, Iterate
  PROVE  FreshInv'
  <1>1. /\ SharedTypes /\ HandlerTypes /\ net.at \in Node /\ net.at # NoNode
        /\ UNCHANGED <<weight, connected, nodes, sent, prompt, raced, clientId>>
    BY ThreadsAssumption DEF Iterate, graph, lists, FreshInv
  <1>2. net \in Handler /\ net.op # "idle" /\ net.n \in Node /\ net.list \in [Node -> Weights]
    BY <1>1 DEF HandlerTypes, Idle
  <1>3. \A x : Ends(x)' = Ends(x) /\ Neighborhood(x)' = Neighborhood(x)
    BY <1>1 DEF Ends, Adjacent, Neighborhood
  <1>4. CASE net.op = "poll"
    <2> DEFINE list == [net.list EXCEPT ![net.at] = Neighborhood(net.n)[net.at]]
    <2>1. UNCHANGED upToDate /\ Advance(list)
      BY <1>4 DEF Iterate
    <2>2. list \in [Node -> Weights]
      <3>1. Neighborhood(net.n)[net.at] \in Weights
        BY <1>1, <1>2, ListTyped
      <3> QED BY <1>2, <3>1
    <2>3. \A m \in Node : list[m] = IF m = net.at THEN Neighborhood(net.n)[m] ELSE net.list[m]
      BY <1>2
    <2> HIDE DEF list
    <2>4. /\ HandlerTypes' /\ net'.op = "poll" /\ net'.n = net.n /\ net'.at # Freed
          /\ net'.seen = net.seen \cup {net.at} /\ net'.list = list
          /\ net.rest \cap Ends(net.n) \subseteq net'.seen \cup Ahead'
      BY <1>1, <1>2, <1>4, <2>1, <2>2, AdvanceView
    <2>5. SharedTypes'
      BY <1>1, <2>1 DEF SharedTypes
    <2>6. \A x : (Right(x)' <=> Right(x)) /\ (ToBeTold(x)' <=> ToBeTold(x))
      BY <1>1, <2>1, SameView
    <2>7. Told' /\ LabelsAreMarked' /\ Marking'
      BY <1>1, <1>4, <2>4, <2>6 DEF FreshInv, Told, LabelsAreMarked, Marking
    <2>8. Polling'
      <3> SUFFICES ASSUME net.n \notin raced PROVE Polling'
        BY <1>1, <2>4 DEF Polling
      <3>1. /\ Labels(prompt, net.n) => Marks(prompt, net.n)
            /\ Ends(net.n) \subseteq net.seen \cup Ahead
            /\ net.list = [m \in Node |-> IF m \in net.seen THEN Neighborhood(net.n)[m] ELSE NoEdge]
        BY <1>4 DEF FreshInv, Polling
      <3>2. Ends(net.n) \subseteq net'.seen \cup Ahead'
        BY <2>4, <3>1 DEF Ahead
      <3>3. \A m \in Node : list[m] = IF m \in net'.seen THEN Neighborhood(net.n)[m] ELSE NoEdge
        BY <2>3, <2>4, <3>1
      <3>4. list = [m \in Node |-> IF m \in net'.seen THEN Neighborhood(net.n)[m] ELSE NoEdge]
        BY <2>2, <3>3
      <3> QED BY <1>1, <1>3, <2>4, <3>1, <3>2, <3>4 DEF Polling
    <2> QED BY <2>4, <2>5, <2>7, <2>8 DEF FreshInv
  <1>5. CASE net.op # "poll"
    <2>1. upToDate' = Marked({net.at}) /\ Advance(net.list)
      BY <1>5 DEF Iterate
    <2>2. /\ HandlerTypes' /\ net'.op = net.op /\ net'.n = net.n
          /\ net'.seen = net.seen \cup {net.at}
          /\ net.rest \cap Ends(net.n) \subseteq net'.seen \cup Ahead'
          /\ net'.rest \subseteq Ends(net.n)
      BY <1>1, <1>2, <2>1, AdvanceView
    <2>3. net.op \in {"login", "logout"}
      BY <1>2, <1>5 DEF Handler
    <2>4. SharedTypes'
      BY <1>1, <2>1 DEF SharedTypes, Marked
    <2>5. \A x \in Node : ~upToDate[x] \/ x = net.at => ~upToDate'[x]
      BY <2>1 DEF Marked
    <2>6. \A x \in Node : (Right(x) => Right(x)') /\ (ToBeTold(x) => ToBeTold(x)')
      BY <1>1, <1>3, <2>1 DEF Right, ToBeTold, Marked
    <2>7. \A x \in Node : ~upToDate'[x] => ToBeTold(x)'
      BY DEF ToBeTold
    <2>8. net.seen \subseteq Node /\ net.rest \subseteq Node
      BY <1>2 DEF Handler
    <2>9. \A x \in net'.seen : ~upToDate'[x]
      BY <1>1, <2>2, <2>3, <2>5, <2>8 DEF FreshInv, Marking
    <2>10. \A x \in Node : x \in Ahead => x \in Ahead' \/ ToBeTold(x)' \/ (x \in net.rest /\ x \notin Ends(net.n))
      BY <2>2, <2>5, <2>7, <2>9 DEF Ahead
    <2>11. \A x \in Node \ raced : x \in net.rest /\ x \notin Ends(net.n) => ToBeTold(x)'
      BY <2>3, <2>6 DEF FreshInv, Marking
    <2>12. Told'
      BY <1>1, <2>2, <2>6, <2>10, <2>11 DEF FreshInv, Told
    <2>13. LabelsAreMarked'
      BY <1>1, <2>6 DEF FreshInv, LabelsAreMarked
    <2>14. \A x \in Ends(net.n) \ raced : x \in Ahead' \/ ToBeTold(x)'
      BY <2>3, <2>6, <2>10 DEF FreshInv, Marking, Ends
    <2>15. Marking'
      BY <1>1, <1>3, <2>2, <2>9, <2>14 DEF Marking
    <2>16. Polling'
      BY <1>5, <2>2 DEF Polling
    <2> QED BY <2>2, <2>4, <2>12, <2>13, <2>15, <2>16 DEF FreshInv
  <1> QED BY <1>4, <1>5

(***************************************************************************)
(* The edge under the cursor was freed: the neighbours the loop does not   *)
(* reach have raced.                                                       *)
(***************************************************************************)
LEMMA IterateFreedFresh ==
  ASSUME FreshInv, IterateFreed
  PROVE  FreshInv'
  <1>1. CASE Crash /\ UNCHANGED <<net, raced, prompt>>
    BY <1>1, CrashFresh
  <1>2. CASE /\ net' = [net EXCEPT !.at = NoNode, !.rest = {}]
             /\ raced' = raced \cup net.rest
             /\ UNCHANGED <<vars, prompt>>
    <2>1. /\ net.at = Freed /\ Freed \notin Node /\ SharedTypes /\ HandlerTypes /\ net \in Handler
          /\ UNCHANGED <<weight, connected, upToDate, nodes, sent, prompt, clientId>>
      BY <1>2, ThreadsAssumption DEF IterateFreed, vars, graph, flags, lists, FreshInv, HandlerTypes
    <2>2. net.op # "idle" /\ net.n \in Node /\ net.rest \subseteq Node
      BY <2>1, ThreadsAssumption DEF HandlerTypes, Idle, Handler
    <2>3. /\ net' \in Handler /\ net'.op = net.op /\ net'.n = net.n /\ net'.at = NoNode
          /\ net'.rest = {} /\ net'.seen = net.seen /\ net'.list = net.list
      BY <1>2, <2>1 DEF Handler
    <2>4. HandlerTypes'
      BY <2>1, <2>2, <2>3 DEF HandlerTypes
    <2>5. SharedTypes'
      BY <1>2, <2>1, <2>2 DEF SharedTypes
    <2>6. \A x : /\ (Right(x)' <=> Right(x)) /\ (ToBeTold(x)' <=> ToBeTold(x))
                 /\ Ends(x)' = Ends(x)
      BY <2>1, SameView
    <2>7. \A x \in Node \ raced' : x \in Node \ raced /\ x \notin Ahead
      BY <1>2, <2>1 DEF Ahead
    <2>8. Told' /\ LabelsAreMarked'
      BY <2>1, <2>6, <2>7 DEF FreshInv, Told, LabelsAreMarked
    <2>9. Marking'
      BY <2>1, <2>3, <2>6, <2>7 DEF FreshInv, Marking, Ends
    <2>10. Polling'
      BY <1>2, <2>1, <2>3 DEF FreshInv, Polling
    <2> QED BY <2>4, <2>5, <2>8, <2>9, <2>10 DEF FreshInv
  <1> QED BY <1>1, <1>2 DEF IterateFreed

(***************************************************************************)
(* The end of a login: the lists of its neighbours are wrong only now, and *)
(* they are all marked.                                                    *)
(***************************************************************************)
LEMMA FinishLoginFresh ==
  ASSUME FreshInv, FinishLogin
  PROVE  FreshInv'
  <1>1. /\ net.op = "login" /\ net.at = NoNode /\ net' = Idle
        /\ connected' = [connected EXCEPT ![net.n] = TRUE]
        /\ upToDate' = Marked({net.n})
        /\ clientId' = [clientId EXCEPT ![net.c] = net.n]
        /\ UNCHANGED <<weight, nodes, sent, prompt, raced>>
    BY DEF FinishLogin, Finished, graph
  <1>2. net.n \in Node /\ net.rest = {} /\ SharedTypes
    BY <1>1 DEF FreshInv, HandlerTypes
  <1>3. SharedTypes'
    BY <1>1, <1>2 DEF SharedTypes, Marked
  <1>4. HandlerTypes' /\ Marking' /\ Polling'
    BY <1>1, IdleFields DEF HandlerTypes, Handler, Idle, Marking, Polling
  <1>5. \A x \in Node : ToBeTold(x) => ToBeTold(x)'
    BY <1>1 DEF ToBeTold, Marked
  <1>6. \A x \in Node \ Ends(net.n) : Right(x) => Right(x)'
    BY <1>1, <1>2, ConnectedView DEF Right, Marked
  <1>7. \A x \in Ends(net.n) \ raced : ToBeTold(x)
    BY <1>1, <1>2, ThreadsAssumption DEF FreshInv, Marking, Ahead, Ends
  <1>8. Told'
    BY <1>1, <1>5, <1>6, <1>7 DEF FreshInv, Told
  <1>9. LabelsAreMarked'
    BY <1>1, <1>5 DEF FreshInv, LabelsAreMarked
  <1> QED BY <1>3, <1>4, <1>8, <1>9 DEF FreshInv

(***************************************************************************)
(* The end of a poll: its list is complete, if no write came in between.   *)
(***************************************************************************)
LEMMA FinishPollFresh ==
  ASSUME FreshInv, FinishPoll
  PROVE  FreshInv'
  <1>0. PICK n \in Node : n = net.n
    BY DEF FreshInv, HandlerTypes, FinishPoll, Finished
  <1>1. /\ net.op = "poll" /\ net.at = NoNode /\ net' = Idle
        /\ upToDate' = [upToDate EXCEPT ![n] = TRUE]
        /\ sent' = [sent EXCEPT ![n] = net.list]
        /\ UNCHANGED <<weight, connected, nodes, prompt, raced, clientId>>
    BY <1>0 DEF FinishPoll, Finished, graph
  <1>2. net.rest = {} /\ net.list \in [Node -> Weights] /\ SharedTypes
    BY <1>1 DEF FreshInv, HandlerTypes
  <1>3. SharedTypes'
    BY <1>1, <1>2 DEF SharedTypes
  <1>4. HandlerTypes' /\ Marking' /\ Polling'
    BY <1>1, IdleFields DEF HandlerTypes, Handler, Idle, Marking, Polling
  <1>5. \A x \in Node \ {n} : (Right(x) => Right(x)') /\ (ToBeTold(x) => ToBeTold(x)')
    BY <1>1, <1>2 DEF Right, ToBeTold, Neighborhood, SharedTypes
  <1>6. ASSUME n \notin raced
        PROVE  Right(n)' /\ (Labels(prompt, n) => ToBeTold(n)')
    <2>1. /\ Labels(prompt, n) => Marks(prompt, n)
          /\ Ends(n) \subseteq net.seen \cup {NoNode}
          /\ net.list = [m \in Node |-> IF m \in net.seen THEN Neighborhood(n)[m] ELSE NoEdge]
      BY <1>0, <1>1, <1>2, <1>6 DEF FreshInv, Polling, Ahead
    <2>2. \A m \in Node : m \notin net.seen => weight[{m, n}] = NoEdge
      BY <2>1, ThreadsAssumption DEF Ends, Adjacent
    <2>3. \A m \in Node : m \notin net.seen => Neighborhood(n)[m] = NoEdge
      BY <2>2 DEF Neighborhood
    <2>4. Neighborhood(n) = net.list
      BY <1>2, <2>1, <2>3, ListTyped
    <2>5. Neighborhood(n)' = Neighborhood(n) /\ sent'[n] = net.list
      BY <1>1, <1>2 DEF Neighborhood, SharedTypes
    <2> QED BY <1>1, <2>1, <2>4, <2>5 DEF Right, ToBeTold
  <1>7. Told'
    BY <1>1, <1>5, <1>6 DEF FreshInv, Told
  <1>8. LabelsAreMarked'
    BY <1>1, <1>5, <1>6 DEF FreshInv, LabelsAreMarked
  <1> QED BY <1>3, <1>4, <1>7, <1>8 DEF FreshInv

(***************************************************************************)
(* The end of a logout: no neighbour is left to mark.                      *)
(***************************************************************************)
LEMMA FinishLogoutFresh ==
  ASSUME FreshInv, FinishLogout
  PROVE  FreshInv'
  <1>1. /\ net.op = "logout" /\ net.at = NoNode /\ net' = Idle
        /\ clientId' \in {clientId, [clientId EXCEPT ![net.c] = Absent]}
        /\ UNCHANGED <<weight, connected, upToDate, nodes, sent, prompt, raced>>
    BY DEF FinishLogout, Finished, Crash, graph, flags, lists
  <1>2. net.rest = {} /\ SharedTypes
    BY <1>1 DEF FreshInv, HandlerTypes
  <1>3. SharedTypes'
    BY <1>1, <1>2 DEF SharedTypes
  <1>4. HandlerTypes' /\ Marking' /\ Polling'
    BY <1>1, IdleFields DEF HandlerTypes, Handler, Idle, Marking, Polling
  <1>5. Told' /\ LabelsAreMarked'
    BY <1>1, <1>2, SameView, IdleFields, ThreadsAssumption
    DEF FreshInv, Told, LabelsAreMarked, Ahead
  <1> QED BY <1>3, <1>4, <1>5 DEF FreshInv

------------------------------------------------------------------------------

(***************************************************************************)
(* A command marks, sooner or later, both ends of every link it writes on. *)
(***************************************************************************)
Announced(writes) ==
  /\ writes \in Seq(Write)
  /\ \A x \in Node : Labels(writes, x) => Marks(writes, x)

(***************************************************************************)
(* The beginning of such a command.                                        *)
(***************************************************************************)
LEMMA CommandFresh ==
  ASSUME FreshInv, NEW writes, Announced(writes), Command(writes)
  PROVE  FreshInv'
  <1>1. /\ prompt = <<>> /\ prompt' = writes
        /\ UNCHANGED <<weight, connected, upToDate, nodes, sent, clientId, net, raced>>
    BY DEF Command, graph, flags, lists
  <1>2. \A x : ~Marks(prompt, x)
    BY <1>1 DEF Marks
  <1>3. SharedTypes' /\ HandlerTypes'
    BY <1>1 DEF FreshInv, SharedTypes, HandlerTypes, Announced
  <1>4. \A x : /\ (Right(x)' <=> Right(x)) /\ (ToBeTold(x) => ToBeTold(x)')
               /\ Ends(x)' = Ends(x) /\ Neighborhood(x)' = Neighborhood(x)
    BY <1>1, <1>2 DEF Right, ToBeTold, Ends, Adjacent, Neighborhood
  <1>5. \A x \in Node : Labels(prompt', x) => Marks(prompt', x)
    BY <1>1 DEF Announced
  <1>6. Ahead' = Ahead
    BY <1>1 DEF Ahead
  <1>7. Told' /\ LabelsAreMarked'
    BY <1>1, <1>4, <1>5, <1>6 DEF FreshInv, Told, LabelsAreMarked, ToBeTold
  <1>8. Marking'
    BY <1>1, <1>4, <1>6 DEF FreshInv, Marking
  <1>9. Polling'
    BY <1>1, <1>4, <1>5, <1>6 DEF FreshInv, Polling, HandlerTypes
  <1> QED BY <1>3, <1>7, <1>8, <1>9 DEF FreshInv

(***************************************************************************)
(* ADDLINK is one.                                                         *)
(***************************************************************************)
LEMMA AddLinkFresh ==
  ASSUME FreshInv, NEW m \in Node, NEW n \in Node, NEW w \in Weight, StartAddLink(m, n, w)
  PROVE  FreshInv'
  <1> DEFINE writes == <<Label(m, n, DefaultWeight), Label(m, n, w), Mark(m), Mark(n)>>
  <1>1. Command(writes)
    BY DEF StartAddLink
  <1>2. /\ Label(m, n, DefaultWeight) \in Write /\ Label(m, n, w) \in Write
        /\ Mark(m) \in Write /\ Mark(n) \in Write
    BY DEF Label, Mark, Write, Weights
  <1>3. writes \in Seq(Write)
    BY <1>2
  <1>4. /\ DOMAIN writes = 1..4 /\ writes[3] = Mark(m) /\ writes[4] = Mark(n)
        /\ writes[1] = Label(m, n, DefaultWeight) /\ writes[2] = Label(m, n, w)
    OBVIOUS
  <1> HIDE DEF writes
  <1>5. \A x \in Node : Labels(writes, x) => x \in {m, n}
    BY <1>4 DEF Labels, Label, Mark
  <1>6. Marks(writes, m) /\ Marks(writes, n)
    BY <1>4 DEF Marks, Mark
  <1> QED BY <1>1, <1>3, <1>5, <1>6, CommandFresh DEF Announced

(***************************************************************************)
(* So is UPDATELINK.                                                       *)
(***************************************************************************)
LEMMA UpdateLinkFresh ==
  ASSUME FreshInv, NEW m \in Node, NEW n \in Node, NEW w \in Weight, StartUpdateLink(m, n, w)
  PROVE  FreshInv'
  <1> DEFINE writes == <<Label(m, n, w), Mark(m), Mark(n), Mark(m), Mark(n)>>
  <1>1. Command(writes)
    BY DEF StartUpdateLink
  <1>2. Label(m, n, w) \in Write /\ Mark(m) \in Write /\ Mark(n) \in Write
    BY DEF Label, Mark, Write, Weights
  <1>3. writes \in Seq(Write)
    BY <1>2
  <1>4. /\ DOMAIN writes = 1..5 /\ writes[1] = Label(m, n, w)
        /\ writes[2] = Mark(m) /\ writes[3] = Mark(n) /\ writes[4] = Mark(m) /\ writes[5] = Mark(n)
    OBVIOUS
  <1> HIDE DEF writes
  <1>5. \A x \in Node : Labels(writes, x) => x \in {m, n}
    BY <1>4 DEF Labels, Label, Mark
  <1>6. Marks(writes, m) /\ Marks(writes, n)
    BY <1>4 DEF Marks, Mark
  <1> QED BY <1>1, <1>3, <1>5, <1>6, CommandFresh DEF Announced

(***************************************************************************)
(* So is DELLINK, which marks before it writes.                            *)
(***************************************************************************)
LEMMA DelLinkFresh ==
  ASSUME FreshInv, NEW m \in Node, NEW n \in Node, StartDelLink(m, n)
  PROVE  FreshInv'
  <1> DEFINE writes == <<Mark(m), Mark(n), Mark(m), Mark(n), Label(m, n, NoEdge)>>
  <1>1. Command(writes)
    BY DEF StartDelLink
  <1>2. Label(m, n, NoEdge) \in Write /\ Mark(m) \in Write /\ Mark(n) \in Write
    BY DEF Label, Mark, Write, Weights
  <1>3. writes \in Seq(Write)
    BY <1>2
  <1>4. /\ DOMAIN writes = 1..5 /\ writes[5] = Label(m, n, NoEdge)
        /\ writes[1] = Mark(m) /\ writes[2] = Mark(n) /\ writes[3] = Mark(m) /\ writes[4] = Mark(n)
    OBVIOUS
  <1> HIDE DEF writes
  <1>5. \A x \in Node : Labels(writes, x) => x \in {m, n}
    BY <1>4 DEF Labels, Label, Mark
  <1>6. Marks(writes, m) /\ Marks(writes, n)
    BY <1>4 DEF Marks, Mark
  <1> QED BY <1>1, <1>3, <1>5, <1>6, CommandFresh DEF Announced

(***************************************************************************)
(* So is DISCONNECT, whatever the order and the number of the links.       *)
(***************************************************************************)
LEMMA DisconnectFresh ==
  ASSUME FreshInv, NEW n \in Node, StartDisconnect(n)
  PROVE  FreshInv'
  <1> DEFINE count == Cardinality(Ends(n))
  <1>1. count \in Nat
    <2>1. Ends(n) \subseteq Node /\ IsFiniteSet(Node)
      BY ControllerAssumption DEF Ends
    <2> QED BY <2>1, FS_Subset, FS_CardinalityType
  <1>2. PICK ends \in [1..count -> Ends(n)] :
          Command([i \in 1..(2 * count + 1) |->
                     IF i = 1 THEN Mark(n)
                     ELSE IF i % 2 = 0 THEN Mark(ends[i \div 2])
                     ELSE Label(ends[i \div 2], n, NoEdge)])
    BY DEF StartDisconnect, Bijection, Injection
  <1> DEFINE size == 2 * count + 1
             writes == [i \in 1..size |->
                          IF i = 1 THEN Mark(n)
                          ELSE IF i % 2 = 0 THEN Mark(ends[i \div 2])
                          ELSE Label(ends[i \div 2], n, NoEdge)]
  <1>3. Command(writes)
    BY <1>2
  <1> HIDE DEF count
  <1>4. \A i \in 2..size : i \div 2 \in 1..count
    BY <1>1
  <1>5. \A i \in 2..size : i % 2 # 0 => /\ i - 1 \in 2..size /\ (i - 1) % 2 = 0
                                       /\ (i - 1) \div 2 = i \div 2
    BY <1>1
  <1>6. size \in Nat /\ 1 \in 1..size /\ \A i \in 1..size : i = 1 \/ i \in 2..size
    BY <1>1
  <1> HIDE DEF size
  <1>7. Ends(n) \subseteq Node
    BY DEF Ends
  <1>8. \A i \in 2..size : ends[i \div 2] \in Node
    BY <1>4, <1>7
  <1>9. \A i \in 1..size : writes[i] \in Write
    <2>1. \A x \in Node : Mark(x) \in Write /\ Label(x, n, NoEdge) \in Write
      BY DEF Label, Mark, Write, Weights
    <2> QED BY <1>6, <1>8, <2>1
  <1>10. /\ DOMAIN writes = 1..size /\ writes[1] = Mark(n)
         /\ \A i \in 2..size : writes[i] = IF i % 2 = 0 THEN Mark(ends[i \div 2])
                                           ELSE Label(ends[i \div 2], n, NoEdge)
    BY <1>6
  <1>11. writes \in Seq(Write)
    BY <1>6, <1>9
  <1> HIDE DEF writes
  <1>12. \A x \in Node : Labels(writes, x) => Marks(writes, x)
    <2> SUFFICES ASSUME NEW x \in Node, NEW i \in 1..size,
                        writes[i].do = "label", x \in {writes[i].m, writes[i].n}
                 PROVE  Marks(writes, x)
      BY <1>10 DEF Labels
    <2>1. i \in 2..size /\ i % 2 # 0 /\ x \in {ends[i \div 2], n}
      <3>1. \A y : Mark(y).do = "mark" /\ Label(y, n, NoEdge).do = "label"
                  /\ Label(y, n, NoEdge).m = y /\ Label(y, n, NoEdge).n = n
        BY DEF Label, Mark
      <3>2. i \in 2..size
        BY <1>6, <1>10, <3>1
      <3> DEFINE y == ends[i \div 2]
      <3>3. writes[i] = IF i % 2 = 0 THEN Mark(y) ELSE Label(y, n, NoEdge)
        BY <1>10, <3>2
      <3> HIDE DEF y
      <3>4. i % 2 # 0 /\ writes[i] = Label(y, n, NoEdge)
        BY <3>1, <3>3
      <3>5. x \in {y, n}
        BY <3>1, <3>4
      <3> QED BY <3>2, <3>4, <3>5 DEF y
    <2>2. CASE x = n
      BY <1>6, <1>10, <2>2 DEF Marks, Mark
    <2>3. CASE x = ends[i \div 2]
      <3>1. i - 1 \in 2..size /\ writes[i - 1] = Mark(x)
        BY <1>5, <1>10, <2>1, <2>3
      <3>2. i - 1 \in DOMAIN writes
        BY <1>10, <3>1
      <3> QED BY <3>1, <3>2 DEF Marks, Mark
    <2> QED BY <2>1, <2>2, <2>3
  <1> QED BY <1>3, <1>11, <1>12, CommandFresh DEF Announced

(***************************************************************************)
(* One write of a command, in the middle of any handler.                   *)
(***************************************************************************)
LEMMA PromptWriteFresh ==
  ASSUME FreshInv, PromptWrite
  PROVE  FreshInv'
  <1> DEFINE w == Head(prompt)
             freed == w.do = "label" /\ w.w = NoEdge /\ net.at \in Node /\ {net.n, net.at} = {w.m, w.n}
  <1>1. /\ SharedTypes /\ HandlerTypes /\ net \in Handler /\ prompt # <<>> /\ prompt \in Seq(Write)
        /\ prompt' = Tail(prompt)
        /\ raced' = IF net.op = "poll" THEN raced \cup {net.n} ELSE raced
        /\ UNCHANGED <<connected, nodes, sent, clientId>>
    BY DEF PromptWrite, lists, FreshInv, SharedTypes, HandlerTypes
  <1>2. /\ IF w.do = "mark"
           THEN upToDate' = Marked({w.n}) /\ UNCHANGED weight
           ELSE weight' = [weight EXCEPT ![{w.m, w.n}] = w.w] /\ UNCHANGED upToDate
        /\ net' = IF freed THEN [net EXCEPT !.at = Freed] ELSE net
    BY DEF PromptWrite
  <1>3. /\ w \in Write /\ Tail(prompt) \in Seq(Write)
        /\ \A x \in Node :
             /\ Marks(prompt, x) => (w.do = "mark" /\ w.n = x) \/ Marks(prompt', x)
             /\ Labels(prompt', x) => Labels(prompt, x)
             /\ w.do = "label" /\ x \in {w.m, w.n} => Labels(prompt, x)
    <2>1. prompt \in Seq(Write) /\ prompt # <<>> /\ prompt' = Tail(prompt)
      BY <1>1
    <2>2. PICK any \in Write : TRUE
      BY <2>1
    <2>3. Node # {}
      BY <2>2 DEF Write
    <2> QED BY <2>1, <2>3, TailOfWrites
  <1>4. w.do \in {"mark", "label"} /\ w.m \in Node /\ w.n \in Node /\ w.w \in Weights
    BY <1>3 DEF Write
  <1> HIDE DEF w
  <1>5. /\ net' \in Handler /\ net'.op = net.op /\ net'.n = net.n /\ net'.rest = net.rest
        /\ net'.seen = net.seen /\ net'.list = net.list
        /\ IF freed THEN net'.at = Freed ELSE net' = net
    <2>1. CASE freed
      <3>1. net' = [net EXCEPT !.at = Freed]
        BY <1>2, <2>1
      <3> QED BY <1>1, <2>1, <3>1 DEF Handler
    <2>2. CASE ~freed
      BY <1>1, <1>2, <2>2
    <2> QED BY <2>1, <2>2
  <1>6. raced \subseteq raced' /\ raced' \subseteq Node
    BY <1>1 DEF SharedTypes, HandlerTypes
  <1>7. SharedTypes'
    <2>1. upToDate' \in [Node -> BOOLEAN]
      BY <1>1, <1>2 DEF SharedTypes, Marked
    <2>2. weight' \in [Edge -> Weights]
      BY <1>1, <1>2, <1>4 DEF SharedTypes
    <2> QED BY <1>1, <1>3, <1>6, <2>1, <2>2 DEF SharedTypes
  <1>8. HandlerTypes'
    BY <1>1, <1>5, ThreadsAssumption, SMTT(30) DEF HandlerTypes, Idle
  <1>9. Polling'
    BY <1>1, <1>5 DEF Polling
  <1>10. \A x \in Node : ~upToDate[x] => ~upToDate'[x]
    BY <1>1, <1>2 DEF Marked
  <1>11. \A x \in Node : ToBeTold(x) => ToBeTold(x)'
    BY <1>1, <1>2, <1>3, <1>10 DEF ToBeTold, Marked
  <1>12. LabelsAreMarked'
    BY <1>1, <1>3, <1>6, <1>11 DEF FreshInv, LabelsAreMarked
  <1>13. \A x \in Node \ raced : w.do = "label" /\ x \in {w.m, w.n} => ToBeTold(x)'
    BY <1>3, <1>11 DEF FreshInv, LabelsAreMarked
  <1>14. /\ \A x, y \in Node : ~(w.do = "label" /\ {x, y} = {w.m, w.n}) => (Adjacent(x, y)' <=> Adjacent(x, y))
         /\ \A x \in Node : ~(w.do = "label" /\ x \in {w.m, w.n}) => Neighborhood(x)' = Neighborhood(x)
    <2>1. CASE w.do = "mark"
      BY <1>1, <1>2, <2>1 DEF Adjacent, Neighborhood
    <2>2. CASE w.do = "label"
      BY <1>1, <1>2, <1>4, <2>2, WeightView
    <2> QED BY <1>4, <2>1, <2>2
  <1>15. \A x \in Node : Right(x) => Right(x)' \/ (w.do = "label" /\ x \in {w.m, w.n})
    BY <1>1, <1>10, <1>14 DEF Right
  <1>16. \A x \in Node : x \in Ahead => x \in Ahead' \/ (freed /\ x = net.at)
    BY <1>5 DEF Ahead
  <1>17. freed => w.do = "label" /\ net.at \in {w.m, w.n}
    OBVIOUS
  <1>18. Told'
    <2> SUFFICES ASSUME NEW x \in Node \ raced'
                 PROVE  Right(x)' \/ ToBeTold(x)' \/ (net.op = "logout" /\ x \in Ahead')
      BY <1>5 DEF Told
    <2>1. x \in Node \ raced /\ (Right(x) \/ ToBeTold(x) \/ (net.op = "logout" /\ x \in Ahead))
      BY <1>6 DEF FreshInv, Told
    <2>2. w.do = "label" /\ x \in {w.m, w.n} => ToBeTold(x)'
      BY <1>13, <2>1
    <2> HIDE DEF freed
    <2> QED BY <1>11, <1>15, <1>16, <1>17, <2>1, <2>2
  <1>19. Marking'
    <2> SUFFICES ASSUME net.op \in {"login", "logout"} PROVE Marking'
      BY <1>5 DEF Marking
    <2>1. /\ \A x \in net.seen : ~upToDate[x]
          /\ \A x \in Ends(net.n) \ raced : x \in Ahead \/ ToBeTold(x)
          /\ \A x \in net.rest \ raced : x \in Ends(net.n) \/ ToBeTold(x)
          /\ net.seen \subseteq Node /\ net.rest \subseteq Node /\ net.n \in Node
      BY <1>1 DEF FreshInv, Marking, Handler, HandlerTypes
    <2>2. \A x \in net'.seen : ~upToDate'[x]
      BY <1>5, <1>10, <2>1
    <2>3. PICK n \in Node : n = net.n /\ n = net'.n
      BY <1>5, <2>1
    <2>4. \A x \in Node : {x, n} # {w.m, w.n} \/ w.do # "label" => (x \in Ends(n)' <=> x \in Ends(n))
      BY <1>14 DEF Ends
    <2>5. \A x \in Node \ raced : w.do = "label" /\ {x, n} = {w.m, w.n} => ToBeTold(x)'
      BY <1>13
    <2>6. \A x \in Node \ raced : x \in Ends(n)' => x \in Ahead' \/ ToBeTold(x)'
      <3> SUFFICES ASSUME NEW x \in Node \ raced, x \in Ends(n)',
                          ~(w.do = "label" /\ {x, n} = {w.m, w.n})
                   PROVE  x \in Ahead' \/ ToBeTold(x)'
        BY <2>5
      <3>1. x \in Ends(n)
        BY <2>4
      <3>2. x \in Ahead \/ ToBeTold(x)
        BY <2>1, <2>3, <3>1
      <3>3. ~(freed /\ x = net.at)
        BY <2>3
      <3> QED BY <1>11, <1>16, <3>2, <3>3
    <2>7. \A x \in net.rest \ raced : x \in Ends(n)' \/ ToBeTold(x)'
      <3> SUFFICES ASSUME NEW x \in net.rest \ raced, ~(w.do = "label" /\ {x, n} = {w.m, w.n})
                   PROVE  x \in Ends(n)' \/ ToBeTold(x)'
        BY <2>1, <2>5
      <3>1. x \in Node /\ (x \in Ends(n) \/ ToBeTold(x))
        BY <2>1, <2>3
      <3> QED BY <1>11, <2>4, <3>1
    <2>8. Ends(net.n)' = Ends(n)' /\ Ends(n)' \subseteq Node
      BY <2>3 DEF Ends
    <2> QED BY <1>5, <1>6, <2>2, <2>6, <2>7, <2>8 DEF Marking
  <1> QED BY <1>7, <1>8, <1>9, <1>12, <1>18, <1>19 DEF FreshInv

(***************************************************************************)
(* Every step of either thread.                                            *)
(***************************************************************************)
LEMMA FreshStep == FreshInv /\ [ThreadsNext]_allVars => FreshInv'
  <1> SUFFICES ASSUME FreshInv, [ThreadsNext]_allVars PROVE FreshInv'
    OBVIOUS
  <1>1. ASSUME NEW c \in Client,
               \/ \E want \in Node \cup {Garbage} : BeginLogin(c, want)
               \/ EndAtOnce(c) \/ BeginPoll(c) \/ BeginLogout(c)
        PROVE  FreshInv'
    BY <1>1, BeginLoginFresh, EndAtOnceFresh, BeginPollFresh, BeginLogoutFresh
  <1>2. CASE NetworkStep
    <2>1. CASE IterateNoInfo
      BY <2>1, CrashFresh DEF IterateNoInfo, threads
    <2> QED BY <1>2, <2>1, IterateFresh, IterateFreedFresh, FinishLoginFresh, FinishPollFresh,
               FinishLogoutFresh DEF NetworkStep
  <1>3. ASSUME NEW m \in Node, NEW n \in Node, NEW w \in Weight,
               StartAddLink(m, n, w) \/ StartUpdateLink(m, n, w)
        PROVE  FreshInv'
    BY <1>3, AddLinkFresh, UpdateLinkFresh
  <1>4. ASSUME NEW m \in Node, NEW n \in Node, StartDelLink(m, n) PROVE FreshInv'
    BY <1>4, DelLinkFresh
  <1>5. ASSUME NEW n \in nodes, StartDisconnect(n) PROVE FreshInv'
    <2>1. n \in Node
      BY DEF FreshInv, SharedTypes
    <2> QED BY <1>5, <2>1, DisconnectFresh
  <1>6. CASE PromptWrite
    BY <1>6, PromptWriteFresh
  <1>7. CASE UNCHANGED allVars
    BY <1>7, SameFresh DEF allVars, vars, threads, graph, flags, lists, FreshInv, SharedTypes
  <1> QED BY <1>1, <1>2, <1>3, <1>4, <1>5, <1>6, <1>7 DEF ThreadsNext

(***************************************************************************)
(* Whatever the two threads do in between each other, the state they share *)
(* keeps its shape: no flag is ever something else than a flag, no name    *)
(* something else than a node's, and the cursor of a loop is on a node, at *)
(* the end or on a freed edge (exec.c, the loops of LOG, POLL and LOGOUT). *)
(***************************************************************************)
THEOREM ThreadsAreTyped == ThreadsSpec => []ThreadsTypeOK
  <1>1. FreshInv => ThreadsTypeOK
    <2> SUFFICES ASSUME FreshInv PROVE ThreadsTypeOK
      OBVIOUS
    <2>1. Weights = Weight \cup {NoEdge, DefaultWeight}
      BY DEF Weights
    <2>2. SharedTypes /\ net \in Handler
      BY DEF FreshInv, HandlerTypes
    <2> QED BY <2>1, <2>2 DEF ThreadsTypeOK, SharedTypes, Handler
  <1> QED BY <1>1, FreshInit, FreshStep, PTL DEF ThreadsSpec

(***************************************************************************)
(* A node that is up to date was told its neighborhood as it is, unless    *)
(* its last poll overlapped a command or a freed edge kept a login or a    *)
(* logout from marking it; for every topology, every number of routers and *)
(* every history of commands (exec.c, POLL and its is_up_to_date against   *)
(* ADDLINK to DISCONNECT). The absence of a lock can do no more harm to    *)
(* the lists than that.                                                    *)
(***************************************************************************)
THEOREM StaleIsRaced == ThreadsSpec => []FreshUnlessRaced
  <1>1. FreshInv => FreshUnlessRaced
    <2> SUFFICES ASSUME FreshInv, Quiet, NEW n \in nodes \ raced, upToDate[n]
                 PROVE  sent[n] = Neighborhood(n)
      BY DEF FreshUnlessRaced
    <2>1. n \in Node \ raced
      BY DEF FreshInv, SharedTypes
    <2>2. net.op # "logout" /\ ~Marks(prompt, n)
      BY IdleFields DEF Quiet, Marks
    <2> QED BY <2>1, <2>2 DEF FreshInv, Told, Right, ToBeTold
  <1> QED BY <1>1, FreshInit, FreshStep, PTL DEF ThreadsSpec
==============================================================================
