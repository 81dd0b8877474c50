--------------------------- MODULE ControllerThreads ---------------------------
(***************************************************************************)
(* The two threads of the controller, without the lock they do not have:   *)
(* the network thread runs exec__sock_message for one message at a time,   *)
(* the prompt thread runs exec__prompt_message for one command at a time,  *)
(* and their steps on the graph interleave.                                *)
(*                                                                         *)
(* State and vocabulary are those of Controller.  A step is one iteration  *)
(* of a loop over edges in the network thread, one write in the prompt     *)
(* thread; a call of the graph library is taken as atomic.  The topology   *)
(* is the one of the command line (no LOAD), and routers do not hang.      *)
(***************************************************************************)
EXTENDS Controller, Sequences, SequencesExt

CONSTANTS
  NoNode,         \* no edge under the loop's cursor
  Freed,          \* the edge under the loop's cursor was deleted
  DefaultWeight   \* the weight read from an edge that has no label yet

ASSUME ThreadsAssumption ==
  /\ NoNode \notin Node /\ Freed \notin Node /\ NoNode # Freed
  /\ DefaultWeight \notin Weight

VARIABLES
  net,      \* the handler the network thread is in
  prompt,   \* the writes the prompt's command still has to make
  raced     \* ghost: nodes a command raced with: their last poll overlapped
            \* it, or the login or logout of a neighbour could not mark them

threads == <<net, prompt, raced>>
allVars == <<vars, threads>>

(***************************************************************************)
(* A handler works for client c on node n.  The loop's cursor is on the    *)
(* edge to the node "at"; "rest" are the other ends it must still reach,   *)
(* "seen" those it is past, "list" what POLL wrote so far.                 *)
(***************************************************************************)
Idle == [op |-> "idle", c |-> NoNode, n |-> NoNode, at |-> NoNode, rest |-> {}, seen |-> {}, list |-> NoList]

ThreadsInit ==
  /\ Init
  /\ net = Idle
  /\ prompt = <<>>
  /\ raced = {}

------------------------------------------------------------------------------
(***************************************************************************)
(* The network thread.                                                     *)
(***************************************************************************)

Ends(n) == {m \in Node : Adjacent(m, n)}

(***************************************************************************)
(* agfstedge(graph, n), when the handler enters its loop.                  *)
(***************************************************************************)
Begin(op, c, n) ==
  \E at \in IF Ends(n) = {} THEN {NoNode} ELSE Ends(n) :
    net' = [op |-> op, c |-> c, n |-> n, at |-> at, rest |-> Ends(n) \ {at}, seen |-> {},
            list |-> [m \in Node |-> NoEdge]]

Serving == status = "running" /\ loaded /\ net = Idle

BeginLogin(c, want) ==
  /\ Serving /\ clientId[c] = Absent
  /\ \E n \in Free :
       /\ IF want \in Free THEN n = want ELSE \A m \in Free : n <= m
       /\ T' = IF Table!HasKey(T, n) THEN T ELSE Table!HashAdd(T, n, c)
       /\ Begin("login", c, n)
  /\ UNCHANGED <<status, graph, flags, clientId, silent, loads, edits, lists, prompt, raced>>

(***************************************************************************)
(* The handlers that end before their loop, as in Controller: a login when *)
(* no node is free, the departure of a client without a name.              *)
(***************************************************************************)
EndAtOnce(c) ==
  /\ Serving
  /\ \/ clientId[c] = Absent /\ LoginRefused(c)
     \/ clientId[c] = Garbage /\ Crash
  /\ UNCHANGED threads

BeginPoll(c) ==
  /\ Serving /\ clientId[c] \in nodes /\ ~upToDate[clientId[c]]
  /\ Begin("poll", c, clientId[c])
  /\ raced' = IF prompt = <<>> THEN raced \ {clientId[c]} ELSE raced \cup {clientId[c]}
  /\ UNCHANGED <<vars, prompt>>

BeginLogout(c) ==
  /\ Serving /\ clientId[c] \in Node
  /\ connected' = [connected EXCEPT ![clientId[c]] = FALSE]
  /\ Begin("logout", c, clientId[c])
  /\ UNCHANGED <<status, graph, upToDate, T, clientId, silent, loads, edits, lists, prompt, raced>>

(***************************************************************************)
(* agnxtedge, from the edge to net.at: edges added behind the cursor are   *)
(* missed, those added before it are seen, those removed are skipped.      *)
(***************************************************************************)
Advance(list) ==
  LET seen == net.seen \cup {net.at}
      rest == (net.rest \cap Ends(net.n)) \ seen
  IN  \/ \E m \in Ends(net.n) \ seen :
           net' = [net EXCEPT !.at = m, !.rest = rest \ {m}, !.seen = seen, !.list = list]
      \/ /\ rest = {}
         /\ net' = [net EXCEPT !.at = NoNode, !.rest = {}, !.seen = seen, !.list = list]

(***************************************************************************)
(* One iteration over the edge under the cursor, which is still there.     *)
(* POLL lists the other end if it is connected, with the weight it reads   *)
(* and the address of the table; LOGIN and LOGOUT mark the other end.      *)
(***************************************************************************)
Iterate ==
  /\ status = "running" /\ net.at \in Node
  /\ IF net.op = "poll"
     THEN /\ connected[net.at] => Table!HasKey(T, net.at)
          /\ Advance([net.list EXCEPT ![net.at] = Neighborhood(net.n)[net.at]])
          /\ UNCHANGED upToDate
     ELSE /\ upToDate' = Marked({net.at})
          /\ Advance(net.list)
  /\ UNCHANGED <<status, graph, connected, T, clientId, silent, loads, edits, lists, prompt, raced>>

(***************************************************************************)
(* The address of a listed neighbour is not in the table: a NULL pointer   *)
(* is dereferenced.                                                        *)
(***************************************************************************)
IterateNoInfo ==
  /\ status = "running" /\ net.at \in Node
  /\ net.op = "poll" /\ connected[net.at] /\ ~Table!HasKey(T, net.at)
  /\ Crash
  /\ UNCHANGED threads

(***************************************************************************)
(* The prompt deleted the edge under the cursor, whose memory is freed:    *)
(* the handler dies, or reads what is left of it and ends its loop.        *)
(***************************************************************************)
IterateFreed ==
  /\ status = "running" /\ net.at = Freed
  /\ \/ Crash /\ UNCHANGED <<net, raced>>
     \/ /\ net' = [net EXCEPT !.at = NoNode, !.rest = {}]
        /\ raced' = raced \cup net.rest
        /\ UNCHANGED vars
  /\ UNCHANGED prompt

Finished(op) == status = "running" /\ net.op = op /\ net.at = NoNode /\ net' = Idle

(***************************************************************************)
(* Seeded fault: the client's id is copied after the handler's message was *)
(* freed.                                                                  *)
(***************************************************************************)
FinishLoginFreed ==
  /\ Finished("login")
  /\ connected' = [connected EXCEPT ![net.n] = TRUE]
  /\ upToDate' = Marked({net.n})
  /\ clientId' = [clientId EXCEPT ![net.c] = net'.n]
  /\ told' = [told EXCEPT ![net.c] = NoList]
  /\ UNCHANGED <<status, graph, T, silent, loads, edits, sent, prompt, raced>>

FinishLogin ==
  /\ Finished("login")
  /\ connected' = [connected EXCEPT ![net.n] = TRUE]
  /\ upToDate' = Marked({net.n})
  /\ clientId' = [clientId EXCEPT ![net.c] = net.n]
  /\ told' = [told EXCEPT ![net.c] = NoList]
  /\ UNCHANGED <<status, graph, T, silent, loads, edits, sent, prompt, raced>>

(***************************************************************************)
(* The flag is set at the end, over whatever the prompt wrote meanwhile.   *)
(***************************************************************************)
FinishPoll ==
  /\ Finished("poll")
  /\ upToDate' = [upToDate EXCEPT ![net.n] = TRUE]
  /\ sent' = [sent EXCEPT ![net.n] = net.list]
  /\ told' = [told EXCEPT ![net.c] = net.list]
  /\ UNCHANGED <<status, graph, connected, T, clientId, silent, loads, edits, prompt, raced>>

FinishLogout ==
  /\ Finished("logout")
  /\ IF Table!RemoveDivides(T)
     THEN /\ T' = Table!HashRemove(T, net.n)
          /\ clientId' = [clientId EXCEPT ![net.c] = Absent]
          /\ told' = [told EXCEPT ![net.c] = NoList]
          /\ UNCHANGED <<status, graph, flags, silent, loads, edits, sent>>
     ELSE Crash
  /\ UNCHANGED <<prompt, raced>>

------------------------------------------------------------------------------
(***************************************************************************)
(* The prompt thread.  A command is the sequence of its writes.            *)
(***************************************************************************)

Mark(n) == [do |-> "mark", m |-> n, n |-> n, w |-> NoEdge]
Label(m, n, w) == [do |-> "label", m |-> m, n |-> n, w |-> w]

Command(writes) ==
  /\ status = "running" /\ loaded
  /\ prompt = <<>> /\ edits < MaxEdits /\ edits' = edits + 1
  /\ prompt' = writes
  /\ UNCHANGED <<status, graph, flags, T, clientId, silent, loads, lists, net, raced>>

(***************************************************************************)
(* ADDLINK: the edge, its label, then the marks of its two nodes.          *)
(***************************************************************************)
StartAddLink(m, n, w) ==
  /\ {m, n} \subseteq nodes /\ ~Adjacent(m, n)
  /\ Command(<<Label(m, n, DefaultWeight), Label(m, n, w), Mark(m), Mark(n)>>)

(***************************************************************************)
(* Seeded fault: only one end of the link is marked.                       *)
(***************************************************************************)
StartUpdateLinkOneEnd(m, n, w) ==
  /\ Adjacent(m, n)
  /\ Command(<<Label(m, n, w), Mark(m)>>)

(***************************************************************************)
(* UPDATELINK: the label, and the marks of graph__setWeight and its own.   *)
(***************************************************************************)
StartUpdateLink(m, n, w) ==
  /\ Adjacent(m, n)
  /\ Command(<<Label(m, n, w), Mark(m), Mark(n), Mark(m), Mark(n)>>)

(***************************************************************************)
(* DELLINK: its own marks and those of graph__removeEdge, then the edge.   *)
(***************************************************************************)
StartDelLink(m, n) ==
  /\ Adjacent(m, n)
  /\ Command(<<Mark(m), Mark(n), Mark(m), Mark(n), Label(m, n, NoEdge)>>)

(***************************************************************************)
(* DISCONNECT: its mark, then for each edge, in the order the graph gives  *)
(* them, the mark of the other end and the edge.                           *)
(***************************************************************************)
StartDisconnect(n) ==
  LET count == Cardinality(Ends(n))
  IN  \E ends \in Bijection(1..count, Ends(n)) :
        Command([i \in 1..(2 * count + 1) |->
                   IF i = 1 THEN Mark(n)
                   ELSE IF i % 2 = 0 THEN Mark(ends[i \div 2])
                   ELSE Label(ends[i \div 2], n, NoEdge)])

(***************************************************************************)
(* One write; a poll in progress has then overlapped a command.            *)
(***************************************************************************)
PromptWrite ==
  /\ status = "running" /\ prompt # <<>>
  /\ LET w == Head(prompt)
         freed == w.do = "label" /\ w.w = NoEdge /\ net.at \in Node /\ {net.n, net.at} = {w.m, w.n}
     IN  /\ IF w.do = "mark"
            THEN upToDate' = Marked({w.n}) /\ UNCHANGED weight
            ELSE weight' = [weight EXCEPT ![{w.m, w.n}] = w.w] /\ UNCHANGED upToDate
         /\ net' = IF freed THEN [net EXCEPT !.at = Freed] ELSE net
  /\ prompt' = Tail(prompt)
  /\ raced' = IF net.op = "poll" THEN raced \cup {net.n} ELSE raced
  /\ UNCHANGED <<status, loaded, nodes, connected, T, clientId, silent, loads, edits, lists>>

------------------------------------------------------------------------------

NetworkStep ==
  \/ Iterate
  \/ IterateNoInfo
  \/ IterateFreed
  \/ FinishLogin
  \/ FinishPoll
  \/ FinishLogout

ThreadsNext ==
  \/ \E c \in Client :
       \/ \E want \in Node \cup {Garbage} : BeginLogin(c, want)
       \/ EndAtOnce(c)
       \/ BeginPoll(c)
       \/ BeginLogout(c)
  \/ NetworkStep
  \/ \E m, n \in Node, w \in Weight : StartAddLink(m, n, w) \/ StartUpdateLink(m, n, w)
  \/ \E m, n \in Node : StartDelLink(m, n)
  \/ \E n \in nodes : StartDisconnect(n)
  \/ PromptWrite

ThreadsSpec == ThreadsInit /\ [][ThreadsNext]_allVars

------------------------------------------------------------------------------

(***************************************************************************)
(* Shape of the state the threads share, and of their own.                 *)
(***************************************************************************)
ThreadsTypeOK ==
  /\ weight \in [Edge -> Weight \cup {NoEdge, DefaultWeight}]
  /\ connected \in [Node -> BOOLEAN] /\ upToDate \in [Node -> BOOLEAN]
  /\ clientId \in [Client -> Node \cup {Absent, Garbage}]
  /\ net.op \in {"idle", "poll", "login", "logout"}
  /\ net.at \in Node \cup {NoNode, Freed}
  /\ net.rest \subseteq Node /\ net.seen \subseteq Node \cup {NoNode}
  /\ raced \subseteq Node

Quiet == net = Idle /\ prompt = <<>>

(***************************************************************************)
(* What the unlocked code does guarantee: only a node whose last poll      *)
(* overlapped a command can have missed that command, or one that a login  *)
(* or logout did not reach because a command freed the edge it was on.     *)
(***************************************************************************)
FreshUnlessRaced ==
  Quiet => \A n \in nodes \ raced : upToDate[n] => sent[n] = Neighborhood(n)

(***************************************************************************)
(* Names survive the interleaving: between two handlers, a node is         *)
(* connected exactly while a router holds its name.                        *)
(***************************************************************************)
HeldBetweenHandlers == net = Idle => ConnectedIsHeld /\ UniqueIds
==============================================================================
