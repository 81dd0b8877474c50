# Formal models of re203-projet-reseau

The repository is a simulated network: a **controller** in C that holds a
topology and hands out names and lists of neighbours, **routers** in C++11 that
log in, connect to their neighbours, exchange distance vectors and forward
packets, and a C library that both use (sockets, messages, prompt). This
directory holds TLA+ models of it, the TLC configurations that check them, and
proofs that TLAPS checks.

    tlc -config <run>.cfg <module>.tla      # a run; PROJECT.json names the module
    tlapm <module>Proofs.tla                # proofs: HashTable, InfoTable, Controller,
                                            # Threads, Forwarding, Net, Router, and the
                                            # lemmas on loops that they share (Loop)

`PROJECT.json` lists the runs, the source lines behind every definition, the
hazards, the findings and the theorems. Definitions whose comment says *Seeded
fault* are not part of a model: each is a plausible error of the definition that
follows it, and the property named in `mutants` is violated when it is put in
its place.

## 1. Inventory

| part | state | operations | interacts with |
|---|---|---|---|
| controller, information table (`hashtable.c`, `info_table.c`) | buckets, chains, `key_count` | add, get, delete, resize | called by the handlers of login, poll and logout |
| controller, topology (`exec.c`, `graphlib.c`) | graph, `is_connected` and `is_up_to_date` per node | LOAD, ADDLINK, UPDATELINK, DELLINK, DISCONNECT, QUIT; LOGIN, POLL, LOGOUT | prompt thread and network thread share it without a lock |
| controller, events (`net_functions.c`, `main.c`) | id of each client | connection, message, disconnection | called by `network__update` |
| router, messages of users (`exec.cpp`, `sock_actions.cpp`, `prompt_actions.cpp`) | `seqnum`, `messageTimes`, `pingCount`, `isWaitingForRoute`, `routeDest`, `routeCount`, ping statistics | message, ping, route; PACKET, PING, PONG | messages to other routers; prompt thread and network thread share it |
| router, routing (`router.cpp`, `routetable.cpp`, `entry.cpp`) | route table: next hop, distance, client of each entry | NEIGHBORHOOD, LINK, VECTOR, periodic polls and vectors | controller; neighbours; three threads share it |
| common, network (`net.c`, `client.c`) | array of clients | connect, send, update, disconnect | both programs; clients are pointed to from outside |
| common, messages (`messages.c`) | none | write, escape, split, parse | every message |
| common, configuration, prompts, utilities; displays; `trex`; `example` | none worth a model | input and output | |

What makes each correct, and what is hard about it:

* **Information table.** It must behave as a map. Removal edits chains and
  shrinks the table first; resizing rehashes every pair. The names of the
  repository's own topologies share buckets.
* **Topology and names.** A name belongs to one router at a time and is free
  again when it leaves; a node marked up to date was sent its current list; a
  change reaches the router at one of its next polls. Every handler that changes
  a neighbourhood must clear the right flags, at both ends.
* **Two threads of the controller.** Prompt commands run in the middle of a
  handler's loop over edges: flags overwritten, edges freed under the loop.
* **Messages of users.** Tables differ between routers while vectors spread, so
  messages loop, expire and are lost: the TTL must bound them, what the source is
  told must be true, and answers to several commands must not be mixed up.
* **Routing.** A neighbour's vector gives a router its own routes back, so
  distances must be possible, free of loops and end up shortest; entries are
  erased while they are iterated; two routers may connect to each other at once;
  a router may stop and come back while lists and LINK messages are on their way.
* **Network.** Clients move down the array when one leaves, and pointers to them
  survive: each event must still come under the right name, and no closed socket
  may stay in the array. One event at a time, so the first read of a new
  connection and the order of the slots decide who is served.
* **Messages.** What is written must be read back in every field; several
  messages in one read must not become another message.

`hazards` in `PROJECT.json` lists each hazard at its line, with the properties
that cover it or why none does yet.

## 2. Plan

| # | module | what | state |
|---|---|---|---|
| 1 | `HashTable`, `InfoTable`, `InfoMap`, `LoopProofs`, `HashTableProofs`, `InfoTableProofs` | the table and the map it should implement | done |
| 2 | `Controller`, `ControllerProofs` | topology, names, polls; handlers are atomic | done |
| 3 | `ControllerThreads`, `ThreadsProofs` | the same handlers cut at their shared accesses, composed with the prompt thread | done |
| 4 | `Forwarding`, `ForwardingProofs` | packets, pings, pongs and the three commands | done |
| 5 | `Clients`, `Net`, `Sessions`, `NetProofs` | the array of clients, `network__update`, and the sessions they should implement | done |
| 6 | `RouteTable`, `Router`, `RouterProofs` | lists, LINK and VECTOR between routers over `Clients`, with the controller's edits, logins and departures | done |
| 7 | `Messages` | every message written, read back alone or with others | done |
| 8 | `RouterThreads` | the network's, the vector loop's and the prompt's threads on one route table, cut at their accesses: most of what it would show is read from freed memory (section 6) | not begun |

`PingStats`, planned before, was dropped: the figures of ping are a few sums and
comparisons over one command, which a unit test reaches.

What is left: `RouterThreads`, the theorems of `Messages`, which need induction
over the characters of a message, and the distances and next hops of networks
whose routers stop or whose links get longer, of which the code promises nothing
(section 5).

## 3. Modules

### HashTable, InfoTable, InfoMap

`HashTable` holds the pure operators of `hashtable.c`: a table is its number of
buckets `num`, its count and the chain of each bucket. `HashCode` stands for the
code of a key before the modulo; the instances give it the codes that
`hash_func` computes for names of the repository's topologies (`MCInfoTable`).
`Unlink` and `HashRemove` are what `hash_table_remove` does, including the
removal of the head with the second pair (`hashtable.c:248`) and the division by
the count (`hashtable.c:223`). The two loops of a resize are recursive functions,
a value for each round: `Gathered`, bucket by bucket, and `Refilled`, pair by
pair. `KeyRatio` is assumed greater than 1, as the code's 4 is: with 1 a table
that has just grown is full again, and its resizes would nest. `InfoTable` has the two operations of
`info_table.c` as actions; `InfoMap` is the map they should implement.

| run | property | shows |
|---|---|---|
| `InfoTable_shared` | `TypeOK`, `StoredIsCurrent`, `CountCoversElements`, `WellHoused`, `BoundedLoss` | three names in one bucket and one elsewhere: what is found is current, one removal loses one other name at most, and across resizes every pair stays in the bucket of its key |
| `InfoTable_lost` (violated) | `ImplementsMap` | removing the second pair of a chain loses the first |

Bounds: three names in a bucket reach every shape of chain that the code tells
apart (head, second, later), and two values tell a current answer from a stale
one. `KeyNum` and `KeyRatio` are the code's 128 and 4 in `InfoTable_lost` and
`Controller_steady`; in `InfoTable_shared` they are 2 and 2, with which a few
names also make the table grow. The other runs of the controller use 1 or 4
buckets, to keep the chains short in states. That the table is the map when no
two names share a bucket is what `TableMatchesClients` shows, over all the
events that change it.

### Controller

One action for each event of a router and each command of the prompt. The
variables are the graph (`loaded`, `nodes`, `weight`), its flags (`connected`,
`upToDate`), the information table `T`, the ids in `net->clients` (`clientId`)
and the process's `status`. `sent` and `told` are ghosts: the last list sent in
the name of a node and received by a router. `silent` is the environment's: a
router that hangs with its connection open. Undefined behaviour is a choice: a
refused login aborts or goes on (`LoginRefused`); a client accepted without a
topology gets any id left in the stack frame (`ConnectUnloaded`).

| run | property | shows |
|---|---|---|
| `Controller_steady` | `TableMatchesClients`, `EndsOnlyByCommand`, `ChangesAreTold` | one topology, as many routers as nodes, no shared bucket: addresses are right, nothing ends the process but QUIT and an ADDLINK of a name that is no node's, and changes reach routers that keep polling |
| `Controller_names` | `TypeOK`, `Freshness`, `HeldOnce`, `HolderIsTold` | more routers than nodes, topologies loaded over one another: an up-to-date flag means the list sent is the current one; until a LOAD a name has one holder and none leaks, and the holder of an up-to-date node is the one that was told |

Bounds: `MaxLoads` (2) and `MaxEdits` (1) cap the commands; two nodes of
`src/config` (`MCController`), so one edge and the flags at its two ends, and two
or three routers; in `Controller_steady` also a name that no node has, which a
link command may be given. A LOAD before and after a login, another topology that lacks
one of the nodes, and an edit before and after a poll, are all the orders the
properties tell apart. `HeldOnce` and `HolderIsTold` say nothing after a LOAD,
which forgets who holds what (section 5). What needs more nodes is proved
instead (section 4).

Fairness (`FairSpec`): each router's polls, because `Router::controllerLoop`
polls for as long as the router runs; nothing is assumed of logins or commands.

### ControllerThreads

Extends `Controller` with the program counters of the network thread (the
handler, the edge it is at) and of the prompt thread (the write it still has to
do). A handler begins, visits edges one by one (`Iterate`, `IterateNoInfo`,
`IterateFreed` when the edge was freed under it) and finishes; a command is the
sequence of its writes of flags and graph, in the code's order; DISCONNECT takes
the edges of a node in any order. `raced` is a
ghost: the nodes whose handler overlapped a command.

| run | property | shows |
|---|---|---|
| `ControllerThreads_crowd` | `ThreadsTypeOK`, `FreshUnlessRaced`, `HeldBetweenHandlers` | three routers for two names of one bucket, and a command that overlaps their handlers: only a node whose handler overlapped it can keep a stale list, and names stay balanced between handlers |

There is no liveness here: what is told in the end is stated in `Controller`, and
a node whose handler raced stays untold until its next change (section 5).

Bounds: two nodes (the race needs one edge and one flag); `MaxEdits` 1: one
command makes every overlap of a command with each step of a handler; no LOAD.

### Forwarding

Routers over connections that are open, with route tables that are given and may
change at any moment within `Table`. A message keeps the fields that the code
tests, and two ghosts: `hops`, the routers that forwarded it, and `given`, the TTL
it was sent with. `link` is the bytes of each connection as a sequence;
`Coalesced` loses a message that was read together with another one (the test
for `'*'` in `mess__multiline_parse` is an assignment). One action for each
branch of `Exec::sock_message` and `Exec::prompt_message` about messages:
`PacketArrives`, `PacketAnswered`, `PingArrives`, `PongArrives`, `Transits`,
`Expires`; `MessageCommand`, `PingCommand`, `RouteCommand`, and `SendPing`, one
ping of a command's loop. `Sends` ends the process where the code does: no
route (nobody catches `UnknownDest` in the network's thread), no client, or
`SIGPIPE` on a connection that was closed. Once a neighbour ended, `Targets` lets a
message go to any other one, since `remove_client` moves the array entries point
into.

| run | property | shows |
|---|---|---|
| `Forwarding_line` | `TypeOK`, `RouteFollowsPath`, `RoutersStayUp`, `RouteEnds` | two routers trace routes at once and any message may be lost: hops come in the order of the path, no process ends, and a route command reaches its destination unless a message was lost |
| `Forwarding_moving` | `HopsBounded`, `AnswersAreTrue` | tables that change, loop and miss destinations: no message is forwarded more often than the TTL it was sent with says, and reports are true of the message they are about |

Bounds: four routers in a line. `DefaultTTL` (8 in `router.cfg`) is 1 or 2,
`RouteProbes` (10 in the code) 3, `PingPackets` (3 in `router.cfg`) 1 or 2, so
that messages expire on that line and a route command goes past its destination;
`User`, `MaxOf` and `MaxChanges` cap the commands and the changes of tables. The
tables are those of the line once settled, those before the last vector came and
those that loop after a weight went up, mixed router by router.

Abstractions: a command is one step up to its first send, so the moment between
setting `pingCount` or `isWaitingForRoute` and setting it back for an unknown
destination is not seen; texts and times are left out; the QUIT of a router is
in `Router`. A next hop that is not in the table gets a default entry there
(`routetable.cpp:23`), whose client is null: `network__send` then dereferences it
and the process ends (`Ends`), so nobody sees the entry.

Fairness (`FairSpec`): a router that has something to read reads one of its
connections (`mainLoop` calls `network__update`, no order among the
connections), and the prompt's loop sends its next ping after its `sleep`.

### Clients, Net, Sessions

`Clients` is the array of `net.c`: slots of which the first `nb` are in use, and
what removals leave after them. A `Client *` is the number of its slot.
`RemoveClient` moves the later clients down (`memmove`), so that a pointer may
come to lead to another client, or to what is left after the last.

`Net` is one process's network against peers that dial, write and hang up when
they like. `Accept` and `FirstRead` or `FirstReadRefused` are the first half of
`network__update`, between which nothing else is served, since the read blocks;
`Serve` is the second half, for the ready client of the lowest index. The handler
of a message may do nothing, connect to a peer (`HandlerConnects`), disconnect
its own client, or disconnect a client by a pointer it was given at an earlier
event (`held`). A client whose id no handler sets keeps bytes of the stack, where
the client that was served last may have stood (`UnsetIds`). Clients are compared
by socket and id, so a disconnection may close a socket and leave it in the array
(`HandlerDisconnects`, `DeadSocks`): the network stays open, and the next `select`
ends the process (`SelectFails`). `Sessions` is what `net.h` promises with its
three callbacks: one session for each peer, whose events come under the id its
client was given, each message heard once, all of them before the end.

| run | property | shows |
|---|---|---|
| `Net_serve` | `TypeOK`, `SlotsAreConnections`, `OnlyLeftoversHarm`, `ImplementsSessions` | no open connection is missing from the array or in it twice; only a disconnection by a pointer beyond the used slots leaves a closed socket in it; the events are those of `Sessions` |

Bounds: three peers, so that a removal moves one client and leaves another in
place; `MaxConnects` 4, so that a socket is reused while a pointer leads to what
is left of its last client (with 3 no closed socket stays in the array);
`MaxPending` 1. All four are proved for every bound (section 4).

Nothing is claimed of who is served in the end: a peer that says nothing blocks
its first read, and whoever has not the lowest slot may starve.

### RouteTable, Router

`RouteTable` holds the functions of `routetable.cpp` and `entry.cpp`, and what
the messages do to a table: `LearnedFrom` and `Merged` (`parseVector`), `Opened`,
`Confirmed`, `Unlisted`, `Unreached` (`parseNeighborhood`), `Linked` (the LINK
handler). Distances are ints of width `2 * Half`, since a neighbour that linked
first has `INT_MIN` until a list names it.

`Router` is every router of the network, with the array of `Clients` that its
entries point into and the connections between them: sockets, those not accepted
yet, and what was written and not read (`net`). The controller is what
`Controller` shows it to be: a poll is answered with the current list whenever it
may have changed (`Poll`), and takes the router for told; the answers wait in
`list` until they are read one by one (`ReadList`), or several at once, or one
with a "neighborhood ok", and lost (`ListsLost`). `Accept`, `Receive`,
`PeerClosed` and `SendVector` are the other handlers; `Coalesced` and
`AcceptLost` read several messages of a router at once, which the parser does not
recognise (`Messages`); `Login`, `Quit` and `Ends` are the process. The process
ends where the code dereferences a null client, writes to a connection that was
closed, keeps a closed socket in its array, takes the end of a connection for the
controller's, or parses half a pair. The loops of `parseNeighborhood` that open
and close connections are recursive functions of the name they have come to
(`Opening`, `Closing`). Sockets may run out: then `network__connect` gives NULL,
which ends the process, and nothing is accepted. `RouterAssumption` asks of the
constants what makes an instance well formed: finitely many routers, numbered in
the order of their names, topologies without a link from a router to itself, and
sockets enough for the connections that a run starts with.

Undefined behaviour is a choice. The id of a client that a LINK does not set is
bytes of the stack of `network__update` (`UnsetIds`): no name, the controller's,
or that of the router that was served last (`served`); `borrowed` are the sockets
of such clients, and `misread` says that a vector was read from one. The vector
that `routerLoop` writes from freed memory is the vector or a text that is not
recognised (`Unreadable`). The links of an erased element of the map can be read
or not (`EraseMayEnd`).

| run | property | shows |
|---|---|---|
| `Router_settle` | `NeverTooShort`, `NoLoops`, `StableIsShortest`, `NeighborCost` | a line whose first link gets cheaper and a triangle of equal links, vectors without bound, one loss: no distance is shorter than a path, next hops never go round, and the only tables that no vector changes are those of the shortest paths |
| `Router_restart` | `RouterTypeOK`, `RightNames`, `PointersLead`, `NeighborCost` | a line, or its first link alone, of which a router stops and starts again, with a link that gets cheaper or is removed: an id that was given never names another router, pointers lead to their neighbour until a client leaves the array, and a neighbour's distance is the list's |
| `Router_listed` (violated) | `ListedAreConnected` | a neighbour that was learnt from a vector before the list names it is never connected to |

Bounds: three routers, the least with a router between two others and with two
ways to one; in `Router_restart` one of them may be alone, so that lists are empty;
`MaxUnread` 1 keeps one vector unanswered each way, as the code's interval of
vectors does in practice (two that are read together, of which the first is empty,
are left to the proofs); `MaxLists` 2 lets a list wait for the next; one edit, one
departure, one login and one loss between them make every pair of these overlap.
In `Router_settle` vectors are not bounded. The properties of `Router_restart` are
proved without any of these bounds but the number of routers in `NeighborCost`
(section 4).

`NeverTooShort` states the shortest path without computing it: whatever is 0 at
the destination and rises along no link by more than its weight (`Estimates`) is
nowhere above the length of a path, and the highest such estimate is the length
of the shortest one. Estimates go to one more than the distance, so a distance
to a router that no path leads to is refused too. `NoLoops` says that next hops
lead out of every set of routers without the destination: a round would be a
set they do not lead out of. In this form both are what the proof uses.
`StableIsShortest` says where the exchange of vectors can come to rest: once every
router has read its current list, has those neighbours and would learn nothing
from any of them (`Stable`), every table has every router that can be reached, at
the length of a shortest path and through a neighbour that is on one. That it
comes to rest is not claimed: a list can be lost for good (section 5), every
vector that erases may end the process, and the text of a vector may be lost again
and again, so no fairness that the code justifies leads there.

What `Router_settle` does not claim matters: it starts from tables of neighbours
and lets a link only get cheaper, in topologies where a neighbour's own link is
never longer than a way round, and no router that ends in it comes back.
`EraseMayEnd` is off there: without a login a process that ends makes `Stable`
false for good, and the ways to it count up and go round, of which the properties
of routes claim nothing. The theorems about it (section 4) name the same conditions,
and section 5 says what the code does otherwise.

### Messages

Every message that the two programs send, as words: `Written` is
`mess__toString`, `TreatOutput` escapes and ends it with a star, `Read` takes one
or several writes, `MultilineParse` undoes the escaping and matches the patterns
of `regex_strtable` in their order. Data is a sequence of characters, a list is
one symbol.

| run | property | shows |
|---|---|---|
| `Messages_wire` | `ReadAsWritten`, `NothingForged` | a message read alone comes back in every field, but for data that ends in a backslash and an empty list of neighbours; messages read together are lost or give the first of them, never a third |

Bounds: two messages, since what a read of more gives is decided at the end of
the first; data of up to three characters of a letter, a star and a backslash,
which reach every place of a special character: first, last, doubled.

## 4. Proofs

The constants are any that satisfy the assumption of the module, which TLC
evaluates in every run. Each result is an inductive invariant of which TLC found
no violation on an instance before it was proved; of `Calm`, whose estimates are
unbounded numbers, it was the parts that are finite (`Down`, the two properties
themselves, `NoShortcut` with bounded estimates).

**LoopProofs** is for the models whose loops are recursive functions, a value for
each round: `RecursiveFunction` shows that such a function exists, and
`BoundedInduction` what holds at each round, both from the least element of a
set of naturals (`SetInduction`).

**HashTableProofs** says what the operators of `HashTable` promise, from
`HashTableAssumption`. `Sound(t)` is what a table owes its callers: pairs are
where their keys hash to (`Housed`), no key is there twice, and `key_count` is at
least the number of pairs (`Covered`). `AddSound`, `ResizeSound` and
`RemoveSound` say that each operation keeps it, and which bindings (`Binds`) it
adds and takes away: a removal takes the pair it was asked for and, when that
pair is the second of its chain, the head. `Packed` bounds the pairs by `KeyRatio * num`; with it the test
for a resize is false during a resize (`GrowsFlat`, `ShrinksFlat`).

**InfoTableProofs** proves of `InfoTable`, for any names, values, hash and sizes:

* `TypeCorrect`, `LookupsAreCurrent` (`[]StoredIsCurrent`), `CountIsEnough`
  (`[]CountCoversElements`), `StaysWellHoused` (`[]WellHoused`): `Inv` joins
  `Sound(T)` and `Current`, that every binding is one the callers believe in. That
  the count covers the elements needs that keys are stored once, and that needs
  every pair to be in the bucket of its key, through every resize;
* `LossesAreBounded` (`BoundedLoss`), an action property, from `Inv` and
  `RemoveSound`;
* `ResizesNeverNest`: the `hash_table_add` called by a resize never resizes
  again, which is why `Refilled` may use `Link`;
* `ImplementsMapWhenSpared`: in every behaviour where no deletion unlinks the
  second pair of a chain (`HeadsAreSpared`), the table implements `InfoMap` and
  never divides by zero. The condition is the bug of `InfoTable_lost` and nothing
  else: without it the refinement is false.

**ControllerProofs** proves, for any nodes, routers, weights, topologies and
bounds, from `ControllerAssumption`:

* `TypeCorrect`: `Spec => []TypeOK`;
* `FlagsAreSound`: `Spec => []Freshness`. With `TypeOK` it is inductive: each
  action either leaves `Neighborhood(n)` alone or marks `n`;
* `NamesAreHeldOnce` (`[]HeldOnce`) and `HoldersAreTold` (`[]HolderIsTold`). The
  invariant `NamesInv` joins `UniqueIds`, `ConnectedIsHeld` and `PolledByHolder`,
  since none is inductive alone: that a name is held once needs that held nodes
  are connected, and the holder's list needs that it is the only holder. It adds
  that no node is connected before a topology is loaded. `loads` never goes down
  (`LoadsCounted`), so what holds while it is 0 needs no bound on LOAD;
* `TableStaysSound`: whatever happens, LOAD included, the table is `Sound`;
* `TableHoldsTheRouters` (`[]TableMatchesClients`) and `SteadyControllerRuns`
  (`EndsOnlyByCommand`), on two conditions. `Steady`: no LOAD at the prompt, no more
  routers than nodes, and topologies that name every node. `HeadsAreSpared`: no
  router leaves while it is the second of its chain. Each is needed: a router more
  than there are names is refused and aborts the process, a LOAD gives a name
  twice and the second departure is of an unknown name, and a lost head is an
  address that a poll dereferences. `Controller_steady` satisfies both. `SteadyInv`
  joins all the above with `Accounted`: the table binds exactly the names that are
  held, each to its holder. `NameForEach` counts the holders to show that a name
  is free when a router logs in.

**ThreadsProofs** proves, for any topology of the command line, routers and
bounds, from `ControllerAssumption`:

* `NamesSurviveThreads`: `ThreadsSpec => []HeldBetweenHandlers`.
  `HeldBetweenHandlers` is silent inside a handler; `TInv` adds that connected
  nodes are held but for the one whose logout is not over (`Balanced`), and that
  what a handler read at its beginning still holds at its end (`HandlerHolds`): no
  other handler runs meanwhile, and the prompt writes no name. Nothing is assumed
  of the table or of the commands;
* `ThreadsAreTyped`: `ThreadsSpec => []ThreadsTypeOK`;
* `StaleIsRaced`: `ThreadsSpec => []FreshUnlessRaced`: without a lock, a node
  marked up to date may have a stale list only if its own poll overlapped a
  command or an edge was freed under a loop. `FreshInv` relates the two programs
  in progress: a node that is up to date was told its list, or a write of the
  prompt or of the handler that will mark it is still to come (`Told`); a command
  that still has a label to write has the marks of both its ends to write after it
  (`LabelsAreMarked`); a login or logout still has ahead of it, or has marked,
  every neighbour of its node (`Marking`); and the list that a poll has gathered
  is right for the edges it has passed (`Polling`).

**ForwardingProofs** proves, for any network, set of tables and bounds, from
`ForwardingAssumption`:

* `TypesAreKept`: `Spec => []TypeOK`;
* `TTLBoundsHops`: `Spec => []HopsBounded`. `HopsBounded` says nothing of the
  TTL that is left, so it is not inductive; `Bounded` is what every step keeps: the TTL and
  the hops of a message that carries a TTL add up to no more than what it was
  sent with. `Prompts` bounds what commands still send;
* `NoRouterEnds`: `Spec => []RoutersStayUp`, if `TablesLeadTo`: some distance to
  each destination goes down along every table that a router may have, as it does
  on the settled tables of `Forwarding_line`. A circle is not only slow: a packet
  that goes round expires wherever its TTL ends, and when that is its own source
  the router looks for a way to itself and ends. `Stays` says of every message on
  the way that where it may still be answered is not its source (`Due`), since it
  is closer to its destination than the source was. Tables may still change at
  any moment, among those.

* `ReportsAreTrue`: `Spec => []AnswersAreTrue`.
  `AnswersAreTrue` speaks of what was displayed only; `AInv` adds what is still on
  the connections: a packet and its answers are there at most once together
  (`OnceEach`), and each agrees with both displays (`MessageIsTrue`), in
  particular an answer carries no TTL, so that it never expires and turns from
  "ok" into "toofar". `ReadOnce` and `SendsOnce` say what reading and sending
  keep; `QuietStep` is every step that displays nothing; the three that do
  (`PacketArrivesTrue`, `PacketAnsweredTrue`, `MessageCommandTrue`) rest on the
  message they read being the only one of its number, or on the number being new
  (`FreshNumber`).

* `RoutesAreTraced`: `Spec => []RouteFollowsPath`, under three assumptions.
  `TablesLeadTo` is that of `NoRouterEnds`. `SameWayBack` says that the tables do
  not change and that what they lead to by one router leads back by it, as those
  of a tree do, the ones of `Forwarding_line` among them: with another way back, a
  later pong may overtake an earlier one. `RouteOnly` says that a router issues one
  route command at most and no ping command, whose pongs the code cannot tell from
  those of the route command (`exec.cpp:306`). `RouteFollowsPath` says nothing of
  the connections; what every step keeps (`Trace`) is that the pings and pongs of
  the command are all on its path, there or back, in the order they were sent:
  the earlier one turns back no later than the other and has come further
  (`InOrder`). A pong that is back is then the earliest of those on their way
  (`BackInOrder`); as every router not yet displayed still has a message on its
  way if nothing was lost (`Complete`), it is from the next router of the path. A
  step that carries a message further on (`Moves`) overtakes no other
  (`MovesKeep`); `PathExists` makes the path of the tables by going down the
  distance, and `HopsArePath` shows it is what `Hop` computes.

**NetProofs** proves, for any finite set of peers and bounds, from
`NetAssumption`:

* `TypeCorrect`: `Spec => []TypeOK`;
* `ArrayHoldsConnections`: `Spec => []SlotsAreConnections`. The inductive
  invariant `Inv` says of every connection where it is: waiting to be accepted,
  once and without a socket (`WaitingOnce`, `AwayIsOut`); in its first read with
  a socket (`ReadingHasSock`), while no closed socket is in the array; or in
  exactly one slot (`ArrayIsRight`). Sockets differ (`SocketsDiffer`) because
  `NewSock` is free (`NewSockFacts`, by counting the sockets in use). `AddFacts` and
  `RemoveFacts` say what the two operations of the array keep; `DisconnectsKeeps`
  is the case of the stale pointer: the client it leads to is in the array, or
  closed already, or its socket was reused and stays in the array, closed;
* `ClosedWithLeftovers`: `Spec => OnlyLeftoversHarm`, an action property, from the
  same invariant: a client of a used slot leaves the array with its socket
  (`UsedLeaves`), which a pointer to a slot beyond them does not;
* `NetImplementsSessions`: `Spec => ImplementsSessions`, from the same invariant:
  initial states map to initial states, and every step of `Net` to a step or a
  stutter of `Sessions`. `SessionFound` and `SessionNone` compute the mapping;
  `AddSession` and `RemoveSession` show that the clients that move keep their
  sessions.

**RouterProofs** proves, for any number of routers, topologies, links and bounds,
from `RouterAssumption`:

* `RoutersAreTyped`: `Spec => []RouterTypeOK`;
* `NamesAreRight`: `Spec => []RightNames`. Which router a client's id should name
  is decided at the other end of its connection, so the invariant `Inv` is about
  both ends, and about what is on the way. They know each other (`Paired`); what
  can be read under an id that was given was written by that router and no vector
  there has that router in it (`Speaks`); a connection that was not accepted is in
  the backlog once and begins with the LINK of the router that opened it
  (`Waits`); and an array holds each connection of its router once
  (`Houses`), whose sockets are in `borrowed` when their ids were left unset. Each
  is needed by the next: an accepted client gets the right id because of what its
  connection began with, and that stays right when either end closes, stops or
  comes back because a closed end is `Gone` at the other. Nothing is assumed of an
  unset id but that it is not the router's own name (`Serving`): it may be another
  router's or the controller's;
* `PointersAreRight`: `Spec => []PointersLead`. `Points` says of every pointer, even
  after clients have moved, that it leads into what was ever filled of the array,
  and `Fits` that until then it leads to its own neighbour; with `Houses` that is a
  connection with that neighbour;
* `CostsAreListed`: `Spec => []NeighborCost`, for three routers at most. `Costs`
  adds nothing to the property but needs `Speaks`: a neighbour's own vector never
  says what it costs to reach that neighbour. A vector that was read under an
  unset id may, and does overwrite the cost: `NeighborCost` claims nothing of a
  router after it has read one (`misread`). The bound is the code's, not the
  proof's: in a map of more than four entries, the two ids that are no router's
  among them, a loop that erases may pass over a neighbour that is not in the list
  any more (`ErasedByLoop`), which keeps a cost that no list gives. The topologies
  of `src/config` have five routers or more, so in those the property is not
  claimed;
* `DistancesAreNotTooShort` and `NoRouteLoops`: `Spec /\ [][OnlyCheaper]_vars /\
  []NoShortcut => []NeverTooShort`, and the same for `NoLoops`, with any number of
  routers, any losses and any order of vectors, lists and edits. `OnlyCheaper`: the
  routers that run stay, no link is added or removed, and costs do not rise.
  `NoShortcut`: no link costs a router more than the way to that neighbour from
  another one, by the costs the routers were told. It holds of every tree, of every
  network of equal links and of two of the three topologies of `src/config`, not of
  `carre`; it is needed, as the code compares a neighbour's distance without the
  way to the source (section 5). `CostsFit(M)`: no cost is above M, and M times the
  number of routers fits an int, so that no sum wraps. Lists may be lost, and
  any number of them may wait.
  The invariant is `Calm`, with `Inv` and `Serving`. Neither property is inductive:
  a table is right because the vectors it was made from were, and some are still
  unread. So `Calm` says of both that no distance is below what any estimate allows (`Sane`),
  and that the vectors on a connection get no worse from one to the next and no
  better than the table of their sender, and that what the reader goes to by that
  neighbour is in each of them (`Mail`). The code first erases what it learnt from
  the source, and may pass over some of it (`ErasedByLoop`): `Mail` is what makes
  every erased entry come back at once and no longer than before (`Improved`), so
  that in peace tables only improve. The next hop of an entry then always has one
  that is shorter by the cost of the way to it (`Down`), and of the routers of a
  round the one with the shortest distance would have to go to a shorter one
  (`CalmHasNoLoops`). `Sane` also bounds a distance by M times the number of
  routers that know the destination, which only grows: no sum overflows. That
  connections stay, at most one for each pair of neighbours and each with an id
  that was given, is `Peaceful` and `Named`; that the lists on their way get no
  dearer from one to the next is `Informed`;
* `UniformNetsAreRight`: where all links cost the same, both properties hold under
  `OnlyCheaper` and `CostsFit`: `NoShortcut` follows from `Calm`.

`Opening` and `Closing` are followed round by round with the lemmas of
`LoopProofs`; what a loop keeps of the connections of every other router (`Kept`)
makes one lemma for each handler enough, and `StepHolds` puts them together.

Only model-checked: liveness (`ChangesAreTold`, `RouteEnds`), which the prover's
temporal backend does not reach; `StableIsShortest`, whose lengths of walks are a
fold over the routers; and `ReadAsWritten` and `NothingForged` of `Messages`, where
what is read is a fold over the characters that were written, and a statement
about every message is by induction over them, which the provers cannot
instantiate.

## 5. Findings

Two runs marked *violated* above state what a comment or the report says, and
TLC finds a behaviour of the code that does otherwise; `findings` in
`PROJECT.json` quotes each line.

* `InfoTable_lost`: `hash_table_remove` (`hashtable.c:248`) drops the head of a
  chain with its second pair. In the run the shrink that comes first reverses the
  chain, so that removing `n1` loses `n2`: the controller forgets a router that is
  connected.
* `Router_listed`: `parseNeighborhood` (`router.cpp:361`) opens no connection to
  a listed router that it has learnt from a vector, and makes it a complete
  neighbour with a null client; the next vector for it ends the process.

Others were met while modelling and have no run of their own. They are in the
models, as the code has them, and bound what the properties claim:

* POLL sets `is_up_to_date` after its loop over edges (`exec.c:355`) and
  overwrites the mark of a command made meanwhile: the change is told only after
  the next one. `FreshUnlessRaced` leaves such nodes out.
* LOAD puts every name back in stock although routers hold some, so a name is
  given twice; `HeldOnce` is stated until a LOAD.
* A removal divides by `key_count` (`hashtable.c:223`) before it looks the name
  up. The count can be zero while routers are connected when names share a
  bucket: a removal loses a pair, and the next resize counts what is left.
* The timeout of polls in the configuration is read and never used, so a router
  that hangs keeps its name; the thread that should report messages without an
  answer is never started (`exec.cpp:28`).
* A pong of a ping whose TTL was over carries no TTL (`messages.c:632`,
  `exec.cpp:358`): on tables that loop it goes round for ever. `HopsBounded`
  leaves it out.
* After a ping command that lost a pong, `pingCount` stays above zero and the
  first pongs of a route command are displayed as its echoes (`exec.cpp:303`);
  `pingSucc` is never set back (`exec.cpp:334`).
* A neighbour's distance is compared with the one the source announces, without
  the way to the source (`router.cpp:287`): where a link is longer than the way
  between two neighbours, the entry gets a distance no path has, and the source as
  its next hop. The next vector of the source erases it with all that was learnt
  from there and puts it back as a router that is no neighbour, without a client;
  a vector of that neighbour is then answered through a null pointer, and the
  process ends. `src/config/carre/carre.dot` is such a topology: the links of `n5`
  cost 4 and its neighbours are 2 apart. TLC finds both, the wrong distance and
  the end of the process, in a square of four routers with two links of 4 and two
  of 1. After a link got longer or was removed, distances count up.
  `Router_settle` keeps to cheaper links, and the theorems to `NoShortcut`.
* LINK sets no id when the table has an entry for the router (`exec.cpp:200`), as
  when two routers connect to each other at once or one has learnt the other from a
  vector. What comes next from that router is read under what the stack held
  (`net.c:265`): no name, the controller's, or another router's, whose routes a
  vector then replaces. It takes an ADDLINK between the ends of a line; an invariant
  that compares the id of each vector's client with its other end is violated in
  seven steps. The claims are about ids that were given (`borrowed`, `misread`).
* A client whose id was left unset and that holds the controller's ends the
  process when it disconnects (`event.cpp:55`); the answer to a vector that was
  read under no router's name goes through a null pointer.
* `exec.c:355` marks a node up to date when its list is written. If the router
  reads it together with another answer, the list is lost (`ListsLost`) and the
  router is not told again until the next change.
* An empty list, or an empty vector, and a next one that end the same read are
  taken for one of which an element has no second half: `atoi` is given NULL
  (`router.cpp:349`, and the vector's at `router.cpp:280`).
* ADDLINK of a name that is no node's dereferences NULL (`exec.c:114`).
* `RouteTable::vector` (`routetable.cpp:53`) returns the buffer of a string that
  is destroyed on return: what is sent may be another text (`Unreadable`).
* `[]` clears the route table without closing a connection, and is given as one
  byte of which `parseNeighborhood` reads the next ones (`router.cpp:398`).
* The test for `'*'` is an assignment (`messages.c:234`), so of messages that
  arrive in one read all are lost, or all but one.
* The last character of a text is not escaped: data that ends in a backslash
  loses it.
* A prompt's LOAD or SAVE with a name of one letter gives NULL (`messages.c:305`),
  a MESSAGE to a router whose name is part of the word `message` is cut at that
  word (`messages.c:349`), `link id` without a name gives NULL, and `toString`
  writes numbers into a buffer of 50 characters and the text (`messages.c:563`).
* `network__update` is said to be non-blocking (`rapport.tex:215`); the first
  read of an accepted connection blocks (`net.c:259`). The array of clients is
  filled without a test against `NB_CLIENTS` (`net.c:321`).
* `network__disconnect` (`net.c:152`) with a pointer beyond the used slots closes
  the socket of another client and finds no equal client to remove. The next
  `select` is given a closed socket and fails, and the process exits:
  `SelectFails`, which `Net_serve` reaches with four connections.

## 6. Not modelled

* The races of a router's three threads on the route table: `Router` takes each
  handler and each vector as one step. The vector loop iterates a tree that the
  network's thread may be rebalancing; what it then reads is undefined.
* Erasures that pass over entries are in no run: `ErasedByLoop` has them for
  tables of more than four entries, and the runs have three routers.
* A vector that reads as another vector when it comes from freed memory, and a
  router that logs in twice on one connection, which routers do not do: `Login`
  of `Controller` is for routers that have no name yet.
* Reads that end inside a message, and failing writes: `Messages` and `Net` cut
  the stream between writes only. The state of `strtok`, which the threads share.
* The capacity of arrays and buffers (`NB_CLIENTS`, `voisinage[1000]`, ids), and
  memory that is freed twice or never: what follows in memory is not known.
* LOAD and QUIT inside a handler: `Controller` has them between handlers,
  `ControllerThreads` has the link commands only.
* The parsing of prompt commands, the figures of ping, the displays and the
  reading of configuration and standard input, which have no state to check.
* `trex` is third-party, `example` is not used.
