------------------------------- MODULE Messages -------------------------------
(***************************************************************************)
(* How a message is written on a connection and read from it               *)
(* (src/common/messages.c, network__send and read_client of net.c).        *)
(*                                                                         *)
(* A text is a sequence of words, of which only the data of a packet and   *)
(* lists are looked into: the data is a sequence of characters, a list is  *)
(* one symbol.  Spaces are left out.  A write is never cut by a read; a    *)
(* read may take several writes.                                           *)
(***************************************************************************)
EXTENDS Naturals, SequencesExt

CONSTANTS
  Name,       \* of routers, in letters and digits
  Number,
  EmptyList,  \* "[]"
  List,       \* "[...]" that is not empty
  Letter,     \* the characters of data that mean nothing to the code
  Null,       \* NULL, or -1 for a number
  MaxData,    \* bound: characters of data
  MaxSent     \* bound: messages

Star == "*"
Backslash == "\\"
Special == {Star, Backslash}

Lists == List \cup {EmptyList}

Data == UNION {[1..k -> Letter \cup Special] : k \in 1..MaxData}

ASSUME MessagesAssumption ==
  /\ EmptyList \notin List /\ (Lists \cup Letter) \cap Special = {}
  /\ MaxData \in Nat /\ MaxSent \in Nat

------------------------------------------------------------------------------
(***************************************************************************)
(* Escaping.                                                               *)
(***************************************************************************)

(***************************************************************************)
(* Seeded fault: only the end of a message is escaped.                     *)
(***************************************************************************)
EscapeStars(s) ==
  FlattenSeq([i \in DOMAIN s |-> IF s[i] = Star /\ i # Len(s) THEN <<Backslash, Star>> ELSE <<s[i]>>])

(***************************************************************************)
(* mess__escape leaves the last character as it is.                        *)
(***************************************************************************)
Escape(s) ==
  FlattenSeq([i \in DOMAIN s |->
    IF s[i] \in Special /\ i # Len(s) THEN <<Backslash, s[i]>> ELSE <<s[i]>>])

(***************************************************************************)
(* mess__unescape: a backslash before a special character is dropped.      *)
(***************************************************************************)
Unescape(s) ==
  LET step(h, c) ==
        IF h.held /\ c \in Special THEN [out |-> Append(h.out, c), held |-> FALSE]
        ELSE [out  |-> (IF h.held THEN Append(h.out, Backslash) ELSE h.out)
                       \o IF c = Backslash THEN <<>> ELSE <<c>>,
              held |-> c = Backslash]
      end == FoldLeft(step, [out |-> <<>>, held |-> FALSE], s)
  IN  IF end.held THEN Append(end.out, Backslash) ELSE end.out

TreatOutput(s) == Append(Escape(s), Star)

TreatInput(s) ==
  LET t == Unescape(s) IN IF t # <<>> /\ Last(t) = Star THEN Front(t) ELSE t

------------------------------------------------------------------------------
(***************************************************************************)
(* Messages.  n is n_parameter, s is s_parameter.                          *)
(***************************************************************************)

Blank(type, accept) ==
  [type |-> type, accept |-> accept, node1 |-> Null, node2 |-> Null, n |-> Null, seqnum |-> Null, s |-> Null]

Nothing == Blank("NONE", "NOT")

(***************************************************************************)
(* mess__toString: the words of a message that a program sends.            *)
(***************************************************************************)
Written(m) ==
  LET route == <<"seqnum", m.seqnum, "src", m.node1, "dst", m.node2>>
      plain == m.accept = "NOT"
  IN
  CASE m.type = "LOGIN" /\ m.node1 = Null  -> <<"log", "in", "port", m.n>>
    [] m.type = "LOGIN" /\ m.node1 # Null  -> <<"log", "in", "as", m.node1, "port", m.n>>
    [] m.type = "LOGOUT"                   -> <<"log", "out">>
    [] m.type = "GREETING"                 -> <<"greeting", m.node1>>
    [] m.type = "BYE"                      -> <<"bye">>
    [] m.type = "POLL"                     -> <<"poll">>
    [] m.type = "NEIGHBORHOOD" /\ plain    -> <<"neighborhood", "newlist">> \o m.s
    [] m.type = "NEIGHBORHOOD" /\ ~plain   -> <<"neighborhood", "ok">>
    [] m.type = "LINK" /\ plain            -> <<"link", "id", m.node1>>
    [] m.type = "LINK" /\ ~plain           -> <<"link", "ok">>
    [] m.type = "VECTOR" /\ plain          -> <<"vector">> \o m.s
    [] m.type = "VECTOR" /\ ~plain         -> <<"vector", "ok">>
    [] m.type = "PACKET" /\ plain          -> <<"packet">> \o route \o <<"ttl", m.n, "data">> \o m.s
    [] m.type = "PACKET" /\ m.accept = "OK"     -> <<"packet">> \o route \o <<"ok">>
    [] m.type = "PACKET" /\ m.accept = "TOOFAR" -> <<"packet">> \o route \o <<"toofar">>
    [] m.type = "PING"                     -> <<"ping">> \o route \o <<"ttl", m.n>>
    [] m.type = "PONG" /\ m.accept # "TTLZERO" -> <<"pong">> \o route \o <<"ttl", m.n>>
    [] m.type = "PONG" /\ m.accept = "TTLZERO" -> <<"pong">> \o route \o <<"ttlzero">>

(***************************************************************************)
(* What may follow the words of a pattern.  ".*" takes one character at    *)
(* least.  Between brackets it stops at the first "]" after that one, which*)
(* has to end the text: nothing, when the first list is empty, but the     *)
(* end of a second list will do.                                           *)
(***************************************************************************)
NoTail(t) == t = <<>>

DataTail(t) == t # <<>>

(***************************************************************************)
(* Seeded fault: brackets are matched by the last one of the text.         *)
(***************************************************************************)
GreedyListTail(t) ==
  t # <<>> /\ t[1] \in Lists /\ Last(t) \in Lists /\ t # <<EmptyList>>

ListTail(t) ==
  \/ Len(t) = 1 /\ t[1] \in List
  \/ /\ Len(t) > 1 /\ t[1] = EmptyList /\ Last(t) \in Lists
     /\ \A i \in 2..(Len(t) - 1) : t[i] \notin Lists

(***************************************************************************)
(* A row of regex_strtable with the case of mess__parse that goes with it: *)
(* the sets that the words belong to, and the places of the fields, of     *)
(* which 0 stands for none.                                                *)
(***************************************************************************)
Row(type, accept, words, tail, node1, node2, n, seqnum) ==
  [type |-> type, accept |-> accept, words |-> words, tail |-> tail,
   node1 |-> node1, node2 |-> node2, n |-> n, seqnum |-> seqnum]

Words(w) == [i \in DOMAIN w |-> {w[i]}]

Routed(type) == <<{type}, {"seqnum"}, Number, {"src"}, Name, {"dst"}, Name>>

ControllerRows == <<
  Row("LOGIN", "NOT", Words(<<"log", "in", "as">>) \o <<Name, {"port"}, Number>>, "none", 4, 0, 6, 0),
  Row("LOGIN", "NOT", Words(<<"log", "in", "port">>) \o <<Number>>, "none", 0, 0, 4, 0),
  Row("LOGOUT", "NOT", Words(<<"log", "out">>), "none", 0, 0, 0, 0),
  Row("GREETING", "NOT", <<{"greeting"}, Name>>, "none", 2, 0, 0, 0),
  Row("BYE", "NOT", Words(<<"bye">>), "none", 0, 0, 0, 0),
  Row("POLL", "NOT", Words(<<"poll">>), "none", 0, 0, 0, 0),
  Row("NEIGHBORHOOD", "NOT", Words(<<"neighborhood", "newlist">>), "list", 0, 0, 0, 0),
  Row("NEIGHBORHOOD", "OK", Words(<<"neighborhood", "ok">>), "none", 0, 0, 0, 0) >>

NeighborRows == <<
  Row("LINK", "NOT", Words(<<"link", "id">>) \o <<Name>>, "none", 3, 0, 0, 0),
  Row("LINK", "OK", Words(<<"link", "ok">>), "none", 0, 0, 0, 0),
  Row("VECTOR", "NOT", Words(<<"vector">>), "list", 0, 0, 0, 0),
  Row("VECTOR", "OK", Words(<<"vector", "ok">>), "none", 0, 0, 0, 0) >>

PacketRows == <<
  Row("PACKET", "NOT", Routed("packet") \o <<{"ttl"}, Number, {"data"}>>, "data", 5, 7, 9, 3),
  Row("PACKET", "OK", Routed("packet") \o <<{"ok"}>>, "none", 5, 7, 0, 3),
  Row("PACKET", "TOOFAR", Routed("packet") \o <<{"toofar"}>>, "none", 5, 7, 0, 3) >>

PingRows == <<
  Row("PING", "NOT", Routed("ping") \o <<{"ttl"}, Number>>, "none", 5, 7, 9, 3),
  Row("PONG", "NOT", Routed("pong") \o <<{"ttl"}, Number>>, "none", 5, 7, 9, 3),
  Row("PONG", "TTLZERO", Routed("pong") \o <<{"ttlzero"}>>, "none", 5, 7, 0, 3) >>

(***************************************************************************)
(* The patterns of empty lists come last: one gives an empty text, the     *)
(* other the brackets.                                                     *)
(***************************************************************************)
EmptyListRows == <<
  Row("NEIGHBORHOOD", "NOT", <<{"neighborhood"}, {"newlist"}, {EmptyList}>>, "cleared", 0, 0, 0, 0),
  Row("VECTOR", "NOT", <<{"vector"}, {EmptyList}>>, "empty", 0, 0, 0, 0) >>

(***************************************************************************)
(* The rows of the prompt's commands are left out: no message matches one. *)
(***************************************************************************)
Rows == ControllerRows \o NeighborRows \o PacketRows \o PingRows \o EmptyListRows

AfterWords(row, t) == SubSeq(t, Len(row.words) + 1, Len(t))

Matches(row, t) ==
  /\ Len(t) >= Len(row.words) /\ \A i \in DOMAIN row.words : t[i] \in row.words[i]
  /\ LET rest == AfterWords(row, t) IN
     CASE row.tail = "list" -> ListTail(rest)
       [] row.tail = "data" -> DataTail(rest)
       [] OTHER -> NoTail(rest)

(***************************************************************************)
(* s_parameter.  A list ends at the next space.                            *)
(***************************************************************************)
Parameter(row, t) ==
  CASE row.tail = "none"    -> Null
    [] row.tail = "data"    -> AfterWords(row, t)
    [] row.tail = "list"    -> LET l == AfterWords(row, t) IN SubSeq(l, 1, IF Len(l) < 3 THEN Len(l) ELSE 3)
    [] row.tail = "cleared" -> <<>>
    [] row.tail = "empty"   -> <<EmptyList>>

(***************************************************************************)
(* mess__parse: the first row that matches.                                *)
(***************************************************************************)
Parse(t) ==
  LET matching == {k \in DOMAIN Rows : Matches(Rows[k], t)}
      row == Rows[CHOOSE k \in matching : \A j \in matching : k <= j]
      at(place) == IF place = 0 THEN Null ELSE t[place]
  IN  IF matching = {} THEN Nothing
      ELSE [type |-> row.type, accept |-> row.accept, node1 |-> at(row.node1), node2 |-> at(row.node2),
            n |-> at(row.n), seqnum |-> at(row.seqnum), s |-> Parameter(row, t)]

(***************************************************************************)
(* mess__multiline_parse: the test for the end of a message is an          *)
(* assignment, so a text without line breaks is one message.               *)
(***************************************************************************)
MultilineParse(t) == Parse(TreatInput(t))

------------------------------------------------------------------------------
(***************************************************************************)
(* One direction of a connection.                                          *)
(***************************************************************************)

(***************************************************************************)
(* The messages that the controller and the routers send.                  *)
(***************************************************************************)
Message ==
  LET answers(type, accept) ==
        {[Blank(type, accept) EXCEPT !.node1 = r[1], !.node2 = r[2], !.seqnum = k] :
           r \in {r \in Name \X Name : r[1] # r[2]}, k \in Number}
      timed(type) == {[m EXCEPT !.n = k] : m \in answers(type, "NOT"), k \in Number}
  IN  {[Blank("LOGIN", "NOT") EXCEPT !.node1 = a, !.n = k] : a \in Name \cup {Null}, k \in Number}
      \cup {Blank(type, "NOT") : type \in {"LOGOUT", "BYE", "POLL"}}
      \cup {[Blank(type, "NOT") EXCEPT !.node1 = a] : type \in {"GREETING", "LINK"}, a \in Name}
      \cup {Blank(type, "OK") : type \in {"NEIGHBORHOOD", "LINK", "VECTOR"}}
      \cup {[Blank(type, "NOT") EXCEPT !.s = <<l>>] : type \in {"NEIGHBORHOOD", "VECTOR"}, l \in Lists}
      \cup {[m EXCEPT !.s = d] : m \in timed("PACKET"), d \in Data}
      \cup answers("PACKET", "OK") \cup answers("PACKET", "TOOFAR") \cup answers("PONG", "TTLZERO")
      \cup timed("PING") \cup timed("PONG")

VARIABLES
  sent,      \* the messages sent
  wire,      \* the writes that were not read
  received   \* of each read: what it is parsed as, its first and last write

vars == <<sent, wire, received>>

Init == sent = <<>> /\ wire = <<>> /\ received = <<>>

Send(m) ==
  /\ Len(sent) < MaxSent
  /\ sent' = Append(sent, m)
  /\ wire' = Append(wire, TreatOutput(Written(m)))
  /\ UNCHANGED received

Read(j) ==
  /\ j \in 1..Len(wire)
  /\ LET first == Len(sent) - Len(wire) + 1
     IN  received' = Append(received, [from |-> first, to |-> first + j - 1,
                                       msg |-> MultilineParse(FlattenSeq(SubSeq(wire, 1, j)))])
  /\ wire' = SubSeq(wire, j + 1, Len(wire))
  /\ UNCHANGED sent

Next ==
  \/ \E m \in Message : Send(m)
  \/ \E j \in 1..MaxSent : Read(j)

Spec == Init /\ [][Next]_vars

------------------------------------------------------------------------------
(***************************************************************************)
(* Properties.                                                             *)
(***************************************************************************)

(***************************************************************************)
(* The last character is not escaped, and an empty list of neighbours is   *)
(* read as an empty text.                                                  *)
(***************************************************************************)
Survives(m) ==
  /\ ~(m.type = "PACKET" /\ m.s # Null /\ Last(m.s) = Backslash)
  /\ ~(m.type = "NEIGHBORHOOD" /\ m.s = <<EmptyList>>)

(***************************************************************************)
(* A message that is read alone is the message that was sent, in every     *)
(* field, whatever stars and backslashes are in its data: but for data     *)
(* that ends in a backslash and for an empty list of neighbours.           *)
(***************************************************************************)
ReadAsWritten ==
  \A i \in DOMAIN received :
    LET r == received[i] IN r.from = r.to /\ Survives(sent[r.from]) => r.msg = sent[r.from]

Absorbs(m) == m.s # Null /\ (m.type = "PACKET" \/ m.s = <<EmptyList>>)

(***************************************************************************)
(* What is recognised in a read is the first message of the read, with the *)
(* same type and the same route: messages that are read together are lost  *)
(* and never become another one.  Only data and an empty list may take in  *)
(* what follows them.                                                      *)
(***************************************************************************)
NothingForged ==
  \A i \in DOMAIN received :
    LET r == received[i]
        m == sent[r.from]
        head(x) == <<x.type, x.accept, x.node1, x.node2, x.n, x.seqnum>>
    IN  r.msg # Nothing => head(r.msg) = head(m) /\ (Absorbs(m) \/ r.msg = m)
==============================================================================
