-------------------------------- MODULE Wire --------------------------------
(***************************************************************************)
(* One message after the other of one request, with its real text: printed *)
(* by the process that sends it, cut into packets, put together, and read  *)
(* by the handler it is for, which then sends the next.  Cluster says in   *)
(* which order messages go and what they do to the state; here is what     *)
(* becomes of their contents on the way.                                   *)
(*                                                                         *)
(* A text that overruns the four bytes it is printed in is undefined       *)
(* behaviour: the process ends, or goes on with the text as printed.       *)
(***************************************************************************)
EXTENDS Format, Filter, Routing

CONSTANTS
  Requests,  \* what clients send
  Ids,       \* the request numbers the main server may have come to
  Tables,    \* its tables of hosts, itself the first
  Rows       \* what a repository may hold of a node: relations, attributes

VARIABLES
  message,  \* the message that is on its way, as its sender means it
  reader,   \* who it is for
  stage,    \* where it is
  text,     \* its text
  got,      \* the last message that was read, as it was read
  home      \* the index of the repository it goes to

vars == <<message, reader, stage, text, got, home>>

NoMessage == [type |-> "none"]

Init ==
  /\ message \in Requests
  /\ reader = "server"
  /\ stage = "call"
  /\ text = <<>>
  /\ got = NoMessage
  /\ home = 0

-----------------------------------------------------------------------------
\* parseNew...: the text is printed.
Write ==
  /\ stage = "call"
  /\ LET pieces == Pieces(message) IN
     \/ text' = Text(pieces) /\ stage' = "sent"
     \/ Overruns(pieces) /\ stage' = "ended" /\ UNCHANGED text
  /\ UNCHANGED <<message, reader, got, home>>

(***************************************************************************)
(* SendTo and RecvFrom.  A corrupt packet is sent again, and again corrupt,*)
(* for ever; or the reader gets what came before it, because the packet    *)
(* says it is the last (len < 10), or a second goes by before it comes     *)
(* again.  An empty text is of no type: the handler ignores it.            *)
(***************************************************************************)
Transfer ==
  /\ stage = "sent"
  /\ LET packets == SplitData(text)
         corrupt == {i \in DOMAIN packets : IsCorrupt(packets[i])}
         Gathered(n) == Joined([i \in 1..n |-> Received(packets[i])])
     IN
     \/ /\ corrupt = {}
        /\ text' = Gathered(Len(packets))
        /\ stage' = "arrived"
     \/ /\ corrupt # {}
        /\ stage' = "stuck"
        /\ UNCHANGED text
     \/ \E first \in corrupt :
        /\ first > 1
        /\ \A i \in corrupt : first <= i
        /\ text' = Gathered(first - 1)
        /\ stage' = "arrived"
  /\ UNCHANGED <<message, reader, got, home>>

\* The handler reads it.  Nothing catches what stoi throws.
Read ==
  /\ stage = "arrived"
  /\ LET r == IF reader = "client" THEN ReadResponse(text)
              ELSE ReadMessage(text, reader = "repository")
     IN \/ r.ok /\ got' = r.msg /\ stage' = "read"
        \/ ~r.ok /\ stage' = "ended" /\ UNCHANGED got
  /\ text' = <<>>
  /\ UNCHANGED <<message, reader, home>>

-----------------------------------------------------------------------------
(* What the handlers send next. *)

Reads(who, types) ==
  /\ stage = "read"
  /\ reader = who
  /\ got.type \in types

Send(m, who) ==
  /\ message' = m
  /\ reader' = who
  /\ stage' = "call"
  /\ UNCHANGED <<text, got>>

\* The character s_buffer[0] when the main server has read all it reads.
First(m) ==
  LET front == CASE m.type = "C" -> Append(m.name, Digit(Len(m.rels)))
                 [] m.type = "R" -> Append(m.name, Digit(m.depth))
                 [] m.type = "U" -> Append(m.name, NUL)
                 [] m.type = "D" -> Append(m.name, 48)
  IN Head(front)

ServerPassesOn ==
  /\ Reads("server", {"C", "R", "U", "D"})
  /\ \E id \in Ids, table \in Tables :
       LET m == IF got.type \in {"C", "D"}
                  THEN [got EXCEPT !.id = id, !.hosts = table]
                  ELSE [got EXCEPT !.id = id]
       IN /\ Send(m, "repository")
          /\ home' = MainIndex(First(got), Len(table) - 1)

\* n characters and a line break, as the program writes one.
Line(n) == [i \in 1..n |-> 32] \o <<Backslash, 110>>

\* "OK! Query complete" and the one node, with its attributes if asked for.
Response(m, attr) ==
  Line(18) \o
  (IF m.valid
     THEN m.name \o Line(12) \o
          (IF attr THEN Each(LAMBDA a : <<32, 32>> \o a[1] \o <<Colon, 32>>
                                        \o a[2] \o <<Backslash, 110>>, m.attrs)
                   ELSE <<>>)
     ELSE <<>>)

\* The query ends with its only node.
ServerReports ==
  /\ Reads("server", {"I"})
  /\ \E attr \in BOOLEAN :
       Send([type |-> "M", text |-> Response(got, attr), id |-> got.id],
            "client")
  /\ UNCHANGED home

ServerAnswers ==
  /\ Reads("server", {"M"})
  /\ Send([type |-> "M", text |-> got.text, id |-> got.id], "client")
  /\ UNCHANGED home

RepositoryAnswers ==
  /\ Reads("repository", {"C", "U", "D"})
  /\ got.type = "U" \/ got.id # 0
  /\ Send([type |-> "M", text |-> [i \in 1..28 |-> 32], id |-> got.id],
          "server")
  /\ UNCHANGED home

(***************************************************************************)
(* The half of a relation goes to the repository of the related node.  The *)
(* index may be 0, the main server; below 0 there is no host, and with one *)
(* host in the table it is a division by zero.                             *)
(***************************************************************************)
SendHalf(name, m) ==
  LET k == Len(got.hosts) - 1
      index == RepoIndex(Head(Append(name, NUL)), k)
  IN
  \/ /\ k > 0
     /\ index >= 0
     /\ Send(m, IF index = 0 THEN "server" ELSE "repository")
     /\ home' = index
  \/ /\ k > 0
     /\ index < 0
     /\ stage' = "astray"
     /\ home' = index
     /\ UNCHANGED <<message, reader, text, got>>
  \/ /\ k = 0
     /\ stage' = "divided"
     /\ UNCHANGED <<message, reader, text, got, home>>

RepositoryRelates ==
  /\ Reads("repository", {"C", "D"})
  /\ got.hosts # <<>>
  /\ \/ /\ got.type = "C"
        /\ \E i \in DOMAIN got.rels :
             SendHalf(got.rels[i],
               [type |-> "C", name |-> got.rels[i], rels |-> <<got.name>>,
                attrs |-> <<>>, id |-> 0, hosts |-> <<>>])
     \/ /\ got.type = "D"
        /\ got.object = 2
        /\ SendHalf(got.other,
             [type |-> "D", object |-> 2, name |-> got.other,
              other |-> got.name, id |-> 0, hosts |-> <<>>])

RepositoryReports ==
  /\ Reads("repository", {"R"})
  /\ \E row \in Rows :
       Send([type |-> "I", name |-> got.name, rels |-> row.rels,
             attrs |-> row.attrs, id |-> got.id,
             valid |-> ValidNode(got.depth, got.leaf, got.conds, row.attrs)],
            "server")
  /\ UNCHANGED home

Next ==
  \/ Write \/ Transfer \/ Read
  \/ ServerPassesOn \/ ServerReports \/ ServerAnswers
  \/ RepositoryAnswers \/ RepositoryRelates \/ RepositoryReports

Spec == Init /\ [][Next]_vars

-----------------------------------------------------------------------------
\* What the reader should have: hosts are read by repositories only, and
\* the client sees the text only.
Meant ==
  IF reader = "client"
    THEN [type |-> "M", text |-> Unescaped(message.text)]
  ELSE IF reader = "server" /\ message.type \in {"C", "D"}
    THEN [message EXCEPT !.hosts = <<>>]
  ELSE message

Both(pairs) == UNION {{pairs[i][1], pairs[i][2]} : i \in DOMAIN pairs}

Texts(m) ==
  CASE m.type \in {"C", "I"} -> {m.name} \cup ToSet(m.rels) \cup Both(m.attrs)
    [] m.type = "R" -> {m.name} \cup
         UNION {{m.conds[i].key, m.conds[i].value} : i \in DOMAIN m.conds}
    [] m.type = "U" -> {m.name, m.key, m.value}
    [] m.type = "D" -> {m.name, m.other}
    [] m.type = "M" -> {m.text}

(***************************************************************************)
(* Fits: nothing is longer than 999 characters or has a line break in it,  *)
(* the request number has three digits, and what is written as one digit   *)
(* is one.                                                                 *)
(***************************************************************************)
Fits(m) ==
  /\ \A t \in Texts(m) : Len(t) <= 999 /\ NewLine \notin ToSet(t)
  /\ m.id <= 999
  /\ m.type \in {"C", "I"} => Len(m.rels) <= 9 /\ Len(m.attrs) <= 9
  /\ m.type \in {"C", "D"} => Len(m.hosts) <= 9
  /\ m.type = "R" => /\ m.depth \in 0..9
                     /\ Len(m.conds) <= 99
                     /\ \A i \in DOMAIN m.conds : m.conds[i].op \in 0..9

(***************************************************************************)
(* ReadsBack: a message is read as it was meant if it fits, and only then. *)
(* The parsers erase fields at positions they count by hand (s + 2, s + 5, *)
(* s - 3, ...); a field that does not fit shifts all that follow.          *)
(***************************************************************************)
ReadsBack ==
  stage \in {"read", "ended", "stuck"} =>
    (Fits(message) <=> stage = "read" /\ got = Meant)

(***************************************************************************)
(* CountsNotMistaken: ten and more relations or attributes, as many as a   *)
(* character can count, are never taken for fewer: the process that reads  *)
(* them ends (803, 1081: char('0' + size), and stoi on the other side).    *)
(***************************************************************************)
CountsNotMistaken ==
  /\ stage = "read"
  /\ message.type \in {"C", "I"}
  => Len(message.rels) \notin 10..207 /\ Len(message.attrs) \notin 10..207

(***************************************************************************)
(* HomesAgree: the repository that a half of a relation is sent to is the  *)
(* one where queries look for its node, if the name begins with an ASCII   *)
(* character; if not, only when both remainders are 0.  The main server    *)
(* takes the remainder of an unsigned number of 64 bits (147, 238), the    *)
(* repositories that of a negative one (330).                              *)
(***************************************************************************)
PowerOf2(k) == TwoTo64(k) = 0

HalfSent ==
  /\ reader \in {"server", "repository"}
  /\ stage = "call"
  /\ got.type = "C"
  /\ message.type = "C"
  /\ message.id = 0

HomesAgree ==
  HalfSent /\ message.name # <<>> =>
    LET char == Head(message.name)
        k == Len(got.hosts) - 1
    IN home = MainIndex(char, k)
         <=> (char >= 0 \/ (PowerOf2(k) /\ (-char) % k = 0))

(***************************************************************************)
(* ListsWhatItSays: a node is listed when the depth and the conditions     *)
(* with '=', '<' and '>' hold, where a "|" opens the list again to all,    *)
(* whatever stood before it, --leaf included, and every "&" after it must  *)
(* still hold (458-490).                                                   *)
(***************************************************************************)
ListsWhatItSays ==
  stage = "call" /\ message.type = "I" /\ Plain(got.conds) =>
    message.valid = Listable(got.depth, got.leaf, got.conds, message.attrs)

(***************************************************************************)
(* LikeMatches: a LIKE whose value ends in "*" lists the nodes whose value *)
(* begins with what stands before the star.  README.md 38-40 and main.cpp  *)
(* 169-172 give "operador ... 4", "4like", the value "MSc*"; 481 looks for *)
(* the stored value in the value of the query instead.                     *)
(***************************************************************************)
LikeMatches ==
  stage = "call" /\ message.type = "I" /\ Len(got.conds) = 1 =>
    LET c == got.conds[1] IN
    /\ c.op = LIKE
    /\ c.value # <<>>
    /\ Last(c.value) = Star
    /\ AtLeaf(got.depth, got.leaf)
    /\ \E a \in ToSet(message.attrs) :
         a[1] = c.key /\ IsPrefix(Front(c.value), a[2])
    => message.valid

=============================================================================
