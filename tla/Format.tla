------------------------------- MODULE Format -------------------------------
(***************************************************************************)
(* The texts of the messages: how the parseNew... functions print them and *)
(* how the handlers read them back (DGDB.cpp), and how RDT_UDP cuts them   *)
(* into packets (RDT_UDP_Helper.cpp).  A text is a sequence of characters; *)
(* a character is a signed char, a number from -128 to 127.                *)
(***************************************************************************)
EXTENDS Integers, Sequences, FiniteSets, SequencesExt

NUL == 0
NewLine == 10
Colon == 58
Backslash == 92

TypeOf == (67 :> "C") @@ (82 :> "R") @@ (85 :> "U") @@ (68 :> "D")
            @@ (77 :> "M") @@ (73 :> "I")
Letter(type) == CHOOSE char \in DOMAIN TypeOf : TypeOf[char] = type

\* char('0' + n)
Digit(n) == ((48 + n + 128) % 256) - 128

Decimal(n) ==
  LET text[k \in 0..n] ==
        IF k < 10 THEN <<48 + k>> ELSE Append(text[k \div 10], 48 + (k % 10))
  IN text[n]

\* 2^64 + n has twenty digits; the last one is right for n from -6 on.
Unsigned(n) ==
  <<49,56,52,52,54,55,52,52,48,55,51,55,48,57,53,53,49,54,49>> \o <<48 + 6 + n>>

\* "%0<width>lu"
Printed(width, n) ==
  LET digits == IF n < 0 THEN Unsigned(n) ELSE Decimal(n)
  IN [i \in 1..(width - Len(digits)) |-> 48] \o digits

\* FlattenSeq, for sequences that are long.
RECURSIVE JoinedFrom(_, _, _)
JoinedFrom(seqs, from, to) ==
  IF from > to THEN <<>>
  ELSE IF from = to THEN seqs[from]
  ELSE LET mid == (from + to) \div 2
       IN JoinedFrom(seqs, from, mid) \o JoinedFrom(seqs, mid + 1, to)

Joined(seqs) == JoinedFrom(seqs, 1, Len(seqs))

-----------------------------------------------------------------------------
(***************************************************************************)
(* A message as it is written: pieces that are printed by sprintf into the *)
(* four bytes of tamano, and pieces that are appended as they are.         *)
(***************************************************************************)
Raw(text)     == <<[printed |-> FALSE, text |-> text]>>
Num(width, n) == <<[printed |-> TRUE, text |-> Printed(width, n)]>>

Text(pieces) == Joined([i \in DOMAIN pieces |-> pieces[i].text])

\* Three digits and the NUL that ends them are all that tamano can take.
Overruns(pieces) ==
  \E i \in DOMAIN pieces : pieces[i].printed /\ Len(pieces[i].text) > 3

Each(Piece(_), seq) == Joined([i \in DOMAIN seq |-> Piece(seq[i])])

\* Faulty: a field of two digits.
FaultySized(text) == Num(2, Len(text)) \o Raw(text)

Sized(text) == Num(3, Len(text)) \o Raw(text)
Pair(a) == Sized(a[1]) \o Sized(a[2])

\* Faulty: printed, as the number of hosts is.
FaultyCount(seq) == Num(1, Len(seq))

\* One character, whatever the number.
Count(seq) == Raw(<<Digit(Len(seq))>>)

Flag(b) == Raw(<<IF b THEN 49 ELSE 48>>)

HostText(host) == host.ip \o <<Colon>> \o Decimal(host.port)
Host(host) == Num(2, Len(HostText(host))) \o Raw(HostText(host))
Hosts(hosts) == Num(1, Len(hosts)) \o Each(Host, hosts)

Number(n) ==
  Raw(IF n < 0 THEN <<45>> \o Decimal(-n) ELSE Decimal(n))

ConditionText(c) ==
  Sized(c.key) \o Number(c.op) \o Sized(c.value) \o Flag(c.is_or)

NodePieces(m) ==
  Sized(m.name) \o Count(m.rels) \o Count(m.attrs) \o
  Each(Sized, m.rels) \o Each(Pair, m.attrs) \o Num(3, m.id) \o Hosts(m.hosts)

QueryPieces(m) ==
  Sized(m.name) \o Num(1, m.depth) \o Flag(m.leaf) \o Flag(m.attr) \o
  Num(2, Len(m.conds)) \o Each(ConditionText, m.conds) \o Num(3, m.id)

UpdatePieces(m) ==
  Flag(m.is_node) \o Sized(m.name) \o
  (IF m.is_node THEN <<>> ELSE Sized(m.key)) \o Sized(m.value) \o Num(3, m.id)

DeletePieces(m) ==
  Number(m.object) \o Sized(m.name) \o
  (IF m.object > 0 THEN Sized(m.other) ELSE <<>>) \o
  Num(3, m.id) \o Hosts(m.hosts)

TextPieces(m) == Sized(m.text) \o Num(3, m.id)

InfoPieces(m) ==
  Sized(m.name) \o Count(m.rels) \o Count(m.attrs) \o
  Each(Sized, m.rels) \o Each(Pair, m.attrs) \o
  Num(3, m.id) \o Num(1, IF m.valid THEN 1 ELSE 0)

\* Each of them begins with its letter.
Pieces(m) ==
  Raw(<<Letter(m.type)>>) \o
  CASE m.type = "C" -> NodePieces(m)
    [] m.type = "R" -> QueryPieces(m)
    [] m.type = "U" -> UpdatePieces(m)
    [] m.type = "D" -> DeletePieces(m)
    [] m.type = "M" -> TextPieces(m)
    [] m.type = "I" -> InfoPieces(m)

-----------------------------------------------------------------------------
(***************************************************************************)
(* Reading.  A reader is what is left of the text, the values read so far, *)
(* and whether nothing has thrown.                                         *)
(***************************************************************************)
Start(text) == [rest |-> text, vals |-> <<>>, ok |-> TRUE]

Low(a, b) == IF a < b THEN a ELSE b

\* substr(s, n) and erase(s, n); a negative n is a very large one.
Reach(r, n) == IF n < 0 THEN Len(r.rest) ELSE Low(n, Len(r.rest))

Push(r, n, val, ok) ==
  [rest |-> SubSeq(r.rest, n + 1, Len(r.rest)),
   vals |-> Append(r.vals, val),
   ok   |-> r.ok /\ ok]

TakeText(r, n) == Push(r, Reach(r, n), SubSeq(r.rest, 1, Reach(r, n)), TRUE)

\* stoi: blanks, a sign, digits; without digits it throws.
Space == {32} \cup 9..13

\* From the first character that is, or up to the first that is not.
From(text, Is(_)) == SubSeq(text, SelectInSeq(text \o <<NUL>>, Is), Len(text))
Before(text, Is(_)) == SubSeq(text, 1, SelectInSeq(text \o <<NUL>>, Is) - 1)

Natural(digits, sign) ==
  [val |-> sign * FoldLeft(LAMBDA n, char : 10 * n + char - 48, 0, digits),
   ok  |-> digits # <<>>]

Digits(text) == Before(text, LAMBDA char : char \notin 48..57)

Signed(text) ==
  IF IsPrefix(<<45>>, text) THEN Natural(Digits(Tail(text)), -1)
  ELSE Natural(Digits(IF IsPrefix(<<43>>, text) THEN Tail(text) ELSE text), 1)

Stoi(text) == Signed(From(text, LAMBDA char : char \notin Space))

TakeRead(r, n, read) == Push(r, n, read.val, read.ok)
TakeNumber(r, width) ==
  TakeRead(r, Reach(r, width), Stoi(SubSeq(r.rest, 1, Reach(r, width))))

\* The last value is how long the text is.
TakeCounted(r) == TakeText([r EXCEPT !.vals = Front(@)], Last(r.vals))
TakeSized(r, width) == TakeCounted(TakeNumber(r, width))

\* One character as a number, whatever it is.
TakeChar(r) == Push(r, 1, Head(r.rest \o <<NUL>>) - 48, TRUE)

Absent(r) == Push(r, 0, <<>>, TRUE)

\* stringToHost
HostAt(ip, port) ==
  [host |-> [ip |-> ip, port |-> port.val], ok |-> port.ok]

ToHost(text) ==
  LET colon == SelectInSeq(text, LAMBDA char : char = Colon)
  IN HostAt(IF colon = 0 THEN text ELSE SubSeq(text, 1, colon - 1),
            Stoi(SubSeq(text, colon + 1, Len(text))))

Replace(r, to) ==
  [r EXCEPT !.vals = Append(Front(@), to.host), !.ok = @ /\ to.ok]
HostOf(r) == Replace(r, ToHost(Last(r.vals)))

\* key, operator, value, and what it is combined with
TakeCondition(r) == TakeChar(TakeSized(TakeChar(TakeSized(r, 3)), 3))

Take(r, kind) ==
  CASE kind = "text"      -> TakeSized(r, 3)
    [] kind = "host"      -> HostOf(TakeSized(r, 2))
    [] kind = "condition" -> TakeCondition(r)

\* The same n times, in halves; once stoi has thrown nothing more is read.
RECURSIVE TakeEach(_, _, _)
TakeEach(r, n, kind) ==
  IF n <= 0 \/ ~r.ok THEN r
  ELSE IF n = 1 THEN Take(r, kind)
  ELSE TakeEach(TakeEach(r, n \div 2, kind), n - n \div 2, kind)

\* What they were, as one value.
Nested(r, each) == [each EXCEPT !.vals = Append(r.vals, @)]
TakeSeq(r, n, kind) == Nested(r, TakeEach([r EXCEPT !.vals = <<>>], n, kind))

Pairs(seq) ==
  [i \in 1..(Len(seq) \div 2) |-> <<seq[2 * i - 1], seq[2 * i]>>]

ConditionsOf(seq) ==
  [i \in 1..(Len(seq) \div 4) |->
     [key |-> seq[4 * i - 3], op |-> seq[4 * i - 2], value |-> seq[4 * i - 1],
      is_or |-> seq[4 * i] # 0]]

\* The number read last, and as many of a kind.
TakeMany(r, kind) == TakeSeq(r, Last(r.vals), kind)
TakeHosts(r) == TakeMany(TakeNumber(r, 1), "host")

\* A name, two numbers, as many relations, as many pairs, and the id.
TakeLists(r) == TakeSeq(TakeSeq(r, r.vals[2], "text"), 2 * r.vals[3], "text")
TakeNode(r) ==
  TakeNumber(TakeLists(TakeNumber(TakeNumber(TakeSized(r, 3), 1), 1)), 3)

\* What is there under a condition only.
TakeSizedIf(b, r) == IF b THEN TakeSized(r, 3) ELSE Absent(r)
TakeHostsIf(b, r) == IF b THEN TakeHosts(r) ELSE Absent(r)
TakeKey(r)   == TakeSizedIf(r.vals[1] = 0, r)
TakeOther(r) == TakeSizedIf(r.vals[1] > 0, r)

\* How each handler reads its message, and what it makes of the values.
CreateOf(v) ==
  [type |-> "C", name |-> v[1], rels |-> v[4], attrs |-> Pairs(v[5]),
   id |-> v[6], hosts |-> Last(v)]
ReadCreate(text, repository) ==
  TakeHostsIf(repository, TakeNode(Start(text)))

QueryOf(v) ==
  [type |-> "R", name |-> v[1], depth |-> v[2], leaf |-> v[3] # 0,
   attr |-> v[4] # 0, conds |-> ConditionsOf(v[6]), id |-> v[7]]
ReadQuery(text) ==
  TakeNumber(TakeMany(TakeNumber(TakeNumber(TakeNumber(TakeNumber(
    TakeSized(Start(text), 3), 1), 1), 1), 2), "condition"), 3)

UpdateOf(v) ==
  [type |-> "U", is_node |-> v[1] # 0, name |-> v[2], key |-> v[3],
   value |-> v[4], id |-> v[5]]
ReadUpdate(text) ==
  TakeNumber(TakeSized(TakeKey(TakeSized(TakeChar(Start(text)), 3)), 3), 3)

DeleteOf(v) ==
  [type |-> "D", object |-> v[1], name |-> v[2], other |-> v[3], id |-> v[4],
   hosts |-> Last(v)]
ReadDelete(text, repository) ==
  TakeHostsIf(repository,
    TakeNumber(TakeOther(TakeSized(TakeChar(Start(text)), 3)), 3))

TextOf(v) == [type |-> "M", text |-> v[1], id |-> v[2]]
ReadText(text) == TakeNumber(TakeSized(Start(text), 3), 3)

InfoOf(v) ==
  [type |-> "I", name |-> v[1], rels |-> v[4], attrs |-> Pairs(v[5]),
   id |-> v[6], valid |-> v[7] # 0]
ReadInfo(text) == TakeNumber(TakeNode(Start(text)), 1)

Result(r, Of(_)) ==
  IF r.ok THEN [ok |-> TRUE, msg |-> Of(r.vals)] ELSE [ok |-> FALSE]

ReadMessage(text, repository) ==
  LET type == TypeOf[Head(text)]
      body == Tail(text)
  IN CASE type = "C" -> Result(ReadCreate(body, repository), CreateOf)
       [] type = "R" -> Result(ReadQuery(body), QueryOf)
       [] type = "U" -> Result(ReadUpdate(body), UpdateOf)
       [] type = "D" -> Result(ReadDelete(body, repository), DeleteOf)
       [] type = "M" -> Result(ReadText(body), TextOf)
       [] type = "I" -> Result(ReadInfo(body), InfoOf)

\* The client turns every backslash and n into a line break, and prints all
\* but the first four characters and the last three.
Unescaped(text) ==
  LET breaks == {i \in 1..(Len(text) - 1) :
                   text[i] = Backslash /\ text[i + 1] = 110}
  IN Joined([i \in DOMAIN text |->
               IF i \in breaks THEN <<NewLine>>
               ELSE IF i - 1 \in breaks THEN <<>>
               ELSE <<text[i]>>])

ReadResponse(text) ==
  LET message == Unescaped(text) IN
  [ok  |-> TRUE,
   msg |-> [type |-> "M", text |-> SubSeq(message, 5, Len(message) - 3)]]

-----------------------------------------------------------------------------
(***************************************************************************)
(* The packets of a text.                                                  *)
(***************************************************************************)
PacketLength == 20

SplitData(text) ==
  [i \in 1..((Len(text) + PacketLength - 1) \div PacketLength) |->
     SubSeq(text, PacketLength * (i - 1) + 1,
            Low(PacketLength * i, Len(text)))]

Checksum(data) == FoldLeft(LAMBDA sum, char : (sum + char) % 65536, 0, data)

\* The datagram is a C string at the receiver, and the last field a line.
Received(data) ==
  LET cut == SelectInSeq(data, LAMBDA char : char \in {NUL, NewLine})
  IN IF cut = 0 THEN data ELSE SubSeq(data, 1, cut - 1)

IsCorrupt(data) == Checksum(Received(data)) # Checksum(data)

=============================================================================
