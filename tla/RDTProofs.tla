------------------------------ MODULE RDTProofs ------------------------------
(***************************************************************************)
(* The datagrams and calls of RDT_UDP are well typed for any processes,    *)
(* messages and network; and what RecvFrom gathers of one exchange has no  *)
(* hole, however often datagrams are lost, doubled or sent again.  Between *)
(* processes that keep out of each other's way it implements the channel.  *)
(***************************************************************************)
EXTENDS RDT, SequenceTheorems, FiniteSetTheorems, TLAPS

\* A packet of a message is a datagram, and an acknowledgement is one.
LEMMA DatagramTypes ==
  /\ \A m \in Messages : \A k \in 1..Chunks[m] : PacketOf(m, k) \in Datagram
  /\ \A p \in Procs : \A bit \in {0, 1} : AckPacket(p, bit) \in Datagram
<1>1. ASSUME NEW m \in Messages, NEW k \in 1..Chunks[m]
      PROVE  PacketOf(m, k) \in Datagram
  <2>1. Chunks[m] \in Nat /\ k \in Nat /\ Origin[m] \in Procs
    BY RDTAssumption
  <2>2. (k - 1) % 2 \in {0, 1}
    BY <2>1
  <2>3. [msg |-> m, at |-> k] \in Chunk
    BY DEF Chunk
  <2> QED
    BY <2>1, <2>2, <2>3 DEF PacketOf, Datagram
<1>2. ASSUME NEW p \in Procs, NEW bit \in {0, 1}
      PROVE  AckPacket(p, bit) \in Datagram
  BY DEF AckPacket, Datagram
<1> QED
  BY <1>1, <1>2

\* SendTo is busy with a packet of a message of its own process.
SendsOwn ==
  \A p \in Procs :
    call[p].op = "send" =>
      Origin[call[p].msg] = p /\ call[p].at \in 1..Chunks[call[p].msg]

Typed == TypeOK /\ SendsOwn

\* What the calls are.
LEMMA CallFields ==
  ASSUME Typed, NEW p \in Procs
  PROVE  /\ call[p].op \in {"none", "send", "recv"}
         /\ call[p].op = "none" => call[p] = Idle
         /\ call[p].op = "send" =>
              /\ call[p].msg \in Messages
              /\ call[p].at \in 1..Chunks[call[p].msg]
              /\ Origin[call[p].msg] = p
              /\ call[p] = Sending(call[p].msg, call[p].at)
         /\ call[p].op = "recv" =>
              /\ call[p].bit \in {0, 1}
              /\ call[p].data \in Seq(Chunk)
              /\ call[p].from \in Procs \cup {None}
              /\ call[p] = Receiving(call[p].bit, call[p].data, call[p].from)
<1>1. call[p] \in Calls
  BY DEF Typed, TypeOK
<1> QED
  BY <1>1 DEF Calls, Idle, Sending, Receiving, Typed, SendsOwn

\* Sockets go on to hold datagrams when one goes out.
LEMMA TransmitType ==
  ASSUME Typed, NEW d \in Procs, NEW g \in Datagram,
         NEW box \in [Procs -> Seq(Datagram)], Transmit(d, g, box)
  PROVE  inbox' \in [Procs -> Seq(Datagram)] /\ lost' \in Nat /\ doubled' \in Nat
<1>1. Append(box[d], g) \in Seq(Datagram) /\ box[d] \o <<g, g>> \in Seq(Datagram)
  OBVIOUS
<1>2. \/ inbox' = [box EXCEPT ![d] = Append(box[d], g)]
      \/ inbox' = [box EXCEPT ![d] = box[d] \o <<g, g>>]
      \/ inbox' = box
  BY DEF Transmit
<1>3. inbox' \in [Procs -> Seq(Datagram)]
  BY <1>1, <1>2
<1>4. lost' \in Nat /\ doubled' \in Nat
  BY DEF Transmit, Typed, TypeOK
<1> QED
  BY <1>3, <1>4

\* They do when one is read.
LEMMA PoppedType ==
  ASSUME Typed, NEW p \in Procs, inbox[p] # <<>>
  PROVE  /\ Popped(p) \in [Procs -> Seq(Datagram)]
         /\ Head(inbox[p]) \in Datagram
BY DEF Popped, Typed, TypeOK

\* SendTo(m) keeps Typed.
LEMMA SendToTyped ==
  ASSUME Typed, NEW m \in Messages, SendTo(m)
  PROVE  Typed'
<1>1. /\ 1 \in 1..Chunks[m] /\ Origin[m] \in Procs /\ Target[m] \in Procs
  BY RDTAssumption
<1>2. call' = [call EXCEPT ![Origin[m]] = Sending(m, 1)]
  BY DEF SendTo
<1>3. inbox' \in [Procs -> Seq(Datagram)] /\ lost' \in Nat /\ doubled' \in Nat
  BY <1>1, DatagramTypes, TransmitType DEF SendTo, Typed, TypeOK
<1>4. Sending(m, 1) \in Calls
  BY DEF Sending, Calls
<1>5. call' \in [Procs -> Calls] /\ SendsOwn'
  BY <1>1, <1>2, <1>4 DEF Typed, TypeOK, SendsOwn, Sending
<1>6. sent' \subseteq Messages
  BY DEF SendTo, Typed, TypeOK
<1> QED
  BY <1>3, <1>5, <1>6 DEF Typed, TypeOK, SendTo

\* SendToReads(p) keeps Typed.
LEMMA SendToReadsTyped ==
  ASSUME Typed, NEW p \in Procs, SendToReads(p)
  PROVE  Typed'
<1> DEFINE m == call[p].msg
           k == call[p].at
<1>1. /\ m \in Messages /\ k \in 1..Chunks[m] /\ Origin[m] = p
      /\ Target[m] \in Procs /\ Chunks[m] \in Nat
  BY CallFields, RDTAssumption DEF SendToReads
<1>2. Popped(p) \in [Procs -> Seq(Datagram)]
  BY PoppedType DEF SendToReads
<1>3. CASE /\ k < Chunks[m]
           /\ call' = [call EXCEPT ![p] = Sending(m, k + 1)]
           /\ Transmit(Target[m], PacketOf(m, k + 1), Popped(p))
           /\ UNCHANGED returned
  <2>1. k + 1 \in 1..Chunks[m]
    BY <1>1, <1>3
  <2>2. inbox' \in [Procs -> Seq(Datagram)] /\ lost' \in Nat /\ doubled' \in Nat
    BY <1>1, <1>2, <1>3, <2>1, DatagramTypes, TransmitType
  <2>3. Sending(m, k + 1) \in Calls
    BY <1>1, <2>1 DEF Sending, Calls
  <2>4. call' \in [Procs -> Calls] /\ SendsOwn'
    BY <1>1, <1>3, <2>1, <2>3 DEF Typed, TypeOK, SendsOwn, Sending
  <2> QED
    BY <1>3, <2>2, <2>4 DEF Typed, TypeOK, SendToReads
<1>4. CASE /\ call' = [call EXCEPT ![p] = Idle]
           /\ returned' = returned \cup {m}
           /\ inbox' = Popped(p)
           /\ UNCHANGED <<lost, doubled>>
  <2>1. call' \in [Procs -> Calls] /\ SendsOwn'
    BY <1>4 DEF Typed, TypeOK, SendsOwn, Idle, Calls
  <2> QED
    BY <1>1, <1>2, <1>4, <2>1 DEF Typed, TypeOK, SendToReads
<1>5. CASE inbox' = Popped(p) /\ UNCHANGED <<call, returned, lost, doubled>>
  BY <1>2, <1>5 DEF Typed, TypeOK, SendsOwn, SendToReads
<1> QED
  BY <1>3, <1>4, <1>5 DEF SendToReads

\* SendToResends(p) keeps Typed.
LEMMA SendToResendsTyped ==
  ASSUME Typed, NEW p \in Procs, SendToResends(p)
  PROVE  Typed'
<1> DEFINE m == call[p].msg
<1>1. m \in Messages /\ call[p].at \in 1..Chunks[m] /\ Target[m] \in Procs
  BY CallFields, RDTAssumption DEF SendToResends
<1>2. inbox' \in [Procs -> Seq(Datagram)] /\ lost' \in Nat /\ doubled' \in Nat
  BY <1>1, DatagramTypes, TransmitType DEF SendToResends, Typed, TypeOK
<1> QED
  BY <1>2 DEF SendToResends, Typed, TypeOK, SendsOwn

\* RecvFrom(p) keeps Typed.
LEMMA RecvFromTyped ==
  ASSUME Typed, NEW p \in Procs, RecvFrom(p)
  PROVE  Typed'
<1>1. Receiving(0, <<>>, None) \in Calls
  BY DEF Receiving, Calls
<1> QED
  BY <1>1 DEF RecvFrom, Typed, TypeOK, SendsOwn, netVars, Receiving

\* What RecvFrom returns is typed.
LEMMA ReturnsTyped ==
  ASSUME Typed, NEW p \in Procs, NEW data \in Seq(Chunk),
         NEW from \in Procs \cup {None}, RecvFromReturns(p, data, from)
  PROVE  /\ call' \in [Procs -> Calls]
         /\ SendsOwn'
         /\ delivered' \in
              [Procs -> Seq([from : Procs \cup {None}, data : Seq(Chunk)])]
<1>1. call' \in [Procs -> Calls] /\ SendsOwn'
  BY DEF RecvFromReturns, Typed, TypeOK, SendsOwn, Idle, Calls
<1>2. [from |-> from, data |-> data] \in
        [from : Procs \cup {None}, data : Seq(Chunk)]
  OBVIOUS
<1> DEFINE entry == [from |-> from, data |-> data]
           entries == [from : Procs \cup {None}, data : Seq(Chunk)]
<1>3. delivered[p] \in Seq(entries)
  BY DEF Typed, TypeOK
<1>4. \/ UNCHANGED delivered
      \/ delivered' = [delivered EXCEPT ![p] = Append(delivered[p], entry)]
  BY DEF RecvFromReturns
<1> HIDE DEF entry
<1>5. Append(delivered[p], entry) \in Seq(entries)
  BY <1>2, <1>3 DEF entry
<1> QED
  BY <1>1, <1>4, <1>5 DEF Typed, TypeOK

\* RecvFromReads(p) keeps Typed.
LEMMA RecvFromReadsTyped ==
  ASSUME Typed, NEW p \in Procs, RecvFromReads(p)
  PROVE  Typed'
<1> DEFINE g       == Head(inbox[p])
           bit     == call[p].bit
           data    == IF Fits(p, g) THEN Append(call[p].data, g.chunk)
                                    ELSE call[p].data
           from    == IF call[p].from = None THEN g.from ELSE call[p].from
           nextBit == IF Fits(p, g) THEN 1 - bit ELSE bit
<1>1. /\ g \in Datagram /\ Popped(p) \in [Procs -> Seq(Datagram)]
      /\ bit \in {0, 1} /\ call[p].data \in Seq(Chunk)
      /\ call[p].from \in Procs \cup {None}
  BY PoppedType, CallFields DEF RecvFromReads
<1>2. data \in Seq(Chunk) /\ from \in Procs \cup {None} /\ nextBit \in {0, 1}
  BY <1>1 DEF Fits, Datagram
<1>3. /\ Transmit(g.from, AckPacket(p, 1 - nextBit), Popped(p))
      /\ \/ RecvFromReturns(p, data, from)
         \/ /\ call' = [call EXCEPT ![p] = Receiving(nextBit, data, from)]
            /\ UNCHANGED delivered
      /\ UNCHANGED <<sent, returned>>
  BY DEF RecvFromReads
<1>4. g.from \in Procs
  BY <1>1 DEF Datagram
<1> HIDE DEF g, data, from, nextBit
<1>5. inbox' \in [Procs -> Seq(Datagram)] /\ lost' \in Nat /\ doubled' \in Nat
  <2>1. AckPacket(p, 1 - nextBit) \in Datagram
    BY <1>2, DatagramTypes
  <2> QED
    BY <1>1, <1>3, <1>4, <2>1, TransmitType
<1>6. CASE RecvFromReturns(p, data, from)
  BY <1>2, <1>3, <1>5, <1>6, ReturnsTyped DEF Typed, TypeOK
<1>7. CASE /\ call' = [call EXCEPT ![p] = Receiving(nextBit, data, from)]
           /\ UNCHANGED delivered
  <2>1. Receiving(nextBit, data, from) \in Calls
    BY <1>2 DEF Receiving, Calls
  <2>2. call' \in [Procs -> Calls] /\ SendsOwn'
    BY <1>7, <2>1 DEF Typed, TypeOK, SendsOwn, Receiving
  <2> QED
    BY <1>3, <1>5, <1>7, <2>2 DEF Typed, TypeOK
<1> QED
  BY <1>3, <1>6, <1>7

\* RecvFromEnds(p) keeps Typed.
LEMMA RecvFromEndsTyped ==
  ASSUME Typed, NEW p \in Procs, RecvFromEnds(p)
  PROVE  Typed'
<1>1. call[p].data \in Seq(Chunk) /\ call[p].from \in Procs \cup {None}
  BY CallFields DEF RecvFromEnds
<1> QED
  BY <1>1, ReturnsTyped DEF RecvFromEnds, Typed, TypeOK, netVars

\* Typed is inductive.
THEOREM TypedStep == Typed /\ [Next]_vars => Typed'
<1> SUFFICES ASSUME Typed, [Next]_vars PROVE Typed'
  OBVIOUS
<1>1. CASE UNCHANGED vars
  BY <1>1 DEF vars, netVars, Typed, TypeOK, SendsOwn
<1> QED
  BY <1>1, SendToTyped, SendToReadsTyped, SendToResendsTyped, RecvFromTyped,
     RecvFromReadsTyped, RecvFromEndsTyped DEF Next, Loops

\* Nothing is under way at the start.
THEOREM TypedInit == Init => Typed
BY RDTAssumption DEF Init, Typed, TypeOK, SendsOwn, Idle, Calls

(***************************************************************************)
(* Every datagram is a packet of a message or an acknowledgement, every    *)
(* call is at a packet its message has, whatever the network does.         *)
(***************************************************************************)
THEOREM TypeCorrect == Spec => []TypeOK
<1>1. Typed => TypeOK
  BY DEF Typed
<1> QED
  BY <1>1, TypedInit, TypedStep, PTL DEF Spec

-----------------------------------------------------------------------------
\* The two processes a message is between, and a message being sent.
Ends(m)  == {Origin[m], Target[m]}
Sends(m) == call[Origin[m]].op = "send" /\ call[Origin[m]].msg = m

\* The bits alternate.
LEMMA Alternate ==
  ASSUME NEW k \in Nat \ {0}
  PROVE  /\ k % 2 \in {0, 1} /\ (k - 1) % 2 = 1 - (k % 2)
         /\ (k - 1) % 2 # k % 2
OBVIOUS

\* What RecvFrom sees of a packet.
LEMMA PacketFields ==
  ASSUME NEW m \in Messages, NEW k \in 1..Chunks[m]
  PROVE  LET g == PacketOf(m, k) IN
         /\ g.from = Origin[m] /\ g.bit = (k - 1) % 2
         /\ g.chunk = [msg |-> m, at |-> k] /\ g.chunk # None
         /\ IsShort(g) <=> m \in Brief /\ k = Chunks[m]
<1>1. Chunks[m] \in Nat /\ k \in Nat
  BY RDTAssumption
<1>2. [msg |-> m, at |-> k] \in [msg : Messages, at : Nat]
  BY <1>1
<1>3. [msg |-> m, at |-> k] # None
  BY <1>2, RDTAssumption
<1>4. IsShort(PacketOf(m, k)) <=> m \in Brief /\ k = Chunks[m]
  BY <1>3 DEF IsShort, PacketOf
<1> QED
  BY <1>3, <1>4 DEF PacketOf

-----------------------------------------------------------------------------
(***************************************************************************)
(* What a bad network may do to one exchange.  Datagrams that wait are in  *)
(* the order they were sent, so there is one turn at most, from the        *)
(* copies of one packet to those of the next.                              *)
(***************************************************************************)
Turns(s, X) == \A i, j \in DOMAIN s : i < j /\ s[i] \in X => s[j] \in X

\* What reading a datagram leaves.
LEMMA TailKeeps ==
  ASSUME NEW D, NEW s \in Seq(D), s # <<>>
  PROVE  /\ Head(s) = s[1] /\ 1 \in DOMAIN s
         /\ \A i \in DOMAIN Tail(s) : i + 1 \in DOMAIN s /\ Tail(s)[i] = s[i + 1]
         /\ \A X : Turns(s, X) =>
              /\ Turns(Tail(s), X)
              /\ s[1] \in X => \A i \in DOMAIN Tail(s) : Tail(s)[i] \in X
<1>1. /\ Head(s) = s[1] /\ Len(s) \in Nat /\ Len(s) > 0 /\ DOMAIN s = 1..Len(s)
      /\ DOMAIN Tail(s) = 1..(Len(s) - 1)
      /\ \A i \in 1..(Len(s) - 1) : Tail(s)[i] = s[i + 1]
  BY EmptySeq
<1>2. ASSUME NEW X, Turns(s, X)
      PROVE  /\ Turns(Tail(s), X)
             /\ s[1] \in X => \A i \in DOMAIN Tail(s) : Tail(s)[i] \in X
  <2>1. ASSUME NEW i \in DOMAIN Tail(s), NEW j \in DOMAIN Tail(s), i < j,
               Tail(s)[i] \in X
        PROVE  Tail(s)[j] \in X
    <3>1. i + 1 \in DOMAIN s /\ j + 1 \in DOMAIN s /\ i + 1 < j + 1
      BY <1>1, <2>1
    <3> QED
      BY <1>1, <1>2, <2>1, <3>1 DEF Turns
  <2>2. ASSUME s[1] \in X, NEW i \in DOMAIN Tail(s) PROVE Tail(s)[i] \in X
    <3>1. i + 1 \in DOMAIN s /\ 1 \in DOMAIN s /\ 1 < i + 1
      BY <1>1
    <3> QED
      BY <1>1, <1>2, <2>2, <3>1 DEF Turns
  <2> QED
    BY <2>1, <2>2 DEF Turns
<1> QED
  BY <1>1, <1>2

\* What a datagram adds that goes out, and may be lost or doubled.
Once(g) == {<<>>, <<g>>, <<g, g>>}

LEMMA JoinKeeps ==
  ASSUME NEW D, NEW s \in Seq(D), NEW g \in D, NEW r \in Once(g)
  PROVE  /\ \A i \in DOMAIN (s \o r) :
              \/ (s \o r)[i] = g
              \/ i \in DOMAIN s /\ (s \o r)[i] = s[i]
         /\ \A X : Turns(s, X) /\ (g \in X \/ \A i \in DOMAIN s : s[i] \notin X)
              => Turns(s \o r, X)
<1>1. /\ r \in Seq(D) /\ Len(r) \in Nat
      /\ \A i \in 1..Len(r) : r[i] = g
  <2>1. CASE r = <<>>
    BY <2>1
  <2>2. CASE r = <<g>>
    BY <2>2
  <2>3. CASE r = <<g, g>>
    BY <2>3
  <2> QED
    BY <2>1, <2>2, <2>3 DEF Once
<1>2. /\ Len(s) \in Nat /\ DOMAIN s = 1..Len(s)
      /\ DOMAIN (s \o r) = 1..(Len(s) + Len(r))
      /\ \A i \in 1..Len(s) : (s \o r)[i] = s[i]
      /\ \A i \in (Len(s) + 1)..(Len(s) + Len(r)) : (s \o r)[i] = g
  <2>1. \A i \in (Len(s) + 1)..(Len(s) + Len(r)) : i - Len(s) \in 1..Len(r)
    BY <1>1
  <2> QED
    BY <1>1, <2>1, ConcatProperties, LenProperties
<1>3. \A i \in DOMAIN (s \o r) :
        \/ (s \o r)[i] = g /\ ~(i \in 1..Len(s))
        \/ i \in DOMAIN s /\ (s \o r)[i] = s[i]
  BY <1>1, <1>2
<1>4. ASSUME NEW X, Turns(s, X), g \in X \/ \A i \in DOMAIN s : s[i] \notin X
      PROVE  Turns(s \o r, X)
  <2> SUFFICES ASSUME NEW i \in DOMAIN (s \o r), NEW j \in DOMAIN (s \o r),
                      i < j, (s \o r)[i] \in X
               PROVE  (s \o r)[j] \in X
    BY DEF Turns
  <2>1. CASE g \in X
    <3>1. CASE j \in DOMAIN s
      <4>1. i \in DOMAIN s
        BY <1>1, <1>2, <3>1
      <4> QED
        BY <1>2, <1>4, <3>1, <4>1 DEF Turns
    <3>2. CASE j \notin DOMAIN s
      BY <1>3, <2>1, <3>2
    <3> QED
      BY <3>1, <3>2
  <2>2. CASE g \notin X
    <3>1. i \in DOMAIN s /\ s[i] \in X
      BY <1>3, <2>2
    <3> QED
      BY <1>4, <2>2, <3>1
  <2> QED
    BY <2>1, <2>2
<1> QED
  BY <1>3, <1>4

LEMMA TransmitJoins ==
  ASSUME NEW d \in Procs, NEW g \in Datagram,
         NEW box \in [Procs -> Seq(Datagram)], Transmit(d, g, box)
  PROVE  /\ \E r \in Once(g) : inbox'[d] = box[d] \o r
         /\ \A q \in Procs \ {d} : inbox'[q] = box[q]
<1>1. box[d] \o <<>> = box[d] /\ Append(box[d], g) = box[d] \o <<g>>
  BY ConcatEmptySeq, AppendIsConcat
<1>2. <<>> \in Once(g) /\ <<g>> \in Once(g) /\ <<g, g>> \in Once(g)
  BY DEF Once
<1>3. CASE inbox' = [box EXCEPT ![d] = Append(@, g)]
  BY <1>1, <1>2, <1>3
<1>4. CASE inbox' = box
  BY <1>1, <1>2, <1>4
<1>5. CASE inbox' = [box EXCEPT ![d] = @ \o <<g, g>>]
  BY <1>2, <1>5
<1> QED
  BY <1>3, <1>4, <1>5 DEF Transmit

-----------------------------------------------------------------------------
(***************************************************************************)
(* The exchanges have nothing to do with each other: no two messages share *)
(* an end.  What is left of a message over a bad network could be taken    *)
(* for the beginning of the next one between the same two processes.       *)
(***************************************************************************)
Separate ==
  \A m, n \in Messages :
    Origin[m] # Target[m] /\ (m # n => Ends(m) \cap Ends(n) = {})

\* data is a run of packets of m up to packet a.
RunTo(data, m, a) ==
  \A i \in 1..Len(data) : data[i] = [msg |-> m, at |-> a - Len(data) + i]

\* RecvFrom holds such a run and waits for packet a + 1; or it holds nothing.
HeldAs(data, bit, m, a) ==
  RunTo(data, m, a) /\ bit = IF data = <<>> THEN 0 ELSE a % 2

HeldTo(m, a) ==
  LET c == call[Target[m]] IN
  /\ c.op # "send"
  /\ c.op = "recv" => HeldAs(c.data, c.bit, m, a)

NoData(p) == call[p].op = "recv" => call[p].data = <<>> /\ call[p].bit = 0

(***************************************************************************)
(* SendTo is at packet k, and a, which is k - 1 or k, is the packet the    *)
(* target has answered last.                                               *)
(***************************************************************************)
LastAck(m, k) == AckPacket(Target[m], (k - 1) % 2)

Under(m, k, a) ==
  LET there == inbox[Target[m]]
      back  == inbox[Origin[m]]
  IN
  /\ HeldTo(m, a)
  /\ \A i \in DOMAIN there : there[i] \in {PacketOf(m, k - 1), PacketOf(m, k)}
  /\ Turns(there, {PacketOf(m, k)})
  /\ a = k => \A i \in DOMAIN there : there[i] = PacketOf(m, k)
  /\ a = k - 1 => \A i \in DOMAIN back : back[i] # LastAck(m, k)
  /\ Turns(back, {LastAck(m, k)})

\* Before SendTo, during it, and after it.
Unsent(m) ==
  /\ m \notin sent /\ m \notin returned /\ ~Sends(m)
  /\ inbox[Origin[m]] = <<>> /\ inbox[Target[m]] = <<>>
  /\ call[Target[m]].op # "send" /\ NoData(Target[m])

Underway(m) ==
  /\ m \in sent /\ m \notin returned /\ Sends(m)
  /\ LET k == call[Origin[m]].at IN Under(m, k, k - 1) \/ Under(m, k, k)

Over(m) ==
  /\ m \in sent /\ m \in returned /\ ~Sends(m)
  /\ HeldTo(m, Chunks[m])
  /\ \A i \in DOMAIN inbox[Target[m]] :
       \/ inbox[Target[m]][i] = PacketOf(m, Chunks[m])
       \/ inbox[Target[m]][i].chunk = None

Stage(m) == Unsent(m) \/ Underway(m) \/ Over(m)

\* The ends of m have datagrams from each other, the target the packets.
Addressed(m) ==
  /\ \A i \in DOMAIN inbox[Target[m]] : inbox[Target[m]][i].from = Origin[m]
  /\ \A i \in DOMAIN inbox[Origin[m]] :
       /\ inbox[Origin[m]][i].from = Target[m]
       /\ inbox[Origin[m]][i].chunk = None
  /\ NoData(Origin[m])

Strangers ==
  \A p \in Procs :
    (\A m \in Messages : p \notin Ends(m)) => inbox[p] = <<>> /\ NoData(p)

RunsDelivered ==
  \A p \in Procs : \A i \in DOMAIN delivered[p] :
    \E m \in Messages, a \in Nat : RunTo(delivered[p][i].data, m, a)

FragmentInv ==
  /\ Typed
  /\ \A m \in Messages : Stage(m) /\ Addressed(m)
  /\ Strangers
  /\ RunsDelivered

-----------------------------------------------------------------------------
\* The constants of a message.
LEMMA Wires ==
  ASSUME Separate, NEW m \in Messages
  PROVE  /\ Origin[m] \in Procs /\ Target[m] \in Procs /\ Origin[m] # Target[m]
         /\ Chunks[m] \in Nat /\ Chunks[m] > 0
         /\ \A k \in 1..Chunks[m] : PacketOf(m, k) \in Datagram
BY RDTAssumption, DatagramTypes DEF Separate

\* Packets that follow each other differ, and so do their acknowledgements.
LEMMA NextDiffers ==
  ASSUME NEW m \in Messages, NEW k \in Nat \ {0}
  PROVE  /\ PacketOf(m, k) # PacketOf(m, k - 1)
         /\ k > 1 => LastAck(m, k) # LastAck(m, k - 1)
         /\ LastAck(m, k).bit = PacketOf(m, k).bit
<1>1. PacketOf(m, k).chunk # PacketOf(m, k - 1).chunk
  BY DEF PacketOf
<1>2. k > 1 => LastAck(m, k).bit # LastAck(m, k - 1).bit
  <2> SUFFICES ASSUME k > 1 PROVE LastAck(m, k).bit # LastAck(m, k - 1).bit
    OBVIOUS
  <2>1. k - 1 \in Nat \ {0}
    OBVIOUS
  <2> QED
    BY <2>1, Alternate DEF LastAck, AckPacket
<1> QED
  BY <1>1, <1>2 DEF LastAck, AckPacket, PacketOf

\* A packet more after a run.
LEMMA RunGrows ==
  ASSUME NEW data \in Seq(Chunk), NEW m, NEW a \in Nat, NEW k \in Nat,
         NEW c \in Chunk, c = [msg |-> m, at |-> k],
         RunTo(data, m, a), data = <<>> \/ k = a + 1
  PROVE  RunTo(Append(data, c), m, k) /\ Append(data, c) # <<>>
<1>1. /\ Len(data) \in Nat /\ Len(Append(data, c)) = Len(data) + 1
      /\ \A i \in 1..Len(data) : Append(data, c)[i] = data[i]
      /\ Append(data, c)[Len(data) + 1] = c
  OBVIOUS
<1>2. Append(data, c) # <<>>
  BY <1>1
<1>3. ASSUME NEW i \in 1..Len(Append(data, c))
      PROVE  Append(data, c)[i] = [msg |-> m, at |-> k - Len(Append(data, c)) + i]
  <2>1. CASE i = Len(data) + 1
    BY <1>1, <2>1
  <2>2. CASE i \in 1..Len(data)
    <3>1. data # <<>>
      BY <1>1, <2>2
    <3>2. k = a + 1 /\ data[i] = [msg |-> m, at |-> a - Len(data) + i]
      BY <2>2, <3>1 DEF RunTo
    <3>3. k - (Len(data) + 1) + i = a - Len(data) + i
      BY <1>1, <2>2, <3>2
    <3> QED
      BY <1>1, <2>2, <3>2, <3>3
  <2> QED
    BY <1>1, <2>1, <2>2
<1> QED
  BY <1>2, <1>3 DEF RunTo

(***************************************************************************)
(* RecvFrom reads packet k when it has answered packet k - 1 or k last: it *)
(* goes on to hold a run up to k, and answers k.                           *)
(***************************************************************************)
LEMMA ReadsPacket ==
  ASSUME NEW m \in Messages, NEW k \in 1..Chunks[m], NEW a \in {k - 1, k},
         NEW p \in Procs, call[p].data \in Seq(Chunk),
         HeldAs(call[p].data, call[p].bit, m, a)
  PROVE  LET g       == PacketOf(m, k)
             data    == IF Fits(p, g) THEN Append(call[p].data, g.chunk)
                                      ELSE call[p].data
             nextBit == IF Fits(p, g) THEN 1 - call[p].bit ELSE call[p].bit
         IN  HeldAs(data, nextBit, m, k) /\ 1 - nextBit = (k - 1) % 2
<1> DEFINE g == PacketOf(m, k)
           old == call[p].data
<1>1. Chunks[m] \in Nat /\ k \in Nat \ {0} /\ a \in Nat
  BY RDTAssumption
<1>2. /\ g.bit = (k - 1) % 2 /\ g.chunk # None /\ g.chunk = [msg |-> m, at |-> k]
      /\ g.chunk \in Chunk
  BY PacketFields DEF Chunk
<1>3. k % 2 \in {0, 1} /\ (k - 1) % 2 = 1 - (k % 2)
  BY <1>1, Alternate
<1>4. Fits(p, g) <=> (k - 1) % 2 = call[p].bit
  BY <1>2 DEF Fits
<1>5. RunTo(old, m, a) /\ call[p].bit = IF old = <<>> THEN 0 ELSE a % 2
  BY DEF HeldAs
<1> HIDE DEF g, old
<1>6. CASE Fits(p, g)
  <2>1. old # <<>> => a = k - 1
    BY <1>1, <1>3, <1>4, <1>5, <1>6
  <2>2. RunTo(Append(old, g.chunk), m, k) /\ Append(old, g.chunk) # <<>>
    <3>1. old \in Seq(Chunk) /\ (old = <<>> \/ k = a + 1)
      BY <1>1, <2>1 DEF old
    <3> QED
      BY <1>1, <1>2, <1>5, <3>1, RunGrows
  <2>3. 1 - call[p].bit = k % 2
    BY <1>3, <1>4, <1>6
  <2> QED
    BY <1>3, <1>6, <2>2, <2>3 DEF HeldAs, old, g
<1>7. CASE ~Fits(p, g)
  <2>1. CASE old = <<>>
    <3>1. call[p].bit = 0 /\ (k - 1) % 2 = 1
      BY <1>3, <1>4, <1>5, <1>7, <2>1
    <3>2. RunTo(<<>>, m, k)
      BY DEF RunTo
    <3> QED
      BY <1>7, <2>1, <3>1, <3>2 DEF HeldAs, old, g
  <2>2. CASE old # <<>>
    <3>1. a = k
      BY <1>1, <1>4, <1>5, <1>7, <2>2
    <3>2. RunTo(old, m, k) /\ call[p].bit = k % 2
      BY <1>5, <2>2, <3>1
    <3> QED
      BY <1>3, <1>7, <2>2, <3>2 DEF HeldAs, old, g
  <2> QED
    BY <2>1, <2>2
<1> QED
  BY <1>6, <1>7

-----------------------------------------------------------------------------
\* Stage and Addressed are about the ends of m only.
LEMMA StageKept ==
  ASSUME NEW m \in Messages, Stage(m), Addressed(m),
         \A q \in Ends(m) : call'[q] = call[q] /\ inbox'[q] = inbox[q],
         m \in sent' <=> m \in sent, m \in returned' <=> m \in returned
  PROVE  Stage(m)' /\ Addressed(m)'
<1>1. /\ call'[Target[m]] = call[Target[m]] /\ inbox'[Target[m]] = inbox[Target[m]]
      /\ call'[Origin[m]] = call[Origin[m]] /\ inbox'[Origin[m]] = inbox[Origin[m]]
  BY DEF Ends
<1>2. Addressed(m)'
  BY <1>1 DEF Addressed, NoData
<1>3. /\ Sends(m)' <=> Sends(m)
      /\ NoData(Target[m])' <=> NoData(Target[m])
      /\ \A a : HeldTo(m, a)' <=> HeldTo(m, a)
      /\ \A k, a : Under(m, k, a)' <=> Under(m, k, a)
  BY <1>1 DEF Sends, NoData, HeldTo, Under
<1>4. CASE Unsent(m)
  <2>1. Unsent(m)'
    BY <1>1, <1>3, <1>4 DEF Unsent
  <2> QED
    BY <1>2, <2>1 DEF Stage
<1>5. CASE Underway(m)
  <2>1. Underway(m)'
    BY <1>1, <1>3, <1>5 DEF Underway
  <2> QED
    BY <1>2, <2>1 DEF Stage
<1>6. CASE Over(m)
  <2>1. Over(m)'
    BY <1>1, <1>3, <1>6 DEF Over
  <2> QED
    BY <1>2, <2>1 DEF Stage
<1> QED
  BY <1>4, <1>5, <1>6 DEF Stage

\* A step at the ends of one message.
LEMMA OneMoves ==
  ASSUME Separate, FragmentInv, Typed', NEW m \in Messages,
         Stage(m)', Addressed(m)', RunsDelivered',
         \A q \in Procs \ Ends(m) : call'[q] = call[q] /\ inbox'[q] = inbox[q],
         \A n \in Messages \ {m} :
           (n \in sent' <=> n \in sent) /\ (n \in returned' <=> n \in returned)
  PROVE  FragmentInv'
<1>1. ASSUME NEW n \in Messages \ {m} PROVE Stage(n)' /\ Addressed(n)'
  <2>1. \A q \in Ends(n) : q \in Procs \ Ends(m)
    BY Wires DEF Separate, Ends
  <2>2. Stage(n) /\ Addressed(n)
    BY DEF FragmentInv
  <2> QED
    BY <2>1, <2>2, StageKept
<1>2. Strangers'
  <2> SUFFICES ASSUME NEW p \in Procs, \A n \in Messages : p \notin Ends(n)
               PROVE  inbox'[p] = <<>> /\ NoData(p)'
    BY DEF Strangers, Ends
  <2>1. call'[p] = call[p] /\ inbox'[p] = inbox[p]
    OBVIOUS
  <2> QED
    BY <2>1 DEF FragmentInv, Strangers, NoData
<1> QED
  BY <1>1, <1>2 DEF FragmentInv

\* SendTo is called.
LEMMA SendToFragments ==
  ASSUME Separate, FragmentInv, Typed', NEW m \in Messages, SendTo(m)
  PROVE  FragmentInv'
<1> DEFINE p == Origin[m]
           t == Target[m]
           g == PacketOf(m, 1)
<1>1. /\ p \in Procs /\ t \in Procs /\ p # t /\ g \in Datagram
      /\ call \in [Procs -> Calls] /\ inbox \in [Procs -> Seq(Datagram)]
  <2>1. 1 \in 1..Chunks[m]
    BY Wires
  <2> QED
    BY <2>1, Wires DEF FragmentInv, Typed, TypeOK
<1>2. /\ call[p] = Idle /\ m \notin sent /\ sent' = sent \cup {m}
      /\ call' = [call EXCEPT ![p] = Sending(m, 1)]
      /\ Transmit(t, g, inbox) /\ UNCHANGED <<returned, delivered>>
  BY DEF SendTo
<1>3. Unsent(m) /\ Addressed(m)
  BY <1>2 DEF FragmentInv, Stage, Underway, Over
<1>4. PICK r \in Once(g) : inbox'[t] = inbox[t] \o r
  BY <1>1, <1>2, TransmitJoins
<1>5. \A q \in Procs \ {t} : inbox'[q] = inbox[q]
  BY <1>1, <1>2, TransmitJoins
<1>6. \A i \in DOMAIN inbox'[t] : inbox'[t][i] = g
  <2>1. inbox[t] \in Seq(Datagram) /\ DOMAIN inbox[t] = {}
    BY <1>1, <1>3 DEF Unsent
  <2> QED
    BY <1>1, <1>4, <2>1, JoinKeeps
<1>7. call'[p] = Sending(m, 1) /\ \A q \in Procs \ {p} : call'[q] = call[q]
  BY <1>1, <1>2
<1>8. Under(m, 1, 0)'
  <2>1. HeldTo(m, 0)'
    BY <1>1, <1>3, <1>7 DEF Unsent, NoData, HeldTo, HeldAs, RunTo
  <2>2. inbox'[p] = <<>>
    BY <1>1, <1>3, <1>5 DEF Unsent
  <2>3. Turns(inbox'[t], {g}) /\ Turns(inbox'[p], {LastAck(m, 1)})
    BY <1>6, <2>2 DEF Turns
  <2> QED
    BY <1>6, <2>1, <2>2, <2>3 DEF Under
<1>9. Stage(m)'
  <2>1. Sends(m)' /\ call'[p].at = 1
    BY <1>7 DEF Sends, Sending
  <2>2. m \in sent' /\ m \notin returned'
    BY <1>2, <1>3 DEF Unsent
  <2>3. Under(m, call[p].at, call[p].at - 1)'
    BY <1>8, <2>1
  <2> QED
    BY <2>1, <2>2, <2>3 DEF Stage, Underway
<1>10. Addressed(m)'
  BY <1>1, <1>3, <1>5, <1>6, <1>7 DEF Addressed, Unsent, NoData, Sending, PacketOf
<1>11. \A q \in Procs \ Ends(m) : call'[q] = call[q] /\ inbox'[q] = inbox[q]
  BY <1>5, <1>7 DEF Ends
<1>12. RunsDelivered'
  BY <1>2 DEF FragmentInv, RunsDelivered
<1> QED
  BY <1>2, <1>9, <1>10, <1>11, <1>12, OneMoves

\* Who is in SendTo, and where.
LEMMA Sender ==
  ASSUME Separate, FragmentInv, NEW p \in Procs, call[p].op = "send"
  PROVE  \E m \in Messages : \E k \in 1..Chunks[m] :
           /\ call[p].msg = m /\ call[p].at = k /\ Origin[m] = p
           /\ k \in Nat \ {0} /\ Underway(m) /\ Addressed(m)
           /\ \E a \in {k - 1, k} : Under(m, k, a)
<1>0. PICK m \in Messages : call[p].msg = m
  BY CallFields DEF FragmentInv
<1>1. PICK k \in 1..Chunks[m] :
        call[p].msg = m /\ call[p].at = k /\ Origin[m] = p
  BY <1>0, CallFields DEF FragmentInv
<1>2. k \in Nat \ {0} /\ Stage(m) /\ Addressed(m) /\ Sends(m)
  BY <1>1, Wires DEF FragmentInv, Sends
<1>3. Underway(m)
  BY <1>2 DEF Stage, Unsent, Over
<1>4. Under(m, k, k - 1) \/ Under(m, k, k)
  BY <1>1, <1>3 DEF Underway
<1> QED
  BY <1>1, <1>2, <1>3, <1>4

\* SendTo sends its packet again.
LEMMA ResendsFragments ==
  ASSUME Separate, FragmentInv, Typed', NEW p \in Procs, SendToResends(p)
  PROVE  FragmentInv'
<1>0. PICK m \in Messages : \E k \in 1..Chunks[m] :
        /\ call[p].msg = m /\ call[p].at = k /\ Origin[m] = p
        /\ k \in Nat \ {0} /\ Underway(m) /\ Addressed(m)
        /\ \E a \in {k - 1, k} : Under(m, k, a)
  BY Sender DEF SendToResends
<1>1. PICK k \in 1..Chunks[m] :
        /\ call[p].msg = m /\ call[p].at = k /\ Origin[m] = p
        /\ k \in Nat \ {0} /\ Underway(m) /\ Addressed(m)
        /\ \E a \in {k - 1, k} : Under(m, k, a)
  BY <1>0
<1>2. PICK a \in {k - 1, k} : Under(m, k, a)
  BY <1>1
<1> DEFINE t == Target[m]
           g == PacketOf(m, k)
<1>3. /\ t \in Procs /\ p # t /\ g \in Datagram
      /\ inbox \in [Procs -> Seq(Datagram)] /\ inbox[t] \in Seq(Datagram)
  BY <1>1, Wires DEF FragmentInv, Typed, TypeOK
<1>4. Transmit(t, g, inbox) /\ UNCHANGED <<call, sent, returned, delivered>>
  BY <1>1 DEF SendToResends
<1>5. PICK r \in Once(g) : inbox'[t] = inbox[t] \o r
  BY <1>3, <1>4, TransmitJoins
<1>6. \A q \in Procs \ {t} : inbox'[q] = inbox[q]
  BY <1>3, <1>4, TransmitJoins
<1>7. /\ \A i \in DOMAIN inbox'[t] :
           inbox'[t][i] = g \/ (i \in DOMAIN inbox[t] /\ inbox'[t][i] = inbox[t][i])
      /\ Turns(inbox[t], {g}) => Turns(inbox'[t], {g})
  BY <1>3, <1>5, JoinKeeps
<1>8. Under(m, k, a)'
  <2>1. HeldTo(m, a)' /\ inbox'[p] = inbox[p]
    BY <1>1, <1>2, <1>3, <1>4, <1>6 DEF Under, HeldTo
  <2> QED
    BY <1>1, <1>2, <1>7, <2>1 DEF Under
<1>9. Underway(m)'
  BY <1>1, <1>4, <1>8 DEF Underway, Sends
<1>10. Addressed(m)'
  <2>1. g.from = p
    BY <1>1 DEF PacketOf
  <2> QED
    BY <1>1, <1>3, <1>4, <1>6, <1>7, <2>1 DEF Addressed, NoData
<1>11. RunsDelivered'
  BY <1>4 DEF FragmentInv, RunsDelivered
<1>12. \A q \in Procs \ Ends(m) : call'[q] = call[q] /\ inbox'[q] = inbox[q]
  BY <1>4, <1>6 DEF Ends
<1> QED
  BY <1>4, <1>9, <1>10, <1>11, <1>12, OneMoves DEF Stage

\* SendTo reads a datagram.
LEMMA SendToReadsFragments ==
  ASSUME Separate, FragmentInv, Typed', NEW p \in Procs, SendToReads(p)
  PROVE  FragmentInv'
<1>0. PICK m \in Messages : \E k \in 1..Chunks[m] :
        /\ call[p].msg = m /\ call[p].at = k /\ Origin[m] = p
        /\ k \in Nat \ {0} /\ Underway(m) /\ Addressed(m)
        /\ \E a \in {k - 1, k} : Under(m, k, a)
  BY Sender DEF SendToReads
<1>1. PICK k \in 1..Chunks[m] :
        /\ call[p].msg = m /\ call[p].at = k /\ Origin[m] = p
        /\ k \in Nat \ {0} /\ Underway(m) /\ Addressed(m)
        /\ \E a \in {k - 1, k} : Under(m, k, a)
  BY <1>0
<1>2. PICK a \in {k - 1, k} : Under(m, k, a)
  BY <1>1
<1> DEFINE t == Target[m]
           back == inbox[p]
           there == inbox[t]
<1>3. /\ t \in Procs /\ p # t /\ Chunks[m] \in Nat
      /\ inbox \in [Procs -> Seq(Datagram)] /\ back \in Seq(Datagram)
      /\ there \in Seq(Datagram) /\ back # <<>> /\ call \in [Procs -> Calls]
      /\ call[p].op = "send"
  BY <1>1, Wires DEF FragmentInv, Typed, TypeOK, SendToReads
<1>4. /\ Head(back) = back[1] /\ 1 \in DOMAIN back
      /\ \A i \in DOMAIN Tail(back) : i + 1 \in DOMAIN back /\ Tail(back)[i] = back[i + 1]
      /\ \A X : Turns(back, X) =>
           /\ Turns(Tail(back), X)
           /\ back[1] \in X => \A i \in DOMAIN Tail(back) : Tail(back)[i] \in X
  BY <1>3, TailKeeps
<1>5. /\ Popped(p)[p] = Tail(back) /\ \A q \in Procs \ {p} : Popped(p)[q] = inbox[q]
      /\ Popped(p) \in [Procs -> Seq(Datagram)]
  BY <1>3, PoppedType DEF Popped, FragmentInv
<1>6. UNCHANGED <<sent, delivered>>
  BY DEF SendToReads
<1>7. RunsDelivered'
  BY <1>6 DEF FragmentInv, RunsDelivered
<1>8. /\ \A i \in DOMAIN there : there[i].from = p
      /\ \A i \in DOMAIN Tail(back) : Tail(back)[i].from = t /\ Tail(back)[i].chunk = None
  BY <1>1, <1>4 DEF Addressed
<1>9. CASE Head(back).bit # PacketOf(m, k).bit
  <2>1. inbox' = Popped(p) /\ UNCHANGED <<call, returned>>
    BY <1>1, <1>9 DEF SendToReads
  <2>2. Under(m, k, a)'
    <3>1. HeldTo(m, a)' /\ inbox'[t] = there /\ inbox'[p] = Tail(back)
      BY <1>2, <1>3, <1>5, <2>1 DEF Under, HeldTo
    <3>2. Turns(Tail(back), {LastAck(m, k)})
      BY <1>1, <1>2, <1>4 DEF Under
    <3>3. a = k - 1 => \A i \in DOMAIN Tail(back) : Tail(back)[i] # LastAck(m, k)
      BY <1>1, <1>2, <1>4 DEF Under
    <3> QED
      BY <1>1, <1>2, <3>1, <3>2, <3>3 DEF Under
  <2>3. Underway(m)'
    BY <1>1, <1>6, <2>1, <2>2 DEF Underway, Sends
  <2>4. Addressed(m)'
    <3>1. inbox'[t] = there /\ inbox'[p] = Tail(back)
      BY <1>3, <1>5, <2>1
    <3>2. NoData(p)'
      BY <1>3, <2>1 DEF NoData
    <3> QED
      BY <1>1, <1>8, <3>1, <3>2 DEF Addressed
  <2>5. \A q \in Procs \ Ends(m) : call'[q] = call[q] /\ inbox'[q] = inbox[q]
    BY <1>1, <1>5, <2>1 DEF Ends
  <2> QED
    BY <1>6, <1>7, <2>1, <2>3, <2>4, <2>5, OneMoves DEF Stage
<1>10. ASSUME Head(back).bit = PacketOf(m, k).bit
       PROVE  /\ HeldTo(m, k)
              /\ \A i \in DOMAIN there : there[i] = PacketOf(m, k)
              /\ \A i \in DOMAIN Tail(back) : Tail(back)[i] = LastAck(m, k)
  <2>1. Head(back) = LastAck(m, k)
    <3>1. back[1] \in Datagram /\ back[1].from = t /\ back[1].chunk = None
      BY <1>1, <1>3, <1>4 DEF Addressed
    <3> QED
      BY <1>4, <1>10, <3>1 DEF Datagram, LastAck, AckPacket, PacketOf
  <2>2. a = k
    BY <1>1, <1>2, <1>4, <2>1 DEF Under
  <2> QED
    BY <1>1, <1>2, <1>4, <2>1, <2>2 DEF Under
<1>11. CASE Head(back).bit = PacketOf(m, k).bit /\ k < Chunks[m]
  <2> DEFINE g == PacketOf(m, k + 1)
  <2>1. /\ call' = [call EXCEPT ![p] = Sending(m, k + 1)]
        /\ Transmit(t, g, Popped(p)) /\ UNCHANGED returned
    BY <1>1, <1>11 DEF SendToReads
  <2>2. g \in Datagram /\ g.from = p /\ g # PacketOf(m, k) /\ LastAck(m, k + 1) # LastAck(m, k)
    <3>1. k + 1 \in 1..Chunks[m] /\ k + 1 \in Nat \ {0} /\ k + 1 > 1 /\ (k + 1) - 1 = k
      BY <1>1, <1>3, <1>11
    <3>2. g \in Datagram /\ g.from = p
      BY <1>1, <3>1, Wires DEF PacketOf
    <3> QED
      BY <3>1, <3>2, NextDiffers
  <2>3. PICK r \in Once(g) : inbox'[t] = Popped(p)[t] \o r
    BY <1>3, <1>5, <2>1, <2>2, TransmitJoins
  <2>4. \A q \in Procs \ {t} : inbox'[q] = Popped(p)[q]
    BY <1>3, <1>5, <2>1, <2>2, TransmitJoins
  <2>5. inbox'[t] = there \o r /\ inbox'[p] = Tail(back)
    BY <1>1, <1>3, <1>5, <2>3, <2>4
  <2>6. \A i \in DOMAIN there : there[i] \notin {g}
    BY <1>10, <1>11, <2>2
  <2>7. Turns(there, {g})
    BY <2>6 DEF Turns
  <2> HIDE DEF g
  <2>8. /\ \A i \in DOMAIN inbox'[t] :
             inbox'[t][i] = g \/ (i \in DOMAIN there /\ inbox'[t][i] = there[i])
        /\ Turns(inbox'[t], {g})
    <3>1. there \in Seq(Datagram) /\ g \in Datagram /\ r \in Once(g)
      BY <1>3, <2>2
    <3> HIDE DEF there, t
    <3>2. \A i \in DOMAIN (there \o r) :
            \/ (there \o r)[i] = g
            \/ i \in DOMAIN there /\ (there \o r)[i] = there[i]
      BY <3>1, JoinKeeps
    <3>3. \A X : Turns(there, X) /\ g \in X => Turns(there \o r, X)
      BY <3>1, JoinKeeps
    <3>4. Turns(there \o r, {g})
      BY <2>7, <3>3
    <3> QED
      BY <2>5, <3>2, <3>4
  <2>9. call'[p] = Sending(m, k + 1) /\ \A q \in Procs \ {p} : call'[q] = call[q]
    BY <1>3, <2>1
  <2>10. Under(m, k + 1, k)'
    <3>1. HeldTo(m, k)'
      BY <1>3, <1>10, <1>11, <2>9 DEF HeldTo
    <3>2. \A i \in DOMAIN inbox'[p] : inbox'[p][i] # LastAck(m, k + 1)
      BY <1>10, <1>11, <2>2, <2>5
    <3>3. Turns(inbox'[p], {LastAck(m, k + 1)})
      BY <3>2 DEF Turns
    <3>4. (k + 1) - 1 = k /\ k # k + 1
      BY <1>1
    <3>5. \A i \in DOMAIN inbox'[t] : inbox'[t][i] \in {PacketOf(m, k), g}
      BY <1>10, <1>11, <2>8
    <3> QED
      BY <1>1, <2>8, <3>1, <3>2, <3>3, <3>4, <3>5 DEF Under, g
  <2>11. Underway(m)'
    <3>1. Sends(m)' /\ call'[p].at = k + 1 /\ m \in sent' /\ m \notin returned'
      BY <1>1, <1>6, <2>1, <2>9 DEF Sends, Sending, Underway
    <3>2. (k + 1) - 1 = k
      BY <1>1
    <3> QED
      BY <1>1, <2>10, <3>1, <3>2 DEF Underway
  <2>12. Addressed(m)'
    <3>1. NoData(p)'
      BY <2>9 DEF NoData, Sending
    <3>2. \A i \in DOMAIN inbox'[t] : inbox'[t][i].from = p
      BY <1>8, <2>2, <2>8
    <3>3. \A i \in DOMAIN inbox'[p] : inbox'[p][i].from = t /\ inbox'[p][i].chunk = None
      BY <1>8, <2>5
    <3> QED
      BY <1>1, <3>1, <3>2, <3>3 DEF Addressed
  <2>13. \A q \in Procs \ Ends(m) : call'[q] = call[q] /\ inbox'[q] = inbox[q]
    BY <1>1, <1>5, <2>4, <2>9 DEF Ends
  <2> QED
    BY <1>6, <1>7, <2>1, <2>11, <2>12, <2>13, OneMoves DEF Stage
<1>12. CASE Head(back).bit = PacketOf(m, k).bit /\ ~(k < Chunks[m])
  <2>1. k = Chunks[m]
    BY <1>1, <1>3, <1>12
  <2>2. /\ call' = [call EXCEPT ![p] = Idle] /\ returned' = returned \cup {m}
        /\ inbox' = Popped(p)
    BY <1>1, <1>3, <1>12, <2>1 DEF SendToReads
  <2>3. call'[p] = Idle /\ \A q \in Procs \ {p} : call'[q] = call[q]
    BY <1>3, <2>2
  <2>4. Over(m)'
    <3>1. HeldTo(m, Chunks[m])' /\ inbox'[t] = there
      BY <1>3, <1>5, <1>10, <1>12, <2>1, <2>2, <2>3 DEF HeldTo
    <3>2. m \in sent' /\ m \in returned' /\ ~Sends(m)'
      BY <1>1, <1>6, <2>2, <2>3 DEF Underway, Sends, Idle
    <3> QED
      BY <1>10, <1>12, <2>1, <3>1, <3>2 DEF Over
  <2>5. Addressed(m)'
    <3>1. inbox'[t] = there /\ inbox'[p] = Tail(back)
      BY <1>3, <1>5, <2>2
    <3>2. NoData(p)'
      BY <2>3 DEF NoData, Idle
    <3> QED
      BY <1>1, <1>8, <3>1, <3>2 DEF Addressed
  <2>6. \A q \in Procs \ Ends(m) : call'[q] = call[q] /\ inbox'[q] = inbox[q]
    BY <1>1, <1>5, <2>2, <2>3 DEF Ends
  <2> QED
    BY <1>6, <1>7, <2>2, <2>4, <2>5, <2>6, OneMoves DEF Stage
<1> QED
  BY <1>9, <1>11, <1>12

\* What RecvFrom returns is a run when what it holds is one.
LEMMA ReturnsRun ==
  ASSUME Typed, RunsDelivered, NEW p \in Procs, NEW data, NEW from,
         RecvFromReturns(p, data, from),
         data # <<>> => \E m \in Messages, a \in Nat : RunTo(data, m, a)
  PROVE  RunsDelivered'
<1> DEFINE Entry == [from : Procs \cup {None}, data : Seq(Chunk)]
           x == [from |-> from, data |-> data]
<1>1. delivered \in [Procs -> Seq(Entry)] /\ delivered[p] \in Seq(Entry)
  BY DEF Typed, TypeOK
<1> HIDE DEF Entry
<1>2. CASE data = <<>>
  BY <1>2 DEF RecvFromReturns, RunsDelivered
<1>3. CASE data # <<>>
  <2>1. delivered' = [delivered EXCEPT ![p] = Append(@, x)]
    BY <1>3 DEF RecvFromReturns
  <2>2. PICK m \in Messages, a \in Nat : RunTo(x.data, m, a)
    BY <1>3
  <2> HIDE DEF x
  <2>3. /\ \A q \in Procs \ {p} : delivered'[q] = delivered[q]
        /\ delivered'[p] = Append(delivered[p], x)
    BY <1>1, <2>1
  <2>4. \A i \in DOMAIN delivered'[p] :
          \/ delivered'[p][i] = x
          \/ i \in DOMAIN delivered[p] /\ delivered'[p][i] = delivered[p][i]
    BY <1>1, <2>3
  <2> QED
    BY <2>2, <2>3, <2>4 DEF RunsDelivered
<1> QED
  BY <1>2, <1>3

\* What RecvFrom holds is a run.
LEMMA HoldsRun ==
  ASSUME FragmentInv, Separate, NEW p \in Procs, call[p].op = "recv"
  PROVE  call[p].data # <<>> =>
           \E m \in Messages, a \in Nat : RunTo(call[p].data, m, a)
<1>1. CASE \A m \in Messages : p \notin Ends(m)
  BY <1>1 DEF FragmentInv, Strangers, NoData
<1>2. ASSUME NEW m \in Messages, p = Origin[m]
      PROVE  call[p].data = <<>>
  BY <1>2 DEF FragmentInv, Addressed, NoData
<1>3. ASSUME NEW m \in Messages, p = Target[m]
      PROVE  \/ call[p].data = <<>>
             \/ \E a \in Nat : RunTo(call[p].data, m, a)
  <2>1. Stage(m)
    BY DEF FragmentInv
  <2>2. CASE Unsent(m)
    BY <1>3, <2>2 DEF Unsent, NoData
  <2>3. CASE Underway(m)
    <3>1. /\ call[Origin[m]].op = "send" /\ Origin[m] \in Procs
          /\ call[Origin[m]].msg = m
      BY <2>3, Wires DEF Underway, Sends
    <3>2. PICK k \in 1..Chunks[m] : k = call[Origin[m]].at
      BY <3>1, CallFields DEF FragmentInv
    <3>3. k \in Nat /\ k - 1 \in Nat
      BY Wires
    <3>4. HeldTo(m, k) \/ HeldTo(m, k - 1)
      BY <2>3, <3>2 DEF Underway, Under
    <3> QED
      BY <1>3, <3>3, <3>4 DEF HeldTo, HeldAs
  <2>4. CASE Over(m)
    BY <1>3, <2>4, Wires DEF Over, HeldTo, HeldAs
  <2> QED
    BY <2>1, <2>2, <2>3, <2>4 DEF Stage
<1> QED
  BY <1>1, <1>2, <1>3 DEF Ends

\* RecvFrom begins or ends without a datagram.
LEMMA EmptyHanded ==
  ASSUME Separate, FragmentInv, Typed', NEW p \in Procs, call[p].op # "send",
         \/ call' = [call EXCEPT ![p] = Idle]
         \/ call' = [call EXCEPT ![p] = Receiving(0, <<>>, None)],
         UNCHANGED <<inbox, sent, returned>>, RunsDelivered'
  PROVE  FragmentInv'
<1>1. /\ \A q \in Procs \ {p} : call'[q] = call[q]
      /\ call'[p] \in {Idle, Receiving(0, <<>>, None)}
  BY DEF FragmentInv, Typed, TypeOK
<1>2. NoData(p)' /\ call'[p].op # "send"
  BY <1>1 DEF NoData, Idle, Receiving
<1>3. ASSUME NEW m \in Messages PROVE Stage(m)' /\ Addressed(m)'
  <2>1. Stage(m) /\ Addressed(m) /\ Origin[m] \in Procs /\ Target[m] \in Procs
    BY Wires DEF FragmentInv
  <2>2. CASE p \notin Ends(m)
    <3>1. \A q \in Ends(m) : call'[q] = call[q] /\ inbox'[q] = inbox[q]
      BY <1>1, <2>1, <2>2 DEF Ends
    <3> QED
      BY <2>1, <3>1, StageKept
  <2>3. CASE p \in Ends(m)
    <3>1. Sends(m)' <=> Sends(m)
      BY <1>1, <1>2, <2>1, <2>3 DEF Sends, Ends
    <3>2. NoData(Origin[m]) => NoData(Origin[m])'
      BY <1>1, <1>2, <2>1 DEF NoData
    <3>3. NoData(Target[m]) => NoData(Target[m])'
      BY <1>1, <1>2, <2>1 DEF NoData
    <3>4. \A a : HeldTo(m, a) => HeldTo(m, a)'
      <4>1. CASE p = Target[m]
        BY <1>2, <4>1 DEF HeldTo, HeldAs, RunTo, NoData
      <4>2. CASE p # Target[m]
        BY <1>1, <2>1, <4>2 DEF HeldTo
      <4> QED
        BY <4>1, <4>2
    <3>5. \A k, a : Under(m, k, a) => Under(m, k, a)'
      BY <3>4 DEF Under
    <3>6. Addressed(m)'
      BY <2>1, <3>2 DEF Addressed
    <3>7. CASE Unsent(m)
      BY <1>1, <1>2, <2>1, <3>1, <3>3, <3>6, <3>7 DEF Stage, Unsent
    <3>8. CASE Underway(m)
      <4>1. call'[Origin[m]] = call[Origin[m]]
        BY <1>1, <2>1, <3>8 DEF Underway, Sends
      <4> QED
        BY <3>1, <3>5, <3>6, <3>8, <4>1 DEF Stage, Underway
    <3>9. CASE Over(m)
      BY <3>1, <3>4, <3>6, <3>9 DEF Stage, Over
    <3> QED
      BY <2>1, <3>7, <3>8, <3>9 DEF Stage
  <2> QED
    BY <2>2, <2>3
<1>4. Strangers'
  <2> SUFFICES ASSUME NEW q \in Procs, \A n \in Messages : q \notin Ends(n)
               PROVE  inbox'[q] = <<>> /\ NoData(q)'
    BY DEF Strangers, Ends
  <2>1. inbox[q] = <<>> /\ NoData(q)
    BY DEF FragmentInv, Strangers
  <2> QED
    BY <1>1, <1>2, <2>1 DEF NoData
<1> QED
  BY <1>3, <1>4 DEF FragmentInv

LEMMA RecvFromFragments ==
  ASSUME Separate, FragmentInv, Typed', NEW p \in Procs, RecvFrom(p)
  PROVE  FragmentInv'
<1>1. RunsDelivered'
  BY DEF RecvFrom, FragmentInv, RunsDelivered
<1>2. /\ call[p].op # "send"
      /\ call' = [call EXCEPT ![p] = Receiving(0, <<>>, None)]
      /\ UNCHANGED <<inbox, sent, returned>>
  BY DEF RecvFrom, netVars, Idle
<1> QED
  BY <1>1, <1>2, EmptyHanded

LEMMA RecvFromEndsFragments ==
  ASSUME Separate, FragmentInv, Typed', NEW p \in Procs, RecvFromEnds(p)
  PROVE  FragmentInv'
<1>1. RunsDelivered'
  BY HoldsRun, ReturnsRun DEF RecvFromEnds, FragmentInv
<1> QED
  BY <1>1, EmptyHanded DEF RecvFromEnds, RecvFromReturns, netVars

\* RecvFrom of the target of m reads packet k.
LEMMA TargetReadsPacket ==
  ASSUME Separate, FragmentInv, Typed', NEW m \in Messages,
         NEW k \in 1..Chunks[m], NEW a \in {k - 1, k},
         RecvFromReads(Target[m]), Head(inbox[Target[m]]) = PacketOf(m, k),
         HeldTo(m, a)
  PROVE  /\ \A q \in Procs \ {Target[m]} : call'[q] = call[q]
         /\ HeldTo(m, k)' /\ RunsDelivered'
         /\ Transmit(Origin[m], LastAck(m, k), Popped(Target[m]))
<1> DEFINE t == Target[m]
           g == PacketOf(m, k)
           data    == IF Fits(t, g) THEN Append(call[t].data, g.chunk)
                                    ELSE call[t].data
           from    == IF call[t].from = None THEN g.from ELSE call[t].from
           nextBit == IF Fits(t, g) THEN 1 - call[t].bit ELSE call[t].bit
<1>0. /\ t \in Procs /\ call[t].op = "recv" /\ Typed /\ RunsDelivered
      /\ Chunks[m] \in Nat
  BY Wires DEF FragmentInv, RecvFromReads
<1>1. /\ t \in Procs /\ call \in [Procs -> Calls] /\ call[t].op = "recv"
      /\ call[t].data \in Seq(Chunk) /\ Typed /\ RunsDelivered
      /\ HeldAs(call[t].data, call[t].bit, m, a)
  BY <1>0, CallFields DEF Typed, TypeOK, HeldTo
<1>2. HeldAs(data, nextBit, m, k) /\ 1 - nextBit = (k - 1) % 2
  BY <1>1, ReadsPacket
<1>3. /\ Transmit(g.from, AckPacket(t, 1 - nextBit), Popped(t))
      /\ \/ IsShort(g) /\ RecvFromReturns(t, data, from)
         \/ /\ ~IsShort(g)
            /\ call' = [call EXCEPT ![t] = Receiving(nextBit, data, from)]
            /\ UNCHANGED delivered
  BY DEF RecvFromReads
<1>4. g.from = Origin[m]
  BY DEF PacketOf
<1> HIDE DEF g, data, from, nextBit
<1>5. Transmit(Origin[m], LastAck(m, k), Popped(t))
  BY <1>2, <1>3, <1>4 DEF LastAck
<1>6. CASE RecvFromReturns(t, data, from)
  <2>1. call' = [call EXCEPT ![t] = Idle]
    BY <1>6 DEF RecvFromReturns
  <2>2. HeldTo(m, k)'
    BY <1>1, <2>1 DEF HeldTo, Idle
  <2>3. RunsDelivered'
    BY <1>1, <1>2, <1>6, ReturnsRun DEF HeldAs
  <2> QED
    BY <1>1, <1>5, <2>1, <2>2, <2>3
<1>7. CASE /\ call' = [call EXCEPT ![t] = Receiving(nextBit, data, from)]
           /\ UNCHANGED delivered
  <2>1. HeldTo(m, k)'
    BY <1>1, <1>2, <1>7 DEF HeldTo, Receiving
  <2>2. RunsDelivered'
    BY <1>1, <1>7 DEF RunsDelivered
  <2> QED
    BY <1>1, <1>5, <1>7, <2>1, <2>2
<1> QED
  BY <1>3, <1>6, <1>7

\* RecvFrom reads an acknowledgement: it ends, and answers.
LEMMA ReadsAck ==
  ASSUME Separate, FragmentInv, Typed', NEW p \in Procs,
         RecvFromReads(p), Head(inbox[p]).chunk = None
  PROVE  /\ call' = [call EXCEPT ![p] = Idle] /\ RunsDelivered'
         /\ \E bit \in {0, 1} :
              Transmit(Head(inbox[p]).from, AckPacket(p, bit), Popped(p))
<1> DEFINE g == Head(inbox[p])
<1>1. ~Fits(p, g) /\ IsShort(g) /\ call[p].op = "recv"
  BY DEF Fits, IsShort, RecvFromReads
<1>2. PICK from : RecvFromReturns(p, call[p].data, from)
  BY <1>1 DEF RecvFromReads
<1>3. call[p].bit \in {0, 1}
  BY <1>1, CallFields DEF FragmentInv
<1>4. /\ Transmit(g.from, AckPacket(p, 1 - call[p].bit), Popped(p))
      /\ 1 - call[p].bit \in {0, 1}
  BY <1>1, <1>3 DEF RecvFromReads
<1>5. RunsDelivered'
  BY <1>1, <1>2, HoldsRun, ReturnsRun DEF FragmentInv
<1> QED
  BY <1>2, <1>4, <1>5 DEF RecvFromReturns

\* A datagram that waits is for an end of a message that was sent.
LEMMA Waits ==
  ASSUME FragmentInv, NEW p \in Procs, inbox[p] # <<>>
  PROVE  \E m \in Messages : p \in Ends(m) /\ (Underway(m) \/ Over(m)) /\ Addressed(m)
<1>1. PICK m \in Messages : p \in Ends(m)
  BY DEF FragmentInv, Strangers
<1> QED
  BY <1>1 DEF FragmentInv, Stage, Unsent, Ends

\* RecvFrom reads a datagram while SendTo is under way.
LEMMA ReadsUnderway ==
  ASSUME Separate, FragmentInv, Typed', NEW m \in Messages, Underway(m),
         Addressed(m), RecvFromReads(Target[m])
  PROVE  FragmentInv'
<1> DEFINE p == Origin[m]
           t == Target[m]
           back == inbox[p]
           there == inbox[t]
<1>1. /\ p \in Procs /\ t \in Procs /\ p # t /\ Chunks[m] \in Nat
      /\ inbox \in [Procs -> Seq(Datagram)] /\ back \in Seq(Datagram)
      /\ there \in Seq(Datagram) /\ there # <<>> /\ Typed /\ Sends(m)
  BY Wires DEF FragmentInv, Typed, TypeOK, RecvFromReads, Underway
<1>2. PICK k \in 1..Chunks[m] : k = call[p].at
  BY <1>1, CallFields DEF Sends
<1>3. k \in Nat \ {0}
  BY <1>1
<1>4. PICK a \in {k - 1, k} : Under(m, k, a)
  BY <1>2 DEF Underway
<1>5. /\ Head(there) = there[1] /\ 1 \in DOMAIN there
      /\ \A i \in DOMAIN Tail(there) : i + 1 \in DOMAIN there /\ Tail(there)[i] = there[i + 1]
      /\ \A X : Turns(there, X) =>
           /\ Turns(Tail(there), X)
           /\ there[1] \in X => \A i \in DOMAIN Tail(there) : Tail(there)[i] \in X
  BY <1>1, TailKeeps
<1>6. /\ Popped(t)[t] = Tail(there) /\ \A q \in Procs \ {t} : Popped(t)[q] = inbox[q]
      /\ Popped(t) \in [Procs -> Seq(Datagram)]
  BY <1>1, PoppedType DEF Popped
<1>7. PICK j \in {k - 1, k} : Head(there) = PacketOf(m, j)
  BY <1>4, <1>5 DEF Under
<1>8. j \in 1..Chunks[m]
  <2>1. j # 0
    <3> SUFFICES ASSUME j = 0 PROVE FALSE
      OBVIOUS
    <3>1. Head(there) \in Datagram /\ Head(there).chunk = [msg |-> m, at |-> 0]
      BY <1>1, <1>7, PoppedType DEF PacketOf
    <3>2. [msg |-> m, at |-> 0] \in [msg : Messages, at : Nat]
      OBVIOUS
    <3>3. [msg |-> m, at |-> 0] \in Chunk
      BY <3>1, <3>2, RDTAssumption DEF Datagram
    <3>4. PICK n \in Messages :
            [msg |-> m, at |-> 0] \in {[msg |-> n, at |-> i] : i \in 1..Chunks[n]}
      BY <3>3 DEF Chunk
    <3>5. PICK i \in 1..Chunks[n] : [msg |-> m, at |-> 0] = [msg |-> n, at |-> i]
      BY <3>4
    <3> QED
      BY <3>5, Wires
  <2> QED
    BY <1>1, <1>3, <2>1
<1>9. a \in {j - 1, j}
  <2>1. CASE a = k
    <3>1. there[1] = PacketOf(m, k) /\ PacketOf(m, k) # PacketOf(m, k - 1)
      BY <1>3, <1>4, <1>5, <2>1, NextDiffers DEF Under
    <3> QED
      BY <1>5, <1>7, <2>1, <3>1
  <2>2. CASE a = k - 1
    BY <1>7, <2>2
  <2> QED
    BY <2>1, <2>2
<1>10. /\ \A q \in Procs \ {t} : call'[q] = call[q]
       /\ HeldTo(m, j)' /\ RunsDelivered'
       /\ Transmit(p, LastAck(m, j), Popped(t))
  BY <1>4, <1>7, <1>8, <1>9, TargetReadsPacket DEF Under
<1>11. LastAck(m, j) \in Datagram
  <2>1. (j - 1) % 2 \in {0, 1}
    BY <1>8
  <2> QED
    BY <1>1, <2>1, DatagramTypes DEF LastAck
<1>12. PICK r \in Once(LastAck(m, j)) : inbox'[p] = Popped(t)[p] \o r
  BY <1>1, <1>6, <1>10, <1>11, TransmitJoins
<1>13. \A q \in Procs \ {p} : inbox'[q] = Popped(t)[q]
  BY <1>1, <1>6, <1>10, <1>11, TransmitJoins
<1>14. inbox'[p] = back \o r /\ inbox'[t] = Tail(there)
  BY <1>1, <1>6, <1>12, <1>13
<1>15. /\ \A i \in DOMAIN inbox'[p] :
            \/ inbox'[p][i] = LastAck(m, j)
            \/ i \in DOMAIN back /\ inbox'[p][i] = back[i]
       /\ \A X : Turns(back, X) /\ (LastAck(m, j) \in X \/ \A i \in DOMAIN back : back[i] \notin X)
            => Turns(inbox'[p], X)
  BY <1>1, <1>11, <1>14, JoinKeeps
<1>16. Under(m, k, j)'
  <2>1. \A i \in DOMAIN inbox'[t] : inbox'[t][i] \in {PacketOf(m, k - 1), PacketOf(m, k)}
    BY <1>4, <1>5, <1>14 DEF Under
  <2>2. /\ Turns(inbox'[t], {PacketOf(m, k)})
        /\ j = k => \A i \in DOMAIN inbox'[t] : inbox'[t][i] = PacketOf(m, k)
    BY <1>4, <1>5, <1>7, <1>14 DEF Under
  <2>3. CASE j = k
    BY <1>3, <1>4, <1>10, <1>15, <2>1, <2>2, <2>3 DEF Under
  <2>4. CASE j = k - 1
    <3>1. k > 1 /\ LastAck(m, j) # LastAck(m, k)
      BY <1>3, <1>8, <2>4, NextDiffers
    <3>2. a = k - 1
      BY <1>3, <1>9, <2>4
    <3>3. \A i \in DOMAIN back : back[i] # LastAck(m, k)
      BY <1>4, <3>2 DEF Under
    <3>4. \A i \in DOMAIN inbox'[p] : inbox'[p][i] # LastAck(m, k)
      BY <1>15, <3>1, <3>3
    <3>5. Turns(inbox'[p], {LastAck(m, k)})
      BY <3>4 DEF Turns
    <3> QED
      BY <1>3, <1>10, <2>1, <2>2, <2>4, <3>4, <3>5 DEF Under
  <2> QED
    BY <2>3, <2>4
<1>17. call'[p] = call[p] /\ UNCHANGED <<sent, returned>>
  BY <1>1, <1>10 DEF RecvFromReads
<1>18. Underway(m)'
  BY <1>2, <1>7, <1>16, <1>17 DEF Underway, Sends
<1>19. Addressed(m)'
  <2>1. LastAck(m, j).from = t /\ LastAck(m, j).chunk = None
    BY DEF LastAck, AckPacket
  <2> QED
    BY <1>5, <1>14, <1>15, <1>17, <2>1 DEF Addressed, NoData
<1>20. \A q \in Procs \ Ends(m) : call'[q] = call[q] /\ inbox'[q] = inbox[q]
  BY <1>6, <1>10, <1>13 DEF Ends
<1> QED
  BY <1>10, <1>17, <1>18, <1>19, <1>20, OneMoves DEF Stage

\* What the sockets hold when p has read a datagram and answered with g.
LEMMA Answered ==
  ASSUME Typed, NEW p \in Procs, NEW o \in Procs \ {p}, NEW g \in Datagram,
         inbox[p] # <<>>, Transmit(o, g, Popped(p))
  PROVE  /\ Head(inbox[p]) = inbox[p][1] /\ 1 \in DOMAIN inbox[p]
         /\ \A i \in DOMAIN inbox'[p] :
              i + 1 \in DOMAIN inbox[p] /\ inbox'[p][i] = inbox[p][i + 1]
         /\ \A i \in DOMAIN inbox'[o] :
              \/ inbox'[o][i] = g
              \/ i \in DOMAIN inbox[o] /\ inbox'[o][i] = inbox[o][i]
         /\ \A q \in Procs \ {p, o} : inbox'[q] = inbox[q]
<1>1. /\ inbox \in [Procs -> Seq(Datagram)]
      /\ inbox[p] \in Seq(Datagram) /\ inbox[o] \in Seq(Datagram)
  BY DEF Typed, TypeOK
<1>2. /\ Popped(p)[p] = Tail(inbox[p]) /\ \A q \in Procs \ {p} : Popped(p)[q] = inbox[q]
      /\ Popped(p) \in [Procs -> Seq(Datagram)]
  BY <1>1, PoppedType DEF Popped
<1>3. /\ Head(inbox[p]) = inbox[p][1] /\ 1 \in DOMAIN inbox[p]
      /\ \A i \in DOMAIN Tail(inbox[p]) :
           i + 1 \in DOMAIN inbox[p] /\ Tail(inbox[p])[i] = inbox[p][i + 1]
  BY <1>1, TailKeeps
<1>4. /\ \E r \in Once(g) : inbox'[o] = Popped(p)[o] \o r
      /\ \A q \in Procs \ {o} : inbox'[q] = Popped(p)[q]
  BY <1>2, TransmitJoins
<1>5. PICK r \in Once(g) : inbox'[o] = inbox[o] \o r
  BY <1>2, <1>4
<1>6. \A i \in DOMAIN inbox'[o] :
        \/ inbox'[o][i] = g
        \/ i \in DOMAIN inbox[o] /\ inbox'[o][i] = inbox[o][i]
  BY <1>1, <1>5, JoinKeeps
<1> QED
  BY <1>2, <1>3, <1>4, <1>6

\* RecvFrom of the target reads a datagram when SendTo is over.
LEMMA TargetReadsOver ==
  ASSUME Separate, FragmentInv, Typed', NEW m \in Messages, Over(m),
         Addressed(m), RecvFromReads(Target[m])
  PROVE  FragmentInv'
<1> DEFINE p == Target[m]
           o == Origin[m]
           K == Chunks[m]
           g == Head(inbox[p])
<1>1. /\ p \in Procs /\ o \in Procs /\ p # o /\ K \in 1..Chunks[m] /\ K \in Nat
      /\ inbox[p] # <<>> /\ Typed /\ inbox[p] \in Seq(Datagram)
      /\ call \in [Procs -> Calls]
  <2>1. p \in Procs /\ o \in Procs /\ p # o /\ K \in 1..Chunks[m] /\ K \in Nat
    BY Wires
  <2>2. Typed /\ inbox[p] # <<>>
    BY DEF FragmentInv, RecvFromReads
  <2>3. inbox[p] \in Seq(Datagram) /\ call \in [Procs -> Calls]
    BY <2>1, <2>2 DEF Typed, TypeOK
  <2> QED
    BY <2>1, <2>2, <2>3
<1>2. g = inbox[p][1] /\ 1 \in DOMAIN inbox[p]
  BY <1>1, TailKeeps
<1>3. g.from = o /\ (g = PacketOf(m, K) \/ g.chunk = None)
  BY <1>2 DEF Addressed, Over
<1>4. UNCHANGED <<sent, returned>>
  BY DEF RecvFromReads
<1>5. /\ \A q \in Procs \ {p} : call'[q] = call[q]
      /\ HeldTo(m, K)' /\ RunsDelivered'
      /\ \E bit \in {0, 1} : Transmit(o, AckPacket(p, bit), Popped(p))
  <2>1. CASE g.chunk = None
    <3>1. /\ call' = [call EXCEPT ![p] = Idle] /\ RunsDelivered'
          /\ \E bit \in {0, 1} : Transmit(o, AckPacket(p, bit), Popped(p))
      BY <1>1, <1>3, <2>1, ReadsAck
    <3>2. call'[p] = Idle /\ \A q \in Procs \ {p} : call'[q] = call[q]
      BY <1>1, <3>1
    <3> QED
      BY <3>1, <3>2 DEF HeldTo, Idle
  <2>2. CASE g = PacketOf(m, K)
    <3>1. /\ \A q \in Procs \ {p} : call'[q] = call[q]
          /\ HeldTo(m, K)' /\ RunsDelivered'
          /\ Transmit(o, LastAck(m, K), Popped(p))
      BY <1>1, <2>2, TargetReadsPacket DEF Over
    <3>2. (K - 1) % 2 \in {0, 1} /\ LastAck(m, K) = AckPacket(p, (K - 1) % 2)
      BY <1>1 DEF LastAck
    <3> QED
      BY <3>1, <3>2
  <2> QED
    BY <1>3, <2>1, <2>2
<1>6. PICK bit \in {0, 1} : Transmit(o, AckPacket(p, bit), Popped(p))
  BY <1>5
<1> DEFINE x == AckPacket(p, bit)
<1>7. x \in Datagram /\ x.from = p /\ x.chunk = None
  BY <1>1, DatagramTypes DEF AckPacket
<1> HIDE DEF x
<1>8. /\ \A i \in DOMAIN inbox'[p] :
           i + 1 \in DOMAIN inbox[p] /\ inbox'[p][i] = inbox[p][i + 1]
      /\ \A i \in DOMAIN inbox'[o] :
           \/ inbox'[o][i] = x
           \/ i \in DOMAIN inbox[o] /\ inbox'[o][i] = inbox[o][i]
      /\ \A q \in Procs \ {p, o} : inbox'[q] = inbox[q]
  <2>1. Transmit(o, x, Popped(p))
    BY <1>6 DEF x
  <2> QED
    BY <1>1, <1>7, <2>1, Answered
<1>9. call'[o] = call[o]
  BY <1>1, <1>5
<1>10. Over(m)'
  BY <1>4, <1>5, <1>8, <1>9 DEF Over, Sends
<1>11. Addressed(m)'
  BY <1>7, <1>8, <1>9 DEF Addressed, NoData
<1>12. \A q \in Procs \ Ends(m) : call'[q] = call[q] /\ inbox'[q] = inbox[q]
  BY <1>5, <1>8 DEF Ends
<1> QED
  BY <1>4, <1>5, <1>10, <1>11, <1>12, OneMoves DEF Stage

\* RecvFrom of the origin reads a datagram when SendTo is over: it can only
\* be an acknowledgement.
LEMMA OriginReadsOver ==
  ASSUME Separate, FragmentInv, Typed', NEW m \in Messages, Over(m),
         Addressed(m), RecvFromReads(Origin[m])
  PROVE  FragmentInv'
<1> DEFINE p == Origin[m]
           o == Target[m]
           K == Chunks[m]
           g == Head(inbox[p])
<1>1. /\ p \in Procs /\ o \in Procs /\ p # o /\ inbox[p] # <<>> /\ Typed
      /\ inbox[p] \in Seq(Datagram) /\ call \in [Procs -> Calls]
  BY Wires DEF FragmentInv, Typed, TypeOK, RecvFromReads
<1>2. g = inbox[p][1] /\ 1 \in DOMAIN inbox[p]
  BY <1>1, TailKeeps
<1>3. g.from = o /\ g.chunk = None
  BY <1>2 DEF Addressed
<1>4. UNCHANGED <<sent, returned>>
  BY DEF RecvFromReads
<1>5. /\ call' = [call EXCEPT ![p] = Idle] /\ RunsDelivered'
      /\ \E bit \in {0, 1} : Transmit(o, AckPacket(p, bit), Popped(p))
  BY <1>1, <1>3, ReadsAck
<1>6. PICK bit \in {0, 1} : Transmit(o, AckPacket(p, bit), Popped(p))
  BY <1>5
<1> DEFINE x == AckPacket(p, bit)
<1>7. x \in Datagram /\ x.from = p /\ x.chunk = None
  BY <1>1, DatagramTypes DEF AckPacket
<1> HIDE DEF x
<1>8. /\ \A i \in DOMAIN inbox'[p] :
           i + 1 \in DOMAIN inbox[p] /\ inbox'[p][i] = inbox[p][i + 1]
      /\ \A i \in DOMAIN inbox'[o] :
           \/ inbox'[o][i] = x
           \/ i \in DOMAIN inbox[o] /\ inbox'[o][i] = inbox[o][i]
      /\ \A q \in Procs \ {p, o} : inbox'[q] = inbox[q]
  <2>1. Transmit(o, x, Popped(p))
    BY <1>6 DEF x
  <2> QED
    BY <1>1, <1>7, <2>1, Answered
<1>9. call'[p] = Idle /\ \A q \in Procs \ {p} : call'[q] = call[q]
  BY <1>1, <1>5
<1>10. Over(m)'
  <2>1. HeldTo(m, K)' /\ ~Sends(m)'
    BY <1>1, <1>9 DEF Over, HeldTo, Sends, Idle
  <2> QED
    BY <1>4, <1>7, <1>8, <2>1 DEF Over
<1>11. Addressed(m)'
  BY <1>7, <1>8, <1>9 DEF Addressed, NoData, Idle
<1>12. \A q \in Procs \ Ends(m) : call'[q] = call[q] /\ inbox'[q] = inbox[q]
  BY <1>8, <1>9 DEF Ends
<1> QED
  BY <1>4, <1>5, <1>10, <1>11, <1>12, OneMoves DEF Stage

LEMMA RecvFromReadsFragments ==
  ASSUME Separate, FragmentInv, Typed', NEW p \in Procs, RecvFromReads(p)
  PROVE  FragmentInv'
<1>1. PICK m \in Messages : p \in Ends(m) /\ (Underway(m) \/ Over(m)) /\ Addressed(m)
  BY Waits DEF RecvFromReads
<1>2. CASE Underway(m)
  <2>1. p = Target[m]
    BY <1>1, <1>2 DEF Ends, Underway, Sends, RecvFromReads
  <2> QED
    BY <1>1, <1>2, <2>1, ReadsUnderway
<1>3. CASE Over(m)
  BY <1>1, <1>3, OriginReadsOver, TargetReadsOver DEF Ends
<1> QED
  BY <1>1, <1>2, <1>3

\* FragmentInv is inductive.
LEMMA FragmentStep ==
  ASSUME Separate, FragmentInv, [Next]_vars
  PROVE  FragmentInv'
<1>1. Typed'
  BY TypedStep DEF FragmentInv
<1>2. CASE UNCHANGED vars
  <2>1. UNCHANGED <<call, inbox, sent, returned, delivered>>
    BY <1>2 DEF vars, netVars
  <2>2. \A m \in Messages : Stage(m)' /\ Addressed(m)'
    BY <2>1, StageKept DEF FragmentInv
  <2> QED
    BY <1>1, <2>1, <2>2 DEF FragmentInv, Strangers, NoData, RunsDelivered
<1>3. ASSUME NEW m \in Messages, SendTo(m) PROVE FragmentInv'
  BY <1>1, <1>3, SendToFragments
<1>4. ASSUME NEW p \in Procs, SendToReads(p) PROVE FragmentInv'
  BY <1>1, <1>4, SendToReadsFragments
<1>5. ASSUME NEW p \in Procs, SendToResends(p) PROVE FragmentInv'
  BY <1>1, <1>5, ResendsFragments
<1>6. ASSUME NEW p \in Procs, RecvFrom(p) PROVE FragmentInv'
  BY <1>1, <1>6, RecvFromFragments
<1>7. ASSUME NEW p \in Procs, RecvFromReads(p) PROVE FragmentInv'
  BY <1>1, <1>7, RecvFromReadsFragments
<1>8. ASSUME NEW p \in Procs, RecvFromEnds(p) PROVE FragmentInv'
  BY <1>1, <1>8, RecvFromEndsFragments
<1> QED
  BY <1>2, <1>3, <1>4, <1>5, <1>6, <1>7, <1>8 DEF Next, Loops

\* A run has no hole.
LEMMA RunIsOne ==
  ASSUME NEW data \in Seq(Chunk), NEW m \in Messages, NEW a \in Nat,
         RunTo(data, m, a), NEW k \in 1..(Len(data) - 1)
  PROVE  data[k + 1].msg = data[k].msg /\ data[k + 1].at = data[k].at + 1
<1>1. Len(data) \in Nat /\ k \in 1..Len(data) /\ k + 1 \in 1..Len(data)
  OBVIOUS
<1>2. /\ data[k] = [msg |-> m, at |-> a - Len(data) + k]
      /\ data[k + 1] = [msg |-> m, at |-> a - Len(data) + (k + 1)]
  BY <1>1 DEF RunTo
<1> QED
  BY <1>1, <1>2

(***************************************************************************)
(* What RecvFrom gathers is a run of consecutive packets of one message,   *)
(* for messages of any length and any number of losses and copies, between *)
(* processes that exchange one message.                                    *)
(***************************************************************************)
THEOREM NoHoles ==
  ASSUME Separate
  PROVE  Spec => []OneFragment
<1>1. Init => FragmentInv
  <2>1. Init => Typed
    BY TypedInit
  <2>2. ASSUME Init PROVE FragmentInv
    <3>1. \A p \in Procs : call[p] = Idle /\ inbox[p] = <<>> /\ delivered[p] = <<>>
      BY <2>2 DEF Init
    <3>2. \A m \in Messages : Stage(m) /\ Addressed(m)
      BY <2>2, <3>1, Wires DEF Init, Stage, Unsent, Addressed, NoData, Sends, Idle
    <3> QED
      BY <2>1, <2>2, <3>1, <3>2 DEF FragmentInv, Strangers, NoData, RunsDelivered, Idle
  <2> QED
    BY <2>2
<1>2. FragmentInv /\ [Next]_vars => FragmentInv'
  BY FragmentStep
<1>3. ASSUME FragmentInv PROVE OneFragment
  <2> SUFFICES ASSUME NEW p \in Procs, NEW data \in Buffers(p),
                      NEW k \in 1..(Len(data) - 1)
               PROVE  data[k + 1].msg = data[k].msg /\ data[k + 1].at = data[k].at + 1
    BY DEF OneFragment
  <2>1. data \in Seq(Chunk)
    <3>1. CASE \E i \in DOMAIN delivered[p] : data = delivered[p][i].data
      <4> DEFINE Entry == [from : Procs \cup {None}, data : Seq(Chunk)]
      <4>1. delivered[p] \in Seq(Entry)
        BY <1>3 DEF FragmentInv, Typed, TypeOK
      <4>2. PICK i \in DOMAIN delivered[p] : data = delivered[p][i].data
        BY <3>1
      <4>3. delivered[p][i] \in Entry
        <5> HIDE DEF Entry
        <5> QED
          BY <4>1, <4>2
      <4> QED
        BY <4>2, <4>3
    <3>2. CASE call[p].op = "recv" /\ data = call[p].data
      BY <1>3, <3>2, CallFields DEF FragmentInv
    <3> QED
      BY <3>1, <3>2 DEF Buffers
  <2>2. data # <<>>
    BY <2>1
  <2>3. \E m \in Messages, a \in Nat : RunTo(data, m, a)
    BY <1>3, <2>2, HoldsRun DEF Buffers, FragmentInv, RunsDelivered
  <2> QED
    BY <2>1, <2>3, RunIsOne
<1> QED
  BY <1>1, <1>2, <1>3, PTL DEF Spec

-----------------------------------------------------------------------------
(***************************************************************************)
(* RDT_UDP implements the channel its callers rely on, for any number of   *)
(* processes and messages of any length.  Calm leaves out what breaks it,  *)
(* and nothing else.  What each does instead is said elsewhere:            *)
(*   - A message to a process that sends, or that is in the middle of      *)
(*     another message (Undisturbed): FalseAcks and Overrun in Cluster.    *)
(*   - A process that sends to itself: a circle of one, in FalseAcks.      *)
(*   - A message of one packet that is sent again before it is read: if    *)
(*     the packet is short every copy is read (MasterEnrol in Cluster does *)
(*     that), if not, an acknowledgement is left that releases the next    *)
(*     message of one packet too early.  Longer messages are sent again at *)
(*     will.                                                               *)
(*   - A datagram lost or doubled: a message may then be read in parts, of *)
(*     which NoHoles says what is true all the same.                       *)
(* The packets that are sent again because the target is busy, and the     *)
(* acknowledgements they bring, are what the invariant keeps track of.     *)
(***************************************************************************)

Calm ==
  /\ Undisturbed /\ MaxLost = 0 /\ MaxDoubled = 0
  /\ \A m \in Messages : /\ Chunks[m] > 1 \/ MaxCopies[m] = 1
                         /\ Origin[m] # Target[m]

-----------------------------------------------------------------------------
(* Queues of copies: nothing but x; and copies of x with y behind them. *)

AllAre(s, x) == \A i \in DOMAIN s : s[i] = x

EndsWith(s, x, y) ==
  /\ s # <<>>
  /\ \A i \in 1..(Len(s) - 1) : s[i] = x
  /\ s[Len(s)] = y

\* What is read from a queue of copies, and what is left.
LEMMA AllAreQueue ==
  ASSUME NEW s \in Seq(Datagram), NEW x \in Datagram, AllAre(s, x)
  PROVE  /\ s # <<>> => Head(s) = x /\ AllAre(Tail(s), x)
         /\ AllAre(Append(s, x), x)
         /\ \A y \in Datagram : EndsWith(Append(s, y), x, y)
BY DEF AllAre, EndsWith

\* What is read from a queue with another datagram at its end.
LEMMA EndsWithQueue ==
  ASSUME NEW s \in Seq(Datagram), NEW x, NEW y, EndsWith(s, x, y)
  PROVE  \/ Len(s) = 1 /\ Head(s) = y /\ Tail(s) = <<>>
         \/ Len(s) > 1 /\ Head(s) = x /\ EndsWith(Tail(s), x, y)
<1>1. /\ Len(s) \in Nat \ {0} /\ Head(s) = s[1]
      /\ Tail(s) \in Seq(Datagram) /\ Len(Tail(s)) = Len(s) - 1
      /\ \A i \in 1..(Len(s) - 1) : Tail(s)[i] = s[i + 1]
  BY DEF EndsWith
<1>2. CASE Len(s) = 1
  <2>1. Head(s) = y
    BY <1>1, <1>2 DEF EndsWith
  <2>2. Tail(s) = <<>>
    <3>1. Len(Tail(s)) = 0
      BY <1>1, <1>2
    <3> QED
      BY <1>1, <3>1, EmptySeq
  <2> QED
    BY <1>2, <2>1, <2>2
<1>3. CASE Len(s) > 1
  <2>1. Head(s) = x
    BY <1>1, <1>3 DEF EndsWith
  <2>2. Tail(s) # <<>>
    <3>1. PICK n, k : n = Len(s) /\ k = Len(Tail(s))
      OBVIOUS
    <3>2. k # 0
      <4>1. n \in Nat /\ n > 1 /\ k = n - 1
        BY <1>1, <1>3, <3>1
      <4> QED
        BY <4>1
    <3> QED
      BY <1>1, <3>1, <3>2, EmptySeq
  <2>5. Tail(s)[Len(s) - 1] = y
    BY <1>1, <1>3 DEF EndsWith
  <2>3. \A i \in 1..(Len(s) - 2) : Tail(s)[i] = x
    BY <1>1, <1>3 DEF EndsWith
  <2>4. EndsWith(Tail(s), x, y)
    BY <1>1, <1>3, <2>2, <2>3, <2>5 DEF EndsWith
  <2> QED
    BY <1>3, <2>1, <2>4
<1> QED
  BY <1>1, <1>2, <1>3

-----------------------------------------------------------------------------
(***************************************************************************)
(* One exchange.  SendTo of m is at its packet k; RecvFrom of the target   *)
(* has read a packets, k - 1 of them before it reads packet k and k after; *)
(* a brief message is returned with its last packet.                       *)
(***************************************************************************)
Prefix(m, a) == [k \in 1..a |-> [msg |-> m, at |-> k]]
EntryOf(m)   == [from |-> Origin[m], data |-> Whole(m)]
Arrived(m)   ==
  \E i \in DOMAIN delivered[Target[m]] : delivered[Target[m]][i] = EntryOf(m)

Ready(p) == call[p] = Idle \/ call[p] = Receiving(0, <<>>, None)

Gathers(m, a) ==
  call[Target[m]] = Receiving(a % 2, Prefix(m, a), Origin[m])

Reading(m, a) ==
  \/ a = 0 /\ Ready(Target[m]) /\ ~Arrived(m)
  \/ a = Chunks[m] /\ m \in Brief /\ Ready(Target[m]) /\ Arrived(m)
  \/ /\ a > 0 /\ ~(a = Chunks[m] /\ m \in Brief)
     /\ Gathers(m, a) /\ ~Arrived(m)

AckOf(m, k) == AckPacket(Target[m], (k - 1) % 2)

\* Packet k waits, behind copies of packet 1 when k is 2.
Before(m, k) ==
  LET there == inbox[Target[m]]
      back  == inbox[Origin[m]]
  IN
  /\ Reading(m, k - 1)
  /\ k = 1 => there # <<>> /\ AllAre(there, PacketOf(m, 1)) /\ back = <<>>
  /\ Chunks[m] = 1 => Len(there) = 1
  /\ k > 1 => /\ EndsWith(there, PacketOf(m, k - 1), PacketOf(m, k))
              /\ AllAre(back, AckOf(m, k - 1))
  /\ k > 2 => Len(there) = 1

\* The acknowledgement of packet k waits.
After(m, k) ==
  LET there == inbox[Target[m]]
      back  == inbox[Origin[m]]
  IN
  /\ Reading(m, k)
  /\ k = 1 => /\ AllAre(there, PacketOf(m, 1))
              /\ back # <<>> /\ AllAre(back, AckOf(m, 1))
  /\ Chunks[m] = 1 => there = <<>> /\ Len(back) = 1
  /\ k > 1 => there = <<>> /\ EndsWith(back, AckOf(m, k - 1), AckOf(m, k))

Exchange(m) == LET k == call[Origin[m]].at IN Before(m, k) \/ After(m, k)

-----------------------------------------------------------------------------
(***************************************************************************)
(* The exchanges are apart, and what is in a socket, in the hands of       *)
(* RecvFrom or returned by it belongs to an exchange, under way or over.   *)
(***************************************************************************)
Apart ==
  \A m, n \in Messages :
    Sends(m) /\ Sends(n) /\ m # n => Ends(m) \cap Ends(n) = {}

Exchanges == \A m \in Messages : Sends(m) => Exchange(m)

Silent ==
  \A p \in Procs :
    inbox[p] # <<>> => \E m \in Messages : Sends(m) /\ p \in Ends(m)

Holds(m) == Gathers(m, Chunks[m])

Gathered ==
  \A p \in Procs :
    call[p].op = "recv" /\ call[p] # Receiving(0, <<>>, None) =>
      \E m \in Messages :
        /\ Target[m] = p
        /\ Sends(m) \/ (m \in returned /\ Holds(m) /\ ~Arrived(m))

Known ==
  \A m \in Messages :
    /\ Sends(m) <=> m \in sent \ returned
    /\ m \in returned => m \in sent /\ (Arrived(m) \/ Holds(m))
    /\ Arrived(m) => m \in sent

Entries ==
  \A p \in Procs : \A i \in DOMAIN delivered[p] :
    \E m \in Messages : Target[m] = p /\ delivered[p][i] = EntryOf(m)

ChannelInv ==
  Typed /\ Apart /\ Exchanges /\ Silent /\ Gathered /\ Known /\ Entries

-----------------------------------------------------------------------------
\* Prefixes of different messages, or of different lengths, are different.
LEMMA PrefixesDiffer ==
  ASSUME NEW m \in Messages, NEW n \in Messages, NEW a \in Nat \ {0},
         NEW b \in Nat, Prefix(m, a) = Prefix(n, b)
  PROVE  m = n /\ a = b
<1>1. DOMAIN Prefix(m, a) = 1..a /\ DOMAIN Prefix(n, b) = 1..b
  BY DEF Prefix
<1>2. a \in 1..b /\ (b > 0 => b \in 1..a)
  BY <1>1
<1>3. a = b
  BY <1>2
<1>4. /\ Prefix(m, a)[1] = [msg |-> m, at |-> 1]
      /\ Prefix(n, b)[1] = [msg |-> n, at |-> 1]
  BY <1>2, <1>3 DEF Prefix
<1> QED
  BY <1>3, <1>4

\* A message as a prefix of itself, and what a packet more makes of one.
LEMMA PrefixGrows ==
  ASSUME NEW m \in Messages, NEW a \in Nat
  PROVE  /\ Prefix(m, 0) = <<>>
         /\ Prefix(m, Chunks[m]) = Whole(m)
         /\ Prefix(m, a + 1) = Append(Prefix(m, a), [msg |-> m, at |-> a + 1])
         /\ a > 0 => Prefix(m, a) # <<>>
<1>1. Prefix(m, 0) = <<>>
  BY DEF Prefix
<1>2. Prefix(m, Chunks[m]) = Whole(m)
  BY DEF Prefix, Whole
<1>3. a > 0 => Prefix(m, a) # <<>>
  BY PrefixesDiffer, <1>1
<1>4. Prefix(m, a + 1) = Append(Prefix(m, a), [msg |-> m, at |-> a + 1])
  <2> DEFINE x == [msg |-> m, at |-> a + 1]
             T == [msg : Messages, at : Nat]
  <2>1. /\ Prefix(m, a) \in Seq(T) /\ Len(Prefix(m, a)) = a
        /\ \A i \in 1..a : Prefix(m, a)[i] = [msg |-> m, at |-> i]
    BY DEF Prefix
  <2>2. Prefix(m, a + 1) = [i \in 1..(a + 1) |-> [msg |-> m, at |-> i]]
    BY DEF Prefix
  <2>3. x \in T
    OBVIOUS
  <2> HIDE DEF x, T
  <2>4. /\ Append(Prefix(m, a), x) \in Seq(T)
        /\ DOMAIN Append(Prefix(m, a), x) = 1..(a + 1)
        /\ \A i \in 1..a : Append(Prefix(m, a), x)[i] = Prefix(m, a)[i]
        /\ Append(Prefix(m, a), x)[a + 1] = x
    BY <2>1, <2>3
  <2>5. Append(Prefix(m, a), x) = [i \in 1..(a + 1) |-> [msg |-> m, at |-> i]]
    BY <2>1, <2>4 DEF x
  <2> QED
    BY <2>2, <2>5 DEF x
<1> QED
  BY <1>1, <1>2, <1>3, <1>4

\* The ends of a message, its packets and their acknowledgements.
LEMMA Lines ==
  ASSUME Calm, NEW m \in Messages
  PROVE  /\ Origin[m] \in Procs /\ Target[m] \in Procs /\ Origin[m] # Target[m]
         /\ Chunks[m] \in Nat /\ Chunks[m] > 0
         /\ \A k \in 1..Chunks[m] :
              PacketOf(m, k) \in Datagram /\ AckOf(m, k) \in Datagram
<1>1. /\ Origin[m] \in Procs /\ Target[m] \in Procs /\ Origin[m] # Target[m]
      /\ Chunks[m] \in Nat /\ Chunks[m] > 0
  BY RDTAssumption DEF Calm
<1>2. ASSUME NEW k \in 1..Chunks[m]
      PROVE  PacketOf(m, k) \in Datagram /\ AckOf(m, k) \in Datagram
  <2>1. (k - 1) % 2 \in {0, 1}
    BY <1>1
  <2> QED
    BY <1>1, <2>1, DatagramTypes DEF AckOf
<1> QED
  BY <1>1, <1>2

\* Without a loss a datagram that goes out arrives.
LEMMA GoesOut ==
  ASSUME Calm, Typed, NEW d \in Procs, NEW g \in Datagram, NEW box,
         Transmit(d, g, box)
  PROVE  inbox' = [box EXCEPT ![d] = Append(box[d], g)]
BY DEF Calm, Typed, TypeOK, Transmit

\* Reading(m, a) is about the target of m only.
LEMMA ReadingKept ==
  ASSUME NEW m \in Messages, NEW a,
         call'[Target[m]] = call[Target[m]],
         delivered'[Target[m]] = delivered[Target[m]]
  PROVE  /\ Reading(m, a) <=> Reading(m, a)'
         /\ Arrived(m) <=> Arrived(m)'
BY DEF Reading, Ready, Gathers, Arrived

\* Exchange(m) is about the ends of m only.
LEMMA ExchangeKept ==
  ASSUME NEW m \in Messages, Exchange(m),
         \A p \in Ends(m) : /\ call'[p] = call[p] /\ inbox'[p] = inbox[p]
                            /\ delivered'[p] = delivered[p]
  PROVE  Exchange(m)'
<1>1. /\ call'[Target[m]] = call[Target[m]]
      /\ delivered'[Target[m]] = delivered[Target[m]]
      /\ inbox'[Target[m]] = inbox[Target[m]]
      /\ call'[Origin[m]] = call[Origin[m]]
      /\ inbox'[Origin[m]] = inbox[Origin[m]]
  BY DEF Ends
<1> DEFINE k == call[Origin[m]].at
<1>2. /\ Reading(m, k) <=> Reading(m, k)'
      /\ Reading(m, k - 1) <=> Reading(m, k - 1)'
  BY <1>1, ReadingKept
<1>3. CASE Before(m, k)
  BY <1>1, <1>2, <1>3 DEF Exchange, Before
<1>4. CASE After(m, k)
  BY <1>1, <1>2, <1>4 DEF Exchange, After
<1> QED
  BY <1>3, <1>4 DEF Exchange

-----------------------------------------------------------------------------
\* What the sockets hold at the ends of an exchange.
LEMMA AtEnds ==
  ASSUME Calm, Typed, NEW m \in Messages, Sends(m)
  PROVE  LET k == call[Origin[m]].at IN
         /\ k \in 1..Chunks[m]
         /\ call[Origin[m]] = Sending(m, k)
         /\ inbox[Origin[m]] \in Seq(Datagram)
         /\ inbox[Target[m]] \in Seq(Datagram)
BY Lines, CallFields DEF Sends, Typed, TypeOK

\* The sender of m reads a datagram it does not wait for.
LEMMA SenderSkips ==
  ASSUME Calm, Typed, NEW m \in Messages, Sends(m), Exchange(m),
         SendToReads(Origin[m]),
         Head(inbox[Origin[m]]).bit # PacketOf(m, call[Origin[m]].at).bit
  PROVE  Exchange(m)' /\ Sends(m)'
<1> DEFINE p == Origin[m]
           t == Target[m]
           k == call[p].at
           back == inbox[p]
<1>1. /\ p \in Procs /\ t \in Procs /\ p # t /\ k \in 1..Chunks[m]
      /\ k \in Nat \ {0} /\ Chunks[m] \in Nat
      /\ back \in Seq(Datagram)
  BY Lines, AtEnds
<1>0. back # <<>> /\ inbox \in [Procs -> Seq(Datagram)]
  BY DEF SendToReads, Typed, TypeOK
<1>2. /\ inbox' = Popped(p) /\ UNCHANGED <<call, delivered>>
  BY DEF SendToReads, Sends
<1>3. inbox'[p] = Tail(back) /\ inbox'[t] = inbox[t]
  BY <1>0, <1>1, <1>2 DEF Popped
<1>4. /\ Reading(m, k) <=> Reading(m, k)'
      /\ Reading(m, k - 1) <=> Reading(m, k - 1)'
  BY <1>2, ReadingKept
<1>5. CASE Before(m, k)
  <2>1. k > 1 /\ AllAre(back, AckOf(m, k - 1))
    BY <1>0, <1>1, <1>5 DEF Before
  <2>2. AckOf(m, k - 1) \in Datagram
    BY <1>1, <2>1, Lines
  <2>3. AllAre(Tail(back), AckOf(m, k - 1))
    BY <1>0, <1>1, <2>1, <2>2, AllAreQueue
  <2>4. Before(m, k)'
    BY <1>1, <1>2, <1>3, <1>4, <1>5, <2>1, <2>3 DEF Before
  <2> QED
    BY <1>2, <2>4 DEF Exchange, Sends
<1>6. CASE After(m, k)
  <2>1. AckOf(m, k).bit = PacketOf(m, k).bit
    BY DEF AckOf, AckPacket, PacketOf
  <2>2. k # 1
    BY <1>0, <1>1, <1>6, <2>1, Lines, AllAreQueue DEF After
  <2>3. EndsWith(back, AckOf(m, k - 1), AckOf(m, k))
    BY <1>1, <1>6, <2>2 DEF After
  <2>4. EndsWith(Tail(back), AckOf(m, k - 1), AckOf(m, k))
    BY <1>1, <2>1, <2>3, EndsWithQueue
  <2>5. Chunks[m] # 1
    BY <1>1, <2>2
  <2>6. After(m, k)'
    BY <1>2, <1>3, <1>4, <1>6, <2>2, <2>4, <2>5 DEF After
  <2> QED
    BY <1>2, <2>6 DEF Exchange, Sends
<1> QED
  BY <1>5, <1>6 DEF Exchange

\* It reads one it waits for: its packet was read, all that is left in its
\* socket are acknowledgements of packet 1 when that is the packet.
LEMMA SenderAnswered ==
  ASSUME Calm, Typed, NEW m \in Messages, Sends(m), Exchange(m),
         inbox[Origin[m]] # <<>>,
         Head(inbox[Origin[m]]).bit = PacketOf(m, call[Origin[m]].at).bit
  PROVE  LET k == call[Origin[m]].at IN
         /\ Reading(m, k)
         /\ AllAre(inbox[Target[m]], PacketOf(m, 1))
         /\ AllAre(Tail(inbox[Origin[m]]), AckOf(m, k))
         /\ k > 1 \/ Chunks[m] = 1 =>
              inbox[Target[m]] = <<>> /\ Tail(inbox[Origin[m]]) = <<>>
<1> DEFINE p == Origin[m]
           t == Target[m]
           k == call[p].at
           back == inbox[p]
<1>1. /\ p \in Procs /\ t \in Procs /\ p # t /\ k \in 1..Chunks[m]
      /\ k \in Nat \ {0} /\ Chunks[m] \in Nat
      /\ back \in Seq(Datagram) /\ inbox[t] \in Seq(Datagram)
  BY Lines, AtEnds
<1>2. k > 1 => AckOf(m, k - 1).bit # PacketOf(m, k).bit
  <2>1. ASSUME k > 1 PROVE (k - 1 - 1) % 2 # (k - 1) % 2
    <3>1. k - 1 \in Nat \ {0}
      BY <1>1, <2>1
    <3> HIDE DEF k
    <3> QED
      BY <3>1, Alternate
  <2> QED
    BY <2>1 DEF AckOf, AckPacket, PacketOf
<1>3. ~Before(m, k)
  <2> SUFFICES ASSUME Before(m, k) PROVE FALSE
    OBVIOUS
  <2>1. k > 1 /\ AllAre(back, AckOf(m, k - 1))
    BY <1>1 DEF Before
  <2>2. AckOf(m, k - 1) \in Datagram
    BY <1>1, <2>1, Lines
  <2>3. Head(back) = AckOf(m, k - 1)
    BY <1>1, <2>1, <2>2, AllAreQueue
  <2> QED
    BY <1>2, <2>1, <2>3
<1>4. After(m, k)
  BY <1>3 DEF Exchange
<1>5. CASE k = 1
  <2>1. Chunks[m] = 1 => inbox[t] = <<>> /\ Tail(back) = <<>>
    <3>1. ASSUME Chunks[m] = 1 PROVE inbox[t] = <<>> /\ Tail(back) = <<>>
      <4>1. inbox[t] = <<>> /\ Len(back) = 1
        BY <1>4, <3>1 DEF After
      <4>2. Tail(back) \in Seq(Datagram) /\ Len(Tail(back)) = 0
        BY <1>1, <4>1
      <4> QED
        BY <4>1, <4>2, EmptySeq
    <3> QED
      BY <3>1
  <2>2. /\ Reading(m, k) /\ AllAre(inbox[t], PacketOf(m, 1))
        /\ AllAre(Tail(back), AckOf(m, k))
    BY <1>1, <1>4, <1>5, Lines, AllAreQueue DEF After
  <2> QED
    BY <1>5, <2>1, <2>2
<1>6. CASE k > 1
  <2>1. EndsWith(back, AckOf(m, k - 1), AckOf(m, k)) /\ inbox[t] = <<>>
    BY <1>4, <1>6 DEF After
  <2>2. Tail(back) = <<>>
    BY <1>1, <1>2, <1>6, <2>1, EndsWithQueue
  <2> QED
    BY <1>4, <1>6, <2>1, <2>2 DEF After, AllAre
<1> QED
  BY <1>1, <1>5, <1>6

\* It sends its next packet.
LEMMA SenderGoesOn ==
  ASSUME Calm, Typed, NEW m \in Messages, Sends(m), Exchange(m),
         SendToReads(Origin[m]),
         NEW k \in Nat, k = call[Origin[m]].at, k < Chunks[m],
         Head(inbox[Origin[m]]).bit = PacketOf(m, k).bit
  PROVE  Exchange(m)' /\ Sends(m)'
<1> DEFINE p == Origin[m]
           t == Target[m]
           back == inbox[p]
           there == inbox[t]
<1>1. /\ p \in Procs /\ t \in Procs /\ p # t /\ k \in 1..Chunks[m]
      /\ k \in Nat \ {0} /\ Chunks[m] \in Nat
      /\ back \in Seq(Datagram) /\ there \in Seq(Datagram)
  BY Lines, AtEnds
<1>2. back # <<>> /\ inbox \in [Procs -> Seq(Datagram)] /\ call \in [Procs -> Calls]
  BY DEF SendToReads, Typed, TypeOK
<1>3. /\ call' = [call EXCEPT ![p] = Sending(m, k + 1)]
      /\ Transmit(t, PacketOf(m, k + 1), Popped(p))
      /\ UNCHANGED delivered
  BY <1>1 DEF SendToReads, Sends
<1>4. PacketOf(m, k + 1) \in Datagram /\ PacketOf(m, k) \in Datagram
  BY <1>1, Lines
<1>5. inbox' = [Popped(p) EXCEPT ![t] = Append(Popped(p)[t], PacketOf(m, k + 1))]
  BY <1>1, <1>3, <1>4, GoesOut
<1>6. /\ inbox'[p] = Tail(back)
      /\ inbox'[t] = Append(there, PacketOf(m, k + 1))
  BY <1>1, <1>2, <1>5 DEF Popped
<1>7. /\ call'[t] = call[t] /\ call'[p].at = k + 1
      /\ call'[p].msg = m /\ call'[p].op = "send"
  BY <1>1, <1>2, <1>3 DEF Sending
<1>8. /\ Reading(m, k) /\ AllAre(there, PacketOf(m, 1))
      /\ AllAre(Tail(back), AckOf(m, k))
      /\ k > 1 => there = <<>> /\ Tail(back) = <<>>
  BY <1>2, SenderAnswered
<1>9. Reading(m, k)'
  BY <1>3, <1>7, <1>8, ReadingKept
<1>10. AllAre(there, PacketOf(m, k))
  <2>1. CASE k = 1
    BY <1>8, <2>1
  <2>2. CASE k > 1
    BY <1>8, <2>2 DEF AllAre
  <2> QED
    BY <1>1, <2>1, <2>2
<1>11. EndsWith(inbox'[t], PacketOf(m, k), PacketOf(m, k + 1))
  BY <1>1, <1>4, <1>6, <1>10, AllAreQueue
<1>12. k > 1 => Len(inbox'[t]) = 1
  BY <1>4, <1>6, <1>8
<1>13. Before(m, k + 1)'
  BY <1>1, <1>6, <1>8, <1>9, <1>11, <1>12 DEF Before
<1> QED
  BY <1>7, <1>13 DEF Exchange, Sends

\* It sends its packet again: that is packet 1, its target is in no call.
LEMMA SenderRepeats ==
  ASSUME Calm, Typed, NEW m \in Messages, Sends(m), Exchange(m),
         SendToResends(Origin[m])
  PROVE  Exchange(m)' /\ Sends(m)'
<1> DEFINE p == Origin[m]
           t == Target[m]
           k == call[p].at
<1>1. /\ p \in Procs /\ t \in Procs /\ p # t /\ k \in 1..Chunks[m]
      /\ k \in Nat \ {0} /\ Chunks[m] \in Nat /\ inbox[t] \in Seq(Datagram)
  BY Lines, AtEnds
<1>2. inbox \in [Procs -> Seq(Datagram)]
  BY DEF Typed, TypeOK
<1>3. /\ Transmit(t, PacketOf(m, k), inbox)
      /\ UNCHANGED <<call, delivered>>
  BY DEF SendToResends, Sends
<1>4. PacketOf(m, k) \in Datagram
  BY <1>1, Lines
<1>5. inbox[p] = <<>> /\ (inbox[t] # <<>> => call[t].op = "none")
  BY <1>1 DEF SendToResends, Quiet
<1>6. Before(m, k)
  BY <1>1, <1>5 DEF Exchange, After, EndsWith
<1>7. inbox[t] # <<>> /\ Reading(m, k - 1)
  BY <1>1, <1>6 DEF Before, EndsWith
<1>8. k = 1
  BY <1>1, <1>5, <1>7 DEF Reading, Gathers, Receiving
<1>9. Chunks[m] # 1
  <2> SUFFICES ASSUME Chunks[m] = 1 PROVE FALSE
    OBVIOUS
  <2>1. /\ Len(inbox[t]) = 1 /\ AllAre(inbox[t], PacketOf(m, k))
        /\ MaxCopies[m] = 1
    BY <1>6, <1>8 DEF Before, Calm
  <2>2. Copies(t, PacketOf(m, k)) = {1}
    BY <1>1, <2>1 DEF Copies, AllAre
  <2>3. Cardinality(Copies(t, PacketOf(m, k))) = 1
    BY <2>2, FS_Singleton
  <2> QED
    BY <2>1, <2>3 DEF SendToResends, Sends
<1>10. /\ inbox'[t] = Append(inbox[t], PacketOf(m, k)) /\ inbox'[p] = inbox[p]
  BY <1>1, <1>2, <1>3, <1>4, GoesOut
<1>11. AllAre(inbox'[t], PacketOf(m, 1)) /\ inbox'[t] # <<>>
  BY <1>1, <1>4, <1>6, <1>8, <1>10, AllAreQueue DEF Before, EndsWith
<1>12. Reading(m, k - 1)'
  BY <1>3, <1>7, ReadingKept
<1>13. Before(m, k)'
  BY <1>3, <1>5, <1>8, <1>10, <1>11, <1>12, <1>9 DEF Before
<1> QED
  BY <1>3, <1>13 DEF Exchange, Sends

\* The target of m reads the packet it waits for.
LEMMA TargetTakes ==
  ASSUME Calm, Typed, NEW m \in Messages, NEW k \in 1..Chunks[m],
         NEW from \in {Origin[m], None},
         RecvFromReads(Target[m]), Head(inbox[Target[m]]) = PacketOf(m, k),
         call[Target[m]] = Receiving((k - 1) % 2, Prefix(m, k - 1), from)
  PROVE  LET t == Target[m] IN
         /\ inbox' = [Popped(t) EXCEPT ![Origin[m]] = Append(@, AckOf(m, k))]
         /\ m \in Brief /\ k = Chunks[m] =>
              /\ call' = [call EXCEPT ![t] = Idle]
              /\ delivered' = [delivered EXCEPT ![t] = Append(@, EntryOf(m))]
         /\ ~(m \in Brief /\ k = Chunks[m]) =>
              /\ call' = [call EXCEPT ![t] =
                            Receiving(k % 2, Prefix(m, k), Origin[m])]
              /\ UNCHANGED delivered
<1> DEFINE t == Target[m]
           g == PacketOf(m, k)
<1>1. /\ Origin[m] \in Procs /\ t \in Procs /\ Chunks[m] \in Nat \ {0}
      /\ k \in Nat \ {0} /\ AckOf(m, k) \in Datagram /\ Origin[m] # None
  BY Lines, RDTAssumption
<1>2. /\ g.from = Origin[m] /\ g.bit = (k - 1) % 2 /\ g.chunk # None
      /\ g.chunk = [msg |-> m, at |-> k]
      /\ IsShort(g) <=> m \in Brief /\ k = Chunks[m]
  BY PacketFields
<1>3. /\ call[t].bit = (k - 1) % 2 /\ call[t].data = Prefix(m, k - 1)
      /\ call[t].from = from
  BY DEF Receiving
<1>4. Fits(t, g)
  BY <1>2, <1>3 DEF Fits
<1>5. Append(call[t].data, g.chunk) = Prefix(m, k)
  <2>1. k - 1 \in Nat /\ (k - 1) + 1 = k
    BY <1>1
  <2> QED
    BY <1>2, <1>3, <2>1, PrefixGrows
<1>6. 1 - call[t].bit = k % 2 /\ 1 - (k % 2) = (k - 1) % 2
  BY <1>1, <1>3, Alternate
<1>7. (IF call[t].from = None THEN g.from ELSE call[t].from) = Origin[m]
  BY <1>1, <1>2, <1>3
<1> HIDE DEF g
<1>8. /\ Transmit(Origin[m], AckOf(m, k), Popped(t))
      /\ \/ IsShort(g) /\ RecvFromReturns(t, Prefix(m, k), Origin[m])
         \/ /\ ~IsShort(g)
            /\ call' = [call EXCEPT ![t] =
                           Receiving(k % 2, Prefix(m, k), Origin[m])]
            /\ UNCHANGED delivered
  BY <1>2, <1>4, <1>5, <1>6, <1>7 DEF RecvFromReads, AckOf, g
<1>9. inbox' = [Popped(t) EXCEPT ![Origin[m]] = Append(@, AckOf(m, k))]
  BY <1>1, <1>8, GoesOut
<1>10. CASE m \in Brief /\ k = Chunks[m]
  <2>1. Prefix(m, Chunks[m]) = Whole(m) /\ Prefix(m, Chunks[m]) # <<>>
    <3>1. Chunks[m] \in Nat /\ Chunks[m] > 0
      BY <1>1
    <3> QED
      BY <3>1, PrefixGrows, Zenon
  <2> QED
    BY <1>2, <1>8, <1>9, <1>10, <2>1 DEF RecvFromReturns, EntryOf
<1>11. CASE ~(m \in Brief /\ k = Chunks[m])
  BY <1>2, <1>8, <1>9, <1>11
<1> QED
  BY <1>10, <1>11

\* It reads the packet it read last once more.
LEMMA TargetRepeats ==
  ASSUME Calm, Typed, NEW m \in Messages, NEW k \in 1..Chunks[m], k < Chunks[m],
         RecvFromReads(Target[m]), Head(inbox[Target[m]]) = PacketOf(m, k),
         Gathers(m, k)
  PROVE  LET t == Target[m] IN
         /\ inbox' = [Popped(t) EXCEPT ![Origin[m]] = Append(@, AckOf(m, k))]
         /\ UNCHANGED <<call, delivered>>
<1> DEFINE t == Target[m]
           g == PacketOf(m, k)
<1>1. /\ Origin[m] \in Procs /\ t \in Procs /\ Chunks[m] \in Nat \ {0}
      /\ k \in Nat \ {0} /\ AckOf(m, k) \in Datagram /\ Origin[m] # None
  BY Lines, RDTAssumption
<1>0. k # Chunks[m]
  BY <1>1
<1>2. g.from = Origin[m] /\ g.bit = (k - 1) % 2 /\ ~IsShort(g)
  BY <1>0, PacketFields
<1>3. /\ call[t].bit = k % 2 /\ call[t].data = Prefix(m, k)
      /\ call[t].from = Origin[m] /\ call[t] = Receiving(k % 2, Prefix(m, k), Origin[m])
  BY DEF Receiving, Gathers
<1>4. ~Fits(t, g) /\ 1 - (k % 2) = (k - 1) % 2
  BY <1>1, <1>2, <1>3, Alternate DEF Fits
<1> HIDE DEF g
<1>5. /\ Transmit(Origin[m], AckOf(m, k), Popped(t))
      /\ call' = [call EXCEPT ![t] = call[t]]
      /\ UNCHANGED delivered
  BY <1>1, <1>2, <1>3, <1>4 DEF RecvFromReads, AckOf, g
<1>6. inbox' = [Popped(t) EXCEPT ![Origin[m]] = Append(@, AckOf(m, k))]
  BY <1>1, <1>5, GoesOut
<1>7. call' = call
  BY <1>5 DEF Typed, TypeOK
<1> QED
  BY <1>5, <1>6, <1>7

\* What the target of m has read when it reads a packet again.
LEMMA TargetHas ==
  ASSUME Calm, Typed, NEW m \in Messages, NEW a \in Nat, Reading(m, a),
         call[Target[m]].op = "recv", a < Chunks[m]
  PROVE  /\ ~Arrived(m)
         /\ a > 0 => Gathers(m, a)
         /\ \E from \in {Origin[m], None} :
              call[Target[m]] = Receiving(a % 2, Prefix(m, a), from)
<1>1. CASE a = 0
  <2>1. 0 % 2 = 0 /\ Prefix(m, 0) = <<>>
    <3>1. 0 \in Nat /\ 0 % 2 = 0
      OBVIOUS
    <3> QED
      BY <3>1, PrefixGrows, Zenon
  <2>2. call[Target[m]] = Receiving(0, <<>>, None) /\ ~Arrived(m)
    BY <1>1 DEF Reading, Ready, Idle
  <2> QED
    BY <1>1, <2>1, <2>2
<1>2. CASE a > 0
  <2>1. Gathers(m, a) /\ ~Arrived(m)
    BY <1>2 DEF Reading
  <2> QED
    BY <2>1 DEF Gathers
<1> QED
  BY <1>1, <1>2

\* The target of m reads packet k, the one SendTo is at.
LEMMA TargetAdvances ==
  ASSUME Calm, Typed, NEW m \in Messages, Sends(m), NEW k \in 1..Chunks[m],
         k = call[Origin[m]].at, Before(m, k), RecvFromReads(Target[m]),
         Head(inbox[Target[m]]) = PacketOf(m, k),
         k > 1 => Tail(inbox[Target[m]]) = <<>>
  PROVE  /\ Exchange(m)' /\ Sends(m)' /\ ~Arrived(m)
         /\ \/ UNCHANGED delivered
            \/ delivered' = [delivered EXCEPT ![Target[m]] = Append(@, EntryOf(m))]
<1> DEFINE p == Origin[m]
           t == Target[m]
           back == inbox[p]
           there == inbox[t]
<1>1. /\ p \in Procs /\ t \in Procs /\ p # t /\ k \in Nat \ {0}
      /\ Chunks[m] \in Nat /\ Chunks[m] > 0 /\ AckOf(m, k) \in Datagram
      /\ back \in Seq(Datagram) /\ there \in Seq(Datagram)
  BY Lines, AtEnds
<1>2. /\ there # <<>> /\ inbox \in [Procs -> Seq(Datagram)]
      /\ call \in [Procs -> Calls] /\ call[t].op = "recv"
      /\ delivered \in [Procs -> Seq([from : Procs \cup {None}, data : Seq(Chunk)])]
  BY DEF RecvFromReads, Typed, TypeOK
<1>3. k - 1 \in Nat /\ k - 1 < Chunks[m] /\ Reading(m, k - 1)
  BY <1>1 DEF Before
<1>4. /\ ~Arrived(m)
      /\ \E from \in {p, None} :
           call[t] = Receiving((k - 1) % 2, Prefix(m, k - 1), from)
  BY <1>2, <1>3, TargetHas
<1>5. /\ inbox' = [Popped(t) EXCEPT ![p] = Append(@, AckOf(m, k))]
      /\ m \in Brief /\ k = Chunks[m] =>
           /\ call' = [call EXCEPT ![t] = Idle]
           /\ delivered' = [delivered EXCEPT ![t] = Append(@, EntryOf(m))]
      /\ ~(m \in Brief /\ k = Chunks[m]) =>
           /\ call' = [call EXCEPT ![t] = Receiving(k % 2, Prefix(m, k), p)]
           /\ UNCHANGED delivered
  BY <1>4, TargetTakes
<1>6. inbox'[t] = Tail(there) /\ inbox'[p] = Append(back, AckOf(m, k))
  BY <1>1, <1>2, <1>5 DEF Popped
<1>7. call'[p] = call[p]
  BY <1>1, <1>2, <1>5
<1>8. Reading(m, k)'
  <2>1. CASE m \in Brief /\ k = Chunks[m]
    <3>1. call'[t] = Idle /\ delivered'[t] = Append(delivered[t], EntryOf(m))
      BY <1>1, <1>2, <1>5, <2>1
    <3>2. Arrived(m)'
      <4> DEFINE n == Len(delivered[t]) + 1
      <4>0. delivered[t] \in Seq([from : Procs \cup {None}, data : Seq(Chunk)])
        BY <1>1, <1>2
      <4> HIDE DEF t
      <4>1. n \in DOMAIN delivered'[t] /\ delivered'[t][n] = EntryOf(m)
        BY <3>1, <4>0
      <4> QED
        BY <4>1 DEF Arrived, t
    <3> QED
      BY <2>1, <3>1, <3>2 DEF Reading, Ready
  <2>2. CASE ~(m \in Brief /\ k = Chunks[m])
    BY <1>1, <1>2, <1>4, <1>5, <2>2 DEF Reading, Gathers, Arrived
  <2> QED
    BY <2>1, <2>2
<1>9. After(m, k)'
  <2>1. CASE k = 1
    <3>1. AllAre(there, PacketOf(m, 1)) /\ back = <<>>
      BY <1>4, <2>1 DEF Before
    <3>2. AllAre(Tail(there), PacketOf(m, 1))
      BY <1>1, <1>2, <2>1, <3>1, Lines, AllAreQueue
    <3>3. AllAre(inbox'[p], AckOf(m, 1)) /\ inbox'[p] # <<>>
      BY <1>1, <1>6, <2>1, <3>1 DEF AllAre
    <3>4. ASSUME Chunks[m] = 1 PROVE inbox'[t] = <<>> /\ Len(inbox'[p]) = 1
      <4>1. Len(there) = 1
        BY <3>4 DEF Before
      <4>2. Tail(there) \in Seq(Datagram) /\ Len(Tail(there)) = 0
        BY <1>1, <1>2, <4>1
      <4>3. inbox'[t] = <<>>
        BY <1>6, <4>2, EmptySeq
      <4>4. inbox'[p] = <<AckOf(m, k)>>
        BY <1>1, <1>6, <3>1
      <4> QED
        BY <4>3, <4>4
    <3> QED
      BY <1>6, <1>8, <2>1, <3>2, <3>3, <3>4 DEF After
  <2>2. CASE k > 1
    <3>1. AllAre(back, AckOf(m, k - 1)) /\ AckOf(m, k - 1) \in Datagram
      BY <1>1, <2>2, Lines DEF Before
    <3>2. EndsWith(inbox'[p], AckOf(m, k - 1), AckOf(m, k))
      BY <1>1, <1>6, <3>1, AllAreQueue
    <3> QED
      BY <1>1, <1>6, <1>8, <2>2, <3>2 DEF After
  <2> QED
    BY <1>1, <2>1, <2>2
<1>10. Exchange(m)' /\ Sends(m)'
  BY <1>7, <1>9 DEF Exchange, Sends
<1> QED
  BY <1>4, <1>5, <1>10

\* It reads packet 1 once more.
LEMMA TargetSkips ==
  ASSUME Calm, Typed, NEW m \in Messages, Sends(m), NEW k \in 1..Chunks[m],
         k = call[Origin[m]].at, RecvFromReads(Target[m]),
         \/ k = 1 /\ After(m, k)
         \/ /\ k > 1 /\ Before(m, k) /\ Head(inbox[Target[m]]) = PacketOf(m, k - 1)
            /\ EndsWith(Tail(inbox[Target[m]]), PacketOf(m, k - 1), PacketOf(m, k))
  PROVE  Exchange(m)' /\ Sends(m)' /\ UNCHANGED <<call, delivered>>
<1> DEFINE p == Origin[m]
           t == Target[m]
           back == inbox[p]
           there == inbox[t]
<1>1. /\ p \in Procs /\ t \in Procs /\ p # t /\ k \in Nat \ {0}
      /\ Chunks[m] \in Nat /\ Chunks[m] > 0
      /\ back \in Seq(Datagram) /\ there \in Seq(Datagram)
  BY Lines, AtEnds
<1>2. /\ there # <<>> /\ inbox \in [Procs -> Seq(Datagram)]
      /\ call[t].op = "recv"
  BY DEF RecvFromReads, Typed, TypeOK
<1>3. CASE k = 1 /\ After(m, k)
  <2>1. /\ Reading(m, 1) /\ AllAre(there, PacketOf(m, 1))
        /\ back # <<>> /\ AllAre(back, AckOf(m, 1))
        /\ Chunks[m] > 1
    BY <1>1, <1>2, <1>3 DEF After
  <2>2. /\ PacketOf(m, 1) \in Datagram /\ AckOf(m, 1) \in Datagram
        /\ 1 \in 1..Chunks[m]
    BY <1>1, Lines
  <2>3. Head(there) = PacketOf(m, 1) /\ AllAre(Tail(there), PacketOf(m, 1))
    BY <1>1, <1>2, <2>1, <2>2, AllAreQueue
  <2>4. Gathers(m, 1)
    BY <1>1, <1>2, <2>1, TargetHas
  <2>5. /\ inbox' = [Popped(t) EXCEPT ![p] = Append(@, AckOf(m, 1))]
        /\ UNCHANGED <<call, delivered>>
    BY <1>1, <2>1, <2>2, <2>3, <2>4, TargetRepeats
  <2>6. inbox'[t] = Tail(there) /\ inbox'[p] = Append(back, AckOf(m, 1))
    BY <1>1, <1>2, <2>5 DEF Popped
  <2>7. inbox'[p] # <<>> /\ AllAre(inbox'[p], AckOf(m, 1))
    BY <1>1, <2>1, <2>2, <2>6, AllAreQueue
  <2>8. Reading(m, 1)'
    BY <2>1, <2>5, ReadingKept
  <2>9. After(m, k)'
    BY <1>1, <1>3, <2>1, <2>3, <2>6, <2>7, <2>8 DEF After
  <2> QED
    BY <2>5, <2>9 DEF Exchange, Sends
<1>4. CASE /\ k > 1 /\ Before(m, k) /\ Head(there) = PacketOf(m, k - 1)
           /\ EndsWith(Tail(there), PacketOf(m, k - 1), PacketOf(m, k))
  <2>1. /\ Reading(m, k - 1) /\ AllAre(back, AckOf(m, k - 1))
        /\ k > 2 => Len(there) = 1
    BY <1>4 DEF Before
  <2>2. /\ PacketOf(m, k - 1) \in Datagram /\ AckOf(m, k - 1) \in Datagram
        /\ k - 1 \in 1..Chunks[m] /\ k - 1 < Chunks[m] /\ k - 1 > 0 /\ k - 1 \in Nat
    BY <1>1, <1>4, Lines
  <2>3. Gathers(m, k - 1)
    BY <1>2, <2>1, <2>2, TargetHas
  <2>4. /\ inbox' = [Popped(t) EXCEPT ![p] = Append(@, AckOf(m, k - 1))]
        /\ UNCHANGED <<call, delivered>>
    BY <1>4, <2>2, <2>3, TargetRepeats
  <2>5. inbox'[t] = Tail(there) /\ inbox'[p] = Append(back, AckOf(m, k - 1))
    BY <1>1, <1>2, <2>4 DEF Popped
  <2>6. AllAre(inbox'[p], AckOf(m, k - 1))
    BY <1>1, <2>1, <2>2, <2>5, AllAreQueue
  <2>7. Len(there) # 1
    BY <1>1, <1>2, <1>4 DEF EndsWith
  <2>8. Reading(m, k - 1)'
    BY <2>1, <2>4, ReadingKept
  <2>9. Before(m, k)'
    BY <1>1, <1>4, <2>1, <2>5, <2>6, <2>7, <2>8 DEF Before
  <2> QED
    BY <2>4, <2>9 DEF Exchange, Sends
<1> QED
  BY <1>3, <1>4

\* The target of m reads a datagram of the exchange.
LEMMA TargetReads ==
  ASSUME Calm, Typed, NEW m \in Messages, Sends(m), Exchange(m),
         RecvFromReads(Target[m])
  PROVE  /\ Exchange(m)' /\ Sends(m)' /\ Head(inbox[Target[m]]).from = Origin[m]
         /\ \/ UNCHANGED delivered
            \/ /\ ~Arrived(m)
               /\ delivered' = [delivered EXCEPT ![Target[m]] = Append(@, EntryOf(m))]
<1> DEFINE p == Origin[m]
           t == Target[m]
           there == inbox[t]
<1>1. PICK k \in 1..Chunks[m] : k = call[p].at
  BY AtEnds
<1>2. /\ k \in Nat \ {0} /\ Chunks[m] \in Nat /\ Chunks[m] > 0
      /\ there \in Seq(Datagram)
  BY Lines, AtEnds
<1>3. there # <<>>
  BY DEF RecvFromReads
<1>4. \A j : PacketOf(m, j).from = Origin[m]
  BY DEF PacketOf
<1>5. CASE Before(m, k)
  <2>1. CASE k = 1
    <3>1. Head(there) = PacketOf(m, k)
      BY <1>2, <1>3, <1>5, <2>1, Lines, AllAreQueue DEF Before
    <3>2. ~(k > 1)
      BY <2>1
    <3> QED
      BY <1>1, <1>4, <1>5, <3>1, <3>2, TargetAdvances, Zenon
  <2>2. CASE k > 1
    <3>1. EndsWith(there, PacketOf(m, k - 1), PacketOf(m, k))
      BY <1>5, <2>2 DEF Before
    <3>2. \/ Head(there) = PacketOf(m, k) /\ Tail(there) = <<>>
          \/ /\ Head(there) = PacketOf(m, k - 1)
             /\ EndsWith(Tail(there), PacketOf(m, k - 1), PacketOf(m, k))
      BY <1>2, <3>1, EndsWithQueue
    <3>3. CASE Head(there) = PacketOf(m, k) /\ Tail(there) = <<>>
      BY <1>1, <1>4, <1>5, <3>3, TargetAdvances
    <3>4. CASE /\ Head(there) = PacketOf(m, k - 1)
               /\ EndsWith(Tail(there), PacketOf(m, k - 1), PacketOf(m, k))
      BY <1>1, <1>4, <1>5, <2>2, <3>4, TargetSkips
    <3> QED
      BY <3>2, <3>3, <3>4
  <2> QED
    BY <1>2, <2>1, <2>2
<1>6. CASE After(m, k)
  <2>1. k = 1 /\ AllAre(there, PacketOf(m, 1))
    BY <1>2, <1>3, <1>6 DEF After
  <2>2. Head(there) = PacketOf(m, 1)
    BY <1>2, <1>3, <2>1, Lines, AllAreQueue
  <2> QED
    BY <1>1, <1>4, <1>6, <2>1, <2>2, TargetSkips
<1> QED
  BY <1>1, <1>5, <1>6 DEF Exchange

\* The rest of the network does not see a step of an exchange.
LEMMA OthersKept ==
  ASSUME Typed, NEW m \in Messages,
         \/ Sends(m) /\ (SendToReads(Origin[m]) \/ SendToResends(Origin[m]))
         \/ RecvFromReads(Target[m]) /\ Head(inbox[Target[m]]).from = Origin[m],
         NEW q \in Procs \ Ends(m)
  PROVE  call'[q] = call[q] /\ inbox'[q] = inbox[q] /\ delivered'[q] = delivered[q]
<1>1. /\ q # Origin[m] /\ q # Target[m]
      /\ inbox \in [Procs -> Seq(Datagram)] /\ call \in [Procs -> Calls]
  BY DEF Ends, Typed, TypeOK
<1>2. CASE Sends(m) /\ SendToReads(Origin[m])
  BY <1>1, <1>2 DEF SendToReads, Sends, Transmit, Popped
<1>3. CASE Sends(m) /\ SendToResends(Origin[m])
  BY <1>1, <1>3 DEF SendToResends, Sends, Transmit
<1>4. CASE RecvFromReads(Target[m]) /\ Head(inbox[Target[m]]).from = Origin[m]
  BY <1>1, <1>4 DEF RecvFromReads, RecvFromReturns, Transmit, Popped, Typed, TypeOK
<1> QED
  BY <1>2, <1>3, <1>4

\* When the target of m has all its packets, no packet of m waits.
LEMMA HeldIsRead ==
  ASSUME Calm, Typed, NEW m \in Messages, Sends(m), Exchange(m), Holds(m)
  PROVE  inbox[Target[m]] = <<>>
<1>1. PICK k \in 1..Chunks[m] : k = call[Origin[m]].at
  BY AtEnds
<1>2. k \in Nat \ {0} /\ Chunks[m] \in Nat /\ Chunks[m] > 0
  BY Lines
<1>3. /\ call[Target[m]].op = "recv" /\ call[Target[m]].data = Prefix(m, Chunks[m])
      /\ Prefix(m, Chunks[m]) # <<>>
  <2>1. Chunks[m] \in Nat /\ Chunks[m] > 0
    BY <1>2
  <2>2. Prefix(m, Chunks[m]) # <<>>
    BY <2>1, PrefixGrows, Zenon
  <2> QED
    BY <2>2 DEF Holds, Gathers, Receiving
<1>4. ~Ready(Target[m])
  BY <1>3 DEF Ready, Idle, Receiving
<1>5. \A a \in Nat : Reading(m, a) => a = Chunks[m]
  <2> SUFFICES ASSUME NEW a \in Nat, Reading(m, a) PROVE a = Chunks[m]
    OBVIOUS
  <2>1. a > 0 /\ Gathers(m, a)
    BY <1>4 DEF Reading
  <2>2. Prefix(m, a) = Prefix(m, Chunks[m])
    BY <1>3, <2>1 DEF Gathers, Receiving
  <2> QED
    BY <1>2, <2>1, <2>2, PrefixesDiffer
<1>6. After(m, k)
  BY <1>1, <1>2, <1>5 DEF Exchange, Before
<1>7. k = Chunks[m]
  BY <1>2, <1>5, <1>6 DEF After
<1> QED
  BY <1>2, <1>6, <1>7 DEF After

-----------------------------------------------------------------------------
\* The calls the target of m may be in while m is sent.
Hands(m) ==
  {Idle, Receiving(0, <<>>, None)}
    \cup {Receiving(a % 2, Prefix(m, a), Origin[m]) : a \in 1..Chunks[m]}

LEMMA HandsOther ==
  ASSUME Calm, NEW m \in Messages, NEW c \in Hands(m)
  PROVE  /\ c.op \in {"none", "recv"}
         /\ \A n \in Messages \ {m} :
              c # Receiving(Chunks[n] % 2, Prefix(n, Chunks[n]), Origin[n])
<1>1. c.op \in {"none", "recv"}
  BY DEF Hands, Idle, Receiving
<1>2. ASSUME NEW n \in Messages \ {m},
             c = Receiving(Chunks[n] % 2, Prefix(n, Chunks[n]), Origin[n])
      PROVE  FALSE
  <2>1. Chunks[n] \in Nat \ {0} /\ Chunks[m] \in Nat
    BY Lines
  <2>2. Prefix(n, Chunks[n]) # <<>>
    <3>1. Chunks[n] \in Nat /\ Chunks[n] > 0
      BY <2>1
    <3> QED
      BY <3>1, PrefixGrows, Zenon
  <2>3. c.op = "recv" /\ c.data = Prefix(n, Chunks[n])
    BY <1>2 DEF Receiving
  <2>4. PICK a \in 1..Chunks[m] : c = Receiving(a % 2, Prefix(m, a), Origin[m])
    BY <2>2, <2>3 DEF Hands, Idle, Receiving
  <2>5. Prefix(n, Chunks[n]) = Prefix(m, a)
    BY <2>3, <2>4 DEF Receiving
  <2> QED
    BY <2>1, <2>5, PrefixesDiffer
<1> QED
  BY <1>1, <1>2

\* The entries of different messages are different.
LEMMA EntriesDiffer ==
  ASSUME Calm, NEW m \in Messages, NEW n \in Messages,
         EntryOf(m).data = EntryOf(n).data
  PROVE  m = n
<1>1. Chunks[m] \in Nat \ {0} /\ Chunks[n] \in Nat
  BY Lines
<1>2. Prefix(m, Chunks[m]) = Prefix(n, Chunks[n])
  BY DEF EntryOf, Whole, Prefix
<1> QED
  BY <1>1, <1>2, PrefixesDiffer

\* A step in an exchange that goes on after it keeps ChannelInv.
LEMMA ExchangeGoesOn ==
  ASSUME Calm, ChannelInv, Typed', NEW m \in Messages, Sends(m), Exchange(m)',
         Sends(m)', UNCHANGED <<sent, returned>>,
         \A q \in Procs \ Ends(m) :
           call'[q] = call[q] /\ inbox'[q] = inbox[q] /\ delivered'[q] = delivered[q],
         \/ UNCHANGED delivered
         \/ delivered' = [delivered EXCEPT ![Target[m]] = Append(@, EntryOf(m))]
  PROVE  /\ ChannelInv'
         /\ \A n \in Messages \ {m} :
              /\ Arrived(n) <=> Arrived(n)'
              /\ Holds(n) <=> Holds(n)'
         /\ Arrived(m) => Arrived(m)'
<1> DEFINE p == Origin[m]
           t == Target[m]
<1>0. /\ \A n \in Messages :
           /\ Origin[n] \in Procs /\ Target[n] \in Procs /\ Origin[n] # Target[n]
           /\ Chunks[n] \in Nat /\ Chunks[n] > 0
      /\ call[p].op = "send" /\ call'[p].op = "send"
      /\ call[p].msg = m /\ call'[p].msg = m
  BY Lines DEF Sends
<1>1. call[t] \in Hands(m) /\ call'[t] \in Hands(m)
  <2>1. Exchange(m)
    BY DEF ChannelInv, Exchanges
  <2>2. call[p].at \in 1..Chunks[m] /\ call'[p].at \in 1..Chunks[m]
    BY <1>0 DEF ChannelInv, Typed, SendsOwn
  <2>3. call[t] \in Hands(m)
    <3>1. PICK j \in 0..Chunks[m] : Reading(m, j)
      BY <1>0, <2>1, <2>2 DEF Exchange, Before, After
    <3> QED
      BY <1>0, <3>1 DEF Reading, Ready, Gathers, Hands
  <2>4. call'[t] \in Hands(m)
    <3>1. PICK j \in 0..Chunks[m] : Reading(m, j)'
      BY <1>0, <2>2 DEF Exchange, Before, After
    <3> QED
      BY <1>0, <3>1 DEF Reading, Ready, Gathers, Hands
  <2> QED
    BY <2>3, <2>4
<1>2. call[t].op # "send" /\ call'[t].op # "send"
  BY <1>1, HandsOther
<1>3. \A n \in Messages \ {m} : Sends(n) <=> Sends(n)'
  <2> SUFFICES ASSUME NEW n \in Messages \ {m} PROVE Sends(n) <=> Sends(n)'
    OBVIOUS
  <2>1. CASE Origin[n] \in Ends(m)
    BY <1>0, <1>2, <2>1 DEF Ends, Sends
  <2>2. CASE Origin[n] \notin Ends(m)
    BY <1>0, <2>2 DEF Sends
  <2> QED
    BY <2>1, <2>2
<1>4. /\ \A n \in Messages \ {m} : Arrived(n) <=> Arrived(n)'
      /\ Arrived(m) => Arrived(m)'
  <2>1. CASE UNCHANGED delivered
    BY <2>1 DEF Arrived
  <2>2. CASE delivered' = [delivered EXCEPT ![t] = Append(@, EntryOf(m))]
    <3> DEFINE Entry == [from : Procs \cup {None}, data : Seq(Chunk)]
    <3>1. delivered \in [Procs -> Seq(Entry)] /\ delivered' \in [Procs -> Seq(Entry)]
      BY DEF ChannelInv, Typed, TypeOK
    <3> HIDE DEF Entry, t
    <3>2. /\ \A q \in Procs \ {t} : delivered'[q] = delivered[q]
          /\ delivered'[t] = Append(delivered[t], EntryOf(m))
      BY <1>0, <2>2, <3>1 DEF t
    <3>3. \A n \in Messages \ {m} : EntryOf(n) # EntryOf(m)
      BY EntriesDiffer
    <3>4. t \in Procs
      BY <1>0 DEF t
    <3>5. /\ Len(delivered[t]) \in Nat
          /\ DOMAIN delivered[t] = 1..Len(delivered[t])
          /\ DOMAIN delivered'[t] = 1..(Len(delivered[t]) + 1)
          /\ \A i \in 1..Len(delivered[t]) : delivered'[t][i] = delivered[t][i]
          /\ delivered'[t][Len(delivered[t]) + 1] = EntryOf(m)
      BY <3>1, <3>2, <3>4
    <3>6. Arrived(m) => Arrived(m)'
      BY <3>5 DEF Arrived, t
    <3>7. ASSUME NEW n \in Messages \ {m} PROVE Arrived(n) <=> Arrived(n)'
      <4>1. CASE Target[n] # t
        BY <1>0, <3>2, <4>1 DEF Arrived
      <4>2. CASE Target[n] = t
        <5>1. Arrived(n) => Arrived(n)'
          BY <3>5, <4>2 DEF Arrived
        <5>2. ASSUME Arrived(n)' PROVE Arrived(n)
          <6>1. PICK i \in 1..(Len(delivered[t]) + 1) : delivered'[t][i] = EntryOf(n)
            BY <3>5, <4>2, <5>2 DEF Arrived
          <6>2. i # Len(delivered[t]) + 1
            BY <3>3, <3>5, <6>1
          <6>3. i \in 1..Len(delivered[t])
            BY <3>5, <6>1, <6>2
          <6> QED
            BY <3>5, <4>2, <6>1, <6>3 DEF Arrived
        <5> QED
          BY <5>1, <5>2
      <4> QED
        BY <4>1, <4>2
    <3> QED
      BY <3>6, <3>7
  <2> QED
    BY <2>1, <2>2
<1>5. \A n \in Messages \ {m} : Holds(n) <=> Holds(n)'
  <2> SUFFICES ASSUME NEW n \in Messages \ {m} PROVE Holds(n) <=> Holds(n)'
    OBVIOUS
  <2>1. CASE Target[n] = p
    BY <1>0, <2>1 DEF Holds, Gathers, Receiving
  <2>2. CASE Target[n] = t
    BY <1>1, <2>2, HandsOther DEF Holds, Gathers
  <2>3. CASE Target[n] \notin Ends(m)
    BY <1>0, <2>3 DEF Holds, Gathers
  <2> QED
    BY <2>1, <2>2, <2>3 DEF Ends
<1>6. Apart'
  BY <1>3 DEF ChannelInv, Apart, Ends
<1>7. Exchanges'
  <2> SUFFICES ASSUME NEW n \in Messages \ {m}, Sends(n) PROVE Exchange(n)'
    BY <1>3 DEF Exchanges
  <2>1. Ends(m) \cap Ends(n) = {} /\ Exchange(n)
    BY DEF ChannelInv, Apart, Exchanges
  <2>2. \A q \in Ends(n) : q \in Procs \ Ends(m)
    BY <1>0, <2>1 DEF Ends
  <2> QED
    BY <2>1, <2>2, ExchangeKept
<1>8. Silent'
  <2> SUFFICES ASSUME NEW q \in Procs, inbox'[q] # <<>>
               PROVE  \E n \in Messages : Sends(n)' /\ q \in Ends(n)
    BY DEF Silent, Ends
  <2>1. CASE q \in Ends(m)
    BY <2>1
  <2>2. CASE q \notin Ends(m)
    <3>1. inbox[q] # <<>>
      BY <2>2
    <3>2. PICK n \in Messages : Sends(n) /\ q \in Ends(n)
      BY <3>1 DEF ChannelInv, Silent
    <3> QED
      BY <1>3, <2>2, <3>2
  <2> QED
    BY <2>1, <2>2
<1>9. Gathered'
  <2> SUFFICES ASSUME NEW q \in Procs, call'[q].op = "recv",
                      call'[q] # Receiving(0, <<>>, None)
               PROVE  \E n \in Messages :
                        /\ Target[n] = q
                        /\ Sends(n)' \/ (n \in returned' /\ Holds(n)' /\ ~Arrived(n)')
    BY DEF Gathered
  <2>1. CASE q \in Ends(m)
    BY <1>0, <2>1 DEF Ends
  <2>2. CASE q \notin Ends(m)
    <3>1. call'[q] = call[q]
      BY <2>2
    <3>2. PICK n \in Messages :
            /\ Target[n] = q
            /\ Sends(n) \/ (n \in returned /\ Holds(n) /\ ~Arrived(n))
      BY <3>1 DEF ChannelInv, Gathered
    <3>3. n # m
      BY <2>2, <3>2 DEF Ends
    <3> QED
      BY <1>3, <1>4, <1>5, <3>2, <3>3
  <2> QED
    BY <2>1, <2>2
<1>10. Known'
  <2>1. m \in sent \ returned
    BY DEF ChannelInv, Known
  <2> QED
    BY <1>3, <1>4, <1>5, <2>1 DEF ChannelInv, Known
<1>11. Entries'
  <2>1. CASE UNCHANGED delivered
    BY <2>1 DEF ChannelInv, Entries, EntryOf
  <2>2. CASE delivered' = [delivered EXCEPT ![t] = Append(@, EntryOf(m))]
    <3> DEFINE Entry == [from : Procs \cup {None}, data : Seq(Chunk)]
    <3>1. delivered \in [Procs -> Seq(Entry)]
      BY DEF ChannelInv, Typed, TypeOK
    <3> SUFFICES ASSUME NEW q \in Procs, NEW i \in DOMAIN delivered'[q]
                 PROVE  \E n \in Messages : Target[n] = q /\ delivered'[q][i] = EntryOf(n)
      BY DEF Entries, EntryOf, Whole
    <3> HIDE DEF Entry
    <3>2. CASE i \in DOMAIN delivered[q] /\ delivered'[q][i] = delivered[q][i]
      BY <3>2 DEF ChannelInv, Entries
    <3>3. CASE q = t /\ delivered'[q][i] = EntryOf(m)
      BY <3>3
    <3>4. delivered[q] \in Seq(Entry)
      BY <3>1
    <3>5. delivered'[q] = IF q = t THEN Append(delivered[q], EntryOf(m)) ELSE delivered[q]
      BY <2>2, <3>1
    <3> HIDE DEF t
    <3> QED
      BY <3>2, <3>3, <3>4, <3>5
  <2> QED
    BY <2>1, <2>2
<1> QED
  BY <1>4, <1>5, <1>6, <1>7, <1>8, <1>9, <1>10, <1>11 DEF ChannelInv

-----------------------------------------------------------------------------
(***************************************************************************)
(* What a step does to the messages the targets have in full: it is one of *)
(* the steps of the channel.                                               *)
(***************************************************************************)
Has(m)     == Arrived(m) \/ Holds(m)
SameFor(M) == \A n \in M : Has(n)' <=> Has(n)

ChannelStep ==
  \/ UNCHANGED <<sent, returned, delivered>> /\ SameFor(Messages)
  \/ \E m \in Messages :
       \/ /\ m \notin sent /\ sent' = sent \cup {m}
          /\ UNCHANGED <<returned, delivered>> /\ SameFor(Messages)
       \/ /\ m \in sent /\ (Has(m) => Has(m)')
          /\ UNCHANGED <<sent, returned, delivered>> /\ SameFor(Messages \ {m})
       \/ /\ Has(m) /\ m \notin returned /\ returned' = returned \cup {m}
          /\ UNCHANGED <<sent, delivered>> /\ SameFor(Messages)
       \/ /\ m \in sent /\ ~Arrived(m)
          /\ delivered' = [delivered EXCEPT ![Target[m]] = Append(@, EntryOf(m))]
          /\ UNCHANGED <<sent, returned>> /\ SameFor(Messages \ {m})

\* What is sent is not returned yet.
LEMMA SentNotReturned ==
  ASSUME ChannelInv, NEW m \in Messages, Sends(m)
  PROVE  Exchange(m) /\ m \in sent \ returned
BY DEF ChannelInv, Exchanges, Known

\* A message in full is not empty.
LEMMA HeldFields ==
  ASSUME Calm, NEW m \in Messages, Holds(m)
  PROVE  /\ call[Target[m]].op = "recv"
         /\ call[Target[m]].data = Whole(m) /\ call[Target[m]].data # <<>>
         /\ call[Target[m]].from = Origin[m]
<1>1. Chunks[m] \in Nat /\ Chunks[m] > 0
  BY Lines
<1>2. Prefix(m, Chunks[m]) # <<>> /\ Prefix(m, Chunks[m]) = Whole(m)
  BY <1>1, PrefixGrows, Zenon
<1> QED
  BY <1>2 DEF Holds, Gathers, Receiving

\* SendTo goes on, with the next packet or the same one, or skips a datagram.
LEMMA SenderSteps ==
  ASSUME Calm, ChannelInv, Typed', NEW p \in Procs,
         \/ SendToResends(p)
         \/ /\ SendToReads(p)
            /\ \/ Head(inbox[p]).bit # PacketOf(call[p].msg, call[p].at).bit
               \/ call[p].at < Chunks[call[p].msg]
  PROVE  ChannelInv' /\ ChannelStep
<1> DEFINE m == call[p].msg
           k == call[p].at
<1>1. /\ call[p].op = "send" /\ m \in Messages /\ k \in 1..Chunks[m]
      /\ Origin[m] = p /\ Chunks[m] \in Nat
  BY CallFields, Lines DEF ChannelInv, SendToReads, SendToResends
<1>2. Sends(m) /\ Exchange(m) /\ m \in sent /\ Typed
  BY <1>1, SentNotReturned DEF Sends, ChannelInv
<1>3. UNCHANGED <<sent, delivered>>
  BY DEF SendToReads, SendToResends
<1>4. PICK n \in Messages : n = m
  BY <1>1
<1>5. PICK i \in Nat : i = k
  BY <1>1
<1>6. Exchange(n)' /\ Sends(n)' /\ UNCHANGED returned
  <2>1. CASE SendToResends(p)
    BY <1>1, <1>2, <1>4, <2>1, SenderRepeats DEF SendToResends
  <2>2. CASE /\ SendToReads(p)
             /\ Head(inbox[p]).bit # PacketOf(m, k).bit
    BY <1>1, <1>2, <1>4, <2>2, SenderSkips DEF SendToReads
  <2>3. CASE /\ SendToReads(p)
             /\ Head(inbox[p]).bit = PacketOf(m, k).bit
             /\ k < Chunks[m]
    <3>1. UNCHANGED returned
      BY <1>1, <2>3 DEF SendToReads
    <3> QED
      BY <1>1, <1>2, <1>4, <1>5, <2>3, <3>1, SenderGoesOn
  <2> QED
    BY <2>1, <2>2, <2>3
<1>7. \A q \in Procs \ Ends(n) :
        call'[q] = call[q] /\ inbox'[q] = inbox[q] /\ delivered'[q] = delivered[q]
  BY <1>1, <1>2, <1>4, OthersKept
<1>8. /\ ChannelInv' /\ (Arrived(n) => Arrived(n)')
      /\ \A i2 \in Messages \ {n} : Has(i2)' <=> Has(i2)
  BY <1>2, <1>3, <1>4, <1>6, <1>7, ExchangeGoesOn DEF Has
<1>9. Has(n) => Has(n)'
  <2>1. call'[Target[n]] = call[Target[n]]
    BY <1>1, <1>4, Lines DEF SendToReads, SendToResends, ChannelInv, Typed, TypeOK
  <2> QED
    BY <1>8, <2>1 DEF Has, Holds, Gathers
<1> QED
  BY <1>2, <1>3, <1>4, <1>6, <1>8, <1>9 DEF ChannelStep, SameFor

\* RecvFrom reads a datagram.
LEMMA ReceiverSteps ==
  ASSUME Calm, ChannelInv, Typed', NEW p \in Procs, RecvFromReads(p)
  PROVE  ChannelInv' /\ ChannelStep
<1>1. Typed /\ call[p].op = "recv" /\ inbox[p] # <<>>
  BY DEF ChannelInv, RecvFromReads
<1>2. PICK m \in Messages : Sends(m) /\ p \in Ends(m)
  BY <1>1 DEF ChannelInv, Silent
<1>3. p = Target[m]
  BY <1>1, <1>2 DEF Ends, Sends
<1>4. Exchange(m) /\ m \in sent
  BY <1>2, SentNotReturned
<1>5. /\ Exchange(m)' /\ Sends(m)' /\ Head(inbox[p]).from = Origin[m]
      /\ \/ UNCHANGED delivered
         \/ /\ ~Arrived(m)
            /\ delivered' = [delivered EXCEPT ![p] = Append(@, EntryOf(m))]
  BY <1>1, <1>2, <1>3, <1>4, TargetReads
<1>6. \A q \in Procs \ Ends(m) :
        call'[q] = call[q] /\ inbox'[q] = inbox[q] /\ delivered'[q] = delivered[q]
  BY <1>1, <1>3, <1>5, OthersKept
<1>7. UNCHANGED <<sent, returned>>
  BY DEF RecvFromReads
<1>8. /\ ChannelInv' /\ (Arrived(m) => Arrived(m)')
      /\ \A n \in Messages \ {m} : Has(n)' <=> Has(n)
  BY <1>2, <1>3, <1>5, <1>6, <1>7, ExchangeGoesOn DEF Has
<1>9. ~Holds(m)
  BY <1>1, <1>2, <1>3, <1>4, HeldIsRead
<1> QED
  BY <1>3, <1>4, <1>5, <1>7, <1>8, <1>9 DEF ChannelStep, SameFor, Has

\* SendTo returns: its target has the message, and no datagram is left.
LEMMA SenderReturns ==
  ASSUME Calm, ChannelInv, Typed', NEW p \in Procs, SendToReads(p),
         Head(inbox[p]).bit = PacketOf(call[p].msg, call[p].at).bit,
         ~(call[p].at < Chunks[call[p].msg])
  PROVE  ChannelInv' /\ ChannelStep
<1> DEFINE k == call[p].at
<1>1. PICK m \in Messages : m = call[p].msg
  BY CallFields DEF ChannelInv, SendToReads
<1>2. /\ call[p].op = "send" /\ k = Chunks[m] /\ Origin[m] = p
      /\ Sends(m) /\ Exchange(m) /\ m \in sent \ returned /\ Typed
      /\ inbox[p] # <<>>
  <2>1. call[p].op = "send" /\ Origin[m] = p /\ k \in 1..Chunks[m] /\ Typed
    BY <1>1, CallFields DEF ChannelInv, SendToReads
  <2>2. k = Chunks[m]
    BY <1>1, <2>1, Lines
  <2> QED
    BY <1>1, <2>1, <2>2, SentNotReturned DEF Sends, SendToReads
<1> DEFINE t == Target[m]
<1>3. /\ call' = [call EXCEPT ![p] = Idle] /\ returned' = returned \cup {m}
      /\ inbox' = Popped(p) /\ UNCHANGED <<sent, delivered>>
  BY <1>1, <1>2, Lines DEF SendToReads
<1>4. /\ Reading(m, Chunks[m]) /\ inbox[t] = <<>> /\ Tail(inbox[p]) = <<>>
  BY <1>1, <1>2, Lines, SenderAnswered
<1>5. /\ \A q \in Procs \ {p} : call'[q] = call[q] /\ inbox'[q] = inbox[q]
      /\ call'[p] = Idle /\ inbox'[p] = <<>>
  BY <1>2, <1>3, <1>4 DEF Popped, ChannelInv, Typed, TypeOK
<1>6. \A n \in Messages : Origin[n] \in Procs /\ Target[n] \in Procs /\ Origin[n] # Target[n]
  BY Lines
<1>7. ~Sends(m)' /\ \A n \in Messages \ {m} : Sends(n)' <=> Sends(n)
  BY <1>1, <1>2, <1>5, <1>6 DEF Sends, Idle
<1>8. \A n \in Messages : (Arrived(n)' <=> Arrived(n)) /\ (Holds(n)' <=> Holds(n))
  <2> SUFFICES ASSUME NEW n \in Messages PROVE Holds(n)' <=> Holds(n)
    BY <1>3 DEF Arrived
  <2>1. CASE Target[n] = p
    BY <1>2, <1>5, <2>1 DEF Holds, Gathers, Receiving, Idle
  <2>2. CASE Target[n] # p
    BY <1>5, <1>6, <2>2 DEF Holds, Gathers
  <2> QED
    BY <2>1, <2>2
<1>9. /\ Has(m)
      /\ call[t].op = "recv" /\ call[t] # Receiving(0, <<>>, None) => Holds(m) /\ ~Arrived(m)
  BY <1>4, Lines DEF Reading, Ready, Idle, Holds, Has
<1>10. Apart'
  BY <1>7 DEF ChannelInv, Apart, Ends
<1>11. Exchanges'
  <2> SUFFICES ASSUME NEW n \in Messages \ {m}, Sends(n) PROVE Exchange(n)'
    BY <1>7 DEF Exchanges
  <2>1. Ends(m) \cap Ends(n) = {} /\ Exchange(n)
    BY <1>2 DEF ChannelInv, Apart, Exchanges
  <2>2. \A q \in Ends(n) : call'[q] = call[q] /\ inbox'[q] = inbox[q] /\ delivered'[q] = delivered[q]
    BY <1>2, <1>3, <1>5, <1>6, <2>1 DEF Ends
  <2> QED
    BY <2>1, <2>2, ExchangeKept
<1>12. Silent'
  <2> SUFFICES ASSUME NEW q \in Procs, inbox'[q] # <<>>
               PROVE  \E n \in Messages : Sends(n)' /\ q \in Ends(n)
    BY DEF Silent, Ends
  <2>1. q \notin Ends(m) /\ inbox[q] # <<>>
    BY <1>2, <1>4, <1>5 DEF Ends
  <2>2. PICK n \in Messages : Sends(n) /\ q \in Ends(n)
    BY <2>1 DEF ChannelInv, Silent
  <2> QED
    BY <1>7, <2>1, <2>2
<1>13. Gathered'
  <2> SUFFICES ASSUME NEW q \in Procs, call'[q].op = "recv",
                      call'[q] # Receiving(0, <<>>, None)
               PROVE  \E n \in Messages :
                        /\ Target[n] = q
                        /\ Sends(n)' \/ (n \in returned' /\ Holds(n)' /\ ~Arrived(n)')
    BY DEF Gathered
  <2>1. q # p /\ call'[q] = call[q]
    BY <1>5 DEF Idle
  <2>2. PICK n \in Messages :
          /\ Target[n] = q
          /\ Sends(n) \/ (n \in returned /\ Holds(n) /\ ~Arrived(n))
    BY <2>1 DEF ChannelInv, Gathered
  <2>3. CASE n = m
    BY <1>3, <1>8, <1>9, <2>1, <2>2, <2>3
  <2>4. CASE n # m
    BY <1>3, <1>7, <1>8, <2>2, <2>4
  <2> QED
    BY <2>3, <2>4
<1>14. Known'
  BY <1>2, <1>3, <1>7, <1>8, <1>9 DEF ChannelInv, Known, Has
<1>15. Entries'
  BY <1>3 DEF ChannelInv, Entries, EntryOf
<1>16. ChannelStep
  BY <1>2, <1>3, <1>8, <1>9 DEF ChannelStep, SameFor, Has
<1> QED
  BY <1>10, <1>11, <1>12, <1>13, <1>14, <1>15, <1>16 DEF ChannelInv

\* SendTo is called: its ends are in no other exchange, their sockets empty.
LEMMA SenderStarts ==
  ASSUME Calm, ChannelInv, Typed', NEW m \in Messages, SendTo(m)
  PROVE  ChannelInv' /\ ChannelStep
<1> DEFINE p == Origin[m]
           t == Target[m]
<1>1. /\ \A n \in Messages :
           Origin[n] \in Procs /\ Target[n] \in Procs /\ Origin[n] # Target[n]
      /\ 1 \in 1..Chunks[m] /\ PacketOf(m, 1) \in Datagram
  <2>1. 1 \in 1..Chunks[m]
    BY Lines
  <2> QED
    BY <2>1, Lines
<1>2. /\ Typed /\ call \in [Procs -> Calls] /\ inbox \in [Procs -> Seq(Datagram)]
      /\ call[p] = Idle /\ m \notin sent /\ Clear(m)
      /\ sent' = sent \cup {m} /\ call' = [call EXCEPT ![p] = Sending(m, 1)]
      /\ Transmit(t, PacketOf(m, 1), inbox) /\ UNCHANGED <<returned, delivered>>
  BY DEF SendTo, ChannelInv, Typed, TypeOK, Calm
<1>3. \A n \in Messages : Sends(n) => Ends(n) \cap Ends(m) = {}
  BY <1>1, <1>2 DEF Clear, Sends, Ends
<1>4. ~Arrived(m) /\ ~Sends(m)
  BY <1>2 DEF ChannelInv, Known
<1>5. inbox[p] = <<>> /\ inbox[t] = <<>>
  BY <1>1, <1>3 DEF ChannelInv, Silent, Ends
<1>6. Ready(t)
  <2>1. call[t].op # "send"
    <3> SUFFICES ASSUME call[t].op = "send" PROVE FALSE
      OBVIOUS
    <3>1. call[t].msg \in Messages /\ Origin[call[t].msg] = t
      BY <1>1, <1>2, CallFields
    <3> QED
      BY <1>1, <1>2, <3>1 DEF Clear
  <2>2. CASE call[t].op = "none"
    BY <1>1, <1>2, <2>2, CallFields DEF Ready
  <2>3. CASE call[t].op = "recv"
    <3>1. call[t].data = <<>>
      BY <1>2, <2>3 DEF Clear
    <3>2. \A n \in Messages : Target[n] = t => ~Sends(n) /\ ~Holds(n)
      BY <1>3, <3>1, HeldFields DEF Ends
    <3> QED
      BY <1>1, <2>3, <3>2 DEF ChannelInv, Gathered, Ready
  <2> QED
    BY <1>1, <1>2, <2>1, <2>2, <2>3, CallFields
<1>7. inbox' = [inbox EXCEPT ![t] = Append(inbox[t], PacketOf(m, 1))]
  BY <1>1, <1>2, GoesOut
<1>8. /\ \A q \in Procs \ {p} : call'[q] = call[q]
      /\ \A q \in Procs \ {t} : inbox'[q] = inbox[q]
      /\ call'[p] = Sending(m, 1) /\ inbox'[t] = Append(<<>>, PacketOf(m, 1))
  BY <1>1, <1>2, <1>5, <1>7
<1>9. Sends(m)' /\ \A n \in Messages \ {m} : Sends(n)' <=> Sends(n)
  BY <1>1, <1>2, <1>8 DEF Sends, Idle, Sending
<1>10. Exchange(m)'
  <2>1. Reading(m, 0)'
    BY <1>1, <1>2, <1>4, <1>6, <1>8 DEF Reading, Ready, Arrived
  <2>2. inbox'[t] # <<>> /\ AllAre(inbox'[t], PacketOf(m, 1)) /\ inbox'[p] = <<>>
    BY <1>1, <1>5, <1>8 DEF AllAre
  <2>3. Len(inbox'[t]) = 1
    BY <1>1, <1>8
  <2>4. Before(m, 1)'
    BY <2>1, <2>2, <2>3 DEF Before
  <2> QED
    BY <1>8, <2>4 DEF Exchange, Sending
<1>11. \A n \in Messages : (Arrived(n)' <=> Arrived(n)) /\ (Holds(n)' <=> Holds(n))
  <2> SUFFICES ASSUME NEW n \in Messages PROVE Holds(n)' <=> Holds(n)
    BY <1>2 DEF Arrived
  <2>1. CASE Target[n] = p
    BY <1>2, <1>8, <2>1 DEF Holds, Gathers, Receiving, Idle, Sending
  <2>2. CASE Target[n] # p
    BY <1>1, <1>8, <2>2 DEF Holds, Gathers
  <2> QED
    BY <2>1, <2>2
<1>12. Apart'
  <2> SUFFICES ASSUME NEW n1 \in Messages, NEW n2 \in Messages, n1 # n2,
                      Sends(n1)', Sends(n2)'
               PROVE  Ends(n1) \cap Ends(n2) = {}
    BY DEF Apart, Ends
  <2> QED
    BY <1>3, <1>9 DEF ChannelInv, Apart
<1>13. Exchanges'
  <2> SUFFICES ASSUME NEW n \in Messages \ {m}, Sends(n) PROVE Exchange(n)'
    BY <1>9, <1>10 DEF Exchanges
  <2>1. Ends(n) \cap Ends(m) = {} /\ Exchange(n)
    BY <1>3 DEF ChannelInv, Exchanges
  <2>2. \A q \in Ends(n) : call'[q] = call[q] /\ inbox'[q] = inbox[q] /\ delivered'[q] = delivered[q]
    <3>1. \A q \in Ends(n) : q \in Procs /\ q # p /\ q # t
      BY <1>1, <2>1 DEF Ends
    <3> QED
      BY <1>2, <1>8, <3>1
  <2> QED
    BY <2>1, <2>2, ExchangeKept
<1>14. Silent'
  <2> SUFFICES ASSUME NEW q \in Procs, inbox'[q] # <<>>
               PROVE  \E n \in Messages : Sends(n)' /\ q \in Ends(n)
    BY DEF Silent, Ends
  <2>1. CASE q \in Ends(m)
    BY <1>9, <2>1
  <2>2. CASE q \notin Ends(m)
    <3>1. PICK n \in Messages : Sends(n) /\ q \in Ends(n)
      BY <1>8, <2>2 DEF ChannelInv, Silent, Ends
    <3> QED
      BY <1>9, <2>2, <3>1
  <2> QED
    BY <2>1, <2>2
<1>15. Gathered'
  <2> SUFFICES ASSUME NEW q \in Procs, call'[q].op = "recv",
                      call'[q] # Receiving(0, <<>>, None)
               PROVE  \E n \in Messages :
                        /\ Target[n] = q
                        /\ Sends(n)' \/ (n \in returned' /\ Holds(n)' /\ ~Arrived(n)')
    BY DEF Gathered
  <2>1. q # p /\ call'[q] = call[q]
    BY <1>8 DEF Sending
  <2>2. PICK n \in Messages :
          /\ Target[n] = q
          /\ Sends(n) \/ (n \in returned /\ Holds(n) /\ ~Arrived(n))
    BY <2>1 DEF ChannelInv, Gathered
  <2> QED
    BY <1>2, <1>4, <1>9, <1>11, <2>2
<1>16. Known'
  BY <1>2, <1>4, <1>9, <1>11 DEF ChannelInv, Known
<1>17. Entries'
  BY <1>2 DEF ChannelInv, Entries, EntryOf
<1>18. ChannelStep
  BY <1>2, <1>11 DEF ChannelStep, SameFor, Has
<1> QED
  BY <1>12, <1>13, <1>14, <1>15, <1>16, <1>17, <1>18 DEF ChannelInv

\* RecvFrom is called: its process is Ready before and after.
LEMMA ReceiverStarts ==
  ASSUME Calm, ChannelInv, Typed', NEW p \in Procs, RecvFrom(p)
  PROVE  ChannelInv' /\ ChannelStep
<1>1. /\ call[p] = Idle /\ call \in [Procs -> Calls]
      /\ call' = [call EXCEPT ![p] = Receiving(0, <<>>, None)]
      /\ UNCHANGED <<sent, returned, delivered, inbox>>
  BY DEF RecvFrom, netVars, ChannelInv, Typed, TypeOK
<1>2. /\ \A q \in Procs \ {p} : call'[q] = call[q]
      /\ call'[p] = Receiving(0, <<>>, None)
  BY <1>1
<1>3. \A n \in Messages : Origin[n] \in Procs /\ Target[n] \in Procs
  BY Lines
<1>4. \A n \in Messages : Sends(n)' <=> Sends(n)
  BY <1>1, <1>2, <1>3 DEF Sends, Idle, Receiving
<1>5. \A n \in Messages : (Arrived(n)' <=> Arrived(n)) /\ (Holds(n)' <=> Holds(n))
  <2> SUFFICES ASSUME NEW n \in Messages PROVE Holds(n)' <=> Holds(n)
    BY <1>1 DEF Arrived
  <2>1. CASE Target[n] = p
    <3>1. ~Holds(n)
      BY <1>1, <2>1, HeldFields DEF Idle
    <3>2. ~Holds(n)'
      <4>1. Chunks[n] \in Nat /\ Chunks[n] > 0
        BY Lines
      <4>2. Prefix(n, Chunks[n]) # <<>>
        BY <4>1, PrefixGrows, Zenon
      <4> QED
        BY <1>2, <2>1, <4>2 DEF Holds, Gathers, Receiving
    <3> QED
      BY <3>1, <3>2
  <2>2. CASE Target[n] # p
    BY <1>2, <1>3, <2>2 DEF Holds, Gathers
  <2> QED
    BY <2>1, <2>2
<1>6. Exchanges'
  <2> SUFFICES ASSUME NEW n \in Messages, Sends(n) PROVE Exchange(n)'
    BY <1>4 DEF Exchanges
  <2>1. Exchange(n) /\ call'[Origin[n]] = call[Origin[n]]
    BY <1>1, <1>2, <1>3 DEF ChannelInv, Exchanges, Sends, Idle
  <2>2. \A a : Reading(n, a) => Reading(n, a)'
    <3>1. CASE Target[n] = p
      BY <1>1, <1>2, <3>1 DEF Reading, Ready, Gathers, Arrived, Idle, Receiving
    <3>2. CASE Target[n] # p
      BY <1>1, <1>2, <1>3, <3>2, ReadingKept
    <3> QED
      BY <3>1, <3>2
  <2>3. PICK k : k = call[Origin[n]].at
    OBVIOUS
  <2>4. CASE Before(n, k)
    BY <1>1, <2>1, <2>2, <2>3, <2>4 DEF Exchange, Before
  <2>5. CASE After(n, k)
    BY <1>1, <2>1, <2>2, <2>3, <2>5 DEF Exchange, After
  <2> QED
    BY <2>1, <2>3, <2>4, <2>5 DEF Exchange
<1>7. Gathered'
  <2> SUFFICES ASSUME NEW q \in Procs \ {p}, call[q].op = "recv",
                      call[q] # Receiving(0, <<>>, None)
               PROVE  \E n \in Messages :
                        /\ Target[n] = q
                        /\ Sends(n)' \/ (n \in returned' /\ Holds(n)' /\ ~Arrived(n)')
    BY <1>2 DEF Gathered
  <2> QED
    BY <1>1, <1>4, <1>5 DEF ChannelInv, Gathered
<1>8. Apart' /\ Silent' /\ Known' /\ Entries'
  BY <1>1, <1>4, <1>5 DEF ChannelInv, Apart, Silent, Known, Entries, Ends, EntryOf
<1>9. ChannelStep
  BY <1>1, <1>5 DEF ChannelStep, SameFor, Has
<1> QED
  BY <1>6, <1>7, <1>8, <1>9 DEF ChannelInv

\* RecvFrom ends a second after the last datagram: its process is the
\* target of no exchange, and what it holds is a message in full.
LEMMA ReceiverEnds ==
  ASSUME Calm, ChannelInv, Typed', NEW p \in Procs, RecvFromEnds(p)
  PROVE  ChannelInv' /\ ChannelStep
<1> DEFINE Entry == [from : Procs \cup {None}, data : Seq(Chunk)]
<1>1. /\ call[p].op = "recv" /\ Quiet /\ call \in [Procs -> Calls] /\ Typed
      /\ call' = [call EXCEPT ![p] = Idle]
      /\ delivered \in [Procs -> Seq(Entry)]
      /\ UNCHANGED <<sent, returned, inbox>>
  BY DEF RecvFromEnds, RecvFromReturns, netVars, ChannelInv, Typed, TypeOK
<1>2. (\A q \in Procs \ {p} : call'[q] = call[q]) /\ call'[p] = Idle
  BY <1>1
<1>3. \A n \in Messages :
        Origin[n] \in Procs /\ Target[n] \in Procs /\ Origin[n] # Target[n]
  BY Lines
<1>4. \A n \in Messages : Sends(n)' <=> Sends(n)
  BY <1>1, <1>2, <1>3 DEF Sends, Idle
<1>5. \A n \in Messages : Sends(n) => p \notin Ends(n)
  <2> SUFFICES ASSUME NEW n \in Messages, Sends(n), p \in Ends(n) PROVE FALSE
    OBVIOUS
  <2>1. p = Target[n] /\ Exchange(n)
    BY <1>1 DEF Ends, Sends, ChannelInv, Exchanges
  <2>2. inbox[p] = <<>> /\ inbox[Origin[n]] = <<>>
    BY <1>1, <1>3 DEF Quiet, Sends
  <2>3. call[Origin[n]].at \in Nat \ {0}
    BY <1>1, AtEnds, Lines
  <2> QED
    BY <2>1, <2>2, <2>3 DEF Exchange, Before, After, EndsWith
<1>6. CASE call[p].data = <<>>
  <2>1. UNCHANGED delivered
    BY <1>6 DEF RecvFromEnds, RecvFromReturns
  <2>2. \A n \in Messages : (Arrived(n)' <=> Arrived(n)) /\ (Holds(n)' <=> Holds(n))
    <3> SUFFICES ASSUME NEW n \in Messages PROVE Holds(n)' <=> Holds(n)
      BY <2>1 DEF Arrived
    <3>1. CASE Target[n] = p
      BY <1>2, <1>6, <3>1, HeldFields DEF Holds, Gathers, Idle, Receiving
    <3>2. CASE Target[n] # p
      BY <1>2, <1>3, <3>2 DEF Holds, Gathers
    <3> QED
      BY <3>1, <3>2
  <2>3. Exchanges'
    <3> SUFFICES ASSUME NEW n \in Messages, Sends(n) PROVE Exchange(n)'
      BY <1>4 DEF Exchanges
    <3>1. Exchange(n) /\ p \notin Ends(n)
      BY <1>5 DEF ChannelInv, Exchanges
    <3>2. \A q \in Ends(n) : call'[q] = call[q] /\ inbox'[q] = inbox[q] /\ delivered'[q] = delivered[q]
      BY <1>1, <1>2, <1>3, <2>1, <3>1 DEF Ends
    <3> QED
      BY <3>1, <3>2, ExchangeKept
  <2>4. Gathered'
    <3> SUFFICES ASSUME NEW q \in Procs \ {p}, call[q].op = "recv",
                        call[q] # Receiving(0, <<>>, None)
                 PROVE  \E n \in Messages :
                          /\ Target[n] = q
                          /\ Sends(n)' \/ (n \in returned' /\ Holds(n)' /\ ~Arrived(n)')
      BY <1>2 DEF Gathered, Idle
    <3> QED
      BY <1>1, <1>4, <2>2 DEF ChannelInv, Gathered
  <2>5. Apart' /\ Silent' /\ Known' /\ Entries'
    BY <1>1, <1>4, <2>1, <2>2 DEF ChannelInv, Apart, Silent, Known, Entries, Ends, EntryOf
  <2>6. ChannelStep
    BY <1>1, <2>1, <2>2 DEF ChannelStep, SameFor, Has
  <2> QED
    BY <2>3, <2>4, <2>5, <2>6 DEF ChannelInv
<1>7. CASE call[p].data # <<>>
  <2>1. PICK m \in Messages :
          Target[m] = p /\ m \in returned /\ Holds(m) /\ ~Arrived(m) /\ ~Sends(m)
    BY <1>1, <1>5, <1>7 DEF ChannelInv, Gathered, Ends, Receiving
  <2>2. call[p].data = Whole(m) /\ call[p].from = Origin[m]
    BY <2>1, HeldFields
  <2>3. delivered' = [delivered EXCEPT ![p] = Append(@, EntryOf(m))]
    BY <1>7, <2>2 DEF RecvFromEnds, RecvFromReturns, EntryOf
  <2>4. /\ \A q \in Procs \ {p} : delivered'[q] = delivered[q]
        /\ delivered'[p] = Append(delivered[p], EntryOf(m))
    BY <1>1, <2>3
  <2>5. delivered[p] \in Seq(Entry)
    BY <1>1
  <2> HIDE DEF Entry
  <2>6. /\ Len(delivered[p]) \in Nat
        /\ DOMAIN delivered[p] = 1..Len(delivered[p])
        /\ DOMAIN delivered'[p] = 1..(Len(delivered[p]) + 1)
        /\ \A i \in 1..Len(delivered[p]) : delivered'[p][i] = delivered[p][i]
        /\ delivered'[p][Len(delivered[p]) + 1] = EntryOf(m)
    BY <2>4, <2>5
  <2>7. Arrived(m)'
    BY <2>1, <2>6 DEF Arrived
  <2>8. \A n \in Messages \ {m} : EntryOf(n) # EntryOf(m)
    BY EntriesDiffer
  <2>9. ASSUME NEW n \in Messages \ {m} PROVE Arrived(n)' <=> Arrived(n)
    <3>1. CASE Target[n] # p
      BY <1>3, <2>4, <3>1 DEF Arrived
    <3>2. CASE Target[n] = p
      <4>1. Arrived(n) => Arrived(n)'
        BY <2>6, <3>2 DEF Arrived
      <4>2. ASSUME Arrived(n)' PROVE Arrived(n)
        <5>1. PICK i \in 1..(Len(delivered[p]) + 1) : delivered'[p][i] = EntryOf(n)
          BY <2>6, <3>2, <4>2 DEF Arrived
        <5>2. i # Len(delivered[p]) + 1
          BY <2>6, <2>8, <5>1
        <5>3. i \in 1..Len(delivered[p])
          BY <2>6, <5>1, <5>2
        <5> QED
          BY <2>6, <3>2, <5>1, <5>3 DEF Arrived
      <4> QED
        BY <4>1, <4>2
    <3> QED
      BY <3>1, <3>2
  <2>10. ASSUME NEW n \in Messages \ {m} PROVE Holds(n)' <=> Holds(n)
    <3>1. CASE Target[n] # p
      BY <1>2, <1>3, <3>1 DEF Holds, Gathers
    <3>2. CASE Target[n] = p
      <4>1. ~Holds(n)
        BY <2>2, <2>8, <3>2, HeldFields, EntriesDiffer DEF EntryOf
      <4> QED
        BY <1>2, <3>2, <4>1 DEF Holds, Gathers, Idle, Receiving
    <3> QED
      BY <3>1, <3>2
  <2>11. Exchanges'
    <3> SUFFICES ASSUME NEW n \in Messages, Sends(n) PROVE Exchange(n)'
      BY <1>4 DEF Exchanges
    <3>1. Exchange(n) /\ p \notin Ends(n)
      BY <1>5 DEF ChannelInv, Exchanges
    <3>2. \A q \in Ends(n) : call'[q] = call[q] /\ inbox'[q] = inbox[q] /\ delivered'[q] = delivered[q]
      BY <1>1, <1>2, <1>3, <2>4, <3>1 DEF Ends
    <3> QED
      BY <3>1, <3>2, ExchangeKept
  <2>12. Gathered'
    <3> SUFFICES ASSUME NEW q \in Procs \ {p}, call[q].op = "recv",
                        call[q] # Receiving(0, <<>>, None)
                 PROVE  \E n \in Messages :
                          /\ Target[n] = q
                          /\ Sends(n)' \/ (n \in returned' /\ Holds(n)' /\ ~Arrived(n)')
      BY <1>2 DEF Gathered, Idle
    <3> QED
      BY <1>1, <1>4, <2>1, <2>9, <2>10 DEF ChannelInv, Gathered
  <2>13. Apart' /\ Silent'
    BY <1>1, <1>4 DEF ChannelInv, Apart, Silent, Ends
  <2>14. Known'
    BY <1>1, <1>4, <2>1, <2>7, <2>9, <2>10 DEF ChannelInv, Known
  <2>15. Entries'
    <3> SUFFICES ASSUME NEW q \in Procs, NEW i \in DOMAIN delivered'[q]
                 PROVE  \E n \in Messages : Target[n] = q /\ delivered'[q][i] = EntryOf(n)
      BY DEF Entries, EntryOf, Whole
    <3>1. CASE q # p
      BY <2>4, <3>1 DEF ChannelInv, Entries
    <3>2. CASE q = p
      BY <2>1, <2>6, <3>2 DEF ChannelInv, Entries
    <3> QED
      BY <3>1, <3>2
  <2>16. ChannelStep
    BY <1>1, <2>1, <2>3, <2>9, <2>10 DEF ChannelStep, SameFor, Has, ChannelInv, Known
  <2> QED
    BY <2>11, <2>12, <2>13, <2>14, <2>15, <2>16 DEF ChannelInv
<1> QED
  BY <1>6, <1>7

-----------------------------------------------------------------------------
\* Nothing is under way at the start.
LEMMA ChannelInvInit == Init /\ Typed => ChannelInv
BY RDTAssumption
   DEF Init, ChannelInv, Apart, Exchanges, Silent, Gathered, Known, Entries,
       Sends, Arrived, Holds, Gathers, Idle, Receiving

\* Every step keeps ChannelInv and is a step of the channel.
LEMMA ChannelInvStep ==
  ASSUME Calm, ChannelInv, [Next]_vars
  PROVE  ChannelInv' /\ ChannelStep
<1>1. Typed'
  BY TypedStep DEF ChannelInv
<1>2. CASE UNCHANGED vars
  <2>1. UNCHANGED <<call, inbox, sent, returned, delivered>>
    BY <1>2 DEF vars, netVars
  <2>2. \A m \in Messages :
          /\ Sends(m)' <=> Sends(m)
          /\ Arrived(m)' <=> Arrived(m)
          /\ Holds(m)' <=> Holds(m)
    BY <2>1 DEF Sends, Arrived, Holds, Gathers
  <2>3. Exchanges'
    BY <2>1, <2>2, ExchangeKept DEF ChannelInv, Exchanges
  <2>4. Apart' /\ Silent' /\ Gathered' /\ Known' /\ Entries'
    BY <2>1, <2>2
       DEF ChannelInv, Apart, Silent, Gathered, Known, Entries, Ends, EntryOf
  <2> QED
    BY <1>1, <2>1, <2>2, <2>3, <2>4 DEF ChannelInv, ChannelStep, SameFor, Has
<1>3. ASSUME NEW m \in Messages, SendTo(m) PROVE ChannelInv' /\ ChannelStep
  BY <1>1, <1>3, SenderStarts
<1>4. ASSUME NEW p \in Procs, SendToReads(p) PROVE ChannelInv' /\ ChannelStep
  BY <1>1, <1>4, SenderSteps, SenderReturns
<1>5. ASSUME NEW p \in Procs, SendToResends(p) PROVE ChannelInv' /\ ChannelStep
  BY <1>1, <1>5, SenderSteps
<1>6. ASSUME NEW p \in Procs, RecvFrom(p) PROVE ChannelInv' /\ ChannelStep
  BY <1>1, <1>6, ReceiverStarts
<1>7. ASSUME NEW p \in Procs, RecvFromReads(p) PROVE ChannelInv' /\ ChannelStep
  BY <1>1, <1>7, ReceiverSteps
<1>8. ASSUME NEW p \in Procs, RecvFromEnds(p) PROVE ChannelInv' /\ ChannelStep
  BY <1>1, <1>8, ReceiverEnds
<1> QED
  BY <1>2, <1>3, <1>4, <1>5, <1>6, <1>7, <1>8 DEF Next, Loops

\* What the refinement mapping calls taken is what Has says.
Mapped ==
  \A m \in Messages : Whole(m) \in Buffers(Target[m]) <=> Has(m)

LEMMA MapsToHas ==
  ASSUME Calm, ChannelInv
  PROVE  Mapped
<1> SUFFICES ASSUME NEW m \in Messages
             PROVE  Whole(m) \in Buffers(Target[m]) <=> Has(m)
  BY DEF Mapped
<1> DEFINE t == Target[m]
<1>1. t \in Procs /\ Chunks[m] \in Nat /\ Chunks[m] > 0
  BY Lines
<1>2. Whole(m) = Prefix(m, Chunks[m]) /\ Whole(m) # <<>>
  BY <1>1, PrefixGrows, Zenon
<1>3. Has(m) => Whole(m) \in Buffers(t)
  BY HeldFields DEF Has, Arrived, EntryOf, Buffers
<1>4. ASSUME NEW i \in DOMAIN delivered[t], delivered[t][i].data = Whole(m)
      PROVE  Arrived(m)
  <2>1. PICK n \in Messages : Target[n] = t /\ delivered[t][i] = EntryOf(n)
    BY <1>1 DEF ChannelInv, Entries
  <2>2. n = m
    BY <1>4, <2>1, EntriesDiffer DEF EntryOf
  <2> QED
    BY <2>1, <2>2 DEF Arrived
<1>5. ASSUME call[t].op = "recv", call[t].data = Whole(m) PROVE Holds(m)
  <2>1. PICK n \in Messages : Target[n] = t /\ (Sends(n) \/ Holds(n))
    BY <1>1, <1>2, <1>5 DEF ChannelInv, Gathered, Receiving
  <2>2. PICK a \in Nat : call[t] = Receiving(a % 2, Prefix(n, a), Origin[n])
    <3>1. CASE Holds(n)
      BY <2>1, <3>1, Lines DEF Holds, Gathers
    <3>2. CASE Sends(n)
      <4>1. PICK k \in 1..Chunks[n] : k = call[Origin[n]].at
        BY <3>2, AtEnds DEF ChannelInv
      <4>2. k \in Nat /\ k - 1 \in Nat
        BY <4>1, Lines
      <4>3. Reading(n, k - 1) \/ Reading(n, k)
        BY <3>2, <4>1 DEF ChannelInv, Exchanges, Exchange, Before, After
      <4>4. ~Ready(t)
        BY <1>2, <1>5 DEF Ready, Idle, Receiving
      <4> QED
        BY <2>1, <4>2, <4>3, <4>4 DEF Reading, Gathers
    <3> QED
      BY <2>1, <3>1, <3>2
  <2>3. Prefix(m, Chunks[m]) = Prefix(n, a)
    BY <1>2, <1>5, <2>2 DEF Receiving
  <2>4. m = n /\ a = Chunks[m]
    BY <1>1, <2>3, PrefixesDiffer
  <2> QED
    BY <2>2, <2>4 DEF Holds, Gathers
<1> QED
  BY <1>3, <1>4, <1>5 DEF Buffers, Has

\* An entry is mapped to the message it holds.
LEMMA EntryMaps ==
  ASSUME Calm, NEW m \in Messages
  PROVE  WholeOf(EntryOf(m)) = [from |-> Origin[m], msg |-> m]
<1>1. \A n \in Messages : EntryOf(m).data = Whole(n) <=> n = m
  BY EntriesDiffer DEF EntryOf
<1>2. (CHOOSE n \in Messages : EntryOf(m).data = Whole(n)) = m
  BY <1>1
<1> QED
  BY <1>1, <1>2 DEF WholeOf, EntryOf

Lists == [p \in Procs |-> [i \in DOMAIN delivered[p] |-> WholeOf(delivered[p][i])]]

\* What is returned with a message in it, as the channel sees it.
LEMMA ListGrows ==
  ASSUME Calm, Typed, NEW m \in Messages,
         delivered' = [delivered EXCEPT ![Target[m]] = Append(@, EntryOf(m))]
  PROVE  /\ Lists' = [Lists EXCEPT ![Target[m]] =
                        Append(@, [from |-> Origin[m], msg |-> m])]
         /\ Arrived(m)'
<1> DEFINE Entry == [from : Procs \cup {None}, data : Seq(Chunk)]
           x == [from |-> Origin[m], msg |-> m]
           s == delivered[Target[m]]
           n == Len(s)
           L == [i \in DOMAIN s |-> WholeOf(s[i])]
<1>1. Target[m] \in Procs
  BY Lines
<1>2. delivered \in [Procs -> Seq(Entry)]
  BY DEF Typed, TypeOK
<1> HIDE DEF Entry
<1>3. s \in Seq(Entry) /\ n \in Nat /\ DOMAIN s = 1..n
  BY <1>1, <1>2
<1>4. delivered'[Target[m]] = Append(s, EntryOf(m))
  BY <1>1, <1>2
<1>5. /\ DOMAIN delivered'[Target[m]] = 1..(n + 1)
      /\ \A i \in 1..n : delivered'[Target[m]][i] = s[i]
      /\ delivered'[Target[m]][n + 1] = EntryOf(m)
  BY <1>3, <1>4
<1>6. Arrived(m)'
  BY <1>3, <1>5 DEF Arrived
<1>7. WholeOf(EntryOf(m)) = x
  BY EntryMaps
<1> DEFINE R == {WholeOf(s[i]) : i \in 1..n} \cup {x}
<1>8. L \in Seq(R) /\ Len(L) = n /\ DOMAIN L = 1..n
  BY <1>3
<1>9. x \in R
  OBVIOUS
<1> DEFINE Lnext == [i \in 1..(n + 1) |-> WholeOf(delivered'[Target[m]][i])]
<1>10. \A i \in 1..n : L[i] = WholeOf(s[i])
  BY <1>3
<1> HIDE DEF L, R, x
<1>11. /\ Append(L, x) \in Seq(R) /\ DOMAIN Append(L, x) = 1..(n + 1)
       /\ \A i \in 1..n : Append(L, x)[i] = L[i]
       /\ Append(L, x)[n + 1] = x
  BY <1>3, <1>8, <1>9
<1>12. \A i \in 1..(n + 1) : Lnext[i] = Append(L, x)[i]
  BY <1>3, <1>5, <1>7, <1>10, <1>11
<1>13. Lnext = Append(L, x)
  <2>1. Append(L, x) = [i \in 1..(n + 1) |-> Append(L, x)[i]]
    <3>1. Append(L, x) \in [1..Len(Append(L, x)) -> R]
      BY <1>11, LenProperties
    <3>2. DOMAIN Append(L, x) = 1..Len(Append(L, x))
      BY <3>1
    <3> QED
      BY <1>11, <3>1, <3>2
  <2> QED
    BY <1>12, <2>1
<1>14. \A q \in Procs \ {Target[m]} : delivered'[q] = delivered[q]
  BY <1>2
<1>15. \A q \in Procs :
         Lists'[q] = IF q = Target[m] THEN Append(L, x) ELSE Lists[q]
  <2>1. Lists'[Target[m]] = Lnext
    BY <1>1, <1>5 DEF Lists
  <2>2. \A q \in Procs \ {Target[m]} : Lists'[q] = Lists[q]
    BY <1>14 DEF Lists
  <2> QED
    BY <1>13, <2>1, <2>2
<1>16. Lists[Target[m]] = L
  BY <1>1 DEF Lists, L
<1>17. /\ DOMAIN Lists = Procs /\ DOMAIN Lists' = Procs
       /\ Lists = [q \in Procs |-> Lists[q]] /\ Lists' = [q \in Procs |-> Lists'[q]]
  BY DEF Lists
<1> QED
  BY <1>1, <1>6, <1>15, <1>16, <1>17 DEF x

\* Every step of RDT_UDP is a step of the channel, or none.
LEMMA ChannelSteps ==
  ASSUME Calm, ChannelInv, ChannelStep, Mapped, Mapped'
  PROVE  [AbstractChannel!ChannelNext]_(AbstractChannel!channelVars)
<1> DEFINE Took == {m \in Messages : Whole(m) \in Buffers(Target[m])}
<1>1. /\ \A m \in Messages : m \in Took <=> Has(m)
      /\ \A m \in Messages : m \in Took' <=> Has(m)'
      /\ Took \subseteq Messages /\ Took' \subseteq Messages
  BY DEF Mapped
<1>2. /\ AbstractChannel!channelVars = <<sent, Took, returned, Lists>>
      /\ AbstractChannel!channelVars' = <<sent', Took', returned', Lists'>>
  BY DEF AbstractChannel!channelVars, Lists
<1> HIDE DEF Took
<1>3. UNCHANGED delivered => UNCHANGED Lists
  BY DEF Lists
<1>4. SameFor(Messages) => UNCHANGED Took
  BY <1>1 DEF SameFor
<1>5. CASE UNCHANGED <<sent, returned, delivered>> /\ SameFor(Messages)
  BY <1>2, <1>3, <1>4, <1>5
<1>6. ASSUME NEW m \in Messages,
             m \notin sent, sent' = sent \cup {m},
             UNCHANGED <<returned, delivered>>, SameFor(Messages)
      PROVE  AbstractChannel!ChannelNext
  <2>1. AbstractChannel!Send(m)
    BY <1>3, <1>4, <1>6 DEF AbstractChannel!Send, Lists, Took
  <2> QED
    BY <2>1 DEF AbstractChannel!ChannelNext
<1>7. ASSUME NEW m \in Messages, m \in sent, Has(m) => Has(m)',
             UNCHANGED <<sent, returned, delivered>>, SameFor(Messages \ {m})
      PROVE  AbstractChannel!ChannelNext \/ UNCHANGED <<sent, Took, returned, Lists>>
  <2>1. CASE Has(m) <=> Has(m)'
    <3>1. UNCHANGED Took
      BY <1>1, <1>7, <2>1 DEF SameFor
    <3> QED
      BY <1>3, <1>7, <3>1
  <2>2. CASE ~Has(m) /\ Has(m)'
    <3>1. m \notin Took /\ Took' = Took \cup {m}
      BY <1>1, <1>7, <2>2 DEF SameFor
    <3>2. AbstractChannel!Take(m)
      BY <1>3, <1>7, <3>1 DEF AbstractChannel!Take, Lists, Took
    <3> QED
      BY <3>2 DEF AbstractChannel!ChannelNext
  <2> QED
    BY <1>7, <2>1, <2>2
<1>8. ASSUME NEW m \in Messages, Has(m), m \notin returned,
             returned' = returned \cup {m},
             UNCHANGED <<sent, delivered>>, SameFor(Messages)
      PROVE  AbstractChannel!ChannelNext
  <2>1. m \in Took
    BY <1>1, <1>8
  <2>2. AbstractChannel!Return(m)
    BY <1>3, <1>4, <1>8, <2>1 DEF AbstractChannel!Return, Lists, Took
  <2> QED
    BY <2>2 DEF AbstractChannel!ChannelNext
<1>9. ASSUME NEW m \in Messages, m \in sent, ~Arrived(m),
             delivered' = [delivered EXCEPT ![Target[m]] = Append(@, EntryOf(m))],
             UNCHANGED <<sent, returned>>, SameFor(Messages \ {m})
      PROVE  AbstractChannel!ChannelNext
  <2> DEFINE t == Target[m]
             x == [from |-> Origin[m], msg |-> m]
  <2>1. Lists' = [Lists EXCEPT ![t] = Append(@, x)] /\ Arrived(m)'
    BY <1>9, ListGrows DEF ChannelInv
  <2>2. Took' = Took \cup {m}
    BY <1>1, <1>9, <2>1 DEF SameFor, Has
  <2>3. \A i \in DOMAIN Lists[t] : Lists[t][i] # x
    <3>1. t \in Procs
      BY Lines
    <3>2. /\ DOMAIN Lists[t] = DOMAIN delivered[t]
          /\ \A i \in DOMAIN Lists[t] : Lists[t][i] = WholeOf(delivered[t][i])
      BY <3>1 DEF Lists
    <3>3. ASSUME NEW i \in DOMAIN delivered[t] PROVE WholeOf(delivered[t][i]) # x
      <4>1. PICK n \in Messages : Target[n] = t /\ delivered[t][i] = EntryOf(n)
        BY <3>1 DEF ChannelInv, Entries
      <4>2. n # m
        BY <1>9, <4>1 DEF Arrived
      <4>3. WholeOf(EntryOf(n)) = [from |-> Origin[n], msg |-> n]
        BY EntryMaps
      <4> QED
        BY <4>1, <4>2, <4>3
    <3> QED
      BY <3>2, <3>3
  <2>4. AbstractChannel!Deliver(m)
    BY <1>9, <2>1, <2>2, <2>3 DEF AbstractChannel!Deliver, Lists, Took
  <2> QED
    BY <2>4 DEF AbstractChannel!ChannelNext
<1> QED
  BY <1>2, <1>5, <1>6, <1>7, <1>8, <1>9 DEF ChannelStep

(***************************************************************************)
(* RDT_UDP implements the channel: SendTo returns after the destination    *)
(* has the message, RecvFrom returns messages as they were sent, each once *)
(* and with its sender.                                                    *)
(***************************************************************************)
THEOREM Implements ==
  ASSUME Calm
  PROVE  Spec => ImplementsChannel
<1>1. Init => AbstractChannel!ChannelInit
  <2>1. ASSUME Init PROVE {m \in Messages : Whole(m) \in Buffers(Target[m])} = {}
    BY <2>1, RDTAssumption DEF Init, Buffers, Idle
  <2> QED
    BY <2>1 DEF Init, AbstractChannel!ChannelInit
<1>2. ChannelInv /\ [Next]_vars => ChannelInv'
  BY ChannelInvStep
<1>3. Init => ChannelInv
  BY TypedInit, ChannelInvInit
<1>4. ChannelInv => Mapped
  BY MapsToHas
<1>5. ChannelInv /\ [Next]_vars /\ Mapped /\ Mapped'
        => [AbstractChannel!ChannelNext]_(AbstractChannel!channelVars)
  BY ChannelInvStep, ChannelSteps
<1> QED
  BY <1>1, <1>2, <1>3, <1>4, <1>5, PTL
     DEF Spec, ImplementsChannel, AbstractChannel!ChannelSpec

=============================================================================
