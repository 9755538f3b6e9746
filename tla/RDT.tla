--------------------------------- MODULE RDT ---------------------------------
(***************************************************************************)
(* RDT_UDP at the level of its datagrams: the alternating-bit loops of     *)
(* SendTo and RecvFrom over one UDP socket per process.  SplitData cuts a  *)
(* message into packets ("chunks"); their bits alternate from 0 on.  An    *)
(* acknowledgement has length 0 and a checksum that does not fit its text, *)
(* so each kind of datagram can be read as the other:                      *)
(*   - SendTo looks only at the bit of what it reads, whoever sent it and  *)
(*     whatever it is;                                                     *)
(*   - RecvFrom finds an acknowledgement corrupt, answers it, and ends, as *)
(*     it does after every datagram that says it is short.                 *)
(* A socket hands datagrams over in the order they arrive.  The network    *)
(* and the loops are fast next to the one second of a timeout: it passes   *)
(* only when no loop has a datagram to read.                               *)
(***************************************************************************)
EXTENDS Integers, Sequences, FiniteSets

CONSTANTS
  Procs, Messages, Origin, Target,  \* as in Channel
  Chunks,      \* Chunks[m]: the number of packets of m
  Brief,       \* the messages whose last packet has fewer than ten bytes
  Undisturbed, \* whether processes keep out of each other's way (Clear)
  MaxLost,     \* bound: datagrams lost
  MaxDoubled,  \* bound: datagrams the network delivers twice
  MaxCopies,   \* MaxCopies[m]: bound: copies of a packet of m that wait in
               \*   a socket
  None         \* no chunk, no process

ASSUME RDTAssumption ==
  /\ Origin \in [Messages -> Procs] /\ Target \in [Messages -> Procs]
  /\ Chunks \in [Messages -> Nat \ {0}]
  /\ Brief \subseteq Messages
  /\ Undisturbed \in BOOLEAN
  /\ MaxLost \in Nat /\ MaxDoubled \in Nat
  /\ MaxCopies \in [Messages -> Nat]
  /\ None \notin Procs \cup [msg : Messages, at : Nat]

VARIABLES
  call,       \* the call each process is in, with its local variables
  inbox,      \* the datagrams that wait in the socket of each process
  sent,       \* the messages SendTo was called with
  returned,   \* those whose SendTo has returned
  delivered,  \* what the calls of RecvFrom returned, when not empty
  lost,       \* datagrams lost so far
  doubled     \* datagrams delivered twice so far

netVars == <<inbox, lost, doubled>>
vars == <<call, sent, returned, delivered, netVars>>

-----------------------------------------------------------------------------
Chunk == UNION {{[msg |-> m, at |-> k] : k \in 1..Chunks[m]} : m \in Messages}
Datagram == [from : Procs, bit : {0, 1}, chunk : Chunk \cup {None}]

\* Faulty: the numbers do not alternate.
FaultyPacketOf(m, k) ==
  [from |-> Origin[m], bit |-> k - 1, chunk |-> [msg |-> m, at |-> k]]

\* Faulty: the bit of the packet that is waited for next.
FaultyAckPacket(p, bit) == [from |-> p, bit |-> 1 - bit, chunk |-> None]

\* A packet as MakePackets numbers it, and an acknowledgement.
PacketOf(m, k) ==
  [from |-> Origin[m], bit |-> (k - 1) % 2, chunk |-> [msg |-> m, at |-> k]]
AckPacket(p, bit) == [from |-> p, bit |-> bit, chunk |-> None]

\* Faulty: every packet of a brief message counts.
FaultyIsShort(g) ==
  g.chunk = None \/ g.chunk \in {c \in Chunk : c.msg \in Brief}

\* The length the datagram states is below ten.
IsShort(g) ==
  g.chunk \in {None} \cup {[msg |-> m, at |-> Chunks[m]] : m \in Brief}

Idle == [op |-> "none"]
Sending(m, k) == [op |-> "send", msg |-> m, at |-> k]
Receiving(bit, data, from) ==
  [op |-> "recv", bit |-> bit, data |-> data, from |-> from]

Calls ==
  {Idle} \cup [op : {"send"}, msg : Messages, at : Nat \ {0}]
         \cup [op : {"recv"}, bit : {0, 1}, data : Seq(Chunk),
               from : Procs \cup {None}]

Init ==
  /\ call = [p \in Procs |-> Idle]
  /\ inbox = [p \in Procs |-> <<>>]
  /\ sent = {}
  /\ returned = {}
  /\ delivered = [p \in Procs |-> <<>>]
  /\ lost = 0
  /\ doubled = 0

-----------------------------------------------------------------------------
\* A datagram g for d goes out when the sockets hold box.
Transmit(d, g, box) ==
  \/ /\ inbox' = [box EXCEPT ![d] = Append(@, g)]
     /\ UNCHANGED <<lost, doubled>>
  \/ /\ lost < MaxLost
     /\ lost' = lost + 1
     /\ inbox' = box
     /\ UNCHANGED doubled
  \/ /\ doubled < MaxDoubled
     /\ doubled' = doubled + 1
     /\ inbox' = [box EXCEPT ![d] = @ \o <<g, g>>]
     /\ UNCHANGED lost

\* The sockets when p has read its next datagram.
Popped(p) == [inbox EXCEPT ![p] = Tail(@)]

\* No loop has a datagram to read.
Quiet == \A p \in Procs : call[p].op # "none" => inbox[p] = <<>>

\* Nobody sends to either end of m, and its target is not in the middle of
\* another message.
Clear(m) ==
  /\ \A p \in Procs :
       call[p].op = "send" =>
         {Origin[call[p].msg], Target[call[p].msg]}
           \cap {Origin[m], Target[m]} = {}
  /\ call[Target[m]].op = "recv" => call[Target[m]].data = <<>>

-----------------------------------------------------------------------------
\* SendTo is called: the first packet goes out.
SendTo(m) ==
  LET p == Origin[m] IN
  /\ call[p] = Idle
  /\ m \notin sent
  /\ Undisturbed => Clear(m)
  /\ sent' = sent \cup {m}
  /\ call' = [call EXCEPT ![p] = Sending(m, 1)]
  /\ Transmit(Target[m], PacketOf(m, 1), inbox)
  /\ UNCHANGED <<returned, delivered>>

\* SendTo reads a datagram; one with the bit it waits for lets it go on.
SendToReads(p) ==
  /\ call[p].op = "send"
  /\ inbox[p] # <<>>
  /\ LET m == call[p].msg
         k == call[p].at
     IN
     \/ /\ Head(inbox[p]).bit = PacketOf(m, k).bit
        /\ k < Chunks[m]
        /\ call' = [call EXCEPT ![p] = Sending(m, k + 1)]
        /\ Transmit(Target[m], PacketOf(m, k + 1), Popped(p))
        /\ UNCHANGED returned
     \/ /\ Head(inbox[p]).bit = PacketOf(m, k).bit
        /\ k = Chunks[m]
        /\ call' = [call EXCEPT ![p] = Idle]
        /\ returned' = returned \cup {m}
        /\ inbox' = Popped(p)
        /\ UNCHANGED <<lost, doubled>>
     \/ /\ Head(inbox[p]).bit # PacketOf(m, k).bit
        /\ inbox' = Popped(p)
        /\ UNCHANGED <<call, returned, lost, doubled>>
  /\ UNCHANGED <<sent, delivered>>

Copies(d, g) == {i \in DOMAIN inbox[d] : inbox[d][i] = g}

\* Faulty: only the first packet is ever sent again.
FaultySendToResends(p) ==
  /\ call[p].op = "send"
  /\ call[p].at = 1
  /\ Quiet
  /\ LET m == call[p].msg
         g == PacketOf(m, call[p].at)
     IN
     /\ Cardinality(Copies(Target[m], g)) < MaxCopies[m]
     /\ Transmit(Target[m], g, inbox)
  /\ UNCHANGED <<call, sent, returned, delivered>>

\* A second passed without a datagram: the packet goes out again.
SendToResends(p) ==
  /\ call[p].op = "send"
  /\ Quiet
  /\ LET m == call[p].msg
         g == PacketOf(m, call[p].at)
     IN
     /\ Cardinality(Copies(Target[m], g)) < MaxCopies[m]
     /\ Transmit(Target[m], g, inbox)
  /\ UNCHANGED <<call, sent, returned, delivered>>

RecvFrom(p) ==
  /\ call[p] = Idle
  /\ call' = [call EXCEPT ![p] = Receiving(0, <<>>, None)]
  /\ UNCHANGED <<sent, returned, delivered, netVars>>

\* RecvFrom returns.
RecvFromReturns(p, data, from) ==
  /\ call' = [call EXCEPT ![p] = Idle]
  /\ delivered' = IF data = <<>> THEN delivered
                  ELSE [delivered EXCEPT
                          ![p] = Append(@, [from |-> from, data |-> data])]

\* Faulty: the bit is not looked at.
FaultyFits(p, g) == g.chunk # None

\* The packet RecvFrom of p waits for, and whole.
Fits(p, g) == g.bit = call[p].bit /\ g.chunk # None

RecvFromReads(p) ==
  /\ call[p].op = "recv"
  /\ inbox[p] # <<>>
  /\ LET g       == Head(inbox[p])
         bit     == call[p].bit
         data    == IF Fits(p, g) THEN Append(call[p].data, g.chunk)
                                  ELSE call[p].data
         from    == IF call[p].from = None THEN g.from ELSE call[p].from
         nextBit == IF Fits(p, g) THEN 1 - bit ELSE bit
     IN
     /\ Transmit(g.from, AckPacket(p, 1 - nextBit), Popped(p))
     /\ \/ IsShort(g) /\ RecvFromReturns(p, data, from)
        \/ /\ ~IsShort(g)
           /\ call' = [call EXCEPT ![p] = Receiving(nextBit, data, from)]
           /\ UNCHANGED delivered
  /\ UNCHANGED <<sent, returned>>

\* A second passed without a datagram: the message, if any, is complete.
RecvFromEnds(p) ==
  /\ call[p].op = "recv"
  /\ Quiet
  /\ RecvFromReturns(p, call[p].data, call[p].from)
  /\ UNCHANGED <<sent, returned, netVars>>

-----------------------------------------------------------------------------
Loops(p) == SendToReads(p) \/ RecvFromReads(p)

Next ==
  \/ \E m \in Messages : SendTo(m)
  \/ \E p \in Procs :
       Loops(p) \/ SendToResends(p) \/ RecvFrom(p) \/ RecvFromEnds(p)

Spec == Init /\ [][Next]_vars

(***************************************************************************)
(* Fairness: the loops run, timeouts pass, and processes that do not send  *)
(* go back to RecvFrom, as runConnection and WaitResponse do.              *)
(***************************************************************************)
FairSpec ==
  /\ Spec
  /\ \A p \in Procs : /\ WF_vars(Loops(p))
                      /\ WF_vars(SendToResends(p))
                      /\ WF_vars(RecvFrom(p))
                      /\ WF_vars(RecvFromEnds(p))

-----------------------------------------------------------------------------
\* The type invariant.
TypeOK ==
  /\ call \in [Procs -> Calls]
  /\ inbox \in [Procs -> Seq(Datagram)]
  /\ sent \subseteq Messages
  /\ returned \subseteq Messages
  /\ delivered \in [Procs -> Seq([from : Procs \cup {None}, data : Seq(Chunk)])]
  /\ lost \in Nat /\ doubled \in Nat

(***************************************************************************)
(* ImplementsChannel: RDT_UDP is the channel the handlers rely on, with    *)
(* the processes out of each other's way and no datagram lost.  The        *)
(* packets of a message of two and more are sent again as often as the     *)
(* target is busy in a handler; a message of one packet is sent once, that *)
(* is, to a target that is in RecvFrom: of such a message every copy may   *)
(* be read, since RecvFrom begins each message with the same bit (53).     *)
(***************************************************************************)
Whole(m) == [k \in 1..Chunks[m] |-> [msg |-> m, at |-> k]]

Buffers(p) ==
  {delivered[p][i].data : i \in DOMAIN delivered[p]}
    \cup (IF call[p].op = "recv" THEN {call[p].data} ELSE {})

WholeOf(entry) ==
  IF \E m \in Messages : entry.data = Whole(m)
    THEN [from |-> entry.from,
          msg  |-> CHOOSE m \in Messages : entry.data = Whole(m)]
    ELSE [from |-> entry.from, msg |-> None]

AbstractChannel ==
  INSTANCE Channel WITH
    taken     <- {m \in Messages : Whole(m) \in Buffers(Target[m])},
    delivered <- [p \in Procs |-> [i \in DOMAIN delivered[p] |->
                                     WholeOf(delivered[p][i])]]

ImplementsChannel == AbstractChannel!ChannelSpec

(***************************************************************************)
(* OneFragment: what RecvFrom gathers is a run of consecutive packets of   *)
(* one message, whatever is lost or doubled on the way, between processes  *)
(* that exchange one message: the handler may see a message cut short,     *)
(* never one with a hole or a repetition.                                  *)
(***************************************************************************)
OneFragment ==
  \A p \in Procs : \A data \in Buffers(p) : \A k \in 1..(Len(data) - 1) :
    /\ data[k + 1].msg = data[k].msg
    /\ data[k + 1].at = data[k].at + 1

(***************************************************************************)
(* SendReturns: SendTo has no limit of retries; with a target that keeps   *)
(* calling RecvFrom it returns all the same.                               *)
(***************************************************************************)
SendReturns == \A m \in Messages : m \in sent ~> m \in returned

\* "Received AckPacket": SendTo goes on when its target acknowledged.
OnlyAcksAdvance ==
  [][\A p \in Procs :
       call[p].op = "send" /\ call'[p] # call[p]
         => /\ Head(inbox[p]).chunk = None
            /\ Head(inbox[p]).from = Target[call[p].msg]]_vars

=============================================================================
