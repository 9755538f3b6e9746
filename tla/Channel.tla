------------------------------- MODULE Channel -------------------------------
(***************************************************************************)
(* What the main server, the repositories and the clients expect of        *)
(* RDT_UDP: SendTo returns after the destination has the message, RecvFrom *)
(* returns messages as they were sent, one at a time and each once, and    *)
(* says who sent them.                                                     *)
(***************************************************************************)
EXTENDS Sequences

CONSTANTS
  Procs,      \* the processes
  Messages,   \* the messages; each is sent at most once
  Origin,     \* Origin[m]: the process that sends m
  Target      \* Target[m]: the process m is for

VARIABLES
  sent,       \* the messages SendTo was called with
  taken,      \* those the target has read in full
  returned,   \* those whose SendTo has returned
  delivered   \* what the calls of RecvFrom of each process returned

channelVars == <<sent, taken, returned, delivered>>

ChannelInit ==
  /\ sent = {}
  /\ taken = {}
  /\ returned = {}
  /\ delivered = [p \in Procs |-> <<>>]

Send(m) ==
  /\ m \notin sent
  /\ sent' = sent \cup {m}
  /\ UNCHANGED <<taken, returned, delivered>>

Take(m) ==
  /\ m \in sent \ taken
  /\ taken' = taken \cup {m}
  /\ UNCHANGED <<sent, returned, delivered>>

Return(m) ==
  /\ m \in taken \ returned
  /\ returned' = returned \cup {m}
  /\ UNCHANGED <<sent, taken, delivered>>

Deliver(m) ==
  LET entry == [from |-> Origin[m], msg |-> m]
      t     == Target[m]
  IN
  /\ m \in sent
  /\ \A i \in DOMAIN delivered[t] : delivered[t][i] # entry
  /\ taken' = taken \cup {m}
  /\ delivered' = [delivered EXCEPT ![t] = Append(@, entry)]
  /\ UNCHANGED <<sent, returned>>

ChannelNext ==
  \E m \in Messages : Send(m) \/ Take(m) \/ Return(m) \/ Deliver(m)

ChannelSpec == ChannelInit /\ [][ChannelNext]_channelVars

=============================================================================
