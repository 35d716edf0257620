------------------------------ MODULE Ownership ------------------------------
(***************************************************************************)
(* What the capture pipeline promises about its buffers, whatever the      *)
(* pools, queues and records it keeps them in: who may pass a buffer to    *)
(* whom, that the hardware side never takes one from a client, that a      *)
(* client takes chunks only from the ring and gives back only its own, and *)
(* that chunks travel as a whole.                                          *)
(***************************************************************************)
EXTENDS Naturals, FiniteSets

CONSTANTS Big, Small, Slots, Clients

Buffers == Big \cup Small

Pool == <<"pool", 0>>
Recv == <<"recv", 0>>
Test == <<"test", 0>>
Fft  == <<"fft", 0>>
Mip  == <<"mip", 0>>
Procs       == {<<"proc", o>> : o \in Small}
RingSlots   == {<<"slot", i>> : i \in Slots}
ClientHolds == {<<"client", c>> : c \in Clients}

Holders == {Pool, Recv, Test, Fft, Mip} \cup Procs \cup RingSlots \cup ClientHolds

VARIABLE owner

Init == owner \in [Buffers -> {Pool, Recv, Test}]

\* Hand-overs the hardware thread may make, by kind of holder.
HardwareEdges ==
  {Pool, Recv} \X {Pool, Recv}
    \cup {Pool, Recv, Mip} \X Procs
    \cup {Pool} \X {Fft, Mip}
    \cup {Fft} \X {Pool, Mip}
    \cup (Procs \cup {Mip}) \X RingSlots
    \cup RingSlots \X {Pool}

ClientEdges(c) ==
  RingSlots \X {<<"client", c>>} \cup {<<"client", c>>} \X {Pool}

\* Every buffer stays or takes one of the edges, and afterwards every chunk that
\* can be shown has all its buffers.  Only one client acts at a time.
HeldWhole(own, h) ==
  LET held == {b \in Buffers : own[b] = h}
  IN  \/ held = {}
      \/ /\ Cardinality(held \cap Big) = 3
         /\ Cardinality(held \cap Small) = 1

Step(edges) ==
  LET now == owner
      new == owner'
  IN  /\ new \in [Buffers -> Holders]
      /\ \A b \in Buffers : new[b] # now[b] => <<now[b], new[b]>> \in edges
      /\ \A h \in RingSlots \cup ClientHolds : HeldWhole(new, h)

Next == Step(HardwareEdges) \/ \E c \in Clients : Step(ClientEdges(c))

Spec == Init /\ [][Next]_owner
=============================================================================
