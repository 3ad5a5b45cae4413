--------------------------- MODULE LearningTable ---------------------------
(***************************************************************************)
(* What the switch promises of its table of addresses: an address is at    *)
(* the port that sent from it last, until this port goes or everything is  *)
(* forgotten at once.                                                      *)
(***************************************************************************)
CONSTANTS Addresses, Ports, Nowhere

VARIABLES
  learnt,   \* the port each address is at
  linked,   \* the ports with a neighbour
  heard     \* the burst at hand: its port and the source addresses of its packets

tablevars == <<learnt, linked, heard>>

Forgotten == [a \in Addresses |-> Nowhere]

Silence == [port |-> Nowhere, sources |-> {}]

Init == learnt = Forgotten /\ linked = {} /\ heard = Silence

Link(port) ==
  /\ linked' = linked \cup {port}
  /\ UNCHANGED <<learnt, heard>>

\* The port goes away, with addresses that were at it and no others.
Unlink(port) ==
  /\ port \in linked
  /\ linked' = linked \ {port}
  /\ \E S \in SUBSET {a \in Addresses : learnt[a] = port} :
       learnt' = [a \in Addresses |-> IF a \in S THEN Nowhere ELSE learnt[a]]
  /\ UNCHANGED heard

\* A burst from port: the sources of its packets are at it from now on.  When the
\* memory runs out meanwhile, what was learnt before is lost.
Learn(port, S) ==
  /\ port \in linked
  /\ heard' = [port |-> port, sources |-> S]
  /\ \E before \in {learnt, Forgotten} :
       learnt' = [a \in Addresses |-> IF a \in S THEN port ELSE before[a]]
  /\ UNCHANGED linked

\* A burst that is refused for want of memory.
Lose == learnt' = Forgotten /\ UNCHANGED <<linked, heard>>

\* The burst is over.
Rest == heard' = Silence /\ UNCHANGED <<learnt, linked>>

Next ==
  \/ \E port \in Ports : Link(port) \/ Unlink(port) \/ \E S \in SUBSET Addresses : Learn(port, S)
  \/ Lose
  \/ Rest

Spec == Init /\ [][Next]_tablevars
=============================================================================
