----------------------------- MODULE MCCluster ------------------------------
(***************************************************************************)
(* Instances of Cluster for TLC: nodes are named by strings and            *)
(* commands by model values.                                               *)
(***************************************************************************)
EXTENDS Cluster
CONSTANTS a, b, c

Three == {a, b, c}
One   == {a}
OneSlot == {"s"}
AllSlot == [o \in Ops |-> "s"]
Both  == {"n1", "n2"}
First == [s \in OneSlot |-> "n1"]

\* Both nodes on the client's own host, on ports of their own.
SameHost  == [n \in Both |-> 1]
TwoPorts  == [n \in Both |-> IF n = "n1" THEN 7000 ELSE 7001]

\* Two hosts of one network, x.y.z.12 and x.y.z.1.
TwoHosts  == [n \in Both |-> IF n = "n1" THEN 12 ELSE 1]
SamePort  == [n \in Both |-> 6379]
=============================================================================
