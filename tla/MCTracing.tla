----------------------------- MODULE MCTracing -----------------------------
(* Small instances of path tracing for TLC: two packets in one direction   *)
(* of a flow and one in the other.                                         *)
EXTENDS PathTrace, TLC

Directed(s, d, p) == [src |-> s, dst |-> d, ports |-> p]
MCFlow == <<Directed("a", "b", "x"), Directed("a", "b", "x"), Directed("b", "a", "x")>>

MCFlow1 == <<Directed("a", "b", "x")>>

(* Bounds: two of the packets go through the traced functions, the second  *)
(* of the alike ones is seen after the first, and there are four events and *)
(* captured packets.                                                       *)
Seen(p) == hop[p] > 0 \/ p \in Range(captured)
TwoPackets ==
  /\ Cardinality({p \in Packet : hop[p] > 0}) <= 2
  /\ kernelTime + Len(captured) <= 4
  /\ 2 \in Packet /\ Seen(2) => Seen(1) \/ fileMode

Alike == Permutations(Skb)
=============================================================================
