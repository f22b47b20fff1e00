----------------------------- MODULE MCUdpSwarm ----------------------------
(* Values of the constants of UdpSwarm for the model-checking runs. *)
EXTENDS UdpSwarm, TLC

CONSTANTS w1, w2, h1, o1, o2, k1, k2, k3, id1, id2

\* Every peer always reports the same id.
SameId == [k \in Keys |-> {id1}]

\* Peers may change their id from one announce to the next.
AnyId == [k \in Keys |-> PeerIds]

KeySymmetry == Permutations(Keys)
AllSymmetry == KeySymmetry \cup Permutations(PeerIds)
               \cup Permutations(Workers) \cup Permutations(Objects)
============================================================================
