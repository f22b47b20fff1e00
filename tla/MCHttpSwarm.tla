---------------------------- MODULE MCHttpSwarm ----------------------------
(* Values of the constants of HttpSwarm for the model-checking runs. *)
EXTENDS HttpSwarm, TLC

CONSTANTS h1, a1, a2, a3, a4, b1

FamilyOf == [k \in Keys |-> IF k = b1 THEN "ipv6" ELSE "ipv4"]

Requests == {<<h1>>}

\* The last answer decides no step, so states that differ in it only are one.
WithoutAnswer == <<torrents, peer_gauge, peer_valid_until, access_list, cleaning>>

Symmetry == Permutations({a1, a2, a3, a4})
============================================================================
