----------------------------- MODULE MCUdpSocket ----------------------------
(* Values of the constants of UdpSocket for the model-checking run. *)
EXTENDS UdpSocket, TLC

CONSTANTS w1, w2, a, b, c

WorkerSymmetry == Permutations(Workers)
=============================================================================
