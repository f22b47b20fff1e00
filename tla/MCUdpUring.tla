----------------------------- MODULE MCUdpUring ------------------------------
(* Values of the constants of UdpUring for the model-checking run. *)
EXTENDS UdpUring

CONSTANTS a, b
=============================================================================
