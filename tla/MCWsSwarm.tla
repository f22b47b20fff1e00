----------------------------- MODULE MCWsSwarm -----------------------------
(* Values of the constants of WsSwarm for the model-checking runs. *)
EXTENDS WsSwarm, TLC

CONSTANTS c1, c2, s1, p1, p2, o1

OneConsumer == [c \in Connections |-> s1]
DistinctIds == c1 :> 1 @@ c2 :> 2

\* The second client may use the first one's id, and one of its own.
SharedId == c1 :> {p1} @@ c2 :> {p1, p2}

Plain(event, left) ==
    [event |-> event, bytes_left |-> left, offers |-> <<>>, answers |-> {}]

\* A stop, a seeder's offer, and a leecher's answer to the first peer.
ClientAnnounces ==
    {Plain("stopped", 1),
     [Plain("update", 0) EXCEPT !.offers = <<o1>>],
     [Plain("update", 1) EXCEPT !.answers = {<<p1, o1>>}]}

\* A stop and a leecher's announce.
PlainAnnounces == {Plain("stopped", 1), Plain("update", 1)}
============================================================================
