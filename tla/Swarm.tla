------------------------------- MODULE Swarm -------------------------------
(***************************************************************************)
(* What a swarm worker promises, whatever it stores: who is in the swarm   *)
(* of a torrent, in which role, and what announces and scrapes are told.   *)
(* HttpSwarm implements it.  Swarms of the two address families are        *)
(* separate: a peer meets only peers of its own family.                    *)
(***************************************************************************)
EXTENDS Integers, FiniteSets, Sequences

CONSTANTS
    InfoHashes,
    Families, Keys, family_of,  \* peers and their address families
    max_peers                   \* most peers in an answer

VARIABLES
    role,                       \* [InfoHashes -> [Keys -> Roles]]
    downloaded,                 \* [Families -> [InfoHashes -> Nat]]
    answer                      \* answer the last step gave

\* Fields of an announce response with the most peers it may hold, and
\* the files of a scrape response
NoAnswer == [wanted |-> 0, complete |-> 0, incomplete |-> 0, peers |-> <<>>, files |-> <<>>]

Roles == {"Absent", "Seeding", "Leeching"}

In(f, h, roles) == LET now == role[h] IN {k \in Keys : family_of[k] = f /\ now[k] \in roles}
Members(f, h) == In(f, h, {"Seeding", "Leeching"})
Seeding(f, h) == In(f, h, {"Seeding"})

\* A peer announces: it is told of the others, as many as it may get, each
\* once, and then takes its role.
Announce(h, k) ==
    LET f == family_of[k]
        others == Members(f, h) \ {k}
        after == role'
    IN
    /\ answer'.files = <<>>
    /\ after[h][k] \in Roles
    /\ after = [role EXCEPT ![h][k] = after[h][k]]
    /\ \/ UNCHANGED downloaded
       \/ downloaded' = [downloaded EXCEPT ![f][h] = @ + 1]
    /\ answer'.complete = Cardinality(Seeding(f, h) \ {k})
    /\ answer'.incomplete = Cardinality(others \ Seeding(f, h))
    /\ answer'.peers \in Seq(others)
    /\ \A i, j \in DOMAIN answer'.peers : answer'.peers[i] = answer'.peers[j] => i = j
    /\ answer'.wanted \in 0 .. max_peers
    /\ Len(answer'.peers) = IF Cardinality(others) < answer'.wanted
                            THEN Cardinality(others) ELSE answer'.wanted

\* A scrape is told the numbers of some torrents as they are.
Scrape(f, hashes) ==
    /\ answer' = [NoAnswer EXCEPT !.files = [h \in hashes |->
                    [complete |-> Cardinality(Seeding(f, h)),
                     incomplete |-> Cardinality(Members(f, h) \ Seeding(f, h)),
                     downloaded |-> downloaded[f][h]]]]
    /\ UNCHANGED <<role, downloaded>>

\* Peers leave on their own.  Downloads are forgotten only with all members.
Depart ==
    LET before == role
        after == role'
    IN
    /\ answer' = NoAnswer
    /\ after \in [InfoHashes -> [Keys -> Roles]]
    /\ \A h \in InfoHashes, k \in Keys : after[h][k] \in {before[h][k], "Absent"}
    /\ downloaded' \in [Families -> [InfoHashes -> Nat]]
    /\ \A f \in Families, h \in InfoHashes :
          \/ downloaded'[f][h] = downloaded[f][h]
          \/ downloaded'[f][h] = 0 /\ Members(f, h)' = {}

Init ==
    /\ role = [h \in InfoHashes |-> [k \in Keys |-> "Absent"]]
    /\ downloaded = [f \in Families |-> [h \in InfoHashes |-> 0]]
    /\ answer = NoAnswer

Next ==
    \/ Depart
    \/ \E h \in InfoHashes, k \in Keys : Announce(h, k)
    \/ \E f \in Families, hashes \in SUBSET InfoHashes : Scrape(f, hashes)

Spec == Init /\ [][Next]_<<role, downloaded, answer>>
============================================================================
