----------------------------- MODULE MCAutoBan -----------------------------
(* Values of the constants of AutoBan for the model-checking runs. *)
EXTENDS AutoBan, TLC

CONSTANTS w1, w2, a, b, c

Hashes == a :> 0 @@ b :> 3 @@ c :> 6
TwoHashes == a :> 0 @@ b :> 3
OneHash == a :> 0

Ladder == <<1, 2>>
OneStep == <<2>>
NoLadder == <<>>

AutoFirst == [w \in Workers |-> "auto_first"]
ListFirst == [w \in Workers |-> "list_first"]

WorkerSymmetry == Permutations(Workers)
============================================================================
