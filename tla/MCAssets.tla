------------------------------- MODULE MCAssets -------------------------------
(* An AssetSet of two resources in four slots, with room for three forms.   *)
EXTENDS Assets, TLC

CONSTANTS a, b, c1, c2

Size(id, revision) == 1

(* A first catalog revises both resources; the second revises one of them  *)
(* again, and leaves the other out.                                        *)
Revised(n) ==
    CASE n = 1 -> {[id \in Ids |-> 2]}
      [] n = 2 -> {(a :> 3 @@ b :> NoRevision)}

Symmetric == Permutations({c1, c2})
=============================================================================
