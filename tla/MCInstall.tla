------------------------------- MODULE MCInstall -------------------------------
(* A library over Compositions that share a Build, and Builds that share a *)
(* blob.                                                                   *)
EXTENDS Install, TLC

CONSTANTS a, b, c, d, game1, game2, x, y

Names(composition) == CASE composition = a -> {game1}
                        [] composition = b -> {game2}
                        [] composition = c -> {game1, game2}
                        [] composition = d -> {game2}

Within(build) == CASE build = game1 -> {x}
                  [] build = game2 -> {x, y}

Offered(n) == c

(* Two that name the same Build and no channel offers are alike.           *)
Alike == Permutations({b, d})
=============================================================================
