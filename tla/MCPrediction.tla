----------------------------- MODULE MCPrediction -----------------------------
(***************************************************************************)
(* A small game for module Prediction: a command is a button, and one that *)
(* was not down before turns a light.  A press emits a sound, at once,     *)
(* where the light was out, and a hit, once confirmed, where it was lit;   *)
(* the World may turn the light too.                                       *)
(***************************************************************************)
EXTENDS Prediction

GameComponents == {"down", "light"}
ButtonsAndLight == 0..2
Presses(state, command) == command # Neutral /\ command # state["down"]
Turned(light) == IF light = 0 THEN 1 ELSE 0
GameStep(state, command) ==
    [down |-> command,
     light |-> IF Presses(state, command) THEN Turned(state["light"]) ELSE state["light"]]
GameEmits(state, command) ==
    IF ~Presses(state, command) THEN {} ELSE IF state["light"] = 0 THEN {"sound"} ELSE {"hit"}
GameShoved(state) == {[state EXCEPT !["light"] = Turned(@)]}
=============================================================================
