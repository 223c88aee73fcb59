------------------------------ MODULE EffectSink ------------------------------
(***************************************************************************)
(* What presentation is promised of a client's predicted effects           *)
(* (prediction.h on EffectSink and EffectClass): an effect is delivered    *)
(* once however many times resimulation emits it, a delivered one that a   *)
(* resimulation no longer emits is cancelled once, and one that waits for  *)
(* its tick's confirmation is never taken back.  Cancelled, an effect may  *)
(* come again, if a later resimulation emits it again.                     *)
(***************************************************************************)
CONSTANTS
    Effects,      \* the identities effects have
    ConfirmedOnly \* those delivered only once their tick is confirmed

VARIABLE sink     \* what presentation was last told of each effect

Unheard == "unheard"
Shown == "shown"
Cancelled == "cancelled"
Told == {Unheard, Shown, Cancelled}

Init == sink = [e \in Effects |-> Unheard]

Deliver(e) == sink[e] # Shown /\ sink'[e] = Shown
Cancel(e) == e \notin ConfirmedOnly /\ sink[e] = Shown /\ sink'[e] = Cancelled

(* One step of the client may tell presentation of several effects, of     *)
(* each of them once.                                                      *)
Next ==
    /\ sink' \in [Effects -> Told]
    /\ \A e \in Effects : Deliver(e) \/ Cancel(e) \/ sink'[e] = sink[e]

Spec == Init /\ [][Next]_sink
=============================================================================
