---------------------------- MODULE MCComposition ----------------------------
(* Two participants of one operation each: the second's asks for two jobs, *)
(* one of them in the background, that fill the queue.                      *)
EXTENDS Composition, TLC

CONSTANTS index, read, decode, bake

Parents == [t \in Tasks |-> IF t \in {decode, bake} THEN read ELSE NoTask]
Names == [t \in Tasks |-> IF t = index THEN 1 ELSE 2]
Urgency == [t \in Tasks |-> IF t = bake THEN "background" ELSE "normal"]
TwoEach == [o \in Owners |-> 2]
JobsFailFast == {read}
BothOwners == {1, 2}
=============================================================================
