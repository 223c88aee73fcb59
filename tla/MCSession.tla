----------------------------- MODULE MCSession -----------------------------
(* Session, with connections that are alike and what a side may send.      *)
EXTENDS Session, TLC

(* Sound where no fairness tells them apart.                               *)
Alike == Permutations(Connections)

One     == [frames |-> 1, events |-> 0, datagrams |-> 0]
Some    == [frames |-> 1, events |-> 3, datagrams |-> 1]
=============================================================================
