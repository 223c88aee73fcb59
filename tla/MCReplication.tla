--------------------------- MODULE MCReplication ---------------------------
(***************************************************************************)
(* Replication for TLC: the World changes in at most MaxWrites values a    *)
(* tick and not after WriteUntil, for MaxTick ticks.  What every game does *)
(* (Step of any World) is cut to that; every other step is the module's.   *)
(***************************************************************************)
EXTENDS Replication

CONSTANTS MaxTick, MaxWrites, WriteUntil,
          LoseUntil,   \* datagrams of later ticks arrive before the next tick
          Refusals,    \* whether the provider may refuse a publish's datagrams
          Late         \* whether the player may lack replicated values

MCWorlds ==
    {w \in Worlds :
        /\ Cardinality({s \in Slots : w[s[1]][s[2]] # world[s[1]][s[2]]}) <= MaxWrites
        /\ tick < WriteUntil \/ w = world
        /\ Late \/ PresentIn(w, Player)}

\* Whether everything under way after LoseUntil has arrived
Quiet ==
    /\ toClient = <<>> /\ toServer = <<>> /\ ~received.due
    /\ \A d \in states : d.tick > LoseUntil =>
          d.seq = received.latest \/ (received.latest > d.seq /\ received.latest - d.seq \in received.earlier)
    /\ [latest |-> received.latest, earlier |-> received.earlier] \in acks \/ received.latest = 0
    /\ \A a \in acks : a.latest = received.latest => ShownBy(a) = {}

MCNext ==
    \/ /\ tick < MaxTick
       /\ tick <= LoseUntil \/ Quiet
       /\ \E w \in MCWorlds, held \in SUBSET (IF Interest THEN Entities ELSE {}) :
            \E in \in SUBSET held : Step(w, in, held)
    \/ PublishNothing
    \/ \E arrived \in (IF Refusals THEN BOOLEAN ELSE {TRUE}) : Publish(arrived)
    \/ Deliver

MCSpec == Init /\ [][MCNext]_vars

(* Convergence: what is sent after LoseUntil arrives, each datagram once,  *)
(* and the World changes no more; what was sent until then may be lost.    *)
Fresh(d) == d.seq # received.latest /\ received.latest - d.seq \notin received.earlier

Progress ==
    \/ /\ tick < MaxTick /\ (tick <= LoseUntil \/ Quiet)
       /\ \E w \in MCWorlds : Step(w, {}, {})
    \/ PublishNothing \/ Publish(TRUE)
    \/ ReceiveMappingAck \/ ReceiveFrame \/ SendStateAck
    \/ \E d \in states : d.tick > LoseUntil /\ Fresh(d) /\ ReceiveState(d)
    \/ \E a \in acks : ShownBy(a) # {} /\ ReceiveStateAck(a)

LateArrival == \E d \in states : d.tick <= LoseUntil /\ Fresh(d) /\ ReceiveState(d)

\* ENABLED Progress, as a predicate TLC evaluates without trying the step
CanProgress ==
    /\ ~closed
    /\ \/ tick < MaxTick \/ stepped \/ toClient # <<>> \/ toServer # <<>> \/ received.due
       \/ \E d \in states : d.tick > LoseUntil /\ Fresh(d)
       \/ \E a \in acks : ShownBy(a) # {}

\* Weak fairness of Progress: it does not stay possible and never happen.
\* Neither it nor a late arrival can happen for ever, so any step will do.
ProgressFairness == []<>~CanProgress \/ []<><<TRUE>>_vars

LiveSpec == Init /\ [][Progress \/ LateArrival]_vars /\ ProgressFairness

\* The client mirrors exactly what the World holds for it.
Exact ==
    /\ \A e \in Present, c \in Components :
          mapped[e].id # 0 /\ (world[e][c] # None => Shown(e, c) = world[e][c])
    /\ \A i \in Mirrored : \E e \in Present : mapped[e].id = i

\* Once the World is still and what is sent arrives, the client comes to
\* mirror exactly the World, though anything sent before was lost: the
\* resends of publishTo, its budget and its waiting order leave nothing out.
Converges == <>[]Exact
=============================================================================
