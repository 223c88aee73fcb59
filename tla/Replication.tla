---------------------------- MODULE Replication ----------------------------
(***************************************************************************)
(* Replication of a server World to one client: what the server publishes  *)
(* to a connection (world_replication/src/publish.cpp, server.cpp, peers.h)*)
(* and what the client mirrors and acknowledges (client.cpp).  Peers share *)
(* nothing but the World they read, so one connection stands for all.      *)
(*                                                                         *)
(* An entity is declared under a net entity ID on the ordered control      *)
(* stream, its values go in state datagrams that may be lost, duplicated,  *)
(* delayed and reordered, and it is retired on the control stream again.   *)
(* The server sends a value until an acknowledgement shows that the client *)
(* holds it, and looks again only at what changed or was not yet settled.  *)
(***************************************************************************)
EXTENDS Integers, Sequences, FiniteSets

CONSTANTS
    Entities,            \* entity handles, in slot order: positive integers
    Player,              \* the entity this connection plays
    Components,          \* replication table places: positive integers
    OwnOnly,             \* those sent to their own player alone
    Value,               \* the encoded values a component may have
    None,                \* no value: the entity lacks the component
    Interest,            \* whether the game has an interest line
    StatePeriod,         \* settings.statePeriod
    Phase,               \* the connection's place in the period
    ResendAfter,         \* settings.resendAfter
    RecordRoom,          \* records one state datagram has room for
    RecordBudget,        \* records one publish may send (stateBytesPerPublish)
    MappingBudget,       \* mappingBytesPerPublish, a retirement costing one
    DeclarationCost,     \* kLargestDeclarationFrame in the same unit
    DeclaredPerPublish,  \* settings.mappingsPerPublish
    ServerMapped,        \* the server's maximumMapped
    ClientMapped,        \* the client's maximumMapped
    MostUnacknowledged,  \* kMostUnacknowledgedDeclarations
    OwnedPriority,       \* kOwnedPriority
    AckBits,             \* kAckBits
    SentWindow,          \* kSentWindow
    LastNet,             \* the last net entity ID
    HeardInput           \* whether the client has sent input

Ids == 1..LastNet
Slots == Entities \X Components
NetSlots == Ids \X Components
Optional == Value \cup {None}
Worlds == [Entities -> [Components -> Optional]]

ASSUME ReplicationAssumption ==
    /\ Entities \subseteq Nat \ {0} /\ IsFiniteSet(Entities) /\ Player \in Entities
    /\ Components \subseteq Nat \ {0} /\ IsFiniteSet(Components) /\ OwnOnly \subseteq Components
    /\ None \notin Value
    /\ Interest \in BOOLEAN /\ HeardInput \in BOOLEAN
    /\ StatePeriod \in Nat \ {0} /\ Phase \in Nat /\ ResendAfter \in Nat
    /\ RecordRoom \in Nat \ {0} /\ RecordBudget \in Nat
    /\ DeclarationCost \in Nat \ {0}
    /\ MappingBudget \in Nat /\ MappingBudget >= DeclarationCost
    /\ DeclaredPerPublish \in Nat \ {0}
    /\ ServerMapped \in Nat \ {0} /\ ClientMapped \in Nat \ {0}
    /\ MostUnacknowledged \in Nat \ {0} /\ OwnedPriority \in Nat
    /\ AckBits \in Nat \ {0} /\ SentWindow \in Nat \ {0}
    /\ LastNet \in Nat \ {0}

VARIABLES
    \* The World, and the publish in progress
    tick,        \* the tick last stepped, which numbers its publish
    world,       \* every replicated value
    near,        \* entities the enter radius (or a district) has in interest
    within,      \* entities the leave radius still holds in interest
    stepped,     \* whether `tick` has been stepped and not yet published
    \* The server
    previous,    \* the values of the publish before
    changed,     \* what changed in the latest publishes, oldest first
    lookedAt,    \* the publish the connection was last looked at in, or 0
    mapped,      \* each entity's mapping
    unsettled,   \* mapped entities not known to be held whole
    bounded,     \* a bound left something undeclared or unretired
    nextNet,     \* the next net entity ID, 0 once they ran out
    unacked,     \* declared runs not yet acknowledged, oldest first
    sequence,    \* the last state sequence given
    sent,        \* state datagrams remembered for acknowledgement
    struck,      \* the server counted a strike against the client
    \* Between them
    toClient,    \* the control stream's frames to the client
    toServer,    \* mapping acknowledgements to the server
    states,      \* every state datagram that reached the network
    acks,        \* every state acknowledgement sent
    \* The client
    mirror,      \* what it holds under each net entity ID
    owned,       \* the ID of its own player, or 0
    received,    \* state sequences received, and whether one is to be told
    closed       \* it closed the connection

worldVars == <<tick, world, near, within, stepped>>
lookVars == <<previous, changed, lookedAt, unsettled, bounded>>
serverVars == <<lookVars, mapped, nextNet, unacked, sequence, sent, struck>>
netVars == <<toClient, toServer, states, acks>>
clientVars == <<mirror, owned, received, closed>>
vars == <<worldVars, serverVars, netVars, clientVars>>

-----------------------------------------------------------------------------
(* What the variables hold.  Tick 0 stands for "never". *)

Replica == [value: Optional, changedAt: Nat, sentAt: Nat, ackedAt: Nat, priority: Nat]
Mapping == [id: {0} \cup Ids, acked: BOOLEAN, retiring: BOOLEAN,
            replicas: [Components -> Replica]]
Copy == [value: Optional, at: Nat]
Mirror == [held: BOOLEAN, copies: [Components -> Copy]]
Change == [publish: Nat, entities: SUBSET Entities,
           appeared: SUBSET Entities, gone: SUBSET Entities]
SentState == [seq: Nat, tick: Nat, acked: BOOLEAN, records: SUBSET NetSlots]
Record == [id: Ids, component: Components, value: Value]
StateDatagram == [seq: Nat, tick: Nat, whole: BOOLEAN, records: SUBSET Record]
Heard == [latest: Nat, earlier: SUBSET (1..AckBits)]
Frame == [kind: {"declare", "retire"}, ids: SUBSET Ids, ownedFirst: BOOLEAN]

NoReplica == [value |-> None, changedAt |-> 0, sentAt |-> 0, ackedAt |-> 0, priority |-> 0]
NewMapping(id) == [id |-> id, acked |-> FALSE, retiring |-> FALSE,
                   replicas |-> [c \in Components |-> NoReplica]]
NoMapping == NewMapping(0)
NoMirror == [held |-> FALSE, copies |-> [c \in Components |-> [value |-> None, at |-> 0]]]
NewMirror == [NoMirror EXCEPT !.held = TRUE]

Least(S) == CHOOSE x \in S : \A y \in S : x <= y
Greatest(S) == CHOOSE x \in S : \A y \in S : y <= x
Larger(a, b) == IF a >= b THEN a ELSE b

-----------------------------------------------------------------------------
(* What the server knows before it publishes. *)

PresentIn(w, e) == \E c \in Components : w[e][c] # None
Present == {e \in Entities : PresentIn(world, e)}
Mapped == {e \in Entities : mapped[e].id # 0}

\* Replica::held
HeldAs(replica, value) ==
    /\ replica.value = value /\ replica.value # None
    /\ replica.ackedAt # 0 /\ replica.ackedAt >= replica.changedAt

\* State::relevant, of an entity mapped or not
Relevant(e, isMapped) ==
    \/ ~Interest
    \/ e = Player
    \/ e \in (IF isMapped THEN within ELSE near)

\* State::noteChanges: what this publish changed, and the latest StatePeriod
\* publishes' changes with it
Changes ==
    [publish  |-> tick,
     entities |-> {e \in Entities : \E c \in Components :
                      world[e][c] # None /\ world[e][c] # previous[e][c]},
     appeared |-> {e \in Present : ~PresentIn(previous, e)},
     gone     |-> {e \in Entities \ Present : PresentIn(previous, e)}]

Noted == Append(IF Len(changed) > StatePeriod THEN Tail(changed) ELSE changed, Changes)

\* Those of `note` since the connection's last turn
Since(note) == {i \in DOMAIN note : note[i].publish > lookedAt}

\* Entities that came and went since
Appeared(note) == UNION {note[i].appeared : i \in Since(note)}
Gone(note) == UNION {note[i].gone : i \in Since(note)}

\* Whether every change since the connection's last turn is still kept
KeptSince(note) == lookedAt # 0 /\ note[1].publish <= lookedAt + 1

\* Mutant: forgets that a bound left something undeclared
Comings_Unbounded(note) == ~Interest /\ KeptSince(note)

\* kComings: only what came and went is looked at, not every entity.
Comings(note) == ~Interest /\ ~bounded /\ KeptSince(note)

-----------------------------------------------------------------------------
(* Retirements, then declarations.  The operators take what publishTo has  *)
(* worked out before them: `note`, the changes kept; `leaving`, `retired`, *)
(* `player` and `entered`, sets of entities; `ids`, the IDs just given;    *)
(* `now`, the mappings once retired and declared.                          *)

\* Mappings the non-incremental path keeps, marked as held
StillHeld == {e \in Mapped : e \in Present /\ ~mapped[e].retiring /\ Relevant(e, TRUE)}

Leaving(note) ==
    IF Comings(note) THEN Mapped \cap Gone(note)
    ELSE Mapped \ StillHeld

\* State::retireLeaving, in ID order while the budget lasts
Retired(leaving) ==
    {e \in leaving : Cardinality({f \in leaving : mapped[f].id < mapped[e].id}) < MappingBudget}

\* The connection's own player is declared first, whatever the bounds.
PlayerDeclared(retired) ==
    IF Player \notin Mapped \ retired /\ Player \in Present /\ nextNet # 0 THEN {Player} ELSE {}

Entering(note, retired) ==
    IF Comings(note)
    THEN ((Appeared(note) \cap Present) \ {Player}) \ (Mapped \ retired)
    ELSE {e \in Present \ (PlayerDeclared(retired) \cup StillHeld) : Relevant(e, FALSE)}

\* Mutant: one ID too many
IdsLeft_OneMore == IF nextNet = 0 THEN 0 ELSE LastNet - nextNet + 2
IdsLeft == IF nextNet = 0 THEN 0 ELSE LastNet - nextNet + 1

\* Whether one more entity may be declared after n of this publish
MayDeclare(retired, n) ==
    /\ Cardinality(Mapped \ retired) + n < ServerMapped
    /\ n < IdsLeft
    /\ Len(unacked) < MostUnacknowledged
    /\ n < DeclaredPerPublish
    /\ Cardinality(retired) + DeclarationCost <= MappingBudget

\* Those of `entering` declared: in entity order up to the bounds
Entered(entering, retired) ==
    {e \in entering : MayDeclare(retired, Cardinality(PlayerDeclared(retired))
                                          + Cardinality({f \in entering : f < e}))}

\* Mutant: in entity order, the player where it falls
Numbered_EntityOrder(player, entered) ==
    [e \in player \cup entered |-> nextNet + Cardinality({f \in player \cup entered : f < e})]

\* The IDs given, in turn: the player's first
Numbered(player, entered) ==
    [e \in player \cup entered |->
        nextNet + (IF e \in player THEN 0
                   ELSE Cardinality(player) + Cardinality({f \in entered : f < e}))]
IdSet(ids) == {ids[e] : e \in DOMAIN ids}

\* The mappings then: a retirement past the budget leaves its mapping retiring.
Remapped(leaving, retired, ids) ==
    [e \in Entities |->
        IF e \in DOMAIN ids THEN NewMapping(ids[e])
        ELSE IF e \in retired THEN NoMapping
        ELSE IF e \in leaving THEN [mapped[e] EXCEPT !.retiring = TRUE]
        ELSE mapped[e]]

\* Mutant: declarations go first
Frames_DeclaredFirst(retired, ids, ownedFirst) ==
    (IF DOMAIN ids = {} THEN <<>>
     ELSE <<[kind |-> "declare", ids |-> IdSet(ids), ownedFirst |-> ownedFirst]>>)
    \o
    (IF retired = {} THEN <<>>
     ELSE <<[kind |-> "retire", ids |-> {mapped[e].id : e \in retired}, ownedFirst |-> FALSE]>>)

Frames(retired, ids, ownedFirst) ==
    (IF retired = {} THEN <<>>
     ELSE <<[kind |-> "retire", ids |-> {mapped[e].id : e \in retired}, ownedFirst |-> FALSE]>>)
    \o
    (IF DOMAIN ids = {} THEN <<>>
     ELSE <<[kind |-> "declare", ids |-> IdSet(ids), ownedFirst |-> ownedFirst]>>)

-----------------------------------------------------------------------------
(* The values looked at, and those sent. *)

\* Mutant: what stayed unsettled is not looked at again
Looked_Forgetful(note, now, ids) ==
    {e \in Entities :
        /\ now[e].id # 0 /\ ~now[e].retiring
        /\ \/ ~KeptSince(note)
           \/ e = Player \/ e \in DOMAIN ids
           \/ \E i \in Since(note) : e \in note[i].entities}

\* Only what changed or was unsettled, and the player: every mapping when
\* the changes are no longer kept or are as many as the mappings.
Looked(note, now, ids) ==
    LET held == {e \in Entities : now[e].id # 0}
        waiting == unsettled \cup DOMAIN ids
        since == {s \in Since(note) \X Entities : s[2] \in note[s[1]].entities}
        everything == \/ ~KeptSince(note)
                      \/ Cardinality(unsettled) + Cardinality(DOMAIN ids) + Cardinality(since)
                            >= Cardinality(held)
    IN  {e \in held :
            /\ ~now[e].retiring
            /\ everything \/ e \in waiting \cup {s[2] : s \in since} \cup {Player}}

\* Of those looked at, the ones open to state: acknowledged by the client
Open(looked, now) == {e \in looked \cap Present : now[e].acked}

\* The World's value in a slot, and what the server knows of the client's
ValueIn(s) == world[s[1]][s[2]]
ReplicaIn(now, s) == now[s[1]].replicas[s[2]]

Unheld(open, now) ==
    {s \in open \X Components :
        /\ ValueIn(s) # None
        /\ s[1] = Player \/ s[2] \notin OwnOnly
        /\ ~HeldAs(ReplicaIn(now, s), ValueIn(s))}

\* Mutant: a value once sent is not sent again until it changes
Candidates_Once(unheld, now) ==
    {s \in unheld : ReplicaIn(now, s).value # ValueIn(s)}

\* Not sent so recently that its acknowledgement may be on the way
Candidates(unheld, now) ==
    {s \in unheld :
        \/ ReplicaIn(now, s).value # ValueIn(s)
        \/ tick - ReplicaIn(now, s).sentAt >= ResendAfter}

PriorityOf(s) == ReplicaIn(mapped, s).priority
                 + (IF s[1] = Player THEN OwnedPriority ELSE 1)

\* Longest waiting first, ties in entity then component order
GoesBefore(s, t) ==
    \/ PriorityOf(s) > PriorityOf(t)
    \/ PriorityOf(s) = PriorityOf(t) /\ (s[1] < t[1] \/ (s[1] = t[1] /\ s[2] < t[2]))

\* The candidates the budget has room for, each with its place in turn
Written(candidates) ==
    LET place == [s \in candidates |-> Cardinality({t \in candidates : GoesBefore(t, s)})]
    IN  [s \in {t \in candidates : place[t] < RecordBudget} |-> place[s]]

\* Mutant: a changed value keeps the tick of the one before it
Sent_KeepsChangedAt(now, candidates, written) ==
    [e \in Entities |-> [now[e] EXCEPT !.replicas =
        [c \in Components |->
            LET replica == now[e].replicas[c]
            IN  IF <<e, c>> \in written
                THEN [replica EXCEPT !.value = world[e][c], !.sentAt = tick, !.priority = 0,
                                     !.changedAt = IF @ = 0 THEN tick ELSE @]
                ELSE IF <<e, c>> \in candidates
                THEN [replica EXCEPT !.priority = PriorityOf(<<e, c>>)]
                ELSE replica]]]

Sent(now, candidates, written) ==
    [e \in Entities |-> [now[e] EXCEPT !.replicas =
        [c \in Components |->
            LET replica == now[e].replicas[c]
            IN  IF <<e, c>> \in written
                THEN [value     |-> world[e][c],
                      changedAt |-> IF replica.value = world[e][c] THEN replica.changedAt ELSE tick,
                      sentAt    |-> tick,
                      ackedAt   |-> replica.ackedAt,
                      priority  |-> 0]
                ELSE IF <<e, c>> \in candidates
                THEN [replica EXCEPT !.priority = PriorityOf(<<e, c>>)]
                ELSE replica]]]

\* Mutant: a player open to state is whole whatever is pending
Whole_Open(open, unheld, carried) == Player \in open

\* playerWhole: every value of the player the client does not hold is carried
Whole(open, unheld, carried) ==
    Player \in open /\ {s \in unheld : s[1] = Player} \subseteq carried

\* How many datagrams the publish makes; one more, empty, tells an idle
\* client what input was consumed.
DatagramCount(open, unheld, written, arrived) ==
    LET full == (Cardinality(DOMAIN written) + RecordRoom - 1) \div RecordRoom
    IN  IF (full = 0 \/ ~arrived) /\ HeardInput /\ Whole(open, unheld, {}) THEN full + 1 ELSE full

\* Those the n-th carries, from none
Inside(written, n) == {s \in DOMAIN written : written[s] \div RecordRoom = n}

RecordsOf(now, slots) ==
    {[id |-> now[s[1]].id, component |-> s[2], value |-> ValueIn(s)] : s \in slots}

Datagrams(now, open, unheld, written, arrived) ==
    {[seq     |-> sequence + 1 + n,
      tick    |-> tick,
      whole   |-> Whole(open, unheld, Inside(written, n)),
      records |-> RecordsOf(now, Inside(written, n))]
        : n \in 0 .. (DatagramCount(open, unheld, written, arrived) - 1)}

SentOf(d) == [seq |-> d.seq, tick |-> d.tick, acked |-> FALSE,
              records |-> {<<r.id, r.component>> : r \in d.records}]
\* The newest n of the datagrams remembered
NewestOf(S, n) == {s \in S : Cardinality({t \in S : t.seq > s.seq}) < n}

-----------------------------------------------------------------------------
Init ==
    /\ tick = 0 /\ stepped = FALSE
    /\ world = [e \in Entities |-> [c \in Components |-> None]]
    /\ near = {} /\ within = {}
    /\ previous = world /\ changed = <<>> /\ lookedAt = 0
    /\ mapped = [e \in Entities |-> NoMapping]
    /\ unsettled = {} /\ bounded = FALSE
    /\ nextNet = 1 /\ unacked = <<>> /\ sequence = 0 /\ sent = {} /\ struck = FALSE
    /\ toClient = <<>> /\ toServer = <<>> /\ states = {} /\ acks = {}
    /\ mirror = [i \in Ids |-> NoMirror] /\ owned = 0
    /\ received = [latest |-> 0, earlier |-> {}, due |-> FALSE]
    /\ closed = FALSE

\* The game's systems run a tick: it ends with any World, and its entities
\* anywhere about the player.
Step(w, in, held) ==
    /\ ~stepped /\ ~closed
    /\ tick' = tick + 1
    /\ world' = w
    /\ near' = in /\ within' = held
    /\ stepped' = TRUE
    /\ UNCHANGED <<serverVars, netVars, clientVars>>

\* State::publish on a tick that is not the connection's
PublishNothing ==
    /\ stepped /\ (tick + Phase) % StatePeriod # 0
    /\ stepped' = FALSE
    /\ changed' = Noted /\ previous' = world
    /\ UNCHANGED <<tick, world, near, within, lookedAt, unsettled, bounded, mapped, nextNet,
                   unacked, sequence, sent, struck, netVars, clientVars>>

\* State::publishTo, whole; `arrived` is whether the provider took the
\* datagrams: one it refused has used its sequence and is not remembered.
\* (\E over one value, for the IDs given and the mappings then: each is worked
\* out once, and what follows reads it.)
Publish(arrived) ==
    /\ stepped /\ (tick + Phase) % StatePeriod = 0
    /\ stepped' = FALSE
    /\ LET note == Noted
           leaving == Leaving(note)
           retired == Retired(leaving)
           player == PlayerDeclared(retired)
           entering == Entering(note, retired)
           entered == Entered(entering, retired)
       IN  \E ids \in {Numbered(player, entered)} :
           \E now \in {Remapped(leaving, retired, ids)} :
           LET looked == Looked(note, now, ids)
               open == Open(looked, now)
               unheld == Unheld(open, now)
               candidates == Candidates(unheld, now)
               written == Written(candidates)
               datagrams == Datagrams(now, open, unheld, written, arrived)
           IN  /\ changed' = note /\ previous' = world /\ lookedAt' = tick
               /\ bounded' = (leaving # retired \/ entering # entered)
               /\ nextNet' = IF Cardinality(DOMAIN ids) = IdsLeft THEN 0
                             ELSE nextNet + Cardinality(DOMAIN ids)
               /\ unacked' = IF DOMAIN ids = {} THEN unacked ELSE Append(unacked, IdSet(ids))
               /\ toClient' = toClient \o Frames(retired, ids, player # {})
               /\ mapped' = Sent(now, candidates, DOMAIN written)
               /\ unsettled' = (looked \ open) \cup {s[1] : s \in unheld}
               /\ sequence' = sequence + DatagramCount(open, unheld, written, arrived)
               /\ IF arrived
                  THEN /\ states' = states \cup datagrams
                       /\ sent' = NewestOf(sent \cup {SentOf(d) : d \in datagrams}, SentWindow)
                  ELSE UNCHANGED <<states, sent>>
    /\ UNCHANGED <<tick, world, near, within, struck, toServer, acks, clientVars>>

\* State::onFrame of a mapping acknowledgement: whole and in turn, or a strike
ReceiveMappingAck ==
    /\ ~stepped /\ toServer # <<>>
    /\ toServer' = Tail(toServer)
    /\ LET run == Head(toServer)
       IN  IF unacked # <<>> /\ Head(unacked) = run
           THEN /\ unacked' = Tail(unacked)
                /\ mapped' = [e \in Entities |->
                                IF mapped[e].id \in run THEN [mapped[e] EXCEPT !.acked = TRUE]
                                ELSE mapped[e]]
                /\ UNCHANGED struck
           ELSE struck' = TRUE /\ UNCHANGED <<unacked, mapped>>
    /\ UNCHANGED <<worldVars, lookVars, nextNet, sequence, sent, toClient, states, acks, clientVars>>

\* The remembered datagrams an acknowledgement newly shows to have arrived
ShownBy(a) == {s \in sent : ~s.acked /\ (s.seq = a.latest \/ a.latest - s.seq \in a.earlier)}

\* State::onStateAck
ReceiveStateAck(a) ==
    /\ ~stepped
    /\ LET shown == ShownBy(a)
           reach == IF a.latest <= sequence THEN a.latest ELSE sequence
           ticks(e, c) == {s.tick : s \in {t \in shown : <<mapped[e].id, c>> \in t.records}}
       IN  /\ sent' = {s \in {IF t \in shown THEN [t EXCEPT !.acked = TRUE] ELSE t : t \in sent} :
                          s.seq + AckBits >= reach}
           /\ mapped' = [e \in Entities |-> [mapped[e] EXCEPT !.replicas =
                            [c \in Components |->
                                IF ticks(e, c) = {} THEN mapped[e].replicas[c]
                                ELSE [mapped[e].replicas[c] EXCEPT !.ackedAt = Larger(@, Greatest(ticks(e, c)))]]]]
    /\ UNCHANGED <<worldVars, lookVars, nextNet, unacked, sequence, struck, netVars, clientVars>>

-----------------------------------------------------------------------------
(* The client. *)

Mirrored == {i \in Ids : mirror[i].held}

\* onFrame, declare: mirrored whole and acknowledged, or the connection closed
Declare(frame) ==
    IF Cardinality(frame.ids) > ClientMapped - Cardinality(Mirrored) \/ frame.ids \cap Mirrored # {}
    THEN closed' = TRUE /\ UNCHANGED <<mirror, owned, toServer>>
    ELSE /\ mirror' = [i \in Ids |-> IF i \in frame.ids THEN NewMirror ELSE mirror[i]]
         /\ owned' = IF frame.ownedFirst THEN Least(frame.ids) ELSE owned
         /\ toServer' = Append(toServer, frame.ids)
         /\ UNCHANGED closed

\* Mutant: lets go of the player alone
Retire_Owned(frame) ==
    /\ mirror' = [i \in Ids |-> IF i \in frame.ids /\ i = owned THEN NoMirror ELSE mirror[i]]
    /\ owned' = IF owned \in frame.ids THEN 0 ELSE owned
    /\ UNCHANGED <<toServer, closed>>

\* onFrame, retire
Retire(frame) ==
    /\ mirror' = [i \in Ids |-> IF i \in frame.ids THEN NoMirror ELSE mirror[i]]
    /\ owned' = IF owned \in frame.ids THEN 0 ELSE owned
    /\ UNCHANGED <<toServer, closed>>

ReceiveFrame ==
    /\ ~stepped /\ ~closed /\ toClient # <<>>
    /\ toClient' = Tail(toClient)
    /\ \/ Head(toClient).kind = "declare" /\ Declare(Head(toClient))
       \/ Head(toClient).kind = "retire" /\ Retire(Head(toClient))
    /\ UNCHANGED <<worldVars, serverVars, states, acks, received>>

\* receive: the newest sequence, and which of the AckBits before it arrived
Receive(seq) ==
    LET latest == received.latest
        shift == seq - latest
    IN  IF seq > latest
        THEN [latest  |-> seq,
              earlier |-> {b \in 1..AckBits : b - shift \in received.earlier}
                          \cup (IF latest # 0 /\ shift <= AckBits THEN {shift} ELSE {}),
              due     |-> TRUE]
        ELSE [latest  |-> latest,
              earlier |-> received.earlier
                          \cup (IF seq < latest /\ latest - seq <= AckBits THEN {latest - seq} ELSE {}),
              due     |-> TRUE]

\* Mutant: an older state is applied as it arrives
Staged_Stale(d) == {r \in d.records : mirror[r.id].held}

\* onState: what is mapped and not older than what is held is applied.
Staged(d) == {r \in d.records : mirror[r.id].held /\ mirror[r.id].copies[r.component].at <= d.tick}

ReceiveState(d) ==
    /\ ~stepped /\ ~closed
    /\ received' = Receive(d.seq)
    /\ mirror' = [i \in Ids |-> [mirror[i] EXCEPT !.copies =
                    [c \in Components |->
                        IF \E r \in Staged(d) : r.id = i /\ r.component = c
                        THEN [value |-> (CHOOSE r \in Staged(d) : r.id = i /\ r.component = c).value,
                              at    |-> d.tick]
                        ELSE mirror[i].copies[c]]]]
    /\ UNCHANGED <<worldVars, serverVars, netVars, owned, closed>>

\* sendAcknowledgement
SendStateAck ==
    /\ ~stepped /\ ~closed /\ received.due
    /\ received' = [received EXCEPT !.due = FALSE]
    /\ acks' = acks \cup {[latest |-> received.latest, earlier |-> received.earlier]}
    /\ UNCHANGED <<worldVars, serverVars, toClient, toServer, states, mirror, owned, closed>>

-----------------------------------------------------------------------------
Deliver ==
    \/ ReceiveMappingAck
    \/ ReceiveFrame
    \/ SendStateAck
    \/ \E d \in states : ReceiveState(d)
    \/ \E a \in acks : ReceiveStateAck(a)

Next ==
    \/ \E w \in Worlds, held \in SUBSET Entities : \E in \in SUBSET held : Step(w, in, held)
    \/ PublishNothing
    \/ \E arrived \in BOOLEAN : Publish(arrived)
    \/ Deliver

Spec == Init /\ [][Next]_vars

-----------------------------------------------------------------------------
(* Properties. *)

\* Every variable has its type (peers.h, client.cpp's State).
TypeOK ==
    /\ tick \in Nat /\ world \in Worlds /\ stepped \in BOOLEAN
    /\ near \subseteq Entities /\ within \subseteq Entities
    /\ previous \in Worlds /\ changed \in Seq(Change) /\ lookedAt \in Nat
    /\ mapped \in [Entities -> Mapping]
    /\ unsettled \subseteq Entities /\ bounded \in BOOLEAN
    /\ nextNet \in {0} \cup Ids /\ unacked \in Seq(SUBSET Ids)
    /\ sequence \in Nat /\ sent \subseteq SentState /\ struck \in BOOLEAN
    /\ toClient \in Seq(Frame) /\ toServer \in Seq(SUBSET Ids)
    /\ states \subseteq StateDatagram /\ acks \subseteq Heard
    /\ mirror \in [Ids -> Mirror] /\ owned \in {0} \cup Ids
    /\ received \in [latest: Nat, earlier: SUBSET (1..AckBits), due: BOOLEAN]
    /\ closed \in BOOLEAN

\* What the client shows for an entity the server has mapped
Shown(e, c) == mirror[mapped[e].id].copies[c].value

\* What the server takes the client to hold is what the client holds: the
\* rule of Replica::held (peers.h), whatever was lost, duplicated or late.
HeldIsShown ==
    \A e \in Mapped, c \in Components :
        LET replica == mapped[e].replicas[c]
        IN  HeldAs(replica, replica.value) => Shown(e, c) = replica.value

\* A mapping the server takes as acknowledged is one the client mirrors, so a
\* state datagram overtaking the control stream never names an unknown ID.
AckedIsMirrored == \A e \in Mapped : mapped[e].acked => mirror[mapped[e].id].held

\* The entities and values the next publish need not look at
UnchangedSince(e) ==
    /\ \A i \in DOMAIN changed : changed[i].publish > lookedAt => e \notin changed[i].entities
    /\ world[e] = previous[e]
Settled(e) ==
    mapped[e].id # 0 /\ ~mapped[e].retiring /\ e \notin unsettled /\ UnchangedSince(e)

\* What the incremental look of publishTo leaves out needs no looking at: a
\* settled entity's every value is on the client as the World has it.
SettledIsShown ==
    \A e \in Entities, c \in Components :
        Settled(e) /\ world[e][c] # None /\ (e = Player \/ c \notin OwnOnly)
            => Shown(e, c) = world[e][c]

\* What the fast path (kComings) leaves out has not come or gone: after an
\* unbounded look, what was present and has not appeared since is mapped.  The
\* player is not declared again once net entity IDs ran out, which that path
\* does not count as a bound.
NothingUnmapped ==
    ~Interest /\ ~bounded /\ lookedAt # 0 =>
        \A e \in Entities :
            /\ PresentIn(previous, e) /\ (e = Player => nextNet # 0)
            /\ \A i \in DOMAIN changed : changed[i].publish > lookedAt => e \notin changed[i].appeared
            => mapped[e].id # 0

\* Nobody ends an honest connection.  No client that keeps to the protocol is
\* struck for its acknowledgements, each of which arrives whole and in turn
\* (State::onFrame); and none with the server's bound closes over a declaration
\* (client.cpp's declare), IDs being fresh and retirements going first.
NeverEnded == ~struck /\ ~closed

\* The client's own entity is the server's player under the player's mapping,
\* or one whose retirement is still on its way.
OwnedIsPlayer ==
    owned # 0 => \/ mapped[Player].id = owned
                 \/ \E i \in DOMAIN toClient : toClient[i].kind = "retire" /\ owned \in toClient[i].ids

\* Nothing the client mirrors is orphaned: the server has it mapped, or its
\* retirement is on its way.
NoOrphan ==
    \A i \in Mirrored :
        \/ \E e \in Mapped : mapped[e].id = i
        \/ \E n \in DOMAIN toClient : toClient[n].kind = "retire" /\ i \in toClient[n].ids

\* A state that says the client's player is whole (playerWhole) tells the
\* truth: what it does not carry of the player, the client already shows.
WholeIsWhole ==
    ~stepped => \A d \in states :
        d.whole /\ d.tick = tick /\ mapped[Player].id # 0 =>
            \A c \in Components :
                \/ world[Player][c] = None
                \/ \E r \in d.records : r.id = mapped[Player].id /\ r.component = c
                \/ Shown(Player, c) = world[Player][c]

\* What the client shows under an ID never goes back to an older state,
\* whatever order datagrams arrive in, until the ID is retired.
NeverOlder ==
    [][\A i \in Ids, c \in Components :
        mirror[i].held /\ mirror'[i].held => mirror'[i].copies[c].at >= mirror[i].copies[c].at]_vars
=============================================================================
