------------------------------ MODULE Prediction ------------------------------
(***************************************************************************)
(* Client prediction over the input lane: the client runs its player's     *)
(* systems ahead of the server from the commands it labels, and compares   *)
(* what it predicted with the server's states as they come.  Equal, a tick *)
(* is confirmed; unequal, the player goes back to the server's values and  *)
(* every later tick is predicted again.  The effects those systems emit    *)
(* are told to presentation through a ledger that knows which were told    *)
(* already.                                                                *)
(*                                                                         *)
(* The game is a constant: what a step makes of a state and a command, and *)
(* what it emits.  The server's World may also do to the player what no    *)
(* client predicts.  The player is mapped and its mapping acknowledged     *)
(* from the start: module Replication is about that.  A state is stamped   *)
(* with the input tick it is the state after.                              *)
(***************************************************************************)
EXTENDS InputLane, FiniteSets

CONSTANTS
    Components,      \* the player's predicted components
    Values, Zero,    \* what one holds, and what it starts with
    Step(_, _),      \* the predicted systems: a state and a command
    Emits(_, _),     \* the effects they emit on the way
    Shoved(_),       \* what else the World may make of the player's state
    EffectKinds,     \* the game's effect kinds
    ConfirmedKinds,  \* EffectClass::ConfirmedOnly
    PredictionWindow, \* PredictionSettings::window
    EffectLedger,    \* PredictionSettings::effectLedger
    ResendAfter,     \* resendAfter
    MaxShoves        \* bound: what the World does that no client predicts

State == [Components -> Values]

ASSUME GameSteps == \A s \in State, c \in 0..Commands :
                       Step(s, c) \in State /\ Emits(s, c) \subseteq EffectKinds
ASSUME WorldShoves == \A s \in State : Shoved(s) \subseteq State
ASSUME GameValues == Zero \in Values /\ ConfirmedKinds \subseteq EffectKinds
ASSUME PredictionNaturals ==
    PredictionWindow \in Nat \ {0} /\ EffectLedger \in Nat /\ ResendAfter \in Nat /\ MaxShoves \in Nat

(* The ledger's bound is "At least the prediction window's"                *)
(* (prediction.h): every effect a window of ticks may emit.  It never      *)
(* forgets then, and the ring's dropping of its oldest is left out.        *)
ASSUME LedgerHolds == EffectLedger >= PredictionWindow * Cardinality(EffectKinds)

VARIABLES
    \* the server's player
    truth,           \* its state after each input tick
    shoves,
    lastSent, sentAt, changedAt, ackedAt, \* its replica of each component
    states,          \* state datagrams on their way
    \* the client
    appliedAt,       \* the tick each component was last applied at
    known,           \* known_, of the components applied at all
    started,
    base,            \* the player's state at the last tick compared
    compared,        \* that tick: history_ holds those from there to the predicted one
    ahead,           \* history_
    forgotten,       \* commands_ holds the labels past this one
    ledger,          \* the effects of ticks not compared
    sink,            \* what presentation was last told of each effect
    wholeBase        \* whether `base` was compared with the player's whole state

serverPlayer == <<truth, shoves, lastSent, sentAt, changedAt, ackedAt, states>>
predicted == <<started, base, compared, ahead, ledger, sink, wholeBase>>
mirror == <<appliedAt, known, forgotten>>
vars == <<laneVars, serverPlayer, predicted, mirror>>

-----------------------------------------------------------------------------
Never == -1
PlayerTicks == 0..LastTick

(* An effect's identity is the tick it was predicted for and its kind.     *)
Effects == [tick : 1..MaxLabel + LastTick, kind : EffectKinds]
ConfirmedOnly == {e \in Effects : e.kind \in ConfirmedKinds}

Sink == INSTANCE EffectSink WITH Effects <- Effects, ConfirmedOnly <- ConfirmedOnly, sink <- sink
TwiceTold == "twice"

PredictedTick == compared + Len(ahead)
Now == IF ahead = <<>> THEN base ELSE ahead[Len(ahead)]

Tell_NotTakenBack(shown, gone) ==
    sink' = [e \in Effects |->
               IF e \in shown THEN IF sink[e] = Sink!Shown THEN TwiceTold ELSE Sink!Shown ELSE sink[e]]

(* What presentation hears: each of `shown` delivered, each of `gone`      *)
(* cancelled.  An effect delivered while it is shown is shown twice.       *)
Tell(shown, gone) ==
    sink' = [e \in Effects |->
               CASE e \in shown -> IF sink[e] = Sink!Shown THEN TwiceTold ELSE Sink!Shown
                 [] e \in gone \ shown -> Sink!Cancelled
                 [] OTHER -> sink[e]]

Init ==
    /\ LaneInit
    /\ truth = <<>> /\ shoves = 0 /\ states = {}
    /\ lastSent = [c \in Components |-> Zero]
    /\ sentAt = [c \in Components |-> Never]
    /\ changedAt = [c \in Components |-> 0]
    /\ ackedAt = [c \in Components |-> Never]
    /\ appliedAt = [c \in Components |-> 0]
    /\ known = [c \in Components |-> Zero]
    /\ started = FALSE /\ compared = 0 /\ ahead = <<>> /\ forgotten = 0
    /\ base = [c \in Components |-> Zero]
    /\ ledger = {} /\ sink = [e \in Effects |-> Sink!Unheard] /\ wholeBase = FALSE

-----------------------------------------------------------------------------
(* Predicting ahead.                                                       *)

(* What the client takes the server to play at t: the label for it, or the *)
(* last before it within HoldLast ticks, or neutral.  `past` says which    *)
(* labels are forgotten.                                                   *)
LabelsTo(labels, past, t) == {s \in Ticks : s <= t /\ s > past /\ labels[s] # Neutral}
Latest(ticks) == CHOOSE s \in ticks : \A u \in ticks : u <= s
CommandFor_OneLonger(labels, past, t) ==
    LET to == LabelsTo(labels, past, t)
    IN  IF to # {} /\ t - Latest(to) <= HoldLast + 1 THEN labels[Latest(to)] ELSE Neutral
CommandFor(labels, past, t) ==
    LET to == LabelsTo(labels, past, t)
    IN  IF to # {} /\ t - Latest(to) <= HoldLast THEN labels[Latest(to)] ELSE Neutral

NewestLabel(labels) ==
    LET to == LabelsTo(labels, 0, MaxLabel) IN IF to = {} THEN 0 ELSE Latest(to)

(* The states of the n ticks after `from`, from `state`, under `commands`. *)
Run(state, from, n, commands) ==
    LET after[i \in 0..n] == IF i = 0 THEN state ELSE Step(after[i - 1], commands[from + i])
    IN  [i \in 1..n |-> after[i]]

(* What the systems emit on the way.                                       *)
EmittedBy(state, from, run, commands) ==
    {e \in Effects :
       /\ e.tick - from \in 1..Len(run)
       /\ e.kind \in Emits(IF e.tick - from = 1 THEN state ELSE run[e.tick - from - 1],
                           commands[e.tick])}

Commanded(labels, past) == [t \in 1..MaxLabel + LastTick |-> CommandFor(labels, past, t)]

(* The ticks to run: as many as are asked for and the window has room for. *)
RoomFor(through, from, already) ==
    Greater(0, Lesser(through - from, PredictionWindow - already))

(* Every tick after the newest predicted one, through the newest label.    *)
Advance ==
    LET commands == Commanded(labelled', forgotten)
        run == Run(Now, PredictedTick, RoomFor(NewestLabel(labelled'), PredictedTick, Len(ahead)),
                   commands)
        emitted == EmittedBy(Now, PredictedTick, run, commands)
    IN  /\ ahead' = ahead \o run
        /\ ledger' = ledger \cup emitted
        /\ Tell((emitted \ ledger) \ ConfirmedOnly, {})
        /\ UNCHANGED <<started, base, compared, wholeBase>>

(* A labelled sample is predicted at once.                                 *)
PSample ==
    /\ Sample
    /\ IF started /\ nextLabel' # nextLabel THEN Advance ELSE UNCHANGED predicted
    /\ UNCHANGED <<serverPlayer, mirror>>

-----------------------------------------------------------------------------
(* The server's states.                                                    *)

Truth(t) == IF t = 0 THEN [c \in Components |-> Zero] ELSE truth[t]

(* What the World makes of a tick: what the player's systems do, or that   *)
(* and what no client knows of.                                            *)
Outcomes(state) == {state} \cup (IF shoves < MaxShoves THEN Shoved(state) ELSE {})

Holding(c, value) == ackedAt[c] >= changedAt[c] /\ sentAt[c] # Never /\ lastSent[c] = value
SentLately(c, value) ==
    sentAt[c] # Never /\ nextInput - sentAt[c] < ResendAfter /\ lastSent[c] = value

(* The ways the records due may share datagrams: with those of other       *)
(* entities between them, any.                                             *)
Shares(due) ==
    {parts \in SUBSET (SUBSET due \ {{}}) :
        UNION parts = due /\ \A p, q \in parts : p = q \/ p \cap q = {}}

Datagram(state, part, pending) ==
    [consumed |-> nextInput, given |-> [c \in part |-> state[c]], whole |-> part = pending]

(* The player's records of a publish, or, when the client is known to hold *)
(* all of its player, a datagram of none.                                  *)
Publish(state) ==
    LET pending == {c \in Components : ~Holding(c, state[c])}
        due == {c \in pending : ~SentLately(c, state[c])}
    IN  \E parts \in IF pending = {} THEN {IF heardInput THEN {{}} ELSE {}} ELSE Shares(due) :
            /\ states' = states \cup {Datagram(state, part, pending) : part \in parts}
            /\ lastSent' = [c \in Components |-> IF c \in due THEN state[c] ELSE lastSent[c]]
            /\ changedAt' = [c \in Components |->
                               IF c \in due /\ (sentAt[c] = Never \/ lastSent[c] # state[c])
                               THEN nextInput ELSE changedAt[c]]
            /\ sentAt' = [c \in Components |-> IF c \in due THEN nextInput ELSE sentAt[c]]

PPlay ==
    /\ Play
    /\ \E state \in Outcomes(Step(Truth(nextInput - 1), Plays.command)) :
         /\ truth' = Append(truth, state)
         /\ shoves' = IF state = Step(Truth(nextInput - 1), Plays.command) THEN shoves ELSE shoves + 1
         /\ Publish(state)
    /\ UNCHANGED <<ackedAt, predicted, mirror>>

(* An acknowledgement of what the client has received of one component:    *)
(* any that was sent may come, and a later one says the same and more.     *)
AckArrives(c) ==
    /\ appliedAt[c] # 0 /\ appliedAt[c] > ackedAt[c]
    /\ ackedAt' = [ackedAt EXCEPT ![c] = appliedAt[c]]
    /\ UNCHANGED <<laneVars, truth, shoves, lastSent, sentAt, changedAt, states, predicted, mirror>>

-----------------------------------------------------------------------------
(* A state at the client.                                                  *)

(* The records of a datagram that nothing newer was applied over.          *)
Staged(m) == {c \in DOMAIN m.given : appliedAt[c] <= m.consumed}
KnownWith(m) == [c \in Components |-> IF c \in Staged(m) THEN m.given[c] ELSE known[c]]
HeardOf(m) == Staged(m) \cup {c \in Components : appliedAt[c] # 0}

(* The components a state speaks for: those it gives and, of a whole one,  *)
(* those last heard.                                                       *)
Spoken_OnlyGiven(m) == Staged(m)
Spoken(m) == IF m.whole THEN HeardOf(m) ELSE Staged(m)

InHistory(m) == compared < m.consumed /\ m.consumed <= PredictedTick
PredictedAt(m) == IF InHistory(m) THEN ahead[m.consumed - compared] ELSE Now
Equal(m) == InHistory(m) /\ \A c \in Spoken(m) : PredictedAt(m)[c] = KnownWith(m)[c]
Corrected(m) ==
    [c \in Components |-> IF c \in Spoken(m) THEN KnownWith(m)[c] ELSE PredictedAt(m)[c]]
Forgets(m) == Greater(forgotten, m.consumed - HoldLast - 1)
UpTo(tick) == {e \in ledger : e.tick <= tick}

(* Presentation is told of the end of what it heard of; what waited for    *)
(* its confirmation is let go.                                             *)
TakenBack_HeldToo(gone) == gone
TakenBack(gone) == gone \ ConfirmedOnly

(* Prediction starts once every predicted component has been heard of.     *)
Start(m) ==
    LET commands == Commanded(labelled, forgotten)
        run == Run(KnownWith(m), m.consumed, RoomFor(NewestLabel(labelled), m.consumed, 0), commands)
        emitted == EmittedBy(KnownWith(m), m.consumed, run, commands)
    IN  /\ HeardOf(m) = Components
        /\ started' = TRUE
        /\ base' = KnownWith(m)
        /\ compared' = m.consumed
        /\ ahead' = run
        /\ ledger' = emitted
        /\ Tell(emitted \ ConfirmedOnly, {})
        /\ wholeBase' = FALSE
        /\ UNCHANGED forgotten

NotYet(m) ==
    /\ HeardOf(m) # Components
    /\ UNCHANGED <<predicted, forgotten>>

(* Compared already, or older than what is kept to compare.                *)
Passed(m) ==
    /\ ~InHistory(m) /\ m.consumed <= PredictedTick
    /\ UNCHANGED <<predicted, forgotten>>

(* Confirmed: what waited for it is delivered.                             *)
Confirm(m) ==
    /\ Equal(m)
    /\ base' = Corrected(m)
    /\ compared' = m.consumed
    /\ ahead' = SubSeq(ahead, m.consumed - compared + 1, Len(ahead))
    /\ ledger' = ledger \ UpTo(m.consumed)
    /\ Tell(UpTo(m.consumed) \cap ConfirmedOnly, {})
    /\ forgotten' = Forgets(m)
    /\ wholeBase' = m.whole
    /\ UNCHANGED started

(* Back to the server's values, and every later tick again; what that no   *)
(* longer emits is taken back.                                             *)
RollBack(m) ==
    LET commands == Commanded(labelled, Forgets(m))
        through == Greater(PredictedTick, m.consumed)
        run == Run(Corrected(m), m.consumed, RoomFor(through, m.consumed, 0), commands)
        emitted == EmittedBy(Corrected(m), m.consumed, run, commands)
        later == ledger \ UpTo(m.consumed)
    IN  /\ InHistory(m) \/ m.consumed > PredictedTick
        /\ ~Equal(m)
        /\ base' = Corrected(m)
        /\ compared' = m.consumed
        /\ ahead' = run
        /\ ledger' = emitted
        /\ Tell((emitted \ later) \ ConfirmedOnly, TakenBack(later \ emitted))
        /\ forgotten' = Forgets(m)
        /\ wholeBase' = m.whole
        /\ UNCHANGED started

Authoritative(m) ==
    IF started THEN Passed(m) \/ Confirm(m) \/ RollBack(m) ELSE Start(m) \/ NotYet(m)

OnState(m) ==
    /\ m \in states
    /\ HearConsumed(m.consumed)
    /\ appliedAt' = [c \in Components |-> IF c \in Staged(m) THEN m.consumed ELSE appliedAt[c]]
    /\ known' = KnownWith(m)
    /\ IF Staged(m) # {} \/ m.whole THEN Authoritative(m) ELSE UNCHANGED <<predicted, forgotten>>
    /\ UNCHANGED serverPlayer

PSendWindow == SendWindow /\ UNCHANGED <<serverPlayer, predicted, mirror>>
POnPace(pace) == OnPace(pace) /\ UNCHANGED <<serverPlayer, predicted, mirror>>
PHear(window) == Hear(window) /\ UNCHANGED <<serverPlayer, predicted, mirror>>

Next ==
    \/ PSample
    \/ PSendWindow
    \/ \E pace \in paces : POnPace(pace)
    \/ \E window \in windows : PHear(window)
    \/ PPlay
    \/ \E c \in Components : AckArrives(c)
    \/ \E m \in states : OnState(m)

Spec == Init /\ [][Next]_vars

-----------------------------------------------------------------------------
(* What prediction promises.                                               *)

TypeOK ==
    /\ LaneTypeOK
    /\ truth \in Seq(State) /\ Len(truth) = nextInput - 1 /\ shoves \in 0..MaxShoves
    /\ lastSent \in State /\ changedAt \in [Components -> PlayerTicks]
    /\ sentAt \in [Components -> PlayerTicks \cup {Never}]
    /\ ackedAt \in [Components -> PlayerTicks \cup {Never}]
    /\ appliedAt \in [Components -> PlayerTicks]
    /\ known \in State
    /\ started \in BOOLEAN /\ base \in State /\ compared \in PlayerTicks
    /\ ahead \in Seq(State) /\ Len(ahead) <= PredictionWindow
    /\ forgotten \in Nat /\ ledger \subseteq Effects /\ wholeBase \in BOOLEAN
    /\ sink \in [Effects -> Sink!Told]

(* What was compared with the server's whole state is the server's state   *)
(* there, though the datagram gave only a part of it and the rest is what  *)
(* was last heard: late, lost and shared datagrams, and values that change *)
(* back, included.  Not so where prediction started from a state older     *)
(* than a component it had: the states between then speak of that          *)
(* component as it was later.                                              *)
BaseIsServers ==
    (wholeBase /\ \A c \in Components : appliedAt[c] <= compared) => base = Truth(compared)

(* What presentation shows of the ticks ahead is what the present          *)
(* prediction emits there, no more and no less, after any number of        *)
(* rollbacks; and nothing of those ticks waits that it does not emit.      *)
ShownIsEmitted ==
    LET emitted == EmittedBy(base, compared, ahead, Commanded(labelled, forgotten))
    IN  /\ ledger = emitted
        /\ \A e \in Effects \ ConfirmedOnly :
             e.tick > compared => (sink[e] = Sink!Shown <=> e \in emitted)

(* When every command came in time, the client took the server to play at  *)
(* each tick what it did: both hold a command as long, and let go of it at *)
(* the same tick.                                                          *)
InTime(t) ==
    \A s \in 1..t : played[s].kind = "fresh"
                    <=> (s \in Ticks /\ labelled[s] # Neutral /\ labelled[s] = played[s].command)
HoldsAlike ==
    \A t \in 1..Len(played) :
        (InTime(t) /\ \A s \in 1..t : s \in Ticks /\ labelled[s] # Neutral => played[s].kind = "fresh")
            => played[t].command = CommandFor(labelled, 0, t)

(* Presentation is told of effects as it is promised.                      *)
EffectsOnce == Sink!Spec
=============================================================================
