--------------------------- MODULE PredictionProofs ---------------------------
(***************************************************************************)
(* What TLAPS proves of prediction, for every game, window and bound: its  *)
(* lane is module InputLane's, so what is proved of that holds here;       *)
(* presentation hears of effects what module EffectSink promises it, and   *)
(* shows of the ticks ahead what the present prediction emits, over any    *)
(* rollbacks; what was compared with a whole state is the server's state;  *)
(* and the client takes the server to hold a command as long as it does.   *)
(***************************************************************************)
EXTENDS Prediction, InputLaneProofs, WellFoundedInduction

(* A state is stamped with a tick the server has played.                   *)
Stamped == nextInput \in 1..LastTick + 1 /\ \A m \in states : m.consumed \in 1..LastTick

-----------------------------------------------------------------------------
(* Every step is one of the lane or leaves it alone.                       *)
LEMMA LaneStepOf == Stamped /\ [Next]_vars => [LaneNext]_laneVars
  <1> SUFFICES ASSUME Stamped, [Next]_vars PROVE [LaneNext]_laneVars
    OBVIOUS
  <1>1. CASE PSample
    BY <1>1 DEF PSample, LaneNext
  <1>2. CASE PSendWindow
    BY <1>2 DEF PSendWindow, LaneNext
  <1>3. ASSUME NEW pace \in paces, POnPace(pace) PROVE [LaneNext]_laneVars
    BY <1>3 DEF POnPace, LaneNext
  <1>4. ASSUME NEW w \in windows, PHear(w) PROVE [LaneNext]_laneVars
    BY <1>4 DEF PHear, LaneNext
  <1>5. CASE PPlay
    BY <1>5 DEF PPlay, LaneNext
  <1>6. ASSUME NEW c \in Components, AckArrives(c) PROVE [LaneNext]_laneVars
    BY <1>6 DEF AckArrives
  <1>7. CASE UNCHANGED vars
    BY <1>7 DEF vars
  <1>8. ASSUME NEW m \in states, OnState(m) PROVE [LaneNext]_laneVars
    BY <1>8 DEF OnState, Stamped, LaneNext
  <1> QED BY <1>1, <1>2, <1>3, <1>4, <1>5, <1>6, <1>7, <1>8 DEF Next

LEMMA StampedStep == Stamped /\ [Next]_vars => Stamped'
  <1> SUFFICES ASSUME Stamped, [Next]_vars PROVE Stamped'
    OBVIOUS
  <1>1. CASE PPlay
    <2>1. nextInput \in 1..LastTick /\ nextInput' = nextInput + 1
      BY <1>1, LaneNaturals DEF PPlay, Play, ApplyInputs, Stamped
    <2>2. PICK state : Publish(state)
      BY <1>1 DEF PPlay
    <2>3. \A m \in states' \ states : m.consumed = nextInput
      <3> DEFINE pending == {c \in Components : ~Holding(c, state[c])}
      <3>1. \E parts : states' = states \cup {Datagram(state, part, pending) : part \in parts}
        BY <2>2, Zenon DEF Publish
      <3> HIDE DEF pending
      <3> QED BY <3>1 DEF Datagram
    <2> QED BY <2>1, <2>3, LaneNaturals DEF Stamped
  <1>2. CASE ~PPlay
    <2>1. UNCHANGED <<nextInput, states>>
      <3>1. CASE PSample
        BY <3>1 DEF PSample, Sample, serverInput, serverPlayer
      <3>2. CASE PSendWindow
        BY <3>2 DEF PSendWindow, SendWindow, serverInput, serverPlayer
      <3>3. ASSUME NEW pace \in paces, POnPace(pace) PROVE UNCHANGED <<nextInput, states>>
        BY <3>3 DEF POnPace, OnPace, serverInput, serverPlayer
      <3>4. ASSUME NEW w \in windows, PHear(w) PROVE UNCHANGED <<nextInput, states>>
        BY <3>4 DEF PHear, Hear, serverPlayer
      <3>5. ASSUME NEW c \in Components, AckArrives(c) PROVE UNCHANGED <<nextInput, states>>
        BY <3>5 DEF AckArrives, laneVars
      <3>6. ASSUME NEW m \in states, OnState(m) PROVE UNCHANGED <<nextInput, states>>
        BY <3>6 DEF OnState, HearConsumed, serverInput, serverPlayer
      <3>7. CASE UNCHANGED vars
        BY <3>7 DEF vars, laneVars, serverPlayer
      <3> QED BY <1>2, <3>1, <3>2, <3>3, <3>4, <3>5, <3>6, <3>7 DEF Next
    <2> QED BY <2>1 DEF Stamped
  <1> QED BY <1>1, <1>2

(* The composition runs the lane it is built over.                         *)
LEMMA StampedInits == Init => Stamped /\ LaneInit
  BY LaneNaturals DEF Init, LaneInit, Stamped

LEMMA StatesStamped == Spec => []Stamped
  BY StampedInits, StampedStep, PTL DEF Spec

LEMMA RunsLane == Spec => LaneSpec
  BY StampedInits, StatesStamped, LaneStepOf, PTL DEF Spec, LaneSpec

(* So with a prediction over it, each tick is played with its own command, *)
(* until a label is left out behind commands not consumed, and never with  *)
(* a later one's.                                                          *)
THEOREM PredictedTicksTheirOwn == Spec => []InTheirTicks
  BY RunsLane, TicksTheirOwn, PTL

-----------------------------------------------------------------------------
(* Numbers: a set of them with a member has a least, and within a bound a  *)
(* greatest.                                                               *)
LEMMA LeastOf ==
    ASSUME NEW T \in SUBSET Nat, T # {}
    PROVE  \E x \in T : \A y \in T : x <= y
  <1> DEFINE R == OpToRel(<, Nat)
  <1>1. IsWellFoundedOn(R, Nat)
    BY NatLessThanWellFounded
  <1>2. \A x, y \in Nat : x < y => <<x, y>> \in R
    BY DEF OpToRel
  <1> HIDE DEF R
  <1>3. \E x \in T : \A y \in T : ~(<<y, x>> \in R)
    BY <1>1, WFMin
  <1>4. PICK x \in T : \A y \in T : ~(<<y, x>> \in R)
    BY <1>3
  <1>5. \A y \in T : x <= y
    <2> SUFFICES ASSUME NEW y \in T PROVE x <= y
      OBVIOUS
    <2>1. x \in Nat /\ y \in Nat
      OBVIOUS
    <2>2. ~(y < x)
      BY <1>2, <1>4, <2>1
    <2> QED BY <2>1, <2>2
  <1> QED BY <1>5

LEMMA LatestIsLast ==
    ASSUME NEW T \in SUBSET Ticks, T # {}
    PROVE  Latest(T) \in T /\ \A y \in T : y <= Latest(T)
  <1> DEFINE U == {MaxLabel - x : x \in T}
  <1>1. \A x \in T : x \in Int /\ x <= MaxLabel /\ MaxLabel - x \in Nat
    BY LaneNaturals DEF Ticks
  <1>2. PICK u \in U : \A v \in U : u <= v
    <2>1. U \in SUBSET Nat /\ U # {}
      BY <1>1
    <2> HIDE DEF U
    <2> QED BY <2>1, LeastOf
  <1>3. PICK x \in T : u = MaxLabel - x
    BY <1>2
  <1>4. \A y \in T : y <= x
    <2> SUFFICES ASSUME NEW y \in T PROVE y <= x
      OBVIOUS
    <2>1. MaxLabel - x <= MaxLabel - y
      BY <1>2, <1>3
    <2> QED BY <1>1, <2>1, LaneNaturals
  <1> QED BY <1>4 DEF Latest

(* The commands the client takes the server to play.                       *)
LEMMA CommandedTyped ==
    ASSUME NEW labels \in [Ticks -> 0..Commands], NEW past \in Nat
    PROVE  Commanded(labels, past) \in [1..MaxLabel + LastTick -> 0..Commands]
  <1> SUFFICES ASSUME NEW t \in 1..MaxLabel + LastTick
               PROVE  CommandFor(labels, past, t) \in 0..Commands
    BY DEF Commanded
  <1> DEFINE to == LabelsTo(labels, past, t)
  <1>1. to \in SUBSET Ticks
    BY DEF LabelsTo
  <1> HIDE DEF to
  <1>2. CASE to # {}
    <2>1. labels[Latest(to)] \in 0..Commands
      BY <1>1, <1>2, LatestIsLast
    <2> QED BY <2>1, LaneNaturals DEF CommandFor, Neutral, to
  <1>3. CASE to = {}
    BY <1>3, LaneNaturals DEF CommandFor, Neutral, to
  <1> QED BY <1>2, <1>3

LEMMA NewestLabelTyped ==
    ASSUME NEW labels
    PROVE  NewestLabel(labels) \in 0..MaxLabel
  <1> DEFINE to == LabelsTo(labels, 0, MaxLabel)
  <1>1. to \in SUBSET Ticks
    BY DEF LabelsTo
  <1> HIDE DEF to
  <1>2. CASE to # {}
    <2>1. Latest(to) \in Ticks
      BY <1>1, <1>2, LatestIsLast
    <2> QED BY <1>2, <2>1, LaneNaturals DEF NewestLabel, Ticks, to
  <1>3. CASE to = {}
    BY <1>3, LaneNaturals DEF NewestLabel, to
  <1> QED BY <1>2, <1>3

(* What prediction runs is as long as it is asked for, and of states.      *)
LEMMA RunTyped ==
    ASSUME NEW state \in State, NEW from \in Nat, NEW n \in Nat,
           from + n <= MaxLabel + LastTick,
           NEW commands \in [1..MaxLabel + LastTick -> 0..Commands]
    PROVE  Run(state, from, n, commands) \in Seq(State) /\ Len(Run(state, from, n, commands)) = n
  <1> DEFINE Runs(g, k) ==
                g = [i \in 0..k |-> IF i = 0 THEN state ELSE Step(g[i - 1], commands[from + i])]
             Failing == {k \in 0..n : ~\E g : Runs(g, k)}
  <1>1. Failing = {}
    <2> SUFFICES ASSUME Failing # {} PROVE FALSE
      OBVIOUS
    <2>1. Failing \in SUBSET Nat
      OBVIOUS
    <2>2. PICK k \in Failing : \A j \in Failing : k <= j
      <3> HIDE DEF Failing
      <3> QED BY <2>1, LeastOf
    <2>3. k \in 0..n /\ ~\E g : Runs(g, k)
      OBVIOUS
    <2>4. CASE k = 0
      <3> DEFINE g == [i \in 0..0 |-> state]
      <3>1. g = [i \in 0..0 |-> IF i = 0 THEN state ELSE Step(g[i - 1], commands[from + i])]
        OBVIOUS
      <3> QED BY <2>3, <2>4, <3>1
    <2>5. CASE k # 0
      <3>1. k - 1 \in 0..n /\ k - 1 \notin Failing
        <4> HIDE DEF Failing
        <4> QED BY <2>2, <2>3, <2>5
      <3>2. PICK h : Runs(h, k - 1)
        BY <3>1
      <3> DEFINE g == [i \in 0..k |-> IF i = k THEN Step(h[k - 1], commands[from + k]) ELSE h[i]]
      <3>3. \A i \in 0..k : i # k => i \in 0..k - 1 /\ g[i] = h[i]
        BY <2>3
      <3>4. \A i \in 0..k : g[i] = IF i = 0 THEN state ELSE Step(g[i - 1], commands[from + i])
        <4> SUFFICES ASSUME NEW i \in 0..k
                     PROVE  g[i] = IF i = 0 THEN state ELSE Step(g[i - 1], commands[from + i])
          OBVIOUS
        <4>1. CASE i = k
          <5>1. k - 1 \in 0..k /\ k - 1 # k
            BY <2>3, <2>5
          <5>2. g[k - 1] = h[k - 1]
            BY <3>3, <5>1
          <5> QED BY <2>5, <4>1, <5>2
        <4>2. CASE i # k
          <5>1. i \in 0..k - 1 /\ g[i] = h[i]
            BY <3>3, <4>2
          <5>2. h[i] = IF i = 0 THEN state ELSE Step(h[i - 1], commands[from + i])
            BY <3>2, <5>1
          <5>3. i # 0 => i - 1 \in 0..k /\ i - 1 # k
            BY <2>3, <4>2
          <5>4. i # 0 => g[i - 1] = h[i - 1]
            BY <3>3, <5>3
          <5> QED BY <5>1, <5>2, <5>4
        <4> QED BY <4>1, <4>2
      <3>5. Runs(g, k)
        BY <3>4
      <3> HIDE DEF g
      <3> QED BY <2>3, <3>5
    <2> QED BY <2>4, <2>5
  <1>2. \E g : Runs(g, n)
    BY <1>1
  <1> DEFINE after == CHOOSE g : Runs(g, n)
  <1>3. Runs(after, n)
    BY <1>2
  <1>4. Run(state, from, n, commands) = [i \in 1..n |-> after[i]]
    BY DEF Run
  <1> HIDE DEF after
  <1>5. \A i \in 0..n : after[i] = IF i = 0 THEN state ELSE Step(after[i - 1], commands[from + i])
    BY <1>3
  <1> DEFINE Wrong == {i \in 0..n : after[i] \notin State}
  <1>6. Wrong = {}
    <2> SUFFICES ASSUME Wrong # {} PROVE FALSE
      OBVIOUS
    <2>1. Wrong \in SUBSET Nat
      OBVIOUS
    <2>2. PICK k \in Wrong : \A j \in Wrong : k <= j
      <3> HIDE DEF Wrong
      <3> QED BY <2>1, LeastOf
    <2>3. k \in 0..n /\ after[k] \notin State
      OBVIOUS
    <2>4. k # 0
      BY <1>5, <2>3
    <2>5. k - 1 \in 0..n /\ k - 1 \notin Wrong
      <3> HIDE DEF Wrong
      <3> QED BY <2>2, <2>3, <2>4
    <2>6. after[k - 1] \in State
      BY <2>5
    <2>7. from + k \in 1..MaxLabel + LastTick
      BY <2>3, <2>4, LaneNaturals
    <2>8. commands[from + k] \in 0..Commands
      BY <2>7
    <2>9. Step(after[k - 1], commands[from + k]) \in State
      BY <2>6, <2>8, GameSteps
    <2> QED BY <1>5, <2>3, <2>4, <2>9
  <1>7. \A i \in 1..n : after[i] \in State
    BY <1>6
  <1> QED BY <1>4, <1>7

(* The ticks run are as many as there is room for, none past the newest    *)
(* asked for, and what they emit is theirs.                                *)
LEMMA RanTyped ==
    ASSUME NEW state \in State, NEW from \in 0..MaxLabel + LastTick,
           NEW through \in 0..MaxLabel + LastTick, NEW already \in 0..PredictionWindow,
           NEW commands \in [1..MaxLabel + LastTick -> 0..Commands],
           NEW run, run = Run(state, from, RoomFor(through, from, already), commands)
    PROVE  /\ run \in Seq(State) /\ Len(run) \in Nat
           /\ Len(run) + already <= PredictionWindow /\ from + Len(run) <= MaxLabel + LastTick
           /\ EmittedBy(state, from, run, commands) \subseteq Effects
           /\ \A e \in EmittedBy(state, from, run, commands) : e.tick > from
  <1> DEFINE n == RoomFor(through, from, already)
  <1>1. n \in Nat /\ n + already <= PredictionWindow /\ from + n <= MaxLabel + LastTick
    BY LaneNaturals, PredictionNaturals DEF RoomFor, Greater, Lesser
  <1> HIDE DEF n
  <1>2. run \in Seq(State) /\ Len(run) = n
    BY <1>1, LaneNaturals, RunTyped DEF n
  <1>3. EmittedBy(state, from, run, commands) \subseteq Effects
    BY DEF EmittedBy
  <1>4. \A e \in EmittedBy(state, from, run, commands) : e.tick > from
    BY LaneNaturals DEF EmittedBy, Effects
  <1> QED BY <1>1, <1>2, <1>3, <1>4

-----------------------------------------------------------------------------
(* The types of what prediction adds to the lane.                          *)
ServerTyped ==
    /\ truth \in Seq(State) /\ Len(truth) = nextInput - 1 /\ shoves \in 0..MaxShoves
    /\ lastSent \in State /\ changedAt \in [Components -> PlayerTicks]
    /\ sentAt \in [Components -> PlayerTicks \cup {Never}]
    /\ ackedAt \in [Components -> PlayerTicks \cup {Never}]
StatesTyped ==
    \A m \in states :
        /\ m.consumed \in 1..LastTick /\ m.whole \in BOOLEAN
        /\ \A c \in DOMAIN m.given : c \in Components /\ m.given[c] \in Values
MirrorTyped == appliedAt \in [Components -> PlayerTicks] /\ known \in State /\ forgotten \in Nat
AheadTyped ==
    /\ started \in BOOLEAN /\ base \in State /\ compared \in PlayerTicks /\ wholeBase \in BOOLEAN
    /\ ahead \in Seq(State) /\ Len(ahead) <= PredictionWindow
    /\ PredictedTick <= MaxLabel + LastTick

(* The ledger and what presentation shows: of the ticks ahead, what is     *)
(* shown is in the ledger, and what is in the ledger is shown, if it need  *)
(* not wait for its confirmation.  Nothing is heard before prediction      *)
(* starts.                                                                 *)
LedgerAhead == ledger \subseteq Effects /\ \A e \in ledger : e.tick > compared
ShownKnown ==
    \A e \in Effects : sink[e] = Sink!Shown /\ e.tick > compared => e \in ledger \ ConfirmedOnly
KnownShown == \A e \in ledger \ ConfirmedOnly : sink[e] = Sink!Shown
UnstartedUnheard == ~started => ledger = {} /\ \A e \in Effects : sink[e] = Sink!Unheard
EffectInv ==
    /\ sink \in [Effects -> Sink!Told]
    /\ LedgerAhead /\ ShownKnown /\ KnownShown /\ UnstartedUnheard

PredictionInv == ServerTyped /\ StatesTyped /\ MirrorTyped /\ AheadTyped /\ EffectInv

(* What presentation is told of keeps its promise, where it is told of     *)
(* nothing it shows, and of nothing gone but what it shows.                *)
LEMMA TellKeeps ==
    ASSUME sink \in [Effects -> Sink!Told], NEW shown, NEW gone,
           \A e \in Effects : e \in shown => sink[e] # Sink!Shown,
           \A e \in Effects : e \in gone \ shown => sink[e] = Sink!Shown /\ e \notin ConfirmedOnly,
           Tell(shown, gone)
    PROVE  /\ sink' \in [Effects -> Sink!Told]
           /\ Sink!Next
           /\ \A e \in Effects :
                /\ e \in shown => sink'[e] = Sink!Shown
                /\ e \in gone \ shown => sink'[e] = Sink!Cancelled
                /\ e \notin shown \cup gone => sink'[e] = sink[e]
  <1>1. \A e \in Effects :
          /\ e \in shown => sink'[e] = Sink!Shown
          /\ e \in gone \ shown => sink'[e] = Sink!Cancelled
          /\ e \notin shown \cup gone => sink'[e] = sink[e]
    <2> SUFFICES ASSUME NEW e \in Effects
                 PROVE  /\ e \in shown => sink'[e] = Sink!Shown
                        /\ e \in gone \ shown => sink'[e] = Sink!Cancelled
                        /\ e \notin shown \cup gone => sink'[e] = sink[e]
      OBVIOUS
    <2>1. sink'[e] = CASE e \in shown -> IF sink[e] = Sink!Shown THEN TwiceTold ELSE Sink!Shown
                       [] e \in gone \ shown -> Sink!Cancelled
                       [] OTHER -> sink[e]
      BY DEF Tell
    <2>2. CASE e \in shown
      BY <2>1, <2>2
    <2>3. CASE e \in gone \ shown
      BY <2>1, <2>3
    <2>4. CASE e \notin shown \cup gone
      BY <2>1, <2>4
    <2> QED BY <2>2, <2>3, <2>4
  <1>2. sink' = [e \in Effects |-> sink'[e]]
    BY DEF Tell
  <1>3. \A e \in Effects : sink'[e] \in Sink!Told
    BY <1>1 DEF Sink!Told
  <1>4. sink' \in [Effects -> Sink!Told]
    BY <1>2, <1>3
  <1>5. \A e \in Effects : Sink!Deliver(e) \/ Sink!Cancel(e) \/ sink'[e] = sink[e]
    BY <1>1 DEF Sink!Deliver, Sink!Cancel
  <1> QED BY <1>1, <1>4, <1>5 DEF Sink!Next

(* Where the client's prediction is: a tick within reach and its state.    *)
LEMMA NowTyped ==
    ASSUME AheadTyped
    PROVE  /\ Len(ahead) \in 0..PredictionWindow /\ compared \in 0..LastTick
           /\ PredictedTick \in 0..MaxLabel + LastTick /\ compared <= PredictedTick
           /\ Now \in State
  <1>1. ahead \in Seq(State) /\ Len(ahead) \in Nat /\ Len(ahead) <= PredictionWindow
    BY LenProperties DEF AheadTyped
  <1>2. compared \in 0..LastTick /\ PredictedTick = compared + Len(ahead)
        /\ PredictedTick <= MaxLabel + LastTick
    BY DEF AheadTyped, PredictedTick, PlayerTicks
  <1>3. Now \in State
    <2>1. CASE ahead = <<>>
      BY <2>1 DEF Now, AheadTyped
    <2>2. CASE ahead # <<>>
      <3>1. Len(ahead) \in 1..Len(ahead)
        BY <1>1, <2>2, EmptySeq
      <3> QED BY <1>1, <2>2, <3>1, ElementOfSeq DEF Now
    <2> QED BY <2>1, <2>2
  <1> QED BY <1>1, <1>2, <1>3, LaneNaturals, PredictionNaturals

LEMMA AdvanceStep ==
    ASSUME AheadTyped, EffectInv, LaneTypeOK', MirrorTyped, Advance, started
    PROVE  AheadTyped' /\ EffectInv' /\ Sink!Next
  <1> DEFINE commands == Commanded(labelled', forgotten)
             run == Run(Now, PredictedTick,
                        RoomFor(NewestLabel(labelled'), PredictedTick, Len(ahead)), commands)
             emitted == EmittedBy(Now, PredictedTick, run, commands)
             shown == (emitted \ ledger) \ ConfirmedOnly
  <1>1. /\ ahead' = ahead \o run /\ ledger' = ledger \cup emitted
        /\ Tell(shown, {})
        /\ UNCHANGED <<started, base, compared, wholeBase>>
    BY DEF Advance
  <1>2. commands \in [1..MaxLabel + LastTick -> 0..Commands]
    BY CommandedTyped DEF LaneTypeOK, MirrorTyped
  <1>3. NewestLabel(labelled') \in 0..MaxLabel + LastTick
    BY NewestLabelTyped, LaneNaturals
  <1>4. /\ run \in Seq(State) /\ Len(run) \in Nat
        /\ Len(run) + Len(ahead) <= PredictionWindow
        /\ PredictedTick + Len(run) <= MaxLabel + LastTick
        /\ emitted \subseteq Effects
        /\ \A e \in emitted : e.tick > PredictedTick
    <2> HIDE DEF commands
    <2> QED BY <1>2, <1>3, NowTyped, RanTyped
  <1> HIDE DEF commands, run, emitted
  <1>5. AheadTyped'
    <2>1. ahead \in Seq(State) /\ Len(ahead) \in Nat
      BY NowTyped DEF AheadTyped
    <2>2. ahead' \in Seq(State) /\ Len(ahead') = Len(ahead) + Len(run)
      BY <1>1, <1>4, <2>1, ConcatProperties
    <2>3. PredictedTick' = PredictedTick + Len(run)
      BY <1>1, <1>4, <2>1, <2>2, LaneNaturals DEF PredictedTick, AheadTyped, PlayerTicks
    <2> QED BY <1>1, <1>4, <2>1, <2>2, <2>3 DEF AheadTyped
  <1>6. \A e \in emitted : e.tick > compared
    <2> SUFFICES ASSUME NEW e \in emitted PROVE e.tick > compared
      OBVIOUS
    <2>1. e.tick > PredictedTick /\ e.tick \in Int
      BY <1>4, LaneNaturals DEF Effects
    <2> QED BY <2>1, NowTyped, LaneNaturals
  <1>7. \A e \in Effects : e \in shown => sink[e] # Sink!Shown
    BY <1>6 DEF EffectInv, ShownKnown
  <1>8. /\ sink' \in [Effects -> Sink!Told] /\ Sink!Next
        /\ \A e \in Effects : /\ e \in shown => sink'[e] = Sink!Shown
                              /\ e \notin shown => sink'[e] = sink[e]
    <2> HIDE DEF shown
    <2>1. sink \in [Effects -> Sink!Told]
      BY DEF EffectInv
    <2> QED BY <1>1, <1>7, <2>1, TellKeeps
  <1>9. LedgerAhead'
    BY <1>1, <1>4, <1>6 DEF EffectInv, LedgerAhead
  <1>10. ShownKnown'
    BY <1>1, <1>8 DEF EffectInv, ShownKnown
  <1>11. KnownShown'
    <2> SUFFICES ASSUME NEW e \in ledger' \ ConfirmedOnly PROVE sink'[e] = Sink!Shown
      BY DEF KnownShown
    <2>1. e \in Effects
      BY <1>1, <1>4 DEF EffectInv, LedgerAhead
    <2>2. CASE e \in shown
      BY <2>1, <2>2, <1>8
    <2>3. CASE e \notin shown
      BY <2>1, <2>3, <1>1, <1>8 DEF EffectInv, KnownShown
    <2> QED BY <2>2, <2>3
  <1>12. UnstartedUnheard'
    BY <1>1 DEF UnstartedUnheard
  <1> QED BY <1>5, <1>8, <1>9, <1>10, <1>11, <1>12 DEF EffectInv

-----------------------------------------------------------------------------
(* A state heard.                                                          *)
Hearing == LaneTypeOK /\ StatesTyped /\ MirrorTyped /\ AheadTyped /\ EffectInv

LEMMA StateTyped ==
    ASSUME Hearing, NEW m \in states
    PROVE  /\ m.consumed \in 1..LastTick /\ m.whole \in BOOLEAN
           /\ Staged(m) \subseteq Components
           /\ KnownWith(m) \in State /\ Corrected(m) \in State
           /\ Forgets(m) \in Nat
  <1>1. /\ m.consumed \in 1..LastTick /\ m.whole \in BOOLEAN
        /\ \A c \in DOMAIN m.given : c \in Components /\ m.given[c] \in Values
    BY DEF Hearing, StatesTyped
  <1>2. Staged(m) \subseteq Components /\ \A c \in Staged(m) : m.given[c] \in Values
    BY <1>1 DEF Staged
  <1>3. KnownWith(m) \in State
    BY <1>2 DEF KnownWith, Hearing, MirrorTyped, State
  <1>4. PredictedAt(m) \in State
    <2>1. CASE InHistory(m)
      <3>1. m.consumed - compared \in 1..Len(ahead) /\ ahead \in Seq(State)
        BY <1>1, <2>1, NowTyped, LaneNaturals DEF Hearing, InHistory, PredictedTick, AheadTyped
      <3> QED BY <2>1, <3>1, ElementOfSeq DEF PredictedAt
    <2>2. CASE ~InHistory(m)
      BY <2>2, NowTyped DEF PredictedAt, Hearing
    <2> QED BY <2>1, <2>2
  <1>5. Corrected(m) \in State
    BY <1>3, <1>4 DEF Corrected, State
  <1>6. Forgets(m) \in Nat
    BY <1>1, LaneNaturals DEF Forgets, Greater, Hearing, MirrorTyped
  <1> QED BY <1>1, <1>2, <1>3, <1>5, <1>6

LEMMA StartStep ==
    ASSUME Hearing, NEW m \in states, ~started, Start(m)
    PROVE  AheadTyped' /\ EffectInv' /\ Sink!Next
  <1> DEFINE commands == Commanded(labelled, forgotten)
             run == Run(KnownWith(m), m.consumed, RoomFor(NewestLabel(labelled), m.consumed, 0),
                        commands)
             emitted == EmittedBy(KnownWith(m), m.consumed, run, commands)
             shown == emitted \ ConfirmedOnly
  <1>1. /\ started' = TRUE /\ base' = KnownWith(m) /\ compared' = m.consumed /\ ahead' = run
        /\ ledger' = emitted /\ Tell(shown, {}) /\ wholeBase' = FALSE
    BY DEF Start
  <1>2. commands \in [1..MaxLabel + LastTick -> 0..Commands]
    BY CommandedTyped DEF LaneTypeOK, MirrorTyped, Hearing
  <1>3. NewestLabel(labelled) \in 0..MaxLabel + LastTick /\ m.consumed \in 0..MaxLabel + LastTick
    BY NewestLabelTyped, StateTyped, LaneNaturals
  <1>4. /\ run \in Seq(State) /\ Len(run) \in Nat /\ Len(run) + 0 <= PredictionWindow
        /\ m.consumed + Len(run) <= MaxLabel + LastTick
        /\ emitted \subseteq Effects /\ \A e \in emitted : e.tick > m.consumed
    <2>1. 0 \in 0..PredictionWindow /\ KnownWith(m) \in State
      BY PredictionNaturals, StateTyped
    <2> HIDE DEF commands
    <2> QED BY <1>2, <1>3, <2>1, RanTyped
  <1> HIDE DEF commands, run, emitted
  <1>5. AheadTyped'
    <2>1. base' \in State /\ compared' \in PlayerTicks
      BY <1>1, StateTyped DEF PlayerTicks
    <2>2. PredictedTick' = m.consumed + Len(run)
      BY <1>1 DEF PredictedTick
    <2>3. Len(run) <= PredictionWindow
      BY <1>4, PredictionNaturals
    <2> QED BY <1>1, <1>4, <2>1, <2>2, <2>3 DEF AheadTyped
  <1>6. \A e \in Effects : sink[e] = Sink!Unheard
    BY DEF Hearing, EffectInv, UnstartedUnheard
  <1>7. /\ sink' \in [Effects -> Sink!Told] /\ Sink!Next
        /\ \A e \in Effects : /\ e \in shown => sink'[e] = Sink!Shown
                              /\ e \notin shown => sink'[e] = sink[e]
    <2>1. \A e \in Effects : e \in shown => sink[e] # Sink!Shown
      BY <1>6 DEF Sink!Unheard, Sink!Shown
    <2> HIDE DEF shown
    <2>2. sink \in [Effects -> Sink!Told]
      BY DEF Hearing, EffectInv
    <2> QED BY <1>1, <2>1, <2>2, TellKeeps
  <1>8. LedgerAhead'
    BY <1>1, <1>4 DEF LedgerAhead
  <1>9. ShownKnown'
    BY <1>1, <1>6, <1>7 DEF ShownKnown, Sink!Unheard, Sink!Shown
  <1>10. KnownShown'
    BY <1>1, <1>4, <1>7 DEF KnownShown
  <1>11. UnstartedUnheard'
    BY <1>1 DEF UnstartedUnheard
  <1> QED BY <1>5, <1>7, <1>8, <1>9, <1>10, <1>11 DEF EffectInv

LEMMA ConfirmStep ==
    ASSUME Hearing, NEW m \in states, started, Confirm(m)
    PROVE  AheadTyped' /\ EffectInv' /\ Sink!Next
  <1> DEFINE shown == UpTo(m.consumed) \cap ConfirmedOnly
  <1>1. /\ InHistory(m) /\ base' = Corrected(m) /\ compared' = m.consumed
        /\ ahead' = SubSeq(ahead, m.consumed - compared + 1, Len(ahead))
        /\ ledger' = ledger \ UpTo(m.consumed)
        /\ Tell(shown, {}) /\ wholeBase' = m.whole /\ started' = started
    BY DEF Confirm, Equal
  <1>2. m.consumed \in 1..LastTick /\ compared \in 0..LastTick /\ compared < m.consumed
        /\ m.consumed <= PredictedTick
    BY <1>1, StateTyped, NowTyped DEF InHistory, Hearing
  <1>3. AheadTyped'
    <2>1. ahead \in Seq(State) /\ Len(ahead) \in Nat /\ Len(ahead) <= PredictionWindow
      BY NowTyped DEF Hearing, AheadTyped
    <2>2. \A i \in m.consumed - compared + 1..Len(ahead) : ahead[i] \in State
      <3> SUFFICES ASSUME NEW i \in m.consumed - compared + 1..Len(ahead) PROVE ahead[i] \in State
        OBVIOUS
      <3>1. i \in 1..Len(ahead)
        BY <1>2, <2>1
      <3> QED BY <2>1, <3>1, ElementOfSeq
    <2>3. m.consumed - compared + 1 \in Int /\ Len(ahead) \in Int
      BY <1>2, <2>1
    <2>4. /\ ahead' \in Seq(State)
          /\ Len(ahead') = IF m.consumed - compared + 1 <= Len(ahead)
                           THEN Len(ahead) - (m.consumed - compared + 1) + 1 ELSE 0
      BY <1>1, <2>2, <2>3, SubSeqProperties
    <2>5. Len(ahead') = Len(ahead) - (m.consumed - compared)
      BY <1>2, <2>1, <2>4 DEF PredictedTick
    <2>6. PredictedTick' = PredictedTick /\ Len(ahead') <= PredictionWindow
      BY SMTT(30), <1>1, <1>2, <2>1, <2>5, PredictionNaturals DEF PredictedTick
    <2> QED BY <1>1, <1>2, <2>4, <2>6, StateTyped DEF Hearing, AheadTyped, PlayerTicks
  <1>4. \A e \in Effects : e \in shown => sink[e] # Sink!Shown
    BY DEF Hearing, EffectInv, ShownKnown, LedgerAhead, UpTo
  <1>5. /\ sink' \in [Effects -> Sink!Told] /\ Sink!Next
        /\ \A e \in Effects : /\ e \in shown => sink'[e] = Sink!Shown
                              /\ e \notin shown => sink'[e] = sink[e]
    <2> HIDE DEF shown
    <2>1. sink \in [Effects -> Sink!Told]
      BY DEF Hearing, EffectInv
    <2> QED BY <1>1, <1>4, <2>1, TellKeeps
  <1>6. \A e \in Effects : /\ e.tick \in Int
                           /\ e.tick > m.consumed => e.tick > compared /\ e \notin UpTo(m.consumed)
                           /\ e \in ledger \ UpTo(m.consumed) => e.tick > m.consumed
    BY <1>2, LaneNaturals DEF Effects, UpTo
  <1>7. LedgerAhead'
    BY <1>1, <1>6 DEF Hearing, EffectInv, LedgerAhead
  <1>8. ShownKnown'
    <2> SUFFICES ASSUME NEW e \in Effects, sink'[e] = Sink!Shown, e.tick > m.consumed
                 PROVE  e \in ledger' \ ConfirmedOnly
      BY <1>1 DEF ShownKnown
    <2>1. e \notin UpTo(m.consumed) /\ e.tick > compared
      BY <1>6
    <2>2. sink[e] = Sink!Shown
      BY <1>5, <2>1
    <2> QED BY <1>1, <2>1, <2>2 DEF Hearing, EffectInv, ShownKnown
  <1>9. KnownShown'
    BY <1>1, <1>5 DEF Hearing, EffectInv, KnownShown, LedgerAhead
  <1>10. UnstartedUnheard'
    BY <1>1 DEF UnstartedUnheard
  <1> QED BY <1>3, <1>5, <1>7, <1>8, <1>9, <1>10 DEF EffectInv

LEMMA RollBackStep ==
    ASSUME Hearing, NEW m \in states, started, RollBack(m)
    PROVE  AheadTyped' /\ EffectInv' /\ Sink!Next
  <1> DEFINE commands == Commanded(labelled, Forgets(m))
             through == Greater(PredictedTick, m.consumed)
             run == Run(Corrected(m), m.consumed, RoomFor(through, m.consumed, 0), commands)
             emitted == EmittedBy(Corrected(m), m.consumed, run, commands)
             later == ledger \ UpTo(m.consumed)
             shown == (emitted \ later) \ ConfirmedOnly
             gone == (later \ emitted) \ ConfirmedOnly
  <1>1. /\ InHistory(m) \/ m.consumed > PredictedTick
        /\ base' = Corrected(m) /\ compared' = m.consumed /\ ahead' = run /\ ledger' = emitted
        /\ Tell(shown, gone) /\ wholeBase' = m.whole /\ started' = started
    BY DEF RollBack, TakenBack
  <1>2. m.consumed \in 1..LastTick /\ compared \in 0..LastTick /\ compared < m.consumed
        /\ PredictedTick \in 0..MaxLabel + LastTick
    BY <1>1, StateTyped, NowTyped, LaneNaturals DEF InHistory, Hearing
  <1>3. commands \in [1..MaxLabel + LastTick -> 0..Commands]
    BY CommandedTyped, StateTyped DEF LaneTypeOK, Hearing
  <1>4. /\ run \in Seq(State) /\ Len(run) \in Nat /\ Len(run) + 0 <= PredictionWindow
        /\ m.consumed + Len(run) <= MaxLabel + LastTick
        /\ emitted \subseteq Effects /\ \A e \in emitted : e.tick > m.consumed
    <2>1. 0 \in 0..PredictionWindow /\ Corrected(m) \in State /\ m.consumed \in 0..MaxLabel + LastTick
          /\ through \in 0..MaxLabel + LastTick
      BY <1>2, PredictionNaturals, StateTyped, LaneNaturals DEF Greater
    <2> HIDE DEF commands, through
    <2> QED BY <1>3, <2>1, RanTyped
  <1> HIDE DEF commands, run, emitted
  <1>5. AheadTyped'
    <2>1. base' \in State /\ compared' \in PlayerTicks
      BY <1>1, <1>2, StateTyped DEF PlayerTicks
    <2>2. PredictedTick' = m.consumed + Len(run)
      BY <1>1 DEF PredictedTick
    <2>3. Len(run) <= PredictionWindow
      BY <1>4, PredictionNaturals
    <2> QED BY <1>1, <1>4, <2>1, <2>2, <2>3, StateTyped DEF AheadTyped
  <1>6. \A e \in Effects : /\ e.tick \in Int
                           /\ e.tick > m.consumed => e.tick > compared /\ e \notin UpTo(m.consumed)
                           /\ e \in later => e.tick > m.consumed
    BY <1>2, LaneNaturals DEF Effects, UpTo
  <1>7. \A e \in Effects : e \in shown => sink[e] # Sink!Shown
    <2> SUFFICES ASSUME NEW e \in Effects, e \in shown, sink[e] = Sink!Shown PROVE FALSE
      OBVIOUS
    <2>1. e.tick > compared /\ e \notin UpTo(m.consumed)
      BY <1>4, <1>6
    <2>2. e \in ledger
      BY <2>1 DEF Hearing, EffectInv, ShownKnown
    <2> QED BY <2>1, <2>2
  <1>8. \A e \in Effects : e \in gone \ shown => sink[e] = Sink!Shown /\ e \notin ConfirmedOnly
    BY DEF Hearing, EffectInv, KnownShown
  <1>9. /\ sink' \in [Effects -> Sink!Told] /\ Sink!Next
        /\ \A e \in Effects : /\ e \in shown => sink'[e] = Sink!Shown
                              /\ e \in gone \ shown => sink'[e] = Sink!Cancelled
                              /\ e \notin shown \cup gone => sink'[e] = sink[e]
    <2> HIDE DEF shown, gone
    <2>1. sink \in [Effects -> Sink!Told]
      BY DEF Hearing, EffectInv
    <2> QED BY <1>1, <1>7, <1>8, <2>1, TellKeeps
  <1>10. LedgerAhead'
    BY <1>1, <1>4 DEF LedgerAhead
  <1>11. ShownKnown'
    <2> SUFFICES ASSUME NEW e \in Effects, sink'[e] = Sink!Shown, e.tick > m.consumed
                 PROVE  e \in emitted \ ConfirmedOnly
      BY <1>1 DEF ShownKnown
    <2>1. CASE e \in shown
      BY <2>1
    <2>2. CASE e \in gone \ shown
      BY <2>2, <1>9 DEF Sink!Shown, Sink!Cancelled
    <2>3. CASE e \notin shown \cup gone
      <3>1. sink[e] = Sink!Shown
        BY <2>3, <1>9
      <3>2. e \in ledger \ ConfirmedOnly /\ e \notin UpTo(m.consumed)
        BY <3>1, <1>6 DEF Hearing, EffectInv, ShownKnown
      <3> QED BY <2>3, <3>2
    <2> QED BY <2>1, <2>2, <2>3
  <1>12. KnownShown'
    <2> SUFFICES ASSUME NEW e \in emitted \ ConfirmedOnly PROVE sink'[e] = Sink!Shown
      BY <1>1 DEF KnownShown
    <2>1. e \in Effects
      BY <1>4
    <2>2. CASE e \in shown
      BY <2>1, <2>2, <1>9
    <2>3. CASE e \notin shown
      <3>1. e \in ledger \ ConfirmedOnly /\ e \notin gone
        BY <2>3
      <3> QED BY <2>1, <2>3, <3>1, <1>9 DEF Hearing, EffectInv, KnownShown
    <2> QED BY <2>2, <2>3
  <1>13. UnstartedUnheard'
    BY <1>1 DEF UnstartedUnheard
  <1> QED BY <1>5, <1>9, <1>10, <1>11, <1>12, <1>13 DEF EffectInv

(* Where prediction and what it tells are left alone.                      *)
LEMMA LeftAlone ==
    ASSUME AheadTyped, EffectInv, UNCHANGED predicted
    PROVE  AheadTyped' /\ EffectInv' /\ UNCHANGED sink
  <1>1. UNCHANGED <<started, base, compared, ahead, ledger, sink, wholeBase>>
    BY DEF predicted
  <1>2. AheadTyped'
    BY <1>1 DEF AheadTyped, PredictedTick
  <1>3. EffectInv'
    BY <1>1 DEF EffectInv, LedgerAhead, ShownKnown, KnownShown, UnstartedUnheard
  <1> QED BY <1>1, <1>2, <1>3

LEMMA OnStateStep ==
    ASSUME LaneTypeOK, PredictionInv, NEW m \in states, OnState(m)
    PROVE  PredictionInv' /\ (Sink!Next \/ UNCHANGED sink)
  <1>1. Hearing
    BY DEF Hearing, PredictionInv
  <1>2. UNCHANGED <<serverPlayer, nextInput>>
    BY DEF OnState, HearConsumed, serverInput
  <1>3. ServerTyped' /\ StatesTyped'
    BY <1>2 DEF PredictionInv, ServerTyped, StatesTyped, serverPlayer
  <1>4. MirrorTyped'
    <2>1. appliedAt' \in [Components -> PlayerTicks]
      BY <1>1, StateTyped DEF OnState, PredictionInv, MirrorTyped, PlayerTicks
    <2>2. known' \in State
      BY <1>1, StateTyped DEF OnState
    <2>3. forgotten' \in Nat
      BY <1>1, StateTyped DEF OnState, Authoritative, Start, NotYet, Passed, Confirm, RollBack,
                              Hearing, MirrorTyped
    <2> QED BY <2>1, <2>2, <2>3 DEF MirrorTyped
  <1>5. AheadTyped' /\ EffectInv' /\ (Sink!Next \/ UNCHANGED sink)
    <2>1. CASE UNCHANGED predicted
      BY <2>1, LeftAlone DEF PredictionInv
    <2>2. CASE ~UNCHANGED predicted
      <3>1. Authoritative(m)
        BY <2>2 DEF OnState
      <3>2. CASE started
        BY <1>1, <2>2, <3>1, <3>2, ConfirmStep, RollBackStep DEF Authoritative, Passed
      <3>3. CASE ~started
        BY <1>1, <2>2, <3>1, <3>3, StartStep DEF Authoritative, NotYet
      <3> QED BY <3>2, <3>3
    <2> QED BY <2>1, <2>2
  <1> QED BY <1>3, <1>4, <1>5 DEF PredictionInv

-----------------------------------------------------------------------------
(* The server's player.                                                    *)
LEMMA OutcomeTyped ==
    ASSUME LaneInv, PredictionInv, Play,
           NEW state \in Outcomes(Step(Truth(nextInput - 1), Plays.command))
    PROVE  /\ state \in State
           /\ state # Step(Truth(nextInput - 1), Plays.command) => shoves < MaxShoves
  <1> DEFINE stepped == Step(Truth(nextInput - 1), Plays.command)
  <1>1. Truth(nextInput - 1) \in State
    <2>1. truth \in Seq(State) /\ Len(truth) = nextInput - 1 /\ nextInput \in 1..LastTick
      BY PlaysStep DEF PredictionInv, ServerTyped
    <2>2. CASE nextInput - 1 = 0
      BY <2>2, GameValues DEF Truth, State
    <2>3. CASE nextInput - 1 # 0
      <3>1. nextInput - 1 \in 1..Len(truth)
        BY <2>1, <2>3, LaneNaturals
      <3> QED BY <2>1, <2>3, <3>1, ElementOfSeq DEF Truth
    <2> QED BY <2>2, <2>3
  <1>2. Plays.command \in 0..Commands
    BY PlaysStep DEF Played
  <1>3. stepped \in State
    BY <1>1, <1>2, GameSteps
  <1>4. state = stepped \/ (shoves < MaxShoves /\ state \in Shoved(stepped))
    BY DEF Outcomes
  <1> HIDE DEF stepped
  <1>5. state \in State
    BY <1>3, <1>4, WorldShoves
  <1> QED BY <1>4, <1>5 DEF stepped

LEMMA PPlayStep ==
    ASSUME LaneInv, PredictionInv, PPlay
    PROVE  ServerTyped' /\ StatesTyped'
  <1>1. Play /\ UNCHANGED ackedAt
    BY DEF PPlay
  <1>2. PICK state \in Outcomes(Step(Truth(nextInput - 1), Plays.command)) :
          /\ truth' = Append(truth, state)
          /\ shoves' = IF state = Step(Truth(nextInput - 1), Plays.command) THEN shoves ELSE shoves + 1
          /\ Publish(state)
    BY DEF PPlay
  <1>3. state \in State /\ (state # Step(Truth(nextInput - 1), Plays.command) => shoves < MaxShoves)
    BY <1>1, OutcomeTyped
  <1>4. nextInput \in 1..LastTick /\ nextInput' = nextInput + 1
    BY <1>1, PlaysStep DEF Play, ApplyInputs
  <1> DEFINE pending == {c \in Components : ~Holding(c, state[c])}
             due == {c \in pending : ~SentLately(c, state[c])}
  <1>5. \E parts \in IF pending = {} THEN {IF heardInput THEN {{}} ELSE {}} ELSE Shares(due) :
            /\ states' = states \cup {Datagram(state, part, pending) : part \in parts}
            /\ lastSent' = [c \in Components |-> IF c \in due THEN state[c] ELSE lastSent[c]]
            /\ changedAt' = [c \in Components |->
                               IF c \in due /\ (sentAt[c] = Never \/ lastSent[c] # state[c])
                               THEN nextInput ELSE changedAt[c]]
            /\ sentAt' = [c \in Components |-> IF c \in due THEN nextInput ELSE sentAt[c]]
    BY <1>2, Zenon DEF Publish
  <1>6. due \subseteq Components
    OBVIOUS
  <1> HIDE DEF pending, due
  <1>7. PICK parts \in IF pending = {} THEN {IF heardInput THEN {{}} ELSE {}} ELSE Shares(due) :
            states' = states \cup {Datagram(state, part, pending) : part \in parts}
    BY <1>5
  <1>8. \A part \in parts : part \subseteq Components
    <2>1. CASE pending = {}
      BY <1>7, <2>1
    <2>2. CASE pending # {}
      BY <1>6, <1>7, <2>2 DEF Shares
    <2> QED BY <2>1, <2>2
  <1>9. ServerTyped'
    <2>1. truth' \in Seq(State) /\ Len(truth') = nextInput' - 1
      BY <1>2, <1>3, <1>4, AppendProperties DEF PredictionInv, ServerTyped
    <2>2. shoves' \in 0..MaxShoves
      BY <1>2, <1>3, PredictionNaturals DEF PredictionInv, ServerTyped
    <2>3. lastSent' \in State
      BY <1>3, <1>5 DEF State, PredictionInv, ServerTyped
    <2>4. changedAt' \in [Components -> PlayerTicks] /\ sentAt' \in [Components -> PlayerTicks \cup {Never}]
      <3>1. nextInput \in PlayerTicks
        BY <1>4 DEF PlayerTicks
      <3> QED BY <3>1, <1>5 DEF PredictionInv, ServerTyped
    <2>5. ackedAt' \in [Components -> PlayerTicks \cup {Never}]
      BY <1>1 DEF PredictionInv, ServerTyped
    <2> QED BY <2>1, <2>2, <2>3, <2>4, <2>5 DEF ServerTyped
  <1>10. StatesTyped'
    <2> SUFFICES ASSUME NEW m \in states'
                 PROVE  /\ m.consumed \in 1..LastTick /\ m.whole \in BOOLEAN
                        /\ \A c \in DOMAIN m.given : c \in Components /\ m.given[c] \in Values
      BY DEF StatesTyped
    <2>1. CASE m \in states
      BY <2>1 DEF PredictionInv, StatesTyped
    <2>2. CASE m \notin states
      <3>1. PICK part \in parts : m = Datagram(state, part, pending)
        BY <1>7, <2>2
      <3>2. part \subseteq Components
        BY <1>8
      <3>3. /\ m.consumed = nextInput /\ m.given = [c \in part |-> state[c]]
            /\ m.whole = (part = pending)
        BY <3>1 DEF Datagram
      <3>4. \A c \in part : state[c] \in Values
        BY <3>2, <1>3 DEF State
      <3> QED BY <3>2, <3>3, <3>4, <1>4
    <2> QED BY <2>1, <2>2
  <1> QED BY <1>9, <1>10

-----------------------------------------------------------------------------
(* Together.                                                               *)
LEMMA PredictionInits == Init => PredictionInv /\ Sink!Init
  <1> SUFFICES ASSUME Init PROVE PredictionInv /\ Sink!Init
    OBVIOUS
  <1>1. [c \in Components |-> Zero] \in State /\ 0 \in PlayerTicks
    BY GameValues, LaneNaturals DEF State, PlayerTicks
  <1>2. nextInput = 1 /\ <<>> \in Seq(State) /\ Len(<<>>) = 0
    BY DEF Init, LaneInit
  <1>3. ServerTyped
    BY <1>1, <1>2, PredictionNaturals DEF Init, ServerTyped
  <1>4. StatesTyped /\ MirrorTyped
    BY <1>1 DEF Init, StatesTyped, MirrorTyped
  <1>5. AheadTyped
    <2>1. base \in State /\ compared = 0 /\ compared \in PlayerTicks /\ ahead = <<>>
      BY <1>1 DEF Init
    <2>2. started \in BOOLEAN /\ wholeBase \in BOOLEAN
      BY DEF Init
    <2>3. Len(ahead) <= PredictionWindow /\ PredictedTick <= MaxLabel + LastTick
      BY <1>2, <2>1, PredictionNaturals, LaneNaturals DEF PredictedTick
    <2> QED BY <1>2, <2>1, <2>2, <2>3 DEF AheadTyped
  <1>6. EffectInv
    BY DEF Init, EffectInv, LedgerAhead, ShownKnown, KnownShown, UnstartedUnheard, Sink!Told,
           Sink!Unheard, Sink!Shown
  <1>7. Sink!Init
    BY DEF Init, Sink!Init
  <1> QED BY <1>3, <1>4, <1>5, <1>6, <1>7 DEF PredictionInv

LEMMA PredictionSteps ==
    ASSUME LaneInv, LaneInv', PredictionInv, [Next]_vars
    PROVE  PredictionInv' /\ (Sink!Next \/ UNCHANGED sink)
  <1>1. ASSUME UNCHANGED <<serverPlayer, nextInput>> PROVE ServerTyped' /\ StatesTyped'
    BY <1>1 DEF PredictionInv, ServerTyped, StatesTyped, serverPlayer
  <1>2. ASSUME UNCHANGED mirror PROVE MirrorTyped'
    BY <1>2 DEF PredictionInv, MirrorTyped, mirror
  <1>3. ASSUME UNCHANGED predicted PROVE AheadTyped' /\ EffectInv' /\ UNCHANGED sink
    BY <1>3, LeftAlone DEF PredictionInv
  <1>4. CASE PSample
    <2>1. UNCHANGED <<serverPlayer, mirror, nextInput>>
      BY <1>4 DEF PSample, Sample, serverInput
    <2>2. CASE started /\ nextLabel' # nextLabel
      <3>1. Advance
        BY <1>4, <2>2 DEF PSample
      <3>2. AheadTyped' /\ EffectInv' /\ Sink!Next
        BY <2>2, <3>1, AdvanceStep DEF PredictionInv, LaneInv
      <3> QED BY <1>1, <1>2, <2>1, <3>2 DEF PredictionInv
    <2>3. CASE ~(started /\ nextLabel' # nextLabel)
      BY <1>1, <1>2, <1>3, <1>4, <2>1, <2>3 DEF PSample, PredictionInv
    <2> QED BY <2>2, <2>3
  <1>5. CASE PSendWindow
    BY <1>1, <1>2, <1>3, <1>5 DEF PSendWindow, SendWindow, serverInput, PredictionInv
  <1>6. ASSUME NEW pace \in paces, POnPace(pace) PROVE PredictionInv' /\ (Sink!Next \/ UNCHANGED sink)
    BY <1>1, <1>2, <1>3, <1>6 DEF POnPace, OnPace, serverInput, PredictionInv
  <1>7. ASSUME NEW w \in windows, PHear(w) PROVE PredictionInv' /\ (Sink!Next \/ UNCHANGED sink)
    BY <1>1, <1>2, <1>3, <1>7 DEF PHear, Hear, PredictionInv
  <1>8. CASE PPlay
    BY <1>2, <1>3, <1>8, PPlayStep DEF PPlay, PredictionInv
  <1>9. ASSUME NEW c \in Components, AckArrives(c) PROVE PredictionInv' /\ (Sink!Next \/ UNCHANGED sink)
    <2>1. ackedAt' \in [Components -> PlayerTicks \cup {Never}]
      BY <1>9 DEF AckArrives, PredictionInv, ServerTyped, MirrorTyped
    <2>2. UNCHANGED <<truth, shoves, lastSent, sentAt, changedAt, states, predicted, mirror, nextInput>>
      BY <1>9 DEF AckArrives, laneVars
    <2>3. ServerTyped' /\ StatesTyped'
      BY <2>1, <2>2 DEF PredictionInv, ServerTyped, StatesTyped
    <2> QED BY <1>2, <1>3, <2>2, <2>3 DEF PredictionInv
  <1>10. ASSUME NEW m \in states, OnState(m) PROVE PredictionInv' /\ (Sink!Next \/ UNCHANGED sink)
    BY <1>10, OnStateStep DEF LaneInv
  <1>11. CASE UNCHANGED vars
    BY <1>1, <1>2, <1>3, <1>11 DEF vars, laneVars, PredictionInv
  <1> QED BY <1>4, <1>5, <1>6, <1>7, <1>8, <1>9, <1>10, <1>11 DEF Next

LEMMA LaneHolds == Spec => []LaneInv
  BY RunsLane, LaneInvariant, PTL

LEMMA PredictionHolds == Spec => []PredictionInv
  BY LaneHolds, PredictionInits, PredictionSteps, PTL DEF Spec

(* Prediction keeps its types for every game: nothing it runs, corrects or *)
(* confirms leaves the states of the game, the window it may run ahead, or *)
(* tells of an effect twice.                                               *)
THEOREM PredictionTypes == Spec => []TypeOK
  <1>1. LaneInv /\ PredictionInv => TypeOK
    BY LenProperties DEF LaneInv, PredictionInv, ServerTyped, MirrorTyped, AheadTyped, EffectInv,
                         LedgerAhead, TypeOK
  <1> QED BY <1>1, LaneHolds, PredictionHolds, PTL

(* Presentation hears of effects what module EffectSink promises: each is  *)
(* shown once, over any rollbacks and resimulations, taken back only while *)
(* it is shown, and never when it was to wait for its confirmation.        *)
THEOREM SinkIsServed == Spec => EffectsOnce
  <1>1. LaneInv /\ LaneInv' /\ PredictionInv /\ [Next]_vars => [Sink!Next]_sink
    BY PredictionSteps
  <1> QED BY <1>1, LaneHolds, PredictionHolds, PredictionInits, PTL DEF Spec, EffectsOnce, Sink!Spec

-----------------------------------------------------------------------------
(* Holding alike.                                                          *)

(* What each tick was played with goes back to the last command that came  *)
(* before it: held for HoldLast ticks, then let go.                        *)
Since(seq, f, t) ==
    /\ f \in 1..t
    /\ seq[f].kind = "fresh"
    /\ \A u \in f + 1..t : seq[u].kind # "fresh"
NoneCame(seq, t) == \A u \in 1..t : seq[u].kind # "fresh"
FromLast(seq, t) ==
    \/ NoneCame(seq, t) /\ seq[t].command = Neutral
    \/ \E f \in 1..t :
         /\ Since(seq, f, t)
         /\ seq[t].command = IF t - f <= HoldLast THEN seq[f].command ELSE Neutral
HoldingOn ==
    \/ NoneCame(played, Len(played)) /\ lastCommand = Neutral
    \/ \E f \in 1..Len(played) :
         /\ Since(played, f, Len(played))
         /\ lastCommand = played[f].command /\ lastCommand # Neutral
         /\ held = Lesser(Len(played) - f, HoldLast)
HoldsOn == HoldingOn /\ \A t \in 1..Len(played) : FromLast(played, t)

(* A tick played stays as it was played.                                   *)
LEMMA FromLastStays ==
    ASSUME NEW one, NEW other, NEW n \in Nat, \A u \in 1..n : other[u] = one[u],
           NEW t \in 1..n, FromLast(one, t)
    PROVE  FromLast(other, t)
  <1>1. other[t] = one[t] /\ \A u \in 1..t : other[u] = one[u]
    OBVIOUS
  <1>2. CASE NoneCame(one, t) /\ one[t].command = Neutral
    BY <1>1, <1>2 DEF FromLast, NoneCame
  <1>3. ASSUME NEW f \in 1..t, Since(one, f, t),
               one[t].command = IF t - f <= HoldLast THEN one[f].command ELSE Neutral
        PROVE  FromLast(other, t)
    <2>1. \A u \in f + 1..t : u \in 1..t
      OBVIOUS
    <2>2. Since(other, f, t)
      BY <1>1, <1>3, <2>1 DEF Since
    <2> QED BY <1>1, <1>3, <2>2 DEF FromLast
  <1> QED BY <1>2, <1>3 DEF FromLast

(* The tick that is played next follows the rule too.                      *)
LEMMA HoldsOnPlay ==
    ASSUME LaneInv, HoldsOn, Play
    PROVE  HoldsOn'
  <1> DEFINE n == Len(played)
  <1>1. n \in Nat /\ Len(played') = n + 1 /\ played'[n + 1] = Plays
        /\ (\A t \in 1..n : played'[t] = played[t]) /\ held \in 0..HoldLast
    BY PlaysStep
  <1>2. /\ lastCommand' = IF Fresh THEN Come.command ELSE lastCommand
        /\ held' = IF Fresh THEN 0 ELSE IF Holds THEN held + 1 ELSE held
    BY DEF Play, ApplyInputs
  <1>3. /\ HoldingOn
        /\ \A t \in 1..n : FromLast(played, t)
    BY DEF HoldsOn
  <1>4. \A t \in 1..n : FromLast(played', t)
    BY <1>1, <1>3, FromLastStays
  <1>5. HoldingOn' /\ FromLast(played', n + 1)
    <2>1. CASE Fresh
      <3>1. Plays.kind = "fresh" /\ Plays.command = Come.command /\ Come.command # Neutral
        BY <2>1 DEF Plays, Holds, Fresh
      <3> HIDE DEF n
      <3>2. Since(played', n + 1, n + 1)
        BY <1>1, <3>1 DEF Since
      <3>3. Lesser(n + 1 - (n + 1), HoldLast) = 0 /\ n + 1 - (n + 1) <= HoldLast
        BY <1>1, LaneNaturals DEF Lesser
      <3>4. HoldingOn'
        BY <1>1, <1>2, <2>1, <3>1, <3>2, <3>3 DEF HoldingOn
      <3>5. FromLast(played', n + 1)
        BY <1>1, <3>1, <3>2, <3>3 DEF FromLast
      <3> QED BY <3>4, <3>5
    <2>2. CASE ~Fresh /\ NoneCame(played, n) /\ lastCommand = Neutral
      <3>1. ~Holds /\ Plays.kind = "neutral" /\ Plays.command = Neutral
        BY <2>2 DEF Plays, Holds
      <3> HIDE DEF n
      <3>2. NoneCame(played', n + 1)
        <4> SUFFICES ASSUME NEW u \in 1..n + 1 PROVE played'[u].kind # "fresh"
          BY DEF NoneCame
        <4>1. CASE u = n + 1
          BY <1>1, <3>1, <4>1
        <4>2. CASE u # n + 1
          <5>1. u \in 1..n
            BY <1>1, <4>2
          <5> QED BY <1>1, <2>2, <5>1 DEF NoneCame
        <4> QED BY <4>1, <4>2
      <3>3. HoldingOn'
        BY <1>1, <1>2, <2>2, <3>2 DEF HoldingOn
      <3>4. FromLast(played', n + 1)
        BY <1>1, <3>1, <3>2 DEF FromLast
      <3> QED BY <3>3, <3>4
    <2>3. ASSUME ~Fresh,
                 NEW f \in 1..n, Since(played, f, n),
                 lastCommand = played[f].command, lastCommand # Neutral,
                 held = Lesser(n - f, HoldLast)
          PROVE  HoldingOn' /\ FromLast(played', n + 1)
      <3>1. Plays.kind # "fresh"
            /\ Plays.command = (IF Holds THEN lastCommand ELSE Neutral)
            /\ (Holds <=> held < HoldLast)
        BY <2>3 DEF Plays, Holds
      <3>2. lastCommand' = lastCommand /\ held' = IF Holds THEN held + 1 ELSE held
        BY <1>2, <2>3
      <3> HIDE DEF n
      <3>3. f \in 1..n + 1 /\ played'[f] = played[f]
        BY <1>1, <2>3
      <3>4. Since(played', f, n + 1)
        <4>1. \A u \in f + 1..n + 1 : played'[u].kind # "fresh"
          <5> SUFFICES ASSUME NEW u \in f + 1..n + 1 PROVE played'[u].kind # "fresh"
            OBVIOUS
          <5>1. CASE u = n + 1
            BY <1>1, <3>1, <5>1
          <5>2. CASE u # n + 1
            <6>1. u \in 1..n /\ u \in f + 1..n
              BY <1>1, <5>2
            <6> QED BY <1>1, <2>3, <6>1 DEF Since
          <5> QED BY <5>1, <5>2
        <4> QED BY <2>3, <3>3, <4>1 DEF Since
      <3>5. held' = Lesser(n + 1 - f, HoldLast) /\ (Holds <=> n + 1 - f <= HoldLast)
        BY <1>1, <2>3, <3>1, <3>2, LaneNaturals DEF Lesser
      <3>6. HoldingOn'
        BY <1>1, <2>3, <3>2, <3>3, <3>4, <3>5 DEF HoldingOn
      <3>7. FromLast(played', n + 1)
        BY <1>1, <2>3, <3>1, <3>3, <3>4, <3>5 DEF FromLast
      <3> QED BY <3>6, <3>7
    <2> QED BY <1>3, <2>1, <2>2, <2>3 DEF HoldingOn
  <1>6. \A t \in 1..n + 1 : FromLast(played', t)
    <2> SUFFICES ASSUME NEW t \in 1..n + 1 PROVE FromLast(played', t)
      OBVIOUS
    <2> HIDE DEF n
    <2>1. t \in 1..n \/ t = n + 1
      BY <1>1
    <2> QED BY <1>4, <1>5, <2>1
  <1> QED BY <1>1, <1>5, <1>6 DEF HoldsOn

(* No other step of the lane plays a tick.                                 *)
LEMMA HoldsOnSteps ==
    ASSUME LaneInv, HoldsOn, [LaneNext]_laneVars
    PROVE  HoldsOn'
  <1>1. ASSUME UNCHANGED <<played, lastCommand, held>> PROVE HoldsOn'
    BY <1>1 DEF HoldsOn, HoldingOn
  <1>2. CASE Play
    BY <1>2, HoldsOnPlay
  <1>3. CASE Sample
    BY <1>1, <1>3 DEF Sample, serverInput
  <1>4. CASE SendWindow
    BY <1>1, <1>4 DEF SendWindow, serverInput
  <1>5. ASSUME NEW pace \in paces, OnPace(pace) PROVE HoldsOn'
    BY <1>1, <1>5 DEF OnPace, serverInput
  <1>6. ASSUME NEW consumed \in 1..LastTick, HearConsumed(consumed) PROVE HoldsOn'
    BY <1>1, <1>6 DEF HearConsumed, serverInput
  <1>7. ASSUME NEW w \in windows, Hear(w) PROVE HoldsOn'
    BY <1>1, <1>7 DEF Hear
  <1>8. CASE UNCHANGED laneVars
    BY <1>1, <1>8 DEF laneVars
  <1> QED BY <1>2, <1>3, <1>4, <1>5, <1>6, <1>7, <1>8 DEF LaneNext

(* So the rule holds over the whole of the lane's life.                    *)
LEMMA HoldsOnAlways == LaneSpec => []HoldsOn
  <1>1. LaneInit => HoldsOn
    <2> SUFFICES ASSUME LaneInit PROVE HoldsOn
      OBVIOUS
    <2>1. Len(played) = 0 /\ lastCommand = Neutral
      BY DEF LaneInit
    <2> QED BY <2>1 DEF HoldsOn, HoldingOn, NoneCame
  <1> QED BY <1>1, LaneInvariant, HoldsOnSteps, PTL DEF LaneSpec

(* What the client takes the server to play follows the same rule over the *)
(* labels.                                                                 *)
LEMMA HoldsOnAlike == LaneTypeOK /\ HoldsOn => HoldsAlike
  <1> SUFFICES ASSUME LaneTypeOK, HoldsOn,
                      NEW t \in 1..Len(played),
                      InTime(t),
                      \A s \in 1..t : s \in Ticks /\ labelled[s] # Neutral => played[s].kind = "fresh"
               PROVE  played[t].command = CommandFor(labelled, 0, t)
    BY DEF HoldsAlike
  <1> DEFINE to == LabelsTo(labelled, 0, t)
  <1>1. Len(played) \in Nat /\ t \in Nat /\ t >= 1
    BY DEF LaneTypeOK
  <1>2. \A s : s \in to <=> s \in 1..t /\ s \in Ticks /\ labelled[s] # Neutral
    BY <1>1, LaneNaturals DEF LabelsTo, Ticks
  <1>3. \A s : s \in to <=> s \in 1..t /\ played[s].kind = "fresh"
    BY <1>2 DEF InTime
  <1>4. \A s \in to : labelled[s] = played[s].command
    BY <1>2, <1>3 DEF InTime
  <1>5. to \in SUBSET Ticks
    BY <1>2
  <1>6. FromLast(played, t)
    BY DEF HoldsOn
  <1> HIDE DEF to
  <1>7. CASE NoneCame(played, t) /\ played[t].command = Neutral
    <2>1. to = {}
      BY <1>3, <1>7 DEF NoneCame
    <2> QED BY <1>7, <2>1 DEF CommandFor, to
  <1>8. ASSUME NEW f \in 1..t, Since(played, f, t),
               played[t].command = IF t - f <= HoldLast THEN played[f].command ELSE Neutral
        PROVE  played[t].command = CommandFor(labelled, 0, t)
    <2>1. f \in to
      BY <1>3, <1>8 DEF Since
    <2>2. Latest(to) \in to /\ f <= Latest(to)
      BY <1>5, <2>1, LatestIsLast
    <2>3. Latest(to) \in 1..t /\ Latest(to) \notin f + 1..t
      BY <1>3, <1>8, <2>2 DEF Since
    <2>4. Latest(to) = f
      BY <1>1, <2>2, <2>3
    <2> QED BY <1>4, <1>8, <2>1, <2>4 DEF CommandFor, to
  <1> QED BY <1>6, <1>7, <1>8 DEF FromLast

(* When every command came in time, the client takes the server to play at *)
(* each tick what it did.                                                  *)
THEOREM PlayedAsTaken == Spec => []HoldsAlike
  <1>1. LaneInv => LaneTypeOK
    BY DEF LaneInv
  <1> QED BY <1>1, RunsLane, LaneHolds, HoldsOnAlways, HoldsOnAlike, PTL

-----------------------------------------------------------------------------
(* What the ticks ahead emit.                                              *)

(* How the labels may change in a step: none, or the next tick's is given. *)
LabelsOnward ==
    /\ nextLabel \in Nat /\ nextLabel' \in Nat /\ nextLabel <= nextLabel'
    /\ \/ labelled' = labelled
       \/ nextLabel < nextLabel' /\ \A s \in Ticks : s # nextLabel => labelled'[s] = labelled[s]

(* Every step of the lane leaves what was labelled alone.                  *)
LEMMA LabelsGoOn ==
    ASSUME LaneTypeOK, LaneTypeOK', [LaneNext]_laneVars
    PROVE  LabelsOnward
  <1>1. nextLabel \in Nat /\ nextLabel' \in Nat
    BY LaneNaturals DEF LaneTypeOK
  <1>2. ASSUME UNCHANGED <<nextLabel, labelled>> PROVE LabelsOnward
    BY <1>1, <1>2 DEF LabelsOnward
  <1>3. CASE Sample
    <2>1. PICK k \in 0..Len(unconsumed) : Withhold(After(k)) \/ Label(After(k))
      BY <1>3 DEF Sample
    <2>2. CASE Withhold(After(k))
      BY <1>2, <2>2 DEF Withhold
    <2>3. CASE Label(After(k))
      <3>1. nextLabel' = nextLabel + 1 /\ labelled' = [labelled EXCEPT ![nextLabel] = samples + 1]
        BY <2>3 DEF Label
      <3>2. \A s \in Ticks : s # nextLabel => labelled'[s] = labelled[s]
        BY <3>1 DEF LaneTypeOK
      <3>3. nextLabel < nextLabel'
        BY <1>1, <3>1
      <3> QED BY <1>1, <3>2, <3>3 DEF LabelsOnward
    <2> QED BY <2>1, <2>2, <2>3
  <1>4. ASSUME NEW pace \in paces, OnPace(pace) PROVE LabelsOnward
    <2>1. UNCHANGED labelled
      BY <1>4 DEF OnPace
    <2>2. nextLabel <= nextLabel'
      <3>1. CASE PassOver(pace)
        BY <1>1, <3>1 DEF PassOver
      <3>2. CASE FollowPace(pace)
        <4>1. CASE JumpsFor(pace.lead)
          <5>1. Jump(pace.lead) \in Int /\ Jump(pace.lead) >= 0
            <6>1. pace.lead \in Int /\ Room \in Int /\ Room >= 1
              BY LaneNaturals DEF LaneTypeOK, Lead, NoLead, Room, Greater
            <6>2. TargetLead - pace.lead \in Int /\ TargetLead - pace.lead >= 0
              BY <4>1, <6>1, LaneNaturals DEF JumpsFor
            <6> QED BY <6>1, <6>2 DEF Jump, Lesser
          <5>2. nextLabel' = nextLabel + Jump(pace.lead)
            BY <3>2, <4>1 DEF FollowPace
          <5> QED BY <1>1, <5>1, <5>2
        <4>2. CASE ~JumpsFor(pace.lead)
          BY <1>1, <3>2, <4>2 DEF FollowPace
        <4> QED BY <4>1, <4>2
      <3> QED BY <1>4, <3>1, <3>2 DEF OnPace
    <2> QED BY <1>1, <2>1, <2>2 DEF LabelsOnward
  <1>5. CASE SendWindow
    BY <1>2, <1>5 DEF SendWindow, clientInput
  <1>6. ASSUME NEW consumed \in 1..LastTick, HearConsumed(consumed) PROVE LabelsOnward
    BY <1>2, <1>6 DEF HearConsumed, clientInput
  <1>7. ASSUME NEW w \in windows, Hear(w) PROVE LabelsOnward
    BY <1>2, <1>7 DEF Hear, clientInput
  <1>8. CASE Play
    <2>1. UNCHANGED <<nextLabel, labelled>>
      BY <1>8 DEF Play, clientInput
    <2> QED BY <1>2, <2>1
  <1>9. CASE UNCHANGED laneVars
    BY <1>2, <1>9 DEF laneVars
  <1> QED BY <1>3, <1>4, <1>5, <1>6, <1>7, <1>8, <1>9 DEF LaneNext

(* No tick from the next to label on has a label.                          *)
LEMMA NewestLabelBelow ==
    ASSUME NEW labels, NEW next \in Nat, next >= 1,
           \A t \in Ticks : t >= next => labels[t] = Neutral
    PROVE  NewestLabel(labels) < next
  <1> DEFINE to == LabelsTo(labels, 0, MaxLabel)
  <1>1. to \in SUBSET Ticks /\ \A t \in to : labels[t] # Neutral
    BY DEF LabelsTo
  <1> HIDE DEF to
  <1>2. CASE to # {}
    <2>1. Latest(to) \in to /\ Latest(to) \in Ticks
      BY <1>1, <1>2, LatestIsLast
    <2>2. ~(Latest(to) >= next)
      BY <1>1, <2>1
    <2>3. Latest(to) \in Nat
      BY <2>1, LaneNaturals DEF Ticks
    <2> QED BY <1>2, <2>2, <2>3 DEF NewestLabel, to
  <1>3. CASE to = {}
    BY <1>3 DEF NewestLabel, to
  <1> QED BY <1>2, <1>3

(* A label given later does not change what a tick before it was taken to  *)
(* be played with.                                                         *)
LEMMA TakenStays ==
    ASSUME NEW labels, NEW others, NEW past, NEW t \in Nat,
           \A s \in Ticks : s <= t => others[s] = labels[s]
    PROVE  CommandFor(others, past, t) = CommandFor(labels, past, t)
  <1>1. LabelsTo(others, past, t) = LabelsTo(labels, past, t)
    BY DEF LabelsTo
  <1> DEFINE to == LabelsTo(labels, past, t)
  <1>2. to \in SUBSET Ticks /\ \A s \in to : s <= t
    BY DEF LabelsTo
  <1> HIDE DEF to
  <1>3. CASE to # {}
    <2>1. Latest(to) \in to
      BY <1>2, <1>3, LatestIsLast
    <2>2. others[Latest(to)] = labels[Latest(to)]
      BY <1>2, <2>1
    <2> QED BY <1>1, <2>2 DEF CommandFor, to
  <1>4. CASE to = {}
    BY <1>1, <1>4 DEF CommandFor, to
  <1> QED BY <1>3, <1>4

(* Nor does forgetting the labels out of its reach.                        *)
LEMMA ForgettingKeeps ==
    ASSUME NEW labels, NEW past \in Nat, NEW more \in Nat, NEW consumed \in Nat,
           more = Greater(past, consumed - HoldLast - 1),
           NEW t \in Nat, t > consumed
    PROVE  CommandFor(labels, more, t) = CommandFor(labels, past, t)
  <1> DEFINE to == LabelsTo(labels, past, t)
             kept == LabelsTo(labels, more, t)
  <1>1. to \in SUBSET Ticks /\ kept \in SUBSET to
    BY LaneNaturals DEF LabelsTo, Greater, Ticks
  <1>0. Ticks \subseteq Int
    BY LaneNaturals DEF Ticks
  <1>2. \A s \in to : s \in kept \/ t - s > HoldLast
    BY LaneNaturals DEF LabelsTo, Greater, Ticks
  <1> HIDE DEF to, kept
  <1>3. CASE kept # {}
    <2>1. Latest(to) \in to /\ \A y \in to : y <= Latest(to)
      BY <1>1, <1>3, LatestIsLast
    <2>2. kept \in SUBSET Ticks
      BY <1>1
    <2>3. Latest(kept) \in kept /\ \A y \in kept : y <= Latest(kept)
      BY <1>3, <2>2, LatestIsLast
    <2>4. Latest(to) \in Int /\ Latest(kept) \in Int
      BY <1>0, <1>1, <2>1, <2>3
    <2>5. Latest(kept) <= Latest(to)
      BY <1>1, <2>1, <2>3
    <2>6. CASE Latest(to) \in kept
      <3>1. Latest(to) = Latest(kept)
        BY <2>3, <2>4, <2>5, <2>6
      <3> QED BY <1>1, <1>3, <3>1 DEF CommandFor, to, kept
    <2>7. CASE Latest(to) \notin kept
      <3>1. t - Latest(to) > HoldLast
        BY <1>2, <2>1, <2>7
      <3>2. t - Latest(kept) > HoldLast
        BY <2>4, <2>5, <3>1, LaneNaturals
      <3>3. ~(t - Latest(to) <= HoldLast) /\ ~(t - Latest(kept) <= HoldLast)
        BY <2>4, <3>1, <3>2, LaneNaturals
      <3> QED BY <3>3 DEF CommandFor, to, kept
    <2> QED BY <2>6, <2>7
  <1>4. CASE kept = {} /\ to # {}
    <2>1. Latest(to) \in to
      BY <1>1, <1>4, LatestIsLast
    <2>2. t - Latest(to) > HoldLast /\ Latest(to) \in Int
      BY <1>0, <1>1, <1>2, <1>4, <2>1
    <2>3. ~(t - Latest(to) <= HoldLast)
      BY <2>2, LaneNaturals
    <2> QED BY <1>4, <2>3 DEF CommandFor, to, kept
  <1>5. CASE to = {}
    BY <1>1, <1>5 DEF CommandFor, to, kept
  <1> QED BY <1>3, <1>4, <1>5

-----------------------------------------------------------------------------
(* What a run of states emits: no more than its own ticks' commands decide.*)
LEMMA EmittedSame ==
    ASSUME NEW state, NEW from \in Nat, NEW run, Len(run) \in Nat,
           NEW one, NEW other,
           \A t \in 1..MaxLabel + LastTick : t - from \in 1..Len(run) => other[t] = one[t]
    PROVE  EmittedBy(state, from, run, other) = EmittedBy(state, from, run, one)
  <1> SUFFICES ASSUME NEW e \in Effects
               PROVE  e \in EmittedBy(state, from, run, other) <=> e \in EmittedBy(state, from, run, one)
    BY DEF EmittedBy
  <1>1. e.tick \in 1..MaxLabel + LastTick
    BY DEF Effects
  <1>2. CASE e.tick - from \in 1..Len(run)
    <2>1. other[e.tick] = one[e.tick]
      BY <1>1, <1>2
    <2> QED BY <2>1 DEF EmittedBy
  <1>3. CASE e.tick - from \notin 1..Len(run)
    BY <1>3 DEF EmittedBy
  <1> QED BY <1>2, <1>3

(* No tick run, nothing emitted.                                           *)
LEMMA EmittedOfNone ==
    ASSUME NEW state, NEW from, NEW commands
    PROVE  EmittedBy(state, from, <<>>, commands) = {}
  BY DEF EmittedBy

(* Two runs end to end emit what each does.                                *)
LEMMA EmittedJoined ==
    ASSUME NEW state, NEW from \in Nat, NEW first \in Seq(State), NEW more \in Seq(State),
           NEW commands, NEW last, last = IF first = <<>> THEN state ELSE first[Len(first)]
    PROVE  EmittedBy(state, from, first \o more, commands)
             = EmittedBy(state, from, first, commands)
               \cup EmittedBy(last, from + Len(first), more, commands)
  <1> DEFINE both == first \o more
             n == Len(first)
             k == Len(more)
  <1>1. /\ n \in Nat /\ k \in Nat /\ Len(both) = n + k
        /\ \A i \in 1..n + k : both[i] = IF i <= n THEN first[i] ELSE more[i - n]
        /\ (first = <<>> <=> n = 0)
    BY ConcatProperties, LenProperties, EmptySeq
  <1> HIDE DEF both, n, k
  <1> SUFFICES ASSUME NEW e \in Effects
               PROVE  e \in EmittedBy(state, from, both, commands)
                      <=> \/ e \in EmittedBy(state, from, first, commands)
                          \/ e \in EmittedBy(last, from + n, more, commands)
    BY DEF EmittedBy, both, n, k
  <1>2. e.tick \in Nat
    BY LaneNaturals DEF Effects
  <1> DEFINE i == e.tick - from
  <1>3. i \in Int /\ e.tick - (from + n) = i - n
    BY <1>1, <1>2
  <1>4. /\ e \in EmittedBy(state, from, both, commands)
           <=> i \in 1..n + k /\ e.kind \in Emits(IF i = 1 THEN state ELSE both[i - 1], commands[e.tick])
        /\ e \in EmittedBy(state, from, first, commands)
           <=> i \in 1..n /\ e.kind \in Emits(IF i = 1 THEN state ELSE first[i - 1], commands[e.tick])
        /\ e \in EmittedBy(last, from + n, more, commands)
           <=> i - n \in 1..k
               /\ e.kind \in Emits(IF i - n = 1 THEN last ELSE more[i - n - 1], commands[e.tick])
    BY <1>1, <1>3 DEF EmittedBy, n, k
  <1> HIDE DEF i
  <1>5. CASE i \in 1..n
    <2>1. i \in 1..n + k /\ i - n \notin 1..k
      BY <1>1, <1>3, <1>5
    <2>2. i # 1 => both[i - 1] = first[i - 1]
      BY <1>1, <1>5
    <2> QED BY <1>4, <1>5, <2>1, <2>2
  <1>6. CASE i \in n + 1..n + k
    <2>1. i \in 1..n + k /\ i - n \in 1..k /\ i \notin 1..n
      BY <1>1, <1>6
    <2>2. (IF i = 1 THEN state ELSE both[i - 1]) = (IF i - n = 1 THEN last ELSE more[i - n - 1])
      <3>1. CASE i = 1
        BY <1>1, <1>6, <3>1
      <3>2. CASE i # 1 /\ i - n = 1
        <4>1. n # 0 /\ i - 1 = n /\ n \in 1..n + k
          BY <1>1, <1>6, <3>2
        <4> QED BY <1>1, <3>2, <4>1 DEF n
      <3>3. CASE i # 1 /\ i - n # 1
        <4>1. i - 1 \in 1..n + k /\ ~(i - 1 <= n) /\ i - 1 - n = i - n - 1
          BY <1>1, <1>6, <3>3
        <4> QED BY <1>1, <3>3, <4>1
      <3> QED BY <3>1, <3>2, <3>3
    <2> QED BY <1>4, <2>1, <2>2
  <1>7. CASE i \notin 1..n + k
    <2>1. i \notin 1..n /\ i - n \notin 1..k
      BY <1>1, <1>3, <1>7
    <2> QED BY <1>4, <1>7, <2>1
  <1>8. i \in 1..n + k => i \in 1..n \/ i \in n + 1..n + k
    BY <1>1
  <1> QED BY <1>5, <1>6, <1>7, <1>8

(* The ledger holds what the ticks ahead emit, and those are ticks labelled *)
(* already.                                                                *)
AheadEmits ==
    /\ ledger = EmittedBy(base, compared, ahead, Commanded(labelled, forgotten))
    /\ ~started => ahead = <<>>
    /\ ahead # <<>> => PredictedTick < nextLabel

(* The commands of the ticks are those the labels give.                    *)
LEMMA CommandedIs ==
    ASSUME NEW labels, NEW past, NEW t \in 1..MaxLabel + LastTick
    PROVE  Commanded(labels, past)[t] = CommandFor(labels, past, t) /\ t \in Nat /\ t >= 1
  BY LaneNaturals DEF Commanded

(* The ticks ahead emit the same while only later ones are labelled.       *)
LEMMA LabelsApart ==
    ASSUME AheadTyped, AheadEmits, LabelsOnward
    PROVE  EmittedBy(base, compared, ahead, Commanded(labelled', forgotten)) = ledger
  <1>1. Len(ahead) \in Nat /\ compared \in Nat /\ PredictedTick = compared + Len(ahead)
    BY NowTyped, LaneNaturals, PredictionNaturals DEF PredictedTick
  <1>2. CASE ahead = <<>>
    BY <1>2, EmittedOfNone DEF AheadEmits
  <1>3. CASE ahead # <<>>
    <2>1. PredictedTick < nextLabel /\ nextLabel \in Nat
      BY <1>3 DEF AheadEmits, LabelsOnward
    <2> DEFINE one == Commanded(labelled, forgotten)
               other == Commanded(labelled', forgotten)
    <2>2. \A t \in 1..MaxLabel + LastTick : t - compared \in 1..Len(ahead) => other[t] = one[t]
      <3> SUFFICES ASSUME NEW t \in 1..MaxLabel + LastTick, t - compared \in 1..Len(ahead)
                   PROVE  other[t] = one[t]
        OBVIOUS
      <3>1. t < nextLabel
        BY <1>1, <2>1, CommandedIs
      <3>2. t \in Nat
        BY CommandedIs
      <3>3. \A s \in Ticks : s <= t => labelled'[s] = labelled[s]
        <4> SUFFICES ASSUME NEW s \in Ticks, s <= t PROVE labelled'[s] = labelled[s]
          OBVIOUS
        <4>1. s # nextLabel
          BY <2>1, <3>1, <3>2
        <4> QED BY <4>1 DEF LabelsOnward
      <3>4. CommandFor(labelled', forgotten, t) = CommandFor(labelled, forgotten, t)
        BY <3>2, <3>3, TakenStays
      <3> QED BY <3>4, CommandedIs
    <2> HIDE DEF one, other
    <2>3. EmittedBy(base, compared, ahead, other) = EmittedBy(base, compared, ahead, one)
      BY <1>1, <2>2, EmittedSame
    <2> QED BY <2>3 DEF AheadEmits, one, other
  <1> QED BY <1>2, <1>3

(* A step that leaves prediction alone, whatever it labels later.          *)
LEMMA EmitsWhileAlone ==
    ASSUME AheadTyped, AheadEmits, LabelsOnward, UNCHANGED <<predicted, forgotten>>
    PROVE  AheadEmits'
  <1>1. UNCHANGED <<started, base, compared, ahead, ledger, forgotten>>
    BY DEF predicted
  <1>2. ledger' = EmittedBy(base', compared', ahead', Commanded(labelled', forgotten'))
    BY <1>1, LabelsApart
  <1>3. ahead # <<>> => PredictedTick < nextLabel'
    BY NowTyped, LaneNaturals DEF AheadEmits, LabelsOnward
  <1> QED BY <1>1, <1>2, <1>3 DEF AheadEmits, PredictedTick

(* A run none of whose ticks is asked for has none.                        *)
LEMMA RanTo ==
    ASSUME NEW state \in State, NEW from \in 0..MaxLabel + LastTick,
           NEW through \in 0..MaxLabel + LastTick, NEW already \in 0..PredictionWindow,
           NEW commands \in [1..MaxLabel + LastTick -> 0..Commands],
           NEW run, run = Run(state, from, RoomFor(through, from, already), commands)
    PROVE  run # <<>> => from + Len(run) <= through
  <1> DEFINE n == RoomFor(through, from, already)
  <1>1. n \in Nat /\ (n = 0 \/ from + n <= through) /\ from + n <= MaxLabel + LastTick
    BY LaneNaturals, PredictionNaturals DEF RoomFor, Greater, Lesser
  <1> HIDE DEF n
  <1>2. run \in Seq(State) /\ Len(run) = n
    BY <1>1, LaneNaturals, RunTyped DEF n
  <1>3. run # <<>> => n # 0
    BY <1>2, EmptySeq
  <1> QED BY <1>1, <1>2, <1>3

(* Ticks run after the newest predicted one add what they emit.            *)
LEMMA EmitsAdvanced ==
    ASSUME AheadTyped, AheadEmits, MirrorTyped, LabelsOnward, LaneTypeOK', Unlabelled',
           started, Advance, UNCHANGED forgotten
    PROVE  AheadEmits'
  <1> DEFINE commands == Commanded(labelled', forgotten)
             run == Run(Now, PredictedTick,
                        RoomFor(NewestLabel(labelled'), PredictedTick, Len(ahead)), commands)
             emitted == EmittedBy(Now, PredictedTick, run, commands)
  <1>1. /\ ahead' = ahead \o run /\ ledger' = ledger \cup emitted
        /\ UNCHANGED <<started, base, compared>>
    BY DEF Advance
  <1>2. commands \in [1..MaxLabel + LastTick -> 0..Commands]
    BY CommandedTyped DEF LaneTypeOK, MirrorTyped
  <1>3. NewestLabel(labelled') \in 0..MaxLabel + LastTick
    BY NewestLabelTyped, LaneNaturals
  <1>4. EmittedBy(base, compared, ahead, commands) = ledger
    BY LabelsApart
  <1>5. NewestLabel(labelled') < nextLabel'
    <2>1. nextLabel' \in Nat /\ nextLabel' >= 1
      BY LaneNaturals DEF LaneTypeOK
    <2>2. \A t \in Ticks : t >= nextLabel' => labelled'[t] = Neutral
      BY DEF Unlabelled
    <2> QED BY <2>1, <2>2, NewestLabelBelow
  <1> HIDE DEF commands
  <1>6. /\ run \in Seq(State) /\ Len(run) \in Nat
        /\ run # <<>> => PredictedTick + Len(run) <= NewestLabel(labelled')
    BY <1>2, <1>3, NowTyped, RanTyped, RanTo
  <1> HIDE DEF run
  <1>7. ahead \in Seq(State) /\ Len(ahead) \in Nat /\ compared \in Nat
        /\ PredictedTick = compared + Len(ahead)
    BY NowTyped, LaneNaturals, PredictionNaturals DEF AheadTyped, PredictedTick
  <1>8. EmittedBy(base, compared, ahead \o run, commands)
          = EmittedBy(base, compared, ahead, commands) \cup EmittedBy(Now, PredictedTick, run, commands)
    BY <1>6, <1>7, EmittedJoined DEF Now
  <1>9. ledger' = EmittedBy(base', compared', ahead', Commanded(labelled', forgotten'))
    BY <1>1, <1>4, <1>8 DEF commands
  <1>10. ahead' # <<>> => PredictedTick' < nextLabel'
    <2>1. Len(ahead') = Len(ahead) + Len(run)
      BY <1>1, <1>6, <1>7, ConcatProperties
    <2>2. PredictedTick' = PredictedTick + Len(run)
      BY <1>1, <1>6, <1>7, <2>1 DEF PredictedTick
    <2>3. CASE run # <<>>
      <3>1. PredictedTick' <= NewestLabel(labelled')
        BY <1>6, <2>2, <2>3
      <3> QED BY <1>3, <1>5, <1>6, <1>7, <2>2, <3>1, LaneNaturals DEF LabelsOnward
    <2>4. CASE run = <<>>
      <3>1. ahead' = ahead
        BY <1>1, <1>7, <2>4, ConcatEmptySeq
      <3>2. PredictedTick' = PredictedTick
        BY <1>1, <3>1 DEF PredictedTick
      <3> QED BY <1>7, <3>1, <3>2 DEF AheadEmits, LabelsOnward
    <2> QED BY <2>3, <2>4
  <1> QED BY <1>1, <1>9, <1>10 DEF AheadEmits

(* Prediction starts with what its first run emits.                        *)
LEMMA EmitsStarted ==
    ASSUME Hearing, AheadEmits, Unlabelled, NEW m \in states, ~started, Start(m),
           UNCHANGED <<labelled, nextLabel>>
    PROVE  AheadEmits'
  <1> DEFINE commands == Commanded(labelled, forgotten)
             run == Run(KnownWith(m), m.consumed, RoomFor(NewestLabel(labelled), m.consumed, 0),
                        commands)
  <1>1. /\ started' = TRUE /\ base' = KnownWith(m) /\ compared' = m.consumed /\ ahead' = run
        /\ ledger' = EmittedBy(KnownWith(m), m.consumed, run, commands) /\ forgotten' = forgotten
    BY DEF Start
  <1>2. ledger' = EmittedBy(base', compared', ahead', Commanded(labelled', forgotten'))
    BY <1>1
  <1>3. commands \in [1..MaxLabel + LastTick -> 0..Commands]
    BY CommandedTyped DEF LaneTypeOK, MirrorTyped, Hearing
  <1>4. NewestLabel(labelled) \in 0..MaxLabel + LastTick /\ m.consumed \in 0..MaxLabel + LastTick
    BY NewestLabelTyped, StateTyped, LaneNaturals
  <1>5. NewestLabel(labelled) < nextLabel /\ nextLabel \in Nat
    BY NewestLabelBelow, LaneNaturals DEF Hearing, Unlabelled, LaneTypeOK
  <1> HIDE DEF commands
  <1>6. /\ run \in Seq(State) /\ Len(run) \in Nat
        /\ run # <<>> => m.consumed + Len(run) <= NewestLabel(labelled)
    <2>1. 0 \in 0..PredictionWindow /\ KnownWith(m) \in State
      BY PredictionNaturals, StateTyped
    <2> QED BY <1>3, <1>4, <2>1, RanTyped, RanTo
  <1> HIDE DEF run
  <1>7. ahead' # <<>> => PredictedTick' < nextLabel'
    BY <1>1, <1>4, <1>5, <1>6, LaneNaturals DEF PredictedTick
  <1> QED BY <1>1, <1>2, <1>7 DEF AheadEmits

(* Predicted again, the ledger holds what the new run emits.               *)
LEMMA EmitsRolledBack ==
    ASSUME Hearing, AheadEmits, Unlabelled, NEW m \in states, started, RollBack(m),
           UNCHANGED <<labelled, nextLabel>>
    PROVE  AheadEmits'
  <1> DEFINE commands == Commanded(labelled, Forgets(m))
             through == Greater(PredictedTick, m.consumed)
             run == Run(Corrected(m), m.consumed, RoomFor(through, m.consumed, 0), commands)
  <1>1. /\ InHistory(m) \/ m.consumed > PredictedTick
        /\ base' = Corrected(m) /\ compared' = m.consumed /\ ahead' = run
        /\ ledger' = EmittedBy(Corrected(m), m.consumed, run, commands)
        /\ forgotten' = Forgets(m) /\ started' = started
    BY DEF RollBack
  <1>2. ledger' = EmittedBy(base', compared', ahead', Commanded(labelled', forgotten'))
    BY <1>1
  <1>3. commands \in [1..MaxLabel + LastTick -> 0..Commands]
    BY CommandedTyped, StateTyped DEF LaneTypeOK, Hearing
  <1>4. m.consumed \in 1..LastTick /\ compared \in Nat /\ Len(ahead) \in Nat
        /\ PredictedTick = compared + Len(ahead) /\ PredictedTick \in 0..MaxLabel + LastTick
        /\ ahead \in Seq(State)
    BY StateTyped, NowTyped, LaneNaturals, PredictionNaturals DEF Hearing, PredictedTick, AheadTyped
  <1>5. /\ run \in Seq(State) /\ Len(run) \in Nat
        /\ run # <<>> => m.consumed + Len(run) <= through
    <2>1. 0 \in 0..PredictionWindow /\ Corrected(m) \in State /\ m.consumed \in 0..MaxLabel + LastTick
          /\ through \in 0..MaxLabel + LastTick
      BY <1>4, PredictionNaturals, StateTyped, LaneNaturals DEF Greater
    <2> HIDE DEF commands, through
    <2> QED BY <1>3, <2>1, RanTyped, RanTo
  <1>6. ahead' # <<>> => PredictedTick' < nextLabel'
    <2> SUFFICES ASSUME run # <<>> PROVE m.consumed + Len(run) < nextLabel
      BY <1>1 DEF PredictedTick
    <2>1. Len(run) # 0
      BY <1>5, EmptySeq
    <2> HIDE DEF commands, run
    <2>2. m.consumed < PredictedTick /\ m.consumed + Len(run) <= PredictedTick
      BY <1>4, <1>5, <2>1 DEF Greater
    <2>3. compared < PredictedTick
      BY <1>1, <1>4, <2>2 DEF InHistory
    <2>4. ahead # <<>>
      BY <1>4, <2>3, EmptySeq
    <2>5. PredictedTick < nextLabel /\ nextLabel \in Nat
      BY <2>4, LaneNaturals DEF AheadEmits, Hearing, LaneTypeOK
    <2> QED BY <1>4, <1>5, <2>2, <2>5
  <1> HIDE DEF commands, run
  <1> QED BY <1>1, <1>2, <1>6 DEF AheadEmits

(* Confirmed, the ticks left emit what they did: from the same state, and  *)
(* with the commands they had, though labels were forgotten.               *)
LEMMA EmitsConfirmed ==
    ASSUME Hearing, AheadEmits, NEW m \in states, started, Confirm(m),
           UNCHANGED <<labelled, nextLabel>>
    PROVE  AheadEmits'
  <1> DEFINE k == m.consumed - compared
             n == Len(ahead)
             rest == SubSeq(ahead, k + 1, n)
             one == Commanded(labelled, forgotten)
             other == Commanded(labelled, Forgets(m))
  <1>1. /\ InHistory(m) /\ Equal(m) /\ base' = Corrected(m) /\ compared' = m.consumed /\ ahead' = rest
        /\ ledger' = ledger \ UpTo(m.consumed) /\ forgotten' = Forgets(m) /\ started' = started
    BY DEF Confirm, Equal
  <1>2. /\ m.consumed \in 1..LastTick /\ compared \in Nat /\ n \in Nat /\ ahead \in Seq(State)
        /\ PredictedTick = compared + n /\ k \in 1..n /\ m.consumed = compared + k
        /\ k \in Nat
    <2>1. m.consumed \in 1..LastTick /\ compared \in Nat /\ n \in Nat /\ ahead \in Seq(State)
          /\ PredictedTick = compared + n
      BY StateTyped, NowTyped, LaneNaturals, PredictionNaturals DEF Hearing, PredictedTick, AheadTyped
    <2>2. compared < m.consumed /\ m.consumed <= compared + n
      BY <1>1, <2>1 DEF InHistory
    <2> QED BY <2>1, <2>2
  <1>3. Corrected(m) = ahead[k]
    <2>1. PredictedAt(m) = ahead[k]
      BY <1>1 DEF PredictedAt
    <2>2. ahead[k] \in State
      BY <1>2, ElementOfSeq
    <2>3. \A c \in Components : Corrected(m)[c] = ahead[k][c]
      BY <1>1, <2>1 DEF Corrected, Equal
    <2>4. Corrected(m) = [c \in Components |-> Corrected(m)[c]]
      BY DEF Corrected
    <2>5. ahead[k] = [c \in Components |-> ahead[k][c]]
      BY <2>2 DEF State
    <2> QED BY <2>3, <2>4, <2>5
  <1>4. /\ rest \in Seq(State) /\ Len(rest) = n - k
        /\ \A i \in 1..n - k : rest[i] = ahead[k + i]
    <2> HIDE DEF k, n
    <2>1. \A i \in k + 1..n : ahead[i] \in State
      <3> SUFFICES ASSUME NEW i \in k + 1..n PROVE ahead[i] \in State
        OBVIOUS
      <3>1. i \in 1..n
        BY <1>2
      <3> QED BY <1>2, <3>1, ElementOfSeq DEF n
    <2>2. k + 1 \in Int /\ n \in Int
      BY <1>2
    <2>3. /\ rest \in Seq(State) /\ Len(rest) = (IF k + 1 <= n THEN n - (k + 1) + 1 ELSE 0)
          /\ \A i \in 1..n - (k + 1) + 1 : rest[i] = ahead[k + 1 + i - 1]
      BY <2>1, <2>2, SubSeqProperties
    <2> HIDE DEF rest
    <2>4. Len(rest) = n - k /\ n - (k + 1) + 1 = n - k
      BY <1>2, <2>3
    <2>5. \A i \in 1..n - k : k + 1 + i - 1 = k + i
      BY <1>2
    <2> QED BY <2>3, <2>4, <2>5
  <1> HIDE DEF k, n, rest
  <1>5. EmittedBy(Corrected(m), m.consumed, rest, one) = ledger \ UpTo(m.consumed)
    <2> SUFFICES ASSUME NEW e \in Effects
                 PROVE  e \in EmittedBy(ahead[k], m.consumed, rest, one)
                        <=> e \in EmittedBy(base, compared, ahead, one) /\ e.tick > m.consumed
      <3> DEFINE left == EmittedBy(ahead[k], m.consumed, rest, one)
                 all == EmittedBy(base, compared, ahead, one)
      <3>1. left \subseteq Effects /\ all \subseteq Effects
        BY DEF EmittedBy
      <3>2. ledger = all
        BY DEF AheadEmits
      <3> HIDE DEF left, all
      <3>3. (\A e \in Effects : e \in left <=> e \in all /\ e.tick > m.consumed)
              => left = ledger \ UpTo(m.consumed)
        <4>1. \A e \in Effects : e.tick \in Int
          BY LaneNaturals DEF Effects
        <4> QED BY <1>2, <3>1, <3>2, <4>1 DEF UpTo
      <3> QED BY <1>3, <3>3 DEF left, all
    <2>1. e.tick \in Nat
      BY LaneNaturals DEF Effects
    <2> DEFINE i == e.tick - m.consumed
    <2>2. i \in Int /\ e.tick - compared = i + k /\ (e.tick > m.consumed <=> i >= 1)
      BY <1>2, <2>1
    <2>3. e \in EmittedBy(ahead[k], m.consumed, rest, one)
             <=> i \in 1..n - k /\ e.kind \in Emits(IF i = 1 THEN ahead[k] ELSE rest[i - 1], one[e.tick])
      <3> HIDE DEF one
      <3> QED BY <1>4 DEF EmittedBy
    <2>4. e \in EmittedBy(base, compared, ahead, one)
             <=> i + k \in 1..n
                 /\ e.kind \in Emits(IF i + k = 1 THEN base ELSE ahead[i + k - 1], one[e.tick])
      <3> HIDE DEF one, i
      <3>1. e.tick - compared = i + k /\ e.tick - compared - 1 = i + k - 1
        BY <1>2, <2>1, <2>2
      <3> QED BY <3>1 DEF EmittedBy, n
    <2> HIDE DEF i, one
    <2>5. (i \in 1..n - k) <=> (i + k \in 1..n /\ i >= 1)
      BY <1>2, <2>2
    <2>6. i \in 1..n - k => (IF i = 1 THEN ahead[k] ELSE rest[i - 1])
                              = (IF i + k = 1 THEN base ELSE ahead[i + k - 1])
      <3> SUFFICES ASSUME i \in 1..n - k
                   PROVE  (IF i = 1 THEN ahead[k] ELSE rest[i - 1]) = ahead[i + k - 1] /\ i + k # 1
        OBVIOUS
      <3>1. i + k # 1
        BY <1>2
      <3>2. CASE i = 1
        <4>1. i + k - 1 = k
          BY <1>2, <3>2
        <4> QED BY <3>1, <3>2, <4>1
      <3>3. CASE i # 1
        <4>1. i - 1 \in 1..n - k /\ k + (i - 1) = i + k - 1
          BY <1>2, <3>3
        <4> QED BY <1>4, <3>1, <3>3, <4>1
      <3> QED BY <3>2, <3>3
    <2> QED BY <2>2, <2>3, <2>4, <2>5, <2>6
  <1>6. EmittedBy(Corrected(m), m.consumed, rest, other) = EmittedBy(Corrected(m), m.consumed, rest, one)
    <2>1. \A t \in 1..MaxLabel + LastTick : t - m.consumed \in 1..Len(rest) => other[t] = one[t]
      <3> SUFFICES ASSUME NEW t \in 1..MaxLabel + LastTick, t - m.consumed \in 1..Len(rest)
                   PROVE  other[t] = one[t]
        OBVIOUS
      <3>1. t \in Nat /\ m.consumed \in Nat /\ forgotten \in Nat /\ Forgets(m) \in Nat
        BY <1>2, CommandedIs, StateTyped DEF Hearing, MirrorTyped
      <3>2. t > m.consumed
        BY <1>2, <1>4, <3>1
      <3>3. CommandFor(labelled, Forgets(m), t) = CommandFor(labelled, forgotten, t)
        BY <3>1, <3>2, ForgettingKeeps DEF Forgets
      <3> QED BY <3>3, CommandedIs
    <2> HIDE DEF one, other
    <2>2. Len(rest) \in Nat /\ m.consumed \in Nat
      BY <1>2, <1>4
    <2> QED BY <2>1, <2>2, EmittedSame
  <1>7. ledger' = EmittedBy(base', compared', ahead', Commanded(labelled', forgotten'))
    BY <1>1, <1>5, <1>6
  <1>8. ahead' # <<>> => PredictedTick' < nextLabel'
    <2>1. PredictedTick' = PredictedTick
      BY <1>1, <1>2, <1>4 DEF PredictedTick
    <2>2. ahead # <<>>
      BY <1>2, EmptySeq DEF n
    <2> QED BY <2>1, <2>2 DEF AheadEmits
  <1> QED BY <1>1, <1>7, <1>8 DEF AheadEmits

(* A state heard, whatever comes of it.                                    *)
LEMMA EmitsHeard ==
    ASSUME LaneInv, PredictionInv, AheadEmits, LabelsOnward, NEW m \in states, OnState(m)
    PROVE  AheadEmits'
  <1>1. Hearing /\ Unlabelled
    BY DEF Hearing, PredictionInv, LaneInv, Labels
  <1>2. UNCHANGED <<labelled, nextLabel>>
    BY DEF OnState, HearConsumed, clientInput
  <1>3. CASE UNCHANGED <<predicted, forgotten>>
    BY <1>1, <1>3, EmitsWhileAlone DEF Hearing
  <1>4. CASE ~UNCHANGED <<predicted, forgotten>>
    <2>1. Authoritative(m)
      BY <1>4 DEF OnState
    <2>2. CASE started
      BY <1>1, <1>2, <1>4, <2>1, <2>2, EmitsConfirmed, EmitsRolledBack DEF Authoritative, Passed
    <2>3. CASE ~started
      BY <1>1, <1>2, <1>4, <2>1, <2>3, EmitsStarted DEF Authoritative, NotYet
    <2> QED BY <2>2, <2>3
  <1> QED BY <1>3, <1>4

(* Together.                                                               *)
LEMMA EmitsSteps ==
    ASSUME LaneInv, LaneInv', PredictionInv, AheadEmits, [LaneNext]_laneVars, [Next]_vars
    PROVE  AheadEmits'
  <1>1. LabelsOnward
    BY LabelsGoOn DEF LaneInv
  <1>2. AheadTyped /\ MirrorTyped
    BY DEF PredictionInv
  <1>3. ASSUME UNCHANGED <<predicted, forgotten>> PROVE AheadEmits'
    BY <1>1, <1>2, <1>3, EmitsWhileAlone
  <1>4. CASE PSample
    <2>1. UNCHANGED forgotten
      BY <1>4 DEF PSample, mirror
    <2>2. CASE started /\ nextLabel' # nextLabel
      <3>1. Advance
        BY <1>4, <2>2 DEF PSample
      <3>2. LaneTypeOK' /\ Unlabelled'
        BY DEF LaneInv, Labels
      <3> QED BY <1>1, <1>2, <2>1, <2>2, <3>1, <3>2, EmitsAdvanced
    <2>3. CASE ~(started /\ nextLabel' # nextLabel)
      BY <1>3, <1>4, <2>1, <2>3 DEF PSample
    <2> QED BY <2>2, <2>3
  <1>5. CASE PSendWindow
    BY <1>3, <1>5 DEF PSendWindow, mirror
  <1>6. ASSUME NEW pace \in paces, POnPace(pace) PROVE AheadEmits'
    BY <1>3, <1>6 DEF POnPace, mirror
  <1>7. ASSUME NEW w \in windows, PHear(w) PROVE AheadEmits'
    BY <1>3, <1>7 DEF PHear, mirror
  <1>8. CASE PPlay
    BY <1>3, <1>8 DEF PPlay, mirror
  <1>9. ASSUME NEW c \in Components, AckArrives(c) PROVE AheadEmits'
    BY <1>3, <1>9 DEF AckArrives, mirror
  <1>10. ASSUME NEW m \in states, OnState(m) PROVE AheadEmits'
    BY <1>1, <1>10, EmitsHeard
  <1>11. CASE UNCHANGED vars
    BY <1>3, <1>11 DEF vars, mirror
  <1> QED BY <1>4, <1>5, <1>6, <1>7, <1>8, <1>9, <1>10, <1>11 DEF Next

(* So it is from the start.                                                *)
LEMMA EmitsAlways == Spec => []AheadEmits
  <1>1. Init => AheadEmits
    <2> SUFFICES ASSUME Init PROVE AheadEmits
      OBVIOUS
    <2>1. ahead = <<>> /\ ledger = {}
      BY DEF Init
    <2> QED BY <2>1, EmittedOfNone DEF AheadEmits
  <1>2. AheadEmits /\ LaneInv /\ LaneInv' /\ PredictionInv /\ Stamped /\ [Next]_vars => AheadEmits'
    BY LaneStepOf, EmitsSteps
  <1> QED BY <1>1, <1>2, LaneHolds, PredictionHolds, StatesStamped, PTL DEF Spec

(* What presentation shows of the ticks ahead is what the present          *)
(* prediction emits there, no more and no less, after any number of        *)
(* rollbacks, and nothing of those ticks waits that it does not emit: for  *)
(* every game, window and label.                                           *)
THEOREM ShownAsEmitted == Spec => []ShownIsEmitted
  <1>1. PredictionInv /\ AheadEmits => ShownIsEmitted
    <2> SUFFICES ASSUME PredictionInv, AheadEmits PROVE ShownIsEmitted
      OBVIOUS
    <2> DEFINE emitted == EmittedBy(base, compared, ahead, Commanded(labelled, forgotten))
    <2>1. ledger = emitted
      BY DEF AheadEmits
    <2> HIDE DEF emitted
    <2>2. \A e \in Effects \ ConfirmedOnly : e.tick > compared => (sink[e] = Sink!Shown <=> e \in emitted)
      BY <2>1 DEF PredictionInv, EffectInv, ShownKnown, KnownShown
    <2> QED BY <2>1, <2>2 DEF ShownIsEmitted, emitted
  <1> QED BY <1>1, EmitsAlways, PredictionHolds, PTL

-----------------------------------------------------------------------------
(* The state a comparison leaves is the server's.                          *)

(* A state gives what the player was at its tick.                          *)
GivenTrue ==
    \A m \in states :
        /\ m.consumed \in 1..Len(truth)
        /\ \A c \in DOMAIN m.given : m.given[c] = truth[m.consumed][c]

(* Whatever was sent of a component since it last changed is what was last *)
(* sent of it.                                                             *)
SentSince ==
    \A m \in states : \A c \in DOMAIN m.given :
        m.consumed >= changedAt[c] => m.given[c] = lastSent[c]

(* The server takes the client to hold no more than the client applied.    *)
AcksApplied == \A c \in Components : ackedAt[c] <= appliedAt[c]

(* What a whole state leaves out, the client holds: since a tick it has    *)
(* heard from, and through the state's, every state that gives the         *)
(* component gives what it was there.                                      *)
Stands(m, c) ==
    \E a \in PlayerTicks :
        /\ a <= appliedAt[c]
        /\ \A s \in states :
             c \in DOMAIN s.given /\ a <= s.consumed /\ s.consumed <= m.consumed
                 => s.given[c] = truth[m.consumed][c]
WholeStands ==
    \A m \in states : m.whole => \A c \in Components \ DOMAIN m.given : Stands(m, c)

(* What the client knows of a component came in a state of the tick it was *)
(* applied at.                                                             *)
HeardIn(c, m) == c \in DOMAIN m.given /\ m.consumed = appliedAt[c] /\ m.given[c] = known[c]
KnownHeard == \A c \in Components : appliedAt[c] # 0 => \E m \in states : HeardIn(c, m)
HeardAll == started => \A c \in Components : appliedAt[c] # 0

ServerSide == GivenTrue /\ SentSince
BaseInv ==
    /\ ServerSide /\ AcksApplied /\ WholeStands /\ KnownHeard /\ HeardAll
    /\ compared <= Len(truth) /\ BaseIsServers

-----------------------------------------------------------------------------
(* A tick of the server's: what it adds to the states on their way.        *)
Added(state) ==
    LET pending == {c \in Components : ~Holding(c, state[c])}
        due == {c \in pending : ~SentLately(c, state[c])}
    IN  /\ states \subseteq states'
        /\ \A m \in states' \ states :
             /\ m.consumed = nextInput
             /\ DOMAIN m.given \subseteq due
             /\ \A c \in DOMAIN m.given : m.given[c] = state[c]
             /\ m.whole => DOMAIN m.given = pending
        /\ \A c \in Components :
             /\ lastSent'[c] = IF c \in due THEN state[c] ELSE lastSent[c]
             /\ changedAt'[c] = IF c \in due /\ (sentAt[c] = Never \/ lastSent[c] # state[c])
                                THEN nextInput ELSE changedAt[c]

(* A publish adds no other states.                                         *)
LEMMA PublishAdds ==
    ASSUME NEW state \in State, Publish(state)
    PROVE  Added(state)
  <1> DEFINE pending == {c \in Components : ~Holding(c, state[c])}
             due == {c \in pending : ~SentLately(c, state[c])}
  <1>1. \E parts \in IF pending = {} THEN {IF heardInput THEN {{}} ELSE {}} ELSE Shares(due) :
            /\ states' = states \cup {Datagram(state, part, pending) : part \in parts}
            /\ lastSent' = [c \in Components |-> IF c \in due THEN state[c] ELSE lastSent[c]]
            /\ changedAt' = [c \in Components |->
                               IF c \in due /\ (sentAt[c] = Never \/ lastSent[c] # state[c])
                               THEN nextInput ELSE changedAt[c]]
            /\ sentAt' = [c \in Components |-> IF c \in due THEN nextInput ELSE sentAt[c]]
    BY Zenon DEF Publish
  <1>2. due \subseteq Components
    OBVIOUS
  <1> HIDE DEF pending, due
  <1>3. PICK parts \in IF pending = {} THEN {IF heardInput THEN {{}} ELSE {}} ELSE Shares(due) :
            states' = states \cup {Datagram(state, part, pending) : part \in parts}
    BY <1>1
  <1>4. \A part \in parts : part \subseteq due
    <2>1. CASE pending = {}
      BY <1>3, <2>1
    <2>2. CASE pending # {}
      BY <1>3, <2>2 DEF Shares
    <2> QED BY <2>1, <2>2
  <1>5. \A m \in states' \ states :
             /\ m.consumed = nextInput
             /\ DOMAIN m.given \subseteq due
             /\ \A c \in DOMAIN m.given : m.given[c] = state[c]
             /\ m.whole => DOMAIN m.given = pending
    <2> SUFFICES ASSUME NEW m \in states' \ states
                 PROVE  /\ m.consumed = nextInput
                        /\ DOMAIN m.given \subseteq due
                        /\ \A c \in DOMAIN m.given : m.given[c] = state[c]
                        /\ m.whole => DOMAIN m.given = pending
      OBVIOUS
    <2>1. PICK part \in parts : m = Datagram(state, part, pending)
      BY <1>3
    <2>2. m.consumed = nextInput /\ m.given = [c \in part |-> state[c]] /\ m.whole = (part = pending)
      BY <2>1 DEF Datagram
    <2> QED BY <2>2, <1>4
  <1>6. \A c \in Components :
             /\ lastSent'[c] = IF c \in due THEN state[c] ELSE lastSent[c]
             /\ changedAt'[c] = IF c \in due /\ (sentAt[c] = Never \/ lastSent[c] # state[c])
                                THEN nextInput ELSE changedAt[c]
    BY <1>1
  <1> QED BY <1>3, <1>5, <1>6 DEF Added, pending, due

(* The server's tick, and the states it sends.                             *)
LEMMA BasePlay ==
    ASSUME LaneInv, PredictionInv, BaseInv, PPlay
    PROVE  BaseInv'
  <1>1. Play /\ UNCHANGED <<ackedAt, predicted, mirror>>
    BY DEF PPlay
  <1>2. UNCHANGED <<ackedAt, appliedAt, known, started, base, compared, wholeBase>>
    BY <1>1 DEF predicted, mirror
  <1>3. PICK state \in Outcomes(Step(Truth(nextInput - 1), Plays.command)) :
          truth' = Append(truth, state) /\ Publish(state)
    BY DEF PPlay
  <1>4. state \in State
    BY <1>1, OutcomeTyped
  <1> DEFINE n == nextInput
             pending == {c \in Components : ~Holding(c, state[c])}
             due == {c \in pending : ~SentLately(c, state[c])}
  <1>5. /\ states \subseteq states'
        /\ \A m \in states' \ states :
             /\ m.consumed = n
             /\ DOMAIN m.given \subseteq due
             /\ \A c \in DOMAIN m.given : m.given[c] = state[c]
             /\ m.whole => DOMAIN m.given = pending
        /\ \A c \in Components :
             /\ lastSent'[c] = IF c \in due THEN state[c] ELSE lastSent[c]
             /\ changedAt'[c] = IF c \in due /\ (sentAt[c] = Never \/ lastSent[c] # state[c])
                                THEN n ELSE changedAt[c]
    BY <1>3, <1>4, PublishAdds DEF Added
  <1>6. /\ truth' \in Seq(State) /\ Len(truth') = Len(truth) + 1 /\ Len(truth) = n - 1
        /\ n \in 1..LastTick /\ truth'[n] = state
        /\ \A t \in 1..Len(truth) : truth'[t] = truth[t]
    <2>1. truth \in Seq(State) /\ Len(truth) = n - 1 /\ n \in 1..LastTick
      BY <1>1, PlaysStep DEF PredictionInv, ServerTyped
    <2>2. /\ truth' \in Seq(State) /\ Len(truth') = Len(truth) + 1
          /\ truth'[Len(truth) + 1] = state
          /\ \A t \in 1..Len(truth) : truth'[t] = truth[t]
      BY <1>3, <1>4, <2>1, AppendProperties
    <2>3. Len(truth) + 1 = n
      BY <2>1
    <2> QED BY <2>1, <2>2, <2>3
  <1>7. /\ due \subseteq pending /\ pending \subseteq Components
        /\ \A c \in Components : c \notin pending
             => ackedAt[c] >= changedAt[c] /\ lastSent[c] = state[c]
    BY DEF Holding
  <1>8. /\ changedAt \in [Components -> PlayerTicks] /\ appliedAt \in [Components -> PlayerTicks]
        /\ ackedAt \in [Components -> PlayerTicks \cup {Never}]
    BY DEF PredictionInv, ServerTyped, MirrorTyped
  <1>9. \A m \in states : /\ m.consumed \in 1..n - 1 /\ m.consumed \in 1..Len(truth)
                          /\ truth'[m.consumed] = truth[m.consumed]
                          /\ \A c \in DOMAIN m.given : c \in Components
    BY <1>6 DEF BaseInv, ServerSide, GivenTrue, PredictionInv, StatesTyped
  <1> HIDE DEF n, pending, due
  <1>10. GivenTrue'
    <2> SUFFICES ASSUME NEW m \in states'
                 PROVE  /\ m.consumed \in 1..Len(truth')
                        /\ \A c \in DOMAIN m.given : m.given[c] = truth'[m.consumed][c]
      BY DEF GivenTrue
    <2>1. CASE m \in states
      <3>1. m.consumed \in 1..Len(truth')
        BY <1>6, <1>9, <2>1
      <3> QED BY <1>9, <2>1, <3>1 DEF BaseInv, ServerSide, GivenTrue
    <2>2. CASE m \notin states
      <3>1. m.consumed \in 1..Len(truth')
        BY <1>5, <1>6, <2>2
      <3> QED BY <1>5, <1>6, <2>2, <3>1
    <2> QED BY <2>1, <2>2
  <1>11. SentSince'
    <2> SUFFICES ASSUME NEW m \in states', NEW c \in DOMAIN m.given, m.consumed >= changedAt'[c]
                 PROVE  m.given[c] = lastSent'[c]
      BY DEF SentSince
    <2>1. CASE m \in states
      <3>1. c \in Components /\ m.consumed < n
        BY <1>6, <1>9, <2>1
      <3>2. ~(c \in due /\ (sentAt[c] = Never \/ lastSent[c] # state[c]))
        BY <1>5, <1>6, <1>9, <2>1, <3>1
      <3>3. changedAt'[c] = changedAt[c] /\ lastSent'[c] = lastSent[c]
        BY <1>5, <3>1, <3>2
      <3> QED BY <2>1, <3>3 DEF BaseInv, ServerSide, SentSince
    <2>2. CASE m \notin states
      <3>1. c \in due /\ c \in Components /\ m.given[c] = state[c]
        BY <1>5, <1>7, <2>2
      <3> QED BY <1>5, <3>1
    <2> QED BY <2>1, <2>2
  <1>12. AcksApplied'
    BY <1>2 DEF BaseInv, AcksApplied
  <1>13. WholeStands'
    <2> SUFFICES ASSUME NEW m \in states', m.whole, NEW c \in Components \ DOMAIN m.given
                 PROVE  \E a \in PlayerTicks :
                            /\ a <= appliedAt[c]
                            /\ \A s \in states' :
                                 c \in DOMAIN s.given /\ a <= s.consumed /\ s.consumed <= m.consumed
                                     => s.given[c] = truth'[m.consumed][c]
      BY <1>2 DEF WholeStands, Stands
    <2>1. CASE m \in states
      <3>1. Stands(m, c)
        BY <2>1 DEF BaseInv, WholeStands
      <3>2. PICK a \in PlayerTicks :
              /\ a <= appliedAt[c]
              /\ \A s \in states :
                   c \in DOMAIN s.given /\ a <= s.consumed /\ s.consumed <= m.consumed
                       => s.given[c] = truth[m.consumed][c]
        BY <3>1 DEF Stands
      <3>3. \A s \in states' : s.consumed <= m.consumed => s \in states
        BY <1>5, <1>6, <1>9, <2>1
      <3> QED BY <1>9, <2>1, <3>2, <3>3
    <2>2. CASE m \notin states
      <3>1. m.consumed = n /\ DOMAIN m.given = pending
        BY <1>5, <2>2
      <3>2. ackedAt[c] >= changedAt[c] /\ lastSent[c] = state[c] /\ c \notin due
        BY <1>7, <3>1
      <3>3. changedAt[c] \in PlayerTicks /\ changedAt[c] <= appliedAt[c]
        <4>1. ackedAt[c] <= appliedAt[c]
          BY DEF BaseInv, AcksApplied
        <4>2. ackedAt[c] \in Int /\ changedAt[c] \in Int /\ appliedAt[c] \in Int
          BY <1>8, LaneNaturals DEF PlayerTicks, Never
        <4> QED BY <1>8, <3>2, <4>1, <4>2
      <3>4. \A s \in states' : c \in DOMAIN s.given /\ changedAt[c] <= s.consumed
                => s.given[c] = state[c]
        <4> SUFFICES ASSUME NEW s \in states', c \in DOMAIN s.given, changedAt[c] <= s.consumed
                     PROVE  s.given[c] = state[c]
          OBVIOUS
        <4>1. s \in states
          BY <1>5, <3>2
        <4>2. s.consumed >= changedAt[c]
          BY <1>9, <3>3, <4>1, LaneNaturals, <1>6 DEF PlayerTicks
        <4> QED BY <3>2, <4>1, <4>2 DEF BaseInv, ServerSide, SentSince
      <3> QED BY <1>6, <3>1, <3>3, <3>4
    <2> QED BY <2>1, <2>2
  <1>14. KnownHeard' /\ HeardAll'
    BY <1>2, <1>5 DEF BaseInv, KnownHeard, HeardIn, HeardAll
  <1>15. compared' <= Len(truth') /\ BaseIsServers'
    <2>1. compared \in PlayerTicks /\ compared <= Len(truth)
      BY DEF PredictionInv, AheadTyped, BaseInv
    <2>2. compared' <= Len(truth')
      BY <1>2, <1>6, <2>1, LaneNaturals DEF PlayerTicks
    <2>3. Truth(compared)' = Truth(compared)
      <3>1. CASE compared = 0
        BY <1>2, <3>1 DEF Truth
      <3>2. CASE compared # 0
        <4>1. compared \in 1..Len(truth)
          BY <1>6, <2>1, <3>2, LaneNaturals DEF PlayerTicks
        <4> QED BY <1>2, <1>6, <3>2, <4>1 DEF Truth
      <3> QED BY <3>1, <3>2
    <2>4. BaseIsServers'
      BY <1>2, <2>3 DEF BaseInv, BaseIsServers
    <2> QED BY <2>2, <2>4
  <1> QED BY <1>10, <1>11, <1>12, <1>13, <1>14, <1>15 DEF BaseInv, ServerSide

(* An acknowledgement says no more than was applied.                       *)
LEMMA BaseAck ==
    ASSUME PredictionInv, BaseInv, NEW d \in Components, AckArrives(d)
    PROVE  BaseInv'
  <1>1. UNCHANGED <<truth, lastSent, sentAt, changedAt, states, appliedAt, known, started, base, compared,
                    wholeBase>>
        /\ ackedAt' = [ackedAt EXCEPT ![d] = appliedAt[d]]
    BY DEF AckArrives, predicted, mirror
  <1>2. AcksApplied'
    <2> SUFFICES ASSUME NEW c \in Components PROVE ackedAt'[c] <= appliedAt[c]
      BY <1>1 DEF AcksApplied
    <2>1. ackedAt \in [Components -> PlayerTicks \cup {Never}] /\ appliedAt[c] \in Int
      BY LaneNaturals DEF PredictionInv, ServerTyped, MirrorTyped, PlayerTicks
    <2>2. CASE c = d
      BY <1>1, <2>1, <2>2
    <2>3. CASE c # d
      BY <1>1, <2>1, <2>3 DEF BaseInv, AcksApplied
    <2> QED BY <2>2, <2>3
  <1>3. ServerSide' /\ WholeStands' /\ KnownHeard' /\ HeardAll'
    BY <1>1 DEF BaseInv, ServerSide, GivenTrue, SentSince, WholeStands, Stands, KnownHeard, HeardIn, HeardAll
  <1>4. compared' <= Len(truth') /\ BaseIsServers'
    BY <1>1 DEF BaseInv, BaseIsServers, Truth
  <1> QED BY <1>2, <1>3, <1>4 DEF BaseInv

(* Where neither the states nor what is known of them change.              *)
LEMMA BaseAlone ==
    ASSUME BaseInv,
           UNCHANGED <<serverPlayer, appliedAt, known, started, base, compared, wholeBase>>
    PROVE  BaseInv'
  <1>1. UNCHANGED <<truth, lastSent, changedAt, ackedAt, states, appliedAt, known, started, base,
                    compared, wholeBase>>
    BY DEF serverPlayer
  <1>2. ServerSide' /\ AcksApplied' /\ WholeStands' /\ KnownHeard' /\ HeardAll'
    BY <1>1 DEF BaseInv, ServerSide, GivenTrue, SentSince, AcksApplied, WholeStands, Stands, KnownHeard,
                HeardIn, HeardAll
  <1>3. compared' <= Len(truth') /\ BaseIsServers'
    BY <1>1 DEF BaseInv, BaseIsServers, Truth
  <1> QED BY <1>2, <1>3 DEF BaseInv

(* A whole state compared, with nothing heard of a later tick, is the      *)
(* server's own: what it gives, and for what it leaves out, what was last  *)
(* heard.                                                                  *)
LEMMA WholeIsServers ==
    ASSUME PredictionInv, BaseInv, NEW m \in states, m.whole, started,
           \A c \in Components :
               (IF c \in Staged(m) THEN m.consumed ELSE appliedAt[c]) <= m.consumed
    PROVE  Corrected(m) = Truth(m.consumed)
  <1>1. m.consumed \in 1..Len(truth) /\ truth \in Seq(State)
    BY DEF BaseInv, ServerSide, GivenTrue, PredictionInv, ServerTyped
  <1>2. Truth(m.consumed) = truth[m.consumed] /\ truth[m.consumed] \in State
    BY <1>1, ElementOfSeq DEF Truth
  <1>3. ASSUME NEW c \in Components PROVE Corrected(m)[c] = truth[m.consumed][c]
    <2>1. appliedAt[c] # 0
      BY DEF BaseInv, HeardAll
    <2>2. Corrected(m)[c] = KnownWith(m)[c]
      BY <2>1 DEF Corrected, Spoken, HeardOf
    <2>3. CASE c \in Staged(m)
      <3>1. KnownWith(m)[c] = m.given[c] /\ c \in DOMAIN m.given
        BY <2>3 DEF KnownWith, Staged
      <3> QED BY <2>2, <3>1 DEF BaseInv, ServerSide, GivenTrue
    <2>4. CASE c \notin Staged(m)
      <3>1. KnownWith(m)[c] = known[c] /\ appliedAt[c] <= m.consumed
        BY <2>4 DEF KnownWith
      <3>2. c \in Components \ DOMAIN m.given
        BY <2>4, <3>1 DEF Staged
      <3>3. PICK a \in PlayerTicks :
              /\ a <= appliedAt[c]
              /\ \A s \in states :
                   c \in DOMAIN s.given /\ a <= s.consumed /\ s.consumed <= m.consumed
                       => s.given[c] = truth[m.consumed][c]
        BY <3>2 DEF BaseInv, WholeStands, Stands
      <3>4. PICK s \in states : HeardIn(c, s)
        BY <2>1 DEF BaseInv, KnownHeard
      <3> QED BY <2>2, <3>1, <3>3, <3>4 DEF HeardIn
    <2> QED BY <2>3, <2>4
  <1>4. Corrected(m) = [c \in Components |-> Corrected(m)[c]]
    BY DEF Corrected
  <1>5. truth[m.consumed] = [c \in Components |-> truth[m.consumed][c]]
    BY <1>2 DEF State
  <1> QED BY <1>2, <1>3, <1>4, <1>5

(* A state heard: what is applied of it, and what it is compared with.     *)
LEMMA BaseHeard ==
    ASSUME LaneInv, PredictionInv, BaseInv, NEW m \in states, OnState(m)
    PROVE  BaseInv'
  <1>1. /\ appliedAt' = [c \in Components |-> IF c \in Staged(m) THEN m.consumed ELSE appliedAt[c]]
        /\ known' = KnownWith(m)
        /\ UNCHANGED serverPlayer
        /\ Authoritative(m) \/ UNCHANGED predicted
    BY DEF OnState
  <1>2. UNCHANGED <<truth, shoves, lastSent, sentAt, changedAt, ackedAt, states>>
    BY <1>1 DEF serverPlayer
  <1>3. m.consumed \in 1..Len(truth) /\ Len(truth) \in Nat
    BY LenProperties DEF BaseInv, ServerSide, GivenTrue, PredictionInv, ServerTyped
  <1>4. /\ appliedAt \in [Components -> PlayerTicks] /\ m.consumed \in Nat
        /\ ackedAt \in [Components -> PlayerTicks \cup {Never}]
    BY <1>3 DEF PredictionInv, MirrorTyped, ServerTyped
  <1>5. \A c \in Components : appliedAt[c] <= appliedAt'[c] /\ (appliedAt[c] # 0 => appliedAt'[c] # 0)
    BY <1>1, <1>3, <1>4, LaneNaturals DEF Staged, PlayerTicks
  <1>6. ServerSide'
    BY <1>2 DEF BaseInv, ServerSide, GivenTrue, SentSince
  <1>7. AcksApplied'
    <2> SUFFICES ASSUME NEW c \in Components PROVE ackedAt[c] <= appliedAt'[c]
      BY <1>2 DEF AcksApplied
    <2>1. ackedAt[c] \in Int /\ appliedAt[c] \in Int /\ appliedAt'[c] \in Int
      BY <1>1, <1>4, LaneNaturals DEF PlayerTicks, Never
    <2> QED BY <1>5, <2>1 DEF BaseInv, AcksApplied
  <1>8. WholeStands'
    <2> SUFFICES ASSUME NEW w \in states, w.whole, NEW c \in Components \ DOMAIN w.given
                 PROVE  \E a \in PlayerTicks :
                            /\ a <= appliedAt'[c]
                            /\ \A s \in states :
                                 c \in DOMAIN s.given /\ a <= s.consumed /\ s.consumed <= w.consumed
                                     => s.given[c] = truth[w.consumed][c]
      BY <1>2 DEF WholeStands, Stands
    <2>1. PICK a \in PlayerTicks :
              /\ a <= appliedAt[c]
              /\ \A s \in states :
                   c \in DOMAIN s.given /\ a <= s.consumed /\ s.consumed <= w.consumed
                       => s.given[c] = truth[w.consumed][c]
      BY DEF BaseInv, WholeStands, Stands
    <2>2. a <= appliedAt'[c]
      BY <1>1, <1>4, <1>5, <2>1, LaneNaturals DEF PlayerTicks
    <2> QED BY <2>1, <2>2
  <1>9. KnownHeard'
    <2> SUFFICES ASSUME NEW c \in Components, appliedAt'[c] # 0
                 PROVE  \E s \in states : c \in DOMAIN s.given /\ s.consumed = appliedAt'[c]
                                          /\ s.given[c] = known'[c]
      BY <1>2 DEF KnownHeard, HeardIn
    <2>1. CASE c \in Staged(m)
      BY <1>1, <2>1 DEF Staged, KnownWith
    <2>2. CASE c \notin Staged(m)
      <3>1. appliedAt'[c] = appliedAt[c] /\ known'[c] = known[c]
        BY <1>1, <2>2 DEF KnownWith
      <3> QED BY <3>1 DEF BaseInv, KnownHeard, HeardIn
    <2> QED BY <2>1, <2>2
  <1>10. ASSUME UNCHANGED predicted
         PROVE  HeardAll' /\ compared' <= Len(truth') /\ BaseIsServers'
    <2>1. UNCHANGED <<started, base, compared, wholeBase>>
      BY <1>10 DEF predicted
    <2>2. HeardAll' /\ compared' <= Len(truth')
      BY <1>2, <1>5, <2>1 DEF BaseInv, HeardAll
    <2>3. Truth(compared)' = Truth(compared)
      BY <1>2, <2>1 DEF Truth
    <2>4. \A c \in Components : appliedAt'[c] <= compared => appliedAt[c] <= compared
      <3>1. compared \in Int /\ \A c \in Components : appliedAt[c] \in Int /\ appliedAt'[c] \in Int
        BY <1>1, <1>4, LaneNaturals DEF PlayerTicks, PredictionInv, AheadTyped
      <3> QED BY <1>5, <3>1
    <2>5. BaseIsServers'
      BY <2>1, <2>3, <2>4 DEF BaseInv, BaseIsServers
    <2> QED BY <2>2, <2>5
  <1>11. ASSUME started, Confirm(m) \/ RollBack(m)
         PROVE  HeardAll' /\ compared' <= Len(truth') /\ BaseIsServers'
    <2>1. base' = Corrected(m) /\ compared' = m.consumed /\ wholeBase' = m.whole /\ started' = started
      BY <1>11 DEF Confirm, RollBack
    <2>2. HeardAll' /\ compared' <= Len(truth')
      BY <1>2, <1>3, <1>5, <2>1 DEF BaseInv, HeardAll
    <2>3. Truth(compared)' = Truth(m.consumed)
      BY <1>2, <2>1 DEF Truth
    <2>4. BaseIsServers'
      <3> SUFFICES ASSUME wholeBase', \A c \in Components : appliedAt'[c] <= compared'
                   PROVE  Corrected(m) = Truth(m.consumed)
        BY <2>1, <2>3 DEF BaseIsServers
      <3>1. \A c \in Components : (IF c \in Staged(m) THEN m.consumed ELSE appliedAt[c]) <= m.consumed
        BY <1>1, <2>1
      <3> QED BY <1>11, <2>1, <3>1, WholeIsServers
    <2> QED BY <2>2, <2>4
  <1>12. ASSUME Start(m)
         PROVE  HeardAll' /\ compared' <= Len(truth') /\ BaseIsServers'
    <2>1. HeardOf(m) = Components /\ compared' = m.consumed /\ wholeBase' = FALSE
      BY <1>12 DEF Start
    <2>2. \A c \in Components : appliedAt'[c] # 0
      BY <1>1, <1>3, <2>1 DEF HeardOf
    <2> QED BY <1>2, <1>3, <2>1, <2>2 DEF HeardAll, BaseIsServers
  <1>13. HeardAll' /\ compared' <= Len(truth') /\ BaseIsServers'
    BY <1>1, <1>10, <1>11, <1>12 DEF Authoritative, Passed, NotYet
  <1> QED BY <1>6, <1>7, <1>8, <1>9, <1>13 DEF BaseInv

(* Together.                                                               *)
LEMMA BaseSteps ==
    ASSUME LaneInv, PredictionInv, BaseInv, [Next]_vars
    PROVE  BaseInv'
  <1>1. ASSUME UNCHANGED <<serverPlayer, predicted, mirror>> PROVE BaseInv'
    <2>1. UNCHANGED <<serverPlayer, appliedAt, known, started, base, compared, wholeBase>>
      BY <1>1 DEF predicted, mirror
    <2> QED BY <2>1, BaseAlone
  <1>2. CASE PSample
    <2>1. UNCHANGED <<serverPlayer, appliedAt, known, started, base, compared, wholeBase>>
      BY <1>2 DEF PSample, Advance, mirror, predicted
    <2> QED BY <2>1, BaseAlone
  <1>3. CASE PSendWindow
    BY <1>1, <1>3 DEF PSendWindow
  <1>4. ASSUME NEW pace \in paces, POnPace(pace) PROVE BaseInv'
    BY <1>1, <1>4 DEF POnPace
  <1>5. ASSUME NEW w \in windows, PHear(w) PROVE BaseInv'
    BY <1>1, <1>5 DEF PHear
  <1>6. CASE PPlay
    BY <1>6, BasePlay
  <1>7. ASSUME NEW c \in Components, AckArrives(c) PROVE BaseInv'
    BY <1>7, BaseAck
  <1>8. ASSUME NEW m \in states, OnState(m) PROVE BaseInv'
    BY <1>8, BaseHeard
  <1>9. CASE UNCHANGED vars
    BY <1>1, <1>9 DEF vars
  <1> QED BY <1>2, <1>3, <1>4, <1>5, <1>6, <1>7, <1>8, <1>9 DEF Next

(* What was compared with the server's whole state is the server's state   *)
(* there, through any loss, delay and sharing of the datagrams and values  *)
(* that change back, for every game.                                       *)
THEOREM BaseAsServers == Spec => []BaseIsServers
  <1>1. Init => BaseInv
    <2> SUFFICES ASSUME Init PROVE BaseInv
      OBVIOUS
    <2>1. /\ states = {} /\ truth = <<>> /\ compared = 0 /\ started = FALSE /\ wholeBase = FALSE
          /\ \A c \in Components : ackedAt[c] = -1 /\ appliedAt[c] = 0
      BY DEF Init, Never
    <2>2. Len(truth) = 0
      BY <2>1, EmptySeq
    <2>3. ServerSide /\ WholeStands /\ KnownHeard /\ HeardAll
      BY <2>1 DEF ServerSide, GivenTrue, SentSince, WholeStands, KnownHeard, HeardAll
    <2>4. AcksApplied /\ compared <= Len(truth) /\ BaseIsServers
      BY <2>1, <2>2 DEF AcksApplied, BaseIsServers
    <2> QED BY <2>3, <2>4 DEF BaseInv
  <1>2. BaseInv => BaseIsServers
    BY DEF BaseInv
  <1>3. BaseInv /\ LaneInv /\ PredictionInv /\ [Next]_vars => BaseInv'
    BY BaseSteps
  <1> QED BY <1>1, <1>2, <1>3, LaneHolds, PredictionHolds, PTL DEF Spec
=============================================================================
