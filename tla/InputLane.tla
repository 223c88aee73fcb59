------------------------------ MODULE InputLane ------------------------------
(***************************************************************************)
(* One connection's input: the commands a client labels with the input     *)
(* ticks they are for, the windows of them it sends again and again until  *)
(* the server says it consumed them, and the lane on the server that plays *)
(* exactly one command a tick: the one labelled for it, the last one held  *)
(* for a while, or neutral.  The server measures how early the windows     *)
(* come and paces the client with it.                                      *)
(*                                                                         *)
(* The input ticks are counted from the connection's origin, and the       *)
(* server plays one every tick of its own, so its tick is the input tick   *)
(* next to play less one.  Datagrams are never taken out of the sets they  *)
(* are in: one may come late, after a later one, or never.                 *)
(***************************************************************************)
EXTENDS Integers, Sequences

CONSTANTS
    HoldLast,        \* inputHoldLast: ticks the last command is held for
    FutureWindow,    \* inputFutureWindow
    MaxAge,          \* maximumAgeTicks: ticks a command may wait
    InputWindow,     \* kMaximumInputWindow: the most commands in a window
    TargetLead,      \* targetInputLead
    LeadSlack,       \* kLeadSlack
    DilationSamples, \* kDilationSamples
    PaceInterval,    \* paceInterval
    Commands,        \* bound: samples the client labels
    MaxLabel,        \* bound: the latest tick a command is labelled for
    LastTick         \* bound: ticks the server runs

ASSUME LaneNaturals ==
    /\ HoldLast \in Nat /\ FutureWindow \in Nat /\ MaxAge \in Nat /\ TargetLead \in Nat
    /\ LeadSlack \in Nat /\ Commands \in Nat /\ MaxLabel \in Nat /\ LastTick \in Nat
ASSUME LanePositive ==
    /\ InputWindow \in Nat \ {0} /\ DilationSamples \in Nat \ {0} /\ PaceInterval \in Nat \ {0}

VARIABLES
    \* the client
    samples,       \* samples labelled so far: each is a command of its own
    nextLabel,     \* nextInputTick
    unconsumed,    \* the commands sent until consumed, oldest first
    heardConsumed, \* consumedInputTick
    holdBack, sinceHeld, paceSequence, jumped, lastLead,
    \* the server's peer
    nextInput,     \* nextInputTick
    waiting,       \* waitingInputs, by tick
    lastCommand, held, heardInput, newestHeard, heardAt, leastLead, pendingLead,
    \* what is on its way
    windows, paces,
    \* what happened
    labelled,      \* the command each tick was labelled with by the client
    played,        \* what the server played at each input tick
    gapped         \* whether a label was left out behind commands not yet consumed

clientInput == <<samples, nextLabel, unconsumed, holdBack, sinceHeld>>
pacing == <<paceSequence, jumped, lastLead>>
serverInput == <<nextInput, waiting, lastCommand, held, pendingLead, played>>
heardLane == <<heardInput, newestHeard, heardAt>>
laneVars == <<samples, nextLabel, unconsumed, heardConsumed, holdBack, sinceHeld, paceSequence,
              jumped, lastLead, nextInput, waiting, lastCommand, held, heardInput, newestHeard,
              heardAt, leastLead, pendingLead, windows, paces, labelled, played, gapped>>

-----------------------------------------------------------------------------
Ticks == 1..MaxLabel

(* Command 0 is no command, and as one that is played, the neutral one.    *)
Neutral == 0
Command == 1..Commands
Labelled == [tick : Ticks, command : Command]
Waiting == [command : 0..Commands, arrived : 0..LastTick]
NoInput == [command |-> Neutral, arrived |-> 0]

(* A lead not measured, above every lead that is.                          *)
NoLead == MaxLabel + LastTick + 1
Lead == (-LastTick - 1)..NoLead
Lesser(a, b) == IF a <= b THEN a ELSE b
Greater(a, b) == IF a >= b THEN a ELSE b

(* The pace's greatest lead less its target, the most a later jump makes   *)
(* up at once.                                                             *)
Room == Greater(MaxAge - TargetLead, 1)

(* The server's own tick, as it runs it or is about to.                    *)
Tick == nextInput - 1

(* What a tick was played with: a command come for it, the last one held,  *)
(* or neutral.                                                             *)
PlayedAs == {"fresh", "held", "neutral"}
Played == [kind : PlayedAs, command : 0..Commands]

LaneInit ==
    /\ samples = 0 /\ nextLabel = 1 /\ unconsumed = <<>> /\ heardConsumed = 0
    /\ holdBack = 0 /\ sinceHeld = 0 /\ paceSequence = 0 /\ jumped = FALSE /\ lastLead = NoLead
    /\ nextInput = 1 /\ waiting = [t \in Ticks |-> NoInput]
    /\ lastCommand = Neutral /\ held = 0 /\ heardInput = FALSE /\ newestHeard = 0 /\ heardAt = 0
    /\ leastLead = NoLead /\ pendingLead = NoLead
    /\ windows = {} /\ paces = {}
    /\ labelled = [t \in Ticks |-> Neutral] /\ played = <<>> /\ gapped = FALSE

-----------------------------------------------------------------------------
(* The client.                                                             *)

(* The first k commands waiting are those the server said it consumed.     *)
Done(k) ==
    /\ \A i \in 1..k : unconsumed[i].tick <= heardConsumed
    /\ \A i \in k + 1..Len(unconsumed) : unconsumed[i].tick > heardConsumed
After(k) == SubSeq(unconsumed, k + 1, Len(unconsumed))

(* The newest InputWindow of a sequence.                                   *)
Newest(seq) ==
    IF Len(seq) > InputWindow THEN SubSeq(seq, Len(seq) - InputWindow + 1, Len(seq)) ELSE seq

(* Far early, one sample in DilationSamples is left unlabelled.            *)
HoldsBack == holdBack > 0 /\ sinceHeld + 1 >= DilationSamples

Withhold(open) ==
    /\ HoldsBack
    /\ holdBack' = holdBack - 1
    /\ sinceHeld' = 0
    /\ unconsumed' = open
    /\ UNCHANGED <<samples, nextLabel, labelled, gapped>>

Label(open) ==
    /\ ~HoldsBack
    /\ samples < Commands /\ nextLabel \in Ticks
    /\ samples' = samples + 1
    /\ sinceHeld' = sinceHeld + 1
    /\ nextLabel' = nextLabel + 1
    /\ labelled' = [labelled EXCEPT ![nextLabel] = samples + 1]
    /\ unconsumed' = Newest(Append(open, [tick |-> nextLabel, command |-> samples + 1]))
    /\ gapped' = (gapped \/ (open # <<>> /\ open[Len(open)].tick + 1 # nextLabel))
    /\ UNCHANGED holdBack

Sample ==
    /\ \E k \in 0..Len(unconsumed) : Done(k) /\ (Withhold(After(k)) \/ Label(After(k)))
    /\ UNCHANGED <<heardConsumed, pacing, serverInput, heardLane, leastLead, windows, paces>>

(* A window says only its newest tick: its commands are read as those of   *)
(* the ticks that end there.                                               *)
WindowNow ==
    [newest |-> unconsumed[Len(unconsumed)].tick,
     commands |-> [i \in 1..Len(unconsumed) |-> unconsumed[i].command]]

SendWindow ==
    /\ unconsumed # <<>> /\ WindowNow \notin windows
    /\ windows' = windows \cup {WindowNow}
    /\ UNCHANGED <<clientInput, heardConsumed, pacing, serverInput, heardLane, leastLead, paces,
                   labelled, gapped>>

(* Late: the labels jump ahead, by all of it the first time and by no more *)
(* than Room later, when two signals in a row find it and it does not      *)
(* shrink.  Early past the slack: samples to leave unlabelled.             *)
JumpsFor(lead) ==
    lead < TargetLead /\ (lastLead = NoLead \/ (lastLead < TargetLead /\ lead <= lastLead))
Jump(lead) == IF lastLead = NoLead THEN TargetLead - lead ELSE Lesser(TargetLead - lead, Room)
HoldBackFor(lead) == IF lead > TargetLead + LeadSlack THEN lead - TargetLead ELSE 0

(* The pace after a jump measured the ticks before it took effect.         *)
PassOver(pace) ==
    /\ jumped
    /\ jumped' = FALSE
    /\ UNCHANGED <<nextLabel, holdBack, lastLead>>

FollowPace(pace) ==
    /\ ~jumped
    /\ holdBack' = HoldBackFor(pace.lead)
    /\ IF JumpsFor(pace.lead)
       THEN /\ nextLabel + Jump(pace.lead) <= MaxLabel + 1
            /\ nextLabel' = nextLabel + Jump(pace.lead)
            /\ jumped' = TRUE
            /\ lastLead' = pace.lead + Jump(pace.lead)
       ELSE lastLead' = pace.lead /\ UNCHANGED <<nextLabel, jumped>>

OnPace(pace) ==
    /\ pace \in paces
    /\ pace.sequence > paceSequence
    /\ paceSequence' = pace.sequence
    /\ (PassOver(pace) \/ FollowPace(pace))
    /\ UNCHANGED <<samples, unconsumed, sinceHeld, heardConsumed, serverInput, heardLane, leastLead,
                   windows, paces, labelled, gapped>>

(* A state says through which tick the input is consumed.                  *)
HearConsumed(consumed) ==
    /\ consumed < nextInput
    /\ heardConsumed' = Greater(heardConsumed, consumed)
    /\ UNCHANGED <<clientInput, pacing, serverInput, heardLane, leastLead, windows, paces, labelled,
                   gapped>>

-----------------------------------------------------------------------------
(* The server.                                                             *)

(* The lead since the window before counts if this one came within a       *)
(* command's age of it; else, as for the first, what it is found at.       *)
LeadHeard(window) ==
    IF pendingLead # NoLead /\ Tick <= heardAt + MaxAge
    THEN pendingLead ELSE window.newest - nextInput

FirstTick_OneLater(window) == window.newest + 2 - Len(window.commands)
FirstTick(window) == window.newest + 1 - Len(window.commands)

(* A tick takes the first command heard for it, neither played already nor *)
(* too far ahead.                                                          *)
Takes(window, t) ==
    /\ t >= FirstTick(window) /\ t <= window.newest
    /\ t >= nextInput /\ t < nextInput + FutureWindow
    /\ waiting[t].command = Neutral

Hear(window) ==
    /\ window \in windows
    /\ nextInput <= LastTick
    /\ newestHeard' = Greater(newestHeard, window.newest)
    /\ leastLead' = Lesser(leastLead, LeadHeard(window))
    /\ pendingLead' = NoLead
    /\ heardInput' = TRUE
    /\ heardAt' = Tick
    /\ waiting' = [t \in Ticks |->
                     IF Takes(window, t)
                     THEN [command |-> window.commands[t - FirstTick(window) + 1], arrived |-> Tick]
                     ELSE waiting[t]]
    /\ UNCHANGED <<clientInput, heardConsumed, pacing, nextInput, lastCommand, held, played, windows,
                   paces, labelled, gapped>>

(* What has come for the tick to play, and not too long ago.               *)
Come == IF nextInput \in Ticks THEN waiting[nextInput] ELSE NoInput
Fresh == Come.command # Neutral /\ Tick <= Come.arrived + MaxAge
Holds == ~Fresh /\ lastCommand # Neutral /\ held < HoldLast

(* What the tick is played with, and what is held from it.                 *)
Plays ==
    CASE Fresh -> [kind |-> "fresh", command |-> Come.command]
      [] Holds -> [kind |-> "held", command |-> lastCommand]
      [] OTHER -> [kind |-> "neutral", command |-> Neutral]

ApplyInputs ==
    /\ pendingLead' = IF heardInput THEN Lesser(pendingLead, newestHeard - nextInput) ELSE pendingLead
    /\ played' = Append(played, Plays)
    /\ lastCommand' = IF Fresh THEN Come.command ELSE lastCommand
    /\ held' = IF Fresh THEN 0 ELSE IF Holds THEN held + 1 ELSE held
    /\ waiting' = [t \in Ticks |-> IF t <= nextInput THEN NoInput ELSE waiting[t]]
    /\ nextInput' = nextInput + 1

Paces == heardInput /\ Tick % PaceInterval = 0 /\ leastLead # NoLead

SendPace ==
    IF Paces
    THEN paces' = paces \cup {[sequence |-> nextInput, lead |-> leastLead]} /\ leastLead' = NoLead
    ELSE UNCHANGED <<paces, leastLead>>

(* A tick of the server: what has come is played, then the pace goes out.  *)
Play ==
    /\ nextInput <= LastTick
    /\ ApplyInputs
    /\ SendPace
    /\ UNCHANGED <<clientInput, heardConsumed, pacing, heardLane, windows, labelled, gapped>>

LaneNext ==
    \/ Sample
    \/ SendWindow
    \/ \E pace \in paces : OnPace(pace)
    \/ \E consumed \in 1..LastTick : HearConsumed(consumed)
    \/ \E window \in windows : Hear(window)
    \/ Play

LaneSpec == LaneInit /\ [][LaneNext]_laneVars

-----------------------------------------------------------------------------
(* What the lane promises.                                                 *)

LaneTypeOK ==
    /\ samples \in 0..Commands /\ nextLabel \in 1..MaxLabel + 1
    /\ unconsumed \in Seq(Labelled) /\ Len(unconsumed) <= InputWindow
    /\ heardConsumed \in 0..LastTick
    /\ holdBack \in Nat /\ sinceHeld \in Nat /\ paceSequence \in 0..LastTick
    /\ jumped \in BOOLEAN /\ lastLead \in Int
    /\ nextInput \in 1..LastTick + 1 /\ waiting \in [Ticks -> Waiting]
    /\ lastCommand \in 0..Commands /\ held \in 0..HoldLast
    /\ heardInput \in BOOLEAN /\ newestHeard \in 0..MaxLabel /\ heardAt \in 0..LastTick
    /\ leastLead \in Lead /\ pendingLead \in Lead
    /\ \A w \in windows :
         w.newest \in Ticks /\ w.commands \in Seq(Command) /\ Len(w.commands) \in 1..InputWindow
    /\ \A p \in paces : p.sequence \in 1..LastTick /\ p.lead \in Lead
    /\ labelled \in [Ticks -> 0..Commands] /\ played \in Seq(Played) /\ gapped \in BOOLEAN
    /\ Len(played) = nextInput - 1

(* A tick is played with the command the client labelled for it, when it   *)
(* is played with one that came for it (records.h on InputWindow: "the     *)
(* commands for the consecutive ticks ending there"; client.cpp on onPace: *)
(* "A tick once labelled keeps its command").  Past a gap it does not hold. *)
LabelsKept ==
    \A t \in 1..Len(played) :
        played[t].kind = "fresh" => t \in Ticks /\ labelled[t] = played[t].command

(* The same while no pace has made the client leave labels out behind      *)
(* commands the server has not consumed, whatever windows are lost, late   *)
(* or heard again and however the ticks before were played; and even past  *)
(* a gap no tick is played with a command meant for a later one.           *)
KeptUntilGap == gapped \/ LabelsKept
NeverEarly ==
    \A t \in 1..Len(played) :
        played[t].kind = "fresh" => \E s \in Ticks : s <= t /\ labelled[s] = played[t].command
InTheirTicks == KeptUntilGap /\ NeverEarly

(* A command is held for at most HoldLast ticks after the tick it came     *)
(* for, with no other between: a silent client's player stops.             *)
HeldWithinReach ==
    \A t \in 1..Len(played) :
        played[t].kind = "held" =>
            \E s \in 1..t - 1 :
                /\ t - s <= HoldLast
                /\ played[s].kind = "fresh" /\ played[s].command = played[t].command
                /\ \A u \in s + 1..t - 1 : played[u].kind = "held"
=============================================================================
