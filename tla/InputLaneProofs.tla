--------------------------- MODULE InputLaneProofs ---------------------------
(***************************************************************************)
(* What the input lane promises, for every window, age, pace and bound:    *)
(* until a pace makes the client leave labels out behind commands not yet  *)
(* consumed, a tick is played with its own command or none that came for   *)
(* it; no tick is ever played with a command meant for a later one; and a  *)
(* command is held for no longer than it may be.                           *)
(***************************************************************************)
EXTENDS InputLane, SequenceTheorems, TLAPS

(* Commands as they were labelled: below the next label, and one tick      *)
(* apart at least.                                                         *)
LabelledBelow(seq, next) ==
    \A i \in 1..Len(seq) : labelled[seq[i].tick] = seq[i].command /\ seq[i].tick < next
SpreadOut(seq) ==
    \A i \in 1..Len(seq) : seq[i].tick + (Len(seq) - i) <= seq[Len(seq)].tick

(* Exactly one apart.                                                      *)
Tight(seq) == \A i \in 1..Len(seq) : seq[i].tick + (Len(seq) - i) = seq[Len(seq)].tick

OpenLabels ==
    /\ LabelledBelow(unconsumed, nextLabel)
    /\ SpreadOut(unconsumed)
    /\ ~gapped => Tight(unconsumed)
Unlabelled == \A t \in Ticks : t >= nextLabel => labelled[t] = Neutral

(* A command read as one for t was labelled for t or before, and until     *)
(* then for t.                                                             *)
Meant(c, t) ==
    /\ \E s \in Ticks : s <= t /\ labelled[s] = c
    /\ ~gapped => t \in Ticks /\ labelled[t] = c

WindowsMeant ==
    \A w \in windows : \A i \in 1..Len(w.commands) :
        Meant(w.commands[i], w.newest - Len(w.commands) + i)
WaitingMeant == \A t \in Ticks : waiting[t].command # Neutral => Meant(waiting[t].command, t)
PlayedMeant ==
    \A t \in 1..Len(played) :
        played[t].kind = "fresh" => played[t].command # Neutral /\ Meant(played[t].command, t)

Labels == OpenLabels /\ Unlabelled
Meanings == WindowsMeant /\ WaitingMeant /\ PlayedMeant

(* While a command may be held on, it came where its holding began.        *)
LastHeld ==
    (lastCommand # Neutral /\ held < HoldLast) =>
        /\ Len(played) - held \in 1..Len(played)
        /\ played[Len(played) - held].kind = "fresh"
        /\ played[Len(played) - held].command = lastCommand
        /\ \A u \in Len(played) - held + 1..Len(played) : played[u].kind = "held"

LaneInv == LaneTypeOK /\ Labels /\ Meanings /\ LastHeld /\ HeldWithinReach

-----------------------------------------------------------------------------
(* What a command was meant for stays so as further ticks are labelled.    *)
LEMMA MeantStays ==
    ASSUME NEW c, NEW t, c # Neutral, Meant(c, t),
           \A s \in Ticks : labelled[s] # Neutral => labelled'[s] = labelled[s],
           gapped => gapped'
    PROVE  Meant(c, t)'
  BY DEF Meant

(* The meanings of what lies in the windows, the waiting commands and the  *)
(* ticks played, where only the labels change.                             *)
LEMMA MeaningsStay ==
    ASSUME LaneTypeOK, Meanings,
           \A s \in Ticks : labelled[s] # Neutral => labelled'[s] = labelled[s],
           gapped => gapped',
           UNCHANGED <<windows, waiting, played>>
    PROVE  Meanings'
  <1>1. WindowsMeant'
    <2> SUFFICES ASSUME NEW w \in windows, NEW i \in 1..Len(w.commands)
                 PROVE  Meant(w.commands[i], w.newest - Len(w.commands) + i)'
      BY DEF WindowsMeant
    <2>1. w.commands[i] # Neutral
      <3>1. w.commands \in Seq(Command)
        BY DEF LaneTypeOK
      <3>2. w.commands[i] \in Command
        BY <3>1, ElementOfSeq
      <3> QED BY <3>2, LaneNaturals DEF Command, Neutral
    <2>2. Meant(w.commands[i], w.newest - Len(w.commands) + i)
      BY DEF Meanings, WindowsMeant
    <2> QED BY <2>1, <2>2, MeantStays
  <1>2. WaitingMeant'
    <2> SUFFICES ASSUME NEW t \in Ticks, waiting[t].command # Neutral
                 PROVE  Meant(waiting[t].command, t)'
      BY DEF WaitingMeant
    <2>1. Meant(waiting[t].command, t)
      BY DEF Meanings, WaitingMeant
    <2> QED BY <2>1, MeantStays
  <1>3. PlayedMeant'
    <2> SUFFICES ASSUME NEW t \in 1..Len(played), played[t].kind = "fresh"
                 PROVE  played[t].command # Neutral /\ Meant(played[t].command, t)'
      BY DEF PlayedMeant
    <2>1. played[t].command # Neutral /\ Meant(played[t].command, t)
      BY DEF Meanings, PlayedMeant
    <2> QED BY <2>1, MeantStays
  <1> QED BY <1>1, <1>2, <1>3 DEF Meanings

-----------------------------------------------------------------------------
(* The end of a sequence: all of it but the first d.                       *)
EndOf(tail, seq, d) ==
    /\ d \in 0..Len(seq)
    /\ tail \in Seq(Labelled) /\ Len(tail) = Len(seq) - d
    /\ \A i \in 1..Len(tail) : tail[i] = seq[i + d]

LEMMA EndIsEnd ==
    ASSUME NEW seq \in Seq(Labelled), NEW d \in 0..Len(seq)
    PROVE  EndOf(SubSeq(seq, d + 1, Len(seq)), seq, d)
  <1>1. Len(seq) \in Nat
    BY LenProperties
  <1>2. \A i \in d + 1..Len(seq) : seq[i] \in Labelled
    BY <1>1, ElementOfSeq
  <1>3. /\ SubSeq(seq, d + 1, Len(seq)) \in Seq(Labelled)
        /\ Len(SubSeq(seq, d + 1, Len(seq)))
             = IF d + 1 <= Len(seq) THEN Len(seq) - (d + 1) + 1 ELSE 0
        /\ \A i \in 1..Len(seq) - (d + 1) + 1 : SubSeq(seq, d + 1, Len(seq))[i] = seq[d + 1 + i - 1]
    BY <1>1, <1>2, SubSeqProperties
  <1> QED BY <1>1, <1>3 DEF EndOf

LEMMA NewestIsEnd ==
    ASSUME NEW seq \in Seq(Labelled)
    PROVE  Len(Newest(seq)) <= InputWindow /\ \E d \in 0..Len(seq) : EndOf(Newest(seq), seq, d)
  <1>1. Len(seq) \in Nat /\ InputWindow \in Nat
    BY LenProperties, LanePositive
  <1>2. CASE Len(seq) > InputWindow
    <2>1. Len(seq) - InputWindow \in 0..Len(seq)
      BY <1>1, <1>2
    <2>2. EndOf(SubSeq(seq, Len(seq) - InputWindow + 1, Len(seq)), seq, Len(seq) - InputWindow)
      BY <2>1, EndIsEnd
    <2>3. Newest(seq) = SubSeq(seq, Len(seq) - InputWindow + 1, Len(seq))
      BY <1>2 DEF Newest
    <2>4. EndOf(Newest(seq), seq, Len(seq) - InputWindow)
      BY <2>2, <2>3
    <2>5. Len(Newest(seq)) = Len(seq) - (Len(seq) - InputWindow)
      BY <2>4 DEF EndOf
    <2>6. Len(Newest(seq)) <= InputWindow
      BY <1>1, <2>5
    <2> QED BY <2>1, <2>4, <2>6
  <1>3. CASE ~(Len(seq) > InputWindow)
    <2>1. Newest(seq) = seq
      BY <1>3 DEF Newest
    <2>2. EndOf(seq, seq, 0)
      BY <1>1 DEF EndOf
    <2> QED BY <1>1, <1>3, <2>1, <2>2
  <1> QED BY <1>2, <1>3

(* What is so of the commands of a sequence is so of its end.              *)
LEMMA EndKeeps ==
    ASSUME NEW seq \in Seq(Labelled), NEW tail, NEW d \in 0..Len(seq), EndOf(tail, seq, d),
           NEW next
    PROVE  /\ LabelledBelow(seq, next) => LabelledBelow(tail, next)
           /\ SpreadOut(seq) => SpreadOut(tail)
           /\ Tight(seq) => Tight(tail)
  <1>1. Len(seq) \in Nat /\ Len(tail) = Len(seq) - d /\ d \in Nat
    BY LenProperties DEF EndOf
  <1>2. \A i \in 1..Len(tail) : /\ tail[i] = seq[i + d] /\ i + d \in 1..Len(seq)
                                /\ Len(tail) - i = Len(seq) - (i + d)
    BY <1>1 DEF EndOf
  <1>3. Len(tail) > 0 => tail[Len(tail)] = seq[Len(seq)]
    <2> SUFFICES ASSUME Len(tail) > 0 PROVE tail[Len(tail)] = seq[Len(seq)]
      OBVIOUS
    <2>1. Len(tail) \in 1..Len(tail) /\ Len(tail) + d = Len(seq)
      BY <1>1
    <2> QED BY <1>2, <2>1
  <1>4. \A i \in 1..Len(tail) : Len(tail) > 0
    BY <1>1
  <1>5. LabelledBelow(seq, next) => LabelledBelow(tail, next)
    BY <1>2 DEF LabelledBelow
  <1>6. SpreadOut(seq) => SpreadOut(tail)
    <2> SUFFICES ASSUME SpreadOut(seq), NEW i \in 1..Len(tail)
                 PROVE  tail[i].tick + (Len(tail) - i) <= tail[Len(tail)].tick
      BY DEF SpreadOut
    <2>1. seq[i + d].tick + (Len(seq) - (i + d)) <= seq[Len(seq)].tick
      BY <1>2 DEF SpreadOut
    <2> QED BY <1>2, <1>3, <1>4, <2>1
  <1>7. Tight(seq) => Tight(tail)
    <2> SUFFICES ASSUME Tight(seq), NEW i \in 1..Len(tail)
                 PROVE  tail[i].tick + (Len(tail) - i) = tail[Len(tail)].tick
      BY DEF Tight
    <2>1. seq[i + d].tick + (Len(seq) - (i + d)) = seq[Len(seq)].tick
      BY <1>2 DEF Tight
    <2> QED BY <1>2, <1>3, <1>4, <2>1
  <1> QED BY <1>5, <1>6, <1>7

(* A label set behind them lies past them all.                             *)
LEMMA AppendKeeps ==
    ASSUME NEW open \in Seq(Labelled), NEW x \in Labelled,
           LabelledBelow(open, x.tick), SpreadOut(open)
    PROVE  /\ Append(open, x) \in Seq(Labelled)
           /\ SpreadOut(Append(open, x))
           /\ Tight(open) /\ (open # <<>> => open[Len(open)].tick + 1 = x.tick)
                => Tight(Append(open, x))
  <1> DEFINE seq == Append(open, x)
  <1>1. /\ seq \in Seq(Labelled) /\ Len(seq) = Len(open) + 1 /\ Len(open) \in Nat
        /\ seq[Len(seq)] = x
        /\ \A i \in 1..Len(open) : seq[i] = open[i]
    BY AppendProperties, LenProperties
  <1>2. x.tick \in Nat /\ \A i \in 1..Len(open) : open[i].tick \in Nat
    <2>1. \A i \in 1..Len(open) : open[i] \in Labelled
      BY ElementOfSeq
    <2> QED BY <2>1, LaneNaturals DEF Labelled, Ticks
  <1> HIDE DEF seq
  <1>3. \A i \in 1..Len(open) :
          /\ open[i].tick + (Len(open) - i) <= open[Len(open)].tick
          /\ Len(open) \in 1..Len(open) /\ open[Len(open)].tick < x.tick
    <2> SUFFICES ASSUME NEW i \in 1..Len(open)
                 PROVE  /\ open[i].tick + (Len(open) - i) <= open[Len(open)].tick
                        /\ Len(open) \in 1..Len(open) /\ open[Len(open)].tick < x.tick
      OBVIOUS
    <2>1. Len(open) \in 1..Len(open)
      BY <1>1
    <2> QED BY <2>1 DEF SpreadOut, LabelledBelow
  <1>4. SpreadOut(seq)
    <2> SUFFICES ASSUME NEW i \in 1..Len(seq)
                 PROVE  seq[i].tick + (Len(seq) - i) <= seq[Len(seq)].tick
      BY DEF SpreadOut
    <2>1. CASE i = Len(seq)
      BY <1>1, <1>2, <2>1
    <2>2. CASE i # Len(seq)
      <3>1. i \in 1..Len(open) /\ seq[i] = open[i]
        BY <1>1, <2>2
      <3>2. open[Len(open)].tick \in Nat /\ open[i].tick \in Nat
        BY <3>1, <1>2, <1>3
      <3>3. /\ open[i].tick + (Len(open) - i) <= open[Len(open)].tick
            /\ open[Len(open)].tick < x.tick
        BY <1>3, <3>1
      <3>4. /\ Len(seq) = Len(open) + 1 /\ Len(open) \in Nat /\ i \in Nat
            /\ seq[Len(seq)] = x /\ x.tick \in Int
        BY <1>1, <1>2, <3>1
      <3> QED BY <3>1, <3>2, <3>3, <3>4
    <2> QED BY <2>1, <2>2
  <1>5. ASSUME Tight(open), open # <<>> => open[Len(open)].tick + 1 = x.tick
        PROVE  Tight(seq)
    <2> SUFFICES ASSUME NEW i \in 1..Len(seq)
                 PROVE  seq[i].tick + (Len(seq) - i) = seq[Len(seq)].tick
      BY DEF Tight
    <2>1. CASE i = Len(seq)
      BY <1>1, <1>2, <2>1
    <2>2. CASE i # Len(seq)
      <3>1. i \in 1..Len(open) /\ seq[i] = open[i]
        BY <1>1, <2>2
      <3>2. open[Len(open)].tick \in Nat /\ open[i].tick \in Nat
        BY <3>1, <1>2, <1>3
      <3>3. open # <<>>
        BY <3>1
      <3>4. open[i].tick + (Len(open) - i) = open[Len(open)].tick
        BY <3>1, <1>5 DEF Tight
      <3>5. open[Len(open)].tick + 1 = x.tick
        BY <3>3, <1>5
      <3>6. i \in Int /\ Len(seq) - i = (Len(open) - i) + 1
        BY <1>1, <3>1
      <3>7. seq[Len(seq)].tick = open[Len(open)].tick + 1
        BY <1>1, <3>5
      <3>8. seq[i].tick = open[i].tick /\ Len(open) - i \in Int
        BY <1>1, <3>1
      <3> HIDE DEF seq
      <3>9. \A a, b, n \in Int : a + n = b => a + (n + 1) = b + 1
        OBVIOUS
      <3>10. open[i].tick + ((Len(open) - i) + 1) = open[Len(open)].tick + 1
        BY <3>2, <3>4, <3>8, <3>9
      <3> QED BY <3>6, <3>7, <3>8, <3>10
    <2> QED BY <2>1, <2>2
  <1> QED BY <1>1, <1>4, <1>5 DEF seq

-----------------------------------------------------------------------------
(* The parts of the type the client's samples change.                      *)
LEMMA AfterIsEnd ==
    ASSUME LaneTypeOK, NEW k \in 0..Len(unconsumed)
    PROVE  EndOf(After(k), unconsumed, k) /\ Len(After(k)) <= InputWindow
  <1>1. unconsumed \in Seq(Labelled) /\ Len(unconsumed) <= InputWindow
    BY DEF LaneTypeOK
  <1>2. EndOf(After(k), unconsumed, k)
    BY <1>1, EndIsEnd DEF After
  <1> QED BY <1>1, <1>2, LenProperties, LanePositive DEF EndOf

LEMMA WithholdStep ==
    ASSUME LaneInv, NEW k \in 0..Len(unconsumed), Withhold(After(k)),
           UNCHANGED <<heardConsumed, pacing, serverInput, heardLane, leastLead, windows, paces>>
    PROVE  LaneTypeOK' /\ Labels' /\ Meanings'
  <1>1. EndOf(After(k), unconsumed, k) /\ Len(After(k)) <= InputWindow
    BY AfterIsEnd DEF LaneInv
  <1>2. unconsumed \in Seq(Labelled)
    BY DEF LaneInv, LaneTypeOK
  <1>3. unconsumed' = After(k) /\ holdBack > 0 /\ holdBack' = holdBack - 1 /\ sinceHeld' = 0
        /\ UNCHANGED <<samples, nextLabel, labelled, gapped>>
    BY DEF Withhold, HoldsBack
  <1>4. LaneTypeOK'
    <2>1. unconsumed' \in Seq(Labelled) /\ Len(unconsumed') <= InputWindow
      BY <1>1, <1>3 DEF EndOf
    <2>2. holdBack' \in Nat /\ sinceHeld' \in Nat
      BY <1>3 DEF LaneInv, LaneTypeOK
    <2> QED BY <1>3, <2>1, <2>2 DEF LaneInv, LaneTypeOK, pacing, serverInput, heardLane
  <1>5. Labels'
    <2>1. LabelledBelow(After(k), nextLabel) /\ SpreadOut(After(k)) /\ (~gapped => Tight(After(k)))
      BY <1>1, <1>2, EndKeeps DEF LaneInv, Labels, OpenLabels
    <2> QED BY <2>1, <1>3 DEF LaneInv, Labels, OpenLabels, Unlabelled, LabelledBelow
  <1>6. Meanings'
    BY <1>3, MeaningsStay DEF LaneInv, serverInput
  <1> QED BY <1>4, <1>5, <1>6

LEMMA LabelStep ==
    ASSUME LaneInv, NEW k \in 0..Len(unconsumed), Label(After(k)),
           UNCHANGED <<heardConsumed, pacing, serverInput, heardLane, leastLead, windows, paces>>
    PROVE  LaneTypeOK' /\ Labels' /\ Meanings'
  <1> DEFINE open == After(k)
             x == [tick |-> nextLabel, command |-> samples + 1]
             seq == Append(open, x)
  <1>1. EndOf(open, unconsumed, k)
    BY AfterIsEnd DEF LaneInv
  <1>2. unconsumed \in Seq(Labelled) /\ open \in Seq(Labelled)
    BY <1>1 DEF LaneInv, LaneTypeOK, EndOf
  <1>3. /\ samples + 1 \in 1..Commands /\ samples < Commands /\ nextLabel \in Ticks
        /\ samples' = samples + 1 /\ sinceHeld' = sinceHeld + 1 /\ nextLabel' = nextLabel + 1
        /\ labelled' = [labelled EXCEPT ![nextLabel] = samples + 1]
        /\ unconsumed' = Newest(seq)
        /\ gapped' = (gapped \/ (open # <<>> /\ open[Len(open)].tick + 1 # nextLabel))
        /\ holdBack' = holdBack
    <2>1. samples \in 0..Commands /\ samples < Commands
      BY DEF Label, LaneInv, LaneTypeOK
    <2>2. samples + 1 \in 1..Commands
      BY <2>1, LaneNaturals
    <2> QED BY <2>2 DEF Label
  <1>4. x \in Labelled /\ x.tick = nextLabel /\ x.command = samples + 1
    BY <1>3 DEF Labelled, Command
  <1>5. LabelledBelow(open, nextLabel) /\ SpreadOut(open) /\ (~gapped => Tight(open))
    BY <1>1, <1>2, EndKeeps DEF LaneInv, Labels, OpenLabels
  <1> HIDE DEF x
  <1>6. LabelledBelow(open, x.tick)
    BY <1>4, <1>5
  <1>7. /\ seq \in Seq(Labelled) /\ SpreadOut(seq)
        /\ Tight(open) /\ (open # <<>> => open[Len(open)].tick + 1 = nextLabel) => Tight(seq)
    <2> HIDE DEF open
    <2> QED BY <1>2, <1>4, <1>5, <1>6, AppendKeeps
  <1>8. \A s \in Ticks : labelled[s] # Neutral => labelled'[s] = labelled[s]
    <2>1. labelled[nextLabel] = Neutral
      BY <1>3 DEF LaneInv, Labels, Unlabelled, Ticks
    <2>2. labelled \in [Ticks -> 0..Commands]
      BY DEF LaneInv, LaneTypeOK
    <2> QED BY <1>3, <2>1, <2>2
  <1>9. ASSUME NEW i \in 1..Len(seq)
        PROVE  labelled'[seq[i].tick] = seq[i].command /\ seq[i].tick < nextLabel + 1
    <2>1. /\ Len(seq) = Len(open) + 1 /\ Len(open) \in Nat /\ seq[Len(open) + 1] = x
          /\ \A j \in 1..Len(open) : seq[j] = open[j]
      <3> HIDE DEF open
      <3> QED BY <1>2, <1>4, AppendProperties, LenProperties
    <2>2. CASE i = Len(open) + 1
      <3>1. labelled' = [labelled EXCEPT ![nextLabel] = samples + 1] /\ labelled \in [Ticks -> 0..Commands]
        BY <1>3 DEF LaneInv, LaneTypeOK
      <3>2. nextLabel < nextLabel + 1
        BY <1>3, LaneNaturals DEF Ticks
      <3> QED BY <1>3, <1>4, <2>1, <2>2, <3>1, <3>2
    <2>3. CASE i # Len(open) + 1
      <3>1. i \in 1..Len(open) /\ seq[i] = open[i]
        BY <2>1, <2>3
      <3>2. labelled[open[i].tick] = open[i].command /\ open[i].tick < nextLabel
        BY <3>1, <1>5 DEF LabelledBelow
      <3>3. open[i] \in Labelled
        <4> HIDE DEF open
        <4> QED BY <3>1, <1>2, ElementOfSeq
      <3>4. open[i].tick \in Ticks /\ open[i].command \in Command /\ nextLabel \in Int
        BY <3>3, <1>3, LaneNaturals DEF Labelled, Ticks
      <3>5. open[i].command # Neutral
        BY <3>4, LaneNaturals DEF Command, Neutral
      <3>6. labelled'[open[i].tick] = open[i].command
        BY <3>2, <3>4, <3>5, <1>8
      <3>7. open[i].tick < nextLabel + 1
        BY <3>2, <3>4, LaneNaturals DEF Ticks
      <3> QED BY <3>1, <3>6, <3>7
    <2> QED BY <2>2, <2>3
  <1> HIDE DEF seq
  <1>10. PICK d \in 0..Len(seq) : EndOf(Newest(seq), seq, d)
    BY <1>7, NewestIsEnd
  <1>11. Len(Newest(seq)) <= InputWindow
    BY <1>7, NewestIsEnd
  <1>12. LaneTypeOK'
    <2>1. unconsumed' \in Seq(Labelled) /\ Len(unconsumed') <= InputWindow
      BY <1>3, <1>10, <1>11 DEF EndOf
    <2>2. samples' \in 0..Commands /\ nextLabel' \in 1..MaxLabel + 1 /\ sinceHeld' \in Nat
          /\ holdBack' \in Nat
      BY <1>3, LaneNaturals DEF LaneInv, LaneTypeOK, Ticks
    <2>3. labelled' \in [Ticks -> 0..Commands]
      BY <1>3, LaneNaturals DEF LaneInv, LaneTypeOK
    <2>4. gapped' \in BOOLEAN
      BY <1>3 DEF LaneInv, LaneTypeOK
    <2> QED BY <2>1, <2>2, <2>3, <2>4 DEF LaneInv, LaneTypeOK, pacing, serverInput, heardLane
  <1>13. Labels'
    <2>1. \A i \in 1..Len(Newest(seq)) : /\ labelled'[Newest(seq)[i].tick] = Newest(seq)[i].command
                                         /\ Newest(seq)[i].tick < nextLabel + 1
      <3>1. \A i \in 1..Len(Newest(seq)) : Newest(seq)[i] = seq[i + d] /\ i + d \in 1..Len(seq)
        BY <1>7, <1>10, LenProperties DEF EndOf
      <3> QED BY <3>1, <1>9
    <2>2. SpreadOut(Newest(seq))
      BY <1>7, <1>10, EndKeeps
    <2>3. ~gapped' => Tight(Newest(seq))
      <3> SUFFICES ASSUME ~gapped' PROVE Tight(Newest(seq))
        OBVIOUS
      <3>1. Tight(seq)
        BY <1>3, <1>5, <1>7
      <3> QED BY <3>1, <1>7, <1>10, EndKeeps
    <2>4. Unlabelled'
      <3>1. labelled \in [Ticks -> 0..Commands] /\ nextLabel \in Int
        BY <1>3, LaneNaturals DEF LaneInv, LaneTypeOK, Ticks
      <3> SUFFICES ASSUME NEW t \in Ticks, t >= nextLabel + 1 PROVE labelled'[t] = Neutral
        BY <1>3 DEF Unlabelled
      <3>2. t >= nextLabel /\ t # nextLabel
        BY <3>1, LaneNaturals DEF Ticks
      <3> QED BY <3>1, <3>2, <1>3 DEF LaneInv, Labels, Unlabelled
    <2>5. LabelledBelow(unconsumed, nextLabel)'
      BY <2>1, <1>3 DEF LabelledBelow
    <2>6. SpreadOut(unconsumed)' /\ (~gapped => Tight(unconsumed))'
      BY <2>2, <2>3, <1>3 DEF SpreadOut, Tight
    <2> QED BY <2>4, <2>5, <2>6 DEF Labels, OpenLabels
  <1>14. Meanings'
    <2>1. gapped => gapped'
      BY <1>3
    <2> QED BY <2>1, <1>8, MeaningsStay DEF LaneInv, serverInput
  <1> QED BY <1>12, <1>13, <1>14

LEMMA SendWindowStep ==
    ASSUME LaneInv, SendWindow
    PROVE  LaneTypeOK' /\ Labels' /\ Meanings'
  <1> DEFINE n == Len(unconsumed)
             w == WindowNow
  <1>1. /\ unconsumed \in Seq(Labelled) /\ n \in 1..InputWindow
        /\ \A i \in 1..n : unconsumed[i] \in Labelled
    <2>1. unconsumed \in Seq(Labelled) /\ n <= InputWindow /\ unconsumed # <<>>
      BY DEF LaneInv, LaneTypeOK, SendWindow
    <2>2. n \in Nat \ {0}
      BY <2>1, EmptySeq
    <2> QED BY <2>1, <2>2, ElementOfSeq, LanePositive
  <1>2. /\ w.newest = unconsumed[n].tick /\ w.newest \in Ticks
        /\ w.commands \in Seq(Command) /\ Len(w.commands) = n
        /\ \A i \in 1..n : w.commands[i] = unconsumed[i].command
    <2>1. n \in 1..n /\ n \in Nat
      BY <1>1, LanePositive
    <2>2. \A i \in 1..n : unconsumed[i].command \in Command
      BY <1>1 DEF Labelled
    <2>3. w.newest = unconsumed[n].tick /\ w.commands = [i \in 1..n |-> unconsumed[i].command]
      BY DEF WindowNow
    <2>4. unconsumed[n].tick \in Ticks
      BY <1>1, <2>1 DEF Labelled
    <2> HIDE DEF n, w
    <2>5. [i \in 1..n |-> unconsumed[i].command] \in [1..n -> Command]
      BY <2>2
    <2>6. w.commands \in Seq(Command) /\ Len(w.commands) = n
      BY <2>1, <2>3, <2>5
    <2> QED BY <2>3, <2>4, <2>6
  <1>3. windows' = windows \cup {w}
    BY DEF SendWindow
  <1>4. UNCHANGED <<samples, nextLabel, unconsumed, heardConsumed, holdBack, sinceHeld, paceSequence,
                    jumped, lastLead, nextInput, waiting, lastCommand, held, heardInput, newestHeard,
                    heardAt, leastLead, pendingLead, paces, labelled, played, gapped>>
    BY DEF SendWindow, clientInput, pacing, serverInput, heardLane
  <1> HIDE DEF n, w
  <1>5. LaneTypeOK'
    <2>1. w.newest \in Ticks /\ w.commands \in Seq(Command) /\ Len(w.commands) \in 1..InputWindow
      BY <1>1, <1>2
    <2>2. (\A v \in windows : v.newest \in Ticks /\ v.commands \in Seq(Command)
                              /\ Len(v.commands) \in 1..InputWindow)'
      BY <2>1, <1>3 DEF LaneInv, LaneTypeOK
    <2> QED BY <2>2, <1>4 DEF LaneInv, LaneTypeOK
  <1>6. Labels'
    BY <1>4 DEF LaneInv, Labels, OpenLabels, Unlabelled, LabelledBelow, SpreadOut, Tight
  <1>7. \A i \in 1..n : Meant(w.commands[i], w.newest - n + i)
    <2> SUFFICES ASSUME NEW i \in 1..n PROVE Meant(w.commands[i], w.newest - n + i)
      OBVIOUS
    <2>1. /\ labelled[unconsumed[i].tick] = unconsumed[i].command
          /\ unconsumed[i].tick + (n - i) <= unconsumed[n].tick
          /\ ~gapped => unconsumed[i].tick + (n - i) = unconsumed[n].tick
      BY DEF LaneInv, Labels, OpenLabels, LabelledBelow, SpreadOut, Tight, n
    <2>2. n \in 1..n /\ n \in Int /\ i \in Int
      BY <1>1, LanePositive
    <2>3. unconsumed[i].tick \in Ticks /\ unconsumed[n].tick \in Ticks
          /\ unconsumed[i].tick \in Int /\ unconsumed[n].tick \in Int
      BY <1>1, <2>2 DEF Labelled, Ticks
    <2>4. \A a, b, m, j \in Int : /\ a + (m - j) <= b => a <= b - m + j
                                  /\ a + (m - j) = b => a = b - m + j
      OBVIOUS
    <2>5. /\ unconsumed[i].tick <= w.newest - n + i
          /\ ~gapped => unconsumed[i].tick = w.newest - n + i
      BY <2>1, <2>2, <2>3, <2>4, <1>2
    <2> QED BY <2>1, <2>3, <2>5, <1>2 DEF Meant
  <1>8. Meanings'
    <2>1. WindowsMeant'
      <3> SUFFICES ASSUME NEW v \in windows', NEW i \in 1..Len(v.commands)
                   PROVE  Meant(v.commands[i], v.newest - Len(v.commands) + i)'
        BY DEF WindowsMeant
      <3>1. CASE v \in windows
        BY <3>1, <1>4 DEF LaneInv, Meanings, WindowsMeant, Meant
      <3>2. CASE v = w
        BY <3>2, <1>2, <1>4, <1>7 DEF Meant
      <3> QED BY <3>1, <3>2, <1>3
    <2>2. WaitingMeant' /\ PlayedMeant'
      BY <1>4 DEF LaneInv, Meanings, WaitingMeant, PlayedMeant, Meant
    <2> QED BY <2>1, <2>2 DEF Meanings
  <1> QED BY <1>5, <1>6, <1>8

LEMMA OnPaceStep ==
    ASSUME LaneInv, NEW pace \in paces, OnPace(pace)
    PROVE  LaneTypeOK' /\ Labels' /\ Meanings'
  <1>1. pace.sequence \in 1..LastTick /\ pace.lead \in Int
    BY LaneNaturals DEF LaneInv, LaneTypeOK, Lead, NoLead
  <1>2. UNCHANGED <<samples, unconsumed, sinceHeld, heardConsumed, nextInput, waiting, lastCommand, held,
                    heardInput, newestHeard, heardAt, leastLead, pendingLead, windows, paces, labelled,
                    played, gapped>>
        /\ paceSequence' = pace.sequence
    BY DEF OnPace, serverInput, heardLane
  <1>3. /\ nextLabel' \in 1..MaxLabel + 1 /\ nextLabel <= nextLabel' /\ holdBack' \in Nat
        /\ jumped' \in BOOLEAN /\ lastLead' \in Int
    <2>1. nextLabel \in 1..MaxLabel + 1 /\ holdBack \in Nat /\ jumped \in BOOLEAN /\ lastLead \in Int
      BY DEF LaneInv, LaneTypeOK
    <2>2. CASE PassOver(pace)
      <3>1. nextLabel' = nextLabel /\ holdBack' = holdBack /\ lastLead' = lastLead /\ jumped' = FALSE
        BY <2>2 DEF PassOver
      <3>2. nextLabel <= nextLabel'
        BY <2>1, <3>1, LaneNaturals
      <3> QED BY <2>1, <3>1, <3>2
    <2>3. CASE FollowPace(pace)
      <3>1. HoldBackFor(pace.lead) \in Nat
        BY <1>1, LaneNaturals DEF HoldBackFor
      <3>2. CASE JumpsFor(pace.lead)
        <4>1. Jump(pace.lead) \in Nat
          BY <1>1, <3>2, LaneNaturals DEF JumpsFor, Jump, Room, Greater, Lesser
        <4> QED BY <1>1, <2>1, <2>3, <3>1, <3>2, <4>1, LaneNaturals DEF FollowPace
      <3>3. CASE ~JumpsFor(pace.lead)
        BY <1>1, <2>1, <2>3, <3>1, <3>3, LaneNaturals DEF FollowPace
      <3> QED BY <3>2, <3>3
    <2> QED BY <2>2, <2>3 DEF OnPace
  <1>4. LaneTypeOK'
    BY <1>1, <1>2, <1>3, LaneNaturals DEF LaneInv, LaneTypeOK
  <1>5. Labels'
    <2>1. LabelledBelow(unconsumed, nextLabel)'
      <3> SUFFICES ASSUME NEW i \in 1..Len(unconsumed)
                   PROVE  labelled[unconsumed[i].tick] = unconsumed[i].command
                          /\ unconsumed[i].tick < nextLabel'
        BY <1>2 DEF LabelledBelow
      <3>1. labelled[unconsumed[i].tick] = unconsumed[i].command /\ unconsumed[i].tick < nextLabel
        BY DEF LaneInv, Labels, OpenLabels, LabelledBelow
      <3>2. unconsumed[i] \in Labelled
        BY ElementOfSeq DEF LaneInv, LaneTypeOK
      <3>3. unconsumed[i].tick \in Int /\ nextLabel \in Int /\ nextLabel' \in Int
        <4>1. unconsumed[i].tick \in Int
          BY <3>2, LaneNaturals DEF Labelled, Ticks
        <4>2. nextLabel \in Int /\ nextLabel' \in Int
          BY <1>3, LaneNaturals DEF Ticks, LaneInv, LaneTypeOK
        <4> QED BY <4>1, <4>2
      <3> QED BY <3>1, <3>3, <1>3
    <2>2. SpreadOut(unconsumed)' /\ (~gapped => Tight(unconsumed))'
      BY <1>2 DEF LaneInv, Labels, OpenLabels, SpreadOut, Tight
    <2>3. Unlabelled'
      <3> SUFFICES ASSUME NEW t \in Ticks, t >= nextLabel' PROVE labelled[t] = Neutral
        BY <1>2 DEF Unlabelled
      <3>1. t >= nextLabel
        BY <1>3, LaneNaturals DEF Ticks, LaneInv, LaneTypeOK
      <3> QED BY <3>1 DEF LaneInv, Labels, Unlabelled
    <2> QED BY <2>1, <2>2, <2>3 DEF Labels, OpenLabels
  <1>6. Meanings'
    BY <1>2, MeaningsStay DEF LaneInv
  <1> QED BY <1>4, <1>5, <1>6

LEMMA HearConsumedStep ==
    ASSUME LaneInv, NEW consumed \in 1..LastTick, HearConsumed(consumed)
    PROVE  LaneTypeOK' /\ Labels' /\ Meanings'
  <1>1. UNCHANGED <<samples, nextLabel, unconsumed, holdBack, sinceHeld, paceSequence,
                    jumped, lastLead, nextInput, waiting, lastCommand, held, heardInput, newestHeard,
                    heardAt, leastLead, pendingLead, windows, paces, labelled, played, gapped>>
        /\ heardConsumed' = Greater(heardConsumed, consumed)
    BY DEF HearConsumed, clientInput, pacing, serverInput, heardLane
  <1>2. heardConsumed' \in 0..LastTick
    BY <1>1 DEF LaneInv, LaneTypeOK, Greater
  <1>3. LaneTypeOK'
    BY <1>1, <1>2 DEF LaneInv, LaneTypeOK
  <1>4. Labels'
    BY <1>1 DEF LaneInv, Labels, OpenLabels, Unlabelled, LabelledBelow, SpreadOut, Tight
  <1>5. Meanings'
    BY <1>1, MeaningsStay DEF LaneInv
  <1> QED BY <1>3, <1>4, <1>5

-----------------------------------------------------------------------------
(* The server's steps.                                                     *)
LEMMA HearStep ==
    ASSUME LaneInv, NEW w \in windows, Hear(w)
    PROVE  LaneTypeOK' /\ Labels' /\ Meanings'
  <1>1. UNCHANGED <<samples, nextLabel, unconsumed, holdBack, sinceHeld, heardConsumed, paceSequence,
                    jumped, lastLead, nextInput, lastCommand, held, windows, paces, labelled, played,
                    gapped>>
    BY DEF Hear, clientInput, pacing
  <1>2. /\ newestHeard' = Greater(newestHeard, w.newest)
        /\ leastLead' = Lesser(leastLead, LeadHeard(w))
        /\ pendingLead' = NoLead /\ heardInput' = TRUE /\ heardAt' = Tick
        /\ nextInput <= LastTick
        /\ waiting' = [t \in Ticks |->
                         IF Takes(w, t)
                         THEN [command |-> w.commands[t - FirstTick(w) + 1], arrived |-> Tick]
                         ELSE waiting[t]]
    BY DEF Hear
  <1>3. /\ w.newest \in 1..MaxLabel /\ w.commands \in Seq(Command)
        /\ Len(w.commands) \in 1..InputWindow
        /\ nextInput \in 1..LastTick /\ Tick \in 0..LastTick
    BY <1>2, LaneNaturals DEF LaneInv, LaneTypeOK, Ticks, Tick
  <1>4. \A t \in Ticks : Takes(w, t) =>
          /\ t - FirstTick(w) + 1 \in 1..Len(w.commands)
          /\ w.newest - Len(w.commands) + (t - FirstTick(w) + 1) = t
    BY <1>3, LanePositive, LaneNaturals DEF Takes, FirstTick, Ticks
  <1>5. LaneTypeOK'
    <2>1. newestHeard' \in 0..MaxLabel
      BY <1>2, <1>3, LaneNaturals DEF LaneInv, LaneTypeOK, Greater
    <2>2. leastLead' \in Lead /\ pendingLead' \in Lead
      <3>1. LeadHeard(w) \in Lead
        BY <1>3, LaneNaturals DEF LeadHeard, Lead, NoLead, LaneInv, LaneTypeOK
      <3>2. leastLead \in Lead /\ NoLead \in Lead
        BY LaneNaturals DEF LaneInv, LaneTypeOK, Lead, NoLead
      <3> QED BY <1>2, <3>1, <3>2 DEF Lesser
    <2>3. waiting' \in [Ticks -> Waiting]
      <3> SUFFICES ASSUME NEW t \in Ticks
                   PROVE  (IF Takes(w, t)
                           THEN [command |-> w.commands[t - FirstTick(w) + 1], arrived |-> Tick]
                           ELSE waiting[t]) \in Waiting
        BY <1>2
      <3>1. CASE Takes(w, t)
        <4>1. w.commands[t - FirstTick(w) + 1] \in Command
          BY <1>3, <1>4, <3>1, ElementOfSeq
        <4>2. w.commands[t - FirstTick(w) + 1] \in 0..Commands
          BY <4>1, LaneNaturals DEF Command
        <4> QED BY <4>2, <1>3, <3>1 DEF Waiting
      <3>2. CASE ~Takes(w, t)
        BY <3>2 DEF LaneInv, LaneTypeOK
      <3> QED BY <3>1, <3>2
    <2> QED BY <1>1, <1>2, <1>3, <2>1, <2>2, <2>3 DEF LaneInv, LaneTypeOK
  <1>6. Labels'
    BY <1>1 DEF LaneInv, Labels, OpenLabels, Unlabelled, LabelledBelow, SpreadOut, Tight
  <1>7. Meanings'
    <2>1. WindowsMeant' /\ PlayedMeant'
      BY <1>1 DEF LaneInv, Meanings, WindowsMeant, PlayedMeant, Meant
    <2>2. WaitingMeant'
      <3> SUFFICES ASSUME NEW t \in Ticks, waiting'[t].command # Neutral
                   PROVE  Meant(waiting'[t].command, t)
        BY <1>1 DEF WaitingMeant, Meant
      <3>1. CASE Takes(w, t)
        <4> DEFINE i == t - FirstTick(w) + 1
        <4>1. i \in 1..Len(w.commands) /\ w.newest - Len(w.commands) + i = t
          BY <1>4, <3>1
        <4>2. waiting'[t].command = w.commands[i]
          BY <1>2, <3>1
        <4> HIDE DEF i
        <4>3. Meant(w.commands[i], w.newest - Len(w.commands) + i)
          BY <4>1 DEF LaneInv, Meanings, WindowsMeant
        <4> QED BY <4>1, <4>2, <4>3
      <3>2. CASE ~Takes(w, t)
        BY <1>2, <3>2 DEF LaneInv, Meanings, WaitingMeant
      <3> QED BY <3>1, <3>2
    <2> QED BY <2>1, <2>2 DEF Meanings
  <1> QED BY <1>5, <1>6, <1>7

(* What is added to what was played.                                       *)
LEMMA PlaysStep ==
    ASSUME LaneInv, Play
    PROVE  /\ Plays \in Played
           /\ played' \in Seq(Played) /\ Len(played') = Len(played) + 1 /\ Len(played) \in Nat
           /\ played'[Len(played) + 1] = Plays
           /\ \A t \in 1..Len(played) : played'[t] = played[t]
           /\ Len(played) = nextInput - 1 /\ nextInput \in 1..LastTick
           /\ Come \in Waiting /\ lastCommand \in 0..Commands /\ held \in 0..HoldLast
           /\ waiting \in [Ticks -> Waiting]
  <1>1. /\ played \in Seq(Played) /\ lastCommand \in 0..Commands /\ held \in 0..HoldLast
        /\ waiting \in [Ticks -> Waiting] /\ Len(played) = nextInput - 1
    BY DEF LaneInv, LaneTypeOK
  <1>2. nextInput \in 1..LastTick
    BY LaneNaturals DEF LaneInv, LaneTypeOK, Play
  <1>3. Come \in Waiting
    BY <1>1, LaneNaturals DEF Come, NoInput, Waiting, Neutral
  <1>4. Plays \in Played
    BY <1>1, <1>3, LaneNaturals DEF Plays, Played, PlayedAs, Waiting, Neutral
  <1>5. played' = Append(played, Plays)
    BY DEF Play, ApplyInputs
  <1>6. played' \in Seq(Played) /\ Len(played') = Len(played) + 1
        /\ played'[Len(played) + 1] = Plays
        /\ \A t \in 1..Len(played) : played'[t] = played[t]
    BY <1>1, <1>4, <1>5, AppendProperties
  <1> QED BY <1>1, <1>2, <1>3, <1>4, <1>6, LenProperties

LEMMA PlayStep ==
    ASSUME LaneInv, Play
    PROVE  LaneTypeOK' /\ Labels' /\ Meanings'
  <1>1. UNCHANGED <<samples, nextLabel, unconsumed, holdBack, sinceHeld, heardConsumed, paceSequence,
                    jumped, lastLead, heardInput, newestHeard, heardAt, windows, labelled, gapped>>
    BY DEF Play, clientInput, pacing, heardLane
  <1>2. /\ pendingLead' = IF heardInput THEN Lesser(pendingLead, newestHeard - nextInput) ELSE pendingLead
        /\ lastCommand' = IF Fresh THEN Come.command ELSE lastCommand
        /\ held' = IF Fresh THEN 0 ELSE IF Holds THEN held + 1 ELSE held
        /\ waiting' = [t \in Ticks |-> IF t <= nextInput THEN NoInput ELSE waiting[t]]
        /\ nextInput' = nextInput + 1
    BY DEF Play, ApplyInputs
  <1>3. LaneTypeOK'
    <2>1. lastCommand' \in 0..Commands /\ held' \in 0..HoldLast
      <3>1. Come.command \in 0..Commands
        BY PlaysStep DEF Waiting
      <3>2. Holds => held + 1 \in 0..HoldLast
        BY PlaysStep, LaneNaturals DEF Holds
      <3> QED BY <1>2, <3>1, <3>2, PlaysStep, LaneNaturals
    <2>2. waiting' \in [Ticks -> Waiting]
      BY <1>2, PlaysStep, LaneNaturals DEF NoInput, Waiting, Neutral
    <2>3. nextInput' \in 1..LastTick + 1 /\ Len(played') = nextInput' - 1 /\ played' \in Seq(Played)
      BY <1>2, PlaysStep, LaneNaturals
    <2>4. pendingLead' \in Lead
      <3>1. pendingLead \in Lead /\ newestHeard \in 0..MaxLabel /\ nextInput \in 1..LastTick
        BY PlaysStep DEF LaneInv, LaneTypeOK
      <3>2. newestHeard - nextInput \in Lead
        BY <3>1, LaneNaturals DEF Lead, NoLead
      <3> QED BY <1>2, <3>1, <3>2 DEF Lesser
    <2>5. leastLead' \in Lead /\ \A p \in paces' : p.sequence \in 1..LastTick /\ p.lead \in Lead
      <3>1. leastLead \in Lead /\ NoLead \in Lead /\ nextInput \in 1..LastTick
            /\ \A p \in paces : p.sequence \in 1..LastTick /\ p.lead \in Lead
        BY PlaysStep, LaneNaturals DEF LaneInv, LaneTypeOK, Lead, NoLead
      <3>2. SendPace
        BY DEF Play
      <3>3. CASE Paces
        BY <3>1, <3>2, <3>3 DEF SendPace
      <3>4. CASE ~Paces
        BY <3>1, <3>2, <3>4 DEF SendPace
      <3> QED BY <3>3, <3>4
    <2> QED BY <1>1, <2>1, <2>2, <2>3, <2>4, <2>5 DEF LaneInv, LaneTypeOK
  <1>4. Labels'
    BY <1>1 DEF LaneInv, Labels, OpenLabels, Unlabelled, LabelledBelow, SpreadOut, Tight
  <1>5. Meanings'
    <2>1. WindowsMeant'
      BY <1>1 DEF LaneInv, Meanings, WindowsMeant, Meant
    <2>2. WaitingMeant'
      <3> SUFFICES ASSUME NEW t \in Ticks, waiting'[t].command # Neutral
                   PROVE  Meant(waiting'[t].command, t)
        BY <1>1 DEF WaitingMeant, Meant
      <3>1. waiting'[t] = waiting[t]
        BY <1>2 DEF NoInput
      <3> QED BY <3>1 DEF LaneInv, Meanings, WaitingMeant
    <2>3. PlayedMeant'
      <3> SUFFICES ASSUME NEW t \in 1..Len(played'), played'[t].kind = "fresh"
                   PROVE  played'[t].command # Neutral /\ Meant(played'[t].command, t)
        BY <1>1 DEF PlayedMeant, Meant
      <3>1. CASE t = Len(played) + 1
        <4>1. t = nextInput /\ played'[t] = Plays
          BY <3>1, PlaysStep
        <4>2. Fresh /\ Plays.command = Come.command
          BY <4>1 DEF Plays
        <4>3. nextInput \in Ticks /\ Come = waiting[nextInput] /\ Come.command # Neutral
          BY <4>2 DEF Fresh, Come, NoInput
        <4> QED BY <4>1, <4>2, <4>3 DEF LaneInv, Meanings, WaitingMeant
      <3>2. CASE t # Len(played) + 1
        <4>1. t \in 1..Len(played) /\ played'[t] = played[t]
          BY <3>2, PlaysStep
        <4> QED BY <4>1 DEF LaneInv, Meanings, PlayedMeant
      <3> QED BY <3>1, <3>2
    <2> QED BY <2>1, <2>2, <2>3 DEF Meanings
  <1> QED BY <1>3, <1>4, <1>5

(* A tick played with the held command adds one to the run of them; a      *)
(* neutral one ends what may be held.                                      *)
LEMMA LastHeldStep ==
    ASSUME LaneInv, Play
    PROVE  LastHeld'
  <1>1. /\ lastCommand' = IF Fresh THEN Come.command ELSE lastCommand
        /\ held' = IF Fresh THEN 0 ELSE IF Holds THEN held + 1 ELSE held
    BY DEF Play, ApplyInputs
  <1> DEFINE n == Len(played)
  <1>2. n \in Nat /\ Len(played') = n + 1 /\ played'[n + 1] = Plays
        /\ (\A t \in 1..n : played'[t] = played[t]) /\ held \in Nat
    BY PlaysStep
  <1> HIDE DEF n
  <1> SUFFICES ASSUME lastCommand' # Neutral, held' < HoldLast
               PROVE  /\ Len(played') - held' \in 1..Len(played')
                      /\ played'[Len(played') - held'].kind = "fresh"
                      /\ played'[Len(played') - held'].command = lastCommand'
                      /\ \A u \in Len(played') - held' + 1..Len(played') : played'[u].kind = "held"
    BY DEF LastHeld
  <1>3. CASE Fresh
    <2>1. Plays.kind = "fresh" /\ Plays.command = Come.command
      BY <1>3 DEF Plays, Holds
    <2>2. Len(played') - held' = n + 1
      BY <1>1, <1>2, <1>3
    <2> QED BY <2>1, <2>2, <1>1, <1>2, <1>3
  <1>4. CASE Holds
    <2>1. /\ ~Fresh /\ lastCommand # Neutral /\ held < HoldLast
          /\ lastCommand' = lastCommand /\ held' = held + 1
      BY <1>1, <1>4 DEF Holds
    <2>2. /\ n - held \in 1..n
          /\ played[n - held].kind = "fresh" /\ played[n - held].command = lastCommand
          /\ \A u \in n - held + 1..n : played[u].kind = "held"
      BY <2>1 DEF LaneInv, LastHeld, n
    <2>3. Len(played') - held' = n - held
      BY <1>2, <2>1
    <2>4. Plays.kind = "held"
      BY <2>1, <1>4 DEF Plays
    <2>5. \A u \in n - held + 1..n + 1 : played'[u].kind = "held"
      <3> SUFFICES ASSUME NEW u \in n - held + 1..n + 1 PROVE played'[u].kind = "held"
        OBVIOUS
      <3>1. CASE u = n + 1
        BY <3>1, <2>4, <1>2
      <3>2. CASE u # n + 1
        <4>1. u \in n - held + 1..n /\ u \in 1..n
          BY <3>2, <1>2, <2>2
        <4> QED BY <4>1, <2>2, <1>2
      <3> QED BY <3>1, <3>2
    <2>6. n - held \in 1..n + 1 /\ played'[n - held] = played[n - held]
      BY <1>2, <2>2
    <2> QED BY <2>1, <2>2, <2>3, <2>5, <2>6, <1>2
  <1>5. CASE ~Fresh /\ ~Holds
    <2>1. lastCommand' = lastCommand /\ held' = held
      BY <1>1, <1>5
    <2> QED BY <2>1, <1>5 DEF Holds
  <1> QED BY <1>3, <1>4, <1>5 DEF Holds

LEMMA HeldStep ==
    ASSUME LaneInv, Play
    PROVE  HeldWithinReach'
  <1> DEFINE n == Len(played)
             Reaches(seq, t, s) ==
                /\ t - s <= HoldLast
                /\ seq[s].kind = "fresh" /\ seq[s].command = seq[t].command
                /\ \A u \in s + 1..t - 1 : seq[u].kind = "held"
  <1>1. n \in Nat /\ Len(played') = n + 1 /\ played'[n + 1] = Plays
        /\ (\A t \in 1..n : played'[t] = played[t]) /\ held \in Nat
    BY PlaysStep
  <1> SUFFICES ASSUME NEW t \in 1..n + 1, played'[t].kind = "held"
               PROVE  \E s \in 1..t - 1 : Reaches(played', t, s)
    BY <1>1 DEF HeldWithinReach
  <1>2. CASE t = n + 1
    <2>1. Plays.kind = "held"
      BY <1>1, <1>2
    <2>2. Holds /\ Plays.command = lastCommand
      BY <2>1 DEF Plays
    <2>3. lastCommand # Neutral /\ held < HoldLast
      BY <2>2 DEF Holds
    <2>4. /\ n - held \in 1..n
          /\ played[n - held].kind = "fresh" /\ played[n - held].command = lastCommand
          /\ \A u \in n - held + 1..n : played[u].kind = "held"
      BY <2>3 DEF LaneInv, LastHeld
    <2> HIDE DEF n
    <2>5. t - (n - held) <= HoldLast
      BY <1>1, <1>2, <2>3, LaneNaturals
    <2>6. \A u \in n - held + 1..t - 1 : played'[u].kind = "held"
      <3> SUFFICES ASSUME NEW u \in n - held + 1..t - 1 PROVE played'[u].kind = "held"
        OBVIOUS
      <3>1. u \in n - held + 1..n /\ u \in 1..n
        BY <1>1, <1>2, <2>4
      <3> QED BY <3>1, <2>4, <1>1
    <2>7. played'[n - held] = played[n - held] /\ played'[t] = Plays /\ n - held \in 1..t - 1
      BY <1>1, <1>2, <2>4
    <2>8. Reaches(played', t, n - held)
      BY <2>2, <2>4, <2>5, <2>6, <2>7
    <2> QED BY <2>7, <2>8
  <1>3. CASE t # n + 1
    <2>1. t \in 1..n /\ played'[t] = played[t]
      BY <1>1, <1>3
    <2>2. PICK s \in 1..t - 1 : Reaches(played, t, s)
      BY <2>1 DEF LaneInv, HeldWithinReach
    <2> HIDE DEF n
    <2>3. s \in 1..n /\ \A u \in s + 1..t - 1 : u \in 1..n
      BY <1>1, <2>1
    <2>4. Reaches(played', t, s)
      BY <2>1, <2>2, <2>3, <1>1
    <2> QED BY <2>4
  <1> QED BY <1>2, <1>3

-----------------------------------------------------------------------------
(* Together.                                                               *)
LEMMA LaneInits == LaneInit => LaneInv
  <1> SUFFICES ASSUME LaneInit PROVE LaneInv
    OBVIOUS
  <1>1. LaneTypeOK
    <2>1. NoLead \in Lead /\ NoLead \in Int
      BY LaneNaturals DEF Lead, NoLead
    <2>2. <<>> \in Seq(Labelled) /\ <<>> \in Seq(Played) /\ Len(<<>>) = 0
      OBVIOUS
    <2>3. [t \in Ticks |-> NoInput] \in [Ticks -> Waiting]
      BY LaneNaturals DEF NoInput, Waiting, Neutral
    <2>4. unconsumed \in Seq(Labelled) /\ Len(unconsumed) <= InputWindow
      BY <2>2, LanePositive DEF LaneInit
    <2>5. /\ waiting \in [Ticks -> Waiting] /\ labelled \in [Ticks -> 0..Commands]
          /\ played \in Seq(Played) /\ Len(played) = nextInput - 1
      BY <2>2, <2>3, LaneNaturals DEF LaneInit, Neutral
    <2>6. /\ samples \in 0..Commands /\ nextLabel \in 1..MaxLabel + 1 /\ heardConsumed \in 0..LastTick
          /\ holdBack \in Nat /\ sinceHeld \in Nat /\ paceSequence \in 0..LastTick
          /\ nextInput \in 1..LastTick + 1
      BY LaneNaturals DEF LaneInit
    <2>7. /\ lastCommand \in 0..Commands /\ held \in 0..HoldLast
          /\ newestHeard \in 0..MaxLabel /\ heardAt \in 0..LastTick
      BY LaneNaturals DEF LaneInit, Neutral
    <2>9. jumped \in BOOLEAN /\ heardInput \in BOOLEAN /\ gapped \in BOOLEAN
      BY DEF LaneInit
    <2>8. lastLead \in Int /\ leastLead \in Lead /\ pendingLead \in Lead /\ windows = {} /\ paces = {}
      BY <2>1 DEF LaneInit
    <2> QED BY <2>4, <2>5, <2>6, <2>7, <2>8, <2>9 DEF LaneTypeOK
  <1>2. Labels
    BY DEF LaneInit, Labels, OpenLabels, Unlabelled, LabelledBelow, SpreadOut, Tight
  <1>3. Meanings
    BY DEF LaneInit, Meanings, WindowsMeant, WaitingMeant, PlayedMeant, NoInput
  <1>4. LastHeld /\ HeldWithinReach
    BY DEF LaneInit, LastHeld, HeldWithinReach
  <1> QED BY <1>1, <1>2, <1>3, <1>4 DEF LaneInv

LEMMA LaneSteps == LaneInv /\ [LaneNext]_laneVars => LaneInv'
  <1> SUFFICES ASSUME LaneInv, [LaneNext]_laneVars PROVE LaneInv'
    OBVIOUS
  <1>1. ASSUME UNCHANGED serverInput PROVE (LastHeld /\ HeldWithinReach)'
    BY <1>1 DEF LaneInv, LastHeld, HeldWithinReach, serverInput
  <1>2. CASE Sample
    <2>1. PICK k \in 0..Len(unconsumed) : Withhold(After(k)) \/ Label(After(k))
      BY <1>2 DEF Sample
    <2>2. UNCHANGED <<heardConsumed, pacing, serverInput, heardLane, leastLead, windows, paces>>
      BY <1>2 DEF Sample
    <2>3. LaneTypeOK' /\ Labels' /\ Meanings'
      BY <2>1, <2>2, WithholdStep, LabelStep
    <2> QED BY <1>1, <2>2, <2>3 DEF LaneInv
  <1>3. CASE SendWindow
    BY <1>1, <1>3, SendWindowStep DEF SendWindow, LaneInv
  <1>4. ASSUME NEW pace \in paces, OnPace(pace) PROVE LaneInv'
    BY <1>1, <1>4, OnPaceStep DEF OnPace, LaneInv
  <1>5. ASSUME NEW consumed \in 1..LastTick, HearConsumed(consumed) PROVE LaneInv'
    BY <1>1, <1>5, HearConsumedStep DEF HearConsumed, LaneInv
  <1>6. ASSUME NEW w \in windows, Hear(w) PROVE LaneInv'
    <2>1. LaneTypeOK' /\ Labels' /\ Meanings'
      BY <1>6, HearStep
    <2>2. UNCHANGED <<played, lastCommand, held>>
      BY <1>6 DEF Hear
    <2> QED BY <2>1, <2>2 DEF LaneInv, LastHeld, HeldWithinReach
  <1>7. CASE Play
    BY <1>7, PlayStep, LastHeldStep, HeldStep DEF LaneInv
  <1>8. CASE UNCHANGED laneVars
    <2>1. LaneTypeOK'
      BY <1>8 DEF laneVars, LaneInv, LaneTypeOK
    <2>2. Labels'
      BY <1>8 DEF laneVars, LaneInv, Labels, OpenLabels, Unlabelled, LabelledBelow, SpreadOut, Tight
    <2>3. Meanings'
      BY <1>8, MeaningsStay DEF laneVars, LaneInv
    <2> QED BY <2>1, <2>2, <2>3, <1>1, <1>8 DEF laneVars, serverInput, LaneInv
  <1> QED BY <1>2, <1>3, <1>4, <1>5, <1>6, <1>7, <1>8 DEF LaneNext

(* The invariant gives what the lane promises.                             *)
LEMMA LaneInvSuffices == LaneInv => LaneTypeOK /\ InTheirTicks /\ HeldWithinReach
  <1> SUFFICES ASSUME LaneInv PROVE InTheirTicks
    BY DEF LaneInv
  <1>1. KeptUntilGap
    BY DEF LaneInv, Meanings, PlayedMeant, Meant, KeptUntilGap, LabelsKept
  <1>2. NeverEarly
    BY DEF LaneInv, Meanings, PlayedMeant, Meant, NeverEarly
  <1> QED BY <1>1, <1>2 DEF InTheirTicks

LEMMA LaneInvariant == LaneSpec => []LaneInv
  BY LaneInits, LaneSteps, PTL DEF LaneSpec

(* What the lane keeps has its types: the ages, leads and ticks stay in    *)
(* range however the windows, paces and states come.                       *)
THEOREM LaneTypes == LaneSpec => []LaneTypeOK
  BY LaneInvariant, LaneInvSuffices, PTL

(* A tick is played with the command labelled for it or none that came,    *)
(* until a label is left out behind commands not consumed; and never with  *)
(* one meant for a later tick.                                             *)
THEOREM TicksTheirOwn == LaneSpec => []InTheirTicks
  BY LaneInvariant, LaneInvSuffices, PTL

(* A silent client's command is held for HoldLast ticks and no longer.     *)
THEOREM HeldInReach == LaneSpec => []HeldWithinReach
  BY LaneInvariant, LaneInvSuffices, PTL
=============================================================================
