--------------------------- MODULE SessionProofs ---------------------------
(***************************************************************************)
(* What TLAPS proves of Session, for any set of connections, any bounds    *)
(* and either provider.  First, that the server never keeps more           *)
(* connections than it may, nor admits more.  Then everything that is said *)
(* of one connection: what is kept, on its way, told and sent of it.       *)
(*                                                                         *)
(* A connection's invariant (Good) is put together of what its two sides   *)
(* keep, hear and have told: nothing of it before it is asked for, an      *)
(* epoch its client shares with the server, a close that comes of an end,  *)
(* a story told in order, frames before the datagrams that count them, and *)
(* records of which none is missing.  Every action is a turn of one side   *)
(* (Lawful: what it hears, Takes; what it sends, Gives; what keeps it      *)
(* open, Shuts), the path's failing, or its being asked for; each part of  *)
(* the invariant has a lemma for the side that takes the turn and one for  *)
(* its peer (TurnGood), and each action one that says which turn it is.    *)
(***************************************************************************)
EXTENDS Session, FiniteSetTheorems, SequenceTheorems, TLAPS

Fields == {"phase", "epoch", "unsent", "exhausted", "late"}

(* What is kept of a connection has its fields, and a phase among them.    *)
Keeps(keeps) ==
    /\ keeps = [field \in Fields |-> keeps[field]]
    /\ keeps.phase \in Phases

Shaped ==
    /\ conn = [c \in Connections |-> [side \in Sides |-> conn[c][side]]]
    /\ \A c \in Connections, side \in Sides : Keeps(conn[c][side])

(* What a step may do to what the server keeps: let go of some, or hold    *)
(* them; take in one within the bound; admit one within its bound.         *)
PhaseOf(c) == conn[c]["server"].phase
Same(c) == PhaseOf(c)' = PhaseOf(c)

LetsGo == \A d \in Connections : Same(d) \/ PhaseOf(d)' = "gone" \/ (PhaseOf(d) \in Live /\ PhaseOf(d)' = "held")

TakesIn ==
    \E c \in Connections :
        /\ Cardinality(Kept) < MaxSessions
        /\ PhaseOf(c)' = "hello" /\ (\A d \in Connections \ {c} : Same(d))

Admits ==
    \E c \in Connections :
        /\ Cardinality(Admitted) < MaxAdmitted
        /\ PhaseOf(c) = "hello" /\ PhaseOf(c)' = "active" /\ (\A d \in Connections \ {c} : Same(d))

Moves == Shaped' /\ (LetsGo \/ TakesIn \/ Admits)

(* The inductive invariant: a bound on a set's size needs it finite.       *)
Bounded ==
    /\ IsFiniteSet(Kept) /\ Cardinality(Kept) <= MaxSessions
    /\ Cardinality(Admitted) <= MaxAdmitted

BoundInv == Shaped /\ Bounded

-----------------------------------------------------------------------------
(* The bounds are numbers.                                                 *)
LEMMA Numbers == MaxSessions \in Nat /\ MaxAdmitted \in Nat
  BY Settings

(* Nothing is kept at first.                                               *)
LEMMA InitBounds == Init => BoundInv
<1> SUFFICES ASSUME Init PROVE BoundInv
  OBVIOUS
<1>1. Shaped
  BY DEF Init, Shaped, Keeps, Unknown, Fields, Phases
<1>2. Kept = {} /\ Admitted = {}
  BY DEF Init, Kept, Admitted, Unknown, Live, Sides
<1> QED
  BY <1>1, <1>2, Numbers, FS_EmptySet DEF BoundInv, Bounded

(* A step that leaves what the sides keep alone.                           *)
LEMMA Untouched == Shaped /\ UNCHANGED conn => Moves
  BY DEF Shaped, Keeps, Moves, LetsGo, Same, PhaseOf

(* A side's own connection replaced by one it has let go of, or holds.     *)
LEMMA Ending ==
  ASSUME Shaped, NEW c \in Connections, NEW side \in Sides, NEW over,
         conn' = [conn EXCEPT ![c][side] = over], Keeps(over),
         over.phase = "gone" \/ (over.phase = "held" /\ conn[c][side].phase \in Live)
  PROVE  Moves
<1>1. Shaped'
  BY DEF Shaped
<1>2. LetsGo
  BY DEF Shaped, LetsGo, Same, PhaseOf, Sides
<1> QED
  BY <1>1, <1>2 DEF Moves

(* What is let go of, or held, has its fields.                             *)
LEMMA Lets ==
  ASSUME NEW keeps
  PROVE  /\ Keeps(Over(keeps)) /\ Over(keeps).phase = "gone"
         /\ Keeps(Hold(keeps)) /\ Hold(keeps).phase = "held"
  BY DEF Keeps, Over, Hold, Unknown, Fields, Phases, Live

(* A field but the phase set, or anything of a client's.                   *)
LEMMA Field ==
  ASSUME NEW keeps, Keeps(keeps), NEW value
  PROVE  /\ Keeps([keeps EXCEPT !.unsent = value])
         /\ [keeps EXCEPT !.unsent = value].phase = keeps.phase
         /\ Keeps([keeps EXCEPT !.late = value])
         /\ [keeps EXCEPT !.late = value].phase = keeps.phase
  BY DEF Keeps, Fields

(* A connection replaced on the client's side, or in the same phase.       *)
LEMMA Quiet ==
  ASSUME Shaped, NEW c \in Connections, NEW side \in Sides, NEW keeps,
         conn' = [conn EXCEPT ![c][side] = keeps], Keeps(keeps),
         side = "client" \/ keeps.phase = conn[c][side].phase
  PROVE  Moves
<1>1. Shaped'
  BY DEF Shaped
<1>2. LetsGo
  BY DEF Shaped, LetsGo, Same, PhaseOf, Sides
<1> QED
  BY <1>1, <1>2 DEF Moves

(* end(), and the same after a send that failed.                           *)
LEMMA EndMoves ==
  ASSUME Shaped, NEW c \in Connections, NEW side \in Sides,
         conn' = [conn EXCEPT ![c][side] = Over(@)]
  PROVE  Moves
<1> DEFINE over == Over(conn[c][side])
<1>1. Keeps(over) /\ over.phase = "gone"
  BY Lets
<1>2. conn' = [conn EXCEPT ![c][side] = over]
  OBVIOUS
<1> HIDE DEF over
<1> QED
  BY <1>1, <1>2, Ending

(* What a client hears changes the client's side alone.                    *)
LEMMA ConnectedMoves ==
  ASSUME Shaped, NEW c \in Connections, NEW item, NEW left, HearConnected(c, item, left)
  PROVE  Moves
<1> DEFINE keeps == [conn[c]["client"] EXCEPT !.phase = "verdict"]
<1>1. CASE conn' = [conn EXCEPT ![c]["client"].phase = "verdict"]
  <2>1. conn' = [conn EXCEPT ![c]["client"] = keeps]
    BY <1>1
  <2>2. Keeps(keeps)
    BY DEF Shaped, Keeps, Fields, Phases, Live, Sides
  <2> HIDE DEF keeps
  <2> QED
    BY <2>1, <2>2, Quiet DEF Sides
<1>2. CASE conn' = [conn EXCEPT ![c]["client"] = Over(@)]
  BY <1>2, EndMoves DEF Sides
<1> QED
  BY <1>1, <1>2 DEF HearConnected, EndUnsent

(* The same of an accept.                                                  *)
LEMMA AcceptMoves ==
  ASSUME Shaped, NEW c \in Connections, NEW item, NEW left, HearAccept(c, item, left)
  PROVE  Moves
<1> DEFINE keeps == [conn[c]["client"] EXCEPT !.phase = "active", !.epoch = item.numbers[1]]
<1>1. conn' = [conn EXCEPT ![c]["client"] = keeps]
  BY DEF HearAccept, Shaped, Sides
<1>2. Keeps(keeps)
  BY DEF Shaped, Keeps, Fields, Phases, Live, Sides
<1> HIDE DEF keeps
<1> QED
  BY <1>1, <1>2, Quiet DEF Sides

(* What the server keeps of one connection, replaced.                      *)
LEMMA Replaced ==
  ASSUME Shaped, NEW c \in Connections, NEW keeps, Keeps(keeps),
         conn' = [conn EXCEPT ![c]["server"] = keeps]
  PROVE  /\ Shaped'
         /\ PhaseOf(c)' = keeps.phase
         /\ \A d \in Connections \ {c} : Same(d)
<1>1. Shaped'
  BY DEF Shaped, Sides
<1>2. PhaseOf(c)' = keeps.phase
  BY DEF Shaped, Sides, PhaseOf
<1>3. \A d \in Connections \ {c} : Same(d)
  BY DEF Shaped, Sides, PhaseOf, Same
<1> QED
  BY <1>1, <1>2, <1>3

(* The server takes one in.                                                *)
LEMMA AcceptedMoves ==
  ASSUME Shaped, NEW c \in Connections, NEW item, NEW left, HearAccepted(c, item, left),
         Cardinality(Kept) \in Nat
  PROVE  Moves
<1>1. CASE Cardinality(Kept) >= MaxSessions
  BY <1>1, EndMoves DEF HearAccepted, End, Sides
<1>2. CASE ~(Cardinality(Kept) >= MaxSessions)
  <2> DEFINE keeps == [conn[c]["server"] EXCEPT !.phase = "hello"]
  <2>1. conn' = [conn EXCEPT ![c]["server"] = keeps]
    BY <1>2 DEF HearAccepted
  <2>2. Keeps(keeps) /\ keeps.phase = "hello"
    BY DEF Shaped, Keeps, Fields, Phases, Live, Sides
  <2> HIDE DEF keeps
  <2>3. Cardinality(Kept) < MaxSessions
    BY <1>2, Numbers
  <2>4. Shaped' /\ PhaseOf(c)' = "hello" /\ (\A d \in Connections \ {c} : Same(d))
    BY <2>1, <2>2, Replaced
  <2> QED
    BY <2>3, <2>4 DEF Moves, TakesIn
<1> QED
  BY <1>1, <1>2

(* The server refuses one, or admits it.                                   *)
LEMMA RefuseMoves ==
  ASSUME Shaped, NEW c \in Connections, NEW item, NEW left, Refuse(c, item, left)
  PROVE  Moves
<1>1. CASE conn' = [conn EXCEPT ![c]["server"] = Hold(@)]
  <2> DEFINE keeps == Hold(conn[c]["server"])
  <2>1. conn' = [conn EXCEPT ![c]["server"] = keeps]
    BY <1>1
  <2>2. Keeps(keeps) /\ keeps.phase = "held"
    BY Lets
  <2>3. conn[c]["server"].phase \in Live
    BY DEF Refuse, Live
  <2> HIDE DEF keeps
  <2> QED
    BY <2>1, <2>2, <2>3, Ending DEF Sides
<1>2. CASE conn' = [conn EXCEPT ![c]["server"] = Over(@)]
  BY <1>2, EndMoves DEF Sides
<1> QED
  BY <1>1, <1>2 DEF Refuse, EndUnsent

(* Admitted, it is within its own bound.                                   *)
LEMMA AdmitMoves ==
  ASSUME Shaped, NEW c \in Connections, NEW item, NEW left, Admit(c, item, left)
  PROVE  Moves
<1> DEFINE keeps == [conn[c]["server"] EXCEPT !.phase = "active", !.epoch = epochs']
<1>1. CASE conn' = [conn EXCEPT ![c]["server"].phase = "active", ![c]["server"].epoch = epochs']
  <2>1. conn' = [conn EXCEPT ![c]["server"] = keeps]
    BY <1>1 DEF Shaped, Sides
  <2>2. Keeps(keeps) /\ keeps.phase = "active"
    BY DEF Shaped, Keeps, Fields, Phases, Live, Sides
  <2>3. Cardinality(Admitted) < MaxAdmitted /\ PhaseOf(c) = "hello"
    BY DEF Admit, PhaseOf
  <2> HIDE DEF keeps
  <2>4. Shaped' /\ PhaseOf(c)' = "active" /\ (\A d \in Connections \ {c} : Same(d))
    BY <2>1, <2>2, Replaced
  <2> QED
    BY <2>3, <2>4 DEF Moves, Admits
<1>2. CASE conn' = [conn EXCEPT ![c]["server"] = Over(@)]
  BY <1>2, EndMoves DEF Sides
<1> QED
  BY <1>1, <1>2 DEF Admit, EndUnsent

(* Every event a pump hears.                                               *)
LEMMA HearMoves ==
  ASSUME Shaped, NEW c \in Connections, NEW side \in Sides, Hear(c, side), Cardinality(Kept) \in Nat
  PROVE  Moves
<1> PICK i \in DOMAIN way[c][side] :
      LET item == way[c][side][i]
          left == IF item.kind \in Ends THEN <<>> ELSE Without(way[c][side], i)
      IN  \/ side = "server" /\ (HearAccepted(c, item, left) \/ Refuse(c, item, left) \/ Admit(c, item, left))
          \/ side = "client" /\ (HearConnected(c, item, left) \/ HearReject(c, item) \/ HearAccept(c, item, left))
          \/ HearGame(c, side, item, left) \/ HearOutOfTurn(c, side, item)
          \/ HearEnd(c, side, item) \/ HearNothing(c, side, item, left)
  BY DEF Hear
<1> DEFINE item == way[c][side][i]
           left == IF item.kind \in Ends THEN <<>> ELSE Without(way[c][side], i)
<1>1. CASE HearAccepted(c, item, left)
  BY <1>1, AcceptedMoves
<1>2. CASE Refuse(c, item, left)
  BY <1>2, RefuseMoves
<1>3. CASE Admit(c, item, left)
  BY <1>3, AdmitMoves
<1>4. CASE HearConnected(c, item, left)
  BY <1>4, ConnectedMoves
<1>5. CASE HearAccept(c, item, left)
  BY <1>5, AcceptMoves
<1>6. CASE HearReject(c, item)
  BY <1>6, EndMoves DEF HearReject, End, Sides
<1>7. CASE HearOutOfTurn(c, side, item) \/ HearEnd(c, side, item)
  BY <1>7, EndMoves DEF HearOutOfTurn, HearEnd, End
<1>8. CASE HearGame(c, side, item, left) \/ HearNothing(c, side, item, left)
  BY <1>8, Untouched DEF HearGame, HearNothing
<1> QED
  BY <1>1, <1>2, <1>3, <1>4, <1>5, <1>6, <1>7, <1>8

(* What was gathered is handed over, for all of a party's connections.     *)
LEMMA FlushMoves ==
  ASSUME Shaped, NEW p \in Parties, FlushAll(p)
  PROVE  Moves
<1> DEFINE side == SideOf(p)
           mine == IF p = Server THEN Connections ELSE {p}
<1>1. side \in Sides
  BY DEF SideOf, Sides
<1>2. conn' = [c \in Connections |-> IF c \in mine THEN [conn[c] EXCEPT ![side].unsent = <<>>] ELSE conn[c]]
  BY DEF FlushAll
<1> HIDE DEF side, mine
<1>3. \A c \in Connections, s \in Sides :
        conn'[c][s] = conn[c][s] \/ conn'[c][s] = [conn[c][s] EXCEPT !.unsent = <<>>]
  BY <1>1, <1>2 DEF Shaped
<1>4. \A c \in Connections, s \in Sides :
        Keeps(conn'[c][s]) /\ conn'[c][s].phase = conn[c][s].phase
  <2> SUFFICES ASSUME NEW c \in Connections, NEW s \in Sides
               PROVE  Keeps(conn'[c][s]) /\ conn'[c][s].phase = conn[c][s].phase
    OBVIOUS
  <2>1. Keeps(conn[c][s])
    BY DEF Shaped
  <2>2. Keeps([conn[c][s] EXCEPT !.unsent = <<>>]) /\ [conn[c][s] EXCEPT !.unsent = <<>>].phase = conn[c][s].phase
    BY <2>1, Field
  <2> QED
    BY <1>3, <2>1, <2>2
<1>5. conn' = [c \in Connections |-> [s \in Sides |-> conn'[c][s]]]
  <2>1. \A c \in Connections : conn'[c] = [s \in Sides |-> conn'[c][s]]
    BY <1>1, <1>2 DEF Shaped
  <2> QED
    BY <1>2, <2>1
<1>6. Shaped'
  BY <1>4, <1>5 DEF Shaped
<1>7. LetsGo
  BY <1>4 DEF LetsGo, Same, PhaseOf, Sides
<1> QED
  BY <1>6, <1>7 DEF Moves

(* What is late, or could not keep its promise, is let go of.              *)
LEMMA ExpireMoves ==
  ASSUME Shaped, NEW p \in Parties, Expire(p)
  PROVE  Moves
<1> DEFINE side == SideOf(p)
<1>1. side \in Sides
  BY DEF SideOf, Sides
<1>2. \E over \in SUBSET Connections :
        conn' = [c \in Connections |-> IF c \in over THEN [conn[c] EXCEPT ![side] = Over(@)] ELSE conn[c]]
  <2> DEFINE mine == IF p = Server THEN Connections ELSE {p}
             phase(c) == conn[c][side].phase
             timedOut == {c \in mine : phase(c) \in Live \ {"active"} /\ conn[c][side].late}
             heldOut == {c \in mine : phase(c) = "held" /\ conn[c][side].late}
             kept(old) == timedOut \cup heldOut \cup ({c \in mine : phase(c) = "active" /\ conn[c][side].exhausted} \cup old)
  <2>1. PICK old \in SUBSET {c \in mine : phase(c) = "active" /\ Unread(c, side) # {0}} :
          conn' = [c \in Connections |-> IF c \in kept(old) THEN [conn[c] EXCEPT ![side] = Over(@)] ELSE conn[c]]
    BY DEF Expire
  <2>2. mine \subseteq Connections
    BY DEF Parties
  <2>3. kept(old) \subseteq Connections
    BY <2>2
  <2> QED
    BY <2>1, <2>3
<1> PICK over \in SUBSET Connections :
        conn' = [c \in Connections |-> IF c \in over THEN [conn[c] EXCEPT ![side] = Over(@)] ELSE conn[c]]
  BY <1>2
<1> HIDE DEF side
<1>3. \A c \in Connections, s \in Sides :
        conn'[c][s] = conn[c][s] \/ conn'[c][s] = Over(conn[c][s])
  BY <1>1 DEF Shaped
<1>4. \A c \in Connections, s \in Sides :
        Keeps(conn'[c][s]) /\ (conn'[c][s].phase = conn[c][s].phase \/ conn'[c][s].phase = "gone")
  BY <1>3, Lets DEF Shaped
<1>5. conn' = [c \in Connections |-> [s \in Sides |-> conn'[c][s]]]
  <2>1. \A c \in Connections : conn'[c] = [s \in Sides |-> conn'[c][s]]
    BY <1>1 DEF Shaped
  <2> QED
    BY <2>1
<1>6. Shaped'
  BY <1>4, <1>5 DEF Shaped
<1>7. LetsGo
  BY <1>4 DEF LetsGo, Same, PhaseOf, Sides
<1> QED
  BY <1>6, <1>7 DEF Moves

(* What an owner does, and the provider.                                   *)
LEMMA SendMoves ==
  ASSUME Shaped, NEW c \in Connections, NEW side \in Sides,
         SendFrame(c, side) \/ SendDatagram(c, side) \/ SendEvent(c, side) \/ Time(c, side)
  PROVE  Moves
<1> DEFINE was == conn[c][side]
<1>1. \E keeps : /\ conn' = [conn EXCEPT ![c][side] = keeps]
                 /\ keeps \in {[was EXCEPT !.unsent = Append(was.unsent, sent[c][side].frames + 1)],
                               [was EXCEPT !.unsent = <<>>], [was EXCEPT !.late = TRUE]}
                    \/ \E e : keeps = [was EXCEPT !.unsent = <<>>, !.exhausted = e]
  <2>1. CASE SendFrame(c, side)
    BY <2>1 DEF SendFrame
  <2>2. CASE SendDatagram(c, side)
    BY <2>2 DEF SendDatagram
  <2>3. CASE SendEvent(c, side)
    <3> PICK e : conn' = [conn EXCEPT ![c][side].unsent = <<>>, ![c][side].exhausted = e]
      BY <2>3 DEF SendEvent
    <3> conn' = [conn EXCEPT ![c][side] = [was EXCEPT !.unsent = <<>>, !.exhausted = e]]
      BY DEF Shaped
    <3> QED
      OBVIOUS
  <2>4. CASE Time(c, side)
    BY <2>4 DEF Time
  <2> QED
    BY <2>1, <2>2, <2>3, <2>4
<1> PICK keeps : /\ conn' = [conn EXCEPT ![c][side] = keeps]
                 /\ keeps \in {[was EXCEPT !.unsent = Append(was.unsent, sent[c][side].frames + 1)],
                               [was EXCEPT !.unsent = <<>>], [was EXCEPT !.late = TRUE]}
                    \/ \E e : keeps = [was EXCEPT !.unsent = <<>>, !.exhausted = e]
  BY <1>1
<1>2. Keeps(keeps) /\ keeps.phase = was.phase
  <2>1. Keeps(was)
    BY DEF Shaped
  <2> HIDE DEF was
  <2>2. CASE keeps \in {[was EXCEPT !.unsent = Append(was.unsent, sent[c][side].frames + 1)],
                        [was EXCEPT !.unsent = <<>>], [was EXCEPT !.late = TRUE]}
    <3> DEFINE more == Append(was.unsent, sent[c][side].frames + 1)
    <3> HIDE DEF more
    <3>1. Keeps([was EXCEPT !.unsent = more]) /\ [was EXCEPT !.unsent = more].phase = was.phase
      BY <2>1, Field
    <3>2. Keeps([was EXCEPT !.unsent = <<>>]) /\ [was EXCEPT !.unsent = <<>>].phase = was.phase
      BY <2>1, Field
    <3>3. Keeps([was EXCEPT !.late = TRUE]) /\ [was EXCEPT !.late = TRUE].phase = was.phase
      BY <2>1, Field
    <3> QED
      BY <2>2, <3>1, <3>2, <3>3 DEF more
  <2>3. ASSUME NEW e, keeps = [was EXCEPT !.unsent = <<>>, !.exhausted = e]
        PROVE  Keeps(keeps) /\ keeps.phase = was.phase
    BY <2>1, <2>3 DEF Keeps, Fields
  <2> QED
    BY <2>2, <2>3
<1> QED
  BY <1>2, Quiet

(* Everything an owner does.                                               *)
LEMMA OwnMoves ==
  ASSUME Shaped, NEW c \in Connections, NEW side \in Sides, Own(c, side)
  PROVE  Moves
<1>1. CASE SendFrame(c, side) \/ SendDatagram(c, side) \/ SendEvent(c, side)
  BY <1>1, SendMoves
<1>2. CASE Close(c, side)
  BY <1>2, EndMoves DEF Close, End
<1>3. CASE Vanish(c)
  BY <1>3, EndMoves DEF Vanish, Sides
<1>4. CASE Connect(c)
  <2> DEFINE keeps == [conn[c]["client"] EXCEPT !.phase = "connecting"]
  <2>1. conn' = [conn EXCEPT ![c]["client"] = keeps]
    BY <1>4 DEF Connect
  <2>2. Keeps(keeps)
    BY DEF Shaped, Keeps, Fields, Phases, Live, Sides
  <2> HIDE DEF keeps
  <2> QED
    BY <2>1, <2>2, Quiet DEF Sides
<1>5. CASE CloseAfterSending(c)
  <2> DEFINE keeps == Hold(conn[c]["server"])
  <2>1. conn' = [conn EXCEPT ![c]["server"] = keeps]
    BY <1>5 DEF CloseAfterSending
  <2>2. Keeps(keeps) /\ keeps.phase = "held"
    BY Lets
  <2>3. conn[c]["server"].phase \in Live
    BY <1>5 DEF CloseAfterSending
  <2> HIDE DEF keeps
  <2> QED
    BY <2>1, <2>2, <2>3, Ending DEF Sides
<1> QED
  BY <1>1, <1>2, <1>3, <1>4, <1>5 DEF Own

(* Every step lets go, takes one in, or admits one.                        *)
LEMMA StepMoves ==
  ASSUME Shaped, Cardinality(Kept) \in Nat, [Next]_vars
  PROVE  Moves
<1>1. CASE UNCHANGED vars
  BY <1>1, Untouched DEF vars
<1>2. ASSUME NEW p \in Parties, Pump(p) \/ Flush(p) PROVE Moves
  <2>1. CASE Poll(p) \/ Flush(p)
    BY <2>1, FlushMoves DEF Poll, Flush
  <2>2. CASE Expire(p)
    BY <2>2, ExpireMoves
  <2>3. ASSUME NEW c \in Connections, Hear(c, SideOf(p)) PROVE Moves
    BY <2>3, HearMoves DEF SideOf, Sides
  <2> QED
    BY <1>2, <2>1, <2>2, <2>3 DEF Pump
<1>3. ASSUME NEW c \in Connections, NEW side \in Sides, Time(c, side) \/ Own(c, side) \/ Fail(c) PROVE Moves
  <2>1. CASE Time(c, side)
    BY <2>1, SendMoves
  <2>2. CASE Own(c, side)
    BY <2>2, OwnMoves
  <2>3. CASE Fail(c)
    BY <2>3, Untouched DEF Fail
  <2> QED
    BY <1>3, <2>1, <2>2, <2>3
<1> QED
  BY <1>1, <1>2, <1>3 DEF Next

-----------------------------------------------------------------------------
(* A set that gains at most one element, while it is below a bound, stays  *)
(* within it.                                                              *)
LEMMA OneMore ==
  ASSUME NEW S, NEW T, NEW x, NEW bound \in Nat, IsFiniteSet(S),
         \/ T \subseteq S /\ Cardinality(S) <= bound
         \/ T \subseteq S \cup {x} /\ Cardinality(S) < bound
  PROVE  IsFiniteSet(T) /\ Cardinality(T) <= bound
<1>1. Cardinality(S) \in Nat
  BY FS_CardinalityType
<1>2. CASE T \subseteq S /\ Cardinality(S) <= bound
  <2>1. IsFiniteSet(T) /\ Cardinality(T) <= Cardinality(S)
    BY <1>2, FS_Subset
  <2>2. Cardinality(T) \in Nat
    BY <2>1, FS_CardinalityType
  <2> QED
    BY <1>1, <1>2, <2>1, <2>2
<1>3. CASE T \subseteq S \cup {x} /\ Cardinality(S) < bound
  <2>1. IsFiniteSet(S \cup {x}) /\ Cardinality(S \cup {x}) <= Cardinality(S) + 1
    BY <1>1, FS_AddElement
  <2>2. IsFiniteSet(T) /\ Cardinality(T) <= Cardinality(S \cup {x})
    BY <1>3, <2>1, FS_Subset
  <2>3. Cardinality(T) \in Nat /\ Cardinality(S \cup {x}) \in Nat
    BY <2>1, <2>2, FS_CardinalityType
  <2> QED
    BY <1>1, <1>3, <2>1, <2>2, <2>3
<1> QED
  BY <1>2, <1>3

(* Each kind of step keeps the bounds.                                     *)
LEMMA StepBounded ==
  ASSUME BoundInv, Moves
  PROVE  Bounded'
<1>1. IsFiniteSet(Kept) /\ IsFiniteSet(Admitted)
  <2>1. Admitted \subseteq Kept
    BY DEF Admitted, Kept, Live
  <2> QED
    BY <2>1, FS_Subset DEF BoundInv, Bounded
<1>2. \A c \in Connections : PhaseOf(c) \in Phases
  BY DEF BoundInv, Shaped, Keeps, PhaseOf, Sides
<1>3. CASE LetsGo
  <2>1. Kept' \subseteq Kept /\ Admitted' \subseteq Admitted
    BY <1>3 DEF LetsGo, Same, PhaseOf, Kept, Admitted, Live
  <2> QED
    BY <1>1, <2>1, OneMore, Numbers DEF BoundInv, Bounded
<1>4. CASE TakesIn
  <2> PICK c \in Connections : /\ Cardinality(Kept) < MaxSessions
                               /\ PhaseOf(c)' = "hello" /\ (\A d \in Connections \ {c} : Same(d))
    BY <1>4 DEF TakesIn
  <2>1. Kept' \subseteq Kept \cup {c} /\ Admitted' \subseteq Admitted
    BY DEF Same, PhaseOf, Kept, Admitted
  <2> QED
    BY <1>1, <2>1, OneMore, Numbers DEF BoundInv, Bounded
<1>5. CASE Admits
  <2> PICK c \in Connections : /\ Cardinality(Admitted) < MaxAdmitted
                               /\ PhaseOf(c) = "hello" /\ PhaseOf(c)' = "active"
                               /\ \A d \in Connections \ {c} : Same(d)
    BY <1>5 DEF Admits
  <2>1. Kept' \subseteq Kept /\ Admitted' \subseteq Admitted \cup {c}
    BY DEF Same, PhaseOf, Kept, Admitted, Live
  <2> QED
    BY <1>1, <2>1, OneMore, Numbers DEF BoundInv, Bounded
<1> QED
  BY <1>3, <1>4, <1>5 DEF Moves

(* The server keeps no more connections than MaxSessions, those held for   *)
(* their peers to read why counted, and admits no more than MaxAdmitted.   *)
THEOREM WithinBoundsHolds == Spec => []WithinBounds
<1>1. Init => BoundInv
  BY InitBounds
<1>2. BoundInv /\ [Next]_vars => BoundInv'
  <2> SUFFICES ASSUME BoundInv, [Next]_vars PROVE BoundInv'
    OBVIOUS
  <2>1. Cardinality(Kept) \in Nat
    BY FS_CardinalityType DEF BoundInv, Bounded
  <2>2. Moves
    BY <2>1, StepMoves DEF BoundInv
  <2> QED
    BY <2>2, StepBounded DEF BoundInv, Moves
<1>3. BoundInv => WithinBounds
  <2> SUFFICES ASSUME BoundInv PROVE WithinBounds
    OBVIOUS
  <2>1. {c \in Connections : conn[c]["server"].phase \notin {"none", "gone"}} = Kept
    BY DEF BoundInv, Shaped, Keeps, Phases, Kept, Sides, Live
  <2> QED
    BY <2>1 DEF BoundInv, Bounded, WithinBounds
<1> QED
  BY <1>1, <1>2, <1>3, PTL DEF Spec
-----------------------------------------------------------------------------

(* What a connection's state is made of.                                   *)
Keeping == [phase : Phases, epoch : Nat, unsent : Seq(Nat), exhausted : BOOLEAN, late : BOOLEAN]
Heard == [kind : NewsKinds, number : Nat]
Counts == [{"frames", "events", "datagrams"} -> Nat]

(* What each kind of item carries.                                         *)
Carries(item) ==
    /\ item.kind \in {"accept", "datagram"} => Len(item.numbers) = 1
    /\ item.kind = "event" => Len(item.numbers) = 2
Parcel == {item \in [kind : Kinds, numbers : Seq(Nat)] : Carries(item)}

-----------------------------------------------------------------------------
(* A side's story.  Phases before the owner hears of a connection, and     *)
(* what it hears of one admitted.                                          *)
Early == {"none", "connecting", "hello", "verdict"}
Game == {"frame", "event", "datagram"}

Ordered(news) ==
    \A i \in DOMAIN news :
        /\ news[i].kind \in Game => \E j \in 1..(i - 1) : news[j].kind = "admitted"
        /\ news[i].kind = "admitted" => i = 1
        /\ news[i].kind \in EndNews => i = Len(news)

Story(phase, news) ==
    /\ phase \in Early => news = <<>>
    /\ phase = "active" => /\ news # <<>> /\ news[1].kind = "admitted"
                           /\ \A i \in 2..Len(news) : news[i].kind \in Game
    /\ Ordered(news)

(* How a step takes a side from a phase to one, and what its owner hears.  *)
Silent(news) == \A i \in DOMAIN news : news[i].kind # "event"
EndsTold(phase, news) ==
    \/ news = <<>>
    \/ Len(news) = 1 /\ news[1].kind \in EndNews
    \/ phase \in Early /\ Len(news) = 2 /\ news[1].kind = "rejected" /\ news[2].kind \in EndNews
Phased(from, to, news) ==
    \/ to = from /\ news = <<>>
    \/ from = "active" /\ to = "active" /\ \A i \in DOMAIN news : news[i].kind \in Game
    \/ from = "none" /\ to \in {"hello", "gone"} /\ news = <<>>
    \/ from = "connecting" /\ to = "verdict" /\ news = <<>>
    \/ from \in {"hello", "verdict"} /\ to = "active" /\ Len(news) = 1 /\ news[1].kind = "admitted"
    \/ from \in Live /\ to \in {"held", "gone"} /\ EndsTold(from, news)
    \/ from = "held" /\ to = "gone" /\ news = <<>>

-----------------------------------------------------------------------------
(* Two sequences put together.                                             *)
LEMMA Together ==
  ASSUME NEW S, NEW s \in Seq(S), NEW u \in Seq(S)
  PROVE  /\ s \o u \in Seq(S)
         /\ Len(s \o u) = Len(s) + Len(u)
         /\ DOMAIN s = 1..Len(s) /\ DOMAIN u = 1..Len(u) /\ DOMAIN (s \o u) = 1..(Len(s) + Len(u))
         /\ Len(s) \in Nat /\ Len(u) \in Nat
         /\ \A i \in 1..Len(s) : (s \o u)[i] = s[i]
         /\ \A i \in 1..(Len(s) + Len(u)) :
              i > Len(s) => i - Len(s) \in 1..Len(u) /\ (s \o u)[i] = u[i - Len(s)]
         /\ \A i \in 1..Len(u) : Len(s) + i \in 1..(Len(s) + Len(u)) /\ (s \o u)[Len(s) + i] = u[i]
<1>1. /\ s \o u \in Seq(S)
      /\ Len(s \o u) = Len(s) + Len(u)
      /\ \A i \in 1 .. Len(s) + Len(u) : (s \o u)[i] = IF i <= Len(s) THEN s[i] ELSE u[i - Len(s)]
  BY ConcatProperties
<1>2. DOMAIN s = 1..Len(s) /\ DOMAIN u = 1..Len(u) /\ DOMAIN (s \o u) = 1..Len(s \o u)
      /\ Len(s) \in Nat /\ Len(u) \in Nat
  BY <1>1, LenProperties
<1> DEFINE n == Len(s) m == Len(u) z == s \o u
<1>3. n \in Nat /\ m \in Nat /\ \A i \in 1 .. n + m : z[i] = IF i <= n THEN s[i] ELSE u[i - n]
  BY <1>1, <1>2
<1> HIDE DEF n, m, z
<1>4. /\ \A i \in 1..n : z[i] = s[i]
      /\ \A i \in 1..(n + m) : i > n => i - n \in 1..m /\ z[i] = u[i - n]
      /\ \A i \in 1..m : n + i \in 1..(n + m) /\ z[n + i] = u[i]
  <2>1. ASSUME NEW i \in 1..n PROVE z[i] = s[i]
    BY <1>3
  <2>2. ASSUME NEW i \in 1..(n + m), i > n PROVE i - n \in 1..m /\ z[i] = u[i - n]
    BY <1>3, <2>2
  <2>3. ASSUME NEW i \in 1..m PROVE n + i \in 1..(n + m) /\ z[n + i] = u[i]
    <3>1. n + i \in 1..(n + m) /\ ~(n + i <= n) /\ (n + i) - n = i
      BY <1>3
    <3> QED BY <1>3, <3>1
  <2> QED BY <2>1, <2>2, <2>3
<1> QED
  BY <1>1, <1>2, <1>4 DEF n, m, z

(* One item taken from a sequence.                                         *)
LEMMA TakenOut ==
  ASSUME NEW S, NEW s \in Seq(S), NEW i \in DOMAIN s
  PROVE  /\ Without(s, i) \in Seq(S)
         /\ Len(Without(s, i)) = Len(s) - 1
         /\ DOMAIN s = 1..Len(s) /\ DOMAIN Without(s, i) = 1..(Len(s) - 1) /\ Len(s) \in Nat
         /\ \A j \in 1..(Len(s) - 1) : Without(s, i)[j] = IF j < i THEN s[j] ELSE s[j + 1]
<1> DEFINE n == Len(s)
<1>1. n \in Nat /\ DOMAIN s = 1..n /\ i \in 1..n /\ \A j \in 1..n : s[j] \in S
  BY LenProperties, ElementOfSeq
<1> DEFINE a == SubSeq(s, 1, i - 1) b == SubSeq(s, i + 1, n)
<1> HIDE DEF n
<1>2. /\ a \in Seq(S)
      /\ Len(a) = IF 1 <= i - 1 THEN (i - 1) - 1 + 1 ELSE 0
      /\ \A j \in 1..((i - 1) - 1 + 1) : a[j] = s[1 + j - 1]
  <2>1. 1 \in Int /\ i - 1 \in Int /\ \A j \in 1..(i - 1) : s[j] \in S
    BY <1>1
  <2> QED BY <2>1, SubSeqProperties
<1>3. /\ b \in Seq(S)
      /\ Len(b) = IF i + 1 <= n THEN n - (i + 1) + 1 ELSE 0
      /\ \A j \in 1..(n - (i + 1) + 1) : b[j] = s[(i + 1) + j - 1]
  <2>1. i + 1 \in Int /\ n \in Int /\ \A j \in (i + 1)..n : s[j] \in S
    BY <1>1
  <2> QED BY <2>1, SubSeqProperties
<1> HIDE DEF a, b
<1>4. Len(a) = i - 1 /\ Len(b) = n - i
  BY <1>1, <1>2, <1>3
<1>5. /\ a \o b \in Seq(S) /\ Len(a \o b) = Len(a) + Len(b) /\ DOMAIN (a \o b) = 1..(Len(a) + Len(b))
      /\ \A j \in 1..Len(a) : (a \o b)[j] = a[j]
      /\ \A j \in 1..(Len(a) + Len(b)) : j > Len(a) => j - Len(a) \in 1..Len(b) /\ (a \o b)[j] = b[j - Len(a)]
  <2>1. a \in Seq(S) /\ b \in Seq(S)
    BY <1>2, <1>3
  <2> QED BY ONLY <2>1, Together
<1>6. ASSUME NEW j \in 1..(n - 1)
      PROVE  (a \o b)[j] = IF j < i THEN s[j] ELSE s[j + 1]
  <2>1. CASE j < i
    <3>1. j \in 1..(i - 1) /\ j \in 1..((i - 1) - 1 + 1) /\ 1 + j - 1 = j
      BY <1>1, <2>1
    <3> QED BY <1>2, <1>4, <1>5, <2>1, <3>1
  <2>2. CASE ~(j < i)
    <3>1. /\ j \in 1..((i - 1) + (n - i)) /\ j > i - 1 /\ j - (i - 1) \in 1..(n - (i + 1) + 1)
          /\ (i + 1) + (j - (i - 1)) - 1 = j + 1
      BY <1>1, <2>2
    <3>2. (a \o b)[j] = b[j - (i - 1)]
      BY <1>4, <1>5, <3>1
    <3>3. b[j - (i - 1)] = s[(i + 1) + (j - (i - 1)) - 1]
      BY <1>3, <3>1
    <3> QED BY <2>2, <3>1, <3>2, <3>3
  <2> QED BY <2>1, <2>2
<1>7. (i - 1) + (n - i) = n - 1
  BY <1>1
<1> QED
  BY <1>1, <1>4, <1>5, <1>6, <1>7 DEF Without, a, b, n

(* The story goes on.                                                      *)
LEMMA StoryGoesOn ==
  ASSUME NEW from \in Phases, NEW to, NEW heard \in Seq(Heard), NEW news \in Seq(Heard),
         Story(from, heard), Phased(from, to, news)
  PROVE  Story(to, heard \o news)
<1> DEFINE all == heard \o news n == Len(heard) m == Len(news)
<1>1. /\ DOMAIN heard = 1..n /\ DOMAIN news = 1..m /\ DOMAIN all = 1..(n + m) /\ Len(all) = n + m
      /\ n \in Nat /\ m \in Nat
      /\ \A i \in 1..n : all[i] = heard[i]
      /\ \A i \in 1..(n + m) : i > n => i - n \in 1..m /\ all[i] = news[i - n]
  BY Together
<1>2. /\ heard = <<>> => n = 0
      /\ heard # <<>> => n >= 1
      /\ news = <<>> => all = heard
      /\ heard = <<>> => all = news
  <2>1. (heard # <<>> => n \in Nat \ {0}) /\ Len(<<>>) = 0
    BY EmptySeq
  <2>2. (news = <<>> => all = heard) /\ (heard = <<>> => all = news)
    BY ConcatEmptySeq
  <2> QED BY <2>1, <2>2
<1> HIDE DEF all, n, m
<1>3. CASE news = <<>> /\ (to = from \/ to \in {"hello", "verdict", "gone", "held"}) /\ (to \in Early => from \in Early)
  BY <1>2, <1>3 DEF Story, Early, Phases, Live
<1>4. CASE from = "active" /\ to = "active" /\ \A i \in DOMAIN news : news[i].kind \in Game
  <2>1. heard # <<>> /\ heard[1].kind = "admitted" /\ Ordered(heard) /\ \A i \in 2..n : heard[i].kind \in Game
    BY <1>4 DEF Story, n
  <2>2. n >= 1 /\ all[1].kind = "admitted"
    BY <1>1, <1>2, <2>1
  <2>3. \A i \in 2..(n + m) : all[i].kind \in Game
    <3> SUFFICES ASSUME NEW i \in 2..(n + m) PROVE all[i].kind \in Game
      OBVIOUS
    <3>1. CASE i <= n
      BY <1>1, <2>1, <3>1
    <3>2. CASE i > n
      BY <1>1, <1>4, <3>2
    <3> QED BY <1>1, <3>1, <3>2
  <2>4. Ordered(all)
    <3> SUFFICES ASSUME NEW i \in 1..(n + m)
                 PROVE  /\ all[i].kind \in Game => \E j \in 1..(i - 1) : all[j].kind = "admitted"
                        /\ all[i].kind = "admitted" => i = 1
                        /\ all[i].kind \in EndNews => i = Len(all)
      BY <1>1 DEF Ordered
    <3>1. CASE i = 1
      BY <2>2, <3>1 DEF Game, EndNews, Ends
    <3>2. CASE i # 1
      <4>1. all[i].kind \in Game /\ 1 \in 1..(i - 1)
        BY <1>1, <2>3, <3>2
      <4> QED BY <2>2, <4>1 DEF Game, EndNews, Ends
    <3> QED BY <3>1, <3>2
  <2>5. all # <<>>
    BY <1>1, <2>2
  <2>6. \A i \in 2..Len(all) : all[i].kind \in Game
    BY <1>1, <2>3
  <2> QED BY <1>4, <2>2, <2>4, <2>5, <2>6 DEF Story, Early, all
<1>5. CASE from \in {"hello", "verdict"} /\ to = "active" /\ Len(news) = 1 /\ news[1].kind = "admitted"
  <2>1. heard = <<>> /\ all = news /\ m = 1
    BY <1>2, <1>5 DEF Story, Early, m
  <2>2. Ordered(news) /\ news # <<>>
    BY <1>1, <1>5, <2>1 DEF Ordered, Game, EndNews, Ends
  <2>3. \A i \in 2..Len(news) : FALSE
    BY <2>1 DEF m
  <2> QED BY <1>5, <2>1, <2>2, <2>3 DEF Story, Early, all
<1>6. CASE from \in Live /\ to \in {"held", "gone"} /\ EndsTold(from, news)
  <2>1. CASE from = "active"
    <3>1. CASE news = <<>>
      BY <1>2, <1>6, <3>1 DEF Story, Early
    <3>2. CASE m = 1 /\ news[1].kind \in EndNews
      <4>1. heard # <<>> /\ heard[1].kind = "admitted" /\ Ordered(heard) /\ \A i \in 2..n : heard[i].kind \in Game
        BY <2>1 DEF Story, n
      <4>2. n >= 1 /\ all[1].kind = "admitted" /\ all[n + 1].kind \in EndNews
        BY <1>1, <1>2, <3>2, <4>1
      <4>3. \A i \in 2..n : all[i].kind \in Game
        BY <1>1, <4>1
      <4>4. Ordered(all)
        <5> SUFFICES ASSUME NEW i \in 1..(n + 1)
                     PROVE  /\ all[i].kind \in Game => \E j \in 1..(i - 1) : all[j].kind = "admitted"
                            /\ all[i].kind = "admitted" => i = 1
                            /\ all[i].kind \in EndNews => i = Len(all)
          BY <1>1, <3>2 DEF Ordered
        <5>1. CASE i = 1
          BY <4>2, <5>1 DEF Game, EndNews, Ends
        <5>2. CASE i \in 2..n
          <6>1. all[i].kind \in Game /\ 1 \in 1..(i - 1)
            BY <1>1, <4>3, <5>2
          <6> QED BY <4>2, <6>1 DEF Game, EndNews, Ends
        <5>3. CASE i = n + 1
          BY <1>1, <3>2, <4>2, <5>3 DEF Game, EndNews, Ends
        <5> QED BY <1>1, <5>1, <5>2, <5>3
      <4> QED BY <1>6, <4>4 DEF Story, Early, all
    <3> QED BY <1>6, <2>1, <3>1, <3>2 DEF EndsTold, Early, m
  <2>2. CASE from # "active"
    <3>1. heard = <<>> /\ all = news
      BY <1>2, <1>6, <2>2 DEF Story, Early, Live
    <3>2. Ordered(news)
      <4>1. CASE news = <<>>
        BY <3>1, <4>1 DEF Story
      <4>2. CASE m = 1 /\ news[1].kind \in EndNews
        BY <1>1, <4>2 DEF Ordered, Game, EndNews, Ends, m
      <4>3. CASE m = 2 /\ news[1].kind = "rejected" /\ news[2].kind \in EndNews
        BY <1>1, <4>3 DEF Ordered, Game, EndNews, Ends, m
      <4> QED BY <1>6, <4>1, <4>2, <4>3 DEF EndsTold, m
    <3> QED BY <1>6, <3>1, <3>2 DEF Story, Early, all
  <2> QED BY <2>1, <2>2
<1> QED
  BY <1>3, <1>4, <1>5, <1>6 DEF Phased, all, Early

(* What a side is left to hear, of what was on its way, but these.         *)
Leftover(before, after, taken) ==
    /\ \A x \in DOMAIN after : after[x].kind # "QueueExhausted" =>
          \E y \in DOMAIN before \ taken : x <= y /\ after[x] = before[y]
    /\ \A x, y \in DOMAIN after :
          x < y /\ after[x].kind # "QueueExhausted" /\ after[y].kind # "QueueExhausted" =>
              \E u, v \in DOMAIN before \ taken : u < v /\ after[x] = before[u] /\ after[y] = before[v]
    /\ \A y \in DOMAIN before \ taken : \E x \in DOMAIN after : after[x] = before[y]

Spent(back) == \A i \in DOMAIN back : back[i].kind = "QueueExhausted"

(* What is left where nothing, all, or one item was heard.                 *)
LEMMA LeftAll ==
  ASSUME NEW before \in Seq(Parcel), NEW back \in Seq(Parcel), Spent(back)
  PROVE  Leftover(before, before \o back, {})
<1> DEFINE after == before \o back n == Len(before) m == Len(back)
<1>1. /\ DOMAIN before = 1..n /\ DOMAIN back = 1..m /\ DOMAIN after = 1..(n + m) /\ n \in Nat /\ m \in Nat
      /\ \A i \in 1..n : after[i] = before[i]
      /\ \A i \in 1..(n + m) : i > n => i - n \in 1..m /\ after[i] = back[i - n]
  BY Together
<1> HIDE DEF after, n, m
<1>2. \A x \in DOMAIN after : after[x].kind # "QueueExhausted" => x \in 1..n /\ after[x] = before[x]
  BY <1>1 DEF Spent
<1>3. \A x \in 1..n : x \in DOMAIN after /\ x \in DOMAIN before
  BY <1>1
<1>4. Leftover(before, after, {})
  BY <1>1, <1>2, <1>3 DEF Leftover
<1> QED BY <1>4 DEF after

(* Where the whole was taken, or thrown away, nothing is left but why.     *)
LEMMA LeftNone ==
  ASSUME NEW before, NEW back \in Seq(Parcel), Spent(back)
  PROVE  Leftover(before, <<>> \o back, DOMAIN before)
<1>1. <<>> \o back = back
  BY ConcatEmptySeq
<1> QED BY <1>1 DEF Leftover, Spent

(* Where one was taken the others are left, in their order.                *)
LEMMA LeftOther ==
  ASSUME NEW before \in Seq(Parcel), NEW i \in DOMAIN before, NEW back \in Seq(Parcel), Spent(back)
  PROVE  Leftover(before, Without(before, i) \o back, {i})
<1> DEFINE cut == Without(before, i)
           after == cut \o back n == Len(before) m == Len(back)
<1>1. /\ cut \in Seq(Parcel) /\ Len(cut) = n - 1 /\ DOMAIN before = 1..n /\ n \in Nat
      /\ \A j \in 1..(n - 1) : cut[j] = IF j < i THEN before[j] ELSE before[j + 1]
  BY TakenOut
<1> HIDE DEF cut
<1>2. /\ DOMAIN cut = 1..Len(cut) /\ DOMAIN back = 1..m /\ DOMAIN after = 1..(Len(cut) + m) /\ m \in Nat
      /\ \A j \in 1..Len(cut) : after[j] = cut[j]
      /\ \A j \in 1..(Len(cut) + m) : j > Len(cut) => j - Len(cut) \in 1..m /\ after[j] = back[j - Len(cut)]
  <2>1. cut \in Seq(Parcel) /\ back \in Seq(Parcel)
    BY <1>1
  <2> QED BY ONLY <2>1, Together
<1> HIDE DEF after, n, m
<1> DEFINE to(j) == IF j < i THEN j ELSE j + 1
<1>3. i \in 1..n
  BY <1>1
<1>4. /\ \A x \in DOMAIN after : after[x].kind # "QueueExhausted" => x \in 1..(n - 1)
      /\ \A x \in 1..(n - 1) : x \in DOMAIN after /\ after[x] = before[to(x)]
  <2>1. \A x \in 1..(n - 1) : x \in DOMAIN after /\ after[x] = before[to(x)]
    BY <1>1, <1>2
  <2>2. ASSUME NEW x \in DOMAIN after, after[x].kind # "QueueExhausted"
        PROVE  x \in 1..(n - 1)
    <3>1. CASE x \in 1..Len(cut)
      BY <1>1, <3>1
    <3>2. CASE x \notin 1..Len(cut)
      <4>1. x > Len(cut)
        BY <1>1, <1>2, <3>2
      <4> QED BY <1>2, <2>2, <4>1 DEF Spent
    <3> QED BY <3>1, <3>2
  <2> QED BY <2>1, <2>2
<1>5. /\ \A x \in 1..(n - 1) : to(x) \in DOMAIN before \ {i} /\ x <= to(x)
      /\ \A x, y \in 1..(n - 1) : x < y => to(x) < to(y)
      /\ \A y \in DOMAIN before \ {i} : \E x \in 1..(n - 1) : to(x) = y
  <2>1. \A x \in 1..(n - 1) : to(x) \in DOMAIN before \ {i} /\ x <= to(x)
    BY <1>1, <1>3
  <2>2. \A x, y \in 1..(n - 1) : x < y => to(x) < to(y)
    BY <1>1, <1>3
  <2>3. ASSUME NEW y \in DOMAIN before \ {i} PROVE \E x \in 1..(n - 1) : to(x) = y
    <3>1. CASE y < i
      <4>1. y \in 1..(n - 1) /\ to(y) = y
        BY <1>1, <1>3, <3>1
      <4> QED BY <4>1
    <3>2. CASE ~(y < i)
      <4>1. y - 1 \in 1..(n - 1) /\ to(y - 1) = y
        BY <1>1, <1>3, <3>2
      <4> QED BY <4>1
    <3> QED BY <3>1, <3>2
  <2> QED BY <2>1, <2>2, <2>3
<1> HIDE DEF to
<1>6. Leftover(before, after, {i})
  BY <1>4, <1>5 DEF Leftover
<1> QED BY <1>6 DEF after, cut

-----------------------------------------------------------------------------
(* "A mapping before the state that uses it", both ends of it bounded.     *)
FramesOf(unsent, frames, going) ==
    \A i \in DOMAIN going : going[i].kind = "datagram" =>
        /\ going[i].numbers[1] <= frames
        /\ \A j \in DOMAIN unsent : unsent[j] > going[i].numbers[1]

(* The server has an epoch before a client can be told of it.              *)
AdmittedWith(news, epoch) == \E i \in DOMAIN news : news[i] = News("admitted", epoch)
EpochOf(client, going, news) ==
    /\ \A i \in DOMAIN going : going[i].kind = "accept" => AdmittedWith(news, going[i].numbers[1])
    /\ client.phase = "active" => AdmittedWith(news, client.epoch)

(* The server's close comes of an end, and after a rejection of a late one.*)
Tells(news, kind) == \E i \in DOMAIN news : news[i].kind = kind
ClosingOf(server, going, heard, news) ==
    Tells(going, "Closed") \/ Tells(heard, "Closed") =>
        server.phase = "gone" /\ (Tells(news, "Rejected") => server.late)

(* Before it is asked for there is nothing of it; the server's provider    *)
(* says so first.                                                          *)
AskedOf(client, server, isOpen, toClient, toServer) ==
    /\ client = "none" => server = "none" /\ ~isOpen /\ toClient = <<>> /\ toServer = <<>>
    /\ \A i \in DOMAIN toServer : toServer[i].kind = "accepted" => i = 1 /\ server = "none"

(* Records on their way and told: in order, with none missing unless the   *)
(* connection is over for one side or the other, or owes that end.         *)
Has(news, going, k) ==
    \/ \E i \in DOMAIN news : news[i].kind = "event" /\ news[i].number = k
    \/ \E i \in DOMAIN going : going[i].kind = "event" /\ going[i].numbers[2] = k
NoneMissing(news) ==
    \A i \in DOMAIN news : news[i].kind = "event" =>
        {news[j].number : j \in {j \in 1..(i - 1) : news[j].kind = "event"}} = 1..(news[i].number - 1)
Numbered(news, going, events) ==
    /\ \A i \in DOMAIN going : going[i].kind = "event" => going[i].numbers[2] \in 1..events
    /\ \A i, j \in DOMAIN going : i < j /\ going[i].kind = "event" /\ going[j].kind = "event" =>
          going[i].numbers[2] < going[j].numbers[2]
    /\ \A i \in DOMAIN news : news[i].kind = "event" => news[i].number \in 1..events
    /\ \A i \in DOMAIN news, j \in DOMAIN going : news[i].kind = "event" /\ going[j].kind = "event" =>
          news[i].number < going[j].numbers[2]
Done == {"held", "gone"}
EventsOf(to, from, exhausted, isOpen, going, news, events) ==
    /\ Numbered(news, going, events)
    /\ NoneMissing(news)
    /\ from \in Early => events = 0
    /\ to \notin Done => \A j \in DOMAIN going : going[j].kind = "event" =>
          \A k \in 1..(going[j].numbers[2] - 1) : Has(news, going, k)
    /\ to \notin Done /\ from \notin Done /\ ~exhausted /\ isOpen => \A k \in 1..events : Has(news, going, k)

-----------------------------------------------------------------------------
(* What a step may hear of what is on its way to a side.                   *)
Takes(side, was, keeps, going, news, cut) ==
    /\ was.phase = "none" /\ keeps.phase # "none" =>
          /\ side = "server"
          /\ \E i \in DOMAIN going : going[i].kind = "accepted" /\ cut \in {<<>>, Without(going, i)}
    /\ \/ cut = going /\ Silent(news)
       \/ cut = <<>> /\ Silent(news) /\ (keeps.phase = "gone" \/ keeps.phase = "none")
       \/ \E i \in DOMAIN going :
             /\ cut = Without(going, i)
             /\ going[i].kind # "event" => Silent(news)
             /\ going[i].kind = "event" =>
                   /\ \A j \in 1..(i - 1) : going[j].kind # "event"
                   /\ \/ news = <<News("event", going[i].numbers[2])>>
                      \/ Silent(news) /\ was.phase \notin Live
    /\ Tells(news, "Closed") => Tells(going, "Closed")
    /\ side = "client" /\ keeps.phase = "active" =>
          \/ was.phase = "active" /\ keeps.epoch = was.epoch
          \/ \E i \in DOMAIN going : going[i].kind = "accept" /\ keeps.epoch = going[i].numbers[1]

(* What it may send.                                                       *)
Gives(side, was, keeps, news, had, done, added) ==
    /\ done.frames \in {had.frames, had.frames + 1} /\ done.events \in {had.events, had.events + 1}
    /\ done.events # had.events => was.phase = "active"
    /\ \/ keeps.unsent \in {<<>>, was.unsent}
       \/ keeps.unsent = Append(was.unsent, done.frames) /\ done.frames = had.frames + 1
    /\ was.phase = "gone" => keeps.late = was.late
    /\ \A i \in DOMAIN added :
          /\ added[i].kind # "accepted"
          /\ added[i].kind = "accept" => side = "server" /\ AdmittedWith(news, added[i].numbers[1])
          /\ added[i].kind = "datagram" => keeps.unsent = <<>> /\ added[i].numbers[1] = done.frames
          /\ added[i].kind = "Closed" =>
                /\ was.phase # "gone" /\ keeps.phase = "gone" /\ (side = "server" => ~Tells(news, "Rejected"))
                /\ was.phase = "held" => keeps.late
          /\ added[i].kind = "event" =>
                /\ done.events = had.events + 1 /\ added[i].numbers[2] = done.events /\ ~was.exhausted
                /\ \A j \in DOMAIN added : added[j].kind = "event" => j = i

(* What holds the connection open, and what may not be owed then.          *)
Shuts(was, keeps, isOpen, had, done, back, added, still) ==
    /\ Spent(back)
    /\ ~isOpen => added = <<>> /\ back = <<>> /\ ~still
    /\ still /\ keeps.phase \notin Done /\ ~keeps.exhausted =>
          /\ ~was.exhausted
          /\ done.events = had.events \/ Tells(added, "event")

(* What is left was on its way, and something of it is taken.              *)
LEMMA TakesLeaves ==
  ASSUME NEW side, NEW was, NEW keeps, NEW going \in Seq(Parcel), NEW news, NEW cut,
         NEW back \in Seq(Parcel), Takes(side, was, keeps, going, news, cut), Spent(back)
  PROVE  \E taken : Leftover(going, cut \o back, taken)
<1>1. CASE cut = going
  BY <1>1, LeftAll
<1>2. CASE cut = <<>>
  BY <1>2, LeftNone
<1>3. ASSUME NEW i \in DOMAIN going, cut = Without(going, i)
      PROVE  \E taken : Leftover(going, cut \o back, taken)
  BY <1>3, LeftOther
<1> QED BY <1>1, <1>2, <1>3 DEF Takes

(* Whatever kind is left was on its way.                                   *)
LEMMA LeftWas ==
  ASSUME NEW before, NEW after, NEW taken, Leftover(before, after, taken)
  PROVE  \A i \in DOMAIN after : after[i].kind = "QueueExhausted" \/ \E j \in DOMAIN before : after[i] = before[j]
  BY DEF Leftover

(* A sequence of the items of two, and all of them.                        *)
Mixes(s, u, z) ==
    /\ \A i \in DOMAIN z : (\E j \in DOMAIN s : z[i] = s[j]) \/ (\E j \in DOMAIN u : z[i] = u[j])
    /\ \A j \in DOMAIN s : \E i \in DOMAIN z : z[i] = s[j]
    /\ \A j \in DOMAIN u : \E i \in DOMAIN z : z[i] = u[j]

(* Whatever is on its way after more was sent was, or is of that.          *)
LEMMA SentMore ==
  ASSUME NEW S, NEW s \in Seq(S), NEW u \in Seq(S)
  PROVE  Mixes(s, u, s \o u)
<1> DEFINE z == s \o u n == Len(s) m == Len(u)
<1>1. /\ DOMAIN s = 1..n /\ DOMAIN u = 1..m /\ DOMAIN z = 1..(n + m) /\ n \in Nat /\ m \in Nat
      /\ \A i \in 1..n : z[i] = s[i]
      /\ \A i \in 1..(n + m) : i > n => i - n \in 1..m /\ z[i] = u[i - n]
      /\ \A i \in 1..m : n + i \in 1..(n + m) /\ z[n + i] = u[i]
  BY Together
<1> HIDE DEF z, n, m
<1>2. /\ \A i \in DOMAIN z : (\E j \in DOMAIN s : z[i] = s[j]) \/ (\E j \in DOMAIN u : z[i] = u[j])
      /\ \A j \in DOMAIN s : \E i \in DOMAIN z : z[i] = s[j]
      /\ \A j \in DOMAIN u : \E i \in DOMAIN z : z[i] = u[j]
  <2>1. ASSUME NEW i \in DOMAIN z PROVE i \in DOMAIN s \/ (i - n \in DOMAIN u /\ i > n)
    <3>1. i <= n \/ i > n
      BY <1>1
    <3> QED BY <1>1, <3>1
  <2>2. \A i \in DOMAIN s : i \in DOMAIN z
    BY <1>1
  <2> QED BY <1>1, <2>1, <2>2
<1> QED BY <1>2 DEF z, Mixes

-----------------------------------------------------------------------------
(* What is heard leaves no mapping behind the state that uses it.          *)
LEMMA FramesLeft ==
  ASSUME NEW unsent, NEW frames, NEW going, NEW after, NEW taken,
         FramesOf(unsent, frames, going), Leftover(going, after, taken)
  PROVE  FramesOf(unsent, frames, after)
<1>1. \A i \in DOMAIN after : after[i].kind = "QueueExhausted" \/ \E j \in DOMAIN going : after[i] = going[j]
  BY DEF Leftover
<1> QED BY <1>1 DEF FramesOf

(* Nor does what is sent: what was gathered goes before a datagram.        *)
LEMMA FramesSent ==
  ASSUME NEW side, NEW was \in Keeping, NEW keeps \in Keeping, NEW news, NEW had \in Counts, NEW done \in Counts,
         NEW going \in Seq(Parcel), NEW added \in Seq(Parcel),
         FramesOf(was.unsent, had.frames, going), Gives(side, was, keeps, news, had, done, added)
  PROVE  FramesOf(keeps.unsent, done.frames, going \o added)
<1> DEFINE h == had.frames d == done.frames u == was.unsent v == keeps.unsent z == going \o added
<1>1. h \in Nat /\ d \in Nat /\ d \in {h, h + 1} /\ u \in Seq(Nat)
  BY DEF Counts, Keeping, Gives
<1>2. ASSUME NEW x \in Parcel, x.kind = "datagram" PROVE x.numbers[1] \in Nat
  BY <1>2 DEF Parcel, Carries
<1>3. \A i \in DOMAIN going : going[i] \in Parcel
  BY LenProperties, ElementOfSeq
<1>4. \A i \in DOMAIN z : (\E j \in DOMAIN going : z[i] = going[j]) \/ (\E j \in DOMAIN added : z[i] = added[j])
  <2>1. Mixes(going, added, going \o added)
    BY SentMore
  <2> QED BY <2>1 DEF Mixes
<1>5. v \in {<<>>, u} \/ (v = Append(u, d) /\ d = h + 1)
  BY DEF Gives
<1>6. v \in {<<>>, u} \/ (d = h + 1 /\ \A j \in DOMAIN v : (j \in DOMAIN u /\ v[j] = u[j]) \/ v[j] = d)
  <2>1. CASE v = Append(u, d)
    <3>1. /\ Len(v) = Len(u) + 1 /\ DOMAIN v = 1..Len(v) /\ DOMAIN u = 1..Len(u) /\ Len(u) \in Nat
          /\ \A i \in 1..Len(u) : v[i] = u[i]
          /\ v[Len(u) + 1] = d
      BY <1>1, <2>1
    <3> DEFINE n == Len(u)
    <3> HIDE DEF n, v, u
    <3> QED BY <1>5, <3>1 DEF n
  <2> QED BY <1>5, <2>1
<1> HIDE DEF h, d, u, v, z
<1>7. ASSUME NEW i \in DOMAIN going, going[i].kind = "datagram"
      PROVE  /\ going[i].numbers[1] <= d
             /\ \A j \in DOMAIN v : v[j] > going[i].numbers[1]
  <2> DEFINE x == going[i].numbers[1]
  <2>1. x \in Nat /\ x <= h /\ \A j \in DOMAIN u : u[j] > x
    BY <1>2, <1>3, <1>7 DEF FramesOf, h, u
  <2> HIDE DEF x
  <2>2. x <= d /\ \A j \in DOMAIN v : v[j] > x
    BY <1>1, <1>6, <2>1
  <2> QED BY <2>2 DEF x
<1>8. ASSUME NEW i \in DOMAIN added, added[i].kind = "datagram"
      PROVE  /\ added[i].numbers[1] <= d
             /\ \A j \in DOMAIN v : v[j] > added[i].numbers[1]
  BY <1>1, <1>8 DEF Gives, d, v
<1>9. FramesOf(v, d, z)
  BY <1>4, <1>7, <1>8 DEF FramesOf
<1> QED BY <1>9 DEF v, d, z

-----------------------------------------------------------------------------
(* What an owner was told of, after it is told more.                       *)
LEMMA MoreTold ==
  ASSUME NEW heard \in Seq(Heard), NEW news \in Seq(Heard)
  PROVE  /\ \A kind : Tells(heard \o news, kind) <=> Tells(heard, kind) \/ Tells(news, kind)
         /\ \A epoch : AdmittedWith(heard \o news, epoch) <=> AdmittedWith(heard, epoch) \/ AdmittedWith(news, epoch)
<1>1. /\ \A i \in DOMAIN (heard \o news) : \/ \E j \in DOMAIN heard : (heard \o news)[i] = heard[j]
                                           \/ \E j \in DOMAIN news : (heard \o news)[i] = news[j]
      /\ \A j \in DOMAIN heard : \E i \in DOMAIN (heard \o news) : (heard \o news)[i] = heard[j]
      /\ \A j \in DOMAIN news : \E i \in DOMAIN (heard \o news) : (heard \o news)[i] = news[j]
  <2>1. Mixes(heard, news, heard \o news)
    BY SentMore
  <2> QED BY <2>1 DEF Mixes
<1> DEFINE z == heard \o news
<1> HIDE DEF z
<1>2. \A kind : Tells(z, kind) <=> Tells(heard, kind) \/ Tells(news, kind)
  <2>1. ASSUME NEW kind, Tells(z, kind) PROVE Tells(heard, kind) \/ Tells(news, kind)
    BY <1>1, <2>1 DEF Tells, z
  <2>2. ASSUME NEW kind, Tells(heard, kind) \/ Tells(news, kind) PROVE Tells(z, kind)
    <3>1. CASE Tells(heard, kind)
      <4>1. PICK j \in DOMAIN heard : heard[j].kind = kind
        BY <3>1 DEF Tells
      <4>2. PICK i \in DOMAIN z : z[i] = heard[j]
        BY <1>1 DEF z
      <4> QED BY <4>1, <4>2 DEF Tells
    <3>2. CASE Tells(news, kind)
      <4>1. PICK j \in DOMAIN news : news[j].kind = kind
        BY <3>2 DEF Tells
      <4>2. PICK i \in DOMAIN z : z[i] = news[j]
        BY <1>1 DEF z
      <4> QED BY <4>1, <4>2 DEF Tells
    <3> QED BY <2>2, <3>1, <3>2
  <2> QED BY <2>1, <2>2
<1>3. \A epoch : AdmittedWith(z, epoch) <=> AdmittedWith(heard, epoch) \/ AdmittedWith(news, epoch)
  <2>1. ASSUME NEW epoch, AdmittedWith(z, epoch) PROVE AdmittedWith(heard, epoch) \/ AdmittedWith(news, epoch)
    BY <1>1, <2>1 DEF AdmittedWith, z
  <2>2. ASSUME NEW epoch, AdmittedWith(heard, epoch) \/ AdmittedWith(news, epoch) PROVE AdmittedWith(z, epoch)
    <3>1. CASE AdmittedWith(heard, epoch)
      <4>1. PICK j \in DOMAIN heard : heard[j] = News("admitted", epoch)
        BY <3>1 DEF AdmittedWith
      <4>2. PICK i \in DOMAIN z : z[i] = heard[j]
        BY <1>1 DEF z
      <4> QED BY <4>1, <4>2 DEF AdmittedWith
    <3>2. CASE AdmittedWith(news, epoch)
      <4>1. PICK j \in DOMAIN news : news[j] = News("admitted", epoch)
        BY <3>2 DEF AdmittedWith
      <4>2. PICK i \in DOMAIN z : z[i] = news[j]
        BY <1>1 DEF z
      <4> QED BY <4>1, <4>2 DEF AdmittedWith
    <3> QED BY <2>2, <3>1, <3>2
  <2> QED BY <2>1, <2>2
<1> QED BY <1>2, <1>3 DEF z

(* A client is admitted by the accept it hears.                            *)
LEMMA EpochTaken ==
  ASSUME NEW was, NEW keeps, NEW going \in Seq(Parcel), NEW heard, NEW news, NEW cut, NEW back \in Seq(Parcel),
         EpochOf(was, going, heard), Takes("client", was, keeps, going, news, cut), Spent(back)
  PROVE  EpochOf(keeps, cut \o back, heard)
<1> PICK taken : Leftover(going, cut \o back, taken)
  BY TakesLeaves, Zenon
<1>1. \A i \in DOMAIN (cut \o back) :
        (cut \o back)[i].kind = "QueueExhausted" \/ \E j \in DOMAIN going : (cut \o back)[i] = going[j]
  BY DEF Leftover
<1>2. ASSUME NEW i \in DOMAIN (cut \o back), (cut \o back)[i].kind = "accept"
      PROVE  AdmittedWith(heard, (cut \o back)[i].numbers[1])
  BY <1>1, <1>2 DEF EpochOf
<1>3. keeps.phase = "active" => AdmittedWith(heard, keeps.epoch)
  BY DEF Takes, EpochOf
<1> QED BY <1>2, <1>3 DEF EpochOf

(* An accept is sent where the owner is told of the admission.             *)
LEMMA EpochGiven ==
  ASSUME NEW client, NEW was, NEW keeps, NEW going \in Seq(Parcel), NEW heard \in Seq(Heard), NEW news \in Seq(Heard),
         NEW had, NEW done, NEW added \in Seq(Parcel),
         EpochOf(client, going, heard), Gives("server", was, keeps, news, had, done, added)
  PROVE  EpochOf(client, going \o added, heard \o news)
<1>1. \A i \in DOMAIN (going \o added) : \/ \E j \in DOMAIN going : (going \o added)[i] = going[j]
                                         \/ \E j \in DOMAIN added : (going \o added)[i] = added[j]
  <2>1. Mixes(going, added, going \o added)
    BY SentMore
  <2> QED BY <2>1 DEF Mixes
<1>2. \A epoch : AdmittedWith(heard \o news, epoch) <=> AdmittedWith(heard, epoch) \/ AdmittedWith(news, epoch)
  BY MoreTold
<1>3. \A i \in DOMAIN added : added[i].kind = "accept" => AdmittedWith(news, added[i].numbers[1])
  BY DEF Gives
<1> QED BY <1>1, <1>2, <1>3 DEF EpochOf

-----------------------------------------------------------------------------
(* A client hears only what the server's end sent.                         *)
LEMMA ClosingTaken ==
  ASSUME NEW was, NEW keeps, NEW server, NEW going \in Seq(Parcel), NEW heard \in Seq(Heard), NEW news \in Seq(Heard),
         NEW served, NEW cut, NEW back \in Seq(Parcel),
         ClosingOf(server, going, heard, served), Takes("client", was, keeps, going, news, cut), Spent(back)
  PROVE  ClosingOf(server, cut \o back, heard \o news, served)
<1> PICK taken : Leftover(going, cut \o back, taken)
  BY TakesLeaves, Zenon
<1>1. \A i \in DOMAIN (cut \o back) :
        (cut \o back)[i].kind = "QueueExhausted" \/ \E j \in DOMAIN going : (cut \o back)[i] = going[j]
  BY DEF Leftover
<1>2. Tells(cut \o back, "Closed") => Tells(going, "Closed")
  BY <1>1 DEF Tells
<1>3. Tells(heard \o news, "Closed") => Tells(heard, "Closed") \/ Tells(going, "Closed")
  BY MoreTold DEF Takes
<1> QED BY <1>2, <1>3 DEF ClosingOf

(* The server closes what it rejected only once it is late.                *)
LEMMA ClosingGiven ==
  ASSUME NEW was \in Keeping, NEW keeps \in Keeping, NEW going \in Seq(Parcel), NEW heard, NEW served \in Seq(Heard),
         NEW news \in Seq(Heard), NEW had, NEW done, NEW added \in Seq(Parcel),
         ClosingOf(was, going, heard, served), Gives("server", was, keeps, news, had, done, added),
         Phased(was.phase, keeps.phase, news), Story(was.phase, served)
  PROVE  ClosingOf(keeps, going \o added, heard, served \o news)
<1>1. \A i \in DOMAIN (going \o added) : \/ \E j \in DOMAIN going : (going \o added)[i] = going[j]
                                         \/ \E j \in DOMAIN added : (going \o added)[i] = added[j]
  <2>1. Mixes(going, added, going \o added)
    BY SentMore
  <2> QED BY <2>1 DEF Mixes
<1>2. Tells(going \o added, "Closed") => Tells(going, "Closed") \/ Tells(added, "Closed")
  BY <1>1 DEF Tells
<1>3. Tells(served \o news, "Rejected") <=> Tells(served, "Rejected") \/ Tells(news, "Rejected")
  BY MoreTold
<1>4. CASE was.phase = "gone"
  <2>1. keeps.phase = "gone" /\ news = <<>> /\ keeps.late = was.late
    BY <1>4 DEF Phased, Gives, Live
  <2>2. ~Tells(news, "Rejected") /\ ~Tells(added, "Closed")
    BY <1>4, <2>1 DEF Tells, Gives
  <2> QED BY <1>2, <1>3, <1>4, <2>1, <2>2 DEF ClosingOf
<1>5. CASE was.phase # "gone"
  <2>1. ~Tells(going, "Closed") /\ ~Tells(heard, "Closed")
    BY <1>5 DEF ClosingOf
  <2>2. SUFFICES ASSUME Tells(added, "Closed")
                 PROVE  keeps.phase = "gone" /\ (Tells(served \o news, "Rejected") => keeps.late)
    BY <1>2, <2>1 DEF ClosingOf
  <2>3. keeps.phase = "gone" /\ ~Tells(news, "Rejected") /\ (was.phase = "held" => keeps.late)
    BY <2>2 DEF Gives, Tells
  <2>4. CASE was.phase = "held"
    BY <2>3, <2>4
  <2>5. CASE was.phase = "active"
    <3>1. DOMAIN served = 1..Len(served) /\ Len(served) \in Nat
      BY LenProperties
    <3>2. served[1].kind = "admitted" /\ \A i \in 2..Len(served) : served[i].kind \in Game
      BY <2>5 DEF Story
    <3>3. \A i \in DOMAIN served : i = 1 \/ i \in 2..Len(served)
      BY <3>1
    <3>4. ~Tells(served, "Rejected")
      BY <3>2, <3>3 DEF Tells, Game
    <3> QED BY <1>3, <2>3, <3>4
  <2>6. CASE was.phase \in Early
    <3>1. served = <<>>
      BY <2>6 DEF Story
    <3> QED BY <1>3, <2>3, <3>1 DEF Tells
  <2> QED BY <1>5, <2>4, <2>5, <2>6 DEF Keeping, Phases, Live, Early
<1> QED BY <1>4, <1>5

(* What a client does leaves its server the first to know of it.           *)
LEMMA AskedClient ==
  ASSUME NEW was \in Keeping, NEW keeps \in Keeping, NEW server, NEW isOpen, NEW still,
         NEW toClient \in Seq(Parcel), NEW toServer \in Seq(Parcel), NEW news, NEW had, NEW done,
         NEW cut \in Seq(Parcel), NEW back \in Seq(Parcel), NEW added \in Seq(Parcel),
         AskedOf(was.phase, server, isOpen, toClient, toServer),
         Phased(was.phase, keeps.phase, news),
         Takes("client", was, keeps, toClient, news, cut), Gives("client", was, keeps, news, had, done, added),
         Shuts(was, keeps, isOpen, had, done, back, added, still)
  PROVE  AskedOf(keeps.phase, server, still, cut \o back, toServer \o added)
<1>1. ASSUME keeps.phase = "none"
      PROVE  server = "none" /\ ~still /\ cut \o back = <<>> /\ toServer \o added = <<>>
  <2>1. was.phase = "none"
    BY <1>1 DEF Phased
  <2>2. server = "none" /\ ~isOpen /\ toClient = <<>> /\ toServer = <<>>
    BY <2>1 DEF AskedOf
  <2>3. added = <<>> /\ back = <<>> /\ ~still
    BY <2>2 DEF Shuts
  <2>4. cut = <<>>
    BY <2>2 DEF Takes
  <2>5. <<>> \o <<>> = <<>>
    BY ConcatEmptySeq, EmptySeq
  <2> QED BY <2>2, <2>3, <2>4, <2>5
<1>2. ASSUME NEW i \in DOMAIN (toServer \o added), (toServer \o added)[i].kind = "accepted"
      PROVE  i = 1 /\ server = "none"
  <2>1. /\ DOMAIN toServer = 1..Len(toServer) /\ DOMAIN added = 1..Len(added)
        /\ DOMAIN (toServer \o added) = 1..(Len(toServer) + Len(added))
        /\ \A j \in 1..Len(toServer) : (toServer \o added)[j] = toServer[j]
        /\ \A j \in 1..(Len(toServer) + Len(added)) : j > Len(toServer) =>
              j - Len(toServer) \in 1..Len(added) /\ (toServer \o added)[j] = added[j - Len(toServer)]
        /\ Len(toServer) \in Nat /\ Len(added) \in Nat
    BY Together
  <2> DEFINE z == toServer \o added n == Len(toServer) m == Len(added)
  <2>2. \A j \in DOMAIN added : added[j].kind # "accepted"
    BY DEF Gives
  <2> HIDE DEF z, n, m
  <2>3. i \in 1..n
    <3>1. ~(i > n)
      BY <1>2, <2>1, <2>2 DEF n, m, z
    <3> QED BY <2>1, <3>1 DEF n, m, z
  <2>4. i \in DOMAIN toServer /\ toServer[i].kind = "accepted"
    BY <1>2, <2>1, <2>3 DEF n, z
  <2> QED BY <2>4 DEF AskedOf
<1> QED BY <1>1, <1>2 DEF AskedOf

(* The server takes up what was accepted before anything else of it.       *)
LEMMA AskedServer ==
  ASSUME NEW was \in Keeping, NEW keeps \in Keeping, NEW client, NEW isOpen, NEW still,
         NEW toClient \in Seq(Parcel), NEW toServer \in Seq(Parcel), NEW news, NEW had, NEW done,
         NEW cut \in Seq(Parcel), NEW back \in Seq(Parcel), NEW added \in Seq(Parcel),
         AskedOf(client, was.phase, isOpen, toClient, toServer),
         Phased(was.phase, keeps.phase, news),
         Takes("server", was, keeps, toServer, news, cut),
         Shuts(was, keeps, isOpen, had, done, back, added, still)
  PROVE  AskedOf(client, keeps.phase, still, toClient \o added, cut \o back)
<1>1. ASSUME client = "none"
      PROVE  keeps.phase = "none" /\ ~still /\ toClient \o added = <<>> /\ cut \o back = <<>>
  <2>1. was.phase = "none" /\ ~isOpen /\ toClient = <<>> /\ toServer = <<>>
    BY <1>1 DEF AskedOf
  <2>2. added = <<>> /\ back = <<>> /\ ~still
    BY <2>1 DEF Shuts
  <2>3. cut = <<>> /\ keeps.phase = "none"
    BY <2>1 DEF Takes
  <2>4. <<>> \o <<>> = <<>>
    BY ConcatEmptySeq, EmptySeq
  <2> QED BY <2>1, <2>2, <2>3, <2>4
<1>2. ASSUME NEW x \in DOMAIN (cut \o back), (cut \o back)[x].kind = "accepted"
      PROVE  x = 1 /\ keeps.phase = "none"
  <2> PICK taken : Leftover(toServer, cut \o back, taken)
    BY TakesLeaves, Zenon DEF Shuts
  <2> PICK y \in DOMAIN toServer \ taken : x <= y /\ (cut \o back)[x] = toServer[y]
    BY <1>2 DEF Leftover
  <2>1. y = 1 /\ was.phase = "none"
    BY <1>2 DEF AskedOf
  <2>2. x = 1
    <3>1. DOMAIN (cut \o back) = 1..(Len(cut) + Len(back)) /\ Len(cut) \in Nat /\ Len(back) \in Nat
      BY Together
    <3>2. x \in Nat \ {0}
      BY <3>1
    <3> QED BY <2>1, <3>2
  <2>3. ASSUME keeps.phase # "none" PROVE FALSE
    <3> PICK i \in DOMAIN toServer : toServer[i].kind = "accepted" /\ cut \in {<<>>, Without(toServer, i)}
      BY <2>1, <2>3 DEF Takes
    <3>1. i = 1
      BY DEF AskedOf
    <3>2. CASE cut = <<>>
      <4>1. Leftover(toServer, cut \o back, DOMAIN toServer)
        BY <3>2, LeftNone DEF Shuts
      <4>2. (cut \o back)[x].kind # "QueueExhausted"
        BY <1>2
      <4> QED BY <1>2, <4>1, <4>2 DEF Leftover
    <3>3. CASE cut = Without(toServer, i)
      <4>1. Leftover(toServer, cut \o back, {i})
        BY <3>3, LeftOther DEF Shuts
      <4>3. (cut \o back)[x].kind # "QueueExhausted"
        BY <1>2
      <4> PICK v \in DOMAIN toServer \ {i} : (cut \o back)[x] = toServer[v]
        <5> DEFINE z == cut \o back
        <5>1. x \in DOMAIN z /\ z[x].kind # "QueueExhausted" /\ Leftover(toServer, z, {i})
          BY <4>1, <4>3
        <5> HIDE DEF z
        <5>2. \E v \in DOMAIN toServer \ {i} : x <= v /\ z[x] = toServer[v]
          BY <5>1, Zenon DEF Leftover
        <5>3. \E v \in DOMAIN toServer \ {i} : z[x] = toServer[v]
          BY <5>2
        <5> QED BY <5>3 DEF z
      <4>2. v = 1
        BY <1>2 DEF AskedOf
      <4> QED BY <3>1, <4>2
    <3> QED BY <3>2, <3>3
  <2> QED BY <2>2, <2>3
<1> QED BY <1>1, <1>2 DEF AskedOf

-----------------------------------------------------------------------------
(* Nothing is heard of records where none was told of.                     *)
LEMMA SilentMore ==
  ASSUME NEW heard \in Seq(Heard), NEW news \in Seq(Heard), Silent(news)
  PROVE  /\ \A i \in DOMAIN (heard \o news) : (heard \o news)[i].kind = "event" =>
              i \in DOMAIN heard /\ (heard \o news)[i] = heard[i]
         /\ \A i \in DOMAIN heard : i \in DOMAIN (heard \o news) /\ (heard \o news)[i] = heard[i]
         /\ NoneMissing(heard) => NoneMissing(heard \o news)
<1> DEFINE z == heard \o news n == Len(heard) m == Len(news)
<1>1. /\ DOMAIN heard = 1..n /\ DOMAIN news = 1..m /\ DOMAIN z = 1..(n + m) /\ n \in Nat /\ m \in Nat
      /\ \A i \in 1..n : z[i] = heard[i]
      /\ \A i \in 1..(n + m) : i > n => i - n \in 1..m /\ z[i] = news[i - n]
  BY Together
<1> HIDE DEF z, n, m
<1>2. ASSUME NEW i \in DOMAIN z, z[i].kind = "event" PROVE i \in DOMAIN heard /\ z[i] = heard[i]
  <2>1. ~(i > n)
    BY <1>1, <1>2 DEF Silent
  <2> QED BY <1>1, <2>1
<1>3. \A i \in DOMAIN heard : i \in DOMAIN z /\ z[i] = heard[i]
  BY <1>1
<1>4. ASSUME NoneMissing(heard) PROVE NoneMissing(z)
  <2> SUFFICES ASSUME NEW i \in DOMAIN z, z[i].kind = "event"
               PROVE  {z[j].number : j \in {j \in 1..(i - 1) : z[j].kind = "event"}} = 1..(z[i].number - 1)
    BY DEF NoneMissing
  <2>1. i \in DOMAIN heard /\ z[i] = heard[i]
    BY <1>2
  <2>2. \A j \in 1..(i - 1) : z[j] = heard[j]
    BY <1>1, <2>1
  <2>3. {z[j].number : j \in {j \in 1..(i - 1) : z[j].kind = "event"}}
          = {heard[j].number : j \in {j \in 1..(i - 1) : heard[j].kind = "event"}}
    BY <2>2
  <2> QED BY <1>4, <2>1, <2>3 DEF NoneMissing
<1> QED BY <1>2, <1>3, <1>4 DEF z

(* A record told after all before it.                                      *)
LEMMA NextTold ==
  ASSUME NEW heard \in Seq(Heard), NEW number \in Nat, NoneMissing(heard),
         \A i \in DOMAIN heard : heard[i].kind = "event" => heard[i].number \in 1..(number - 1),
         \A k \in 1..(number - 1) : \E i \in DOMAIN heard : heard[i].kind = "event" /\ heard[i].number = k
  PROVE  NoneMissing(heard \o <<News("event", number)>>)
<1> DEFINE news == <<News("event", number)>> z == heard \o news n == Len(heard)
<1>1. news \in Seq(Heard) /\ Len(news) = 1 /\ news[1] = News("event", number) /\ News("event", number) \in Heard
  <2>1. News("event", number) \in Heard
    BY DEF News, Heard, NewsKinds
  <2> DEFINE e == News("event", number)
  <2> HIDE DEF e
  <2>2. <<e>> \in Seq(Heard) /\ Len(<<e>>) = 1 /\ <<e>>[1] = e
    BY <2>1 DEF e
  <2> QED BY <2>1, <2>2 DEF e
<1> HIDE DEF news
<1>2. /\ DOMAIN heard = 1..n /\ DOMAIN z = 1..(n + 1) /\ n \in Nat
      /\ \A i \in 1..n : z[i] = heard[i]
      /\ \A i \in 1..Len(news) : z[n + i] = news[i]
  BY <1>1, Together
<1>3. z[n + 1] = News("event", number)
  BY <1>1, <1>2
<1> HIDE DEF z, n
<1> SUFFICES NoneMissing(z)
  BY DEF z, news
<1> SUFFICES ASSUME NEW i \in DOMAIN z, z[i].kind = "event"
             PROVE  {z[j].number : j \in {j \in 1..(i - 1) : z[j].kind = "event"}} = 1..(z[i].number - 1)
  BY DEF NoneMissing
<1>4. \A j \in 1..(i - 1) : z[j] = heard[j]
  BY <1>2
<1>5. {z[j].number : j \in {j \in 1..(i - 1) : z[j].kind = "event"}}
        = {heard[j].number : j \in {j \in 1..(i - 1) : heard[j].kind = "event"}}
  BY <1>4
<1>6. CASE i \in 1..n
  <2>1. z[i] = heard[i] /\ i \in DOMAIN heard
    BY <1>2, <1>6
  <2> QED BY <1>5, <2>1 DEF NoneMissing
<1>7. CASE i = n + 1
  <2>1. z[i].number = number /\ i - 1 = n
    BY <1>2, <1>3, <1>7 DEF News
  <2>2. {heard[j].number : j \in {j \in 1..n : heard[j].kind = "event"}} = 1..(number - 1)
    <3> DEFINE N == {heard[j].number : j \in {j \in 1..n : heard[j].kind = "event"}}
    <3>1. DOMAIN heard = 1..n
      BY <1>2
    <3>2. ASSUME NEW k \in N PROVE k \in 1..(number - 1)
      <4>1. PICK j \in 1..n : heard[j].kind = "event" /\ k = heard[j].number
        OBVIOUS
      <4> QED BY <3>1, <4>1
    <3>3. ASSUME NEW k \in 1..(number - 1) PROVE k \in N
      <4>1. PICK j \in DOMAIN heard : heard[j].kind = "event" /\ heard[j].number = k
        OBVIOUS
      <4> QED BY <3>1, <4>1
    <3> HIDE DEF N
    <3>4. N = 1..(number - 1)
      BY <3>2, <3>3, Zenon
    <3> QED BY <3>4 DEF N
  <2> QED BY <1>5, <2>1, <2>2
<1> QED BY <1>2, <1>6, <1>7

(* A record is numbered.                                                   *)
LEMMA RecordNumber ==
  ASSUME NEW going \in Seq(Parcel)
  PROVE  \A i \in DOMAIN going : going[i].kind = "event" => going[i].numbers[2] \in Nat
<1> SUFFICES ASSUME NEW x \in Parcel, x.kind = "event" PROVE x.numbers[2] \in Nat
  BY LenProperties, ElementOfSeq
<1> QED BY DEF Parcel, Carries

(* What is left of records on their way, where nothing is told of one.     *)
LEMMA EventsQuiet ==
  ASSUME NEW to, NEW from, NEW exhausted, NEW isOpen, NEW to2, NEW still,
         NEW going \in Seq(Parcel), NEW after \in Seq(Parcel), NEW taken,
         NEW heard \in Seq(Heard), NEW news \in Seq(Heard), NEW events,
         EventsOf(to, from, exhausted, isOpen, going, heard, events), Silent(news),
         Leftover(going, after, taken), still => isOpen, to2 \notin Done => to \notin Done,
         to2 \in Done \/ \A i \in DOMAIN going \cap taken : going[i].kind # "event"
  PROVE  EventsOf(to2, from, exhausted, still, after, heard \o news, events)
<1> DEFINE z == heard \o news
<1>1. /\ \A i \in DOMAIN z : z[i].kind = "event" => i \in DOMAIN heard /\ z[i] = heard[i]
      /\ \A i \in DOMAIN heard : i \in DOMAIN z /\ z[i] = heard[i]
      /\ NoneMissing(z)
  BY SilentMore DEF EventsOf
<1> HIDE DEF z
<1>2. /\ \A x \in DOMAIN after : after[x].kind = "event" => \E y \in DOMAIN going : after[x] = going[y]
      /\ \A x, y \in DOMAIN after : x < y /\ after[x].kind = "event" /\ after[y].kind = "event" =>
            \E u, v \in DOMAIN going : u < v /\ after[x] = going[u] /\ after[y] = going[v]
      /\ \A y \in DOMAIN going \ taken : \E x \in DOMAIN after : after[x] = going[y]
  <2>1. ASSUME NEW x \in DOMAIN after, after[x].kind = "event"
        PROVE  \E y \in DOMAIN going : after[x] = going[y]
    <3>1. after[x].kind # "QueueExhausted"
      BY <2>1
    <3> QED BY <3>1 DEF Leftover
  <2>2. ASSUME NEW x \in DOMAIN after, NEW y \in DOMAIN after,
               x < y, after[x].kind = "event", after[y].kind = "event"
        PROVE  \E u, v \in DOMAIN going : u < v /\ after[x] = going[u] /\ after[y] = going[v]
    <3>1. after[x].kind # "QueueExhausted" /\ after[y].kind # "QueueExhausted"
      BY <2>2
    <3>2. PICK u \in DOMAIN going \ taken, v \in DOMAIN going \ taken :
            u < v /\ after[x] = going[u] /\ after[y] = going[v]
      BY <2>2, <3>1 DEF Leftover
    <3> QED BY <3>2
  <2>3. \A y \in DOMAIN going \ taken : \E x \in DOMAIN after : after[x] = going[y]
    BY DEF Leftover
  <2> QED BY <2>1, <2>2, <2>3
<1>3. Numbered(heard, going, events)
  BY DEF EventsOf
<1>4. Numbered(z, after, events)
  <2>1. \A i \in DOMAIN after : after[i].kind = "event" => after[i].numbers[2] \in 1..events
    BY <1>2, <1>3 DEF Numbered
  <2>2. ASSUME NEW i \in DOMAIN after, NEW j \in DOMAIN after,
               i < j, after[i].kind = "event", after[j].kind = "event"
        PROVE  after[i].numbers[2] < after[j].numbers[2]
    <3> PICK u \in DOMAIN going, v \in DOMAIN going : u < v /\ after[i] = going[u] /\ after[j] = going[v]
      BY <1>2, <2>2
    <3> QED BY <1>3, <2>2 DEF Numbered
  <2>3. \A i \in DOMAIN z : z[i].kind = "event" => z[i].number \in 1..events
    BY <1>1, <1>3 DEF Numbered
  <2>4. ASSUME NEW i \in DOMAIN z, NEW j \in DOMAIN after, z[i].kind = "event", after[j].kind = "event"
        PROVE  z[i].number < after[j].numbers[2]
    <3> PICK v \in DOMAIN going : after[j] = going[v]
      BY <1>2, <2>4
    <3> QED BY <1>1, <1>3, <2>4 DEF Numbered
  <2> QED BY <2>1, <2>2, <2>3, <2>4 DEF Numbered
<1>5. ASSUME to2 \notin Done, NEW k, Has(heard, going, k)
      PROVE  Has(z, after, k)
  <2>1. ASSUME NEW i \in DOMAIN heard, heard[i].kind = "event" /\ heard[i].number = k
        PROVE  Has(z, after, k)
    BY <1>1, <2>1 DEF Has
  <2>2. ASSUME NEW i \in DOMAIN going, going[i].kind = "event" /\ going[i].numbers[2] = k
        PROVE  Has(z, after, k)
    <3>1. i \in DOMAIN going \ taken
      BY <1>5, <2>2
    <3> PICK x \in DOMAIN after : after[x] = going[i]
      BY <1>2, <3>1
    <3> QED BY <2>2 DEF Has
  <2> QED BY <1>5, <2>1, <2>2 DEF Has
<1>6. ASSUME to2 \notin Done, NEW j \in DOMAIN after, after[j].kind = "event",
             NEW k \in 1..(after[j].numbers[2] - 1)
      PROVE  Has(z, after, k)
  <2> PICK v \in DOMAIN going : after[j] = going[v]
    BY <1>2, <1>6
  <2>1. Has(heard, going, k)
    BY <1>6 DEF EventsOf
  <2> QED BY <1>5, <1>6, <2>1
<1>7. ASSUME to2 \notin Done, from \notin Done, ~exhausted, still, NEW k \in 1..events
      PROVE  Has(z, after, k)
  <2>1. Has(heard, going, k)
    BY <1>7 DEF EventsOf
  <2> QED BY <1>5, <1>7, <2>1
<1>8. from \in Early => events = 0
  BY DEF EventsOf
<1> SUFFICES EventsOf(to2, from, exhausted, still, after, z, events)
  BY DEF z
<1> QED BY <1>1, <1>4, <1>6, <1>7, <1>8 DEF EventsOf

(* The first record under way is told.                                     *)
LEMMA EventsTold ==
  ASSUME NEW to, NEW from, NEW exhausted, NEW isOpen, NEW still,
         NEW going \in Seq(Parcel), NEW after \in Seq(Parcel), NEW i \in DOMAIN going,
         NEW heard \in Seq(Heard), NEW events,
         EventsOf(to, from, exhausted, isOpen, going, heard, events), to \notin Done,
         Leftover(going, after, {i}), still => isOpen,
         going[i].kind = "event", \A j \in 1..(i - 1) : going[j].kind # "event"
  PROVE  EventsOf(to, from, exhausted, still, after, heard \o <<News("event", going[i].numbers[2])>>, events)
<1> DEFINE n == going[i].numbers[2] news == <<News("event", n)>> z == heard \o news l == Len(heard)
<1>1. n \in Nat
  BY RecordNumber
<1>2. news \in Seq(Heard) /\ Len(news) = 1 /\ news[1] = News("event", n)
  <2>1. News("event", n) \in Heard
    BY <1>1 DEF News, Heard, NewsKinds
  <2> DEFINE e == News("event", n)
  <2> HIDE DEF e
  <2>2. <<e>> \in Seq(Heard) /\ Len(<<e>>) = 1 /\ <<e>>[1] = e
    BY <2>1 DEF e
  <2> QED BY <2>2 DEF e
<1> HIDE DEF n, news
<1>3. /\ DOMAIN heard = 1..l /\ DOMAIN z = 1..(l + 1) /\ l \in Nat
      /\ \A j \in 1..l : z[j] = heard[j]
      /\ \A j \in 1..Len(news) : z[l + j] = news[j]
  <2>1. heard \in Seq(Heard) /\ news \in Seq(Heard)
    BY <1>2
  <2>2. /\ DOMAIN heard = 1..Len(heard) /\ DOMAIN (heard \o news) = 1..(Len(heard) + Len(news)) /\ Len(heard) \in Nat
        /\ \A j \in 1..Len(heard) : (heard \o news)[j] = heard[j]
        /\ \A j \in 1..Len(news) : (heard \o news)[Len(heard) + j] = news[j]
    BY ONLY <2>1, Together
  <2> QED BY <1>2, <2>2
<1>4. z[l + 1] = News("event", n) /\ z[l + 1].kind = "event" /\ z[l + 1].number = n
  BY <1>2, <1>3 DEF News
<1> HIDE DEF z
<1>5. /\ \A x \in DOMAIN after : after[x].kind = "event" => \E y \in DOMAIN going \ {i} : after[x] = going[y]
      /\ \A x, y \in DOMAIN after : x < y /\ after[x].kind = "event" /\ after[y].kind = "event" =>
            \E u, v \in DOMAIN going : u < v /\ after[x] = going[u] /\ after[y] = going[v]
      /\ \A y \in DOMAIN going \ {i} : \E x \in DOMAIN after : after[x] = going[y]
  <2>1. ASSUME NEW x \in DOMAIN after, NEW y \in DOMAIN after,
               x < y, after[x].kind = "event", after[y].kind = "event"
        PROVE  \E u, v \in DOMAIN going : u < v /\ after[x] = going[u] /\ after[y] = going[v]
    BY <2>1 DEF Leftover
  <2>2. \A x \in DOMAIN after : after[x].kind = "event" => \E y \in DOMAIN going \ {i} : after[x] = going[y]
    BY DEF Leftover
  <2> QED BY <2>1, <2>2 DEF Leftover
<1>6. Numbered(heard, going, events) /\ DOMAIN going = 1..Len(going) /\ Len(going) \in Nat
  BY LenProperties DEF EventsOf
<1>7. \A j \in DOMAIN going \ {i} : going[j].kind = "event" => n < going[j].numbers[2]
  <2> SUFFICES ASSUME NEW j \in DOMAIN going \ {i}, going[j].kind = "event" PROVE n < going[j].numbers[2]
    OBVIOUS
  <2>1. i < j
    BY <1>6
  <2> QED BY <1>6, <2>1 DEF Numbered, n
<1>8. /\ n \in 1..events
      /\ \A j \in DOMAIN heard : heard[j].kind = "event" => heard[j].number \in 1..events /\ heard[j].number < n
  BY <1>6 DEF Numbered, n
<1>9. \A k \in 1..(n - 1) : \E j \in DOMAIN heard : heard[j].kind = "event" /\ heard[j].number = k
  <2> SUFFICES ASSUME NEW k \in 1..(n - 1) PROVE \E j \in DOMAIN heard : heard[j].kind = "event" /\ heard[j].number = k
    OBVIOUS
  <2>1. Has(heard, going, k)
    BY DEF EventsOf, n
  <2>2. ASSUME NEW j \in DOMAIN going, going[j].kind = "event", going[j].numbers[2] = k PROVE FALSE
    <3>1. j = i \/ n < k
      BY <1>7, <2>2
    <3> QED BY <1>1, <2>2, <3>1 DEF n
  <2> QED BY <2>1, <2>2 DEF Has
<1>10. NoneMissing(z)
  <2>1. \A j \in DOMAIN heard : heard[j].kind = "event" => heard[j].number \in 1..(n - 1)
    BY <1>1, <1>8
  <2>2. NoneMissing(heard)
    BY DEF EventsOf
  <2> QED BY <1>1, <1>9, <2>1, <2>2, NextTold DEF z, news
<1>11. Numbered(z, after, events)
  <2>1. ASSUME NEW j \in DOMAIN after, after[j].kind = "event"
        PROVE  after[j].numbers[2] \in 1..events
    <3> PICK v \in DOMAIN going \ {i} : after[j] = going[v]
      BY <1>5, <2>1
    <3> QED BY <1>6, <2>1 DEF Numbered
  <2>2. ASSUME NEW x \in DOMAIN after, NEW y \in DOMAIN after,
               x < y, after[x].kind = "event", after[y].kind = "event"
        PROVE  after[x].numbers[2] < after[y].numbers[2]
    <3> PICK u \in DOMAIN going, v \in DOMAIN going : u < v /\ after[x] = going[u] /\ after[y] = going[v]
      BY <1>5, <2>2
    <3> QED BY <1>6, <2>2 DEF Numbered
  <2>3. \A j \in DOMAIN z : z[j].kind = "event" => z[j].number \in 1..events
    <3>1. \A j \in DOMAIN z : j \in 1..l \/ j = l + 1
      BY <1>3
    <3> QED BY <1>3, <1>4, <1>8, <3>1
  <2>4. ASSUME NEW x \in DOMAIN z, NEW y \in DOMAIN after, z[x].kind = "event", after[y].kind = "event"
        PROVE  z[x].number < after[y].numbers[2]
    <3> PICK v \in DOMAIN going \ {i} : after[y] = going[v]
      BY <1>5, <2>4
    <3>1. n < going[v].numbers[2]
      BY <1>7, <2>4
    <3>2. CASE x \in 1..l
      BY <1>3, <1>6, <2>4, <3>2 DEF Numbered
    <3>3. CASE x = l + 1
      BY <1>4, <3>1, <3>3
    <3> QED BY <1>3, <3>2, <3>3
  <2> QED BY <2>1, <2>2, <2>3, <2>4 DEF Numbered
<1>12. ASSUME NEW k, Has(heard, going, k)
      PROVE  Has(z, after, k)
  <2>1. ASSUME NEW j \in DOMAIN heard, heard[j].kind = "event" /\ heard[j].number = k
        PROVE  Has(z, after, k)
    <3>1. j \in DOMAIN z /\ z[j] = heard[j]
      BY <1>3
    <3> QED BY <2>1, <3>1 DEF Has
  <2>2. ASSUME NEW j \in DOMAIN going, going[j].kind = "event" /\ going[j].numbers[2] = k
        PROVE  Has(z, after, k)
    <3>1. CASE j = i
      <4>1. l + 1 \in DOMAIN z /\ z[l + 1].number = k
        BY <1>3, <1>4, <2>2, <3>1 DEF n
      <4> QED BY <1>4, <4>1 DEF Has
    <3>2. CASE j # i
      <4> PICK x \in DOMAIN after : after[x] = going[j]
        BY <1>5, <3>2
      <4> QED BY <2>2 DEF Has
    <3> QED BY <3>1, <3>2
  <2> QED BY <1>12, <2>1, <2>2 DEF Has
<1>13. ASSUME NEW j \in DOMAIN after, after[j].kind = "event", NEW k \in 1..(after[j].numbers[2] - 1)
       PROVE  Has(z, after, k)
  <2> PICK v \in DOMAIN going : after[j] = going[v]
    BY <1>5, <1>13
  <2>1. Has(heard, going, k)
    BY <1>13 DEF EventsOf
  <2> QED BY <1>12, <2>1
<1>14. ASSUME from \notin Done, ~exhausted, still, NEW k \in 1..events
      PROVE  Has(z, after, k)
  <2>1. Has(heard, going, k)
    BY <1>14 DEF EventsOf
  <2> QED BY <1>12, <2>1
<1>15. from \in Early => events = 0
  BY DEF EventsOf
<1> SUFFICES EventsOf(to, from, exhausted, still, after, z, events)
  BY DEF z, news, n
<1> QED BY <1>10, <1>11, <1>13, <1>14, <1>15 DEF EventsOf

(* One more record under way, numbered next.                               *)
LEMMA EventsGiven ==
  ASSUME NEW side, NEW was \in Keeping, NEW keeps \in Keeping, NEW news, NEW had \in Counts, NEW done \in Counts,
         NEW to, NEW isOpen, NEW still, NEW back, NEW told1,
         NEW going \in Seq(Parcel), NEW added \in Seq(Parcel), NEW heard,
         EventsOf(to, was.phase, was.exhausted, isOpen, going, heard, had.events),
         Gives(side, was, keeps, news, had, done, added), Phased(was.phase, keeps.phase, told1),
         Shuts(was, keeps, isOpen, had, done, back, added, still)
  PROVE  EventsOf(to, keeps.phase, keeps.exhausted, still, going \o added, heard, done.events)
<1> DEFINE h == had.events d == done.events z == going \o added n == Len(going) m == Len(added)
<1>1. h \in Nat /\ d \in {h, h + 1} /\ d \in Nat
  BY DEF Counts, Gives
<1>2. /\ DOMAIN going = 1..n /\ DOMAIN added = 1..m /\ DOMAIN z = 1..(n + m) /\ n \in Nat /\ m \in Nat
      /\ \A i \in 1..n : z[i] = going[i]
      /\ \A i \in 1..(n + m) : i > n => i - n \in 1..m /\ z[i] = added[i - n]
      /\ \A i \in 1..m : n + i \in 1..(n + m) /\ z[n + i] = added[i]
  BY Together
<1>3. \A i \in DOMAIN going : going[i].kind = "event" => going[i].numbers[2] \in Nat
  BY RecordNumber
<1>4. Numbered(heard, going, h)
  BY DEF EventsOf
<1>5. \A i \in DOMAIN added : added[i].kind = "event" =>
        /\ d = h + 1 /\ added[i].numbers[2] = d /\ ~was.exhausted
        /\ \A j \in DOMAIN added : added[j].kind = "event" => j = i
  BY DEF Gives
<1>6. d # h => was.phase = "active"
  BY DEF Gives
<1>7. /\ keeps.phase \in Early => was.phase \in Early
      /\ keeps.phase \notin Done => was.phase \notin Done
  BY DEF Phased, Early, Done, Live
<1> HIDE DEF h, d, z, n, m
<1>8. ASSUME NEW i \in DOMAIN z, i \notin 1..n, z[i].kind = "event"
      PROVE  d = h + 1 /\ z[i].numbers[2] = d /\ (\A j \in DOMAIN z : j \notin 1..n /\ z[j].kind = "event" => j = i)
             /\ ~was.exhausted /\ added # <<>>
  <2>1. i > n /\ i - n \in DOMAIN added /\ z[i] = added[i - n]
    BY <1>2, <1>8
  <2>2. d = h + 1 /\ added[i - n].numbers[2] = d /\ ~was.exhausted
        /\ \A j \in DOMAIN added : added[j].kind = "event" => j = i - n
    BY <1>5, <1>8, <2>1
  <2>3. ASSUME NEW j \in DOMAIN z, j \notin 1..n, z[j].kind = "event"
        PROVE  j = i
    <3>1. j > n /\ j - n \in DOMAIN added /\ z[j] = added[j - n]
      BY <1>2, <2>3
    <3>2. j - n = i - n
      BY <2>2, <2>3, <3>1
    <3> QED BY <1>2, <3>2
  <2>4. added # <<>>
    BY <2>1
  <2> QED BY <2>1, <2>2, <2>3, <2>4
<1>9. \A i \in 1..n : i \in DOMAIN going /\ i \in DOMAIN z
  BY <1>2
<1>10. Numbered(heard, z, d)
  <2>1. ASSUME NEW i \in DOMAIN z, z[i].kind = "event"
        PROVE  z[i].numbers[2] \in 1..d
    <3>1. CASE i \in 1..n
      <4>1. z[i].numbers[2] \in 1..h
        BY <1>2, <1>4, <2>1, <3>1 DEF Numbered
      <4> QED BY <1>1, <4>1
    <3>2. CASE i \notin 1..n
      BY <1>1, <1>8, <2>1, <3>2
    <3> QED BY <3>1, <3>2
  <2>2. ASSUME NEW i \in DOMAIN z, NEW j \in DOMAIN z, i < j, z[i].kind = "event", z[j].kind = "event"
        PROVE  z[i].numbers[2] < z[j].numbers[2]
    <3>1. CASE j \in 1..n
      <4>1. i \in 1..n
        BY <1>2, <2>2, <3>1
      <4> QED BY <1>2, <1>4, <2>2, <3>1, <4>1 DEF Numbered
    <3>2. CASE j \notin 1..n
      <4>1. d = h + 1 /\ z[j].numbers[2] = d
        BY <1>8, <2>2, <3>2
      <4>2. i \in 1..n
        <5>1. i # j
          BY <1>2, <2>2
        <5> QED BY <1>8, <2>2, <3>2, <5>1
      <4>3. z[i].numbers[2] \in 1..h
        BY <1>2, <1>4, <2>2, <4>2 DEF Numbered
      <4> QED BY <1>1, <4>1, <4>3
    <3> QED BY <3>1, <3>2
  <2>3. ASSUME NEW i \in DOMAIN heard, heard[i].kind = "event"
        PROVE  heard[i].number \in 1..d
    <3>1. heard[i].number \in 1..h
      BY <1>4, <2>3 DEF Numbered
    <3> QED BY <1>1, <3>1
  <2>4. ASSUME NEW i \in DOMAIN heard, NEW j \in DOMAIN z, heard[i].kind = "event", z[j].kind = "event"
        PROVE  heard[i].number < z[j].numbers[2]
    <3>1. CASE j \in 1..n
      BY <1>2, <1>4, <2>4, <3>1 DEF Numbered
    <3>2. CASE j \notin 1..n
      <4>1. d = h + 1 /\ z[j].numbers[2] = d
        BY <1>8, <2>4, <3>2
      <4>2. heard[i].number \in 1..h
        BY <1>4, <2>4 DEF Numbered
      <4> QED BY <1>1, <4>1, <4>2
    <3> QED BY <3>1, <3>2
  <2> QED BY <2>1, <2>2, <2>3, <2>4 DEF Numbered
<1>11. ASSUME NEW k, Has(heard, going, k) PROVE Has(heard, z, k)
  <2>1. ASSUME NEW i \in DOMAIN going, going[i].kind = "event" /\ going[i].numbers[2] = k
        PROVE  Has(heard, z, k)
    <3>1. i \in DOMAIN z /\ z[i] = going[i]
      BY <1>2
    <3> QED BY <2>1, <3>1 DEF Has
  <2> QED BY <1>11, <2>1 DEF Has
<1>12. ASSUME to \notin Done, NEW j \in DOMAIN z, z[j].kind = "event", NEW k \in 1..(z[j].numbers[2] - 1)
       PROVE  Has(heard, z, k)
  <2>1. CASE j \in 1..n
    <3>1. Has(heard, going, k)
      BY <1>2, <1>12, <2>1 DEF EventsOf
    <3> QED BY <1>11, <3>1
  <2>2. CASE j \notin 1..n
    <3>1. d = h + 1 /\ z[j].numbers[2] = d /\ ~was.exhausted /\ isOpen
      BY <1>8, <1>12, <2>2 DEF Shuts
    <3>2. k \in 1..h /\ was.phase \notin Done
      BY <1>1, <1>6, <3>1 DEF Done
    <3>3. Has(heard, going, k)
      BY <1>12, <3>1, <3>2 DEF EventsOf, h
    <3> QED BY <1>11, <3>3
  <2> QED BY <2>1, <2>2
<1>13. ASSUME to \notin Done, keeps.phase \notin Done, ~keeps.exhausted, still, NEW k \in 1..d
       PROVE  Has(heard, z, k)
  <2>1. ~was.exhausted /\ isOpen /\ (d = h \/ Tells(added, "event")) /\ was.phase \notin Done
    BY <1>7, <1>13 DEF Shuts, d, h
  <2>2. CASE k \in 1..h
    <3>1. Has(heard, going, k)
      BY <1>13, <2>1, <2>2 DEF EventsOf, h
    <3> QED BY <1>11, <3>1
  <2>3. CASE k \notin 1..h
    <3>1. k = d /\ d = h + 1
      BY <1>1, <2>3
    <3> PICK i \in DOMAIN added : added[i].kind = "event"
      BY <1>1, <2>1, <3>1 DEF Tells
    <3>2. added[i].numbers[2] = d /\ n + i \in DOMAIN z /\ z[n + i] = added[i]
      BY <1>2, <1>5
    <3> QED BY <3>1, <3>2 DEF Has
  <2> QED BY <2>2, <2>3
<1>14. keeps.phase \in Early => d = 0
  <2>1. ASSUME keeps.phase \in Early PROVE d = 0
    <3>1. was.phase \in Early /\ h = 0
      BY <1>7, <2>1 DEF EventsOf, h
    <3> QED BY <1>6, <3>1 DEF Early
  <2> QED BY <2>1
<1>15. NoneMissing(heard)
  BY DEF EventsOf
<1> SUFFICES EventsOf(to, keeps.phase, keeps.exhausted, still, z, heard, d)
  BY DEF z, d
<1> QED BY <1>10, <1>12, <1>13, <1>14, <1>15 DEF EventsOf

(* All that is true of one connection.                                     *)
Good(keeps, going, isOpen, news, had) ==
    /\ AskedOf(keeps["client"].phase, keeps["server"].phase, isOpen, going["client"], going["server"])
    /\ keeps["server"].phase \in Early => ~Tells(going["server"], "event")
    /\ EpochOf(keeps["client"], going["client"], news["server"])
    /\ ClosingOf(keeps["server"], going["client"], news["client"], news["server"])
    /\ \A side \in Sides : Story(keeps[side].phase, news[side])
    /\ \A side \in Sides : FramesOf(keeps[side].unsent, had[side].frames, going[Other(side)])
    /\ \A side \in Sides : EventsOf(keeps[side].phase, keeps[Other(side)].phase, keeps[Other(side)].exhausted,
                                    isOpen, going[side], news[side], had[Other(side)].events)

(* A step of one side, as far as that depends on it.                       *)
Lawful(side, was, keeps, going, isOpen, had, news, done, cut, back, added, still) ==
    /\ keeps \in Keeping /\ news \in Seq(Heard) /\ done \in Counts
    /\ cut \in Seq(Parcel) /\ back \in Seq(Parcel) /\ added \in Seq(Parcel) /\ still \in BOOLEAN
    /\ Phased(was.phase, keeps.phase, news)
    /\ Takes(side, was, keeps, going, news, cut)
    /\ Gives(side, was, keeps, news, had, done, added)
    /\ Shuts(was, keeps, isOpen, had, done, back, added, still)

(* The records on their way to the side that takes the step.               *)
LEMMA EventsTaken ==
  ASSUME NEW side, NEW was \in Keeping, NEW keeps \in Keeping, NEW going \in Seq(Parcel), NEW isOpen,
         NEW had, NEW news \in Seq(Heard), NEW done, NEW cut \in Seq(Parcel), NEW back \in Seq(Parcel), NEW added,
         NEW still, NEW from, NEW exhausted, NEW heard \in Seq(Heard), NEW events,
         Phased(was.phase, keeps.phase, news), Takes(side, was, keeps, going, news, cut),
         Shuts(was, keeps, isOpen, had, done, back, added, still),
         still => isOpen, was.phase = "none" => ~Tells(going, "event"),
         EventsOf(was.phase, from, exhausted, isOpen, going, heard, events)
  PROVE  EventsOf(keeps.phase, from, exhausted, still, cut \o back, heard \o news, events)
<1> DEFINE after == cut \o back
<1>1. after \in Seq(Parcel) /\ Spent(back)
  BY Together DEF Shuts
<1>2. keeps.phase \notin Done => was.phase \notin Done
  BY DEF Phased, Done, Live, Early
<1>3. CASE cut = going /\ Silent(news)
  <2>1. Leftover(going, after, {})
    BY <1>1, <1>3, LeftAll
  <2> HIDE DEF after
  <2>2. EventsOf(keeps.phase, from, exhausted, still, after, heard \o news, events)
    BY <1>1, <1>2, <1>3, <2>1, EventsQuiet
  <2> QED BY <2>2 DEF after
<1>4. CASE cut = <<>> /\ Silent(news) /\ (keeps.phase = "gone" \/ keeps.phase = "none")
  <2>1. Leftover(going, after, DOMAIN going)
    BY <1>1, <1>4, LeftNone
  <2>2. keeps.phase \in Done \/ \A i \in DOMAIN going \cap DOMAIN going : going[i].kind # "event"
    <3>1. keeps.phase = "none" => was.phase = "none"
      BY DEF Phased
    <3> QED BY <1>4, <3>1 DEF Tells, Done
  <2> HIDE DEF after
  <2>3. EventsOf(keeps.phase, from, exhausted, still, after, heard \o news, events)
    BY <1>1, <1>2, <1>4, <2>1, <2>2, EventsQuiet
  <2> QED BY <2>3 DEF after
<1>5. ASSUME NEW i \in DOMAIN going,
             /\ cut = Without(going, i)
             /\ going[i].kind # "event" => Silent(news)
             /\ going[i].kind = "event" =>
                   /\ \A j \in 1..(i - 1) : going[j].kind # "event"
                   /\ \/ news = <<News("event", going[i].numbers[2])>>
                      \/ Silent(news) /\ was.phase \notin Live
      PROVE  EventsOf(keeps.phase, from, exhausted, still, after, heard \o news, events)
  <2>1. Leftover(going, after, {i})
    BY <1>1, <1>5, LeftOther
  <2> HIDE DEF after
  <2>2. CASE going[i].kind # "event"
    <3>1. \A j \in DOMAIN going \cap {i} : going[j].kind # "event"
      BY <2>2
    <3> QED BY <1>1, <1>2, <1>5, <2>1, <2>2, <3>1, EventsQuiet
  <2>3. CASE going[i].kind = "event" /\ Silent(news) /\ was.phase \notin Live
    <3>1. was.phase # "none"
      BY <2>3 DEF Tells
    <3>2. keeps.phase \in Done
      BY <2>3, <3>1 DEF Phased, Done, Live, Keeping, Phases
    <3> QED BY <1>1, <1>2, <2>1, <2>3, <3>2, EventsQuiet
  <2>4. CASE going[i].kind = "event" /\ news = <<News("event", going[i].numbers[2])>>
    <3>1. Len(news) = 1 /\ news[1].kind = "event"
      BY <2>4 DEF News
    <3>2. news # <<>> /\ news[1].kind \notin EndNews /\ news[1].kind # "admitted"
      <4>1. news # <<>>
        <5>1. Len(<<>>) = 0
          BY EmptySeq
        <5>2. news = <<>> => Len(news) = 0
          BY ONLY <5>1
        <5>3. Len(news) = 1
          BY <3>1
        <5> QED BY ONLY <5>2, <5>3
      <4>2. news[1].kind \notin EndNews /\ news[1].kind # "admitted"
        BY <3>1 DEF EndNews, Ends
      <4> QED BY <4>1, <4>2
    <3>3. was.phase = "active" /\ keeps.phase = "active"
      BY <3>1, <3>2 DEF Phased, EndsTold
    <3>4. was.phase \notin Done
      BY <3>3 DEF Done
    <3> QED BY <1>1, <1>5, <2>1, <2>4, <3>3, <3>4, EventsTold
  <2> QED BY <1>5, <2>2, <2>3, <2>4
<1> QED BY <1>3, <1>4, <1>5 DEF Takes

(* A lawful turn of either side keeps all that is true of a connection.    *)
LEMMA TurnGood ==
  ASSUME NEW side \in Sides, NEW k \in [Sides -> Keeping], NEW w \in [Sides -> Seq(Parcel)], NEW o \in BOOLEAN,
         NEW t \in [Sides -> Seq(Heard)], NEW s \in [Sides -> Counts],
         NEW keeps, NEW news, NEW done, NEW cut, NEW back, NEW added, NEW still,
         Good(k, w, o, t, s),
         Lawful(side, k[side], keeps, w[side], o, s[side], news, done, cut, back, added, still)
  PROVE  Good([k EXCEPT ![side] = keeps], [w EXCEPT ![side] = cut \o back, ![Other(side)] = @ \o added], still,
              [t EXCEPT ![side] = @ \o news], [s EXCEPT ![side] = done])
<1> DEFINE b == Other(side) K == [k EXCEPT ![side] = keeps]
           W == [w EXCEPT ![side] = cut \o back, ![b] = @ \o added]
           T == [t EXCEPT ![side] = @ \o news] S == [s EXCEPT ![side] = done]
<1>1. /\ b \in Sides /\ b # side /\ Other(b) = side /\ Sides = {"server", "client"} /\ Sides = {side, b}
      /\ side = "server" => b = "client"
      /\ side = "client" => b = "server"
  BY DEF Sides, Other
<1> HIDE DEF b
<1>2. /\ K[side] = keeps /\ K[b] = k[b]
      /\ W[side] = cut \o back /\ W[b] = w[b] \o added
      /\ T[side] = t[side] \o news /\ T[b] = t[b]
      /\ S[side] = done /\ S[b] = s[b]
  BY <1>1
<1> HIDE DEF K, W, T, S
<1>3. /\ keeps \in Keeping /\ news \in Seq(Heard) /\ done \in Counts
      /\ cut \in Seq(Parcel) /\ back \in Seq(Parcel) /\ added \in Seq(Parcel) /\ still \in BOOLEAN
      /\ k[side] \in Keeping /\ k[b] \in Keeping /\ w[side] \in Seq(Parcel) /\ w[b] \in Seq(Parcel)
      /\ t[side] \in Seq(Heard) /\ t[b] \in Seq(Heard) /\ s[side] \in Counts /\ s[b] \in Counts
  BY <1>1 DEF Lawful
<1>4. /\ Phased(k[side].phase, keeps.phase, news)
      /\ Takes(side, k[side], keeps, w[side], news, cut)
      /\ Gives(side, k[side], keeps, news, s[side], done, added)
      /\ Shuts(k[side], keeps, o, s[side], done, back, added, still)
  BY DEF Lawful
<1>5. Spent(back) /\ (still => o)
  BY <1>4 DEF Shuts
<1> PICK taken : Leftover(w[side], cut \o back, taken)
  BY <1>3, <1>4, <1>5, TakesLeaves, Zenon
<1>6. \A x \in Sides : Story(K[x].phase, T[x])
  <2>1. Story(k[side].phase, t[side]) /\ Story(k[b].phase, t[b])
    BY <1>1 DEF Good
  <2>2. k[side].phase \in Phases
    BY <1>3 DEF Keeping
  <2>3. Story(keeps.phase, t[side] \o news)
    BY <1>3, <1>4, <2>1, <2>2, StoryGoesOn
  <2> QED BY <1>1, <1>2, <2>1, <2>3
<1>7. \A x \in Sides : FramesOf(K[x].unsent, S[x].frames, W[Other(x)])
  <2>1. FramesOf(k[side].unsent, s[side].frames, w[b]) /\ FramesOf(k[b].unsent, s[b].frames, w[side])
    BY <1>1 DEF Good, b
  <2>2. FramesOf(keeps.unsent, done.frames, w[b] \o added)
    BY <1>3, <1>4, <2>1, FramesSent
  <2>3. FramesOf(k[b].unsent, s[b].frames, cut \o back)
    BY <2>1, FramesLeft
  <2> QED BY <1>1, <1>2, <2>2, <2>3 DEF b
<1>8. /\ AskedOf(K["client"].phase, K["server"].phase, still, W["client"], W["server"])
      /\ K["server"].phase \in Early => ~Tells(W["server"], "event")
      /\ EpochOf(K["client"], W["client"], T["server"])
      /\ ClosingOf(K["server"], W["client"], T["client"], T["server"])
  <2>1. CASE side = "server"
    <3>1. b = "client"
      BY <1>1, <2>1
    <3>2. AskedOf(K["client"].phase, K["server"].phase, still, W["client"], W["server"])
      <4>1. AskedOf(k[b].phase, k[side].phase, o, w[b], w[side])
        BY <2>1, <3>1 DEF Good
      <4>2. Takes("server", k[side], keeps, w[side], news, cut)
        BY <1>4, <2>1
      <4>3. AskedOf(k[b].phase, keeps.phase, still, w[b] \o added, cut \o back)
        BY <1>3, <1>4, <4>1, <4>2, AskedServer
      <4> QED BY <1>2, <2>1, <3>1, <4>3
    <3>3. K["server"].phase \in Early => ~Tells(W["server"], "event")
      <4>1. keeps.phase \in Early => k[side].phase \in Early
        BY <1>4 DEF Phased, Early
      <4>2. Tells(cut \o back, "event") => Tells(w[side], "event")
        <5> DEFINE z == cut \o back
        <5> HIDE DEF z
        <5>1. Leftover(w[side], z, taken)
          BY DEF z
        <5>2. Tells(z, "event") => Tells(w[side], "event")
          BY <5>1 DEF Leftover, Tells
        <5> QED BY <5>2 DEF z
      <4>3. k[side].phase \in Early => ~Tells(w[side], "event")
        BY <2>1 DEF Good
      <4> QED BY <1>2, <2>1, <4>1, <4>2, <4>3
    <3>4. EpochOf(K["client"], W["client"], T["server"])
      <4>1. EpochOf(k[b], w[b], t[side])
        BY <2>1, <3>1 DEF Good
      <4>2. Gives("server", k[side], keeps, news, s[side], done, added)
        BY <1>4, <2>1
      <4>3. EpochOf(k[b], w[b] \o added, t[side] \o news)
        BY <1>3, <4>1, <4>2, EpochGiven
      <4> QED BY <1>2, <2>1, <3>1, <4>3
    <3>5. ClosingOf(K["server"], W["client"], T["client"], T["server"])
      <4>1. ClosingOf(k[side], w[b], t[b], t[side]) /\ Story(k[side].phase, t[side])
        BY <2>1, <3>1 DEF Good
      <4>2. Gives("server", k[side], keeps, news, s[side], done, added)
        BY <1>4, <2>1
      <4>3. ClosingOf(keeps, w[b] \o added, t[b], t[side] \o news)
        BY <1>3, <1>4, <4>1, <4>2, ClosingGiven
      <4> QED BY <1>2, <2>1, <3>1, <4>3
    <3> QED BY <3>2, <3>3, <3>4, <3>5
  <2>2. CASE side = "client"
    <3>1. b = "server"
      BY <1>1, <2>2
    <3>2. Takes("client", k[side], keeps, w[side], news, cut) /\ Gives("client", k[side], keeps, news, s[side], done, added)
      BY <1>4, <2>2
    <3>3. AskedOf(K["client"].phase, K["server"].phase, still, W["client"], W["server"])
      <4>1. AskedOf(k[side].phase, k[b].phase, o, w[side], w[b])
        BY <2>2, <3>1 DEF Good
      <4>3. AskedOf(keeps.phase, k[b].phase, still, cut \o back, w[b] \o added)
        BY <1>3, <1>4, <3>2, <4>1, AskedClient
      <4> QED BY <1>2, <2>2, <3>1, <4>3
    <3>4. EpochOf(k[side], w[side], t[b])
      BY <2>2, <3>1 DEF Good
    <3>5. K["server"].phase \in Early => ~Tells(W["server"], "event")
      <4> SUFFICES ASSUME k[b].phase \in Early, Tells(w[b] \o added, "event") PROVE FALSE
        BY <1>2, <3>1
      <4>1. ~Tells(w[b], "event") /\ Story(k[b].phase, t[b])
        BY <3>1 DEF Good, Sides
      <4>2. Mixes(w[b], added, w[b] \o added)
        BY <1>3, SentMore
      <4>3. Tells(added, "event")
        <5> DEFINE z == w[b] \o added
        <5> HIDE DEF z
        <5>1. Mixes(w[b], added, z) /\ Tells(z, "event")
          BY <4>2 DEF z
        <5> PICK i \in DOMAIN z : z[i].kind = "event"
          BY <5>1 DEF Tells
        <5>2. \/ \E j \in DOMAIN w[b] : z[i] = w[b][j]
              \/ \E j \in DOMAIN added : z[i] = added[j]
          BY <5>1 DEF Mixes
        <5> QED BY <4>1, <5>2 DEF Tells
      <4>4. done.events = s[side].events + 1 /\ s[side].events \in Nat
        BY <1>3, <3>2, <4>3 DEF Gives, Tells, Counts
      <4>5. k[side].phase = "active"
        BY <3>2, <4>4 DEF Gives
      <4>6. t[b] # <<>>
        <5> PICK e : AdmittedWith(t[b], e)
          BY <3>4, <4>5 DEF EpochOf
        <5> QED BY DEF AdmittedWith
      <4> QED BY <4>1, <4>6 DEF Story
    <3>6. EpochOf(K["client"], W["client"], T["server"])
      <4>3. EpochOf(keeps, cut \o back, t[b])
        BY <1>3, <1>5, <3>2, <3>4, EpochTaken
      <4> QED BY <1>2, <2>2, <3>1, <4>3
    <3>7. ClosingOf(K["server"], W["client"], T["client"], T["server"])
      <4>1. ClosingOf(k[b], w[side], t[side], t[b])
        BY <2>2, <3>1 DEF Good
      <4>3. ClosingOf(k[b], cut \o back, t[side] \o news, t[b])
        BY <1>3, <1>5, <3>2, <4>1, ClosingTaken
      <4> QED BY <1>2, <2>2, <3>1, <4>3
    <3> QED BY <3>3, <3>5, <3>6, <3>7
  <2> QED BY <1>1, <2>1, <2>2
<1>9. \A x \in Sides : EventsOf(K[x].phase, K[Other(x)].phase, K[Other(x)].exhausted,
                                still, W[x], T[x], S[Other(x)].events)
  <2>1. /\ EventsOf(k[side].phase, k[b].phase, k[b].exhausted, o, w[side], t[side], s[b].events)
        /\ EventsOf(k[b].phase, k[side].phase, k[side].exhausted, o, w[b], t[b], s[side].events)
    BY <1>1 DEF Good, b
  <2>2. k[side].phase = "none" => ~Tells(w[side], "event")
    <3>1. CASE side = "server"
      BY <3>1 DEF Good, Early
    <3>2. CASE side = "client"
      BY <3>2 DEF Good, AskedOf, Tells
    <3> QED BY <1>1, <3>1, <3>2
  <2>3. EventsOf(keeps.phase, k[b].phase, k[b].exhausted, still, cut \o back, t[side] \o news, s[b].events)
    BY <1>3, <1>4, <1>5, <2>1, <2>2, EventsTaken
  <2>4. EventsOf(k[b].phase, keeps.phase, keeps.exhausted, still, w[b] \o added, t[b], done.events)
    BY <1>3, <1>4, <2>1, EventsGiven
  <2> QED BY <1>1, <1>2, <2>3, <2>4 DEF b
<1> QED BY <1>6, <1>7, <1>8, <1>9 DEF Good, K, W, T, S, b

(* What a step may do to a connection: one side's doing, the path's        *)
(* failing, its being asked for, or nothing.                               *)
Turns(k, w, o, t, s, k2, w2, o2, t2, s2) ==
    \E side \in Sides : \E keeps, news, done, cut, back, added, still :
        /\ Lawful(side, k[side], keeps, w[side], o, s[side], news, done, cut, back, added, still)
        /\ k2 = [k EXCEPT ![side] = keeps]
        /\ w2 = [w EXCEPT ![side] = cut \o back, ![Other(side)] = @ \o added]
        /\ o2 = still
        /\ t2 = [t EXCEPT ![side] = @ \o news]
        /\ s2 = [s EXCEPT ![side] = done]

Failing(w, o, w2, o2) ==
    /\ o = TRUE
    /\ \E why \in {"PeerGone", "QueueExhausted"} :
        w2 = [side \in Sides |-> Append(w[side], Item(why, <<>>))] /\ o2 = FALSE

Begins(k, w, k2, w2, o2) ==
    /\ k["client"].phase = "none"
    /\ k2 = [k EXCEPT !["client"] = [k["client"] EXCEPT !.phase = "connecting"]]
    /\ \/ o2 = TRUE /\ w2 = [w EXCEPT !["server"] = <<Item("accepted", <<>>)>>, !["client"] = <<Item("connected", <<>>)>>]
       \/ o2 = FALSE /\ w2 = [w EXCEPT !["client"] = <<Item("Refused", <<>>)>>]

Steps(k, w, o, t, s, k2, w2, o2, t2, s2) ==
    \/ k2 = k /\ w2 = w /\ o2 = o /\ t2 = t /\ s2 = s
    \/ Turns(k, w, o, t, s, k2, w2, o2, t2, s2)
    \/ Failing(w, o, w2, o2) /\ k2 = k /\ t2 = t /\ s2 = s
    \/ Begins(k, w, k2, w2, o2) /\ t2 = t /\ s2 = s

(* A connection's state has its type.                                      *)
Sound(k, w, o, t, s) ==
    /\ k \in [Sides -> Keeping] /\ w \in [Sides -> Seq(Parcel)] /\ o \in BOOLEAN
    /\ t \in [Sides -> Seq(Heard)] /\ s \in [Sides -> Counts]

(* Something that ends a connection, or begins it, is on its way.          *)
LEMMA Plain ==
  ASSUME NEW kind \in Kinds \ {"accept", "datagram", "event"}
  PROVE  /\ Item(kind, <<>>) \in Parcel /\ Item(kind, <<>>).kind = kind
         /\ <<Item(kind, <<>>)>> \in Seq(Parcel) /\ Len(<<Item(kind, <<>>)>>) = 1
         /\ <<Item(kind, <<>>)>>[1].kind = kind
         /\ \A i \in DOMAIN <<Item(kind, <<>>)>> : i = 1
<1>1. Item(kind, <<>>) \in Parcel /\ Item(kind, <<>>).kind = kind
  BY EmptySeq DEF Item, Parcel, Carries
<1> DEFINE x == Item(kind, <<>>)
<1> HIDE DEF x
<1>2. /\ <<x>> \in Seq(Parcel) /\ Len(<<x>>) = 1 /\ <<x>>[1] = x
      /\ \A i \in DOMAIN <<x>> : i = 1
  BY <1>1 DEF x
<1> QED BY <1>1, <1>2 DEF x

(* The same of its types.                                                  *)
LEMMA TurnSound ==
  ASSUME NEW k, NEW w, NEW o, NEW t, NEW s, NEW k2, NEW w2, NEW o2, NEW t2, NEW s2,
         Sound(k, w, o, t, s), Good(k, w, o, t, s), Turns(k, w, o, t, s, k2, w2, o2, t2, s2)
  PROVE  Sound(k2, w2, o2, t2, s2) /\ Good(k2, w2, o2, t2, s2)
<1>0. \E side, keeps, news, done, cut, back, added, still :
        /\ side \in Sides
        /\ Lawful(side, k[side], keeps, w[side], o, s[side], news, done, cut, back, added, still)
        /\ k2 = [k EXCEPT ![side] = keeps]
        /\ w2 = [w EXCEPT ![side] = cut \o back, ![Other(side)] = @ \o added]
        /\ o2 = still
        /\ t2 = [t EXCEPT ![side] = @ \o news]
        /\ s2 = [s EXCEPT ![side] = done]
  <2>1. PICK side \in Sides : \E keeps, news, done, cut, back, added, still :
          /\ Lawful(side, k[side], keeps, w[side], o, s[side], news, done, cut, back, added, still)
          /\ k2 = [k EXCEPT ![side] = keeps]
          /\ w2 = [w EXCEPT ![side] = cut \o back, ![Other(side)] = @ \o added]
          /\ o2 = still
          /\ t2 = [t EXCEPT ![side] = @ \o news]
          /\ s2 = [s EXCEPT ![side] = done]
    BY Zenon DEF Turns
  <2>2. PICK keeps, news, done, cut, back, added, still :
          /\ Lawful(side, k[side], keeps, w[side], o, s[side], news, done, cut, back, added, still)
          /\ k2 = [k EXCEPT ![side] = keeps]
          /\ w2 = [w EXCEPT ![side] = cut \o back, ![Other(side)] = @ \o added]
          /\ o2 = still
          /\ t2 = [t EXCEPT ![side] = @ \o news]
          /\ s2 = [s EXCEPT ![side] = done]
    BY <2>1, Zenon
  <2> QED BY <2>2, Zenon
<1> PICK side, keeps, news, done, cut, back, added, still :
        /\ side \in Sides
        /\ Lawful(side, k[side], keeps, w[side], o, s[side], news, done, cut, back, added, still)
        /\ k2 = [k EXCEPT ![side] = keeps]
        /\ w2 = [w EXCEPT ![side] = cut \o back, ![Other(side)] = @ \o added]
        /\ o2 = still
        /\ t2 = [t EXCEPT ![side] = @ \o news]
        /\ s2 = [s EXCEPT ![side] = done]
  BY <1>0, Zenon
<1>1. /\ k \in [Sides -> Keeping] /\ w \in [Sides -> Seq(Parcel)] /\ o \in BOOLEAN
      /\ t \in [Sides -> Seq(Heard)] /\ s \in [Sides -> Counts]
  BY DEF Sound
<1>2. Good(k2, w2, o2, t2, s2)
  BY <1>1, TurnGood
<1>3. /\ keeps \in Keeping /\ news \in Seq(Heard) /\ done \in Counts
      /\ cut \in Seq(Parcel) /\ back \in Seq(Parcel) /\ added \in Seq(Parcel) /\ still \in BOOLEAN
  BY DEF Lawful
<1>4. Other(side) \in Sides
  BY DEF Other, Sides
<1>5. cut \o back \in Seq(Parcel) /\ w[Other(side)] \o added \in Seq(Parcel) /\ t[side] \o news \in Seq(Heard)
  <2>1. w[Other(side)] \in Seq(Parcel) /\ t[side] \in Seq(Heard)
    BY <1>1, <1>4
  <2> QED BY <1>3, <2>1, ConcatProperties
<1>6. w2 \in [Sides -> Seq(Parcel)]
  BY <1>1, <1>4, <1>5
<1>7. t2 \in [Sides -> Seq(Heard)]
  BY <1>1, <1>5
<1>8. k2 \in [Sides -> Keeping] /\ s2 \in [Sides -> Counts] /\ o2 \in BOOLEAN
  BY <1>1, <1>3
<1> QED BY <1>2, <1>6, <1>7, <1>8 DEF Sound

(* What is on its way where one more thing, that ends it, comes after.     *)
LEMMA OneMorePlain ==
  ASSUME NEW going \in Seq(Parcel), NEW kind \in {"PeerGone", "QueueExhausted"}
  PROVE  LET after == Append(going, Item(kind, <<>>))
         IN  /\ after \in Seq(Parcel)
             /\ \A i \in DOMAIN after : (i \in DOMAIN going /\ after[i] = going[i]) \/ after[i].kind = kind
             /\ \A i \in DOMAIN going : i \in DOMAIN after /\ after[i] = going[i]
<1> DEFINE x == Item(kind, <<>>) after == Append(going, x) n == Len(going)
<1>1. x \in Parcel /\ x.kind = kind
  BY Plain DEF Kinds, Ends
<1> HIDE DEF x
<1>2. /\ after \in Seq(Parcel) /\ Len(after) = n + 1 /\ \A i \in 1..n : after[i] = going[i]
      /\ after[n + 1] = x
  BY <1>1, AppendProperties
<1>3. DOMAIN after = 1..Len(after) /\ DOMAIN going = 1..n /\ n \in Nat
  BY <1>2, LenProperties
<1> HIDE DEF after, n
<1> SUFFICES /\ after \in Seq(Parcel)
             /\ \A i \in DOMAIN after : (i \in DOMAIN going /\ after[i] = going[i]) \/ after[i].kind = kind
             /\ \A i \in DOMAIN going : i \in DOMAIN after /\ after[i] = going[i]
  BY DEF after, x
<1>4. \A i \in DOMAIN after : i \in 1..n \/ i = n + 1
  BY <1>2, <1>3
<1> QED BY <1>1, <1>2, <1>3, <1>4

(* A path that fails changes nothing but what is on its way.               *)
LEMMA FailSound ==
  ASSUME NEW k, NEW w, NEW o, NEW t, NEW s, NEW w2, NEW o2,
         Sound(k, w, o, t, s), Good(k, w, o, t, s), Failing(w, o, w2, o2)
  PROVE  Sound(k, w2, o2, t, s) /\ Good(k, w2, o2, t, s)
<1> PICK why \in {"PeerGone", "QueueExhausted"} :
        w2 = [side \in Sides |-> Append(w[side], Item(why, <<>>))] /\ o2 = FALSE
  BY DEF Failing
<1>1. ASSUME NEW side \in Sides
      PROVE  /\ w2[side] \in Seq(Parcel)
             /\ \A i \in DOMAIN w2[side] : (i \in DOMAIN w[side] /\ w2[side][i] = w[side][i]) \/ w2[side][i].kind = why
             /\ \A i \in DOMAIN w[side] : i \in DOMAIN w2[side] /\ w2[side][i] = w[side][i]
  <2>1. w[side] \in Seq(Parcel) /\ w2[side] = Append(w[side], Item(why, <<>>))
    BY DEF Sound
  <2> QED BY <2>1, OneMorePlain
<1>2. Sound(k, w2, o2, t, s)
  <2>1. w2 = [side \in Sides |-> w2[side]]
    OBVIOUS
  <2>2. w2 \in [Sides -> Seq(Parcel)]
    BY <1>1, <2>1
  <2> QED BY <2>2 DEF Sound
<1>3. "client" \in Sides /\ "server" \in Sides /\ \A side \in Sides : Other(side) \in Sides
  BY DEF Sides, Other
<1>4. AskedOf(k["client"].phase, k["server"].phase, o2, w2["client"], w2["server"])
  <2>1. k["client"].phase # "none"
    BY DEF Good, AskedOf, Failing
  <2>2. \A i \in DOMAIN w2["server"] : w2["server"][i].kind = "accepted" => i = 1 /\ k["server"].phase = "none"
    BY <1>1, <1>3 DEF Good, AskedOf
  <2> QED BY <2>1, <2>2 DEF AskedOf
<1>5. /\ k["server"].phase \in Early => ~Tells(w2["server"], "event")
      /\ EpochOf(k["client"], w2["client"], t["server"])
      /\ ClosingOf(k["server"], w2["client"], t["client"], t["server"])
  <2>1. k["server"].phase \in Early => ~Tells(w2["server"], "event")
    BY <1>1, <1>3 DEF Good, Tells
  <2>2. EpochOf(k["client"], w2["client"], t["server"])
    BY <1>1, <1>3 DEF Good, EpochOf
  <2>3. Tells(w2["client"], "Closed") => Tells(w["client"], "Closed")
    BY <1>1, <1>3 DEF Tells
  <2>4. ClosingOf(k["server"], w2["client"], t["client"], t["server"])
    BY <2>3 DEF Good, ClosingOf
  <2> QED BY <2>1, <2>2, <2>4
<1>6. \A side \in Sides : FramesOf(k[side].unsent, s[side].frames, w2[Other(side)])
  <2> SUFFICES ASSUME NEW side \in Sides PROVE FramesOf(k[side].unsent, s[side].frames, w2[Other(side)])
    OBVIOUS
  <2> DEFINE b == Other(side)
  <2>1. FramesOf(k[side].unsent, s[side].frames, w[b])
    BY DEF Good
  <2> HIDE DEF b
  <2>2. b \in Sides
    BY <1>3 DEF b
  <2>3. FramesOf(k[side].unsent, s[side].frames, w2[b])
    BY <1>1, <2>1, <2>2 DEF FramesOf
  <2> QED BY <2>3 DEF b
<1>7. \A side \in Sides : EventsOf(k[side].phase, k[Other(side)].phase, k[Other(side)].exhausted,
                                   o2, w2[side], t[side], s[Other(side)].events)
  <2> SUFFICES ASSUME NEW side \in Sides
               PROVE  EventsOf(k[side].phase, k[Other(side)].phase, k[Other(side)].exhausted,
                                   o2, w2[side], t[side], s[Other(side)].events)
    OBVIOUS
  <2> DEFINE W == w[side] V == w2[side] to == k[side].phase from == k[Other(side)].phase
             e == k[Other(side)].exhausted T == t[side] S == s[Other(side)].events
  <2>1. EventsOf(to, from, e, o, W, T, S)
    BY DEF Good
  <2>2. /\ \A i \in DOMAIN V : V[i].kind = "event" => i \in DOMAIN W /\ V[i] = W[i]
        /\ \A i \in DOMAIN W : i \in DOMAIN V /\ V[i] = W[i]
    BY <1>1
  <2> HIDE DEF W, V, to, from, e, T, S
  <2>3. Numbered(T, V, S)
    BY <2>1, <2>2 DEF EventsOf, Numbered
  <2>4. \A kk : Has(T, W, kk) => Has(T, V, kk)
    BY <2>2 DEF Has
  <2>5. ASSUME to \notin Done, NEW j \in DOMAIN V, V[j].kind = "event", NEW kk \in 1..(V[j].numbers[2] - 1)
        PROVE  Has(T, V, kk)
    <3>1. Has(T, W, kk)
      BY <2>1, <2>2, <2>5 DEF EventsOf
    <3> QED BY <2>4, <3>1
  <2>6. EventsOf(to, from, e, o2, V, T, S)
    BY <2>1, <2>3, <2>5 DEF EventsOf
  <2> QED BY <2>6 DEF W, V, to, from, e, T, S
<1> QED BY <1>2, <1>4, <1>5, <1>6, <1>7 DEF Good

(* On its way after it was asked for: one thing, that tells nothing.       *)
LEMMA BeginSound ==
  ASSUME NEW k, NEW w, NEW o, NEW t, NEW s, NEW k2, NEW w2, NEW o2,
         Sound(k, w, o, t, s), Good(k, w, o, t, s), Begins(k, w, k2, w2, o2)
  PROVE  Sound(k2, w2, o2, t, s) /\ Good(k2, w2, o2, t, s)
<1> DEFINE keeps == [k["client"] EXCEPT !.phase = "connecting"]
<1>1. /\ "client" \in Sides /\ "server" \in Sides /\ Sides = {"server", "client"}
      /\ Other("server") = "client" /\ Other("client") = "server"
  BY DEF Sides, Other
<1>2. k["client"] \in Keeping /\ k["server"] \in Keeping /\ k \in [Sides -> Keeping]
  BY <1>1 DEF Sound
<1>3. keeps \in Keeping /\ keeps.phase = "connecting"
  BY <1>2 DEF Keeping, Phases, Live
<1>4. keeps.unsent = k["client"].unsent
  BY <1>2 DEF Keeping
<1>5. k2 = [k EXCEPT !["client"] = keeps] /\ k["client"].phase = "none"
  BY DEF Begins
<1> HIDE DEF keeps
<1>6. k2["client"] = keeps /\ k2["server"] = k["server"] /\ k2 \in [Sides -> Keeping]
  BY <1>1, <1>2, <1>3, <1>5
<1>7. k["server"].phase = "none" /\ ~o /\ w["client"] = <<>> /\ w["server"] = <<>>
  BY <1>5 DEF Good, AskedOf
<1>8. t["client"] = <<>> /\ t["server"] = <<>>
  BY <1>1, <1>5, <1>7 DEF Good, Story, Early
<1>9. s["client"].events = 0 /\ s["server"].events = 0
  BY <1>1, <1>5, <1>7 DEF Good, EventsOf, Early
<1>10. /\ w2 \in [Sides -> Seq(Parcel)] /\ o2 \in BOOLEAN
       /\ \A i \in DOMAIN w2["client"] : w2["client"][i].kind \in {"connected", "Refused"}
       /\ \A i \in DOMAIN w2["server"] : i = 1 /\ w2["server"][i].kind = "accepted"
  <2>1. w \in [Sides -> Seq(Parcel)]
    BY DEF Sound
  <2>2. {"accepted", "connected", "Refused"} \subseteq Kinds \ {"accept", "datagram", "event"}
    BY DEF Kinds, Ends
  <2> DEFINE a == <<Item("accepted", <<>>)>> b == <<Item("connected", <<>>)>> r == <<Item("Refused", <<>>)>>
  <2>3. /\ a \in Seq(Parcel) /\ \A i \in DOMAIN a : i = 1 /\ a[i].kind = "accepted"
        /\ b \in Seq(Parcel) /\ \A i \in DOMAIN b : b[i].kind = "connected"
        /\ r \in Seq(Parcel) /\ \A i \in DOMAIN r : r[i].kind = "Refused"
    BY <2>2, Plain
  <2>4. \/ o2 = TRUE /\ w2 = [w EXCEPT !["server"] = a, !["client"] = b]
        \/ o2 = FALSE /\ w2 = [w EXCEPT !["client"] = r]
    BY DEF Begins
  <2> HIDE DEF a, b, r
  <2>5. \A i \in DOMAIN <<>> : FALSE
    OBVIOUS
  <2>6. CASE o2 = TRUE /\ w2 = [w EXCEPT !["server"] = a, !["client"] = b]
    <3>1. w2["server"] = a /\ w2["client"] = b /\ w2 \in [Sides -> Seq(Parcel)]
      BY <1>1, <2>1, <2>3, <2>6
    <3> QED BY <2>3, <2>6, <3>1
  <2>7. CASE o2 = FALSE /\ w2 = [w EXCEPT !["client"] = r]
    <3>1. w2["server"] = <<>> /\ w2["client"] = r /\ w2 \in [Sides -> Seq(Parcel)]
      BY <1>1, <1>7, <2>1, <2>3, <2>7
    <3> QED BY <2>3, <2>5, <2>7, <3>1
  <2> QED BY <2>4, <2>6, <2>7
<1>11. Sound(k2, w2, o2, t, s)
  BY <1>6, <1>10 DEF Sound
<1>12. AskedOf(k2["client"].phase, k2["server"].phase, o2, w2["client"], w2["server"])
  BY <1>3, <1>6, <1>7, <1>10 DEF AskedOf
<1>13. k2["server"].phase \in Early => ~Tells(w2["server"], "event")
  BY <1>10 DEF Tells
<1>14. EpochOf(k2["client"], w2["client"], t["server"])
  BY <1>3, <1>6, <1>10 DEF EpochOf
<1>15. ClosingOf(k2["server"], w2["client"], t["client"], t["server"])
  <2>1. ~Tells(<<>>, "Closed")
    BY DEF Tells
  <2> QED BY <1>8, <1>10, <2>1 DEF ClosingOf, Tells
<1>16. \A side \in Sides : Story(k2[side].phase, t[side])
  BY <1>1, <1>3, <1>5, <1>6, <1>8 DEF Good, Story, Early
<1>17. \A side \in Sides : FramesOf(k2[side].unsent, s[side].frames, w2[Other(side)])
  BY <1>1, <1>10 DEF FramesOf
<1>18. \A side \in Sides : EventsOf(k2[side].phase, k2[Other(side)].phase, k2[Other(side)].exhausted,
                                    o2, w2[side], t[side], s[Other(side)].events)
  <2> SUFFICES ASSUME NEW side \in Sides
               PROVE  EventsOf(k2[side].phase, k2[Other(side)].phase, k2[Other(side)].exhausted,
                                    o2, w2[side], t[side], s[Other(side)].events)
    OBVIOUS
  <2>1. t[side] = <<>> /\ s[Other(side)].events = 0 /\ \A i \in DOMAIN w2[side] : w2[side][i].kind # "event"
    BY <1>1, <1>8, <1>9, <1>10
  <2>2. \A i \in DOMAIN <<>> : FALSE
    OBVIOUS
  <2> QED BY <2>1, <2>2 DEF EventsOf, Numbered, NoneMissing
<1> QED BY <1>11, <1>12, <1>13, <1>14, <1>15, <1>16, <1>17, <1>18 DEF Good

-----------------------------------------------------------------------------
(* The state of a connection, now and after the step.                      *)
SoundAt(c) == Sound(conn[c], way[c], open[c], told[c], sent[c])
GoodAt(c) == Good(conn[c], way[c], open[c], told[c], sent[c])
StepAt(c) == Steps(conn[c], way[c], open[c], told[c], sent[c], conn'[c], way'[c], open'[c], told'[c], sent'[c])

Framed ==
    /\ conn = [c \in Connections |-> conn[c]] /\ way = [c \in Connections |-> way[c]]
    /\ open = [c \in Connections |-> open[c]] /\ told = [c \in Connections |-> told[c]]
    /\ sent = [c \in Connections |-> sent[c]]
    /\ epochs \in Nat /\ pumping \in [Parties -> BOOLEAN]

SessionInv == Framed /\ \A c \in Connections : SoundAt(c) /\ GoodAt(c)

(* Whatever a step does to a connection keeps what is true of it.          *)
LEMMA StepSound ==
  ASSUME NEW c \in Connections, SoundAt(c), GoodAt(c), StepAt(c)
  PROVE  SoundAt(c)' /\ GoodAt(c)'
<1>1. /\ Sound(conn[c], way[c], open[c], told[c], sent[c])
      /\ Good(conn[c], way[c], open[c], told[c], sent[c])
  BY DEF SoundAt, GoodAt
<1>2. CASE conn'[c] = conn[c] /\ way'[c] = way[c] /\ open'[c] = open[c] /\ told'[c] = told[c] /\ sent'[c] = sent[c]
  BY <1>1, <1>2 DEF SoundAt, GoodAt
<1>3. CASE Turns(conn[c], way[c], open[c], told[c], sent[c], conn'[c], way'[c], open'[c], told'[c], sent'[c])
  <2>1. Sound(conn'[c], way'[c], open'[c], told'[c], sent'[c]) /\ Good(conn'[c], way'[c], open'[c], told'[c], sent'[c])
    BY <1>1, <1>3, TurnSound
  <2> QED BY <2>1 DEF SoundAt, GoodAt
<1>4. CASE Failing(way[c], open[c], way'[c], open'[c]) /\ conn'[c] = conn[c] /\ told'[c] = told[c] /\ sent'[c] = sent[c]
  <2>1. Sound(conn[c], way'[c], open'[c], told[c], sent[c]) /\ Good(conn[c], way'[c], open'[c], told[c], sent[c])
    BY <1>1, <1>4, FailSound
  <2> QED BY <1>4, <2>1 DEF SoundAt, GoodAt
<1>5. CASE Begins(conn[c], way[c], conn'[c], way'[c], open'[c]) /\ told'[c] = told[c] /\ sent'[c] = sent[c]
  <2>1. Sound(conn'[c], way'[c], open'[c], told[c], sent[c]) /\ Good(conn'[c], way'[c], open'[c], told[c], sent[c])
    BY <1>1, <1>5, BeginSound
  <2> QED BY <1>5, <2>1 DEF SoundAt, GoodAt
<1> QED BY <1>2, <1>3, <1>4, <1>5 DEF StepAt, Steps

(* A step on one connection.                                               *)
LEMMA Alone ==
  ASSUME SessionInv, NEW c \in Connections, NEW k2, NEW w2, NEW o2, NEW t2, NEW s2,
         conn' = [conn EXCEPT ![c] = k2], way' = [way EXCEPT ![c] = w2], open' = [open EXCEPT ![c] = o2],
         told' = [told EXCEPT ![c] = t2], sent' = [sent EXCEPT ![c] = s2],
         epochs' \in Nat, pumping' \in [Parties -> BOOLEAN],
         Steps(conn[c], way[c], open[c], told[c], sent[c], k2, w2, o2, t2, s2)
  PROVE  SessionInv'
<1>1. Framed
  BY DEF SessionInv
<1>2. Framed'
  BY <1>1 DEF Framed
<1>3. conn'[c] = k2 /\ way'[c] = w2 /\ open'[c] = o2 /\ told'[c] = t2 /\ sent'[c] = s2
  BY <1>1 DEF Framed
<1>4. StepAt(c)
  BY <1>3 DEF StepAt
<1>5. ASSUME NEW d \in Connections PROVE SoundAt(d)' /\ GoodAt(d)'
  <2>1. CASE d = c
    BY <1>4, <2>1, StepSound DEF SessionInv
  <2>2. CASE d # c
    <3>1. conn'[d] = conn[d] /\ way'[d] = way[d] /\ open'[d] = open[d] /\ told'[d] = told[d] /\ sent'[d] = sent[d]
      BY <1>1, <2>2 DEF Framed
    <3>2. SoundAt(d) /\ GoodAt(d)
      BY DEF SessionInv
    <3> QED BY <3>1, <3>2 DEF SoundAt, GoodAt
  <2> QED BY <2>1, <2>2
<1> QED BY <1>2, <1>5 DEF SessionInv

(* What one side does to what is kept, told and sent, and to what is on    *)
(* its way.                                                                *)
Alters(c, side, keeps, news, done) ==
    /\ conn' = [conn EXCEPT ![c][side] = keeps]
    /\ told' = [told EXCEPT ![c][side] = @ \o news] \/ (news = <<>> /\ told' = told)
    /\ sent' = [sent EXCEPT ![c][side] = done] \/ (done = sent[c][side] /\ sent' = sent)
Moved(c, side, cut, back, added, still) ==
    /\ way' = [way EXCEPT ![c] = [way[c] EXCEPT ![side] = cut \o back, ![Other(side)] = @ \o added]]
    /\ open' = [open EXCEPT ![c] = still]
Turn(c, side, keeps, w2, o2, news, done) ==
    Turns(conn[c], way[c], open[c], told[c], sent[c], [conn[c] EXCEPT ![side] = keeps], w2, o2,
          [told[c] EXCEPT ![side] = @ \o news], [sent[c] EXCEPT ![side] = done])

(* One side's turn on one connection, all others left alone.               *)
LEMMA TurnAlone ==
  ASSUME SessionInv, NEW c \in Connections, NEW side \in Sides, NEW keeps, NEW news, NEW done, NEW w2, NEW o2,
         Turn(c, side, keeps, w2, o2, news, done), Alters(c, side, keeps, news, done),
         way' = [way EXCEPT ![c] = w2], open' = [open EXCEPT ![c] = o2],
         epochs' \in Nat, pumping' \in [Parties -> BOOLEAN]
  PROVE  SessionInv'
<1> DEFINE k2 == [conn[c] EXCEPT ![side] = keeps]
           t2 == [told[c] EXCEPT ![side] = @ \o news]
           s2 == [sent[c] EXCEPT ![side] = done]
<1>1. Turns(conn[c], way[c], open[c], told[c], sent[c], k2, w2, o2, t2, s2)
  BY DEF Turn
<1>2. /\ told[c] \in [Sides -> Seq(Heard)] /\ sent[c] \in [Sides -> Counts] /\ Framed
  BY DEF SessionInv, SoundAt, Sound
<1>3. told' = [told EXCEPT ![c] = t2]
  <2>1. CASE told' = [told EXCEPT ![c][side] = @ \o news]
    BY <2>1
  <2>2. CASE news = <<>> /\ told' = told
    <3>1. told[c][side] \in Seq(Heard)
      BY <1>2
    <3>2. told[c][side] \o news = told[c][side]
      BY <2>2, <3>1, ConcatEmptySeq
    <3>3. t2 = told[c]
      BY <1>2, <3>2
    <3> HIDE DEF t2
    <3> QED BY <1>2, <2>2, <3>3 DEF Framed
  <2> QED BY <2>1, <2>2 DEF Alters
<1>4. sent' = [sent EXCEPT ![c] = s2]
  BY <1>2 DEF Alters, Framed
<1>5. conn' = [conn EXCEPT ![c] = k2]
  BY DEF Alters
<1> HIDE DEF k2, t2, s2
<1>6. Steps(conn[c], way[c], open[c], told[c], sent[c], k2, w2, o2, t2, s2)
  BY <1>1 DEF Steps
<1> QED BY <1>3, <1>4, <1>5, <1>6, Alone

(* The same, said of the turn itself.                                      *)
LEMMA Acts ==
  ASSUME SessionInv, NEW c \in Connections, NEW side \in Sides, NEW keeps, NEW news, NEW done,
         NEW cut, NEW back, NEW added, NEW still,
         Lawful(side, conn[c][side], keeps, way[c][side], open[c], sent[c][side], news, done, cut, back, added, still),
         Alters(c, side, keeps, news, done), Moved(c, side, cut, back, added, still),
         epochs' \in Nat, pumping' \in [Parties -> BOOLEAN]
  PROVE  SessionInv'
<1> DEFINE w2 == [way[c] EXCEPT ![side] = cut \o back, ![Other(side)] = @ \o added]
<1>1. Turn(c, side, keeps, w2, still, news, done)
  BY DEF Turn, Turns
<1>2. way' = [way EXCEPT ![c] = w2] /\ open' = [open EXCEPT ![c] = still]
  BY DEF Moved
<1> HIDE DEF w2
<1> QED BY <1>1, <1>2, TurnAlone

-----------------------------------------------------------------------------
(* What a side sends: all of it, or what there was room for.               *)
Carried(c, side, items, back, added) ==
    /\ back \in Seq(Parcel) /\ added \in Seq(Parcel) /\ Spent(back)
    /\ ~open[c] => back = <<>> /\ added = <<>>
    /\ open[c] /\ ~Broken(c, side, items) => back = <<>> /\ added = items
    /\ \A i \in DOMAIN added :
          \/ i \in DOMAIN items /\ added[i] = items[i] /\ (Broken(c, side, items) => i < Len(items))
          \/ added[i].kind = "QueueExhausted"

(* A provider that ends a connection for want of room says so.             *)
LEMMA Spending ==
  /\ Exhausted \in Parcel /\ Exhausted.kind = "QueueExhausted" /\ <<Exhausted>> \in Seq(Parcel)
  /\ Len(<<Exhausted>>) = 1 /\ Spent(<<Exhausted>>) /\ Spent(<<>>)
<1>1. "QueueExhausted" \in Kinds \ {"accept", "datagram", "event"}
  BY DEF Kinds, Ends
<1> DEFINE x == Item("QueueExhausted", <<>>)
<1>2. /\ x \in Parcel /\ x.kind = "QueueExhausted" /\ <<x>> \in Seq(Parcel) /\ Len(<<x>>) = 1
      /\ <<x>>[1].kind = "QueueExhausted" /\ \A i \in DOMAIN <<x>> : i = 1
  BY <1>1, Plain
<1> HIDE DEF x
<1>3. Spent(<<x>>) /\ Spent(<<>>)
  BY <1>2 DEF Spent
<1> QED BY <1>2, <1>3 DEF x, Exhausted

Sending(c, side, items, left) ==
    \E back, added :
        /\ Carried(c, side, items, back, added)
        /\ WayWith(c, side, items, left) = [way[c] EXCEPT ![side] = left \o back, ![Other(side)] = @ \o added]

(* What is on its way after some was sent is what was left of it, and so   *)
(* much of what was sent as there was room for.                            *)
LEMMA WayWithOf ==
  ASSUME SessionInv, NEW c \in Connections, NEW side \in Sides, NEW items \in Seq(Parcel), NEW left \in Seq(Parcel)
  PROVE  Sending(c, side, items, left)
<1> DEFINE to == Other(side)
<1>1. to \in Sides /\ to # side /\ way[c] \in [Sides -> Seq(Parcel)] /\ Held \in Nat /\ open[c] \in BOOLEAN
  BY Settings DEF Other, Sides, SessionInv, SoundAt, Sound
<1>2. Len(way[c][to]) \in Nat /\ Len(items) \in Nat /\ DOMAIN items = 1..Len(items)
  BY <1>1, LenProperties
<1>3. way[c][to] \o <<>> = way[c][to] /\ left \o <<>> = left /\ <<>> \in Seq(Parcel) /\ Spent(<<>>)
  BY <1>1, ConcatEmptySeq, EmptySeq, Spending
<1>4. CASE ~open[c]
  <2>1. ~Broken(c, side, items)
    BY <1>4 DEF Broken
  <2>2. WayWith(c, side, items, left) = [way[c] EXCEPT ![side] = left \o <<>>, ![to] = @ \o <<>>]
    BY <1>1, <1>3, <1>4, <2>1 DEF WayWith
  <2>3. Carried(c, side, items, <<>>, <<>>)
    BY <1>3, <1>4 DEF Carried
  <2> QED BY <2>2, <2>3 DEF Sending
<1>5. CASE open[c] /\ ~Broken(c, side, items)
  <2>1. WayWith(c, side, items, left) = [way[c] EXCEPT ![side] = left \o <<>>, ![to] = @ \o items]
    BY <1>1, <1>3, <1>5 DEF WayWith
  <2>2. Carried(c, side, items, <<>>, items)
    BY <1>3, <1>5 DEF Carried
  <2> QED BY <2>1, <2>2 DEF Sending
<1>6. CASE open[c] /\ Broken(c, side, items)
  <2> DEFINE n == Held - Len(way[c][to]) some == SubSeq(items, 1, n) added == some \o <<Exhausted>>
  <2>1. n \in Int /\ n < Len(items)
    <3>1. ~(Len(way[c][to]) + Len(items) <= Held)
      BY <1>6 DEF Broken, Fits
    <3> QED BY <1>1, <1>2, <3>1
  <2> HIDE DEF n
  <2>2. /\ some \in Seq(Parcel) /\ Len(some) = (IF 1 <= n THEN n - 1 + 1 ELSE 0)
        /\ \A i \in 1..(n - 1 + 1) : some[i] = items[1 + i - 1]
    <3>1. \A i \in 1..n : items[i] \in Parcel
      BY <1>2, <2>1, ElementOfSeq
    <3> QED BY <2>1, <3>1, SubSeqProperties
  <2> HIDE DEF some
  <2>3. \A i \in 1..Len(some) : i \in DOMAIN items /\ some[i] = items[i] /\ i < Len(items)
    <3> SUFFICES ASSUME NEW i \in 1..Len(some) PROVE i \in DOMAIN items /\ some[i] = items[i] /\ i < Len(items)
      OBVIOUS
    <3>1. i \in 1..(n - 1 + 1) /\ i \in 1..Len(items) /\ i < Len(items) /\ 1 + i - 1 = i
      BY <1>2, <2>1, <2>2
    <3> QED BY <1>2, <2>2, <3>1
  <2>4. Exhausted.kind = "QueueExhausted" /\ <<Exhausted>> \in Seq(Parcel) /\ Spent(<<Exhausted>>)
        /\ \A i \in DOMAIN <<Exhausted>> : <<Exhausted>>[i] = Exhausted
    BY Spending
  <2>5. added \in Seq(Parcel)
    BY <2>2, <2>4, ConcatProperties
  <2>6. \A i \in DOMAIN added : (i \in 1..Len(some) /\ added[i] = some[i]) \/ added[i].kind = "QueueExhausted"
    <3> DEFINE e == <<Exhausted>> m == Len(some)
    <3> HIDE DEF e
    <3>1. some \in Seq(Parcel) /\ e \in Seq(Parcel) /\ added = some \o e /\ \A i \in DOMAIN e : e[i].kind = "QueueExhausted"
      BY <2>2, <2>4 DEF e
    <3> HIDE DEF added
    <3>2. /\ DOMAIN e = 1..Len(e) /\ DOMAIN added = 1..(m + Len(e)) /\ m \in Nat /\ Len(e) \in Nat
          /\ \A i \in 1..m : added[i] = some[i]
          /\ \A i \in 1..(m + Len(e)) : i > m => i - m \in 1..Len(e) /\ added[i] = e[i - m]
      BY <3>1, Together
    <3> HIDE DEF m
    <3>3. \A i \in 1..(m + Len(e)) : i \in 1..m \/ i > m
      BY <3>2
    <3> QED BY <3>1, <3>2, <3>3 DEF m
  <2>7. \A i \in DOMAIN added :
          \/ i \in DOMAIN items /\ added[i] = items[i] /\ i < Len(items)
          \/ added[i].kind = "QueueExhausted"
    BY <2>3, <2>6
  <2>8. Carried(c, side, items, <<Exhausted>>, added)
    <3> HIDE DEF added
    <3> QED BY <1>6, <2>4, <2>5, <2>7 DEF Carried
  <2>9. Append(left, Exhausted) = left \o <<Exhausted>>
    BY Spending, AppendIsConcat
  <2>10. WayWith(c, side, items, left) = [way[c] EXCEPT ![side] = left \o <<Exhausted>>, ![to] = @ \o added]
    BY <1>1, <1>6, <2>9 DEF WayWith, some, n
  <2> QED BY <2>8, <2>10 DEF Sending
<1> QED BY <1>1, <1>4, <1>5, <1>6

(* What is known of a side.                                                *)
LEMMA Known ==
  ASSUME SessionInv, NEW c \in Connections, NEW side \in Sides
  PROVE  /\ conn[c][side] \in Keeping /\ way[c][side] \in Seq(Parcel) /\ open[c] \in BOOLEAN
         /\ told[c][side] \in Seq(Heard) /\ sent[c][side] \in Counts /\ Other(side) \in Sides
         /\ conn[c] \in [Sides -> Keeping] /\ way[c] \in [Sides -> Seq(Parcel)]
         /\ Framed
  BY DEF SessionInv, SoundAt, Sound, Other, Sides

(* A side that hears nothing.                                              *)
LEMMA QuietTakes ==
  ASSUME NEW side, NEW was, NEW keeps, NEW going, NEW news, was.phase = "none" => keeps.phase = "none",
         Silent(news), ~Tells(news, "Closed"),
         side = "client" /\ keeps.phase = "active" => was.phase = "active" /\ keeps.epoch = was.epoch
  PROVE  Takes(side, was, keeps, going, news, going)
  BY DEF Takes

(* One that forgets the connection.                                        *)
LEMMA EmptyTakes ==
  ASSUME NEW side, NEW was, NEW keeps, NEW going, NEW news, was.phase # "none", keeps.phase = "gone",
         Silent(news), Tells(news, "Closed") => Tells(going, "Closed")
  PROVE  Takes(side, was, keeps, going, news, <<>>)
  BY DEF Takes

(* What items may promise something of.                                    *)
Bare == {"accepted", "accept", "datagram", "Closed", "event"}

(* A side that sends nothing that matters.                                 *)
LEMMA PlainGives ==
  ASSUME NEW side, NEW was, NEW keeps, NEW news, NEW had \in Counts, NEW done, NEW added,
         done.frames = had.frames, done.events = had.events, keeps.unsent \in {<<>>, was.unsent},
         was.phase = "gone" => keeps.late = was.late, \A i \in DOMAIN added : added[i].kind \notin Bare
  PROVE  Gives(side, was, keeps, news, had, done, added)
  BY DEF Gives, Bare, Counts

(* Nothing, told and sent.                                                 *)
LEMMA Nothing ==
  /\ <<>> \in Seq(Heard) /\ <<>> \in Seq(Parcel) /\ <<>> \in Seq(Nat)
  /\ Silent(<<>>) /\ \A kind : ~Tells(<<>>, kind)
  /\ Spent(<<>>)
<1>1. <<>> \in Seq(Heard) /\ <<>> \in Seq(Parcel) /\ <<>> \in Seq(Nat)
  BY EmptySeq
<1>2. \A i \in DOMAIN <<>> : FALSE
  OBVIOUS
<1> QED BY <1>1, <1>2 DEF Silent, Tells, Spent

(* What is let go of, or held.                                             *)
LEMMA Ended ==
  ASSUME NEW was \in Keeping
  PROVE  /\ Over(was) \in Keeping /\ Over(was).phase = "gone" /\ Over(was).unsent = <<>> /\ Over(was).late = was.late
         /\ Hold(was) \in Keeping /\ Hold(was).phase = "held" /\ Hold(was).unsent = <<>>
  BY Nothing DEF Over, Hold, Unknown, Keeping, Phases, Live

(* What was gathered.                                                      *)
LEMMA GatheredOf ==
  ASSUME SessionInv, NEW c \in Connections, NEW side \in Sides
  PROVE  /\ Gathered(c, side) \in Seq(Parcel) /\ Len(Gathered(c, side)) \in {0, 1}
         /\ \A i \in DOMAIN Gathered(c, side) : Gathered(c, side)[i].kind = "frames"
<1>1. conn[c][side].unsent \in Seq(Nat)
  BY Known DEF Keeping
<1> DEFINE x == Item("frames", conn[c][side].unsent)
<1>2. x \in Parcel /\ x.kind = "frames"
  BY <1>1 DEF Item, Parcel, Carries, Kinds
<1> HIDE DEF x
<1>3. /\ <<x>> \in Seq(Parcel) /\ Len(<<x>>) = 1 /\ \A i \in DOMAIN <<x>> : <<x>>[i] = x
      /\ <<>> \in Seq(Parcel) /\ Len(<<>>) = 0 /\ \A i \in DOMAIN <<>> : FALSE
  BY <1>2, EmptySeq
<1>4. Gathered(c, side) = <<>> \/ Gathered(c, side) = <<x>>
  BY DEF Gathered, x
<1> HIDE DEF Gathered
<1>5. CASE Gathered(c, side) = <<>>
  BY <1>3, <1>5
<1>6. CASE Gathered(c, side) = <<x>>
  BY <1>2, <1>3, <1>6
<1> QED BY <1>4, <1>5, <1>6

-----------------------------------------------------------------------------
(* Its deadline passes.                                                    *)
LEMMA TimeKeeps ==
  ASSUME SessionInv, NEW c \in Connections, NEW side \in Sides, Time(c, side)
  PROVE  SessionInv'
<1> DEFINE was == conn[c][side] keeps == [was EXCEPT !.late = TRUE] going == way[c][side] had == sent[c][side]
<1>1. was \in Keeping /\ going \in Seq(Parcel) /\ open[c] \in BOOLEAN /\ had \in Counts /\ Other(side) \in Sides
      /\ way[c] \in [Sides -> Seq(Parcel)] /\ Framed
  BY Known
<1>2. was.phase \in (Live \ {"active"}) \cup {"held"}
  BY DEF Time
<1>3. keeps \in Keeping /\ keeps.phase = was.phase /\ keeps.unsent = was.unsent /\ keeps.exhausted = was.exhausted
      /\ keeps.epoch = was.epoch
  BY <1>1 DEF Keeping
<1> DEFINE quiet == <<>>
<1>4. quiet \in Seq(Heard) /\ quiet \in Seq(Parcel) /\ Silent(quiet) /\ (\A kind : ~Tells(quiet, kind)) /\ Spent(quiet)
      /\ quiet = <<>> /\ \A i \in DOMAIN quiet : FALSE
  BY Nothing
<1>5. Alters(c, side, keeps, quiet, had)
  BY DEF Time, Alters
<1>6. Moved(c, side, going, quiet, quiet, open[c])
  <2>1. going \o quiet = going /\ way[c][Other(side)] \o quiet = way[c][Other(side)]
    BY <1>1, ConcatEmptySeq
  <2>2. [way[c] EXCEPT ![side] = going \o quiet, ![Other(side)] = @ \o quiet] = way[c]
    BY <1>1, <2>1
  <2> QED BY <1>1, <2>2 DEF Moved, Time, Framed
<1> HIDE DEF was, keeps, going, had, quiet
<1>7. Phased(was.phase, keeps.phase, quiet)
  BY <1>3, <1>4 DEF Phased
<1>8. Takes(side, was, keeps, going, quiet, going)
  BY <1>3, <1>4, QuietTakes
<1>9. Gives(side, was, keeps, quiet, had, had, quiet)
  BY <1>1, <1>2, <1>3, <1>4, PlainGives DEF Live
<1>10. Shuts(was, keeps, open[c], had, had, quiet, quiet, open[c])
  BY <1>1, <1>3, <1>4 DEF Shuts
<1>11. Lawful(side, was, keeps, going, open[c], had, quiet, had, going, quiet, quiet, open[c])
  BY <1>1, <1>3, <1>4, <1>7, <1>8, <1>9, <1>10 DEF Lawful
<1>12. epochs' \in Nat /\ pumping' \in [Parties -> BOOLEAN]
  BY <1>1 DEF Time, Framed
<1> QED BY <1>5, <1>6, <1>11, <1>12, Acts DEF was, going, had

(* A turn that hands these items over.                                     *)
LEMMA PutTurn ==
  ASSUME SessionInv, NEW c \in Connections, NEW side \in Sides, NEW keeps \in Keeping, NEW news \in Seq(Heard),
         NEW done \in Counts, NEW cut \in Seq(Parcel), NEW items \in Seq(Parcel),
         Phased(conn[c][side].phase, keeps.phase, news),
         Takes(side, conn[c][side], keeps, way[c][side], news, cut),
         Gives(side, conn[c][side], keeps, news, sent[c][side], done, items),
         open[c] /\ ~Broken(c, side, items) /\ keeps.phase \notin Done /\ ~keeps.exhausted =>
            ~conn[c][side].exhausted /\ (done.events = sent[c][side].events \/ Tells(items, "event"))
  PROVE  Turn(c, side, keeps, WayWith(c, side, items, cut), open[c] /\ ~Broken(c, side, items), news, done)
<1> DEFINE was == conn[c][side] going == way[c][side] had == sent[c][side]
           still == open[c] /\ ~Broken(c, side, items)
<1>1. open[c] \in BOOLEAN
  BY Known
<1> PICK back, added :
       /\ Carried(c, side, items, back, added)
       /\ WayWith(c, side, items, cut) = [way[c] EXCEPT ![side] = cut \o back, ![Other(side)] = @ \o added]
  <2>1. Sending(c, side, items, cut)
    BY WayWithOf
  <2> QED BY <2>1 DEF Sending
<1>2. /\ back \in Seq(Parcel) /\ added \in Seq(Parcel) /\ Spent(back)
      /\ ~open[c] => back = <<>> /\ added = <<>>
      /\ still => back = <<>> /\ added = items
      /\ \A i \in DOMAIN added : \/ i \in DOMAIN items /\ added[i] = items[i]
                                 \/ added[i].kind = "QueueExhausted"
  BY DEF Carried
<1>3. Gives(side, was, keeps, news, had, done, added)
  <2>1. ASSUME NEW i \in DOMAIN added
        PROVE  /\ added[i].kind # "accepted"
               /\ added[i].kind = "accept" => side = "server" /\ AdmittedWith(news, added[i].numbers[1])
               /\ added[i].kind = "datagram" => keeps.unsent = <<>> /\ added[i].numbers[1] = done.frames
               /\ added[i].kind = "Closed" =>
                     /\ was.phase # "gone" /\ keeps.phase = "gone" /\ (side = "server" => ~Tells(news, "Rejected"))
                     /\ was.phase = "held" => keeps.late
               /\ added[i].kind = "event" =>
                     /\ done.events = had.events + 1 /\ added[i].numbers[2] = done.events /\ ~was.exhausted
                     /\ \A j \in DOMAIN added : added[j].kind = "event" => j = i
    <3>1. CASE added[i].kind = "QueueExhausted"
      BY <3>1
    <3>2. CASE i \in DOMAIN items /\ added[i] = items[i]
      BY <1>2, <3>2 DEF Gives
    <3> QED BY <1>2, <3>1, <3>2
  <2> QED BY <2>1 DEF Gives
<1>4. Shuts(was, keeps, open[c], had, done, back, added, still)
  BY <1>2 DEF Shuts
<1>5. Lawful(side, was, keeps, going, open[c], had, news, done, cut, back, added, still)
  BY <1>1, <1>2, <1>3, <1>4 DEF Lawful
<1> QED BY <1>5 DEF Turn, Turns

(* One that forgets the connection; its peer hears why.                    *)
LEMMA EndTurn ==
  ASSUME SessionInv, NEW c \in Connections, NEW side \in Sides, NEW why \in {"Closed", "PeerGone"},
         NEW news \in Seq(Heard), conn[c][side].phase # "gone",
         Phased(conn[c][side].phase, "gone", news),
         Takes(side, conn[c][side], Over(conn[c][side]), way[c][side], news, <<>>),
         why = "Closed" => /\ side = "server" => ~Tells(news, "Rejected")
                           /\ conn[c][side].phase = "held" => conn[c][side].late
  PROVE  Turn(c, side, Over(conn[c][side]), WayEnded(c, side, why), FALSE, news, sent[c][side])
<1> DEFINE was == conn[c][side] keeps == Over(was) going == way[c][side] had == sent[c][side]
           items == <<Item(why, <<>>)>> added == IF open[c] THEN items ELSE <<>>
<1>1. /\ was \in Keeping /\ going \in Seq(Parcel) /\ open[c] \in BOOLEAN /\ had \in Counts /\ Other(side) \in Sides
      /\ way[c] \in [Sides -> Seq(Parcel)] /\ way[c][Other(side)] \in Seq(Parcel)
  BY Known
<1>2. keeps \in Keeping /\ keeps.phase = "gone" /\ keeps.unsent = <<>> /\ keeps.late = was.late
  BY <1>1, Ended
<1>3. /\ items \in Seq(Parcel) /\ \A i \in DOMAIN items : items[i].kind = why
      /\ items = <<Item(why, <<>>)>>
  <2>1. why \in Kinds \ {"accept", "datagram", "event"}
    BY DEF Kinds, Ends
  <2> QED BY <2>1, Plain
<1> DEFINE empty == <<>>
<1>4. empty \in Seq(Parcel) /\ Spent(empty) /\ (\A i \in DOMAIN empty : FALSE) /\ empty = <<>>
  BY Nothing
<1>5. Append(way[c][Other(side)], Item(why, <<>>)) = way[c][Other(side)] \o items
  <2>1. Item(why, <<>>) \in Parcel
    BY Plain DEF Kinds, Ends
  <2> QED BY <1>1, <2>1, AppendIsConcat
<1>6. WayEnded(c, side, why) = [way[c] EXCEPT ![side] = empty \o empty, ![Other(side)] = @ \o added]
  <2>1. empty \o empty = <<>> /\ way[c][Other(side)] \o empty = way[c][Other(side)]
    BY <1>1, <1>4, ConcatEmptySeq
  <2> HIDE DEF items, empty
  <2>2. Other(side) # side
    BY DEF Other, Sides
  <2>3. CASE open[c]
    BY <1>1, <1>5, <2>1, <2>2, <2>3 DEF WayEnded
  <2>4. CASE ~open[c]
    BY <1>1, <1>4, <2>1, <2>2, <2>4 DEF WayEnded
  <2> QED BY <2>3, <2>4
<1>7. added \in Seq(Parcel) /\ (\A i \in DOMAIN added : added[i].kind = why) /\ (~open[c] => added = empty)
  <2> HIDE DEF items, empty
  <2> QED BY <1>3, <1>4
<1> HIDE DEF was, keeps, going, had, items, added, empty
<1>8. Gives(side, was, keeps, news, had, had, added)
  BY <1>1, <1>2, <1>7 DEF Gives, Counts, was
<1>9. Shuts(was, keeps, open[c], had, had, empty, added, FALSE)
  BY <1>4, <1>7 DEF Shuts
<1>10. Lawful(side, was, keeps, going, open[c], had, news, had, empty, empty, added, FALSE)
  BY <1>1, <1>2, <1>4, <1>7, <1>8, <1>9 DEF Lawful, was, keeps, going
<1> QED BY <1>6, <1>10 DEF Turn, Turns, was, keeps, going, had

(* One that forgets it, unable to send this.                               *)
LEMMA UnsentTurn ==
  ASSUME SessionInv, NEW c \in Connections, NEW side \in Sides, NEW items \in Seq(Parcel), Len(items) = 1,
         NEW news \in Seq(Heard), conn[c][side].phase # "gone", open[c] => Broken(c, side, items),
         Phased(conn[c][side].phase, "gone", news),
         Takes(side, conn[c][side], Over(conn[c][side]), way[c][side], news, <<>>)
  PROVE  Turn(c, side, Over(conn[c][side]), [WayWith(c, side, items, <<>>) EXCEPT ![side] = <<>>], FALSE,
              news, sent[c][side])
<1> DEFINE was == conn[c][side] keeps == Over(was) going == way[c][side] had == sent[c][side] empty == <<>>
<1>1. /\ was \in Keeping /\ going \in Seq(Parcel) /\ open[c] \in BOOLEAN /\ had \in Counts /\ Other(side) \in Sides
      /\ way[c] \in [Sides -> Seq(Parcel)] /\ Other(side) # side
  BY Known DEF Other, Sides
<1>2. keeps \in Keeping /\ keeps.phase = "gone" /\ keeps.unsent = <<>> /\ keeps.late = was.late
  BY <1>1, Ended
<1>3. empty \in Seq(Parcel) /\ Spent(empty) /\ empty = <<>> /\ empty \o empty = empty
  BY Nothing, ConcatEmptySeq
<1> PICK back, added :
       /\ Carried(c, side, items, back, added)
       /\ WayWith(c, side, items, empty) = [way[c] EXCEPT ![side] = empty \o back, ![Other(side)] = @ \o added]
  <2>1. Sending(c, side, items, empty)
    BY <1>3, WayWithOf
  <2> QED BY <2>1 DEF Sending
<1>4. /\ added \in Seq(Parcel) /\ (~open[c] => added = empty)
      /\ \A i \in DOMAIN added : added[i].kind = "QueueExhausted"
  <2>1. DOMAIN items = 1..1
    BY LenProperties
  <2>2. ASSUME NEW i \in DOMAIN added PROVE added[i].kind = "QueueExhausted"
    <3>1. CASE open[c]
      <4>1. \/ i \in DOMAIN items /\ i < Len(items)
            \/ added[i].kind = "QueueExhausted"
        BY <3>1 DEF Carried
      <4> QED BY <2>1, <4>1
    <3>2. CASE ~open[c]
      <4>1. added = empty /\ \A j \in DOMAIN empty : FALSE
        BY <3>2 DEF Carried
      <4> QED BY <4>1
    <3> QED BY <3>1, <3>2
  <2> QED BY <2>2 DEF Carried
<1> HIDE DEF empty
<1> DEFINE w2 == [WayWith(c, side, items, <<>>) EXCEPT ![side] = <<>>]
<1>5. w2 = [way[c] EXCEPT ![side] = empty \o empty, ![Other(side)] = @ \o added]
  BY <1>1, <1>3
<1> HIDE DEF was, keeps, going, had
<1>6. Gives(side, was, keeps, news, had, had, added)
  <2>1. \A i \in DOMAIN added : added[i].kind \notin Bare
    BY <1>4 DEF Bare
  <2> QED BY <1>1, <1>2, <2>1, PlainGives
<1>7. Shuts(was, keeps, open[c], had, had, empty, added, FALSE)
  BY <1>3, <1>4 DEF Shuts
<1>8. Lawful(side, was, keeps, going, open[c], had, news, had, empty, empty, added, FALSE)
  BY <1>1, <1>2, <1>3, <1>4, <1>6, <1>7 DEF Lawful, was, keeps, going
<1> HIDE DEF w2
<1>9. Turn(c, side, keeps, w2, FALSE, news, had)
  BY <1>5, <1>8 DEF Turn, Turns, was, keeps, going, had
<1> QED BY <1>9 DEF w2, keeps, was, had

(* A side that speaks is admitted, and counts it.                          *)
LEMMA Speaking ==
  ASSUME SessionInv, NEW c \in Connections, NEW side \in Sides, NEW what \in {"frames", "events", "datagrams"},
         Speaks(c, side, what)
  PROVE  /\ conn[c][side].phase = "active" /\ conn[c][side] \in Keeping
         /\ \E done \in Counts :
               /\ sent' = [sent EXCEPT ![c][side] = done]
               /\ done = [sent[c][side] EXCEPT ![what] = @ + 1]
<1> DEFINE had == sent[c][side] done == [had EXCEPT ![what] = @ + 1]
<1>1. had \in Counts /\ conn[c][side] \in Keeping
  BY Known
<1>2. done \in Counts
  <2> HIDE DEF had
  <2>1. had[what] + 1 \in Nat
    BY <1>1 DEF Counts
  <2> QED BY <1>1, <2>1 DEF Counts
<1>3. sent' = [sent EXCEPT ![c][side] = done]
  BY DEF Speaks
<1> QED BY <1>1, <1>2, <1>3 DEF Speaks

(* Where nothing but frames, or what follows them, is handed over.         *)
LEMMA SpeechKeeps ==
  ASSUME SessionInv, NEW c \in Connections, NEW side \in Sides, NEW keeps \in Keeping, NEW done \in Counts,
         NEW items \in Seq(Parcel),
         keeps.phase = conn[c][side].phase \/ (conn[c][side].phase \in Live /\ keeps.phase = "held"),
         keeps.epoch = conn[c][side].epoch \/ keeps.phase = "held",
         Gives(side, conn[c][side], keeps, <<>>, sent[c][side], done, items),
         open[c] /\ ~Broken(c, side, items) /\ keeps.phase \notin Done /\ ~keeps.exhausted =>
            ~conn[c][side].exhausted /\ (done.events = sent[c][side].events \/ Tells(items, "event"))
  PROVE  Turn(c, side, keeps, WayWith(c, side, items, way[c][side]), open[c] /\ ~Broken(c, side, items), <<>>, done)
<1> DEFINE empty == <<>>
<1>1. empty \in Seq(Heard) /\ Silent(empty) /\ (\A kind : ~Tells(empty, kind)) /\ empty = <<>>
  BY Nothing
<1>2. way[c][side] \in Seq(Parcel)
  BY Known
<1> HIDE DEF empty
<1>3. Phased(conn[c][side].phase, keeps.phase, empty)
  BY <1>1 DEF Phased, EndsTold
<1>4. Takes(side, conn[c][side], keeps, way[c][side], empty, way[c][side])
  <2>1. conn[c][side].phase = "none" => keeps.phase = "none"
    BY DEF Live
  <2>2. side = "client" /\ keeps.phase = "active" =>
          conn[c][side].phase = "active" /\ keeps.epoch = conn[c][side].epoch
    OBVIOUS
  <2> QED BY <1>1, <2>1, <2>2, QuietTakes
<1>5. Gives(side, conn[c][side], keeps, empty, sent[c][side], done, items)
  BY <1>1
<1>6. Turn(c, side, keeps, WayWith(c, side, items, way[c][side]), open[c] /\ ~Broken(c, side, items), empty, done)
  BY <1>1, <1>2, <1>3, <1>4, <1>5, PutTurn
<1> QED BY <1>1, <1>6

(* A turn that hands items over, all other connections left alone.         *)
LEMMA PutAlone ==
  ASSUME SessionInv, NEW c \in Connections, NEW side \in Sides, NEW keeps, NEW done, NEW items, NEW cut, NEW news,
         Turn(c, side, keeps, WayWith(c, side, items, cut), open[c] /\ ~Broken(c, side, items), news, done),
         Alters(c, side, keeps, news, done), Put(c, side, items, cut),
         epochs' \in Nat, pumping' \in [Parties -> BOOLEAN]
  PROVE  SessionInv'
<1> DEFINE w2 == WayWith(c, side, items, cut) o2 == open[c] /\ ~Broken(c, side, items)
<1>1. way' = [way EXCEPT ![c] = w2] /\ open' = [open EXCEPT ![c] = o2] /\ Turn(c, side, keeps, w2, o2, news, done)
  BY DEF Put
<1> HIDE DEF w2, o2
<1> QED BY <1>1, TurnAlone

(* A frame gathered, or handed over with those before it.                  *)
LEMMA FrameKeeps ==
  ASSUME SessionInv, NEW c \in Connections, NEW side \in Sides, SendFrame(c, side)
  PROVE  SessionInv'
<1> DEFINE was == conn[c][side] had == sent[c][side] unsent == Append(was.unsent, had.frames + 1)
           more == [was EXCEPT !.unsent = unsent] none == [was EXCEPT !.unsent = <<>>]
           all == <<Item("frames", unsent)>> empty == <<>>
<1>0. Speaks(c, side, "frames") /\ epochs' \in Nat /\ pumping' \in [Parties -> BOOLEAN] /\ told' = told
  BY Known DEF SendFrame, Framed
<1>1. was.phase = "active" /\ was \in Keeping /\ had \in Counts /\ way[c][side] \in Seq(Parcel) /\ open[c] \in BOOLEAN
  BY <1>0, Speaking, Known
<1> PICK done \in Counts : sent' = [sent EXCEPT ![c][side] = done] /\ done = [had EXCEPT !["frames"] = @ + 1]
  BY <1>0, Speaking
<1>2. done.frames = had.frames + 1 /\ done.events = had.events /\ had.frames \in Nat /\ had.events \in Nat
  BY <1>1 DEF Counts
<1>3. unsent \in Seq(Nat)
  BY <1>1, <1>2 DEF Keeping
<1>4. empty \in Seq(Parcel) /\ empty \in Seq(Nat) /\ (\A i \in DOMAIN empty : FALSE) /\ empty = <<>>
  BY Nothing
<1> HIDE DEF empty
<1>5. /\ more \in Keeping /\ more.phase = was.phase /\ more.epoch = was.epoch /\ more.exhausted = was.exhausted
      /\ more.unsent = unsent
      /\ none \in Keeping /\ none.phase = was.phase /\ none.epoch = was.epoch /\ none.exhausted = was.exhausted
      /\ none.unsent = empty
  <2> HIDE DEF unsent, was
  <2> QED BY <1>1, <1>3, <1>4 DEF Keeping
<1>6. all \in Seq(Parcel) /\ \A i \in DOMAIN all : all[i].kind = "frames"
  <2> DEFINE x == Item("frames", unsent)
  <2>1. x \in Parcel /\ x.kind = "frames"
    <3> HIDE DEF unsent
    <3> QED BY <1>3 DEF Item, Parcel, Carries, Kinds
  <2> HIDE DEF x
  <2>2. <<x>> \in Seq(Parcel) /\ \A i \in DOMAIN <<x>> : <<x>>[i] = x
    BY <2>1
  <2> QED BY <2>1, <2>2 DEF x
<1>7. CASE Len(unsent) < Piece
  <2>1. conn' = [conn EXCEPT ![c][side] = more] /\ way' = way /\ open' = open
    BY <1>7 DEF SendFrame
  <2>2. Alters(c, side, more, empty, done)
    BY <1>0, <1>4, <2>1 DEF Alters
  <2>3. Gives(side, was, more, empty, had, done, empty)
    <3>1. unsent = Append(was.unsent, done.frames)
      BY <1>2
    <3> HIDE DEF unsent, was, more, had
    <3> QED BY <1>1, <1>2, <1>4, <1>5, <3>1 DEF Gives
  <2>5. /\ way[c] \in [Sides -> Seq(Parcel)] /\ way[c][side] \o empty = way[c][side] /\ Other(side) \in Sides
        /\ way[c][Other(side)] \in Seq(Parcel) /\ way[c][Other(side)] \o empty = way[c][Other(side)] /\ Framed
    BY <1>4, Known, ConcatEmptySeq
  <2>6. Moved(c, side, way[c][side], empty, empty, open[c])
    <3>1. [way[c] EXCEPT ![side] = way[c][side] \o empty, ![Other(side)] = @ \o empty] = way[c]
      BY <2>5
    <3> QED BY <2>1, <2>5, <3>1 DEF Moved, Framed
  <2> HIDE DEF more, unsent, was, had
  <2>7. Phased(was.phase, more.phase, empty)
    BY <1>4, <1>5 DEF Phased
  <2>8. Takes(side, was, more, way[c][side], empty, way[c][side])
    BY <1>4, <1>5, Nothing, QuietTakes
  <2>9. Shuts(was, more, open[c], had, done, empty, empty, open[c])
    BY <1>1, <1>2, <1>4, <1>5 DEF Shuts, Spent
  <2>10. Lawful(side, was, more, way[c][side], open[c], had, empty, done, way[c][side], empty, empty, open[c])
    BY <1>1, <1>4, <1>5, <2>3, <2>7, <2>8, <2>9, Nothing DEF Lawful
  <2> QED BY <1>0, <2>2, <2>6, <2>10, Acts DEF was, had
<1>8. CASE ~(Len(unsent) < Piece)
  <2>1. conn' = [conn EXCEPT ![c][side] = none] /\ Put(c, side, all, way[c][side])
    BY <1>8 DEF SendFrame
  <2>2. Alters(c, side, none, <<>>, done)
    BY <1>0, <2>1 DEF Alters
  <2>3. Gives(side, was, none, <<>>, had, done, all)
    <3> HIDE DEF unsent, was, none, had, all
    <3> QED BY <1>1, <1>2, <1>4, <1>5, <1>6 DEF Gives
  <2> HIDE DEF none, all, unsent
  <2>4. Turn(c, side, none, WayWith(c, side, all, way[c][side]), open[c] /\ ~Broken(c, side, all), <<>>, done)
    BY <1>1, <1>2, <1>5, <1>6, <2>3, SpeechKeeps
  <2> QED BY <1>0, <2>1, <2>2, <2>4, PutAlone
<1> QED BY <1>7, <1>8

(* One more after what was gathered.                                       *)
LEMMA OneMoreItem ==
  ASSUME SessionInv, NEW c \in Connections, NEW side \in Sides, NEW x \in Parcel
  PROVE  /\ Append(Gathered(c, side), x) \in Seq(Parcel)
         /\ \A i \in DOMAIN Append(Gathered(c, side), x) :
               \/ Append(Gathered(c, side), x)[i].kind = "frames"
               \/ Append(Gathered(c, side), x)[i] = x /\ i = Len(Gathered(c, side)) + 1
         /\ Tells(Append(Gathered(c, side), x), x.kind)
<1> DEFINE g == Gathered(c, side) z == Append(g, x) n == Len(g)
<1>1. g \in Seq(Parcel) /\ \A i \in DOMAIN g : g[i].kind = "frames"
  BY GatheredOf
<1> HIDE DEF g
<1>2. /\ z \in Seq(Parcel) /\ Len(z) = n + 1 /\ \A i \in 1..n : z[i] = g[i]
      /\ z[n + 1] = x
  BY <1>1, AppendProperties
<1>3. DOMAIN z = 1..Len(z) /\ DOMAIN g = 1..n /\ n \in Nat
  BY <1>1, <1>2, LenProperties
<1> HIDE DEF z, n
<1>4. \A i \in DOMAIN z : i \in 1..n \/ i = n + 1
  BY <1>2, <1>3
<1>5. \A i \in DOMAIN z : z[i].kind = "frames" \/ (z[i] = x /\ i = n + 1)
  BY <1>1, <1>2, <1>3, <1>4
<1>6. Tells(z, x.kind)
  <2>1. n + 1 \in DOMAIN z
    BY <1>2, <1>3
  <2> QED BY <1>2, <2>1 DEF Tells
<1> QED BY <1>2, <1>5, <1>6 DEF z, n, g

(* A datagram sent, the frames gathered before it.                         *)
LEMMA DatagramKeeps ==
  ASSUME SessionInv, NEW c \in Connections, NEW side \in Sides, SendDatagram(c, side)
  PROVE  SessionInv'
<1> DEFINE was == conn[c][side] had == sent[c][side] none == [was EXCEPT !.unsent = <<>>]
           frames == Gathered(c, side) x == Item("datagram", <<had.frames>>)
<1>0. Speaks(c, side, "datagrams") /\ epochs' \in Nat /\ pumping' \in [Parties -> BOOLEAN] /\ told' = told
  BY Known DEF SendDatagram, Framed
<1>1. was.phase = "active" /\ was \in Keeping /\ had \in Counts /\ way[c][side] \in Seq(Parcel) /\ open[c] \in BOOLEAN
  BY <1>0, Speaking, Known
<1> PICK done \in Counts : sent' = [sent EXCEPT ![c][side] = done] /\ done = [had EXCEPT !["datagrams"] = @ + 1]
  BY <1>0, Speaking
<1>2. done.frames = had.frames /\ done.events = had.events /\ had.frames \in Nat /\ had.events \in Nat
  BY <1>1 DEF Counts
<1>3. /\ none \in Keeping /\ none.phase = was.phase /\ none.epoch = was.epoch /\ none.exhausted = was.exhausted
      /\ none.unsent = <<>>
  <2> HIDE DEF was
  <2> QED BY <1>1, Nothing DEF Keeping
<1>4. x \in Parcel /\ x.kind = "datagram" /\ x.numbers[1] = had.frames
  <2> DEFINE f == had.frames
  <2> HIDE DEF f
  <2>1. f \in Nat
    BY <1>2 DEF f
  <2>2. <<f>> \in Seq(Nat) /\ Len(<<f>>) = 1 /\ <<f>>[1] = f
    BY <2>1
  <2>3. Item("datagram", <<f>>) \in Parcel /\ Item("datagram", <<f>>).kind = "datagram"
        /\ Item("datagram", <<f>>).numbers = <<f>>
    <3> DEFINE l == <<f>>
    <3>1. l \in Seq(Nat) /\ Len(l) = 1
      BY <2>2
    <3> HIDE DEF l
    <3>2. Item("datagram", l) \in Parcel /\ Item("datagram", l).kind = "datagram" /\ Item("datagram", l).numbers = l
      BY <3>1 DEF Item, Parcel, Carries, Kinds
    <3> QED BY <3>2 DEF l
  <2> QED BY <2>2, <2>3 DEF f
<1> HIDE DEF x
<1>5. /\ frames \in Seq(Parcel) /\ \A i \in DOMAIN frames : frames[i].kind = "frames"
      /\ Append(frames, x) \in Seq(Parcel)
      /\ \A i \in DOMAIN Append(frames, x) : Append(frames, x)[i].kind = "frames" \/ Append(frames, x)[i] = x
  BY <1>4, GatheredOf, OneMoreItem
<1>6. PICK items : items \in {frames, Append(frames, x)} /\ Put(c, side, items, way[c][side])
  <2>1. \E lost \in BOOLEAN :
              IF ~lost /\ open[c] /\ Fits(c, Other(side), Len(frames) + 1)
              THEN Put(c, side, Append(frames, x), way[c][side])
              ELSE Put(c, side, frames, way[c][side])
    BY DEF SendDatagram, x
  <2> HIDE DEF frames
  <2> QED BY <2>1
<1>7. conn' = [conn EXCEPT ![c][side] = none]
  BY DEF SendDatagram
<1> HIDE DEF none, was, had, frames
<1>8. items \in Seq(Parcel) /\ \A i \in DOMAIN items : items[i].kind = "frames" \/ items[i] = x
  BY <1>5, <1>6
<1>9. Gives(side, was, none, <<>>, had, done, items)
  BY <1>1, <1>2, <1>3, <1>4, <1>8 DEF Gives
<1>10. Turn(c, side, none, WayWith(c, side, items, way[c][side]), open[c] /\ ~Broken(c, side, items), <<>>, done)
  BY <1>1, <1>2, <1>3, <1>8, <1>9, SpeechKeeps DEF was, had
<1>11. Alters(c, side, none, <<>>, done)
  BY <1>0, <1>7 DEF Alters
<1> QED BY <1>0, <1>6, <1>10, <1>11, PutAlone

(* A record sent, refused, or too many.                                    *)
LEMMA EventKeeps ==
  ASSUME SessionInv, NEW c \in Connections, NEW side \in Sides, SendEvent(c, side)
  PROVE  SessionInv'
<1> DEFINE was == conn[c][side] had == sent[c][side]
           frames == Gathered(c, side) x == Item("event", <<was.epoch, had.events + 1>>)
<1>0. Speaks(c, side, "events") /\ epochs' \in Nat /\ pumping' \in [Parties -> BOOLEAN] /\ told' = told
  BY Known DEF SendEvent, Framed
<1>1. was.phase = "active" /\ was \in Keeping /\ had \in Counts /\ way[c][side] \in Seq(Parcel) /\ open[c] \in BOOLEAN
  BY <1>0, Speaking, Known
<1> PICK done \in Counts : sent' = [sent EXCEPT ![c][side] = done] /\ done = [had EXCEPT !["events"] = @ + 1]
  BY <1>0, Speaking
<1>2. done.frames = had.frames /\ done.events = had.events + 1 /\ had.frames \in Nat /\ had.events \in Nat
      /\ was.epoch \in Nat /\ was.exhausted \in BOOLEAN
  BY <1>1 DEF Counts, Keeping
<1>3. x \in Parcel /\ x.kind = "event" /\ x.numbers[2] = had.events + 1
  <2> DEFINE e == was.epoch n == had.events + 1
  <2>1. e \in Nat /\ n \in Nat
    BY <1>2
  <2> HIDE DEF e, n
  <2>2. <<e, n>> \in Seq(Nat) /\ Len(<<e, n>>) = 2 /\ <<e, n>>[2] = n
    BY <2>1
  <2>3. Item("event", <<e, n>>) \in Parcel /\ Item("event", <<e, n>>).kind = "event"
        /\ Item("event", <<e, n>>).numbers = <<e, n>>
    <3> DEFINE l == <<e, n>>
    <3>1. l \in Seq(Nat) /\ Len(l) = 2
      BY <2>2
    <3> HIDE DEF l
    <3>2. Item("event", l) \in Parcel /\ Item("event", l).kind = "event" /\ Item("event", l).numbers = l
      BY <3>1 DEF Item, Parcel, Carries, Kinds
    <3> QED BY <3>2 DEF l
  <2> QED BY <2>2, <2>3 DEF e, n
<1> HIDE DEF x
<1>4. /\ frames \in Seq(Parcel) /\ \A i \in DOMAIN frames : frames[i].kind = "frames"
      /\ Append(frames, x) \in Seq(Parcel)
      /\ \A i \in DOMAIN Append(frames, x) :
            Append(frames, x)[i].kind = "frames" \/ (Append(frames, x)[i] = x /\ i = Len(frames) + 1)
      /\ Tells(Append(frames, x), "event")
  BY <1>3, GatheredOf, OneMoreItem
<1>5. PICK flushed \in IF frames = <<>> THEN {TRUE} ELSE Outcomes(c, side, frames), unread \in Unread(c, side) :
         LET taken == flushed /\ ~was.exhausted
             full == unread + 1 > MostRecords
         IN  /\ conn' = [conn EXCEPT ![c][side].unsent = <<>>, ![c][side].exhausted = @ \/ (taken /\ full)]
             /\ Put(c, side, IF taken /\ ~full THEN Append(frames, x) ELSE frames, way[c][side])
  BY DEF SendEvent, x
<1> DEFINE taken == flushed /\ ~was.exhausted
           full == unread + 1 > MostRecords
           keeps == [was EXCEPT !.unsent = <<>>, !.exhausted = @ \/ (taken /\ full)]
           items == IF taken /\ ~full THEN Append(frames, x) ELSE frames
<1>6. conn' = [conn EXCEPT ![c][side] = keeps] /\ Put(c, side, items, way[c][side])
  <2>1. conn \in [Connections -> [Sides -> Keeping]]
    BY Known DEF Framed
  <2> QED BY <1>5, <2>1
<1>7. /\ keeps \in Keeping /\ keeps.phase = was.phase /\ keeps.epoch = was.epoch /\ keeps.unsent = <<>>
      /\ keeps.exhausted = (was.exhausted \/ (taken /\ full))
  <2> HIDE DEF was
  <2>1. (was.exhausted \/ (taken /\ full)) \in BOOLEAN
    BY <1>2
  <2> HIDE DEF taken, full
  <2> QED BY <1>1, <2>1, Nothing DEF Keeping
<1>8. open[c] /\ ~Broken(c, side, items) => flushed
  <2>1. CASE frames = <<>>
    BY <1>5, <2>1
  <2>2. CASE frames # <<>> /\ open[c]
    <3>1. flushed = Fits(c, Other(side), Len(frames))
      BY <1>5, <2>2 DEF Outcomes
    <3>2. ASSUME ~flushed PROVE Broken(c, side, items)
      <4>1. items = frames
        BY <3>2
      <4> QED BY <2>2, <3>1, <3>2, <4>1 DEF Broken
    <3> QED BY <3>2
  <2> QED BY <2>1, <2>2
<1> HIDE DEF was, had, frames, full
<1>9. /\ items \in Seq(Parcel)
      /\ items = frames \/ (items = Append(frames, x) /\ ~was.exhausted)
      /\ flushed /\ ~keeps.exhausted => ~was.exhausted /\ items = Append(frames, x)
  BY <1>2, <1>4, <1>7
<1> HIDE DEF keeps, taken, items
<1>10. Gives(side, was, keeps, <<>>, had, done, items)
  <2>1. ASSUME NEW i \in DOMAIN items
        PROVE  items[i].kind = "frames" \/ (items[i] = x /\ i = Len(frames) + 1 /\ ~was.exhausted)
    BY <1>4, <1>9
  <2>2. ASSUME NEW i \in DOMAIN items, items[i].kind = "event"
        PROVE  /\ items[i].numbers[2] = done.events /\ ~was.exhausted
               /\ \A j \in DOMAIN items : items[j].kind = "event" => j = i
    BY <1>2, <1>3, <2>1, <2>2
  <2>3. \A i \in DOMAIN items : items[i].kind \in {"frames", "event"}
    BY <1>3, <2>1
  <2>4. was.phase = "active" /\ keeps.unsent = <<>> /\ done.frames = had.frames /\ done.events = had.events + 1
    BY <1>1, <1>2, <1>7
  <2> QED BY <2>2, <2>3, <2>4 DEF Gives
<1>11. open[c] /\ ~Broken(c, side, items) /\ keeps.phase \notin Done /\ ~keeps.exhausted =>
          ~was.exhausted /\ (done.events = had.events \/ Tells(items, "event"))
  BY <1>4, <1>8, <1>9
<1>12. Turn(c, side, keeps, WayWith(c, side, items, way[c][side]), open[c] /\ ~Broken(c, side, items), <<>>, done)
  BY <1>1, <1>7, <1>9, <1>10, <1>11, SpeechKeeps DEF was, had
<1>13. Alters(c, side, keeps, <<>>, done)
  BY <1>0, <1>6 DEF Alters
<1> QED BY <1>0, <1>6, <1>12, <1>13, PutAlone

(* A side that ends a connection, its owner told this.                     *)
LEMMA EndKeeps ==
  ASSUME SessionInv, NEW c \in Connections, NEW side \in Sides, NEW why \in {"Closed", "PeerGone"},
         NEW news \in Seq(Heard), conn[c][side].phase # "gone",
         Phased(conn[c][side].phase, "gone", news),
         Takes(side, conn[c][side], Over(conn[c][side]), way[c][side], news, <<>>),
         why = "Closed" => /\ side = "server" => ~Tells(news, "Rejected")
                           /\ conn[c][side].phase = "held" => conn[c][side].late,
         conn' = [conn EXCEPT ![c][side] = Over(@)], way' = [way EXCEPT ![c] = WayEnded(c, side, why)],
         open' = [open EXCEPT ![c] = FALSE], sent' = sent,
         told' = [told EXCEPT ![c][side] = @ \o news] \/ (news = <<>> /\ told' = told),
         epochs' \in Nat, pumping' \in [Parties -> BOOLEAN]
  PROVE  SessionInv'
<1> DEFINE w2 == WayEnded(c, side, why) keeps == Over(conn[c][side]) had == sent[c][side]
<1>1. Turn(c, side, keeps, w2, FALSE, news, had)
  BY EndTurn
<1>2. way' = [way EXCEPT ![c] = w2]
  OBVIOUS
<1>3. Alters(c, side, keeps, news, had)
  BY DEF Alters
<1> HIDE DEF w2, keeps, had
<1> QED BY <1>1, <1>2, <1>3, TurnAlone

(* The same where it says nothing.                                         *)
LEMMA QuietEnd ==
  ASSUME SessionInv, NEW c \in Connections, NEW side \in Sides, conn[c][side].phase \in Live
  PROVE  /\ conn[c][side].phase # "gone" /\ conn[c][side].phase # "held"
         /\ Phased(conn[c][side].phase, "gone", <<>>)
         /\ Takes(side, conn[c][side], Over(conn[c][side]), way[c][side], <<>>, <<>>)
<1> DEFINE was == conn[c][side] keeps == Over(was) going == way[c][side] empty == <<>>
<1>1. was \in Keeping /\ keeps.phase = "gone"
  BY Known, Ended
<1>2. empty = <<>> /\ Silent(empty) /\ \A kind : ~Tells(empty, kind)
  BY Nothing
<1>3. was.phase # "gone" /\ was.phase # "held" /\ was.phase # "none"
  BY DEF Live
<1> HIDE DEF was, keeps, going, empty
<1>4. Phased(was.phase, "gone", empty)
  BY <1>2 DEF Phased, EndsTold, was
<1>5. Takes(side, was, keeps, going, empty, <<>>)
  BY <1>1, <1>2, <1>3, EmptyTakes
<1> QED BY <1>2, <1>3, <1>4, <1>5 DEF was, keeps, going

(* An owner closes a connection.                                           *)
LEMMA CloseKeeps ==
  ASSUME SessionInv, NEW c \in Connections, NEW side \in Sides, Close(c, side)
  PROVE  SessionInv'
<1>1. conn[c][side].phase \in Live /\ End(c, side, <<>>) /\ UNCHANGED <<epochs, pumping, sent>>
  BY DEF Close
<1>2. epochs' \in Nat /\ pumping' \in [Parties -> BOOLEAN]
  BY <1>1, Known DEF Framed
<1>3. <<>> \in Seq(Heard) /\ ~Tells(<<>>, "Rejected")
  BY Nothing
<1>4. /\ conn' = [conn EXCEPT ![c][side] = Over(@)] /\ way' = [way EXCEPT ![c] = WayEnded(c, side, "Closed")]
      /\ open' = [open EXCEPT ![c] = FALSE] /\ told' = [told EXCEPT ![c][side] = @ \o <<>>]
  BY <1>1 DEF End, Tell
<1> QED BY <1>1, <1>2, <1>3, <1>4, QuietEnd, EndKeeps

(* A client's process ends.                                                *)
LEMMA VanishKeeps ==
  ASSUME SessionInv, NEW c \in Connections, Vanish(c)
  PROVE  SessionInv'
<1>1. conn[c]["client"].phase \in Live /\ UNCHANGED <<epochs, told, sent>> /\ "client" \in Sides
  BY DEF Vanish, Sides
<1>2. epochs' \in Nat /\ pumping' \in [Parties -> BOOLEAN]
  <2>1. pumping \in [Parties -> BOOLEAN] /\ epochs \in Nat
    BY <1>1, Known DEF Framed
  <2> QED BY <1>1, <2>1 DEF Vanish
<1>3. <<>> \in Seq(Heard) /\ ~Tells(<<>>, "Rejected")
  BY Nothing
<1>4. /\ conn' = [conn EXCEPT ![c]["client"] = Over(@)] /\ way' = [way EXCEPT ![c] = WayEnded(c, "client", "PeerGone")]
      /\ open' = [open EXCEPT ![c] = FALSE]
  BY DEF Vanish
<1> QED BY <1>1, <1>2, <1>3, <1>4, QuietEnd, EndKeeps

(* The server closes one once what it sent was read.                       *)
LEMMA SendingCloseKeeps ==
  ASSUME SessionInv, NEW c \in Connections, CloseAfterSending(c)
  PROVE  SessionInv'
<1> DEFINE side == "server" was == conn[c][side] had == sent[c][side] keeps == Hold(was) items == Gathered(c, side)
<1>1. side \in Sides /\ was.phase \in Live /\ UNCHANGED <<epochs, pumping, told, sent>>
  BY DEF Sides, CloseAfterSending
<1>2. was \in Keeping /\ had \in Counts /\ epochs' \in Nat /\ pumping' \in [Parties -> BOOLEAN]
  BY <1>1, Known DEF Framed
<1>3. keeps \in Keeping /\ keeps.phase = "held" /\ keeps.unsent = <<>>
  BY <1>2, Ended
<1>4. items \in Seq(Parcel) /\ \A i \in DOMAIN items : items[i].kind = "frames"
  BY <1>1, GatheredOf
<1>5. Put(c, side, items, way[c][side]) /\ conn' = [conn EXCEPT ![c][side] = keeps]
  BY DEF CloseAfterSending
<1>6. Alters(c, side, keeps, <<>>, had)
  BY <1>1, <1>5 DEF Alters
<1> HIDE DEF keeps, items, had, side
<1>7. Gives(side, was, keeps, <<>>, had, had, items)
  <2>1. \A i \in DOMAIN items : items[i].kind \notin Bare
    BY <1>4 DEF Bare
  <2>2. was.phase # "gone"
    BY <1>1 DEF Live
  <2> QED BY <1>2, <1>3, <2>1, <2>2, PlainGives
<1>8. keeps.phase \in Done
  BY <1>3 DEF Done
<1>9. Turn(c, side, keeps, WayWith(c, side, items, way[c][side]), open[c] /\ ~Broken(c, side, items), <<>>, had)
  BY <1>1, <1>2, <1>3, <1>4, <1>7, <1>8, SpeechKeeps DEF had
<1> QED BY <1>1, <1>2, <1>5, <1>6, <1>9, PutAlone

-----------------------------------------------------------------------------
(* A connection is asked for.                                              *)
LEMMA ConnectKeeps ==
  ASSUME SessionInv, NEW c \in Connections, Connect(c)
  PROVE  SessionInv'
<1>1. /\ Good(conn[c], way[c], open[c], told[c], sent[c]) /\ open[c] \in BOOLEAN /\ way[c] \in [Sides -> Seq(Parcel)]
      /\ Framed /\ conn[c] \in [Sides -> Keeping] /\ "client" \in Sides /\ "server" \in Sides
  BY Known DEF SessionInv, GoodAt, Sides
<1>2. conn[c]["client"].phase = "none" /\ UNCHANGED <<epochs, pumping, told, sent>>
  BY DEF Connect
<1>3. open[c] = FALSE
  BY <1>1, <1>2 DEF Good, AskedOf
<1> DEFINE k2 == [conn[c] EXCEPT !["client"] = [conn[c]["client"] EXCEPT !.phase = "connecting"]]
           asked == [way[c] EXCEPT !["server"] = <<Item("accepted", <<>>)>>, !["client"] = <<Item("connected", <<>>)>>]
           refused == [way[c] EXCEPT !["client"] = <<Item("Refused", <<>>)>>]
<1>4. conn' = [conn EXCEPT ![c] = k2]
  BY DEF Connect
<1>5. told' = [told EXCEPT ![c] = told[c]] /\ sent' = [sent EXCEPT ![c] = sent[c]]
      /\ epochs' \in Nat /\ pumping' \in [Parties -> BOOLEAN]
  BY <1>1, <1>2 DEF Framed
<1>6. \/ open' = [open EXCEPT ![c] = TRUE] /\ way' = [way EXCEPT ![c]["server"] = <<Item("accepted", <<>>)>>,
                                                              ![c]["client"] = <<Item("connected", <<>>)>>]
      \/ open' = open /\ way' = [way EXCEPT ![c]["client"] = <<Item("Refused", <<>>)>>]
  BY DEF Connect
<1>7. CASE open' = [open EXCEPT ![c] = TRUE] /\ way' = [way EXCEPT ![c]["server"] = <<Item("accepted", <<>>)>>,
                                                              ![c]["client"] = <<Item("connected", <<>>)>>]
  <2>1. Begins(conn[c], way[c], k2, asked, TRUE)
    BY <1>2 DEF Begins
  <2>2. way' = [way EXCEPT ![c] = asked]
    BY <1>1, <1>7 DEF Framed
  <2> HIDE DEF k2, asked
  <2>3. Steps(conn[c], way[c], open[c], told[c], sent[c], k2, asked, TRUE, told[c], sent[c])
    BY <2>1 DEF Steps
  <2> QED BY <1>4, <1>5, <1>7, <2>2, <2>3, Alone
<1>8. CASE open' = open /\ way' = [way EXCEPT ![c]["client"] = <<Item("Refused", <<>>)>>]
  <2>1. Begins(conn[c], way[c], k2, refused, FALSE)
    BY <1>2 DEF Begins
  <2>2. way' = [way EXCEPT ![c] = refused] /\ open' = [open EXCEPT ![c] = FALSE]
    BY <1>1, <1>3, <1>8 DEF Framed
  <2> HIDE DEF k2, refused
  <2>3. Steps(conn[c], way[c], open[c], told[c], sent[c], k2, refused, FALSE, told[c], sent[c])
    BY <2>1 DEF Steps
  <2> QED BY <1>4, <1>5, <2>2, <2>3, Alone
<1> QED BY <1>6, <1>7, <1>8

(* The path fails.                                                         *)
LEMMA FailKeeps ==
  ASSUME SessionInv, NEW c \in Connections, Fail(c)
  PROVE  SessionInv'
<1>1. Framed /\ way[c] \in [Sides -> Seq(Parcel)] /\ "client" \in Sides
  BY Known DEF SessionInv, Sides
<1> PICK why \in {"PeerGone", "QueueExhausted"} :
           /\ open[c] /\ open' = [open EXCEPT ![c] = FALSE]
           /\ way' = [way EXCEPT ![c] = [side \in Sides |-> Append(@[side], Item(why, <<>>))]]
           /\ UNCHANGED <<conn, epochs, pumping, told, sent>>
  BY DEF Fail
<1> DEFINE w2 == [side \in Sides |-> Append(way[c][side], Item(why, <<>>))]
<1>2. open[c] = TRUE
  BY <1>1, Known
<1>3. Failing(way[c], open[c], w2, FALSE)
  BY <1>2 DEF Failing
<1>4. way' = [way EXCEPT ![c] = w2]
  BY <1>1
<1>5. /\ conn' = [conn EXCEPT ![c] = conn[c]] /\ told' = [told EXCEPT ![c] = told[c]]
      /\ sent' = [sent EXCEPT ![c] = sent[c]] /\ epochs' \in Nat /\ pumping' \in [Parties -> BOOLEAN]
  BY <1>1 DEF Framed
<1> HIDE DEF w2
<1>6. Steps(conn[c], way[c], open[c], told[c], sent[c], conn[c], w2, FALSE, told[c], sent[c])
  BY <1>3 DEF Steps
<1>7. open' = [open EXCEPT ![c] = FALSE]
  OBVIOUS
<1> DEFINE k == conn[c] t == told[c] s == sent[c]
<1> HIDE DEF k, t, s
<1>8. conn' = [conn EXCEPT ![c] = k] /\ told' = [told EXCEPT ![c] = t] /\ sent' = [sent EXCEPT ![c] = s]
  BY <1>5 DEF k, t, s
<1>9. Steps(conn[c], way[c], open[c], told[c], sent[c], k, w2, FALSE, t, s)
  BY <1>6 DEF k, t, s
<1>10. SessionInv /\ epochs' \in Nat /\ pumping' \in [Parties -> BOOLEAN]
  BY <1>5
<1>11. c \in Connections
  OBVIOUS
<1> QED BY ONLY <1>4, <1>7, <1>8, <1>9, <1>10, <1>11, Alone

(* A step on many connections at once.                                     *)
LEMMA TurnAt ==
  ASSUME NEW c \in Connections, NEW side, NEW keeps, NEW w2, NEW o2, NEW news, NEW done,
         Turn(c, side, keeps, w2, o2, news, done),
         conn'[c] = [conn[c] EXCEPT ![side] = keeps], way'[c] = w2, open'[c] = o2,
         told'[c] = [told[c] EXCEPT ![side] = @ \o news], sent'[c] = [sent[c] EXCEPT ![side] = done]
  PROVE  StepAt(c)
  BY DEF Turn, StepAt, Steps

(* A connection no step touches.                                           *)
LEMMA RestAt ==
  ASSUME NEW c \in Connections, conn'[c] = conn[c], way'[c] = way[c], open'[c] = open[c], told'[c] = told[c],
         sent'[c] = sent[c]
  PROVE  StepAt(c)
  BY DEF StepAt, Steps

(* A step lawful on each connection is lawful.                             *)
LEMMA AllStep ==
  ASSUME SessionInv, Framed', \A c \in Connections : StepAt(c)
  PROVE  SessionInv'
<1>1. ASSUME NEW c \in Connections PROVE SoundAt(c)' /\ GoodAt(c)'
  <2>1. SoundAt(c) /\ GoodAt(c) /\ StepAt(c)
    BY DEF SessionInv
  <2> QED BY <2>1, StepSound
<1> QED BY <1>1 DEF SessionInv

(* What was gathered is handed over.                                       *)
LEMMA FlushTurn ==
  ASSUME SessionInv, NEW c \in Connections, NEW side \in Sides
  PROVE  Turn(c, side, [conn[c][side] EXCEPT !.unsent = <<>>], WayWith(c, side, Gathered(c, side), way[c][side]),
              open[c] /\ ~Broken(c, side, Gathered(c, side)), <<>>, sent[c][side])
<1> DEFINE was == conn[c][side] had == sent[c][side] keeps == [was EXCEPT !.unsent = <<>>] items == Gathered(c, side)
<1>1. was \in Keeping /\ had \in Counts
  BY Known
<1>2. /\ keeps \in Keeping /\ keeps.phase = was.phase /\ keeps.epoch = was.epoch /\ keeps.exhausted = was.exhausted
      /\ keeps.late = was.late /\ keeps.unsent = <<>>
  <2> HIDE DEF was
  <2> QED BY <1>1, Nothing DEF Keeping
<1>3. items \in Seq(Parcel) /\ \A i \in DOMAIN items : items[i].kind = "frames"
  BY GatheredOf
<1> HIDE DEF keeps, items, was, had
<1>4. Gives(side, was, keeps, <<>>, had, had, items)
  <2>1. \A i \in DOMAIN items : items[i].kind \notin Bare
    BY <1>3 DEF Bare
  <2> QED BY <1>1, <1>2, <2>1, PlainGives
<1>5. Turn(c, side, keeps, WayWith(c, side, items, way[c][side]), open[c] /\ ~Broken(c, side, items), <<>>, had)
  BY <1>1, <1>2, <1>3, <1>4, SpeechKeeps DEF was, had
<1> QED BY <1>5 DEF keeps, items, was, had

(* A party's connections, each handing over what was gathered.             *)
LEMMA FlushKeeps ==
  ASSUME SessionInv, NEW p \in Parties, FlushAll(p), UNCHANGED <<epochs, told, sent>>,
         pumping' \in [Parties -> BOOLEAN]
  PROVE  SessionInv'
<1> DEFINE side == SideOf(p)
           mine == IF p = Server THEN Connections ELSE {p}
<1>1. side \in Sides
  BY DEF SideOf, Sides
<1>2. /\ conn' = [c \in Connections |-> IF c \in mine THEN [conn[c] EXCEPT ![side].unsent = <<>>] ELSE conn[c]]
      /\ way' = [c \in Connections |-> IF c \in mine THEN WayWith(c, side, Gathered(c, side), way[c][side]) ELSE way[c]]
      /\ open' = [c \in Connections |-> open[c] /\ (c \in mine => ~Broken(c, side, Gathered(c, side)))]
  BY DEF FlushAll
<1> HIDE DEF side, mine
<1>3. Framed /\ \A c \in Connections : SoundAt(c)
  BY DEF SessionInv
<1>4. Framed'
  BY <1>2, <1>3 DEF Framed
<1>5. ASSUME NEW c \in Connections PROVE StepAt(c)
  <2> DEFINE keeps == [conn[c][side] EXCEPT !.unsent = <<>>] items == Gathered(c, side)
             w2 == WayWith(c, side, items, way[c][side]) o2 == open[c] /\ ~Broken(c, side, items) had == sent[c][side]
  <2>1. /\ told[c] \in [Sides -> Seq(Heard)] /\ sent[c] \in [Sides -> Counts] /\ conn[c] \in [Sides -> Keeping]
        /\ open[c] \in BOOLEAN
    BY <1>3 DEF SoundAt, Sound
  <2>2. CASE c \in mine
    <3>1. Turn(c, side, keeps, w2, o2, <<>>, had)
      BY <1>1, FlushTurn
    <3>2. way'[c] = w2 /\ open'[c] = o2
      BY <1>2, <2>2
    <3>3. conn'[c] = [conn[c] EXCEPT ![side] = keeps]
      BY <1>2, <2>2
    <3>4. told'[c] = [told[c] EXCEPT ![side] = @ \o <<>>] /\ sent'[c] = [sent[c] EXCEPT ![side] = had]
      <4>1. told[c][side] \o <<>> = told[c][side]
        BY <1>1, <2>1, ConcatEmptySeq
      <4>2. [told[c] EXCEPT ![side] = @ \o <<>>] = told[c]
        BY <1>1, <2>1, <4>1
      <4>3. [sent[c] EXCEPT ![side] = had] = sent[c]
        BY <1>1, <2>1
      <4> QED BY <4>2, <4>3
    <3> HIDE DEF keeps, w2, o2, had
    <3> QED BY <3>1, <3>2, <3>3, <3>4, TurnAt
  <2>3. CASE c \notin mine
    <3>1. conn'[c] = conn[c] /\ way'[c] = way[c] /\ open'[c] = open[c]
      BY <1>2, <2>1, <2>3
    <3> QED BY <3>1, RestAt
  <2> QED BY <2>2, <2>3
<1> QED BY <1>4, <1>5, AllStep

(* A pump hands over what was gathered, as an owner does between them.     *)
LEMMA PollKeeps ==
  ASSUME SessionInv, NEW p \in Parties, Poll(p) \/ Flush(p)
  PROVE  SessionInv'
<1>1. pumping \in [Parties -> BOOLEAN]
  BY DEF SessionInv, Framed
<1>2. pumping' \in [Parties -> BOOLEAN] /\ FlushAll(p) /\ UNCHANGED <<epochs, told, sent>>
  BY <1>1 DEF Poll, Flush
<1> QED BY <1>2, FlushKeeps

-----------------------------------------------------------------------------
(* A pump ends what is late.                                               *)
LEMMA LateTurn ==
  ASSUME SessionInv, NEW c \in Connections, NEW side \in Sides, NEW news \in Seq(Heard),
         \/ conn[c][side].phase \in Live /\ Len(news) = 1 /\ news[1].kind \in {"TimedOut", "QueueExhausted"}
         \/ conn[c][side].phase = "held" /\ conn[c][side].late /\ news = <<>>
  PROVE  Turn(c, side, Over(conn[c][side]), WayEnded(c, side, "Closed"), FALSE, news, sent[c][side])
<1> DEFINE was == conn[c][side] keeps == Over(was) going == way[c][side]
<1>1. was \in Keeping /\ keeps.phase = "gone"
  BY Known, Ended
<1>2. was.phase # "gone" /\ was.phase # "none"
  BY DEF Live
<1>3. Silent(news) /\ ~Tells(news, "Closed") /\ ~Tells(news, "Rejected") /\ Phased(was.phase, "gone", news)
  <2>1. CASE was.phase \in Live /\ Len(news) = 1 /\ news[1].kind \in {"TimedOut", "QueueExhausted"}
    <3>1. \A i \in DOMAIN news : i = 1
      BY <2>1, LenProperties
    <3>2. news[1].kind \in EndNews
      BY <2>1 DEF EndNews, Ends
    <3> QED BY <2>1, <3>1, <3>2 DEF Silent, Tells, Phased, EndsTold
  <2>2. CASE was.phase = "held" /\ was.late /\ news = <<>>
    BY <2>2, Nothing DEF Phased
  <2> QED BY <2>1, <2>2
<1>4. Takes(side, was, keeps, going, news, <<>>)
  BY <1>1, <1>2, <1>3, EmptyTakes
<1>5. was.phase = "held" => was.late
  BY DEF Live
<1> QED BY <1>2, <1>3, <1>4, <1>5, EndTurn

(* A party's connections, those late ended.                                *)
LEMMA ExpireKeeps ==
  ASSUME SessionInv, NEW p \in Parties, Expire(p)
  PROVE  SessionInv'
<1> DEFINE side == SideOf(p)
           mine == IF p = Server THEN Connections ELSE {p}
           timedOut == {c \in mine : conn[c][side].phase \in Live \ {"active"} /\ conn[c][side].late}
           heldOut == {c \in mine : conn[c][side].phase = "held" /\ conn[c][side].late}
<1>1. side \in Sides
  BY DEF SideOf, Sides
<1>2. Framed /\ \A c \in Connections : SoundAt(c)
  BY DEF SessionInv
<1> PICK old \in SUBSET {c \in mine : conn[c][side].phase = "active" /\ Unread(c, side) # {0}} :
          LET exhausted == {c \in mine : conn[c][side].phase = "active" /\ conn[c][side].exhausted} \cup old
              over == timedOut \cup heldOut \cup exhausted
          IN  /\ pumping[p]
              /\ pumping' = [pumping EXCEPT ![p] = FALSE]
              /\ conn' = [c \in Connections |->
                           IF c \in over THEN [conn[c] EXCEPT ![side] = Over(@)] ELSE conn[c]]
              /\ way' = [c \in Connections |-> IF c \in over THEN WayEnded(c, side, "Closed") ELSE way[c]]
              /\ open' = [c \in Connections |-> open[c] /\ c \notin over]
              /\ told' = [c \in Connections |-> [told[c] EXCEPT ![side] =
                            @ \o (IF c \in timedOut THEN <<News("TimedOut", 0)>>
                                  ELSE IF c \in exhausted THEN <<News("QueueExhausted", 0)>> ELSE <<>>)]]
              /\ UNCHANGED <<epochs, sent>>
  BY Zenon DEF Expire
<1> DEFINE exhausted == {c \in mine : conn[c][side].phase = "active" /\ conn[c][side].exhausted} \cup old
           over == timedOut \cup heldOut \cup exhausted
           news(c) == IF c \in timedOut THEN <<News("TimedOut", 0)>>
                      ELSE IF c \in exhausted THEN <<News("QueueExhausted", 0)>> ELSE <<>>
<1>3. /\ conn' = [c \in Connections |-> IF c \in over THEN [conn[c] EXCEPT ![side] = Over(@)] ELSE conn[c]]
      /\ way' = [c \in Connections |-> IF c \in over THEN WayEnded(c, side, "Closed") ELSE way[c]]
      /\ open' = [c \in Connections |-> open[c] /\ c \notin over]
      /\ told' = [c \in Connections |-> [told[c] EXCEPT ![side] = @ \o news(c)]]
      /\ UNCHANGED <<epochs, sent>> /\ pumping' = [pumping EXCEPT ![p] = FALSE]
  OBVIOUS
<1>4. /\ \A c \in timedOut : conn[c][side].phase \in Live /\ c \in over
      /\ \A c \in exhausted : conn[c][side].phase = "active" /\ c \in over
      /\ \A c \in over : c \in timedOut \/ c \in exhausted \/ c \in heldOut
      /\ \A c \in heldOut : conn[c][side].phase = "held" /\ conn[c][side].late
  OBVIOUS
<1>5. /\ \A c \in timedOut : news(c) = <<News("TimedOut", 0)>>
      /\ \A c \in exhausted \ timedOut : news(c) = <<News("QueueExhausted", 0)>>
      /\ \A c : c \notin timedOut /\ c \notin exhausted => news(c) = <<>>
  OBVIOUS
<1> HIDE DEF side, mine, timedOut, heldOut, exhausted, over, news
<1>6. Framed'
  <2>1. epochs' \in Nat /\ pumping' \in [Parties -> BOOLEAN]
    BY <1>2, <1>3 DEF Framed
  <2>2. sent' = [c \in Connections |-> sent'[c]]
    BY <1>2, <1>3 DEF Framed
  <2> QED BY <1>3, <2>1, <2>2 DEF Framed
<1>7. ASSUME NEW kind \in {"TimedOut", "QueueExhausted"}
      PROVE  /\ <<News(kind, 0)>> \in Seq(Heard) /\ Len(<<News(kind, 0)>>) = 1
             /\ <<News(kind, 0)>>[1].kind = kind
  <2> DEFINE x == News(kind, 0)
  <2>1. x \in Heard /\ x.kind = kind
    BY DEF News, Heard, NewsKinds, EndNews, Ends
  <2> HIDE DEF x
  <2>2. <<x>> \in Seq(Heard) /\ Len(<<x>>) = 1 /\ <<x>>[1] = x
    BY <2>1
  <2> QED BY <2>1, <2>2 DEF x
<1>8. ASSUME NEW c \in Connections PROVE StepAt(c)
  <2> DEFINE keeps == Over(conn[c][side]) w2 == WayEnded(c, side, "Closed") had == sent[c][side] n == news(c)
  <2>1. /\ told[c] \in [Sides -> Seq(Heard)] /\ sent[c] \in [Sides -> Counts] /\ conn[c] \in [Sides -> Keeping]
        /\ open[c] \in BOOLEAN
    BY <1>2 DEF SoundAt, Sound
  <2>2. told'[c] = [told[c] EXCEPT ![side] = @ \o n] /\ sent'[c] = [sent[c] EXCEPT ![side] = had]
    <3>1. [sent[c] EXCEPT ![side] = had] = sent[c]
      BY <1>1, <2>1
    <3> QED BY <1>3, <3>1
  <2>3. CASE c \in over
    <3>1. n \in Seq(Heard) /\
          \/ conn[c][side].phase \in Live /\ Len(n) = 1 /\ n[1].kind \in {"TimedOut", "QueueExhausted"}
          \/ conn[c][side].phase = "held" /\ conn[c][side].late /\ n = <<>>
      <4>1. CASE c \in timedOut
        BY <1>4, <1>5, <1>7, <4>1
      <4>2. CASE c \in exhausted /\ c \notin timedOut
        BY <1>4, <1>5, <1>7, <4>2 DEF Live
      <4>3. CASE c \in heldOut /\ c \notin timedOut /\ c \notin exhausted
        BY <1>4, <1>5, <4>3, Nothing
      <4> QED BY <1>4, <2>3, <4>1, <4>2, <4>3
    <3> HIDE DEF n
    <3>2. Turn(c, side, keeps, w2, FALSE, n, had)
      BY <1>1, <3>1, LateTurn
    <3>3. conn'[c] = [conn[c] EXCEPT ![side] = keeps] /\ way'[c] = w2 /\ open'[c] = FALSE
      BY <1>3, <2>3
    <3> HIDE DEF keeps, w2, had
    <3> QED BY <2>2, <3>2, <3>3, TurnAt
  <2>4. CASE c \notin over
    <3>1. conn'[c] = conn[c] /\ way'[c] = way[c] /\ open'[c] = open[c]
      BY <1>3, <2>1, <2>4
    <3>2. n = <<>>
      BY <1>4, <1>5, <2>4
    <3> HIDE DEF n, had
    <3>3. told[c][side] \o <<>> = told[c][side]
      BY <1>1, <2>1, ConcatEmptySeq
    <3>4. [told[c] EXCEPT ![side] = @ \o n] = told[c]
      BY <1>1, <2>1, <3>2, <3>3
    <3>5. sent'[c] = sent[c]
      BY <1>3
    <3> QED BY <2>2, <3>1, <3>4, <3>5, RestAt
  <2> QED BY <2>3, <2>4
<1> QED BY <1>6, <1>8, AllStep

(* What is heard next.                                                     *)
Arriving(c, side, i) == i \in DOMAIN way[c][side] /\ MayArrive(c, side, i)
LeftOf(c, side, i) == IF way[c][side][i].kind \in Ends THEN <<>> ELSE Without(way[c][side], i)

(* What is heard was asked for, and a server is asked once.                *)
LEMMA ArrivingOf ==
  ASSUME SessionInv, NEW c \in Connections, NEW side \in Sides, NEW i \in DOMAIN way[c][side]
  PROVE  /\ way[c][side][i] \in Parcel
         /\ LeftOf(c, side, i) \in Seq(Parcel)
         /\ conn[c]["client"].phase # "none"
         /\ way[c][side][i].kind = "accepted" /\ side = "server" => conn[c]["server"].phase = "none"
<1>1. way[c][side] \in Seq(Parcel)
  BY Known
<1>2. way[c][side][i] \in Parcel
  BY <1>1, LenProperties, ElementOfSeq
<1>3. Without(way[c][side], i) \in Seq(Parcel) /\ <<>> \in Seq(Parcel)
  BY <1>1, TakenOut, Nothing
<1>4. AskedOf(conn[c]["client"].phase, conn[c]["server"].phase, open[c], way[c]["client"], way[c]["server"])
  BY DEF SessionInv, GoodAt, Good
<1>5. \A j \in DOMAIN <<>> : FALSE
  OBVIOUS
<1>6. side = "client" \/ side = "server"
  BY DEF Sides
<1> QED BY <1>2, <1>3, <1>4, <1>5, <1>6 DEF LeftOf, AskedOf

(* Records arrive as they were sent.                                       *)
LEMMA FirstOfLane ==
  ASSUME NEW c, NEW side, NEW i, MayArrive(c, side, i), way[c][side][i].kind = "event"
  PROVE  \A j \in 1..(i - 1) : way[c][side][j].kind # "event"
<1> DEFINE going == way[c][side] before == {going[j] : j \in 1..(i - 1)}
<1>1. /\ \A item : item.kind = "event" => StreamOf(item) = "lane"
      /\ going[i].kind \notin Ends
  BY DEF StreamOf, Ends
<1>2. \/ \A b \in before : StreamOf(b) = "datagram"
      \/ \A b \in before : StreamOf(b) \notin {"lane", "connection"}
  BY <1>1 DEF MayArrive
<1>3. \A j \in 1..(i - 1) : going[j] \in before
  OBVIOUS
<1> HIDE DEF before, going
<1>4. \A j \in 1..(i - 1) : going[j].kind # "event"
  BY <1>1, <1>2, <1>3
<1> QED BY <1>4 DEF going

(* One thing its owner is told.                                            *)
LEMMA OneNews ==
  ASSUME NEW kind \in NewsKinds, NEW number \in Nat
  PROVE  /\ <<News(kind, number)>> \in Seq(Heard) /\ Len(<<News(kind, number)>>) = 1
         /\ <<News(kind, number)>>[1] = News(kind, number) /\ News(kind, number).kind = kind
         /\ \A i \in DOMAIN <<News(kind, number)>> : <<News(kind, number)>>[i].kind = kind
         /\ \A other : Tells(<<News(kind, number)>>, other) <=> other = kind
         /\ kind # "event" => Silent(<<News(kind, number)>>)
<1> DEFINE x == News(kind, number)
<1>1. x \in Heard /\ x.kind = kind
  BY DEF News, Heard
<1> HIDE DEF x
<1>2. <<x>> \in Seq(Heard) /\ Len(<<x>>) = 1 /\ <<x>>[1] = x /\ 1 \in DOMAIN <<x>> /\ \A i \in DOMAIN <<x>> : <<x>>[i] = x
  BY <1>1
<1> QED BY <1>1, <1>2 DEF x, Tells, Silent

(* A side that only hears.                                                 *)
LEMMA HearingKeeps ==
  ASSUME SessionInv, NEW c \in Connections, NEW side \in Sides, NEW keeps \in Keeping, NEW news \in Seq(Heard),
         NEW cut \in Seq(Parcel),
         Phased(conn[c][side].phase, keeps.phase, news),
         Takes(side, conn[c][side], keeps, way[c][side], news, cut),
         keeps.unsent \in {<<>>, conn[c][side].unsent},
         keeps.exhausted = conn[c][side].exhausted \/ keeps.phase = "gone",
         conn[c][side].phase = "gone" => keeps.late = conn[c][side].late,
         conn' = [conn EXCEPT ![c][side] = keeps], way' = [way EXCEPT ![c][side] = cut], open' = open,
         told' = [told EXCEPT ![c][side] = @ \o news] \/ (news = <<>> /\ told' = told), sent' = sent,
         epochs' \in Nat, pumping' \in [Parties -> BOOLEAN]
  PROVE  SessionInv'
<1> DEFINE was == conn[c][side] going == way[c][side] had == sent[c][side] empty == <<>>
<1>1. /\ was \in Keeping /\ going \in Seq(Parcel) /\ open[c] \in BOOLEAN /\ had \in Counts /\ Other(side) \in Sides
      /\ way[c] \in [Sides -> Seq(Parcel)] /\ Other(side) # side /\ Framed
  BY Known DEF Other, Sides
<1>2. empty \in Seq(Parcel) /\ Spent(empty) /\ empty = <<>> /\ \A i \in DOMAIN empty : FALSE
  BY Nothing
<1> HIDE DEF empty
<1>3. Alters(c, side, keeps, news, had)
  BY DEF Alters
<1>4. Moved(c, side, cut, empty, empty, open[c])
  <2>1. cut \o empty = cut /\ way[c][Other(side)] \o empty = way[c][Other(side)]
    BY <1>1, <1>2, ConcatEmptySeq
  <2>2. [way[c] EXCEPT ![side] = cut \o empty, ![Other(side)] = @ \o empty] = [way[c] EXCEPT ![side] = cut]
    BY <1>1, <2>1
  <2>3. way' = [way EXCEPT ![c] = [way[c] EXCEPT ![side] = cut]]
    OBVIOUS
  <2> QED BY <1>1, <2>2, <2>3 DEF Moved, Framed
<1> HIDE DEF was, going, had
<1>5. Gives(side, was, keeps, news, had, had, empty)
  BY <1>1, <1>2, PlainGives DEF was
<1>6. Shuts(was, keeps, open[c], had, had, empty, empty, open[c])
  BY <1>1, <1>2 DEF Shuts, was, Done
<1>7. Lawful(side, was, keeps, going, open[c], had, news, had, cut, empty, empty, open[c])
  BY <1>1, <1>2, <1>5, <1>6 DEF Lawful, was, going
<1> QED BY <1>3, <1>4, <1>7, Acts DEF was, going, had

(* What is of no connection it keeps, and datagrams too early, are dropped.*)
LEMMA DroppedKeeps ==
  ASSUME SessionInv, NEW c \in Connections, NEW side \in Sides, NEW i \in DOMAIN way[c][side],
         MayArrive(c, side, i), HearNothing(c, side, way[c][side][i], LeftOf(c, side, i)), UNCHANGED <<pumping, sent>>
  PROVE  SessionInv'
<1> DEFINE was == conn[c][side] going == way[c][side] item == going[i] left == LeftOf(c, side, i) empty == <<>>
<1>1. was \in Keeping /\ Framed /\ conn[c] \in [Sides -> Keeping] /\ left \in Seq(Parcel)
  BY Known, ArrivingOf
<1>2. empty \in Seq(Heard) /\ Silent(empty) /\ empty = <<>> /\ \A kind : ~Tells(empty, kind)
  BY Nothing
<1>3. /\ way' = [way EXCEPT ![c][side] = left] /\ UNCHANGED <<conn, epochs, open, told>>
      /\ \/ was.phase \notin Live \cup {"held"}
         \/ was.phase = "held" /\ item.kind \notin Ends
         \/ item.kind = "datagram" /\ ~Expected(c, side, item)
  BY DEF HearNothing
<1>4. conn' = [conn EXCEPT ![c][side] = was]
  BY <1>1, <1>3 DEF Framed
<1>5. epochs' \in Nat /\ pumping' \in [Parties -> BOOLEAN]
  BY <1>1, <1>3 DEF Framed
<1>6. Phased(was.phase, was.phase, empty)
  BY <1>2 DEF Phased
<1>7. Takes(side, was, was, going, empty, left)
  <2>1. CASE item.kind \in Ends
    <3>1. left = <<>> /\ (was.phase = "gone" \/ was.phase = "none")
      BY <1>1, <1>3, <2>1 DEF LeftOf, Ends, Keeping, Phases
    <3> HIDE DEF was, going, left, empty
    <3> QED BY <1>2, <3>1 DEF Takes
  <2>2. CASE item.kind \notin Ends
    <3>1. left = Without(going, i) /\ (item.kind = "event" => was.phase \notin Live \/ was.phase = "held")
      BY <1>3, <2>2 DEF LeftOf
    <3>2. item.kind = "event" => was.phase \notin Live /\ Silent(empty)
      BY <1>2, <3>1 DEF Live
    <3>3. item.kind = "event" => \A j \in 1..(i - 1) : going[j].kind # "event"
      BY FirstOfLane
    <3> QED BY <1>2, <3>1, <3>2, <3>3 DEF Takes
  <2> QED BY <2>1, <2>2
<1> HIDE DEF left, empty
<1> QED BY <1>1, <1>2, <1>3, <1>4, <1>5, <1>6, <1>7, HearingKeeps

(* What is taken off its way where it is no record and no end.             *)
LEMMA TakesOne ==
  ASSUME NEW side, NEW was, NEW keeps, NEW going, NEW i \in DOMAIN going, NEW news, NEW cut, cut = Without(going, i),
         going[i].kind # "event", Silent(news), ~Tells(news, "Closed"),
         was.phase = "none" /\ keeps.phase # "none" => side = "server" /\ going[i].kind = "accepted",
         side = "client" /\ keeps.phase = "active" =>
            (was.phase = "active" /\ keeps.epoch = was.epoch) \/ (going[i].kind = "accept" /\ keeps.epoch = going[i].numbers[1])
  PROVE  Takes(side, was, keeps, going, news, cut)
  BY DEF Takes

(* The server takes a connection up, or closes it for want of room.        *)
LEMMA AcceptedKeeps ==
  ASSUME SessionInv, NEW c \in Connections, NEW i \in DOMAIN way[c]["server"],
         HearAccepted(c, way[c]["server"][i], LeftOf(c, "server", i)), UNCHANGED <<pumping, sent>>
  PROVE  SessionInv'
<1> DEFINE side == "server" was == conn[c][side] going == way[c][side] item == going[i] left == LeftOf(c, side, i)
           empty == <<>>
<1>0. side \in Sides
  BY DEF Sides
<1>1. was \in Keeping /\ Framed /\ left \in Seq(Parcel) /\ item.kind = "accepted" /\ was.phase = "none"
  BY <1>0, Known, ArrivingOf DEF HearAccepted
<1>2. empty \in Seq(Heard) /\ Silent(empty) /\ empty = <<>> /\ \A kind : ~Tells(empty, kind)
  BY Nothing
<1>3. epochs' \in Nat /\ pumping' \in [Parties -> BOOLEAN]
  BY <1>1 DEF Framed, HearAccepted
<1>4. left = Without(going, i)
  BY <1>1 DEF LeftOf, Ends
<1>5. CASE Cardinality(Kept) >= MaxSessions
  <2>1. /\ conn' = [conn EXCEPT ![c][side] = Over(@)] /\ way' = [way EXCEPT ![c] = WayEnded(c, side, "Closed")]
        /\ open' = [open EXCEPT ![c] = FALSE] /\ told' = [told EXCEPT ![c][side] = @ \o empty]
    BY <1>5 DEF HearAccepted, End, Tell
  <2>2. Phased(was.phase, "gone", empty)
    BY <1>1, <1>2 DEF Phased
  <2>3. Takes(side, was, Over(was), going, empty, <<>>)
    <3> DEFINE keeps == Over(was)
    <3>1. keeps.phase = "gone"
      BY <1>1, Ended
    <3> HIDE DEF keeps, was, going, empty
    <3>2. Takes(side, was, keeps, going, empty, <<>>)
      BY <1>1, <1>2, <3>1 DEF Takes, going
    <3> QED BY <3>2 DEF keeps, was, going, empty
  <2> HIDE DEF empty, side
  <2> QED BY <1>0, <1>1, <1>2, <1>3, <2>1, <2>2, <2>3, EndKeeps
<1>6. CASE ~(Cardinality(Kept) >= MaxSessions)
  <2> DEFINE keeps == [was EXCEPT !.phase = "hello"]
  <2>1. conn' = [conn EXCEPT ![c][side] = keeps] /\ way' = [way EXCEPT ![c][side] = left] /\ UNCHANGED <<open, told>>
    BY <1>6 DEF HearAccepted
  <2> HIDE DEF was
  <2>2. keeps \in Keeping /\ keeps.phase = "hello" /\ keeps.unsent = was.unsent /\ keeps.exhausted = was.exhausted
        /\ keeps.late = was.late
    BY <1>1 DEF Keeping, Phases, Live
  <2> HIDE DEF keeps, empty, left
  <2>3. Phased(was.phase, keeps.phase, empty)
    BY <1>1, <1>2, <2>2 DEF Phased
  <2>4. Takes(side, was, keeps, going, empty, left)
    BY <1>1, <1>2, <1>4, <2>2, TakesOne
  <2> HIDE DEF side
  <2> QED BY <1>0, <1>1, <1>2, <1>3, <2>1, <2>2, <2>3, <2>4, HearingKeeps DEF was
<1> QED BY <1>5, <1>6

(* A client admitted.                                                      *)
LEMMA AcceptKeeps ==
  ASSUME SessionInv, NEW c \in Connections, NEW i \in DOMAIN way[c]["client"],
         HearAccept(c, way[c]["client"][i], LeftOf(c, "client", i)), UNCHANGED <<pumping, sent>>
  PROVE  SessionInv'
<1> DEFINE side == "client" was == conn[c][side] going == way[c][side] item == going[i] left == LeftOf(c, side, i)
           epoch == item.numbers[1] keeps == [was EXCEPT !.phase = "active", !.epoch = epoch]
           news == <<News("admitted", epoch)>>
<1>0. side \in Sides
  BY DEF Sides
<1>1. was \in Keeping /\ Framed /\ left \in Seq(Parcel) /\ item \in Parcel /\ item.kind = "accept"
      /\ was.phase = "verdict" /\ conn \in [Connections -> [Sides -> Keeping]]
  BY <1>0, Known, ArrivingOf DEF HearAccept, Framed
<1>2. epoch \in Nat
  <2> HIDE DEF item
  <2>1. item.numbers \in Seq(Nat) /\ Len(item.numbers) = 1
    BY <1>1 DEF Parcel, Carries
  <2> QED BY <2>1
<1>3. epochs' \in Nat /\ pumping' \in [Parties -> BOOLEAN]
  BY <1>1 DEF Framed, HearAccept
<1>4. left = Without(going, i)
  BY <1>1 DEF LeftOf, Ends
<1>5. conn' = [conn EXCEPT ![c][side] = keeps] /\ way' = [way EXCEPT ![c][side] = left]
      /\ told' = [told EXCEPT ![c][side] = @ \o news] /\ open' = open
  BY <1>0, <1>1 DEF HearAccept, Tell
<1>6. news \in Seq(Heard) /\ Len(news) = 1 /\ news[1].kind = "admitted" /\ Silent(news) /\ ~Tells(news, "Closed")
  BY <1>2, OneNews DEF NewsKinds
<1> HIDE DEF was, epoch, news
<1>7. /\ keeps \in Keeping /\ keeps.phase = "active" /\ keeps.epoch = epoch /\ keeps.unsent = was.unsent
      /\ keeps.exhausted = was.exhausted /\ keeps.late = was.late
  BY <1>1, <1>2 DEF Keeping, Phases, Live
<1> HIDE DEF keeps, left
<1>8. Phased(was.phase, keeps.phase, news)
  BY <1>1, <1>6, <1>7 DEF Phased
<1>9. Takes(side, was, keeps, going, news, left)
  BY <1>1, <1>4, <1>6, <1>7, TakesOne DEF epoch
<1> HIDE DEF side
<1> QED BY <1>0, <1>1, <1>3, <1>5, <1>6, <1>7, <1>8, <1>9, HearingKeeps DEF was

(* The end of a connection heard.                                          *)
LEMMA EndHeardKeeps ==
  ASSUME SessionInv, NEW c \in Connections, NEW side \in Sides, NEW i \in DOMAIN way[c][side],
         HearEnd(c, side, way[c][side][i]), UNCHANGED <<pumping, sent>>
  PROVE  SessionInv'
<1> DEFINE was == conn[c][side] going == way[c][side] item == going[i] keeps == Over(was)
           news == IF was.phase = "held" THEN <<>> ELSE <<News(item.kind, 0)>> empty == <<>>
<1>1. was \in Keeping /\ Framed /\ item.kind \in Ends /\ was.phase \in Live \cup {"held"}
  BY Known DEF HearEnd
<1>2. empty \in Seq(Heard) /\ empty \in Seq(Parcel) /\ Silent(empty) /\ empty = <<>> /\ \A kind : ~Tells(empty, kind)
  BY Nothing
<1>3. epochs' \in Nat /\ pumping' \in [Parties -> BOOLEAN]
  BY <1>1 DEF Framed, HearEnd
<1>4. conn' = [conn EXCEPT ![c][side] = keeps] /\ way' = [way EXCEPT ![c][side] = empty]
      /\ told' = [told EXCEPT ![c][side] = @ \o news] /\ open' = open
  BY DEF HearEnd, Tell
<1>5. keeps \in Keeping /\ keeps.phase = "gone" /\ keeps.unsent = <<>>
  BY <1>1, Ended
<1>6. /\ news \in Seq(Heard) /\ Silent(news) /\ (Tells(news, "Closed") => item.kind = "Closed")
      /\ Phased(was.phase, "gone", news)
  <2>1. CASE was.phase = "held"
    <3>1. news = empty
      BY <2>1
    <3> HIDE DEF news, empty, was
    <3> QED BY <1>2, <2>1, <3>1 DEF Phased
  <2>2. CASE was.phase # "held"
    <3> DEFINE kind == item.kind
    <3>1. news = <<News(kind, 0)>> /\ kind \in NewsKinds /\ kind \in EndNews /\ kind # "event"
      BY <1>1, <2>2 DEF NewsKinds, EndNews, Ends
    <3> HIDE DEF kind, news
    <3>2. /\ news \in Seq(Heard) /\ Len(news) = 1 /\ news[1].kind = kind /\ Silent(news)
          /\ \A other : Tells(news, other) <=> other = kind
      BY <3>1, OneNews
    <3>3. Phased(was.phase, "gone", news)
      <4>1. EndsTold(was.phase, news)
        BY <3>1, <3>2 DEF EndsTold
      <4>2. was.phase \in Live
        BY <1>1, <2>2
      <4> HIDE DEF was
      <4> QED BY <4>1, <4>2 DEF Phased
    <3> QED BY <3>2, <3>3 DEF kind
  <2> QED BY <2>1, <2>2
<1> HIDE DEF news, keeps, was, empty
<1>7. Takes(side, was, keeps, going, news, empty)
  <2>1. Tells(news, "Closed") => Tells(going, "Closed")
    BY <1>6 DEF Tells
  <2>2. was.phase # "none"
    BY <1>1 DEF Live
  <2> QED BY <1>2, <1>5, <1>6, <2>1, <2>2, EmptyTakes
<1>8. was.phase # "gone"
  BY <1>1 DEF Live
<1> QED BY <1>2, <1>3, <1>4, <1>5, <1>6, <1>7, <1>8, HearingKeeps DEF was

-----------------------------------------------------------------------------
(* A side that ends the connection at what it heard.                       *)
LEMMA EndingKeeps ==
  ASSUME SessionInv, NEW c \in Connections, NEW side \in Sides, NEW news \in Seq(Heard),
         conn[c][side].phase \in Live, EndsTold(conn[c][side].phase, news), Silent(news), ~Tells(news, "Closed"),
         side = "server" => ~Tells(news, "Rejected"),
         End(c, side, news), UNCHANGED <<epochs, pumping, sent>>
  PROVE  SessionInv'
<1> DEFINE was == conn[c][side] keeps == Over(was)
<1>1. was \in Keeping /\ Framed /\ keeps.phase = "gone"
  BY Known, Ended
<1>2. epochs' \in Nat /\ pumping' \in [Parties -> BOOLEAN]
  BY <1>1 DEF Framed
<1>3. was.phase # "gone" /\ was.phase # "held" /\ was.phase # "none"
  BY DEF Live
<1>4. Phased(was.phase, "gone", news)
  BY DEF Phased
<1>5. Takes(side, was, keeps, way[c][side], news, <<>>)
  BY <1>1, <1>3, EmptyTakes
<1>6. /\ conn' = [conn EXCEPT ![c][side] = Over(@)] /\ way' = [way EXCEPT ![c] = WayEnded(c, side, "Closed")]
      /\ open' = [open EXCEPT ![c] = FALSE] /\ told' = [told EXCEPT ![c][side] = @ \o news]
  BY DEF End, Tell
<1> QED BY <1>2, <1>3, <1>4, <1>5, <1>6, EndKeeps

(* Bytes where they are not expected end a connection.                     *)
LEMMA OutOfTurnKeeps ==
  ASSUME SessionInv, NEW c \in Connections, NEW side \in Sides, NEW item,
         HearOutOfTurn(c, side, item), UNCHANGED <<pumping, sent>>
  PROVE  SessionInv'
<1> DEFINE news == <<News("ProtocolViolation", 0)>>
<1>1. /\ news \in Seq(Heard) /\ Len(news) = 1 /\ news[1].kind = "ProtocolViolation" /\ Silent(news)
      /\ \A other : Tells(news, other) <=> other = "ProtocolViolation"
  BY OneNews DEF NewsKinds, EndNews
<1>2. conn[c][side].phase \in Live /\ End(c, side, news) /\ UNCHANGED epochs
  BY DEF HearOutOfTurn
<1> HIDE DEF news
<1>3. EndsTold(conn[c][side].phase, news)
  BY <1>1 DEF EndsTold, EndNews
<1> QED BY <1>1, <1>2, <1>3, EndingKeeps

(* A client reads that it was rejected.                                    *)
LEMMA RejectKeeps ==
  ASSUME SessionInv, NEW c \in Connections, NEW item, HearReject(c, item), UNCHANGED <<pumping, sent>>
  PROVE  SessionInv'
<1> DEFINE a == News("rejected", 0) b == News("Rejected", 0) news == <<News("rejected", 0), News("Rejected", 0)>>
<1>1. a \in Heard /\ b \in Heard /\ a.kind = "rejected" /\ b.kind = "Rejected"
  BY DEF News, Heard, NewsKinds, EndNews
<1>2. conn[c]["client"].phase = "verdict" /\ End(c, "client", news) /\ UNCHANGED epochs /\ "client" \in Sides
  BY DEF HearReject, Sides
<1>3. news = <<a, b>>
  OBVIOUS
<1> HIDE DEF a, b, news
<1>4. news \in Seq(Heard) /\ Len(news) = 2 /\ news[1] = a /\ news[2] = b /\ \A i \in DOMAIN news : news[i] \in {a, b}
  BY <1>1, <1>3
<1>5. Silent(news) /\ ~Tells(news, "Closed")
  BY <1>1, <1>4 DEF Silent, Tells
<1>6. EndsTold(conn[c]["client"].phase, news) /\ conn[c]["client"].phase \in Live
  BY <1>1, <1>2, <1>4 DEF EndsTold, EndNews, Early, Live
<1> QED BY <1>2, <1>4, <1>5, <1>6, EndingKeeps

(* What the game hears: frames, a record, a datagram.                      *)
LEMMA GameKeeps ==
  ASSUME SessionInv, NEW c \in Connections, NEW side \in Sides, NEW i \in DOMAIN way[c][side],
         MayArrive(c, side, i), HearGame(c, side, way[c][side][i], LeftOf(c, side, i)), UNCHANGED <<pumping, sent>>
  PROVE  SessionInv'
<1> DEFINE was == conn[c][side] going == way[c][side] item == going[i] left == LeftOf(c, side, i)
           news == CASE item.kind = "frames" -> [j \in DOMAIN item.numbers |-> News("frame", item.numbers[j])]
                     [] item.kind = "event" -> <<News("event", item.numbers[2])>>
                     [] OTHER -> <<News("datagram", item.numbers[1])>>
<1>1. /\ was \in Keeping /\ Framed /\ left \in Seq(Parcel) /\ item \in Parcel
      /\ conn[c] \in [Sides -> Keeping]
  BY Known, ArrivingOf
<1>2. /\ item.kind \in {"frames", "event", "datagram"} /\ Expected(c, side, item) /\ way' = [way EXCEPT ![c][side] = left]
      /\ told' = [told EXCEPT ![c][side] = @ \o news] /\ UNCHANGED <<conn, epochs, open>>
  BY DEF HearGame, Tell
<1>3. was.phase = "active"
  BY <1>2 DEF Expected
<1>4. epochs' \in Nat /\ pumping' \in [Parties -> BOOLEAN] /\ conn' = [conn EXCEPT ![c][side] = was]
  BY <1>1, <1>2 DEF Framed
<1>5. left = Without(going, i)
  BY <1>2 DEF LeftOf, Ends
<1>6. item.kind = "event" => \A j \in 1..(i - 1) : going[j].kind # "event"
  BY FirstOfLane
<1> HIDE DEF item, going, left, was
<1>7. /\ item.numbers \in Seq(Nat)
      /\ item.kind = "event" => Len(item.numbers) = 2
      /\ item.kind = "datagram" => Len(item.numbers) = 1
  BY <1>1 DEF Parcel, Carries
<1>8. /\ news \in Seq(Heard) /\ \A j \in DOMAIN news : news[j].kind \in Game
      /\ ~Tells(news, "Closed")
      /\ item.kind # "event" => Silent(news)
      /\ item.kind = "event" => news = <<News("event", item.numbers[2])>>
  <2>1. CASE item.kind = "frames"
    <3> DEFINE numbers == item.numbers n == Len(numbers)
    <3>1. numbers \in Seq(Nat) /\ n \in Nat /\ DOMAIN numbers = 1..n /\ \A j \in 1..n : numbers[j] \in Nat
      BY <1>7, LenProperties, ElementOfSeq
    <3>2. news = [j \in 1..n |-> News("frame", numbers[j])]
      BY <2>1, <3>1
    <3> HIDE DEF n, numbers, news
    <3>3. \A j \in 1..n : News("frame", numbers[j]) \in Heard /\ News("frame", numbers[j]).kind = "frame"
      BY <3>1 DEF News, Heard, NewsKinds
    <3>4. news \in Seq(Heard)
      <4>1. news \in [1..n -> Heard]
        BY <3>2, <3>3
      <4> QED BY <3>1, <4>1, SeqDef
    <3>5. \A j \in DOMAIN news : news[j].kind = "frame"
      BY <3>2, <3>3
    <3> QED BY <2>1, <3>4, <3>5 DEF Game, Tells, Silent
  <2>2. CASE item.kind = "event"
    <3> DEFINE number == item.numbers[2]
    <3>1. number \in Nat /\ news = <<News("event", number)>>
      BY <1>7, <2>2
    <3> HIDE DEF number, news
    <3>2. /\ news \in Seq(Heard) /\ \A j \in DOMAIN news : news[j].kind = "event"
      BY <3>1, OneNews DEF NewsKinds
    <3> QED BY <2>2, <3>1, <3>2 DEF Game, Tells, number
  <2>3. CASE item.kind = "datagram"
    <3> DEFINE number == item.numbers[1]
    <3>1. number \in Nat /\ news = <<News("datagram", number)>>
      BY <1>7, <2>3
    <3> HIDE DEF number, news
    <3>2. /\ news \in Seq(Heard) /\ \A j \in DOMAIN news : news[j].kind = "datagram"
      BY <3>1, OneNews DEF NewsKinds
    <3> QED BY <2>3, <3>2 DEF Game, Tells, Silent
  <2> QED BY <1>2, <2>1, <2>2, <2>3
<1> HIDE DEF news
<1>9. Phased(was.phase, was.phase, news)
  BY <1>3, <1>8 DEF Phased
<1>10. Takes(side, was, was, going, news, left)
  BY <1>3, <1>5, <1>6, <1>8 DEF Takes, item, going
<1> QED BY <1>1, <1>2, <1>3, <1>4, <1>8, <1>9, <1>10, HearingKeeps DEF was, going

-----------------------------------------------------------------------------
(* One that could not answer.                                              *)
LEMMA UnsentKeeps ==
  ASSUME SessionInv, NEW c \in Connections, NEW side \in Sides, NEW items \in Seq(Parcel), Len(items) = 1,
         NEW reason \in {"ProtocolViolation", "QueueExhausted", "Rejected"},
         conn[c][side].phase \in Live,
         NEW sends \in Outcomes(c, side, items), ~sends,
         EndUnsent(c, side, items, reason), epochs' \in Nat, UNCHANGED <<pumping, sent>>
  PROVE  SessionInv'
<1> DEFINE news == <<News(reason, 0)>> was == conn[c][side] keeps == Over(was) had == sent[c][side]
           w2 == [WayWith(c, side, items, <<>>) EXCEPT ![side] = <<>>]
<1>1. was \in Keeping /\ Framed /\ keeps.phase = "gone"
  BY Known, Ended
<1>2. pumping' \in [Parties -> BOOLEAN]
  BY <1>1 DEF Framed
<1>3. was.phase # "gone" /\ was.phase # "none"
  BY DEF Live
<1>4. /\ news \in Seq(Heard) /\ Len(news) = 1 /\ news[1].kind = reason /\ Silent(news) /\ ~Tells(news, "Closed")
      /\ reason \in EndNews
  <2>1. reason \in NewsKinds /\ reason # "event" /\ reason # "Closed" /\ reason \in EndNews
    BY DEF NewsKinds, EndNews, Ends
  <2> QED BY <2>1, OneNews
<1>5. open[c] => Broken(c, side, items)
  BY DEF Outcomes, Broken
<1>6. /\ conn' = [conn EXCEPT ![c][side] = keeps] /\ way' = [way EXCEPT ![c] = w2]
      /\ open' = [open EXCEPT ![c] = FALSE] /\ told' = [told EXCEPT ![c][side] = @ \o news]
  BY DEF EndUnsent, Tell
<1> HIDE DEF news
<1>7. Phased(was.phase, "gone", news)
  BY <1>4 DEF Phased, EndsTold
<1>8. Takes(side, was, keeps, way[c][side], news, <<>>)
  BY <1>1, <1>3, <1>4, EmptyTakes
<1>9. Turn(c, side, keeps, w2, FALSE, news, had)
  BY <1>3, <1>4, <1>5, <1>7, <1>8, UnsentTurn
<1>10. Alters(c, side, keeps, news, had)
  BY <1>6 DEF Alters
<1> HIDE DEF w2, keeps, had
<1> QED BY <1>2, <1>6, <1>9, <1>10, TurnAlone

(* One that answers what it heard.                                         *)
LEMMA AnswerKeeps ==
  ASSUME SessionInv, NEW c \in Connections, NEW side \in Sides, NEW i \in DOMAIN way[c][side],
         NEW keeps \in Keeping, NEW items \in Seq(Parcel), NEW news \in Seq(Heard),
         way[c][side][i].kind \notin {"event", "accept"} \cup Ends,
         conn[c][side].phase \in Live, conn[c][side].phase # "active", side = "client" => keeps.phase # "active",
         Silent(news), ~Tells(news, "Closed"),
         Phased(conn[c][side].phase, keeps.phase, news), keeps.unsent \in {<<>>, conn[c][side].unsent},
         keeps.exhausted = conn[c][side].exhausted \/ keeps.phase \in Done,
         \A j \in DOMAIN items : \/ items[j].kind \notin Bare
                                 \/ items[j].kind = "accept" /\ side = "server" /\ AdmittedWith(news, items[j].numbers[1]),
         conn' = [conn EXCEPT ![c][side] = keeps], Put(c, side, items, LeftOf(c, side, i)),
         told' = [told EXCEPT ![c][side] = @ \o news] \/ (news = <<>> /\ told' = told),
         epochs' \in Nat, UNCHANGED <<pumping, sent>>
  PROVE  SessionInv'
<1> DEFINE was == conn[c][side] going == way[c][side] had == sent[c][side] left == LeftOf(c, side, i)
<1>1. was \in Keeping /\ Framed /\ had \in Counts /\ left \in Seq(Parcel)
  BY Known, ArrivingOf
<1>2. pumping' \in [Parties -> BOOLEAN]
  BY <1>1 DEF Framed
<1>3. was.phase # "gone" /\ was.phase # "none"
  BY DEF Live
<1>4. left = Without(going, i)
  BY DEF LeftOf
<1>5. Alters(c, side, keeps, news, had)
  BY DEF Alters
<1> HIDE DEF left, had
<1>6. Takes(side, was, keeps, going, news, left)
  BY <1>3, <1>4, TakesOne
<1>7. Gives(side, was, keeps, news, had, had, items)
  <2>1. had.frames = had.frames /\ had.events = had.events
    OBVIOUS
  <2>2. ASSUME NEW j \in DOMAIN items
        PROVE  /\ items[j].kind \notin {"accepted", "datagram", "Closed", "event"}
               /\ items[j].kind = "accept" => side = "server" /\ AdmittedWith(news, items[j].numbers[1])
    BY DEF Bare
  <2> QED BY <1>3, <2>1, <2>2 DEF Gives
<1>8. open[c] /\ ~Broken(c, side, items) /\ keeps.phase \notin Done /\ ~keeps.exhausted =>
            ~was.exhausted /\ (had.events = had.events \/ Tells(items, "event"))
  OBVIOUS
<1> DEFINE w2 == WayWith(c, side, items, left) o2 == open[c] /\ ~Broken(c, side, items)
<1>9. Turn(c, side, keeps, w2, o2, news, had)
  BY <1>1, <1>6, <1>7, <1>8, PutTurn DEF had
<1>10. Put(c, side, items, left)
  BY DEF left
<1> QED BY <1>1, <1>2, <1>5, <1>9, <1>10, PutAlone

(* A client says hello.                                                    *)
LEMMA ConnectedKeeps ==
  ASSUME SessionInv, NEW c \in Connections, NEW i \in DOMAIN way[c]["client"],
         HearConnected(c, way[c]["client"][i], LeftOf(c, "client", i)), UNCHANGED <<pumping, sent>>
  PROVE  SessionInv'
<1> DEFINE side == "client" was == conn[c][side] item == way[c][side][i] hello == <<Item("hello", <<>>)>>
           keeps == [was EXCEPT !.phase = "verdict"] empty == <<>>
<1>0. side \in Sides
  BY DEF Sides
<1>1. was \in Keeping /\ Framed /\ item.kind = "connected" /\ was.phase = "connecting"
  BY <1>0, Known DEF HearConnected
<1>2. epochs' \in Nat
  BY <1>1 DEF Framed, HearConnected
<1>3. hello \in Seq(Parcel) /\ Len(hello) = 1 /\ \A j \in DOMAIN hello : hello[j].kind = "hello"
  <2>1. "hello" \in Kinds \ {"accept", "datagram", "event"}
    BY DEF Kinds
  <2> QED BY <2>1, Plain
<1>4. empty \in Seq(Heard) /\ Silent(empty) /\ empty = <<>> /\ \A kind : ~Tells(empty, kind)
  BY Nothing
<1>5. was.phase \in Live /\ item.kind \notin {"event", "accept"} \cup Ends
  BY <1>1 DEF Live, Ends
<1> PICK sends \in Outcomes(c, side, hello), reason \in {"ProtocolViolation", "QueueExhausted"} :
              IF sends
              THEN /\ Put(c, side, hello, LeftOf(c, side, i))
                   /\ conn' = [conn EXCEPT ![c][side].phase = "verdict"]
                   /\ UNCHANGED told
              ELSE EndUnsent(c, side, hello, reason)
  <2> DEFINE reasons == IF open[c] THEN {"ProtocolViolation"}
                        ELSE {"QueueExhausted"} \cup (IF Loopback THEN {} ELSE {"ProtocolViolation"})
  <2>1. \E sends \in Outcomes(c, side, hello), reason \in reasons :
              IF sends
              THEN /\ Put(c, side, hello, LeftOf(c, side, i))
                   /\ conn' = [conn EXCEPT ![c][side].phase = "verdict"]
                   /\ UNCHANGED told
              ELSE EndUnsent(c, side, hello, reason)
    BY DEF HearConnected
  <2>2. reasons \subseteq {"ProtocolViolation", "QueueExhausted"}
    OBVIOUS
  <2> HIDE DEF reasons, hello, side
  <2> QED BY <2>1, <2>2
<1>6. CASE sends
  <2>1. Put(c, side, hello, LeftOf(c, side, i)) /\ conn' = [conn EXCEPT ![c][side] = keeps] /\ told' = told
    BY <1>6
  <2> HIDE DEF was, hello, empty
  <2>2. keeps \in Keeping /\ keeps.phase = "verdict" /\ keeps.unsent = was.unsent /\ keeps.exhausted = was.exhausted
    BY <1>1 DEF Keeping, Phases, Live
  <2> HIDE DEF keeps
  <2>3. Phased(was.phase, keeps.phase, empty)
    BY <1>1, <1>4, <2>2 DEF Phased
  <2>4. /\ \A j \in DOMAIN hello : hello[j].kind \notin Bare
        /\ was.phase # "active" /\ keeps.phase # "active" /\ side = "client" /\ item.kind \notin {"event", "accept"} \cup Ends
    BY <1>1, <1>3, <1>5, <2>2 DEF Bare
  <2>5. \A j \in DOMAIN hello :
              hello[j].kind \notin Bare \/ (hello[j].kind = "accept" /\ side = "server" /\ AdmittedWith(empty, hello[j].numbers[1]))
    BY <2>4
  <2> HIDE DEF side
  <2> QED BY <1>0, <1>1, <1>2, <1>3, <1>4, <1>5, <2>1, <2>2, <2>3, <2>4, <2>5, AnswerKeeps DEF was, item
<1>7. CASE ~sends
  <2>1. EndUnsent(c, side, hello, reason)
    BY <1>7
  <2> HIDE DEF hello, side
  <2> QED BY <1>0, <1>2, <1>3, <1>5, <1>7, <2>1, UnsentKeeps
<1> QED BY <1>6, <1>7

(* A server rejects one.                                                   *)
LEMMA RefuseKeeps ==
  ASSUME SessionInv, NEW c \in Connections, NEW i \in DOMAIN way[c]["server"],
         Refuse(c, way[c]["server"][i], LeftOf(c, "server", i)), UNCHANGED <<pumping, sent>>
  PROVE  SessionInv'
<1> DEFINE side == "server" was == conn[c][side] item == way[c][side][i] reject == <<Item("reject", <<>>)>>
           keeps == Hold(was) news == <<News("Rejected", 0)>>
<1>0. side \in Sides
  BY DEF Sides
<1>1. was \in Keeping /\ Framed /\ item.kind = "hello" /\ was.phase = "hello"
  BY <1>0, Known DEF Refuse
<1>2. epochs' \in Nat
  BY <1>1 DEF Framed, Refuse
<1>3. reject \in Seq(Parcel) /\ Len(reject) = 1 /\ \A j \in DOMAIN reject : reject[j].kind = "reject"
  <2>1. "reject" \in Kinds \ {"accept", "datagram", "event"}
    BY DEF Kinds
  <2> QED BY <2>1, Plain
<1>4. /\ news \in Seq(Heard) /\ Len(news) = 1 /\ news[1].kind = "Rejected" /\ Silent(news) /\ ~Tells(news, "Closed")
  BY OneNews DEF NewsKinds, EndNews
<1>5. was.phase \in Live /\ item.kind \notin {"event", "accept"} \cup Ends
  BY <1>1 DEF Live, Ends
<1> PICK sends \in Outcomes(c, side, reject) :
              IF sends
              THEN /\ Put(c, side, reject, LeftOf(c, side, i))
                   /\ conn' = [conn EXCEPT ![c][side] = Hold(@)]
                   /\ Tell(c, side, news)
              ELSE EndUnsent(c, side, reject, "Rejected")
  BY DEF Refuse
<1>6. CASE sends
  <2>1. Put(c, side, reject, LeftOf(c, side, i)) /\ conn' = [conn EXCEPT ![c][side] = keeps]
        /\ told' = [told EXCEPT ![c][side] = @ \o news]
    BY <1>6 DEF Tell
  <2>2. keeps \in Keeping /\ keeps.phase = "held" /\ keeps.unsent = <<>>
    BY <1>1, Ended
  <2> HIDE DEF was, reject, news, keeps
  <2>3. Phased(was.phase, keeps.phase, news)
    BY <1>4, <1>5, <2>2 DEF Phased, EndsTold, EndNews
  <2>4. (\A j \in DOMAIN reject : reject[j].kind \notin Bare) /\ keeps.phase \in Done
    BY <1>3, <2>2 DEF Bare, Done
  <2>5. /\ was.phase # "active" /\ side # "client" /\ side = "server"
        /\ \A j \in DOMAIN reject :
              reject[j].kind \notin Bare \/ (reject[j].kind = "accept" /\ side = "server" /\ AdmittedWith(news, reject[j].numbers[1]))
    BY <1>1, <2>4
  <2> HIDE DEF side
  <2> QED BY <1>0, <1>1, <1>2, <1>3, <1>4, <1>5, <2>1, <2>2, <2>3, <2>4, <2>5, AnswerKeeps DEF was, item
<1>7. CASE ~sends
  <2>1. EndUnsent(c, side, reject, "Rejected")
    BY <1>7
  <2> HIDE DEF reject, side
  <2> QED BY <1>0, <1>2, <1>3, <1>5, <1>7, <2>1, UnsentKeeps
<1> QED BY <1>6, <1>7

(* A server admits one, under an epoch of its own.                         *)
LEMMA AdmitKeeps ==
  ASSUME SessionInv, NEW c \in Connections, NEW i \in DOMAIN way[c]["server"],
         Admit(c, way[c]["server"][i], LeftOf(c, "server", i)), UNCHANGED <<pumping, sent>>
  PROVE  SessionInv'
<1> DEFINE side == "server" was == conn[c][side] item == way[c][side][i] accept == <<Item("accept", <<epochs + 1>>)>>
           epoch == epochs + 1
           keeps == [was EXCEPT !.phase = "active", !.epoch = epoch] news == <<News("admitted", epoch)>>
<1>0. side \in Sides
  BY DEF Sides
<1>1. was \in Keeping /\ Framed /\ item.kind = "hello" /\ was.phase = "hello"
      /\ conn \in [Connections -> [Sides -> Keeping]]
  BY <1>0, Known DEF Admit, Framed
<1>2. epochs' = epoch /\ epoch \in Nat
  BY <1>1 DEF Framed, Admit
<1>3. /\ accept \in Seq(Parcel) /\ Len(accept) = 1
      /\ \A j \in DOMAIN accept : accept[j].kind = "accept" /\ accept[j].numbers[1] = epoch
  <2> DEFINE l == <<epoch>> x == Item("accept", l)
  <2>1. accept = <<x>>
    OBVIOUS
  <2> HIDE DEF epoch
  <2>2. l \in Seq(Nat) /\ Len(l) = 1 /\ l[1] = epoch
    BY <1>2
  <2> HIDE DEF l, accept
  <2>3. x \in Parcel /\ x.kind = "accept" /\ x.numbers = l
    BY <2>2 DEF Item, Parcel, Carries, Kinds
  <2> HIDE DEF x
  <2>4. <<x>> \in Seq(Parcel) /\ Len(<<x>>) = 1 /\ \A j \in DOMAIN <<x>> : <<x>>[j] = x
    BY <2>3
  <2> QED BY <2>1, <2>2, <2>3, <2>4
<1>4. /\ news \in Seq(Heard) /\ Len(news) = 1 /\ news[1] = News("admitted", epoch) /\ news[1].kind = "admitted"
      /\ Silent(news) /\ ~Tells(news, "Closed")
  <2> HIDE DEF epoch
  <2> QED BY <1>2, OneNews DEF NewsKinds
<1>5. was.phase \in Live /\ item.kind \notin {"event", "accept"} \cup Ends
  BY <1>1 DEF Live, Ends
<1>6. PICK sends \in Outcomes(c, side, accept) :
              IF sends
              THEN /\ Put(c, side, accept, LeftOf(c, side, i))
                   /\ conn' = [conn EXCEPT ![c][side].phase = "active", ![c][side].epoch = epochs']
                   /\ Tell(c, side, <<News("admitted", epochs')>>)
              ELSE EndUnsent(c, side, accept, "QueueExhausted")
  BY DEF Admit
<1>7. CASE sends
  <2>1. /\ Put(c, side, accept, LeftOf(c, side, i)) /\ conn' = [conn EXCEPT ![c][side] = keeps]
        /\ told' = [told EXCEPT ![c][side] = @ \o news]
    <3>1. /\ Put(c, side, accept, LeftOf(c, side, i)) 
          /\ conn' = [conn EXCEPT ![c][side].phase = "active", ![c][side].epoch = epoch]
          /\ told' = [told EXCEPT ![c][side] = @ \o news]
      BY <1>2, <1>6, <1>7 DEF Tell
    <3> HIDE DEF epoch
    <3>2. conn' = [conn EXCEPT ![c][side] = keeps]
      BY <1>0, <1>1, <3>1
    <3> QED BY <3>1, <3>2
  <2> HIDE DEF was, accept, news, epoch
  <2>2. keeps \in Keeping /\ keeps.phase = "active" /\ keeps.unsent = was.unsent /\ keeps.exhausted = was.exhausted
    BY <1>1, <1>2 DEF Keeping, Phases, Live
  <2> HIDE DEF keeps
  <2>3. Phased(was.phase, keeps.phase, news)
    BY <1>1, <1>4, <2>2 DEF Phased
  <2>4. AdmittedWith(news, epoch)
    <3>1. 1 \in DOMAIN news
      BY <1>4, LenProperties
    <3> QED BY <1>4, <3>1 DEF AdmittedWith
  <2>5. was.phase # "active" /\ side = "server" /\ side # "client" /\ epochs' \in Nat
    BY <1>1, <1>2
  <2>6. \A j \in DOMAIN accept : accept[j].kind = "accept" /\ side = "server" /\ AdmittedWith(news, accept[j].numbers[1])
    BY <1>3, <2>4, <2>5
  <2> HIDE DEF side
  <2> QED BY <1>0, <1>1, <1>3, <1>4, <1>5, <2>1, <2>2, <2>3, <2>5, <2>6, AnswerKeeps DEF was, item
<1>8. CASE ~sends
  <2>1. EndUnsent(c, side, accept, "QueueExhausted") /\ epochs' \in Nat
    BY <1>2, <1>6, <1>8
  <2> HIDE DEF accept, side
  <2> QED BY <1>0, <1>3, <1>5, <1>8, <2>1, UnsentKeeps
<1> QED BY <1>7, <1>8

-----------------------------------------------------------------------------
(* Whatever a pump hears.                                                  *)
LEMMA HearKeeps ==
  ASSUME SessionInv, NEW c \in Connections, NEW side \in Sides, Hear(c, side)
  PROVE  SessionInv'
<1> PICK i \in DOMAIN way[c][side] :
        LET item == way[c][side][i]
            left == IF item.kind \in Ends THEN <<>> ELSE Without(way[c][side], i)
        IN  /\ pumping[Party(c, side)]
            /\ MayArrive(c, side, i)
            /\ \/ side = "server" /\ (HearAccepted(c, item, left) \/ Refuse(c, item, left) \/ Admit(c, item, left))
               \/ side = "client" /\ (HearConnected(c, item, left) \/ HearReject(c, item) \/ HearAccept(c, item, left))
               \/ HearGame(c, side, item, left) \/ HearOutOfTurn(c, side, item)
               \/ HearEnd(c, side, item) \/ HearNothing(c, side, item, left)
            /\ UNCHANGED <<pumping, sent>>
  BY DEF Hear
<1> DEFINE item == way[c][side][i] left == LeftOf(c, side, i)
<1>1. /\ MayArrive(c, side, i) /\ UNCHANGED <<pumping, sent>>
      /\ \/ side = "server" /\ (HearAccepted(c, item, left) \/ Refuse(c, item, left) \/ Admit(c, item, left))
         \/ side = "client" /\ (HearConnected(c, item, left) \/ HearReject(c, item) \/ HearAccept(c, item, left))
         \/ HearGame(c, side, item, left) \/ HearOutOfTurn(c, side, item)
         \/ HearEnd(c, side, item) \/ HearNothing(c, side, item, left)
  BY DEF LeftOf
<1>2. CASE side = "server" /\ (HearAccepted(c, item, left) \/ Refuse(c, item, left) \/ Admit(c, item, left))
  BY <1>1, <1>2, AcceptedKeeps, RefuseKeeps, AdmitKeeps
<1>3. CASE side = "client" /\ (HearConnected(c, item, left) \/ HearReject(c, item) \/ HearAccept(c, item, left))
  BY <1>1, <1>3, ConnectedKeeps, RejectKeeps, AcceptKeeps
<1>4. CASE HearGame(c, side, item, left) \/ HearNothing(c, side, item, left)
  BY <1>1, <1>4, GameKeeps, DroppedKeeps
<1>5. CASE HearOutOfTurn(c, side, item) \/ HearEnd(c, side, item)
  BY <1>1, <1>5, OutOfTurnKeeps, EndHeardKeeps
<1> QED BY <1>1, <1>2, <1>3, <1>4, <1>5

(* Whatever an owner does.                                                 *)
LEMMA OwnKeeps ==
  ASSUME SessionInv, NEW c \in Connections, NEW side \in Sides, Own(c, side)
  PROVE  SessionInv'
<1>1. CASE SendFrame(c, side) \/ SendDatagram(c, side) \/ SendEvent(c, side)
  BY <1>1, FrameKeeps, DatagramKeeps, EventKeeps
<1>2. CASE Close(c, side) \/ CloseAfterSending(c) \/ Connect(c) \/ Vanish(c)
  BY <1>2, CloseKeeps, SendingCloseKeeps, ConnectKeeps, VanishKeeps
<1> QED BY <1>1, <1>2 DEF Own

(* Every step keeps it.                                                    *)
LEMMA NextKeeps ==
  ASSUME SessionInv, [Next]_vars
  PROVE  SessionInv'
<1>1. CASE UNCHANGED vars
  <2>1. /\ conn' = conn /\ way' = way /\ open' = open /\ told' = told /\ sent' = sent
        /\ epochs' = epochs /\ pumping' = pumping
    BY <1>1 DEF vars
  <2>2. Framed'
    BY <2>1 DEF SessionInv, Framed
  <2>3. \A c \in Connections : StepAt(c)
    BY <2>1, RestAt
  <2> QED BY <2>2, <2>3, AllStep
<1>2. ASSUME NEW p \in Parties, Pump(p) \/ Flush(p) PROVE SessionInv'
  <2>1. CASE Poll(p) \/ Flush(p)
    BY <2>1, PollKeeps
  <2>2. CASE Expire(p)
    BY <2>2, ExpireKeeps
  <2>3. ASSUME NEW c \in Connections, Hear(c, SideOf(p)) PROVE SessionInv'
    <3>1. SideOf(p) \in Sides
      BY DEF SideOf, Sides
    <3> QED BY <2>3, <3>1, HearKeeps
  <2> QED BY <1>2, <2>1, <2>2, <2>3 DEF Pump
<1>3. ASSUME NEW c \in Connections, NEW side \in Sides, Time(c, side) \/ Own(c, side) \/ Fail(c)
      PROVE  SessionInv'
  BY <1>3, TimeKeeps, OwnKeeps, FailKeeps
<1> QED BY <1>1, <1>2, <1>3 DEF Next

(* At first there is nothing of any connection.                            *)
LEMMA InitKept == Init => SessionInv
<1> SUFFICES ASSUME Init PROVE SessionInv
  OBVIOUS
<1> DEFINE empty == <<>> none == [what \in {"frames", "events", "datagrams"} |-> 0]
<1>1. /\ empty \in Seq(Heard) /\ empty \in Seq(Parcel) /\ (\A kind : ~Tells(empty, kind)) /\ empty = <<>>
      /\ \A i \in DOMAIN empty : FALSE
  BY Nothing
<1>2. Unknown \in Keeping /\ Unknown.phase = "none" /\ none \in Counts /\ none.events = 0
  BY Nothing DEF Unknown, Keeping, Phases, Counts
<1>3. Sides = {"server", "client"} /\ "server" \in Sides /\ "client" \in Sides /\ \A side \in Sides : Other(side) \in Sides
  BY DEF Sides, Other
<1>4. /\ conn = [c \in Connections |-> [side \in Sides |-> Unknown]] /\ epochs = 0
      /\ way = [c \in Connections |-> [side \in Sides |-> empty]] /\ open = [c \in Connections |-> FALSE]
      /\ pumping = [p \in Parties |-> FALSE]
      /\ told = [c \in Connections |-> [side \in Sides |-> empty]]
      /\ sent = [c \in Connections |-> [side \in Sides |-> none]]
  BY DEF Init
<1> HIDE DEF empty, none
<1>5. Framed
  BY <1>4 DEF Framed
<1>6. ASSUME NEW c \in Connections PROVE SoundAt(c) /\ GoodAt(c)
  <2> DEFINE k == conn[c] w == way[c] o == open[c] t == told[c] s == sent[c]
  <2>1. /\ k = [side \in Sides |-> Unknown] /\ w = [side \in Sides |-> empty] /\ o = FALSE
        /\ t = [side \in Sides |-> empty] /\ s = [side \in Sides |-> none]
    BY <1>4
  <2> HIDE DEF k, w, o, t, s
  <2>2. /\ \A side \in Sides : k[side] = Unknown /\ w[side] = empty /\ t[side] = empty /\ s[side] = none
        /\ \A side \in Sides : s[Other(side)] = none
    BY <1>3, <2>1
  <2>3. Sound(k, w, o, t, s)
    BY <1>1, <1>2, <2>1 DEF Sound
  <2>4. \A side \in Sides : Story(k[side].phase, t[side])
    BY <1>1, <1>2, <2>2 DEF Story, Ordered
  <2>5. \A side \in Sides : FramesOf(k[side].unsent, s[side].frames, w[Other(side)])
    BY <1>1, <1>3, <2>2 DEF FramesOf
  <2>6. \A side \in Sides : EventsOf(k[side].phase, k[Other(side)].phase, k[Other(side)].exhausted,
                                     o, w[side], t[side], s[Other(side)].events)
    <3> SUFFICES ASSUME NEW side \in Sides
                 PROVE  EventsOf(k[side].phase, k[Other(side)].phase, k[Other(side)].exhausted,
                                     o, w[side], t[side], s[Other(side)].events)
      OBVIOUS
    <3>1. w[side] = empty /\ t[side] = empty /\ s[Other(side)].events = 0
      BY <1>2, <2>2
    <3> QED BY <1>1, <3>1 DEF EventsOf, Numbered, NoneMissing
  <2>7. AskedOf(k["client"].phase, k["server"].phase, o, w["client"], w["server"])
    BY <1>1, <1>2, <1>3, <2>1, <2>2 DEF AskedOf
  <2>8. ~Tells(w["server"], "event")
    BY <1>1, <1>3, <2>2
  <2>9. EpochOf(k["client"], w["client"], t["server"])
    BY <1>1, <1>2, <1>3, <2>2 DEF EpochOf
  <2>10. ClosingOf(k["server"], w["client"], t["client"], t["server"])
    BY <1>1, <1>3, <2>2 DEF ClosingOf
  <2>11. Good(k, w, o, t, s)
    BY <2>4, <2>5, <2>6, <2>7, <2>8, <2>9, <2>10 DEF Good
  <2> QED BY <2>3, <2>11 DEF SoundAt, GoodAt, k, w, o, t, s
<1> QED BY <1>5, <1>6 DEF SessionInv

(* The connections' invariant holds in every state.                        *)
THEOREM ConnectionsKept == Spec => []SessionInv
<1>1. SessionInv /\ [Next]_vars => SessionInv'
  BY NextKeeps
<1> QED BY InitKept, <1>1, PTL DEF Spec

(* A sequence of what may travel is one of items.                          *)
LEMMA ItemsOf ==
  ASSUME NEW s \in Seq(Parcel)
  PROVE  s \in Seq([kind : Kinds, numbers : Seq(Nat)])
<1> DEFINE n == Len(s) items == [kind : Kinds, numbers : Seq(Nat)]
<1>1. n \in Nat /\ s \in [1..n -> Parcel]
  BY LenProperties
<1>2. \A item \in Parcel : item \in items
  BY DEF Parcel
<1> HIDE DEF n, items
<1>3. s \in [1..n -> items]
  BY <1>1, <1>2
<1>4. s \in Seq(items)
  BY <1>1, <1>3, SeqDef
<1> QED BY <1>4 DEF items

(* Every variable of Session has its type in every state.                  *)
THEOREM TypeCorrect == Spec => []TypeOK
<1>1. SessionInv => TypeOK
  <2> SUFFICES ASSUME SessionInv PROVE TypeOK
    OBVIOUS
  <2>1. Framed /\ \A c \in Connections : SoundAt(c)
    BY DEF SessionInv
  <2>2. conn \in [Connections -> [Sides -> [phase : Phases, epoch : Nat, unsent : Seq(Nat),
                                          exhausted : BOOLEAN, late : BOOLEAN]]]
    <3>1. \A c \in Connections : conn[c] \in [Sides -> Keeping]
      BY <2>1 DEF SoundAt, Sound
    <3> QED BY <2>1, <3>1 DEF Framed, Keeping
  <2>3. way \in [Connections -> [Sides -> Seq([kind : Kinds, numbers : Seq(Nat)])]]
    <3> DEFINE items == Seq([kind : Kinds, numbers : Seq(Nat)])
    <3>1. ASSUME NEW c \in Connections PROVE way[c] \in [Sides -> items]
      <4>1. way[c] \in [Sides -> Seq(Parcel)]
        BY <2>1 DEF SoundAt, Sound
      <4>2. \A side \in Sides : way[c][side] \in items
        BY <4>1, ItemsOf
      <4> HIDE DEF items
      <4> QED BY <4>1, <4>2
    <3> HIDE DEF items
    <3>2. way \in [Connections -> [Sides -> items]]
      BY <2>1, <3>1 DEF Framed
    <3> QED BY <3>2 DEF items
  <2>4. open \in [Connections -> BOOLEAN]
    <3>1. \A c \in Connections : open[c] \in BOOLEAN
      BY <2>1 DEF SoundAt, Sound
    <3> QED BY <2>1, <3>1 DEF Framed
  <2>5. told \in [Connections -> [Sides -> Seq([kind : NewsKinds, number : Nat])]]
    <3>1. \A c \in Connections : told[c] \in [Sides -> Seq(Heard)]
      BY <2>1 DEF SoundAt, Sound
    <3>2. told \in [Connections -> [Sides -> Seq(Heard)]]
      BY <2>1, <3>1 DEF Framed
    <3> QED BY <3>2 DEF Heard
  <2>6. sent \in [Connections -> [Sides -> [{"frames", "events", "datagrams"} -> Nat]]]
    <3>1. \A c \in Connections : sent[c] \in [Sides -> Counts]
      BY <2>1 DEF SoundAt, Sound
    <3> QED BY <2>1, <3>1 DEF Framed, Counts
  <2> QED BY <2>1, <2>2, <2>3, <2>4, <2>5, <2>6 DEF TypeOK, Framed
<1> QED BY ConnectionsKept, <1>1, PTL

(* Session::poll: an owner hears of an admission first, nothing before it  *)
(* but its refusal, and nothing after the end.                             *)
THEOREM StoryTold == Spec => []OwnersStory
<1>1. SessionInv => OwnersStory
  <2> SUFFICES ASSUME SessionInv, NEW c \in Connections, NEW side \in Sides,
                      NEW i \in DOMAIN told[c][side]
               PROVE  LET news == told[c][side][i]
                      IN  /\ news.kind \in {"frame", "event", "datagram"} =>
                                \E j \in 1..(i - 1) : told[c][side][j].kind = "admitted"
                          /\ news.kind = "admitted" => i = 1
                          /\ news.kind \in EndNews => i = Len(told[c][side])
    BY DEF OwnersStory
  <2>1. Ordered(told[c][side])
    BY DEF SessionInv, GoodAt, Good, Story
  <2> QED BY <2>1 DEF Ordered, Game
<1> QED BY ConnectionsKept, <1>1, PTL

(* verdict(), admit(): the epoch a client keeps is one the server admitted *)
(* that connection with.                                                   *)
THEOREM EpochShared == Spec => []OneEpoch
<1>1. SessionInv => OneEpoch
  BY DEF SessionInv, GoodAt, Good, EpochOf, AdmittedWith, OneEpoch
<1> QED BY ConnectionsKept, <1>1, PTL

(* sendEvent(): "no promised event is silently dropped", whatever is lost, *)
(* ended, refused or heard late.                                           *)
THEOREM NoneDropped == Spec => []EventsKept
<1>1. SessionInv => EventsKept
  <2> SUFFICES ASSUME SessionInv, NEW c \in Connections, NEW side \in Sides,
                      NEW i \in DOMAIN told[c][side], told[c][side][i].kind = "event"
               PROVE  {told[c][side][j].number : j \in {j \in 1..(i - 1) : told[c][side][j].kind = "event"}}
                        = 1..(told[c][side][i].number - 1)
    BY DEF EventsKept
  <2>1. NoneMissing(told[c][side])
    BY DEF SessionInv, GoodAt, Good, EventsOf
  <2> QED BY <2>1 DEF NoneMissing
<1> QED BY ConnectionsKept, <1>1, PTL

(* flush(): "a mapping reaches the transport before the state that uses    *)
(* it": no datagram overtakes a frame gathered before it.                  *)
THEOREM MappingFirst == Spec => []FramesFirst
<1>1. SessionInv => FramesFirst
  <2> SUFFICES ASSUME SessionInv, NEW c \in Connections, NEW side \in Sides,
                      NEW i \in DOMAIN way[c][Other(side)], NEW j \in DOMAIN conn[c][side].unsent,
                      way[c][Other(side)][i].kind = "datagram"
               PROVE  conn[c][side].unsent[j] > way[c][Other(side)][i].numbers[1]
    BY DEF FramesFirst
  <2>1. FramesOf(conn[c][side].unsent, sent[c][side].frames, way[c][Other(side)])
    BY DEF SessionInv, GoodAt, Good
  <2> QED BY <2>1 DEF FramesOf
<1> QED BY ConnectionsKept, <1>1, PTL

(* reject(): a refused client hears the server's close without the reason  *)
(* only where its deadline passed.                                         *)
THEOREM RejectionHeard == Spec => []RejectionArrives
<1>1. SessionInv => RejectionArrives
  <2> SUFFICES ASSUME SessionInv, NEW c \in Connections,
                      Tells(told[c]["server"], "Rejected"), Tells(told[c]["client"], "Closed")
               PROVE  conn[c]["server"].late
    BY DEF RejectionArrives, Tells
  <2>1. ClosingOf(conn[c]["server"], way[c]["client"], told[c]["client"], told[c]["server"])
    BY DEF SessionInv, GoodAt, Good
  <2> QED BY <2>1 DEF ClosingOf
<1> QED BY ConnectionsKept, <1>1, PTL

=============================================================================
