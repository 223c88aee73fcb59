------------------------------ MODULE Session ------------------------------
(***************************************************************************)
(* Sessions over a provider: the network module's Sessions, one of a       *)
(* server and one of each client, and between them what the Provider       *)
(* contract promises of a connection.                                      *)
(*                                                                         *)
(* A client says hello on its control stream; the server answers once,     *)
(* with an accept or a reject.  Admitted, both send control frames,        *)
(* datagrams, and records on event lanes, each a stream of its own.  Each  *)
(* side pumps: it hands over what it gathered, polls what has arrived,     *)
(* hears it in order, and ends what is late.                               *)
(***************************************************************************)
EXTENDS Integers, Sequences, FiniteSets, SequencesExt

CONSTANTS
    Connections,    \* the connections that may be asked for, a client each
    Server,         \* the server's Sessions
    Loopback,       \* which provider: see Provider below
    MaxSessions,    \* profile.maximumSessions of the server
    MaxAdmitted,    \* settings.maximumAdmitted
    Held,           \* profile.maximumQueuedEvents: what an end may hold
    MostRecords,    \* kMaximumQueuedEventRecords
    Piece,          \* frames gathered before a stream send is full
    Speakers,       \* bound: the sides that send, once admitted
    MostSent        \* bound: how many of each kind a side sends

ASSUME ServerApart == Server \notin Connections
ASSUME Settings ==
    /\ Loopback \in BOOLEAN
    /\ {MaxSessions, MaxAdmitted, Held, MostRecords, Piece} \subseteq Nat \ {0}
    /\ Speakers \subseteq {"server", "client"}
    /\ MostSent \in [{"frames", "events", "datagrams"} -> Nat]

Sides == {"server", "client"}
Other(side) == IF side = "server" THEN "client" ELSE "server"
Parties == {Server} \cup Connections
Party(c, side) == IF side = "server" THEN Server ELSE c
SideOf(p) == IF p = Server THEN "server" ELSE "client"

VARIABLES
    conn,       \* what each side keeps of each connection
    epochs,     \* epochs drawn
    way,        \* what is on its way to each side of each connection
    open,       \* whether the provider holds a connection open
    pumping,    \* whether a party is in its pump
    told,       \* what each side's owner was told of each connection
    sent        \* what each side's owner sent on each connection

vars == <<conn, epochs, way, open, pumping, told, sent>>

-----------------------------------------------------------------------------
(* What a side keeps of a connection.  "held" is the server's rejected_.   *)
Live == {"connecting", "hello", "verdict", "active"}
Phases == Live \cup {"none", "held", "gone"}

Unknown == [phase |-> "none", epoch |-> 0, unsent |-> <<>>, exhausted |-> FALSE, late |-> FALSE]

(* A connection let go of; one only held until its peer has read why.      *)
Over(keeps) == [Unknown EXCEPT !.phase = "gone", !.late = keeps.late]
Hold(keeps) == [Unknown EXCEPT !.phase = "held"]

(* What travels: its kind, and the numbers it carries.                     *)
Item(kind, numbers) == [kind |-> kind, numbers |-> numbers]
Ends == {"Closed", "PeerGone", "QueueExhausted", "Refused"}
Kinds == {"accepted", "connected", "hello", "accept", "reject", "frames", "event", "datagram"} \cup Ends

StreamOf(item) ==
    CASE item.kind \in {"hello", "accept", "reject", "frames"} -> "control"
      [] item.kind = "event"    -> "lane"
      [] item.kind = "datagram" -> "datagram"
      [] OTHER                  -> "connection"

Init ==
    /\ conn = [c \in Connections |-> [side \in Sides |-> Unknown]]
    /\ epochs = 0
    /\ way = [c \in Connections |-> [side \in Sides |-> <<>>]]
    /\ open = [c \in Connections |-> FALSE]
    /\ pumping = [p \in Parties |-> FALSE]
    /\ told = [c \in Connections |-> [side \in Sides |-> <<>>]]
    /\ sent = [c \in Connections |-> [side \in Sides |-> [what \in {"frames", "events", "datagrams"} |-> 0]]]

-----------------------------------------------------------------------------
(* Provider.  A stream's bytes arrive in order; a stream send the peer has *)
(* no room for ends the connection at both ends; a datagram without room   *)
(* is dropped.  The loopback provider has one order for all streams, a     *)
(* close after them, and knows at once on both ends that a connection is   *)
(* over.  Over QUIC each stream has an order of its own, a close takes     *)
(* what had not arrived with it, what is sent before it is heard goes      *)
(* nowhere or fails, and the path itself may end the connection.           *)

Fits(c, to, count) == Len(way[c][to]) + count <= Held

(* Whether stream sends succeed.                                           *)
Outcomes(c, side, items) ==
    IF open[c] THEN {Fits(c, Other(side), Len(items))}
    ELSE IF Loopback THEN {FALSE} ELSE BOOLEAN

(* Whether they end the connection.                                        *)
Broken(c, side, items) == open[c] /\ ~Fits(c, Other(side), Len(items))

Exhausted == Item("QueueExhausted", <<>>)

(* What is on its way to both sides, these items sent by one and what is   *)
(* left on the way to it given.                                            *)
WayWith(c, side, items, left) ==
    LET to == Other(side)
        sending == IF ~open[c] THEN <<>>
                   ELSE IF Broken(c, side, items)
                        THEN SubSeq(items, 1, Held - Len(way[c][to])) \o <<Exhausted>>
                        ELSE items
    IN  [way[c] EXCEPT ![to] = @ \o sending,
                       ![side] = IF Broken(c, side, items) THEN Append(left, Exhausted) ELSE left]

Put(c, side, items, left) ==
    /\ way' = [way EXCEPT ![c] = WayWith(c, side, items, left)]
    /\ open' = [open EXCEPT ![c] = @ /\ ~Broken(c, side, items)]

(* Ended by one side, which hears no more of it; the other hears why.      *)
WayEnded(c, side, why) ==
    [way[c] EXCEPT ![side] = <<>>,
                   ![Other(side)] = IF open[c] THEN Append(@, Item(why, <<>>)) ELSE @]

(* What on its way to a side may arrive next: the first of its stream, and *)
(* over the loopback the first of all but datagrams; the end of the        *)
(* connection, over QUIC or of this side's own sending, before it all.     *)
MayArrive(c, side, i) ==
    LET item == way[c][side][i]
        before == {way[c][side][j] : j \in 1..(i - 1)}
    IN  \/ StreamOf(item) = "datagram" /\ \A b \in before : b.kind \notin {"accepted", "connected"}
        \/ Loopback /\ \A b \in before : StreamOf(b) = "datagram"
        \/ item.kind \in Ends /\ (Loopback => item.kind = "QueueExhausted")
        \/ ~Loopback /\ \A b \in before : StreamOf(b) \notin {StreamOf(item), "connection"}

(* A client's process ends without a word; its provider says so.           *)
Vanish(c) ==
    /\ conn[c]["client"].phase \in Live
    /\ conn' = [conn EXCEPT ![c]["client"] = Over(@)]
    /\ open' = [open EXCEPT ![c] = FALSE]
    /\ way' = [way EXCEPT ![c] = WayEnded(c, "client", "PeerGone")]
    /\ pumping' = [pumping EXCEPT ![c] = FALSE]
    /\ UNCHANGED <<epochs, told, sent>>

(* The path is silent too long, or a receiver has no room.                 *)
Fail(c) ==
    \E why \in {"PeerGone", "QueueExhausted"} :
        /\ ~Loopback /\ open[c]
        /\ open' = [open EXCEPT ![c] = FALSE]
        /\ way' = [way EXCEPT ![c] = [side \in Sides |-> Append(@[side], Item(why, <<>>))]]
        /\ UNCHANGED <<conn, epochs, pumping, told, sent>>

-----------------------------------------------------------------------------
(* What a pump hears.                                                      *)

Tell(c, side, news) == told' = [told EXCEPT ![c][side] = @ \o news]
News(kind, number) == [kind |-> kind, number |-> number]

(* end(): the connection is forgotten, closed at the provider, and its     *)
(* owner told.                                                             *)
End(c, side, news) ==
    /\ conn' = [conn EXCEPT ![c][side] = Over(@)]
    /\ way' = [way EXCEPT ![c] = WayEnded(c, side, "Closed")]
    /\ open' = [open EXCEPT ![c] = FALSE]
    /\ Tell(c, side, news)

(* The same where these items could not be sent: the peer hears of that.   *)
EndUnsent(c, side, items, reason) ==
    /\ conn' = [conn EXCEPT ![c][side] = Over(@)]
    /\ way' = [way EXCEPT ![c] = [WayWith(c, side, items, <<>>) EXCEPT ![side] = <<>>]]
    /\ open' = [open EXCEPT ![c] = FALSE]
    /\ Tell(c, side, <<News(reason, 0)>>)

(* Mutant: those held do not count.                                        *)
KeptLive == {c \in Connections : conn[c]["server"].phase \in Live}

(* sessions() and admitted().                                              *)
Kept == {c \in Connections : conn[c]["server"].phase \in Live \cup {"held"}}
Admitted == {c \in Connections : conn[c]["server"].phase = "active"}

HearAccepted(c, item, left) ==
    /\ item.kind = "accepted"
    /\ IF Cardinality(Kept) >= MaxSessions
       THEN End(c, "server", <<>>)
       ELSE /\ conn' = [conn EXCEPT ![c]["server"].phase = "hello"]
            /\ way' = [way EXCEPT ![c]["server"] = left]
            /\ UNCHANGED <<open, told>>
    /\ UNCHANGED epochs

(* An end before the hello is said may be found opening the stream.        *)
HearConnected(c, item, left) ==
    LET hello == <<Item("hello", <<>>)>>
        reasons == IF open[c] THEN {"ProtocolViolation"}
                   ELSE {"QueueExhausted"} \cup (IF Loopback THEN {} ELSE {"ProtocolViolation"})
    IN  /\ item.kind = "connected"
        /\ conn[c]["client"].phase = "connecting"
        /\ \E sends \in Outcomes(c, "client", hello), reason \in reasons :
              IF sends
              THEN /\ Put(c, "client", hello, left)
                   /\ conn' = [conn EXCEPT ![c]["client"].phase = "verdict"]
                   /\ UNCHANGED told
              ELSE EndUnsent(c, "client", hello, reason)
        /\ UNCHANGED epochs

(* Mutant: a rejection closes the connection it was sent on.               *)
RefuseAndClose(c, item, left) ==
    LET reject == <<Item("reject", <<>>)>>
    IN  /\ item.kind = "hello"
        /\ conn[c]["server"].phase = "hello"
        /\ \E sends \in Outcomes(c, "server", reject) :
              way' = [way EXCEPT ![c] = [WayWith(c, "server", IF sends THEN reject ELSE <<>>, <<>>) EXCEPT
                        !["client"] = @ \o (IF open[c] THEN <<Item("Closed", <<>>)>> ELSE <<>>)]]
        /\ open' = [open EXCEPT ![c] = FALSE]
        /\ conn' = [conn EXCEPT ![c]["server"] = Over(@)]
        /\ Tell(c, "server", <<News("Rejected", 0)>>)
        /\ UNCHANGED epochs

(* admit(): compatibility, capacity and the owner's rule decide.           *)
Refuse(c, item, left) ==
    LET reject == <<Item("reject", <<>>)>>
    IN  /\ item.kind = "hello"
        /\ conn[c]["server"].phase = "hello"
        /\ \E sends \in Outcomes(c, "server", reject) :
              IF sends
              THEN /\ Put(c, "server", reject, left)
                   /\ conn' = [conn EXCEPT ![c]["server"] = Hold(@)]
                   /\ Tell(c, "server", <<News("Rejected", 0)>>)
              ELSE EndUnsent(c, "server", reject, "Rejected")
        /\ UNCHANGED epochs

(* Mutant: the accept says one epoch, the server keeps the next.           *)
AdmitDrawingTwice(c, item, left) ==
    LET accept == <<Item("accept", <<epochs + 1>>)>>
    IN  /\ item.kind = "hello"
        /\ conn[c]["server"].phase = "hello"
        /\ Cardinality(Admitted) < MaxAdmitted
        /\ epochs' = epochs + 2
        /\ Put(c, "server", accept, left)
        /\ conn' = [conn EXCEPT ![c]["server"].phase = "active", ![c]["server"].epoch = epochs']
        /\ Tell(c, "server", <<News("admitted", epochs')>>)

Admit(c, item, left) ==
    LET accept == <<Item("accept", <<epochs + 1>>)>>
    IN  /\ item.kind = "hello"
        /\ conn[c]["server"].phase = "hello"
        /\ Cardinality(Admitted) < MaxAdmitted
        /\ epochs' = epochs + 1
        /\ \E sends \in Outcomes(c, "server", accept) :
              IF sends
              THEN /\ Put(c, "server", accept, left)
                   /\ conn' = [conn EXCEPT ![c]["server"].phase = "active", ![c]["server"].epoch = epochs']
                   /\ Tell(c, "server", <<News("admitted", epochs')>>)
              ELSE EndUnsent(c, "server", accept, "QueueExhausted")

(* verdict().                                                              *)
HearReject(c, item) ==
    /\ item.kind = "reject"
    /\ conn[c]["client"].phase = "verdict"
    /\ End(c, "client", <<News("rejected", 0), News("Rejected", 0)>>)
    /\ UNCHANGED epochs

HearAccept(c, item, left) ==
    LET epoch == item.numbers[1]
    IN  /\ item.kind = "accept"
        /\ conn[c]["client"].phase = "verdict"
        /\ conn' = [conn EXCEPT ![c]["client"].phase = "active", ![c]["client"].epoch = epoch]
        /\ way' = [way EXCEPT ![c]["client"] = left]
        /\ Tell(c, "client", <<News("admitted", epoch)>>)
        /\ UNCHANGED <<epochs, open>>

(* A stream's bytes are heard where they are expected; records are under   *)
(* the connection's epoch.                                                 *)
Expected(c, side, item) ==
    CASE item.kind = "hello" -> conn[c][side].phase = "hello"
      [] item.kind \in {"accept", "reject"} -> conn[c][side].phase = "verdict"
      [] item.kind = "event" -> conn[c][side].phase = "active" /\ item.numbers[1] = conn[c][side].epoch
      [] OTHER -> conn[c][side].phase = "active"

HearGame(c, side, item, left) ==
    /\ item.kind \in {"frames", "event", "datagram"}
    /\ Expected(c, side, item)
    /\ way' = [way EXCEPT ![c][side] = left]
    /\ Tell(c, side, CASE item.kind = "frames" -> [i \in DOMAIN item.numbers |-> News("frame", item.numbers[i])]
                       [] item.kind = "event" -> <<News("event", item.numbers[2])>>
                       [] OTHER -> <<News("datagram", item.numbers[1])>>)
    /\ UNCHANGED <<conn, epochs, open>>

HearOutOfTurn(c, side, item) ==
    /\ item.kind \in {"hello", "accept", "reject", "frames", "event"}
    /\ conn[c][side].phase \in Live
    /\ ~Expected(c, side, item)
    /\ End(c, side, <<News("ProtocolViolation", 0)>>)
    /\ UNCHANGED epochs

(* Mutant: the owner is told, the connection not forgotten.                *)
HearEndKeeping(c, side, item) ==
    /\ item.kind \in Ends
    /\ conn[c][side].phase \in Live \cup {"held"}
    /\ way' = [way EXCEPT ![c][side] = <<>>]
    /\ Tell(c, side, IF conn[c][side].phase = "held" THEN <<>> ELSE <<News(item.kind, 0)>>)
    /\ UNCHANGED <<conn, epochs, open>>

HearEnd(c, side, item) ==
    /\ item.kind \in Ends
    /\ conn[c][side].phase \in Live \cup {"held"}
    /\ conn' = [conn EXCEPT ![c][side] = Over(@)]
    /\ way' = [way EXCEPT ![c][side] = <<>>]
    /\ Tell(c, side, IF conn[c][side].phase = "held" THEN <<>> ELSE <<News(item.kind, 0)>>)
    /\ UNCHANGED <<epochs, open>>

(* What is of no connection it keeps, and datagrams too early, are dropped.*)
HearNothing(c, side, item, left) ==
    /\ item.kind # "accepted"
    /\ \/ conn[c][side].phase \notin Live \cup {"held"}
       \/ conn[c][side].phase = "held" /\ item.kind \notin Ends
       \/ item.kind = "datagram" /\ ~Expected(c, side, item)
    /\ way' = [way EXCEPT ![c][side] = left]
    /\ UNCHANGED <<conn, epochs, open, told>>

-----------------------------------------------------------------------------
(* A pump hands over what was gathered, polls, hears, and ends what is     *)
(* late: connections not yet admitted and those held past their deadline,  *)
(* and those whose event lanes could not keep their promise.               *)

Gathered(c, side) ==
    IF conn[c][side].unsent = <<>> THEN <<>> ELSE <<Item("frames", conn[c][side].unsent)>>

FlushAll(p) ==
    LET side == SideOf(p)
        mine == IF p = Server THEN Connections ELSE {p}
    IN  /\ conn' = [c \in Connections |->
                      IF c \in mine THEN [conn[c] EXCEPT ![side].unsent = <<>>] ELSE conn[c]]
        /\ way' = [c \in Connections |->
                     IF c \in mine THEN WayWith(c, side, Gathered(c, side), way[c][side]) ELSE way[c]]
        /\ open' = [c \in Connections |-> open[c] /\ (c \in mine => ~Broken(c, side, Gathered(c, side)))]

Poll(p) ==
    /\ ~pumping[p]
    /\ pumping' = [pumping EXCEPT ![p] = TRUE]
    /\ FlushAll(p)
    /\ UNCHANGED <<epochs, told, sent>>

(* Records the peer's provider may not have received: of those unheard, as *)
(* many as the path says.                                                  *)
Unread(c, side) == 0..Len(SelectSeq(way[c][Other(side)], LAMBDA item : item.kind = "event"))

(* Mutant: what is held is never let go.                                   *)
ExpireLive(p) ==
    LET side == SideOf(p)
        mine == IF p = Server THEN Connections ELSE {p}
        phase(c) == conn[c][side].phase
        over == {c \in mine : \/ phase(c) \in Live \ {"active"} /\ conn[c][side].late
                              \/ phase(c) = "active" /\ conn[c][side].exhausted}
    IN  /\ pumping[p]
        /\ pumping' = [pumping EXCEPT ![p] = FALSE]
        /\ conn' = [c \in Connections |-> IF c \in over THEN [conn[c] EXCEPT ![side] = Over(@)] ELSE conn[c]]
        /\ way' = [c \in Connections |-> IF c \in over THEN WayEnded(c, side, "Closed") ELSE way[c]]
        /\ open' = [c \in Connections |-> open[c] /\ c \notin over]
        /\ told' = [c \in Connections |-> IF c \in over THEN [told[c] EXCEPT ![side] =
                                            Append(@, News("TimedOut", 0))] ELSE told[c]]
        /\ UNCHANGED <<epochs, sent>>

Expire(p) ==
    LET side == SideOf(p)
        mine == IF p = Server THEN Connections ELSE {p}
        phase(c) == conn[c][side].phase
        timedOut == {c \in mine : phase(c) \in Live \ {"active"} /\ conn[c][side].late}
        heldOut == {c \in mine : phase(c) = "held" /\ conn[c][side].late}
    IN  \E old \in SUBSET {c \in mine : phase(c) = "active" /\ Unread(c, side) # {0}} :
          LET exhausted == {c \in mine : phase(c) = "active" /\ conn[c][side].exhausted} \cup old
              over == timedOut \cup heldOut \cup exhausted
          IN  /\ pumping[p]
              /\ pumping' = [pumping EXCEPT ![p] = FALSE]
              /\ conn' = [c \in Connections |->
                           IF c \in over THEN [conn[c] EXCEPT ![side] = Over(@)] ELSE conn[c]]
              /\ way' = [c \in Connections |-> IF c \in over THEN WayEnded(c, side, "Closed") ELSE way[c]]
              /\ open' = [c \in Connections |-> open[c] /\ c \notin over]
              /\ told' = [c \in Connections |-> [told[c] EXCEPT ![side] =
                            @ \o (IF c \in timedOut THEN <<News("TimedOut", 0)>>
                                  ELSE IF c \in exhausted THEN <<News("QueueExhausted", 0)>> ELSE <<>>)]]
              /\ UNCHANGED <<epochs, sent>>

(* Its deadline passes.                                                    *)
Time(c, side) ==
    /\ conn[c][side].phase \in (Live \ {"active"}) \cup {"held"}
    /\ ~conn[c][side].late
    /\ conn' = [conn EXCEPT ![c][side].late = TRUE]
    /\ UNCHANGED <<epochs, way, open, pumping, told, sent>>

-----------------------------------------------------------------------------
(* What owners do, between pumps.                                          *)

Connect(c) ==
    /\ conn[c]["client"].phase = "none"
    /\ conn' = [conn EXCEPT ![c]["client"].phase = "connecting"]
    /\ \/ /\ open' = [open EXCEPT ![c] = TRUE]
          /\ way' = [way EXCEPT ![c]["server"] = <<Item("accepted", <<>>)>>,
                                ![c]["client"] = <<Item("connected", <<>>)>>]
       \/ /\ way' = [way EXCEPT ![c]["client"] = <<Item("Refused", <<>>)>>]
          /\ UNCHANGED open
    /\ UNCHANGED <<epochs, pumping, told, sent>>

Speaks(c, side, what) ==
    /\ side \in Speakers
    /\ ~pumping[Party(c, side)]
    /\ conn[c][side].phase = "active"
    /\ sent[c][side][what] < MostSent[what]
    /\ sent' = [sent EXCEPT ![c][side][what] = @ + 1]

SendFrame(c, side) ==
    LET unsent == Append(conn[c][side].unsent, sent[c][side].frames + 1)
    IN  /\ Speaks(c, side, "frames")
        /\ IF Len(unsent) < Piece
           THEN /\ conn' = [conn EXCEPT ![c][side].unsent = unsent]
                /\ UNCHANGED <<way, open>>
           ELSE /\ conn' = [conn EXCEPT ![c][side].unsent = <<>>]
                /\ Put(c, side, <<Item("frames", unsent)>>, way[c][side])
        /\ UNCHANGED <<epochs, pumping, told>>

(* Mutant: a datagram goes without the frames gathered before it.          *)
SendDatagramAlone(c, side) ==
    LET datagram == Item("datagram", <<sent[c][side].frames>>)
    IN  /\ Speaks(c, side, "datagrams")
        /\ open[c] /\ Fits(c, Other(side), 1)
        /\ Put(c, side, <<datagram>>, way[c][side])
        /\ UNCHANGED <<conn, epochs, pumping, told>>

(* The frames gathered go first, so that a mapping is before the state     *)
(* that uses it; the datagram says after how many, and may be lost.        *)
SendDatagram(c, side) ==
    LET frames == Gathered(c, side)
        datagram == Item("datagram", <<sent[c][side].frames>>)
    IN  /\ Speaks(c, side, "datagrams")
        /\ conn' = [conn EXCEPT ![c][side].unsent = <<>>]
        /\ \E lost \in BOOLEAN :
              IF ~lost /\ open[c] /\ Fits(c, Other(side), Len(frames) + 1)
              THEN Put(c, side, Append(frames, datagram), way[c][side])
              ELSE Put(c, side, frames, way[c][side])
        /\ UNCHANGED <<epochs, pumping, told>>

(* Mutant: after a record refused for want of room the next is taken.      *)
SendEventAgain(c, side) ==
    LET frames == Gathered(c, side)
        record == Item("event", <<conn[c][side].epoch, sent[c][side].events + 1>>)
    IN  /\ Speaks(c, side, "events")
        /\ conn' = [conn EXCEPT ![c][side].unsent = <<>>]
        /\ \E unread \in Unread(c, side) :
              Put(c, side, IF unread + 1 > MostRecords THEN frames ELSE Append(frames, record), way[c][side])
        /\ UNCHANGED <<epochs, pumping, told>>

(* Records are numbered as the owner sends them, refused ones too.         *)
SendEvent(c, side) ==
    LET frames == Gathered(c, side)
        record == Item("event", <<conn[c][side].epoch, sent[c][side].events + 1>>)
    IN  /\ Speaks(c, side, "events")
        /\ \E flushed \in IF frames = <<>> THEN {TRUE} ELSE Outcomes(c, side, frames), unread \in Unread(c, side) :
              LET taken == flushed /\ ~conn[c][side].exhausted
                  full == unread + 1 > MostRecords
              IN  /\ conn' = [conn EXCEPT ![c][side].unsent = <<>>, ![c][side].exhausted = @ \/ (taken /\ full)]
                  /\ Put(c, side, IF taken /\ ~full THEN Append(frames, record) ELSE frames, way[c][side])
        /\ UNCHANGED <<epochs, pumping, told>>

Flush(p) ==
    /\ ~pumping[p]
    /\ FlushAll(p)
    /\ UNCHANGED <<epochs, pumping, told, sent>>

Close(c, side) ==
    /\ ~pumping[Party(c, side)]
    /\ conn[c][side].phase \in Live
    /\ End(c, side, <<>>)
    /\ UNCHANGED <<epochs, pumping, sent>>

CloseAfterSending(c) ==
    /\ ~pumping[Server]
    /\ conn[c]["server"].phase \in Live
    /\ Put(c, "server", Gathered(c, "server"), way[c]["server"])
    /\ conn' = [conn EXCEPT ![c]["server"] = Hold(@)]
    /\ UNCHANGED <<epochs, pumping, told, sent>>

-----------------------------------------------------------------------------
Without(s, i) == SubSeq(s, 1, i - 1) \o SubSeq(s, i + 1, Len(s))

(* A close takes with it what had not arrived.                             *)
Hear(c, side) ==
    \E i \in DOMAIN way[c][side] :
        LET item == way[c][side][i]
            left == IF item.kind \in Ends THEN <<>> ELSE Without(way[c][side], i)
        IN  /\ pumping[Party(c, side)]
            /\ MayArrive(c, side, i)
            /\ \/ side = "server" /\ (HearAccepted(c, item, left) \/ Refuse(c, item, left) \/ Admit(c, item, left))
               \/ side = "client" /\ (HearConnected(c, item, left) \/ HearReject(c, item) \/ HearAccept(c, item, left))
               \/ HearGame(c, side, item, left) \/ HearOutOfTurn(c, side, item)
               \/ HearEnd(c, side, item) \/ HearNothing(c, side, item, left)
            /\ UNCHANGED <<pumping, sent>>

Pump(p) ==
    \/ Poll(p) \/ Expire(p)
    \/ \E c \in Connections : Party(c, SideOf(p)) = p /\ Hear(c, SideOf(p))

Own(c, side) ==
    \/ SendFrame(c, side) \/ SendDatagram(c, side) \/ SendEvent(c, side) \/ Close(c, side)
    \/ side = "server" /\ CloseAfterSending(c)
    \/ side = "client" /\ (Connect(c) \/ Vanish(c))

Next ==
    \/ \E p \in Parties : Pump(p) \/ Flush(p)
    \/ \E c \in Connections, side \in Sides :
          Time(c, side) \/ Own(c, side) \/ Fail(c)

Spec == Init /\ [][Next]_vars

(* Owners pump, time passes, and what is sent on a stream is heard by some *)
(* pump.                                                                   *)
FairSpec ==
    /\ Spec
    /\ \A p \in Parties : WF_vars(Poll(p)) /\ WF_vars(Expire(p))
    /\ \A c \in Connections, side \in Sides :
          WF_vars(Time(c, side)) /\ SF_vars(Hear(c, side))

-----------------------------------------------------------------------------
(* Properties.                                                             *)

EndNews == Ends \cup {"Rejected", "TimedOut", "ProtocolViolation"}
NewsKinds == {"admitted", "rejected", "frame", "event", "datagram"} \cup EndNews

(* Every variable has its type.                                            *)
TypeOK ==
    /\ conn \in [Connections -> [Sides -> [phase : Phases, epoch : Nat, unsent : Seq(Nat),
                                          exhausted : BOOLEAN, late : BOOLEAN]]]
    /\ epochs \in Nat
    /\ way \in [Connections -> [Sides -> Seq([kind : Kinds, numbers : Seq(Nat)])]]
    /\ open \in [Connections -> BOOLEAN]
    /\ pumping \in [Parties -> BOOLEAN]
    /\ told \in [Connections -> [Sides -> Seq([kind : NewsKinds, number : Nat])]]
    /\ sent \in [Connections -> [Sides -> [{"frames", "events", "datagrams"} -> Nat]]]

(* An owner hears nothing of a connection before it is admitted but that   *)
(* it will not be, and nothing after its end.                              *)
OwnersStory ==
    \A c \in Connections, side \in Sides :
        \A i \in DOMAIN told[c][side] :
            LET news == told[c][side][i]
            IN  /\ news.kind \in {"frame", "event", "datagram"} =>
                       \E j \in 1..(i - 1) : told[c][side][j].kind = "admitted"
                /\ news.kind = "admitted" => i = 1
                /\ news.kind \in EndNews => i = Len(told[c][side])

(* Both sides of an admitted connection keep one epoch: a client is only   *)
(* admitted where the server admitted it.                                  *)
OneEpoch ==
    \A c \in Connections :
        conn[c]["client"].phase = "active" =>
            \E i \in DOMAIN told[c]["server"] :
                told[c]["server"][i] = News("admitted", conn[c]["client"].epoch)

(* "No promised event is silently dropped": the records an owner is told   *)
(* of are the first sent, in order, with none missing between: those       *)
(* before one are numbered as far as its own number, each once.            *)
EventsKept ==
    \A c \in Connections, side \in Sides :
        LET news == told[c][side]
            before(i) == {j \in 1..(i - 1) : news[j].kind = "event"}
        IN  \A i \in DOMAIN news :
                news[i].kind = "event" => {news[j].number : j \in before(i)} = 1..(news[i].number - 1)

(* "A mapping reaches the transport before the state that uses it": no     *)
(* datagram is under way while a frame sent before it is still gathered.   *)
FramesFirst ==
    \A c \in Connections, side \in Sides :
        \A i \in DOMAIN way[c][Other(side)], j \in DOMAIN conn[c][side].unsent :
            way[c][Other(side)][i].kind = "datagram" =>
                conn[c][side].unsent[j] > way[c][Other(side)][i].numbers[1]

(* The server keeps no more connections than its bounds say, those it      *)
(* holds for their peers to read why counted.                              *)
WithinBounds ==
    /\ Cardinality({c \in Connections : conn[c]["server"].phase \notin {"none", "gone"}}) <= MaxSessions
    /\ Cardinality(Admitted) <= MaxAdmitted

(* "A rejection must arrive": a refused client that hears the server's     *)
(* close and no reason was held until its deadline.                        *)
RejectionArrives ==
    \A c \in Connections :
        /\ \E i \in DOMAIN told[c]["server"] : told[c]["server"][i].kind = "Rejected"
        /\ \E i \in DOMAIN told[c]["client"] : told[c]["client"][i].kind = "Closed"
        => conn[c]["server"].late

(* A connection asked for comes to be admitted on both sides, or over on   *)
(* both: none stays half open, held or undecided.                          *)
BothOrNeither(c) ==
    \/ \A side \in Sides : conn[c][side].phase = "active"
    \/ \A side \in Sides : conn[c][side].phase \in {"none", "gone"}

Settles == \A c \in Connections : conn[c]["client"].phase = "connecting" ~> BothOrNeither(c)

=============================================================================
