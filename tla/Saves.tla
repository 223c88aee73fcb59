------------------------------- MODULE Saves -------------------------------
(***************************************************************************)
(* Where a server's saves are written: world_runtime's Saves participant,  *)
(* the directory store under it and the file replacement under that.       *)
(*                                                                         *)
(* The Host's thread captures between ticks (the World every so often and  *)
(* when it stops, a player when they leave) and puts the bytes on a queue. *)
(* A flag says that someone is writing; whoever sets it hands the queue to *)
(* one task of the blocking-I/O executor, which empties it in order.  The  *)
(* Host loads on its own thread, and stop() writes what is left.           *)
(*                                                                         *)
(* One step is what one thread does between two points where another can   *)
(* see or change what it works on: a lock, the atomic flag, a file         *)
(* operation.                                                              *)
(***************************************************************************)
EXTENDS Naturals, Sequences, FiniteSets

CONSTANTS
    World,      \* the World's slot
    Players,    \* the players' slots, by identity
    Workers,    \* the blocking-I/O executor's threads
    Host,       \* the Host's thread
    Restoring,  \* whether a checkpoint brings the World (checkpoint.restore)
    CanFail,    \* whether a capture, a submission or a write may fail
    FileFails,  \* whether opening or reading a file, or flushing a directory, may
    PowerFails, \* whether a crash may take back what no flush made durable
    Stops,      \* bound: whether the Host is stopped before its process ends
    MaxKeeps,   \* bound: captures
    MaxCrashes  \* bound: crashes

ASSUME SlotsApart == World \notin Players
ASSUME HostApart == Host \notin Workers /\ "nobody" \notin Workers \cup {Host}
ASSUME Flags == {Restoring, CanFail, FileFails, PowerFails, Stops} \subseteq BOOLEAN
ASSUME Bounds == MaxKeeps \in Nat /\ MaxCrashes \in Nat

Slots == {World} \cup Players
Processes == Workers \cup {Host}

VARIABLES
    host,       \* where the Host is in its life
    present,    \* the players in the World
    unkept,     \* players whose kept save did not apply
    queued,     \* the queue of keeps, under its mutex
    writing,    \* the atomic flag
    submitted,  \* whether the executor holds a task not begun
    pc,         \* where each thread is in a keep or a task
    stage,      \* which drain each thread is in, or was last
    item,       \* the keep each thread took last
    kept,       \* the slot's file, as a load would read it
    partial,    \* the slot's file being made, beside it
    disk,       \* the slot's file, as a power failure would leave it
    keeps,      \* captures made
    told,       \* history: the last keep of each slot reported as kept
    unsure,     \* history: slots last reported over a flush that failed
    missed,     \* history: slots taken as never kept since they did not open
    crashes     \* crashes so far

game == <<present, unkept>>
files == <<kept, partial, disk>>
threads == <<pc, stage, item>>
reports == <<told, unsure>>
histories == <<told, unsure, missed>>
vars == <<host, present, unkept, queued, writing, submitted, pc, stage, item,
          kept, partial, disk, keeps, told, unsure, missed, crashes>>

-----------------------------------------------------------------------------
(* A captured slot on its way.  Captures are told apart by their number    *)
(* alone: what they hold of the game is not the store's concern.           *)
Keep == [slot : Slots, number : 1..MaxKeeps]

(* A file's content: which keep it is, whether it is all there, and who    *)
(* wrote it.  A fresh slot's is whole and empty; one kept by an earlier    *)
(* run under a declaration this one cannot read is not.                    *)
Nobody == "nobody"
File == [number : 0..MaxKeeps, whole : BOOLEAN, by : Processes \cup {Nobody}]
Before(whole) == [number |-> 0, whole |-> whole, by |-> Nobody]
None == [number |-> 0, whole |-> FALSE, by |-> Nobody]

(* Where a thread is.  "exchange": a keep is queued and the flag is next.  *)
(* From "pop" to "flush" it drains; then it clears the flag, looks whether *)
(* a keep came meanwhile, and takes the flag again.  "wait": in stop().    *)
Draining == {"pop", "make", "fill", "move", "flush"}
Places == Draining \cup {"idle", "exchange", "clear", "look", "retake", "wait"}

(* Which drain: the task's first and its second, the Host's own when no    *)
(* task could be submitted, and the one stop() ends with.                  *)
Stages == {"none", "first", "second", "own", "stop"}

Init ==
    /\ host = "starting"
    /\ present = {}
    /\ unkept = {}
    /\ queued = <<>>
    /\ writing = FALSE
    /\ submitted = FALSE
    /\ pc = [p \in Processes |-> "idle"]
    /\ stage = [p \in Processes |-> "none"]
    /\ item = [p \in Processes |-> [slot |-> World, number |-> 0]]
    /\ kept \in [Slots -> {Before(TRUE), Before(FALSE)}]
    /\ disk = kept
    /\ partial = [s \in Slots |-> None]
    /\ keeps = 0
    /\ told = [s \in Slots |-> 0]
    /\ unsure = {} /\ missed = {}
    /\ crashes = 0

-----------------------------------------------------------------------------
(* The Host's thread, between ticks.                                       *)

HostIdle == host = "running" /\ pc[Host] = "idle"

(* load(): what is read of a slot's file.  One that does not open, for     *)
(* whatever reason, is taken as a slot nothing was ever kept under.        *)
Loads(s, outcome) ==
    \/ outcome = "read" /\ kept[s].whole /\ UNCHANGED missed
    \/ outcome = "unread" /\ (FileFails \/ ~kept[s].whole) /\ UNCHANGED missed
    \/ outcome = "absent" /\ FileFails /\ missed' = missed \cup {s}

(* start(): the World's save is applied, or it starts fresh, or the start  *)
(* fails; a restored checkpoint supersedes the save.                       *)
StartRuns ==
    /\ host = "starting"
    /\ host' = "running"
    /\ \/ Restoring /\ UNCHANGED missed
       \/ ~Restoring /\ (Loads(World, "absent") \/ Loads(World, "read"))
    /\ UNCHANGED <<game, queued, writing, submitted, threads, files, keeps, reports, crashes>>

StartFails ==
    /\ host = "starting"
    /\ ~Restoring /\ Loads(World, "unread")
    /\ host' = "failed"
    /\ UNCHANGED <<game, queued, writing, submitted, threads, files, keeps, reports, crashes>>

(* joined(): the player takes what the store holds, or starts fresh, or    *)
(* plays on without it and is not kept.                                    *)
Join_ForgetsUnkept(p) ==
    /\ HostIdle
    /\ p \notin present
    /\ present' = present \cup {p}
    /\ \E outcome \in {"read", "unread", "absent"} : Loads(p, outcome)
    /\ UNCHANGED <<host, unkept, queued, writing, submitted, threads, files, keeps, reports, crashes>>

Join(p) ==
    /\ HostIdle
    /\ p \notin present
    /\ present' = present \cup {p}
    /\ \E outcome \in {"read", "unread", "absent"} :
          /\ Loads(p, outcome)
          /\ unkept' = IF outcome = "unread" THEN unkept \cup {p} ELSE unkept
    /\ UNCHANGED <<host, queued, writing, submitted, threads, files, keeps, reports, crashes>>

(* queue(): the slot is captured and pushed under the mutex; the flag is   *)
(* looked at next.                                                         *)
Push(s) ==
    /\ keeps < MaxKeeps
    /\ keeps' = keeps + 1
    /\ queued' = Append(queued, [slot |-> s, number |-> keeps + 1])
    /\ pc' = [pc EXCEPT ![Host] = "exchange"]

(* leaving(): the player goes, kept unless their save had not applied.     *)
Leave(p) ==
    /\ HostIdle
    /\ p \in present
    /\ present' = present \ {p}
    /\ \/ p \notin unkept /\ Push(p)
       \/ (p \in unkept \/ CanFail) /\ UNCHANGED <<queued, pc, keeps>>
    /\ UNCHANGED <<host, unkept, writing, submitted, stage, item, files, histories, crashes>>

(* runHostPhase(): the World's keep is due.                                *)
KeepWorld ==
    /\ HostIdle
    /\ Push(World)
    /\ UNCHANGED <<host, game, writing, submitted, stage, item, files, histories, crashes>>

(* Where a thread goes once its drain and its flag are done with.          *)
Rest(p) == IF p = Host /\ host = "stopping" THEN "wait" ELSE "idle"

(* queue(), the flag: someone writes already; or a task is submitted to    *)
(* write; or none can be, and the Host writes itself.                      *)
LeftToWriter ==
    /\ pc[Host] = "exchange"
    /\ writing
    /\ pc' = [pc EXCEPT ![Host] = Rest(Host)]
    /\ UNCHANGED <<host, game, queued, writing, submitted, stage, item, files, keeps, histories, crashes>>

Submit_LooksAtTask ==
    /\ pc[Host] = "exchange"
    /\ ~submitted
    /\ writing' = TRUE
    /\ submitted' = TRUE
    /\ pc' = [pc EXCEPT ![Host] = Rest(Host)]
    /\ UNCHANGED <<host, game, queued, stage, item, files, keeps, histories, crashes>>

Submit ==
    /\ pc[Host] = "exchange"
    /\ ~writing
    /\ writing' = TRUE
    /\ submitted' = TRUE
    /\ pc' = [pc EXCEPT ![Host] = Rest(Host)]
    /\ UNCHANGED <<host, game, queued, stage, item, files, keeps, histories, crashes>>

NotSubmitted ==
    /\ CanFail
    /\ pc[Host] = "exchange"
    /\ ~writing
    /\ writing' = TRUE
    /\ pc' = [pc EXCEPT ![Host] = "pop"]
    /\ stage' = [stage EXCEPT ![Host] = "own"]
    /\ UNCHANGED <<host, game, queued, submitted, item, files, keeps, histories, crashes>>

(* stop(): the players have left, the World is kept once more, and the     *)
(* Host waits for the flag, running the task itself if no worker has it.   *)
BeginStop ==
    /\ Stops
    /\ HostIdle
    /\ present = {}
    /\ host' = "stopping"
    /\ \/ Push(World)
       \/ CanFail /\ pc' = [pc EXCEPT ![Host] = "wait"] /\ UNCHANGED <<queued, keeps>>
    /\ UNCHANGED <<game, writing, submitted, stage, item, files, histories, crashes>>

StopDrains ==
    /\ pc[Host] = "wait"
    /\ ~writing
    /\ pc' = [pc EXCEPT ![Host] = "pop"]
    /\ stage' = [stage EXCEPT ![Host] = "stop"]
    /\ UNCHANGED <<host, game, queued, writing, submitted, item, files, keeps, histories, crashes>>

-----------------------------------------------------------------------------
(* The task, on a worker or on the Host helping in stop().                 *)
TakeTask(p) ==
    /\ submitted
    /\ pc[p] = IF p = Host THEN "wait" ELSE "idle"
    /\ p = Host => writing
    /\ submitted' = FALSE
    /\ pc' = [pc EXCEPT ![p] = "pop"]
    /\ stage' = [stage EXCEPT ![p] = "first"]
    /\ UNCHANGED <<host, game, queued, writing, item, files, keeps, histories, crashes>>

(* drain(): the next keep, under the mutex.                                *)
Pop(p) ==
    /\ pc[p] = "pop"
    /\ queued # <<>>
    /\ item' = [item EXCEPT ![p] = Head(queued)]
    /\ queued' = Tail(queued)
    /\ pc' = [pc EXCEPT ![p] = "make"]
    /\ UNCHANGED <<host, game, writing, submitted, stage, files, keeps, histories, crashes>>

Drained(p) ==
    /\ pc[p] = "pop"
    /\ queued = <<>>
    /\ IF stage[p] = "stop"
       THEN /\ pc' = [pc EXCEPT ![p] = "idle"]
            /\ host' = "stopped"
       ELSE /\ pc' = [pc EXCEPT ![p] = "clear"]
            /\ UNCHANGED host
    /\ UNCHANGED <<game, queued, writing, submitted, stage, item, files, keeps, histories, crashes>>

(* replaceFile(): what is at the partial file's place is taken away and a  *)
(* new one made there, ...                                                 *)
MakePartial(p) ==
    /\ pc[p] = "make"
    /\ partial' = [partial EXCEPT ![item[p].slot] =
                     [number |-> item[p].number, whole |-> FALSE, by |-> p]]
    /\ pc' = [pc EXCEPT ![p] = "fill"]
    /\ UNCHANGED <<host, game, queued, writing, submitted, stage, item, kept, disk, keeps, histories, crashes>>

(* ... written and flushed, wherever it is by now, ...                     *)
Filled(p, file) ==
    IF file.by = p /\ file.number = item[p].number THEN [file EXCEPT !.whole = TRUE] ELSE file

FillPartial_Left(p) ==
    /\ pc[p] = "fill"
    /\ pc' = [pc EXCEPT ![p] = "move"]
    /\ UNCHANGED <<host, game, queued, writing, submitted, stage, item, files, keeps, histories, crashes>>

FillPartial(p) ==
    /\ pc[p] = "fill"
    /\ partial' = [partial EXCEPT ![item[p].slot] = Filled(p, @)]
    /\ kept' = [kept EXCEPT ![item[p].slot] = Filled(p, @)]
    /\ disk' = [disk EXCEPT ![item[p].slot] = Filled(p, @)]
    /\ pc' = [pc EXCEPT ![p] = "move"]
    /\ UNCHANGED <<host, game, queued, writing, submitted, stage, item, keeps, histories, crashes>>

(* ... moved over the slot's file, ...                                     *)
MovePartial(p) ==
    /\ pc[p] = "move"
    /\ partial[item[p].slot] # None
    /\ kept' = [kept EXCEPT ![item[p].slot] = partial[item[p].slot]]
    /\ partial' = [partial EXCEPT ![item[p].slot] = None]
    /\ pc' = [pc EXCEPT ![p] = "flush"]
    /\ UNCHANGED <<host, game, queued, writing, submitted, stage, item, disk, keeps, histories, crashes>>

(* ... and the directory flushed.  The keep's outcome is success either    *)
(* way: a flush that fails, or that the platform does not have, is not     *)
(* heard of.                                                               *)
FlushDirectory(p) ==
    /\ pc[p] = "flush"
    /\ \/ /\ disk' = [disk EXCEPT ![item[p].slot] = kept[item[p].slot]]
          /\ unsure' = unsure \ {item[p].slot}
       \/ /\ FileFails
          /\ unsure' = unsure \cup {item[p].slot}
          /\ UNCHANGED disk
    /\ told' = [told EXCEPT ![item[p].slot] = item[p].number]
    /\ pc' = [pc EXCEPT ![p] = "pop"]
    /\ UNCHANGED <<host, game, queued, writing, submitted, stage, item, kept, partial, keeps, missed, crashes>>

(* Writing or moving failed: the partial file is taken away, and the one   *)
(* kept before stays.                                                      *)
WriteFails_Reported(p) ==
    /\ pc[p] \in {"make", "fill", "move"}
    /\ CanFail \/ (pc[p] = "move" /\ partial[item[p].slot] = None)
    /\ partial' = [partial EXCEPT ![item[p].slot] = None]
    /\ told' = [told EXCEPT ![item[p].slot] = item[p].number]
    /\ pc' = [pc EXCEPT ![p] = "pop"]
    /\ UNCHANGED <<host, game, queued, writing, submitted, stage, item, kept, disk, keeps, unsure, missed, crashes>>

WriteFails(p) ==
    /\ pc[p] \in {"make", "fill", "move"}
    /\ CanFail \/ (pc[p] = "move" /\ partial[item[p].slot] = None)
    /\ partial' = [partial EXCEPT ![item[p].slot] = None]
    /\ pc' = [pc EXCEPT ![p] = "pop"]
    /\ UNCHANGED <<host, game, queued, writing, submitted, stage, item, kept, disk, keeps, histories, crashes>>

(* The flag is cleared after a drain; only the task's first one looks      *)
(* again.                                                                  *)
Clear_Never(p) ==
    /\ pc[p] = "clear"
    /\ pc' = [pc EXCEPT ![p] = IF stage[p] = "first" THEN "look" ELSE Rest(p)]
    /\ UNCHANGED <<host, game, queued, writing, submitted, stage, item, files, keeps, histories, crashes>>

Clear(p) ==
    /\ pc[p] = "clear"
    /\ writing' = FALSE
    /\ pc' = [pc EXCEPT ![p] = IF stage[p] = "first" THEN "look" ELSE Rest(p)]
    /\ UNCHANGED <<host, game, queued, submitted, stage, item, files, keeps, histories, crashes>>

Look(p) ==
    /\ pc[p] = "look"
    /\ pc' = [pc EXCEPT ![p] = IF queued = <<>> THEN Rest(p) ELSE "retake"]
    /\ UNCHANGED <<host, game, queued, writing, submitted, stage, item, files, keeps, histories, crashes>>

Retake_Regardless(p) ==
    /\ pc[p] = "retake"
    /\ writing' = TRUE
    /\ pc' = [pc EXCEPT ![p] = "pop"]
    /\ stage' = [stage EXCEPT ![p] = "second"]
    /\ UNCHANGED <<host, game, queued, submitted, item, files, keeps, histories, crashes>>

Retake(p) ==
    /\ pc[p] = "retake"
    /\ writing' = TRUE
    /\ IF writing
       THEN pc' = [pc EXCEPT ![p] = Rest(p)] /\ UNCHANGED stage
       ELSE pc' = [pc EXCEPT ![p] = "pop"] /\ stage' = [stage EXCEPT ![p] = "second"]
    /\ UNCHANGED <<host, game, queued, submitted, item, files, keeps, histories, crashes>>

-----------------------------------------------------------------------------
(* The process ends where it stands and is started anew: what it held is   *)
(* gone, the files stay, and what no flush made durable is no more durable *)
(* for that.                                                               *)
Ends ==
    /\ crashes < MaxCrashes
    /\ host # "starting"
    /\ crashes' = crashes + 1
    /\ host' = "starting"
    /\ present' = {}
    /\ unkept' = {}
    /\ queued' = <<>>
    /\ writing' = FALSE
    /\ submitted' = FALSE
    /\ pc' = [p \in Processes |-> "idle"]
    /\ stage' = [p \in Processes |-> "none"]
    /\ missed' = {}
    /\ UNCHANGED <<item, partial, keeps>>

Crash == Ends /\ UNCHANGED <<kept, disk, reports>>

(* When the power goes too, a move whose directory was not flushed since   *)
(* may not have happened.  What was reported over a flush that failed is   *)
(* owed no longer.                                                         *)
PowerFailure ==
    /\ PowerFails
    /\ Ends
    /\ \E lost \in SUBSET Slots : kept' = [s \in Slots |-> IF s \in lost THEN disk[s] ELSE kept[s]]
    /\ disk' = kept'
    /\ told' = [s \in Slots |-> IF s \in unsure THEN 0 ELSE told[s]]
    /\ unsure' = {}

(* What the Host's thread does of its own accord, and what each thread     *)
(* goes on with once it has begun.                                         *)
Game ==
    \/ StartRuns \/ StartFails \/ KeepWorld \/ BeginStop
    \/ \E p \in Players : Join(p) \/ Leave(p)

Drain(p) ==
    \/ Pop(p) \/ Drained(p)
    \/ MakePartial(p) \/ FillPartial(p) \/ MovePartial(p) \/ FlushDirectory(p) \/ WriteFails(p)

Task(p) == TakeTask(p) \/ Clear(p) \/ Look(p) \/ Retake(p)

Goes(p) ==
    \/ Drain(p)
    \/ Task(p)
    \/ p = Host /\ (LeftToWriter \/ Submit \/ NotSubmitted \/ StopDrains)

Next == Game \/ (\E p \in Processes : Goes(p)) \/ Crash \/ PowerFailure

Spec == Init /\ [][Next]_vars

(* Threads are scheduled: one that can go on goes on.  The game, its       *)
(* players and crashes owe nothing.                                        *)
FairSpec == Spec /\ \A p \in Processes : WF_vars(Goes(p))

-----------------------------------------------------------------------------
(* Properties.                                                             *)

(* Every variable has its type.                                            *)
TypeOK ==
    /\ host \in {"starting", "running", "stopping", "stopped", "failed"}
    /\ present \subseteq Players
    /\ unkept \subseteq Players
    /\ queued \in Seq(Keep)
    /\ writing \in BOOLEAN
    /\ submitted \in BOOLEAN
    /\ pc \in [Processes -> Places]
    /\ stage \in [Processes -> Stages]
    /\ item \in [Processes -> [slot : Slots, number : 0..MaxKeeps]]
    /\ kept \in [Slots -> File]
    /\ partial \in [Slots -> File]
    /\ disk \in [Slots -> File]
    /\ keeps \in 0..MaxKeeps
    /\ told \in [Slots -> 0..MaxKeeps]
    /\ unsure \subseteq Slots /\ missed \subseteq Slots
    /\ crashes \in 0..MaxCrashes

(* The participant runs, or stop() still waits for the flag: it has not    *)
(* begun the drain it makes without it.                                    *)
Up == host \in {"starting", "running", "stopping", "failed"} /\ stage[Host] # "stop"

(* While it is up, at most one thread is writing: what the flag is for.    *)
(* The Host and two of the task's drains meet only by way of it.           *)
OneWriter ==
    Up => \A p, q \in Processes : pc[p] \in Draining /\ pc[q] \in Draining => p = q

(* "Two writes to one slot keep the later": a slot's file never goes back  *)
(* to an earlier capture, but for a power failure before the flush.        *)
LaterKept ==
    [][(Up /\ crashes' = crashes) => \A s \in Slots : kept[s].number <= kept'[s].number]_vars

(* "A crash leaves the old save or the new one, never part of either":     *)
(* whatever stands under a slot is all there, or was unreadable before     *)
(* anything was kept.                                                      *)
NeverTorn == Up => \A s \in Slots : kept[s].whole \/ kept[s].by = Nobody

(* What was reported as kept survives: the process whatever fails, and the *)
(* power unless its directory could not be flushed.                        *)
ReportedStays ==
    Up => \A s \in Slots : /\ told[s] <= kept[s].number
                           /\ (told[s] <= disk[s].number \/ s \in unsure)

(* "A kept save that does not read is never written over": the start       *)
(* stops, or the player is not kept, for as long as this process has not   *)
(* once failed to open the file and taken it as absent.                    *)
UnreadStays ==
    [][\A s \in Slots :
         /\ ~kept[s].whole /\ kept[s].by = Nobody
         /\ s = World => ~Restoring
         /\ s \notin missed
         => kept'[s] = kept[s]]_vars

(* stop() comes back: neither the worker's task nor a task no worker took  *)
(* keeps the Host waiting for ever.                                        *)
StopReturns == host = "stopping" ~> (host # "stopping")
=============================================================================
