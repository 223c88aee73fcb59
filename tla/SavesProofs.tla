---------------------------- MODULE SavesProofs ----------------------------
(***************************************************************************)
(* What Saves promises, for every set of players and workers, every bound  *)
(* and every failure: the flag admits one writer, a slot's file moves      *)
(* forward, and - where nothing stops the Host - what is reported stays    *)
(* and nothing torn is left.                                               *)
(***************************************************************************)
EXTENDS Saves, TLAPS

(* A thread has the flag: from its drain until it has cleared it.  The     *)
(* drain stop() ends with runs without it.                                 *)
Holds(p) == pc[p] \in Draining \cup {"clear"} /\ stage[p] # "stop"

(* The flag is handed over with the task, and one thread has it.           *)
Flag ==
    /\ \A p \in Processes : Holds(p) => writing /\ ~submitted
    /\ submitted => writing
    /\ \A p, q \in Processes : Holds(p) /\ Holds(q) => p = q

(* Only the Host ends without the flag, and then the participant stops.    *)
LastDrain ==
    /\ \A p \in Processes : stage[p] = "stop" =>
          /\ p = Host
          /\ \/ pc[p] \in Draining /\ host = "stopping"
             \/ pc[p] = "idle" /\ host = "stopped"
    /\ pc[Host] = "wait" => host = "stopping"

(* Captures are numbered as they are made.                                 *)
Numbered ==
    /\ \A s \in Slots : kept[s].number <= keeps /\ disk[s].number <= keeps
                        /\ partial[s].number <= keeps
    /\ \A p \in Processes : item[p].number <= keeps
    /\ \A i \in DOMAIN queued : queued[i].number <= keeps

(* The queue is in their order, and what is kept is behind what waits.     *)
QueueOrder ==
    /\ \A i, j \in DOMAIN queued : i < j => queued[i].number < queued[j].number
    /\ \A s \in Slots, i \in DOMAIN queued : kept[s].number < queued[i].number

(* What a thread writes is between the two.                                *)
Writing(p) == pc[p] \in {"make", "fill", "move"}

WriterOrder ==
    \A p \in Processes : Writing(p) =>
        /\ \A s \in Slots : kept[s].number < item[p].number
        /\ \A i \in DOMAIN queued : item[p].number < queued[i].number

(* The partial file is the writer's own, and what it moved is in place     *)
(* until it has flushed.                                                   *)
InPlace ==
    \A p \in Processes :
        /\ pc[p] \in {"fill", "move"} =>
             partial[item[p].slot].number = item[p].number /\ partial[item[p].slot].by = p
        /\ pc[p] = "move" => partial[item[p].slot].whole
        /\ pc[p] = "flush" => kept[item[p].slot].number = item[p].number

Order == Numbered /\ (Up => QueueOrder /\ WriterOrder /\ InPlace)

(* Where nothing stops the Host: files are whole, and what was told is in  *)
(* place, and on the disk but for a flush that failed.                     *)
Undisturbed == host \notin {"stopping", "stopped"}

Sound(file) == file.whole \/ file.by = Nobody

Whole ==
    /\ Undisturbed
    /\ \A s \in Slots : Sound(kept[s]) /\ Sound(disk[s])
    /\ \A s \in Slots : /\ disk[s].number <= kept[s].number /\ told[s] <= kept[s].number
                       /\ (told[s] <= disk[s].number \/ s \in unsure)

(* A slot whose save does not read, and a file of it.                      *)
Unread(s, file) == ~file.whole /\ file.by = Nobody /\ (s = World => ~Restoring)

(* Nothing of such a slot is on its way, nor will be.                      *)
Untouched(s) ==
    /\ \A i \in DOMAIN queued : queued[i].slot # s
    /\ \A p \in Processes : pc[p] \in Draining => item[p].slot # s \/ pc[p] = "pop"
    /\ s \in present => s \in unkept
    /\ s = World => host \in {"starting", "failed"}

Left ==
    /\ \A s \in Slots : partial[s] = None \/ partial[s].by # Nobody
    /\ \A s \in Slots : Unread(s, kept[s]) =>
          disk[s] = kept[s] /\ (s \in missed \/ Untouched(s))

-----------------------------------------------------------------------------
(* Types.                                                                  *)

(* Every variable starts with its type.                                    *)
LEMMA InitTypes == Init => TypeOK
<1> SUFFICES ASSUME Init PROVE TypeOK
  OBVIOUS
<1> USE SlotsApart, HostApart, Flags, Bounds DEF Init
<1>1. 0 \in 0..MaxKeeps /\ 0 \in 0..MaxCrashes /\ World \in Slots
  BY DEF Slots
<1>2. Before(TRUE) \in File /\ Before(FALSE) \in File /\ None \in File
  BY <1>1 DEF File, Before, None, Nobody
<1>3. kept \in [Slots -> File]
  BY <1>2
<1>4. partial \in [Slots -> File] /\ disk \in [Slots -> File]
  BY <1>2, <1>3
<1>5. queued \in Seq(Keep)
  OBVIOUS
<1>6. item \in [Processes -> [slot : Slots, number : 0..MaxKeeps]]
  BY <1>1
<1>7. /\ pc \in [Processes -> Places] /\ stage \in [Processes -> Stages]
      /\ told \in [Slots -> 0..MaxKeeps]
  BY <1>1 DEF Places, Stages
<1> QED
  BY <1>1, <1>3, <1>4, <1>5, <1>6, <1>7 DEF TypeOK

(* A keep is queued as one.                                                *)
LEMMA PushTypes ==
    ASSUME TypeOK, NEW s \in Slots, Push(s)
    PROVE  keeps' \in 0..MaxKeeps /\ queued' \in Seq(Keep) /\ pc' \in [Processes -> Places]
<1> USE Bounds, HostApart DEF TypeOK
<1>1. keeps' \in 0..MaxKeeps /\ keeps + 1 \in 1..MaxKeeps
  BY DEF Push
<1>2. [slot |-> s, number |-> keeps + 1] \in Keep
  BY <1>1 DEF Keep
<1>3. queued' \in Seq(Keep)
  BY <1>2 DEF Push
<1>4. pc' \in [Processes -> Places]
  BY DEF Push, Places, Processes
<1> QED
  BY <1>1, <1>3, <1>4

(* What names no keep is a file, too.                                      *)
LEMMA NoneIsFile == None \in File
  BY Bounds DEF None, File, Nobody

(* What is taken off the queue is what a thread holds.                     *)
LEMMA KeepIsItem ==
    ASSUME NEW k \in Keep
    PROVE  k \in [slot : Slots, number : 0..MaxKeeps]
  BY Bounds DEF Keep

(* Each step leaves every variable with its type.                          *)
LEMMA StepTypes == TypeOK /\ [Next]_vars => TypeOK'
<1> SUFFICES ASSUME TypeOK, [Next]_vars PROVE TypeOK'
  OBVIOUS
<1> USE SlotsApart, HostApart, Flags, Bounds
<1> USE DEF TypeOK, Slots, Processes, Places, Draining, Stages, game, files, threads, histories, reports
<1>1. CASE StartRuns
  BY <1>1 DEF StartRuns, Loads, File
<1>2. CASE StartFails
  BY <1>2 DEF StartFails, Loads
<1>3. CASE KeepWorld
  BY <1>3, PushTypes DEF KeepWorld
<1>4. CASE BeginStop
  BY <1>4, PushTypes DEF BeginStop
<1>6. ASSUME NEW p \in Players, Join(p) PROVE TypeOK'
  <2>1. unkept' \subseteq Players /\ missed' \subseteq Slots
    BY <1>6 DEF Join, Loads
  <2> QED BY <1>6, <2>1 DEF Join
<1>7. ASSUME NEW p \in Players, Leave(p) PROVE TypeOK'
  BY <1>7, PushTypes DEF Leave
<1>8. ASSUME NEW p \in Processes, Pop(p) PROVE TypeOK'
  <2>1. Head(queued) \in Keep /\ Tail(queued) \in Seq(Keep)
    BY <1>8 DEF Pop
  <2>2. Head(queued) \in [slot : Slots, number : 0..MaxKeeps]
    BY <2>1, KeepIsItem
  <2> QED BY <1>8, <2>1, <2>2 DEF Pop
<1>9. ASSUME NEW p \in Processes, Drained(p) PROVE TypeOK'
  BY <1>9 DEF Drained
<1>10. ASSUME NEW p \in Processes, MakePartial(p) PROVE TypeOK'
  BY <1>10 DEF MakePartial, File
<1>11. ASSUME NEW p \in Processes, FillPartial(p) PROVE TypeOK'
  <2>1. ASSUME NEW file \in File PROVE Filled(p, file) \in File
    BY DEF Filled, File
  <2> QED BY <1>11, <2>1 DEF FillPartial
<1>12. ASSUME NEW p \in Processes, MovePartial(p) PROVE TypeOK'
  BY <1>12, NoneIsFile DEF MovePartial
<1>13. ASSUME NEW p \in Processes, FlushDirectory(p) PROVE TypeOK'
  BY <1>13 DEF FlushDirectory
<1>14. ASSUME NEW p \in Processes, WriteFails(p) PROVE TypeOK'
  BY <1>14, NoneIsFile DEF WriteFails
<1>15. ASSUME NEW p \in Processes, TakeTask(p) PROVE TypeOK'
  BY <1>15 DEF TakeTask
<1>16. ASSUME NEW p \in Processes, Clear(p) PROVE TypeOK'
  BY <1>16 DEF Clear, Rest
<1>17. ASSUME NEW p \in Processes, Look(p) PROVE TypeOK'
  BY <1>17 DEF Look, Rest
<1>18. ASSUME NEW p \in Processes, Retake(p) PROVE TypeOK'
  BY <1>18 DEF Retake, Rest
<1>19. CASE LeftToWriter
  BY <1>19 DEF LeftToWriter, Rest
<1>20. CASE Submit
  BY <1>20 DEF Submit, Rest
<1>21. CASE NotSubmitted
  BY <1>21 DEF NotSubmitted
<1>22. CASE StopDrains
  BY <1>22 DEF StopDrains
<1>23. CASE Crash \/ PowerFailure
  <2>1. kept' \in [Slots -> File] /\ disk' \in [Slots -> File]
    <3>1. CASE Crash
      BY <3>1 DEF Crash
    <3>2. CASE PowerFailure
      <4>1. PICK lost \in SUBSET Slots : kept' = [s \in Slots |-> IF s \in lost THEN disk[s] ELSE kept[s]]
        BY <3>2 DEF PowerFailure
      <4>2. kept' \in [Slots -> File]
        BY <4>1
      <4> QED BY <3>2, <4>2 DEF PowerFailure
    <3> QED BY <1>23, <3>1, <3>2
  <2>2. told' \in [Slots -> 0..MaxKeeps] /\ unsure' \subseteq Slots
    <3>1. CASE Crash
      BY <3>1 DEF Crash
    <3>2. CASE PowerFailure
      <4>1. 0 \in 0..MaxKeeps
        OBVIOUS
      <4> QED BY <3>2, <4>1 DEF PowerFailure
    <3> QED BY <1>23, <3>1, <3>2
  <2>3. Ends
    BY <1>23 DEF Crash, PowerFailure
  <2>4. /\ pc' \in [Processes -> Places]
        /\ stage' \in [Processes -> Stages] /\ crashes' \in 0..MaxCrashes
    BY <2>3 DEF Ends
  <2>5. queued' \in Seq(Keep)
    BY <2>3 DEF Ends
  <2> QED BY <2>1, <2>2, <2>3, <2>4, <2>5 DEF Ends
<1>24. CASE UNCHANGED vars
  BY <1>24 DEF vars
<1> QED
  BY <1>1, <1>2, <1>3, <1>4, <1>6, <1>7, <1>8, <1>9, <1>10, <1>11, <1>12, <1>13, <1>14,
     <1>15, <1>16, <1>17, <1>18, <1>19, <1>20, <1>21, <1>22, <1>23, <1>24
  DEF Next, Game, Goes, Drain, Task

(* TypeOK holds throughout: every variable has its type in every state.    *)
THEOREM TypeCorrect == Spec => []TypeOK
  BY InitTypes, StepTypes, PTL DEF Spec

-----------------------------------------------------------------------------
(* The flag.                                                               *)

(* One step keeps who has it, and how the Host ends: only a drain's start  *)
(* and its end touch either.                                               *)
FlagInv == Flag /\ LastDrain

(* No step lets a second thread have the flag.                             *)
LEMMA StepFlag == TypeOK /\ FlagInv /\ [Next]_vars => FlagInv'
<1> SUFFICES ASSUME TypeOK, FlagInv, [Next]_vars PROVE FlagInv'
  OBVIOUS
<1> USE HostApart DEF FlagInv, Flag, LastDrain, Holds, Draining, Processes
<1>t. /\ pc \in [Processes -> Places] /\ stage \in [Processes -> Stages]
      /\ writing \in BOOLEAN /\ submitted \in BOOLEAN /\ Host \in Processes
  BY DEF TypeOK
<1>s. ASSUME UNCHANGED <<host, writing, submitted, pc, stage>> PROVE FlagInv'
  BY <1>s
<1>h. HostIdle => stage[Host] # "stop"
  BY DEF HostIdle
<1>p. ASSUME NEW slot, Push(slot), HostIdle, UNCHANGED <<writing, submitted, stage>>
      PROVE  FlagInv'
  BY <1>t, <1>h, <1>p DEF Push, HostIdle
<1>1. CASE StartRuns
  BY <1>1, <1>t DEF StartRuns, threads
<1>2. CASE StartFails
  BY <1>2, <1>t DEF StartFails, threads
<1>3. CASE KeepWorld
  BY <1>3, <1>p DEF KeepWorld
<1>4. CASE BeginStop
  <2>1. CASE Push(World)
    BY <1>4, <2>1, <1>p DEF BeginStop
  <2>2. CASE pc' = [pc EXCEPT ![Host] = "wait"]
    BY <1>4, <2>2, <1>t, <1>h DEF BeginStop, HostIdle
  <2> QED BY <1>4, <2>1, <2>2 DEF BeginStop
<1>6. ASSUME NEW p \in Players, Join(p) PROVE FlagInv'
  BY <1>6, <1>s DEF Join, threads
<1>7. ASSUME NEW p \in Players, Leave(p) PROVE FlagInv'
  <2>1. CASE Push(p)
    BY <1>7, <2>1, <1>p DEF Leave
  <2>2. CASE UNCHANGED <<queued, pc, keeps>>
    BY <1>7, <2>2, <1>s DEF Leave
  <2> QED BY <1>7, <2>1, <2>2 DEF Leave
<1>8. ASSUME NEW p \in Processes, Pop(p) PROVE FlagInv'
  BY <1>8, <1>t DEF Pop
<1>9. ASSUME NEW p \in Processes, Drained(p) PROVE FlagInv'
  BY <1>9, <1>t DEF Drained
<1>10. ASSUME NEW p \in Processes, MakePartial(p) PROVE FlagInv'
  BY <1>10, <1>t DEF MakePartial
<1>11. ASSUME NEW p \in Processes, FillPartial(p) PROVE FlagInv'
  BY <1>11, <1>t DEF FillPartial
<1>12. ASSUME NEW p \in Processes, MovePartial(p) PROVE FlagInv'
  BY <1>12, <1>t DEF MovePartial
<1>13. ASSUME NEW p \in Processes, FlushDirectory(p) PROVE FlagInv'
  BY <1>13, <1>t DEF FlushDirectory
<1>14. ASSUME NEW p \in Processes, WriteFails(p) PROVE FlagInv'
  BY <1>14, <1>t DEF WriteFails
<1>15. ASSUME NEW p \in Processes, TakeTask(p) PROVE FlagInv'
  BY <1>15, <1>t DEF TakeTask
<1>16. ASSUME NEW p \in Processes, Clear(p) PROVE FlagInv'
  BY <1>16, <1>t DEF Clear, Rest
<1>17. ASSUME NEW p \in Processes, Look(p) PROVE FlagInv'
  BY <1>17, <1>t DEF Look, Rest
<1>18. ASSUME NEW p \in Processes, Retake(p) PROVE FlagInv'
  BY <1>18, <1>t DEF Retake, Rest
<1>19. CASE LeftToWriter
  BY <1>19, <1>t DEF LeftToWriter, Rest
<1>20. CASE Submit
  BY <1>20, <1>t DEF Submit, Rest
<1>21. CASE NotSubmitted
  BY <1>21, <1>t DEF NotSubmitted
<1>22. CASE StopDrains
  BY <1>22, <1>t DEF StopDrains
<1>23. CASE Crash \/ PowerFailure
  BY <1>23 DEF Crash, PowerFailure, Ends
<1>24. CASE UNCHANGED vars
  BY <1>24, <1>s DEF vars
<1> QED
  BY <1>1, <1>2, <1>3, <1>4, <1>6, <1>7, <1>8, <1>9, <1>10, <1>11, <1>12, <1>13, <1>14,
     <1>15, <1>16, <1>17, <1>18, <1>19, <1>20, <1>21, <1>22, <1>23, <1>24
  DEF Next, Game, Goes, Drain, Task

(* The flag holds what it is for.                                          *)
LEMMA FlagMeans == TypeOK /\ FlagInv => OneWriter
<1> QED
  BY DEF TypeOK, FlagInv, Flag, LastDrain, Holds, OneWriter, Up, Draining, Processes

(* Nobody has it at first.                                                 *)
LEMMA InitFlag == Init => FlagInv
  BY HostApart DEF Init, FlagInv, Flag, LastDrain, Holds, Draining, Processes

(* OneWriter holds throughout: while the participant is up, at most one    *)
(* thread writes, for any number of workers.                               *)
THEOREM OneWriterHolds == Spec => []OneWriter
<1>1. Init => TypeOK /\ FlagInv
  BY InitTypes, InitFlag
<1>2. TypeOK /\ FlagInv /\ [Next]_vars => (TypeOK /\ FlagInv)'
  BY StepTypes, StepFlag
<1> QED
  BY <1>1, <1>2, FlagMeans, PTL DEF Spec

(* A participant that stopped is not up again before the process ends.     *)
LEMMA OnceUp ==
    ASSUME TypeOK, FlagInv, [Next]_vars, Up', ~Ends
    PROVE  Up
<1> USE HostApart DEF Up, FlagInv, LastDrain, Processes, HostIdle
<1>t. stage \in [Processes -> Stages] /\ pc \in [Processes -> Places] /\ Host \in Processes
  BY DEF TypeOK
<1>1. stage'[Host] # "stop" => stage[Host] # "stop"
  <2>1. CASE UNCHANGED stage
    BY <2>1
  <2>2. ASSUME NEW p \in Processes, TakeTask(p) \/ Retake(p) PROVE stage'[Host] # "stop" => stage[Host] # "stop"
    BY <2>2, <1>t DEF TakeTask, Retake, Draining
  <2>3. CASE NotSubmitted \/ StopDrains
    BY <2>3, <1>t DEF NotSubmitted, StopDrains, Draining
  <2> QED
    BY <2>1, <2>2, <2>3
    DEF Next, vars, threads, Game, Goes, Drain, Task, StartRuns, StartFails, KeepWorld, BeginStop, Join,
        Leave, Pop, Drained, MakePartial, FillPartial, MovePartial, FlushDirectory, WriteFails,
        Clear, Look, LeftToWriter, Submit, Crash, PowerFailure
<1>2. host = "stopped" => host' = "stopped"
  BY DEF Next, vars, threads, Game, Goes, Drain, Task, StartRuns, StartFails, KeepWorld, BeginStop, Join,
        Leave, Pop, Drained, MakePartial, FillPartial, MovePartial, FlushDirectory, WriteFails,
        Clear, Look, LeftToWriter, Submit, TakeTask, Retake, NotSubmitted, StopDrains, Crash, PowerFailure
<1>3. host \in {"starting", "running", "stopping", "stopped", "failed"}
  BY DEF TypeOK
<1> QED
  BY <1>1, <1>2, <1>3

-----------------------------------------------------------------------------
(* Captures keep their order.                                              *)

(* The numbers compared are numbers.                                       *)
LEMMA Numbers ==
    ASSUME TypeOK
    PROVE  /\ keeps \in Nat /\ queued \in Seq(Keep)
           /\ \A s \in Slots : kept[s].number \in Nat /\ disk[s].number \in Nat
                               /\ partial[s].number \in Nat /\ told[s] \in Nat
           /\ \A p \in Processes : item[p].number \in Nat /\ item[p].slot \in Slots
           /\ \A i \in DOMAIN queued : queued[i].number \in Nat /\ queued[i].slot \in Slots
<1>1. \A n \in 0..MaxKeeps : n \in Nat
  BY Bounds
<1>2. keeps \in Nat /\ queued \in Seq(Keep) /\ \A s \in Slots : told[s] \in Nat
  BY <1>1 DEF TypeOK
<1>3. \A i \in DOMAIN queued : queued[i] \in Keep
  BY <1>2
<1>4. \A k \in Keep : k.number \in Nat /\ k.slot \in Slots
  BY Bounds DEF Keep
<1>5. \A file \in File : file.number \in Nat
  BY <1>1 DEF File
<1>6. \A s \in Slots : kept[s] \in File /\ disk[s] \in File /\ partial[s] \in File
  BY DEF TypeOK
<1>7. \A p \in Processes : item[p].number \in Nat /\ item[p].slot \in Slots
  BY <1>1 DEF TypeOK
<1> QED
  BY <1>2, <1>3, <1>4, <1>5, <1>6, <1>7

(* A step that leaves the queue and the files, and brings no thread to a   *)
(* file, leaves the order.                                                 *)
AtFile == {"make", "fill", "move", "flush"}

(* A step that moves neither captures nor files keeps their order.         *)
LEMMA OrderFrame ==
    ASSUME TypeOK, FlagInv, Order, [Next]_vars, ~Ends,
           UNCHANGED <<keeps, kept, disk, partial, queued, item>>,
           \A p \in Processes : pc'[p] \in AtFile => pc'[p] = pc[p]
    PROVE  Order'
<1>1. Up' => Up
  BY OnceUp
<1> QED
  BY <1>1 DEF Order, Numbered, QueueOrder, WriterOrder, InPlace, Writing, AtFile, Up

(* A capture is queued behind everything.                                  *)
LEMMA OrderPush ==
    ASSUME TypeOK, FlagInv, Order, [Next]_vars, ~Ends, NEW s \in Slots, Push(s), HostIdle,
           UNCHANGED <<kept, disk, partial, item>>
    PROVE  Order'
<1> USE Numbers
<1>1. Up' => Up
  BY OnceUp
<1>2. \A p \in Processes : pc'[p] \in AtFile => pc'[p] = pc[p]
  BY DEF Push, AtFile, TypeOK
<1>3. /\ keeps' = keeps + 1
      /\ DOMAIN queued' = 1..(Len(queued) + 1) /\ DOMAIN queued = 1..Len(queued) /\ Len(queued) \in Nat
      /\ \A i \in 1..Len(queued) : queued'[i] = queued[i]
      /\ queued'[Len(queued) + 1].number = keeps + 1
  BY DEF Push
<1>4. \A i \in DOMAIN queued' : i \in DOMAIN queued \/ i = Len(queued) + 1
  BY <1>3
<1>n. Numbered
  BY DEF Order
<1>5. Numbered'
  BY <1>3, <1>4, <1>n, SMTT(30) DEF Numbered
<1>6. ASSUME Up, QueueOrder, WriterOrder, InPlace PROVE (QueueOrder /\ WriterOrder /\ InPlace)'
  <2>1. QueueOrder'
    <3>1. \A i, j \in DOMAIN queued' : i < j => queued'[i].number < queued'[j].number
      <4> SUFFICES ASSUME NEW i \in DOMAIN queued', NEW j \in DOMAIN queued', i < j
                   PROVE  queued'[i].number < queued'[j].number
        OBVIOUS
      <4>1. i \in DOMAIN queued /\ queued'[i] = queued[i] /\ queued[i].number <= keeps
        BY <1>3, <1>n DEF Numbered
      <4>2. CASE j \in DOMAIN queued
        BY <1>3, <1>6, <4>1, <4>2 DEF QueueOrder
      <4>3. CASE j = Len(queued) + 1
        BY <1>3, <4>1, <4>3
      <4> QED BY <1>4, <4>2, <4>3
    <3>2. \A t \in Slots, i \in DOMAIN queued' : kept[t].number < queued'[i].number
      <4> SUFFICES ASSUME NEW t \in Slots, NEW i \in DOMAIN queued'
                   PROVE  kept[t].number < queued'[i].number
        OBVIOUS
      <4>1. CASE i \in DOMAIN queued
        BY <1>3, <1>6, <4>1 DEF QueueOrder
      <4>2. CASE i = Len(queued) + 1
        BY <1>3, <1>n, <4>2 DEF Numbered
      <4> QED BY <1>4, <4>1, <4>2
    <3> QED BY <3>1, <3>2 DEF QueueOrder
  <2>2. WriterOrder'
    <3> SUFFICES ASSUME NEW p \in Processes, Writing(p)'
                 PROVE  /\ \A t \in Slots : kept[t].number < item[p].number
                        /\ \A i \in DOMAIN queued' : item[p].number < queued'[i].number
      BY DEF WriterOrder
    <3>1. Writing(p)
      BY <1>2 DEF Writing, AtFile
    <3>2. \A i \in DOMAIN queued' : item[p].number < queued'[i].number
      <4> SUFFICES ASSUME NEW i \in DOMAIN queued' PROVE item[p].number < queued'[i].number
        OBVIOUS
      <4>1. CASE i \in DOMAIN queued
        BY <1>3, <1>6, <3>1, <4>1 DEF WriterOrder
      <4>2. CASE i = Len(queued) + 1
        BY <1>3, <1>n, <4>2 DEF Numbered
      <4> QED BY <1>4, <4>1, <4>2
    <3> QED BY <1>6, <3>1, <3>2 DEF WriterOrder
  <2>3. InPlace'
    BY <1>2, <1>6 DEF InPlace, AtFile
  <2> QED BY <2>1, <2>2, <2>3
<1> QED
  BY <1>1, <1>5, <1>6 DEF Order

(* The first in the queue is taken: it is ahead of the rest.               *)
LEMMA OrderPop ==
    ASSUME TypeOK, FlagInv, Order, [Next]_vars, ~Ends, NEW p \in Processes, Pop(p)
    PROVE  Order'
<1> USE Numbers
<1>1. Up' => Up
  BY OnceUp
<1>3. /\ DOMAIN queued' = 1..(Len(queued) - 1) /\ DOMAIN queued = 1..Len(queued) /\ Len(queued) \in Nat \ {0}
      /\ \A i \in 1..(Len(queued) - 1) : queued'[i] = queued[i + 1]
      /\ item' = [item EXCEPT ![p] = queued[1]]
      /\ 1 \in DOMAIN queued
  BY DEF Pop
<1>4. \A i \in DOMAIN queued' : i + 1 \in DOMAIN queued /\ 1 < i + 1 /\ queued'[i] = queued[i + 1]
  BY <1>3
<1>5. /\ \A q \in Processes : q # p => item'[q] = item[q] /\ pc'[q] = pc[q]
      /\ item'[p] = queued[1] /\ pc'[p] = "make"
      /\ UNCHANGED <<kept, disk, partial, keeps>>
  BY <1>3 DEF Pop, TypeOK, files
<1>n. Numbered
  BY DEF Order
<1>6. Numbered'
  BY <1>3, <1>4, <1>5, <1>n DEF Numbered
<1>7. ASSUME Up, QueueOrder, WriterOrder, InPlace PROVE (QueueOrder /\ WriterOrder /\ InPlace)'
  <2>1. QueueOrder'
    <3>1. ASSUME NEW i \in DOMAIN queued', NEW j \in DOMAIN queued', i < j
          PROVE  queued'[i].number < queued'[j].number
      <4>1. i + 1 \in DOMAIN queued /\ j + 1 \in DOMAIN queued /\ i + 1 < j + 1
        BY <1>3, <1>4, <3>1
      <4> QED BY <1>4, <1>7, <4>1 DEF QueueOrder
    <3>2. ASSUME NEW s \in Slots, NEW i \in DOMAIN queued' PROVE kept'[s].number < queued'[i].number
      BY <1>4, <1>5, <1>7 DEF QueueOrder
    <3> QED BY <3>1, <3>2 DEF QueueOrder
  <2>2. WriterOrder'
    <3>1. ASSUME NEW q \in Processes, Writing(q)'
          PROVE  /\ \A s \in Slots : kept'[s].number < item'[q].number
                 /\ \A i \in DOMAIN queued' : item'[q].number < queued'[i].number
      <4>1. CASE q = p
        BY <1>3, <1>4, <1>5, <1>7, <4>1 DEF QueueOrder
      <4>2. CASE q # p
        BY <1>4, <1>5, <1>7, <3>1, <4>2 DEF WriterOrder, Writing
      <4> QED BY <4>1, <4>2
    <3> QED BY <3>1 DEF WriterOrder
  <2>3. InPlace'
    BY <1>5, <1>7 DEF InPlace
  <2> QED BY <2>1, <2>2, <2>3
<1> QED
  BY <1>1, <1>6, <1>7 DEF Order

(* A thread writes its keep: its numbers hold for the file it makes.       *)
LEMMA OrderWrite ==
    ASSUME TypeOK, FlagInv, Order, [Next]_vars, ~Ends, NEW p \in Processes,
           MakePartial(p) \/ FillPartial(p) \/ MovePartial(p) \/ FlushDirectory(p) \/ WriteFails(p)
    PROVE  Order'
<1> USE Numbers
<1>1. Up' => Up
  BY OnceUp
<1>2. pc[p] \in Draining /\ item[p].slot \in Slots /\ UNCHANGED <<item, queued, keeps>>
  BY DEF MakePartial, FillPartial, MovePartial, FlushDirectory, WriteFails, Draining, files
<1>3. Up => \A q \in Processes : q # p => pc'[q] \notin AtFile
  <2>1. \A q \in Processes : q # p => pc'[q] = pc[q]
    BY DEF MakePartial, FillPartial, MovePartial, FlushDirectory, WriteFails, TypeOK
  <2>2. OneWriter
    BY FlagMeans
  <2> QED BY <1>2, <2>1, <2>2 DEF OneWriter, Draining, AtFile
<1>n. Numbered /\ (Up => QueueOrder /\ WriterOrder /\ InPlace)
  BY DEF Order
<1>5. /\ partial \in [Slots -> File] /\ kept \in [Slots -> File] /\ disk \in [Slots -> File]
      /\ pc \in [Processes -> Places]
  BY DEF TypeOK
<1>6. CASE MakePartial(p)
  <2>1. /\ \A s \in Slots : s # item[p].slot => partial'[s] = partial[s]
        /\ partial'[item[p].slot].number = item[p].number /\ partial'[item[p].slot].by = p
        /\ pc[p] = "make" /\ pc'[p] = "fill" /\ UNCHANGED <<kept, disk>>
    BY <1>2, <1>5, <1>6 DEF MakePartial
  <2>2. Numbered'
    BY <1>2, <1>n, <2>1 DEF Numbered
  <2>3. ASSUME Up PROVE (QueueOrder /\ WriterOrder /\ InPlace)'
    BY <1>2, <1>3, <1>n, <2>1, <2>3 DEF QueueOrder, WriterOrder, InPlace, Writing, AtFile
  <2> QED BY <1>1, <2>2, <2>3 DEF Order
<1>7. CASE FillPartial(p)
  <2>1. \A file \in File : Filled(p, file) \in File /\ Filled(p, file).number = file.number
                           /\ Filled(p, file).by = file.by
    BY DEF Filled, File
  <2>2. \A s \in Slots : /\ kept'[s].number = kept[s].number /\ disk'[s].number = disk[s].number
                         /\ partial'[s].number = partial[s].number /\ partial'[s].by = partial[s].by
    BY <1>5, <1>7, <2>1 DEF FillPartial
  <2>3. pc[p] = "fill" /\ pc'[p] = "move"
    BY <1>5, <1>7 DEF FillPartial
  <2>4. partial'[item[p].slot] = Filled(p, partial[item[p].slot])
    BY <1>2, <1>5, <1>7 DEF FillPartial
  <2>5. Numbered'
    BY <1>2, <1>n, <2>2 DEF Numbered
  <2>6. ASSUME Up PROVE (QueueOrder /\ WriterOrder)'
    BY <1>2, <1>3, <1>n, <2>2, <2>3, <2>6 DEF QueueOrder, WriterOrder, Writing, AtFile
  <2>7. ASSUME Up PROVE InPlace'
    <3>1. partial[item[p].slot].number = item[p].number /\ partial[item[p].slot].by = p
      BY <1>n, <2>3, <2>7 DEF InPlace
    <3>2. partial[item[p].slot] \in File
      BY <1>2, <1>5
    <3>3. partial'[item[p].slot].whole
      BY <2>4, <3>1, <3>2 DEF Filled, File
    <3> QED BY <1>2, <1>3, <2>2, <2>3, <2>7, <3>1, <3>3 DEF InPlace, AtFile
  <2> QED BY <1>1, <2>5, <2>6, <2>7 DEF Order
<1>8. CASE MovePartial(p)
  <2>1. /\ \A s \in Slots : s # item[p].slot => partial'[s] = partial[s] /\ kept'[s] = kept[s]
        /\ partial'[item[p].slot] = None /\ kept'[item[p].slot] = partial[item[p].slot]
        /\ pc[p] = "move" /\ pc'[p] = "flush" /\ UNCHANGED disk
    BY <1>2, <1>5, <1>8 DEF MovePartial
  <2>2. Numbered'
    BY <1>2, <1>n, <2>1 DEF Numbered, None
  <2>3. ASSUME Up PROVE (QueueOrder /\ WriterOrder /\ InPlace)'
    <3>1. partial[item[p].slot].number = item[p].number
      BY <1>n, <2>1, <2>3 DEF InPlace
    <3>2. \A i \in DOMAIN queued : item[p].number < queued[i].number
      BY <1>n, <2>1, <2>3 DEF WriterOrder, Writing
    <3>3. QueueOrder'
      BY <1>2, <1>n, <2>1, <2>3, <3>1, <3>2 DEF QueueOrder
    <3>4. WriterOrder'
      BY <1>3, <2>1, <2>3 DEF WriterOrder, Writing, AtFile
    <3>5. InPlace'
      BY <1>2, <1>3, <2>1, <2>3, <3>1 DEF InPlace, AtFile
    <3> QED BY <3>3, <3>4, <3>5
  <2> QED BY <1>1, <2>2, <2>3 DEF Order
<1>9. CASE FlushDirectory(p)
  <2>1. pc'[p] = "pop" /\ UNCHANGED <<kept, partial>>
    BY <1>5, <1>9 DEF FlushDirectory
  <2>2. \A s \in Slots : disk'[s] = disk[s] \/ disk'[s] = kept[s]
    <3>1. \/ disk' = [disk EXCEPT ![item[p].slot] = kept[item[p].slot]]
          \/ disk' = disk
      BY <1>9 DEF FlushDirectory
    <3> QED BY <1>5, <3>1
  <2>3. Numbered'
    BY <1>2, <1>n, <2>1, <2>2 DEF Numbered
  <2>4. ASSUME Up PROVE (QueueOrder /\ WriterOrder /\ InPlace)'
    BY <1>2, <1>3, <1>n, <2>1, <2>4 DEF QueueOrder, WriterOrder, InPlace, Writing, AtFile
  <2> QED BY <1>1, <2>3, <2>4 DEF Order
<1>10. CASE WriteFails(p)
  <2>1. /\ \A s \in Slots : partial'[s] = partial[s] \/ partial'[s] = None
        /\ pc'[p] = "pop" /\ UNCHANGED <<kept, disk>>
    BY <1>5, <1>10 DEF WriteFails
  <2>2. Numbered'
    BY <1>2, <1>n, <2>1 DEF Numbered, None
  <2>3. ASSUME Up PROVE (QueueOrder /\ WriterOrder /\ InPlace)'
    BY <1>2, <1>3, <1>n, <2>1, <2>3 DEF QueueOrder, WriterOrder, InPlace, Writing, AtFile
  <2> QED BY <1>1, <2>2, <2>3 DEF Order
<1> QED
  BY <1>6, <1>7, <1>8, <1>9, <1>10

(* An end leaves of each file what was in place or what was durable.       *)
LEMMA EndLeaves ==
    ASSUME Crash \/ PowerFailure
    PROVE  /\ Ends /\ UNCHANGED <<item, partial, keeps>>
           /\ queued' = <<>> /\ present' = {} /\ host' = "starting" /\ missed' = {}
           /\ \A p \in Processes : pc'[p] = "idle"
           /\ \A s \in Slots : kept'[s] = kept[s] \/ kept'[s] = disk[s]
           /\ \A s \in Slots : disk'[s] = kept'[s] \/ (disk'[s] = disk[s] /\ kept'[s] = kept[s])
<1>1. CASE Crash
  BY <1>1 DEF Crash, Ends
<1>2. CASE PowerFailure
  BY <1>2 DEF PowerFailure, Ends
<1> QED BY <1>1, <1>2

(* A crash empties the queue and keeps the numbers.                        *)
LEMMA OrderCrash == TypeOK /\ Order /\ (Crash \/ PowerFailure) => Order'
<1> SUFFICES ASSUME TypeOK, Order, Crash \/ PowerFailure PROVE Order'
  OBVIOUS
<1>2. Numbered'
  BY EndLeaves DEF Order, Numbered
<1>3. QueueOrder' /\ WriterOrder' /\ InPlace'
  BY EndLeaves DEF QueueOrder, WriterOrder, Writing, InPlace
<1> QED
  BY <1>2, <1>3 DEF Order

(* Each step keeps the captures in order.                                  *)
LEMMA StepOrder == TypeOK /\ FlagInv /\ Order /\ [Next]_vars => Order'
<1> SUFFICES ASSUME TypeOK, FlagInv, Order, [Next]_vars PROVE Order'
  OBVIOUS
<1>t. pc \in [Processes -> Places] /\ Host \in Processes /\ World \in Slots /\ Players \subseteq Slots
  BY DEF TypeOK, Processes, Slots
<1>a. Ends => crashes' # crashes
  BY DEF Ends, TypeOK
<1>f. ASSUME crashes' = crashes, UNCHANGED <<keeps, kept, disk, partial, queued, item>>,
             \/ UNCHANGED pc
             \/ \E p \in Processes, place \in Places \ AtFile : pc' = [pc EXCEPT ![p] = place]
      PROVE  Order'
  <2>1. \A p \in Processes : pc'[p] \in AtFile => pc'[p] = pc[p]
    BY <1>f, <1>t
  <2> QED BY <1>a, <1>f, <2>1, OrderFrame
<1>p. \A p : Rest(p) \in Places \ AtFile
  BY DEF Rest, Places, AtFile
<1>q. {"pop", "clear", "wait", "idle", "look", "retake"} \subseteq Places \ AtFile
  BY DEF Places, Draining, AtFile
<1>1. CASE StartRuns
  BY <1>1, <1>f DEF StartRuns, threads, files
<1>2. CASE StartFails
  BY <1>2, <1>f DEF StartFails, threads, files
<1>3. CASE KeepWorld
  BY <1>3, <1>a, <1>t, OrderPush DEF KeepWorld, files
<1>4. CASE BeginStop
  <2>1. CASE Push(World)
    BY <1>4, <2>1, <1>a, <1>t, OrderPush DEF BeginStop, files
  <2>2. CASE pc' = [pc EXCEPT ![Host] = "wait"] /\ UNCHANGED <<queued, keeps>>
    BY <1>4, <2>2, <1>f, <1>t, <1>q DEF BeginStop, files
  <2> QED BY <1>4, <2>1, <2>2 DEF BeginStop
<1>6. ASSUME NEW p \in Players, Join(p) PROVE Order'
  BY <1>6, <1>f DEF Join, threads, files
<1>7. ASSUME NEW p \in Players, Leave(p) PROVE Order'
  <2>1. CASE Push(p)
    BY <1>7, <2>1, <1>a, <1>t, OrderPush DEF Leave, files
  <2>2. CASE UNCHANGED <<queued, pc, keeps>>
    BY <1>7, <2>2, <1>f DEF Leave, files
  <2> QED BY <1>7, <2>1, <2>2 DEF Leave
<1>8. ASSUME NEW p \in Processes, Pop(p) PROVE Order'
  BY <1>8, <1>a, OrderPop DEF Pop
<1>9. ASSUME NEW p \in Processes, Drained(p) PROVE Order'
  BY <1>9, <1>f, <1>q DEF Drained, files
<1>10. ASSUME NEW p \in Processes,
              MakePartial(p) \/ FillPartial(p) \/ MovePartial(p) \/ FlushDirectory(p) \/ WriteFails(p)
       PROVE  Order'
  BY <1>10, <1>a, OrderWrite DEF MakePartial, FillPartial, MovePartial, FlushDirectory, WriteFails
<1>15. ASSUME NEW p \in Processes, TakeTask(p) PROVE Order'
  BY <1>15, <1>f, <1>q DEF TakeTask, files
<1>16. ASSUME NEW p \in Processes, Clear(p) PROVE Order'
  BY <1>16, <1>f, <1>p, <1>q DEF Clear, files
<1>17. ASSUME NEW p \in Processes, Look(p) PROVE Order'
  BY <1>17, <1>f, <1>p, <1>q DEF Look, files
<1>18. ASSUME NEW p \in Processes, Retake(p) PROVE Order'
  BY <1>18, <1>f, <1>p, <1>q DEF Retake, files
<1>19. CASE LeftToWriter
  BY <1>19, <1>f, <1>p, <1>t DEF LeftToWriter, files
<1>20. CASE Submit
  BY <1>20, <1>f, <1>p, <1>t DEF Submit, files
<1>21. CASE NotSubmitted
  BY <1>21, <1>f, <1>q, <1>t DEF NotSubmitted, files
<1>22. CASE StopDrains
  BY <1>22, <1>f, <1>q, <1>t DEF StopDrains, files
<1>23. CASE Crash \/ PowerFailure
  BY <1>23, OrderCrash
<1>24. CASE UNCHANGED vars
  BY <1>24, <1>f DEF vars
<1> QED
  BY <1>1, <1>2, <1>3, <1>4, <1>6, <1>7, <1>8, <1>9, <1>10,
     <1>15, <1>16, <1>17, <1>18, <1>19, <1>20, <1>21, <1>22, <1>23, <1>24
  DEF Next, Game, Goes, Drain, Task

(* Nothing is captured at first.                                           *)
LEMMA InitOrder == Init => Order
<1> SUFFICES ASSUME Init PROVE Order
  OBVIOUS
<1>1. \A s \in Slots : kept[s].number = 0 /\ disk[s].number = 0 /\ partial[s].number = 0
  BY DEF Init, Before, None
<1>2. keeps = 0 /\ queued = <<>> /\ \A p \in Processes : item[p].number = 0 /\ pc[p] = "idle"
  BY DEF Init
<1> QED
  BY <1>1, <1>2 DEF Order, Numbered, QueueOrder, WriterOrder, Writing, InPlace

(* The files change in a move and after a crash; a move goes forward.      *)
LEMMA StepForward ==
    ASSUME TypeOK, FlagInv, Order, [Next]_vars
    PROVE  Up /\ crashes' = crashes => \A s \in Slots : kept[s].number <= kept'[s].number
<1> SUFFICES ASSUME Up, crashes' = crashes, NEW s \in Slots PROVE kept[s].number <= kept'[s].number
  OBVIOUS
<1> USE Numbers
<1>k. kept \in [Slots -> File] /\ ~Ends
  BY DEF TypeOK, Ends
<1>1. CASE UNCHANGED kept
  BY <1>1
<1>2. ASSUME NEW p \in Processes, MovePartial(p) PROVE kept[s].number <= kept'[s].number
  <2>1. kept[s].number < item[p].number /\ partial[item[p].slot].number = item[p].number
    BY <1>2 DEF Order, WriterOrder, Writing, InPlace, MovePartial
  <2>2. kept'[s] = kept[s] \/ kept'[s] = partial[item[p].slot]
    BY <1>2, <1>k DEF MovePartial
  <2> QED BY <2>1, <2>2
<1>3. ASSUME NEW p \in Processes, FillPartial(p) PROVE kept[s].number <= kept'[s].number
  <2>1. \A file \in File : Filled(p, file).number = file.number
    BY DEF Filled, File
  <2> QED BY <1>3, <1>k, <2>1 DEF FillPartial
<1> QED
  BY <1>1, <1>2, <1>3, <1>k
  DEF Next, vars, threads, files, Game, Goes, Drain, Task, StartRuns, StartFails, KeepWorld, BeginStop,
      Join, Leave, Pop, Drained, MakePartial, FlushDirectory, WriteFails, TakeTask, Clear, Look, Retake,
      LeftToWriter, Submit, NotSubmitted, StopDrains, Crash, PowerFailure

(* LaterKept holds throughout: of two writes to one slot the later stays,  *)
(* however the task, the Host and a failing write interleave.              *)
THEOREM LaterKeptHolds == Spec => LaterKept
<1>1. Init => TypeOK /\ FlagInv /\ Order
  BY InitTypes, InitFlag, InitOrder
<1>2. TypeOK /\ FlagInv /\ Order /\ [Next]_vars => (TypeOK /\ FlagInv /\ Order)'
  BY StepTypes, StepFlag, StepOrder
<1>3. TypeOK /\ FlagInv /\ Order /\ [Next]_vars
        => [(Up /\ crashes' = crashes) => \A s \in Slots : kept[s].number <= kept'[s].number]_vars
  BY StepForward
<1> QED
  BY <1>1, <1>2, <1>3, PTL DEF Spec, LaterKept

-----------------------------------------------------------------------------
(* Nothing torn, nothing reported lost, where nothing stops the Host.      *)

(* The actions that leave every file alone.                                *)
LEMMA FilesStay ==
    ASSUME [Next]_vars, ~Crash, ~PowerFailure,
           \A p \in Processes : ~MakePartial(p) /\ ~FillPartial(p) /\ ~MovePartial(p)
                               /\ ~FlushDirectory(p) /\ ~WriteFails(p)
    PROVE  UNCHANGED <<kept, partial, disk, told, unsure>>
<1> QED
  BY DEF Next, vars, threads, files, histories, reports, Crash, PowerFailure, Game, Goes, Drain, Task, StartRuns, StartFails, KeepWorld, BeginStop,
      Join, Leave, Pop, Drained, TakeTask, Clear, Look, Retake, LeftToWriter, Submit, NotSubmitted,
      StopDrains

(* The last drain is the only way to the Host's end.                       *)
LEMMA StepUndisturbed ==
    ASSUME ~Stops, FlagInv, TypeOK, Undisturbed, [Next]_vars
    PROVE  Undisturbed'
<1>1. \A p \in Processes : stage[p] # "stop"
  BY DEF FlagInv, LastDrain, Undisturbed
<1> QED
  BY <1>1 DEF Undisturbed, Next, vars, threads, files, Game, Goes, Drain, Task, StartRuns, StartFails,
      KeepWorld, BeginStop, Join, Leave, Pop, Drained, MakePartial, FillPartial, MovePartial,
      FlushDirectory, WriteFails, TakeTask, Clear, Look, Retake, LeftToWriter, Submit, NotSubmitted,
      StopDrains, Crash, PowerFailure, Ends

(* No step of a Host that nothing stops leaves a torn file in place, or    *)
(* what was reported off the disk.                                         *)
LEMMA StepWhole ==
    ASSUME ~Stops, TypeOK, FlagInv, Order, Whole, [Next]_vars
    PROVE  Whole'
<1> USE Numbers
<1>k. /\ kept \in [Slots -> File] /\ disk \in [Slots -> File] /\ partial \in [Slots -> File]
      /\ told \in [Slots -> 0..MaxKeeps]
  BY DEF TypeOK
<1>u. Undisturbed' /\ Up
  BY StepUndisturbed DEF Whole, Undisturbed, FlagInv, LastDrain, Up, Processes, TypeOK
<1>o. WriterOrder /\ InPlace
  BY <1>u DEF Order
<1>1. CASE UNCHANGED <<kept, partial, disk, told, unsure>>
  BY <1>1, <1>u DEF Whole, Sound
<1>2. ASSUME NEW p \in Processes, MakePartial(p) \/ WriteFails(p) PROVE Whole'
  BY <1>2, <1>u DEF Whole, Sound, MakePartial, WriteFails, histories, reports
<1>3. ASSUME NEW p \in Processes, FillPartial(p) PROVE Whole'
  <2>1. \A file \in File : Filled(p, file).number = file.number /\ (Sound(file) => Sound(Filled(p, file)))
    BY DEF Filled, File, Sound
  <2>2. \A s \in Slots : /\ kept'[s] = kept[s] \/ kept'[s] = Filled(p, kept[s])
                         /\ disk'[s] = disk[s] \/ disk'[s] = Filled(p, disk[s])
    BY <1>3, <1>k DEF FillPartial
  <2>3. \A s \in Slots : /\ Sound(kept'[s]) /\ Sound(disk'[s])
                         /\ kept'[s].number = kept[s].number /\ disk'[s].number = disk[s].number
    BY <1>k, <2>1, <2>2 DEF Whole
  <2>4. told' = told /\ unsure' = unsure
    BY <1>3 DEF FillPartial, histories
  <2> QED BY <1>u, <2>3, <2>4 DEF Whole, Sound
<1>4. ASSUME NEW p \in Processes, MovePartial(p) PROVE Whole'
  <2>1. /\ \A s \in Slots : s # item[p].slot => kept'[s] = kept[s]
        /\ kept'[item[p].slot] = partial[item[p].slot]
        /\ disk' = disk /\ told' = told /\ unsure' = unsure /\ pc[p] = "move"
    BY <1>4, <1>k DEF MovePartial, histories
  <2>2. /\ partial[item[p].slot].whole /\ partial[item[p].slot].number = item[p].number
        /\ kept[item[p].slot].number < item[p].number
    BY <1>o, <2>1 DEF InPlace, WriterOrder, Writing
  <2>3. \A s \in Slots : Sound(kept'[s]) /\ kept[s].number <= kept'[s].number /\ kept'[s].number \in Nat
    BY <2>1, <2>2 DEF Whole, Sound
  <2>4. \A s \in Slots : disk'[s].number <= kept'[s].number
    BY <2>1, <2>3 DEF Whole
  <2> QED BY <1>u, <2>1, <2>3, <2>4 DEF Whole, Sound
<1>5. ASSUME NEW p \in Processes, FlushDirectory(p) PROVE Whole'
  <2> DEFINE slot == item[p].slot
  <2>1. /\ \A s \in Slots : s # slot => told'[s] = told[s] /\ (s \in unsure <=> s \in unsure')
        /\ told'[slot] = item[p].number
        /\ kept' = kept /\ pc[p] = "flush"
    BY <1>5, <1>k DEF FlushDirectory
  <2>2. /\ \A s \in Slots : s # slot => disk'[s] = disk[s]
        /\ disk'[slot] = kept[slot] \/ (disk'[slot] = disk[slot] /\ slot \in unsure')
    BY <1>5, <1>k DEF FlushDirectory
  <2>3. kept[slot].number = item[p].number
    BY <1>o, <2>1 DEF InPlace
  <2> HIDE DEF slot
  <2>4. \A s \in Slots : s # slot \/ s = slot
    OBVIOUS
  <2> QED BY <1>u, <2>1, <2>2, <2>3, <2>4 DEF Whole, Sound
<1>6. CASE Crash
  BY <1>6, <1>u DEF Whole, Sound, Crash, reports
<1>7. CASE PowerFailure
  <2>1. /\ \A s \in Slots : kept'[s] = kept[s] \/ kept'[s] = disk[s]
        /\ disk' = kept' /\ \A s \in Slots : told'[s] = IF s \in unsure THEN 0 ELSE told[s]
    BY <1>7 DEF PowerFailure
  <2>2. \A s \in Slots : kept'[s].number \in Nat
    BY <2>1
  <2>3. \A s \in Slots : Sound(kept'[s]) /\ told'[s] <= kept'[s].number
    BY <2>1, <2>2 DEF Whole, Sound
  <2> QED BY <1>u, <2>1, <2>2, <2>3 DEF Whole, Sound
<1>8. CASE ~Crash /\ ~PowerFailure
  BY <1>1, <1>2, <1>3, <1>4, <1>5, <1>8, FilesStay
<1> QED
  BY <1>6, <1>7, <1>8

(* Every file is whole at first, but one left unread.                      *)
LEMMA InitWhole == Init => Whole
  BY DEF Init, Whole, Undisturbed, Sound, Before

(* In a Host that nothing stops, Whole holds throughout.                   *)
LEMMA WholeHolds == ASSUME ~Stops PROVE Spec => []Whole
<1>1. Init => TypeOK /\ FlagInv /\ Order /\ Whole
  BY InitTypes, InitFlag, InitOrder, InitWhole
<1>2. TypeOK /\ FlagInv /\ Order /\ Whole /\ [Next]_vars => (TypeOK /\ FlagInv /\ Order /\ Whole)'
  BY StepTypes, StepFlag, StepOrder, StepWhole
<1> QED
  BY <1>1, <1>2, PTL DEF Spec

(* NeverTorn holds throughout: every file is whole, after a crash at any   *)
(* step of the replacement and after one with the power.                   *)
THEOREM NeverTornHolds == ASSUME ~Stops PROVE Spec => []NeverTorn
<1>1. Whole => NeverTorn
  BY DEF Whole, Sound, NeverTorn
<1> QED
  BY <1>1, WholeHolds, PTL

(* ReportedStays holds throughout: what was reported kept, or something    *)
(* later, is in place after every crash, and on the disk unless its flush  *)
(* failed.                                                                 *)
THEOREM ReportedStaysHolds == ASSUME ~Stops PROVE Spec => []ReportedStays
<1>1. Whole => ReportedStays
  BY DEF Whole, ReportedStays
<1> QED
  BY <1>1, WholeHolds, PTL

-----------------------------------------------------------------------------
(* What does not read is left alone, whatever stops.                       *)

(* A step that changes no file leaves what it leaves alone, if it queues   *)
(* nothing of such a slot, takes nothing, and lets no such player in.      *)
LEMMA LeftFrame ==
    ASSUME Left, UNCHANGED <<kept, disk, partial>>, missed \subseteq missed',
           \A s \in Slots : Untouched(s) /\ Unread(s, kept[s]) /\ s \notin missed' => Untouched(s)'
    PROVE  Left'
<1> QED
  BY DEF Left, Unread, Untouched

(* Nothing of an unread slot is queued: the World does not run with it,    *)
(* and its player is not kept, but where its file did not open.            *)
LEMMA LeftPush ==
    ASSUME TypeOK, Left, NEW t \in Slots, Push(t), ~Unread(t, kept[t]) \/ t \in missed,
           UNCHANGED <<kept, disk, partial, item, unkept, missed>>, present' \subseteq present,
           HostIdle, host' \in {"running", "stopping"}
    PROVE  Left'
<1>1. \A i \in DOMAIN queued' : queued'[i].slot = t \/ (i \in DOMAIN queued /\ queued'[i] = queued[i])
  BY Numbers DEF Push
<1>2. \A p \in Processes : pc'[p] \in Draining => pc'[p] = pc[p]
  BY DEF Push, Draining, TypeOK
<1>3. ASSUME NEW s \in Slots, Untouched(s), Unread(s, kept[s]), s \notin missed' PROVE Untouched(s)'
  <2>1. s # t /\ (s = World => FALSE)
    BY <1>3 DEF Untouched, HostIdle
  <2>2. \A i \in DOMAIN queued' : queued'[i].slot # s
    BY <1>1, <1>3, <2>1 DEF Untouched
  <2>3. \A p \in Processes : pc'[p] \in Draining => item[p].slot # s \/ pc'[p] = "pop"
    BY <1>2, <1>3 DEF Untouched
  <2>4. s \in present' => s \in unkept'
    BY <1>3 DEF Untouched
  <2> QED BY <1>3, <2>1, <2>2, <2>3, <2>4 DEF Untouched
<1> QED
  BY <1>3, LeftFrame

(* Each step leaves what does not read.                                    *)
LEMMA StepLeft == TypeOK /\ FlagInv /\ Left /\ [Next]_vars => Left'
<1> SUFFICES ASSUME TypeOK, FlagInv, Left, [Next]_vars PROVE Left'
  OBVIOUS
<1> USE Numbers, HostApart
<1>t. /\ pc \in [Processes -> Places] /\ Host \in Processes /\ World \in Slots /\ Players \subseteq Slots
      /\ kept \in [Slots -> File] /\ disk \in [Slots -> File] /\ partial \in [Slots -> File]
      /\ Nobody \notin Processes
  BY DEF TypeOK, Processes, Slots, Nobody
<1>l. \A s \in Slots : Unread(s, kept[s]) => disk[s] = kept[s] /\ (s \in missed \/ Untouched(s))
  BY DEF Left
<1>w. \A s \in Slots : /\ ~kept[s].whole /\ kept[s].by = Nobody /\ (s = World => ~Restoring)
                         => Unread(s, kept[s])
  BY DEF Unread
\* A step of the game or the flag: the files, the queue and what is taken stay.
<1>f. ASSUME UNCHANGED <<kept, disk, partial, queued, item>>,
             \A p \in Processes : pc'[p] \in Draining \ {"pop"} => pc'[p] = pc[p],
             \A p \in present' : p \in unkept' \/ (p \in present /\ p \notin unkept)
                                \/ (p \in Slots => kept[p].whole) \/ p \in missed',
             host' = host \/ ~Unread(World, kept[World]) \/ World \in missed',
             missed \subseteq missed'
      PROVE  Left'
  <2>1. ASSUME NEW s \in Slots, Untouched(s), Unread(s, kept[s]), s \notin missed' PROVE Untouched(s)'
    BY <1>f, <2>1 DEF Untouched, Unread, Draining
  <2> QED BY <1>f, <2>1, LeftFrame
<1>r. host \in {"running", "stopping", "stopped"} => ~Unread(World, kept[World]) \/ World \in missed
  BY <1>l, <1>t DEF Untouched
<1>1. CASE StartRuns
  BY <1>1, <1>f DEF StartRuns, Loads, threads, files, game, Unread
<1>2. CASE StartFails
  <2>1. ASSUME NEW s \in Slots, Untouched(s), Unread(s, kept[s]), s \notin missed' PROVE Untouched(s)'
    BY <1>2, <2>1 DEF StartFails, threads, files, game, Untouched, Draining
  <2> QED BY <1>2, <2>1, LeftFrame DEF StartFails, Loads, files
<1>3. CASE KeepWorld
  BY <1>3, <1>t, <1>r, LeftPush DEF KeepWorld, files, game, histories, HostIdle
<1>4. CASE BeginStop
  <2>1. CASE Push(World)
    BY <1>4, <2>1, <1>t, <1>r, LeftPush DEF BeginStop, files, game, histories, HostIdle
  <2>2. CASE pc' = [pc EXCEPT ![Host] = "wait"] /\ UNCHANGED <<queued, keeps>>
    BY <1>4, <2>2, <1>f, <1>t, <1>r DEF BeginStop, files, game, histories, HostIdle, Draining
  <2> QED BY <1>4, <2>1, <2>2 DEF BeginStop
<1>6. ASSUME NEW p \in Players, Join(p) PROVE Left'
  <2>1. \A q \in present' : q \in unkept' \/ (q \in present /\ q \notin unkept)
                            \/ (q \in Slots => kept[q].whole) \/ q \in missed'
    BY <1>6 DEF Join, Loads
  <2>2. missed \subseteq missed'
    BY <1>6 DEF Join, Loads
  <2> QED BY <1>6, <1>f, <2>1, <2>2 DEF Join, threads, files
<1>7. ASSUME NEW p \in Players, Leave(p) PROVE Left'
  <2>1. CASE p \notin unkept /\ Push(p)
    <3>1. ~Unread(p, kept[p]) \/ p \in missed
      BY <1>7, <1>l, <1>t, <2>1 DEF Leave, Untouched
    <3> QED BY <1>7, <2>1, <3>1, <1>t, LeftPush DEF Leave, files, histories, HostIdle
  <2>2. CASE UNCHANGED <<queued, pc, keeps>>
    BY <1>7, <2>2, <1>f DEF Leave, files, histories
  <2> QED BY <1>7, <2>1, <2>2 DEF Leave
<1>8. ASSUME NEW p \in Processes, Pop(p) PROVE Left'
  <2>1. /\ \A i \in DOMAIN queued' : i + 1 \in DOMAIN queued /\ queued'[i] = queued[i + 1]
        /\ item' = [item EXCEPT ![p] = queued[1]] /\ 1 \in DOMAIN queued
    BY <1>8 DEF Pop
  <2>2. /\ \A q \in Processes : q # p => item'[q] = item[q] /\ pc'[q] = pc[q]
        /\ item'[p] = queued[1]
        /\ UNCHANGED <<kept, disk, partial, host, present, unkept, missed>>
    BY <1>8, <2>1 DEF Pop, TypeOK, files, game, histories
  <2>3. ASSUME NEW s \in Slots, Untouched(s), Unread(s, kept[s]) PROVE Untouched(s)'
    <3>1. \A i \in DOMAIN queued' : queued'[i].slot # s
      BY <2>1, <2>3 DEF Untouched
    <3>2. \A q \in Processes : pc'[q] \in Draining => item'[q].slot # s \/ pc'[q] = "pop"
      BY <2>1, <2>2, <2>3 DEF Untouched
    <3> QED BY <2>2, <2>3, <3>1, <3>2 DEF Untouched
  <2> QED BY <2>2, <2>3, LeftFrame
<1>9. ASSUME NEW p \in Processes, Drained(p) PROVE Left'
  <2>1. \A q \in Processes : pc'[q] \in Draining \ {"pop"} => pc'[q] = pc[q]
    BY <1>9, <1>t DEF Drained, Draining
  <2>2. ASSUME NEW s \in Slots, Untouched(s), Unread(s, kept[s]) PROVE Untouched(s)'
    <3>1. stage[p] = "stop" => host = "stopping"
      BY <1>9 DEF Drained, FlagInv, LastDrain
    <3>2. s = World => host' = host
      BY <1>9, <2>2, <3>1 DEF Drained, Untouched
    <3> QED BY <1>9, <2>1, <2>2, <3>2 DEF Drained, Untouched, Draining, files, game
  <2> QED BY <1>9, <2>2, LeftFrame DEF Drained, files, histories
<1>10. ASSUME NEW p \in Processes, MakePartial(p) PROVE Left'
  <2>1. \A s \in Slots : partial'[s] = partial[s] \/ partial'[s].by = p
    BY <1>10, <1>t DEF MakePartial
  <2>2. ASSUME NEW s \in Slots, Untouched(s) PROVE Untouched(s)'
    BY <1>10, <1>t, <2>2 DEF MakePartial, Untouched, Draining, game
  <2> QED BY <1>10, <1>t, <2>1, <2>2 DEF Left, MakePartial, Unread, histories
<1>11. ASSUME NEW p \in Processes, FillPartial(p) PROVE Left'
  <2>0. Filled(p, None) = None
    BY <1>t DEF Filled, None
  <2>1. \A file \in File : /\ file.by = Nobody => Filled(p, file) = file
                           /\ Filled(p, file).by = file.by
    BY <1>t DEF Filled, File
  <2>2. \A s \in Slots : /\ kept'[s] = kept[s] \/ kept'[s] = Filled(p, kept[s])
                         /\ disk'[s] = disk[s] \/ disk'[s] = Filled(p, disk[s])
                         /\ partial'[s] = partial[s] \/ partial'[s] = Filled(p, partial[s])
    BY <1>11, <1>t DEF FillPartial
  <2>3. ASSUME NEW s \in Slots, Unread(s, kept'[s])
        PROVE  disk'[s] = kept'[s] /\ (s \in missed' \/ Untouched(s)')
    <3>1. kept'[s].by = kept[s].by
      BY <1>t, <2>1, <2>2
    <3>2. (kept[s].by = Nobody => kept'[s] = kept[s]) /\ (disk[s].by = Nobody => disk'[s] = disk[s])
      BY <1>t, <2>1, <2>2
    <3>3. Unread(s, kept[s])
      BY <2>3, <3>1, <3>2 DEF Unread
    <3>4. disk[s] = kept[s] /\ (s \in missed \/ Untouched(s))
      BY <1>l, <3>3
    <3>5. disk'[s] = kept'[s]
      BY <3>2, <3>3, <3>4 DEF Unread
    <3> QED BY <1>11, <1>t, <3>4, <3>5 DEF FillPartial, Untouched, Draining, game, histories
  <2>4. \A s \in Slots : partial'[s] = None \/ partial'[s].by # Nobody
    <3>1. ASSUME NEW s \in Slots PROVE partial'[s] = None \/ partial'[s].by # Nobody
      <4>1. CASE partial[s] = None
        BY <2>0, <2>2, <4>1
      <4>2. CASE partial[s].by # Nobody
        BY <1>t, <2>1, <2>2, <4>2
      <4> QED BY <4>1, <4>2 DEF Left
    <3> QED BY <3>1
  <2> QED BY <2>3, <2>4 DEF Left, Unread
<1>12. ASSUME NEW p \in Processes, MovePartial(p) PROVE Left'
  <2>1. /\ \A s \in Slots : s # item[p].slot => kept'[s] = kept[s] /\ partial'[s] = partial[s]
        /\ kept'[item[p].slot] = partial[item[p].slot] /\ partial'[item[p].slot] = None
        /\ partial[item[p].slot] # None /\ disk' = disk /\ pc[p] = "move"
    BY <1>12, <1>t DEF MovePartial
  <2>2. kept'[item[p].slot].by # Nobody /\ ~Untouched(item[p].slot)
    BY <2>1 DEF Left, Untouched, Draining
  <2>3. ASSUME NEW s \in Slots, Unread(s, kept'[s])
        PROVE  disk'[s] = kept'[s] /\ (s \in missed' \/ Untouched(s)')
    <3>1. s # item[p].slot
      BY <2>2, <2>3 DEF Unread
    <3>2. disk[s] = kept[s] /\ (s \in missed \/ Untouched(s))
      BY <1>l, <2>1, <2>3, <3>1
    <3> QED BY <1>12, <1>t, <2>1, <3>1, <3>2 DEF MovePartial, Untouched, Draining, game, histories
  <2> QED BY <2>1, <2>3 DEF Left, Unread
<1>13. ASSUME NEW p \in Processes, FlushDirectory(p) PROVE Left'
  <2>1. /\ \A s \in Slots : disk'[s] = disk[s] \/ disk'[s] = kept[s]
        /\ kept' = kept /\ partial' = partial /\ missed' = missed
    BY <1>13, <1>t DEF FlushDirectory
  <2>2. ASSUME NEW s \in Slots, Untouched(s) PROVE Untouched(s)'
    BY <1>13, <1>t, <2>2 DEF FlushDirectory, Untouched, Draining, game
  <2> QED BY <1>l, <2>1, <2>2 DEF Left
<1>14. ASSUME NEW p \in Processes, WriteFails(p) PROVE Left'
  <2>1. \A s \in Slots : partial'[s] = partial[s] \/ partial'[s] = None
    BY <1>14, <1>t DEF WriteFails
  <2>2. ASSUME NEW s \in Slots, Untouched(s) PROVE Untouched(s)'
    BY <1>14, <1>t, <2>2 DEF WriteFails, Untouched, Draining, game
  <2> QED BY <1>14, <1>t, <2>1, <2>2 DEF Left, WriteFails, Unread, histories
<1>15. ASSUME NEW p \in Processes, TakeTask(p) \/ Clear(p) \/ Look(p) \/ Retake(p) PROVE Left'
  <2>1. \A q \in Processes : pc'[q] \in Draining \ {"pop"} => pc'[q] = pc[q]
    BY <1>15, <1>t DEF TakeTask, Clear, Look, Retake, Rest, Draining
  <2>2. UNCHANGED <<kept, disk, partial, queued, item, host, present, unkept, missed>>
    BY <1>15 DEF TakeTask, Clear, Look, Retake, files, game, histories
  <2> QED BY <1>f, <2>1, <2>2
<1>16. CASE LeftToWriter \/ Submit \/ NotSubmitted \/ StopDrains
  <2>1. \A q \in Processes : pc'[q] \in Draining \ {"pop"} => pc'[q] = pc[q]
    BY <1>16, <1>t DEF LeftToWriter, Submit, NotSubmitted, StopDrains, Rest, Draining
  <2>2. UNCHANGED <<kept, disk, partial, queued, item, host, present, unkept, missed>>
    BY <1>16 DEF LeftToWriter, Submit, NotSubmitted, StopDrains, files, game, histories
  <2> QED BY <1>f, <2>1, <2>2
<1>17. CASE Crash \/ PowerFailure
  <2>1. \A s \in Slots : Untouched(s)'
    BY <1>17, EndLeaves DEF Untouched, Draining
  <2>2. ASSUME NEW s \in Slots, Unread(s, kept'[s]) PROVE disk'[s] = kept'[s]
    BY <1>17, <1>l, <2>2, EndLeaves
  <2> QED BY <1>17, <2>1, <2>2, EndLeaves DEF Left
<1>18. CASE UNCHANGED vars
  BY <1>18, <1>f DEF vars
<1> QED
  BY <1>1, <1>2, <1>3, <1>4, <1>6, <1>7, <1>8, <1>9, <1>10, <1>11, <1>12, <1>13, <1>14,
     <1>15, <1>16, <1>17, <1>18
  DEF Next, Game, Goes, Drain, Task

(* At first nothing of an unread slot is on its way to its file.           *)
LEMMA InitLeft == Init => Left
  BY DEF Init, Left, Untouched, None, Draining, Unread

(* ... and keeps the file that does not read.                              *)
LEMMA StepKeepsUnread ==
    ASSUME TypeOK, Left, [Next]_vars, NEW s \in Slots, Unread(s, kept[s]), s \notin missed
    PROVE  kept'[s] = kept[s]
<1>t. kept \in [Slots -> File] /\ Untouched(s) /\ disk[s] = kept[s] /\ Nobody \notin Processes /\ kept[s].by = Nobody
  BY HostApart DEF TypeOK, Left, Nobody, Processes, Unread
<1>1. ASSUME NEW p \in Processes, MovePartial(p) PROVE kept'[s] = kept[s]
  BY <1>1, <1>t DEF MovePartial, Untouched, Draining
<1>2. ASSUME NEW p \in Processes, FillPartial(p) PROVE kept'[s] = kept[s]
  BY <1>2, <1>t DEF FillPartial, Filled
<1>3. CASE Crash \/ PowerFailure
  BY <1>3, <1>t, EndLeaves
<1>4. CASE UNCHANGED kept
  BY <1>4
<1> QED
  BY <1>1, <1>2, <1>3, <1>4
  DEF Next, vars, threads, files, Game, Goes, Drain, Task, StartRuns, StartFails, KeepWorld, BeginStop,
      Join, Leave, Pop, Drained, MakePartial, FlushDirectory, WriteFails, TakeTask, Clear, Look, Retake,
      LeftToWriter, Submit, NotSubmitted, StopDrains

(* UnreadStays holds throughout: no keep, restart or loss of power writes  *)
(* over a save the game could not read, as long as the process has not     *)
(* failed to open it.                                                      *)
THEOREM UnreadStaysHolds == Spec => UnreadStays
<1>1. Init => TypeOK /\ FlagInv /\ Left
  BY InitTypes, InitFlag, InitLeft
<1>2. TypeOK /\ FlagInv /\ Left /\ [Next]_vars => (TypeOK /\ FlagInv /\ Left)'
  BY StepTypes, StepFlag, StepLeft
<1>3. TypeOK /\ Left /\ [Next]_vars
        => [\A s \in Slots :
              /\ ~kept[s].whole /\ kept[s].by = Nobody
              /\ s = World => ~Restoring
              /\ s \notin missed
              => kept'[s] = kept[s]]_vars
  BY StepKeepsUnread DEF Unread
<1> QED
  BY <1>1, <1>2, <1>3, PTL DEF Spec, UnreadStays

=============================================================================
