------------------------------ MODULE Composition ------------------------------
(***************************************************************************)
(* The Host's thread over its executor (src/modules/composition,           *)
(* src/modules/host): participants are constructed and started in plan     *)
(* order, run, and are quiesced, stopped and destroyed in reverse, after   *)
(* a start that failed half way as after a whole run; then the executor    *)
(* is stopped.                                                             *)
(*                                                                         *)
(* An owner is a participant, by its place in the plan, that owns one      *)
(* OperationScope, as AssetSet and ContentStore do: its destructor cancels *)
(* and joins.  A participant starts operations, waits for a handle,        *)
(* or cancels from its start, its phases and its stop: all on  *)
(* the Host's thread, which helps the workers whenever it waits.           *)
(***************************************************************************)
EXTENDS Execution

CONSTANTS
    Planned,        \* how many participants the plan has
    CanFail         \* whether constructing and starting one may fail

ASSUME Plan == Owners = 1..Planned /\ Planned \in Nat \ {0} /\ CanFail \in BOOLEAN

VARIABLES
    phase,          \* what start(), unwind() or shutDown() is at
    next,           \* the participant it is at
    constructed,    \* the participants whose object lives
    handle,         \* the operation whose handle the Host's thread waits for
    joining         \* the owner whose destructor joins, 0 for none

host == <<phase, next, constructed, handle, joining>>
allVars == <<vars, host>>

Phases == {"construct", "start", "run", "quiesce", "stop", "destroy", "retire",
           "cancel", "close", "drain", "leave", "stopped"}

HostTypeOK ==
    /\ phase \in Phases /\ next \in 0..(Planned + 1)
    /\ constructed \subseteq Owners
    /\ handle \in Tasks \cup {NoTask} /\ joining \in 0..Planned

HostInit ==
    /\ Init
    /\ phase = "construct" /\ next = 1 /\ constructed = {}
    /\ handle = NoTask /\ joining = 0

\* The Host's thread is in none of an operation's calls and no task.
Asking == \E t \in Operations : at[t] = "asked"
AtHome == stack[Host] = <<>> /\ handle = NoTask /\ joining = 0 /\ ~Asking
From(p) == phase = p /\ AtHome

-----------------------------------------------------------------------------
(* start().                                                                *)

\* Its scope, its admission, then its object with its OperationScope.
Construct ==
    /\ From("construct") /\ next <= Planned
    /\ admitted' = admitted \cup {next}
    /\ constructed' = constructed \cup {next}
    /\ open' = open \cup {next}
    /\ next' = next + 1
    /\ UNCHANGED <<works, queue, stack, inside, cancels, closed, stopping, exited, phase,
                   handle, joining>>

\* Its admission or its factory fails: what was constructed is destroyed.
ConstructFails ==
    /\ CanFail /\ From("construct") /\ next <= Planned
    /\ admitted' \in {admitted, admitted \cup {next}}
    /\ phase' = "destroy"
    /\ UNCHANGED <<works, queue, stack, inside, open, cancels, closed, stopping, exited,
                   next, constructed, handle, joining>>

Constructed ==
    /\ From("construct") /\ next > Planned
    /\ phase' = "start" /\ next' = 1
    /\ UNCHANGED <<vars, constructed, handle, joining>>

\* One participant's start returned; after the last the Host runs.
Started ==
    /\ From("start")
    /\ IF next < Planned THEN next' = next + 1 /\ UNCHANGED phase
       ELSE phase' = "run" /\ UNCHANGED next
    /\ UNCHANGED <<vars, constructed, handle, joining>>

\* It may own work already, so it is quiesced and stopped with those before it.
StartFails ==
    /\ CanFail /\ From("start")
    /\ phase' = "quiesce"
    /\ UNCHANGED <<vars, next, constructed, handle, joining>>

\* Composition::stop.
Stop ==
    /\ From("run")
    /\ phase' = "quiesce" /\ next' = Planned
    /\ UNCHANGED <<vars, constructed, handle, joining>>

-----------------------------------------------------------------------------
(* unwind().                                                               *)

\* In reverse: cancel the participant's scope, let it close admission.
Quiesce ==
    /\ From("quiesce")
    /\ quiesced' = quiesced \cup {next}
    /\ IF next > 1 THEN next' = next - 1 /\ UNCHANGED phase
       ELSE phase' = "stop" /\ next' = Cardinality(quiesced')
    /\ UNCHANGED <<works, queue, stack, inside, open, cancelled, ends, constructed,
                   handle, joining>>

\* In reverse: its stop returned; after the first's, all are destroyed.
Stopped ==
    /\ From("stop")
    /\ IF next > 1 THEN next' = next - 1 /\ UNCHANGED phase
       ELSE phase' = "destroy" /\ next' = Planned
    /\ UNCHANGED <<vars, constructed, handle, joining>>

\* Its object's destructor: the OperationScope cancels and joins.
Destroy ==
    /\ From("destroy") /\ next \in constructed
    /\ cancelled' = cancelled \cup {next}
    /\ joining' = next
    /\ UNCHANGED <<works, queue, stack, inside, open, quiesced, ends, phase, next,
                   constructed, handle>>

\* Mutant: the destructor cancels and does not join.
Joined_AtOnce ==
    /\ joining # 0 /\ stack[Host] = <<>>
    /\ open' = open \ {joining}
    /\ constructed' = constructed \ {joining}
    /\ joining' = 0
    /\ phase' = "retire"
    /\ UNCHANGED <<works, queue, stack, inside, cancels, ends, next, handle>>

\* None is in flight: the scope is gone, and the object with it.
Joined ==
    /\ joining # 0 /\ stack[Host] = <<>> /\ inside[joining] = 0
    /\ open' = open \ {joining}
    /\ constructed' = constructed \ {joining}
    /\ joining' = 0
    /\ phase' = "retire"
    /\ UNCHANGED <<works, queue, stack, inside, cancels, ends, next, handle>>

\* Mutant: only who was constructed is retired.
Retire_Constructed ==
    /\ From("retire") \/ (From("destroy") /\ next \notin constructed)
    /\ admitted' = IF phase = "destroy" \/ \E t \in Queued : OwnerOf[t] = next
                   THEN admitted ELSE admitted \ {next}
    /\ IF next > 1 THEN phase' = "destroy" /\ next' = next - 1
       ELSE phase' = "cancel" /\ UNCHANGED next
    /\ UNCHANGED <<works, queue, stack, inside, open, cancels, closed, stopping, exited,
                   constructed, handle, joining>>

\* retireOwner, whose refusal nobody hears, then the next one down.
Retire ==
    /\ From("retire") \/ (From("destroy") /\ next \notin constructed)
    /\ admitted' = IF \E t \in Queued : OwnerOf[t] = next THEN admitted
                   ELSE admitted \ {next}
    /\ IF next > 1 THEN phase' = "destroy" /\ next' = next - 1
       ELSE phase' = "cancel" /\ UNCHANGED next
    /\ UNCHANGED <<works, queue, stack, inside, open, cancels, closed, stopping, exited,
                   constructed, handle, joining>>

-----------------------------------------------------------------------------
(* shutDown().                                                             *)

CancelRoot ==
    /\ From("cancel")
    /\ quiesced' = Owners
    /\ phase' = "close"
    /\ UNCHANGED <<works, queue, stack, inside, open, cancelled, ends, next, constructed,
                   handle, joining>>

StopExecutor ==
    /\ \/ From("close") /\ Close /\ phase' = "drain"
       \/ From("drain") /\ Drained /\ phase' = "leave"
       \/ /\ From("leave") /\ exited = Workers
          /\ phase' = "stopped" /\ UNCHANGED vars
    /\ UNCHANGED <<next, constructed, handle, joining>>

-----------------------------------------------------------------------------
(* What participants ask, of an operation of their own.                    *)

\* The participants whose start, phases or stop is running.
Active ==
    CASE phase \in {"start", "stop"} -> {next}
      [] phase = "run" -> Owners
      [] OTHER -> {}

Asks ==
    /\ AtHome
    /\ \/ \E t \in Operations : OwnerOf[t] \in Active /\ Reserve(t)
       \/ \E o \in Active \ cancelled : Cancel(o)
    /\ UNCHANGED host

Answered == (\E t \in Operations : Submit(t) \/ Unreserve(t)) /\ UNCHANGED host

\* AsyncHandle::wait, which helps until the operation is ready.
Wait ==
    /\ AtHome
    /\ \E t \in Operations :
        /\ OwnerOf[t] \in Active /\ at[t] \notin Unasked /\ t \notin ready
        /\ handle' = t
    /\ UNCHANGED <<vars, phase, next, constructed, joining>>

WaitEnds ==
    /\ handle \in ready /\ stack[Host] = <<>>
    /\ handle' = NoTask
    /\ UNCHANGED <<vars, phase, next, constructed, joining>>

\* waitUntil and join run what is queued while they wait.
HostHelps ==
    /\ stack[Host] = <<>> /\ (handle # NoTask \/ joining # 0)
    /\ \E t \in Tasks : Pop(Host, t)
    /\ UNCHANGED host

Moves ==
    \/ Construct \/ Constructed \/ Started \/ Quiesce \/ Stopped
    \/ Destroy \/ Joined \/ Retire \/ CancelRoot \/ StopExecutor
    \/ Answered \/ WaitEnds \/ HostHelps
    \/ Runs(Host) /\ UNCHANGED host

WorkersStep == \E w \in Workers : Works(w) /\ UNCHANGED host

HostNext == Moves \/ WorkersStep \/ Stop \/ ConstructFails \/ StartFails \/ Asks \/ Wait

Spec == HostInit /\ [][HostNext]_allVars

\* While any thread can go on, one of them does; nobody has to fail, to ask or to
\* wait for more.
FairSpec == Spec /\ WF_allVars(Moves \/ WorkersStep)

-----------------------------------------------------------------------------
(* What holds.                                                             *)

\* Work that was asked for and is not over may touch its scope, and the objects
\* of its participant and of those before it in the plan: all of them live.
NothingOutlived ==
    \A t \in Tasks : at[t] \notin Unasked \cup Over =>
        /\ ScopeOf(t) \in open
        /\ 1..OwnerOf[t] \subseteq constructed

\* What a scope's joiner goes by is how much of its work is asked and not over.
Counted ==
    \A s \in Scopes :
        inside[s] = Cardinality({t \in Tasks : /\ ScopeOf(t) = s
                                              /\ at[t] \notin Unasked \cup Over})

\* No retirement is refused, though nobody would hear of it: once all are
\* destroyed no quota is left on the executor.
AllRetired == phase \in {"cancel", "close", "drain", "leave", "stopped"} => admitted = {}

\* A start, an unwinding and a stop come to their end, however the threads of
\* the pool wait for one another; and whoever waits for a handle is answered.
Quits ==
    /\ phase # "run" ~> phase \in {"run", "stopped"}
    /\ handle # NoTask ~> handle = NoTask
=============================================================================
