------------------------------ MODULE Execution ------------------------------
(***************************************************************************)
(* One executor of a Host (src/modules/execution): a bounded queue, its    *)
(* workers and its end; the operations an owner's OperationScope starts on *)
(* it and the jobs a task's JobScope asks of it.  A thread that waits for  *)
(* work runs other work meanwhile, above its own, so a thread is a stack   *)
(* of tasks, and a job the queue refuses runs on the thread that asked.    *)
(*                                                                         *)
(* Each mutex protects what one step of an action reads and writes: the    *)
(* executor's (submit, popLocked, the counts of runSlot) and each scope's  *)
(* (outstanding_, inFlight_, generation_).  What a thread does between two *)
(* of them is a step of its own.  A wait for a condition is a step that    *)
(* cannot be taken yet: the code looks again each millisecond.             *)
(*                                                                         *)
(* Who starts, waits, cancels and stops is the Host: module Composition.   *)
(* A task's work is its jobs, its wait for them and whether it fails.  The  *)
(* time it takes is left out, and so are the budgets of a stop; and the    *)
(* outcome a handle gives, with the generations that replace it, and the   *)
(* build without threads.                                                  *)
(***************************************************************************)
EXTENDS Integers, Sequences, FiniteSets

CONSTANTS
    Workers, Host,     \* the threads: the executor's, and the one that stops it
    Tasks, NoTask,     \* all the work there is, each asked for at most once
    ParentOf,          \* of a job, the task whose JobScope runs it
    Owners,            \* who is admitted, each with one OperationScope
    OwnerOf,           \* of a task, in whose name it is submitted
    PriorityOf,
    MayCritical,       \* owners whose quota lets them ask for critical work
    Quota,             \* of an owner, Quota.maximumPendingTasks
    MostPending,       \* kMaximumPendingTasksPerExecutor
    MostInFlight,      \* kMaximumInFlightAsyncOperationsPerScope
    FailFast           \* the scopes whose policy is FailurePolicy::FailFast

Priorities == {"critical", "normal", "background"}
Operations == {t \in Tasks : ParentOf[t] = NoTask}
Jobs == Tasks \ Operations
JobsOf(t) == {c \in Tasks : ParentOf[c] = t}
Threads == Workers \cup {Host}
Scopes == Owners \cup Tasks     \* an owner's OperationScope, a task's JobScope
ScopeOf(t) == IF t \in Operations THEN OwnerOf[t] ELSE ParentOf[t]

ASSUME Forest ==
    /\ Host \notin Workers /\ NoTask \notin Tasks /\ Owners \cap Tasks = {}
    /\ IsFiniteSet(Tasks)
    /\ ParentOf \in [Tasks -> Tasks \cup {NoTask}]
    /\ \A some \in (SUBSET Jobs) \ {{}} : \E c \in some : ParentOf[c] \notin some
    /\ OwnerOf \in [Tasks -> Owners]
    /\ \A c \in Jobs : OwnerOf[c] = OwnerOf[ParentOf[c]]

ASSUME Limits ==
    /\ PriorityOf \in [Tasks -> Priorities]
    /\ MayCritical \subseteq Owners /\ FailFast \subseteq Scopes
    /\ Quota \in [Owners -> Nat \ {0}]
    /\ MostPending \in Nat \ {0} /\ MostInFlight \in Nat \ {0}

VARIABLES
    at,          \* where each task is, see Stages
    slotted,     \* the tasks that left the queue and have not yet left running_
    failed,      \* the tasks whose work returned an Error
    ready,       \* the operations whose handle says so
    queue,       \* of a priority, the tasks that wait
    stack,       \* of a thread, the tasks it is in, the innermost first
    inside,      \* outstanding_ of a JobScope, inFlight_ of an OperationScope
    open,        \* the scopes that are constructed and not destroyed
    cancelled,   \* the scopes cancelled themselves
    quiesced,    \* the owners whose own CancellationScope is cancelled
    admitted,    \* the owners with a quota
    closed, stopping, exited    \* the executor's end

works == <<at, slotted, failed, ready>>
cancels == <<cancelled, quiesced>>
ends == <<admitted, closed, stopping, exited>>
vars == <<at, slotted, failed, ready, queue, stack, inside, open, cancelled, quiesced,
          admitted, closed, stopping, exited>>

Stages == {"new", "asked", "queued", "refused",       \* before it runs
           "begin", "work", "join",                   \* its work
           "deliver", "report", "finish",             \* its completion
           "leave", "ended"}
Unasked == {"new", "refused"}
Over == {"leave", "ended"}
OnThread == Stages \ (Unasked \cup {"asked", "queued", "ended"})

TypeOK ==
    /\ at \in [Tasks -> Stages]
    /\ slotted \subseteq Tasks /\ failed \subseteq Tasks /\ ready \subseteq Tasks
    /\ queue \in [Priorities -> Seq(Tasks)]
    /\ stack \in [Threads -> Seq(Tasks)]
    /\ inside \in [Scopes -> Nat]
    /\ open \subseteq Scopes /\ cancelled \subseteq Scopes
    /\ quiesced \subseteq Owners /\ admitted \subseteq Owners
    /\ closed \in BOOLEAN /\ stopping \in BOOLEAN /\ exited \subseteq Workers

Init ==
    /\ at = [t \in Tasks |-> "new"]
    /\ slotted = {} /\ failed = {} /\ ready = {}
    /\ queue = [p \in Priorities |-> <<>>]
    /\ stack = [h \in Threads |-> <<>>]
    /\ inside = [s \in Scopes |-> 0]
    /\ open = {} /\ cancelled = {} /\ quiesced = {} /\ admitted = {}
    /\ closed = FALSE /\ stopping = FALSE /\ exited = {}

Cancelled(s, o) == s \in cancelled \/ o \in quiesced
Within(h, t) == stack[h] # <<>> /\ Head(stack[h]) = t
Goes(t, to) == at' = [at EXCEPT ![t] = to]

-----------------------------------------------------------------------------
(* The queue.                                                              *)

Queued == {t \in Tasks : at[t] = "queued"}

\* What submit refuses, and queues nothing.
Refused(t) ==
    \/ closed
    \/ OwnerOf[t] \notin admitted
    \/ PriorityOf[t] = "critical" /\ OwnerOf[t] \notin MayCritical
    \/ Cardinality({q \in Queued : OwnerOf[q] = OwnerOf[t]}) >= Quota[OwnerOf[t]]
    \/ Cardinality(Queued) >= MostPending

Enqueue(t) ==
    /\ queue' = [queue EXCEPT ![PriorityOf[t]] = Append(@, t)]
    /\ Goes(t, "queued")

\* The first of the highest priority, or of background work that waited long.
NextPriorities ==
    LET some == {p \in Priorities : queue[p] # <<>>}
    IN  {p \in some : \/ p = "background"
                      \/ p = "critical"
                      \/ p = "normal" /\ "critical" \notin some}

\* popLocked, and runSlot going into the task on this thread.
Pop(h, t) ==
    /\ \E p \in NextPriorities :
        /\ Head(queue[p]) = t
        /\ queue' = [queue EXCEPT ![p] = Tail(@)]
    /\ stack' = [stack EXCEPT ![h] = <<t>> \o @]
    /\ slotted' = slotted \cup {t}
    /\ Goes(t, "begin")
    /\ UNCHANGED <<failed, ready, inside, open, cancels, ends>>

\* A worker with nothing of its own takes the next task.
WorkerTakes(w, t) == w \notin exited /\ stack[w] = <<>> /\ Pop(w, t)

\* A worker that finds nothing while the executor is stopping leaves.
WorkerLeaves(w) ==
    /\ w \notin exited /\ stack[w] = <<>> /\ stopping /\ Queued = {}
    /\ exited' = exited \cup {w}
    /\ UNCHANGED <<works, queue, stack, inside, open, cancels, admitted, closed, stopping>>

-----------------------------------------------------------------------------
(* A task on its thread, from its first step to its last.                  *)

Running == {t \in Tasks : at[t] \in OnThread}
Counts(s, by) == inside' = [inside EXCEPT ![s] = @ + by]

\* Its scope was cancelled before this: the work never begins.
Begin(h, t) ==
    /\ Within(h, t) /\ at[t] = "begin"
    /\ IF Cancelled(ScopeOf(t), OwnerOf[t])
       THEN /\ Goes(t, IF t \in Operations THEN "deliver" ELSE "finish")
            /\ UNCHANGED open
       ELSE /\ Goes(t, "work")
            /\ open' = IF JobsOf(t) = {} THEN open ELSE open \cup {t}
    /\ UNCHANGED <<slotted, failed, ready, queue, stack, inside, cancels, ends>>

\* JobScope::run counts the job before it is submitted.
AskJob(h, t, c) ==
    /\ Within(h, t) /\ at[t] = "work"
    /\ c \in JobsOf(t) /\ at[c] = "new"
    /\ \A d \in JobsOf(t) : at[d] # "asked"
    /\ Goes(c, "asked") /\ Counts(t, 1)
    /\ UNCHANGED <<slotted, failed, ready, queue, stack, open, cancels, ends>>

\* Mutant: a job the executor refuses is let go.
SubmitJob_Dropped(h, t, c) ==
    /\ Within(h, t) /\ at[t] = "work"
    /\ c \in JobsOf(t) /\ at[c] = "asked"
    /\ IF Refused(c) THEN Goes(c, "refused") /\ UNCHANGED queue ELSE Enqueue(c)
    /\ UNCHANGED <<slotted, failed, ready, stack, inside, open, cancels, ends>>

\* A job the executor refuses runs here, above the task that asked.
SubmitJob(h, t, c) ==
    /\ Within(h, t) /\ at[t] = "work"
    /\ c \in JobsOf(t) /\ at[c] = "asked"
    /\ IF Refused(c)
       THEN /\ stack' = [stack EXCEPT ![h] = <<c>> \o @]
            /\ Goes(c, "begin")
            /\ UNCHANGED queue
       ELSE Enqueue(c) /\ UNCHANGED stack
    /\ UNCHANGED <<slotted, failed, ready, inside, open, cancels, ends>>

\* Its work asks for no more and waits for the jobs it asked for.
Join(h, t) ==
    /\ Within(h, t) /\ at[t] = "work" /\ t \in open
    /\ \A c \in JobsOf(t) : at[c] # "asked"
    /\ Goes(t, "join")
    /\ UNCHANGED <<slotted, failed, ready, queue, stack, inside, open, cancels, ends>>

\* While it waits it runs what is queued, whoever's that is.
Help(h, t, c) == Within(h, t) /\ at[t] = "join" /\ Pop(h, c)

\* The work ends: its JobScope, if it made one, is joined and destroyed first.
WorkEnds(h, t, fails) ==
    /\ Within(h, t)
    /\ \/ at[t] = "join" /\ inside[t] = 0
       \/ at[t] = "work" /\ t \notin open
    /\ open' = open \ {t}
    /\ failed' = IF fails THEN failed \cup {t} ELSE failed
    /\ Goes(t, IF t \in Operations THEN "deliver" ELSE "report")
    /\ UNCHANGED <<slotted, ready, queue, stack, inside, cancels, ends>>

\* Its handle may be waited out from here on, before its scope knows.
Deliver(h, t) ==
    /\ Within(h, t) /\ at[t] = "deliver"
    /\ ready' = ready \cup {t}
    /\ Goes(t, "report")
    /\ UNCHANGED <<slotted, failed, queue, stack, inside, open, cancels, ends>>

\* reportFailure, before the scope's lock is taken.
Report(h, t) ==
    /\ Within(h, t) /\ at[t] = "report"
    /\ cancelled' = cancelled \cup
            (IF t \in failed /\ ScopeOf(t) \in FailFast THEN {ScopeOf(t)} ELSE {})
    /\ Goes(t, "finish")
    /\ UNCHANGED <<slotted, failed, ready, queue, stack, inside, open, quiesced, ends>>

\* The last touch of its scope: who joins it may destroy it from here on.
Finish(h, t) ==
    /\ Within(h, t) /\ at[t] = "finish"
    /\ Counts(ScopeOf(t), -1)
    /\ Goes(t, "leave")
    /\ UNCHANGED <<slotted, failed, ready, queue, stack, open, cancels, ends>>

\* Back in runSlot, or in the JobScope::run that ran it here.
Leave(h, t) ==
    /\ Within(h, t) /\ at[t] = "leave"
    /\ stack' = [stack EXCEPT ![h] = Tail(@)]
    /\ slotted' = slotted \ {t}
    /\ Goes(t, "ended")
    /\ UNCHANGED <<failed, ready, queue, inside, open, cancels, ends>>

\* What a thread does next with the task it is in.
Step(h, t) ==
    \/ Begin(h, t) \/ Join(h, t)
    \/ \E c \in Tasks : AskJob(h, t, c) \/ SubmitJob(h, t, c) \/ Help(h, t, c)
    \/ \E fails \in BOOLEAN : WorkEnds(h, t, fails)
    \/ Deliver(h, t) \/ Report(h, t) \/ Finish(h, t) \/ Leave(h, t)

Runs(h) == \E t \in Tasks : Step(h, t)
Works(w) == Runs(w) \/ WorkerLeaves(w) \/ \E t \in Tasks : WorkerTakes(w, t)

-----------------------------------------------------------------------------
(* What an owner asks, on the Host's thread.                               *)

\* OperationScope::start reserves, submits, and gives back what it reserved.
Reserve(t) ==
    /\ t \in Operations /\ at[t] = "new" /\ OwnerOf[t] \in open
    /\ IF inside[OwnerOf[t]] < MostInFlight
       THEN /\ Goes(t, "asked") /\ Counts(OwnerOf[t], 1)
       ELSE Goes(t, "refused") /\ UNCHANGED inside
    /\ UNCHANGED <<slotted, failed, ready, queue, stack, open, cancels, ends>>

Submit(t) ==
    /\ t \in Operations /\ at[t] = "asked"
    /\ ~Refused(t) /\ Enqueue(t)
    /\ UNCHANGED <<slotted, failed, ready, stack, inside, open, cancels, ends>>

\* Mutant: what was reserved for an operation that is refused is kept.
Unreserve_Kept(t) ==
    /\ t \in Operations /\ at[t] = "asked"
    /\ Refused(t) /\ Goes(t, "refused")
    /\ UNCHANGED <<slotted, failed, ready, queue, stack, inside, open, cancels, ends>>

Unreserve(t) ==
    /\ t \in Operations /\ at[t] = "asked"
    /\ Refused(t) /\ Goes(t, "refused") /\ Counts(OwnerOf[t], -1)
    /\ UNCHANGED <<slotted, failed, ready, queue, stack, open, cancels, ends>>

\* OperationScope::cancel.
Cancel(o) ==
    /\ o \in open
    /\ cancelled' = cancelled \cup {o}
    /\ UNCHANGED <<works, queue, stack, inside, open, quiesced, ends>>

\* Executor::stop closes admission, waits for what was accepted, then for the workers.
Close ==
    /\ closed' = TRUE
    /\ UNCHANGED <<works, queue, stack, inside, open, cancels, admitted, stopping, exited>>

Drained ==
    /\ closed /\ ~stopping /\ Queued = {} /\ slotted = {}
    /\ stopping' = TRUE
    /\ UNCHANGED <<works, queue, stack, inside, open, cancels, admitted, closed, exited>>
=============================================================================
