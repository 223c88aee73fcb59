--------------------------- MODULE CompositionProofs ---------------------------
(***************************************************************************)
(* What TLAPS proves of Composition over Execution, for any work, any      *)
(* number of workers and participants, any limits and any way a start may  *)
(* fail: nothing outlives what it uses, what a scope's joiner goes by is   *)
(* right, and no retirement is refused.                                    *)
(***************************************************************************)
EXTENDS Composition, FiniteSetTheorems, SequenceTheorems, TLAPS

(* The work that was asked for and is not over.                            *)
InHand == {t \in Tasks : at[t] \notin Unasked \cup Over}
Of(s) == {t \in InHand : ScopeOf(t) = s}

(* What is queued waits under its own priority, once.                      *)
QueueOnce ==
    \A p \in Priorities :
        /\ \A i \in DOMAIN queue[p] : at[queue[p][i]] = "queued" /\ PriorityOf[queue[p][i]] = p
        /\ \A i, j \in DOMAIN queue[p] : queue[p][i] = queue[p][j] => i = j

(* A task's JobScope lives while its work may ask or waits.                *)
JobScopes ==
    \A t \in Tasks :
        /\ t \in open <=> at[t] \in {"work", "join"} /\ JobsOf(t) # {}
        /\ at[t] = "join" => t \in open

(* A scope lives while any of its work is in hand.                         *)
Scoped == \A t \in InHand : ScopeOf(t) \in open

TaskInv == TypeOK /\ QueueOnce /\ JobScopes /\ Counted /\ Scoped

(* Where the Host's thread is, and what lives there: the objects are those *)
(* of the plan's first participants, with their OperationScopes and quotas.*)
Lives(k) == constructed = 1..k /\ open \cap Owners = 1..k

Up == {"construct", "start", "run"}
Down == {"quiesce", "stop"}
Ends == {"cancel", "close", "drain", "leave", "stopped"}

Places ==
    /\ phase = "construct" => next >= 1 /\ Lives(next - 1) /\ admitted = 1..(next - 1)
    /\ phase \in {"start"} \cup Down => next \in Owners
    /\ phase \in {"start", "run"} \cup Down => Lives(Planned) /\ admitted = Owners
    /\ phase \in Up => quiesced = {}
    /\ phase = "quiesce" => \E m \in next..Planned : quiesced = (next + 1)..m
    /\ phase = "destroy" => next \in Owners /\ admitted \subseteq 1..next
                            /\ \E k \in 0..next : Lives(k)
    /\ phase = "retire" => next \in Owners /\ admitted \subseteq 1..next /\ Lives(next - 1)
    /\ phase \in Ends => Lives(0) /\ admitted = {}
    /\ joining # 0 => phase = "destroy" /\ joining = next /\ Lives(next)

QuitInv == TaskInv /\ HostTypeOK /\ NothingOutlived /\ Places

-----------------------------------------------------------------------------
(* What the constants are.                                                 *)

(* An operation's scope is its owner's, a job's is its parent's.           *)
LEMMA Shape ==
    /\ Owners = 1..Planned /\ Planned \in Nat \ {0}
    /\ Owners \cap Tasks = {} /\ Scopes = Owners \cup Tasks
    /\ \A t \in Operations : t \in Tasks /\ ScopeOf(t) = OwnerOf[t]
    /\ \A t \in Jobs : t \in Tasks /\ t \notin Operations /\ ScopeOf(t) = ParentOf[t]
                       /\ ParentOf[t] \in Tasks /\ OwnerOf[t] = OwnerOf[ParentOf[t]]
    /\ \A t \in Tasks : /\ t \in Operations \/ t \in Jobs
                        /\ OwnerOf[t] \in Owners /\ PriorityOf[t] \in Priorities
                        /\ ScopeOf(t) \in Scopes
  BY Forest, Limits, Plan DEF Operations, Jobs, Scopes, ScopeOf

(* A job of t is t's own.                                                  *)
LEMMA JobsAre ==
    ASSUME NEW t \in Tasks, NEW c \in JobsOf(t)
    PROVE  c \in Jobs /\ c \in Tasks /\ ParentOf[c] = t /\ ScopeOf(c) = t /\ OwnerOf[c] = OwnerOf[t]
  BY Forest DEF JobsOf, Jobs, Operations, ScopeOf

(* Work that goes on from a stage to another.                              *)
LEMMA Going ==
    ASSUME TypeOK, NEW t \in Tasks, NEW to \in Stages, Goes(t, to)
    PROVE  /\ at' \in [Tasks -> Stages] /\ at'[t] = to
           /\ \A u \in Tasks \ {t} : at'[u] = at[u]
           /\ InHand' = IF to \in Unasked \cup Over THEN InHand \ {t} ELSE InHand \cup {t}
  BY DEF TypeOK, Goes, InHand

-----------------------------------------------------------------------------
(* What a scope counts.                                                    *)

(* A step takes work in hand and counts it, or counts off what is over, or *)
(* does neither.                                                           *)
Keeps == InHand' = InHand /\ inside' = inside
TakesUp(t) == /\ t \in Tasks \ InHand /\ InHand' = InHand \cup {t}
              /\ inside' = [inside EXCEPT ![ScopeOf(t)] = @ + 1]
LetsGo(t) == /\ t \in InHand /\ InHand' = InHand \ {t}
             /\ inside' = [inside EXCEPT ![ScopeOf(t)] = @ - 1]

LEMMA OfFinite ==
    \A s : Of(s) \subseteq Tasks /\ IsFiniteSet(Of(s)) /\ Cardinality(Of(s)) \in Nat
  <1> TAKE s
  <1>1. Of(s) \in SUBSET Tasks
    BY DEF Of, InHand
  <1> QED BY <1>1, Forest, FS_Subset, FS_CardinalityType

(* Counted says of each scope how much of its work is in hand.             *)
LEMMA CountedIs == Counted <=> \A s \in Scopes : inside[s] = Cardinality(Of(s))
  <1>1. \A s : {t \in Tasks : ScopeOf(t) = s /\ at[t] \notin Unasked \cup Over} = Of(s)
    BY DEF Of, InHand
  <1> QED BY <1>1 DEF Counted

LEMMA CountedNext == Counted' <=> \A s \in Scopes : inside'[s] = Cardinality(Of(s)')
  <1>1. \A s : {t \in Tasks : ScopeOf(t) = s /\ at'[t] \notin Unasked \cup Over} = Of(s)'
    BY DEF Of, InHand
  <1> QED BY <1>1 DEF Counted

(* So a scope whose count is none has none in hand.                        *)
LEMMA NoneInHand ==
    ASSUME Counted, NEW s \in Scopes, inside[s] = 0
    PROVE  \A t \in InHand : ScopeOf(t) # s
  <1>1. Of(s) = {}
    BY OfFinite, CountedIs, FS_EmptySet
  <1> QED BY <1>1 DEF Of

LEMMA Counting ==
    ASSUME TypeOK, Counted, Keeps \/ \E t : TakesUp(t) \/ LetsGo(t)
    PROVE  Counted' /\ inside' \in [Scopes -> Nat]
  <1>1. \A s \in Scopes : inside[s] = Cardinality(Of(s)) /\ inside[s] \in Nat
    BY CountedIs, OfFinite
  <1>2. CASE Keeps
    BY <1>1, <1>2, CountedNext DEF Keeps, Of, TypeOK
  <1>3. ASSUME NEW t, TakesUp(t)
        PROVE  Counted' /\ inside' \in [Scopes -> Nat]
    <2>1. t \in Tasks /\ ScopeOf(t) \in Scopes
      BY <1>3, Shape DEF TakesUp
    <2>2. \A s : Of(s)' = IF s = ScopeOf(t) THEN Of(s) \cup {t} ELSE Of(s)
      BY <1>3 DEF TakesUp, Of
    <2>3. Cardinality(Of(ScopeOf(t)) \cup {t}) = Cardinality(Of(ScopeOf(t))) + 1
      <3>1. t \notin Of(ScopeOf(t))
        BY <1>3 DEF TakesUp, Of
      <3> QED BY <3>1, OfFinite, FS_AddElement
    <2>4. \A s \in Scopes : inside'[s] = IF s = ScopeOf(t) THEN inside[s] + 1 ELSE inside[s]
      BY <1>3, <2>1 DEF TakesUp, TypeOK
    <2>5. \A s \in Scopes : inside'[s] = Cardinality(Of(s)') /\ inside'[s] \in Nat
      BY <1>1, <2>2, <2>3, <2>4
    <2> QED BY <1>3, <2>5, CountedNext DEF TakesUp, TypeOK
  <1>4. ASSUME NEW t, LetsGo(t)
        PROVE  Counted' /\ inside' \in [Scopes -> Nat]
    <2>1. t \in Tasks /\ ScopeOf(t) \in Scopes
      BY <1>4, Shape DEF LetsGo, InHand
    <2>2. \A s : Of(s)' = IF s = ScopeOf(t) THEN Of(s) \ {t} ELSE Of(s)
      BY <1>4 DEF LetsGo, Of
    <2>3. Cardinality(Of(ScopeOf(t)) \ {t}) = Cardinality(Of(ScopeOf(t))) - 1
      <3>1. t \in Of(ScopeOf(t))
        BY <1>4 DEF LetsGo, Of
      <3> QED BY <3>1, OfFinite, FS_RemoveElement
    <2>4. \A s \in Scopes : inside'[s] = IF s = ScopeOf(t) THEN inside[s] - 1 ELSE inside[s]
      BY <1>4, <2>1 DEF LetsGo, TypeOK
    <2>5. \A s \in Scopes : inside'[s] = Cardinality(Of(s)')
      BY <1>1, <2>2, <2>3, <2>4
    <2>6. \A s \in Scopes : Cardinality(Of(s)') \in Nat
      <3> TAKE s \in Scopes
      <3>1. Of(s)' \in SUBSET Tasks
        BY <1>4 DEF LetsGo, Of, InHand
      <3> QED BY <3>1, Forest, FS_Subset, FS_CardinalityType
    <2>7. Counted'
      BY <2>5, CountedNext
    <2>8. inside' \in [Scopes -> Nat]
      <3>1. \A s \in Scopes : inside'[s] \in Nat
        BY <2>5, <2>6
      <3>2. inside' = [inside EXCEPT ![ScopeOf(t)] = @ - 1] /\ inside \in [Scopes -> Nat]
        BY <1>4 DEF LetsGo, TypeOK
      <3> QED BY <3>1, <3>2
    <2> QED BY <2>7, <2>8
  <1> QED BY <1>2, <1>3, <1>4

-----------------------------------------------------------------------------
(* What a step of a thread over its work keeps.                            *)

Carries ==
    /\ TaskInv'
    /\ open' \cap Owners = open \cap Owners
    /\ admitted' = admitted /\ quiesced' = quiesced
    /\ \A t \in InHand' : \/ t \in InHand \/ OwnerOf[t] \in open
                          \/ \E u \in InHand : OwnerOf[u] = OwnerOf[t]

(* A queue nobody touches, of tasks nobody moves.                          *)
LEMMA QueueKept ==
    ASSUME TypeOK, QueueOnce, queue' = queue,
           \A t \in Tasks : at[t] = "queued" => at'[t] = "queued"
    PROVE  QueueOnce'
  <1> SUFFICES ASSUME NEW p \in Priorities, NEW i \in DOMAIN queue[p]
               PROVE  at'[queue[p][i]] = "queued"
    BY DEF QueueOnce
  <1>1. queue[p][i] \in Tasks
    BY DEF TypeOK
  <1> QED BY <1>1 DEF QueueOnce

(* A task that goes on, where no JobScope comes or goes.                   *)
LEMMA Moving ==
    ASSUME TypeOK, QueueOnce, JobScopes, NEW t \in Tasks, NEW to \in Stages, Goes(t, to),
           at[t] \notin {"work", "join", "queued"}, to \notin {"work", "join"},
           open' = open, queue' = queue
    PROVE  QueueOnce' /\ JobScopes'
  <1>1. \A u \in Tasks : at'[u] = IF u = t THEN to ELSE at[u]
    BY Going
  <1>2. QueueOnce'
    BY <1>1, QueueKept
  <1>3. JobScopes'
    BY <1>1 DEF JobScopes
  <1> QED BY <1>2, <1>3

LEMMA QueueFed ==
    ASSUME TypeOK, QueueOnce, NEW t \in Tasks, at[t] = "asked", Enqueue(t)
    PROVE  QueueOnce' /\ queue' \in [Priorities -> Seq(Tasks)] /\ Goes(t, "queued")
  <1> DEFINE p == PriorityOf[t]
             old == queue[p]
  <1>1. p \in Priorities /\ old \in Seq(Tasks) /\ queue' = [queue EXCEPT ![p] = Append(old, t)]
    BY Shape DEF TypeOK, Enqueue
  <1>2. /\ Append(old, t) \in Seq(Tasks) /\ DOMAIN Append(old, t) = 1..(Len(old) + 1)
        /\ DOMAIN old = 1..Len(old) /\ Len(old) \in Nat
        /\ \A i \in 1..Len(old) : Append(old, t)[i] = old[i]
        /\ Append(old, t)[Len(old) + 1] = t
    BY <1>1
  <1>3. Goes(t, "queued") /\ at'[t] = "queued" /\ \A u \in Tasks \ {t} : at'[u] = at[u]
    BY Going DEF Enqueue, Stages
  <1>4. \A q \in Priorities : \A i \in DOMAIN queue[q] :
            /\ queue[q][i] \in Tasks /\ queue[q][i] # t /\ at'[queue[q][i]] = "queued"
            /\ PriorityOf[queue[q][i]] = q
    <2> TAKE q \in Priorities
    <2> TAKE i \in DOMAIN queue[q]
    <2>1. queue[q][i] \in Tasks /\ at[queue[q][i]] = "queued" /\ PriorityOf[queue[q][i]] = q
      BY DEF TypeOK, QueueOnce
    <2> QED BY <2>1, <1>3
  <1>5. \A i, j \in DOMAIN old : old[i] = old[j] => i = j
    BY <1>1 DEF QueueOnce
  <1>6. ASSUME NEW q \in Priorities
        PROVE  /\ \A i \in DOMAIN queue'[q] :
                    at'[queue'[q][i]] = "queued" /\ PriorityOf[queue'[q][i]] = q
               /\ \A i, j \in DOMAIN queue'[q] : queue'[q][i] = queue'[q][j] => i = j
    <2>1. CASE q # p
      <3>1. queue'[q] = queue[q]
        BY <1>1, <2>1 DEF TypeOK
      <3> QED BY <3>1, <1>4 DEF QueueOnce
    <2>2. CASE q = p
      <3>1. queue'[q] = Append(old, t)
        BY <1>1, <2>2 DEF TypeOK
      <3>2. \A i \in 1..Len(old) : /\ Append(old, t)[i] # t /\ at'[Append(old, t)[i]] = "queued"
                                   /\ PriorityOf[Append(old, t)[i]] = p
        BY <1>1, <1>2, <1>4
      <3>3. \A i \in 1..(Len(old) + 1) : i \in 1..Len(old) \/ i = Len(old) + 1
        BY <1>2
      <3>4. \A i \in DOMAIN queue'[q] : at'[queue'[q][i]] = "queued" /\ PriorityOf[queue'[q][i]] = q
        BY <3>1, <3>2, <3>3, <1>2, <1>3, <2>2
      <3>5. \A i, j \in DOMAIN queue'[q] : queue'[q][i] = queue'[q][j] => i = j
        BY <3>1, <3>2, <3>3, <1>2, <1>5
      <3> QED BY <3>4, <3>5
    <2> QED BY <2>1, <2>2
  <1>7. QueueOnce'
    BY <1>6 DEF QueueOnce
  <1>8. queue' \in [Priorities -> Seq(Tasks)]
    BY <1>1, <1>2 DEF TypeOK
  <1> QED BY <1>3, <1>7, <1>8

LEMMA QueueTaken ==
    ASSUME TypeOK, QueueOnce, NEW h \in Threads, NEW t \in Tasks, Pop(h, t)
    PROVE  /\ QueueOnce' /\ queue' \in [Priorities -> Seq(Tasks)]
           /\ at[t] = "queued" /\ Goes(t, "begin") /\ open' = open
           /\ stack' \in [Threads -> Seq(Tasks)] /\ slotted' \subseteq Tasks
  <1>1. PICK p \in NextPriorities :
            /\ Head(queue[p]) = t
            /\ queue' = [queue EXCEPT ![p] = Tail(@)]
    BY DEF Pop
  <1> DEFINE old == queue[p]
  <1>2. p \in Priorities /\ old \in Seq(Tasks) /\ old # <<>>
    BY <1>1 DEF NextPriorities, TypeOK
  <1>3. /\ Tail(old) \in Seq(Tasks) /\ DOMAIN Tail(old) = 1..(Len(old) - 1)
        /\ DOMAIN old = 1..Len(old) /\ Len(old) \in Nat \ {0}
        /\ \A i \in 1..(Len(old) - 1) : Tail(old)[i] = old[i + 1]
        /\ old[1] = t
    <2>1. /\ Tail(old) \in Seq(Tasks) /\ Len(Tail(old)) = Len(old) - 1
          /\ \A i \in 1..Len(Tail(old)) : Tail(old)[i] = old[i + 1]
      BY <1>2, HeadTailProperties
    <2>2. DOMAIN old = 1..Len(old) /\ Len(old) \in Nat \ {0} /\ old[1] = t
      BY <1>1, <1>2
    <2> QED BY <2>1, <2>2
  <1>4. at[t] = "queued" /\ PriorityOf[t] = p
    BY <1>2, <1>3 DEF QueueOnce
  <1>5. Goes(t, "begin") /\ \A u \in Tasks \ {t} : at'[u] = at[u]
    BY Going DEF Pop, Stages
  <1>6. \A i \in 1..(Len(old) - 1) : i + 1 \in DOMAIN old /\ i + 1 # 1
    BY <1>3
  <1>7. ASSUME NEW q \in Priorities
        PROVE  /\ \A i \in DOMAIN queue'[q] :
                    at'[queue'[q][i]] = "queued" /\ PriorityOf[queue'[q][i]] = q
               /\ \A i, j \in DOMAIN queue'[q] : queue'[q][i] = queue'[q][j] => i = j
    <2>1. CASE q # p
      <3>1. queue'[q] = queue[q]
        BY <1>1, <2>1 DEF TypeOK
      <3>2. \A i \in DOMAIN queue[q] : queue[q][i] \in Tasks \ {t}
        <4> TAKE i \in DOMAIN queue[q]
        <4>1. queue[q][i] \in Tasks /\ PriorityOf[queue[q][i]] = q
          BY DEF TypeOK, QueueOnce
        <4> QED BY <4>1, <1>4, <2>1
      <3> QED BY <3>1, <3>2, <1>5 DEF QueueOnce
    <2>2. CASE q = p
      <3>1. queue'[q] = Tail(old)
        BY <1>1, <2>2 DEF TypeOK
      <3>2. \A i, j \in DOMAIN old : old[i] = old[j] => i = j
        BY <1>2 DEF QueueOnce
      <3>3. \A i \in DOMAIN old : old[i] \in Tasks /\ at[old[i]] = "queued" /\ PriorityOf[old[i]] = p
        BY <1>2 DEF QueueOnce, TypeOK
      <3>4. \A i \in 1..(Len(old) - 1) :
                at'[Tail(old)[i]] = "queued" /\ PriorityOf[Tail(old)[i]] = p
        <4> TAKE i \in 1..(Len(old) - 1)
        <4>1. i + 1 \in DOMAIN old /\ 1 \in DOMAIN old /\ old[i + 1] # old[1]
          BY <1>3, <1>6, <3>2
        <4> QED BY <4>1, <1>3, <1>5, <3>3
      <3>5. \A i, j \in 1..(Len(old) - 1) : Tail(old)[i] = Tail(old)[j] => i = j
        <4> TAKE i \in 1..(Len(old) - 1), j \in 1..(Len(old) - 1)
        <4> HAVE Tail(old)[i] = Tail(old)[j]
        <4>1. i + 1 = j + 1
          BY <1>3, <1>6, <3>2
        <4> QED BY <4>1
      <3>6. DOMAIN queue'[q] = 1..(Len(old) - 1)
        BY <3>1, <1>3
      <3>7. \A i \in DOMAIN queue'[q] : at'[queue'[q][i]] = "queued" /\ PriorityOf[queue'[q][i]] = q
        BY <3>1, <3>4, <3>6, <2>2
      <3>8. \A i, j \in DOMAIN queue'[q] : queue'[q][i] = queue'[q][j] => i = j
        BY <3>1, <3>5, <3>6
      <3> QED BY <3>7, <3>8
    <2> QED BY <2>1, <2>2
  <1>8. QueueOnce'
    BY <1>7 DEF QueueOnce
  <1>9. queue' \in [Priorities -> Seq(Tasks)]
    BY <1>1, <1>3 DEF TypeOK
  <1>10. open' = open /\ stack' \in [Threads -> Seq(Tasks)] /\ slotted' \subseteq Tasks
    BY DEF Pop, TypeOK
  <1> QED BY <1>4, <1>5, <1>8, <1>9, <1>10

(* A thread that takes what is queued goes on with it, and that is all.    *)
LEMMA PopCarries ==
    ASSUME TaskInv, NEW h \in Threads, NEW t \in Tasks, Pop(h, t)
    PROVE  Carries
  <1> USE DEF TaskInv
  <1>1. /\ QueueOnce' /\ queue' \in [Priorities -> Seq(Tasks)]
        /\ at[t] = "queued" /\ Goes(t, "begin") /\ open' = open
        /\ stack' \in [Threads -> Seq(Tasks)] /\ slotted' \subseteq Tasks
    BY QueueTaken
  <1>2. /\ at' \in [Tasks -> Stages] /\ at'[t] = "begin"
        /\ \A u \in Tasks \ {t} : at'[u] = at[u]
        /\ InHand' = InHand
    <2>1. t \in InHand
      BY <1>1 DEF InHand, Unasked, Over
    <2>2. "begin" \in Stages /\ "begin" \notin Unasked \cup Over
      BY DEF Stages, Unasked, Over
    <2>3. /\ at' \in [Tasks -> Stages] /\ at'[t] = "begin"
          /\ \A u \in Tasks \ {t} : at'[u] = at[u]
          /\ InHand' = InHand \cup {t}
      BY <1>1, <2>2, Going
    <2> QED BY <2>1, <2>3
  <1>3. Keeps
    BY <1>2 DEF Pop, Keeps
  <1>4. Counted' /\ inside' \in [Scopes -> Nat]
    BY <1>3, Counting
  <1>5. JobScopes'
    BY <1>1, <1>2 DEF JobScopes
  <1>6. TypeOK'
    BY <1>1, <1>2, <1>4 DEF Pop, TypeOK, cancels, ends
  <1>7. Scoped'
    BY <1>1, <1>2 DEF Scoped
  <1> QED BY <1>1, <1>2, <1>4, <1>5, <1>6, <1>7 DEF Carries, Pop, ends, cancels

(* What TypeOK says of what else a step over work may change.              *)
Rest ==
    /\ slotted \subseteq Tasks /\ failed \subseteq Tasks /\ ready \subseteq Tasks
    /\ stack \in [Threads -> Seq(Tasks)] /\ cancelled \subseteq Scopes
    /\ closed \in BOOLEAN /\ stopping \in BOOLEAN /\ exited \subseteq Workers

Elsewhere == Rest' /\ quiesced' = quiesced /\ admitted' = admitted

(* Work that goes on: in hand as before, and no JobScope comes or goes.    *)
LEMMA GoesOn ==
    ASSUME TaskInv, Elsewhere, NEW t \in Tasks, NEW to \in Stages, Goes(t, to),
           at[t] \notin {"work", "join", "queued"}, to \notin {"work", "join"},
           at[t] \in Unasked \cup Over <=> to \in Unasked \cup Over,
           open' = open, queue' = queue, inside' = inside
    PROVE  Carries
  <1> USE DEF TaskInv
  <1>1. QueueOnce' /\ JobScopes'
    BY Moving
  <1>2. /\ at' \in [Tasks -> Stages]
        /\ InHand' = IF to \in Unasked \cup Over THEN InHand \ {t} ELSE InHand \cup {t}
    BY Going
  <1>3. InHand' = InHand
    BY <1>2 DEF InHand
  <1>4. Counted' /\ inside' \in [Scopes -> Nat]
    BY <1>3, Counting DEF Keeps
  <1>5. TypeOK'
    BY <1>2, <1>4 DEF TypeOK, Elsewhere, Rest
  <1> QED BY <1>1, <1>3, <1>4, <1>5 DEF Carries, Elsewhere, Scoped

(* Work that is asked for, by an open scope of an owner with work in hand  *)
(* or of an owner.                                                         *)
LEMMA AskedCarries ==
    ASSUME TaskInv, Elsewhere, NEW t \in Tasks, Goes(t, "asked"), at[t] = "new",
           inside' = [inside EXCEPT ![ScopeOf(t)] = @ + 1], ScopeOf(t) \in open,
           OwnerOf[t] \in open \/ \E u \in InHand : OwnerOf[u] = OwnerOf[t],
           open' = open, queue' = queue
    PROVE  Carries
  <1> USE DEF TaskInv
  <1>0. "asked" \in Stages /\ "asked" \notin Unasked \cup Over /\ "new" \in Unasked
    BY DEF Stages, Unasked, Over
  <1>1. QueueOnce' /\ JobScopes'
    BY <1>0, Moving
  <1>2. at' \in [Tasks -> Stages] /\ InHand' = InHand \cup {t}
    BY <1>0, Going
  <1>3. TakesUp(t)
    BY <1>0, <1>2 DEF TakesUp, InHand
  <1>4. Counted' /\ inside' \in [Scopes -> Nat]
    BY <1>3, Counting
  <1>5. TypeOK'
    BY <1>2, <1>4 DEF TypeOK, Elsewhere, Rest
  <1> QED BY <1>1, <1>2, <1>4, <1>5 DEF Carries, Elsewhere, Scoped

(* Work that is given back or over.                                        *)
LEMMA OverCarries ==
    ASSUME TaskInv, Elsewhere, NEW t \in Tasks, NEW to \in Unasked \cup Over, Goes(t, to),
           at[t] \in {"asked", "finish"},
           inside' = [inside EXCEPT ![ScopeOf(t)] = @ - 1],
           open' = open, queue' = queue
    PROVE  Carries
  <1> USE DEF TaskInv
  <1>0. /\ to \in Stages /\ to \notin {"work", "join"} /\ at[t] \notin Unasked \cup Over
        /\ at[t] \notin {"work", "join", "queued"}
    BY DEF Stages, Unasked, Over
  <1>1. QueueOnce' /\ JobScopes'
    BY <1>0, Moving
  <1>2. at' \in [Tasks -> Stages] /\ InHand' = InHand \ {t}
    BY <1>0, Going
  <1>3. LetsGo(t)
    BY <1>0, <1>2 DEF LetsGo, InHand
  <1>4. Counted' /\ inside' \in [Scopes -> Nat]
    BY <1>3, Counting
  <1>5. TypeOK'
    BY <1>2, <1>4 DEF TypeOK, Elsewhere, Rest
  <1> QED BY <1>1, <1>2, <1>4, <1>5 DEF Carries, Elsewhere, Scoped

-----------------------------------------------------------------------------
(* Each step of a thread.                                                  *)

(* A task that begins makes its JobScope, if it will have jobs.            *)
LEMMA BeginCarries ==
    ASSUME TaskInv, NEW h \in Threads, NEW t \in Tasks, Begin(h, t)
    PROVE  Carries
  <1> USE DEF TaskInv
  <1>1. Elsewhere /\ at[t] = "begin" /\ queue' = queue /\ inside' = inside
    BY DEF Begin, Elsewhere, Rest, TypeOK, cancels, ends
  <1>2. CASE Cancelled(ScopeOf(t), OwnerOf[t])
    <2>1. open' = open
      BY <1>2 DEF Begin
    <2>2. \A to \in {"deliver", "finish"} : Goes(t, to) => Carries
      <3> SUFFICES ASSUME NEW to \in {"deliver", "finish"}, Goes(t, to) PROVE Carries
        OBVIOUS
      <3>1. to \in Stages /\ to \notin Unasked \cup Over /\ at[t] \notin Unasked \cup Over
        BY <1>1 DEF Stages, Unasked, Over
      <3>2. at[t] \notin {"work", "join", "queued"} /\ to \notin {"work", "join"}
        BY <1>1
      <3> QED BY <1>1, <2>1, <3>1, <3>2, GoesOn
    <2>3. Goes(t, "deliver") \/ Goes(t, "finish")
      BY <1>2 DEF Begin
    <2> QED BY <2>2, <2>3
  <1>3. CASE ~Cancelled(ScopeOf(t), OwnerOf[t])
    <2>1. Goes(t, "work") /\ open' = IF JobsOf(t) = {} THEN open ELSE open \cup {t}
      BY <1>3 DEF Begin
    <2>2. "work" \in Stages /\ "work" \notin Unasked \cup Over /\ "begin" \notin Unasked \cup Over
      BY DEF Stages, Unasked, Over
    <2>3. /\ at' \in [Tasks -> Stages] /\ at'[t] = "work" /\ InHand' = InHand \cup {t}
          /\ \A u \in Tasks \ {t} : at'[u] = at[u]
      BY <2>1, <2>2, Going
    <2>4. InHand' = InHand
      BY <1>1, <2>2, <2>3 DEF InHand
    <2>5. Counted' /\ inside' \in [Scopes -> Nat]
      BY <1>1, <2>4, Counting DEF Keeps
    <2>6. open \subseteq open' /\ open' \subseteq open \cup {t} /\ open' \cap Owners = open \cap Owners
      BY <2>1, Shape
    <2>7. TypeOK'
      BY <1>1, <2>3, <2>5, <2>6, Shape DEF TypeOK, Elsewhere, Rest
    <2>8. QueueOnce'
      BY <1>1, <2>3, QueueKept
    <2>9. JobScopes'
      BY <1>1, <2>1, <2>3 DEF JobScopes
    <2> QED BY <1>1, <2>4, <2>5, <2>6, <2>7, <2>8, <2>9 DEF Carries, Elsewhere, Scoped
  <1> QED BY <1>2, <1>3

(* A job is asked for by work that is in hand, in a JobScope that is open. *)
LEMMA AskJobCarries ==
    ASSUME TaskInv, NEW h \in Threads, NEW t \in Tasks, NEW c \in Tasks, AskJob(h, t, c)
    PROVE  Carries
  <1>1. Elsewhere /\ open' = open /\ queue' = queue
    BY DEF AskJob, Elsewhere, Rest, TaskInv, TypeOK, cancels, ends
  <1>2. at[t] = "work" /\ c \in JobsOf(t) /\ at[c] = "new" /\ Goes(c, "asked") /\ Counts(t, 1)
    BY DEF AskJob
  <1>3. ScopeOf(c) = t /\ OwnerOf[c] = OwnerOf[t] /\ t \in open
    BY <1>2, JobsAre DEF TaskInv, JobScopes
  <1>4. t \in InHand
    BY <1>2 DEF InHand, Unasked, Over
  <1>5. inside' = [inside EXCEPT ![ScopeOf(c)] = @ + 1]
    BY <1>2, <1>3 DEF Counts
  <1> QED BY <1>1, <1>2, <1>3, <1>4, <1>5, AskedCarries

(* Work that is queued is in hand as it was.                               *)
LEMMA EnqueueCarries ==
    ASSUME TaskInv, Elsewhere, NEW t \in Tasks, at[t] = "asked", Enqueue(t),
           open' = open, inside' = inside
    PROVE  Carries
  <1> USE DEF TaskInv
  <1>1. QueueOnce' /\ queue' \in [Priorities -> Seq(Tasks)] /\ Goes(t, "queued")
    BY QueueFed
  <1>2. "queued" \in Stages /\ "queued" \notin Unasked \cup Over /\ "asked" \notin Unasked \cup Over
    BY DEF Stages, Unasked, Over
  <1>3. /\ at' \in [Tasks -> Stages] /\ at'[t] = "queued" /\ InHand' = InHand \cup {t}
        /\ \A u \in Tasks \ {t} : at'[u] = at[u]
    BY <1>1, <1>2, Going
  <1>4. InHand' = InHand
    BY <1>2, <1>3 DEF InHand
  <1>5. Counted' /\ inside' \in [Scopes -> Nat]
    BY <1>4, Counting DEF Keeps
  <1>6. TypeOK'
    BY <1>1, <1>3, <1>5 DEF TypeOK, Elsewhere, Rest
  <1>7. JobScopes'
    BY <1>3 DEF JobScopes
  <1> QED BY <1>1, <1>4, <1>5, <1>6, <1>7 DEF Carries, Elsewhere, Scoped

LEMMA SubmitJobCarries ==
    ASSUME TaskInv, NEW h \in Threads, NEW t \in Tasks, NEW c \in Tasks, SubmitJob(h, t, c)
    PROVE  Carries
  <1>1. at[c] = "asked" /\ open' = open /\ inside' = inside
    BY DEF SubmitJob
  <1>2. CASE Refused(c)
    <2>1. Goes(c, "begin") /\ queue' = queue /\ stack' = [stack EXCEPT ![h] = <<c>> \o @]
      BY <1>2 DEF SubmitJob
    <2>2. stack' \in [Threads -> Seq(Tasks)]
      BY <2>1 DEF TaskInv, TypeOK
    <2>3. Elsewhere
      BY <2>2 DEF SubmitJob, Elsewhere, Rest, TaskInv, TypeOK, cancels, ends
    <2>4. "begin" \in Stages /\ "begin" \notin Unasked \cup Over /\ "asked" \notin Unasked \cup Over
      BY DEF Stages, Unasked, Over
    <2>5. at[c] \notin {"work", "join", "queued"} /\ "begin" \notin {"work", "join"}
      BY <1>1
    <2> QED BY <1>1, <2>1, <2>3, <2>4, <2>5, GoesOn
  <1>3. CASE ~Refused(c)
    <2>1. Enqueue(c) /\ stack' = stack
      BY <1>3 DEF SubmitJob
    <2>2. Elsewhere
      BY <2>1 DEF SubmitJob, Elsewhere, Rest, TaskInv, TypeOK, cancels, ends
    <2> QED BY <1>1, <2>1, <2>2, EnqueueCarries
  <1> QED BY <1>2, <1>3

LEMMA JoinCarries ==
    ASSUME TaskInv, NEW h \in Threads, NEW t \in Tasks, Join(h, t)
    PROVE  Carries
  <1> USE DEF TaskInv
  <1>1. Elsewhere /\ open' = open /\ queue' = queue /\ inside' = inside
    BY DEF Join, Elsewhere, Rest, TypeOK, cancels, ends
  <1>2. at[t] = "work" /\ t \in open /\ Goes(t, "join")
    BY DEF Join
  <1>3. "join" \in Stages /\ "join" \notin Unasked \cup Over /\ "work" \notin Unasked \cup Over
    BY DEF Stages, Unasked, Over
  <1>4. /\ at' \in [Tasks -> Stages] /\ at'[t] = "join" /\ InHand' = InHand \cup {t}
        /\ \A u \in Tasks \ {t} : at'[u] = at[u]
    BY <1>2, <1>3, Going
  <1>5. InHand' = InHand
    BY <1>2, <1>3, <1>4 DEF InHand
  <1>6. Counted' /\ inside' \in [Scopes -> Nat]
    BY <1>1, <1>5, Counting DEF Keeps
  <1>7. TypeOK'
    BY <1>1, <1>4, <1>6 DEF TypeOK, Elsewhere, Rest
  <1>8. QueueOnce'
    BY <1>1, <1>2, <1>4, QueueKept
  <1>9. JobScopes'
    BY <1>1, <1>2, <1>4 DEF JobScopes
  <1> QED BY <1>1, <1>5, <1>6, <1>7, <1>8, <1>9 DEF Carries, Elsewhere, Scoped

(* Its JobScope goes with its work, when none of its jobs is in hand.      *)
LEMMA WorkEndsCarries ==
    ASSUME TaskInv, NEW h \in Threads, NEW t \in Tasks, NEW fails \in BOOLEAN, WorkEnds(h, t, fails)
    PROVE  Carries
  <1> USE DEF TaskInv
  <1>1. Elsewhere /\ queue' = queue /\ inside' = inside /\ open' = open \ {t}
    BY DEF WorkEnds, Elsewhere, Rest, TypeOK, cancels, ends
  <1>2. (at[t] = "join" /\ inside[t] = 0) \/ (at[t] = "work" /\ t \notin open)
    BY DEF WorkEnds
  <1>3. PICK to \in {"deliver", "report"} : Goes(t, to)
    BY DEF WorkEnds
  <1>4. /\ to \in Stages /\ to \notin Unasked \cup Over /\ at[t] \notin Unasked \cup Over
        /\ to \notin {"work", "join", "queued"} /\ at[t] # "queued"
    BY <1>2 DEF Stages, Unasked, Over
  <1>5. /\ at' \in [Tasks -> Stages] /\ at'[t] = to /\ InHand' = InHand \cup {t}
        /\ \A u \in Tasks \ {t} : at'[u] = at[u]
    BY <1>3, <1>4, Going
  <1>6. InHand' = InHand
    BY <1>4, <1>5 DEF InHand
  <1>7. Counted' /\ inside' \in [Scopes -> Nat]
    BY <1>1, <1>6, Counting DEF Keeps
  <1>8. TypeOK'
    BY <1>1, <1>5, <1>7 DEF TypeOK, Elsewhere, Rest
  <1>9. QueueOnce'
    BY <1>1, <1>4, <1>5, QueueKept
  <1>10. JobScopes'
    BY <1>1, <1>4, <1>5 DEF JobScopes
  <1>11. Scoped'
    <2>1. t \in Scopes
      BY Shape
    <2>2. \A u \in InHand : ScopeOf(u) \in open /\ ScopeOf(u) # t
      BY <1>2, <2>1, NoneInHand DEF Scoped
    <2> QED BY <1>1, <1>6, <2>2 DEF Scoped
  <1>12. open' \cap Owners = open \cap Owners
    BY <1>1, Shape
  <1> QED BY <1>1, <1>6, <1>7, <1>8, <1>9, <1>10, <1>11, <1>12 DEF Carries, Elsewhere

LEMMA DeliverCarries ==
    ASSUME TaskInv, NEW h \in Threads, NEW t \in Tasks, Deliver(h, t)
    PROVE  Carries
  <1>1. Elsewhere /\ open' = open /\ queue' = queue /\ inside' = inside
    BY DEF Deliver, Elsewhere, Rest, TaskInv, TypeOK, cancels, ends
  <1>2. at[t] = "deliver" /\ Goes(t, "report")
    BY DEF Deliver
  <1>3. "report" \in Stages /\ "report" \notin Unasked \cup Over /\ at[t] \notin Unasked \cup Over
    BY <1>2 DEF Stages, Unasked, Over
  <1>4. at[t] \notin {"work", "join", "queued"} /\ "report" \notin {"work", "join"}
    BY <1>2
  <1> QED BY <1>1, <1>2, <1>3, <1>4, GoesOn

LEMMA ReportCarries ==
    ASSUME TaskInv, NEW h \in Threads, NEW t \in Tasks, Report(h, t)
    PROVE  Carries
  <1>0. cancelled' \subseteq Scopes
    <2>1. cancelled' \subseteq cancelled \cup {ScopeOf(t)} /\ cancelled \subseteq Scopes
      BY DEF Report, TaskInv, TypeOK
    <2>2. ScopeOf(t) \in Scopes
      BY Shape
    <2> QED BY <2>1, <2>2
  <1>1. Elsewhere /\ open' = open /\ queue' = queue /\ inside' = inside
    BY <1>0 DEF Report, Elsewhere, Rest, TaskInv, TypeOK, ends
  <1>2. at[t] = "report" /\ Goes(t, "finish")
    BY DEF Report
  <1>3. "finish" \in Stages /\ "finish" \notin Unasked \cup Over /\ at[t] \notin Unasked \cup Over
    BY <1>2 DEF Stages, Unasked, Over
  <1>4. at[t] \notin {"work", "join", "queued"} /\ "finish" \notin {"work", "join"}
    BY <1>2
  <1> QED BY <1>1, <1>2, <1>3, <1>4, GoesOn

LEMMA FinishCarries ==
    ASSUME TaskInv, NEW h \in Threads, NEW t \in Tasks, Finish(h, t)
    PROVE  Carries
  <1>1. Elsewhere /\ open' = open /\ queue' = queue
    BY DEF Finish, Elsewhere, Rest, TaskInv, TypeOK, cancels, ends
  <1>2. at[t] = "finish" /\ Goes(t, "leave") /\ Counts(ScopeOf(t), -1)
    BY DEF Finish
  <1>3. inside' = [inside EXCEPT ![ScopeOf(t)] = @ - 1]
    <2>1. inside[ScopeOf(t)] \in Nat
      BY Shape DEF TaskInv, TypeOK
    <2>2. inside[ScopeOf(t)] + (-1) = inside[ScopeOf(t)] - 1
      BY <2>1
    <2> QED BY <1>2, <2>2 DEF Counts
  <1>4. "leave" \in Unasked \cup Over
    BY DEF Over
  <1> QED BY <1>1, <1>2, <1>3, <1>4, OverCarries

LEMMA LeaveCarries ==
    ASSUME TaskInv, NEW h \in Threads, NEW t \in Tasks, Leave(h, t)
    PROVE  Carries
  <1>0. stack' \in [Threads -> Seq(Tasks)]
    BY DEF Leave, Within, TaskInv, TypeOK
  <1>1. Elsewhere /\ open' = open /\ queue' = queue /\ inside' = inside
    BY <1>0 DEF Leave, Elsewhere, Rest, TaskInv, TypeOK, cancels, ends
  <1>2. at[t] = "leave" /\ Goes(t, "ended")
    BY DEF Leave
  <1>3. "ended" \in Stages /\ "ended" \in Unasked \cup Over /\ at[t] \in Unasked \cup Over
    BY <1>2 DEF Stages, Unasked, Over
  <1>4. at[t] \notin {"work", "join", "queued"} /\ "ended" \notin {"work", "join"}
    BY <1>2
  <1> QED BY <1>1, <1>2, <1>3, <1>4, GoesOn

(* Whatever a thread does next with the task it is in.                     *)
LEMMA RunsCarries ==
    ASSUME TaskInv, NEW h \in Threads, Runs(h)
    PROVE  Carries
  <1>1. PICK t \in Tasks : Step(h, t)
    BY DEF Runs
  <1>2. CASE Begin(h, t)
    BY <1>2, BeginCarries
  <1>3. CASE Join(h, t)
    BY <1>3, JoinCarries
  <1>4. CASE \E c \in Tasks : AskJob(h, t, c) \/ SubmitJob(h, t, c) \/ Help(h, t, c)
    BY <1>4, AskJobCarries, SubmitJobCarries, PopCarries DEF Help
  <1>5. CASE \E fails \in BOOLEAN : WorkEnds(h, t, fails)
    BY <1>5, WorkEndsCarries
  <1>6. CASE Deliver(h, t) \/ Report(h, t) \/ Finish(h, t) \/ Leave(h, t)
    BY <1>6, DeliverCarries, ReportCarries, FinishCarries, LeaveCarries
  <1> QED BY <1>1, <1>2, <1>3, <1>4, <1>5, <1>6 DEF Step

-----------------------------------------------------------------------------
(* What the workers and the owners do over the work.                       *)

LEMMA WorksCarries ==
    ASSUME TaskInv, NEW w \in Workers, Works(w)
    PROVE  Carries
  <1>1. w \in Threads
    BY DEF Threads
  <1>2. CASE Runs(w)
    BY <1>1, <1>2, RunsCarries
  <1>3. CASE \E t \in Tasks : WorkerTakes(w, t)
    BY <1>1, <1>3, PopCarries DEF WorkerTakes
  <1>4. CASE WorkerLeaves(w)
    <2>1. Carries
      <3> USE DEF TaskInv
      <3>1. /\ at' = at /\ queue' = queue /\ open' = open /\ inside' = inside
            /\ quiesced' = quiesced /\ admitted' = admitted /\ InHand' = InHand
        BY <1>4 DEF WorkerLeaves, works, cancels, InHand
      <3>2. TypeOK'
        BY <1>4 DEF WorkerLeaves, works, cancels, TypeOK
      <3>3. Counted'
        BY <3>1, Counting DEF Keeps
      <3>4. QueueOnce' /\ JobScopes' /\ Scoped'
        BY <3>1 DEF QueueOnce, JobScopes, Scoped
      <3> QED BY <3>1, <3>2, <3>3, <3>4 DEF Carries
    <2> QED BY <2>1
  <1> QED BY <1>2, <1>3, <1>4 DEF Works

(* An operation is taken up for an owner whose scope is open.              *)
LEMMA ReserveCarries ==
    ASSUME TaskInv, NEW t \in Operations, Reserve(t)
    PROVE  Carries
  <1>1. /\ t \in Tasks /\ ScopeOf(t) = OwnerOf[t] /\ OwnerOf[t] \in open /\ at[t] = "new"
        /\ open' = open /\ queue' = queue
    BY Shape DEF Reserve
  <1>2. Elsewhere
    BY DEF Reserve, Elsewhere, Rest, TaskInv, TypeOK, cancels, ends
  <1>3. CASE inside[OwnerOf[t]] < MostInFlight
    <2>1. Goes(t, "asked") /\ inside' = [inside EXCEPT ![ScopeOf(t)] = @ + 1]
      BY <1>1, <1>3 DEF Reserve, Counts
    <2> QED BY <1>1, <1>2, <2>1, AskedCarries
  <1>4. CASE ~(inside[OwnerOf[t]] < MostInFlight)
    <2>1. Goes(t, "refused") /\ inside' = inside
      BY <1>4 DEF Reserve
    <2>2. "refused" \in Stages /\ "refused" \in Unasked \cup Over /\ at[t] \in Unasked \cup Over
      BY <1>1 DEF Stages, Unasked, Over
    <2>3. at[t] \notin {"work", "join", "queued"} /\ "refused" \notin {"work", "join"}
      BY <1>1
    <2> QED BY <1>1, <1>2, <2>1, <2>2, <2>3, GoesOn
  <1> QED BY <1>3, <1>4

LEMMA AnsweredCarries ==
    ASSUME TaskInv, NEW t \in Operations, Submit(t) \/ Unreserve(t)
    PROVE  Carries
  <1>1. t \in Tasks /\ ScopeOf(t) = OwnerOf[t]
    BY Shape
  <1>2. CASE Submit(t)
    <2>1. at[t] = "asked" /\ Enqueue(t) /\ open' = open /\ inside' = inside
      BY <1>2 DEF Submit
    <2>2. Elsewhere
      BY <1>2 DEF Submit, Elsewhere, Rest, TaskInv, TypeOK, cancels, ends
    <2> QED BY <1>1, <2>1, <2>2, EnqueueCarries
  <1>3. CASE Unreserve(t)
    <2>1. /\ at[t] = "asked" /\ Goes(t, "refused") /\ open' = open /\ queue' = queue
          /\ Counts(OwnerOf[t], -1)
      BY <1>3 DEF Unreserve
    <2>2. Elsewhere
      BY <1>3 DEF Unreserve, Elsewhere, Rest, TaskInv, TypeOK, cancels, ends
    <2>3. inside' = [inside EXCEPT ![ScopeOf(t)] = @ - 1]
      <3>1. inside[ScopeOf(t)] \in Nat
        BY <1>1, Shape DEF TaskInv, TypeOK
      <3>2. inside[ScopeOf(t)] + (-1) = inside[ScopeOf(t)] - 1
        BY <3>1
      <3> QED BY <1>1, <2>1, <3>2 DEF Counts
    <2>4. "refused" \in Unasked \cup Over
      BY DEF Unasked
    <2> QED BY <1>1, <2>1, <2>2, <2>3, <2>4, OverCarries
  <1> QED BY <1>2, <1>3

(* Nothing of the work, its queue or its scopes changes.                   *)
LEMMA WorkAlone ==
    ASSUME TaskInv, at' = at, queue' = queue, inside' = inside,
           open' \cap Tasks = open \cap Tasks,
           \A t \in InHand : ScopeOf(t) \in open'
    PROVE  /\ QueueOnce' /\ JobScopes' /\ Counted' /\ Scoped' /\ InHand' = InHand
           /\ inside' \in [Scopes -> Nat]
  <1> USE DEF TaskInv
  <1>1. InHand' = InHand
    BY DEF InHand
  <1>2. Counted' /\ inside' \in [Scopes -> Nat]
    BY <1>1, Counting DEF Keeps
  <1>3. QueueOnce'
    BY DEF QueueOnce
  <1>4. JobScopes'
    <2>1. \A t \in Tasks : t \in open' <=> t \in open
      OBVIOUS
    <2> QED BY <2>1 DEF JobScopes
  <1> QED BY <1>1, <1>2, <1>3, <1>4 DEF Scoped

-----------------------------------------------------------------------------
(* What the Host's thread keeps.                                           *)

(* Work in hand uses the objects up to its owner's.                        *)
LEMMA Outlived ==
    NothingOutlived <=> \A t \in InHand : ScopeOf(t) \in open /\ 1..OwnerOf[t] \subseteq constructed
  BY DEF NothingOutlived, InHand

(* What lives is always a first part of the plan.                          *)
LEMMA LivesSome ==
    ASSUME HostTypeOK, Places
    PROVE  \E k \in 0..Planned : Lives(k)
  <1>1. Planned \in Nat \ {0} /\ Owners = 1..Planned
    BY Shape
  <1>2. CASE phase = "construct"
    BY <1>1, <1>2 DEF HostTypeOK, Places
  <1>3. CASE phase \in {"start", "run"} \cup Down
    BY <1>1, <1>3 DEF Places
  <1>4. CASE phase = "destroy"
    <2>1. PICK k \in 0..next : Lives(k)
      BY <1>4 DEF Places
    <2>2. next \in 1..Planned
      BY <1>1, <1>4 DEF Places
    <2> QED BY <1>1, <2>1, <2>2
  <1>5. CASE phase = "retire"
    <2>1. Lives(next - 1) /\ next \in 1..Planned
      BY <1>1, <1>5 DEF Places
    <2> QED BY <1>1, <2>1
  <1>6. CASE phase \in Ends
    BY <1>1, <1>6 DEF Places
  <1> QED BY <1>2, <1>3, <1>4, <1>5, <1>6 DEF HostTypeOK, Phases, Down, Ends

(* A step over the work, with the Host's thread where it is in its phases. *)
LEMMA CarriesQuits ==
    ASSUME QuitInv, Carries, phase' = phase, next' = next, constructed' = constructed,
           handle' \in Tasks \cup {NoTask}, joining' = joining
    PROVE  QuitInv'
  <1> USE DEF QuitInv
  <1>1. TaskInv' /\ HostTypeOK'
    BY DEF Carries, HostTypeOK
  <1>2. \A k : Lives(k)' <=> Lives(k)
    BY DEF Carries, Lives
  <1>3. Places'
    <2>1. /\ admitted' = admitted /\ quiesced' = quiesced
      BY DEF Carries
    <2> QED BY <1>2, <2>1 DEF Places
  <1>4. NothingOutlived'
    <2>1. PICK k \in 0..Planned : Lives(k)
      BY LivesSome
    <2>2. \A t \in Tasks : OwnerOf[t] \in 1..Planned /\ (OwnerOf[t] \in open => OwnerOf[t] \in 1..k)
      BY <2>1, Shape DEF Lives
    <2>3. \A t \in InHand' : 1..OwnerOf[t] \subseteq constructed
      <3> TAKE t \in InHand'
      <3>1. t \in Tasks
        BY DEF InHand
      <3>2. CASE OwnerOf[t] \in open
        <4>1. OwnerOf[t] \in 1..k /\ constructed = 1..k
          BY <2>1, <2>2, <3>1, <3>2 DEF Lives
        <4> QED BY <4>1
      <3>3. CASE t \in InHand \/ \E u \in InHand : OwnerOf[u] = OwnerOf[t]
        BY <3>3, Outlived
      <3> QED BY <3>2, <3>3 DEF Carries
    <2>4. \A t \in InHand' : ScopeOf(t) \in open'
      BY DEF Carries, TaskInv, Scoped
    <2>5. \A t \in InHand' : ScopeOf(t) \in open' /\ 1..OwnerOf[t] \subseteq constructed'
      BY <2>3, <2>4
    <2> QED BY <2>5 DEF NothingOutlived, InHand
  <1> QED BY <1>1, <1>3, <1>4

(* No work of an owner is in hand when none of its operations is: a job is *)
(* somebody's, whose JobScope it is in.                                    *)
LEMMA NoneOf ==
    ASSUME TaskInv, NEW o \in Owners, \A t \in InHand : ScopeOf(t) # o
    PROVE  \A t \in InHand : OwnerOf[t] # o
  <1> DEFINE some == {t \in Jobs : t \in InHand /\ OwnerOf[t] = o}
  <1>1. \A t \in InHand : t \in Operations => OwnerOf[t] # o
    BY Shape
  <1>2. some = {}
    <2> SUFFICES ASSUME some # {} PROVE FALSE
      OBVIOUS
    <2>1. some \in SUBSET Jobs
      OBVIOUS
    <2>2. PICK c \in some : ParentOf[c] \notin some
      BY <2>1, Forest
    <2>3. /\ ParentOf[c] \in Tasks /\ OwnerOf[ParentOf[c]] = o /\ ParentOf[c] \in open
          /\ ParentOf[c] \in Operations \/ ParentOf[c] \in Jobs
      BY <2>2, Shape DEF TaskInv, Scoped
    <2>4. ParentOf[c] \in InHand
      BY <2>3 DEF TaskInv, JobScopes, InHand, Unasked, Over
    <2> QED BY <1>1, <2>2, <2>3, <2>4
  <1>3. \A t \in InHand : t \in Operations \/ t \in Jobs
    BY Shape DEF InHand
  <1> QED BY <1>1, <1>2, <1>3

(* A step that leaves work, scopes and objects alone.                      *)
LEMMA Aside ==
    ASSUME QuitInv, TypeOK', HostTypeOK', Places', at' = at, queue' = queue,
           inside' = inside, open' = open, constructed' = constructed
    PROVE  QuitInv'
  <1> USE DEF QuitInv
  <1>1. QueueOnce' /\ JobScopes' /\ Counted' /\ Scoped' /\ InHand' = InHand
    BY WorkAlone DEF TaskInv, Scoped
  <1>2. NothingOutlived'
    BY DEF NothingOutlived
  <1> QED BY <1>1, <1>2 DEF TaskInv

LEMMA LivesAs ==
    ASSUME open' = open, constructed' = constructed
    PROVE  \A k : Lives(k)' <=> Lives(k)
  BY DEF Lives

-----------------------------------------------------------------------------
(* start().                                                                *)

LEMMA ConstructQuits == QuitInv /\ Construct => QuitInv'
  <1> SUFFICES ASSUME QuitInv, Construct PROVE QuitInv'
    OBVIOUS
  <1> USE DEF QuitInv
  <1>1. /\ phase = "construct" /\ joining = 0 /\ next >= 1 /\ next <= Planned /\ next \in Nat
        /\ Planned \in Nat \ {0} /\ Owners = 1..Planned
        /\ Lives(next - 1) /\ admitted = 1..(next - 1)
    BY Shape DEF Construct, From, AtHome, Places, HostTypeOK
  <1>2. /\ next \in Owners /\ next \notin Tasks /\ next' = next + 1
        /\ 1..(next - 1) \cup {next} = 1..next /\ (next + 1) - 1 = next
    BY <1>1, Shape DEF Construct
  <1>3. /\ open' = open \cup {next} /\ constructed' = constructed \cup {next}
        /\ admitted' = admitted \cup {next} /\ at' = at /\ queue' = queue /\ inside' = inside
        /\ phase' = phase /\ joining' = joining /\ quiesced' = quiesced
    BY DEF Construct, works, cancels
  <1>4. QueueOnce' /\ JobScopes' /\ Counted' /\ Scoped' /\ InHand' = InHand
    <2>1. open' \cap Tasks = open \cap Tasks
      BY <1>2, <1>3
    <2> QED BY <1>3, <2>1, WorkAlone DEF TaskInv, Scoped
  <1>5. TypeOK'
    BY <1>2, Shape DEF Construct, TaskInv, TypeOK, works, cancels
  <1>6. HostTypeOK'
    BY <1>1, <1>2, Shape DEF Construct, HostTypeOK
  <1>7. constructed' = 1..next /\ open' \cap Owners = 1..next /\ admitted' = 1..next
    <2>1. constructed = 1..(next - 1) /\ open \cap Owners = 1..(next - 1)
      BY <1>1 DEF Lives
    <2>2. open' \cap Owners = (open \cap Owners) \cup {next}
      BY <1>2, <1>3
    <2> QED BY <1>1, <1>2, <1>3, <2>1, <2>2
  <1>8. Places'
    <2>1. phase' = "construct" /\ next' - 1 = next /\ next' >= 1 /\ joining' = 0 /\ quiesced' = {}
      BY <1>1, <1>2, <1>3 DEF Places, Up
    <2>2. Lives(next - 1)' /\ admitted' = 1..(next' - 1)
      BY <1>7, <2>1 DEF Lives
    <2> QED BY <2>1, <2>2 DEF Places, Up, Down, Ends
  <1>9. NothingOutlived'
    BY <1>3 DEF NothingOutlived
  <1> QED BY <1>4, <1>5, <1>6, <1>8, <1>9 DEF TaskInv

(* A plan that fails half way has what was constructed to destroy.         *)
LEMMA ConstructFailsQuits == QuitInv /\ ConstructFails => QuitInv'
  <1> SUFFICES ASSUME QuitInv, ConstructFails PROVE QuitInv'
    OBVIOUS
  <1> USE DEF QuitInv
  <1>1. /\ phase = "construct" /\ joining = 0 /\ next >= 1 /\ next <= Planned /\ next \in Nat
        /\ Planned \in Nat \ {0} /\ Owners = 1..Planned
        /\ Lives(next - 1) /\ admitted = 1..(next - 1)
    BY Shape DEF ConstructFails, From, AtHome, Places, HostTypeOK
  <1>2. /\ phase' = "destroy" /\ open' = open /\ constructed' = constructed /\ next' = next
        /\ at' = at /\ queue' = queue /\ inside' = inside /\ joining' = joining
        /\ admitted' \subseteq admitted \cup {next} /\ quiesced' = quiesced
    BY DEF ConstructFails, works, cancels
  <1>3. TypeOK'
    BY <1>1, <1>2 DEF ConstructFails, TaskInv, TypeOK, works, cancels
  <1>4. HostTypeOK'
    BY DEF ConstructFails, HostTypeOK, Phases
  <1>5. Lives(next - 1)' /\ next - 1 \in 0..next /\ admitted' \subseteq 1..next /\ next \in Owners
    BY <1>1, <1>2 DEF Lives
  <1>6. Places'
    BY <1>1, <1>2, <1>5 DEF Places, Up, Down, Ends
  <1> QED BY <1>2, <1>3, <1>4, <1>6, Aside

LEMMA ConstructedQuits == QuitInv /\ Constructed => QuitInv'
  <1> SUFFICES ASSUME QuitInv, Constructed PROVE QuitInv'
    OBVIOUS
  <1> USE DEF QuitInv
  <1>1. /\ phase = "construct" /\ joining = 0 /\ next = Planned + 1 /\ next - 1 = Planned
        /\ Planned \in Nat \ {0} /\ Owners = 1..Planned
        /\ Lives(next - 1) /\ admitted = 1..(next - 1) /\ quiesced = {}
    BY Shape DEF Constructed, From, AtHome, Places, HostTypeOK, Up
  <1>2. /\ phase' = "start" /\ next' = 1 /\ open' = open /\ constructed' = constructed
        /\ at' = at /\ queue' = queue /\ inside' = inside /\ joining' = joining
        /\ admitted' = admitted /\ quiesced' = quiesced
    BY DEF Constructed, vars
  <1>3. TypeOK'
    BY DEF Constructed, TaskInv, TypeOK, vars
  <1>4. HostTypeOK'
    BY <1>1 DEF Constructed, HostTypeOK, Phases
  <1>5. Places'
    BY <1>1, <1>2, LivesAs DEF Places, Up, Down, Ends
  <1> QED BY <1>2, <1>3, <1>4, <1>5, Aside

LEMMA StartedQuits == QuitInv /\ Started => QuitInv'
  <1> SUFFICES ASSUME QuitInv, Started PROVE QuitInv'
    OBVIOUS
  <1> USE DEF QuitInv
  <1>1. /\ phase = "start" /\ joining = 0 /\ next \in 1..Planned
        /\ Planned \in Nat \ {0} /\ Owners = 1..Planned
        /\ Lives(Planned) /\ admitted = Owners /\ quiesced = {}
    BY Shape DEF Started, From, AtHome, Places, Up
  <1>2. /\ open' = open /\ constructed' = constructed
        /\ at' = at /\ queue' = queue /\ inside' = inside /\ joining' = joining
        /\ admitted' = admitted /\ quiesced' = quiesced
    BY DEF Started, vars
  <1>3. \/ phase' = "start" /\ next' \in 1..Planned
        \/ phase' = "run" /\ next' = next
    BY <1>1 DEF Started
  <1>4. TypeOK'
    BY DEF Started, TaskInv, TypeOK, vars
  <1>5. HostTypeOK'
    BY <1>1, <1>3 DEF Started, HostTypeOK, Phases
  <1>6. Places'
    BY <1>1, <1>2, <1>3, LivesAs DEF Places, Up, Down, Ends
  <1> QED BY <1>2, <1>4, <1>5, <1>6, Aside

(* A start that fails, or the end of the run, quiesces from the last one   *)
(* started.                                                                *)
LEMMA UnwindsQuits == QuitInv /\ (StartFails \/ Stop) => QuitInv'
  <1> SUFFICES ASSUME QuitInv, StartFails \/ Stop PROVE QuitInv'
    OBVIOUS
  <1> USE DEF QuitInv
  <1>1. /\ joining = 0 /\ Planned \in Nat \ {0} /\ Owners = 1..Planned
        /\ Lives(Planned) /\ admitted = Owners /\ quiesced = {}
        /\ phase = "start" => next \in Owners
    BY Shape DEF StartFails, Stop, From, AtHome, Places, Up
  <1>2. /\ open' = open /\ constructed' = constructed
        /\ at' = at /\ queue' = queue /\ inside' = inside /\ joining' = joining
        /\ admitted' = admitted /\ quiesced' = quiesced
        /\ phase' = "quiesce"
    BY DEF StartFails, Stop, vars
  <1>3. next' \in 1..Planned
    BY <1>1 DEF StartFails, Stop, From
  <1>4. TypeOK'
    BY DEF StartFails, Stop, TaskInv, TypeOK, vars
  <1>5. HostTypeOK'
    <2>1. \A n \in 1..Planned : n \in 0..(Planned + 1)
      BY <1>1
    <2>2. next' \in 0..(Planned + 1)
      BY <1>3, <2>1
    <2> QED BY <1>2, <2>2 DEF StartFails, Stop, HostTypeOK, Phases
  <1>6. \E m \in next'..Planned : quiesced' = (next' + 1)..m
    <2>0. \A n \in 1..Planned : n \in n..Planned /\ (n + 1)..n = {}
      BY <1>1
    <2>1. next' \in next'..Planned /\ (next' + 1)..next' = {}
      BY <1>3, <2>0
    <2> QED BY <1>1, <1>2, <2>1
  <1>7. Places'
    BY <1>1, <1>2, <1>3, <1>6, LivesAs DEF Places, Up, Down, Ends
  <1> QED BY <1>2, <1>4, <1>5, <1>7, Aside

-----------------------------------------------------------------------------
(* unwind().                                                               *)

LEMMA QuiesceQuits == QuitInv /\ Quiesce => QuitInv'
  <1> SUFFICES ASSUME QuitInv, Quiesce PROVE QuitInv'
    OBVIOUS
  <1> USE DEF QuitInv
  <1>1. /\ phase = "quiesce" /\ joining = 0 /\ next \in 1..Planned
        /\ Planned \in Nat \ {0} /\ Owners = 1..Planned
        /\ Lives(Planned) /\ admitted = Owners
        /\ \E m \in next..Planned : quiesced = (next + 1)..m
    BY Shape DEF Quiesce, From, AtHome, Places, Down
  <1>2. PICK m \in next..Planned : quiesced = (next + 1)..m
    BY <1>1
  <1>3. quiesced' = next..m
    BY <1>1, <1>2 DEF Quiesce
  <1>4. /\ open' = open /\ constructed' = constructed
        /\ at' = at /\ queue' = queue /\ inside' = inside /\ joining' = joining
        /\ admitted' = admitted
    BY DEF Quiesce, works, ends
  <1>5. TypeOK'
    BY <1>1 DEF Quiesce, TaskInv, TypeOK, works, ends
  <1>6. CASE next > 1
    <2>1. next' = next - 1 /\ phase' = "quiesce" /\ handle' = handle
      BY <1>1, <1>6 DEF Quiesce
    <2>2. next - 1 \in Owners /\ (next - 1) + 1 = next /\ m \in (next - 1)..Planned
      BY <1>1, <1>6
    <2>3. HostTypeOK'
      BY <1>1, <1>4, <2>1, <2>2 DEF HostTypeOK
    <2>4. Places'
      BY <1>1, <1>3, <1>4, <2>1, <2>2, LivesAs DEF Places, Up, Down, Ends
    <2> QED BY <1>4, <1>5, <2>3, <2>4, Aside
  <1>7. CASE ~(next > 1)
    <2>1. next = 1 /\ phase' = "stop" /\ next' = Cardinality(quiesced') /\ handle' = handle
      BY <1>1, <1>7 DEF Quiesce
    <2>2. next' = m
      <3>1. Cardinality(1..m) = m
        BY <1>1, <2>1, FS_Interval
      <3> QED BY <1>3, <2>1, <3>1
    <2>3. m \in Owners /\ m \in 0..(Planned + 1)
      BY <1>1
    <2>4. HostTypeOK'
      BY <1>4, <2>1, <2>2, <2>3 DEF HostTypeOK, Phases
    <2>5. Places'
      BY <1>1, <1>4, <2>1, <2>2, <2>3, LivesAs DEF Places, Up, Down, Ends
    <2> QED BY <1>4, <1>5, <2>4, <2>5, Aside
  <1> QED BY <1>6, <1>7

LEMMA StoppedQuits == QuitInv /\ Stopped => QuitInv'
  <1> SUFFICES ASSUME QuitInv, Stopped PROVE QuitInv'
    OBVIOUS
  <1> USE DEF QuitInv
  <1>1. /\ phase = "stop" /\ joining = 0 /\ next \in 1..Planned
        /\ Planned \in Nat \ {0} /\ Owners = 1..Planned
        /\ Lives(Planned) /\ admitted = Owners
    BY Shape DEF Stopped, From, AtHome, Places, Down
  <1>2. /\ open' = open /\ constructed' = constructed
        /\ at' = at /\ queue' = queue /\ inside' = inside /\ joining' = joining
        /\ admitted' = admitted /\ quiesced' = quiesced
    BY DEF Stopped, vars
  <1>3. \/ phase' = "stop" /\ next' \in 1..Planned
        \/ phase' = "destroy" /\ next' = Planned
    BY <1>1 DEF Stopped
  <1>4. TypeOK'
    BY DEF Stopped, TaskInv, TypeOK, vars
  <1>5. HostTypeOK'
    BY <1>1, <1>3 DEF Stopped, HostTypeOK, Phases
  <1>6. Planned \in 0..Planned /\ Planned \in Owners
    BY <1>1
  <1>7. CASE phase' = "stop" /\ next' \in 1..Planned
    <2>1. Places'
      BY <1>1, <1>2, <1>7, LivesAs DEF Places, Up, Down, Ends
    <2> QED BY <1>2, <1>4, <1>5, <2>1, Aside
  <1>8. CASE phase' = "destroy" /\ next' = Planned
    <2>1. Places'
      BY <1>1, <1>2, <1>6, <1>8, LivesAs DEF Places, Up, Down, Ends
    <2> QED BY <1>2, <1>4, <1>5, <2>1, Aside
  <1> QED BY <1>3, <1>7, <1>8

LEMMA DestroyQuits == QuitInv /\ Destroy => QuitInv'
  <1> SUFFICES ASSUME QuitInv, Destroy PROVE QuitInv'
    OBVIOUS
  <1> USE DEF QuitInv
  <1>1. /\ phase = "destroy" /\ next \in constructed /\ next \in 1..Planned
        /\ Planned \in Nat \ {0} /\ Owners = 1..Planned
        /\ admitted \subseteq 1..next /\ \E k \in 0..next : Lives(k)
    BY Shape DEF Destroy, From, AtHome, Places
  <1>2. Lives(next)
    <2>1. PICK k \in 0..next : Lives(k)
      BY <1>1
    <2>2. k = next
      BY <1>1, <2>1 DEF Lives
    <2> QED BY <2>1, <2>2
  <1>3. /\ open' = open /\ constructed' = constructed /\ phase' = phase /\ next' = next
        /\ at' = at /\ queue' = queue /\ inside' = inside /\ joining' = next
        /\ admitted' = admitted /\ quiesced' = quiesced /\ handle' = handle
    BY DEF Destroy, works, ends
  <1>4. TypeOK'
    BY <1>1, Shape DEF Destroy, TaskInv, TypeOK, works, ends
  <1>5. HostTypeOK'
    BY <1>1, <1>3 DEF HostTypeOK
  <1>6. Places'
    BY <1>1, <1>2, <1>3, LivesAs DEF Places, Up, Down, Ends
  <1> QED BY <1>3, <1>4, <1>5, <1>6, Aside

(* The scope goes when none of its owner's work is in hand, its jobs' jobs *)
(* included.                                                               *)
LEMMA JoinedQuits == QuitInv /\ Joined => QuitInv'
  <1> SUFFICES ASSUME QuitInv, Joined PROVE QuitInv'
    OBVIOUS
  <1> USE DEF QuitInv
  <1>1. /\ phase = "destroy" /\ joining = next /\ Lives(next) /\ inside[next] = 0
        /\ next \in 1..Planned /\ Planned \in Nat \ {0} /\ Owners = 1..Planned
        /\ admitted \subseteq 1..next /\ next \notin Tasks /\ next \in Scopes
    BY Shape DEF Joined, Places
  <1>2. /\ open' = open \ {next} /\ constructed' = constructed \ {next}
        /\ phase' = "retire" /\ next' = next /\ joining' = 0
        /\ at' = at /\ queue' = queue /\ inside' = inside
        /\ admitted' = admitted /\ quiesced' = quiesced /\ handle' = handle
    BY <1>1 DEF Joined, works, ends, cancels
  <1>3. \A t \in InHand : ScopeOf(t) # next /\ OwnerOf[t] # next
    <2>1. \A t \in InHand : ScopeOf(t) # next
      BY <1>1, NoneInHand DEF TaskInv
    <2> QED BY <1>1, <2>1, NoneOf
  <1>4. QueueOnce' /\ JobScopes' /\ Counted' /\ Scoped' /\ InHand' = InHand
    <2>1. open' \cap Tasks = open \cap Tasks
      BY <1>1, <1>2
    <2>2. \A t \in InHand : ScopeOf(t) \in open'
      BY <1>2, <1>3 DEF TaskInv, Scoped
    <2> QED BY <1>2, <2>1, <2>2, WorkAlone
  <1>5. TypeOK'
    BY <1>2 DEF Joined, TaskInv, TypeOK, works, ends, cancels
  <1>6. HostTypeOK'
    BY <1>1, <1>2 DEF HostTypeOK, Phases
  <1>7. Lives(next - 1)'
    BY <1>1, <1>2 DEF Lives
  <1>8. Places'
    BY <1>1, <1>2, <1>7 DEF Places, Up, Down, Ends
  <1>9. NothingOutlived'
    <2>1. \A t \in InHand : 1..OwnerOf[t] \subseteq constructed'
      <3> TAKE t \in InHand
      <3>1. 1..OwnerOf[t] \subseteq 1..next /\ OwnerOf[t] \in 1..Planned /\ OwnerOf[t] # next
        BY <1>1, <1>3, Outlived, Shape DEF Lives, InHand
      <3>2. OwnerOf[t] < next
        BY <1>1, <3>1
      <3> QED BY <1>1, <1>2, <3>1, <3>2 DEF Lives
    <2>2. \A t \in InHand' : ScopeOf(t) \in open' /\ 1..OwnerOf[t] \subseteq constructed'
      BY <1>4, <2>1 DEF Scoped
    <2> QED BY <2>2 DEF NothingOutlived, InHand
  <1> QED BY <1>4, <1>5, <1>6, <1>8, <1>9 DEF TaskInv

(* No work of who is not constructed is in hand, so none is queued, and    *)
(* the retirement is not refused.                                          *)
LEMMA RetireQuits == QuitInv /\ Retire => QuitInv'
  <1> SUFFICES ASSUME QuitInv, Retire PROVE QuitInv'
    OBVIOUS
  <1> USE DEF QuitInv
  <1>1. /\ joining = 0 /\ next \in 1..Planned /\ Planned \in Nat \ {0} /\ Owners = 1..Planned
        /\ admitted \subseteq 1..next /\ next \notin constructed
        /\ \E k \in 0..(next - 1) : Lives(k)
    <2>1. joining = 0 /\ Planned \in Nat \ {0} /\ Owners = 1..Planned
      BY Shape DEF Retire, From, AtHome
    <2>2. CASE phase = "retire"
      <3>1. next \in 1..Planned /\ admitted \subseteq 1..next /\ Lives(next - 1)
        BY <2>1, <2>2 DEF Places
      <3>2. next - 1 \in 0..(next - 1) /\ next \notin 1..(next - 1)
        BY <2>1, <3>1
      <3> QED BY <2>1, <3>1, <3>2 DEF Lives
    <2>3. CASE phase = "destroy" /\ next \notin constructed
      <3>1. next \in 1..Planned /\ admitted \subseteq 1..next /\ \E k \in 0..next : Lives(k)
        BY <2>1, <2>3 DEF Places
      <3>2. PICK k \in 0..next : Lives(k)
        BY <3>1
      <3>3. k # next
        BY <2>1, <2>3, <3>1, <3>2 DEF Lives
      <3>4. k \in 0..(next - 1)
        BY <2>1, <3>1, <3>3
      <3> QED BY <2>1, <2>3, <3>1, <3>2, <3>4
    <2> QED BY <2>2, <2>3 DEF Retire, From
  <1>2. \A t \in Queued : OwnerOf[t] # next
    <2> SUFFICES ASSUME NEW t \in Queued PROVE OwnerOf[t] # next
      OBVIOUS
    <2>1. t \in InHand
      BY DEF Queued, InHand, Unasked, Over
    <2>2. 1..OwnerOf[t] \subseteq constructed /\ OwnerOf[t] \in 1..Planned
      BY <1>1, <2>1, Outlived, Shape DEF InHand
    <2>3. OwnerOf[t] \in 1..OwnerOf[t]
      BY <1>1, <2>2
    <2> QED BY <1>1, <2>2, <2>3
  <1>3. admitted' = admitted \ {next}
    BY <1>2 DEF Retire
  <1>4. /\ open' = open /\ constructed' = constructed
        /\ at' = at /\ queue' = queue /\ inside' = inside /\ joining' = joining
        /\ quiesced' = quiesced /\ handle' = handle
    BY DEF Retire, works, cancels
  <1>5. TypeOK'
    BY <1>3 DEF Retire, TaskInv, TypeOK, works, cancels
  <1>6. admitted' \subseteq 1..(next - 1)
    BY <1>1, <1>3
  <1>7. CASE next > 1
    <2>1. phase' = "destroy" /\ next' = next - 1
      BY <1>7 DEF Retire
    <2>2. next - 1 \in Owners /\ next - 1 \in 0..(Planned + 1)
      BY <1>1, <1>7
    <2>3. HostTypeOK'
      BY <1>4, <2>1, <2>2 DEF HostTypeOK, Phases
    <2>4. Places'
      BY <1>1, <1>4, <1>6, <2>1, <2>2, LivesAs DEF Places, Up, Down, Ends
    <2> QED BY <1>4, <1>5, <2>3, <2>4, Aside
  <1>8. CASE ~(next > 1)
    <2>1. phase' = "cancel" /\ next' = next /\ next = 1
      BY <1>1, <1>8 DEF Retire
    <2>2. admitted' = {} /\ Lives(0)
      BY <1>1, <1>6, <2>1
    <2>3. HostTypeOK'
      BY <1>4, <2>1 DEF HostTypeOK, Phases
    <2>4. Places'
      BY <1>1, <1>4, <2>1, <2>2, LivesAs DEF Places, Up, Down, Ends
    <2> QED BY <1>4, <1>5, <2>3, <2>4, Aside
  <1> QED BY <1>7, <1>8

-----------------------------------------------------------------------------
(* shutDown(), and what participants ask.                                  *)

LEMMA ShutDownQuits == QuitInv /\ (CancelRoot \/ StopExecutor) => QuitInv'
  <1> SUFFICES ASSUME QuitInv, CancelRoot \/ StopExecutor PROVE QuitInv'
    OBVIOUS
  <1> USE DEF QuitInv
  <1>1. /\ phase \in Ends /\ phase' \in Ends /\ joining = 0
        /\ open' = open /\ constructed' = constructed
        /\ at' = at /\ queue' = queue /\ inside' = inside /\ joining' = joining
        /\ admitted' = admitted /\ handle' = handle /\ next' = next
    BY DEF CancelRoot, StopExecutor, Close, Drained, From, AtHome, Ends, works, ends, cancels, vars
  <1>2. TypeOK'
    BY DEF CancelRoot, StopExecutor, Close, Drained, TaskInv, TypeOK, works, ends, cancels, vars
  <1>3. HostTypeOK'
    BY <1>1 DEF HostTypeOK, Phases, Ends
  <1>4. Lives(0)' /\ admitted' = {}
    BY <1>1, LivesAs DEF Places
  <1>5. Places'
    BY <1>1, <1>4 DEF Places, Up, Down, Ends
  <1> QED BY <1>1, <1>2, <1>3, <1>5, Aside

LEMMA AsksQuits == QuitInv /\ Asks => QuitInv'
  <1> SUFFICES ASSUME QuitInv, Asks PROVE QuitInv'
    OBVIOUS
  <1>1. /\ phase' = phase /\ next' = next /\ constructed' = constructed /\ joining' = joining
        /\ handle' = handle /\ handle' \in Tasks \cup {NoTask}
    BY DEF Asks, host, QuitInv, HostTypeOK
  <1>2. CASE \E t \in Operations : Reserve(t)
    <2>1. Carries
      BY <1>2, ReserveCarries DEF QuitInv
    <2> QED BY <1>1, <2>1, CarriesQuits
  <1>3. CASE \E o \in Active \ cancelled : Cancel(o)
    <2>1. PICK o \in open : Cancel(o)
      BY <1>3 DEF Cancel
    <2>2. /\ open' = open /\ at' = at /\ queue' = queue /\ inside' = inside
          /\ admitted' = admitted /\ quiesced' = quiesced
      BY <2>1 DEF Cancel, works, ends
    <2>3. TypeOK'
      BY <2>1 DEF Cancel, works, ends, QuitInv, TaskInv, TypeOK
    <2>4. HostTypeOK' /\ Places'
      BY <1>1, <2>2, LivesAs DEF QuitInv, HostTypeOK, Places
    <2> QED BY <1>1, <2>2, <2>3, <2>4, Aside
  <1> QED BY <1>2, <1>3 DEF Asks

LEMMA WaitsQuits == QuitInv /\ (Wait \/ WaitEnds) => QuitInv'
  <1> SUFFICES ASSUME QuitInv, Wait \/ WaitEnds PROVE QuitInv'
    OBVIOUS
  <1> USE DEF QuitInv
  <1>1. /\ open' = open /\ constructed' = constructed /\ phase' = phase /\ next' = next
        /\ at' = at /\ queue' = queue /\ inside' = inside /\ joining' = joining
        /\ admitted' = admitted /\ quiesced' = quiesced
    BY DEF Wait, WaitEnds, vars
  <1>2. TypeOK'
    BY DEF Wait, WaitEnds, TaskInv, TypeOK, vars
  <1>3. handle' \in Tasks \cup {NoTask}
    BY DEF Wait, WaitEnds, Operations
  <1>4. HostTypeOK' /\ Places'
    BY <1>1, <1>3, LivesAs DEF HostTypeOK, Places
  <1> QED BY <1>1, <1>2, <1>4, Aside

(* Whoever runs work, on the Host's thread or a worker's.                  *)
LEMMA ThreadsQuits ==
    QuitInv /\ (Answered \/ HostHelps \/ (Runs(Host) /\ UNCHANGED host) \/ WorkersStep) => QuitInv'
  <1> SUFFICES ASSUME QuitInv,
                      Answered \/ HostHelps \/ (Runs(Host) /\ UNCHANGED host) \/ WorkersStep
               PROVE  QuitInv'
    OBVIOUS
  <1>1. Host \in Threads /\ TaskInv
    BY DEF Threads, QuitInv
  <1>2. Carries
    <2>1. CASE Answered
      BY <1>1, <2>1, AnsweredCarries DEF Answered
    <2>2. CASE HostHelps
      BY <1>1, <2>2, PopCarries DEF HostHelps
    <2>3. CASE Runs(Host)
      BY <1>1, <2>3, RunsCarries
    <2>4. CASE WorkersStep
      BY <1>1, <2>4, WorksCarries DEF WorkersStep
    <2> QED BY <2>1, <2>2, <2>3, <2>4
  <1>3. /\ phase' = phase /\ next' = next /\ constructed' = constructed /\ joining' = joining
        /\ handle' = handle /\ handle' \in Tasks \cup {NoTask}
    BY DEF Answered, HostHelps, WorkersStep, host, QuitInv, HostTypeOK
  <1> QED BY <1>2, <1>3, CarriesQuits

-----------------------------------------------------------------------------
(* The theorems.                                                           *)

LEMMA InitQuits == HostInit => QuitInv
  <1> SUFFICES ASSUME HostInit PROVE QuitInv
    OBVIOUS
  <1>1. Planned \in Nat \ {0} /\ Owners = 1..Planned
    BY Shape
  <1>2. InHand = {}
    BY DEF HostInit, Init, InHand, Unasked
  <1>3. TypeOK
    <2>1. at \in [Tasks -> Stages] /\ inside \in [Scopes -> Nat]
      BY DEF HostInit, Init, Stages
    <2>2. queue \in [Priorities -> Seq(Tasks)] /\ stack \in [Threads -> Seq(Tasks)]
      BY DEF HostInit, Init
    <2> QED BY <2>1, <2>2 DEF HostInit, Init, TypeOK
  <1>4. Counted
    <2>1. \A s \in Scopes : Of(s) = {} /\ inside[s] = 0
      BY <1>2 DEF Of, HostInit, Init
    <2> QED BY <2>1, CountedIs, FS_EmptySet
  <1>5. QueueOnce /\ JobScopes /\ Scoped
    BY <1>2 DEF HostInit, Init, QueueOnce, JobScopes, Scoped
  <1>6. HostTypeOK
    BY <1>1 DEF HostInit, HostTypeOK, Phases
  <1>7. NothingOutlived
    BY <1>2, Outlived
  <1>8. Places
    <2>1. 1..(next - 1) = {} /\ open = {} /\ admitted = {} /\ quiesced = {}
      BY DEF HostInit, Init
    <2> QED BY <2>1 DEF HostInit, Places, Lives, Up, Down, Ends
  <1> QED BY <1>3, <1>4, <1>5, <1>6, <1>7, <1>8 DEF QuitInv, TaskInv

LEMMA StutterQuits == QuitInv /\ UNCHANGED allVars => QuitInv'
  <1> SUFFICES ASSUME QuitInv, UNCHANGED allVars PROVE QuitInv'
    OBVIOUS
  <1> USE DEF QuitInv
  <1>1. /\ open' = open /\ constructed' = constructed /\ phase' = phase /\ next' = next
        /\ at' = at /\ queue' = queue /\ inside' = inside /\ joining' = joining
        /\ admitted' = admitted /\ quiesced' = quiesced /\ handle' = handle
    BY DEF allVars, vars, host
  <1>2. TypeOK'
    BY DEF allVars, vars, TaskInv, TypeOK
  <1>3. HostTypeOK' /\ Places'
    BY <1>1, LivesAs DEF HostTypeOK, Places
  <1> QED BY <1>1, <1>2, <1>3, Aside

(* Every reachable state of every process keeps the invariant: work, queue *)
(* and scopes agree, and what lives is what its phase says.                *)
THEOREM Quitting == Spec => []QuitInv
  <1>1. HostInit => QuitInv
    BY InitQuits
  <1>2. QuitInv /\ [HostNext]_allVars => QuitInv'
    <2> SUFFICES ASSUME QuitInv, [HostNext]_allVars PROVE QuitInv'
      OBVIOUS
    <2>1. CASE Construct \/ Constructed \/ Started \/ Quiesce \/ Stopped
      BY <2>1, ConstructQuits, ConstructedQuits, StartedQuits, QuiesceQuits, StoppedQuits
    <2>2. CASE Destroy \/ Joined \/ Retire \/ CancelRoot \/ StopExecutor
      BY <2>2, DestroyQuits, JoinedQuits, RetireQuits, ShutDownQuits
    <2>3. CASE Answered \/ HostHelps \/ (Runs(Host) /\ UNCHANGED host) \/ WorkersStep
      BY <2>3, ThreadsQuits
    <2>4. CASE Stop \/ ConstructFails \/ StartFails
      BY <2>4, ConstructFailsQuits, UnwindsQuits
    <2>5. CASE Asks \/ Wait \/ WaitEnds
      BY <2>5, AsksQuits, WaitsQuits
    <2>6. CASE UNCHANGED allVars
      BY <2>6, StutterQuits
    <2> QED BY <2>1, <2>2, <2>3, <2>4, <2>5, <2>6 DEF HostNext, Moves
  <1> QED BY <1>1, <1>2, PTL DEF Spec

(* Work that is asked for and not over has its scope and the objects of    *)
(* its participant, and of those before it in the plan, until it is over:  *)
(* however starts fail, whoever helps whom.                                *)
THEOREM OutlivesNothing == Spec => []NothingOutlived
  <1>1. QuitInv => NothingOutlived
    BY DEF QuitInv
  <1> QED BY <1>1, Quitting, PTL

(* The count a joiner goes by is that of the work asked for and not over.  *)
THEOREM CountsRight == Spec => []Counted
  <1>1. QuitInv => Counted
    BY DEF QuitInv, TaskInv
  <1> QED BY <1>1, Quitting, PTL

(* When all participants are destroyed no quota is left on the executor.   *)
THEOREM RetiresAll == Spec => []AllRetired
  <1>1. QuitInv => AllRetired
    BY DEF QuitInv, Places, AllRetired, Ends
  <1> QED BY <1>1, Quitting, PTL

=============================================================================
