-------------------------------- MODULE Assets --------------------------------
(***************************************************************************)
(* One AssetSet: the decoded forms of one family of resources.  Requests   *)
(* for a resource at a revision share one load, which reads on one         *)
(* executor and decodes on another; a form is held while anyone is         *)
(* interested and evicted after that when a budget needs the room; and a   *)
(* new catalog of the content store replaces what changed under the        *)
(* requesters, all of it at once.                                          *)
(*                                                                         *)
(* The set has one owner's thread, and its operations end while that       *)
(* thread does anything else.  A slot's generation counts its uses, and a  *)
(* handle is a slot and a generation.  Which evictable form goes first     *)
(* (lastUse) is left open.                                                 *)
(***************************************************************************)
EXTENDS Integers, FiniteSets

CONSTANTS
    Ids, NoId,       \* the family's resources
    MaximumAssets,   \* AssetSettings::maximumAssets
    Requesters,      \* the slots of AssetSettings::maximumRequesters
    BudgetBytes,     \* AssetSettings::budgetBytes
    Bytes(_, _),     \* what a resource's form at a revision takes
    Catalogs(_),     \* the catalogs that may be the n-th published: each resource's
                     \* revision, 0 for one it leaves out
    MaxCatalogs,     \* bound: catalogs published after the first
    MaxRequests,     \* bound: requests made
    MaxHandles       \* bound: handles taken

ASSUME AssetNaturals ==
    /\ MaximumAssets \in Nat \ {0} /\ BudgetBytes \in Nat /\ MaxCatalogs \in Nat
    /\ MaxRequests \in Nat /\ MaxHandles \in Nat /\ IsFiniteSet(Requesters)
ASSUME AssetForms == NoId \notin Ids /\ \A id \in Ids, r \in 1..MaxCatalogs + 1 : Bytes(id, r) \in Nat
ASSUME AssetCatalogs == \A n \in 1..MaxCatalogs : Catalogs(n) \subseteq [Ids -> 0..MaxCatalogs + 1]

VARIABLES
    set,       \* the State of the set: its entries, requesters and residentBytes
    closed,
    catalog,   \* the store's catalog: the revision of each resource, or none
    published, \* its generation
    requested, \* requests made
    handles    \* the handles taken, with what they named

vars == <<set, closed, catalog, published, requested, handles>>

-----------------------------------------------------------------------------
Slots == 1..MaximumAssets
Revisions == 1..MaxCatalogs + 1
NoRevision == 0

Residency == {"absent", "loading", "resident", "evictable", "retiring"}

(* How far an entry's load is: its read and its decoding under way, or     *)
(* ended and not yet taken.                                                *)
Work == {"none", "reading", "read", "unread", "decoding", "decoded", "undecoded"}

(* An entry's slot while no one uses it: what it counted is left behind.   *)
Free(generation, interest) ==
    [used |-> FALSE, generation |-> generation, id |-> NoId, revision |-> NoRevision,
     residency |-> "absent", interest |-> interest, work |-> "none", failed |-> FALSE,
     candidate |-> FALSE, replaces |-> 0, replacesGeneration |-> 0]

Nobody == [used |-> FALSE, entry |-> 0, entryGeneration |-> 0, interested |-> FALSE, failed |-> FALSE]

Init ==
    /\ set = [entries |-> [i \in Slots |-> Free(0, 0)],
              requesters |-> [r \in Requesters |-> Nobody],
              residentBytes |-> 0,
              reconciled |-> 0]
    /\ closed = FALSE
    /\ catalog = [id \in Ids |-> 1] /\ published = 0
    /\ requested = 0 /\ handles = {}

-----------------------------------------------------------------------------
(* Entries.                                                                *)

Charged_NotRetiring(e) == e.residency \in {"resident", "evictable"}

Charged(e) == e.residency \in {"resident", "evictable", "retiring"}
FormBytes(e) == IF Charged(e) THEN Bytes(e.id, e.revision) ELSE 0

Retire_SameUse(s, i) ==
    [s EXCEPT !.entries[i] = Free(@.generation, @.interest),
              !.residentBytes = @ - FormBytes(s.entries[i])]

(* Frees a slot for another use.                                           *)
Retire(s, i) ==
    [s EXCEPT !.entries[i] = Free(@.generation + 1, @.interest),
              !.residentBytes = @ - FormBytes(s.entries[i])]

Fail(s, i) == [s EXCEPT !.entries[i].residency = "absent", !.entries[i].failed = TRUE,
                        !.entries[i].work = "none"]

FreeSlots(s) == {i \in Slots : ~s.entries[i].used}
Least(slots) == CHOOSE i \in slots : \A j \in slots : i <= j

(* Starts reading a resource at a revision into a free slot.               *)
StartLoad(s, id, revision) ==
    LET i == Least(FreeSlots(s))
    IN  [s EXCEPT !.entries[i] = [@ EXCEPT
                                    !.used = TRUE, !.id = id, !.revision = revision,
                                    !.residency = "loading", !.work = "reading"]]

Of(s, id, revision) ==
    {i \in Slots : s.entries[i].used /\ s.entries[i].id = id /\ s.entries[i].revision = revision}

-----------------------------------------------------------------------------
(* What consumers do.                                                      *)

Interested(s, i, r) ==
    [s EXCEPT !.entries[i].interest = @ + 1,
              !.entries[i].residency = IF @ = "evictable" THEN "resident" ELSE @,
              !.requesters[r] = [used |-> TRUE, entry |-> i,
                                 entryGeneration |-> s.entries[i].generation,
                                 interested |-> TRUE, failed |-> FALSE]]

(* The same resource at the same revision shares its load; a full set, or  *)
(* a store that refuses the read, refuses the request.                     *)
Request(id) ==
    /\ ~closed /\ requested < MaxRequests
    /\ catalog[id] # NoRevision
    /\ \E r \in Requesters :
         /\ ~set.requesters[r].used
         /\ \/ /\ Of(set, id, catalog[id]) # {}
               /\ set' = Interested(set, Least(Of(set, id, catalog[id])), r)
            \/ /\ Of(set, id, catalog[id]) = {}
               /\ FreeSlots(set) # {}
               /\ set' = Interested(StartLoad(set, id, catalog[id]), Least(FreeSlots(set)), r)
    /\ requested' = requested + 1
    /\ UNCHANGED <<closed, catalog, published, handles>>

Counted(s, r) ==
    /\ s.requesters[r].interested
    /\ s.entries[s.requesters[r].entry].generation = s.requesters[r].entryGeneration
    /\ s.entries[s.requesters[r].entry].interest > 0

(* The last interest gone: the form may be evicted, and a load that failed *)
(* is forgotten.                                                           *)
Unwant(s, i) ==
    CASE s.entries[i].interest > 0 -> s
      [] s.entries[i].interest = 0 /\ s.entries[i].residency = "resident" ->
           [s EXCEPT !.entries[i].residency = "evictable"]
      [] s.entries[i].interest = 0 /\ s.entries[i].failed /\ ~s.entries[i].candidate -> Retire(s, i)
      [] OTHER -> s

Drop(s, r) ==
    IF Counted(s, r)
    THEN Unwant([s EXCEPT !.entries[s.requesters[r].entry].interest = @ - 1,
                          !.requesters[r] = Nobody],
                s.requesters[r].entry)
    ELSE [s EXCEPT !.requesters[r] = Nobody]

Release(r) ==
    /\ set.requesters[r].used
    /\ set' = Drop(set, r)
    /\ UNCHANGED <<closed, catalog, published, requested, handles>>

Readiness(s, r) ==
    LET requester == s.requesters[r]
        e == s.entries[requester.entry]
    IN  CASE ~requester.used -> "not_requested"
          [] requester.used /\ requester.failed -> "failed"
          [] requester.used /\ ~requester.failed /\ e.generation # requester.entryGeneration ->
               "not_requested"
          [] OTHER -> IF e.failed THEN "failed"
                      ELSE IF e.residency = "resident" THEN "ready" ELSE "pending"

(* The handle of a form that is ready.                                     *)
Handle(r) ==
    /\ ~closed /\ Cardinality(handles) < MaxHandles
    /\ Readiness(set, r) = "ready"
    /\ LET i == set.requesters[r].entry
           e == set.entries[i]
       IN  handles' = handles \cup {[slot |-> i, generation |-> e.generation,
                                    id |-> e.id, revision |-> e.revision]}
    /\ UNCHANGED <<set, closed, catalog, published, requested>>

(* What a handle reads: nothing, once its slot has another use.            *)
Readable(h) ==
    /\ ~closed
    /\ set.entries[h.slot].generation = h.generation
    /\ set.entries[h.slot].residency \in {"resident", "evictable"}

-----------------------------------------------------------------------------
(* What happens meanwhile.                                                 *)

Read(i) ==
    /\ set.entries[i].work = "reading"
    /\ \E outcome \in {"read", "unread"} : set' = [set EXCEPT !.entries[i].work = outcome]
    /\ UNCHANGED <<closed, catalog, published, requested, handles>>

Decode(i) ==
    /\ set.entries[i].work = "decoding"
    /\ \E outcome \in {"decoded", "undecoded"} : set' = [set EXCEPT !.entries[i].work = outcome]
    /\ UNCHANGED <<closed, catalog, published, requested, handles>>

PublishCatalog ==
    /\ published < MaxCatalogs
    /\ catalog' \in Catalogs(published + 1)
    /\ published' = published + 1
    /\ UNCHANGED <<set, closed, requested, handles>>

-----------------------------------------------------------------------------
(* The owner's update: a reload begun when the catalog moved on, finished  *)
(* reads and decodings taken, a settled reload published, and the late     *)
(* requests failed.  A form that was replaced is retired when no consumer  *)
(* holds it any longer, which any of them may have since it was readable.  *)

(* A pass over the slots, lowest first.                                    *)
InOrder(Step(_, _), s) ==
    LET upto[n \in 0..MaximumAssets] == IF n = 0 THEN s ELSE Step(upto[n - 1], n)
    IN  upto[MaximumAssets]

Abandon(s, i) ==
    IF s.entries[i].used /\ s.entries[i].candidate
    THEN LET freed == [s EXCEPT !.entries[i].candidate = FALSE]
         IN  IF s.entries[i].interest = 0 /\ s.entries[i].residency # "loading"
             THEN Retire(freed, i) ELSE freed
    ELSE s

(* The loads of a revision that a live entry's candidate may be.           *)
Asked(s, id, revision) ==
    {i \in Of(s, id, revision) : ~s.entries[i].candidate /\ s.entries[i].residency # "retiring"}

Replacing(s, i, made) ==
    [s EXCEPT !.entries[made].candidate = TRUE, !.entries[made].replaces = i,
              !.entries[made].replacesGeneration = s.entries[i].generation]

(* One live entry's reload: a resource the catalog left out, or whose load *)
(* is refused, stays as it is.                                             *)
Reload(s, i, refused) ==
    LET live == s.entries[i]
        now == catalog[live.id]
    IN  CASE \/ ~live.used \/ live.candidate \/ live.residency = "retiring" -> s
          [] OTHER ->
             CASE now \in {NoRevision, live.revision} -> s
               [] now \notin {NoRevision, live.revision} /\ live.interest = 0 ->
                    IF live.residency = "evictable" THEN Retire(s, i) ELSE s
               [] OTHER ->
                    IF Asked(s, live.id, now) # {}
                    THEN Replacing(s, i, CHOOSE j \in Asked(s, live.id, now) :
                                           \A k \in Asked(s, live.id, now) : k <= j)
                    ELSE IF live.id \in refused \/ FreeSlots(s) = {} THEN s
                    ELSE Replacing(StartLoad(s, live.id, now), i, Least(FreeSlots(s)))

BeginReload(s, refused) ==
    IF s.reconciled = published THEN s
    ELSE LET Begin(t, i) == Reload(t, i, refused)
         IN  InOrder(Begin, InOrder(Abandon, [s EXCEPT !.reconciled = published]))

(* A decoded form charged to the budget, after evicting what must go, in   *)
(* the order of use.                                                       *)
Evict(s, bytes, order) ==
    LET evictable(t) == {j \in Slots : t.entries[j].used /\ t.entries[j].residency = "evictable"}
        next(t) == CHOOSE j \in evictable(t) : \A k \in evictable(t) : order[j] <= order[k]
        evicted[n \in 0..MaximumAssets] ==
          IF n = 0 THEN s
          ELSE LET t == evicted[n - 1]
               IN  IF t.residentBytes + bytes <= BudgetBytes \/ evictable(t) = {} THEN t
                   ELSE Retire(t, next(t))
    IN  evicted[MaximumAssets]

Publish(s, i, order) ==
    LET bytes == Bytes(s.entries[i].id, s.entries[i].revision)
        made == Evict(s, bytes, order)
    IN  IF made.residentBytes + bytes > BudgetBytes THEN Fail(made, i)
        ELSE [made EXCEPT !.entries[i].residency = "resident", !.entries[i].work = "none",
                          !.residentBytes = @ + bytes]

Take(s, i, held, order) ==
    LET e == s.entries[i]
        ended == e.used /\ e.residency = "loading" /\ e.work \notin {"reading", "decoding"}
        unwanted == e.interest = 0 /\ ~e.candidate
    IN  CASE e.used /\ e.residency = "retiring" /\ i \notin held -> Retire(s, i)
          [] ended /\ unwanted -> Retire(s, i)
          [] ended /\ ~unwanted /\ e.work \in {"unread", "undecoded"} -> Fail(s, i)
          [] ended /\ ~unwanted /\ e.work = "read" -> [s EXCEPT !.entries[i].work = "decoding"]
          [] ended /\ ~unwanted /\ e.work = "decoded" -> Publish(s, i, order)
          [] OTHER -> s

(* The requesters, once a live entry's are its candidate's.                *)
Redirected(s, i, old) ==
    [r \in Requesters |->
        IF /\ s.requesters[r].used /\ s.requesters[r].entry = old
           /\ s.requesters[r].entryGeneration = s.entries[old].generation
        THEN [s.requesters[r] EXCEPT !.entry = i, !.entryGeneration = s.entries[i].generation]
        ELSE s.requesters[r]]

(* A candidate takes over its live entry's requesters; the old form stays  *)
(* charged until no consumer shares it.                                    *)
Replace(s, i) ==
    LET old == s.entries[i].replaces
        live == s.entries[old]
        moved == [s EXCEPT !.requesters = Redirected(s, i, old),
                           !.entries[i].interest = @ + live.interest,
                           !.entries[old].interest = 0]
    IN  IF live.residency \in {"resident", "evictable"}
        THEN [moved EXCEPT !.entries[old].generation = @ + 1,
                           !.entries[old].residency = "retiring"]
        ELSE Retire(moved, old)

Settle_FailedKept(s, i) ==
    LET made == s.entries[i]
        live == s.entries[made.replaces]
        settled == [s EXCEPT !.entries[i].candidate = FALSE]
        taken == IF live.used /\ live.generation = made.replacesGeneration
                 THEN Replace(settled, i) ELSE settled
    IN  CASE ~(made.used /\ made.candidate) -> s
          [] made.used /\ made.candidate /\ made.failed ->
               IF made.interest = 0 THEN Retire(settled, i) ELSE s
          [] OTHER ->
               [taken EXCEPT !.entries[i].residency =
                  IF taken.entries[i].interest = 0 THEN "evictable" ELSE "resident"]

Settle(s, i) ==
    LET made == s.entries[i]
        live == s.entries[made.replaces]
        settled == [s EXCEPT !.entries[i].candidate = FALSE]
        taken == IF live.used /\ live.generation = made.replacesGeneration
                 THEN Replace(settled, i) ELSE settled
    IN  CASE ~(made.used /\ made.candidate) -> s
          [] made.used /\ made.candidate /\ made.failed ->
               IF made.interest = 0 THEN Retire(settled, i) ELSE settled
          [] OTHER ->
               [taken EXCEPT !.entries[i].residency =
                  IF taken.entries[i].interest = 0 THEN "evictable" ELSE "resident"]

PublishReload_EachAlone(s) ==
    LET SettleMade(t, i) == IF t.entries[i].residency = "loading" THEN t ELSE Settle(t, i)
    IN  InOrder(SettleMade, s)

PublishReload(s) ==
    IF \E i \in Slots : /\ s.entries[i].used /\ s.entries[i].candidate
                        /\ s.entries[i].residency = "loading"
    THEN s ELSE InOrder(Settle, s)

(* Requests that may be late, and fail on their own when they are: the     *)
(* load goes on for the others.                                            *)
Waiting(s) == {r \in Requesters : /\ s.requesters[r].used /\ ~s.requesters[r].failed
                                  /\ s.entries[s.requesters[r].entry].residency = "loading"}

Uncounted(s, late, i) ==
    Cardinality({r \in late : s.requesters[r].entry = i /\ s.requesters[r].interested})

(* What the entries count without them                                     *)
Discounted(s, late) ==
    [i \in Slots |-> [s.entries[i] EXCEPT
        !.interest = IF @ > Uncounted(s, late, i) THEN @ - Uncounted(s, late, i) ELSE 0]]

Expire_StillInterested(s, late) ==
    [s EXCEPT !.entries = Discounted(s, late),
              !.requesters = [r \in Requesters |->
                  IF r \in late THEN [@[r] EXCEPT !.failed = TRUE] ELSE @[r]]]

Failed(s, late) ==
    [r \in Requesters |-> IF r \in late
                          THEN [s.requesters[r] EXCEPT !.failed = TRUE, !.interested = FALSE]
                          ELSE s.requesters[r]]

Expire(s, late) == [s EXCEPT !.entries = Discounted(s, late), !.requesters = Failed(s, late)]

Updated(s, refused, held, order) ==
    LET TakeIn(t, i) == Take(t, i, held, order)
    IN  PublishReload(InOrder(TakeIn, BeginReload(s, refused)))

(* The orders the evictable forms may go in.                               *)
Orders ==
    LET evictable == {i \in Slots : set.entries[i].residency = "evictable"}
    IN  {order \in [evictable -> 1..Cardinality(evictable)] :
           \A i, j \in evictable : order[i] = order[j] => i = j}

Update ==
    /\ ~closed
    /\ \E refused \in SUBSET Ids,
          held \in SUBSET {i \in Slots : set.entries[i].residency = "retiring"}, order \in Orders :
         /\ refused # {} => published # set.reconciled
         /\ LET updated == Updated(set, refused, held, order)
            IN  \E late \in SUBSET Waiting(updated) : set' = Expire(updated, late)
    /\ UNCHANGED <<closed, catalog, published, requested, handles>>

(* Every load cancelled and joined, and every slot freed.                  *)
Close ==
    /\ ~closed
    /\ closed' = TRUE
    /\ LET Gone(s, i) == IF s.entries[i].used THEN Retire(s, i) ELSE s
       IN  set' = InOrder(Gone, set)
    /\ UNCHANGED <<catalog, published, requested, handles>>

Next ==
    \/ \E id \in Ids : Request(id)
    \/ \E r \in Requesters : Release(r)
    \/ \E r \in Requesters : Handle(r)
    \/ \E i \in Slots : Read(i)
    \/ \E i \in Slots : Decode(i)
    \/ PublishCatalog
    \/ Update
    \/ Close

Spec == Init /\ [][Next]_vars

-----------------------------------------------------------------------------
(* Properties.                                                             *)

EntrySet ==
    [used : BOOLEAN, generation : Nat, id : Ids \cup {NoId},
     revision : Revisions \cup {NoRevision}, residency : Residency, interest : Nat, work : Work,
     failed : BOOLEAN, candidate : BOOLEAN, replaces : Slots \cup {0}, replacesGeneration : Nat]
RequesterSet ==
    [used : BOOLEAN, entry : Slots \cup {0}, entryGeneration : Nat, interested : BOOLEAN,
     failed : BOOLEAN]

(* Every variable has its type.                                            *)
TypeOK ==
    /\ set \in [entries : [Slots -> EntrySet], requesters : [Requesters -> RequesterSet],
                residentBytes : Int, reconciled : Nat]
    /\ closed \in BOOLEAN /\ catalog \in [Ids -> Revisions \cup {NoRevision}]
    /\ published \in Nat /\ requested \in Nat
    /\ handles \subseteq [slot : Slots, generation : Nat, id : Ids, revision : Revisions]

Pointing(i) == {r \in Requesters : /\ set.requesters[r].used /\ set.requesters[r].interested
                                   /\ set.requesters[r].entry = i
                                   /\ set.requesters[r].entryGeneration = set.entries[i].generation}

(* What an entry counts is who is interested in it, however its requesters *)
(* were coalesced, moved by a reload, released or late, and whatever the   *)
(* slot was used for before: a form too many is never evicted, one too few *)
(* is taken from under a requester.  And until its consumer releases it,   *)
(* the entry of a request is not put to another use.                       *)
InterestCounted ==
    ~closed => /\ \A i \in Slots : set.entries[i].interest = Cardinality(Pointing(i))
               /\ \A r \in Requesters :
                    set.requesters[r].used => Readiness(set, r) # "not_requested"

(* The bytes charged are those of the forms held, and within the budget.   *)
HeldBytes(entries) ==
    LET upto[n \in 0..MaximumAssets] == IF n = 0 THEN 0 ELSE upto[n - 1] + FormBytes(entries[n])
    IN  upto[MaximumAssets]
BudgetKept == set.residentBytes = HeldBytes(set.entries) /\ set.residentBytes <= BudgetBytes

(* A handle reads the resource and the revision it was taken for, or       *)
(* nothing.                                                                *)
HandlesName ==
    \A h \in handles : Readable(h) => /\ set.entries[h.slot].id = h.id
                                      /\ set.entries[h.slot].revision = h.revision

Moved(r) ==
    /\ set.requesters[r].used /\ set'.requesters[r].used
    /\ requested' = requested
    /\ \/ set.requesters[r].entry # set'.requesters[r].entry
       \/ set.requesters[r].entryGeneration # set'.requesters[r].entryGeneration

(* A reload reaches all of its requesters in one step: none moves to its   *)
(* new revision while another's is still being made.                       *)
MovedTogether ==
    [][(\E r \in Requesters : Moved(r)) => ~\E i \in Slots : set'.entries[i].candidate]_vars

(* Nothing waits for ever: while a request is unanswered, a candidate not  *)
(* published or a catalog not reconciled, a read or a decoding is under    *)
(* way, or the next update does something.                                 *)
Awaited ==
    \/ \E r \in Requesters : Readiness(set, r) = "pending"
    \/ \E i \in Slots : set.entries[i].candidate
    \/ set.reconciled # published
NothingWaits ==
    ~closed /\ Awaited =>
        \/ \E i \in Slots : set.entries[i].work \in {"reading", "decoding"}
        \/ \A order \in Orders : Updated(set, {}, {}, order) # set
=============================================================================
