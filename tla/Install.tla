-------------------------------- MODULE Install --------------------------------
(***************************************************************************)
(* The library a machine installs into.  An update fetches the blobs it    *)
(* lacks, verifies every Build whole, publishes the Builds and keeps the   *)
(* Composition, and only then moves the installed pointer; a follow keeps  *)
(* its channel's sequence after that.  rollback() moves the pointer back,  *)
(* heal() fetches again what does not verify, and collect() removes what   *)
(* neither the active Composition nor a retained one needs.  The process   *)
(* or the power may fail between any two steps.                            *)
(*                                                                         *)
(* The disk is what the file system shows; durable is what has been        *)
(* flushed of it.  A thing is published by a rename of what was written    *)
(* and flushed under staging/, and the directory's flush after it.  That   *)
(* flush may fail, which nobody hears of, or be cut short with the         *)
(* process; the rename is shown all the same, and found there by whoever   *)
(* comes next.  What is staged is dropped when the library is opened, and  *)
(* is not told here.                                                       *)
(*                                                                         *)
(* A flush is told of the thing renamed alone: what it does for others in  *)
(* the same directory is not counted on.  Of a blob's own directory it is  *)
(* assumed that it is as durable as what is flushed in it, and of the file *)
(* system that it answers whether a name is there.                         *)
(***************************************************************************)
EXTENDS Integers, Sequences

CONSTANTS
    Compositions, NoComposition,
    Builds, NoBuild, BuildsOf(_),  \* the Builds a Composition names
    Blobs, BlobsOf(_),             \* the blobs a Build's manifest names
    Retained,                      \* InstallLimits::retained
    Channel(_),                    \* the Composition of a channel's sequence
    MaxSequence,                   \* bound: the last sequence published
    MaxFailures                    \* bound: failures of a blob, a read, a flush, the process, the power

ASSUME InstallNames ==
    /\ NoComposition \notin Compositions /\ NoBuild \notin Builds
    /\ \A c \in Compositions : BuildsOf(c) \subseteq Builds
    /\ \A b \in Builds : BlobsOf(b) \subseteq Blobs
    /\ Compositions \cap Builds = {} /\ Compositions \cap Blobs = {} /\ Builds \cap Blobs = {}
    /\ (Compositions \cup Builds \cup Blobs) \cap {"none", "root", "channel"} = {}
ASSUME InstallNaturals ==
    /\ Retained \in Nat \ {0}
    /\ MaxSequence \in Nat /\ MaxFailures \in Nat
    /\ \A n \in 1..MaxSequence : Channel(n) \in Compositions

VARIABLES
    disk, durable,
    flushing,   \* what was renamed last and is not yet flushed
    unflushed,  \* what was renamed and left without its flush
    pc,         \* what the writer does, or that none has the library open
    op,         \* its operation
    installed,  \* installed_
    lost,       \* history: what need not be there until it is published anew
    failures    \* failures so far

vars == <<disk, durable, flushing, unflushed, pc, op, installed, lost, failures>>

-----------------------------------------------------------------------------
Nowhere == "none"

(* What the library keeps by its digest.  A blob is broken when it is not  *)
(* what its digest says, a Build when its directory is not all there.      *)
Things == Compositions \cup Builds \cup Blobs
Conditions == {"none", "broken", "whole"}

Fresh ==
    [held |-> [t \in Things |-> "none"],
     installed |-> [active |-> NoComposition, retained |-> <<>>],
     sequence |-> 0]

NoOp == [kind |-> "none", composition |-> NoComposition, sequence |-> 0, todo |-> {},
         unverified |-> {}, healing |-> NoBuild, unpublished |-> {}]

Init ==
    /\ disk = Fresh /\ durable = Fresh
    /\ flushing = Nowhere /\ unflushed = {}
    /\ pc = "closed" /\ op = NoOp
    /\ installed = Fresh.installed
    /\ lost = {} /\ failures = 0

(* The Compositions a pointer names.                                       *)
Named(pointer) ==
    {c \in Compositions : c = pointer.active \/ \E i \in DOMAIN pointer.retained : pointer.retained[i] = c}

Open ==
    /\ pc = "closed"
    /\ pc' = "idle"
    /\ installed' = disk.installed
    /\ UNCHANGED <<disk, durable, flushing, unflushed, op, lost, failures>>

(* A rename that its flush did not follow is left so until the thing is    *)
(* renamed and flushed again: a retry finds it there and passes it over.   *)
(* Of the channel's sequence nothing is owed.                              *)
LeftUnflushed == unflushed \cup ({flushing} \ {Nowhere, "channel"})

(* The flush after the last rename; of a Build, of the files staged in it  *)
(* too.  Whether it succeeds the writer does not hear.                     *)
Flush ==
    /\ flushing # Nowhere
    /\ \/ /\ durable' =
              CASE flushing = "root" -> [durable EXCEPT !.installed = disk.installed]
                [] flushing = "channel" -> [durable EXCEPT !.sequence = disk.sequence]
                [] OTHER -> [durable EXCEPT !.held[flushing] = disk.held[flushing]]
          /\ unflushed' = unflushed \ {flushing}
          /\ lost' = {t \in lost : t = flushing => disk.held[t] # "whole"}
          /\ UNCHANGED failures
       \/ /\ failures < MaxFailures
          /\ unflushed' = LeftUnflushed
          /\ failures' = failures + 1
          /\ UNCHANGED <<durable, lost>>
    /\ flushing' = Nowhere
    /\ UNCHANGED <<disk, pc, op, installed>>

-----------------------------------------------------------------------------
(* install(): the Builds of an update or a heal, or one added.             *)

(* A Build that is held is read; the plan is the blobs that are not held.  *)
Begin(kind, composition, sequence, builds) ==
    /\ pc = "idle" /\ flushing = Nowhere
    /\ \A b \in builds : disk.held[b] # "broken"
    /\ pc' = "install"
    /\ op' = [kind |-> kind, composition |-> composition, sequence |-> sequence,
              todo |-> {x \in UNION {BlobsOf(b) : b \in builds} : disk.held[x] = "none"},
              unverified |-> builds, healing |-> NoBuild,
              unpublished |-> {b \in builds : disk.held[b] = "none"}]
    /\ UNCHANGED <<disk, durable, flushing, unflushed, installed, lost, failures>>

Add(b) == Begin("add", NoComposition, 0, {b})

Update(c) == Begin("update", c, 0, BuildsOf(c))

(* The channel's pointer must be past the sequence followed last.          *)
Follow(n) ==
    /\ n > disk.sequence
    /\ Begin("follow", Channel(n), n, BuildsOf(Channel(n)))

Heal ==
    /\ installed.active \in Compositions /\ disk.held[installed.active] = "whole"
    /\ Begin("heal", NoComposition, 0, BuildsOf(installed.active))

Ends == pc' = "idle" /\ op' = NoOp

(* A follow keeps its sequence after the update, whichever way that ends.  *)
Updated ==
    IF op.kind = "follow" THEN pc' = "sequence" /\ op' = op ELSE Ends

Installing == pc = "install" /\ flushing = Nowhere

(* What is written and flushed under staging/ is renamed into place.       *)
Publish(t) ==
    /\ disk' = [disk EXCEPT !.held[t] = "whole"]
    /\ flushing' = t

FetchBlob(x) ==
    /\ Installing
    /\ x \in op.todo
    /\ Publish(x)
    /\ op' = [op EXCEPT !.todo = @ \ {x}]
    /\ UNCHANGED <<durable, unflushed, pc, installed, lost, failures>>

(* A held blob that does not verify is removed and fetched, once: one that *)
(* is not what its digest says, and one that could not be read.            *)
VerifyBuild(b) ==
    /\ Installing
    /\ op.todo = {} /\ b \in op.unverified /\ op.healing \in {NoBuild, b}
    /\ \E unread \in SUBSET BlobsOf(b) :
          LET damaged == unread \cup {x \in BlobsOf(b) : disk.held[x] # "whole"}
          IN  /\ IF unread = {} THEN UNCHANGED failures
                 ELSE /\ failures < MaxFailures
                      /\ failures' = failures + 1
              /\ \/ /\ damaged = {}
                    /\ op' = [op EXCEPT !.unverified = @ \ {b}, !.healing = NoBuild]
                    /\ UNCHANGED <<disk, lost>>
                 \/ /\ damaged # {} /\ op.healing = NoBuild
                    /\ disk' = [disk EXCEPT !.held =
                                  [t \in Things |-> IF t \in damaged THEN "none" ELSE @[t]]]
                    /\ lost' = lost \cup damaged
                    /\ op' = [op EXCEPT !.todo = damaged, !.healing = b]
    /\ UNCHANGED <<durable, flushing, unflushed, pc, installed>>

Verified == Installing /\ op.todo = {} /\ op.unverified = {}

PublishBuild(b) ==
    /\ Verified
    /\ b \in op.unpublished
    /\ Publish(b)
    /\ op' = [op EXCEPT !.unpublished = @ \ {b}]
    /\ UNCHANGED <<durable, unflushed, pc, installed, lost, failures>>

InstallEnds ==
    /\ Verified /\ op.unpublished = {}
    /\ op.kind \in {"add", "heal"} \/ installed.active = op.composition
    /\ Updated
    /\ UNCHANGED <<disk, durable, flushing, unflushed, installed, lost, failures>>

KeepComposition ==
    /\ Verified /\ op.unpublished = {}
    /\ op.kind \in {"update", "follow"} /\ installed.active # op.composition
    /\ Publish(op.composition)
    /\ pc' = "point"
    /\ UNCHANGED <<durable, unflushed, op, installed, lost, failures>>

(* A list without a Composition, which is in it once at the most.          *)
Without(list, c) ==
    IF \E i \in DOMAIN list : list[i] = c
    THEN LET i == CHOOSE j \in DOMAIN list : list[j] = c
         IN  SubSeq(list, 1, i - 1) \o SubSeq(list, i + 1, Len(list))
    ELSE list

First(list, n) == SubSeq(list, 1, IF Len(list) < n THEN Len(list) ELSE n)

(* An update that retains what was active beside all that was retained.    *)
NextInstalled_AsItWas(c) ==
    [active |-> c,
     retained |-> IF installed.active = NoComposition THEN First(installed.retained, Retained)
                  ELSE First(<<installed.active>> \o installed.retained, Retained)]

(* The pointer an update moves to: what was active is retained first.      *)
NextInstalled(c) ==
    [active |-> c,
     retained |-> IF installed.active = NoComposition THEN First(Without(installed.retained, c), Retained)
                  ELSE First(<<installed.active>> \o Without(installed.retained, c), Retained)]

PointTo(next) ==
    /\ disk' = [disk EXCEPT !.installed = next]
    /\ flushing' = "root"
    /\ installed' = next

Point ==
    /\ pc = "point" /\ flushing = Nowhere
    /\ PointTo(NextInstalled(op.composition))
    /\ Updated
    /\ UNCHANGED <<durable, unflushed, lost, failures>>

KeepSequence ==
    /\ pc = "sequence" /\ flushing = Nowhere
    /\ disk' = [disk EXCEPT !.sequence = op.sequence]
    /\ flushing' = "channel"
    /\ Ends
    /\ UNCHANGED <<durable, unflushed, installed, lost, failures>>

(* A follow whose update was refused, and that keeps its sequence.         *)
Refused_KeepsSequence ==
    /\ pc \in {"install", "point", "sequence"} /\ flushing = Nowhere
    /\ IF pc # "sequence" THEN Updated ELSE Ends
    /\ UNCHANGED <<disk, durable, flushing, unflushed, installed, lost, failures>>

(* The origin or a write fails, or what was fetched does not verify.       *)
Refused ==
    /\ pc \in {"install", "point", "sequence"} /\ flushing = Nowhere
    /\ Ends
    /\ UNCHANGED <<disk, durable, flushing, unflushed, installed, lost, failures>>

-----------------------------------------------------------------------------
WholeBuild(b) == \A t \in {b} \cup BlobsOf(b) : disk.held[t] = "whole"

Rollback ==
    /\ pc = "idle" /\ flushing = Nowhere
    /\ installed.retained # <<>>
    /\ LET target == Head(installed.retained)
       IN  /\ disk.held[target] = "whole"
           /\ \A b \in BuildsOf(target) : WholeBuild(b)
           /\ PointTo([active |-> target,
                       retained |-> IF installed.active = NoComposition THEN Tail(installed.retained)
                                    ELSE <<installed.active>> \o Tail(installed.retained)])
    /\ UNCHANGED <<durable, unflushed, pc, op, lost, failures>>

-----------------------------------------------------------------------------
(* collect(), which reads every Composition and manifest it keeps before   *)
(* it removes anything.                                                    *)

(* A collect that keeps what the active Composition needs alone.           *)
NeededBuilds_Active ==
    IF installed.active = NoComposition THEN {} ELSE BuildsOf(installed.active)

NeededBuilds == UNION {BuildsOf(c) : c \in Named(installed)}
NeededBlobs == UNION {BlobsOf(b) : b \in NeededBuilds}

Collect ==
    /\ pc = "idle" /\ flushing = Nowhere
    /\ \A t \in Named(installed) \cup NeededBuilds : disk.held[t] = "whole"
    /\ pc' = "collect"
    /\ UNCHANGED <<disk, durable, flushing, unflushed, op, installed, lost, failures>>

UnneededBuilds == {b \in Builds \ NeededBuilds : disk.held[b] # "none"}
UnneededCompositions == {c \in Compositions \ Named(installed) : disk.held[c] # "none"}
UnneededBlobs == {x \in Blobs \ NeededBlobs : disk.held[x] # "none"}

(* A Build's directory goes file by file.  What is removed is not left     *)
(* unflushed: it is renamed anew before it is there again.                 *)
RemoveBuild(b) ==
    /\ pc = "collect"
    /\ b \in UnneededBuilds
    /\ disk' = [disk EXCEPT !.held[b] = IF @ = "whole" THEN "broken" ELSE "none"]
    /\ unflushed' = unflushed \ {b}
    /\ UNCHANGED <<durable, flushing, pc, op, installed, lost, failures>>

RemoveComposition(c) ==
    /\ pc = "collect"
    /\ UnneededBuilds = {} /\ c \in UnneededCompositions
    /\ disk' = [disk EXCEPT !.held[c] = "none"]
    /\ unflushed' = unflushed \ {c}
    /\ UNCHANGED <<durable, flushing, pc, op, installed, lost, failures>>

RemoveBlob(x) ==
    /\ pc = "collect"
    /\ UnneededBuilds = {} /\ UnneededCompositions = {} /\ x \in UnneededBlobs
    /\ disk' = [disk EXCEPT !.held[x] = "none"]
    /\ unflushed' = unflushed \ {x}
    /\ UNCHANGED <<durable, flushing, pc, op, installed, lost, failures>>

CollectEnds ==
    /\ pc = "collect"
    /\ UnneededBuilds = {} /\ UnneededCompositions = {} /\ UnneededBlobs = {}
    /\ pc' = "idle"
    /\ UNCHANGED <<disk, durable, flushing, unflushed, op, installed, lost, failures>>

-----------------------------------------------------------------------------
(* Failures.                                                               *)

(* A blob rots where it stands.                                            *)
Rot(x) ==
    /\ failures < MaxFailures
    /\ disk.held[x] = "whole"
    /\ disk' = [disk EXCEPT !.held[x] = "broken"]
    /\ durable' = [durable EXCEPT !.held[x] = IF @ = "whole" THEN "broken" ELSE @]
    /\ lost' = lost \cup {x}
    /\ failures' = failures + 1
    /\ UNCHANGED <<flushing, unflushed, pc, op, installed>>

Stops ==
    /\ failures < MaxFailures
    /\ pc # "closed"
    /\ flushing' = Nowhere /\ pc' = "closed" /\ op' = NoOp
    /\ installed' = Fresh.installed
    /\ failures' = failures + 1

(* The process stops where it stands; what it renamed last is not flushed. *)
Crash ==
    /\ Stops
    /\ unflushed' = LeftUnflushed
    /\ UNCHANGED <<disk, durable, lost>>

(* A Build whose files were not flushed, or that was being removed, may be *)
(* left with some of them.                                                 *)
Breakable(b) ==
    \/ b \in unflushed \cup {flushing}
    \/ disk.held[b] # durable.held[b] /\ durable.held[b] = "whole"

(* The power fails: of each thing renamed or removed and not flushed, the  *)
(* new or the old is left.  What it takes of what was left unflushed is    *)
(* lost, and whatever is not there when that is the pointer: the old one   *)
(* may name what was collected since.                                      *)
PowerFailure ==
    /\ Stops
    /\ \E old \in SUBSET {t \in Things : disk.held[t] # durable.held[t]},
          broken \in SUBSET {b \in Builds : Breakable(b)},
          pointer \in {disk.installed, durable.installed},
          sequence \in {disk.sequence, durable.sequence} :
          disk' = [held |-> [t \in Things |-> IF t \in broken THEN "broken"
                                              ELSE IF t \in old THEN durable.held[t] ELSE disk.held[t]],
                   installed |-> pointer, sequence |-> sequence]
    /\ durable' = disk'
    /\ unflushed' = {}
    /\ lost' = lost \cup {t \in Things : disk'.held[t] # "whole" /\ {t, "root"} \cap unflushed # {}}

Next ==
    \/ Open
    \/ Flush
    \/ \E b \in Builds : Add(b)
    \/ \E c \in Compositions : Update(c)
    \/ \E n \in 1..MaxSequence : Follow(n)
    \/ Heal
    \/ \E x \in Blobs : FetchBlob(x)
    \/ \E b \in Builds : VerifyBuild(b)
    \/ \E b \in Builds : PublishBuild(b)
    \/ InstallEnds
    \/ KeepComposition
    \/ Point
    \/ KeepSequence
    \/ Refused
    \/ Rollback
    \/ Collect
    \/ \E b \in Builds : RemoveBuild(b)
    \/ \E c \in Compositions : RemoveComposition(c)
    \/ \E x \in Blobs : RemoveBlob(x)
    \/ CollectEnds
    \/ \E x \in Blobs : Rot(x)
    \/ Crash
    \/ PowerFailure

Spec == Init /\ [][Next]_vars

-----------------------------------------------------------------------------
(* Properties.                                                             *)

PointerSet == [active : Compositions \cup {NoComposition}, retained : Seq(Compositions)]
DiskSet == [held : [Things -> Conditions], installed : PointerSet, sequence : 0..MaxSequence]
OpSet ==
    [kind : {"none", "add", "update", "follow", "heal"}, composition : Compositions \cup {NoComposition},
     sequence : 0..MaxSequence, todo : SUBSET Blobs, unverified : SUBSET Builds,
     healing : Builds \cup {NoBuild}, unpublished : SUBSET Builds]

(* Every variable has its type.                                            *)
TypeOK ==
    /\ disk \in DiskSet /\ durable \in DiskSet
    /\ flushing \in Things \cup {"root", "channel", Nowhere}
    /\ unflushed \subseteq Things \cup {"root"}
    /\ pc \in {"closed", "idle", "install", "point", "sequence", "collect"}
    /\ op \in OpSet
    /\ op.kind \in {"update", "follow"} \/ pc = "point" => op.composition \in Compositions
    /\ installed \in PointerSet
    /\ lost \subseteq Things
    /\ failures \in Nat

(* What a Composition needs: itself, its Builds, their blobs.              *)
Needs(c) == {c} \cup BuildsOf(c) \cup UNION {BlobsOf(b) : b \in BuildsOf(c)}

(* Whatever stops an update, a rollback, a heal or a collect, and wherever *)
(* it stops: of every Composition that the installed pointer names, active *)
(* or retained, all is held, but for what was lost: blobs that rotted or   *)
(* were removed as unreadable, and what the power took of renames that     *)
(* their flush did not follow.                                             *)
KeptWhole ==
    \A c \in Named(disk.installed) : \A t \in Needs(c) : disk.held[t] = "whole" \/ t \in lost

Apart(pointer) ==
    /\ Len(pointer.retained) <= Retained
    /\ \A i \in DOMAIN pointer.retained : pointer.retained[i] # pointer.active
    /\ \A i, j \in DOMAIN pointer.retained : pointer.retained[i] = pointer.retained[j] => i = j

(* What is retained is another Composition than the active one, each once  *)
(* and no more than the limit: a rollback goes somewhere, and an update    *)
(* back to a retained Composition takes it out of the list.                *)
RetainedApart == Apart(disk.installed)

(* A channel's sequence is kept only once the Composition it names is      *)
(* active, and is what the power leaves installed unless the pointer was   *)
(* left unflushed: a follow that was stopped is taken up again.            *)
SequenceFollows ==
    [][disk'.sequence > disk.sequence =>
         /\ disk.installed.active = Channel(disk'.sequence)
         /\ durable.installed.active = Channel(disk'.sequence) \/ "root" \in unflushed]_vars
=============================================================================
