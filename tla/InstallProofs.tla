---------------------------- MODULE InstallProofs ----------------------------
(***************************************************************************)
(* What Install promises, for every library, every channel and every       *)
(* failure: whatever stops it, all that the pointer's Compositions need is *)
(* held but for what was lost, those retained are apart, and a sequence    *)
(* follows what it names.                                                  *)
(***************************************************************************)
EXTENDS Install, TLAPS

(* The operations that end with another Composition active.                *)
Updates == {"update", "follow"}

(* What the disk shows is durable, but for what awaits its flush or was    *)
(* left without.                                                           *)
Durables ==
    /\ \A t \in Things : disk.held[t] = "whole" /\ t # flushing /\ t \notin unflushed
                           => durable.held[t] = "whole"
    /\ flushing # "root" /\ "root" \notin unflushed => disk.installed = durable.installed
    /\ durable.sequence <= disk.sequence

(* Where a writer is, and what it is there for.                            *)
Phases ==
    /\ pc \in {"closed", "collect"} => flushing = Nowhere
    /\ pc # "closed" => installed = disk.installed
    /\ pc = "install" => \A b \in op.unpublished : disk.held[b] = "none"
    /\ pc = "point" => /\ op.kind \in Updates /\ op.unverified = {} /\ op.unpublished = {}
                       /\ disk.held[op.composition] = "whole"
                       /\ installed.active # op.composition
    /\ pc = "sequence" => op.kind = "follow" /\ installed.active = op.composition
    /\ op.kind = "follow" => /\ op.sequence \in 1..MaxSequence /\ op.sequence > disk.sequence
                             /\ op.composition = Channel(op.sequence)

(* What an update has verified is held, but for what was lost since, and   *)
(* what it has published is there.                                         *)
Progress ==
    pc \in {"install", "point"} /\ op.kind \in Updates =>
        \A b \in BuildsOf(op.composition) :
            /\ b \notin op.unpublished => disk.held[b] = "whole"
            /\ b \notin op.unverified => \A x \in BlobsOf(b) : disk.held[x] = "whole" \/ x \in lost

(* A thing the power does not take unless it was left unflushed: a Build   *)
(* that is being published anew it may break.                              *)
Safe(t) ==
    \/ t \in lost
    \/ /\ disk.held[t] = "whole"
       /\ t \in unflushed \/ durable.held[t] = "whole"
       /\ t \in Builds => t # flushing

(* Whichever pointer a failure leaves, what it names is safe; of one left  *)
(* unflushed the old is not owed.                                          *)
Claimed(c) ==
    c \in Named(disk.installed) \/ ("root" \notin unflushed /\ c \in Named(durable.installed))

Kept == \A c \in Compositions : Claimed(c) => \A t \in Needs(c) : Safe(t)

KeptInv == TypeOK /\ Durables /\ Phases /\ Progress /\ Kept

-----------------------------------------------------------------------------
(* Lists of Compositions.                                                  *)

(* A list without c: what it has is the list's, less of it, and c no more  *)
(* where the list had it once.                                             *)
LEMMA WithoutList ==
    ASSUME NEW S, NEW list \in Seq(S), NEW c
    PROVE  /\ Without(list, c) \in Seq(S)
           /\ \A i \in DOMAIN Without(list, c) : \E j \in DOMAIN list : Without(list, c)[i] = list[j]
           /\ (\A i, j \in DOMAIN list : list[i] = list[j] => i = j)
                => /\ \A i \in DOMAIN Without(list, c) : Without(list, c)[i] # c
                   /\ \A i, j \in DOMAIN Without(list, c) :
                        Without(list, c)[i] = Without(list, c)[j] => i = j
<1>1. CASE ~\E i \in DOMAIN list : list[i] = c
  BY <1>1 DEF Without
<1>2. CASE \E i \in DOMAIN list : list[i] = c
  <2> DEFINE k == CHOOSE j \in DOMAIN list : list[j] = c
             left == SubSeq(list, 1, k - 1)
             right == SubSeq(list, k + 1, Len(list))
             rest == left \o right
  <2>1. k \in DOMAIN list /\ list[k] = c
    BY <1>2
  <2>2. Without(list, c) = rest
    BY <1>2 DEF Without
  <2> HIDE DEF k
  <2>3. k \in 1..Len(list) /\ Len(list) \in Nat
    BY <2>1
  <2>4. /\ left \in Seq(S) /\ Len(left) = k - 1
        /\ \A i \in 1..(k - 1) : left[i] = list[i]
    BY <2>3
  <2>5. /\ right \in Seq(S) /\ Len(right) = Len(list) - k
        /\ \A i \in 1..(Len(list) - k) : right[i] = list[k + i]
    BY <2>3
  <2> HIDE DEF left, right
  <2>6. rest \in Seq(S) /\ Len(rest) = Len(list) - 1
    <3>1. left \in Seq(S) /\ right \in Seq(S)
      BY <2>4, <2>5
    <3>2. left \o right \in Seq(S) /\ Len(left \o right) = Len(left) + Len(right)
      BY ONLY <3>1, SMTT(20)
    <3> QED BY <2>3, <2>4, <2>5, <3>2
  <2>7. \A i \in 1..(Len(list) - 1) : rest[i] = list[IF i < k THEN i ELSE i + 1]
    <3> TAKE i \in 1..(Len(list) - 1)
    <3>1. CASE i < k
      <4>1. i \in 1..Len(left) /\ rest[i] = left[i]
        BY <3>1, <2>3, <2>4, <2>5
      <4> QED BY <3>1, <4>1, <2>3, <2>4
    <3>2. CASE ~(i < k)
      <4>1. i - (k - 1) \in 1..(Len(list) - k) /\ k + (i - (k - 1)) = i + 1
        BY <3>2, <2>3
      <4>2. rest[i] = right[i - (k - 1)]
        BY <3>2, <2>3, <2>4, <2>5, <4>1, SMTT(30)
      <4>3. right[i - (k - 1)] = list[i + 1]
        BY <4>1, <2>5
      <4> QED BY <3>2, <4>2, <4>3
    <3> QED BY <3>1, <3>2
  <2>8. DOMAIN rest = 1..(Len(list) - 1) /\ DOMAIN list = 1..Len(list)
    BY <2>6
  <2> HIDE DEF rest
  <2>9. \A i \in DOMAIN rest : \E j \in DOMAIN list : rest[i] = list[j]
    <3> TAKE i \in DOMAIN rest
    <3>1. (IF i < k THEN i ELSE i + 1) \in DOMAIN list
      BY <2>3, <2>8
    <3> QED BY <2>7, <2>8, <3>1
  <2>10. ASSUME \A i, j \in DOMAIN list : list[i] = list[j] => i = j
         PROVE  /\ \A i \in DOMAIN rest : rest[i] # c
                /\ \A i, j \in DOMAIN rest : rest[i] = rest[j] => i = j
    <3>1. \A i \in DOMAIN rest : (IF i < k THEN i ELSE i + 1) \in DOMAIN list \ {k}
      BY <2>3, <2>8
    <3>2. \A i \in DOMAIN rest : rest[i] # c
      BY <2>1, <2>7, <2>8, <2>10, <3>1
    <3>3. \A i, j \in DOMAIN rest : rest[i] = rest[j] => i = j
      <4> TAKE i \in DOMAIN rest, j \in DOMAIN rest
      <4> HAVE rest[i] = rest[j]
      <4>1. (IF i < k THEN i ELSE i + 1) = (IF j < k THEN j ELSE j + 1)
        BY <2>7, <2>8, <2>10, <3>1
      <4> QED BY <4>1, <2>3, <2>8
    <3> QED BY <3>2, <3>3
  <2> QED BY <2>2, <2>6, <2>9, <2>10
<1> QED BY <1>1, <1>2

(* The first of a list are its own.                                        *)
LEMMA FirstList ==
    ASSUME NEW S, NEW list \in Seq(S), NEW n \in Nat
    PROVE  /\ First(list, n) \in Seq(S)
           /\ Len(First(list, n)) <= n
           /\ DOMAIN First(list, n) \subseteq DOMAIN list
           /\ \A i \in DOMAIN First(list, n) : First(list, n)[i] = list[i]
  BY DEF First

(* The pointer an update moves to names what it installs and what the      *)
(* pointer named, apart if that was.                                       *)
LEMMA NextPointer ==
    ASSUME installed \in PointerSet, NEW c \in Compositions
    PROVE  /\ NextInstalled(c) \in PointerSet
           /\ Named(NextInstalled(c)) \subseteq {c} \cup Named(installed)
           /\ Apart(installed) /\ installed.active # c => Apart(NextInstalled(c))
<1> DEFINE rest == Without(installed.retained, c)
           list == IF installed.active = NoComposition THEN rest ELSE <<installed.active>> \o rest
           next == First(list, Retained)
<1>0. /\ installed.retained \in Seq(Compositions) /\ Retained \in Nat \ {0}
      /\ installed.active \in Compositions \cup {NoComposition}
  BY InstallNaturals DEF PointerSet
<1>1. /\ rest \in Seq(Compositions)
      /\ \A i \in DOMAIN rest : \E j \in DOMAIN installed.retained : rest[i] = installed.retained[j]
      /\ (\A i, j \in DOMAIN installed.retained : installed.retained[i] = installed.retained[j] => i = j)
           => /\ \A i \in DOMAIN rest : rest[i] # c
              /\ \A i, j \in DOMAIN rest : rest[i] = rest[j] => i = j
  <2> HIDE DEF rest
  <2> QED BY <1>0, WithoutList DEF rest
<1>2. NextInstalled(c) = [active |-> c, retained |-> next]
  BY DEF NextInstalled
<1> HIDE DEF rest
<1>3. list \in Seq(Compositions)
  BY <1>0, <1>1
<1>4. \A i \in DOMAIN list :
        \/ i = 1 /\ list[i] = installed.active /\ installed.active \in Compositions
        \/ \E j \in DOMAIN rest : /\ list[i] = rest[j]
                                  /\ i = IF installed.active = NoComposition THEN j ELSE j + 1
  <2>1. CASE installed.active = NoComposition
    BY <2>1, <1>1
  <2>2. CASE installed.active # NoComposition
    <3>1. installed.active \in Compositions
      BY <2>2, <1>0
    <3>2. Len(list) = Len(rest) + 1 /\ DOMAIN list = 1..(Len(rest) + 1) /\ list[1] = installed.active
      BY <2>2, <1>1
    <3>3. \A i \in DOMAIN list : i # 1 => i - 1 \in DOMAIN rest /\ list[i] = rest[i - 1]
      BY <2>2, <1>1, <3>2
    <3> QED BY <2>2, <3>1, <3>2, <3>3, <1>1
  <2> QED BY <2>1, <2>2
<1> HIDE DEF list
<1>5. /\ next \in Seq(Compositions) /\ Len(next) <= Retained
      /\ DOMAIN next \subseteq DOMAIN list
      /\ \A i \in DOMAIN next : next[i] = list[i]
  <2> HIDE DEF next
  <2> QED BY <1>0, <1>3, FirstList DEF next
<1> HIDE DEF next
<1>6. NextInstalled(c) \in PointerSet
  BY <1>2, <1>5 DEF PointerSet
<1>7. Named(NextInstalled(c)) \subseteq {c} \cup Named(installed)
  BY <1>1, <1>2, <1>4, <1>5 DEF Named
<1>8. ASSUME Apart(installed), installed.active # c PROVE Apart(NextInstalled(c))
  <2>1. /\ \A i \in DOMAIN rest : rest[i] # c /\ rest[i] # installed.active
        /\ \A i, j \in DOMAIN rest : rest[i] = rest[j] => i = j
    BY <1>1, <1>8 DEF Apart
  <2>2. \A i \in DOMAIN list : list[i] # c
    BY <1>4, <1>8, <2>1
  <2>3. \A i, j \in DOMAIN list : list[i] = list[j] => i = j
    <3> TAKE i \in DOMAIN list, j \in DOMAIN list
    <3> HAVE list[i] = list[j]
    <3>1. CASE i = 1 /\ list[i] = installed.active /\ installed.active \in Compositions
      BY <3>1, <1>4, <2>1
    <3>2. CASE j = 1 /\ list[j] = installed.active /\ installed.active \in Compositions
      BY <3>2, <1>4, <2>1
    <3>3. CASE \E k, l \in DOMAIN rest :
                 /\ list[i] = rest[k] /\ i = IF installed.active = NoComposition THEN k ELSE k + 1
                 /\ list[j] = rest[l] /\ j = IF installed.active = NoComposition THEN l ELSE l + 1
      BY <3>3, <2>1
    <3> QED BY <1>4, <3>1, <3>2, <3>3
  <2> QED BY <1>2, <1>5, <2>2, <2>3 DEF Apart
<1> QED BY <1>6, <1>7, <1>8

-----------------------------------------------------------------------------
(* Types.                                                                  *)

LEMMA FreshIsTyped == Fresh \in DiskSet /\ Fresh.installed \in PointerSet
<1>1. <<>> \in Seq(Compositions) /\ 0 \in 0..MaxSequence
  BY InstallNaturals
<1> QED BY <1>1 DEF Fresh, DiskSet, PointerSet, Conditions

LEMMA NoOpIsTyped == NoOp \in OpSet /\ NoOp.kind = "none"
<1>1. 0 \in 0..MaxSequence
  BY InstallNaturals
<1> QED BY <1>1 DEF NoOp, OpSet

LEMMA InitTypes == Init => TypeOK
  BY FreshIsTyped, NoOpIsTyped DEF Init, TypeOK, Nowhere

(* The things are no directories of the library, and of three kinds.       *)
LEMMA ThingsApart ==
    /\ \A t \in Things : t \notin {Nowhere, "root", "channel"}
    /\ Nowhere \notin {"root", "channel"} /\ "root" # "channel"
    /\ \A b \in Builds : b \in Things /\ b \notin Compositions /\ b \notin Blobs
    /\ \A x \in Blobs : x \in Things /\ x \notin Compositions /\ x \notin Builds
    /\ \A c \in Compositions : c \in Things /\ c \notin Builds /\ c \notin Blobs
  BY InstallNames DEF Things, Nowhere

LEMMA NeedsThings ==
    ASSUME NEW c \in Compositions
    PROVE  /\ Needs(c) \subseteq Things
           /\ BuildsOf(c) \subseteq Builds
           /\ \A b \in BuildsOf(c) : BlobsOf(b) \subseteq Blobs
  BY InstallNames DEF Needs, Things

(* An image of the disk in which one thing changed.                        *)
LEMMA HeldTyped ==
    ASSUME NEW image \in DiskSet, NEW t \in Things, NEW condition \in Conditions
    PROVE  [image EXCEPT !.held[t] = condition] \in DiskSet
  BY DEF DiskSet

LEMMA PublishTypes ==
    ASSUME TypeOK, NEW t \in Things, Publish(t)
    PROVE  disk' \in DiskSet /\ flushing' \in Things
<1>1. "whole" \in Conditions
  BY DEF Conditions
<1> QED BY <1>1, HeldTyped DEF Publish, TypeOK

(* A failure leaves an image of the disk with its type.                    *)
LEMMA StopsTypes ==
    ASSUME TypeOK, Stops, disk' \in DiskSet, durable' \in DiskSet,
           unflushed' \subseteq Things \cup {"root"}, lost' \subseteq Things
    PROVE  TypeOK'
  BY FreshIsTyped, NoOpIsTyped DEF Stops, TypeOK, Nowhere

LEMMA LeftUnflushedTyped ==
    ASSUME TypeOK
    PROVE  LeftUnflushed \subseteq Things \cup {"root"}
  BY DEF TypeOK, LeftUnflushed, Nowhere

(* What the power leaves.                                                  *)
LEMMA PowerLeaves ==
    ASSUME TypeOK, PowerFailure
    PROVE  /\ disk' \in DiskSet
           /\ disk'.installed \in {disk.installed, durable.installed}
           /\ disk'.sequence \in {disk.sequence, durable.sequence}
           /\ \A t \in Things :
                disk.held[t] = durable.held[t] /\ (t \in Builds => t \notin unflushed \cup {flushing})
                  => disk'.held[t] = disk.held[t]
<1>1. PICK old \in SUBSET {t \in Things : disk.held[t] # durable.held[t]},
           broken \in SUBSET {b \in Builds : Breakable(b)},
           pointer \in {disk.installed, durable.installed},
           sequence \in {disk.sequence, durable.sequence} :
             disk' = [held |-> [t \in Things |-> IF t \in broken THEN "broken"
                                                 ELSE IF t \in old THEN durable.held[t] ELSE disk.held[t]],
                      installed |-> pointer, sequence |-> sequence]
  BY Zenon DEF PowerFailure
<1>2. /\ disk.held \in [Things -> Conditions] /\ durable.held \in [Things -> Conditions]
      /\ {disk.installed, durable.installed} \subseteq PointerSet
      /\ {disk.sequence, durable.sequence} \subseteq 0..MaxSequence
  BY DEF TypeOK, DiskSet
<1> DEFINE mixed == [t \in Things |-> IF t \in broken THEN "broken"
                                      ELSE IF t \in old THEN durable.held[t] ELSE disk.held[t]]
<1>3. mixed \in [Things -> Conditions]
  BY <1>2 DEF Conditions
<1>4. \A t \in Things :
        disk.held[t] = durable.held[t] /\ (t \in Builds => t \notin unflushed \cup {flushing})
          => mixed[t] = disk.held[t]
  BY <1>1 DEF Breakable
<1> HIDE DEF mixed
<1>5. disk' = [held |-> mixed, installed |-> pointer, sequence |-> sequence]
  BY <1>1 DEF mixed
<1> QED BY <1>1, <1>2, <1>3, <1>4, <1>5 DEF DiskSet

(* Each step leaves every variable with its type.                          *)
LEMMA StepTypes == TypeOK /\ [Next]_vars => TypeOK'
<1> SUFFICES ASSUME TypeOK, [Next]_vars PROVE TypeOK'
  OBVIOUS
<1> USE InstallNaturals DEF TypeOK
<1>0. /\ disk.held \in [Things -> Conditions] /\ durable.held \in [Things -> Conditions]
      /\ disk.installed \in PointerSet /\ durable.installed \in PointerSet
      /\ disk.sequence \in 0..MaxSequence /\ durable.sequence \in 0..MaxSequence
      /\ {"none", "broken", "whole"} = Conditions
  BY DEF DiskSet, Conditions
<1>1. CASE Open
  BY <1>0, <1>1 DEF Open
<1>2. CASE Flush
  <2>1. durable' \in DiskSet
    <3>1. CASE flushing = "root" /\ durable' = [durable EXCEPT !.installed = disk.installed]
      BY <1>0, <3>1 DEF DiskSet
    <3>2. CASE flushing = "channel" /\ durable' = [durable EXCEPT !.sequence = disk.sequence]
      BY <1>0, <3>2 DEF DiskSet
    <3>3. CASE flushing \in Things /\ durable' = [durable EXCEPT !.held[flushing] = disk.held[flushing]]
      BY <1>0, <3>3, HeldTyped
    <3>4. CASE durable' = durable
      BY <3>4
    <3> QED BY <1>2, <3>1, <3>2, <3>3, <3>4 DEF Flush, Nowhere
  <2>2. lost' \subseteq Things /\ unflushed' \subseteq Things \cup {"root"}
    BY <1>2, LeftUnflushedTyped DEF Flush
  <2> QED BY <1>2, <2>1, <2>2 DEF Flush
<1>3. ASSUME NEW kind \in {"add", "update", "follow", "heal"}, NEW composition \in Compositions \cup {NoComposition},
             NEW sequence \in 0..MaxSequence, NEW builds \in SUBSET Builds,
             Begin(kind, composition, sequence, builds),
             kind \in {"update", "follow"} => composition \in Compositions
      PROVE  TypeOK'
  <2>1. {x \in UNION {BlobsOf(b) : b \in builds} : disk.held[x] = "none"} \in SUBSET Blobs
    BY InstallNames
  <2>2. op' \in OpSet
    BY <1>3, <2>1 DEF Begin, OpSet
  <2> QED BY <1>3, <2>2 DEF Begin
<1>4. ASSUME NEW b \in Builds, Add(b) PROVE TypeOK'
  BY <1>3, <1>4 DEF Add
<1>5. ASSUME NEW c \in Compositions, Update(c) PROVE TypeOK'
  BY <1>3, <1>5, InstallNames DEF Update
<1>6. ASSUME NEW n \in 1..MaxSequence, Follow(n) PROVE TypeOK'
  <2>1. n \in 0..MaxSequence /\ Channel(n) \in Compositions /\ BuildsOf(Channel(n)) \subseteq Builds
    BY InstallNames
  <2> QED BY <1>3, <1>6, <2>1 DEF Follow
<1>7. CASE Heal
  <2>1. installed.active \in Compositions /\ BuildsOf(installed.active) \subseteq Builds /\ 0 \in 0..MaxSequence
    BY <1>0, <1>7, InstallNames DEF Heal
  <2> QED BY <1>3, <1>7, <2>1 DEF Heal
<1>8. ASSUME NEW x \in Blobs, FetchBlob(x) PROVE TypeOK'
  <2>1. disk' \in DiskSet /\ flushing' \in Things
    BY <1>8, ThingsApart, PublishTypes DEF FetchBlob
  <2>2. op' \in OpSet
    BY <1>8 DEF FetchBlob, OpSet
  <2>3. op'.kind = op.kind /\ op'.composition = op.composition
    BY <1>8 DEF FetchBlob, OpSet
  <2> QED BY <1>8, <2>1, <2>2, <2>3 DEF FetchBlob
<1>9. ASSUME NEW b \in Builds, VerifyBuild(b) PROVE TypeOK'
  <2> DEFINE removed(damaged) == [t \in Things |-> IF t \in damaged THEN "none" ELSE disk.held[t]]
  <2>1. PICK damaged \in SUBSET Blobs :
          \/ /\ op' = [op EXCEPT !.unverified = @ \ {b}, !.healing = NoBuild]
             /\ UNCHANGED <<disk, lost>>
          \/ /\ disk' = [disk EXCEPT !.held = removed(damaged)]
             /\ lost' = lost \cup damaged
             /\ op' = [op EXCEPT !.todo = damaged, !.healing = b]
    <3>1. PICK unread \in SUBSET BlobsOf(b) :
            LET damaged == unread \cup {x \in BlobsOf(b) : disk.held[x] # "whole"}
            IN  \/ /\ op' = [op EXCEPT !.unverified = @ \ {b}, !.healing = NoBuild]
                   /\ UNCHANGED <<disk, lost>>
                \/ /\ disk' = [disk EXCEPT !.held = removed(damaged)]
                   /\ lost' = lost \cup damaged
                   /\ op' = [op EXCEPT !.todo = damaged, !.healing = b]
      BY <1>9, ZenonT(30) DEF VerifyBuild
    <3>2. unread \cup {x \in BlobsOf(b) : disk.held[x] # "whole"} \in SUBSET Blobs
      BY InstallNames
    <3> HIDE DEF removed
    <3> QED BY <3>1, <3>2
  <2>2. damaged \subseteq Things /\ removed(damaged) \in [Things -> Conditions]
    BY <1>0 DEF Things
  <2> HIDE DEF removed
  <2>3. disk' \in DiskSet /\ lost' \subseteq Things
    BY <1>0, <2>1, <2>2 DEF DiskSet
  <2>4. op' \in OpSet /\ op'.kind = op.kind /\ op'.composition = op.composition
    <3>1. CASE op' = [op EXCEPT !.unverified = @ \ {b}, !.healing = NoBuild]
      BY <3>1 DEF OpSet
    <3>2. CASE op' = [op EXCEPT !.todo = damaged, !.healing = b]
      BY <3>2 DEF OpSet
    <3> QED BY <2>1, <3>1, <3>2
  <2>5. failures' \in Nat /\ UNCHANGED <<durable, flushing, unflushed, pc, installed>>
    <3>1. failures' = failures \/ failures' = failures + 1
      BY <1>9 DEF VerifyBuild
    <3> QED BY <1>9, <3>1 DEF VerifyBuild
  <2> QED BY <2>3, <2>4, <2>5
<1>10. ASSUME NEW b \in Builds, PublishBuild(b) PROVE TypeOK'
  <2>1. disk' \in DiskSet /\ flushing' \in Things
    BY <1>10, ThingsApart, PublishTypes DEF PublishBuild
  <2>2. op' \in OpSet
    BY <1>10 DEF PublishBuild, OpSet
  <2>3. op'.kind = op.kind /\ op'.composition = op.composition
    BY <1>10 DEF PublishBuild, OpSet
  <2> QED BY <1>10, <2>1, <2>2, <2>3 DEF PublishBuild
<1>11. CASE InstallEnds
  BY <1>11, NoOpIsTyped DEF InstallEnds, Updated, Ends
<1>12. CASE KeepComposition
  <2>1. op.composition \in Compositions
    BY <1>12 DEF KeepComposition
  <2>2. disk' \in DiskSet /\ flushing' \in Things
    BY <1>12, <2>1, ThingsApart, PublishTypes DEF KeepComposition
  <2> QED BY <1>12, <2>1, <2>2 DEF KeepComposition
<1>13. CASE Point
  <2>1. op.composition \in Compositions
    BY <1>13 DEF Point
  <2>2. NextInstalled(op.composition) \in PointerSet
    BY <2>1, NextPointer
  <2>3. disk' \in DiskSet
    BY <1>0, <1>13, <2>2 DEF Point, PointTo, DiskSet
  <2> QED BY <1>13, <2>1, <2>2, <2>3, NoOpIsTyped DEF Point, PointTo, Updated, Ends, NoOp
<1>14. CASE KeepSequence
  <2>1. disk' \in DiskSet
    BY <1>0, <1>14 DEF KeepSequence, DiskSet, OpSet
  <2> QED BY <1>14, <2>1, NoOpIsTyped DEF KeepSequence, Ends, NoOp
<1>15. CASE Refused
  BY <1>15, NoOpIsTyped DEF Refused, Ends, NoOp
<1>16. CASE Rollback
  <2> DEFINE next == [active |-> Head(installed.retained),
                      retained |-> IF installed.active = NoComposition THEN Tail(installed.retained)
                                   ELSE <<installed.active>> \o Tail(installed.retained)]
  <2>1. /\ installed.retained \in Seq(Compositions) /\ installed.retained # <<>>
        /\ installed.active \in Compositions \cup {NoComposition}
    BY <1>16 DEF Rollback, PointerSet
  <2>2. Head(installed.retained) \in Compositions /\ Tail(installed.retained) \in Seq(Compositions)
    BY <2>1
  <2>3. next \in PointerSet
    BY <2>1, <2>2 DEF PointerSet
  <2>4. PointTo(next)
    BY <1>16 DEF Rollback
  <2> HIDE DEF next
  <2>5. disk' \in DiskSet /\ installed' \in PointerSet /\ flushing' = "root"
    BY <1>0, <2>3, <2>4 DEF PointTo, DiskSet
  <2> QED BY <1>16, <2>5 DEF Rollback
<1>17. CASE Collect
  BY <1>17 DEF Collect
<1>18. ASSUME NEW b \in Builds, RemoveBuild(b) PROVE TypeOK'
  <2>1. disk' \in DiskSet
    BY <1>0, <1>18, HeldTyped, ThingsApart DEF RemoveBuild
  <2> QED BY <1>18, <2>1 DEF RemoveBuild
<1>19. ASSUME NEW c \in Compositions, RemoveComposition(c) PROVE TypeOK'
  <2>1. disk' \in DiskSet
    BY <1>0, <1>19, HeldTyped, ThingsApart DEF RemoveComposition
  <2> QED BY <1>19, <2>1 DEF RemoveComposition
<1>20. ASSUME NEW x \in Blobs, RemoveBlob(x) PROVE TypeOK'
  <2>1. disk' \in DiskSet
    BY <1>0, <1>20, HeldTyped, ThingsApart DEF RemoveBlob
  <2> QED BY <1>20, <2>1 DEF RemoveBlob
<1>21. CASE CollectEnds
  BY <1>21 DEF CollectEnds
<1>22. ASSUME NEW x \in Blobs, Rot(x) PROVE TypeOK'
  <2>1. disk' \in DiskSet
    BY <1>0, <1>22, HeldTyped, ThingsApart DEF Rot
  <2>2. durable' \in DiskSet
    <3>1. (IF durable.held[x] = "whole" THEN "broken" ELSE durable.held[x]) \in Conditions
      BY <1>0, ThingsApart
    <3>2. durable' = [durable EXCEPT !.held[x] = IF durable.held[x] = "whole" THEN "broken" ELSE durable.held[x]]
      BY <1>22 DEF Rot
    <3> QED BY <3>1, <3>2, HeldTyped, ThingsApart
  <2> QED BY <1>22, <2>1, <2>2, ThingsApart DEF Rot
<1>23. CASE Crash
  BY <1>23, StopsTypes, LeftUnflushedTyped DEF Crash
<1>24. CASE PowerFailure
  <2>1. disk' \in DiskSet /\ durable' = disk'
    BY <1>24, PowerLeaves DEF PowerFailure
  <2>2. Stops /\ unflushed' = {} /\ lost' \subseteq Things
    BY <1>24 DEF PowerFailure
  <2> QED BY <2>1, <2>2, StopsTypes
<1>25. CASE UNCHANGED vars
  BY <1>25 DEF vars
<1> QED
  BY <1>1, <1>2, <1>4, <1>5, <1>6, <1>7, <1>8, <1>9, <1>10, <1>11, <1>12, <1>13, <1>14, <1>15, <1>16,
     <1>17, <1>18, <1>19, <1>20, <1>21, <1>22, <1>23, <1>24, <1>25 DEF Next

(* TypeOK holds throughout: every variable has its type in every state.    *)
THEOREM TypeCorrect == Spec => []TypeOK
  BY InitTypes, StepTypes, PTL DEF Spec

-----------------------------------------------------------------------------
(* What is kept.                                                           *)

LEMMA InitKept == Init => Durables /\ Phases /\ Progress /\ Kept
<1> SUFFICES ASSUME Init PROVE Durables /\ Phases /\ Progress /\ Kept
  OBVIOUS
<1>1. disk = durable /\ disk.installed = Fresh.installed /\ disk.sequence = 0
  BY DEF Init, Fresh
<1>2. Named(disk.installed) = {} /\ Named(durable.installed) = {}
  BY <1>1, InstallNames DEF Fresh, Named
<1>3. Durables
  BY <1>1 DEF Durables
<1>4. Phases /\ Progress
  BY DEF Init, Phases, Progress, NoOp, Nowhere, Updates
<1> QED BY <1>2, <1>3, <1>4 DEF Kept, Claimed

(* A step that moves no pointer, and keeps safe whatever is not gone,      *)
(* which no pointer claims.                                                *)
LEMMA OthersStay ==
    ASSUME Kept, disk'.installed = disk.installed, durable'.installed = durable.installed,
           "root" \in unflushed => "root" \in unflushed',
           NEW gone, \A c \in Compositions : Claimed(c) => Needs(c) \cap gone = {},
           \A t \in Things \ gone : Safe(t) => Safe(t)'
    PROVE  Kept'
<1> SUFFICES ASSUME NEW c \in Compositions, Claimed(c)', NEW t \in Needs(c) PROVE Safe(t)'
  BY DEF Kept
<1>1. Claimed(c)
  BY DEF Claimed
<1> QED BY <1>1, NeedsThings DEF Kept

LEMMA SafeStays ==
    ASSUME Kept, disk'.installed = disk.installed, durable'.installed = durable.installed,
           "root" \in unflushed => "root" \in unflushed',
           \A t \in Things : Safe(t) => Safe(t)'
    PROVE  Kept'
<1>1. \A c \in Compositions : Claimed(c) => Needs(c) \cap {} = {}
  OBVIOUS
<1> QED BY <1>1, OthersStay

(* The steps that begin an operation, or end one.                          *)
LEMMA BeginKept ==
    ASSUME KeptInv,
           NEW kind \in {"add", "update", "follow", "heal"}, NEW composition, NEW sequence, NEW builds \in SUBSET Builds,
           Begin(kind, composition, sequence, builds),
           kind \in Updates => builds = BuildsOf(composition),
           kind = "follow" => /\ sequence \in 1..MaxSequence /\ sequence > disk.sequence
                              /\ composition = Channel(sequence)
    PROVE  Durables' /\ Phases' /\ Progress' /\ Kept'
<1> USE DEF Begin, KeptInv
<1>1. Durables' /\ Kept'
  BY DEF Durables, Kept, Claimed, Safe, Named
<1>2. /\ op'.kind = kind /\ op'.composition = composition /\ op'.sequence = sequence
      /\ op'.unverified = builds /\ op'.unpublished = {b \in builds : disk.held[b] = "none"}
      /\ disk' = disk /\ pc' = "install" /\ pc = "idle"
  OBVIOUS
<1>3. Phases'
  BY <1>2 DEF Phases, Updates
<1>4. ASSUME NEW b \in builds, disk.held[b] # "none" PROVE disk.held[b] = "whole"
  <2>1. disk.held[b] # "broken"
    OBVIOUS
  <2>2. disk.held[b] \in Conditions
    BY ThingsApart DEF TypeOK, DiskSet
  <2> QED BY <1>4, <2>1, <2>2 DEF Conditions
<1>5. Progress'
  BY <1>2, <1>4 DEF Progress
<1> QED BY <1>1, <1>3, <1>5

LEMMA EndsKept ==
    ASSUME KeptInv, flushing = Nowhere, pc # "closed",
           InstallEnds \/ Refused
    PROVE  Durables' /\ Phases' /\ Progress' /\ Kept'
<1> USE DEF KeptInv, InstallEnds, Refused
<1>1. Durables' /\ Kept'
  BY DEF Durables, Kept, Claimed, Safe, Named
<1>2. Phases'
  BY NoOpIsTyped DEF Phases, Updates, Updated, Ends
<1>3. Progress'
  BY NoOpIsTyped DEF Progress, Updates, Updated, Ends
<1> QED BY <1>1, <1>2, <1>3

(* A thing renamed into place: of a named pointer it is none but a blob,   *)
(* a Composition, or a Build that was lost.                                *)
LEMMA PublishKept ==
    ASSUME KeptInv, NEW t \in Things, Publish(t), flushing = Nowhere,
           t \in Builds => disk.held[t] = "none",
           UNCHANGED <<durable, unflushed, installed, lost>>
    PROVE  /\ Durables' /\ Kept'
           /\ disk'.installed = disk.installed /\ disk'.sequence = disk.sequence
           /\ \A u \in Things : disk'.held[u] = IF u = t THEN "whole" ELSE disk.held[u]
<1> USE DEF KeptInv
<1>1. /\ disk'.installed = disk.installed /\ disk'.sequence = disk.sequence
      /\ \A u \in Things : disk'.held[u] = IF u = t THEN "whole" ELSE disk.held[u]
      /\ flushing' = t
  BY DEF Publish, TypeOK, DiskSet
<1>2. Durables'
  BY <1>1, ThingsApart DEF Durables
<1>3. \A u \in Things : Safe(u) => Safe(u)'
  BY <1>1 DEF Safe
<1>4. Kept'
  BY <1>1, <1>3, SafeStays
<1> QED BY <1>1, <1>2, <1>4

LEMMA FetchBlobKept ==
    ASSUME KeptInv, NEW x \in Blobs, FetchBlob(x)
    PROVE  Durables' /\ Phases' /\ Progress' /\ Kept'
<1> USE DEF KeptInv
<1>1. /\ x \in Things /\ x \notin Builds /\ x \notin Compositions
      /\ Publish(x) /\ flushing = Nowhere /\ pc = "install"
      /\ UNCHANGED <<durable, unflushed, pc, installed, lost>>
      /\ op' = [op EXCEPT !.todo = @ \ {x}]
  BY ThingsApart DEF FetchBlob, Installing
<1>2. /\ Durables' /\ Kept'
      /\ disk'.installed = disk.installed /\ disk'.sequence = disk.sequence
      /\ \A u \in Things : disk'.held[u] = IF u = x THEN "whole" ELSE disk.held[u]
  BY <1>1, PublishKept
<1>3. /\ op \in OpSet /\ op'.kind = op.kind /\ op'.composition = op.composition /\ op'.sequence = op.sequence
      /\ op'.unverified = op.unverified /\ op'.unpublished = op.unpublished
  BY <1>1 DEF TypeOK, OpSet
<1>4. op.unpublished \subseteq Builds
  BY <1>3 DEF OpSet
<1>5. Phases'
  BY <1>1, <1>2, <1>3, <1>4, ThingsApart DEF Phases, Updates
<1>6. Progress'
  <2> SUFFICES ASSUME op.kind \in Updates, NEW b \in BuildsOf(op.composition)
               PROVE  /\ b \notin op.unpublished => disk'.held[b] = "whole"
                      /\ b \notin op.unverified => \A y \in BlobsOf(b) : disk'.held[y] = "whole" \/ y \in lost
    BY <1>1, <1>3 DEF Progress
  <2>1. b \in Builds /\ BlobsOf(b) \subseteq Blobs /\ b \in Things /\ BlobsOf(b) \subseteq Things
    BY NeedsThings, ThingsApart DEF TypeOK, Updates
  <2> QED BY <1>1, <1>2, <2>1 DEF Progress
<1> QED BY <1>2, <1>5, <1>6

LEMMA PublishBuildKept ==
    ASSUME KeptInv, NEW b \in Builds, PublishBuild(b)
    PROVE  Durables' /\ Phases' /\ Progress' /\ Kept'
<1> USE DEF KeptInv
<1>1. /\ b \in Things /\ b \notin Blobs /\ b \notin Compositions
      /\ Publish(b) /\ flushing = Nowhere /\ pc = "install"
      /\ UNCHANGED <<durable, unflushed, pc, installed, lost>>
      /\ op' = [op EXCEPT !.unpublished = @ \ {b}] /\ b \in op.unpublished
  BY ThingsApart DEF PublishBuild, Verified, Installing
<1>2. disk.held[b] = "none"
  BY <1>1 DEF Phases
<1>3. /\ Durables' /\ Kept'
      /\ disk'.installed = disk.installed /\ disk'.sequence = disk.sequence
      /\ \A u \in Things : disk'.held[u] = IF u = b THEN "whole" ELSE disk.held[u]
  BY <1>1, <1>2, PublishKept
<1>4. /\ op \in OpSet /\ op'.kind = op.kind /\ op'.composition = op.composition /\ op'.sequence = op.sequence
      /\ op'.unverified = op.unverified /\ op'.unpublished = op.unpublished \ {b}
  BY <1>1 DEF TypeOK, OpSet
<1>5. op.unpublished \subseteq Builds
  BY <1>4 DEF OpSet
<1>6. Phases'
  BY <1>1, <1>3, <1>4, <1>5, ThingsApart DEF Phases, Updates
<1>7. Progress'
  <2> SUFFICES ASSUME op.kind \in Updates, NEW d \in BuildsOf(op.composition)
               PROVE  /\ d \notin op.unpublished \ {b} => disk'.held[d] = "whole"
                      /\ d \notin op.unverified => \A y \in BlobsOf(d) : disk'.held[y] = "whole" \/ y \in lost
    BY <1>1, <1>4 DEF Progress
  <2>1. d \in Builds /\ BlobsOf(d) \subseteq Blobs /\ d \in Things /\ BlobsOf(d) \subseteq Things
    BY NeedsThings, ThingsApart DEF TypeOK, Updates
  <2> QED BY <1>1, <1>3, <2>1 DEF Progress
<1> QED BY <1>3, <1>6, <1>7

(* What does not verify, or could not be read, is lost.                    *)
LEMMA VerifyBuildKept ==
    ASSUME KeptInv, NEW b \in Builds, VerifyBuild(b)
    PROVE  Durables' /\ Phases' /\ Progress' /\ Kept'
<1> USE DEF KeptInv
<1>1. pc = "install" /\ flushing = Nowhere /\ UNCHANGED <<durable, flushing, unflushed, pc, installed>>
  BY DEF VerifyBuild, Installing
<1>2. op \in OpSet
  BY DEF TypeOK
<1>3. PICK unread \in SUBSET BlobsOf(b) :
        LET damaged == unread \cup {x \in BlobsOf(b) : disk.held[x] # "whole"}
        IN  \/ /\ damaged = {}
               /\ op' = [op EXCEPT !.unverified = @ \ {b}, !.healing = NoBuild]
               /\ UNCHANGED <<disk, lost>>
            \/ /\ disk' = [disk EXCEPT !.held = [t \in Things |-> IF t \in damaged THEN "none" ELSE @[t]]]
               /\ lost' = lost \cup damaged
               /\ op' = [op EXCEPT !.todo = damaged, !.healing = b]
  BY ZenonT(30) DEF VerifyBuild
<1> DEFINE damaged == unread \cup {x \in BlobsOf(b) : disk.held[x] # "whole"}
<1>4. damaged \subseteq Blobs
  BY InstallNames
<1>5. CASE /\ damaged = {}
           /\ op' = [op EXCEPT !.unverified = @ \ {b}, !.healing = NoBuild]
           /\ UNCHANGED <<disk, lost>>
  <2>1. /\ op'.kind = op.kind /\ op'.composition = op.composition /\ op'.sequence = op.sequence
        /\ op'.unverified = op.unverified \ {b} /\ op'.unpublished = op.unpublished
    BY <1>2, <1>5 DEF OpSet
  <2>2. \A x \in BlobsOf(b) : disk.held[x] = "whole"
    BY <1>5
  <2> HIDE DEF damaged
  <2>3. Durables' /\ Kept'
    BY <1>1, <1>5 DEF Durables, Kept, Claimed, Safe, Named
  <2>4. Phases'
    BY <1>1, <1>5, <2>1 DEF Phases
  <2>5. Progress'
    BY <1>1, <1>5, <2>1, <2>2 DEF Progress
  <2> QED BY <2>3, <2>4, <2>5
<1>6. CASE /\ disk' = [disk EXCEPT !.held = [t \in Things |-> IF t \in damaged THEN "none" ELSE @[t]]]
           /\ lost' = lost \cup damaged
           /\ op' = [op EXCEPT !.todo = damaged, !.healing = b]
  <2> HIDE DEF damaged
  <2>1. /\ op'.kind = op.kind /\ op'.composition = op.composition /\ op'.sequence = op.sequence
        /\ op'.unverified = op.unverified /\ op'.unpublished = op.unpublished
    BY <1>2, <1>6 DEF OpSet
  <2>2. /\ disk'.installed = disk.installed /\ disk'.sequence = disk.sequence
        /\ \A t \in Things : disk'.held[t] = IF t \in damaged THEN "none" ELSE disk.held[t]
    BY <1>6 DEF TypeOK, DiskSet
  <2>3. Durables'
    BY <1>1, <2>2 DEF Durables
  <2>4. \A t \in Things : Safe(t) => Safe(t)'
    BY <1>1, <1>6, <2>2 DEF Safe
  <2>5. Kept'
    BY <1>1, <2>2, <2>4, SafeStays
  <2>6. op.unpublished \subseteq Builds
    BY <1>2 DEF OpSet
  <2>7. Phases'
    BY <1>1, <1>4, <2>1, <2>2, <2>6, ThingsApart DEF Phases, Updates
  <2>8. Progress'
    <3> SUFFICES ASSUME op.kind \in Updates, NEW d \in BuildsOf(op.composition)
                 PROVE  /\ d \notin op.unpublished => disk'.held[d] = "whole"
                        /\ d \notin op.unverified => \A y \in BlobsOf(d) : disk'.held[y] = "whole" \/ y \in lost'
      BY <1>1, <2>1 DEF Progress
    <3>1. d \in Builds /\ BlobsOf(d) \subseteq Blobs /\ d \in Things /\ BlobsOf(d) \subseteq Things
      BY NeedsThings, ThingsApart DEF TypeOK, Updates
    <3>2. d \notin damaged
      BY <1>4, <3>1, ThingsApart
    <3> QED BY <1>1, <1>6, <2>2, <3>1, <3>2 DEF Progress
  <2> QED BY <2>3, <2>5, <2>7, <2>8
<1> QED BY <1>3, <1>5, <1>6

(* A Composition kept, and the pointer moved to it or back.                *)
LEMMA KeepCompositionKept ==
    ASSUME KeptInv, KeepComposition
    PROVE  Durables' /\ Phases' /\ Progress' /\ Kept'
<1> USE DEF KeptInv
<1>1. /\ op.kind \in Updates /\ op.composition \in Compositions
      /\ op.composition \in Things /\ op.composition \notin Builds /\ op.composition \notin Blobs
      /\ Publish(op.composition) /\ flushing = Nowhere /\ pc = "install" /\ pc' = "point"
      /\ UNCHANGED <<durable, unflushed, op, installed, lost>>
      /\ op.unverified = {} /\ op.unpublished = {} /\ installed.active # op.composition
  BY ThingsApart DEF KeepComposition, Verified, Installing, Updates, TypeOK
<1>2. /\ Durables' /\ Kept'
      /\ disk'.installed = disk.installed /\ disk'.sequence = disk.sequence
      /\ \A u \in Things : disk'.held[u] = IF u = op.composition THEN "whole" ELSE disk.held[u]
  BY <1>1, PublishKept
<1>3. Phases'
  BY <1>1, <1>2 DEF Phases, Updates
<1>4. Progress'
  <2> SUFFICES ASSUME NEW b \in BuildsOf(op.composition)
               PROVE  /\ disk'.held[b] = "whole"
                      /\ \A y \in BlobsOf(b) : disk'.held[y] = "whole" \/ y \in lost
    BY <1>1 DEF Progress
  <2>1. b \in Builds /\ BlobsOf(b) \subseteq Blobs /\ b \in Things /\ BlobsOf(b) \subseteq Things
    BY <1>1, NeedsThings, ThingsApart
  <2> QED BY <1>1, <1>2, <2>1 DEF Progress
<1> QED BY <1>2, <1>3, <1>4

(* Moving the pointer to Compositions that are held, or were named.        *)
LEMMA PointToKept ==
    ASSUME KeptInv, flushing = Nowhere, pc # "closed",
           NEW next \in PointerSet, PointTo(next), UNCHANGED <<durable, unflushed, lost>>,
           NEW c \in Compositions, Named(next) \subseteq {c} \cup Named(installed),
           \A t \in Needs(c) : disk.held[t] = "whole" \/ t \in lost
    PROVE  /\ Durables' /\ Kept' /\ installed' = disk'.installed
           /\ disk'.sequence = disk.sequence /\ disk'.held = disk.held
<1> USE DEF KeptInv
<1>1. /\ disk'.held = disk.held /\ disk'.installed = next /\ disk'.sequence = disk.sequence
      /\ flushing' = "root" /\ installed' = next
  BY DEF PointTo, TypeOK, DiskSet
<1>2. Durables'
  BY <1>1, ThingsApart DEF Durables
<1>3. installed = disk.installed
  BY DEF Phases
<1>4. \A t \in Needs(c) : Safe(t)
  BY NeedsThings, ThingsApart DEF Durables, Safe
<1>5. \A t \in Things : Safe(t) => Safe(t)'
  BY <1>1, ThingsApart DEF Safe
<1>6. Kept'
  <2> SUFFICES ASSUME NEW d \in Compositions, Claimed(d)', NEW t \in Needs(d) PROVE Safe(t)
    BY <1>5, NeedsThings DEF Kept
  <2>1. d = c \/ Claimed(d)
    BY <1>1, <1>3 DEF Claimed
  <2> QED BY <1>4, <2>1 DEF Kept
<1> QED BY <1>1, <1>2, <1>6

LEMMA PointKept ==
    ASSUME KeptInv, Point
    PROVE  Durables' /\ Phases' /\ Progress' /\ Kept'
<1> DEFINE c == op.composition
           next == NextInstalled(c)
<1>1. /\ pc = "point" /\ flushing = Nowhere /\ PointTo(next) /\ Updated /\ UNCHANGED <<durable, unflushed, lost>>
  BY DEF Point
<1>2. c \in Compositions /\ installed \in PointerSet
  BY <1>1 DEF KeptInv, TypeOK
<1>3. next \in PointerSet /\ Named(next) \subseteq {c} \cup Named(installed) /\ next.active = c
  BY <1>2, NextPointer DEF NextInstalled
<1>4. \A t \in Needs(c) : disk.held[t] = "whole" \/ t \in lost
  BY <1>1 DEF KeptInv, Phases, Progress, Needs, Updates
<1> HIDE DEF c, next
<1>5. /\ Durables' /\ Kept' /\ installed' = disk'.installed
      /\ disk'.sequence = disk.sequence /\ disk'.held = disk.held /\ installed' = next
  BY <1>1, <1>2, <1>3, <1>4, PointToKept DEF PointTo
<1>6. Phases' /\ Progress'
  BY <1>1, <1>3, <1>5, NoOpIsTyped DEF c, KeptInv, Phases, Progress, Updated, Ends, Updates, PointTo
<1> QED BY <1>5, <1>6

LEMMA RollbackKept ==
    ASSUME KeptInv, Rollback
    PROVE  Durables' /\ Phases' /\ Progress' /\ Kept'
<1> DEFINE c == Head(installed.retained)
           next == [active |-> c,
                    retained |-> IF installed.active = NoComposition THEN Tail(installed.retained)
                                 ELSE <<installed.active>> \o Tail(installed.retained)]
<1>1. /\ pc = "idle" /\ flushing = Nowhere /\ PointTo(next) /\ UNCHANGED <<durable, unflushed, pc, op, lost>>
      /\ disk.held[c] = "whole" /\ \A b \in BuildsOf(c) : WholeBuild(b)
      /\ installed.retained # <<>>
  BY DEF Rollback
<1>2. /\ installed.retained \in Seq(Compositions) /\ installed.active \in Compositions \cup {NoComposition}
      /\ Tail(installed.retained) \in Seq(Compositions) /\ c \in Compositions
  BY <1>1 DEF KeptInv, TypeOK, PointerSet
<1>3. next \in PointerSet
  BY <1>2 DEF PointerSet
<1>4. Named(next) \subseteq {c} \cup Named(installed)
  <2> SUFFICES ASSUME NEW d \in Compositions, NEW i \in DOMAIN next.retained, d = next.retained[i]
               PROVE  d \in Named(installed)
    BY DEF Named
  <2> DEFINE tail == Tail(installed.retained)
  <2>1. \A j \in DOMAIN tail : j + 1 \in DOMAIN installed.retained /\ tail[j] = installed.retained[j + 1]
    BY <1>1, <1>2
  <2>2. CASE installed.active = NoComposition
    BY <2>1, <2>2 DEF Named
  <2>3. CASE installed.active # NoComposition
    <3>1. i \in 1..(Len(tail) + 1) /\ Len(tail) \in Nat /\ DOMAIN tail = 1..Len(tail)
      BY <1>2, <2>3
    <3>2. CASE i = 1
      BY <1>2, <2>3, <3>2 DEF Named
    <3>3. CASE i # 1
      <4>1. i - 1 \in DOMAIN tail /\ next.retained[i] = tail[i - 1]
        BY <1>2, <2>3, <3>1, <3>3
      <4> QED BY <2>1, <4>1 DEF Named
    <3> QED BY <3>2, <3>3
  <2> QED BY <2>2, <2>3
<1>5. \A t \in Needs(c) : disk.held[t] = "whole" \/ t \in lost
  BY <1>1 DEF Needs, WholeBuild
<1> HIDE DEF c, next
<1>6. /\ Durables' /\ Kept' /\ installed' = disk'.installed
      /\ disk'.sequence = disk.sequence /\ disk'.held = disk.held
  BY <1>1, <1>2, <1>3, <1>4, <1>5, PointToKept
<1>7. Phases' /\ Progress'
  BY <1>1, <1>6 DEF KeptInv, Phases, Progress, Updates, PointTo
<1> QED BY <1>6, <1>7

LEMMA KeepSequenceKept ==
    ASSUME KeptInv, KeepSequence
    PROVE  Durables' /\ Phases' /\ Progress' /\ Kept'
<1> USE DEF KeptInv
<1>1. /\ disk'.held = disk.held /\ disk'.installed = disk.installed /\ disk'.sequence = op.sequence
      /\ pc = "sequence" /\ pc' = "idle" /\ op' = NoOp /\ flushing = Nowhere /\ flushing' = "channel"
      /\ UNCHANGED <<durable, unflushed, installed, lost>>
  BY DEF KeepSequence, TypeOK, DiskSet, Ends
<1>2. durable.sequence \in Nat /\ disk.sequence \in Nat /\ op.sequence \in Nat /\ op.sequence > disk.sequence
  BY <1>1 DEF TypeOK, DiskSet, OpSet, Phases
<1>3. Durables'
  BY <1>1, <1>2, ThingsApart DEF Durables
<1>4. Phases' /\ Progress'
  BY <1>1, NoOpIsTyped DEF Phases, Progress, Updates
<1>5. \A t \in Things : Safe(t) => Safe(t)'
  BY <1>1, ThingsApart DEF Safe
<1>6. Kept'
  BY <1>1, <1>5, SafeStays
<1> QED BY <1>3, <1>4, <1>6

(* What the pointer's Compositions need, collect() passes over.            *)
LEMMA NeededStays ==
    ASSUME KeptInv, pc = "collect", NEW c \in Compositions, Claimed(c)
    PROVE  Needs(c) \subseteq Named(installed) \cup NeededBuilds \cup NeededBlobs
<1>1. installed = disk.installed /\ flushing = Nowhere
  BY DEF KeptInv, Phases
<1>2. c \in Named(installed)
  BY <1>1, ThingsApart DEF KeptInv, Durables, Claimed
<1>3. BuildsOf(c) \subseteq NeededBuilds /\ \A b \in BuildsOf(c) : BlobsOf(b) \subseteq NeededBlobs
  BY <1>2 DEF NeededBuilds, NeededBlobs
<1> QED BY <1>2, <1>3 DEF Needs

(* Collecting, which removes what no pointer needs.                        *)
LEMMA RemoveKept ==
    ASSUME KeptInv, pc = "collect", NEW t \in Things, NEW condition \in {"none", "broken"},
           t \notin Named(installed) \cup NeededBuilds \cup NeededBlobs,
           disk' = [disk EXCEPT !.held[t] = condition], unflushed' = unflushed \ {t},
           UNCHANGED <<durable, flushing, pc, op, installed, lost>>
    PROVE  Durables' /\ Phases' /\ Progress' /\ Kept'
<1> USE DEF KeptInv
<1>1. /\ disk'.installed = disk.installed /\ disk'.sequence = disk.sequence
      /\ \A u \in Things : disk'.held[u] = IF u = t THEN condition ELSE disk.held[u]
      /\ condition # "whole"
  BY DEF TypeOK, DiskSet
<1>2. t # "root"
  BY ThingsApart
<1>3. Durables'
  BY <1>1, <1>2 DEF Durables
<1>4. Phases' /\ Progress'
  BY <1>1 DEF Phases, Progress
<1>5. \A c \in Compositions : Claimed(c) => Needs(c) \cap {t} = {}
  BY NeededStays
<1>6. \A u \in Things \ {t} : Safe(u) => Safe(u)'
  BY <1>1 DEF Safe
<1>7. Kept'
  BY <1>1, <1>2, <1>5, <1>6, OthersStay
<1> QED BY <1>3, <1>4, <1>7

LEMMA NeededKinds ==
    NeededBuilds \subseteq Builds /\ NeededBlobs \subseteq Blobs /\ Named(installed) \subseteq Compositions
  BY InstallNames DEF NeededBuilds, NeededBlobs, Named

LEMMA CollectKept ==
    ASSUME KeptInv,
           \/ \E b \in Builds : RemoveBuild(b)
           \/ \E c \in Compositions : RemoveComposition(c)
           \/ \E x \in Blobs : RemoveBlob(x)
    PROVE  Durables' /\ Phases' /\ Progress' /\ Kept'
<1>1. ASSUME NEW b \in Builds, RemoveBuild(b) PROVE Durables' /\ Phases' /\ Progress' /\ Kept'
  <2> DEFINE condition == IF disk.held[b] = "whole" THEN "broken" ELSE "none"
  <2>1. /\ pc = "collect" /\ disk' = [disk EXCEPT !.held[b] = condition] /\ unflushed' = unflushed \ {b}
        /\ UNCHANGED <<durable, flushing, pc, op, installed, lost>> /\ b \notin NeededBuilds
    BY <1>1 DEF RemoveBuild, UnneededBuilds
  <2>2. condition \in {"none", "broken"} /\ b \in Things /\ b \notin Named(installed) \cup NeededBlobs
    BY ThingsApart, NeededKinds
  <2> HIDE DEF condition
  <2> QED BY <2>1, <2>2, RemoveKept
<1>2. ASSUME NEW c \in Compositions, RemoveComposition(c) PROVE Durables' /\ Phases' /\ Progress' /\ Kept'
  <2>1. /\ pc = "collect" /\ disk' = [disk EXCEPT !.held[c] = "none"] /\ unflushed' = unflushed \ {c}
        /\ UNCHANGED <<durable, flushing, pc, op, installed, lost>> /\ c \notin Named(installed)
    BY <1>2 DEF RemoveComposition, UnneededCompositions
  <2>2. c \in Things /\ c \notin NeededBuilds \cup NeededBlobs
    BY ThingsApart, NeededKinds
  <2> QED BY <2>1, <2>2, RemoveKept
<1>3. ASSUME NEW x \in Blobs, RemoveBlob(x) PROVE Durables' /\ Phases' /\ Progress' /\ Kept'
  <2>1. /\ pc = "collect" /\ disk' = [disk EXCEPT !.held[x] = "none"] /\ unflushed' = unflushed \ {x}
        /\ UNCHANGED <<durable, flushing, pc, op, installed, lost>> /\ x \notin NeededBlobs
    BY <1>3 DEF RemoveBlob, UnneededBlobs
  <2>2. x \in Things /\ x \notin Named(installed) \cup NeededBuilds
    BY ThingsApart, NeededKinds
  <2> QED BY <2>1, <2>2, RemoveKept
<1> QED BY <1>1, <1>2, <1>3

(* A flush that succeeded makes what it is of durable; one that failed     *)
(* leaves it unflushed, as a stop does.                                    *)
LEMMA FlushKept ==
    ASSUME KeptInv, Flush
    PROVE  Durables' /\ Phases' /\ Progress' /\ Kept'
<1> USE DEF KeptInv
<1>0. /\ flushing \in Things \cup {"root", "channel"}
      /\ flushing' = Nowhere /\ UNCHANGED <<disk, pc, op, installed>>
      /\ durable.sequence \in Nat /\ disk.sequence \in Nat
  BY DEF Flush, TypeOK, DiskSet
<1>1. Phases'
  BY <1>0 DEF Phases
<1>2. CASE unflushed' = LeftUnflushed /\ UNCHANGED <<durable, lost>>
  <2>1. unflushed' = IF flushing = "channel" THEN unflushed ELSE unflushed \cup {flushing}
    BY <1>0, <1>2, ThingsApart DEF LeftUnflushed
  <2>2. Durables'
    BY <1>0, <1>2, <2>1, ThingsApart DEF Durables
  <2>3. Progress'
    BY <1>0, <1>2 DEF Progress
  <2>4. \A t \in Things : Safe(t) => Safe(t)'
    BY <1>0, <1>2, <2>1, ThingsApart DEF Safe
  <2>5. Kept'
    BY <1>0, <1>2, <2>1, <2>4, SafeStays
  <2> QED BY <1>1, <2>2, <2>3, <2>5
<1>3. CASE /\ durable' =
                CASE flushing = "root" -> [durable EXCEPT !.installed = disk.installed]
                  [] flushing = "channel" -> [durable EXCEPT !.sequence = disk.sequence]
                  [] OTHER -> [durable EXCEPT !.held[flushing] = disk.held[flushing]]
           /\ unflushed' = unflushed \ {flushing}
           /\ lost' = {t \in lost : t = flushing => disk.held[t] # "whole"}
  <2>1. /\ \A t \in Things : durable'.held[t] = IF t = flushing THEN disk.held[t] ELSE durable.held[t]
        /\ durable'.installed = IF flushing = "root" THEN disk.installed ELSE durable.installed
        /\ durable'.sequence = IF flushing = "channel" THEN disk.sequence ELSE durable.sequence
    <3>1. durable \in DiskSet
      BY DEF TypeOK
    <3>2. CASE flushing = "root"
      BY <1>3, <3>1, <3>2, ThingsApart DEF DiskSet
    <3>3. CASE flushing = "channel"
      BY <1>3, <3>1, <3>3, ThingsApart DEF DiskSet
    <3>4. CASE flushing \in Things
      BY <1>3, <3>1, <3>4, ThingsApart DEF DiskSet
    <3> QED BY <1>0, <3>2, <3>3, <3>4
  <2>2. Durables'
    BY <1>0, <1>3, <2>1 DEF Durables
  <2>3. \A t \in lost : t \in lost' \/ (t = flushing /\ disk.held[t] = "whole")
    BY <1>3
  <2>4. Progress'
    BY <1>0, <2>3 DEF Progress
  <2>5. ASSUME NEW t \in Things, Safe(t) PROVE Safe(t)'
    <3>1. CASE t = flushing
      BY <1>0, <1>3, <2>1, <2>5, <3>1, ThingsApart DEF Safe
    <3>2. CASE t # flushing
      BY <1>0, <1>3, <2>1, <2>3, <2>5, <3>2, ThingsApart DEF Safe
    <3> QED BY <3>1, <3>2
  <2>6. Kept'
    <3> SUFFICES ASSUME NEW c \in Compositions, Claimed(c)', NEW t \in Needs(c) PROVE Safe(t)
      BY <2>5, NeedsThings DEF Kept
    <3>1. Claimed(c)
      BY <1>0, <1>3, <2>1 DEF Claimed
    <3> QED BY <3>1 DEF Kept
  <2> QED BY <1>1, <2>2, <2>4, <2>6
<1> QED BY <1>2, <1>3 DEF Flush

LEMMA RotKept ==
    ASSUME KeptInv, NEW x \in Blobs, Rot(x)
    PROVE  Durables' /\ Phases' /\ Progress' /\ Kept'
<1> USE DEF KeptInv
<1>1. /\ \A t \in Things : /\ disk'.held[t] = IF t = x THEN "broken" ELSE disk.held[t]
                           /\ t # x => durable'.held[t] = durable.held[t]
      /\ disk'.installed = disk.installed /\ disk'.sequence = disk.sequence
      /\ durable'.installed = durable.installed /\ durable'.sequence = durable.sequence
      /\ lost' = lost \cup {x} /\ UNCHANGED <<flushing, unflushed, pc, op, installed>>
  BY ThingsApart DEF Rot, TypeOK, DiskSet
<1>2. Durables'
  BY <1>1 DEF Durables
<1>3. op \in OpSet /\ op.unpublished \subseteq Builds
  BY DEF TypeOK, OpSet
<1>4. Phases'
  BY <1>1, <1>3, ThingsApart DEF Phases, TypeOK
<1>5. Progress'
  <2> SUFFICES ASSUME pc \in {"install", "point"}, op.kind \in Updates, NEW d \in BuildsOf(op.composition)
               PROVE  /\ d \notin op.unpublished => disk'.held[d] = "whole"
                      /\ d \notin op.unverified => \A y \in BlobsOf(d) : disk'.held[y] = "whole" \/ y \in lost'
    BY <1>1 DEF Progress
  <2>1. d \in Builds /\ BlobsOf(d) \subseteq Blobs /\ d \in Things /\ BlobsOf(d) \subseteq Things /\ d # x
    BY NeedsThings, ThingsApart DEF TypeOK, Updates
  <2> QED BY <1>1, <2>1 DEF Progress
<1>6. \A t \in Things : Safe(t) => Safe(t)'
  BY <1>1 DEF Safe
<1>7. Kept'
  BY <1>1, <1>6, SafeStays
<1> QED BY <1>2, <1>4, <1>5, <1>7

LEMMA CrashKept ==
    ASSUME KeptInv, Crash
    PROVE  Durables' /\ Phases' /\ Progress' /\ Kept'
<1> USE DEF KeptInv
<1>1. /\ flushing' = Nowhere /\ pc' = "closed" /\ op' = NoOp /\ UNCHANGED <<disk, durable, lost>>
      /\ unflushed' = LeftUnflushed /\ flushing \in Things \cup {"root", "channel", Nowhere}
  BY DEF Crash, Stops, TypeOK
<1>2. unflushed' = IF flushing \in {"channel", Nowhere} THEN unflushed ELSE unflushed \cup {flushing}
  BY <1>1, ThingsApart DEF LeftUnflushed
<1>3. Durables'
  BY <1>1, <1>2, ThingsApart DEF Durables
<1>4. Phases' /\ Progress'
  BY <1>1, NoOpIsTyped DEF Phases, Progress, Updates
<1>5. \A t \in Things : Safe(t) => Safe(t)'
  BY <1>1, <1>2, ThingsApart DEF Safe
<1>6. Kept'
  BY <1>1, <1>2, <1>5, SafeStays
<1> QED BY <1>3, <1>4, <1>6

(* Of what is safe and not left unflushed the power takes nothing, and of  *)
(* the rest what it took is lost.                                          *)
LEMMA PowerFailureKept ==
    ASSUME KeptInv, PowerFailure
    PROVE  Durables' /\ Phases' /\ Progress' /\ Kept'
<1> USE DEF KeptInv
<1>1. /\ flushing' = Nowhere /\ pc' = "closed" /\ op' = NoOp /\ durable' = disk' /\ unflushed' = {}
      /\ lost' = lost \cup {t \in Things : disk'.held[t] # "whole" /\ {t, "root"} \cap unflushed # {}}
  BY DEF PowerFailure, Stops
<1>2. /\ disk' \in DiskSet /\ disk'.installed \in {disk.installed, durable.installed}
      /\ \A t \in Things :
           disk.held[t] = durable.held[t] /\ (t \in Builds => t \notin unflushed \cup {flushing})
             => disk'.held[t] = disk.held[t]
  BY PowerLeaves
<1>3. Durables'
  <2>1. disk'.sequence \in Nat
    BY <1>2 DEF DiskSet
  <2> QED BY <1>1, <2>1 DEF Durables
<1>4. Phases' /\ Progress'
  BY <1>1, NoOpIsTyped DEF Phases, Progress, Updates
<1>5. ASSUME NEW c \in Compositions, Claimed(c)', NEW t \in Needs(c)
      PROVE  disk'.held[t] = "whole" \/ t \in lost'
  <2>1. t \in Things
    BY NeedsThings
  <2>2. CASE {t, "root"} \cap unflushed # {}
    BY <1>1, <2>1, <2>2
  <2>3. CASE t \notin unflushed /\ "root" \notin unflushed
    <3>1. Claimed(c)
      BY <1>1, <1>2, <1>5, <2>3 DEF Claimed
    <3>2. Safe(t)
      BY <3>1 DEF Kept
    <3>3. CASE t \in lost
      BY <1>1, <3>3
    <3>4. CASE t \notin lost
      <4>1. disk.held[t] = "whole" /\ durable.held[t] = "whole" /\ (t \in Builds => t \notin unflushed \cup {flushing})
        BY <2>3, <3>2, <3>4 DEF Safe
      <4> QED BY <1>2, <2>1, <4>1
    <3> QED BY <3>3, <3>4
  <2> QED BY <2>2, <2>3
<1>6. Kept'
  <2> SUFFICES ASSUME NEW c \in Compositions, Claimed(c)', NEW t \in Needs(c) PROVE Safe(t)'
    BY DEF Kept
  <2>1. t \in Things
    BY NeedsThings
  <2> QED BY <1>1, <1>5, <2>1, ThingsApart DEF Safe
<1> QED BY <1>3, <1>4, <1>6

(* KeptInv is inductive.                                                   *)
LEMMA StepKept == KeptInv /\ [Next]_vars => KeptInv'
<1> SUFFICES ASSUME KeptInv, [Next]_vars PROVE Durables' /\ Phases' /\ Progress' /\ Kept'
  BY StepTypes DEF KeptInv
<1>1. CASE Open \/ Collect \/ CollectEnds \/ UNCHANGED vars
  <2>1. UNCHANGED <<disk, durable, flushing, unflushed, op, lost>> /\ installed' \in {installed, disk.installed}
        /\ (pc = "closed" \/ installed' = installed)
    BY <1>1 DEF Open, Collect, CollectEnds, vars
  <2>2. Durables' /\ Kept'
    BY <2>1 DEF KeptInv, Durables, Kept, Claimed, Safe, Named
  <2>3. Phases' /\ Progress'
    BY <1>1, <2>1 DEF KeptInv, Phases, Progress, Open, Collect, CollectEnds, vars
  <2> QED BY <2>2, <2>3
<1>2. CASE Flush
  BY <1>2, FlushKept
<1>3. ASSUME NEW b \in Builds, Add(b) PROVE Durables' /\ Phases' /\ Progress' /\ Kept'
  BY <1>3, BeginKept DEF Add, Updates
<1>4. ASSUME NEW c \in Compositions, Update(c) PROVE Durables' /\ Phases' /\ Progress' /\ Kept'
  BY <1>4, BeginKept, InstallNames DEF Update
<1>5. ASSUME NEW n \in 1..MaxSequence, Follow(n) PROVE Durables' /\ Phases' /\ Progress' /\ Kept'
  BY <1>5, BeginKept, InstallNames, InstallNaturals DEF Follow
<1>6. CASE Heal
  <2>1. BuildsOf(installed.active) \subseteq Builds
    BY <1>6, InstallNames DEF Heal
  <2> QED BY <1>6, <2>1, BeginKept DEF Heal, Updates
<1>7. ASSUME NEW x \in Blobs, FetchBlob(x) PROVE Durables' /\ Phases' /\ Progress' /\ Kept'
  BY <1>7, FetchBlobKept
<1>8. ASSUME NEW b \in Builds, VerifyBuild(b) PROVE Durables' /\ Phases' /\ Progress' /\ Kept'
  BY <1>8, VerifyBuildKept
<1>9. ASSUME NEW b \in Builds, PublishBuild(b) PROVE Durables' /\ Phases' /\ Progress' /\ Kept'
  BY <1>9, PublishBuildKept
<1>10. CASE InstallEnds \/ Refused
  <2>1. flushing = Nowhere /\ pc # "closed"
    BY <1>10 DEF InstallEnds, Refused, Verified, Installing
  <2> QED BY <1>10, <2>1, EndsKept
<1>11. CASE KeepComposition
  BY <1>11, KeepCompositionKept
<1>12. CASE Point
  BY <1>12, PointKept
<1>13. CASE KeepSequence
  BY <1>13, KeepSequenceKept
<1>14. CASE Rollback
  BY <1>14, RollbackKept
<1>15. CASE \/ \E b \in Builds : RemoveBuild(b)
            \/ \E c \in Compositions : RemoveComposition(c)
            \/ \E x \in Blobs : RemoveBlob(x)
  BY <1>15, CollectKept
<1>16. ASSUME NEW x \in Blobs, Rot(x) PROVE Durables' /\ Phases' /\ Progress' /\ Kept'
  BY <1>16, RotKept
<1>17. CASE Crash
  BY <1>17, CrashKept
<1>18. CASE PowerFailure
  BY <1>18, PowerFailureKept
<1> QED
  BY <1>1, <1>2, <1>3, <1>4, <1>5, <1>6, <1>7, <1>8, <1>9, <1>10, <1>11, <1>12, <1>13, <1>14, <1>15, <1>16,
     <1>17, <1>18 DEF Next

LEMMA KeptInvHolds == Spec => []KeptInv
<1>1. Init => KeptInv
  BY InitTypes, InitKept DEF KeptInv
<1> QED BY <1>1, StepKept, PTL DEF Spec

(* KeptWhole holds throughout: whatever stops an update, a rollback, a     *)
(* heal or a collect, all that the installed pointer's Compositions need   *)
(* is held, but for blobs that rotted or could not be read and what the    *)
(* power took of renames left unflushed.                                   *)
THEOREM KeptWholeHolds == Spec => []KeptWhole
<1>1. KeptInv => KeptWhole
  BY DEF KeptInv, Kept, Claimed, Safe, KeptWhole, Named
<1> QED BY <1>1, KeptInvHolds, PTL

(* A verification changes what is held alone.                              *)
LEMMA VerifyChanges ==
    ASSUME disk \in DiskSet, NEW b \in Builds, VerifyBuild(b)
    PROVE  disk'.installed = disk.installed /\ disk'.sequence = disk.sequence /\ durable' = durable
<1>1. disk' = disk \/ \E held : disk' = [disk EXCEPT !.held = held]
  BY ZenonT(30) DEF VerifyBuild
<1>2. durable' = durable
  BY DEF VerifyBuild
<1> QED BY <1>1, <1>2 DEF DiskSet

(* SequenceFollows holds of every step: a channel's sequence is kept only  *)
(* once the Composition it names is active, and is what the power leaves   *)
(* installed unless the pointer was left unflushed.                        *)
THEOREM SequenceFollowsHolds == Spec => SequenceFollows
<1>1. ASSUME KeptInv, [Next]_vars
      PROVE  [disk'.sequence > disk.sequence =>
                /\ disk.installed.active = Channel(disk'.sequence)
                /\ durable.installed.active = Channel(disk'.sequence) \/ "root" \in unflushed]_vars
  <2> USE DEF KeptInv
  <2>1. durable.sequence <= disk.sequence /\ durable.sequence \in Nat /\ disk.sequence \in Nat
    BY <1>1 DEF Durables, TypeOK, DiskSet
  <2>2. CASE KeepSequence
    <3>1. /\ disk'.sequence = op.sequence /\ flushing = Nowhere
          /\ op.kind = "follow" /\ installed.active = op.composition /\ installed = disk.installed
      BY <1>1, <2>2 DEF KeepSequence, TypeOK, DiskSet, Phases
    <3>2. disk.installed.active = Channel(op.sequence)
      BY <1>1, <3>1 DEF Phases
    <3>3. disk.installed = durable.installed \/ "root" \in unflushed
      BY <1>1, <3>1, ThingsApart DEF Durables
    <3> QED BY <3>1, <3>2, <3>3
  <2>3. CASE ~KeepSequence
    <3>1. disk'.sequence \in {disk.sequence, durable.sequence}
      <4>0. disk \in DiskSet
        BY <1>1 DEF TypeOK
      <4>1. CASE \/ Open \/ Flush \/ Collect \/ CollectEnds \/ InstallEnds \/ Refused \/ Heal \/ Crash
                 \/ UNCHANGED vars
                 \/ \E b \in Builds : Add(b)
                 \/ \E c \in Compositions : Update(c)
                 \/ \E n \in 1..MaxSequence : Follow(n)
        <5>1. disk' = disk
          BY <4>1 DEF Open, Flush, Collect, CollectEnds, InstallEnds, Refused, Heal, Crash,
                      Begin, Add, Update, Follow, vars
        <5> QED BY <5>1
      <4>2. CASE KeepComposition \/ Point \/ Rollback
        BY <4>0, <4>2 DEF KeepComposition, Publish, Point, PointTo, Rollback, DiskSet
      <4>3. CASE \E x \in Blobs : FetchBlob(x) \/ RemoveBlob(x) \/ Rot(x)
        BY <4>0, <4>3 DEF FetchBlob, Publish, RemoveBlob, Rot, DiskSet
      <4>4. CASE \/ \E b \in Builds : PublishBuild(b) \/ RemoveBuild(b)
                 \/ \E c \in Compositions : RemoveComposition(c)
        BY <4>0, <4>4 DEF PublishBuild, Publish, RemoveBuild, RemoveComposition, DiskSet
      <4>5. CASE \E b \in Builds : VerifyBuild(b)
        BY <4>0, <4>5, VerifyChanges
      <4>6. CASE PowerFailure
        BY <1>1, <4>6, PowerLeaves
      <4> QED BY <1>1, <2>3, <4>1, <4>2, <4>3, <4>4, <4>5, <4>6 DEF Next
    <3> QED BY <2>1, <3>1
  <2> QED BY <2>2, <2>3
<1> QED BY <1>1, KeptInvHolds, PTL DEF Spec, SequenceFollows

-----------------------------------------------------------------------------
(* What is retained.                                                       *)

(* Whichever pointer a failure leaves is apart.                            *)
BothApart == Apart(disk.installed) /\ Apart(durable.installed)

LEMMA InitApart == Init => BothApart
  BY InstallNaturals DEF Init, BothApart, Apart, Fresh

(* A rollback changes the active Composition with the first retained.      *)
LEMMA RollbackApart ==
    ASSUME installed \in PointerSet, installed.retained # <<>>, Apart(installed)
    PROVE  Apart([active |-> Head(installed.retained),
                  retained |-> IF installed.active = NoComposition THEN Tail(installed.retained)
                               ELSE <<installed.active>> \o Tail(installed.retained)])
<1> DEFINE list == installed.retained
           tail == Tail(list)
           next == IF installed.active = NoComposition THEN tail ELSE <<installed.active>> \o tail
<1>1. /\ list \in Seq(Compositions) /\ list # <<>> /\ Len(list) <= Retained /\ Retained \in Nat
      /\ \A i \in DOMAIN list : list[i] # installed.active
      /\ \A i, j \in DOMAIN list : list[i] = list[j] => i = j
  BY InstallNaturals DEF PointerSet, Apart
<1>2. /\ tail \in Seq(Compositions) /\ Len(tail) = Len(list) - 1 /\ DOMAIN tail = 1..Len(tail)
      /\ \A i \in DOMAIN tail : i + 1 \in DOMAIN list /\ tail[i] = list[i + 1]
      /\ Head(list) = list[1] /\ 1 \in DOMAIN list /\ Len(tail) \in Nat
  BY <1>1
<1> HIDE DEF tail
<1>3. CASE installed.active = NoComposition
  <2>1. Len(tail) <= Retained /\ \A i \in DOMAIN tail : tail[i] # list[1]
    BY <1>1, <1>2
  <2>2. \A i, j \in DOMAIN tail : tail[i] = tail[j] => i = j
    BY <1>1, <1>2
  <2> QED BY <1>2, <1>3, <2>1, <2>2 DEF Apart
<1>4. CASE installed.active # NoComposition
  <2>1. /\ DOMAIN next = 1..(Len(tail) + 1) /\ Len(next) = Len(tail) + 1 /\ next[1] = installed.active
    BY <1>2, <1>4
  <2>2. \A i \in DOMAIN next : i # 1 => i - 1 \in DOMAIN tail /\ next[i] = tail[i - 1]
    BY <1>2, <1>4, <2>1
  <2> HIDE DEF next
  <2>3. \A i \in DOMAIN next : i # 1 => i \in DOMAIN list /\ next[i] = list[i]
    <3> TAKE i \in DOMAIN next
    <3> HAVE i # 1
    <3>1. i - 1 \in DOMAIN tail /\ next[i] = tail[i - 1] /\ (i - 1) + 1 = i
      BY <2>1, <2>2, <1>2
    <3> QED BY <1>2, <3>1
  <2>4. \A i \in DOMAIN next : next[i] # list[1]
    BY <1>1, <1>2, <2>1, <2>3
  <2>5. \A i, j \in DOMAIN next : next[i] = next[j] => i = j
    BY <1>1, <2>1, <2>3
  <2>6. Len(next) <= Retained
    BY <1>1, <1>2, <2>1
  <2> QED BY <1>2, <2>4, <2>5, <2>6 DEF Apart, next, tail
<1> QED BY <1>3, <1>4

LEMMA StepApart == KeptInv /\ BothApart /\ [Next]_vars => BothApart'
<1> SUFFICES ASSUME KeptInv, BothApart, [Next]_vars PROVE BothApart'
  OBVIOUS
<1> USE DEF KeptInv
<1>1. CASE Point
  <2>1. /\ pc = "point" /\ flushing = Nowhere /\ PointTo(NextInstalled(op.composition)) /\ durable' = durable
        /\ op.composition \in Compositions /\ installed \in PointerSet
        /\ installed = disk.installed /\ installed.active # op.composition
    BY <1>1 DEF Point, Phases, TypeOK
  <2>2. Apart(NextInstalled(op.composition))
    BY <2>1, NextPointer DEF BothApart
  <2>3. disk'.installed = NextInstalled(op.composition)
    BY <2>1 DEF PointTo, TypeOK, DiskSet
  <2> QED BY <2>1, <2>2, <2>3 DEF BothApart
<1>2. CASE Rollback
  <2> DEFINE next == [active |-> Head(installed.retained),
                      retained |-> IF installed.active = NoComposition THEN Tail(installed.retained)
                                   ELSE <<installed.active>> \o Tail(installed.retained)]
  <2>1. /\ PointTo(next) /\ durable' = durable /\ installed.retained # <<>>
        /\ installed \in PointerSet /\ installed = disk.installed
    BY <1>2 DEF Rollback, Phases, TypeOK
  <2>2. Apart(next)
    BY <2>1, RollbackApart DEF BothApart
  <2> HIDE DEF next
  <2>3. disk'.installed = next
    BY <2>1 DEF PointTo, TypeOK, DiskSet
  <2> QED BY <2>1, <2>2, <2>3 DEF BothApart
<1>3. CASE ~Point /\ ~Rollback
  <2>0. disk \in DiskSet /\ durable \in DiskSet
    BY DEF TypeOK
  <2>1. disk'.installed \in {disk.installed, durable.installed}
        /\ durable'.installed \in {disk.installed, durable.installed}
    <3>1. CASE \/ Open \/ Collect \/ CollectEnds \/ InstallEnds \/ Refused \/ Heal \/ Crash \/ UNCHANGED vars
               \/ \E b \in Builds : Add(b)
               \/ \E c \in Compositions : Update(c)
               \/ \E n \in 1..MaxSequence : Follow(n)
      <4>1. disk' = disk /\ durable' = durable
        BY <3>1 DEF Open, Collect, CollectEnds, InstallEnds, Refused, Heal, Crash, Begin, Add, Update, Follow, vars
      <4> QED BY <4>1
    <3>2. CASE KeepComposition \/ KeepSequence
      BY <2>0, <3>2 DEF KeepComposition, Publish, KeepSequence, DiskSet
    <3>3. CASE \E x \in Blobs : FetchBlob(x) \/ RemoveBlob(x)
      BY <2>0, <3>3 DEF FetchBlob, Publish, RemoveBlob, DiskSet
    <3>4. CASE \E x \in Blobs : Rot(x)
      BY <2>0, <3>4 DEF Rot, DiskSet
    <3>5. CASE \/ \E b \in Builds : PublishBuild(b) \/ RemoveBuild(b)
               \/ \E c \in Compositions : RemoveComposition(c)
      BY <2>0, <3>5 DEF PublishBuild, Publish, RemoveBuild, RemoveComposition, DiskSet
    <3>6. CASE \E b \in Builds : VerifyBuild(b)
      BY <2>0, <3>6, VerifyChanges
    <3>7. CASE Flush
      BY <2>0, <3>7 DEF Flush, DiskSet
    <3>8. CASE PowerFailure
      BY <3>8, PowerLeaves DEF PowerFailure
    <3> QED BY <1>3, <3>1, <3>2, <3>3, <3>4, <3>5, <3>6, <3>7, <3>8 DEF Next
  <2> QED BY <2>1 DEF BothApart
<1> QED BY <1>1, <1>2, <1>3

(* RetainedApart holds throughout: what is retained is apart from what is  *)
(* active, each once and within the limit.                                 *)
THEOREM RetainedApartHolds == Spec => []RetainedApart
<1>1. BothApart => RetainedApart
  BY DEF BothApart, RetainedApart
<1> QED BY <1>1, InitApart, StepApart, KeptInvHolds, PTL DEF Spec
=============================================================================
