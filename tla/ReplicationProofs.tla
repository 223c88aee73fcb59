------------------------- MODULE ReplicationProofs -------------------------
(***************************************************************************)
(* What TLAPS proves of Replication, for every value of its constants.     *)
(***************************************************************************)
EXTENDS Replication, FiniteSetTheorems, WellFoundedInduction, TLAPS

-----------------------------------------------------------------------------
(* The inductive invariant.  An ID given is never given again, so whatever *)
(* is still under way under an old one cannot be taken for a new mapping;  *)
(* and every state record and acknowledgement under way is one the mapping *)
(* it names may still rely on.                                             *)

Used(i) == nextNet = 0 \/ i < nextNet
UsedNext(i) == nextNet' = 0 \/ i < nextNet'

\* The control streams: no two mappings share an ID, every ID met anywhere
\* was given, no retirement under way names a mapping, and an
\* acknowledgement under way names only what the client mirrors.
Streams ==
    /\ \A e, f \in Mapped : mapped[e].id = mapped[f].id => e = f
    /\ \A e \in Mapped : Used(mapped[e].id)
    /\ \A n \in DOMAIN toClient :
          /\ toClient[n].ids # {}
          /\ \A i \in toClient[n].ids : Used(i)
          /\ toClient[n].kind = "retire" => \A e \in Mapped : mapped[e].id \notin toClient[n].ids
    /\ \A n \in DOMAIN toServer : \A i \in toServer[n] :
          /\ Used(i)
          /\ (\E e \in Mapped : mapped[e].id = i) => mirror[i].held

\* Whether a client that heard this has received a sequence
Covers(heard, seq) == seq = heard.latest \/ heard.latest - seq \in heard.earlier

CopyOf(e, c) == mirror[mapped[e].id].copies[c]

\* The datagrams: each is of a tick gone by, under a sequence of its own, and
\* what the server remembers of one is what it carried.
Numbering ==
    /\ stepped => tick > 0
    /\ \A d \in states : /\ d.tick > 0 /\ d.tick <= tick /\ (stepped => d.tick < tick)
                         /\ d.seq > 0 /\ d.seq <= sequence
    /\ \A d, g \in states : d.seq = g.seq => d = g
    /\ \A s \in sent : \E d \in states :
          d.seq = s.seq /\ d.tick = s.tick /\ SentOf(d).records = s.records
    /\ received.latest <= sequence
    /\ \A a \in acks : a.latest <= sequence
    /\ \A i \in Ids, c \in Components :
          mirror[i].copies[c].at <= tick /\ (stepped => mirror[i].copies[c].at < tick)

\* The records under way: each is of a mapping the client acknowledged, or of
\* none any more, and carries the value last sent unless it is older.
Records ==
    \A d \in states : \A r \in d.records :
        /\ Used(r.id)
        /\ \A e \in Mapped : r.id = mapped[e].id =>
              /\ mapped[e].acked
              /\ d.tick >= mapped[e].replicas[r.component].changedAt
                    => r.value = mapped[e].replicas[r.component].value

\* The client's copies: one as new as the last change holds the value last
\* sent, and each is as new as the server was told.
Copies ==
    \A e \in Mapped, c \in Components :
        LET replica == mapped[e].replicas[c]
        IN  /\ replica.value # None => replica.changedAt # 0
            /\ replica.ackedAt # 0 => mapped[e].acked
            /\ replica.changedAt # 0 /\ CopyOf(e, c).at >= replica.changedAt
                  => CopyOf(e, c).value = replica.value
            /\ CopyOf(e, c).at >= replica.ackedAt

\* What was received, or acknowledged as received, was applied or superseded.
Applied ==
    \A d \in states : \A r \in d.records : \A e \in Mapped :
        /\ r.id = mapped[e].id
        /\ Covers(received, d.seq) \/ \E a \in acks : Covers(a, d.seq)
        => CopyOf(e, r.component).at >= d.tick

IInv ==
    /\ TypeOK /\ Streams /\ AckedIsMirrored
    /\ Numbering /\ Records /\ Copies /\ Applied

-----------------------------------------------------------------------------
(* Extremes of sets of numbers. *)

\* A set of numbers that has a member has a least one.
LEMMA LeastIsLeast ==
    ASSUME NEW S, S \subseteq Nat, S # {}
    PROVE  Least(S) \in S /\ \A x \in S : Least(S) <= x
<1> DEFINE R == {p \in Nat \X Nat : p[1] < p[2]}
<1>1. IsWellFoundedOn(R, Nat)
  BY NatLessThanWellFounded DEF OpToRel
<1>2. \E x \in S : \A y \in S : ~(<<y, x>> \in R)
  <2> HIDE DEF R
  <2> QED BY <1>1, WFMin
<1>3. \A x, y \in S : ~(<<y, x>> \in R) => x <= y
  BY S \subseteq Nat
<1> HIDE DEF R
<1>4. \E x \in S : \A y \in S : x <= y
  BY <1>2, <1>3
<1> QED BY <1>4 DEF Least

\* A set of numbers that has a member and a bound has a greatest member.
LEMMA GreatestIsGreatest ==
    ASSUME NEW S, S \subseteq Nat, S # {}, NEW n \in Nat, \A x \in S : x <= n
    PROVE  Greatest(S) \in S /\ \A x \in S : x <= Greatest(S)
<1> DEFINE T == {m \in Nat : \A x \in S : x <= m}
<1> DEFINE m == Least(T)
<1>0. T \subseteq Nat /\ n \in T
  OBVIOUS
<1>1. m \in T /\ \A k \in T : m <= k
  BY <1>0, LeastIsLeast
<1>2. m \in S
  <2>1. SUFFICES ASSUME m \notin S PROVE FALSE
    OBVIOUS
  <2>2. m # 0
    <3>1. PICK x \in S : x \in Nat
      OBVIOUS
    <3>2. x <= m /\ x # m /\ m \in Nat
      BY <1>1, <2>1
    <3> QED BY <3>1, <3>2
  <2>3. m - 1 \in T
    BY <1>1, <2>1, <2>2
  <2>4. m \in Nat /\ m <= m - 1
    <3> HIDE DEF m
    <3>1. m \in Nat
      BY <1>1
    <3> HIDE DEF T
    <3> QED BY <1>1, <2>3, <3>1
  <2> QED BY <2>4
<1>3. \A y \in S : y <= m
  BY <1>1
<1> HIDE DEF m, T
<1>4. \E x \in S : \A y \in S : y <= x
  BY <1>2, <1>3
<1> QED BY <1>4 DEF Greatest
-----------------------------------------------------------------------------
(* The IDs a publish gives. *)

\* Fewer come before a member than there are, and the less the earlier it is.
LEMMA BeforeIsLess ==
    ASSUME NEW S, S \subseteq Nat, IsFiniteSet(S), NEW e \in S
    PROVE  /\ Cardinality({f \in S : f < e}) \in Nat
           /\ Cardinality({f \in S : f < e}) < Cardinality(S)
           /\ \A g \in S : g < e => Cardinality({f \in S : f < g}) < Cardinality({f \in S : f < e})
<1> DEFINE B(x) == {f \in S : f < x}
<1>1. \A x \in S : IsFiniteSet(B(x)) /\ Cardinality(B(x)) \in Nat
  BY FS_Subset, FS_CardinalityType
<1>2. ASSUME NEW T, T \subseteq S, NEW x \in T
      PROVE  T \cap B(x) # T
  <2>1. x \in Nat
    BY <1>2, S \subseteq Nat
  <2>2. x \notin B(x)
    BY <2>1
  <2> QED BY <2>2
<1>3. Cardinality(B(e)) < Cardinality(S)
  <2>1. B(e) \subseteq S /\ B(e) # S
    BY <1>2
  <2>2. Cardinality(S) \in Nat
    BY FS_CardinalityType
  <2> HIDE DEF B
  <2> QED BY <1>1, <2>1, <2>2, FS_Subset
<1>4. ASSUME NEW g \in S, g < e
      PROVE  Cardinality(B(g)) < Cardinality(B(e))
  <2>0. e \in Nat /\ g \in Nat /\ \A f \in S : f \in Nat
    BY S \subseteq Nat
  <2>1. B(g) \subseteq B(e)
    <3>1. \A f \in S : f < g => f < e
      BY <1>4, <2>0
    <3> QED BY <3>1
  <2>2. g \in B(e) /\ g \notin B(g)
    BY <1>4, <2>0
  <2> HIDE DEF B
  <2> QED BY <1>1, <2>1, <2>2, FS_Subset
<1> QED BY <1>1, <1>3, <1>4

\* 0..k-1 is finite and has k elements.
LEMMA RoomSize ==
    ASSUME NEW k \in Nat
    PROVE  IsFiniteSet(0 .. (k - 1)) /\ Cardinality(0 .. (k - 1)) = k
<1> DEFINE b == k - 1
<1>1. b \in Int
  OBVIOUS
<1>2. IsFiniteSet(0 .. b) /\ Cardinality(0 .. b) = IF 0 > b THEN 0 ELSE b - 0 + 1
  <2> HIDE DEF b
  <2> QED BY <1>1, FS_Interval
<1> QED BY <1>2

\* Only the player is declared as player, and only while IDs are left.
LEMMA PlayerDeclaredType ==
    ASSUME TypeOK, NEW retired
    PROVE  /\ PlayerDeclared(retired) \subseteq {Player}
           /\ PlayerDeclared(retired) # {} => nextNet # 0
           /\ IsFiniteSet(PlayerDeclared(retired))
           /\ Cardinality(PlayerDeclared(retired)) = IF PlayerDeclared(retired) = {} THEN 0 ELSE 1
BY FS_EmptySet, FS_Singleton DEF PlayerDeclared

\* How many IDs are left is a number, zero only when they have run out.
LEMMA IdsLeftType ==
    ASSUME TypeOK
    PROVE  IdsLeft \in Nat /\ (IdsLeft # 0 <=> nextNet # 0)
BY ReplicationAssumption DEF TypeOK, IdsLeft, Ids

\* The declarations of a publish find IDs to take.
LEMMA FewEntered ==
    ASSUME TypeOK, NEW retired, NEW entering \in SUBSET Entities
    PROVE  /\ IsFiniteSet(Entered(entering, retired))
           /\ Cardinality(PlayerDeclared(retired)) + Cardinality(Entered(entering, retired)) <= IdsLeft
<1> DEFINE entered == Entered(entering, retired)
           p == Cardinality(PlayerDeclared(retired))
           place == [e \in entered |-> Cardinality({f \in entering : f < e})]
           room == 0 .. ((IdsLeft - p) - 1)
<1>1. entering \subseteq Nat /\ IsFiniteSet(entering) /\ entered \subseteq entering
  BY FS_Subset, ReplicationAssumption DEF Entered
<1>2. IsFiniteSet(entered) /\ Cardinality(entered) \in Nat
  BY <1>1, FS_Subset, FS_CardinalityType
<1>3. p \in {0, 1} /\ IdsLeft \in Nat /\ p <= IdsLeft
  BY PlayerDeclaredType, IdsLeftType
<1>4. \A e \in entered : place[e] \in Nat /\ p + place[e] < IdsLeft
  BY <1>1, BeforeIsLess DEF Entered, MayDeclare
<1>5. place \in [entered -> room]
  BY <1>3, <1>4
<1>6. \A e, g \in entered : place[e] = place[g] => e = g
  <2>1. ASSUME NEW e \in entered, NEW g \in entered, e < g
        PROVE  place[e] # place[g]
    <3>1. e \in entering /\ g \in entering
      BY <1>1
    <3>2. /\ Cardinality({f \in entering : f < e}) < Cardinality({f \in entering : f < g})
          /\ Cardinality({f \in entering : f < e}) \in Nat
      <4> HIDE DEF entered
      <4> QED BY <1>1, <2>1, <3>1, BeforeIsLess
    <3> QED BY <3>2
  <2>2. \A e \in entered : e \in Nat
    BY <1>1
  <2> HIDE DEF place
  <2> QED BY <2>1, <2>2
<1>7. Cardinality(entered) <= Cardinality(room)
  <2>1. place \in Injection(entered, room)
    <3> HIDE DEF place, room, entered
    <3> QED BY <1>5, <1>6 DEF Injection, IsInjective
  <2>2. IsFiniteSet(room)
    BY <1>3, RoomSize
  <2> HIDE DEF place, room
  <2> QED BY <2>1, <2>2, FS_Injection
<1>8. Cardinality(room) = IdsLeft - p
  <2>1. IdsLeft - p \in Nat
    BY <1>3
  <2> HIDE DEF p
  <2> QED BY <2>1, RoomSize
<1> QED BY <1>2, <1>3, <1>7, <1>8

\* The IDs given are new ones, each given once, and no more than are left.
GivenIds(ids) ==
    /\ DOMAIN ids \subseteq Entities
    /\ Cardinality(DOMAIN ids) \in Nat /\ Cardinality(DOMAIN ids) <= IdsLeft
    /\ \A e \in DOMAIN ids :
          /\ nextNet # 0 /\ ids[e] \in Ids
          /\ ids[e] >= nextNet /\ ids[e] < nextNet + Cardinality(DOMAIN ids)
    /\ \A e, f \in DOMAIN ids : ids[e] = ids[f] => e = f

\* The IDs given in a publish are numbers, each once.
LEMMA NumberedIds ==
    ASSUME TypeOK, NEW retired, NEW entering \in SUBSET (Entities \ PlayerDeclared(retired))
    PROVE  GivenIds(Numbered(PlayerDeclared(retired), Entered(entering, retired)))
<1> DEFINE player == PlayerDeclared(retired)
           entered == Entered(entering, retired)
           ids == Numbered(player, entered)
           p == Cardinality(player)
           n == Cardinality(entered)
           place(e) == Cardinality({f \in entered : f < e})
<1>1. /\ entered \subseteq entering /\ entered \subseteq Entities /\ player \cap entered = {}
      /\ IsFiniteSet(entered) /\ p + n <= IdsLeft
  BY FewEntered DEF Entered
<1>2. /\ player \subseteq {Player} /\ player \subseteq Entities /\ IsFiniteSet(player)
      /\ p = IF player = {} THEN 0 ELSE 1
  BY PlayerDeclaredType, ReplicationAssumption
<1>3. n \in Nat /\ IdsLeft \in Nat /\ nextNet \in {0} \cup Ids
  BY <1>1, FS_CardinalityType, IdsLeftType DEF TypeOK
<1>4. IsFiniteSet(player \cup entered) /\ Cardinality(player \cup entered) = p + n
  <2>1. Cardinality(player \cap entered) = 0
    BY <1>1, FS_EmptySet
  <2>2. Cardinality(player \cup entered) = p + n - 0
    BY <1>1, <1>2, <2>1, FS_Union
  <2>3. IsFiniteSet(player \cup entered)
    BY <1>1, <1>2, FS_Union
  <2>4. p \in Nat
    BY <1>2
  <2> HIDE DEF p, n
  <2> QED BY <1>3, <2>2, <2>3, <2>4
<1>5. DOMAIN ids = player \cup entered
  BY DEF Numbered
<1>6. \A e \in player : ids[e] = nextNet
  BY <1>3 DEF Numbered, Ids
<1>7. \A e \in entered : ids[e] = nextNet + (p + place(e))
  BY <1>1 DEF Numbered
<1>8. \A e \in entered : place(e) \in Nat /\ place(e) < n
  BY <1>1, BeforeIsLess, ReplicationAssumption
<1>9. \A e \in DOMAIN ids : nextNet # 0
  <2>1. SUFFICES ASSUME NEW e \in player \cup entered PROVE IdsLeft # 0
    BY <1>5, IdsLeftType
  <2>2. CASE e \in player
    <3>1. p = 1
      BY <1>2, <2>2
    <3> HIDE DEF p, n
    <3> QED BY <1>1, <1>3, <3>1
  <2>3. CASE e \in entered
    <3>1. place(e) \in Nat /\ place(e) < n
      BY <1>8, <2>3
    <3> HIDE DEF p, n, place
    <3> QED BY <1>1, <1>2, <1>3, <3>1
  <2> QED BY <2>2, <2>3
<1>10. \A e \in DOMAIN ids : ids[e] >= nextNet /\ ids[e] < nextNet + (p + n)
  <2> HIDE DEF p, n, place
  <2>1. \A e \in player : ids[e] >= nextNet /\ ids[e] < nextNet + (p + n)
    BY <1>2, <1>3, <1>6 DEF Ids
  <2>2. \A e \in entered : ids[e] >= nextNet /\ ids[e] < nextNet + (p + n)
    BY <1>2, <1>3, <1>7, <1>8 DEF Ids
  <2> QED BY <1>5, <2>1, <2>2
<1>11. \A e \in DOMAIN ids : ids[e] \in Int
  <2> HIDE DEF p, n, place
  <2> QED BY <1>2, <1>3, <1>5, <1>6, <1>7, <1>8 DEF Ids
<1>12. \A e \in DOMAIN ids : ids[e] \in Ids
  <2> HIDE DEF p, n
  <2> QED BY <1>1, <1>2, <1>3, <1>9, <1>10, <1>11, ReplicationAssumption DEF IdsLeft, Ids
<1>13. ASSUME NEW e \in DOMAIN ids, NEW f \in DOMAIN ids, ids[e] = ids[f]
       PROVE  e = f
  <2>1. CASE e \in player /\ f \in player
    BY <1>2, <2>1
  <2>2. CASE e \in player /\ f \in entered
    <3>1. p = 1
      BY <1>2, <2>2
    <3> HIDE DEF p, n, place
    <3> QED BY <1>3, <1>6, <1>7, <1>8, <1>13, <2>2, <3>1 DEF Ids
  <2>3. CASE e \in entered /\ f \in player
    <3>1. p = 1
      BY <1>2, <2>3
    <3> HIDE DEF p, n, place
    <3> QED BY <1>3, <1>6, <1>7, <1>8, <1>13, <2>3, <3>1 DEF Ids
  <2>4. CASE e \in entered /\ f \in entered
    <3>1. place(e) = place(f)
      <4> HIDE DEF p, n, place
      <4> QED BY <1>2, <1>3, <1>7, <1>8, <1>13, <2>4 DEF Ids
    <3>2. entered \subseteq Nat
      BY <1>1, ReplicationAssumption
    <3>3. /\ e < f => place(e) < place(f)
          /\ f < e => place(f) < place(e)
      BY <1>1, <2>4, <3>2, BeforeIsLess
    <3>4. place(e) \in Nat
      BY <1>8, <2>4
    <3> HIDE DEF place
    <3> QED BY <2>4, <3>1, <3>2, <3>3, <3>4
  <2> QED BY <1>5, <2>1, <2>2, <2>3, <2>4
<1>14. DOMAIN ids \subseteq Entities /\ Cardinality(DOMAIN ids) = p + n
  BY <1>1, <1>2, <1>4, <1>5
<1>15. p + n \in Nat
  BY <1>2, <1>3
<1> HIDE DEF p, n, ids
<1>16. GivenIds(ids)
  BY <1>1, <1>9, <1>10, <1>12, <1>13, <1>14, <1>15 DEF GivenIds
<1> QED BY <1>16 DEF ids

-----------------------------------------------------------------------------
(* What a publish does, as the invariant needs it. *)

\* A mapping kept through the publish, and one just made
Kept(e) ==
    /\ e \in Mapped /\ mapped'[e].id = mapped[e].id /\ mapped'[e].acked = mapped[e].acked
    /\ \A c \in Components :
          LET was == mapped[e].replicas[c]
              is == mapped'[e].replicas[c]
          IN  /\ is.ackedAt = was.ackedAt
              /\ \/ is.value = was.value /\ is.changedAt = was.changedAt
                 \/ is.value # None /\ is.changedAt = tick
New(e) ==
    /\ nextNet # 0 /\ mapped'[e].id >= nextNet /\ UsedNext(mapped'[e].id)
    /\ mapped'[e].acked = FALSE
    /\ mapped'[e].replicas = [c \in Components |-> NoReplica]

MappingsStep(retired, fresh) ==
    /\ \A e \in Mapped' : \/ e \in fresh /\ New(e)
                          \/ e \notin fresh /\ e \notin retired /\ Kept(e)
    /\ \A e, f \in Mapped' \cap fresh : mapped'[e].id = mapped'[f].id => e = f
    /\ \A i \in Ids : Used(i) => UsedNext(i)

FramesStep(retired) ==
    \A n \in DOMAIN toClient' :
        \/ n \in DOMAIN toClient /\ toClient'[n] = toClient[n]
        \/ /\ toClient'[n].kind = "declare" /\ toClient'[n].ids # {}
           /\ \A i \in toClient'[n].ids : UsedNext(i)
        \/ /\ toClient'[n].kind = "retire" /\ toClient'[n].ids # {}
           /\ toClient'[n].ids \subseteq {mapped[e].id : e \in retired}

\* A record newly sent is of a mapping acknowledged and kept, and carries the
\* value its replica now remembers.
Carried(r) ==
    \E e \in Mapped : /\ mapped[e].acked /\ Kept(e) /\ r.id = mapped[e].id
                      /\ r.value = mapped'[e].replicas[r.component].value

StatesStep ==
    /\ sequence' >= sequence /\ states \subseteq states'
    /\ \A d \in states' : \/ d \in states
                          \/ /\ d.tick = tick /\ d.seq > sequence /\ d.seq <= sequence'
                             /\ \A r \in d.records : Carried(r)
    /\ \A d, g \in states' \ states : d.seq = g.seq => d = g
    /\ \A s \in sent' : s \in sent \/ \E d \in states' : s = SentOf(d)

\* What is noted as changed is a sequence of changes.
LEMMA ChangesType ==
    ASSUME TypeOK
    PROVE  Noted \in Seq(Change)
<1>1. Changes \in Change
  BY DEF TypeOK, Changes, Change, Present
<1>2. changed # <<>> => Tail(changed) \in Seq(Change)
  BY DEF TypeOK
<1>3. Len(changed) > StatePeriod => changed # <<>>
  BY ReplicationAssumption DEF TypeOK
<1> QED BY <1>1, <1>2, <1>3 DEF TypeOK, Noted

\* Who enters is of the entities, the declared player not among them.
LEMMA EnteringType ==
    ASSUME TypeOK, NEW note, NEW retired
    PROVE  Entering(note, retired) \subseteq Entities \ PlayerDeclared(retired)
<1>1. PlayerDeclared(retired) \subseteq {Player} /\ Present \subseteq Entities
  BY PlayerDeclaredType DEF Present
<1> QED BY <1>1 DEF Entering

\* What is retired is of the mappings.
LEMMA RetiredType ==
    ASSUME TypeOK, NEW note
    PROVE  /\ Leaving(note) \subseteq Mapped
           /\ Retired(Leaving(note)) \subseteq Leaving(note)
BY DEF Leaving, Retired

\* A mapping just declared has its type, and so has none.
LEMMA NewMappingType ==
    /\ \A i \in Ids : NewMapping(i) \in Mapping
    /\ NoMapping \in Mapping
    /\ NoReplica \in Replica
<1>1. NoReplica \in Replica
  BY DEF NoReplica, Replica, Optional
<1> QED BY <1>1 DEF NewMapping, NoMapping, Mapping

\* The mappings once some are retired and others declared.
LEMMA RemappedType ==
    ASSUME TypeOK, NEW leaving, NEW retired, NEW ids, DOMAIN ids \subseteq Entities,
           \A e \in DOMAIN ids : ids[e] \in Ids,
           NEW now, now = Remapped(leaving, retired, ids)
    PROVE  /\ now \in [Entities -> Mapping]
           /\ \A e \in DOMAIN ids : now[e] = NewMapping(ids[e])
           /\ \A e \in Entities : e \notin DOMAIN ids /\ e \in retired => now[e] = NoMapping
           /\ \A e \in Entities : e \notin DOMAIN ids /\ e \notin retired =>
                 /\ now[e].id = mapped[e].id /\ now[e].acked = mapped[e].acked
                 /\ now[e].replicas = mapped[e].replicas
<1>1. \A e \in Entities : mapped[e] \in Mapping
  BY DEF TypeOK
<1>2. \A m \in Mapping : [m EXCEPT !.retiring = TRUE] \in Mapping
  BY DEF Mapping
<1>3. \A m \in Mapping : LET k == [m EXCEPT !.retiring = TRUE]
                         IN  k.id = m.id /\ k.acked = m.acked /\ k.replicas = m.replicas
  BY DEF Mapping
<1>4. now \in [Entities -> Mapping]
  BY <1>1, <1>2, NewMappingType DEF Remapped
<1>5. \A e \in DOMAIN ids : now[e] = NewMapping(ids[e])
  BY DEF Remapped
<1>6. \A e \in Entities : e \notin DOMAIN ids /\ e \in retired => now[e] = NoMapping
  BY DEF Remapped
<1>7. ASSUME NEW e \in Entities, e \notin DOMAIN ids, e \notin retired
      PROVE  /\ now[e].id = mapped[e].id /\ now[e].acked = mapped[e].acked
             /\ now[e].replicas = mapped[e].replicas
  <2>1. now[e] = IF e \in leaving THEN [mapped[e] EXCEPT !.retiring = TRUE] ELSE mapped[e]
    BY <1>7 DEF Remapped
  <2> QED BY <1>1, <1>3, <2>1
<1> QED BY <1>4, <1>5, <1>6, <1>7

\* The slots looked at and sent are of mappings the client acknowledged.
LEMMA WrittenType ==
    ASSUME TypeOK, NEW note, NEW now \in [Entities -> Mapping], NEW ids,
           NEW looked, looked = Looked(note, now, ids),
           NEW open, open = Open(looked, now),
           NEW unheld, unheld = Unheld(open, now),
           NEW candidates, candidates = Candidates(unheld, now),
           NEW written, written = Written(candidates)
    PROVE  /\ looked \subseteq Entities /\ open \subseteq looked
           /\ \A e \in open : now[e].id # 0 /\ now[e].acked
           /\ candidates \subseteq unheld /\ unheld \subseteq open \X Components
           /\ \A s \in unheld : ValueIn(s) # None
           /\ DOMAIN written \subseteq candidates
           /\ IsFiniteSet(DOMAIN written) /\ Cardinality(DOMAIN written) \in Nat
<1>1. /\ looked \subseteq Entities /\ open \subseteq looked
      /\ \A e \in open : now[e].id # 0 /\ now[e].acked
  BY DEF Looked, Open
<1>2. /\ candidates \subseteq unheld /\ unheld \subseteq open \X Components
      /\ \A s \in unheld : ValueIn(s) # None
  BY DEF Unheld, Candidates
<1>3. DOMAIN written \subseteq candidates
  BY DEF Written
<1>4. IsFiniteSet(Entities \X Components)
  BY ReplicationAssumption, FS_Product
<1>5. DOMAIN written \subseteq Entities \X Components
  BY <1>1, <1>2, <1>3
<1>6. IsFiniteSet(DOMAIN written)
  BY <1>4, <1>5, FS_Subset
<1> QED BY <1>1, <1>2, <1>3, <1>6, FS_CardinalityType

\* The replicas once sent
LEMMA SentType ==
    ASSUME TypeOK, NEW now \in [Entities -> Mapping], NEW candidates, NEW written,
           candidates \subseteq Entities \X Components, written \subseteq candidates,
           \A s \in written : ValueIn(s) # None,
           NEW new, new = Sent(now, candidates, written)
    PROVE  /\ new \in [Entities -> Mapping]
           /\ \A e \in Entities :
                 /\ new[e].id = now[e].id /\ new[e].acked = now[e].acked
                 /\ (\A c \in Components : <<e, c>> \notin candidates) => new[e].replicas = now[e].replicas
                 /\ \A c \in Components :
                       LET was == now[e].replicas[c]
                           is == new[e].replicas[c]
                       IN  /\ is.ackedAt = was.ackedAt
                           /\ <<e, c>> \in written => is.value = world[e][c]
                           /\ \/ is.value = was.value /\ is.changedAt = was.changedAt
                              \/ is.value # None /\ is.changedAt = tick
<1> DEFINE Next1(e, c) ==
        LET replica == now[e].replicas[c]
        IN  IF <<e, c>> \in written
            THEN [value     |-> world[e][c],
                  changedAt |-> IF replica.value = world[e][c] THEN replica.changedAt ELSE tick,
                  sentAt    |-> tick,
                  ackedAt   |-> replica.ackedAt,
                  priority  |-> 0]
            ELSE IF <<e, c>> \in candidates
            THEN [replica EXCEPT !.priority = PriorityOf(<<e, c>>)]
            ELSE replica
<1>1. \A e \in Entities : now[e] \in Mapping /\ \A c \in Components : now[e].replicas[c] \in Replica
  BY DEF Mapping
<1>2. \A e \in Entities : new[e] = [now[e] EXCEPT !.replicas = [c \in Components |-> Next1(e, c)]]
  BY DEF Sent
<1>3. \A e \in Entities, c \in Components : PriorityOf(<<e, c>>) \in Nat
  <2>1. \A e \in Entities, c \in Components : mapped[e].replicas[c] \in Replica
    BY DEF TypeOK, Mapping
  <2>2. \A e \in Entities, c \in Components : mapped[e].replicas[c].priority \in Nat
    BY <2>1 DEF Replica
  <2> QED BY <2>2, ReplicationAssumption DEF PriorityOf, ReplicaIn
<1>4. ASSUME NEW e \in Entities, NEW c \in Components
      PROVE  LET was == now[e].replicas[c]
                 is == Next1(e, c)
             IN  /\ is \in Replica
                 /\ is.ackedAt = was.ackedAt
                 /\ <<e, c>> \in written => is.value = world[e][c]
                 /\ <<e, c>> \notin candidates => is = was
                 /\ \/ is.value = was.value /\ is.changedAt = was.changedAt
                    \/ is.value # None /\ is.changedAt = tick
  <2> DEFINE was == now[e].replicas[c]
  <2>1. was \in Replica /\ PriorityOf(<<e, c>>) \in Nat /\ tick \in Nat /\ world[e][c] \in Optional
    BY <1>1, <1>3 DEF TypeOK, Worlds
  <2>2. CASE <<e, c>> \in written
    <3>1. world[e][c] # None
      BY <2>2 DEF ValueIn
    <3> HIDE DEF was
    <3>2. Next1(e, c) = [value |-> world[e][c],
                         changedAt |-> IF was.value = world[e][c] THEN was.changedAt ELSE tick,
                         sentAt |-> tick, ackedAt |-> was.ackedAt, priority |-> 0]
      BY <2>2 DEF was
    <3> HIDE DEF Next1
    <3>3. was.changedAt \in Nat /\ was.ackedAt \in Nat
      BY <2>1 DEF Replica
    <3>4. Next1(e, c) \in Replica
      BY <2>1, <3>2, <3>3 DEF Replica
    <3>5. <<e, c>> \in candidates
      BY <2>2
    <3> QED BY <3>1, <3>2, <3>4, <3>5, <2>2 DEF was
  <2>3. CASE <<e, c>> \notin written /\ <<e, c>> \in candidates
    <3>1. Next1(e, c) = [was EXCEPT !.priority = PriorityOf(<<e, c>>)]
      BY <2>3
    <3> HIDE DEF Next1, was
    <3>2. Next1(e, c) \in Replica /\ Next1(e, c).ackedAt = was.ackedAt
          /\ Next1(e, c).value = was.value /\ Next1(e, c).changedAt = was.changedAt
      BY <2>1, <3>1 DEF Replica
    <3> QED BY <2>3, <3>2 DEF was
  <2>4. CASE <<e, c>> \notin candidates
    BY <2>1, <2>4
  <2> QED BY <2>2, <2>3, <2>4
<1> HIDE DEF Next1
<1>5. ASSUME NEW e \in Entities
      PROVE  /\ new[e] \in Mapping /\ new[e].id = now[e].id /\ new[e].acked = now[e].acked
             /\ new[e].replicas = [c \in Components |-> Next1(e, c)]
             /\ now[e].replicas \in [Components -> Replica]
  <2>1. now[e] \in Mapping /\ \A c \in Components : Next1(e, c) \in Replica
    BY <1>1, <1>4
  <2>2. [c \in Components |-> Next1(e, c)] \in [Components -> Replica]
    BY <2>1
  <2>3. ASSUME NEW m \in Mapping, NEW f \in [Components -> Replica]
        PROVE  LET k == [m EXCEPT !.replicas = f]
               IN  k \in Mapping /\ k.id = m.id /\ k.acked = m.acked /\ k.replicas = f
    BY DEF Mapping
  <2>4. now[e].replicas \in [Components -> Replica]
    BY <2>1 DEF Mapping
  <2>5. new[e] = [now[e] EXCEPT !.replicas = [c \in Components |-> Next1(e, c)]]
    BY <1>2
  <2> DEFINE f == [c \in Components |-> Next1(e, c)]
  <2> HIDE DEF f
  <2>6. new[e] = [now[e] EXCEPT !.replicas = f] /\ f \in [Components -> Replica]
    BY <2>2, <2>5 DEF f
  <2>7. new[e] \in Mapping /\ new[e].id = now[e].id /\ new[e].acked = now[e].acked /\ new[e].replicas = f
    BY <2>1, <2>3, <2>6
  <2> QED BY <2>4, <2>7 DEF f
<1>6. new \in [Entities -> Mapping]
  BY <1>5 DEF Sent
<1>7. ASSUME NEW e \in Entities, \A c \in Components : <<e, c>> \notin candidates
      PROVE  new[e].replicas = now[e].replicas
  <2>1. \A c \in Components : Next1(e, c) = now[e].replicas[c]
    BY <1>4, <1>7
  <2>2. new[e].replicas = [c \in Components |-> now[e].replicas[c]]
    BY <1>5, <2>1
  <2> QED BY <1>5, <2>2
<1>8. ASSUME NEW e \in Entities, NEW c \in Components
      PROVE  new[e].replicas[c] = Next1(e, c)
  BY <1>5
<1>9. ASSUME NEW e \in Entities, NEW c \in Components
      PROVE  LET was == now[e].replicas[c]
                 is == new[e].replicas[c]
             IN  /\ is.ackedAt = was.ackedAt
                 /\ <<e, c>> \in written => is.value = world[e][c]
                 /\ \/ is.value = was.value /\ is.changedAt = was.changedAt
                    \/ is.value # None /\ is.changedAt = tick
  BY <1>4, <1>8
<1> QED BY <1>5, <1>6, <1>7, <1>9

\* What the server remembers of a datagram has its type, sequence and tick.
LEMMA SentOfType ==
    \A d \in StateDatagram : /\ SentOf(d) \in SentState
                             /\ SentOf(d).seq = d.seq /\ SentOf(d).tick = d.tick
<1>1. SUFFICES ASSUME NEW d \in StateDatagram
               PROVE  /\ SentOf(d) \in SentState
                      /\ SentOf(d).seq = d.seq /\ SentOf(d).tick = d.tick
  OBVIOUS
<1>2. d.seq \in Nat /\ d.tick \in Nat /\ d.records \subseteq Record
  BY DEF StateDatagram
<1>3. {<<r.id, r.component>> : r \in d.records} \subseteq NetSlots
  BY <1>2 DEF Record, NetSlots
<1> QED BY <1>2, <1>3 DEF SentOf, SentState

\* The datagrams made: of this tick, under the next sequences in turn, and
\* carrying what was written.
Made(now, written, count, datagrams) ==
    /\ count \in Nat /\ datagrams \subseteq StateDatagram
    /\ \A d \in datagrams :
          /\ d.tick = tick /\ d.seq > sequence /\ d.seq <= sequence + count
          /\ \A r \in d.records : \E s \in DOMAIN written :
                /\ r.id = now[s[1]].id /\ r.component = s[2]
                /\ r.value = world[s[1]][s[2]]
    /\ \A d, g \in datagrams : d.seq = g.seq => d = g

\* A publish's datagrams, by type.
LEMMA DatagramsType ==
    ASSUME TypeOK, NEW now \in [Entities -> Mapping], NEW open, NEW unheld,
           NEW written, DOMAIN written \subseteq Entities \X Components,
           Cardinality(DOMAIN written) \in Nat,
           \A s \in DOMAIN written : now[s[1]].id # 0 /\ ValueIn(s) # None,
           NEW arrived \in BOOLEAN
    PROVE  Made(now, written, DatagramCount(open, unheld, written, arrived),
                Datagrams(now, open, unheld, written, arrived))
<1> DEFINE count == DatagramCount(open, unheld, written, arrived)
           datagrams == Datagrams(now, open, unheld, written, arrived)
           dgram(n) == [seq     |-> sequence + 1 + n,
                    tick    |-> tick,
                    whole   |-> Whole(open, unheld, Inside(written, n)),
                    records |-> RecordsOf(now, Inside(written, n))]
<1>1. count \in Nat
  <2> DEFINE full == (Cardinality(DOMAIN written) + RecordRoom - 1) \div RecordRoom
  <2>1. full \in Nat
    BY ReplicationAssumption
  <2>2. count = full \/ count = full + 1
    BY DEF DatagramCount
  <2> HIDE DEF full
  <2> QED BY <2>1, <2>2
<1>2. datagrams = {dgram(n) : n \in 0 .. (count - 1)}
  BY DEF Datagrams
<1>3. \A n : Inside(written, n) \subseteq DOMAIN written
  BY DEF Inside
<1>4. ASSUME NEW n, NEW r \in RecordsOf(now, Inside(written, n))
      PROVE  \E s \in DOMAIN written : /\ r.id = now[s[1]].id /\ r.component = s[2]
                                       /\ r.value = world[s[1]][s[2]] /\ r \in Record
  <2>1. PICK s \in Inside(written, n) :
            r = [id |-> now[s[1]].id, component |-> s[2], value |-> ValueIn(s)]
    BY DEF RecordsOf
  <2>2. s \in DOMAIN written /\ s[1] \in Entities /\ s[2] \in Components
    BY <1>3, <2>1
  <2>3. now[s[1]].id \in Ids
    BY <2>2 DEF Mapping
  <2>4. ValueIn(s) \in Value /\ ValueIn(s) = world[s[1]][s[2]]
    BY <2>2 DEF TypeOK, Worlds, Optional, ValueIn
  <2>5. r \in Record
    BY <2>1, <2>2, <2>3, <2>4 DEF Record
  <2> QED BY <2>1, <2>2, <2>4, <2>5
<1>5. ASSUME NEW n \in 0 .. (count - 1)
      PROVE  /\ dgram(n) \in StateDatagram /\ dgram(n).tick = tick
             /\ dgram(n).seq = sequence + 1 + n
             /\ dgram(n).records = RecordsOf(now, Inside(written, n))
  <2>1. sequence + 1 + n \in Nat /\ tick \in Nat
    BY <1>1 DEF TypeOK
  <2>2. Whole(open, unheld, Inside(written, n)) \in BOOLEAN
    BY DEF Whole
  <2>3. RecordsOf(now, Inside(written, n)) \subseteq Record
    BY <1>4
  <2> HIDE DEF TypeOK
  <2> QED BY <2>1, <2>2, <2>3 DEF StateDatagram
<1> HIDE DEF dgram
<1>6. \A n \in 0 .. (count - 1) : sequence + 1 + n > sequence /\ sequence + 1 + n <= sequence + count
  BY <1>1 DEF TypeOK
<1>7. ASSUME NEW d \in datagrams
      PROVE  /\ d \in StateDatagram /\ d.tick = tick /\ d.seq > sequence /\ d.seq <= sequence + count
             /\ \A r \in d.records : \E s \in DOMAIN written :
                   /\ r.id = now[s[1]].id /\ r.component = s[2]
                   /\ r.value = world[s[1]][s[2]]
  <2>1. PICK n \in 0 .. (count - 1) : d = dgram(n)
    BY <1>2
  <2> QED BY <1>4, <1>5, <1>6, <2>1
<1>8. ASSUME NEW d \in datagrams, NEW g \in datagrams, d.seq = g.seq
      PROVE  d = g
  <2>1. PICK n \in 0 .. (count - 1) : d = dgram(n)
    BY <1>2
  <2>2. PICK m \in 0 .. (count - 1) : g = dgram(m)
    BY <1>2
  <2>3. n = m
    BY <1>1, <1>5, <1>8, <2>1, <2>2 DEF TypeOK
  <2> QED BY <2>1, <2>2, <2>3
<1> HIDE DEF count, datagrams
<1>9. Made(now, written, count, datagrams)
  BY <1>1, <1>7, <1>8 DEF Made
<1> QED BY <1>9 DEF count, datagrams

\* A publish keeps the types, and does to the mappings, the control stream
\* and the datagrams what the definitions above say.
LEMMA PublishStep ==
    ASSUME TypeOK, NEW arrived \in BOOLEAN, Publish(arrived)
    PROVE  /\ TypeOK'
           /\ \E retired \in SUBSET Mapped : \E fresh :
                 MappingsStep(retired, fresh) /\ FramesStep(retired)
           /\ StatesStep
           /\ stepped /\ ~stepped' /\ UNCHANGED <<tick, toServer, acks, clientVars>>
<1> DEFINE note == Noted
           leaving == Leaving(note)
           retired == Retired(leaving)
           player == PlayerDeclared(retired)
           entering == Entering(note, retired)
           entered == Entered(entering, retired)
           ids == Numbered(player, entered)
           now == Remapped(leaving, retired, ids)
           looked == Looked(note, now, ids)
           open == Open(looked, now)
           unheld == Unheld(open, now)
           candidates == Candidates(unheld, now)
           written == Written(candidates)
           datagrams == Datagrams(now, open, unheld, written, arrived)
           count == DatagramCount(open, unheld, written, arrived)
<1>1. /\ stepped' = FALSE /\ changed' = note /\ previous' = world /\ lookedAt' = tick
      /\ bounded' = (leaving # retired \/ entering # entered)
      /\ nextNet' = IF Cardinality(DOMAIN ids) = IdsLeft THEN 0
                    ELSE nextNet + Cardinality(DOMAIN ids)
      /\ unacked' = IF DOMAIN ids = {} THEN unacked ELSE Append(unacked, IdSet(ids))
      /\ toClient' = toClient \o Frames(retired, ids, player # {})
      /\ mapped' = Sent(now, candidates, DOMAIN written)
      /\ unsettled' = (looked \ open) \cup {s[1] : s \in unheld}
      /\ sequence' = sequence + count
      /\ IF arrived
         THEN /\ states' = states \cup datagrams
              /\ sent' = NewestOf(sent \cup {SentOf(d) : d \in datagrams}, SentWindow)
         ELSE UNCHANGED <<states, sent>>
      /\ UNCHANGED <<tick, world, near, within, struck, toServer, acks, clientVars>>
  BY DEF Publish
<1>2. /\ note \in Seq(Change) /\ leaving \subseteq Mapped /\ retired \subseteq Mapped
      /\ retired \subseteq leaving /\ entering \in SUBSET (Entities \ player)
  BY ChangesType, EnteringType, RetiredType
<1>3. /\ DOMAIN ids \subseteq Entities
      /\ Cardinality(DOMAIN ids) \in Nat /\ Cardinality(DOMAIN ids) <= IdsLeft
      /\ \A e \in DOMAIN ids :
            /\ nextNet # 0 /\ ids[e] \in Ids
            /\ ids[e] >= nextNet /\ ids[e] < nextNet + Cardinality(DOMAIN ids)
      /\ \A e, f \in DOMAIN ids : ids[e] = ids[f] => e = f
  <2>1. GivenIds(Numbered(PlayerDeclared(retired), Entered(entering, retired)))
    <3> HIDE DEF retired, entering
    <3> QED BY <1>2, NumberedIds
  <2> QED BY <2>1 DEF GivenIds
<1> HIDE DEF note, leaving, retired, player, entering, entered, ids
<1>4. /\ now \in [Entities -> Mapping]
      /\ \A e \in DOMAIN ids : now[e] = NewMapping(ids[e])
      /\ \A e \in Entities : e \notin DOMAIN ids /\ e \in retired => now[e] = NoMapping
      /\ \A e \in Entities : e \notin DOMAIN ids /\ e \notin retired =>
            /\ now[e].id = mapped[e].id /\ now[e].acked = mapped[e].acked
            /\ now[e].replicas = mapped[e].replicas
  BY <1>3, RemappedType
<1> HIDE DEF now
<1>5. /\ looked \subseteq Entities /\ open \subseteq looked
      /\ \A e \in open : now[e].id # 0 /\ now[e].acked
      /\ candidates \subseteq unheld /\ unheld \subseteq open \X Components
      /\ \A s \in unheld : ValueIn(s) # None
      /\ DOMAIN written \subseteq candidates
      /\ Cardinality(DOMAIN written) \in Nat
  BY <1>4, WrittenType
<1> HIDE DEF looked, open, unheld, candidates, written
<1>6. /\ mapped' \in [Entities -> Mapping]
      /\ \A e \in Entities :
            /\ mapped'[e].id = now[e].id /\ mapped'[e].acked = now[e].acked
            /\ (\A c \in Components : <<e, c>> \notin candidates) => mapped'[e].replicas = now[e].replicas
            /\ \A c \in Components :
                  LET was == now[e].replicas[c]
                      is == mapped'[e].replicas[c]
                  IN  /\ is.ackedAt = was.ackedAt
                      /\ <<e, c>> \in DOMAIN written => is.value = world[e][c]
                      /\ \/ is.value = was.value /\ is.changedAt = was.changedAt
                         \/ is.value # None /\ is.changedAt = tick
  <2>1. /\ candidates \subseteq Entities \X Components
        /\ \A s \in DOMAIN written : ValueIn(s) # None
    BY <1>5
  <2>2. mapped' = Sent(now, candidates, DOMAIN written)
    BY <1>1
  <2> QED BY <1>4, <1>5, <2>1, <2>2, SentType
<1>7. /\ count \in Nat /\ datagrams \subseteq StateDatagram
      /\ \A d \in datagrams :
            /\ d.tick = tick /\ d.seq > sequence /\ d.seq <= sequence + count
            /\ \A r \in d.records : \E s \in DOMAIN written :
                  /\ r.id = now[s[1]].id /\ r.component = s[2]
                  /\ r.value = world[s[1]][s[2]]
      /\ \A d, g \in datagrams : d.seq = g.seq => d = g
  <2>1. DOMAIN written \subseteq Entities \X Components
    BY <1>5
  <2>2. \A s \in DOMAIN written : now[s[1]].id # 0 /\ ValueIn(s) # None
    BY <1>5
  <2>3. Made(now, written, count, datagrams)
    BY <1>4, <1>5, <2>1, <2>2, DatagramsType
  <2> HIDE DEF datagrams, count
  <2> QED BY <2>3 DEF Made
<1> HIDE DEF datagrams, count
<1>8. nextNet' \in {0} \cup Ids /\ (nextNet' = 0 \/ (nextNet # 0 /\ nextNet' = nextNet + Cardinality(DOMAIN ids)))
  <2>1. nextNet \in {0} \cup Ids
    BY DEF TypeOK
  <2>2. CASE nextNet = 0
    BY <1>1, <1>3, <2>2, IdsLeftType
  <2>3. CASE nextNet # 0
    BY <1>1, <1>3, <2>1, <2>3, ReplicationAssumption DEF IdsLeft, Ids
  <2> QED BY <2>2, <2>3
<1>9. IdSet(ids) \subseteq Ids /\ \A i \in IdSet(ids) : nextNet # 0 /\ UsedNext(i)
  <2>1. ASSUME NEW e \in DOMAIN ids
        PROVE  ids[e] \in Ids /\ nextNet # 0 /\ UsedNext(ids[e])
    BY <1>3, <1>8 DEF UsedNext
  <2>2. \A i \in IdSet(ids) : \E e \in DOMAIN ids : i = ids[e]
    BY DEF IdSet
  <2> QED BY <2>1, <2>2
<1>10. \A e \in retired : mapped[e].id \in Ids
  BY <1>2 DEF Mapped, TypeOK, Mapping
<1> DEFINE frames == Frames(retired, ids, player # {})
<1>11. /\ frames \in Seq(Frame) /\ Len(frames) \in Nat
       /\ \A n \in 1 .. Len(frames) :
             \/ /\ frames[n].kind = "declare" /\ frames[n].ids # {}
                /\ \A i \in frames[n].ids : UsedNext(i)
             \/ /\ frames[n].kind = "retire" /\ frames[n].ids # {}
                /\ frames[n].ids \subseteq {mapped[e].id : e \in retired}
  <2> DEFINE told == [kind |-> "retire", ids |-> {mapped[e].id : e \in retired}, ownedFirst |-> FALSE]
             asked == [kind |-> "declare", ids |-> IdSet(ids), ownedFirst |-> player # {}]
  <2>1. told \in Frame /\ asked \in Frame
    BY <1>9, <1>10 DEF Frame
  <2>2. retired # {} => told.ids # {}
    OBVIOUS
  <2>3. DOMAIN ids # {} => asked.ids # {}
    BY DEF IdSet
  <2>4. /\ told.kind = "retire" /\ told.ids \subseteq {mapped[e].id : e \in retired}
        /\ asked.kind = "declare" /\ \A i \in asked.ids : UsedNext(i)
    BY <1>9
  <2>5. frames = (IF retired = {} THEN <<>> ELSE <<told>>) \o (IF DOMAIN ids = {} THEN <<>> ELSE <<asked>>)
    BY DEF Frames
  <2> HIDE DEF told, asked, frames
  <2>6. CASE retired = {} /\ DOMAIN ids = {}
    BY <2>5, <2>6
  <2>7. CASE retired = {} /\ DOMAIN ids # {}
    BY <2>1, <2>3, <2>4, <2>5, <2>7
  <2>8. CASE retired # {} /\ DOMAIN ids = {}
    BY <2>1, <2>2, <2>4, <2>5, <2>8
  <2>9. CASE retired # {} /\ DOMAIN ids # {}
    BY <2>1, <2>2, <2>3, <2>4, <2>5, <2>9
  <2> QED BY <2>6, <2>7, <2>8, <2>9
<1> HIDE DEF frames
<1>12. TypeOK'
  <2>1. /\ tick' \in Nat /\ world' \in Worlds /\ stepped' \in BOOLEAN
        /\ near' \subseteq Entities /\ within' \subseteq Entities
        /\ previous' \in Worlds /\ changed' \in Seq(Change) /\ lookedAt' \in Nat
        /\ struck' \in BOOLEAN /\ bounded' \in BOOLEAN
    BY <1>1, <1>2 DEF TypeOK
  <2>2. mapped' \in [Entities -> Mapping] /\ nextNet' \in {0} \cup Ids
    BY <1>6, <1>8
  <2>3. unsettled' \subseteq Entities
    BY <1>1, <1>5
  <2>4. unacked' \in Seq(SUBSET Ids)
    BY <1>1, <1>9 DEF TypeOK
  <2>5. sequence' \in Nat
    BY <1>1, <1>7 DEF TypeOK
  <2>6. states' \subseteq StateDatagram /\ sent' \subseteq SentState
    <3>1. {SentOf(d) : d \in datagrams} \subseteq SentState
      BY <1>7, SentOfType
    <3>2. \A S \in SUBSET SentState : NewestOf(S, SentWindow) \subseteq SentState
      BY DEF NewestOf
    <3> QED BY <1>1, <1>7, <3>1, <3>2 DEF TypeOK
  <2>7. toClient' \in Seq(Frame)
    BY <1>1, <1>11 DEF TypeOK, frames
  <2>8. /\ toServer' \in Seq(SUBSET Ids) /\ acks' \subseteq Heard
        /\ mirror' \in [Ids -> Mirror] /\ owned' \in {0} \cup Ids
        /\ received' \in [latest: Nat, earlier: SUBSET (1..AckBits), due: BOOLEAN]
        /\ closed' \in BOOLEAN
    BY <1>1 DEF TypeOK, clientVars
  <2> QED BY <2>1, <2>2, <2>3, <2>4, <2>5, <2>6, <2>7, <2>8 DEF TypeOK
<1>13. ASSUME NEW e \in Mapped'
       PROVE  \/ e \in DOMAIN ids /\ mapped'[e].id = ids[e] /\ New(e)
              \/ e \notin DOMAIN ids /\ e \notin retired /\ e \in Entities /\ Kept(e)
  <2>1. e \in Entities /\ mapped'[e].id # 0 /\ mapped'[e].id = now[e].id /\ mapped'[e].acked = now[e].acked
    BY <1>6, <1>13 DEF Mapped
  <2>2. CASE e \in DOMAIN ids
    <3>1. now[e] = NewMapping(ids[e])
      BY <1>4, <2>2
    <3>2. now[e].id = ids[e] /\ now[e].acked = FALSE /\ now[e].replicas = [c \in Components |-> NoReplica]
      BY <3>1 DEF NewMapping
    <3>3. \A c \in Components : <<e, c>> \notin candidates
      BY <1>5, <3>2
    <3>4. mapped'[e].replicas = now[e].replicas
      BY <1>6, <2>1, <3>3
    <3>5. UsedNext(ids[e])
      BY <1>3, <1>8, <2>2 DEF UsedNext
    <3>6. nextNet # 0 /\ ids[e] >= nextNet
      BY <1>3, <2>2
    <3>7. mapped'[e].id = ids[e]
      BY <2>1, <3>2
    <3> QED BY <2>1, <2>2, <3>2, <3>4, <3>5, <3>6, <3>7 DEF New
  <2>3. CASE e \notin DOMAIN ids /\ e \in retired
    BY <1>4, <2>1, <2>3 DEF NoMapping, NewMapping
  <2>4. CASE e \notin DOMAIN ids /\ e \notin retired
    <3>1. /\ now[e].id = mapped[e].id /\ now[e].acked = mapped[e].acked
          /\ now[e].replicas = mapped[e].replicas
      BY <1>4, <2>1, <2>4
    <3>2. e \in Mapped
      BY <2>1, <3>1 DEF Mapped
    <3>3. \A c \in Components :
             LET was == mapped[e].replicas[c]
                 is == mapped'[e].replicas[c]
             IN  /\ is.ackedAt = was.ackedAt
                 /\ \/ is.value = was.value /\ is.changedAt = was.changedAt
                    \/ is.value # None /\ is.changedAt = tick
      BY <1>6, <2>1, <3>1, ZenonT(60)
    <3> QED BY <2>1, <2>4, <3>1, <3>2, <3>3 DEF Kept
  <2> QED BY <2>2, <2>3, <2>4
<1>14. MappingsStep(retired, DOMAIN ids)
  <2>1. \A e \in Mapped' : \/ e \in DOMAIN ids /\ New(e)
                           \/ e \notin DOMAIN ids /\ e \notin retired /\ Kept(e)
    BY <1>13
  <2>2. \A e, f \in Mapped' \cap DOMAIN ids : mapped'[e].id = mapped'[f].id => e = f
    BY <1>3, <1>13
  <2>3. \A i \in Ids : Used(i) => UsedNext(i)
    BY <1>3, <1>8 DEF Used, UsedNext, Ids, TypeOK
  <2> QED BY <2>1, <2>2, <2>3 DEF MappingsStep
<1>15. FramesStep(retired)
  <2>1. toClient \in Seq(Frame) /\ toClient' = toClient \o frames
    BY <1>1 DEF TypeOK, frames
  <2>2. SUFFICES ASSUME NEW n \in DOMAIN toClient'
                 PROVE  \/ n \in DOMAIN toClient /\ toClient'[n] = toClient[n]
                        \/ n - Len(toClient) \in 1 .. Len(frames) /\ toClient'[n] = frames[n - Len(toClient)]
    BY <1>11 DEF FramesStep
  <2> QED BY <1>11, <2>1
<1>16. ASSUME NEW d \in datagrams, NEW r \in d.records
       PROVE  Carried(r)
  <2>1. PICK s \in DOMAIN written : /\ r.id = now[s[1]].id /\ r.component = s[2]
                                    /\ r.value = world[s[1]][s[2]]
    BY <1>7
  <2>2. PICK e \in open, c \in Components : s = <<e, c>>
    BY <1>5
  <2>3. e \in Entities /\ now[e].id # 0 /\ now[e].acked /\ <<e, c>> \in DOMAIN written
    BY <1>5, <2>1, <2>2
  <2>4. e \in Mapped' /\ mapped'[e].id = now[e].id /\ mapped'[e].acked
    BY <1>6, <2>3 DEF Mapped
  <2>5. Kept(e)
    BY <1>13, <2>4 DEF New
  <2>6. mapped'[e].replicas[c].value = world[e][c]
    BY <1>6, <2>3
  <2>7. r.id = mapped[e].id /\ e \in Mapped /\ mapped[e].acked
    BY <2>1, <2>2, <2>4, <2>5 DEF Kept
  <2> QED BY <2>1, <2>2, <2>5, <2>6, <2>7 DEF Carried
<1>17. StatesStep
  <2>1. sequence' >= sequence /\ states \subseteq states'
    BY <1>1, <1>7 DEF TypeOK
  <2>2. states' \ states \subseteq datagrams
    BY <1>1
  <2>3. \A d \in states' : \/ d \in states
                           \/ /\ d.tick = tick /\ d.seq > sequence /\ d.seq <= sequence'
                              /\ \A r \in d.records : Carried(r)
    BY <1>1, <1>7, <1>16, <2>2
  <2>4. \A d, g \in states' \ states : d.seq = g.seq => d = g
    BY <1>7, <2>2
  <2>5. ASSUME NEW s \in sent'
        PROVE  s \in sent \/ \E d \in states' : s = SentOf(d)
    BY <1>1 DEF NewestOf
  <2> QED BY <2>1, <2>3, <2>4, <2>5 DEF StatesStep
<1>18. stepped /\ ~stepped' /\ UNCHANGED <<tick, toServer, acks, clientVars>>
  BY <1>1 DEF Publish
<1> QED BY <1>2, <1>12, <1>14, <1>15, <1>17, <1>18

-----------------------------------------------------------------------------
(* Every step keeps the inductive invariant, one lemma an action. *)

\* The inductive invariant holds at first,
LEMMA InitIInv == Init => IInv
<1> SUFFICES ASSUME Init PROVE IInv
  OBVIOUS
<1>1. /\ \A e \in Entities : mapped[e] = NoMapping
      /\ \A e \in Entities : mapped[e].id = 0
      /\ Mapped = {}
  BY DEF Init, Mapped, NoMapping, NewMapping
<1>2. NoMirror \in Mirror /\ \A c \in Components : NoMirror.copies[c].at = 0
  BY DEF NoMirror, Mirror, Copy, Optional
<1>3. TypeOK
  <2>1. mapped \in [Entities -> Mapping]
    BY NewMappingType DEF Init
  <2>2. mirror \in [Ids -> Mirror] /\ 1 \in Ids
    BY <1>2, ReplicationAssumption DEF Init, Ids
  <2>3. world \in Worlds
    BY DEF Init, Worlds, Optional
  <2>4. unacked \in Seq(SUBSET Ids) /\ toServer \in Seq(SUBSET Ids)
    BY DEF Init
  <2>5. changed \in Seq(Change) /\ toClient \in Seq(Frame)
    BY DEF Init
  <2>6. /\ near \subseteq Entities /\ within \subseteq Entities /\ previous \in Worlds
        /\ unsettled \subseteq Entities /\ sent \subseteq SentState
        /\ states \subseteq StateDatagram /\ acks \subseteq Heard
    BY <2>3 DEF Init
  <2>7. received \in [latest: Nat, earlier: SUBSET (1..AckBits), due: BOOLEAN]
    BY DEF Init
  <2>8. /\ tick \in Nat /\ stepped \in BOOLEAN /\ lookedAt \in Nat /\ bounded \in BOOLEAN
        /\ sequence \in Nat /\ struck \in BOOLEAN /\ closed \in BOOLEAN
        /\ nextNet \in {0} \cup Ids /\ owned \in {0} \cup Ids
    BY <2>2 DEF Init
  <2> QED BY <2>1, <2>2, <2>3, <2>4, <2>5, <2>6, <2>7, <2>8 DEF TypeOK
<1>4. Streams /\ AckedIsMirrored
  BY <1>1 DEF Init, Streams, AckedIsMirrored
<1>5. Numbering
  BY <1>2 DEF Init, Numbering
<1>6. Records /\ Copies /\ Applied
  BY <1>1 DEF Init, Records, Copies, Applied
<1> QED BY <1>3, <1>4, <1>5, <1>6 DEF IInv

\* and every step keeps it: a tick of the World,
LEMMA StepKeeps ==
    ASSUME IInv, NEW w \in Worlds, NEW held \in SUBSET Entities, NEW in \in SUBSET held,
           Step(w, in, held)
    PROVE  IInv'
<1>1. TypeOK'
  BY DEF IInv, TypeOK, Step, serverVars, lookVars, netVars, clientVars
<1>2. /\ UNCHANGED <<mapped, nextNet, sequence, sent, toClient, toServer, states, acks>>
      /\ UNCHANGED <<mirror, received>>
      /\ tick' = tick + 1
  BY DEF Step, serverVars, lookVars, netVars, clientVars
<1>3. Streams' /\ AckedIsMirrored'
  BY <1>2 DEF IInv, Streams, AckedIsMirrored, Mapped, Used
<1>4. Numbering'
  <2>1. \A d \in states : d.tick \in Nat
    BY DEF IInv, TypeOK, StateDatagram
  <2>2. \A i \in Ids, c \in Components : mirror[i].copies[c].at \in Nat
    BY DEF IInv, TypeOK, Mirror, Copy
  <2> QED BY <1>2, <2>1, <2>2 DEF IInv, TypeOK, Numbering
<1>5. Records' /\ Copies' /\ Applied'
  BY <1>2, SMTT(60) DEF IInv, Records, Copies, Applied, Mapped, Used, CopyOf, Covers
<1> QED BY <1>1, <1>3, <1>4, <1>5 DEF IInv

\* a publish not due,
LEMMA PublishNothingKeeps ==
    ASSUME IInv, PublishNothing
    PROVE  IInv'
<1>1. TypeOK'
  BY ChangesType DEF IInv, TypeOK, PublishNothing, netVars, clientVars
<1>2. /\ UNCHANGED <<mapped, nextNet, sequence, sent, toClient, toServer, states, acks>>
      /\ UNCHANGED <<mirror, received, tick>>
      /\ stepped' = FALSE
  BY DEF PublishNothing, netVars, clientVars
<1>3. Streams' /\ AckedIsMirrored' /\ Numbering'
  BY <1>2 DEF IInv, Streams, AckedIsMirrored, Mapped, Used, Numbering
<1>4. Records' /\ Copies' /\ Applied'
  BY <1>2 DEF IInv, Records, Copies, Applied, Mapped, Used, CopyOf, Covers
<1> QED BY <1>1, <1>3, <1>4 DEF IInv

\* a publish,
LEMMA PublishKeeps ==
    ASSUME IInv, NEW arrived \in BOOLEAN, Publish(arrived)
    PROVE  IInv'
<1>0. TypeOK
  BY DEF IInv
<1>r. PICK retired \in SUBSET Mapped : \E fresh : MappingsStep(retired, fresh) /\ FramesStep(retired)
  BY <1>0, PublishStep
<1>1. PICK fresh : MappingsStep(retired, fresh) /\ FramesStep(retired)
  BY <1>r
<1>2. /\ TypeOK' /\ StatesStep /\ stepped /\ ~stepped'
      /\ UNCHANGED <<tick, toServer, acks, mirror, received>>
  BY <1>0, PublishStep DEF clientVars
<1>3. /\ \A e \in Mapped : mapped[e].id \in Ids
      /\ \A e \in Mapped' : mapped'[e].id \in Ids
  BY <1>0, <1>2 DEF TypeOK, Mapped, Mapping
<1>4. \A e \in Mapped' : \/ e \in fresh /\ New(e) /\ ~Used(mapped'[e].id)
                         \/ e \notin fresh /\ e \notin retired /\ Kept(e) /\ Used(mapped'[e].id)
  <2>1. \A e \in Mapped' : New(e) => ~Used(mapped'[e].id)
    BY <1>0, <1>3 DEF New, Used, Ids, TypeOK
  <2>2. \A e \in Mapped' : Kept(e) => Used(mapped'[e].id)
    BY DEF Kept, IInv, Streams
  <2>3. \A e \in Mapped' : \/ e \in fresh /\ New(e)
                           \/ e \notin fresh /\ e \notin retired /\ Kept(e)
    BY <1>1 DEF MappingsStep
  <2>4. ASSUME NEW e \in Mapped'
        PROVE  \/ e \in fresh /\ New(e) /\ ~Used(mapped'[e].id)
               \/ e \notin fresh /\ e \notin retired /\ Kept(e) /\ Used(mapped'[e].id)
    <3>1. CASE e \in fresh /\ New(e)
      BY <2>1, <3>1
    <3>2. CASE e \notin fresh /\ e \notin retired /\ Kept(e)
      BY <2>2, <3>2
    <3> QED BY <2>3, <3>1, <3>2
  <2> QED BY <2>4
<1>5. \A e \in Mapped, f \in Mapped' : mapped[e].id = mapped'[f].id => e = f /\ Kept(f) /\ f \notin retired
  BY <1>4 DEF Kept, IInv, Streams
<1>6. \A i \in Ids : Used(i) => UsedNext(i)
  BY <1>1 DEF MappingsStep
<1>7. Streams'
  <2>1. \A e, f \in Mapped' : mapped'[e].id = mapped'[f].id => e = f
    <3> SUFFICES ASSUME NEW e \in Mapped', NEW f \in Mapped', mapped'[e].id = mapped'[f].id
                 PROVE  e = f
      OBVIOUS
    <3>1. CASE e \in fresh /\ f \in fresh
      BY <1>1, <3>1 DEF MappingsStep
    <3>2. CASE ~(e \in fresh /\ f \in fresh)
      BY <1>4, <3>2 DEF Kept, IInv, Streams
    <3> QED BY <3>1, <3>2
  <2>2. \A e \in Mapped' : UsedNext(mapped'[e].id)
    BY <1>3, <1>4, <1>6 DEF New
  <2>3. ASSUME NEW n \in DOMAIN toClient'
        PROVE  /\ toClient'[n].ids # {}
               /\ \A i \in toClient'[n].ids : UsedNext(i)
               /\ toClient'[n].kind = "retire" => \A e \in Mapped' : mapped'[e].id \notin toClient'[n].ids
    <3>1. CASE n \in DOMAIN toClient /\ toClient'[n] = toClient[n]
      <4>1. toClient[n] \in Frame /\ toClient[n].ids \subseteq Ids
        <5>1. toClient[n] \in Frame
          BY <1>0, <3>1 DEF TypeOK
        <5> QED BY <5>1 DEF Frame
      <4>2. /\ toClient[n].ids # {} /\ \A i \in toClient[n].ids : Used(i)
            /\ toClient[n].kind = "retire" => \A e \in Mapped : mapped[e].id \notin toClient[n].ids
        BY <3>1 DEF IInv, Streams
      <4> QED BY <1>4, <1>6, <3>1, <4>1, <4>2 DEF Kept
    <3>2. CASE /\ toClient'[n].kind = "declare" /\ toClient'[n].ids # {}
               /\ \A i \in toClient'[n].ids : UsedNext(i)
      BY <3>2
    <3>3. CASE /\ toClient'[n].kind = "retire" /\ toClient'[n].ids # {}
               /\ toClient'[n].ids \subseteq {mapped[e].id : e \in retired}
      <4>1. \A i \in toClient'[n].ids : \E e \in retired : i = mapped[e].id
        BY <3>3
      <4>2. \A i \in toClient'[n].ids : i \in Ids /\ Used(i)
        BY <1>3, <4>1 DEF IInv, Streams
      <4>3. \A f \in Mapped' : mapped'[f].id \notin toClient'[n].ids
        BY <1>5, <4>1
      <4> QED BY <1>6, <3>3, <4>2, <4>3
    <3> QED BY <1>1, <3>1, <3>2, <3>3 DEF FramesStep
  <2>4. ASSUME NEW n \in DOMAIN toServer, NEW i \in toServer[n]
        PROVE  UsedNext(i) /\ ((\E e \in Mapped' : mapped'[e].id = i) => mirror[i].held)
    <3>1. i \in Ids /\ Used(i) /\ ((\E e \in Mapped : mapped[e].id = i) => mirror[i].held)
      BY <1>0 DEF TypeOK, IInv, Streams
    <3> QED BY <1>4, <1>6, <3>1 DEF Kept
  <2> QED BY <1>2, <2>1, <2>2, <2>3, <2>4 DEF Streams, Used, UsedNext
<1>8. AckedIsMirrored'
  BY <1>2, <1>4 DEF AckedIsMirrored, IInv, Kept, New
<1>9. Numbering'
  <2>1. \A d \in states' : /\ d.tick > 0 /\ d.tick <= tick /\ d.seq > 0 /\ d.seq <= sequence'
    <3>1. \A d \in states : d.seq \in Nat
      BY <1>0 DEF TypeOK, StateDatagram
    <3>2. tick \in Nat /\ sequence \in Nat /\ sequence' \in Nat
      BY <1>0, <1>2 DEF TypeOK
    <3>3. \A d \in states' : d.seq \in Nat
      BY <1>2 DEF TypeOK, StateDatagram
    <3> QED BY <1>2, <3>1, <3>2, <3>3 DEF IInv, Numbering, StatesStep
  <2>2. \A d, g \in states' : d.seq = g.seq => d = g
    <3>1. \A d \in states : d.seq <= sequence /\ d.seq \in Nat
      BY <1>0 DEF TypeOK, StateDatagram, IInv, Numbering
    <3>2. \A d \in states' \ states : d.seq > sequence
      BY <1>2 DEF StatesStep
    <3>3. sequence \in Nat
      BY <1>0 DEF TypeOK
    <3>4. \A d, g \in states : d.seq = g.seq => d = g
      BY DEF IInv, Numbering
    <3>5. \A d, g \in states' \ states : d.seq = g.seq => d = g
      BY <1>2 DEF StatesStep
    <3>6. \A d \in states, g \in states' \ states : d.seq # g.seq
      BY <3>1, <3>2, <3>3
    <3> QED BY <3>4, <3>5, <3>6
  <2>3. \A s \in sent' : \E d \in states' :
           d.seq = s.seq /\ d.tick = s.tick /\ SentOf(d).records = s.records
    <3> SUFFICES ASSUME NEW s \in sent'
                 PROVE  \E d \in states' :
                           d.seq = s.seq /\ d.tick = s.tick /\ SentOf(d).records = s.records
      OBVIOUS
    <3>1. CASE s \in sent
      BY <1>2, <3>1 DEF IInv, Numbering, StatesStep
    <3>2. CASE \E d \in states' : s = SentOf(d)
      BY <1>2, <3>2, SentOfType DEF TypeOK
    <3> QED BY <1>2, <3>1, <3>2 DEF StatesStep
  <2>4. received.latest <= sequence' /\ \A a \in acks : a.latest <= sequence'
    <3>1. received.latest \in Nat /\ \A a \in acks : a.latest \in Nat
      BY <1>0 DEF TypeOK, Heard
    <3>2. sequence \in Nat /\ sequence' \in Nat /\ sequence' >= sequence
      BY <1>0, <1>2 DEF TypeOK, StatesStep
    <3> QED BY <3>1, <3>2 DEF IInv, Numbering
  <2>5. \A i \in Ids, c \in Components : mirror[i].copies[c].at <= tick
    BY DEF IInv, Numbering
  <2> QED BY <1>2, <2>1, <2>2, <2>3, <2>4, <2>5 DEF Numbering
<1>10. \A d \in states : d.tick < tick /\ d.tick \in Nat /\ tick \in Nat
  BY <1>0, <1>2 DEF TypeOK, StateDatagram, IInv, Numbering
<1>11. Records'
  <2>1. ASSUME NEW d \in states', NEW r \in d.records
        PROVE  /\ UsedNext(r.id)
               /\ \A e \in Mapped' : r.id = mapped'[e].id =>
                     /\ mapped'[e].acked
                     /\ d.tick >= mapped'[e].replicas[r.component].changedAt
                           => r.value = mapped'[e].replicas[r.component].value
    <3>1. r.id \in Ids /\ r.component \in Components
      BY <1>2 DEF TypeOK, StateDatagram, Record
    <3>2. CASE d \in states
      <4>1. Used(r.id) /\ d.tick < tick /\ d.tick \in Nat /\ tick \in Nat
        BY <1>10, <3>2 DEF IInv, Records
      <4>2. ASSUME NEW e \in Mapped', r.id = mapped'[e].id
            PROVE  /\ mapped'[e].acked
                   /\ d.tick >= mapped'[e].replicas[r.component].changedAt
                         => r.value = mapped'[e].replicas[r.component].value
        <5>1. Kept(e) /\ e \in Mapped /\ r.id = mapped[e].id
          BY <1>4, <4>1, <4>2 DEF Kept
        <5>2. /\ mapped[e].acked
              /\ d.tick >= mapped[e].replicas[r.component].changedAt
                    => r.value = mapped[e].replicas[r.component].value
          BY <3>2, <5>1 DEF IInv, Records
        <5>3. \/ /\ mapped'[e].replicas[r.component].value = mapped[e].replicas[r.component].value
                 /\ mapped'[e].replicas[r.component].changedAt = mapped[e].replicas[r.component].changedAt
              \/ mapped'[e].replicas[r.component].changedAt = tick
          BY <3>1, <5>1 DEF Kept
        <5>4. mapped'[e].acked
          BY <5>1, <5>2 DEF Kept
        <5> QED BY <4>1, <5>2, <5>3, <5>4
      <4> QED BY <1>6, <3>1, <4>1, <4>2
    <3>3. CASE Carried(r)
      <4>1. PICK e \in Mapped : /\ mapped[e].acked /\ Kept(e) /\ r.id = mapped[e].id
                                /\ r.value = mapped'[e].replicas[r.component].value
        BY <3>3 DEF Carried
      <4>2. Used(r.id)
        BY <4>1 DEF IInv, Streams
      <4>3. \A f \in Mapped' : r.id = mapped'[f].id => f = e
        BY <1>5, <4>1
      <4>4. mapped'[e].acked
        BY <4>1 DEF Kept
      <4> QED BY <1>6, <3>1, <4>1, <4>2, <4>3, <4>4
    <3> QED BY <1>2, <3>2, <3>3 DEF StatesStep
  <2> QED BY <2>1 DEF Records, Used, UsedNext
<1>12. Copies'
  <2>1. ASSUME NEW e \in Mapped', NEW c \in Components
        PROVE  LET replica == mapped'[e].replicas[c]
                   copy == mirror[mapped'[e].id].copies[c]
               IN  /\ replica.value # None => replica.changedAt # 0
                   /\ replica.ackedAt # 0 => mapped'[e].acked
                   /\ replica.changedAt # 0 /\ copy.at >= replica.changedAt
                         => copy.value = replica.value
                   /\ copy.at >= replica.ackedAt
    <3>1. mirror[mapped'[e].id].copies[c].at \in Nat /\ mirror[mapped'[e].id].copies[c].at < tick
      <4>1. mirror[mapped'[e].id] \in Mirror
        BY <1>0, <1>3 DEF TypeOK
      <4>2. mirror[mapped'[e].id].copies[c].at \in Nat
        BY <4>1 DEF Mirror, Copy
      <4> QED BY <1>2, <1>3, <4>2 DEF IInv, Numbering
    <3>2. CASE New(e)
      <4>1. mapped'[e].replicas[c] = NoReplica
        BY <3>2 DEF New
      <4>2. NoReplica.value = None /\ NoReplica.changedAt = 0 /\ NoReplica.ackedAt = 0
        BY DEF NoReplica
      <4> QED BY <3>1, <4>1, <4>2
    <3>3. CASE Kept(e)
      <4>1. /\ e \in Mapped /\ mapped'[e].id = mapped[e].id /\ mapped'[e].acked = mapped[e].acked
            /\ mapped'[e].replicas[c].ackedAt = mapped[e].replicas[c].ackedAt
            /\ \/ /\ mapped'[e].replicas[c].value = mapped[e].replicas[c].value
                  /\ mapped'[e].replicas[c].changedAt = mapped[e].replicas[c].changedAt
               \/ mapped'[e].replicas[c].changedAt = tick
        BY <3>3 DEF Kept
      <4>2. LET replica == mapped[e].replicas[c]
                copy == mirror[mapped[e].id].copies[c]
            IN  /\ replica.value # None => replica.changedAt # 0
                /\ replica.ackedAt # 0 => mapped[e].acked
                /\ replica.changedAt # 0 /\ copy.at >= replica.changedAt
                      => copy.value = replica.value
                /\ copy.at >= replica.ackedAt
        BY <4>1 DEF IInv, Copies, CopyOf
      <4>3. tick \in Nat /\ tick # 0
        BY <1>0, <1>2 DEF TypeOK, IInv, Numbering
      <4> QED BY <3>1, <4>1, <4>2, <4>3
    <3> QED BY <1>4, <3>2, <3>3
  <2> QED BY <1>2, <2>1 DEF Copies, CopyOf
<1>13. Applied'
  <2>1. ASSUME NEW d \in states', NEW r \in d.records, NEW e \in Mapped', r.id = mapped'[e].id,
               Covers(received, d.seq) \/ \E a \in acks : Covers(a, d.seq)
        PROVE  mirror[mapped'[e].id].copies[r.component].at >= d.tick
    <3>1. d \in states
      <4>1. SUFFICES ASSUME d.seq > sequence PROVE FALSE
        BY <1>2 DEF StatesStep
      <4>2. d.seq \in Nat /\ sequence \in Nat
        BY <1>0, <1>2 DEF TypeOK, StateDatagram
      <4>3. ASSUME NEW h, h.latest \in Nat, h.latest <= sequence, h.earlier \subseteq 1..AckBits
            PROVE  ~Covers(h, d.seq)
        <5>1. h.latest - d.seq < 0
          BY <4>1, <4>2, <4>3
        <5> QED BY <4>1, <4>2, <4>3, <5>1 DEF Covers
      <4>4. ~Covers(received, d.seq)
        BY <1>0, <4>3 DEF TypeOK, IInv, Numbering
      <4>5. \A a \in acks : ~Covers(a, d.seq)
        BY <1>0, <4>3 DEF TypeOK, Heard, IInv, Numbering
      <4> QED BY <2>1, <4>4, <4>5
    <3>2. Used(r.id)
      BY <3>1 DEF IInv, Records
    <3>3. Kept(e) /\ e \in Mapped /\ r.id = mapped[e].id
      BY <1>4, <2>1, <3>2 DEF Kept
    <3> QED BY <2>1, <3>1, <3>3 DEF IInv, Applied, CopyOf
  <2> QED BY <1>2, <2>1 DEF Applied, CopyOf, Covers
<1> QED BY <1>2, <1>7, <1>8, <1>9, <1>11, <1>12, <1>13 DEF IInv

\* a mapping's acknowledgement heard,
LEMMA ReceiveMappingAckKeeps ==
    ASSUME IInv, ReceiveMappingAck
    PROVE  IInv'
<1> DEFINE run == Head(toServer)
<1>1. /\ toServer # <<>> /\ toServer' = Tail(toServer)
      /\ UNCHANGED <<worldVars, lookVars, nextNet, sequence, sent, toClient, states, acks, clientVars>>
      /\ \/ /\ unacked # <<>> /\ unacked' = Tail(unacked) /\ UNCHANGED struck
            /\ mapped' = [e \in Entities |->
                            IF mapped[e].id \in run THEN [mapped[e] EXCEPT !.acked = TRUE]
                            ELSE mapped[e]]
         \/ struck' = TRUE /\ UNCHANGED <<unacked, mapped>>
  BY DEF ReceiveMappingAck
<1>2. TypeOK
  BY DEF IInv
<1>3. /\ toServer \in Seq(SUBSET Ids) /\ toServer' \in Seq(SUBSET Ids)
      /\ \A n \in DOMAIN toServer' : n + 1 \in DOMAIN toServer /\ toServer'[n] = toServer[n + 1]
      /\ 1 \in DOMAIN toServer /\ run = toServer[1]
  BY <1>1, <1>2 DEF TypeOK
<1> HIDE DEF run
<1>4. ASSUME NEW e \in Entities
      PROVE  /\ mapped'[e] \in Mapping /\ mapped'[e].id = mapped[e].id
             /\ mapped'[e].replicas = mapped[e].replicas
             /\ mapped'[e].acked => mapped[e].acked \/ mapped[e].id \in run
             /\ mapped[e].acked => mapped'[e].acked
  <2>1. mapped[e] \in Mapping
    BY <1>2 DEF TypeOK
  <2>2. ASSUME NEW m \in Mapping
        PROVE  LET k == [m EXCEPT !.acked = TRUE]
               IN  k \in Mapping /\ k.id = m.id /\ k.replicas = m.replicas
    BY DEF Mapping
  <2>3. \/ mapped'[e] = mapped[e]
        \/ mapped'[e] = [mapped[e] EXCEPT !.acked = TRUE] /\ mapped[e].id \in run
    BY <1>1
  <2>4. CASE mapped'[e] = mapped[e]
    BY <2>1, <2>4
  <2>5. CASE mapped'[e] = [mapped[e] EXCEPT !.acked = TRUE] /\ mapped[e].id \in run
    <3>1. [mapped[e] EXCEPT !.acked = TRUE].acked = TRUE
      BY <2>1 DEF Mapping
    <3> QED BY <2>1, <2>2, <2>5, <3>1
  <2> QED BY <2>3, <2>4, <2>5
<1>5. TypeOK'
  <2>1. mapped' \in [Entities -> Mapping]
    <3>1. mapped' = [e \in Entities |-> mapped'[e]]
      BY <1>1, <1>2 DEF TypeOK
    <3> QED BY <1>4, <3>1
  <2>2. unacked' \in Seq(SUBSET Ids) /\ struck' \in BOOLEAN
    <3>1. unacked \in Seq(SUBSET Ids) /\ struck \in BOOLEAN
      BY <1>2 DEF TypeOK
    <3>2. \/ unacked # <<>> /\ unacked' = Tail(unacked) /\ struck' = struck
          \/ struck' = TRUE /\ unacked' = unacked
      BY <1>1
    <3>3. unacked # <<>> => Tail(unacked) \in Seq(SUBSET Ids)
      BY <3>1
    <3> QED BY <3>1, <3>2, <3>3
  <2> QED BY <1>1, <1>2, <1>3, <2>1, <2>2 DEF TypeOK, worldVars, lookVars, clientVars
<1>6. Mapped' = Mapped /\ \A e \in Mapped : e \in Entities
  BY <1>4 DEF Mapped
<1>7. UNCHANGED <<tick, stepped, nextNet, sequence, sent, toClient, states, acks, mirror, received>>
  BY <1>1 DEF worldVars, clientVars
<1>8. Streams'
  <2>1. \A e, f \in Mapped : mapped'[e].id = mapped'[f].id => e = f
    BY <1>4, <1>6 DEF IInv, Streams
  <2>2. \A e \in Mapped : Used(mapped'[e].id)
    BY <1>4, <1>6 DEF IInv, Streams
  <2>3. \A n \in DOMAIN toClient :
           /\ toClient[n].ids # {}
           /\ \A i \in toClient[n].ids : Used(i)
           /\ toClient[n].kind = "retire" => \A e \in Mapped : mapped'[e].id \notin toClient[n].ids
    BY <1>4, <1>6 DEF IInv, Streams
  <2>4. \A n \in DOMAIN toServer' : \A i \in toServer'[n] :
           Used(i) /\ ((\E e \in Mapped : mapped'[e].id = i) => mirror[i].held)
    BY <1>3, <1>4, <1>6 DEF IInv, Streams
  <2> QED BY <1>6, <1>7, <2>1, <2>2, <2>3, <2>4 DEF Streams, Used
<1>9. AckedIsMirrored'
  <2>1. \A e \in Mapped : mapped'[e].acked => mirror[mapped'[e].id].held
    BY <1>3, <1>4, <1>6 DEF IInv, Streams, AckedIsMirrored
  <2> QED BY <1>6, <1>7, <2>1 DEF AckedIsMirrored
<1>10. Numbering'
  BY <1>7 DEF IInv, Numbering
<1>11. Records'
  BY <1>4, <1>6, <1>7 DEF IInv, Records, Used
<1>12. Copies' /\ Applied'
  BY <1>4, <1>6, <1>7, SMTT(60) DEF IInv, Copies, Applied, CopyOf, Covers
<1> QED BY <1>5, <1>8, <1>9, <1>10, <1>11, <1>12 DEF IInv

\* the client's acknowledgement of states,
LEMMA SendStateAckKeeps ==
    ASSUME IInv, SendStateAck
    PROVE  IInv'
<1>1. /\ received' = [received EXCEPT !.due = FALSE]
      /\ acks' = acks \cup {[latest |-> received.latest, earlier |-> received.earlier]}
      /\ UNCHANGED <<worldVars, serverVars, toClient, toServer, states, mirror, owned, closed>>
  BY DEF SendStateAck
<1>2. TypeOK
  BY DEF IInv
<1>3. /\ received'.latest = received.latest /\ received'.earlier = received.earlier
      /\ received' \in [latest: Nat, earlier: SUBSET (1..AckBits), due: BOOLEAN]
      /\ [latest |-> received.latest, earlier |-> received.earlier] \in Heard
  BY <1>1, <1>2 DEF TypeOK, Heard
<1>4. TypeOK'
  <2>1. acks' \subseteq Heard
    BY <1>1, <1>2, <1>3 DEF TypeOK
  <2> QED BY <1>1, <1>2, <1>3, <2>1 DEF TypeOK, worldVars, serverVars, lookVars
<1>5. UNCHANGED <<tick, stepped, nextNet, sequence, sent, toClient, toServer, states, mirror, mapped>>
  BY <1>1 DEF worldVars, serverVars, lookVars
<1>6. Streams' /\ AckedIsMirrored' /\ Records' /\ Copies'
  BY <1>5 DEF IInv, Streams, AckedIsMirrored, Records, Copies, Mapped, Used, CopyOf
<1>7. Numbering'
  <2>1. \A a \in acks' : a.latest <= sequence
    BY <1>1 DEF IInv, Numbering
  <2> QED BY <1>3, <1>5, <2>1 DEF IInv, Numbering
<1>8. Applied'
  <2>1. \A q : (Covers(received, q)' \/ \E a \in acks' : Covers(a, q))
                  => (Covers(received, q) \/ \E a \in acks : Covers(a, q))
    BY <1>1, <1>3 DEF Covers
  <2> QED BY <1>5, <2>1 DEF IInv, Applied, Mapped, CopyOf, Covers
<1> QED BY <1>4, <1>6, <1>7, <1>8 DEF IInv

\* a frame heard,
LEMMA ReceiveFrameKeeps ==
    ASSUME IInv, ReceiveFrame
    PROVE  IInv'
<1> DEFINE frame == Head(toClient)
<1>1. /\ ~stepped /\ toClient # <<>> /\ toClient' = Tail(toClient)
      /\ \/ Head(toClient).kind = "declare" /\ Declare(Head(toClient))
         \/ Head(toClient).kind = "retire" /\ Retire(Head(toClient))
      /\ UNCHANGED <<worldVars, serverVars, states, acks, received>>
  BY DEF ReceiveFrame
<1>2. TypeOK
  BY DEF IInv
<1>3. /\ toClient' \in Seq(Frame)
      /\ \A n \in DOMAIN toClient' : n + 1 \in DOMAIN toClient /\ toClient'[n] = toClient[n + 1]
      /\ 1 \in DOMAIN toClient /\ frame = toClient[1] /\ frame \in Frame
  BY <1>1, <1>2 DEF TypeOK
<1> HIDE DEF frame
<1>4. /\ frame.ids \subseteq Ids /\ frame.ids # {} /\ \A i \in frame.ids : Used(i)
      /\ frame.kind = "retire" => \A e \in Mapped : mapped[e].id \notin frame.ids
  BY <1>3 DEF IInv, Streams, Frame
<1>5. UNCHANGED <<tick, stepped, nextNet, sequence, sent, states, acks, received, mapped>>
  BY <1>1 DEF worldVars, serverVars, lookVars
<1>6. /\ NoMirror \in Mirror /\ NewMirror \in Mirror /\ NewMirror.held = TRUE
      /\ \A c \in Components : NoMirror.copies[c].at = 0 /\ NewMirror.copies[c].at = 0
  <2>1. NoMirror \in Mirror /\ \A c \in Components : NoMirror.copies[c].at = 0
    BY DEF NoMirror, Mirror, Copy, Optional
  <2>2. \A m \in Mirror : LET k == [m EXCEPT !.held = TRUE]
                          IN  k \in Mirror /\ k.held = TRUE /\ k.copies = m.copies
    BY DEF Mirror
  <2> QED BY <2>1, <2>2 DEF NewMirror
<1>7. Least(frame.ids) \in Ids
  BY <1>4, LeastIsLeast DEF Ids
<1>8. \A e \in Mapped : mapped[e].id \in Ids /\ e \in Entities
  BY <1>2 DEF Mapped, TypeOK, Mapping
<1>9. CASE closed' = TRUE /\ UNCHANGED <<mirror, owned, toServer>>
  <2>1. TypeOK'
    BY <1>1, <1>2, <1>3, <1>9 DEF TypeOK, worldVars, serverVars, lookVars
  <2>2. Streams'
    BY <1>3, <1>5, <1>9 DEF IInv, Streams, Mapped, Used
  <2>3. AckedIsMirrored' /\ Numbering' /\ Records' /\ Copies' /\ Applied'
    BY <1>5, <1>9, SMTT(120) DEF IInv, AckedIsMirrored, Numbering, Records, Copies, Applied,
                      Mapped, Used, CopyOf, Covers
  <2> QED BY <2>1, <2>2, <2>3 DEF IInv
<1>10. CASE /\ frame.ids \cap Mirrored = {}
            /\ mirror' = [i \in Ids |-> IF i \in frame.ids THEN NewMirror ELSE mirror[i]]
            /\ owned' = IF frame.ownedFirst THEN Least(frame.ids) ELSE owned
            /\ toServer' = Append(toServer, frame.ids)
            /\ UNCHANGED closed
  <2>1. TypeOK'
    <3>1. mirror' \in [Ids -> Mirror] /\ owned' \in {0} \cup Ids
      BY <1>2, <1>6, <1>7, <1>10 DEF TypeOK
    <3>2. toServer' \in Seq(SUBSET Ids)
      BY <1>2, <1>4, <1>10 DEF TypeOK
    <3> QED BY <1>1, <1>2, <1>3, <1>10, <3>1, <3>2 DEF TypeOK, worldVars, serverVars, lookVars
  <2>2. /\ \A i \in Ids : mirror[i].held => mirror'[i].held /\ mirror'[i] = mirror[i]
        /\ \A i \in frame.ids : mirror'[i].held /\ ~mirror[i].held /\ i \in Ids
        /\ \A i \in Ids, c \in Components : \/ mirror'[i] = mirror[i]
                                            \/ i \in frame.ids /\ mirror'[i].copies[c].at = 0
    BY <1>4, <1>6, <1>10 DEF Mirrored
  <2>3. Streams'
    <3>1. ASSUME NEW n \in DOMAIN toServer', NEW i \in toServer'[n]
          PROVE  Used(i) /\ ((\E e \in Mapped : mapped[e].id = i) => mirror'[i].held)
      <4>1. toServer \in Seq(SUBSET Ids)
        BY <1>2 DEF TypeOK
      <4>2. CASE n \in DOMAIN toServer /\ i \in toServer[n]
        BY <2>2, <4>1, <4>2 DEF IInv, Streams
      <4>3. CASE i \in frame.ids
        BY <1>4, <2>2, <4>3
      <4> QED BY <1>10, <4>1, <4>2, <4>3
    <3>2. \A n \in DOMAIN toClient' :
             /\ toClient'[n].ids # {}
             /\ \A i \in toClient'[n].ids : Used(i)
             /\ toClient'[n].kind = "retire" => \A e \in Mapped : mapped[e].id \notin toClient'[n].ids
      BY <1>3 DEF IInv, Streams
    <3> QED BY <1>5, <3>1, <3>2 DEF IInv, Streams, Mapped, Used
  <2>4. AckedIsMirrored'
    BY <1>5, <1>8, <2>2 DEF IInv, AckedIsMirrored, Mapped
  <2>5. Numbering'
    <3>1. \A i \in Ids, c \in Components : mirror'[i].copies[c].at <= tick
      BY <1>2, <2>2, SMTT(60) DEF IInv, Numbering, TypeOK
    <3> QED BY <1>1, <1>5, <3>1 DEF IInv, Numbering
  <2>6. Records'
    BY <1>5 DEF IInv, Records, Mapped, Used
  <2>7. ASSUME NEW e \in Mapped
        PROVE  \/ mirror'[mapped[e].id] = mirror[mapped[e].id]
               \/ /\ ~mapped[e].acked
                  /\ \A c \in Components : mirror'[mapped[e].id].copies[c].at = 0
    BY <1>8, <2>2 DEF IInv, AckedIsMirrored
  <2>8. Copies'
    <3>1. ASSUME NEW e \in Mapped, NEW c \in Components
          PROVE  LET replica == mapped[e].replicas[c]
                     copy == mirror'[mapped[e].id].copies[c]
                 IN  /\ replica.value # None => replica.changedAt # 0
                     /\ replica.ackedAt # 0 => mapped[e].acked
                     /\ replica.changedAt # 0 /\ copy.at >= replica.changedAt
                           => copy.value = replica.value
                     /\ copy.at >= replica.ackedAt
      <4>1. LET replica == mapped[e].replicas[c]
                copy == mirror[mapped[e].id].copies[c]
            IN  /\ replica.value # None => replica.changedAt # 0
                /\ replica.ackedAt # 0 => mapped[e].acked
                /\ replica.changedAt # 0 /\ copy.at >= replica.changedAt
                      => copy.value = replica.value
                /\ copy.at >= replica.ackedAt
        BY DEF IInv, Copies, CopyOf
      <4>2. mapped[e].replicas[c].changedAt \in Nat
        BY <1>2, <1>8 DEF TypeOK, Mapping, Replica
      <4> QED BY <2>7, <4>1, <4>2
    <3> QED BY <1>5, <3>1 DEF Copies, CopyOf, Mapped
  <2>9. Applied'
    <3>1. ASSUME NEW d \in states, NEW r \in d.records, NEW e \in Mapped, r.id = mapped[e].id,
                 Covers(received, d.seq) \/ \E a \in acks : Covers(a, d.seq)
          PROVE  mirror'[mapped[e].id].copies[r.component].at >= d.tick
      <4>1. mapped[e].acked
        BY <3>1 DEF IInv, Records
      <4>2. mirror[mapped[e].id].copies[r.component].at >= d.tick
        BY <3>1 DEF IInv, Applied, CopyOf
      <4> QED BY <2>7, <4>1, <4>2
    <3> QED BY <1>5, <3>1 DEF Applied, CopyOf, Mapped, Covers
  <2> QED BY <2>1, <2>3, <2>4, <2>5, <2>6, <2>8, <2>9 DEF IInv
<1>11. CASE Retire(frame) /\ frame.kind = "retire"
  <2>1. /\ mirror' = [i \in Ids |-> IF i \in frame.ids THEN NoMirror ELSE mirror[i]]
        /\ owned' = IF owned \in frame.ids THEN 0 ELSE owned
        /\ UNCHANGED <<toServer, closed>>
    BY <1>11 DEF Retire
  <2>2. TypeOK'
    <3>1. mirror' \in [Ids -> Mirror] /\ owned' \in {0} \cup Ids
      BY <1>2, <1>6, <2>1 DEF TypeOK
    <3> QED BY <1>1, <1>2, <1>3, <2>1, <3>1 DEF TypeOK, worldVars, serverVars, lookVars
  <2>3. \A e \in Mapped : mirror'[mapped[e].id] = mirror[mapped[e].id]
    BY <1>4, <1>8, <1>11, <2>1
  <2>4. Streams'
    <3>1. \A n \in DOMAIN toServer : \A i \in toServer[n] :
             Used(i) /\ ((\E e \in Mapped : mapped[e].id = i) => mirror'[i].held)
      BY <2>3 DEF IInv, Streams
    <3>2. \A n \in DOMAIN toClient' :
             /\ toClient'[n].ids # {}
             /\ \A i \in toClient'[n].ids : Used(i)
             /\ toClient'[n].kind = "retire" => \A e \in Mapped : mapped[e].id \notin toClient'[n].ids
      BY <1>3 DEF IInv, Streams
    <3> QED BY <1>5, <2>1, <3>1, <3>2 DEF IInv, Streams, Mapped, Used
  <2>5. Numbering'
    <3>1. \A i \in Ids, c \in Components : \/ mirror'[i].copies[c].at = 0
                                           \/ mirror'[i] = mirror[i]
      BY <1>6, <2>1
    <3>2. tick \in Nat /\ \A i \in Ids, c \in Components : mirror[i].copies[c].at <= tick
      BY DEF IInv, Numbering, TypeOK
    <3>3. \A i \in Ids, c \in Components : mirror'[i].copies[c].at <= tick
      BY <3>1, <3>2
    <3> QED BY <1>1, <1>5, <3>3 DEF IInv, Numbering
  <2>6. AckedIsMirrored' /\ Copies' /\ Applied'
    BY <1>5, <2>3, SMTT(60) DEF IInv, AckedIsMirrored, Copies, Applied, Mapped, CopyOf, Covers
  <2>7. Records'
    BY <1>5, <2>3, SMTT(60) DEF IInv, Records, Mapped, Used
  <2> QED BY <2>2, <2>4, <2>5, <2>6, <2>7 DEF IInv
<1> QED BY <1>1, <1>9, <1>10, <1>11 DEF Declare, frame

\* A copy after a datagram is the one before, or the datagram's, no older.
LEMMA CopiesAfter ==
    ASSUME TypeOK, NEW d \in states, ReceiveState(d)
    PROVE  /\ mirror' \in [Ids -> Mirror]
           /\ \A i \in Ids : mirror'[i].held = mirror[i].held
           /\ \A i \in Ids, c \in Components :
                 \/ /\ mirror'[i].copies[c] = mirror[i].copies[c]
                    /\ \A r \in d.records : r.id = i /\ r.component = c /\ mirror[i].held
                          => mirror[i].copies[c].at >= d.tick
                 \/ /\ mirror'[i].copies[c].at = d.tick /\ d.tick >= mirror[i].copies[c].at
                    /\ \E r \in d.records : /\ r.id = i /\ r.component = c
                                             /\ r.value = mirror'[i].copies[c].value
<1> DEFINE staged(i, c) == \E r \in Staged(d) : r.id = i /\ r.component = c
           taken(i, c) == CHOOSE r \in Staged(d) : r.id = i /\ r.component = c
           copy(i, c) == IF staged(i, c) THEN [value |-> taken(i, c).value, at |-> d.tick]
                         ELSE mirror[i].copies[c]
<1>1. mirror' = [i \in Ids |-> [mirror[i] EXCEPT !.copies = [c \in Components |-> copy(i, c)]]]
  BY DEF ReceiveState
<1>2. d.tick \in Nat /\ d.records \subseteq Record
  BY DEF TypeOK, StateDatagram
<1>3. \A i \in Ids : mirror[i] \in Mirror /\ \A c \in Components : mirror[i].copies[c] \in Copy
  BY DEF TypeOK, Mirror
<1>4. ASSUME NEW i \in Ids, NEW c \in Components
      PROVE  /\ copy(i, c) \in Copy
             /\ \/ /\ copy(i, c) = mirror[i].copies[c]
                   /\ \A r \in d.records : r.id = i /\ r.component = c /\ mirror[i].held
                         => mirror[i].copies[c].at >= d.tick
                \/ /\ copy(i, c).at = d.tick /\ d.tick >= mirror[i].copies[c].at
                   /\ \E r \in d.records : r.id = i /\ r.component = c /\ r.value = copy(i, c).value
  <2>1. CASE staged(i, c)
    <3>1. taken(i, c) \in Staged(d) /\ taken(i, c).id = i /\ taken(i, c).component = c
      BY <2>1
    <3>2. copy(i, c) = [value |-> taken(i, c).value, at |-> d.tick]
      BY <2>1
    <3> HIDE DEF taken, copy, staged
    <3>3. taken(i, c) \in d.records /\ mirror[i].copies[c].at <= d.tick
      BY <3>1 DEF Staged
    <3>4. taken(i, c).value \in Optional
      BY <1>2, <3>3 DEF Record, Optional
    <3>5. copy(i, c) \in Copy /\ copy(i, c).at = d.tick /\ copy(i, c).value = taken(i, c).value
      BY <1>2, <3>2, <3>4 DEF Copy
    <3>6. mirror[i].copies[c].at \in Nat
      BY <1>3 DEF Copy
    <3> QED BY <1>2, <3>1, <3>3, <3>5, <3>6
  <2>2. CASE ~staged(i, c)
    <3>1. copy(i, c) = mirror[i].copies[c]
      BY <2>2
    <3>2. ASSUME NEW r \in d.records, r.id = i, r.component = c, mirror[i].held
          PROVE  mirror[i].copies[c].at >= d.tick
      <4>1. ~(mirror[i].copies[c].at <= d.tick)
        BY <2>2, <3>2 DEF Staged
      <4>2. mirror[i].copies[c].at \in Nat
        BY <1>3 DEF Copy
      <4> QED BY <1>2, <4>1, <4>2
    <3> QED BY <1>3, <3>1, <3>2
  <2> QED BY <2>1, <2>2
<1> HIDE DEF copy
<1>5. ASSUME NEW i \in Ids
      PROVE  /\ mirror'[i] \in Mirror /\ mirror'[i].held = mirror[i].held
             /\ \A c \in Components : mirror'[i].copies[c] = copy(i, c)
  <2> DEFINE f == [c \in Components |-> copy(i, c)]
  <2>1. f \in [Components -> Copy] /\ \A c \in Components : f[c] = copy(i, c)
    BY <1>4
  <2>2. mirror'[i] = [mirror[i] EXCEPT !.copies = f]
    BY <1>1
  <2> HIDE DEF f
  <2>3. ASSUME NEW m \in Mirror
        PROVE  LET k == [m EXCEPT !.copies = f] IN k \in Mirror /\ k.held = m.held /\ k.copies = f
    BY <2>1 DEF Mirror
  <2> QED BY <1>3, <2>1, <2>2, <2>3
<1>6. mirror' \in [Ids -> Mirror]
  BY <1>1, <1>5
<1> QED BY <1>4, <1>5, <1>6

\* a state heard,
LEMMA ReceiveStateKeeps ==
    ASSUME IInv, NEW d \in states, ReceiveState(d)
    PROVE  IInv'
<1>1. /\ ~stepped /\ received' = Receive(d.seq)
      /\ UNCHANGED <<worldVars, serverVars, netVars, owned, closed>>
  BY DEF ReceiveState
<1>2. TypeOK
  BY DEF IInv
<1>3. /\ mirror' \in [Ids -> Mirror]
      /\ \A i \in Ids : mirror'[i].held = mirror[i].held
      /\ \A i \in Ids, c \in Components :
            \/ /\ mirror'[i].copies[c] = mirror[i].copies[c]
               /\ \A r \in d.records : r.id = i /\ r.component = c /\ mirror[i].held
                     => mirror[i].copies[c].at >= d.tick
            \/ /\ mirror'[i].copies[c].at = d.tick /\ d.tick >= mirror[i].copies[c].at
               /\ \E r \in d.records : /\ r.id = i /\ r.component = c
                                        /\ r.value = mirror'[i].copies[c].value
  BY <1>2, CopiesAfter
<1>4. UNCHANGED <<tick, stepped, nextNet, sequence, sent, toClient, toServer, states, acks, mapped>>
  BY <1>1 DEF worldVars, serverVars, lookVars, netVars
<1>5. /\ d.seq \in Nat /\ d.tick \in Nat /\ d.seq <= sequence /\ d.tick <= tick
      /\ tick \in Nat /\ sequence \in Nat
      /\ \A i \in Ids, c \in Components : mirror[i].copies[c].at \in Nat
  BY <1>2 DEF TypeOK, StateDatagram, Mirror, Copy, IInv, Numbering
<1>6. /\ received' \in [latest: Nat, earlier: SUBSET (1..AckBits), due: BOOLEAN]
      /\ received'.latest <= sequence
      /\ \A g \in states : Covers(received', g.seq) => Covers(received, g.seq) \/ g.seq = d.seq
  <2> DEFINE latest == received.latest
             shift == d.seq - latest
  <2>1. /\ latest \in Nat /\ received.earlier \subseteq 1..AckBits /\ latest <= sequence
        /\ AckBits \in Nat
    BY <1>2, ReplicationAssumption DEF TypeOK, IInv, Numbering
  <2>2. CASE d.seq > latest
    <3> DEFINE earlier == {b \in 1..AckBits : b - shift \in received.earlier}
                          \cup (IF latest # 0 /\ shift <= AckBits THEN {shift} ELSE {})
    <3>1. received' = [latest |-> d.seq, earlier |-> earlier, due |-> TRUE]
      BY <1>1, <2>2 DEF Receive
    <3>2. earlier \subseteq 1..AckBits
      BY <1>5, <2>1, <2>2
    <3>3. ASSUME NEW g \in states, g.seq = d.seq \/ d.seq - g.seq \in earlier
          PROVE  \/ g.seq = latest \/ latest - g.seq \in received.earlier
                 \/ g.seq = d.seq
      <4>1. g.seq \in Nat
        BY <1>2 DEF TypeOK, StateDatagram
      <4>2. CASE d.seq - g.seq = shift
        BY <1>5, <2>1, <4>1, <4>2
      <4>3. CASE (d.seq - g.seq) - shift \in received.earlier
        <5>1. (d.seq - g.seq) - shift = latest - g.seq
          BY <1>5, <2>1, <4>1
        <5> QED BY <4>3, <5>1
      <4> HIDE DEF shift
      <4> QED BY <3>3, <4>2, <4>3
    <3> HIDE DEF earlier, latest
    <3>4. received'.latest = d.seq /\ received'.earlier = earlier
      BY <3>1
    <3> QED BY <1>5, <3>1, <3>2, <3>3, <3>4 DEF Covers, latest
  <2>3. CASE ~(d.seq > latest)
    <3> DEFINE earlier == received.earlier
                          \cup (IF d.seq < latest /\ latest - d.seq <= AckBits THEN {latest - d.seq} ELSE {})
    <3>1. received' = [latest |-> latest, earlier |-> earlier, due |-> TRUE]
      BY <1>1, <2>3 DEF Receive
    <3>2. earlier \subseteq 1..AckBits
      BY <1>5, <2>1, <2>3
    <3>3. ASSUME NEW g \in states, g.seq = latest \/ latest - g.seq \in earlier
          PROVE  \/ g.seq = latest \/ latest - g.seq \in received.earlier
                 \/ g.seq = d.seq
      <4>1. g.seq \in Nat
        BY <1>2 DEF TypeOK, StateDatagram
      <4>2. CASE latest - g.seq = latest - d.seq
        BY <1>5, <2>1, <4>1, <4>2
      <4> QED BY <3>3, <4>2
    <3> HIDE DEF earlier, latest
    <3>4. received'.latest = latest /\ received'.earlier = earlier
      BY <3>1
    <3> QED BY <2>1, <3>1, <3>2, <3>3, <3>4 DEF Covers, latest
  <2> QED BY <2>2, <2>3
<1>7. \A e \in Mapped : mapped[e].id \in Ids /\ e \in Entities
  BY <1>2 DEF Mapped, TypeOK, Mapping
<1>8. TypeOK'
  BY <1>1, <1>2, <1>3, <1>6 DEF TypeOK, worldVars, serverVars, lookVars, netVars
<1>9. Streams'
  BY <1>3, <1>4, <1>7 DEF IInv, Streams, Mapped, Used
<1>10. AckedIsMirrored' /\ Records'
  BY <1>3, <1>4, <1>7 DEF IInv, AckedIsMirrored, Records, Mapped, Used
<1>11. Numbering'
  <2>1. \A i \in Ids, c \in Components : mirror'[i].copies[c].at <= tick
    BY <1>3, <1>5 DEF IInv, Numbering
  <2> QED BY <1>1, <1>4, <1>6, <2>1 DEF IInv, Numbering
<1>12. \A i \in Ids, c \in Components : mirror'[i].copies[c].at >= mirror[i].copies[c].at
  BY <1>3, <1>5
<1>13. Copies'
  <2>1. ASSUME NEW e \in Mapped, NEW c \in Components
        PROVE  LET replica == mapped[e].replicas[c]
                   copy == mirror'[mapped[e].id].copies[c]
               IN  /\ replica.value # None => replica.changedAt # 0
                   /\ replica.ackedAt # 0 => mapped[e].acked
                   /\ replica.changedAt # 0 /\ copy.at >= replica.changedAt
                         => copy.value = replica.value
                   /\ copy.at >= replica.ackedAt
    <3> DEFINE replica == mapped[e].replicas[c]
               was == mirror[mapped[e].id].copies[c]
               copy == mirror'[mapped[e].id].copies[c]
    <3>1. /\ replica.value # None => replica.changedAt # 0
          /\ replica.ackedAt # 0 => mapped[e].acked
          /\ replica.changedAt # 0 /\ was.at >= replica.changedAt => was.value = replica.value
          /\ was.at >= replica.ackedAt
      BY DEF IInv, Copies, CopyOf
    <3>2. replica.ackedAt \in Nat /\ was.at \in Nat
      BY <1>2, <1>5, <1>7 DEF TypeOK, Mapping, Replica
    <3>3. CASE copy = was
      BY <3>1, <3>3
    <3>4. CASE /\ copy.at = d.tick /\ d.tick >= was.at
               /\ \E r \in d.records : r.id = mapped[e].id /\ r.component = c /\ r.value = copy.value
      <4>1. d.tick >= replica.changedAt => copy.value = replica.value
        BY <3>4 DEF IInv, Records
      <4> HIDE DEF replica, was, copy
      <4>2. copy.at >= replica.ackedAt
        BY <1>5, <3>1, <3>2, <3>4
      <4>3. \/ replica.changedAt = 0 \/ ~(copy.at >= replica.changedAt) \/ copy.value = replica.value
        BY <3>4, <4>1
      <4> QED BY <3>1, <4>2, <4>3 DEF replica, copy
    <3> QED BY <1>3, <1>7, <3>3, <3>4, ZenonT(60)
  <2> QED BY <1>4, <2>1 DEF Copies, CopyOf, Mapped
<1>14. Applied'
  <2>1. ASSUME NEW g \in states, NEW r \in g.records, NEW e \in Mapped, r.id = mapped[e].id,
               Covers(received', g.seq) \/ \E a \in acks : Covers(a, g.seq)
        PROVE  mirror'[mapped[e].id].copies[r.component].at >= g.tick
    <3>1. r.component \in Components /\ mapped[e].id \in Ids /\ g.tick \in Nat
      BY <1>2, <1>7 DEF TypeOK, StateDatagram, Record
    <3>2. CASE Covers(received, g.seq) \/ \E a \in acks : Covers(a, g.seq)
      <4>1. mirror[mapped[e].id].copies[r.component].at >= g.tick
        BY <2>1, <3>2 DEF IInv, Applied, CopyOf
      <4>2. mirror'[mapped[e].id].copies[r.component].at >= mirror[mapped[e].id].copies[r.component].at
        BY <1>12, <3>1
      <4>3. mirror'[mapped[e].id].copies[r.component].at \in Nat
        BY <1>3, <1>5, <3>1
      <4> QED BY <1>5, <3>1, <4>1, <4>2, <4>3
    <3>3. CASE g.seq = d.seq
      <4>1. g = d
        BY <3>3 DEF IInv, Numbering
      <4>2. mapped[e].acked
        BY <2>1 DEF IInv, Records
      <4>3. mirror[mapped[e].id].held
        BY <4>2 DEF IInv, AckedIsMirrored
      <4> QED BY <1>3, <1>5, <2>1, <3>1, <4>1, <4>3
    <3> QED BY <1>6, <2>1, <3>2, <3>3
  <2> QED BY <1>4, <2>1 DEF Applied, CopyOf, Mapped, Covers
<1> QED BY <1>8, <1>9, <1>10, <1>11, <1>13, <1>14 DEF IInv

\* an acknowledgement of states heard,
LEMMA ReceiveStateAckKeeps ==
    ASSUME IInv, NEW a \in acks, ReceiveStateAck(a)
    PROVE  IInv'
<1> DEFINE shown == ShownBy(a)
           ticks(e, c) == {s.tick : s \in {t \in shown : <<mapped[e].id, c>> \in t.records}}
           is(e, c) == IF ticks(e, c) = {} THEN mapped[e].replicas[c]
                       ELSE [mapped[e].replicas[c] EXCEPT !.ackedAt = Larger(@, Greatest(ticks(e, c)))]
           reach == IF a.latest <= sequence THEN a.latest ELSE sequence
<1>1. /\ sent' = {s \in {IF t \in shown THEN [t EXCEPT !.acked = TRUE] ELSE t : t \in sent} :
                      s.seq + AckBits >= reach}
      /\ mapped' = [e \in Entities |-> [mapped[e] EXCEPT !.replicas = [c \in Components |-> is(e, c)]]]
      /\ UNCHANGED <<worldVars, lookVars, nextNet, unacked, sequence, struck, netVars, clientVars>>
  BY DEF ReceiveStateAck
<1>2. TypeOK
  BY DEF IInv
<1>3. shown \subseteq sent /\ \A s \in shown : Covers(a, s.seq)
  BY DEF ShownBy, Covers
<1> HIDE DEF shown
<1>4. /\ \A e \in Entities : mapped[e] \in Mapping /\ mapped[e].replicas \in [Components -> Replica]
      /\ \A e \in Entities, c \in Components : mapped[e].replicas[c] \in Replica
      /\ \A e \in Mapped : mapped[e].id \in Ids /\ e \in Entities
      /\ tick \in Nat
  BY <1>2 DEF TypeOK, Mapping, Mapped
\* What an acknowledgement shows of a mapping, its client holds.
<1>5. ASSUME NEW e \in Entities, NEW c \in Components, NEW n \in ticks(e, c)
      PROVE  /\ n \in Nat /\ n <= tick
             /\ mapped[e].id # 0 => mapped[e].acked /\ CopyOf(e, c).at >= n
  <2>1. PICK s \in shown : n = s.tick /\ <<mapped[e].id, c>> \in s.records
    OBVIOUS
  <2>2. PICK d \in states : d.seq = s.seq /\ d.tick = s.tick /\ SentOf(d).records = s.records
    BY <1>3 DEF IInv, Numbering
  <2>3. PICK r \in d.records : <<mapped[e].id, c>> = <<r.id, r.component>>
    BY <2>1, <2>2 DEF SentOf
  <2>4. d.tick \in Nat /\ d.tick <= tick
    BY <1>2 DEF TypeOK, StateDatagram, IInv, Numbering
  <2>5. ASSUME mapped[e].id # 0
        PROVE  mapped[e].acked /\ CopyOf(e, c).at >= d.tick
    <3>1. e \in Mapped /\ r.id = mapped[e].id /\ r.component = c
      BY <2>3, <2>5 DEF Mapped
    <3>2. Covers(a, d.seq)
      BY <1>3, <2>1, <2>2
    <3> QED BY <3>1, <3>2 DEF IInv, Records, Applied
  <2> QED BY <2>1, <2>2, <2>4, <2>5
<1>6. ASSUME NEW e \in Entities, NEW c \in Components
      PROVE  /\ is(e, c) \in Replica
             /\ is(e, c).value = mapped[e].replicas[c].value
             /\ is(e, c).changedAt = mapped[e].replicas[c].changedAt
             /\ \/ is(e, c).ackedAt = mapped[e].replicas[c].ackedAt
                \/ is(e, c).ackedAt \in ticks(e, c)
  <2> DEFINE m == Greatest(ticks(e, c))
             was == mapped[e].replicas[c]
  <2>1. CASE ticks(e, c) = {}
    BY <1>4, <2>1
  <2>2. CASE ticks(e, c) # {}
    <3>1. m \in ticks(e, c)
      <4>1. ticks(e, c) \subseteq Nat /\ \A n \in ticks(e, c) : n <= tick
        BY <1>5
      <4> HIDE DEF ticks
      <4> QED BY <1>4, <2>2, <4>1, GreatestIsGreatest
    <3>2. m \in Nat
      BY <1>5, <3>1
    <3>3. is(e, c) = [was EXCEPT !.ackedAt = Larger(@, m)] /\ was \in Replica
      BY <1>4, <2>2
    <3> HIDE DEF m, was, is, ticks
    <3>4. Larger(was.ackedAt, m) \in Nat /\ Larger(was.ackedAt, m) \in {was.ackedAt, m}
      BY <3>2, <3>3 DEF Larger, Replica
    <3>5. /\ is(e, c) \in Replica /\ is(e, c).value = was.value /\ is(e, c).changedAt = was.changedAt
          /\ is(e, c).ackedAt = Larger(was.ackedAt, m)
      BY <3>3, <3>4 DEF Replica
    <3> QED BY <3>1, <3>4, <3>5 DEF was
  <2> QED BY <2>1, <2>2
<1> HIDE DEF is
<1>7. ASSUME NEW e \in Entities
      PROVE  /\ mapped'[e] \in Mapping /\ mapped'[e].id = mapped[e].id
             /\ mapped'[e].acked = mapped[e].acked
             /\ \A c \in Components : mapped'[e].replicas[c] = is(e, c)
  <2> DEFINE f == [c \in Components |-> is(e, c)]
  <2>1. f \in [Components -> Replica] /\ \A c \in Components : f[c] = is(e, c)
    BY <1>6
  <2>2. mapped'[e] = [mapped[e] EXCEPT !.replicas = f]
    BY <1>1
  <2> HIDE DEF f
  <2>3. ASSUME NEW m \in Mapping
        PROVE  LET k == [m EXCEPT !.replicas = f]
               IN  k \in Mapping /\ k.id = m.id /\ k.acked = m.acked /\ k.replicas = f
    BY <2>1 DEF Mapping
  <2> QED BY <1>4, <2>1, <2>2, <2>3
<1>8. ASSUME NEW s \in sent'
      PROVE  /\ s \in SentState
             /\ \E t \in sent : s.seq = t.seq /\ s.tick = t.tick /\ s.records = t.records
  <2>1. PICK t \in sent : s = IF t \in shown THEN [t EXCEPT !.acked = TRUE] ELSE t
    BY <1>1
  <2>2. t \in SentState
    BY <1>2 DEF TypeOK
  <2>3. [t EXCEPT !.acked = TRUE] \in SentState /\ [t EXCEPT !.acked = TRUE].seq = t.seq
        /\ [t EXCEPT !.acked = TRUE].tick = t.tick /\ [t EXCEPT !.acked = TRUE].records = t.records
    BY <2>2 DEF SentState
  <2> QED BY <2>1, <2>2, <2>3
<1>9. Mapped' = Mapped
  BY <1>7 DEF Mapped
<1>10. UNCHANGED <<tick, stepped, nextNet, sequence, toClient, toServer, states, acks, mirror, received>>
  BY <1>1 DEF worldVars, netVars, clientVars
<1>11. TypeOK'
  <2>1. mapped' \in [Entities -> Mapping]
    BY <1>1, <1>7
  <2>2. sent' \subseteq SentState
    BY <1>8
  <2> QED BY <1>1, <1>2, <2>1, <2>2 DEF TypeOK, worldVars, lookVars, netVars, clientVars
<1>12. Streams'
  BY <1>4, <1>7, <1>9, <1>10 DEF IInv, Streams, Used
<1>13. AckedIsMirrored'
  BY <1>4, <1>7, <1>9, <1>10 DEF IInv, AckedIsMirrored
<1>14. Numbering'
  <2>1. \A s \in sent' : \E d \in states :
           d.seq = s.seq /\ d.tick = s.tick /\ SentOf(d).records = s.records
    <3> SUFFICES ASSUME NEW s \in sent'
                 PROVE  \E d \in states :
                           d.seq = s.seq /\ d.tick = s.tick /\ SentOf(d).records = s.records
      OBVIOUS
    <3>1. PICK t \in sent : s.seq = t.seq /\ s.tick = t.tick /\ s.records = t.records
      BY <1>8
    <3> QED BY <3>1 DEF IInv, Numbering
  <2> QED BY <1>10, <2>1 DEF IInv, Numbering
<1>15. Records'
  <2>1. ASSUME NEW d \in states, NEW r \in d.records, NEW e \in Mapped, r.id = mapped[e].id
        PROVE  /\ mapped'[e].acked
               /\ d.tick >= mapped'[e].replicas[r.component].changedAt
                     => r.value = mapped'[e].replicas[r.component].value
    <3>1. r.component \in Components /\ e \in Entities
      BY <1>2, <1>4 DEF TypeOK, StateDatagram, Record
    <3>2. /\ mapped'[e].acked = mapped[e].acked
          /\ mapped'[e].replicas[r.component].value = mapped[e].replicas[r.component].value
          /\ mapped'[e].replicas[r.component].changedAt = mapped[e].replicas[r.component].changedAt
      BY <1>6, <1>7, <3>1
    <3>3. /\ mapped[e].acked
          /\ d.tick >= mapped[e].replicas[r.component].changedAt
                => r.value = mapped[e].replicas[r.component].value
      BY <2>1 DEF IInv, Records
    <3> QED BY <3>2, <3>3
  <2>2. \A d \in states : \A r \in d.records : Used(r.id)
    BY DEF IInv, Records
  <2> QED BY <1>4, <1>7, <1>9, <1>10, <2>1, <2>2 DEF Records, Used
<1>16. Copies'
  <2>1. ASSUME NEW e \in Mapped, NEW c \in Components
        PROVE  LET replica == mapped'[e].replicas[c]
                   copy == CopyOf(e, c)
               IN  /\ replica.value # None => replica.changedAt # 0
                   /\ replica.ackedAt # 0 => mapped'[e].acked
                   /\ replica.changedAt # 0 /\ copy.at >= replica.changedAt
                         => copy.value = replica.value
                   /\ copy.at >= replica.ackedAt
    <3>1. e \in Entities /\ mapped[e].id # 0
      BY DEF Mapped
    <3>2. LET replica == mapped[e].replicas[c]
              copy == CopyOf(e, c)
          IN  /\ replica.value # None => replica.changedAt # 0
              /\ replica.ackedAt # 0 => mapped[e].acked
              /\ replica.changedAt # 0 /\ copy.at >= replica.changedAt
                    => copy.value = replica.value
              /\ copy.at >= replica.ackedAt
      BY DEF IInv, Copies
    <3>3. is(e, c).ackedAt \in ticks(e, c) => mapped[e].acked /\ CopyOf(e, c).at >= is(e, c).ackedAt
      BY <1>5, <3>1
    <3> HIDE DEF ticks
    <3> QED BY <1>6, <1>7, <3>1, <3>2, <3>3
  <2> QED BY <1>4, <1>7, <1>9, <1>10, <2>1 DEF Copies, CopyOf
<1>17. Applied'
  <2>1. \A e \in Mapped, c \in Components : CopyOf(e, c)' = CopyOf(e, c)
    BY <1>4, <1>7, <1>10 DEF CopyOf
  <2>2. \A q, h : Covers(h, q) <=> (q = h.latest \/ h.latest - q \in h.earlier)
    BY DEF Covers
  <2> QED BY <1>4, <1>7, <1>9, <1>10 DEF IInv, Applied, Covers, CopyOf
<1> QED BY <1>11, <1>12, <1>13, <1>14, <1>15, <1>16, <1>17 DEF IInv

\* and a stutter.
LEMMA StutterKeeps ==
    ASSUME IInv, UNCHANGED vars
    PROVE  IInv'
<1>1. UNCHANGED <<worldVars, serverVars, lookVars, netVars, clientVars>>
  BY DEF vars, serverVars
<1>2. TypeOK'
  BY <1>1 DEF IInv, TypeOK, worldVars, serverVars, lookVars, netVars, clientVars
<1>3. UNCHANGED <<tick, stepped, nextNet, sequence, sent, toClient, toServer, states, acks,
                  mirror, received, mapped>>
  BY <1>1 DEF worldVars, serverVars, netVars, clientVars
<1>4. Streams' /\ AckedIsMirrored' /\ Numbering'
  BY <1>3, SMTT(60) DEF IInv, Streams, AckedIsMirrored, Numbering, Mapped, Used
<1>5. Records' /\ Copies' /\ Applied'
  BY <1>3, SMTT(60) DEF IInv, Records, Copies, Applied, Mapped, Used, CopyOf, Covers
<1> QED BY <1>2, <1>4, <1>5 DEF IInv

-----------------------------------------------------------------------------
(* The theorems. *)

\* IInv holds in every state the server, the network and the client reach.
THEOREM Inductive == Spec => []IInv
<1>1. IInv /\ [Next]_vars => IInv'
  <2> SUFFICES ASSUME IInv, [Next]_vars PROVE IInv'
    OBVIOUS
  <2>1. CASE \E w \in Worlds, held \in SUBSET Entities : \E in \in SUBSET held : Step(w, in, held)
    BY <2>1, StepKeeps
  <2>2. CASE PublishNothing
    BY <2>2, PublishNothingKeeps
  <2>3. CASE \E arrived \in BOOLEAN : Publish(arrived)
    BY <2>3, PublishKeeps
  <2>4. CASE ReceiveMappingAck
    BY <2>4, ReceiveMappingAckKeeps
  <2>5. CASE ReceiveFrame
    BY <2>5, ReceiveFrameKeeps
  <2>6. CASE SendStateAck
    BY <2>6, SendStateAckKeeps
  <2>7. CASE \E d \in states : ReceiveState(d)
    BY <2>7, ReceiveStateKeeps
  <2>8. CASE \E a \in acks : ReceiveStateAck(a)
    BY <2>8, ReceiveStateAckKeeps
  <2>9. CASE UNCHANGED vars
    BY <2>9, StutterKeeps
  <2> QED BY <2>1, <2>2, <2>3, <2>4, <2>5, <2>6, <2>7, <2>8, <2>9 DEF Next, Deliver
<1> QED BY <1>1, InitIInv, PTL DEF Spec

\* Every variable of the server's peer and of the client keeps its type:
\* publishTo and onState leave well-formed mappings, IDs and datagrams.
THEOREM TypeCorrect == Spec => []TypeOK
<1>1. IInv => TypeOK
  BY DEF IInv
<1> QED BY <1>1, Inductive, PTL

\* A mapping the server takes as acknowledged (server.cpp's onFrame) is one
\* the client mirrors, whatever is under way.
THEOREM AckedMirrored == Spec => []AckedIsMirrored
<1>1. IInv => AckedIsMirrored
  BY DEF IInv
<1> QED BY <1>1, Inductive, PTL

\* What Replica::held (peers.h) takes the client to hold, the client shows,
\* whatever was lost, duplicated, delayed or reordered.
THEOREM HeldShown == Spec => []HeldIsShown
<1>1. IInv => HeldIsShown
  <2> SUFFICES ASSUME IInv, NEW e \in Mapped, NEW c \in Components,
                      HeldAs(mapped[e].replicas[c], mapped[e].replicas[c].value)
               PROVE  Shown(e, c) = mapped[e].replicas[c].value
    BY DEF HeldIsShown
  <2>1. /\ mapped[e].id \in Ids /\ mapped[e].replicas[c] \in Replica
    BY DEF IInv, TypeOK, Mapping, Mapped
  <2>2. /\ mapped[e].replicas[c].changedAt \in Nat /\ mapped[e].replicas[c].ackedAt \in Nat
        /\ CopyOf(e, c).at \in Nat
    BY <2>1 DEF IInv, TypeOK, Replica, Mirror, Copy, CopyOf
  <2> QED BY <2>2 DEF IInv, Copies, HeldAs, Shown, CopyOf
<1> QED BY <1>1, Inductive, PTL

\* What the client shows under an ID never goes back to an older state while
\* it mirrors the ID (onState's staging), in whatever order datagrams arrive.
THEOREM OlderNever == Spec => NeverOlder
<1> DEFINE A == \A i \in Ids, c \in Components :
        mirror[i].held /\ mirror'[i].held => mirror'[i].copies[c].at >= mirror[i].copies[c].at
<1>1. IInv /\ [Next]_vars => A
  <2> SUFFICES ASSUME IInv, [Next]_vars, NEW i \in Ids, NEW c \in Components,
                      mirror[i].held, mirror'[i].held
               PROVE  mirror'[i].copies[c].at >= mirror[i].copies[c].at
    OBVIOUS
  <2>1. TypeOK /\ mirror[i].copies[c].at \in Nat
    BY DEF IInv, TypeOK, Mirror, Copy
  <2>2. CASE UNCHANGED mirror
    BY <2>1, <2>2
  <2>3. CASE ReceiveFrame
    <3>1. \/ UNCHANGED mirror
          \/ /\ Head(toClient).ids \cap Mirrored = {}
             /\ mirror' = [j \in Ids |-> IF j \in Head(toClient).ids THEN NewMirror ELSE mirror[j]]
          \/ mirror' = [j \in Ids |-> IF j \in Head(toClient).ids THEN NoMirror ELSE mirror[j]]
      BY <2>3 DEF ReceiveFrame, Declare, Retire
    <3>2. NoMirror.held = FALSE
      BY DEF NoMirror
    <3> QED BY <2>1, <3>1, <3>2 DEF Mirrored
  <2>4. CASE \E d \in states : ReceiveState(d)
    <3>1. PICK d \in states : ReceiveState(d)
      BY <2>4
    <3> QED BY <2>1, <3>1, CopiesAfter
  <2>5. CASE \/ \E w \in Worlds, held \in SUBSET Entities : \E in \in SUBSET held : Step(w, in, held)
             \/ PublishNothing \/ ReceiveMappingAck \/ SendStateAck
             \/ \E arrived \in BOOLEAN : Publish(arrived)
             \/ \E a \in acks : ReceiveStateAck(a)
             \/ UNCHANGED vars
    BY <2>2, <2>5 DEF Step, PublishNothing, ReceiveMappingAck, SendStateAck, Publish,
                      ReceiveStateAck, vars, clientVars
  <2> QED BY <2>3, <2>4, <2>5 DEF Next, Deliver
<1>2. Spec => [][A]_vars
  BY <1>1, Inductive, PTL DEF Spec
<1> QED BY <1>2 DEF NeverOlder

-----------------------------------------------------------------------------
(* What the publish in progress works out, in turn. *)

Leavers == Leaving(Noted)
Retirees == Retired(Leavers)
PlayerNew == PlayerDeclared(Retirees)
Enterers == Entering(Noted, Retirees)
Entrants == Entered(Enterers, Retirees)
NewIds == Numbered(PlayerNew, Entrants)
Renewed == Remapped(Leavers, Retirees, NewIds)
Scanned == Looked(Noted, Renewed, NewIds)
Opened == Open(Scanned, Renewed)
Pending == Unheld(Opened, Renewed)
Eligible == Candidates(Pending, Renewed)
Taken == Written(Eligible)
Outgoing(arrived) == Datagrams(Renewed, Opened, Pending, Taken, arrived)
Outcount(arrived) == DatagramCount(Opened, Pending, Taken, arrived)
Outframes == Frames(Retirees, NewIds, PlayerNew # {})

\* The step of a publish, in these names.
LEMMA PublishUnfolds ==
    ASSUME NEW arrived \in BOOLEAN, Publish(arrived)
    PROVE  /\ stepped /\ (tick + Phase) % StatePeriod = 0
           /\ stepped' = FALSE /\ changed' = Noted /\ previous' = world /\ lookedAt' = tick
           /\ bounded' = (Leavers # Retirees \/ Enterers # Entrants)
           /\ nextNet' = IF Cardinality(DOMAIN NewIds) = IdsLeft THEN 0
                         ELSE nextNet + Cardinality(DOMAIN NewIds)
           /\ unacked' = IF DOMAIN NewIds = {} THEN unacked ELSE Append(unacked, IdSet(NewIds))
           /\ toClient' = toClient \o Outframes
           /\ mapped' = Sent(Renewed, Eligible, DOMAIN Taken)
           /\ unsettled' = (Scanned \ Opened) \cup {s[1] : s \in Pending}
           /\ sequence' = sequence + Outcount(arrived)
           /\ \/ arrived /\ states' = states \cup Outgoing(arrived)
              \/ ~arrived /\ states' = states
           /\ UNCHANGED <<tick, world, near, within, struck, toServer, acks, clientVars>>
BY DEF Publish, Leavers, Retirees, PlayerNew, Enterers, Entrants, NewIds, Renewed, Scanned,
       Opened, Pending, Eligible, Taken, Outgoing, Outcount, Outframes

\* What they are.
LEMMA PublishParts ==
    ASSUME TypeOK
    PROVE  /\ Retirees \subseteq Leavers /\ Leavers \subseteq Mapped
           /\ PlayerNew \subseteq {Player} /\ Enterers \subseteq Entities \ PlayerNew
           /\ Entrants \subseteq Enterers /\ DOMAIN NewIds = PlayerNew \cup Entrants
           /\ GivenIds(NewIds)
           /\ Renewed \in [Entities -> Mapping]
           /\ \A e \in DOMAIN NewIds : Renewed[e] = NewMapping(NewIds[e])
           /\ \A e \in Entities : e \notin DOMAIN NewIds /\ e \in Retirees => Renewed[e] = NoMapping
           /\ \A e \in Entities : e \notin DOMAIN NewIds /\ e \notin Retirees =>
                 /\ Renewed[e].id = mapped[e].id /\ Renewed[e].acked = mapped[e].acked
                 /\ Renewed[e].replicas = mapped[e].replicas
           /\ Scanned \subseteq Entities /\ Opened \subseteq Scanned
           /\ \A e \in Opened : Renewed[e].id # 0 /\ Renewed[e].acked
           /\ Eligible \subseteq Pending /\ Pending \subseteq Opened \X Components
           /\ \A s \in Pending : ValueIn(s) # None
           /\ DOMAIN Taken \subseteq Eligible
<1>1. Retirees \subseteq Leavers /\ Leavers \subseteq Mapped
  BY RetiredType DEF Retirees, Leavers
<1>2. PlayerNew \subseteq {Player} /\ Enterers \subseteq Entities \ PlayerNew
  BY PlayerDeclaredType, EnteringType DEF PlayerNew, Enterers
<1>3. Entrants \subseteq Enterers /\ DOMAIN NewIds = PlayerNew \cup Entrants
  BY DEF Entrants, Entered, NewIds, Numbered
<1>4. GivenIds(NewIds)
  <2>1. GivenIds(Numbered(PlayerDeclared(Retirees), Entered(Enterers, Retirees)))
    BY <1>2, NumberedIds DEF PlayerNew
  <2> QED BY <2>1 DEF NewIds, PlayerNew, Entrants
<1>5. DOMAIN NewIds \subseteq Entities /\ \A e \in DOMAIN NewIds : NewIds[e] \in Ids
  BY <1>4 DEF GivenIds
<1>6. /\ Renewed \in [Entities -> Mapping]
      /\ \A e \in DOMAIN NewIds : Renewed[e] = NewMapping(NewIds[e])
      /\ \A e \in Entities : e \notin DOMAIN NewIds /\ e \in Retirees => Renewed[e] = NoMapping
      /\ \A e \in Entities : e \notin DOMAIN NewIds /\ e \notin Retirees =>
            /\ Renewed[e].id = mapped[e].id /\ Renewed[e].acked = mapped[e].acked
            /\ Renewed[e].replicas = mapped[e].replicas
  BY <1>5, RemappedType DEF Renewed
<1>7. /\ Scanned \subseteq Entities /\ Opened \subseteq Scanned
      /\ \A e \in Opened : Renewed[e].id # 0 /\ Renewed[e].acked
      /\ Eligible \subseteq Pending /\ Pending \subseteq Opened \X Components
      /\ \A s \in Pending : ValueIn(s) # None
      /\ DOMAIN Taken \subseteq Eligible
  BY <1>6, WrittenType DEF Scanned, Opened, Pending, Eligible, Taken
<1> QED BY <1>1, <1>2, <1>3, <1>4, <1>6, <1>7

\* A replica not open to sending is left as it was; any keeps what the client
\* is known to hold.
LEMMA SentElsewhere ==
    ASSUME TypeOK
    PROVE  LET new == Sent(Renewed, Eligible, DOMAIN Taken)
           IN  /\ new \in [Entities -> Mapping]
               /\ \A e \in Entities :
                    /\ new[e].id = Renewed[e].id /\ new[e].acked = Renewed[e].acked
                    /\ new[e].retiring = Renewed[e].retiring
                    /\ \A c \in Components : <<e, c>> \notin Eligible =>
                          new[e].replicas[c] = Renewed[e].replicas[c]
<1> DEFINE new == Sent(Renewed, Eligible, DOMAIN Taken)
           replica(e, c) ==
              IF <<e, c>> \in DOMAIN Taken
              THEN [value     |-> world[e][c],
                    changedAt |-> IF Renewed[e].replicas[c].value = world[e][c]
                                  THEN Renewed[e].replicas[c].changedAt ELSE tick,
                    sentAt    |-> tick,
                    ackedAt   |-> Renewed[e].replicas[c].ackedAt,
                    priority  |-> 0]
              ELSE IF <<e, c>> \in Eligible
              THEN [Renewed[e].replicas[c] EXCEPT !.priority = PriorityOf(<<e, c>>)]
              ELSE Renewed[e].replicas[c]
<1>1. /\ Renewed \in [Entities -> Mapping]
      /\ Eligible \subseteq Entities \X Components /\ DOMAIN Taken \subseteq Eligible
      /\ \A s \in DOMAIN Taken : ValueIn(s) # None
  BY PublishParts
<1>2. /\ new \in [Entities -> Mapping]
      /\ \A e \in Entities : new[e].id = Renewed[e].id /\ new[e].acked = Renewed[e].acked
  BY <1>1, SentType
<1>3. ASSUME NEW e \in Entities
      PROVE  /\ new[e].retiring = Renewed[e].retiring
             /\ \A c \in Components : <<e, c>> \notin Eligible =>
                   new[e].replicas[c] = Renewed[e].replicas[c]
  <2>1. new[e] = [Renewed[e] EXCEPT !.replicas = [c \in Components |-> replica(e, c)]]
    BY DEF Sent
  <2> HIDE DEF new, replica
  <2>2. Renewed[e] \in Mapping
    BY <1>1
  <2>3. ASSUME NEW m \in Mapping, NEW f, NEW k, k = [m EXCEPT !.replicas = f]
        PROVE  k.retiring = m.retiring /\ k.replicas = f
    BY <2>3 DEF Mapping
  <2>4. new[e].retiring = Renewed[e].retiring /\ new[e].replicas = [c \in Components |-> replica(e, c)]
    BY <2>1, <2>2, <2>3
  <2>5. \A c \in Components : <<e, c>> \notin Eligible => replica(e, c) = Renewed[e].replicas[c]
    BY <1>1 DEF replica
  <2> QED BY <2>4, <2>5
<1> QED BY <1>2, <1>3

\* A state of this tick that says the player is whole carries each of its
\* values that the server does not know the client to hold.
WholeKnown ==
    ~stepped => \A d \in states :
        d.whole /\ d.tick = tick /\ mapped[Player].id # 0 =>
            \A c \in Components :
                \/ world[Player][c] = None
                \/ \E r \in d.records : r.id = mapped[Player].id /\ r.component = c
                \/ HeldAs(mapped[Player].replicas[c], world[Player][c])

\* What a state just made says of the player.
LEMMA PublishWhole ==
    ASSUME IInv, NEW arrived \in BOOLEAN, Publish(arrived)
    PROVE  WholeKnown'
<1>1. SUFFICES ASSUME NEW d \in states', d.whole, d.tick = tick', mapped'[Player].id # 0,
                      NEW c \in Components, world[Player][c] # None,
                      ~(\E r \in d.records : r.id = mapped'[Player].id /\ r.component = c)
               PROVE  HeldAs(mapped'[Player].replicas[c], world[Player][c])
  BY PublishUnfolds DEF WholeKnown
<1>2. TypeOK /\ Numbering /\ stepped
  BY PublishUnfolds DEF IInv
<1>3. d \in Outgoing(arrived)
  <2>1. d \in states \/ d \in Outgoing(arrived)
    BY PublishUnfolds
  <2>2. \A g \in states : g.tick < tick /\ g.tick \in Nat /\ tick \in Nat
    BY <1>2 DEF Numbering, TypeOK, StateDatagram
  <2>3. tick' = tick
    BY PublishUnfolds
  <2>4. d \notin states
    <3>1. d \in states => d.tick < tick /\ d.tick \in Nat
      BY <2>2
    <3>2. d.tick = tick
      BY <1>1, <2>3
    <3> QED BY <1>2, <3>1, <3>2 DEF TypeOK
  <2> QED BY <2>1, <2>4
<1>4. PICK n \in 0 .. (Outcount(arrived) - 1) :
         d = [seq     |-> sequence + 1 + n,
              tick    |-> tick,
              whole   |-> Whole(Opened, Pending, Inside(Taken, n)),
              records |-> RecordsOf(Renewed, Inside(Taken, n))]
  BY <1>3, Zenon DEF Outgoing, Outcount, Datagrams
<1>5. Whole(Opened, Pending, Inside(Taken, n)) /\ d.records = RecordsOf(Renewed, Inside(Taken, n))
  BY <1>1, <1>4
<1>6. Player \in Opened /\ Player \in Entities
  BY <1>5, ReplicationAssumption DEF Whole
<1>7. mapped' = Sent(Renewed, Eligible, DOMAIN Taken)
  BY PublishUnfolds
<1>8. mapped'[Player].id = Renewed[Player].id
  BY <1>2, <1>6, <1>7, SentElsewhere
<1>9. <<Player, c>> \notin Inside(Taken, n)
  <2>1. SUFFICES ASSUME <<Player, c>> \in Inside(Taken, n)
                 PROVE  \E r \in d.records : r.id = mapped'[Player].id /\ r.component = c
    BY <1>1
  <2>2. [id |-> Renewed[Player].id, component |-> c, value |-> ValueIn(<<Player, c>>)] \in d.records
    BY <1>5, <2>1 DEF RecordsOf
  <2> QED BY <1>8, <2>2
<1>10. <<Player, c>> \notin Pending
  BY <1>5, <1>9 DEF Whole
<1>11. HeldAs(Renewed[Player].replicas[c], world[Player][c])
  <2>1. <<Player, c>> \in Opened \X Components /\ ValueIn(<<Player, c>>) = world[Player][c]
    BY <1>6 DEF ValueIn
  <2>2. HeldAs(ReplicaIn(Renewed, <<Player, c>>), ValueIn(<<Player, c>>))
    BY <1>1, <1>10, <2>1 DEF Pending, Unheld
  <2> QED BY <2>1, <2>2 DEF ReplicaIn
<1>12. mapped'[Player].replicas[c] = Renewed[Player].replicas[c]
  BY <1>2, <1>6, <1>7, <1>10, PublishParts, SentElsewhere
<1> QED BY <1>11, <1>12

\* An acknowledgement of state changes of a mapping only how new its client's
\* copies are known to be, which it never makes less.
LEMMA AckedAtGrows ==
    ASSUME IInv, NEW a \in acks, ReceiveStateAck(a), NEW e \in Entities
    PROVE  /\ mapped'[e].id = mapped[e].id /\ mapped'[e].acked = mapped[e].acked
           /\ mapped'[e].retiring = mapped[e].retiring
           /\ \A c \in Components :
                 LET was == mapped[e].replicas[c]
                     is == mapped'[e].replicas[c]
                 IN  /\ is.value = was.value /\ is.changedAt = was.changedAt
                     /\ is.sentAt = was.sentAt /\ is.priority = was.priority
                     /\ is.ackedAt \in Nat /\ is.ackedAt >= was.ackedAt
<1> DEFINE shown == ShownBy(a)
           ticks(c) == {s.tick : s \in {t \in shown : <<mapped[e].id, c>> \in t.records}}
           is(c) == IF ticks(c) = {} THEN mapped[e].replicas[c]
                    ELSE [mapped[e].replicas[c] EXCEPT !.ackedAt = Larger(@, Greatest(ticks(c)))]
<1>1. mapped'[e] = [mapped[e] EXCEPT !.replicas = [c \in Components |-> is(c)]]
  BY DEF ReceiveStateAck
<1>2. \A c \in Components : \A n \in ticks(c) : n \in Nat /\ n <= tick
  <2>1. \A s \in sent : \E d \in states : s.tick = d.tick /\ d.tick \in Nat /\ d.tick <= tick
    BY DEF IInv, Numbering, TypeOK, StateDatagram
  <2> QED BY <2>1 DEF ShownBy
<1> HIDE DEF ticks
<1>3. mapped[e] \in Mapping /\ tick \in Nat
  BY DEF IInv, TypeOK
<1>4. ASSUME NEW c \in Components
      PROVE  LET was == mapped[e].replicas[c]
             IN  /\ is(c).value = was.value /\ is(c).changedAt = was.changedAt
                 /\ is(c).sentAt = was.sentAt /\ is(c).priority = was.priority
                 /\ is(c).ackedAt \in Nat /\ is(c).ackedAt >= was.ackedAt
  <2> DEFINE was == mapped[e].replicas[c]
  <2>1. was \in Replica
    BY <1>3 DEF Mapping
  <2>2. CASE ticks(c) = {}
    BY <2>1, <2>2 DEF Replica
  <2>3. CASE ticks(c) # {}
    <3>1. Greatest(ticks(c)) \in Nat
      BY <1>2, <1>3, <2>3, GreatestIsGreatest
    <3> DEFINE g == Larger(was.ackedAt, Greatest(ticks(c)))
    <3>2. g \in Nat /\ g >= was.ackedAt
      BY <2>1, <3>1 DEF Larger, Replica
    <3>3. is(c) = [was EXCEPT !.ackedAt = g]
      BY <2>3
    <3> HIDE DEF g, was, is
    <3> QED BY <2>1, <3>2, <3>3 DEF Replica, was
  <2> QED BY <2>2, <2>3
<1> HIDE DEF is
<1>5. ASSUME NEW m \in Mapping, NEW f, NEW k, k = [m EXCEPT !.replicas = f]
      PROVE  k.id = m.id /\ k.acked = m.acked /\ k.retiring = m.retiring /\ k.replicas = f
  BY <1>5 DEF Mapping
<1>6. /\ mapped'[e].id = mapped[e].id /\ mapped'[e].acked = mapped[e].acked
      /\ mapped'[e].retiring = mapped[e].retiring
      /\ mapped'[e].replicas = [c \in Components |-> is(c)]
  BY <1>1, <1>3, <1>5
<1> QED BY <1>4, <1>6

\* One of a mapping changes only whether mappings are acknowledged.
LEMMA AckedAlone ==
    ASSUME TypeOK, ReceiveMappingAck, NEW e \in Entities
    PROVE  /\ mapped'[e].id = mapped[e].id /\ mapped'[e].replicas = mapped[e].replicas
           /\ mapped'[e].retiring = mapped[e].retiring
<1>1. \/ mapped'[e] = mapped[e]
      \/ mapped'[e] = [mapped[e] EXCEPT !.acked = TRUE]
  BY DEF ReceiveMappingAck
<1>2. mapped[e] \in Mapping
  BY DEF TypeOK
<1> QED BY <1>1, <1>2 DEF Mapping

\* Every step keeps it.
LEMMA WholeKeeps ==
    ASSUME IInv, WholeKnown, [Next]_vars
    PROVE  WholeKnown'
<1>0. TypeOK /\ Player \in Entities
  BY ReplicationAssumption DEF IInv
<1>1. CASE \E w \in Worlds, held \in SUBSET Entities : \E in \in SUBSET held : Step(w, in, held)
  BY <1>1 DEF Step, WholeKnown
<1>2. CASE PublishNothing
  <2>1. stepped /\ states' = states /\ tick' = tick
    BY <1>2 DEF PublishNothing, netVars
  <2>2. \A d \in states : d.tick < tick /\ d.tick \in Nat /\ tick \in Nat
    BY <2>1 DEF IInv, Numbering, TypeOK, StateDatagram
  <2> QED BY <2>1, <2>2 DEF WholeKnown
<1>3. CASE \E arrived \in BOOLEAN : Publish(arrived)
  BY <1>3, PublishWhole
<1>4. CASE ReceiveMappingAck
  <2>1. UNCHANGED <<tick, stepped, world, states>>
    BY <1>4 DEF ReceiveMappingAck, worldVars
  <2>2. mapped'[Player].id = mapped[Player].id /\ mapped'[Player].replicas = mapped[Player].replicas
    BY <1>0, <1>4, AckedAlone
  <2> QED BY <2>1, <2>2 DEF WholeKnown
<1>5. CASE \E a \in acks : ReceiveStateAck(a)
  <2>0. PICK a \in acks : ReceiveStateAck(a)
    BY <1>5
  <2>1. UNCHANGED <<tick, stepped, world, states>>
    BY <2>0 DEF ReceiveStateAck, worldVars, netVars
  <2>2. mapped'[Player].id = mapped[Player].id
    BY <1>0, <2>0, AckedAtGrows
  <2>3. ASSUME NEW c \in Components, HeldAs(mapped[Player].replicas[c], world[Player][c])
        PROVE  HeldAs(mapped'[Player].replicas[c], world[Player][c])
    <3>1. LET was == mapped[Player].replicas[c]
              is == mapped'[Player].replicas[c]
          IN  /\ is.value = was.value /\ is.changedAt = was.changedAt
              /\ is.ackedAt \in Nat /\ is.ackedAt >= was.ackedAt
      BY <1>0, <2>0, AckedAtGrows
    <3>2. mapped[Player].replicas[c] \in Replica
      BY <1>0 DEF TypeOK, Mapping
    <3> QED BY <2>3, <3>1, <3>2 DEF HeldAs, Replica
  <2> QED BY <2>1, <2>2, <2>3 DEF WholeKnown
<1>6. CASE ReceiveFrame \/ SendStateAck \/ (\E d \in states : ReceiveState(d)) \/ UNCHANGED vars
  <2>1. UNCHANGED <<tick, stepped, world, states, mapped>>
    BY <1>6 DEF ReceiveFrame, SendStateAck, ReceiveState, vars, worldVars, serverVars, netVars
  <2> QED BY <2>1 DEF WholeKnown
<1> QED BY <1>1, <1>2, <1>3, <1>4, <1>5, <1>6 DEF Next, Deliver

\* What the server takes as held is what the client shows.
LEMMA HeldIs ==
    ASSUME IInv, NEW e \in Mapped, NEW c \in Components, NEW v, HeldAs(mapped[e].replicas[c], v)
    PROVE  Shown(e, c) = v
<1>1. /\ mapped[e].id \in Ids /\ mapped[e].replicas[c] \in Replica
  BY DEF IInv, TypeOK, Mapping, Mapped
<1>2. /\ mapped[e].replicas[c].changedAt \in Nat /\ mapped[e].replicas[c].ackedAt \in Nat
      /\ CopyOf(e, c).at \in Nat
  BY <1>1 DEF IInv, TypeOK, Replica, Mirror, Copy, CopyOf
<1> QED BY <1>2 DEF IInv, Copies, HeldAs, Shown, CopyOf

\* A state that tells the client its player is whole (publishTo's playerWhole)
\* tells the truth, whatever was lost: what it leaves out the client shows.
THEOREM WholeIsTrue == Spec => []WholeIsWhole
<1>1. Init => WholeKnown
  BY DEF Init, WholeKnown
<1>2. IInv /\ WholeKnown /\ [Next]_vars => WholeKnown'
  BY WholeKeeps
<1>3. IInv /\ WholeKnown => WholeIsWhole
  <2>1. ASSUME IInv, NEW c \in Components, mapped[Player].id # 0,
               HeldAs(mapped[Player].replicas[c], world[Player][c])
        PROVE  Shown(Player, c) = world[Player][c]
    <3>1. Player \in Mapped
      BY <2>1, ReplicationAssumption DEF Mapped
    <3> QED BY <2>1, <3>1, HeldIs
  <2> QED BY <2>1 DEF WholeKnown, WholeIsWhole
<1> QED BY <1>1, <1>2, <1>3, Inductive, PTL DEF Spec

-----------------------------------------------------------------------------
(* The control stream of a publish. *)

Retirement == [kind |-> "retire", ids |-> {mapped[e].id : e \in Retirees}, ownedFirst |-> FALSE]
Declaration == [kind |-> "declare", ids |-> IdSet(NewIds), ownedFirst |-> PlayerNew # {}]

\* It grows by a retirement, a declaration, both in that order, or neither.
FramesAppended ==
    /\ Len(toClient) <= Len(toClient')
    /\ \A n \in 1 .. Len(toClient) : n \in 1 .. Len(toClient') /\ toClient'[n] = toClient[n]
    /\ Retirees # {} => /\ Len(toClient) + 1 \in 1 .. Len(toClient')
                        /\ toClient'[Len(toClient) + 1] = Retirement
    /\ DOMAIN NewIds # {} => /\ Len(toClient') > Len(toClient)
                             /\ toClient'[Len(toClient')] = Declaration
    /\ \A n \in 1 .. Len(toClient') : n > Len(toClient) =>
          \/ n = Len(toClient) + 1 /\ Retirees # {} /\ toClient'[n] = Retirement
          \/ n = Len(toClient') /\ DOMAIN NewIds # {} /\ toClient'[n] = Declaration
    /\ DOMAIN NewIds # {} /\ Retirees # {} => Len(toClient') = Len(toClient) + 2

\* A publish appends these frames, whatever was on its way before them.
LEMMA PublishAppends ==
    ASSUME TypeOK, toClient' = toClient \o Outframes
    PROVE  FramesAppended /\ toClient' \in Seq(Frame)
<1>1. Retirement \in Frame /\ Declaration \in Frame
  <2>1. \A e \in Retirees : mapped[e].id \in Ids
    BY PublishParts DEF TypeOK, Mapped, Mapping
  <2>2. \A e \in DOMAIN NewIds : NewIds[e] \in Ids
    BY PublishParts DEF GivenIds
  <2> QED BY <2>1, <2>2 DEF Retirement, Declaration, Frame, IdSet
<1>2. toClient \in Seq(Frame)
  BY DEF TypeOK
<1>3. Outframes = (IF Retirees = {} THEN <<>> ELSE <<Retirement>>)
                  \o (IF DOMAIN NewIds = {} THEN <<>> ELSE <<Declaration>>)
  BY DEF Outframes, Frames, Retirement, Declaration
<1> HIDE DEF Retirement, Declaration
<1>4. CASE Retirees = {} /\ DOMAIN NewIds = {}
  BY <1>2, <1>3, <1>4 DEF FramesAppended
<1>5. CASE Retirees # {} /\ DOMAIN NewIds = {}
  BY <1>1, <1>2, <1>3, <1>5 DEF FramesAppended
<1>6. CASE Retirees = {} /\ DOMAIN NewIds # {}
  BY <1>1, <1>2, <1>3, <1>6 DEF FramesAppended
<1>7. CASE Retirees # {} /\ DOMAIN NewIds # {}
  <2>1. Outframes = <<Retirement>> \o <<Declaration>>
    BY <1>3, <1>7
  <2>2. toClient' = (toClient \o <<Retirement>>) \o <<Declaration>>
    BY <1>1, <1>2, <2>1
  <2> DEFINE s == toClient \o <<Retirement>>
  <2>3. /\ s \in Seq(Frame) /\ Len(s) = Len(toClient) + 1 /\ s[Len(toClient) + 1] = Retirement
        /\ \A n \in 1 .. Len(toClient) : s[n] = toClient[n]
    BY <1>1, <1>2
  <2> HIDE DEF s
  <2>4. /\ toClient' \in Seq(Frame) /\ Len(toClient') = Len(s) + 1
        /\ toClient'[Len(s) + 1] = Declaration
        /\ \A n \in 1 .. Len(s) : toClient'[n] = s[n]
    BY <1>1, <2>2, <2>3 DEF s
  <2>5. Len(toClient) \in Nat
    BY <1>2
  <2> QED BY <1>7, <2>3, <2>4, <2>5, SMTT(60) DEF FramesAppended
<1> QED BY <1>4, <1>5, <1>6, <1>7

\* Once a retirement is put off, as many are retired as the budget has room
\* for, and nothing is declared but the player.
LEMMA RetiredFill ==
    ASSUME TypeOK, \A e, f \in Mapped : mapped[e].id = mapped[f].id => e = f,
           Leavers # Retirees
    PROVE  Entrants = {}
<1>1. Retirees \subseteq Leavers /\ Leavers \subseteq Mapped /\ Mapped \subseteq Entities
  BY PublishParts DEF Mapped
<1>2. \A e \in Mapped : mapped[e].id \in Nat
  BY DEF TypeOK, Mapped, Mapping, Ids
<1> DEFINE Late == {mapped[e].id : e \in Leavers \ Retirees}
           before(e) == {f \in Leavers : mapped[f].id < mapped[e].id}
<1>3. PICK e \in Leavers \ Retirees : \A f \in Leavers \ Retirees : mapped[e].id <= mapped[f].id
  <2>1. Late \subseteq Nat /\ Late # {}
    BY <1>1, <1>2
  <2>2. Least(Late) \in Late /\ \A x \in Late : Least(Late) <= x
    <3> HIDE DEF Late
    <3> QED BY <2>1, LeastIsLeast
  <2>3. PICK e \in Leavers \ Retirees : mapped[e].id = Least(Late)
    BY <2>2
  <2>4. \A f \in Leavers \ Retirees : mapped[e].id <= mapped[f].id
    <3>1. \A f \in Leavers \ Retirees : mapped[f].id \in Late
      OBVIOUS
    <3> HIDE DEF Late
    <3> QED BY <2>2, <2>3, <3>1
  <2> QED BY <2>3, <2>4
<1>4. before(e) \subseteq Retirees
  <2>1. \A f \in Leavers : mapped[f].id \in Nat
    BY <1>1, <1>2
  <2> QED BY <1>3, <2>1
<1>5. IsFiniteSet(Retirees) /\ Cardinality(Retirees) \in Nat
  BY <1>1, ReplicationAssumption, FS_Subset, FS_CardinalityType
<1>6. Cardinality(before(e)) <= Cardinality(Retirees) /\ Cardinality(before(e)) \in Nat
  BY <1>4, <1>5, FS_Subset, FS_CardinalityType
<1>7. ~(Cardinality(before(e)) < MappingBudget)
  BY <1>3 DEF Retirees, Retired
<1>8. ~(Cardinality(Retirees) + DeclarationCost <= MappingBudget)
  <2> HIDE DEF before
  <2> QED BY <1>5, <1>6, <1>7, ReplicationAssumption
<1> QED BY <1>8 DEF Entrants, Entered, MayDeclare

\* An entity declared has no mapping left.
LEMMA DeclaredAnew ==
    ASSUME TypeOK, \A e, f \in Mapped : mapped[e].id = mapped[f].id => e = f,
           NEW e \in DOMAIN NewIds
    PROVE  e \notin Mapped \ Retirees
<1>1. CASE e \in PlayerNew
  BY <1>1 DEF PlayerNew, PlayerDeclared
<1>2. CASE e \in Entrants
  <2>1. Leavers = Retirees
    BY <1>2, RetiredFill
  <2>2. e \in Enterers
    BY <1>2, PublishParts
  <2>3. CASE Comings(Noted)
    BY <2>2, <2>3 DEF Enterers, Entering
  <2>4. CASE ~Comings(Noted)
    <3>1. e \notin StillHeld
      BY <2>2, <2>4 DEF Enterers, Entering
    <3>2. e \in Mapped => e \in Leavers
      BY <2>4, <3>1 DEF Leavers, Leaving
    <3> QED BY <2>1, <3>2
  <2> QED BY <2>3, <2>4
<1> QED BY <1>1, <1>2, PublishParts

\* The IDs of the mappings, before and after: each kept, retired or new.
PublishNames ==
    /\ \A e \in Mapped : \/ e \in Retirees
                         \/ e \notin DOMAIN NewIds /\ e \in Mapped' /\ mapped'[e].id = mapped[e].id
                            /\ mapped'[e].acked = mapped[e].acked
    /\ \A e \in DOMAIN NewIds : e \in Mapped' /\ mapped'[e].id = NewIds[e]
    /\ \A e \in Mapped' : \/ e \in DOMAIN NewIds
                          \/ e \in Mapped \ Retirees /\ mapped'[e].id = mapped[e].id

\* A publish gives and takes names so.
LEMMA PublishGives ==
    ASSUME IInv, NEW arrived \in BOOLEAN, Publish(arrived)
    PROVE  PublishNames
<1>1. TypeOK /\ \A e, f \in Mapped : mapped[e].id = mapped[f].id => e = f
  BY DEF IInv, Streams
<1>2. mapped' = Sent(Renewed, Eligible, DOMAIN Taken)
  BY PublishUnfolds
<1>3. \A e \in Entities : mapped'[e].id = Renewed[e].id /\ mapped'[e].acked = Renewed[e].acked
  BY <1>1, <1>2, SentElsewhere
<1>4. Mapped \subseteq Entities /\ Mapped' = {e \in Entities : mapped'[e].id # 0}
  BY DEF Mapped
<1>5. ASSUME NEW e \in Mapped, e \notin Retirees
      PROVE  /\ e \notin DOMAIN NewIds /\ e \in Mapped' /\ mapped'[e].id = mapped[e].id
             /\ mapped'[e].acked = mapped[e].acked
  <2>1. e \notin DOMAIN NewIds /\ e \in Entities /\ mapped[e].id # 0
    BY <1>1, <1>4, <1>5, DeclaredAnew DEF Mapped
  <2>2. Renewed[e].id = mapped[e].id /\ Renewed[e].acked = mapped[e].acked
    BY <1>1, <1>5, <2>1, PublishParts
  <2> QED BY <1>3, <1>4, <2>1, <2>2
<1>6. ASSUME NEW e \in DOMAIN NewIds
      PROVE  e \in Mapped' /\ mapped'[e].id = NewIds[e]
  <2>1. e \in Entities /\ NewIds[e] \in Ids
    BY <1>1, PublishParts DEF GivenIds
  <2>2. Renewed[e] = NewMapping(NewIds[e])
    BY <1>1, PublishParts
  <2>3. Renewed[e].id = NewIds[e]
    BY <2>2 DEF NewMapping
  <2> QED BY <1>3, <1>4, <2>1, <2>3 DEF Ids
<1>7. ASSUME NEW e \in Mapped', e \notin DOMAIN NewIds
      PROVE  e \in Mapped \ Retirees /\ mapped'[e].id = mapped[e].id
  <2>1. e \in Entities /\ mapped'[e].id = Renewed[e].id /\ mapped'[e].id # 0
    BY <1>3, <1>4
  <2>2. e \notin Retirees
    BY <1>1, <1>7, <2>1, PublishParts DEF NoMapping, NewMapping
  <2>3. Renewed[e].id = mapped[e].id
    BY <1>1, <1>7, <2>1, <2>2, PublishParts
  <2> QED BY <2>1, <2>2, <2>3 DEF Mapped
<1> QED BY <1>5, <1>6, <1>7 DEF PublishNames

-----------------------------------------------------------------------------
(* Nothing is orphaned on the client.                                      *)

\* A retirement of i among the frames behind the n-th
RetiredAfter(frames, n, i) ==
    \E m \in DOMAIN frames : m > n /\ frames[m].kind = "retire" /\ i \in frames[m].ids

Names(mappings, i) == i # 0 /\ \E e \in Entities : mappings[e].id = i

\* What is mirrored, or will be, is mapped, or its retirement is behind it;
\* and so of the client's player, which is the server's.
Known ==
    /\ \A i \in Mirrored : Names(mapped, i) \/ RetiredAfter(toClient, 0, i)
    /\ \A n \in DOMAIN toClient : toClient[n].kind = "declare" =>
          \A i \in toClient[n].ids : Names(mapped, i) \/ RetiredAfter(toClient, n, i)
    /\ \A n \in DOMAIN toClient : toClient[n].kind = "declare" /\ toClient[n].ownedFirst =>
          \/ mapped[Player].id = Least(toClient[n].ids)
          \/ RetiredAfter(toClient, n, Least(toClient[n].ids))
    /\ owned # 0 => mapped[Player].id = owned \/ RetiredAfter(toClient, 0, owned)

\* The player's ID is the least of its declaration.
LEMMA PlayerLeast ==
    ASSUME TypeOK, PlayerNew # {}
    PROVE  Player \in DOMAIN NewIds /\ Least(IdSet(NewIds)) = NewIds[Player]
<1>1. Player \in PlayerNew /\ Player \in DOMAIN NewIds
  BY PublishParts
<1>2. NewIds[Player] = nextNet /\ nextNet \in Nat
  <2>1. nextNet \in Nat
    BY DEF TypeOK, Ids
  <2>2. NewIds[Player] = nextNet + 0
    BY <1>1 DEF NewIds, Numbered
  <2> QED BY <2>1, <2>2
<1>3. \A e \in DOMAIN NewIds : NewIds[e] \in Nat /\ NewIds[e] >= nextNet
  BY PublishParts DEF GivenIds, Ids
<1>4. IdSet(NewIds) \subseteq Nat /\ IdSet(NewIds) # {} /\ nextNet \in IdSet(NewIds)
  BY <1>1, <1>2, <1>3 DEF IdSet
<1>5. \A i \in IdSet(NewIds) : i >= nextNet
  BY <1>3 DEF IdSet
<1>6. /\ Least(IdSet(NewIds)) \in IdSet(NewIds)
      /\ \A x \in IdSet(NewIds) : Least(IdSet(NewIds)) <= x
  BY <1>4, LeastIsLeast
<1> QED BY <1>1, <1>2, <1>4, <1>5, <1>6

\* A publish keeps it: what it stops mapping it retires.
LEMMA PublishKnown ==
    ASSUME IInv, Known, NEW arrived \in BOOLEAN, Publish(arrived)
    PROVE  Known'
<1>1. TypeOK /\ toClient \in Seq(Frame) /\ Len(toClient) \in Nat
  BY DEF IInv, TypeOK
<1>2. FramesAppended /\ toClient' \in Seq(Frame) /\ Len(toClient') \in Nat
  <2>1. toClient' = toClient \o Outframes
    BY PublishUnfolds
  <2>2. FramesAppended /\ toClient' \in Seq(Frame)
    BY <1>1, <2>1, PublishAppends
  <2> QED BY <2>2
<1>3. PublishNames
  BY PublishGives
<1>4. UNCHANGED <<mirror, owned>>
  BY PublishUnfolds DEF clientVars
<1>5. DOMAIN toClient = 1 .. Len(toClient) /\ DOMAIN toClient' = 1 .. Len(toClient')
  BY <1>1, <1>2
<1>0. Len(toClient) \in Nat /\ Len(toClient') \in Nat
  BY <1>1, <1>2
<1>6. ASSUME NEW n \in Nat, NEW i, RetiredAfter(toClient, n, i)
      PROVE  RetiredAfter(toClient', n, i)
  BY <1>2, <1>5, <1>6 DEF RetiredAfter, FramesAppended
<1>7. /\ Mapped = {e \in Entities : mapped[e].id # 0}
      /\ Mapped' = {e \in Entities : mapped'[e].id # 0}
  BY DEF Mapped
<1>8. ASSUME NEW n \in 0 .. Len(toClient), NEW e \in Retirees
      PROVE  RetiredAfter(toClient', n, mapped[e].id)
  <2>1. /\ Len(toClient) + 1 \in DOMAIN toClient' /\ Len(toClient) + 1 > n
        /\ toClient'[Len(toClient) + 1] = Retirement
    <3>1. Retirees # {} /\ n \in Nat /\ n <= Len(toClient)
      BY <1>0
    <3>2. Len(toClient) + 1 > n
      BY <1>0, <3>1
    <3>3. Len(toClient) + 1 \in 1 .. Len(toClient') /\ toClient'[Len(toClient) + 1] = Retirement
      BY <1>2, <3>1 DEF FramesAppended
    <3> QED BY <1>5, <3>2, <3>3
  <2>2. mapped[e].id \in Retirement.ids /\ Retirement.kind = "retire"
    BY DEF Retirement
  <2> QED BY <2>1, <2>2 DEF RetiredAfter
<1>9. ASSUME NEW n \in 0 .. Len(toClient), NEW i, Names(mapped, i) \/ RetiredAfter(toClient, n, i)
      PROVE  Names(mapped', i) \/ RetiredAfter(toClient', n, i)
  <2>1. CASE RetiredAfter(toClient, n, i)
    BY <1>6, <2>1
  <2>2. CASE Names(mapped, i)
    <3>1. PICK e \in Mapped : mapped[e].id = i
      BY <1>7, <2>2 DEF Names
    <3>2. CASE e \in Retirees
      BY <1>8, <3>1, <3>2
    <3>3. CASE e \notin Retirees
      BY <1>3, <1>7, <3>1, <3>3 DEF Names, PublishNames
    <3> QED BY <3>2, <3>3
  <2> QED BY <1>9, <2>1, <2>2
<1>10. ASSUME NEW n \in 0 .. Len(toClient), NEW i, i # 0, mapped[Player].id = i \/ RetiredAfter(toClient, n, i)
       PROVE  mapped'[Player].id = i \/ RetiredAfter(toClient', n, i)
  <2>1. CASE RetiredAfter(toClient, n, i)
    BY <1>6, <2>1
  <2>2. CASE mapped[Player].id = i
    <3>1. Player \in Mapped
      BY <1>10, <2>2, ReplicationAssumption DEF Mapped
    <3>2. CASE Player \in Retirees
      BY <1>8, <2>2, <3>2
    <3>3. CASE Player \notin Retirees
      BY <1>3, <2>2, <3>1, <3>3 DEF PublishNames
    <3> QED BY <3>2, <3>3
  <2> QED BY <1>10, <2>1, <2>2
<1>11. ASSUME NEW n \in DOMAIN toClient', toClient'[n].kind = "declare"
       PROVE  /\ \A i \in toClient'[n].ids : Names(mapped', i) \/ RetiredAfter(toClient', n, i)
              /\ toClient'[n].ownedFirst => \/ mapped'[Player].id = Least(toClient'[n].ids)
                                            \/ RetiredAfter(toClient', n, Least(toClient'[n].ids))
  <2>1. CASE n \in DOMAIN toClient
    <3>1. toClient'[n] = toClient[n] /\ n \in 0 .. Len(toClient)
      <4>1. n \in 1 .. Len(toClient) /\ n \in 0 .. Len(toClient)
        BY <1>0, <1>5, <2>1
      <4> QED BY <1>2, <4>1 DEF FramesAppended
    <3>2. Least(toClient[n].ids) # 0
      <4>1. toClient[n] \in Frame
        BY <1>1, <2>1
      <4>2. toClient[n].ids # {} /\ toClient[n].ids \subseteq Nat /\ 0 \notin toClient[n].ids
        BY <2>1, <4>1 DEF IInv, Streams, Frame, Ids
      <4> QED BY <4>2, LeastIsLeast
    <3>3. /\ \A i \in toClient[n].ids : Names(mapped, i) \/ RetiredAfter(toClient, n, i)
          /\ toClient[n].ownedFirst => \/ mapped[Player].id = Least(toClient[n].ids)
                                       \/ RetiredAfter(toClient, n, Least(toClient[n].ids))
      BY <1>11, <2>1, <3>1 DEF Known
    <3> QED BY <1>9, <1>10, <3>1, <3>2, <3>3
  <2>2. CASE n \notin DOMAIN toClient
    <3>1. toClient'[n] = Declaration
      <4>1. Retirement.kind # "declare"
        BY DEF Retirement
      <4>2. n \in 1 .. Len(toClient') /\ n > Len(toClient)
        BY <1>0, <1>5, <2>2
      <4>3. toClient'[n] = Retirement \/ toClient'[n] = Declaration
        BY <1>2, <4>2 DEF FramesAppended
      <4> QED BY <1>11, <4>1, <4>3
    <3>2. toClient'[n].ids = IdSet(NewIds) /\ toClient'[n].ownedFirst = (PlayerNew # {})
      BY <3>1 DEF Declaration
    <3>3. \A i \in IdSet(NewIds) : Names(mapped', i)
      BY <1>3, <1>7 DEF PublishNames, Names, IdSet
    <3>4. PlayerNew # {} => mapped'[Player].id = Least(IdSet(NewIds))
      BY <1>1, <1>3, PlayerLeast DEF PublishNames
    <3> QED BY <3>2, <3>3, <3>4
  <2> QED BY <2>1, <2>2
<1>12. Mirrored' = Mirrored /\ 0 \in 0 .. Len(toClient)
  BY <1>1, <1>4 DEF Mirrored
<1>13. \A i \in Mirrored' : Names(mapped', i) \/ RetiredAfter(toClient', 0, i)
  BY <1>9, <1>12 DEF Known
<1>14. owned' # 0 => mapped'[Player].id = owned' \/ RetiredAfter(toClient', 0, owned')
  BY <1>4, <1>10, <1>12 DEF Known
<1> QED BY <1>11, <1>13, <1>14 DEF Known

\* A frame taken from the front leaves the others, each one nearer.
LEMMA TailOf ==
    ASSUME TypeOK, toClient # <<>>, toClient' = Tail(toClient)
    PROVE  /\ Len(toClient) \in Nat \ {0} /\ Len(toClient') = Len(toClient) - 1
           /\ toClient' \in Seq(Frame) /\ Head(toClient) = toClient[1] /\ toClient[1] \in Frame
           /\ DOMAIN toClient = 1 .. Len(toClient) /\ DOMAIN toClient' = 1 .. Len(toClient')
           /\ \A n \in DOMAIN toClient' : n + 1 \in DOMAIN toClient /\ toClient'[n] = toClient[n + 1]
           /\ \A n \in DOMAIN toClient : n > 1 => n - 1 \in DOMAIN toClient' /\ toClient'[n - 1] = toClient[n]
<1>1. toClient \in Seq(Frame)
  BY DEF TypeOK
<1> QED BY <1>1

\* A frame received keeps it.
LEMMA ReceiveFrameKnown ==
    ASSUME IInv, Known, ReceiveFrame
    PROVE  Known'
<1>1. TypeOK /\ toClient # <<>> /\ toClient' = Tail(toClient) /\ UNCHANGED mapped
  BY DEF IInv, ReceiveFrame, serverVars
<1> DEFINE frame == Head(toClient)
<1>2. /\ Len(toClient) \in Nat \ {0} /\ Len(toClient') = Len(toClient) - 1
      /\ frame = toClient[1] /\ toClient[1] \in Frame
      /\ DOMAIN toClient = 1 .. Len(toClient) /\ DOMAIN toClient' = 1 .. Len(toClient')
      /\ \A n \in DOMAIN toClient' : n + 1 \in DOMAIN toClient /\ toClient'[n] = toClient[n + 1]
      /\ \A n \in DOMAIN toClient : n > 1 => n - 1 \in DOMAIN toClient' /\ toClient'[n - 1] = toClient[n]
  BY <1>1, TailOf
<1>3. \A i : Names(mapped', i) <=> Names(mapped, i)
  BY <1>1
<1>4. ASSUME NEW n \in Nat, NEW i, RetiredAfter(toClient, n + 1, i)
      PROVE  RetiredAfter(toClient', n, i)
  <2>1. PICK m \in DOMAIN toClient : m > n + 1 /\ toClient[m].kind = "retire" /\ i \in toClient[m].ids
    BY <1>4 DEF RetiredAfter
  <2>2. m > 1 /\ m \in Nat
    BY <1>2, <2>1
  <2>3. m - 1 \in DOMAIN toClient' /\ toClient'[m - 1] = toClient[m] /\ m - 1 > n
    BY <1>2, <2>1, <2>2
  <2> QED BY <2>1, <2>3 DEF RetiredAfter
<1>5. ASSUME NEW i, RetiredAfter(toClient, 0, i)
      PROVE  RetiredAfter(toClient', 0, i) \/ (frame.kind = "retire" /\ i \in frame.ids)
  <2>1. PICK m \in DOMAIN toClient : m > 0 /\ toClient[m].kind = "retire" /\ i \in toClient[m].ids
    BY <1>5 DEF RetiredAfter
  <2>2. CASE m = 1
    BY <1>2, <2>1, <2>2
  <2>3. CASE m # 1
    <3>1. m > 0 + 1
      BY <1>2, <2>1, <2>3
    <3>2. RetiredAfter(toClient, 0 + 1, i)
      BY <2>1, <3>1 DEF RetiredAfter
    <3> QED BY <1>4, <3>2
  <2> QED BY <2>2, <2>3
<1>6. ASSUME NEW n \in DOMAIN toClient', toClient'[n].kind = "declare"
      PROVE  /\ \A i \in toClient'[n].ids : Names(mapped', i) \/ RetiredAfter(toClient', n, i)
             /\ toClient'[n].ownedFirst => \/ mapped'[Player].id = Least(toClient'[n].ids)
                                           \/ RetiredAfter(toClient', n, Least(toClient'[n].ids))
  <2>1. n + 1 \in DOMAIN toClient /\ toClient'[n] = toClient[n + 1] /\ n \in Nat
    BY <1>2
  <2>2. /\ \A i \in toClient[n + 1].ids : Names(mapped, i) \/ RetiredAfter(toClient, n + 1, i)
        /\ toClient[n + 1].ownedFirst => \/ mapped[Player].id = Least(toClient[n + 1].ids)
                                         \/ RetiredAfter(toClient, n + 1, Least(toClient[n + 1].ids))
    BY <1>6, <2>1 DEF Known
  <2> QED BY <1>1, <1>3, <1>4, <2>1, <2>2
<1>7. frame.kind = "declare" =>
          /\ \A i \in frame.ids : Names(mapped, i) \/ RetiredAfter(toClient, 0 + 1, i)
          /\ frame.ownedFirst => \/ mapped[Player].id = Least(frame.ids)
                                 \/ RetiredAfter(toClient, 0 + 1, Least(frame.ids))
  <2>1. 1 \in DOMAIN toClient /\ 0 + 1 = 1
    BY <1>2
  <2>2. toClient[1].kind = "declare" =>
          /\ \A i \in toClient[1].ids : Names(mapped, i) \/ RetiredAfter(toClient, 1, i)
          /\ toClient[1].ownedFirst => \/ mapped[Player].id = Least(toClient[1].ids)
                                       \/ RetiredAfter(toClient, 1, Least(toClient[1].ids))
    BY <2>1 DEF Known
  <2> QED BY <1>2, <2>1, <2>2
<1>8. NoMirror.held = FALSE /\ mirror \in [Ids -> Mirror]
  BY <1>1 DEF NoMirror, TypeOK
<1>9. ASSUME NEW i \in Mirrored'
      PROVE  \/ i \in Mirrored /\ ~(frame.kind = "retire" /\ i \in frame.ids)
             \/ i \in frame.ids /\ frame.kind = "declare"
  <2>1. CASE frame.kind = "declare"
    BY <1>8, <2>1 DEF ReceiveFrame, Declare, Mirrored
  <2>2. CASE frame.kind = "retire"
    BY <1>8, <2>2 DEF ReceiveFrame, Retire, Mirrored
  <2> QED BY <2>1, <2>2 DEF ReceiveFrame
<1>10. ASSUME NEW i \in Mirrored'
       PROVE  Names(mapped', i) \/ RetiredAfter(toClient', 0, i)
  BY <1>3, <1>4, <1>5, <1>7, <1>9 DEF Known
<1>11. ASSUME owned' # 0
       PROVE  mapped'[Player].id = owned' \/ RetiredAfter(toClient', 0, owned')
  <2>1. CASE owned' = owned /\ ~(frame.kind = "retire" /\ owned \in frame.ids)
    <3>1. mapped[Player].id = owned \/ RetiredAfter(toClient, 0, owned)
      BY <1>11, <2>1 DEF Known
    <3> QED BY <1>1, <1>5, <2>1, <3>1 DEF RetiredAfter
  <2>2. CASE owned' = Least(frame.ids) /\ frame.kind = "declare" /\ frame.ownedFirst
    BY <1>1, <1>4, <1>7, <2>2 DEF RetiredAfter
  <2>3. \/ owned' = owned /\ ~(frame.kind = "retire" /\ owned \in frame.ids)
        \/ owned' = Least(frame.ids) /\ frame.kind = "declare" /\ frame.ownedFirst
    BY <1>11 DEF ReceiveFrame, Declare, Retire
  <2> QED BY <2>1, <2>2, <2>3
<1> QED BY <1>6, <1>10, <1>11 DEF Known

\* Every step keeps it.
LEMMA KnownKeeps ==
    ASSUME IInv, Known, [Next]_vars
    PROVE  Known'
<1>1. CASE \E w \in Worlds, held \in SUBSET Entities : \E in \in SUBSET held : Step(w, in, held)
  <2>1. UNCHANGED <<mapped, toClient, mirror, owned>>
    BY <1>1 DEF Step, serverVars, netVars, clientVars
  <2> QED BY <2>1 DEF Known, Mirrored
<1>2. CASE \E arrived \in BOOLEAN : Publish(arrived)
  BY <1>2, PublishKnown
<1>3. CASE ReceiveFrame
  BY <1>3, ReceiveFrameKnown
<1>4. ASSUME UNCHANGED <<toClient, owned>>, Mirrored' = Mirrored,
             \A e \in Entities : mapped'[e].id = mapped[e].id
      PROVE  Known'
  <2>1. \A i : Names(mapped', i) <=> Names(mapped, i)
    BY <1>4 DEF Names
  <2>2. mapped'[Player].id = mapped[Player].id
    BY <1>4, ReplicationAssumption
  <2> QED BY <1>4, <2>1, <2>2 DEF Known
<1>5. CASE ReceiveMappingAck
  <2>1. UNCHANGED <<toClient, owned>> /\ Mirrored' = Mirrored
    BY <1>5 DEF ReceiveMappingAck, clientVars, Mirrored
  <2>2. \A e \in Entities : mapped'[e].id = mapped[e].id
    BY <1>5, AckedAlone DEF IInv
  <2> QED BY <1>4, <2>1, <2>2
<1>6. CASE \E a \in acks : ReceiveStateAck(a)
  <2>0. PICK a \in acks : ReceiveStateAck(a)
    BY <1>6
  <2>1. UNCHANGED <<toClient, owned>> /\ Mirrored' = Mirrored
    BY <2>0 DEF ReceiveStateAck, netVars, clientVars, Mirrored
  <2>2. \A e \in Entities : mapped'[e].id = mapped[e].id
    BY <2>0, AckedAtGrows
  <2> QED BY <1>4, <2>1, <2>2
<1>7. CASE \E d \in states : ReceiveState(d)
  <2>0. PICK d \in states : ReceiveState(d)
    BY <1>7
  <2>1. UNCHANGED <<toClient, owned, mapped>>
    BY <2>0 DEF ReceiveState, netVars, serverVars
  <2>2. Mirrored' = Mirrored
    BY <2>0, CopiesAfter DEF IInv, Mirrored
  <2> QED BY <1>4, <2>1, <2>2
<1>8. CASE PublishNothing \/ SendStateAck \/ UNCHANGED vars
  <2>1. UNCHANGED <<mapped, toClient, mirror, owned>>
    BY <1>8 DEF PublishNothing, SendStateAck, vars, serverVars, netVars, clientVars
  <2> QED BY <2>1 DEF Known, Mirrored
<1> QED BY <1>1, <1>2, <1>3, <1>5, <1>6, <1>7, <1>8 DEF Next, Deliver

\* It holds in every reachable state.
THEOREM KnownAlways == Spec => []Known
<1>1. Init => Known
  BY DEF Init, Known, Mirrored, NoMirror
<1>2. IInv /\ Known /\ [Next]_vars => Known'
  BY KnownKeeps
<1> QED BY <1>1, <1>2, Inductive, PTL DEF Spec

\* Nothing the client mirrors is orphaned: the server maps it still, or has
\* its retirement on the way, whatever publishTo's budgets put off.
THEOREM OrphanNever == Spec => []NoOrphan
<1>1. Known => NoOrphan
  BY DEF Known, NoOrphan, Names, RetiredAfter, Mapped
<1> QED BY <1>1, KnownAlways, PTL

\* What the client takes for its player (onFrame's ownedFirst) is the
\* server's player, or has its retirement on the way.
THEOREM OwnedPlayer == Spec => []OwnedIsPlayer
<1>1. Known => OwnedIsPlayer
  BY DEF Known, OwnedIsPlayer, RetiredAfter
<1> QED BY <1>1, KnownAlways, PTL

-----------------------------------------------------------------------------
(* Acknowledgements arrive whole and in turn. *)

\* The declared runs not yet answered are those of the declarations still
\* under way, in order: the k-th is that of frame g[k].
Awaits(g, runs, answers, frames) ==
    /\ g \in [1 .. (Len(runs) - Len(answers)) -> DOMAIN frames]
    /\ \A k, l \in 1 .. (Len(runs) - Len(answers)) : k < l => g[k] < g[l]
    /\ \A k \in 1 .. (Len(runs) - Len(answers)) :
          frames[g[k]].kind = "declare" /\ frames[g[k]].ids = runs[Len(answers) + k]
    /\ \A n \in DOMAIN frames : frames[n].kind = "declare" =>
          \E k \in 1 .. (Len(runs) - Len(answers)) : g[k] = n

\* The answers under way are the oldest runs, in order.
Answered ==
    /\ Len(toServer) <= Len(unacked)
    /\ \A n \in 1 .. Len(toServer) : toServer[n] = unacked[n]

Answers ==
    /\ ~struck
    /\ Answered
    /\ ~closed => \E g : Awaits(g, unacked, toServer, toClient)

\* A publish awaits the answer to what it declares last.
LEMMA PublishAnswers ==
    ASSUME IInv, Answers, NEW arrived \in BOOLEAN, Publish(arrived)
    PROVE  Answers'
<1>1. TypeOK /\ TypeOK'
  BY PublishStep DEF IInv
<1>2. FramesAppended
  BY <1>1, PublishUnfolds, PublishAppends
<1>3. /\ UNCHANGED <<struck, toServer, closed>>
      /\ unacked' = IF DOMAIN NewIds = {} THEN unacked ELSE Append(unacked, IdSet(NewIds))
  BY PublishUnfolds DEF clientVars
<1> DEFINE a == Len(toServer)
           u == Len(unacked)
           t == Len(toClient)
           t1 == Len(toClient')
<1>4. /\ a \in Nat /\ u \in Nat /\ t \in Nat /\ t1 \in Nat /\ Len(toServer') = a
      /\ DOMAIN toClient = 1 .. t /\ DOMAIN toClient' = 1 .. t1
      /\ toServer' = toServer
  BY <1>1, <1>3 DEF TypeOK
<1>5. /\ DOMAIN NewIds = {} => Len(unacked') = u
      /\ DOMAIN NewIds # {} => Len(unacked') = u + 1 /\ unacked'[u + 1] = IdSet(NewIds)
      /\ \A n \in 1 .. u : unacked'[n] = unacked[n]
  BY <1>1, <1>3 DEF TypeOK
<1> HIDE DEF a, u, t, t1
<1>6. a <= u /\ \A n \in 1 .. a : toServer[n] = unacked[n]
  BY DEF Answers, Answered, a, u
<1>7. Answered'
  <2>1. a <= Len(unacked')
    <3>1. Len(unacked') = u \/ Len(unacked') = u + 1
      BY <1>5
    <3> QED BY <1>4, <1>6, <3>1
  <2>2. \A n \in 1 .. a : n \in 1 .. u
    BY <1>4, <1>6
  <2>3. \A n \in 1 .. a : toServer[n] = unacked'[n]
    BY <1>5, <1>6, <2>2
  <2> QED BY <1>4, <2>1, <2>3 DEF Answered
<1>8. ASSUME ~closed
      PROVE  \E g : Awaits(g, unacked', toServer', toClient')
  <2>1. PICK g : Awaits(g, unacked, toServer, toClient)
    BY <1>8 DEF Answers
  <2>2. /\ g \in [1 .. (u - a) -> 1 .. t]
        /\ \A k, l \in 1 .. (u - a) : k < l => g[k] < g[l]
        /\ \A k \in 1 .. (u - a) : /\ toClient[g[k]].kind = "declare"
                                   /\ toClient[g[k]].ids = unacked[a + k]
        /\ \A n \in 1 .. t : toClient[n].kind = "declare" => \E k \in 1 .. (u - a) : g[k] = n
    BY <1>4, <2>1 DEF Awaits, a, u
  <2>3. /\ t <= t1
        /\ \A n \in 1 .. t : n \in 1 .. t1 /\ toClient'[n] = toClient[n]
        /\ DOMAIN NewIds # {} => t1 > t /\ toClient'[t1] = Declaration
        /\ \A n \in 1 .. t1 : n > t =>
              \/ toClient'[n] = Retirement
              \/ n = t1 /\ DOMAIN NewIds # {} /\ toClient'[n] = Declaration
    BY <1>2 DEF FramesAppended, t, t1
  <2>4. /\ Retirement.kind = "retire" /\ Declaration.kind = "declare"
        /\ Declaration.ids = IdSet(NewIds)
    BY DEF Retirement, Declaration
  <2>5. CASE DOMAIN NewIds = {}
    <3>1. g \in [1 .. (u - a) -> 1 .. t1]
      BY <2>2, <2>3
    <3>2. \A k \in 1 .. (u - a) : /\ toClient'[g[k]].kind = "declare"
                                  /\ toClient'[g[k]].ids = unacked[a + k]
      BY <2>2, <2>3
    <3>3. \A n \in 1 .. t1 : toClient'[n].kind = "declare" => \E k \in 1 .. (u - a) : g[k] = n
      <4>1. ASSUME NEW n \in 1 .. t1, toClient'[n].kind = "declare"
            PROVE  n \in 1 .. t
        <5>1. n > t => toClient'[n] = Retirement
          BY <2>3, <2>5
        <5> QED BY <1>4, <2>4, <4>1, <5>1
      <4> QED BY <2>2, <2>3, <4>1
    <3>4. unacked' = unacked
      BY <1>3, <2>5
    <3>5. Awaits(g, unacked', toServer', toClient')
      BY <1>4, <2>2, <3>1, <3>2, <3>3, <3>4 DEF Awaits, u, a
    <3> QED BY <3>5
  <2>6. CASE DOMAIN NewIds # {}
    <3> DEFINE h == [k \in 1 .. (u + 1 - a) |-> IF k <= u - a THEN g[k] ELSE t1]
    <3>0. Len(unacked') = u + 1 /\ u + 1 - a \in Nat /\ t1 > t
      BY <1>4, <1>5, <1>6, <2>3, <2>6
    <3>1. /\ \A k \in 1 .. (u - a) : h[k] = g[k] /\ k \in 1 .. (u + 1 - a)
          /\ h[u + 1 - a] = t1 /\ u + 1 - a \in 1 .. (u + 1 - a)
          /\ \A k \in 1 .. (u + 1 - a) : k \in 1 .. (u - a) \/ k = u + 1 - a
          /\ DOMAIN h = 1 .. (u + 1 - a)
      BY <1>4, <1>6
    <3>2. h \in [1 .. (u + 1 - a) -> 1 .. t1]
      <4>1. \A k \in 1 .. (u + 1 - a) : h[k] \in 1 .. t1
        BY <1>4, <2>2, <3>0, <3>1
      <4> QED BY <4>1
    <3> HIDE DEF h
    <3>3. ASSUME NEW k \in 1 .. (u + 1 - a), NEW l \in 1 .. (u + 1 - a), k < l
          PROVE  h[k] < h[l]
      <4>1. k \in 1 .. (u - a)
        BY <1>4, <3>0, <3>3
      <4>2. h[k] = g[k] /\ g[k] \in 1 .. t
        BY <2>2, <3>1, <4>1
      <4>3. CASE l \in 1 .. (u - a)
        BY <2>2, <3>1, <3>3, <4>1, <4>2, <4>3
      <4>4. CASE l = u + 1 - a
        BY <1>4, <3>0, <3>1, <4>2, <4>4
      <4> QED BY <3>1, <4>3, <4>4
    <3>4. ASSUME NEW k \in 1 .. (u + 1 - a)
          PROVE  toClient'[h[k]].kind = "declare" /\ toClient'[h[k]].ids = unacked'[a + k]
      <4>1. CASE k \in 1 .. (u - a)
        <5>1. a + k \in 1 .. u
          BY <1>4, <1>6, <4>1
        <5>2. h[k] \in 1 .. t /\ h[k] = g[k]
          BY <2>2, <3>1, <4>1
        <5> QED BY <1>5, <2>2, <2>3, <4>1, <5>1, <5>2
      <4>2. CASE k = u + 1 - a
        <5>1. a + k = u + 1
          BY <1>4, <4>2
        <5> QED BY <1>5, <2>3, <2>4, <2>6, <3>1, <4>2, <5>1
      <4> QED BY <3>1, <4>1, <4>2
    <3>5. ASSUME NEW n \in 1 .. t1, toClient'[n].kind = "declare"
          PROVE  \E k \in 1 .. (u + 1 - a) : h[k] = n
      <4>1. CASE n \in 1 .. t
        <5>1. PICK k \in 1 .. (u - a) : g[k] = n
          BY <2>2, <2>3, <3>5, <4>1
        <5> QED BY <3>1, <5>1
      <4>2. CASE n > t
        <5>1. n = t1
          BY <2>3, <2>4, <3>5, <4>2
        <5> QED BY <3>1, <5>1
      <4> QED BY <1>4, <4>1, <4>2
    <3>6. Awaits(h, unacked', toServer', toClient')
      BY <1>4, <3>0, <3>2, <3>3, <3>4, <3>5 DEF Awaits
    <3> QED BY <3>6
  <2> QED BY <2>5, <2>6
<1>9. ~closed' => \E g : Awaits(g, unacked', toServer', toClient')
  BY <1>3, <1>8
<1> QED BY <1>3, <1>7, <1>9 DEF Answers

\* An answer taken is the oldest run's: nobody is struck.
LEMMA MappingAckAnswers ==
    ASSUME TypeOK, Answers, ReceiveMappingAck
    PROVE  Answers'
<1>1. /\ toServer # <<>> /\ toServer' = Tail(toServer) /\ UNCHANGED <<toClient, closed>>
      /\ IF unacked # <<>> /\ Head(unacked) = Head(toServer)
         THEN unacked' = Tail(unacked) /\ struck' = struck
         ELSE struck' = TRUE /\ unacked' = unacked
  BY DEF ReceiveMappingAck, clientVars
<1>2. /\ Len(toServer) \in Nat \ {0} /\ Len(unacked) \in Nat
      /\ Len(toServer') = Len(toServer) - 1 /\ Head(toServer) = toServer[1]
      /\ \A n \in 1 .. (Len(toServer) - 1) : toServer'[n] = toServer[n + 1]
  BY <1>1 DEF TypeOK
<1>3. Len(toServer) <= Len(unacked) /\ \A n \in 1 .. Len(toServer) : toServer[n] = unacked[n]
  BY DEF Answers, Answered
<1>4. unacked # <<>> /\ Head(unacked) = unacked[1]
  BY <1>2, <1>3 DEF TypeOK
<1>5. Head(unacked) = Head(toServer)
  BY <1>2, <1>3, <1>4
<1>6. /\ unacked' = Tail(unacked) /\ struck' = struck
      /\ Len(unacked') = Len(unacked) - 1
      /\ \A n \in 1 .. (Len(unacked) - 1) : unacked'[n] = unacked[n + 1]
  <2>1. unacked' = Tail(unacked) /\ struck' = struck
    BY <1>1, <1>4, <1>5
  <2>2. unacked \in Seq(SUBSET Ids) /\ unacked # <<>>
    BY <1>4 DEF TypeOK
  <2> QED BY <2>1, <2>2
<1> DEFINE a == Len(toServer)
           u == Len(unacked)
<1>7. /\ a \in Nat \ {0} /\ u \in Nat /\ a <= u /\ Len(toServer') = a - 1 /\ Len(unacked') = u - 1
      /\ (u - 1) - (a - 1) = u - a
  BY <1>2, <1>3, <1>6
<1> HIDE DEF a, u
<1>8. Answered'
  <2>1. ASSUME NEW n \in 1 .. (a - 1)
        PROVE  toServer'[n] = unacked'[n]
    <3>1. n \in 1 .. (u - 1) /\ n + 1 \in 1 .. a
      BY <1>7
    <3> QED BY <1>2, <1>3, <1>6, <3>1 DEF a, u
  <2>2. a - 1 <= u - 1
    BY <1>7
  <2> QED BY <1>7, <2>1, <2>2 DEF Answered
<1>9. ASSUME NEW g, Awaits(g, unacked, toServer, toClient)
      PROVE  Awaits(g, unacked', toServer', toClient')
  <2>1. ASSUME NEW k \in 1 .. (u - a)
        PROVE  unacked'[(a - 1) + k] = unacked[a + k]
    <3>1. (a - 1) + k \in 1 .. (u - 1) /\ ((a - 1) + k) + 1 = a + k
      BY <1>7
    <3> QED BY <1>6, <3>1 DEF u
  <2>2. toClient' = toClient
    BY <1>1
  <2>3. /\ g \in [1 .. (u - a) -> DOMAIN toClient]
        /\ \A k, l \in 1 .. (u - a) : k < l => g[k] < g[l]
        /\ \A k \in 1 .. (u - a) : /\ toClient[g[k]].kind = "declare"
                                   /\ toClient[g[k]].ids = unacked[a + k]
        /\ \A n \in DOMAIN toClient : toClient[n].kind = "declare" => \E k \in 1 .. (u - a) : g[k] = n
    BY <1>9 DEF Awaits, a, u
  <2> QED BY <1>7, <2>1, <2>2, <2>3 DEF Awaits
<1> QED BY <1>1, <1>6, <1>8, <1>9 DEF Answers

\* A declaration received is answered with the run first awaited.
LEMMA ReceiveFrameAnswers ==
    ASSUME TypeOK, Answers, ReceiveFrame
    PROVE  Answers'
<1>1. ~closed /\ toClient # <<>> /\ toClient' = Tail(toClient) /\ UNCHANGED <<unacked, struck>>
  BY DEF ReceiveFrame, serverVars
<1> DEFINE a == Len(toServer)
           u == Len(unacked)
           t == Len(toClient)
           frame == Head(toClient)
<1>2. /\ t \in Nat \ {0} /\ Len(toClient') = t - 1 /\ frame = toClient[1]
      /\ DOMAIN toClient = 1 .. t /\ DOMAIN toClient' = 1 .. (t - 1)
      /\ \A n \in 1 .. (t - 1) : n + 1 \in 1 .. t /\ toClient'[n] = toClient[n + 1]
      /\ \A n \in 1 .. t : n > 1 => n - 1 \in 1 .. (t - 1) /\ toClient'[n - 1] = toClient[n]
  <2> HIDE DEF t
  <2>1. /\ t \in Nat \ {0} /\ Len(toClient') = t - 1 /\ frame = toClient[1]
        /\ DOMAIN toClient = 1 .. t /\ DOMAIN toClient' = 1 .. (t - 1)
        /\ \A n \in DOMAIN toClient' : n + 1 \in DOMAIN toClient /\ toClient'[n] = toClient[n + 1]
        /\ \A n \in DOMAIN toClient : n > 1 => n - 1 \in DOMAIN toClient' /\ toClient'[n - 1] = toClient[n]
    BY <1>1, TailOf DEF t
  <2> QED BY <2>1
<1>3. a \in Nat /\ u \in Nat
  BY DEF TypeOK
<1>4. a <= u /\ \A n \in 1 .. a : toServer[n] = unacked[n]
  BY DEF Answers, Answered
<1>5. PICK g : Awaits(g, unacked, toServer, toClient)
  BY <1>1 DEF Answers
<1>6. /\ g \in [1 .. (u - a) -> 1 .. t]
      /\ \A k, l \in 1 .. (u - a) : k < l => g[k] < g[l]
      /\ \A k \in 1 .. (u - a) : /\ toClient[g[k]].kind = "declare"
                                 /\ toClient[g[k]].ids = unacked[a + k]
      /\ \A n \in 1 .. t : toClient[n].kind = "declare" => \E k \in 1 .. (u - a) : g[k] = n
  BY <1>2, <1>5 DEF Awaits
<1> HIDE DEF a, u, t
<1>7. CASE frame.kind = "declare" /\ closed' = TRUE /\ toServer' = toServer
  BY <1>1, <1>7 DEF Answers, Answered
<1>8. CASE frame.kind = "declare" /\ toServer' = Append(toServer, frame.ids) /\ closed' = closed
  <2>1. PICK k1 \in 1 .. (u - a) : g[k1] = 1
    BY <1>2, <1>6, <1>8
  <2>2. 1 \in 1 .. (u - a) /\ g[1] = 1 /\ a < u
    <3>1. 1 \in 1 .. (u - a) /\ a < u
      BY <1>3, <1>4, <2>1
    <3>2. k1 # 1 => g[1] < g[k1] /\ g[1] \in 1 .. t
      BY <1>3, <1>6, <2>1, <3>1
    <3> QED BY <2>1, <3>1, <3>2
  <2>3. /\ Len(toServer') = a + 1 /\ toServer'[a + 1] = frame.ids
        /\ \A n \in 1 .. a : toServer'[n] = toServer[n]
        /\ frame.ids = unacked[a + 1]
    <3>1. frame \in Frame
      BY <1>1, TailOf
    <3>2. toServer \in Seq(SUBSET Ids) /\ frame.ids \in SUBSET Ids
      BY <3>1 DEF TypeOK, Frame
    <3>3. /\ Len(toServer') = a + 1 /\ toServer'[a + 1] = frame.ids
          /\ \A n \in 1 .. a : toServer'[n] = toServer[n]
      <4> HIDE DEF frame
      <4> QED BY <1>8, <3>2 DEF a
    <3> QED BY <1>2, <1>6, <2>2, <3>3
  <2>4. Answered'
    <3>1. a + 1 <= u
      BY <1>3, <2>2
    <3>2. \A n \in 1 .. (a + 1) : n \in 1 .. a \/ n = a + 1
      BY <1>3
    <3>3. \A n \in 1 .. (a + 1) : toServer'[n] = unacked[n]
      BY <1>4, <2>3, <3>2
    <3> QED BY <1>1, <2>3, <3>1, <3>3 DEF Answered, u
  <2> DEFINE h == [k \in 1 .. (u - (a + 1)) |-> g[k + 1] - 1]
  <2>5. ASSUME NEW k \in 1 .. (u - (a + 1))
        PROVE  /\ k + 1 \in 1 .. (u - a) /\ h[k] = g[k + 1] - 1
               /\ g[k + 1] \in 1 .. t /\ g[k + 1] > 1 /\ h[k] \in 1 .. (t - 1)
               /\ toClient'[h[k]] = toClient[g[k + 1]]
    <3>1. k + 1 \in 1 .. (u - a) /\ 1 < k + 1
      BY <1>3
    <3>2. g[k + 1] \in 1 .. t /\ g[1] < g[k + 1]
      BY <1>6, <2>2, <3>1
    <3> QED BY <1>2, <2>2, <3>1, <3>2
  <2>6. h \in [1 .. (u - (a + 1)) -> 1 .. (t - 1)]
    BY <2>5
  <2>7. \A k, l \in 1 .. (u - (a + 1)) : k < l => h[k] < h[l]
    <3>1. SUFFICES ASSUME NEW k \in 1 .. (u - (a + 1)), NEW l \in 1 .. (u - (a + 1)), k < l
                   PROVE  h[k] < h[l]
      OBVIOUS
    <3>2. g[k + 1] < g[l + 1]
      <4>1. k + 1 < l + 1
        BY <1>3, <3>1
      <4> QED BY <1>6, <2>5, <4>1
    <3> HIDE DEF h
    <3>3. g[k + 1] \in Int /\ g[l + 1] \in Int
      BY <1>2, <2>5
    <3> QED BY <2>5, <3>2, <3>3
  <2>8. \A k \in 1 .. (u - (a + 1)) : /\ toClient'[h[k]].kind = "declare"
                                      /\ toClient'[h[k]].ids = unacked[(a + 1) + k]
    <3>1. \A k \in 1 .. (u - (a + 1)) : (a + 1) + k = a + (k + 1)
      BY <1>3
    <3> HIDE DEF h
    <3> QED BY <1>6, <2>5, <3>1
  <2>9. ASSUME NEW n \in 1 .. (t - 1), toClient'[n].kind = "declare"
        PROVE  \E k \in 1 .. (u - (a + 1)) : h[k] = n
    <3>1. PICK k \in 1 .. (u - a) : g[k] = n + 1
      BY <1>2, <1>6, <2>9
    <3>2. k # 1
      BY <1>2, <2>2, <3>1
    <3>3. k - 1 \in 1 .. (u - (a + 1)) /\ (k - 1) + 1 = k
      BY <1>3, <3>1, <3>2
    <3>4. h[k - 1] = n
      BY <1>2, <2>5, <3>1, <3>3
    <3> QED BY <3>3, <3>4
  <2>10. \E f : Awaits(f, unacked, toServer', toClient')
    <3> HIDE DEF h
    <3>1. Awaits(h, unacked, toServer', toClient')
      BY <1>2, <2>3, <2>6, <2>7, <2>8, <2>9 DEF Awaits, u
    <3> QED BY <3>1
  <2> QED BY <1>1, <2>4, <2>10 DEF Answers
<1>9. CASE frame.kind = "retire" /\ toServer' = toServer /\ closed' = closed
  <2>1. \A k \in 1 .. (u - a) : g[k] # 1 /\ g[k] \in 1 .. t
    BY <1>2, <1>6, <1>9
  <2> DEFINE h == [k \in 1 .. (u - a) |-> g[k] - 1]
  <2>2. \A k \in 1 .. (u - a) : /\ h[k] = g[k] - 1 /\ g[k] > 1
                                /\ h[k] \in 1 .. (t - 1) /\ toClient'[h[k]] = toClient[g[k]]
    BY <1>2, <2>1
  <2>3. h \in [1 .. (u - a) -> 1 .. (t - 1)]
    BY <2>2
  <2> HIDE DEF h
  <2>4. \A k, l \in 1 .. (u - a) : k < l => h[k] < h[l]
    BY <1>2, <1>6, <2>1, <2>2
  <2>5. \A k \in 1 .. (u - a) : toClient'[h[k]].kind = "declare" /\ toClient'[h[k]].ids = unacked[a + k]
    BY <1>6, <2>2
  <2>6. ASSUME NEW n \in 1 .. (t - 1), toClient'[n].kind = "declare"
        PROVE  \E k \in 1 .. (u - a) : h[k] = n
    <3>1. PICK k \in 1 .. (u - a) : g[k] = n + 1
      BY <1>2, <1>6, <2>6
    <3> QED BY <1>2, <2>2, <3>1
  <2>7. Awaits(h, unacked, toServer, toClient')
    BY <1>2, <2>3, <2>4, <2>5, <2>6 DEF Awaits, u, a
  <2>8. \E f : Awaits(f, unacked, toServer, toClient')
    BY <2>7
  <2>9. Answered'
    BY <1>1, <1>9 DEF Answers, Answered
  <2> QED BY <1>1, <1>9, <2>8, <2>9 DEF Answers
<1> QED BY <1>7, <1>8, <1>9 DEF ReceiveFrame, Declare, Retire

\* Every step keeps it.
LEMMA AnswersKeep ==
    ASSUME IInv, Answers, [Next]_vars
    PROVE  Answers'
<1>1. CASE \E arrived \in BOOLEAN : Publish(arrived)
  BY <1>1, PublishAnswers
<1>2. CASE ReceiveMappingAck
  BY <1>2, MappingAckAnswers DEF IInv
<1>3. CASE ReceiveFrame
  BY <1>3, ReceiveFrameAnswers DEF IInv
<1>4. CASE \/ \E w \in Worlds, held \in SUBSET Entities : \E in \in SUBSET held : Step(w, in, held)
           \/ PublishNothing \/ SendStateAck
           \/ \E d \in states : ReceiveState(d)
           \/ \E a \in acks : ReceiveStateAck(a)
           \/ UNCHANGED vars
  <2>1. UNCHANGED <<unacked, toServer, toClient, struck, closed>>
    BY <1>4 DEF Step, PublishNothing, SendStateAck, ReceiveState, ReceiveStateAck, vars,
                serverVars, netVars, clientVars
  <2> QED BY <2>1 DEF Answers, Answered
<1> QED BY <1>1, <1>2, <1>3, <1>4 DEF Next, Deliver

\* No client that keeps to the protocol is struck for its acknowledgements
\* (server.cpp's onFrame): each comes whole, and in the order declared.
THEOREM StruckNever == Spec => []~struck
<1>1. Init => Answers
  <2>1. SUFFICES ASSUME Init PROVE Answers
    OBVIOUS
  <2>2. unacked = <<>> /\ toServer = <<>> /\ toClient = <<>> /\ struck = FALSE
    BY <2>1 DEF Init
  <2>3. Len(<<>>) = 0 /\ 0 <= 0 /\ 1 .. 0 = {}
    OBVIOUS
  <2>4. Answered
    BY <2>2, <2>3 DEF Answered
  <2>5. Awaits(<<>>, unacked, toServer, toClient)
    BY <2>2 DEF Awaits
  <2> QED BY <2>2, <2>4, <2>5 DEF Answers
<1>2. IInv /\ Answers /\ [Next]_vars => Answers'
  BY AnswersKeep
<1>3. Answers => ~struck
  BY DEF Answers
<1> QED BY <1>1, <1>2, <1>3, Inductive, PTL DEF Spec

-----------------------------------------------------------------------------
(* Declarations find room. *)

\* What a client that mirrors `held` will mirror after the first n frames
After(held, frames, n) ==
    {i \in Ids : /\ i \in held \/ \E m \in 1 .. n : frames[m].kind = "declare" /\ i \in frames[m].ids
                 /\ ~\E m \in 1 .. n : frames[m].kind = "retire" /\ i \in frames[m].ids}

\* An ID is declared once, to a client that has not met it.
Once(held, frames) ==
    \A n \in DOMAIN frames : frames[n].kind = "declare" =>
        /\ frames[n].ids \cap held = {}
        /\ \A m \in 1 .. (n - 1) : frames[n].ids \cap frames[m].ids = {}

NamedIds(mappings) == {i \in Ids : \E e \in Entities : mappings[e].id = i}

\* The client mirrors in the end what is mapped, and never more than it may.
Stays ==
    /\ ~closed
    /\ Once(Mirrored, toClient)
    /\ After(Mirrored, toClient, Len(toClient)) = NamedIds(mapped)
    /\ \A n \in 0 .. Len(toClient) : Cardinality(After(Mirrored, toClient, n)) <= ClientMapped

Fits == Cardinality(Mapped) <= ClientMapped

\* There are as many mappings as IDs that name them.
LEMMA NamedFew ==
    ASSUME NEW m \in [Entities -> Mapping]
    PROVE  LET S == {e \in Entities : m[e].id # 0}
           IN  /\ Cardinality(NamedIds(m)) <= Cardinality(S)
               /\ Cardinality(NamedIds(m)) \in Nat /\ Cardinality(S) \in Nat
<1> DEFINE S == {e \in Entities : m[e].id # 0}
           f == [e \in S |-> m[e].id]
<1>1. IsFiniteSet(S) /\ Cardinality(S) \in Nat
  BY ReplicationAssumption, FS_Subset, FS_CardinalityType
<1>2. \A e \in Entities : m[e].id \in {0} \cup Ids
  BY DEF Mapping
<1>3. NamedIds(m) = Range(f)
  <2>1. Range(f) \subseteq NamedIds(m)
    BY <1>2 DEF NamedIds, Range
  <2>2. ASSUME NEW i \in NamedIds(m) PROVE i \in Range(f)
    <3>1. PICK e \in Entities : m[e].id = i
      BY DEF NamedIds
    <3>2. e \in S /\ f[e] = i
      BY <3>1 DEF NamedIds, Ids
    <3> QED BY <3>2 DEF Range
  <2> QED BY <2>1, <2>2
<1>4. f \in Surjection(S, Range(f))
  BY DEF Surjection, Range
<1> HIDE DEF f, S
<1>5. IsFiniteSet(Range(f)) /\ Cardinality(Range(f)) <= Cardinality(S)
  BY <1>1, <1>4, FS_Surjection
<1> QED BY <1>1, <1>3, <1>5, FS_CardinalityType DEF S

\* Every set of IDs is finite.
LEMMA IdsFinite ==
    \A S \in SUBSET Ids : IsFiniteSet(S) /\ Cardinality(S) \in Nat
<1>1. IsFiniteSet(Ids)
  BY FS_Interval, ReplicationAssumption DEF Ids
<1> QED BY <1>1, FS_Subset, FS_CardinalityType

\* A publish declares IDs not met before, and leaves the client room.
LEMMA PublishStays ==
    ASSUME IInv, Known, Stays, Fits', NEW arrived \in BOOLEAN, Publish(arrived)
    PROVE  Stays'
<1>1. TypeOK /\ TypeOK'
  BY PublishStep DEF IInv
<1>2. FramesAppended
  BY <1>1, PublishUnfolds, PublishAppends
<1>3. PublishNames
  BY PublishGives
<1>4. ~closed' /\ Mirrored' = Mirrored
  BY PublishUnfolds DEF clientVars, Stays, Mirrored
<1> DEFINE t == Len(toClient)
           t1 == Len(toClient')
<1>5. /\ t \in Nat /\ t1 \in Nat /\ t <= t1
      /\ DOMAIN toClient = 1 .. t /\ DOMAIN toClient' = 1 .. t1
      /\ \A n \in 1 .. t : n \in 1 .. t1 /\ toClient'[n] = toClient[n]
      /\ Retirees # {} => t + 1 \in 1 .. t1 /\ toClient'[t + 1] = Retirement
      /\ DOMAIN NewIds # {} => t1 > t /\ toClient'[t1] = Declaration
      /\ \A n \in 1 .. t1 : n > t => \/ n = t + 1 /\ Retirees # {} /\ toClient'[n] = Retirement
                                     \/ n = t1 /\ DOMAIN NewIds # {} /\ toClient'[n] = Declaration
  <2>1. t \in Nat /\ t1 \in Nat /\ DOMAIN toClient = 1 .. t /\ DOMAIN toClient' = 1 .. t1
    BY <1>1 DEF TypeOK
  <2> QED BY <1>2, <2>1 DEF FramesAppended
<1> HIDE DEF t, t1
<1>6. /\ Retirement.kind = "retire" /\ Declaration.kind = "declare"
      /\ Declaration.ids = IdSet(NewIds) /\ Retirement.ids = {mapped[e].id : e \in Retirees}
  BY DEF Retirement, Declaration
<1>7. \A i \in IdSet(NewIds) : i \in Ids /\ ~Used(i)
  BY <1>1, PublishParts, SMTT(30) DEF IdSet, GivenIds, Used, Ids, TypeOK
<1>8. Mapped = {e \in Entities : mapped[e].id # 0} /\ Retirees \subseteq Mapped
  BY <1>1, PublishParts DEF Mapped
<1>9. \A e \in Mapped : Used(mapped[e].id)
  BY DEF IInv, Streams
<1>10. \A n \in 1 .. t : \A i \in toClient[n].ids : Used(i)
  BY <1>5 DEF IInv, Streams
<1>11. \A i \in Mirrored : Used(i)
  <2>1. SUFFICES ASSUME NEW i \in Mirrored PROVE Used(i)
    OBVIOUS
  <2>2. Names(mapped, i) \/ RetiredAfter(toClient, 0, i)
    BY DEF Known
  <2> QED BY <1>5, <1>8, <1>9, <1>10, <2>2 DEF Names, RetiredAfter
<1>12. \A i \in Retirement.ids : Used(i)
  BY <1>6, <1>8, <1>9
<1>13. Once(Mirrored, toClient')
  <2>1. SUFFICES ASSUME NEW n \in 1 .. t1, toClient'[n].kind = "declare"
                 PROVE  /\ toClient'[n].ids \cap Mirrored = {}
                        /\ \A m \in 1 .. (n - 1) : toClient'[n].ids \cap toClient'[m].ids = {}
    BY <1>5 DEF Once
  <2>2. CASE n \in 1 .. t
    <3>1. \A m \in 1 .. (n - 1) : m \in 1 .. t
      BY <1>5, <2>2
    <3>2. /\ toClient[n].ids \cap Mirrored = {}
          /\ \A m \in 1 .. (n - 1) : toClient[n].ids \cap toClient[m].ids = {}
      BY <1>5, <2>1, <2>2 DEF Stays, Once
    <3> QED BY <1>5, <2>2, <3>1, <3>2
  <2>3. CASE n \notin 1 .. t
    <3>1. toClient'[n] = Declaration /\ n = t1
      BY <1>5, <1>6, <2>1, <2>3
    <3>2. ASSUME NEW m \in 1 .. (n - 1)
          PROVE  \A i \in toClient'[m].ids : Used(i)
      <4>1. m \in 1 .. t1 /\ m # t1
        BY <1>5, <3>1
      <4>2. CASE m \in 1 .. t
        BY <1>5, <1>10, <4>2
      <4>3. CASE m \notin 1 .. t
        BY <1>5, <1>12, <4>1, <4>3
      <4> QED BY <4>2, <4>3
    <3> QED BY <1>6, <1>7, <1>11, <3>1, <3>2
  <2> QED BY <2>2, <2>3
<1>14. ASSUME NEW n \in 0 .. t
       PROVE  After(Mirrored, toClient', n) = After(Mirrored, toClient, n)
  <2>1. \A m \in 1 .. n : m \in 1 .. t /\ toClient'[m] = toClient[m]
    BY <1>5
  <2> QED BY <2>1 DEF After
<1>15. After(Mirrored, toClient, t) = NamedIds(mapped)
  BY DEF Stays, t
<1>16. After(Mirrored, toClient', t1) = NamedIds(mapped')
  <2>1. ASSUME NEW i \in Ids, i \in IdSet(NewIds)
        PROVE  i \in After(Mirrored, toClient', t1) /\ i \in NamedIds(mapped')
    <3>1. DOMAIN NewIds # {} /\ t1 \in 1 .. t1 /\ toClient'[t1] = Declaration
      BY <1>5, <2>1 DEF IdSet
    <3>2. ~\E m \in 1 .. t1 : toClient'[m].kind = "retire" /\ i \in toClient'[m].ids
      <4>1. SUFFICES ASSUME NEW m \in 1 .. t1, toClient'[m].kind = "retire", i \in toClient'[m].ids
                     PROVE  Used(i)
        BY <1>7, <2>1
      <4>2. CASE m \in 1 .. t
        BY <1>5, <1>10, <4>1, <4>2
      <4>3. CASE m \notin 1 .. t
        BY <1>5, <1>6, <1>12, <4>1, <4>3
      <4> QED BY <4>2, <4>3
    <3>3. i \in NamedIds(mapped')
      <4>1. \A e \in DOMAIN NewIds : e \in Entities /\ mapped'[e].id = NewIds[e]
        BY <1>1, <1>3, PublishParts DEF PublishNames, GivenIds
      <4> QED BY <2>1, <4>1 DEF NamedIds, IdSet
    <3> QED BY <1>6, <2>1, <3>1, <3>2, <3>3 DEF After
  <2>2. ASSUME NEW i \in Ids, i \notin IdSet(NewIds)
        PROVE  i \in After(Mirrored, toClient', t1) <=>
                  i \in After(Mirrored, toClient, t) /\ i \notin Retirement.ids
    <3>1. (\E m \in 1 .. t1 : toClient'[m].kind = "declare" /\ i \in toClient'[m].ids) <=>
          (\E m \in 1 .. t : toClient[m].kind = "declare" /\ i \in toClient[m].ids)
      <4>1. ASSUME NEW m \in 1 .. t1, toClient'[m].kind = "declare", i \in toClient'[m].ids
            PROVE  m \in 1 .. t /\ toClient'[m] = toClient[m]
        BY <1>5, <1>6, <2>2, <4>1
      <4> QED BY <1>5, <4>1
    <3>2. (\E m \in 1 .. t1 : toClient'[m].kind = "retire" /\ i \in toClient'[m].ids) <=>
          \/ i \in Retirement.ids
          \/ \E m \in 1 .. t : toClient[m].kind = "retire" /\ i \in toClient[m].ids
      <4>1. ASSUME NEW m \in 1 .. t1, toClient'[m].kind = "retire", i \in toClient'[m].ids
            PROVE  i \in Retirement.ids \/ (m \in 1 .. t /\ toClient'[m] = toClient[m])
        BY <1>5, <1>6, <4>1
      <4>2. i \in Retirement.ids => t + 1 \in 1 .. t1 /\ toClient'[t + 1] = Retirement
        BY <1>5, <1>6
      <4> QED BY <1>5, <1>6, <4>1, <4>2
    <3> QED BY <3>1, <3>2 DEF After
  <2>3. ASSUME NEW i \in Ids, i \notin IdSet(NewIds)
        PROVE  i \in NamedIds(mapped') <=> i \in NamedIds(mapped) /\ i \notin Retirement.ids
    <3>0. i # 0 /\ Mapped' = {e \in Entities : mapped'[e].id # 0}
      BY DEF Ids, Mapped
    <3>1. ASSUME NEW e \in Entities, mapped'[e].id = i
          PROVE  e \in Mapped \ Retirees /\ mapped[e].id = i
      <4>1. e \in Mapped'
        BY <3>0, <3>1
      <4>2. e \notin DOMAIN NewIds
        BY <1>3, <2>3, <3>1 DEF PublishNames, IdSet
      <4> QED BY <1>3, <3>1, <4>1, <4>2 DEF PublishNames
    <3>2. ASSUME NEW e \in Entities, mapped'[e].id = i
          PROVE  i \notin Retirement.ids
      <4>1. e \in Mapped \ Retirees /\ mapped[e].id = i
        BY <3>1, <3>2
      <4>2. \A f \in Retirees : mapped[f].id # i
        BY <1>8, <4>1 DEF IInv, Streams
      <4> QED BY <1>6, <4>2
    <3>3. ASSUME NEW e \in Entities, mapped[e].id = i, i \notin Retirement.ids
          PROVE  mapped'[e].id = i
      <4>1. e \in Mapped /\ e \notin Retirees
        BY <1>6, <1>8, <3>0, <3>3
      <4> QED BY <1>3, <3>3, <4>1 DEF PublishNames
    <3> QED BY <3>1, <3>2, <3>3 DEF NamedIds
  <2>4. \A i \in Ids : i \in After(Mirrored, toClient', t1) <=> i \in NamedIds(mapped')
    BY <1>15, <2>1, <2>2, <2>3
  <2>5. After(Mirrored, toClient', t1) \subseteq Ids /\ NamedIds(mapped') \subseteq Ids
    BY DEF After, NamedIds
  <2> QED BY <2>4, <2>5
<1>17. \A n \in 0 .. t : Cardinality(After(Mirrored, toClient, n)) <= ClientMapped
  BY DEF Stays, t
<1>18. ASSUME NEW n \in 0 .. t1
       PROVE  Cardinality(After(Mirrored, toClient', n)) <= ClientMapped
  <2>1. CASE n \in 0 .. t
    BY <1>14, <1>17, <2>1
  <2>2. CASE n = t1
    <3>1. /\ Cardinality(NamedIds(mapped')) <= Cardinality(Mapped')
          /\ Cardinality(NamedIds(mapped')) \in Nat /\ Cardinality(Mapped') \in Nat
      <4>1. mapped' \in [Entities -> Mapping] /\ Mapped' = {e \in Entities : mapped'[e].id # 0}
        BY <1>1 DEF TypeOK, Mapped
      <4> QED BY <4>1, NamedFew
    <3>2. Cardinality(Mapped') <= ClientMapped
      BY DEF Fits
    <3> QED BY <1>16, <2>2, <3>1, <3>2, ReplicationAssumption
  <2>3. CASE n \notin 0 .. t /\ n # t1
    <3>1. n = t + 1 /\ n \in 1 .. t1 /\ n > t
      BY <1>5, <2>3
    <3>2. toClient'[n] = Retirement
      BY <1>5, <2>3, <3>1
    <3>3. After(Mirrored, toClient', n) \subseteq After(Mirrored, toClient, t)
      <4>1. ASSUME NEW m \in 1 .. n, toClient'[m].kind = "declare"
            PROVE  m \in 1 .. t
        BY <1>5, <1>6, <3>1, <3>2, <4>1
      <4>2. \A m \in 1 .. t : m \in 1 .. n /\ toClient'[m] = toClient[m]
        BY <1>5, <3>1
      <4> QED BY <4>1, <4>2 DEF After
    <3>4. /\ After(Mirrored, toClient, t) \in SUBSET Ids
          /\ Cardinality(After(Mirrored, toClient, t)) <= ClientMapped
      BY <1>5, <1>17 DEF After
    <3>5. /\ Cardinality(After(Mirrored, toClient', n)) <= Cardinality(After(Mirrored, toClient, t))
          /\ Cardinality(After(Mirrored, toClient', n)) \in Nat
          /\ Cardinality(After(Mirrored, toClient, t)) \in Nat
      BY <3>3, <3>4, IdsFinite, FS_Subset
    <3> QED BY <3>4, <3>5, ReplicationAssumption
  <2> QED BY <2>1, <2>2, <2>3
<1> QED BY <1>4, <1>13, <1>16, <1>18 DEF Stays, t1

\* A frame received is one the client has room for.
LEMMA ReceiveFrameStays ==
    ASSUME TypeOK, Stays, ReceiveFrame
    PROVE  Stays'
<1>1. toClient # <<>> /\ toClient' = Tail(toClient) /\ UNCHANGED mapped
  BY DEF ReceiveFrame, serverVars
<1> DEFINE t == Len(toClient)
           frame == Head(toClient)
<1>2. /\ t \in Nat \ {0} /\ Len(toClient') = t - 1 /\ frame = toClient[1] /\ toClient[1] \in Frame
      /\ DOMAIN toClient = 1 .. t /\ DOMAIN toClient' = 1 .. (t - 1)
      /\ \A n \in 1 .. (t - 1) : n + 1 \in 1 .. t /\ toClient'[n] = toClient[n + 1]
      /\ \A n \in 1 .. t : n > 1 => n - 1 \in 1 .. (t - 1) /\ toClient'[n - 1] = toClient[n]
  <2> HIDE DEF t
  <2>1. /\ t \in Nat \ {0} /\ Len(toClient') = t - 1 /\ frame = toClient[1] /\ toClient[1] \in Frame
        /\ DOMAIN toClient = 1 .. t /\ DOMAIN toClient' = 1 .. (t - 1)
        /\ \A n \in DOMAIN toClient' : n + 1 \in DOMAIN toClient /\ toClient'[n] = toClient[n + 1]
        /\ \A n \in DOMAIN toClient : n > 1 => n - 1 \in DOMAIN toClient' /\ toClient'[n - 1] = toClient[n]
    BY <1>1, TailOf DEF t
  <2> QED BY <2>1
<1>3. Once(Mirrored, toClient)
  BY DEF Stays
<1>4. /\ ~closed /\ After(Mirrored, toClient, t) = NamedIds(mapped)
      /\ \A n \in 0 .. t : Cardinality(After(Mirrored, toClient, n)) <= ClientMapped
  BY DEF Stays
<1> HIDE DEF t, frame
<1>5. frame.ids \in SUBSET Ids /\ Mirrored \subseteq Ids
  BY <1>2 DEF Frame, Mirrored
<1>6. ASSUME NEW n \in 1 .. (t - 1), toClient'[n].kind = "declare"
      PROVE  /\ toClient'[n].ids \cap Mirrored = {} /\ toClient'[n].ids \cap frame.ids = {}
             /\ \A m \in 1 .. (n - 1) : toClient'[n].ids \cap toClient'[m].ids = {}
  <2>1. /\ n + 1 \in DOMAIN toClient /\ toClient'[n] = toClient[n + 1]
        /\ 1 \in 1 .. ((n + 1) - 1)
    BY <1>2
  <2>2. /\ toClient[n + 1].ids \cap Mirrored = {}
        /\ \A m \in 1 .. ((n + 1) - 1) : toClient[n + 1].ids \cap toClient[m].ids = {}
    BY <1>3, <1>6, <2>1 DEF Once
  <2>3. \A m \in 1 .. (n - 1) : m + 1 \in 1 .. ((n + 1) - 1) /\ toClient'[m] = toClient[m + 1]
    BY <1>2
  <2> QED BY <1>2, <2>1, <2>2, <2>3
<1> DEFINE named(K, i, n) == \E m \in 1 .. (n + 1) : toClient[m].kind = K /\ i \in toClient[m].ids
           names(K, i, n) == \E m \in 1 .. n : toClient'[m].kind = K /\ i \in toClient'[m].ids
<1>7. ASSUME NEW n \in 0 .. (t - 1), NEW K, NEW i
      PROVE  named(K, i, n) <=> (frame.kind = K /\ i \in frame.ids) \/ names(K, i, n)
  <2>1. \A m \in 1 .. n : m + 1 \in 1 .. (n + 1) /\ toClient'[m] = toClient[m + 1]
    BY <1>2
  <2>2. \A m \in 1 .. (n + 1) : m = 1 \/ (m - 1 \in 1 .. n /\ toClient'[m - 1] = toClient[m])
    BY <1>2
  <2>3. 1 \in 1 .. (n + 1)
    BY <1>2
  <2> QED BY <1>2, <2>1, <2>2, <2>3
<1>8. \A i \in Ids : mirror'[i].held <=> i \in Mirrored'
  BY DEF Mirrored
<1>9. ASSUME NEW n \in 0 .. (t - 1), ~closed',
             \/ frame.kind = "declare" /\ Mirrored' = Mirrored \cup frame.ids
             \/ frame.kind = "retire" /\ Mirrored' = Mirrored \ frame.ids
      PROVE  After(Mirrored', toClient', n) = After(Mirrored, toClient, n + 1)
  <2>1. After(Mirrored', toClient', n) =
           {i \in Ids : (i \in Mirrored' \/ names("declare", i, n)) /\ ~names("retire", i, n)}
    BY DEF After
  <2>2. After(Mirrored, toClient, n + 1) =
           {i \in Ids : (i \in Mirrored \/ named("declare", i, n)) /\ ~named("retire", i, n)}
    BY DEF After
  <2>3. \A i : names("declare", i, n) => i \notin frame.ids
    <3>1. \A m \in 1 .. n : m \in 1 .. (t - 1)
      BY <1>2
    <3> QED BY <1>6, <3>1
  <2> HIDE DEF named, names
  <2>4. \A i : /\ named("declare", i, n) <=> (frame.kind = "declare" /\ i \in frame.ids) \/ names("declare", i, n)
               /\ named("retire", i, n) <=> (frame.kind = "retire" /\ i \in frame.ids) \/ names("retire", i, n)
    BY <1>7
  <2> QED BY <1>9, <2>1, <2>2, <2>3, <2>4
<1>10. ASSUME ~closed',
              \/ frame.kind = "declare" /\ Mirrored' = Mirrored \cup frame.ids
              \/ frame.kind = "retire" /\ Mirrored' = Mirrored \ frame.ids
       PROVE  Stays'
  <2>1. Once(Mirrored', toClient')
    <3>1. ASSUME NEW n \in DOMAIN toClient', toClient'[n].kind = "declare"
          PROVE  /\ toClient'[n].ids \cap Mirrored' = {}
                 /\ \A m \in 1 .. (n - 1) : toClient'[n].ids \cap toClient'[m].ids = {}
      BY <1>2, <1>6, <1>10, <3>1
    <3> QED BY <3>1 DEF Once
  <2>2. (t - 1) + 1 = t /\ t - 1 \in 0 .. (t - 1) /\ \A n \in 0 .. (t - 1) : n + 1 \in 0 .. t
    BY <1>2
  <2>3. After(Mirrored', toClient', t - 1) = NamedIds(mapped')
    BY <1>1, <1>4, <1>9, <1>10, <2>2
  <2>4. \A n \in 0 .. (t - 1) : Cardinality(After(Mirrored', toClient', n)) <= ClientMapped
    BY <1>4, <1>9, <1>10, <2>2
  <2> QED BY <1>2, <1>10, <2>1, <2>3, <2>4 DEF Stays
<1>11. mirror \in [Ids -> Mirror] /\ NewMirror.held = TRUE /\ NoMirror.held = FALSE
  BY DEF TypeOK, NewMirror, NoMirror
<1>12. CASE frame.kind = "declare" /\ Declare(frame)
  <2>1. frame.ids \cap Mirrored = {}
    <3>1. 1 \in DOMAIN toClient
      BY <1>2
    <3> QED BY <1>2, <1>3, <1>12, <3>1 DEF Once
  <2>2. After(Mirrored, toClient, 1) = Mirrored \cup frame.ids
    <3>1. 0 \in 0 .. (t - 1) /\ 0 + 1 = 1 /\ 1 .. 0 = {}
      BY <1>2
    <3>2. \A K, i : (\E m \in 1 .. 1 : toClient[m].kind = K /\ i \in toClient[m].ids)
                        <=> frame.kind = K /\ i \in frame.ids
      BY <1>2
    <3> QED BY <1>5, <1>12, <3>2 DEF After
  <2>3. Cardinality(Mirrored \cup frame.ids) <= ClientMapped
    <3>1. 1 \in 0 .. t
      BY <1>2
    <3> QED BY <1>4, <2>2, <3>1
  <2>4. /\ Cardinality(Mirrored \cup frame.ids) = Cardinality(Mirrored) + Cardinality(frame.ids)
        /\ Cardinality(Mirrored) \in Nat /\ Cardinality(frame.ids) \in Nat
    <3>1. /\ IsFiniteSet(Mirrored) /\ IsFiniteSet(frame.ids)
          /\ Cardinality(Mirrored) \in Nat /\ Cardinality(frame.ids) \in Nat
      BY <1>5, IdsFinite
    <3>2. Cardinality(Mirrored \cap frame.ids) = 0
      BY <2>1, FS_EmptySet
    <3> DEFINE x == Cardinality(Mirrored)
               y == Cardinality(frame.ids)
    <3>3. Cardinality(Mirrored \cup frame.ids) = x + y - 0
      BY <3>1, <3>2, FS_Union
    <3>4. x \in Nat /\ y \in Nat
      BY <3>1
    <3> HIDE DEF x, y
    <3>5. Cardinality(Mirrored \cup frame.ids) = x + y
      BY <3>3, <3>4
    <3> QED BY <3>4, <3>5 DEF x, y
  <2>5. ~(Cardinality(frame.ids) > ClientMapped - Cardinality(Mirrored))
    BY <2>3, <2>4, ReplicationAssumption
  <2>6. /\ mirror' = [i \in Ids |-> IF i \in frame.ids THEN NewMirror ELSE mirror[i]]
        /\ closed' = closed
    BY <1>12, <2>1, <2>5 DEF Declare
  <2>7. Mirrored' = Mirrored \cup frame.ids
    BY <1>5, <1>11, <2>6 DEF Mirrored
  <2> QED BY <1>4, <1>10, <1>12, <2>6, <2>7
<1>13. CASE frame.kind = "retire" /\ Retire(frame)
  <2>1. /\ mirror' = [i \in Ids |-> IF i \in frame.ids THEN NoMirror ELSE mirror[i]]
        /\ closed' = closed
    BY <1>13 DEF Retire
  <2>2. Mirrored' = Mirrored \ frame.ids
    BY <1>5, <1>11, <2>1 DEF Mirrored
  <2> QED BY <1>4, <1>10, <1>13, <2>1, <2>2
<1> QED BY <1>12, <1>13 DEF ReceiveFrame, frame

\* Every step keeps it that leaves the client room for what is mapped.
LEMMA StaysKeep ==
    ASSUME IInv, Known, Stays, Fits', [Next]_vars
    PROVE  Stays'
<1>1. CASE \E arrived \in BOOLEAN : Publish(arrived)
  BY <1>1, PublishStays
<1>2. CASE ReceiveFrame
  BY <1>2, ReceiveFrameStays DEF IInv
<1>3. ASSUME UNCHANGED <<toClient, closed>>, Mirrored' = Mirrored,
             \A e \in Entities : mapped'[e].id = mapped[e].id
      PROVE  Stays'
  <2>1. NamedIds(mapped') = NamedIds(mapped)
    BY <1>3 DEF NamedIds
  <2> QED BY <1>3, <2>1 DEF Stays
<1>4. CASE ReceiveMappingAck
  <2>1. UNCHANGED <<toClient, closed>> /\ Mirrored' = Mirrored
    BY <1>4 DEF ReceiveMappingAck, clientVars, Mirrored
  <2>2. \A e \in Entities : mapped'[e].id = mapped[e].id
    BY <1>4, AckedAlone DEF IInv
  <2> QED BY <1>3, <2>1, <2>2
<1>5. CASE \E a \in acks : ReceiveStateAck(a)
  <2>0. PICK a \in acks : ReceiveStateAck(a)
    BY <1>5
  <2>1. UNCHANGED <<toClient, closed>> /\ Mirrored' = Mirrored
    BY <2>0 DEF ReceiveStateAck, netVars, clientVars, Mirrored
  <2>2. \A e \in Entities : mapped'[e].id = mapped[e].id
    BY <2>0, AckedAtGrows
  <2> QED BY <1>3, <2>1, <2>2
<1>6. CASE \E d \in states : ReceiveState(d)
  <2>0. PICK d \in states : ReceiveState(d)
    BY <1>6
  <2>1. UNCHANGED <<toClient, closed, mapped>>
    BY <2>0 DEF ReceiveState, netVars, serverVars
  <2>2. Mirrored' = Mirrored
    BY <2>0, CopiesAfter DEF IInv, Mirrored
  <2> QED BY <1>3, <2>1, <2>2
<1>7. CASE \/ \E w \in Worlds, held \in SUBSET Entities : \E in \in SUBSET held : Step(w, in, held)
           \/ PublishNothing \/ SendStateAck \/ UNCHANGED vars
  <2>1. UNCHANGED <<mapped, toClient, mirror, closed>>
    BY <1>7 DEF Step, PublishNothing, SendStateAck, vars, serverVars, netVars, clientVars
  <2> QED BY <1>3, <2>1 DEF Mirrored
<1> QED BY <1>1, <1>2, <1>4, <1>5, <1>6, <1>7 DEF Next, Deliver

-----------------------------------------------------------------------------
(* How many are mapped. *)

\* As many members as have fewer than b before them are at most b.
LEMMA BelowCount ==
    ASSUME NEW S, S \subseteq Nat, IsFiniteSet(S), NEW T \in SUBSET S, NEW b \in Nat,
           \A e \in T : Cardinality({f \in S : f < e}) < b
    PROVE  IsFiniteSet(T) /\ Cardinality(T) \in Nat /\ Cardinality(T) <= b
<1> DEFINE place == [e \in T |-> Cardinality({f \in S : f < e})]
           room == 0 .. (b - 1)
<1>1. IsFiniteSet(T) /\ Cardinality(T) \in Nat
  BY FS_Subset, FS_CardinalityType
<1>2. \A e \in T : place[e] \in Nat /\ place[e] < b
  BY BeforeIsLess
<1>3. place \in [T -> room]
  BY <1>2
<1>4. \A e, g \in T : place[e] = place[g] => e = g
  <2>1. ASSUME NEW e \in T, NEW g \in T, e < g
        PROVE  place[e] # place[g]
    <3>1. /\ Cardinality({f \in S : f < e}) < Cardinality({f \in S : f < g})
          /\ Cardinality({f \in S : f < e}) \in Nat
      BY <2>1, BeforeIsLess
    <3> QED BY <3>1
  <2>2. \A e \in T : e \in Nat
    OBVIOUS
  <2> HIDE DEF place
  <2> QED BY <2>1, <2>2
<1>5. place \in Injection(T, room)
  <2> HIDE DEF place, room
  <2> QED BY <1>3, <1>4 DEF Injection, IsInjective
<1>6. IsFiniteSet(room) /\ Cardinality(room) = b
  BY RoomSize
<1> HIDE DEF place, room
<1> QED BY <1>1, <1>5, <1>6, FS_Injection

\* A publish that declares any but the player leaves no more mapped than the
\* bound.
LEMMA EnteredFit ==
    ASSUME TypeOK
    PROVE  LET k == Cardinality(Mapped \ Retirees)
               p == Cardinality(PlayerNew)
               n == Cardinality(Entrants)
           IN  /\ IsFiniteSet(Entrants) /\ IsFiniteSet(Mapped \ Retirees) /\ IsFiniteSet(PlayerNew)
               /\ k \in Nat /\ p \in Nat /\ n \in Nat
               /\ Entrants # {} => (k + p) + n <= ServerMapped
<1> DEFINE k == Cardinality(Mapped \ Retirees)
           p == Cardinality(PlayerNew)
           n == Cardinality(Entrants)
           before(e) == Cardinality({f \in Enterers : f < e})
<1>1. /\ IsFiniteSet(Mapped \ Retirees) /\ k \in Nat
      /\ Enterers \subseteq Nat /\ IsFiniteSet(Enterers) /\ Entrants \subseteq Enterers
  <2>1. Mapped \ Retirees \subseteq Entities /\ Enterers \subseteq Entities /\ Entrants \subseteq Enterers
    BY PublishParts DEF Mapped
  <2> QED BY <2>1, ReplicationAssumption, FS_Subset, FS_CardinalityType
<1>2. IsFiniteSet(PlayerNew) /\ p \in Nat
  <2>1. IsFiniteSet(PlayerNew)
    BY PlayerDeclaredType DEF PlayerNew
  <2> QED BY <2>1, FS_CardinalityType
<1>3. \A e \in Entrants : before(e) \in Nat /\ k + (p + before(e)) < ServerMapped
  <2>1. \A e \in Entrants : before(e) \in Nat
    BY <1>1, BeforeIsLess
  <2> QED BY <2>1 DEF Entrants, Entered, MayDeclare, PlayerNew
<1>4. IsFiniteSet(Entrants) /\ n \in Nat
  BY <1>1, FS_Subset, FS_CardinalityType
<1>5. ASSUME Entrants # {} PROVE (k + p) + n <= ServerMapped
  <2> DEFINE b == ServerMapped - (k + p)
  <2>1. b \in Nat /\ \A e \in Entrants : before(e) < b
    <3> HIDE DEF k, p, before
    <3>1. ServerMapped \in Nat
      BY ReplicationAssumption
    <3>2. \A e \in Entrants : k + p + before(e) < ServerMapped /\ before(e) \in Nat
      BY <1>1, <1>2, <1>3
    <3>3. PICK e \in Entrants : k + p + before(e) < ServerMapped /\ before(e) \in Nat
      BY <1>5, <3>2
    <3>4. b \in Nat
      BY <1>1, <1>2, <3>1, <3>3
    <3> QED BY <1>1, <1>2, <3>1, <3>2, <3>4
  <2>2. n <= b
    <3> HIDE DEF b
    <3> QED BY <1>1, <2>1, BelowCount
  <2> HIDE DEF k, p, n
  <2> QED BY <1>1, <1>2, <1>4, <2>2, ReplicationAssumption
<1> QED BY <1>1, <1>2, <1>4, <1>5

\* No more are mapped than the bound, but for the player, who is declared
\* whatever the bounds.
Few == Cardinality(Mapped \ {Player}) <= ServerMapped

\* No step maps more.
LEMMA FewKeeps ==
    ASSUME IInv, Few, [Next]_vars
    PROVE  Few'
<1>0. TypeOK
  BY DEF IInv
<1>1. CASE \E arrived \in BOOLEAN : Publish(arrived)
  <2>1. PublishNames
    BY <1>1, PublishGives
  <2>2. Mapped' \ {Player} \subseteq (Mapped \ Retirees) \cup Entrants
    BY <1>0, <2>1, PublishParts DEF PublishNames
  <2> DEFINE k == Cardinality(Mapped \ Retirees)
             p == Cardinality(PlayerNew)
             n == Cardinality(Entrants)
             S == (Mapped \ Retirees) \cup Entrants
  <2>3. /\ IsFiniteSet(Entrants) /\ IsFiniteSet(Mapped \ Retirees)
        /\ k \in Nat /\ p \in Nat /\ n \in Nat
        /\ Entrants # {} => (k + p) + n <= ServerMapped
    BY <1>0, EnteredFit
  <2>4. IsFiniteSet(Mapped' \ {Player}) /\ Cardinality(Mapped' \ {Player}) \in Nat
    <3>1. Mapped' \ {Player} \subseteq Entities
      BY DEF Mapped
    <3> QED BY <3>1, ReplicationAssumption, FS_Subset, FS_CardinalityType
  <2>5. CASE Entrants = {}
    <3>1. Mapped' \ {Player} \subseteq Mapped \ {Player}
      BY <2>2, <2>5
    <3>2. IsFiniteSet(Mapped \ {Player}) /\ Cardinality(Mapped \ {Player}) \in Nat
      <4>1. Mapped \ {Player} \subseteq Entities
        BY DEF Mapped
      <4> QED BY <4>1, ReplicationAssumption, FS_Subset, FS_CardinalityType
    <3>3. Cardinality(Mapped' \ {Player}) <= Cardinality(Mapped \ {Player})
      BY <3>1, <3>2, FS_Subset
    <3>4. Cardinality(Mapped \ {Player}) <= ServerMapped
      BY DEF Few
    <3> QED BY <2>4, <3>2, <3>3, <3>4, ReplicationAssumption DEF Few
  <2>6. CASE Entrants # {}
    <3> DEFINE c == Cardinality((Mapped \ Retirees) \cap Entrants)
    <3>1. IsFiniteSet(S) /\ Cardinality(S) = k + n - c
      BY <2>3, FS_Union
    <3>2. c \in Nat
      BY <2>3, FS_Subset, FS_CardinalityType
    <3>3. Cardinality(S) <= k + n /\ Cardinality(S) \in Nat
      <4>1. Cardinality(S) \in Nat
        BY <3>1, FS_CardinalityType
      <4> HIDE DEF S, k, n, c
      <4> QED BY <2>3, <3>1, <3>2, <4>1
    <3>4. Cardinality(Mapped' \ {Player}) <= Cardinality(S)
      BY <2>2, <3>1, FS_Subset
    <3>5. Cardinality(Mapped' \ {Player}) <= ServerMapped
      <4> DEFINE x == Cardinality(Mapped' \ {Player})
      <4>1. x \in Nat /\ x <= Cardinality(S)
        BY <2>4, <3>4
      <4> HIDE DEF x, S, k, n, p
      <4>2. x <= ServerMapped
        BY <2>3, <2>6, <3>3, <4>1, ReplicationAssumption
      <4> QED BY <4>2 DEF x
    <3> QED BY <3>5 DEF Few
  <2> QED BY <2>5, <2>6
<1>2. ASSUME \A e \in Entities : mapped'[e].id = mapped[e].id
      PROVE  Few'
  <2>1. Mapped' = Mapped
    BY <1>2 DEF Mapped
  <2> QED BY <2>1 DEF Few
<1>3. CASE ReceiveMappingAck
  BY <1>0, <1>2, <1>3, AckedAlone
<1>4. CASE \E a \in acks : ReceiveStateAck(a)
  BY <1>2, <1>4, AckedAtGrows
<1>5. CASE \/ \E w \in Worlds, held \in SUBSET Entities : \E in \in SUBSET held : Step(w, in, held)
           \/ PublishNothing \/ ReceiveFrame \/ SendStateAck
           \/ \E d \in states : ReceiveState(d)
           \/ UNCHANGED vars
  <2>1. UNCHANGED mapped
    BY <1>5 DEF Step, PublishNothing, ReceiveFrame, SendStateAck, ReceiveState, vars, serverVars
  <2> QED BY <1>2, <2>1
<1> QED BY <1>1, <1>3, <1>4, <1>5 DEF Next, Deliver

\* What holds at first of the client's room.
LEMMA InitStays == Init => Stays /\ Few /\ Known
<1> SUFFICES ASSUME Init PROVE Stays /\ Few /\ Known
  OBVIOUS
<1>1. /\ Mirrored = {} /\ toClient = <<>> /\ Len(toClient) = 0 /\ DOMAIN toClient = {}
      /\ closed = FALSE /\ owned = 0
  BY DEF Init, Mirrored, NoMirror
<1>2. \A e \in Entities : mapped[e].id = 0
  BY DEF Init, NoMapping, NewMapping
<1>3. Mapped = {} /\ NamedIds(mapped) = {}
  BY <1>2 DEF Mapped, NamedIds, Ids
<1>4. Cardinality({}) = 0 /\ {} \ {Player} = {}
  BY FS_EmptySet
<1>5. \A n \in 0 .. 0 : After({}, <<>>, n) = {}
  <2>1. \A n \in 0 .. 0 : 1 .. n = {}
    OBVIOUS
  <2> QED BY <2>1 DEF After
<1>6. Stays
  <2>1. Once(Mirrored, toClient)
    BY <1>1 DEF Once
  <2>2. After(Mirrored, toClient, Len(toClient)) = NamedIds(mapped)
    BY <1>1, <1>3, <1>5
  <2>3. \A n \in 0 .. Len(toClient) : Cardinality(After(Mirrored, toClient, n)) <= ClientMapped
    BY <1>1, <1>4, <1>5, ReplicationAssumption, SMTT(30)
  <2> QED BY <1>1, <2>1, <2>2, <2>3 DEF Stays
<1>7. Few
  BY <1>3, <1>4, ReplicationAssumption DEF Few
<1>8. Known
  BY <1>1 DEF Known
<1> QED BY <1>6, <1>7, <1>8

\* No honest client is struck, and none with room for one entity more than
\* the server's bound closes over a declaration (client.cpp's declare).
THEOREM EndedNever ==
    ASSUME ClientMapped > ServerMapped
    PROVE  Spec => []NeverEnded
<1>1. IInv /\ Few => Fits
  <2> SUFFICES ASSUME IInv, Few PROVE Fits
    OBVIOUS
  <2>1. IsFiniteSet(Mapped) /\ IsFiniteSet(Mapped \ {Player})
    BY ReplicationAssumption, FS_Subset DEF Mapped
  <2>2. Cardinality(Mapped) <= Cardinality(Mapped \ {Player}) + 1
    <3>1. CASE Player \in Mapped
      <4>1. Cardinality(Mapped \ {Player}) = Cardinality(Mapped) - 1
        BY <2>1, <3>1, FS_RemoveElement
      <4> QED BY <2>1, <4>1, FS_CardinalityType
    <3>2. CASE Player \notin Mapped
      <4>1. Mapped \ {Player} = Mapped
        BY <3>2
      <4>2. Cardinality(Mapped) \in Nat
        BY <2>1, FS_CardinalityType
      <4> QED BY <4>1, <4>2
    <3> QED BY <3>1, <3>2
  <2>3. Cardinality(Mapped) \in Nat /\ Cardinality(Mapped \ {Player}) \in Nat
    BY <2>1, FS_CardinalityType
  <2>4. Cardinality(Mapped \ {Player}) <= ServerMapped
    BY DEF Few
  <2> DEFINE x == Cardinality(Mapped)
             y == Cardinality(Mapped \ {Player})
  <2> HIDE DEF x, y
  <2>5. x <= ClientMapped
    BY <2>2, <2>3, <2>4, ReplicationAssumption DEF x, y
  <2> QED BY <2>5 DEF x, Fits
<1>2. IInv /\ Few /\ [Next]_vars => Few'
  BY FewKeeps
<1>3. IInv /\ Known /\ Stays /\ Fits' /\ [Next]_vars => Stays'
  BY StaysKeep
<1>4. Stays /\ ~struck => NeverEnded
  BY DEF Stays, NeverEnded
<1> QED BY <1>1, <1>2, <1>3, <1>4, InitStays, Inductive, KnownAlways, StruckNever, PTL DEF Spec

-----------------------------------------------------------------------------
(* A player always in the World counts among those within the bound.       *)

PlayerPresent == tick # 0 => PresentIn(world, Player)

PlayerHeld ==
    /\ \A i \in DOMAIN changed : Player \notin changed[i].gone
    /\ \/ Player \in Mapped /\ ~mapped[Player].retiring /\ Cardinality(Mapped) <= ServerMapped
       \/ Mapped = {} /\ nextNet = 1

\* No change noted takes such a player away.
LEMMA NotedKeepsPlayer ==
    ASSUME IInv, PlayerPresent, PlayerHeld, stepped
    PROVE  /\ Player \in Present
           /\ \A i \in DOMAIN Noted : Player \notin Noted[i].gone
<1>1. Player \in Present
  BY ReplicationAssumption DEF IInv, Numbering, PlayerPresent, Present
<1>2. Player \notin Changes.gone
  BY <1>1 DEF Changes
<1>3. \A i \in DOMAIN changed : Player \notin changed[i].gone
  BY DEF PlayerHeld
<1> DEFINE kept == IF Len(changed) > StatePeriod THEN Tail(changed) ELSE changed
<1>4. changed \in Seq(Change) /\ StatePeriod \in Nat
  BY ReplicationAssumption DEF IInv, TypeOK
<1>5. kept \in Seq(Change) /\ \A i \in DOMAIN kept : Player \notin kept[i].gone
  <2>1. CASE Len(changed) > StatePeriod
    <3>1. changed # <<>> /\ kept = Tail(changed)
      BY <1>4, <2>1
    <3>2. kept \in Seq(Change) /\ \A i \in DOMAIN kept : i + 1 \in DOMAIN changed /\ kept[i] = changed[i + 1]
      BY <1>4, <3>1
    <3> QED BY <1>3, <3>2
  <2>2. CASE ~(Len(changed) > StatePeriod)
    BY <1>3, <1>4, <2>2
  <2> QED BY <2>1, <2>2
<1> HIDE DEF kept
<1>6. Changes \in Change
  BY DEF IInv, TypeOK, Changes, Change, Present
<1>7. Noted = Append(kept, Changes)
  BY DEF Noted, kept
<1>8. \A i \in DOMAIN Noted : (i \in DOMAIN kept /\ Noted[i] = kept[i]) \/ Noted[i] = Changes
  BY <1>5, <1>6, <1>7
<1> QED BY <1>1, <1>2, <1>5, <1>8

\* A publish keeps such a player mapped, and counts it in the bound.
LEMMA PublishHeld ==
    ASSUME IInv, PlayerPresent, PlayerHeld, NEW arrived \in BOOLEAN, Publish(arrived)
    PROVE  PlayerHeld'
<1>1. TypeOK /\ stepped /\ changed' = Noted /\ mapped' = Sent(Renewed, Eligible, DOMAIN Taken)
  BY PublishUnfolds DEF IInv
<1>2. Player \in Present /\ \A i \in DOMAIN Noted : Player \notin Noted[i].gone
  BY <1>1, NotedKeepsPlayer
<1>3. PublishNames
  BY PublishGives
<1>4. mapped'[Player].retiring = Renewed[Player].retiring
  BY <1>1, SentElsewhere, ReplicationAssumption
<1> DEFINE k == Cardinality(Mapped \ Retirees)
           p == Cardinality(PlayerNew)
           n == Cardinality(Entrants)
<1>5. /\ IsFiniteSet(Entrants) /\ IsFiniteSet(Mapped \ Retirees) /\ IsFiniteSet(PlayerNew)
      /\ k \in Nat /\ p \in Nat /\ n \in Nat
      /\ Entrants # {} => (k + p) + n <= ServerMapped
  BY <1>1, EnteredFit
<1>6. IsFiniteSet(Mapped) /\ IsFiniteSet(Mapped')
  BY ReplicationAssumption, FS_Subset DEF Mapped
<1>7. Mapped' \subseteq ((Mapped \ Retirees) \cup PlayerNew) \cup Entrants
  BY <1>1, <1>3, PublishParts DEF PublishNames
<1>8. Cardinality(Mapped') \in Nat /\ Cardinality(Mapped') <= (k + p) + n
  <2> DEFINE S == (Mapped \ Retirees) \cup PlayerNew
  <2>1. ASSUME NEW A, NEW B, IsFiniteSet(A), IsFiniteSet(B)
        PROVE  /\ IsFiniteSet(A \cup B)
               /\ Cardinality(A \cup B) \in Nat /\ Cardinality(A) \in Nat /\ Cardinality(B) \in Nat
               /\ Cardinality(A \cup B) <= Cardinality(A) + Cardinality(B)
    <3> DEFINE x == Cardinality(A)
               y == Cardinality(B)
               z == Cardinality(A \cap B)
               w == Cardinality(A \cup B)
    <3>1. IsFiniteSet(A \cup B) /\ w = x + y - z
      BY <2>1, FS_Union
    <3>2. x \in Nat /\ y \in Nat /\ z \in Nat /\ w \in Nat
      BY <2>1, <3>1, FS_Subset, FS_CardinalityType
    <3> HIDE DEF x, y, z, w
    <3>3. w <= x + y
      BY <3>1, <3>2
    <3> QED BY <3>1, <3>2, <3>3 DEF x, y, w
  <2>2. IsFiniteSet(S) /\ Cardinality(S) \in Nat /\ Cardinality(S) <= k + p
    BY <1>5, <2>1
  <2>3. /\ IsFiniteSet(S \cup Entrants) /\ Cardinality(S \cup Entrants) \in Nat
        /\ Cardinality(S \cup Entrants) <= Cardinality(S) + n
    <3> HIDE DEF S
    <3> QED BY <1>5, <2>1, <2>2
  <2>4. Cardinality(Mapped') <= Cardinality(S \cup Entrants) /\ Cardinality(Mapped') \in Nat
    BY <1>6, <1>7, <2>3, FS_Subset, FS_CardinalityType
  <2> DEFINE x == Cardinality(Mapped')
             y == Cardinality(S)
             z == Cardinality(S \cup Entrants)
  <2>5. x \in Nat /\ y \in Nat /\ z \in Nat /\ x <= z /\ z <= y + n /\ y <= k + p
    BY <2>2, <2>3, <2>4
  <2> HIDE DEF x, y, z, k, p, n
  <2>6. x <= (k + p) + n
    BY <1>5, <2>5
  <2> QED BY <2>5, <2>6 DEF x
<1> HIDE DEF k, p, n
<1>9. Player \in Mapped' /\ ~mapped'[Player].retiring /\ Cardinality(Mapped') <= ServerMapped
  <2>1. CASE Player \in Mapped /\ ~mapped[Player].retiring /\ Cardinality(Mapped) <= ServerMapped
    <3>1. Player \notin Leavers
      <4>1. CASE Comings(Noted)
        BY <1>2, <4>1 DEF Leavers, Leaving, Gone, Since
      <4>2. CASE ~Comings(Noted)
        <5>1. Player \in StillHeld
          BY <1>2, <2>1 DEF StillHeld, Relevant
        <5> QED BY <4>2, <5>1 DEF Leavers, Leaving
      <4> QED BY <4>1, <4>2
    <3>2. Player \notin Retirees
      BY <1>1, <3>1, PublishParts
    <3>3. Player \notin DOMAIN NewIds /\ Player \in Mapped'
      BY <1>3, <2>1, <3>2 DEF PublishNames
    <3>4. Renewed[Player] = mapped[Player]
      BY <3>1, <3>2, <3>3, ReplicationAssumption DEF Renewed, Remapped
    <3>5. PlayerNew = {}
      BY <2>1, <3>2 DEF PlayerNew, PlayerDeclared
    <3>6. p = 0 /\ k <= Cardinality(Mapped) /\ Cardinality(Mapped) \in Nat
      BY <1>6, <3>5, FS_EmptySet, FS_Subset, FS_CardinalityType DEF p, k
    <3>7. Entrants = {} => n = 0
      BY FS_EmptySet DEF n
    <3>8. Cardinality(Mapped') <= ServerMapped
      BY <1>5, <1>8, <2>1, <3>6, <3>7, ReplicationAssumption
    <3> QED BY <1>4, <2>1, <3>3, <3>4, <3>8
  <2>2. CASE Mapped = {} /\ nextNet = 1
    <3>1. PlayerNew = {Player}
      BY <1>2, <2>2 DEF PlayerNew, PlayerDeclared
    <3>2. Player \in DOMAIN NewIds /\ Player \in Mapped'
      BY <1>1, <1>3, <3>1, PublishParts DEF PublishNames
    <3>3. Renewed[Player] = NewMapping(NewIds[Player])
      BY <1>1, <3>2, PublishParts
    <3>4. ~Renewed[Player].retiring
      BY <3>3 DEF NewMapping
    <3>5. p = 1 /\ k = 0
      <4>1. Mapped \ Retirees = {}
        BY <2>2
      <4> QED BY <3>1, <4>1, FS_EmptySet, FS_Singleton DEF p, k
    <3>6. Entrants = {} => n = 0
      BY FS_EmptySet DEF n
    <3>7. Cardinality(Mapped') <= ServerMapped
      BY <1>5, <1>8, <3>5, <3>6, ReplicationAssumption
    <3> QED BY <1>4, <3>2, <3>4, <3>7
  <2> QED BY <2>1, <2>2 DEF PlayerHeld
<1> QED BY <1>1, <1>2, <1>9 DEF PlayerHeld

\* So does every step.
LEMMA HeldKeeps ==
    ASSUME IInv, PlayerPresent, PlayerHeld, [Next]_vars
    PROVE  PlayerHeld'
<1>1. CASE \E arrived \in BOOLEAN : Publish(arrived)
  BY <1>1, PublishHeld
<1>2. CASE PublishNothing
  <2>1. changed' = Noted /\ stepped /\ UNCHANGED <<mapped, nextNet>>
    BY <1>2 DEF PublishNothing
  <2> QED BY <2>1, NotedKeepsPlayer DEF PlayerHeld, Mapped
<1>3. ASSUME UNCHANGED <<changed, nextNet>>,
             \A e \in Entities : mapped'[e].id = mapped[e].id /\ mapped'[e].retiring = mapped[e].retiring
      PROVE  PlayerHeld'
  <2>1. Mapped' = Mapped
    BY <1>3 DEF Mapped
  <2> QED BY <1>3, <2>1, ReplicationAssumption DEF PlayerHeld
<1>4. CASE ReceiveMappingAck
  <2>1. UNCHANGED <<changed, nextNet>>
    BY <1>4 DEF ReceiveMappingAck, lookVars
  <2> QED BY <1>3, <1>4, <2>1, AckedAlone DEF IInv
<1>5. CASE \E a \in acks : ReceiveStateAck(a)
  <2>1. UNCHANGED <<changed, nextNet>>
    BY <1>5 DEF ReceiveStateAck, lookVars
  <2> QED BY <1>3, <1>5, <2>1, AckedAtGrows
<1>6. CASE \/ \E w \in Worlds, held \in SUBSET Entities : \E in \in SUBSET held : Step(w, in, held)
           \/ ReceiveFrame \/ SendStateAck
           \/ \E d \in states : ReceiveState(d)
           \/ UNCHANGED vars
  <2>1. UNCHANGED <<changed, nextNet, mapped>>
    BY <1>6 DEF Step, ReceiveFrame, SendStateAck, ReceiveState, vars, serverVars, lookVars
  <2> QED BY <1>3, <2>1
<1> QED BY <1>1, <1>2, <1>4, <1>5, <1>6 DEF Next, Deliver

\* While the player has a replicated value in every tick, the server's own
\* bound is room enough: nobody ends the connection.
THEOREM EndedNeverOf ==
    ASSUME ClientMapped >= ServerMapped
    PROVE  Spec /\ []PlayerPresent => []NeverEnded
<1>1. Init => PlayerHeld
  <2> SUFFICES ASSUME Init PROVE PlayerHeld
    OBVIOUS
  <2>1. changed = <<>> /\ nextNet = 1 /\ \A e \in Entities : mapped[e].id = 0
    BY DEF Init, NoMapping, NewMapping
  <2> QED BY <2>1 DEF PlayerHeld, Mapped
<1>2. IInv /\ PlayerPresent /\ PlayerHeld /\ [Next]_vars => PlayerHeld'
  BY HeldKeeps
<1>3. PlayerHeld => Fits
  <2> SUFFICES ASSUME PlayerHeld PROVE Fits
    OBVIOUS
  <2>1. IsFiniteSet(Mapped) /\ Cardinality({}) = 0
    BY ReplicationAssumption, FS_Subset, FS_EmptySet DEF Mapped
  <2>2. Cardinality(Mapped) \in Nat
    BY <2>1, FS_CardinalityType
  <2>3. Cardinality(Mapped) <= ServerMapped
    BY <2>1, ReplicationAssumption DEF PlayerHeld
  <2> QED BY <2>2, <2>3, ReplicationAssumption DEF Fits
<1>4. IInv /\ Known /\ Stays /\ Fits' /\ [Next]_vars => Stays'
  BY StaysKeep
<1>5. Stays /\ ~struck => NeverEnded
  BY DEF Stays, NeverEnded
<1> QED BY <1>1, <1>2, <1>3, <1>4, <1>5, InitStays, Inductive, KnownAlways, StruckNever, PTL DEF Spec

-----------------------------------------------------------------------------
(* What the fast path of publishTo leaves out has not come or gone. *)

\* The latest publish, or the one before the tick in progress.
Published == IF stepped THEN tick - 1 ELSE tick

\* The changes kept are of the latest publishes, one each, and the connection
\* was looked at on its own tick, not a whole period ago.
Recent ==
    /\ Published \in Nat
    /\ \A i \in 1 .. Len(changed) : changed[i].publish = Published - Len(changed) + i
    /\ Len(changed) <= StatePeriod + 1
    /\ lookedAt <= Published
    /\ lookedAt # 0 => (lookedAt + Phase) % StatePeriod = 0 /\ Published - lookedAt < StatePeriod

\* What was there in the latest publish has come back since it was last gone.
Returned ==
    \A i \in 1 .. Len(changed) : \A e \in changed[i].gone :
        PresentIn(previous, e) => \E j \in 1 .. Len(changed) : i < j /\ e \in changed[j].appeared

\* A multiple of a period, and the next one.
LEMMA NextTurn ==
    ASSUME NEW n \in Nat \ {0}, NEW a \in Nat, a % n = 0
    PROVE  (a + n) % n = 0
<1>1. a = n * (a \div n)
  OBVIOUS
<1>2. a \div n \in Nat
  OBVIOUS
<1> DEFINE q == a \div n
           p == (a + n) \div n
           r == (a + n) % n
<1>3. a + n = n * p + r /\ r \in 0 .. (n - 1) /\ p \in Int
  OBVIOUS
<1>4. a + n = n * (q + 1)
  BY <1>1, <1>2
<1> DEFINE d == q + 1 - p
<1>5. q \in Nat /\ d \in Int
  BY <1>2, <1>3
<1>6. r = n * d
  BY <1>3, <1>4, <1>5
<1> HIDE DEF d, q, p
<1>7. d >= 1 => n * d >= n
  BY <1>5
<1>8. d <= -1 => n * d < 0
  BY <1>5
<1> HIDE DEF r
<1>9. d = 0
  BY <1>3, <1>5, <1>6, <1>7, <1>8
<1>10. r = 0
  BY <1>6, <1>9
<1> QED BY <1>10 DEF r

\* Whether noting drops the oldest change kept
Dropped == IF Len(changed) > StatePeriod THEN 1 ELSE 0

\* What is noted: the changes kept, without the oldest when they are more than
\* a period's, and the latest.
LEMMA NotedIs ==
    ASSUME TypeOK
    PROVE  /\ Noted \in Seq(Change) /\ Len(changed) \in Nat /\ Dropped \in {0, 1}
           /\ Len(Noted) = Len(changed) - Dropped + 1
           /\ Noted[Len(Noted)] = Changes
           /\ \A i \in 1 .. Len(Noted) : i # Len(Noted) =>
                 i + Dropped \in 1 .. Len(changed) /\ Noted[i] = changed[i + Dropped]
<1> DEFINE kept == IF Len(changed) > StatePeriod THEN Tail(changed) ELSE changed
<1>1. changed \in Seq(Change) /\ Len(changed) \in Nat /\ StatePeriod \in Nat
  BY ReplicationAssumption DEF TypeOK
<1>2. /\ kept \in Seq(Change) /\ Len(kept) = Len(changed) - Dropped
      /\ \A i \in 1 .. Len(kept) : i + Dropped \in 1 .. Len(changed) /\ kept[i] = changed[i + Dropped]
  <2>1. CASE Len(changed) > StatePeriod
    <3>1. changed # <<>> /\ kept = Tail(changed) /\ Dropped = 1
      BY <1>1, <2>1 DEF Dropped
    <3>2. kept \in Seq(Change) /\ Len(kept) = Len(changed) - 1
      BY <1>1, <3>1
    <3>3. \A i \in 1 .. Len(kept) : i + 1 \in 1 .. Len(changed) /\ kept[i] = changed[i + 1]
      BY <1>1, <3>1
    <3> QED BY <3>1, <3>2, <3>3
  <2>2. CASE ~(Len(changed) > StatePeriod)
    BY <1>1, <2>2 DEF Dropped
  <2> QED BY <2>1, <2>2
<1> HIDE DEF kept
<1>3. Changes \in Change
  BY DEF TypeOK, Changes, Change, Present
<1>4. Noted = Append(kept, Changes)
  BY DEF Noted, kept
<1>5. /\ Noted \in Seq(Change) /\ Len(Noted) = Len(kept) + 1 /\ Noted[Len(kept) + 1] = Changes
      /\ \A i \in 1 .. Len(kept) : Noted[i] = kept[i]
  BY <1>2, <1>3, <1>4
<1>6. Dropped \in {0, 1} /\ Len(kept) \in Nat
  BY <1>2 DEF Dropped
<1> QED BY <1>1, <1>2, <1>5, <1>6

\* A publish notes its own change, and keeps every one since the connection's
\* last turn.
LEMMA NotedRecent ==
    ASSUME TypeOK, Recent, stepped
    PROVE  /\ \A i \in 1 .. Len(Noted) : Noted[i].publish = tick - Len(Noted) + i
           /\ Len(Noted) <= StatePeriod + 1
           /\ tick \in Nat \ {0} /\ lookedAt < tick /\ lookedAt \in Nat
           /\ \A i \in 1 .. Len(changed) : changed[i].publish > lookedAt /\ lookedAt # 0 =>
                 /\ i - Dropped \in 1 .. Len(Noted) /\ Noted[i - Dropped] = changed[i]
                 /\ i - Dropped # Len(Noted)
<1>1. /\ tick \in Nat /\ tick # 0 /\ lookedAt \in Nat /\ StatePeriod \in Nat \ {0}
      /\ Published = tick - 1 /\ lookedAt <= tick - 1
  BY ReplicationAssumption DEF TypeOK, Recent, Published
<1> DEFINE n == Len(changed)
           m == Len(Noted)
<1>2. /\ n \in Nat /\ Dropped \in {0, 1} /\ m = n - Dropped + 1 /\ m \in Nat
      /\ Noted[m] = Changes
      /\ \A i \in 1 .. m : i # m => i + Dropped \in 1 .. n /\ Noted[i] = changed[i + Dropped]
  BY NotedIs
<1>3. /\ \A i \in 1 .. n : changed[i].publish = tick - 1 - n + i
      /\ n <= StatePeriod + 1
      /\ lookedAt # 0 => tick - 1 - lookedAt < StatePeriod
  BY <1>1 DEF Recent
<1>4. Changes.publish = tick
  BY DEF Changes
<1>5. Dropped = 1 <=> n > StatePeriod
  BY DEF Dropped
<1> HIDE DEF n, m
<1>6. ASSUME NEW i \in 1 .. m
      PROVE  Noted[i].publish = tick - m + i
  <2>1. CASE i = m
    BY <1>1, <1>2, <1>4, <2>1
  <2>2. CASE i # m
    BY <1>1, <1>2, <1>3, <2>2
  <2> QED BY <2>1, <2>2
<1>7. m <= StatePeriod + 1
  BY <1>1, <1>2, <1>3, <1>5
<1>8. ASSUME NEW i \in 1 .. n, changed[i].publish > lookedAt, lookedAt # 0
      PROVE  i - Dropped \in 1 .. m /\ Noted[i - Dropped] = changed[i] /\ i - Dropped # m
  <2>1. tick - 1 - n + i > lookedAt
    BY <1>3, <1>8
  <2>2. i - Dropped \in 1 .. m /\ i - Dropped # m
    BY <1>1, <1>2, <1>3, <1>5, <1>8, <2>1
  <2>3. (i - Dropped) + Dropped = i
    BY <1>2
  <2> QED BY <1>2, <2>2, <2>3
<1> QED BY <1>1, <1>6, <1>7, <1>8 DEF n, m

\* Every step keeps the changes recent.
LEMMA RecentKeeps ==
    ASSUME TypeOK, Recent, [Next]_vars
    PROVE  Recent'
<1>1. CASE \E w \in Worlds, held \in SUBSET Entities : \E in \in SUBSET held : Step(w, in, held)
  <2>1. ~stepped /\ stepped' /\ tick' = tick + 1 /\ UNCHANGED <<changed, lookedAt>> /\ tick \in Nat
    BY <1>1 DEF Step, serverVars, lookVars, TypeOK
  <2>2. Published' = Published
    BY <2>1 DEF Published
  <2> QED BY <2>1, <2>2 DEF Recent
<1>2. ASSUME stepped, stepped' = FALSE, tick' = tick, changed' = Noted,
             \/ lookedAt' = tick /\ (tick + Phase) % StatePeriod = 0
             \/ lookedAt' = lookedAt /\ (tick + Phase) % StatePeriod # 0
      PROVE  Recent'
  <2>1. /\ \A i \in 1 .. Len(Noted) : Noted[i].publish = tick - Len(Noted) + i
        /\ Len(Noted) <= StatePeriod + 1
        /\ tick \in Nat \ {0} /\ lookedAt < tick /\ lookedAt \in Nat
    BY <1>2, NotedRecent
  <2>2. Published' = tick /\ Published = tick - 1
    BY <1>2 DEF Published
  <2>3. StatePeriod \in Nat \ {0} /\ Phase \in Nat
    BY ReplicationAssumption
  <2>4. CASE lookedAt' = tick /\ (tick + Phase) % StatePeriod = 0
    BY <1>2, <2>1, <2>2, <2>3, <2>4 DEF Recent
  <2>5. CASE lookedAt' = lookedAt /\ (tick + Phase) % StatePeriod # 0
    <3>1. ASSUME lookedAt # 0
          PROVE  (lookedAt + Phase) % StatePeriod = 0 /\ tick - lookedAt < StatePeriod
      <4>1. (lookedAt + Phase) % StatePeriod = 0 /\ tick - 1 - lookedAt < StatePeriod
        BY <2>2, <3>1 DEF Recent
      <4>2. ((lookedAt + Phase) + StatePeriod) % StatePeriod = 0
        <5>1. lookedAt + Phase \in Nat
          BY <2>1, <2>3
        <5> QED BY <2>3, <4>1, <5>1, NextTurn
      <4>3. ASSUME tick - lookedAt = StatePeriod
            PROVE  FALSE
        <5>1. tick + Phase = (lookedAt + Phase) + StatePeriod
          BY <2>1, <2>3, <4>3
        <5> QED BY <2>5, <4>2, <5>1
      <4> QED BY <2>1, <2>3, <4>1, <4>3
    <3>2. lookedAt' # 0 => (lookedAt' + Phase) % StatePeriod = 0 /\ Published' - lookedAt' < StatePeriod
      BY <2>2, <2>5, <3>1
    <3>3. Published' \in Nat /\ lookedAt' <= Published'
      BY <2>1, <2>2, <2>5
    <3>4. /\ \A i \in 1 .. Len(changed') : changed'[i].publish = Published' - Len(changed') + i
          /\ Len(changed') <= StatePeriod + 1
      BY <1>2, <2>1, <2>2
    <3> QED BY <3>2, <3>3, <3>4 DEF Recent
  <2> QED BY <1>2, <2>4, <2>5
<1>3. CASE PublishNothing
  BY <1>2, <1>3 DEF PublishNothing
<1>4. CASE \E arrived \in BOOLEAN : Publish(arrived)
  BY <1>2, <1>4, PublishUnfolds
<1>5. CASE \/ ReceiveMappingAck \/ ReceiveFrame \/ SendStateAck
           \/ \E d \in states : ReceiveState(d)
           \/ \E a \in acks : ReceiveStateAck(a)
           \/ UNCHANGED vars
  <2>1. UNCHANGED <<tick, stepped, changed, lookedAt>>
    BY <1>5 DEF ReceiveMappingAck, ReceiveFrame, SendStateAck, ReceiveState, ReceiveStateAck,
                vars, worldVars, serverVars, lookVars
  <2> QED BY <2>1 DEF Recent, Published
<1> QED BY <1>1, <1>3, <1>4, <1>5 DEF Next, Deliver

\* What a publish notes: who came, who is gone.
LEMMA ChangesAre ==
    ASSUME TypeOK, NEW e \in Entities
    PROVE  /\ e \in Present <=> PresentIn(world, e)
           /\ e \in Changes.appeared <=> PresentIn(world, e) /\ ~PresentIn(previous, e)
           /\ e \in Changes.gone <=> ~PresentIn(world, e) /\ PresentIn(previous, e)
           /\ Changes.publish = tick
BY DEF Changes, Present

\* What a publish notes tells of every return.
LEMMA NotedReturned ==
    ASSUME TypeOK, Recent, Returned, stepped
    PROVE  \A i \in 1 .. Len(Noted) : \A e \in Noted[i].gone :
              PresentIn(world, e) => \E j \in 1 .. Len(Noted) : i < j /\ e \in Noted[j].appeared
<1> DEFINE n == Len(changed)
           m == Len(Noted)
<1>1. /\ n \in Nat /\ Dropped \in {0, 1} /\ m = n - Dropped + 1 /\ m \in Nat
      /\ Noted[m] = Changes /\ Noted \in Seq(Change)
      /\ \A i \in 1 .. m : i # m => i + Dropped \in 1 .. n /\ Noted[i] = changed[i + Dropped]
  BY NotedIs
<1>2. SUFFICES ASSUME NEW i \in 1 .. m, NEW e \in Noted[i].gone, PresentIn(world, e)
               PROVE  \E j \in 1 .. m : i < j /\ e \in Noted[j].appeared
  OBVIOUS
<1>3. e \in Entities
  <2>1. Noted[i] \in Change
    <3> HIDE DEF m
    <3>1. DOMAIN Noted = 1 .. m
      BY <1>1 DEF m
    <3> QED BY <1>1, <1>2, <3>1
  <2> QED BY <1>2, <2>1 DEF Change
<1>4. i # m
  BY <1>1, <1>2, <1>3, ChangesAre
<1>5. CASE PresentIn(previous, e)
  <2>1. i + Dropped \in 1 .. n /\ e \in changed[i + Dropped].gone
    BY <1>1, <1>2, <1>4
  <2>2. PICK j \in 1 .. n : i + Dropped < j /\ e \in changed[j].appeared
    BY <1>5, <2>1 DEF Returned
  <2> HIDE DEF n, m
  <2>3. j - Dropped \in 1 .. m /\ j - Dropped # m /\ i < j - Dropped /\ (j - Dropped) + Dropped = j
    BY <1>1, <2>2
  <2>4. Noted[j - Dropped] = changed[j]
    BY <1>1, <2>3
  <2> QED BY <2>2, <2>3, <2>4
<1>6. CASE ~PresentIn(previous, e)
  <2>1. e \in Noted[m].appeared
    BY <1>1, <1>2, <1>3, <1>6, ChangesAre
  <2> HIDE DEF n, m
  <2>2. m \in 1 .. m /\ i < m
    BY <1>1, <1>4
  <2> QED BY <2>1, <2>2
<1> QED BY <1>5, <1>6

\* What NothingUnmapped says of one entity: the look of the connection's last
\* turn left nothing out, so what has not appeared since is mapped.
NotLeftOut(e) ==
    /\ PresentIn(previous, e) /\ (e = Player => nextNet # 0)
    /\ \A i \in DOMAIN changed : changed[i].publish > lookedAt => e \notin changed[i].appeared
    => mapped[e].id # 0

\* It carries over to what the publish in progress notes.
LEMMA NotedLeftOut ==
    ASSUME TypeOK, Recent, stepped, lookedAt # 0, NEW e \in Entities, NotLeftOut(e),
           PresentIn(world, e), e = Player => nextNet # 0,
           \A i \in 1 .. Len(Noted) : Noted[i].publish > lookedAt => e \notin Noted[i].appeared
    PROVE  mapped[e].id # 0
<1>1. /\ tick \in Nat \ {0} /\ lookedAt < tick /\ lookedAt \in Nat
      /\ \A i \in 1 .. Len(changed) : changed[i].publish > lookedAt /\ lookedAt # 0 =>
            i - Dropped \in 1 .. Len(Noted) /\ Noted[i - Dropped] = changed[i]
  BY NotedRecent
<1>2. Noted[Len(Noted)] = Changes /\ Len(Noted) \in 1 .. Len(Noted)
  <2>1. /\ Len(changed) \in Nat /\ Dropped \in {0, 1} /\ Noted[Len(Noted)] = Changes
        /\ Len(Noted) = Len(changed) - Dropped + 1
    BY NotedIs
  <2>2. Len(changed) = 0 => Dropped = 0
    BY ReplicationAssumption DEF Dropped
  <2> QED BY <2>1, <2>2
<1>3. PresentIn(previous, e)
  BY <1>1, <1>2, ChangesAre
<1>4. DOMAIN changed = 1 .. Len(changed)
  BY DEF TypeOK
<1>5. \A i \in DOMAIN changed : changed[i].publish > lookedAt => e \notin changed[i].appeared
  BY <1>1, <1>4
<1> QED BY <1>3, <1>5 DEF NotLeftOut

\* An unbounded look leaves nothing out.
LEMMA PublishMaps ==
    ASSUME IInv, Recent, Returned, NothingUnmapped, NEW arrived \in BOOLEAN, Publish(arrived)
    PROVE  NothingUnmapped'
<1>1. TypeOK /\ stepped /\ Mapped \subseteq Entities
  BY PublishUnfolds DEF IInv, Mapped
<1>2. PublishNames
  BY PublishGives
<1>3. SUFFICES ASSUME ~Interest, bounded' = FALSE, NEW e \in Entities, PresentIn(world, e),
                      e = Player => nextNet' # 0
               PROVE  e \in Mapped'
  <2>1. previous' = world /\ bounded' \in BOOLEAN
    BY PublishUnfolds
  <2>2. \A e \in Entities : e \in Mapped' => mapped'[e].id # 0
    BY DEF Mapped
  <2>3. \A e : PresentIn(previous, e)' <=> PresentIn(world, e)
    BY <2>1 DEF PresentIn
  <2> QED BY <1>3, <2>1, <2>2, <2>3 DEF NothingUnmapped
<1>4. Leavers = Retirees /\ Enterers = Entrants
  BY <1>3, PublishUnfolds
<1>5. DOMAIN NewIds = PlayerNew \cup Entrants
  BY <1>1, PublishParts
<1>6. e \in Present
  BY <1>1, <1>3, ChangesAre
<1>7. SUFFICES ASSUME e \notin DOMAIN NewIds, e \notin Mapped \ Retirees
               PROVE  FALSE
  BY <1>2 DEF PublishNames
<1>8. e # Player
  <2>1. SUFFICES ASSUME e = Player
                 PROVE  nextNet' = 0
    BY <1>3
  <2>2. nextNet = 0
    BY <1>5, <1>6, <1>7, <2>1 DEF PlayerNew, PlayerDeclared
  <2>3. IdsLeft = 0
    BY <2>2 DEF IdsLeft
  <2>4. PlayerNew = {} /\ Entrants = {}
    <3>1. PlayerNew = {}
      BY <2>2 DEF PlayerNew, PlayerDeclared
    <3>2. ASSUME NEW f \in Enterers
          PROVE  ~MayDeclare(Retirees, Cardinality(PlayerDeclared(Retirees))
                                       + Cardinality({g \in Enterers : g < f}))
      <4>1. IsFiniteSet({g \in Enterers : g < f}) /\ IsFiniteSet(PlayerDeclared(Retirees))
        <5>1. IsFiniteSet(Enterers)
          BY <1>1, PublishParts, ReplicationAssumption, FS_Subset
        <5> QED BY <3>1, <5>1, FS_Subset, FS_EmptySet DEF PlayerNew
      <4>2. /\ Cardinality({g \in Enterers : g < f}) \in Nat
            /\ Cardinality(PlayerDeclared(Retirees)) \in Nat
        BY <4>1, FS_CardinalityType
      <4> QED BY <2>3, <4>2 DEF MayDeclare
    <3> QED BY <3>1, <3>2 DEF Entrants, Entered
  <2>5. Cardinality(DOMAIN NewIds) = 0
    BY <1>5, <2>4, FS_EmptySet
  <2> QED BY <2>3, <2>5, PublishUnfolds
<1>9. Relevant(e, TRUE) /\ Relevant(e, FALSE)
  BY <1>3 DEF Relevant
<1>10. e \notin Enterers /\ e \notin PlayerNew
  BY <1>4, <1>5, <1>7
<1>11. CASE ~Comings(Noted)
  <2>1. e \in StillHeld
    BY <1>6, <1>9, <1>10, <1>11 DEF Enterers, Entering, PlayerNew
  <2>2. e \in Mapped /\ e \notin Leavers
    BY <1>11, <2>1 DEF StillHeld, Leavers, Leaving
  <2> QED BY <1>4, <1>7, <2>2
<1>12. CASE Comings(Noted)
  <2>1. ~bounded /\ lookedAt # 0
    BY <1>12 DEF Comings, KeptSince
  <2>2. e \notin Appeared(Noted)
    BY <1>6, <1>7, <1>8, <1>10, <1>12 DEF Enterers, Entering
  <2>3. Noted \in Seq(Change) /\ DOMAIN Noted = 1 .. Len(Noted)
    BY <1>1, NotedIs
  <2>4. \A i \in 1 .. Len(Noted) : Noted[i].publish > lookedAt => e \notin Noted[i].appeared
    BY <2>2, <2>3 DEF Appeared, Since
  <2>5. e \in Mapped
    <3>1. NotLeftOut(e)
      BY <1>3, <2>1 DEF NothingUnmapped, NotLeftOut
    <3> QED BY <1>1, <1>3, <1>8, <2>1, <2>4, <3>1, NotedLeftOut DEF Mapped
  <2>6. e \in Gone(Noted)
    BY <1>4, <1>7, <1>12, <2>5 DEF Leavers, Leaving
  <2>7. PICK i \in 1 .. Len(Noted) : Noted[i].publish > lookedAt /\ e \in Noted[i].gone
    BY <2>3, <2>6 DEF Gone, Since
  <2>8. PICK j \in 1 .. Len(Noted) : i < j /\ e \in Noted[j].appeared
    BY <1>1, <1>3, <2>7, NotedReturned
  <2>9. Noted[j].publish > lookedAt
    <3>1. /\ Noted[i].publish = tick - Len(Noted) + i /\ Noted[j].publish = tick - Len(Noted) + j
          /\ tick \in Nat /\ lookedAt \in Nat
      BY <1>1, NotedRecent
    <3>2. Len(Noted) \in Nat
      BY <2>3
    <3> QED BY <2>7, <2>8, <3>1, <3>2
  <2> QED BY <2>4, <2>8, <2>9
<1> QED BY <1>11, <1>12

\* Every step keeps them.
LEMMA ReturnedKeeps ==
    ASSUME TypeOK, Recent, Returned, [Next]_vars
    PROVE  Returned'
<1>1. CASE stepped /\ changed' = Noted /\ previous' = world
  <2>1. \A i \in 1 .. Len(Noted) : \A e \in Noted[i].gone :
           PresentIn(world, e) => \E j \in 1 .. Len(Noted) : i < j /\ e \in Noted[j].appeared
    BY <1>1, NotedReturned
  <2>2. \A e : PresentIn(previous, e)' <=> PresentIn(world, e)
    BY <1>1 DEF PresentIn
  <2> QED BY <1>1, <2>1, <2>2 DEF Returned
<1>2. CASE UNCHANGED <<changed, previous>>
  BY <1>2 DEF Returned, PresentIn
<1>3. CASE PublishNothing
  BY <1>1, <1>3 DEF PublishNothing
<1>4. CASE \E arrived \in BOOLEAN : Publish(arrived)
  BY <1>1, <1>4, PublishUnfolds
<1>5. CASE \/ \E w \in Worlds, held \in SUBSET Entities : \E in \in SUBSET held : Step(w, in, held)
           \/ ReceiveMappingAck \/ ReceiveFrame \/ SendStateAck
           \/ \E d \in states : ReceiveState(d)
           \/ \E a \in acks : ReceiveStateAck(a)
           \/ UNCHANGED vars
  BY <1>2, <1>5 DEF Step, ReceiveMappingAck, ReceiveFrame, SendStateAck, ReceiveState,
                    ReceiveStateAck, vars, serverVars, lookVars
<1> QED BY <1>3, <1>4, <1>5 DEF Next, Deliver

\* No step leaves an entity out.
LEMMA UnmappedKeeps ==
    ASSUME IInv, Recent, Returned, NothingUnmapped, [Next]_vars
    PROVE  NothingUnmapped'
<1>0. TypeOK
  BY DEF IInv
<1>1. CASE \E arrived \in BOOLEAN : Publish(arrived)
  BY <1>1, PublishMaps
<1>2. CASE PublishNothing
  <2>1. /\ stepped /\ changed' = Noted /\ previous' = world
        /\ UNCHANGED <<lookedAt, bounded, mapped, nextNet>>
    BY <1>2 DEF PublishNothing
  <2>2. DOMAIN Noted = 1 .. Len(Noted)
    BY <1>0, NotedIs
  <2>3. ASSUME ~Interest, ~bounded, lookedAt # 0, NEW e \in Entities, PresentIn(world, e),
               e = Player => nextNet # 0,
               \A i \in DOMAIN Noted : Noted[i].publish > lookedAt => e \notin Noted[i].appeared
        PROVE  mapped[e].id # 0
    <3>1. NotLeftOut(e)
      BY <2>3 DEF NothingUnmapped, NotLeftOut
    <3> QED BY <1>0, <2>1, <2>2, <2>3, <3>1, NotedLeftOut
  <2>4. \A e : PresentIn(previous, e)' <=> PresentIn(world, e)
    BY <2>1 DEF PresentIn
  <2> QED BY <2>1, <2>3, <2>4 DEF NothingUnmapped
<1>3. ASSUME UNCHANGED <<changed, previous, lookedAt, bounded, nextNet>>,
             \A e \in Entities : mapped'[e].id = mapped[e].id
      PROVE  NothingUnmapped'
  BY <1>3 DEF NothingUnmapped, PresentIn
<1>4. CASE ReceiveMappingAck
  <2>1. UNCHANGED <<changed, previous, lookedAt, bounded, nextNet>>
    BY <1>4 DEF ReceiveMappingAck, lookVars
  <2> QED BY <1>0, <1>3, <1>4, <2>1, AckedAlone
<1>5. CASE \E a \in acks : ReceiveStateAck(a)
  <2>1. UNCHANGED <<changed, previous, lookedAt, bounded, nextNet>>
    BY <1>5 DEF ReceiveStateAck, lookVars
  <2> QED BY <1>3, <1>5, <2>1, AckedAtGrows
<1>6. CASE \/ \E w \in Worlds, held \in SUBSET Entities : \E in \in SUBSET held : Step(w, in, held)
           \/ ReceiveFrame \/ SendStateAck
           \/ \E d \in states : ReceiveState(d)
           \/ UNCHANGED vars
  <2>1. UNCHANGED <<changed, previous, lookedAt, bounded, nextNet, mapped>>
    BY <1>6 DEF Step, ReceiveFrame, SendStateAck, ReceiveState, vars, serverVars, lookVars
  <2> QED BY <1>3, <2>1
<1> QED BY <1>1, <1>2, <1>4, <1>5, <1>6 DEF Next, Deliver

\* At first nothing has been looked at.
LEMMA InitLooked == Init => Recent /\ Returned /\ NothingUnmapped
<1> SUFFICES ASSUME Init PROVE Recent /\ Returned /\ NothingUnmapped
  OBVIOUS
<1>1. changed = <<>> /\ lookedAt = 0 /\ tick = 0 /\ stepped = FALSE
  BY DEF Init
<1>2. Published = 0 /\ StatePeriod \in Nat /\ Len(changed) = 0
  BY <1>1, ReplicationAssumption DEF Published
<1> QED BY <1>1, <1>2 DEF Recent, Returned, NothingUnmapped

\* The changes kept are a period's: what the connection has not looked at since
\* its last turn is among them.
THEOREM RecentAlways == Spec => [](Recent /\ Returned)
<1>1. TypeOK /\ (Recent /\ Returned) /\ [Next]_vars => (Recent /\ Returned)'
  BY RecentKeeps, ReturnedKeeps
<1> QED BY <1>1, InitLooked, TypeCorrect, PTL DEF Spec

\* The fast path of publishTo (kComings) leaves nothing out that came while it
\* was not looking.
THEOREM UnmappedNothing == Spec => []NothingUnmapped
<1>1. IInv /\ (Recent /\ Returned) /\ NothingUnmapped /\ [Next]_vars => NothingUnmapped'
  BY UnmappedKeeps
<1> QED BY <1>1, InitLooked, Inductive, RecentAlways, PTL DEF Spec

-----------------------------------------------------------------------------
(* What the incremental look of publishTo leaves out needs no looking at. *)

\* Unchanged since the connection's last turn, by the changes kept
Untouched(e) == \A i \in DOMAIN changed : changed[i].publish > lookedAt => e \notin changed[i].entities

\* Of what is settled, the server knows that the client holds every value of
\* the latest publish; and nothing is mapped before it is looked at.
SettledHeld ==
    \A e \in Entities, c \in Components :
        /\ mapped[e].id # 0 /\ ~mapped[e].retiring /\ e \notin unsettled /\ Untouched(e)
        /\ previous[e][c] # None /\ (e = Player \/ c \notin OwnOnly)
        => HeldAs(mapped[e].replicas[c], previous[e][c])
LookedFirst == \A e \in Entities : mapped[e].id # 0 => lookedAt # 0

\* What the publish in progress finds unchanged since then was settled by the
\* values it was left with, which it has still.
LEMMA NotedSettled ==
    ASSUME TypeOK, Recent, SettledHeld, stepped, lookedAt # 0,
           NEW e \in Entities, NEW c \in Components,
           mapped[e].id # 0, ~mapped[e].retiring, e \notin unsettled,
           \A i \in 1 .. Len(Noted) : Noted[i].publish > lookedAt => e \notin Noted[i].entities,
           world[e][c] # None, e = Player \/ c \notin OwnOnly
    PROVE  HeldAs(mapped[e].replicas[c], world[e][c])
<1>1. /\ tick \in Nat \ {0} /\ lookedAt < tick /\ lookedAt \in Nat
      /\ \A i \in 1 .. Len(changed) : changed[i].publish > lookedAt /\ lookedAt # 0 =>
            i - Dropped \in 1 .. Len(Noted) /\ Noted[i - Dropped] = changed[i]
  BY NotedRecent
<1>2. Noted[Len(Noted)] = Changes /\ Len(Noted) \in 1 .. Len(Noted)
  <2>1. /\ Len(changed) \in Nat /\ Dropped \in {0, 1} /\ Noted[Len(Noted)] = Changes
        /\ Len(Noted) = Len(changed) - Dropped + 1
    BY NotedIs
  <2>2. Len(changed) = 0 => Dropped = 0
    BY ReplicationAssumption DEF Dropped
  <2> QED BY <2>1, <2>2
<1>3. e \notin Changes.entities
  BY <1>1, <1>2 DEF Changes
<1>4. previous[e][c] = world[e][c]
  BY <1>3 DEF Changes
<1>5. DOMAIN changed = 1 .. Len(changed)
  BY DEF TypeOK
<1>6. Untouched(e)
  BY <1>1, <1>5 DEF Untouched
<1> QED BY <1>4, <1>6 DEF SettledHeld

\* A look settles only what the client holds.
LEMMA PublishSettles ==
    ASSUME IInv, Recent, SettledHeld, NEW arrived \in BOOLEAN, Publish(arrived)
    PROVE  SettledHeld'
<1>1. /\ TypeOK /\ stepped /\ mapped' = Sent(Renewed, Eligible, DOMAIN Taken)
      /\ previous' = world /\ lookedAt' = tick
      /\ unsettled' = (Scanned \ Opened) \cup {s[1] : s \in Pending}
  BY PublishUnfolds DEF IInv
<1>2. tick # 0
  BY <1>1, NotedRecent
<1>3. SUFFICES ASSUME NEW e \in Entities, NEW c \in Components,
                      mapped'[e].id # 0, ~mapped'[e].retiring, e \notin unsettled',
                      world[e][c] # None, e = Player \/ c \notin OwnOnly
               PROVE  HeldAs(mapped'[e].replicas[c], world[e][c])
  BY <1>1, <1>2 DEF SettledHeld
<1>4. /\ Renewed[e].id # 0 /\ ~Renewed[e].retiring
      /\ <<e, c>> \notin Eligible => mapped'[e].replicas[c] = Renewed[e].replicas[c]
  BY <1>1, <1>3, SentElsewhere
<1>5. e \notin (Scanned \ Opened) /\ <<e, c>> \notin Pending
  <2>1. <<e, c>> \in Pending => e \in {s[1] : s \in Pending}
    <3>1. ASSUME <<e, c>> \in Pending
          PROVE  \E s \in Pending : e = s[1]
      <4>1. <<e, c>>[1] = e
        OBVIOUS
      <4> QED BY <3>1, <4>1
    <3> QED BY <3>1
  <2> QED BY <1>1, <1>3, <2>1
<1>6. <<e, c>> \notin Eligible
  BY <1>1, <1>5, PublishParts
<1>7. SUFFICES HeldAs(Renewed[e].replicas[c], world[e][c])
  BY <1>4, <1>6
<1>8. CASE e \in Opened
  <2>1. <<e, c>> \in Opened \X Components /\ ValueIn(<<e, c>>) = world[e][c]
    BY <1>8 DEF ValueIn
  <2>2. <<e, c>>[1] = e /\ <<e, c>>[2] = c
    OBVIOUS
  <2>3. HeldAs(ReplicaIn(Renewed, <<e, c>>), ValueIn(<<e, c>>))
    BY <1>3, <1>5, <2>1, <2>2 DEF Pending, Unheld
  <2> QED BY <2>1, <2>2, <2>3 DEF ReplicaIn
<1>9. CASE e \notin Scanned
  <2> DEFINE since == {s \in Since(Noted) \X Entities : s[2] \in Noted[s[1]].entities}
  <2>1. /\ KeptSince(Noted)
        /\ e \notin (unsettled \cup DOMAIN NewIds) \cup {s[2] : s \in since} \cup {Player}
    BY <1>3, <1>4, <1>9 DEF Scanned, Looked
  <2>2. e \notin unsettled /\ e \notin DOMAIN NewIds /\ lookedAt # 0
    BY <2>1 DEF KeptSince
  <2>3. DOMAIN Noted = 1 .. Len(Noted)
    BY <1>1, NotedIs
  <2>4. ASSUME NEW i \in 1 .. Len(Noted), Noted[i].publish > lookedAt, e \in Noted[i].entities
        PROVE  FALSE
    <3>1. i \in Since(Noted)
      BY <2>3, <2>4 DEF Since
    <3>2. <<i, e>>[1] = i /\ <<i, e>>[2] = e /\ <<i, e>> \in Since(Noted) \X Entities
      BY <3>1
    <3>3. <<i, e>> \in since
      BY <2>4, <3>2
    <3> HIDE DEF since
    <3>4. \E s \in since : s[2] = e
      BY <3>2, <3>3
    <3> QED BY <2>1, <3>4
  <2>5. e \notin Retirees
    BY <1>1, <1>3, <1>4, <2>2, PublishParts DEF NoMapping, NewMapping
  <2>6. Renewed[e].id = mapped[e].id /\ Renewed[e].replicas = mapped[e].replicas
    BY <1>1, <1>3, <2>2, <2>5, PublishParts
  <2>7. ~mapped[e].retiring
    <3>1. Renewed[e] = IF e \in Leavers THEN [mapped[e] EXCEPT !.retiring = TRUE] ELSE mapped[e]
      BY <2>2, <2>5 DEF Renewed, Remapped
    <3>2. mapped[e] \in Mapping
      BY <1>1 DEF TypeOK
    <3>3. [mapped[e] EXCEPT !.retiring = TRUE].retiring = TRUE
      BY <3>2 DEF Mapping
    <3> QED BY <1>4, <3>1, <3>3
  <2> QED BY <1>1, <1>3, <1>4, <2>2, <2>4, <2>6, <2>7, NotedSettled
<1> QED BY <1>5, <1>8, <1>9

\* Every step keeps what is settled held.
LEMMA SettledKeeps ==
    ASSUME IInv, Recent, SettledHeld, LookedFirst, [Next]_vars
    PROVE  SettledHeld' /\ LookedFirst'
<1>0. TypeOK
  BY DEF IInv
<1>1. CASE \E arrived \in BOOLEAN : Publish(arrived)
  <2>1. lookedAt' # 0
    BY <1>0, <1>1, PublishUnfolds, NotedRecent
  <2> QED BY <1>1, <2>1, PublishSettles DEF LookedFirst
<1>2. CASE PublishNothing
  <2>1. /\ stepped /\ changed' = Noted /\ previous' = world
        /\ UNCHANGED <<lookedAt, unsettled, mapped>>
    BY <1>2 DEF PublishNothing
  <2>2. ASSUME NEW e \in Entities, NEW c \in Components,
               mapped[e].id # 0, ~mapped[e].retiring, e \notin unsettled,
               \A i \in 1 .. Len(Noted) : Noted[i].publish > lookedAt => e \notin Noted[i].entities,
               world[e][c] # None, e = Player \/ c \notin OwnOnly
        PROVE  HeldAs(mapped[e].replicas[c], world[e][c])
    <3>1. lookedAt # 0
      BY <2>2 DEF LookedFirst
    <3> QED BY <1>0, <2>1, <2>2, <3>1, NotedSettled
  <2>3. DOMAIN Noted = 1 .. Len(Noted)
    BY <1>0, NotedIs
  <2>4. \A e : Untouched(e)' => \A i \in 1 .. Len(Noted) : Noted[i].publish > lookedAt => e \notin Noted[i].entities
    BY <2>1, <2>3 DEF Untouched
  <2>5. LookedFirst'
    BY <2>1 DEF LookedFirst
  <2> QED BY <2>1, <2>2, <2>4, <2>5 DEF SettledHeld
<1>3. ASSUME UNCHANGED <<changed, previous, lookedAt, unsettled>>,
             \A e \in Entities : /\ mapped'[e].id = mapped[e].id
                                 /\ mapped'[e].retiring = mapped[e].retiring,
             \A e \in Entities, c \in Components : \A v :
                HeldAs(mapped[e].replicas[c], v) => HeldAs(mapped'[e].replicas[c], v)
      PROVE  SettledHeld' /\ LookedFirst'
  <2>1. \A e : Untouched(e)' <=> Untouched(e)
    BY <1>3 DEF Untouched
  <2> QED BY <1>3, <2>1 DEF SettledHeld, LookedFirst
<1>4. CASE ReceiveMappingAck
  <2>1. UNCHANGED <<changed, previous, lookedAt, unsettled>>
    BY <1>4 DEF ReceiveMappingAck, lookVars
  <2> QED BY <1>0, <1>3, <1>4, <2>1, AckedAlone
<1>5. CASE \E a \in acks : ReceiveStateAck(a)
  <2>0. PICK a \in acks : ReceiveStateAck(a)
    BY <1>5
  <2>1. UNCHANGED <<changed, previous, lookedAt, unsettled>>
    BY <2>0 DEF ReceiveStateAck, lookVars
  <2>2. ASSUME NEW e \in Entities, NEW c \in Components, NEW v, HeldAs(mapped[e].replicas[c], v)
        PROVE  HeldAs(mapped'[e].replicas[c], v)
    <3>1. LET was == mapped[e].replicas[c]
              is == mapped'[e].replicas[c]
          IN  /\ is.value = was.value /\ is.changedAt = was.changedAt
              /\ is.ackedAt \in Nat /\ is.ackedAt >= was.ackedAt
      BY <2>0, AckedAtGrows
    <3>2. mapped[e].replicas[c] \in Replica
      BY <1>0 DEF TypeOK, Mapping
    <3> QED BY <2>2, <3>1, <3>2 DEF HeldAs, Replica
  <2> QED BY <1>3, <2>0, <2>1, <2>2, AckedAtGrows
<1>6. CASE \/ \E w \in Worlds, held \in SUBSET Entities : \E in \in SUBSET held : Step(w, in, held)
           \/ ReceiveFrame \/ SendStateAck
           \/ \E d \in states : ReceiveState(d)
           \/ UNCHANGED vars
  <2>1. UNCHANGED <<changed, previous, lookedAt, unsettled, mapped>>
    BY <1>6 DEF Step, ReceiveFrame, SendStateAck, ReceiveState, vars, serverVars, lookVars
  <2> QED BY <1>3, <2>1
<1> QED BY <1>1, <1>2, <1>4, <1>5, <1>6 DEF Next, Deliver

\* Each value of an entity the incremental look of publishTo leaves out is on
\* the client as the World has it, whatever was lost on the way.
THEOREM SettledShown == Spec => []SettledIsShown
<1>1. Init => SettledHeld /\ LookedFirst
  BY DEF Init, SettledHeld, LookedFirst, NoMapping, NewMapping
<1>2. IInv /\ (Recent /\ Returned) /\ (SettledHeld /\ LookedFirst) /\ [Next]_vars
         => (SettledHeld /\ LookedFirst)'
  BY SettledKeeps
<1>3. IInv /\ SettledHeld => SettledIsShown
  <2>1. SUFFICES ASSUME IInv, SettledHeld, NEW e \in Entities, NEW c \in Components,
                        Settled(e), world[e][c] # None, e = Player \/ c \notin OwnOnly
                 PROVE  Shown(e, c) = world[e][c]
    BY DEF SettledIsShown
  <2>2. HeldAs(mapped[e].replicas[c], world[e][c])
    BY <2>1 DEF SettledHeld, Settled, UnchangedSince, Untouched
  <2> QED BY <2>1, <2>2, HeldIs DEF Settled, Mapped
<1> QED BY <1>1, <1>2, <1>3, Inductive, RecentAlways, PTL DEF Spec
=============================================================================
