----------------------------- MODULE AssetsProofs -----------------------------
(***************************************************************************)
(* What TLAPS proves of Assets, for any resources, any slots and bounds,   *)
(* any budget and whatever the forms take.                                 *)
(*                                                                         *)
(* A set is Sound when its bytes are those of the forms it holds, within   *)
(* the budget, and each candidate replaces a live form of its resource;    *)
(* Wanted when what its entries count is who is interested in them.  Each  *)
(* operation is taken apart into changes of one entry, each of which Goes  *)
(* (an update's passes) or Keeps (what consumers and loads do): it leaves  *)
(* the set sound and as wanted as it was, and no slot in an earlier use.   *)
(* A pass over the slots is what its steps are (Climbs).                   *)
(***************************************************************************)
EXTENDS Assets, FiniteSetTheorems, WellFoundedInduction, TLAPS

(* Of numbers: a set with a member has a least, and one of slots a         *)
(* greatest.                                                               *)
LEMMA LeastOf ==
    ASSUME NEW T \in SUBSET Nat, T # {}
    PROVE  \E x \in T : \A y \in T : x <= y
  <1> DEFINE R == OpToRel(<, Nat)
  <1>1. IsWellFoundedOn(R, Nat)
    BY NatLessThanWellFounded
  <1>2. \A x, y \in Nat : x < y => <<x, y>> \in R
    BY DEF OpToRel
  <1> HIDE DEF R
  <1>3. \E x \in T : \A y \in T : ~(<<y, x>> \in R)
    BY <1>1, WFMin
  <1>4. PICK x \in T : \A y \in T : ~(<<y, x>> \in R)
    BY <1>3
  <1>5. \A y \in T : x <= y
    <2> SUFFICES ASSUME NEW y \in T PROVE x <= y
      OBVIOUS
    <2>1. x \in Nat /\ y \in Nat
      OBVIOUS
    <2>2. ~(y < x)
      BY <1>2, <1>4, <2>1
    <2> QED BY <2>1, <2>2
  <1> QED BY <1>5

(* The slot Least picks is one of those it picks from.                     *)
LEMMA LeastSlot ==
    ASSUME NEW T \in SUBSET Slots, T # {}
    PROVE  Least(T) \in T
  <1>1. T \in SUBSET Nat
    BY AssetNaturals DEF Slots
  <1>2. \E x \in T : \A y \in T : x <= y
    BY <1>1, LeastOf
  <1> QED BY <1>2 DEF Least

(* A set of slots with a member has a greatest.                            *)
LEMMA GreatestSlot ==
    ASSUME NEW T \in SUBSET Slots, T # {}
    PROVE  \E x \in T : \A y \in T : y <= x
  <1> DEFINE U == {MaximumAssets - x : x \in T}
  <1>1. \A x \in T : x \in Int /\ x <= MaximumAssets /\ MaximumAssets - x \in Nat
    BY AssetNaturals DEF Slots
  <1>2. PICK u \in U : \A v \in U : u <= v
    <2>1. U \in SUBSET Nat /\ U # {}
      BY <1>1
    <2> HIDE DEF U
    <2> QED BY <2>1, LeastOf
  <1>3. PICK x \in T : u = MaximumAssets - x
    BY <1>2
  <1>4. \A y \in T : y <= x
    <2> SUFFICES ASSUME NEW y \in T PROVE y <= x
      OBVIOUS
    <2>1. MaximumAssets - x <= MaximumAssets - y
      BY <1>2, <1>3
    <2> QED BY <1>1, <2>1, AssetNaturals
  <1> QED BY <1>4

-----------------------------------------------------------------------------
(* Passes over the slots.  What each step keeps, a pass keeps.             *)
LEMMA Climbs ==
    ASSUME NEW h, NEW D, h[0] \in D[0],
           \A n \in Slots : h[n - 1] \in D[n - 1] => h[n] \in D[n]
    PROVE  \A n \in 0..MaximumAssets : h[n] \in D[n]
  <1> DEFINE Wrong == {n \in 0..MaximumAssets : h[n] \notin D[n]}
  <1>1. Wrong = {}
    <2> SUFFICES ASSUME Wrong # {} PROVE FALSE
      OBVIOUS
    <2>1. Wrong \in SUBSET Nat
      OBVIOUS
    <2>2. PICK k \in Wrong : \A j \in Wrong : k <= j
      <3> HIDE DEF Wrong
      <3> QED BY <2>1, LeastOf
    <2>3. k \in 0..MaximumAssets /\ h[k] \notin D[k] /\ k # 0
      OBVIOUS
    <2>4. k \in Slots /\ k - 1 \in 0..MaximumAssets /\ ~(k <= k - 1)
      BY <2>3, AssetNaturals DEF Slots
    <2>5. k - 1 \notin Wrong
      <3> HIDE DEF Wrong
      <3> QED BY <2>2, <2>4
    <2> QED BY <2>3, <2>4, <2>5
  <1> QED BY <1>1

(* A pass of steps within a set D is defined: some function takes the      *)
(* steps one by one.                                                       *)
Passed(D, s, f) ==
    \E h \in [0..MaximumAssets -> D] :
       h = [n \in 0..MaximumAssets |-> IF n = 0 THEN s ELSE f[<<h[n - 1], n>>]]
LEMMA PassExists ==
    ASSUME NEW D, NEW s \in D, NEW f \in [D \X Slots -> D]
    PROVE  Passed(D, s, f)
  <1> DEFINE Goes(g, k) ==
                /\ g \in [0..k -> D]
                /\ \A n \in 0..k : g[n] = IF n = 0 THEN s ELSE f[<<g[n - 1], n>>]
             Failing == {k \in 0..MaximumAssets : ~\E g : Goes(g, k)}
  <1>1. Failing = {}
    <2> SUFFICES ASSUME Failing # {} PROVE FALSE
      OBVIOUS
    <2>1. Failing \in SUBSET Nat
      OBVIOUS
    <2>2. PICK k \in Failing : \A j \in Failing : k <= j
      <3> HIDE DEF Failing
      <3> QED BY <2>1, LeastOf
    <2>3. k \in 0..MaximumAssets /\ ~\E g : Goes(g, k)
      OBVIOUS
    <2>4. CASE k = 0
      <3> DEFINE g == [n \in 0..0 |-> s]
      <3>1. Goes(g, 0)
        OBVIOUS
      <3> QED BY <2>3, <2>4, <3>1
    <2>5. CASE k # 0
      <3>1. k - 1 \in 0..MaximumAssets /\ k - 1 \notin Failing /\ k \in Slots
        <4> HIDE DEF Failing
        <4> QED BY <2>2, <2>3, <2>5, AssetNaturals DEF Slots
      <3>2. PICK h : Goes(h, k - 1)
        BY <3>1
      <3> DEFINE g == [n \in 0..k |-> IF n = k THEN f[<<h[k - 1], k>>] ELSE h[n]]
      <3>3. \A n \in 0..k : n # k => n \in 0..k - 1 /\ g[n] = h[n] /\ h[n] \in D
        BY <2>3, <3>2
      <3>4. h[k - 1] \in D /\ g[k - 1] = h[k - 1] /\ f[<<h[k - 1], k>>] \in D
        <4>1. k - 1 \in 0..k - 1 /\ k - 1 \in 0..k /\ k - 1 # k
          BY <2>3, <2>5
        <4> QED BY <3>1, <3>2, <3>3, <4>1
      <3>5. g \in [0..k -> D]
        BY <3>3, <3>4
      <3>6. \A n \in 0..k : g[n] = IF n = 0 THEN s ELSE f[<<g[n - 1], n>>]
        <4> SUFFICES ASSUME NEW n \in 0..k
                     PROVE  g[n] = IF n = 0 THEN s ELSE f[<<g[n - 1], n>>]
          OBVIOUS
        <4>1. CASE n = k
          BY <2>5, <3>4, <4>1
        <4>2. CASE n # k
          <5>1. n \in 0..k - 1 /\ g[n] = h[n]
            BY <3>3, <4>2
          <5>2. h[n] = IF n = 0 THEN s ELSE f[<<h[n - 1], n>>]
            BY <3>2, <5>1
          <5>3. n # 0 => n - 1 \in 0..k /\ n - 1 # k
            BY <2>3, <4>2
          <5>4. n # 0 => g[n - 1] = h[n - 1]
            BY <3>3, <5>3
          <5> QED BY <5>1, <5>2, <5>4
        <4> QED BY <4>1, <4>2
      <3>7. Goes(g, k)
        BY <3>5, <3>6
      <3> HIDE DEF g
      <3> QED BY <2>3, <3>7
    <2> QED BY <2>4, <2>5
  <1>2. MaximumAssets \in 0..MaximumAssets
    BY AssetNaturals
  <1>3. PICK h : Goes(h, MaximumAssets)
    BY <1>1, <1>2
  <1> QED BY <1>3 DEF Passed

-----------------------------------------------------------------------------
(* The bytes charged.                                                      *)
LEMMA HeldPass ==
    ASSUME NEW entries, \A n \in Slots : FormBytes(entries[n]) \in Int
    PROVE  \E h \in [0..MaximumAssets -> Int] :
             /\ h[0] = 0 /\ \A n \in Slots : h[n] = h[n - 1] + FormBytes(entries[n])
             /\ HeldBytes(entries) = h[MaximumAssets]
  <1> DEFINE Sums(h) == h = [n \in 0..MaximumAssets |->
                               IF n = 0 THEN 0 ELSE h[n - 1] + FormBytes(entries[n])]
             f == [p \in Int \X Slots |-> p[1] + FormBytes(entries[p[2]])]
  <1>1. \E h : Sums(h)
    <2>1. f \in [Int \X Slots -> Int] /\ 0 \in Int
      OBVIOUS
    <2>2. \A t \in Int, n \in Slots : f[<<t, n>>] = t + FormBytes(entries[n])
      OBVIOUS
    <2> HIDE DEF f
    <2>3. PICK h \in [0..MaximumAssets -> Int] :
             h = [n \in 0..MaximumAssets |-> IF n = 0 THEN 0 ELSE f[<<h[n - 1], n>>]]
      <3>1. Passed(Int, 0, f)
        BY <2>1, PassExists
      <3> QED BY <3>1 DEF Passed
    <2>4. \A n \in 0..MaximumAssets : n # 0 => f[<<h[n - 1], n>>] = h[n - 1] + FormBytes(entries[n])
      <3> SUFFICES ASSUME NEW n \in 0..MaximumAssets, n # 0
                   PROVE  f[<<h[n - 1], n>>] = h[n - 1] + FormBytes(entries[n])
        OBVIOUS
      <3>1. n \in Slots /\ n - 1 \in 0..MaximumAssets
        BY AssetNaturals DEF Slots
      <3>2. h[n - 1] \in Int
        BY <3>1
      <3> QED BY <2>2, <3>1, <3>2
    <2>5. h = [n \in 0..MaximumAssets |->
                               IF n = 0 THEN 0 ELSE h[n - 1] + FormBytes(entries[n])]
      BY <2>3, <2>4
    <2> QED BY <2>5
  <1> DEFINE h == CHOOSE g : Sums(g)
  <1>2. Sums(h)
    BY <1>1
  <1>3. HeldBytes(entries) = h[MaximumAssets]
    BY DEF HeldBytes
  <1> HIDE DEF h
  <1>4. h[0] = 0
    <2>1. 0 \in 0..MaximumAssets
      BY AssetNaturals
    <2> QED BY <1>2, <2>1
  <1>5. \A n \in Slots : h[n] = h[n - 1] + FormBytes(entries[n])
    <2> SUFFICES ASSUME NEW n \in Slots PROVE h[n] = h[n - 1] + FormBytes(entries[n])
      OBVIOUS
    <2>1. n \in 0..MaximumAssets /\ n # 0
      BY AssetNaturals DEF Slots
    <2> QED BY <1>2, <2>1
  <1>6. \A n \in 0..MaximumAssets : h[n] \in Int
    <2> DEFINE D == [n \in 0..MaximumAssets |-> Int]
    <2>1. \A n \in 0..MaximumAssets : D[n] = Int
      OBVIOUS
    <2>2. 0 \in 0..MaximumAssets
      BY AssetNaturals
    <2>3. \A n \in Slots : n \in 0..MaximumAssets /\ n - 1 \in 0..MaximumAssets
      BY AssetNaturals DEF Slots
    <2> HIDE DEF D
    <2>4. h[0] \in D[0]
      BY <1>4, <2>1, <2>2
    <2>5. \A n \in Slots : h[n - 1] \in D[n - 1] => h[n] \in D[n]
      BY <1>5, <2>1, <2>3
    <2>6. \A n \in 0..MaximumAssets : h[n] \in D[n]
      BY <2>4, <2>5, Climbs
    <2> QED BY <2>1, <2>6
  <1>7. h \in [0..MaximumAssets -> Int]
    BY <1>2, <1>6
  <1> QED BY <1>3, <1>4, <1>5, <1>7

(* One entry's change changes the sum by what it takes.                    *)
LEMMA HeldPut ==
    ASSUME NEW entries, NEW i \in Slots, NEW e, DOMAIN entries = Slots,
           \A n \in Slots : FormBytes(entries[n]) \in Int, FormBytes(e) \in Int
    PROVE  /\ HeldBytes(entries) \in Int
           /\ HeldBytes([entries EXCEPT ![i] = e])
                = HeldBytes(entries) - FormBytes(entries[i]) + FormBytes(e)
  <1> DEFINE put == [entries EXCEPT ![i] = e]
             by == FormBytes(e) - FormBytes(entries[i])
  <1>1. \A n \in Slots : put[n] = IF n = i THEN e ELSE entries[n]
    OBVIOUS
  <1>2. \A n \in Slots : FormBytes(put[n]) \in Int
    BY <1>1
  <1>3. \A n \in Slots : FormBytes(put[n]) = IF n = i THEN FormBytes(entries[n]) + by
                                            ELSE FormBytes(entries[n])
    BY <1>1
  <1>4. by \in Int
    OBVIOUS
  <1> HIDE DEF put
  <1>5. PICK h \in [0..MaximumAssets -> Int] :
             /\ h[0] = 0 /\ \A n \in Slots : h[n] = h[n - 1] + FormBytes(entries[n])
             /\ HeldBytes(entries) = h[MaximumAssets]
    BY HeldPass
  <1>6. PICK g \in [0..MaximumAssets -> Int] :
             /\ g[0] = 0 /\ \A n \in Slots : g[n] = g[n - 1] + FormBytes(put[n])
             /\ HeldBytes(put) = g[MaximumAssets]
    BY <1>2, HeldPass
  <1> DEFINE D == [n \in 0..MaximumAssets |-> {IF n < i THEN h[n] ELSE h[n] + by}]
  <1>7. \A n \in 0..MaximumAssets : D[n] = {IF n < i THEN h[n] ELSE h[n] + by}
    OBVIOUS
  <1>8. 0 \in 0..MaximumAssets /\ 0 < i /\ i <= MaximumAssets /\ MaximumAssets \in 0..MaximumAssets
    BY AssetNaturals DEF Slots
  <1> HIDE DEF D
  <1>9. g[0] \in D[0]
    BY <1>5, <1>6, <1>7, <1>8
  <1>10. ASSUME NEW n \in Slots, g[n - 1] \in D[n - 1] PROVE g[n] \in D[n]
    <2>1. n \in 0..MaximumAssets /\ n - 1 \in 0..MaximumAssets /\ n \in Int /\ i \in Int
      BY AssetNaturals DEF Slots
    <2>2. g[n - 1] = IF n - 1 < i THEN h[n - 1] ELSE h[n - 1] + by
      BY <1>7, <1>10, <2>1
    <2>3. h[n - 1] \in Int /\ h[n] \in Int /\ g[n] \in Int /\ FormBytes(entries[n]) \in Int
      BY <2>1
    <2>4. g[n] = g[n - 1] + (IF n = i THEN FormBytes(entries[n]) + by ELSE FormBytes(entries[n]))
      BY <1>3, <1>6
    <2>5. h[n] = h[n - 1] + FormBytes(entries[n])
      BY <1>5
    <2>6. g[n] = IF n < i THEN h[n] ELSE h[n] + by
      <3> HIDE DEF by
      <3> QED BY <1>4, <2>1, <2>2, <2>3, <2>4, <2>5
    <2> QED BY <1>7, <2>1, <2>6
  <1>11. \A n \in 0..MaximumAssets : g[n] \in D[n]
    BY <1>9, <1>10, Climbs
  <1>12. g[MaximumAssets] = h[MaximumAssets] + by
    <2>1. ~(MaximumAssets < i)
      BY <1>8, AssetNaturals DEF Slots
    <2> QED BY <1>7, <1>8, <1>11, <2>1
  <1>13. HeldBytes(put) = HeldBytes(entries) + by /\ HeldBytes(entries) \in Int
    BY <1>5, <1>6, <1>8, <1>12
  <1> QED BY <1>13 DEF put

-----------------------------------------------------------------------------
(* What holds of a set whatever its consumers and its catalogs do: the     *)
(* bytes charged are those held and within the budget, and a candidate     *)
(* replaces a live form of the same resource at another revision, unless   *)
(* that form's slot has another use.                                       *)
SetType ==
    [entries : [Slots -> EntrySet], requesters : [Requesters -> RequesterSet],
     residentBytes : Int, reconciled : Nat]

Shape(e) ==
    /\ e.used => e.id \in Ids /\ e.revision \in Revisions
    /\ ~e.used => e.residency = "absent" /\ ~e.candidate /\ e.work = "none"
    /\ e.candidate => e.replaces \in Slots
    /\ e.used /\ e.residency = "absent" => e.failed
    /\ e.residency = "loading" => e.work # "none"

(* What a candidate may replace                                            *)
LiveFor(o, e) ==
    o.used /\ o.id = e.id /\ o.revision # e.revision /\ ~o.candidate /\ o.residency # "retiring"

MatchedAt(entries, e) ==
    e.candidate => /\ e.replacesGeneration <= entries[e.replaces].generation
                   /\ e.replacesGeneration = entries[e.replaces].generation
                        => LiveFor(entries[e.replaces], e)

Within(s) == s.residentBytes = HeldBytes(s.entries) /\ s.residentBytes <= BudgetBytes

Sound(s) ==
    /\ s \in SetType
    /\ \A i \in Slots : Shape(s.entries[i]) /\ MatchedAt(s.entries, s.entries[i])
    /\ \A r \in Requesters : s.requesters[r].used => s.requesters[r].entry \in Slots
    /\ Within(s)

(* What a form takes is a number of bytes, and none if its slot is free.   *)
LEMMA FormTyped ==
    ASSUME NEW e \in EntrySet, Shape(e)
    PROVE  FormBytes(e) \in Nat /\ (~e.used => FormBytes(e) = 0)
  <1>1. Charged(e) => e.used
    BY DEF Charged, Shape
  <1>2. Charged(e) => Bytes(e.id, e.revision) \in Nat
    BY <1>1, AssetForms DEF Shape, Revisions
  <1> QED BY <1>1, <1>2 DEF FormBytes

(* An entry's change that makes nothing a candidate, and nothing other     *)
(* than it was but in another use of its slot                              *)
Plain(d, e) ==
    /\ e.candidate => /\ d.candidate /\ e.replaces = d.replaces
                      /\ e.replacesGeneration = d.replacesGeneration
                      /\ e.id = d.id /\ e.revision = d.revision
    /\ \/ e.generation > d.generation
       \/ /\ e.generation = d.generation
          /\ d.used => e.used /\ e.id = d.id /\ e.revision = d.revision
          /\ e.residency = "retiring" => d.residency = "retiring"

(* A set with another entry, charged as it is                              *)
Put(s, i, e) ==
    [entries |-> [s.entries EXCEPT ![i] = e], requesters |-> s.requesters,
     residentBytes |-> s.residentBytes - FormBytes(s.entries[i]) + FormBytes(e),
     reconciled |-> s.reconciled]

(* What a set is made of once an entry is another.                         *)
LEMMA PutFields ==
    ASSUME NEW s, Sound(s), NEW i \in Slots, NEW e \in EntrySet, Shape(e)
    PROVE  /\ Put(s, i, e) \in SetType
           /\ Put(s, i, e).entries[i] = e
           /\ \A j \in Slots \ {i} : Put(s, i, e).entries[j] = s.entries[j]
           /\ Put(s, i, e).residentBytes = HeldBytes(Put(s, i, e).entries)
           /\ Put(s, i, e).requesters = s.requesters /\ Put(s, i, e).reconciled = s.reconciled
           /\ Put(s, i, e).residentBytes = s.residentBytes - FormBytes(s.entries[i]) + FormBytes(e)
           /\ FormBytes(s.entries[i]) \in Nat /\ FormBytes(e) \in Nat
  <1>1. /\ s.entries \in [Slots -> EntrySet] /\ s.requesters \in [Requesters -> RequesterSet]
        /\ s.residentBytes \in Int /\ s.reconciled \in Nat
    BY DEF Sound, SetType
  <1>2. \A n \in Slots : FormBytes(s.entries[n]) \in Nat
    BY <1>1, FormTyped DEF Sound
  <1>3. FormBytes(e) \in Nat
    BY FormTyped
  <1>4. HeldBytes([s.entries EXCEPT ![i] = e])
          = HeldBytes(s.entries) - FormBytes(s.entries[i]) + FormBytes(e)
    BY <1>1, <1>2, <1>3, HeldPut
  <1>5. s.residentBytes = HeldBytes(s.entries)
    BY DEF Sound, Within
  <1>6. s.residentBytes - FormBytes(s.entries[i]) + FormBytes(e) \in Int
    BY <1>1, <1>2, <1>3
  <1>7. [s.entries EXCEPT ![i] = e] \in [Slots -> EntrySet]
    BY <1>1
  <1>8. Put(s, i, e) \in SetType
    BY <1>1, <1>6, <1>7 DEF Put, SetType
  <1> QED BY <1>1, <1>2, <1>3, <1>4, <1>5, <1>8 DEF Put

(* What is otherwise sound is sound with an entry so changed, if the       *)
(* budget has room for it.                                                 *)
LEMMA PutSound ==
    ASSUME NEW s, Sound(s), NEW i \in Slots, NEW e \in EntrySet, Shape(e),
           Plain(s.entries[i], e),
           s.residentBytes - FormBytes(s.entries[i]) + FormBytes(e) <= BudgetBytes
    PROVE  Sound(Put(s, i, e))
  <1> DEFINE t == Put(s, i, e)
  <1>1. /\ t \in SetType /\ t.entries[i] = e /\ \A j \in Slots \ {i} : t.entries[j] = s.entries[j]
        /\ t.residentBytes = HeldBytes(t.entries) /\ t.requesters = s.requesters
        /\ t.residentBytes = s.residentBytes - FormBytes(s.entries[i]) + FormBytes(e)
    BY PutFields
  <1> HIDE DEF t
  <1>2. \A j \in Slots : Shape(s.entries[j]) /\ MatchedAt(s.entries, s.entries[j])
                         /\ s.entries[j].generation \in Nat /\ s.entries[j].replacesGeneration \in Nat
    BY DEF Sound, SetType, EntrySet
  <1>3. e.generation \in Nat
    BY DEF EntrySet
  <1>4. \A j \in Slots : Shape(t.entries[j])
    BY <1>1, <1>2
  <1>5. ASSUME NEW j \in Slots PROVE MatchedAt(t.entries, t.entries[j])
    <2> DEFINE d == s.entries[j]
               o == d.replaces
    <2>1. t.entries[j].candidate =>
            /\ d.candidate /\ t.entries[j].replaces = o
            /\ t.entries[j].replacesGeneration = d.replacesGeneration
            /\ t.entries[j].id = d.id /\ t.entries[j].revision = d.revision
      BY <1>1 DEF Plain
    <2> SUFFICES ASSUME t.entries[j].candidate PROVE MatchedAt(t.entries, t.entries[j])
      BY DEF MatchedAt
    <2>2. o \in Slots /\ d.replacesGeneration <= s.entries[o].generation
          /\ (d.replacesGeneration = s.entries[o].generation => LiveFor(s.entries[o], d))
      BY <1>2, <2>1 DEF Shape, MatchedAt
    <2>3. s.entries[o].generation \in Nat /\ d.replacesGeneration \in Nat
      BY <1>2, <2>2
    <2>4. CASE o # i
      <3>1. t.entries[o] = s.entries[o]
        BY <1>1, <2>2, <2>4
      <3> QED BY <2>1, <2>2, <3>1 DEF MatchedAt, LiveFor
    <2>5. CASE o = i
      <3>1. t.entries[o] = e /\ Plain(s.entries[o], e)
        BY <1>1, <2>5
      <3>2. d.replacesGeneration <= e.generation
        BY <1>3, <2>2, <2>3, <3>1 DEF Plain
      <3>3. ASSUME d.replacesGeneration = e.generation PROVE LiveFor(e, d)
        <4>1. e.generation = s.entries[o].generation /\ ~(e.generation > s.entries[o].generation)
          BY <1>3, <2>2, <2>3, <3>1, <3>3 DEF Plain
        <4>2. LiveFor(s.entries[o], d)
          BY <2>2, <3>3, <4>1
        <4> QED BY <3>1, <4>1, <4>2 DEF LiveFor, Plain
      <3> QED BY <2>1, <3>1, <3>2, <3>3 DEF MatchedAt, LiveFor
    <2> QED BY <2>4, <2>5
  <1>6. \A r \in Requesters : t.requesters[r].used => t.requesters[r].entry \in Slots
    BY <1>1 DEF Sound
  <1>7. Within(t)
    BY <1>1 DEF Within
  <1> QED BY <1>1, <1>4, <1>5, <1>6, <1>7 DEF Sound, t

-----------------------------------------------------------------------------
(* The uses of a slot follow each other, and a use is of one resource at   *)
(* one revision.                                                           *)
Uses(d, e) ==
    /\ e.generation >= d.generation
    /\ e.generation = d.generation /\ d.used => e.used /\ e.id = d.id /\ e.revision = d.revision

(* No entry becomes evictable or retiring.                                 *)
Stays(d, e) ==
    e.residency \in {"evictable", "retiring"} => /\ d.residency = e.residency
                                                 /\ d.generation = e.generation

(* What an update's passes do before any reload is published               *)
Follows(s, t) ==
    /\ t.requesters = s.requesters /\ t.reconciled = s.reconciled
    /\ \A i \in Slots : Uses(s.entries[i], t.entries[i]) /\ Stays(s.entries[i], t.entries[i])

(* What an entry counts is who is interested in it, each of whom it still  *)
(* serves; and no one is in a form that may be evicted, or that retires.   *)
PointingIn(s, i) == {r \in Requesters : /\ s.requesters[r].used /\ s.requesters[r].interested
                                        /\ s.requesters[r].entry = i
                                        /\ s.requesters[r].entryGeneration = s.entries[i].generation}

ServedAt(s, r) ==
    s.requesters[r].used =>
        /\ s.requesters[r].interested =>
              /\ s.entries[s.requesters[r].entry].used
              /\ s.entries[s.requesters[r].entry].generation = s.requesters[r].entryGeneration
        /\ ~s.requesters[r].failed => s.requesters[r].interested

WantedAt(s, i) ==
    /\ s.entries[i].interest = Cardinality(PointingIn(s, i))
    /\ s.entries[i].residency \in {"evictable", "retiring"} => s.entries[i].interest = 0

Wanted(s) == (\A r \in Requesters : ServedAt(s, r)) /\ (\A i \in Slots : WantedAt(s, i))

(* What retires is of another revision than the catalog's.                 *)
OutdatedAt(e) == e.used /\ e.residency = "retiring" => e.revision # catalog[e.id]
Outdated(s) == \A i \in Slots : OutdatedAt(s.entries[i])

(* The candidates are of the catalog's revisions.                          *)
Current(s) ==
    \A i \in Slots : s.entries[i].candidate => s.entries[i].revision = catalog[s.entries[i].id]

Goes(s, t) ==
    /\ Sound(t) /\ Follows(s, t)
    /\ Wanted(s) => Wanted(t)
    /\ Outdated(s) => Outdated(t)
    /\ Current(s) => Current(t)

(* What an entry of a sound set is made of.                                *)
LEMMA EntryTyped ==
    ASSUME NEW s, Sound(s), NEW i \in Slots
    PROVE  /\ s.entries[i] \in EntrySet /\ Shape(s.entries[i])
           /\ s.entries[i].generation \in Nat /\ s.entries[i].interest \in Nat
           /\ s.entries[i].residency \in Residency
           /\ s.entries[i].used \in BOOLEAN /\ s.entries[i].candidate \in BOOLEAN
  BY DEF Sound, SetType, EntrySet

(* Nothing done is a step of a pass,                                       *)
LEMMA StayGoes ==
    ASSUME NEW s, Sound(s)
    PROVE  Goes(s, s)
  <1>1. \A i \in Slots : s.entries[i].generation >= s.entries[i].generation
    BY EntryTyped
  <1> QED BY <1>1 DEF Goes, Follows, Uses, Stays

(* and two steps of a pass are one.                                        *)
LEMMA GoesOn ==
    ASSUME NEW s, Sound(s), NEW t, Goes(s, t), NEW u, Goes(t, u)
    PROVE  Goes(s, u)
  <1>1. Sound(t) /\ Sound(u)
    BY DEF Goes
  <1>2. ASSUME NEW i \in Slots
        PROVE  Uses(s.entries[i], u.entries[i]) /\ Stays(s.entries[i], u.entries[i])
    <2>1. /\ s.entries[i].generation \in Nat /\ t.entries[i].generation \in Nat
          /\ u.entries[i].generation \in Nat
      BY <1>1, EntryTyped
    <2>2. /\ Uses(s.entries[i], t.entries[i]) /\ Stays(s.entries[i], t.entries[i])
          /\ Uses(t.entries[i], u.entries[i]) /\ Stays(t.entries[i], u.entries[i])
      BY DEF Goes, Follows
    <2>3. Stays(s.entries[i], u.entries[i])
      BY <2>2 DEF Stays
    <2>4. Uses(s.entries[i], u.entries[i])
      BY <2>1, <2>2 DEF Uses
    <2> QED BY <2>3, <2>4
  <1>3. Follows(s, u)
    BY <1>2 DEF Goes, Follows
  <1> QED BY <1>3 DEF Goes

(* No one points at an entry no one is interested in.                      *)
LEMMA NonePoints ==
    ASSUME NEW s, Sound(s), Wanted(s), NEW i \in Slots, s.entries[i].interest = 0
    PROVE  /\ PointingIn(s, i) = {}
           /\ \A r \in Requesters : s.requesters[r].used /\ s.requesters[r].interested
                                      => s.requesters[r].entry # i
  <1>1. IsFiniteSet(PointingIn(s, i))
    BY AssetNaturals, FS_Subset DEF PointingIn
  <1>2. Cardinality(PointingIn(s, i)) = 0
    BY DEF Wanted, WantedAt
  <1>3. PointingIn(s, i) = {}
    BY <1>1, <1>2, FS_EmptySet
  <1> QED BY <1>3 DEF PointingIn, Wanted, ServedAt

(* An entry changed, or put to no use                                      *)
LEMMA PutWanted ==
    ASSUME NEW s, Sound(s), NEW i \in Slots, NEW e \in EntrySet, Shape(e), Wanted(s),
           e.interest = s.entries[i].interest,
           s.entries[i].used /\ ~e.used => s.entries[i].interest = 0,
           e.generation # s.entries[i].generation => s.entries[i].interest = 0,
           e.residency \in {"evictable", "retiring"} => s.entries[i].interest = 0
    PROVE  Wanted(Put(s, i, e))
  <1> DEFINE t == Put(s, i, e)
  <1>1. /\ t.entries[i] = e /\ \A j \in Slots \ {i} : t.entries[j] = s.entries[j]
        /\ t.requesters = s.requesters
    BY PutFields
  <1> HIDE DEF t
  <1>2. ASSUME s.entries[i].interest = 0
        PROVE  /\ PointingIn(s, i) = {}
               /\ \A r \in Requesters : s.requesters[r].used /\ s.requesters[r].interested
                                          => s.requesters[r].entry # i
    BY <1>2, NonePoints
  <1>3. \A r \in Requesters : s.requesters[r].used => s.requesters[r].entry \in Slots
    BY DEF Sound
  <1>4. ASSUME NEW r \in Requesters PROVE ServedAt(t, r)
    <2> SUFFICES ASSUME s.requesters[r].used PROVE ServedAt(t, r)
      BY <1>1 DEF ServedAt
    <2>1. ServedAt(s, r) /\ s.requesters[r].entry \in Slots
      BY <1>3 DEF Wanted
    <2>2. CASE s.requesters[r].entry # i \/ ~s.requesters[r].interested
      BY <1>1, <2>1, <2>2 DEF ServedAt
    <2>3. CASE s.requesters[r].entry = i /\ s.requesters[r].interested
      <3>1. s.entries[i].interest # 0
        BY <1>2, <2>3
      <3> QED BY <1>1, <2>1, <2>3, <3>1 DEF ServedAt
    <2> QED BY <2>2, <2>3
  <1>5. ASSUME NEW j \in Slots PROVE PointingIn(t, j) = PointingIn(s, j)
    <2>1. CASE j # i \/ e.generation = s.entries[i].generation
      BY <1>1, <2>1 DEF PointingIn
    <2>2. CASE j = i /\ e.generation # s.entries[i].generation
      <3>1. PointingIn(s, i) = {} /\ \A r \in Requesters :
               s.requesters[r].used /\ s.requesters[r].interested => s.requesters[r].entry # i
        BY <1>2, <2>2
      <3>2. PointingIn(t, i) = {}
        BY <1>1, <3>1 DEF PointingIn
      <3> QED BY <2>2, <3>1, <3>2
    <2> QED BY <2>1, <2>2
  <1>6. ASSUME NEW j \in Slots PROVE WantedAt(t, j)
    <2>1. WantedAt(s, j) /\ PointingIn(t, j) = PointingIn(s, j)
      BY <1>5 DEF Wanted
    <2> QED BY <1>1, <2>1 DEF WantedAt
  <1> QED BY <1>4, <1>6 DEF Wanted, t

(* An entry changed so is a step of a pass.                                *)
LEMMA PutGoes ==
    ASSUME NEW s, Sound(s), NEW i \in Slots, NEW e \in EntrySet, Shape(e),
           Plain(s.entries[i], e), Stays(s.entries[i], e),
           s.residentBytes - FormBytes(s.entries[i]) + FormBytes(e) <= BudgetBytes,
           e.interest = s.entries[i].interest,
           e.used => /\ s.entries[i].used /\ e.generation = s.entries[i].generation
                     /\ e.id = s.entries[i].id /\ e.revision = s.entries[i].revision,
           ~e.used => \/ s.entries[i].interest = 0
                      \/ s.entries[i].residency \in {"evictable", "retiring"}
    PROVE  Goes(s, Put(s, i, e))
  <1> DEFINE t == Put(s, i, e)
  <1>1. /\ t.entries[i] = e /\ \A j \in Slots \ {i} : t.entries[j] = s.entries[j]
        /\ t.requesters = s.requesters /\ t.reconciled = s.reconciled
    BY PutFields
  <1>2. Sound(t)
    BY PutSound
  <1>3. Wanted(s) => Wanted(t)
    <2> SUFFICES ASSUME Wanted(s) PROVE Wanted(t)
      OBVIOUS
    <2> HIDE DEF t
    <2>1. WantedAt(s, i)
      BY DEF Wanted
    <2>2. ~e.used => s.entries[i].interest = 0
      BY <2>1 DEF WantedAt
    <2>3. e.generation # s.entries[i].generation => s.entries[i].interest = 0
      BY <2>2
    <2>4. e.residency \in {"evictable", "retiring"} => s.entries[i].interest = 0
      BY <2>1 DEF WantedAt, Stays
    <2> QED BY <2>2, <2>3, <2>4, PutWanted DEF t
  <1> HIDE DEF t
  <1>4. \A j \in Slots : s.entries[j].generation \in Nat /\ e.generation \in Nat
    BY EntryTyped DEF EntrySet
  <1>5. Follows(s, t)
    <2>1. ASSUME NEW j \in Slots
          PROVE  Uses(s.entries[j], t.entries[j]) /\ Stays(s.entries[j], t.entries[j])
      <3>1. CASE j # i
        BY <1>1, <1>4, <3>1 DEF Uses, Stays
      <3>2. CASE j = i
        BY <1>1, <1>4, <3>2 DEF Uses, Plain
      <3> QED BY <3>1, <3>2
    <2> QED BY <1>1, <2>1 DEF Follows
  <1>6. Outdated(s) => Outdated(t)
    <2> SUFFICES ASSUME Outdated(s), NEW j \in Slots, t.entries[j].used
                 PROVE  t.entries[j].residency = "retiring"
                          => t.entries[j].revision # catalog[t.entries[j].id]
      BY DEF Outdated, OutdatedAt
    <2>1. CASE j # i
      BY <1>1, <2>1 DEF Outdated, OutdatedAt
    <2>2. CASE j = i
      BY <1>1, <2>2 DEF Outdated, OutdatedAt, Stays
    <2> QED BY <2>1, <2>2
  <1>7. Current(s) => Current(t)
    BY <1>1 DEF Current, Plain
  <1> QED BY <1>2, <1>3, <1>5, <1>6, <1>7 DEF Goes, t

-----------------------------------------------------------------------------
(* The operations on one entry.                                            *)
LEMMA SetIs ==
    ASSUME NEW s, Sound(s)
    PROVE  s = [entries |-> s.entries, requesters |-> s.requesters,
                residentBytes |-> s.residentBytes, reconciled |-> s.reconciled]
  BY DEF Sound, SetType

(* A set with other entries, charged otherwise.                            *)
LEMMA SetWith ==
    ASSUME NEW s, Sound(s), NEW x, NEW y
    PROVE  [s EXCEPT !.entries = x, !.residentBytes = y]
             = [entries |-> x, requesters |-> s.requesters,
                residentBytes |-> y, reconciled |-> s.reconciled]
  <1>1. s \in [entries : [Slots -> EntrySet], requesters : [Requesters -> RequesterSet],
               residentBytes : Int, reconciled : Nat]
    BY DEF Sound, SetType
  <1> DEFINE u == [s EXCEPT !.entries = x]
  <1>2. [s EXCEPT !.entries = x, !.residentBytes = y] = [u EXCEPT !.residentBytes = y]
    BY <1>1
  <1>3. u = [entries |-> x, requesters |-> s.requesters,
             residentBytes |-> s.residentBytes, reconciled |-> s.reconciled]
    BY <1>1
  <1>4. \A a, b, c, d : [[entries |-> a, requesters |-> b, residentBytes |-> c, reconciled |-> d]
                            EXCEPT !.residentBytes = y]
                       = [entries |-> a, requesters |-> b, residentBytes |-> y, reconciled |-> d]
    OBVIOUS
  <1> HIDE DEF u
  <1> QED BY <1>2, <1>3, <1>4

(* A free slot is an entry of its type, and takes no bytes.                *)
LEMMA FreeTyped ==
    ASSUME NEW generation \in Nat, NEW interest \in Nat
    PROVE  /\ Free(generation, interest) \in EntrySet /\ Shape(Free(generation, interest))
           /\ FormBytes(Free(generation, interest)) = 0
  <1>1. Free(generation, interest) \in EntrySet
    BY DEF Free, EntrySet, Residency, Work, NoRevision
  <1> QED BY <1>1 DEF Free, Shape, FormBytes, Charged

(* Retire puts a free slot in the place of an entry,                       *)
LEMMA RetireIs ==
    ASSUME NEW s, Sound(s), NEW i \in Slots
    PROVE  Retire(s, i) = Put(s, i, Free(s.entries[i].generation + 1, s.entries[i].interest))
  <1> DEFINE e == Free(s.entries[i].generation + 1, s.entries[i].interest)
  <1>1. s.entries[i] \in EntrySet /\ s.entries \in [Slots -> EntrySet] /\ s.residentBytes \in Int
    BY DEF Sound, SetType
  <1>2. FormBytes(e) = 0 /\ FormBytes(s.entries[i]) \in Nat
    BY EntryTyped, FreeTyped, FormTyped
  <1>3. Retire(s, i) = [entries |-> [s.entries EXCEPT ![i] = e], requesters |-> s.requesters,
                        residentBytes |-> s.residentBytes - FormBytes(s.entries[i]),
                        reconciled |-> s.reconciled]
    <2>1. s \in [entries : [Slots -> EntrySet], requesters : [Requesters -> RequesterSet],
                 residentBytes : Int, reconciled : Nat]
      BY DEF Sound, SetType
    <2> DEFINE x == s.residentBytes - FormBytes(s.entries[i])
    <2>2. Retire(s, i) = [s EXCEPT !.entries = [s.entries EXCEPT ![i] = e], !.residentBytes = x]
      BY <2>1 DEF Retire
    <2> HIDE DEF x, e
    <2>3. [s EXCEPT !.entries = [s.entries EXCEPT ![i] = e], !.residentBytes = x]
            = [entries |-> [s.entries EXCEPT ![i] = e], requesters |-> s.requesters,
               residentBytes |-> x, reconciled |-> s.reconciled]
      BY SetWith
    <2> QED BY <2>2, <2>3 DEF x
  <1>4. s.residentBytes - FormBytes(s.entries[i]) = s.residentBytes - FormBytes(s.entries[i]) + FormBytes(e)
    BY <1>1, <1>2
  <1> HIDE DEF e
  <1>5. Retire(s, i) = Put(s, i, e)
    BY <1>3, <1>4 DEF Put
  <1> QED BY <1>5 DEF e

(* leaves a sound set sound,                                               *)
LEMMA RetireSound ==
    ASSUME NEW s, Sound(s), NEW i \in Slots
    PROVE  /\ Sound(Retire(s, i)) /\ Uses(s.entries[i], Retire(s, i).entries[i])
           /\ Retire(s, i).entries[i] = Free(s.entries[i].generation + 1, s.entries[i].interest)
           /\ \A j \in Slots \ {i} : Retire(s, i).entries[j] = s.entries[j]
           /\ Retire(s, i).requesters = s.requesters /\ Retire(s, i).reconciled = s.reconciled
           /\ Retire(s, i).residentBytes <= s.residentBytes
  <1> DEFINE e == Free(s.entries[i].generation + 1, s.entries[i].interest)
             d == s.entries[i]
  <1>1. d \in EntrySet /\ Shape(d) /\ d.generation \in Nat /\ d.interest \in Nat
    BY EntryTyped
  <1>2. e \in EntrySet /\ Shape(e) /\ FormBytes(e) = 0
    BY <1>1, FreeTyped
  <1>3. FormBytes(d) \in Nat
    BY <1>1, FormTyped
  <1>4. s.residentBytes \in Int /\ s.residentBytes <= BudgetBytes /\ BudgetBytes \in Nat
    BY AssetNaturals DEF Sound, SetType, Within
  <1>5. e.generation = d.generation + 1 /\ ~e.candidate
    BY DEF Free
  <1>6. Plain(d, e)
    BY <1>1, <1>5 DEF Plain
  <1>7. s.residentBytes - FormBytes(d) + FormBytes(e) <= BudgetBytes
    BY <1>2, <1>3, <1>4
  <1>8. Retire(s, i) = Put(s, i, e)
    BY RetireIs
  <1>9. Uses(d, e)
    BY <1>1, <1>5 DEF Uses
  <1> HIDE DEF e, d
  <1>10. Sound(Put(s, i, e))
    BY <1>2, <1>6, <1>7, PutSound DEF d
  <1>11. /\ Put(s, i, e).entries[i] = e
         /\ \A j \in Slots \ {i} : Put(s, i, e).entries[j] = s.entries[j]
         /\ Put(s, i, e).requesters = s.requesters /\ Put(s, i, e).reconciled = s.reconciled
         /\ Put(s, i, e).residentBytes = s.residentBytes - FormBytes(d) + FormBytes(e)
    BY <1>2, PutFields DEF d
  <1>12. Put(s, i, e).residentBytes <= s.residentBytes
    BY <1>2, <1>3, <1>4, <1>11
  <1> QED BY <1>8, <1>9, <1>10, <1>11, <1>12 DEF e, d

(* A slot freed of what no one is interested in                            *)
LEMMA RetireGoes ==
    ASSUME NEW s, Sound(s), NEW i \in Slots,
           s.entries[i].interest = 0 \/ s.entries[i].residency \in {"evictable", "retiring"}
    PROVE  Goes(s, Retire(s, i))
  <1> DEFINE e == Free(s.entries[i].generation + 1, s.entries[i].interest)
             d == s.entries[i]
  <1>1. d \in EntrySet /\ Shape(d) /\ d.generation \in Nat /\ d.interest \in Nat
    BY EntryTyped
  <1>2. e \in EntrySet /\ Shape(e) /\ FormBytes(e) = 0
    BY <1>1, FreeTyped
  <1>3. FormBytes(d) \in Nat
    BY <1>1, FormTyped
  <1>4. s.residentBytes \in Int /\ s.residentBytes <= BudgetBytes /\ BudgetBytes \in Nat
    BY AssetNaturals DEF Sound, SetType, Within
  <1>5. /\ e.generation = d.generation + 1 /\ ~e.candidate /\ ~e.used /\ e.residency = "absent"
        /\ e.interest = d.interest
    BY DEF Free
  <1>6. Plain(d, e) /\ Stays(d, e)
    BY <1>1, <1>5 DEF Plain, Stays
  <1>7. s.residentBytes - FormBytes(d) + FormBytes(e) <= BudgetBytes
    BY <1>2, <1>3, <1>4
  <1>8. Retire(s, i) = Put(s, i, e)
    BY RetireIs
  <1> HIDE DEF e, d
  <1>9. Goes(s, Put(s, i, e))
    BY <1>2, <1>5, <1>6, <1>7, PutGoes DEF d
  <1> QED BY <1>8, <1>9

(* An entry changed in its use, and charged as before                      *)
LEMMA ChangeGoes ==
    ASSUME NEW s, Sound(s), NEW i \in Slots, NEW e \in EntrySet, Shape(e),
           Plain(s.entries[i], e), Stays(s.entries[i], e), FormBytes(e) = FormBytes(s.entries[i]),
           e.interest = s.entries[i].interest, e.generation = s.entries[i].generation,
           s.entries[i].used, e.used, e.id = s.entries[i].id, e.revision = s.entries[i].revision
    PROVE  /\ Goes(s, [s EXCEPT !.entries[i] = e])
           /\ [s EXCEPT !.entries[i] = e].entries[i] = e
           /\ \A j \in Slots \ {i} : [s EXCEPT !.entries[i] = e].entries[j] = s.entries[j]
           /\ [s EXCEPT !.entries[i] = e].residentBytes = s.residentBytes
           /\ [s EXCEPT !.entries[i] = e].requesters = s.requesters
           /\ [s EXCEPT !.entries[i] = e].reconciled = s.reconciled
  <1>1. s.residentBytes \in Int /\ s.residentBytes <= BudgetBytes /\ BudgetBytes \in Nat
        /\ s.entries \in [Slots -> EntrySet]
    BY AssetNaturals DEF Sound, SetType, Within
  <1>2. FormBytes(e) \in Nat
    BY FormTyped
  <1>3. s.residentBytes - FormBytes(s.entries[i]) + FormBytes(e) = s.residentBytes
    BY <1>1, <1>2
  <1>4. [s EXCEPT !.entries[i] = e] = [entries |-> [s.entries EXCEPT ![i] = e],
             requesters |-> s.requesters, residentBytes |-> s.residentBytes,
             reconciled |-> s.reconciled]
    <2>1. s \in [entries : [Slots -> EntrySet], requesters : [Requesters -> RequesterSet],
                 residentBytes : Int, reconciled : Nat]
      BY DEF Sound, SetType
    <2> QED BY <2>1
  <1>5. [s EXCEPT !.entries[i] = e] = Put(s, i, e)
    BY <1>3, <1>4 DEF Put
  <1>6. Goes(s, Put(s, i, e))
    BY <1>1, <1>3, PutGoes
  <1>7. /\ Put(s, i, e).entries[i] = e
        /\ \A j \in Slots \ {i} : Put(s, i, e).entries[j] = s.entries[j]
        /\ Put(s, i, e).requesters = s.requesters /\ Put(s, i, e).reconciled = s.reconciled
        /\ Put(s, i, e).residentBytes = s.residentBytes
    BY <1>3, PutFields
  <1> QED BY <1>5, <1>6, <1>7

(* A load started in a free slot                                           *)
LEMMA StartGoes ==
    ASSUME NEW s, Sound(s), FreeSlots(s) # {}, NEW id \in Ids, catalog[id] \in Revisions
    PROVE  LET i == Least(FreeSlots(s))
               t == StartLoad(s, id, catalog[id])
           IN  /\ i \in Slots /\ ~s.entries[i].used
               /\ t.entries[i] = [s.entries[i] EXCEPT
                                    !.used = TRUE, !.id = id, !.revision = catalog[id],
                                    !.residency = "loading", !.work = "reading"]
               /\ \A j \in Slots \ {i} : t.entries[j] = s.entries[j]
               /\ Goes(s, t)
  <1> DEFINE i == Least(FreeSlots(s))
             d == s.entries[i]
             e == [d EXCEPT !.used = TRUE, !.id = id, !.revision = catalog[id],
                            !.residency = "loading", !.work = "reading"]
             t == StartLoad(s, id, catalog[id])
  <1>1. i \in Slots /\ ~d.used
    <2>1. FreeSlots(s) \in SUBSET Slots
      BY DEF FreeSlots
    <2>2. Least(FreeSlots(s)) \in FreeSlots(s)
      BY <2>1, LeastSlot
    <2> QED BY <2>2 DEF FreeSlots
  <1>2. d \in EntrySet /\ Shape(d)
    BY <1>1, EntryTyped
  <1>3. t = [s EXCEPT !.entries[i] = e]
    BY DEF StartLoad
  <1> HIDE DEF i, t
  <1>4. /\ e.used /\ e.id = id /\ e.revision = catalog[id] /\ e.residency = "loading"
        /\ e.work = "reading" /\ e.candidate = d.candidate /\ e.generation = d.generation
        /\ e.interest = d.interest
    BY <1>2 DEF EntrySet
  <1>5. e \in EntrySet
    <2>1. d \in [used : BOOLEAN, generation : Nat, id : Ids \cup {NoId},
                 revision : Revisions \cup {NoRevision}, residency : Residency, interest : Nat, work : Work,
                 failed : BOOLEAN, candidate : BOOLEAN, replaces : Slots \cup {0}, replacesGeneration : Nat]
      BY <1>2 DEF EntrySet
    <2>2. "loading" \in Residency /\ "reading" \in Work
      BY DEF Residency, Work
    <2>3. e \in [used : BOOLEAN, generation : Nat, id : Ids \cup {NoId},
                 revision : Revisions \cup {NoRevision}, residency : Residency, interest : Nat, work : Work,
                 failed : BOOLEAN, candidate : BOOLEAN, replaces : Slots \cup {0}, replacesGeneration : Nat]
      BY <2>1, <2>2
    <2> QED BY <2>3 DEF EntrySet
  <1> HIDE DEF e, d
  <1>6. Shape(e) /\ ~e.candidate
    BY <1>1, <1>2, <1>4 DEF Shape
  <1>7. FormBytes(d) = 0 /\ FormBytes(e) = 0
    BY <1>1, <1>2, <1>4, FormTyped DEF FormBytes, Charged
  <1>8. Plain(d, e)
    BY <1>1, <1>4, <1>6 DEF Plain
  <1>9. s.residentBytes - FormBytes(d) + FormBytes(e) = s.residentBytes /\ s.residentBytes <= BudgetBytes
    BY <1>7 DEF Sound, SetType, Within
  <1>10. t = Put(s, i, e)
    <2>1. s \in [entries : [Slots -> EntrySet], requesters : [Requesters -> RequesterSet],
                 residentBytes : Int, reconciled : Nat]
      BY DEF Sound, SetType
    <2>2. [s EXCEPT !.entries[i] = e]
            = [entries |-> [s.entries EXCEPT ![i] = e], requesters |-> s.requesters,
               residentBytes |-> s.residentBytes, reconciled |-> s.reconciled]
      BY <2>1
    <2> QED BY <1>3, <1>9, <2>2 DEF Put, d
  <1>11. /\ t.entries[i] = e /\ \A j \in Slots \ {i} : t.entries[j] = s.entries[j]
         /\ t.requesters = s.requesters /\ t.reconciled = s.reconciled
    BY <1>1, <1>5, <1>6, <1>10, PutFields
  <1>12. Sound(t)
    BY <1>1, <1>5, <1>6, <1>8, <1>9, <1>10, PutSound DEF d
  <1>13. Wanted(s) => Wanted(t)
    <2>1. e.residency \notin {"evictable", "retiring"} /\ ~(d.used /\ ~e.used)
      BY <1>4
    <2> QED BY <1>1, <1>4, <1>5, <1>6, <1>10, <2>1, PutWanted DEF d
  <1>14. \A j \in Slots : s.entries[j].generation \in Nat
    BY EntryTyped
  <1>15. Follows(s, t)
    <2>1. ASSUME NEW j \in Slots
          PROVE  Uses(s.entries[j], t.entries[j]) /\ Stays(s.entries[j], t.entries[j])
      <3>1. CASE j # i
        BY <1>11, <1>14, <3>1 DEF Uses, Stays
      <3>2. CASE j = i
        BY <1>1, <1>4, <1>11, <1>14, <3>2 DEF Uses, Stays, d
      <3> QED BY <3>1, <3>2
    <2> QED BY <1>11, <2>1 DEF Follows
  <1>16. Outdated(s) => Outdated(t)
    <2> SUFFICES ASSUME Outdated(s), NEW j \in Slots, t.entries[j].used
                 PROVE  t.entries[j].residency = "retiring"
                          => t.entries[j].revision # catalog[t.entries[j].id]
      BY DEF Outdated, OutdatedAt
    <2>1. CASE j # i
      BY <1>11, <2>1 DEF Outdated, OutdatedAt
    <2>2. CASE j = i
      BY <1>4, <1>11, <2>2 DEF Outdated, OutdatedAt
    <2> QED BY <2>1, <2>2
  <1>17. Current(s) => Current(t)
    BY <1>6, <1>11 DEF Current
  <1>18. Goes(s, t)
    BY <1>12, <1>13, <1>15, <1>16, <1>17 DEF Goes
  <1> QED BY <1>1, <1>11, <1>18 DEF i, e, d, t

(* A candidate made for a live entry                                       *)
LEMMA MarkGoes ==
    ASSUME NEW s, Sound(s), Current(s), NEW i \in Slots, NEW made \in Slots,
           s.entries[made].used, ~s.entries[made].candidate,
           s.entries[made].revision = catalog[s.entries[made].id],
           LiveFor(s.entries[i], s.entries[made])
    PROVE  Goes(s, Replacing(s, i, made)) /\ Current(Replacing(s, i, made))
  <1> DEFINE d == s.entries[made]
             g == s.entries[i].generation
             e == [d EXCEPT !.candidate = TRUE, !.replaces = i, !.replacesGeneration = g]
             t == Replacing(s, i, made)
  <1>1. d \in EntrySet /\ Shape(d) /\ g \in Nat
    BY EntryTyped
  <1>2. s \in [entries : [Slots -> EntrySet], requesters : [Requesters -> RequesterSet],
               residentBytes : Int, reconciled : Nat]
    BY DEF Sound, SetType
  <1>3. t = [s EXCEPT !.entries[made] = e]
    <2>1. s.entries \in [Slots -> EntrySet]
      BY <1>2
    <2> QED BY <1>1, <1>2, <2>1 DEF Replacing
  <1> HIDE DEF t
  <1>4. e \in EntrySet /\ e.candidate /\ e.replaces = i /\ e.replacesGeneration = g /\ e.used = d.used
        /\ e.generation = d.generation /\ e.id = d.id /\ e.revision = d.revision
        /\ e.residency = d.residency /\ e.interest = d.interest /\ e.failed = d.failed /\ e.work = d.work
    <2> HIDE DEF d, g
    <2> QED BY <1>1 DEF EntrySet
  <1> HIDE DEF e, g
  <1>5. Shape(e)
    BY <1>1, <1>4 DEF Shape
  <1>6. FormBytes(e) = FormBytes(d)
    BY <1>4 DEF FormBytes, Charged
  <1>7. t = Put(s, made, e)
    <2>1. [s EXCEPT !.entries[made] = e]
            = [entries |-> [s.entries EXCEPT ![made] = e], requesters |-> s.requesters,
               residentBytes |-> s.residentBytes, reconciled |-> s.reconciled]
      BY <1>2
    <2>2. s.residentBytes - FormBytes(s.entries[made]) + FormBytes(e) = s.residentBytes
      BY <1>1, <1>2, <1>6, FormTyped
    <2> QED BY <1>3, <2>1, <2>2 DEF Put
  <1>8. /\ t \in SetType /\ t.entries[made] = e
        /\ \A j \in Slots \ {made} : t.entries[j] = s.entries[j]
        /\ t.requesters = s.requesters /\ t.reconciled = s.reconciled
        /\ t.residentBytes = HeldBytes(t.entries)
        /\ t.residentBytes = s.residentBytes - FormBytes(d) + FormBytes(e)
        /\ FormBytes(d) \in Nat
    BY <1>4, <1>5, <1>7, PutFields
  <1>9. t.residentBytes = s.residentBytes
    BY <1>2, <1>6, <1>8
  <1>10. i # made
    BY DEF LiveFor
  <1>11. ASSUME NEW j \in Slots PROVE MatchedAt(t.entries, t.entries[j])
    <2>1. CASE j = made
      <3>1. t.entries[j].replaces = i /\ t.entries[i] = s.entries[i]
        BY <1>4, <1>8, <1>10, <2>1
      <3> QED BY <1>1, <1>4, <1>8, <2>1, <3>1 DEF MatchedAt, LiveFor, g
    <2>2. CASE j # made
      <3> DEFINE c == s.entries[j]
                 o == c.replaces
      <3>1. t.entries[j] = c /\ MatchedAt(s.entries, c) /\ Shape(c)
        BY <1>8, <2>2 DEF Sound
      <3> SUFFICES ASSUME c.candidate PROVE MatchedAt(t.entries, c)
        BY <3>1 DEF MatchedAt
      <3>2. o \in Slots
        BY <3>1 DEF Shape
      <3>3. CASE o # made
        BY <1>8, <3>1, <3>2, <3>3 DEF MatchedAt
      <3>4. CASE o = made
        <4>1. c.revision = catalog[c.id]
          BY DEF Current
        <4>2. ~LiveFor(d, c)
          BY <4>1 DEF LiveFor
        <4>3. c.replacesGeneration <= d.generation /\ c.replacesGeneration # d.generation
          BY <3>1, <3>4, <4>2 DEF MatchedAt
        <4> QED BY <1>4, <1>8, <3>4, <4>3 DEF MatchedAt
      <3> QED BY <3>3, <3>4
    <2> QED BY <2>1, <2>2
  <1>12. Sound(t)
    <2>1. \A j \in Slots : Shape(t.entries[j])
      BY <1>5, <1>8 DEF Sound
    <2>2. Within(t)
      BY <1>8, <1>9 DEF Within, Sound
    <2> QED BY <1>8, <1>11, <2>1, <2>2 DEF Sound
  <1>13. Wanted(s) => Wanted(t)
    <2> SUFFICES ASSUME Wanted(s) PROVE Wanted(t)
      OBVIOUS
    <2>1. e.residency \in {"evictable", "retiring"} => d.interest = 0
      BY <1>4 DEF Wanted, WantedAt
    <2> QED BY <1>4, <1>5, <1>7, <2>1, PutWanted
  <1>14. \A j \in Slots : s.entries[j].generation \in Nat
    BY EntryTyped
  <1>15. Follows(s, t)
    <2>1. ASSUME NEW j \in Slots
          PROVE  Uses(s.entries[j], t.entries[j]) /\ Stays(s.entries[j], t.entries[j])
      <3>1. CASE j # made
        BY <1>8, <1>14, <3>1 DEF Uses, Stays
      <3>2. CASE j = made
        <4>1. d.generation \in Nat
          BY <1>14
        <4>2. t.entries[j] = e /\ s.entries[j] = d
          BY <1>8, <3>2
        <4> HIDE DEF d
        <4>3. Uses(d, e)
          BY <1>4, <4>1 DEF Uses
        <4>4. Stays(d, e)
          BY <1>4 DEF Stays
        <4> QED BY <4>2, <4>3, <4>4
      <3> QED BY <3>1, <3>2
    <2> QED BY <1>8, <2>1 DEF Follows
  <1>16. Outdated(s) => Outdated(t)
    BY <1>4, <1>8 DEF Outdated, OutdatedAt
  <1>17. Current(t)
    BY <1>4, <1>8 DEF Current
  <1> QED BY <1>12, <1>13, <1>15, <1>16, <1>17 DEF Goes, t

(* A candidate no longer one                                               *)
LEMMA FreedGoes ==
    ASSUME NEW s, Sound(s), NEW i \in Slots, s.entries[i].used
    PROVE  LET t == [s EXCEPT !.entries[i].candidate = FALSE]
           IN  /\ Goes(s, t) /\ t.entries[i] = [s.entries[i] EXCEPT !.candidate = FALSE]
               /\ \A j \in Slots \ {i} : t.entries[j] = s.entries[j]
               /\ t.requesters = s.requesters /\ t.reconciled = s.reconciled
               /\ t.residentBytes = s.residentBytes
  <1> DEFINE d == s.entries[i]
             e == [d EXCEPT !.candidate = FALSE]
             t == [s EXCEPT !.entries[i].candidate = FALSE]
  <1>1. d \in EntrySet /\ Shape(d) /\ d.generation \in Nat
    BY EntryTyped
  <1>2. t = [s EXCEPT !.entries[i] = e]
    OBVIOUS
  <1> HIDE DEF t
  <1>3. e \in EntrySet /\ ~e.candidate /\ e.used = d.used
        /\ e.generation = d.generation /\ e.id = d.id /\ e.revision = d.revision
        /\ e.residency = d.residency /\ e.interest = d.interest /\ e.failed = d.failed /\ e.work = d.work
    <2> HIDE DEF d
    <2> QED BY <1>1 DEF EntrySet
  <1>4. d.used
    OBVIOUS
  <1> HIDE DEF e, d
  <1>5. Shape(e) /\ FormBytes(e) = FormBytes(d)
    BY <1>1, <1>3 DEF Shape, FormBytes, Charged
  <1>6. Plain(d, e) /\ Stays(d, e)
    BY <1>1, <1>3 DEF Plain, Stays
  <1>7. /\ Goes(s, [s EXCEPT !.entries[i] = e])
        /\ [s EXCEPT !.entries[i] = e].entries[i] = e
        /\ \A j \in Slots \ {i} : [s EXCEPT !.entries[i] = e].entries[j] = s.entries[j]
        /\ [s EXCEPT !.entries[i] = e].residentBytes = s.residentBytes
        /\ [s EXCEPT !.entries[i] = e].requesters = s.requesters
        /\ [s EXCEPT !.entries[i] = e].reconciled = s.reconciled
    BY ZenonT(40), <1>3, <1>4, <1>5, <1>6, ChangeGoes DEF d
  <1> QED BY <1>2, <1>7 DEF t, e, d

(* A candidate abandoned, and all of them.                                 *)
LEMMA AbandonGoes ==
    ASSUME NEW s, Sound(s), NEW i \in Slots
    PROVE  /\ Goes(s, Abandon(s, i)) /\ ~Abandon(s, i).entries[i].candidate
           /\ \A j \in Slots \ {i} : Abandon(s, i).entries[j] = s.entries[j]
  <1> DEFINE freed == [s EXCEPT !.entries[i].candidate = FALSE]
  <1>1. CASE s.entries[i].used /\ s.entries[i].candidate
    <2>1. /\ Goes(s, freed) /\ freed.entries[i] = [s.entries[i] EXCEPT !.candidate = FALSE]
          /\ \A j \in Slots \ {i} : freed.entries[j] = s.entries[j]
      BY ZenonT(40), <1>1, FreedGoes
    <2> HIDE DEF freed
    <2>2. s.entries[i] \in EntrySet
      BY EntryTyped
    <2>3. ~freed.entries[i].candidate /\ freed.entries[i].interest = s.entries[i].interest
      BY <2>1, <2>2 DEF EntrySet
    <2>4. CASE s.entries[i].interest = 0 /\ s.entries[i].residency # "loading"
      <3>1. Sound(freed) /\ freed.entries[i].interest = 0
        BY <2>1, <2>3, <2>4 DEF Goes
      <3>2. Goes(freed, Retire(freed, i))
        BY <3>1, RetireGoes
      <3>3. ~Retire(freed, i).entries[i].candidate
            /\ \A j \in Slots \ {i} : Retire(freed, i).entries[j] = freed.entries[j]
        <4>1. /\ Retire(freed, i).entries[i]
                   = Free(freed.entries[i].generation + 1, freed.entries[i].interest)
              /\ \A j \in Slots \ {i} : Retire(freed, i).entries[j] = freed.entries[j]
          BY <3>1, RetireSound
        <4> QED BY <4>1 DEF Free
      <3>4. Abandon(s, i) = Retire(freed, i)
        BY <1>1, <2>4 DEF Abandon, freed
      <3>5. Goes(s, Retire(freed, i))
        BY <2>1, <3>2, GoesOn
      <3> QED BY <2>1, <3>3, <3>4, <3>5
    <2>5. CASE ~(s.entries[i].interest = 0 /\ s.entries[i].residency # "loading")
      <3>1. Abandon(s, i) = freed
        BY <1>1, <2>5 DEF Abandon, freed
      <3> QED BY <2>1, <2>3, <3>1
    <2> QED BY <2>4, <2>5
  <1>2. CASE ~(s.entries[i].used /\ s.entries[i].candidate)
    <2>1. Abandon(s, i) = s /\ Goes(s, s)
      BY <1>2, StayGoes DEF Abandon
    <2>2. ~s.entries[i].candidate
      BY <1>2 DEF Sound, Shape
    <2> QED BY <2>1, <2>2
  <1> QED BY <1>1, <1>2

LEMMA AbandonPass ==
    ASSUME NEW s, Sound(s)
    PROVE  /\ Goes(s, InOrder(Abandon, s))
           /\ \A i \in Slots : ~InOrder(Abandon, s).entries[i].candidate
  <1> DEFINE Takes(h) == h = [n \in 0..MaximumAssets |-> IF n = 0 THEN s ELSE Abandon(h[n - 1], n)]
             S == {t \in SetType : Sound(t)}
             f == [p \in S \X Slots |-> Abandon(p[1], p[2])]
  <1>1. \E h : Takes(h)
    <2>1. \A t \in S, n \in Slots : Abandon(t, n) \in S
      BY AbandonGoes DEF Goes, Sound
    <2>2. f \in [S \X Slots -> S] /\ s \in S
      BY <2>1 DEF Sound
    <2>3. \A t \in S, n \in Slots : f[<<t, n>>] = Abandon(t, n)
      OBVIOUS
    <2> HIDE DEF f, S
    <2>4. PICK h \in [0..MaximumAssets -> S] :
             h = [n \in 0..MaximumAssets |-> IF n = 0 THEN s ELSE f[<<h[n - 1], n>>]]
      <3>1. Passed(S, s, f)
        BY <2>2, PassExists
      <3> QED BY <3>1 DEF Passed
    <2>5. \A n \in 0..MaximumAssets : n # 0 => f[<<h[n - 1], n>>] = Abandon(h[n - 1], n)
      <3> SUFFICES ASSUME NEW n \in 0..MaximumAssets, n # 0
                   PROVE  f[<<h[n - 1], n>>] = Abandon(h[n - 1], n)
        OBVIOUS
      <3>1. n \in Slots /\ n - 1 \in 0..MaximumAssets
        BY AssetNaturals DEF Slots
      <3>2. h[n - 1] \in S
        BY <3>1
      <3> QED BY <2>3, <3>1, <3>2
    <2>6. h = [n \in 0..MaximumAssets |-> IF n = 0 THEN s ELSE Abandon(h[n - 1], n)]
      BY <2>4, <2>5
    <2> QED BY <2>6
  <1> DEFINE h == CHOOSE g : Takes(g)
  <1>2. Takes(h)
    BY <1>1
  <1>3. InOrder(Abandon, s) = h[MaximumAssets]
    BY DEF InOrder
  <1> HIDE DEF h
  <1>4. h[0] = s /\ \A n \in Slots : h[n] = Abandon(h[n - 1], n)
    <2>1. 0 \in 0..MaximumAssets /\ \A n \in Slots : n \in 0..MaximumAssets /\ n # 0
      BY AssetNaturals DEF Slots
    <2> QED BY <1>2, <2>1
  <1> DEFINE D == [n \in 0..MaximumAssets |->
                     {t \in SetType : Goes(s, t) /\ \A j \in 1..n : ~t.entries[j].candidate}]
  <1>5. \A n \in 0..MaximumAssets : \A t : t \in D[n] <=>
           t \in SetType /\ Goes(s, t) /\ \A j \in 1..n : ~t.entries[j].candidate
    OBVIOUS
  <1> HIDE DEF D
  <1>6. h[0] \in D[0]
    <2>1. 0 \in 0..MaximumAssets /\ 1..0 = {}
      BY AssetNaturals
    <2>2. s \in SetType /\ Goes(s, s)
      BY StayGoes DEF Sound
    <2> QED BY <1>4, <1>5, <2>1, <2>2
  <1>7. ASSUME NEW n \in Slots, h[n - 1] \in D[n - 1] PROVE h[n] \in D[n]
    <2>1. n \in 0..MaximumAssets /\ n - 1 \in 0..MaximumAssets
          /\ 1..n = 1..(n - 1) \cup {n} /\ n \notin 1..(n - 1) /\ 1..n \subseteq Slots
      BY AssetNaturals DEF Slots
    <2> DEFINE t == h[n - 1]
    <2>2. Goes(s, t) /\ Sound(t) /\ \A j \in 1..(n - 1) : ~t.entries[j].candidate
      BY <1>5, <1>7, <2>1 DEF Goes
    <2>3. h[n] = Abandon(t, n)
      BY <1>4
    <2> HIDE DEF t
    <2>4. /\ Goes(t, h[n]) /\ ~h[n].entries[n].candidate
          /\ \A j \in Slots \ {n} : h[n].entries[j] = t.entries[j]
      BY <2>2, <2>3, AbandonGoes
    <2>5. Goes(s, h[n]) /\ h[n] \in SetType
      BY <2>2, <2>4, GoesOn DEF Goes, Sound
    <2>6. \A j \in 1..n : ~h[n].entries[j].candidate
      BY <2>1, <2>2, <2>4
    <2> QED BY <1>5, <2>1, <2>5, <2>6
  <1>8. \A n \in 0..MaximumAssets : h[n] \in D[n]
    BY <1>6, <1>7, Climbs
  <1>9. MaximumAssets \in 0..MaximumAssets
    BY AssetNaturals
  <1> QED BY <1>3, <1>5, <1>8, <1>9 DEF Slots

(* One live entry's reload                                                 *)
LEMMA ReloadGoes ==
    ASSUME NEW s, Sound(s), Current(s), NEW i \in Slots, NEW refused,
           catalog \in [Ids -> Revisions \cup {NoRevision}]
    PROVE  Goes(s, Reload(s, i, refused)) /\ Current(Reload(s, i, refused))
  <1> DEFINE live == s.entries[i]
             now == catalog[live.id]
             t == Reload(s, i, refused)
  <1>1. Goes(s, s)
    BY StayGoes
  <1>2. CASE ~live.used \/ live.candidate \/ live.residency = "retiring"
    BY <1>1, <1>2 DEF Reload
  <1>3. CASE ~(~live.used \/ live.candidate \/ live.residency = "retiring")
    <2>1. live.id \in Ids /\ now \in Revisions \cup {NoRevision} /\ live.used
      BY <1>3 DEF Sound, Shape
    <2>2. CASE now \in {NoRevision, live.revision}
      BY <1>1, <1>3, <2>2 DEF Reload
    <2>3. CASE now \notin {NoRevision, live.revision} /\ live.interest = 0
      <3>1. t = IF live.residency = "evictable" THEN Retire(s, i) ELSE s
        BY <1>3, <2>3 DEF Reload
      <3>2. Goes(s, Retire(s, i))
        BY <2>3, RetireGoes
      <3> QED BY <1>1, <3>1, <3>2 DEF Goes
    <2>4. CASE now \notin {NoRevision, live.revision} /\ live.interest # 0
      <3> DEFINE asked == Asked(s, live.id, now)
                 greatest == CHOOSE j \in asked : \A k \in asked : k <= j
      <3>1. t = IF asked # {} THEN Replacing(s, i, greatest)
                ELSE IF live.id \in refused \/ FreeSlots(s) = {} THEN s
                ELSE Replacing(StartLoad(s, live.id, now), i, Least(FreeSlots(s)))
        BY <1>3, <2>4 DEF Reload
      <3>2. ASSUME asked # {} PROVE Goes(s, Replacing(s, i, greatest))
                                   /\ Current(Replacing(s, i, greatest))
        <4>1. greatest \in asked
          <5>1. asked \in SUBSET Slots
            BY DEF Asked, Of
          <5>2. \E x \in asked : \A y \in asked : y <= x
            BY <3>2, <5>1, GreatestSlot
          <5> HIDE DEF asked
          <5> QED BY <5>2
        <4> DEFINE made == s.entries[greatest]
        <4>2. greatest \in Slots /\ made.used /\ made.id = live.id /\ made.revision = now
              /\ ~made.candidate
          <5> HIDE DEF greatest
          <5> QED BY <4>1 DEF Asked, Of
        <4> HIDE DEF greatest
        <4>3. LiveFor(live, made)
          BY <1>3, <2>4, <4>2 DEF LiveFor
        <4> QED BY <4>2, <4>3, MarkGoes
      <3>3. ASSUME FreeSlots(s) # {}
            PROVE  /\ Goes(s, Replacing(StartLoad(s, live.id, now), i, Least(FreeSlots(s))))
                   /\ Current(Replacing(StartLoad(s, live.id, now), i, Least(FreeSlots(s))))
        <4> DEFINE made == Least(FreeSlots(s))
                   d == s.entries[made]
                   e == [d EXCEPT !.used = TRUE, !.id = live.id, !.revision = now,
                                  !.residency = "loading", !.work = "reading"]
                   u == StartLoad(s, live.id, now)
        <4>1. now \in Revisions
          BY <2>1, <2>4
        <4>2. /\ made \in Slots /\ ~d.used /\ u.entries[made] = e
              /\ \A j \in Slots \ {made} : u.entries[j] = s.entries[j]
              /\ Goes(s, u)
          BY <2>1, <3>3, <4>1, StartGoes
        <4> HIDE DEF made, u
        <4>3. d \in EntrySet /\ Shape(d)
          BY <4>2, EntryTyped
        <4>4. e.used /\ e.id = live.id /\ e.revision = now /\ e.candidate = d.candidate
          <5> HIDE DEF d, live, now
          <5> QED BY <4>3 DEF EntrySet
        <4>5. ~e.candidate
          BY <4>2, <4>3, <4>4 DEF Shape
        <4> HIDE DEF e
        <4>6. u.entries[i] = live
          BY <2>1, <4>2
        <4>7. LiveFor(live, u.entries[made])
          BY <1>3, <2>4, <4>2, <4>4 DEF LiveFor
        <4>8. Sound(u) /\ Current(u)
          BY <4>2 DEF Goes
        <4>9. u.entries[made].revision = catalog[u.entries[made].id]
          BY <4>2, <4>4
        <4>10. Goes(u, Replacing(u, i, made)) /\ Current(Replacing(u, i, made))
          BY <4>2, <4>4, <4>5, <4>6, <4>7, <4>8, <4>9, MarkGoes
        <4>11. Goes(s, Replacing(u, i, made))
          BY <4>2, <4>10, GoesOn
        <4> QED BY <4>10, <4>11 DEF u, made
      <3> QED BY <1>1, <3>1, <3>2, <3>3
    <2> QED BY <2>2, <2>3, <2>4
  <1> QED BY <1>2, <1>3

(* The pass that begins a reload                                           *)
Begun(s, refused) == LET Begin(t, i) == Reload(t, i, refused) IN InOrder(Begin, s)

(* Every live entry's reload begun.                                        *)
LEMMA BeginPass ==
    ASSUME NEW s, Sound(s), Current(s), NEW refused,
           catalog \in [Ids -> Revisions \cup {NoRevision}]
    PROVE  Goes(s, Begun(s, refused)) /\ Current(Begun(s, refused))
  <1> DEFINE Begin(t, i) == Reload(t, i, refused)
             Takes(h) == h = [n \in 0..MaximumAssets |-> IF n = 0 THEN s ELSE Begin(h[n - 1], n)]
             S == {t \in SetType : Sound(t) /\ Current(t)}
             f == [p \in S \X Slots |-> Begin(p[1], p[2])]
  <1>1. \E h : Takes(h)
    <2>1. \A t \in S, n \in Slots : Begin(t, n) \in S
      BY ReloadGoes DEF Goes, Sound
    <2>2. f \in [S \X Slots -> S] /\ s \in S
      BY <2>1 DEF Sound
    <2>3. \A t \in S, n \in Slots : f[<<t, n>>] = Begin(t, n)
      OBVIOUS
    <2> HIDE DEF f, S, Begin
    <2>4. PICK h \in [0..MaximumAssets -> S] :
             h = [n \in 0..MaximumAssets |-> IF n = 0 THEN s ELSE f[<<h[n - 1], n>>]]
      <3>1. Passed(S, s, f)
        BY <2>2, PassExists
      <3> QED BY <3>1 DEF Passed
    <2>5. \A n \in 0..MaximumAssets : n # 0 => f[<<h[n - 1], n>>] = Begin(h[n - 1], n)
      <3> SUFFICES ASSUME NEW n \in 0..MaximumAssets, n # 0
                   PROVE  f[<<h[n - 1], n>>] = Begin(h[n - 1], n)
        OBVIOUS
      <3>1. n \in Slots /\ n - 1 \in 0..MaximumAssets
        BY AssetNaturals DEF Slots
      <3>2. h[n - 1] \in S
        BY <3>1
      <3> QED BY <2>3, <3>1, <3>2
    <2>6. h = [n \in 0..MaximumAssets |-> IF n = 0 THEN s ELSE Begin(h[n - 1], n)]
      BY <2>4, <2>5
    <2> QED BY <2>6
  <1> DEFINE h == CHOOSE g : Takes(g)
  <1>2. Takes(h)
    BY <1>1
  <1>3. Begun(s, refused) = h[MaximumAssets]
    BY DEF Begun, InOrder
  <1> HIDE DEF h
  <1>4. h[0] = s /\ \A n \in Slots : h[n] = Begin(h[n - 1], n)
    <2>1. 0 \in 0..MaximumAssets /\ \A n \in Slots : n \in 0..MaximumAssets /\ n # 0
      BY AssetNaturals DEF Slots
    <2> HIDE DEF Begin
    <2> QED BY <1>2, <2>1
  <1> DEFINE D == [n \in 0..MaximumAssets |-> {t \in SetType : Goes(s, t) /\ Current(t)}]
  <1>5. \A n \in 0..MaximumAssets : \A t : t \in D[n] <=> t \in SetType /\ Goes(s, t) /\ Current(t)
    OBVIOUS
  <1> HIDE DEF D
  <1>6. h[0] \in D[0]
    <2>1. 0 \in 0..MaximumAssets
      BY AssetNaturals
    <2>2. s \in SetType /\ Goes(s, s)
      BY StayGoes DEF Sound
    <2> QED BY <1>4, <1>5, <2>1, <2>2
  <1>7. ASSUME NEW n \in Slots, h[n - 1] \in D[n - 1] PROVE h[n] \in D[n]
    <2>1. n \in 0..MaximumAssets /\ n - 1 \in 0..MaximumAssets
      BY AssetNaturals DEF Slots
    <2> DEFINE t == h[n - 1]
    <2>2. Goes(s, t) /\ Sound(t) /\ Current(t)
      BY <1>5, <1>7, <2>1 DEF Goes
    <2>3. h[n] = Begin(t, n)
      BY <1>4
    <2> HIDE DEF t
    <2>4. Goes(t, h[n]) /\ Current(h[n])
      BY <2>2, <2>3, ReloadGoes
    <2>5. Goes(s, h[n]) /\ h[n] \in SetType
      BY <2>2, <2>4, GoesOn DEF Goes, Sound
    <2> QED BY <1>5, <2>1, <2>4, <2>5
  <1>8. \A n \in 0..MaximumAssets : h[n] \in D[n]
    BY <1>6, <1>7, Climbs
  <1>9. MaximumAssets \in 0..MaximumAssets
    BY AssetNaturals
  <1> QED BY <1>3, <1>5, <1>8, <1>9

(* Noting the catalog that is reconciled disturbs no entry.                *)
LEMMA ReconciledSound ==
    ASSUME NEW s, Sound(s), published \in Nat
    PROVE  LET t == [s EXCEPT !.reconciled = published]
           IN  /\ Sound(t) /\ t.entries = s.entries /\ t.requesters = s.requesters
               /\ t.reconciled = published
               /\ (Wanted(s) => Wanted(t)) /\ (Outdated(s) => Outdated(t))
  <1> DEFINE t == [s EXCEPT !.reconciled = published]
  <1>1. /\ t \in SetType /\ t.entries = s.entries /\ t.requesters = s.requesters
        /\ t.reconciled = published /\ t.residentBytes = s.residentBytes
    BY DEF Sound, SetType
  <1> HIDE DEF t
  <1>2. Sound(t)
    BY <1>1 DEF Sound, Within
  <1>3. Wanted(s) => Wanted(t)
    BY <1>1 DEF Wanted, WantedAt, ServedAt, PointingIn
  <1>4. Outdated(s) => Outdated(t)
    BY <1>1 DEF Outdated, OutdatedAt
  <1> QED BY <1>1, <1>2, <1>3, <1>4 DEF t

(* A reload begun: the candidates are of the catalog's revisions.          *)
LEMMA BeginReloadGoes ==
    ASSUME NEW s, Sound(s), NEW refused, published \in Nat,
           catalog \in [Ids -> Revisions \cup {NoRevision}],
           s.reconciled = published => Current(s)
    PROVE  LET t == BeginReload(s, refused)
               u == [s EXCEPT !.reconciled = published]
           IN  /\ Goes(u, t) /\ Current(t) /\ t.reconciled = published
               /\ s.reconciled = published => t = s
  <1> DEFINE begun == BeginReload(s, refused)
             u == [s EXCEPT !.reconciled = published]
             cleared == InOrder(Abandon, u)
  <1>1. Sound(u) /\ u.reconciled = published
    BY ReconciledSound
  <1>2. CASE s.reconciled = published
    <2>1. begun = s
      BY <1>2 DEF BeginReload
    <2>2. u = s
      BY <1>2 DEF Sound, SetType
    <2> QED BY <1>1, <1>2, <2>1, <2>2, StayGoes
  <1>3. CASE s.reconciled # published
    <2>1. begun = Begun(cleared, refused)
      BY <1>3 DEF BeginReload, Begun
    <2> HIDE DEF u
    <2>2. Goes(u, cleared) /\ \A i \in Slots : ~cleared.entries[i].candidate
      BY <1>1, AbandonPass
    <2> HIDE DEF cleared
    <2>3. Sound(cleared) /\ Current(cleared)
      BY <2>2 DEF Goes, Current
    <2>4. Goes(cleared, Begun(cleared, refused)) /\ Current(Begun(cleared, refused))
      BY <2>3, BeginPass
    <2> HIDE DEF begun
    <2>5. Goes(cleared, begun) /\ Current(begun)
      BY <2>1, <2>4
    <2>6. Goes(u, begun)
      BY <1>1, <2>2, <2>5, GoesOn
    <2>7. begun.reconciled = published
      BY <1>1, <2>6 DEF Goes, Follows
    <2> QED BY <1>3, <2>5, <2>6, <2>7 DEF u, begun
  <1> QED BY <1>2, <1>3

-----------------------------------------------------------------------------
(* Reads and decodings taken.                                              *)
Evictables(s) == {j \in Slots : s.entries[j].used /\ s.entries[j].residency = "evictable"}

(* The forms that may go have their order.                                 *)
Ordered(s, order) == \A j \in Slots : s.entries[j].residency = "evictable" => order[j] \in Nat

(* An order of the evictable forms stays one: no form becomes evictable.   *)
LEMMA OrderedGoes ==
    ASSUME NEW s, NEW t, Goes(s, t), NEW order, Ordered(s, order)
    PROVE  Ordered(t, order)
  BY DEF Goes, Follows, Stays, Ordered

(* Evict's choice is one of the evictable forms.                           *)
LEMMA FirstOf ==
    ASSUME NEW T \in SUBSET Slots, T # {}, NEW order, \A j \in T : order[j] \in Nat
    PROVE  (CHOOSE j \in T : \A k \in T : order[j] <= order[k]) \in T
  <1> DEFINE O == {order[j] : j \in T}
  <1>1. \E x \in O : \A y \in O : x <= y
    <2>1. O \in SUBSET Nat /\ O # {}
      OBVIOUS
    <2> HIDE DEF O
    <2> QED BY <2>1, LeastOf
  <1>2. \E j \in T : \A k \in T : order[j] <= order[k]
    BY <1>1
  <1> QED BY <1>2

(* What an eviction leaves: each form as it is, or gone of those that may  *)
EvictedFrom(s, t) ==
    /\ Goes(s, t)
    /\ \A j \in Slots : \/ t.entries[j] = s.entries[j]
                        \/ ~t.entries[j].used /\ s.entries[j].residency = "evictable"

(* One form evicted, and as many as must go.                               *)
LEMMA EvictOne ==
    ASSUME NEW s, Sound(s), NEW t, EvictedFrom(s, t), NEW order, Ordered(s, order),
           Evictables(t) # {}
    PROVE  EvictedFrom(s, Retire(t, CHOOSE j \in Evictables(t) :
                                      \A k \in Evictables(t) : order[j] <= order[k]))
  <1> DEFINE i == CHOOSE j \in Evictables(t) : \A k \in Evictables(t) : order[j] <= order[k]
  <1>1. Sound(t) /\ Goes(s, t)
    BY DEF EvictedFrom, Goes
  <1>2. i \in Evictables(t)
    <2>1. Ordered(t, order)
      BY <1>1, OrderedGoes
    <2>2. Evictables(t) \in SUBSET Slots /\ \A j \in Evictables(t) : order[j] \in Nat
      BY <2>1 DEF Ordered, Evictables
    <2> QED BY <2>2, FirstOf
  <1>3. i \in Slots /\ t.entries[i].used /\ t.entries[i].residency = "evictable"
    <2> HIDE DEF i
    <2> QED BY <1>2 DEF Evictables
  <1> HIDE DEF i
  <1> DEFINE u == Retire(t, i)
  <1>4. Goes(t, u)
    BY <1>1, <1>3, RetireGoes
  <1>5. /\ u.entries[i] = Free(t.entries[i].generation + 1, t.entries[i].interest)
        /\ \A j \in Slots \ {i} : u.entries[j] = t.entries[j]
    BY <1>1, <1>3, RetireSound
  <1> HIDE DEF u
  <1>6. Goes(s, u)
    BY <1>1, <1>4, GoesOn
  <1>7. ~u.entries[i].used
    BY <1>5 DEF Free
  <1>8. s.entries[i].residency = "evictable"
    BY <1>1, <1>3 DEF Goes, Follows, Stays
  <1>9. EvictedFrom(s, u)
    BY <1>5, <1>6, <1>7, <1>8 DEF EvictedFrom
  <1> QED BY <1>9 DEF u, i

LEMMA EvictGoes ==
    ASSUME NEW s, Sound(s), NEW bytes, NEW order, Ordered(s, order)
    PROVE  EvictedFrom(s, Evict(s, bytes, order))
  <1> DEFINE next(t) == CHOOSE j \in Evictables(t) : \A k \in Evictables(t) : order[j] <= order[k]
             Step(t) == IF t.residentBytes + bytes <= BudgetBytes \/ Evictables(t) = {} THEN t
                        ELSE Retire(t, next(t))
             Takes(h) == h = [n \in 0..MaximumAssets |-> IF n = 0 THEN s ELSE Step(h[n - 1])]
             S == {t \in SetType : EvictedFrom(s, t)}
             f == [p \in S \X Slots |-> Step(p[1])]
  <1>1. \A t \in S : Step(t) \in S
    <2> SUFFICES ASSUME NEW t \in S PROVE Step(t) \in S
      OBVIOUS
    <2>1. EvictedFrom(s, t)
      OBVIOUS
    <2>2. CASE t.residentBytes + bytes <= BudgetBytes \/ Evictables(t) = {}
      BY <2>2
    <2>3. CASE ~(t.residentBytes + bytes <= BudgetBytes \/ Evictables(t) = {})
      <3>1. EvictedFrom(s, Retire(t, next(t)))
        BY <2>1, <2>3, EvictOne
      <3>2. Step(t) = Retire(t, next(t))
        BY <2>3
      <3> HIDE DEF Step, next
      <3>3. EvictedFrom(s, Step(t))
        BY <3>1, <3>2
      <3> QED BY <3>3 DEF EvictedFrom, Goes, Sound
    <2> QED BY <2>2, <2>3
  <1>2. s \in S
    BY StayGoes DEF EvictedFrom, Sound
  <1>3. \E h : Takes(h)
    <2> HIDE DEF Step
    <2>1. f \in [S \X Slots -> S]
      BY <1>1
    <2>2. \A t \in S, n \in Slots : f[<<t, n>>] = Step(t)
      OBVIOUS
    <2> HIDE DEF f, S
    <2>3. PICK h \in [0..MaximumAssets -> S] :
             h = [n \in 0..MaximumAssets |-> IF n = 0 THEN s ELSE f[<<h[n - 1], n>>]]
      <3>1. Passed(S, s, f)
        BY <1>2, <2>1, PassExists
      <3> QED BY <3>1 DEF Passed
    <2>4. \A n \in 0..MaximumAssets : n # 0 => f[<<h[n - 1], n>>] = Step(h[n - 1])
      <3> SUFFICES ASSUME NEW n \in 0..MaximumAssets, n # 0
                   PROVE  f[<<h[n - 1], n>>] = Step(h[n - 1])
        OBVIOUS
      <3>1. n \in Slots /\ n - 1 \in 0..MaximumAssets
        BY AssetNaturals DEF Slots
      <3>2. h[n - 1] \in S
        BY <3>1
      <3> QED BY <2>2, <3>1, <3>2
    <2>5. h = [n \in 0..MaximumAssets |-> IF n = 0 THEN s ELSE Step(h[n - 1])]
      BY <2>3, <2>4
    <2> QED BY <2>5
  <1> DEFINE h == CHOOSE g : Takes(g)
  <1>4. Takes(h)
    BY <1>3
  <1>5. Evict(s, bytes, order) = h[MaximumAssets]
    BY DEF Evict, Evictables
  <1> HIDE DEF h
  <1>6. h[0] = s /\ \A n \in Slots : h[n] = Step(h[n - 1])
    <2>1. 0 \in 0..MaximumAssets /\ \A n \in Slots : n \in 0..MaximumAssets /\ n # 0
      BY AssetNaturals DEF Slots
    <2> HIDE DEF Step
    <2> QED BY <1>4, <2>1
  <1> HIDE DEF Step
  <1> DEFINE D == [n \in 0..MaximumAssets |-> S]
  <1>7. \A n \in 0..MaximumAssets : D[n] = S
    OBVIOUS
  <1>8. 0 \in 0..MaximumAssets /\ MaximumAssets \in 0..MaximumAssets
        /\ \A n \in Slots : n \in 0..MaximumAssets /\ n - 1 \in 0..MaximumAssets
    BY AssetNaturals DEF Slots
  <1> HIDE DEF D, S
  <1>9. h[0] \in D[0]
    BY <1>2, <1>6, <1>7, <1>8
  <1>10. \A n \in Slots : h[n - 1] \in D[n - 1] => h[n] \in D[n]
    BY <1>1, <1>6, <1>7, <1>8
  <1>11. \A n \in 0..MaximumAssets : h[n] \in D[n]
    BY <1>9, <1>10, Climbs
  <1> QED BY <1>5, <1>7, <1>8, <1>11 DEF S

(* A load that has ended and is not taken                                  *)
Ended(e) == e.used /\ e.residency = "loading" /\ e.work \notin {"reading", "decoding"}

(* What is done to one entry leaves the others, or frees them.             *)
OthersOf(s, t, i) ==
    \A j \in Slots \ {i} : t.entries[j] = s.entries[j] \/ ~t.entries[j].used

(* A load that failed.                                                     *)
LEMMA FailGoes ==
    ASSUME NEW s, Sound(s), NEW i \in Slots, s.entries[i].used, s.entries[i].residency = "loading"
    PROVE  /\ Goes(s, Fail(s, i)) /\ ~Ended(Fail(s, i).entries[i])
           /\ \A j \in Slots \ {i} : Fail(s, i).entries[j] = s.entries[j]
  <1> DEFINE d == s.entries[i]
             e == [d EXCEPT !.residency = "absent", !.failed = TRUE, !.work = "none"]
             t == Fail(s, i)
  <1>1. d \in EntrySet /\ Shape(d) /\ d.generation \in Nat /\ d.used /\ d.residency = "loading"
    BY EntryTyped
  <1>2. t = [s EXCEPT !.entries[i] = e]
    <2>1. s \in [entries : [Slots -> EntrySet], requesters : [Requesters -> RequesterSet],
                 residentBytes : Int, reconciled : Nat]
      BY DEF Sound, SetType
    <2> QED BY <1>1, <2>1 DEF Fail
  <1> HIDE DEF t
  <1>3. e \in EntrySet /\ e.candidate = d.candidate /\ e.used = d.used
        /\ e.generation = d.generation /\ e.id = d.id /\ e.revision = d.revision
        /\ e.residency = "absent" /\ e.interest = d.interest /\ e.failed /\ e.work = "none"
        /\ e.replaces = d.replaces /\ e.replacesGeneration = d.replacesGeneration
    <2> HIDE DEF d
    <2>1. "absent" \in Residency /\ "none" \in Work
      BY DEF Residency, Work
    <2> QED BY <1>1, <2>1 DEF EntrySet
  <1> HIDE DEF e, d
  <1>4. Shape(e) /\ FormBytes(e) = FormBytes(d)
    BY <1>1, <1>3 DEF Shape, FormBytes, Charged
  <1>5. Plain(d, e) /\ Stays(d, e) /\ ~Ended(e)
    BY <1>1, <1>3 DEF Plain, Stays, Ended
  <1>6. /\ Goes(s, [s EXCEPT !.entries[i] = e])
        /\ [s EXCEPT !.entries[i] = e].entries[i] = e
        /\ \A j \in Slots \ {i} : [s EXCEPT !.entries[i] = e].entries[j] = s.entries[j]
    <2>1. d.used /\ e.used /\ d = s.entries[i]
      BY <1>1, <1>3 DEF d
    <2> QED BY <1>3, <1>4, <1>5, <2>1, ChangeGoes
  <1> QED BY <1>2, <1>5, <1>6 DEF t

(* A load come as far as this                                              *)
Working(s, i, work) == [s EXCEPT !.entries[i].work = work]

(* A load's next stage.                                                    *)
LEMMA WorkGoes ==
    ASSUME NEW s, Sound(s), NEW i \in Slots, s.entries[i].used, NEW work \in Work, work # "none"
    PROVE  /\ Goes(s, Working(s, i, work)) /\ Working(s, i, work).entries[i].work = work
           /\ \A j \in Slots \ {i} : Working(s, i, work).entries[j] = s.entries[j]
  <1> DEFINE d == s.entries[i]
             e == [d EXCEPT !.work = work]
             t == Working(s, i, work)
  <1>1. d \in EntrySet /\ Shape(d) /\ d.generation \in Nat /\ d.used
    BY EntryTyped
  <1>2. t = [s EXCEPT !.entries[i] = e]
    BY DEF Working
  <1> HIDE DEF t
  <1>3. e \in EntrySet /\ e.candidate = d.candidate /\ e.used = d.used
        /\ e.generation = d.generation /\ e.id = d.id /\ e.revision = d.revision
        /\ e.residency = d.residency /\ e.interest = d.interest /\ e.failed = d.failed /\ e.work = work
        /\ e.replaces = d.replaces /\ e.replacesGeneration = d.replacesGeneration
    <2> HIDE DEF d
    <2> QED BY <1>1 DEF EntrySet
  <1> HIDE DEF e, d
  <1>4. Shape(e) /\ FormBytes(e) = FormBytes(d)
    BY <1>1, <1>3 DEF Shape, FormBytes, Charged
  <1>5. Plain(d, e) /\ Stays(d, e)
    BY <1>1, <1>3 DEF Plain, Stays
  <1>6. /\ Goes(s, [s EXCEPT !.entries[i] = e])
        /\ [s EXCEPT !.entries[i] = e].entries[i] = e
        /\ \A j \in Slots \ {i} : [s EXCEPT !.entries[i] = e].entries[j] = s.entries[j]
    <2>1. d.used /\ e.used /\ d = s.entries[i]
      BY <1>1, <1>3 DEF d
    <2> QED BY <1>3, <1>4, <1>5, <2>1, ChangeGoes
  <1> QED BY <1>2, <1>3, <1>6 DEF t

(* A decoded form, with room made for it                                   *)
LEMMA PublishGoes ==
    ASSUME NEW s, Sound(s), NEW i \in Slots, s.entries[i].used, s.entries[i].residency = "loading",
           NEW order, Ordered(s, order)
    PROVE  /\ Goes(s, Publish(s, i, order)) /\ ~Ended(Publish(s, i, order).entries[i])
           /\ OthersOf(s, Publish(s, i, order), i)
  <1> DEFINE d == s.entries[i]
             bytes == Bytes(d.id, d.revision)
             made == Evict(s, bytes, order)
             t == Publish(s, i, order)
  <1>1. EvictedFrom(s, made)
    BY EvictGoes
  <1>2. t = IF made.residentBytes + bytes > BudgetBytes THEN Fail(made, i)
            ELSE [made EXCEPT !.entries[i].residency = "resident", !.entries[i].work = "none",
                              !.residentBytes = @ + bytes]
    BY DEF Publish
  <1>3. d \in EntrySet /\ Shape(d) /\ d.generation \in Nat /\ d.used /\ d.residency = "loading"
    BY EntryTyped
  <1>4. bytes \in Nat
    BY <1>3, AssetForms DEF Shape, Revisions
  <1> HIDE DEF made, t
  <1>5. Sound(made) /\ Goes(s, made)
    BY <1>1 DEF EvictedFrom, Goes
  <1>6. made.entries[i] = d
    BY <1>1, <1>3 DEF EvictedFrom
  <1>7. OthersOf(s, made, i)
    BY <1>1 DEF EvictedFrom, OthersOf
  <1>8. made.residentBytes \in Int
    BY <1>5 DEF Sound, SetType
  <1>9. CASE made.residentBytes + bytes > BudgetBytes
    <2>1. t = Fail(made, i)
      BY <1>2, <1>9
    <2>2. /\ Goes(made, Fail(made, i)) /\ ~Ended(Fail(made, i).entries[i])
          /\ \A j \in Slots \ {i} : Fail(made, i).entries[j] = made.entries[j]
      BY <1>3, <1>5, <1>6, FailGoes
    <2>3. Goes(s, t)
      BY <1>5, <2>1, <2>2, GoesOn
    <2> QED BY <1>7, <2>1, <2>2, <2>3 DEF OthersOf, t
  <1>10. CASE ~(made.residentBytes + bytes > BudgetBytes)
    <2> DEFINE e == [d EXCEPT !.residency = "resident", !.work = "none"]
    <2>1. e \in EntrySet /\ e.candidate = d.candidate /\ e.used = d.used
          /\ e.generation = d.generation /\ e.id = d.id /\ e.revision = d.revision
          /\ e.residency = "resident" /\ e.interest = d.interest /\ e.failed = d.failed
          /\ e.replaces = d.replaces /\ e.replacesGeneration = d.replacesGeneration
      <3> HIDE DEF d
      <3>1. "resident" \in Residency /\ "none" \in Work
        BY DEF Residency, Work
      <3> QED BY <1>3, <3>1 DEF EntrySet
    <2>2. t = [entries |-> [made.entries EXCEPT ![i] = e], requesters |-> made.requesters,
               residentBytes |-> made.residentBytes + bytes, reconciled |-> made.reconciled]
      <3> DEFINE x == [made.entries EXCEPT ![i] = e]
                 y == made.residentBytes + bytes
      <3>1. made \in [entries : [Slots -> EntrySet], requesters : [Requesters -> RequesterSet],
                      residentBytes : Int, reconciled : Nat]
        BY <1>5 DEF Sound, SetType
      <3>2. t = [made EXCEPT !.entries = x, !.residentBytes = y]
        <4> HIDE DEF bytes
        <4>1. t = [made EXCEPT !.entries[i].residency = "resident", !.entries[i].work = "none",
                               !.residentBytes = @ + bytes]
          BY <1>2, <1>10
        <4>2. x = [made.entries EXCEPT ![i] = [made.entries[i] EXCEPT !.residency = "resident", !.work = "none"]]
          BY <1>6
        <4> QED BY <1>6, <3>1, <4>1, <4>2
      <3> HIDE DEF x, y
      <3>3. t = [entries |-> x, requesters |-> made.requesters,
                 residentBytes |-> y, reconciled |-> made.reconciled]
        BY <1>5, <3>2, SetWith
      <3> QED BY <3>3 DEF x, y
    <2> HIDE DEF e
    <2>3. Shape(e)
      BY <1>3, <2>1 DEF Shape
    <2>4. FormBytes(d) = 0 /\ FormBytes(e) = bytes
      BY <1>3, <2>1 DEF FormBytes, Charged
    <2> HIDE DEF d, bytes
    <2>5. Plain(d, e) /\ Stays(d, e)
      BY <1>3, <2>1 DEF Plain, Stays
    <2>6. made.residentBytes - FormBytes(d) + FormBytes(e) = made.residentBytes + bytes
          /\ made.residentBytes + bytes <= BudgetBytes
      BY <1>4, <1>8, <1>10, <2>4, AssetNaturals
    <2>7. t = Put(made, i, e)
      BY <1>6, <2>2, <2>6 DEF Put
    <2>8. Goes(made, t)
      BY <1>3, <1>5, <1>6, <2>1, <2>3, <2>5, <2>6, <2>7, PutGoes
    <2>9. t.entries[i] = e /\ \A j \in Slots \ {i} : t.entries[j] = made.entries[j]
      BY <1>5, <2>1, <2>3, <2>7, PutFields
    <2>10. Goes(s, t)
      BY <1>5, <2>8, GoesOn
    <2>11. ~Ended(e)
      BY <2>1 DEF Ended
    <2> QED BY <1>7, <2>9, <2>10, <2>11 DEF OthersOf, t
  <1> QED BY <1>9, <1>10

(* One entry's ended load taken, whichever way it ended; and all of them.  *)
LEMMA TakeGoes ==
    ASSUME NEW s, Sound(s), NEW i \in Slots, NEW held, NEW order, Ordered(s, order)
    PROVE  /\ Goes(s, Take(s, i, held, order)) /\ ~Ended(Take(s, i, held, order).entries[i])
           /\ OthersOf(s, Take(s, i, held, order), i)
  <1> DEFINE d == s.entries[i]
             unwanted == d.interest = 0 /\ ~d.candidate
             t == Take(s, i, held, order)
  <1>1. d \in EntrySet /\ Shape(d) /\ Goes(s, s) /\ OthersOf(s, s, i)
    BY EntryTyped, StayGoes DEF OthersOf
  <1>2. ASSUME d.interest = 0 \/ d.residency = "retiring"
        PROVE  Goes(s, Retire(s, i)) /\ ~Ended(Retire(s, i).entries[i]) /\ OthersOf(s, Retire(s, i), i)
    <2>1. Goes(s, Retire(s, i))
      BY <1>2, RetireGoes
    <2>2. /\ Retire(s, i).entries[i] = Free(d.generation + 1, d.interest)
          /\ \A j \in Slots \ {i} : Retire(s, i).entries[j] = s.entries[j]
      BY RetireSound
    <2>3. ~Ended(Retire(s, i).entries[i])
      BY <2>2 DEF Free, Ended
    <2> QED BY <2>1, <2>2, <2>3 DEF OthersOf
  <1>3. CASE d.used /\ d.residency = "retiring" /\ i \notin held
    <2>1. t = Retire(s, i)
      BY <1>3 DEF Take
    <2> QED BY <1>2, <1>3, <2>1
  <1>4. CASE Ended(d) /\ unwanted
    <2>1. t = Retire(s, i)
      BY <1>4 DEF Take, Ended
    <2> QED BY <1>2, <1>4, <2>1
  <1>5. CASE Ended(d) /\ ~unwanted /\ d.work \in {"unread", "undecoded"}
    <2>1. t = Fail(s, i)
      BY <1>5 DEF Take, Ended
    <2>2. /\ Goes(s, Fail(s, i)) /\ ~Ended(Fail(s, i).entries[i])
          /\ \A j \in Slots \ {i} : Fail(s, i).entries[j] = s.entries[j]
      BY <1>5, FailGoes DEF Ended
    <2> QED BY <2>1, <2>2 DEF OthersOf
  <1>6. CASE Ended(d) /\ ~unwanted /\ d.work = "read"
    <2> DEFINE u == Working(s, i, "decoding")
    <2>1. t = u
      BY <1>6 DEF Take, Ended, Working
    <2>2. /\ Goes(s, u) /\ u.entries[i].work = "decoding"
          /\ \A j \in Slots \ {i} : u.entries[j] = s.entries[j]
      <3>1. "decoding" \in Work /\ "decoding" # "none" /\ s.entries[i].used
        BY <1>6 DEF Work, Ended
      <3> QED BY <3>1, WorkGoes
    <2> HIDE DEF u
    <2> QED BY <2>1, <2>2 DEF OthersOf, Ended
  <1>7. CASE Ended(d) /\ ~unwanted /\ d.work = "decoded"
    <2>1. t = Publish(s, i, order)
      BY <1>7 DEF Take, Ended
    <2>2. d.used /\ d.residency = "loading"
      BY <1>7 DEF Ended
    <2> QED BY <2>1, <2>2, PublishGoes
  <1>8. CASE ~Ended(d) /\ ~(d.used /\ d.residency = "retiring" /\ i \notin held)
    <2>1. t = s
      BY <1>8 DEF Take, Ended
    <2> QED BY <1>1, <1>8, <2>1
  <1>9. Ended(d) => d.work \in {"read", "unread", "decoded", "undecoded"}
    BY <1>1 DEF Ended, Shape, EntrySet, Work
  <1> QED BY <1>3, <1>4, <1>5, <1>6, <1>7, <1>8, <1>9

(* The pass that takes what has ended                                      *)
TakenIn(s, held, order) == LET TakeIn(t, i) == Take(t, i, held, order) IN InOrder(TakeIn, s)

LEMMA TakePass ==
    ASSUME NEW s, Sound(s), NEW held, NEW order, Ordered(s, order)
    PROVE  /\ Goes(s, TakenIn(s, held, order))
           /\ \A i \in Slots : ~Ended(TakenIn(s, held, order).entries[i])
  <1> DEFINE TakeIn(t, i) == Take(t, i, held, order)
             Takes(h) == h = [n \in 0..MaximumAssets |-> IF n = 0 THEN s ELSE TakeIn(h[n - 1], n)]
             S == {t \in SetType : Goes(s, t)}
             f == [p \in S \X Slots |-> TakeIn(p[1], p[2])]
  <1>1. ASSUME NEW t, Goes(s, t), NEW n \in Slots
        PROVE  /\ Goes(s, TakeIn(t, n)) /\ ~Ended(TakeIn(t, n).entries[n])
               /\ OthersOf(t, TakeIn(t, n), n) /\ TakeIn(t, n) \in SetType
    <2>1. Sound(t) /\ Ordered(t, order)
      BY <1>1, OrderedGoes DEF Goes
    <2>2. Goes(t, TakeIn(t, n)) /\ ~Ended(TakeIn(t, n).entries[n]) /\ OthersOf(t, TakeIn(t, n), n)
      BY <2>1, TakeGoes
    <2> HIDE DEF TakeIn
    <2>3. Goes(s, TakeIn(t, n))
      BY <1>1, <2>2, GoesOn
    <2> QED BY <2>2, <2>3 DEF Goes, Sound
  <1> HIDE DEF TakeIn
  <1>2. \E h : Takes(h)
    <2>1. \A t \in S, n \in Slots : TakeIn(t, n) \in S
      BY <1>1
    <2>2. f \in [S \X Slots -> S] /\ s \in S
      BY <2>1, StayGoes DEF Sound
    <2>3. \A t \in S, n \in Slots : f[<<t, n>>] = TakeIn(t, n)
      OBVIOUS
    <2> HIDE DEF f, S
    <2>4. PICK h \in [0..MaximumAssets -> S] :
             h = [n \in 0..MaximumAssets |-> IF n = 0 THEN s ELSE f[<<h[n - 1], n>>]]
      <3>1. Passed(S, s, f)
        BY <2>2, PassExists
      <3> QED BY <3>1 DEF Passed
    <2>5. \A n \in 0..MaximumAssets : n # 0 => f[<<h[n - 1], n>>] = TakeIn(h[n - 1], n)
      <3> SUFFICES ASSUME NEW n \in 0..MaximumAssets, n # 0
                   PROVE  f[<<h[n - 1], n>>] = TakeIn(h[n - 1], n)
        OBVIOUS
      <3>1. n \in Slots /\ n - 1 \in 0..MaximumAssets
        BY AssetNaturals DEF Slots
      <3>2. h[n - 1] \in S
        BY <3>1
      <3> QED BY <2>3, <3>1, <3>2
    <2>6. h = [n \in 0..MaximumAssets |-> IF n = 0 THEN s ELSE TakeIn(h[n - 1], n)]
      BY <2>4, <2>5
    <2> QED BY <2>6
  <1> DEFINE h == CHOOSE g : Takes(g)
  <1>3. Takes(h)
    BY <1>2
  <1>4. TakenIn(s, held, order) = h[MaximumAssets]
    BY DEF TakenIn, InOrder, TakeIn
  <1> HIDE DEF h
  <1>5. h[0] = s /\ \A n \in Slots : h[n] = TakeIn(h[n - 1], n)
    <2>1. 0 \in 0..MaximumAssets /\ \A n \in Slots : n \in 0..MaximumAssets /\ n # 0
      BY AssetNaturals DEF Slots
    <2> QED BY <1>3, <2>1
  <1> DEFINE D == [n \in 0..MaximumAssets |->
                     {t \in SetType : Goes(s, t) /\ \A j \in 1..n : ~Ended(t.entries[j])}]
  <1>6. \A n \in 0..MaximumAssets : \A t : t \in D[n] <=>
           t \in SetType /\ Goes(s, t) /\ \A j \in 1..n : ~Ended(t.entries[j])
    OBVIOUS
  <1> HIDE DEF D
  <1>7. h[0] \in D[0]
    <2>1. 0 \in 0..MaximumAssets /\ 1..0 = {}
      BY AssetNaturals
    <2>2. s \in SetType /\ Goes(s, s)
      BY StayGoes DEF Sound
    <2> QED BY <1>5, <1>6, <2>1, <2>2
  <1>8. ASSUME NEW n \in Slots, h[n - 1] \in D[n - 1] PROVE h[n] \in D[n]
    <2>1. n \in 0..MaximumAssets /\ n - 1 \in 0..MaximumAssets
          /\ 1..n = 1..(n - 1) \cup {n} /\ n \notin 1..(n - 1) /\ 1..n \subseteq Slots
      BY AssetNaturals DEF Slots
    <2> DEFINE t == h[n - 1]
    <2>2. Goes(s, t) /\ \A j \in 1..(n - 1) : ~Ended(t.entries[j])
      BY <1>6, <1>8, <2>1
    <2>3. h[n] = TakeIn(t, n)
      BY <1>5
    <2> HIDE DEF t
    <2>4. /\ Goes(s, h[n]) /\ ~Ended(h[n].entries[n]) /\ h[n] \in SetType
          /\ \A j \in Slots \ {n} : h[n].entries[j] = t.entries[j] \/ ~h[n].entries[j].used
      BY <1>1, <2>2, <2>3 DEF OthersOf
    <2>5. \A j \in 1..n : ~Ended(h[n].entries[j])
      <3> SUFFICES ASSUME NEW j \in 1..(n - 1) PROVE ~Ended(h[n].entries[j])
        BY <2>1, <2>4
      <3>1. h[n].entries[j] = t.entries[j] \/ ~h[n].entries[j].used
        BY <2>1, <2>4
      <3>2. ~Ended(t.entries[j])
        BY <2>2
      <3> QED BY <3>1, <3>2 DEF Ended
    <2> QED BY <1>6, <2>1, <2>4, <2>5
  <1>9. \A n \in 0..MaximumAssets : h[n] \in D[n]
    BY <1>7, <1>8, Climbs
  <1>10. MaximumAssets \in 0..MaximumAssets
    BY AssetNaturals
  <1> QED BY <1>4, <1>6, <1>9, <1>10 DEF Slots

-----------------------------------------------------------------------------
(* The publication of a reload.  No candidate is still loading.            *)
Made(s) == \A i \in Slots : s.entries[i].candidate => s.entries[i].residency # "loading"

(* What the publication does to a slot                                     *)
SettledAt(d, e) ==
    /\ Uses(d, e)
    /\ e.candidate => d.candidate /\ (e.residency = "loading" => d.residency = "loading")
    /\ Ended(e) => Ended(d)

SettledFrom(s, t) ==
    /\ Sound(t) /\ t.reconciled = s.reconciled
    /\ \A i \in Slots : SettledAt(s.entries[i], t.entries[i])
    /\ Wanted(s) => Wanted(t)
    /\ Current(s) => Current(t)
    /\ Current(s) /\ Outdated(s) => Outdated(t)

(* Nothing done settles nothing,                                           *)
LEMMA SettledSame ==
    ASSUME NEW s, Sound(s)
    PROVE  SettledFrom(s, s)
  <1>1. \A i \in Slots : s.entries[i].generation \in Nat
    BY EntryTyped
  <1> QED BY <1>1 DEF SettledFrom, SettledAt, Uses

(* two steps that settle are one,                                          *)
LEMMA SettledOn ==
    ASSUME NEW s, Sound(s), NEW t, SettledFrom(s, t), NEW u, SettledFrom(t, u)
    PROVE  SettledFrom(s, u)
  <1>1. Sound(t) /\ Sound(u)
    BY DEF SettledFrom
  <1>2. ASSUME NEW i \in Slots PROVE SettledAt(s.entries[i], u.entries[i])
    <2>1. /\ s.entries[i].generation \in Nat /\ t.entries[i].generation \in Nat
          /\ u.entries[i].generation \in Nat
      BY <1>1, EntryTyped
    <2>2. SettledAt(s.entries[i], t.entries[i]) /\ SettledAt(t.entries[i], u.entries[i])
      BY DEF SettledFrom
    <2>3. Uses(s.entries[i], u.entries[i])
      BY <2>1, <2>2 DEF SettledAt, Uses
    <2> QED BY <2>2, <2>3 DEF SettledAt
  <1> QED BY <1>2 DEF SettledFrom

(* and what is settled leaves no candidate loading.                        *)
LEMMA MadeOn ==
    ASSUME NEW s, Made(s), NEW t, SettledFrom(s, t)
    PROVE  Made(t)
  BY DEF Made, SettledFrom, SettledAt

(* One slot changed, to be no candidate                                    *)
LEMMA SettledPut ==
    ASSUME NEW s, Sound(s), NEW i \in Slots, NEW e \in EntrySet, Shape(e),
           Plain(s.entries[i], e), FormBytes(e) <= FormBytes(s.entries[i]),
           ~e.candidate, ~Ended(e) \/ Ended(s.entries[i]),
           e.interest = s.entries[i].interest,
           e.used => /\ s.entries[i].used /\ e.generation = s.entries[i].generation
                     /\ e.id = s.entries[i].id /\ e.revision = s.entries[i].revision
                     /\ e.residency = "retiring" => s.entries[i].residency = "retiring",
           ~e.used => s.entries[i].interest = 0,
           e.residency \in {"evictable", "retiring"} =>
               s.entries[i].interest = 0 \/ s.entries[i].residency = e.residency
    PROVE  SettledFrom(s, Put(s, i, e))
  <1> DEFINE d == s.entries[i]
             t == Put(s, i, e)
  <1>1. /\ t.entries[i] = e /\ \A j \in Slots \ {i} : t.entries[j] = s.entries[j]
        /\ t.requesters = s.requesters /\ t.reconciled = s.reconciled
        /\ FormBytes(d) \in Nat /\ FormBytes(e) \in Nat
    BY PutFields
  <1>2. s.residentBytes - FormBytes(d) + FormBytes(e) <= BudgetBytes
    <2>1. s.residentBytes \in Int /\ s.residentBytes <= BudgetBytes /\ BudgetBytes \in Nat
      BY AssetNaturals DEF Sound, SetType, Within
    <2> HIDE DEF d
    <2>2. FormBytes(e) <= FormBytes(d)
      BY DEF d
    <2> QED BY <1>1, <2>1, <2>2
  <1>3. Sound(t)
    BY <1>2, PutSound
  <1>4. Wanted(s) => Wanted(t)
    <2> SUFFICES ASSUME Wanted(s) PROVE Wanted(t)
      OBVIOUS
    <2> HIDE DEF t
    <2>1. WantedAt(s, i)
      BY DEF Wanted
    <2>2. e.residency \in {"evictable", "retiring"} => d.interest = 0
      BY <2>1 DEF WantedAt
    <2>3. e.generation # d.generation => d.interest = 0
      OBVIOUS
    <2> QED BY <2>2, <2>3, PutWanted DEF t
  <1> HIDE DEF t
  <1>5. \A j \in Slots : s.entries[j].generation \in Nat /\ e.generation \in Nat
    BY EntryTyped DEF EntrySet
  <1>6. ASSUME NEW j \in Slots PROVE SettledAt(s.entries[j], t.entries[j])
    <2>1. CASE j # i
      BY <1>1, <1>5, <2>1 DEF SettledAt, Uses
    <2>2. CASE j = i
      <3>1. Uses(d, e)
        BY <1>5 DEF Uses, Plain
      <3> QED BY <1>1, <2>2, <3>1 DEF SettledAt
    <2> QED BY <2>1, <2>2
  <1>7. Current(s) => Current(t)
    BY <1>1 DEF Current
  <1>8. Outdated(s) => Outdated(t)
    <2> SUFFICES ASSUME Outdated(s), NEW j \in Slots, t.entries[j].used
                 PROVE  t.entries[j].residency = "retiring"
                          => t.entries[j].revision # catalog[t.entries[j].id]
      BY DEF Outdated, OutdatedAt
    <2>1. CASE j # i
      BY <1>1, <2>1 DEF Outdated, OutdatedAt
    <2>2. CASE j = i
      BY <1>1, <2>2 DEF Outdated, OutdatedAt
    <2> QED BY <2>1, <2>2
  <1> QED BY <1>1, <1>3, <1>4, <1>6, <1>7, <1>8 DEF SettledFrom, t

(* A candidate as it is once settled, with what it takes over              *)
Whole(d, interest) ==
    [d EXCEPT !.candidate = FALSE, !.interest = interest,
              !.residency = IF interest = 0 THEN "evictable" ELSE "resident"]

(* A settled candidate is an entry of its type.                            *)
LEMMA WholeTyped ==
    ASSUME NEW d \in EntrySet, Shape(d), d.used, d.candidate, NEW interest \in Nat,
           d.residency # "loading", ~d.failed
    PROVE  LET e == Whole(d, interest)
           IN  /\ e \in EntrySet /\ Shape(e) /\ FormBytes(e) = FormBytes(d) /\ Plain(d, e)
               /\ e.used /\ ~e.candidate /\ e.interest = interest
               /\ e.generation = d.generation /\ e.id = d.id /\ e.revision = d.revision
               /\ e.residency = IF interest = 0 THEN "evictable" ELSE "resident"
               /\ ~Ended(e)
  <1> DEFINE to == IF interest = 0 THEN "evictable" ELSE "resident"
             e == [d EXCEPT !.candidate = FALSE, !.interest = interest, !.residency = to]
  <1>1. to \in Residency /\ to \in {"resident", "evictable"}
    BY DEF Residency
  <1> HIDE DEF to
  <1>2. /\ e \in EntrySet /\ ~e.candidate /\ e.interest = interest /\ e.residency = to
        /\ e.used = d.used /\ e.generation = d.generation /\ e.id = d.id
        /\ e.revision = d.revision /\ e.failed = d.failed
    BY <1>1 DEF EntrySet
  <1> HIDE DEF e
  <1>3. d.residency \in {"resident", "evictable", "retiring"}
    BY DEF EntrySet, Residency, Shape
  <1>4. FormBytes(e) = FormBytes(d)
    BY <1>1, <1>2, <1>3 DEF FormBytes, Charged
  <1>5. Shape(e) /\ ~Ended(e)
    BY <1>1, <1>2 DEF Shape, Ended
  <1>6. Plain(d, e)
    BY <1>1, <1>2 DEF Plain
  <1>7. e = Whole(d, interest)
    BY DEF e, to, Whole
  <1>8. e.used
    BY <1>2
  <1> QED BY <1>2, <1>4, <1>5, <1>6, <1>7, <1>8 DEF to

(* What settles a set keeps what its passes keep.                          *)
LEMMA SettledGoes ==
    ASSUME NEW s, NEW t, Goes(s, t),
           \A j \in Slots : /\ t.entries[j].candidate => s.entries[j].candidate
                            /\ t.entries[j].residency = "loading" => s.entries[j].residency = "loading"
                            /\ Ended(t.entries[j]) => Ended(s.entries[j])
    PROVE  SettledFrom(s, t)
  BY DEF Goes, Follows, SettledFrom, SettledAt

(* A load that failed is no candidate, and forgotten if unwanted.          *)
LEMMA SettleFailed ==
    ASSUME NEW s, Sound(s), NEW i \in Slots, s.entries[i].used
    PROVE  LET settled == [s EXCEPT !.entries[i].candidate = FALSE]
           IN  /\ SettledFrom(s, settled) /\ ~settled.entries[i].candidate
               /\ s.entries[i].interest = 0 => /\ SettledFrom(s, Retire(settled, i))
                                               /\ ~Retire(settled, i).entries[i].candidate
  <1> DEFINE settled == [s EXCEPT !.entries[i].candidate = FALSE]
             d == s.entries[i]
             e == [d EXCEPT !.candidate = FALSE]
  <1>1. d \in EntrySet /\ d.generation \in Nat
    BY EntryTyped
  <1>2. /\ Goes(s, settled) /\ settled.entries[i] = e
        /\ \A j \in Slots \ {i} : settled.entries[j] = s.entries[j]
    BY SMTT(30), FreedGoes
  <1> HIDE DEF settled
  <1>3. /\ ~e.candidate /\ e.used = d.used /\ e.residency = d.residency /\ e.work = d.work
        /\ e.interest = d.interest
    <2> HIDE DEF d
    <2> QED BY <1>1 DEF EntrySet
  <1> HIDE DEF e
  <1>4. SettledFrom(s, settled)
    BY <1>2, <1>3, SettledGoes DEF Ended
  <1>5. ASSUME d.interest = 0
        PROVE  SettledFrom(s, Retire(settled, i)) /\ ~Retire(settled, i).entries[i].candidate
    <2> DEFINE t == Retire(settled, i)
    <2>1. Sound(settled) /\ settled.entries[i].interest = 0
      BY <1>2, <1>3, <1>5 DEF Goes
    <2>2. /\ Goes(settled, t) /\ t.entries[i] = Free(settled.entries[i].generation + 1,
                                                     settled.entries[i].interest)
          /\ \A j \in Slots \ {i} : t.entries[j] = settled.entries[j]
      BY <2>1, RetireGoes, RetireSound
    <2>3. ~t.entries[i].used /\ ~t.entries[i].candidate /\ t.entries[i].residency = "absent"
      <3> HIDE DEF t
      <3> QED BY <2>2 DEF Free
    <2> HIDE DEF t
    <2>4. Goes(s, t)
      BY <1>2, <2>2, GoesOn
    <2>5. SettledFrom(s, t)
      BY <1>2, <2>2, <2>3, <2>4, SettledGoes DEF Ended
    <2> QED BY <2>3, <2>5 DEF t
  <1> QED BY <1>2, <1>3, <1>4, <1>5 DEF settled, d

(* A live form left: kept while consumers share it, or its slot free       *)
Left(live) ==
    IF live.residency \in {"resident", "evictable"}
    THEN [live EXCEPT !.interest = 0, !.generation = live.generation + 1, !.residency = "retiring"]
    ELSE Free(live.generation + 1, 0)

TakenOver(s, i, old) ==
    [entries |-> [[s.entries EXCEPT ![i] = Whole(s.entries[i], s.entries[i].interest
                                                               + s.entries[old].interest)]
                    EXCEPT ![old] = Left(s.entries[old])],
     requesters |-> Redirected(s, i, old),
     residentBytes |-> s.residentBytes, reconciled |-> s.reconciled]

(* What is left of a replaced form is an entry of its type,                *)
LEMMA LeftTyped ==
    ASSUME NEW live \in EntrySet, Shape(live), live.used, ~live.candidate, live.residency # "retiring"
    PROVE  LET e == Left(live)
           IN  /\ e \in EntrySet /\ Shape(e) /\ FormBytes(e) = FormBytes(live) /\ Plain(live, e)
               /\ ~e.candidate /\ ~Ended(e) /\ e.interest = 0 /\ e.generation = live.generation + 1
               /\ e.residency # "loading"
               /\ e.used => e.id = live.id /\ e.revision = live.revision
  <1> DEFINE e == Left(live)
  <1>1. live.generation \in Nat /\ live.generation + 1 \in Nat
    BY DEF EntrySet
  <1>2. CASE live.residency \in {"resident", "evictable"}
    <2>1. e = [live EXCEPT !.interest = 0, !.generation = live.generation + 1,
                           !.residency = "retiring"]
      BY <1>2 DEF Left
    <2> HIDE DEF e
    <2>2. "retiring" \in Residency
      BY DEF Residency
    <2>3. /\ e \in EntrySet /\ e.interest = 0 /\ e.generation = live.generation + 1
          /\ e.residency = "retiring" /\ e.candidate = live.candidate /\ e.used = live.used
          /\ e.id = live.id /\ e.revision = live.revision
      BY <1>1, <2>1, <2>2 DEF EntrySet
    <2>4. Shape(e) /\ ~Ended(e) /\ Plain(live, e)
      BY <1>1, <2>3 DEF Shape, Ended, Plain
    <2>5. FormBytes(e) = FormBytes(live)
      BY <1>2, <2>3 DEF FormBytes, Charged
    <2>6. ~e.candidate
      BY <2>3
    <2> QED BY <2>3, <2>4, <2>5, <2>6 DEF e
  <1>3. CASE live.residency \notin {"resident", "evictable"}
    <2>1. e = Free(live.generation + 1, 0)
      BY <1>3 DEF Left
    <2>2. e \in EntrySet /\ Shape(e) /\ FormBytes(e) = 0
      BY <1>1, <2>1, FreeTyped
    <2> HIDE DEF e
    <2>3. /\ e.interest = 0 /\ e.generation = live.generation + 1 /\ ~e.used /\ ~e.candidate
          /\ e.residency = "absent"
      BY <2>1 DEF Free
    <2>4. FormBytes(live) = 0
      BY <1>3 DEF FormBytes, Charged
    <2>5. ~Ended(e) /\ Plain(live, e)
      BY <1>1, <2>3 DEF Ended, Plain
    <2> QED BY <2>2, <2>3, <2>4, <2>5 DEF e
  <1> QED BY <1>2, <1>3

(* and so are the requesters it had.                                       *)
LEMMA RedirectedTyped ==
    ASSUME NEW s, Sound(s), NEW i \in Slots, NEW old \in Slots, NEW r \in Requesters
    PROVE  LET q == Redirected(s, i, old)[r]
               m == s.requesters[r]
           IN  /\ q \in RequesterSet
               /\ q.used = m.used /\ q.interested = m.interested /\ q.failed = m.failed
               /\ m.used /\ m.entry = old /\ m.entryGeneration = s.entries[old].generation
                    => q.entry = i /\ q.entryGeneration = s.entries[i].generation
               /\ ~(m.used /\ m.entry = old /\ m.entryGeneration = s.entries[old].generation)
                    => q = m
  <1> DEFINE m == s.requesters[r]
             q == Redirected(s, i, old)[r]
  <1>1. m \in RequesterSet /\ s.entries[i].generation \in Nat
    BY EntryTyped DEF Sound, SetType
  <1>2. CASE m.used /\ m.entry = old /\ m.entryGeneration = s.entries[old].generation
    <2>1. q = [m EXCEPT !.entry = i, !.entryGeneration = s.entries[i].generation]
      BY <1>2 DEF Redirected
    <2> HIDE DEF q, m
    <2>2. /\ q \in RequesterSet /\ q.used = m.used /\ q.interested = m.interested
          /\ q.failed = m.failed /\ q.entry = i /\ q.entryGeneration = s.entries[i].generation
      BY <1>1, <2>1 DEF RequesterSet
    <2> QED BY <1>2, <2>2 DEF q, m
  <1>3. CASE ~(m.used /\ m.entry = old /\ m.entryGeneration = s.entries[old].generation)
    <2>1. q = m
      BY <1>3 DEF Redirected
    <2> QED BY <1>1, <1>3, <2>1
  <1> QED BY <1>2, <1>3

(* Everyone interested in the old form is interested in the new one.       *)
LEMMA TakenOverSettles ==
    ASSUME NEW s, Sound(s), NEW i \in Slots, NEW old \in Slots, old # i,
           s.entries[i].used, s.entries[i].candidate, ~s.entries[i].failed,
           s.entries[i].residency # "loading", LiveFor(s.entries[old], s.entries[i])
    PROVE  /\ SettledFrom(s, TakenOver(s, i, old))
           /\ ~TakenOver(s, i, old).entries[i].candidate
  <1> DEFINE d == s.entries[i]
             live == s.entries[old]
             n == d.interest + live.interest
             whole == Whole(d, n)
             left == Left(live)
             u == Put(s, i, whole)
             v == Put(u, old, left)
             t == TakenOver(s, i, old)
  <1>1. /\ d \in EntrySet /\ Shape(d) /\ d.generation \in Nat /\ d.interest \in Nat
        /\ live \in EntrySet /\ Shape(live) /\ live.generation \in Nat /\ live.interest \in Nat
    BY EntryTyped
  <1>2. /\ live.used /\ live.id = d.id /\ live.revision # d.revision /\ ~live.candidate
        /\ live.residency # "retiring"
    BY DEF LiveFor
  <1>3. n \in Nat
    <2> HIDE DEF d, live
    <2> QED BY <1>1
  <1>4. /\ whole \in EntrySet /\ Shape(whole) /\ FormBytes(whole) = FormBytes(d) /\ Plain(d, whole)
        /\ whole.used /\ ~whole.candidate /\ whole.interest = n
        /\ whole.generation = d.generation /\ whole.id = d.id /\ whole.revision = d.revision
        /\ whole.residency = (IF n = 0 THEN "evictable" ELSE "resident") /\ ~Ended(whole)
    <2> HIDE DEF n
    <2> QED BY <1>1, <1>3, WholeTyped
  <1>5. /\ left \in EntrySet /\ Shape(left) /\ FormBytes(left) = FormBytes(live) /\ Plain(live, left)
        /\ ~left.candidate /\ ~Ended(left) /\ left.interest = 0
        /\ left.generation = live.generation + 1 /\ left.residency # "loading"
        /\ left.used => left.id = live.id /\ left.revision = live.revision
    BY <1>1, <1>2, LeftTyped
  <1>6. FormBytes(d) \in Nat /\ FormBytes(live) \in Nat
    BY <1>1, FormTyped
  <1>7. s.residentBytes \in Int /\ s.residentBytes <= BudgetBytes /\ BudgetBytes \in Nat
    BY AssetNaturals DEF Sound, SetType, Within
  <1> HIDE DEF n, whole, left
  <1>8. /\ Sound(u) /\ u.entries[i] = whole /\ \A j \in Slots \ {i} : u.entries[j] = s.entries[j]
        /\ u.residentBytes = s.residentBytes /\ u.entries = [s.entries EXCEPT ![i] = whole]
        /\ u.requesters = s.requesters /\ u.reconciled = s.reconciled
    <2>1. s.residentBytes - FormBytes(d) + FormBytes(whole) = s.residentBytes
      BY <1>4, <1>6, <1>7
    <2>2. s.residentBytes - FormBytes(d) + FormBytes(whole) <= BudgetBytes
      BY <1>7, <2>1
    <2>3. Sound(u)
      BY <1>4, <2>2, PutSound
    <2> QED BY <1>4, <2>1, <2>3, PutFields DEF Put
  <1>9. /\ Sound(v) /\ v.entries[old] = left /\ \A j \in Slots \ {old} : v.entries[j] = u.entries[j]
        /\ v.entries = [u.entries EXCEPT ![old] = left]
        /\ v.residentBytes = s.residentBytes
        /\ v.requesters = s.requesters /\ v.reconciled = s.reconciled
    <2> HIDE DEF u
    <2>1. u.entries[old] = live
      BY <1>8
    <2>2. u.residentBytes - FormBytes(u.entries[old]) + FormBytes(left) = u.residentBytes
      BY <1>5, <1>6, <1>7, <1>8, <2>1
    <2>3. u.residentBytes - FormBytes(u.entries[old]) + FormBytes(left) <= BudgetBytes
      BY <1>7, <1>8, <2>2
    <2>4. Plain(u.entries[old], left)
      BY <1>5, <2>1
    <2>5. Sound(v)
      BY <1>5, <1>8, <2>3, <2>4, PutSound
    <2>6. /\ v.entries[old] = left /\ \A j \in Slots \ {old} : v.entries[j] = u.entries[j]
          /\ v.requesters = u.requesters /\ v.reconciled = u.reconciled
          /\ v.residentBytes = u.residentBytes - FormBytes(u.entries[old]) + FormBytes(left)
      <3>1. Sound(u) /\ left \in EntrySet /\ Shape(left) /\ old \in Slots
        BY <1>5, <1>8
      <3> QED BY <3>1, PutFields
    <2>7. v.entries = [u.entries EXCEPT ![old] = left]
      BY DEF Put
    <2> HIDE DEF v
    <2> QED BY <1>8, <2>2, <2>5, <2>6, <2>7
  <1>10. /\ t.entries = v.entries /\ t.requesters = Redirected(s, i, old)
         /\ t.residentBytes = v.residentBytes /\ t.reconciled = v.reconciled
         /\ t = [entries |-> v.entries, requesters |-> Redirected(s, i, old),
                 residentBytes |-> v.residentBytes, reconciled |-> v.reconciled]
    <2> HIDE DEF u, v
    <2> QED BY <1>8, <1>9 DEF TakenOver, n, whole, left
  <1>11. /\ t.entries[i] = whole /\ t.entries[old] = left
         /\ \A j \in Slots \ {i, old} : t.entries[j] = s.entries[j]
    BY <1>8, <1>9, <1>10
  <1> HIDE DEF t, u, v
  <1>12. Redirected(s, i, old) \in [Requesters -> RequesterSet]
    <2>1. \A r \in Requesters : Redirected(s, i, old)[r] \in RequesterSet
      BY RedirectedTyped
    <2> QED BY <2>1 DEF Redirected
  <1>13. \A r \in Requesters : s.requesters[r].used => s.requesters[r].entry \in Slots
    BY DEF Sound
  <1>14. Sound(t)
    <2>1. t \in SetType
      <3>1. v.entries \in [Slots -> EntrySet] /\ v.residentBytes \in Int /\ v.reconciled \in Nat
        BY <1>9 DEF Sound, SetType
      <3> QED BY <1>10, <1>12, <3>1 DEF SetType
    <2>2. \A r \in Requesters : t.requesters[r].used => t.requesters[r].entry \in Slots
      <3> SUFFICES ASSUME NEW r \in Requesters, t.requesters[r].used
                   PROVE  t.requesters[r].entry \in Slots
        OBVIOUS
      <3> QED BY <1>10, <1>13, RedirectedTyped
    <2>3. Within(t)
      BY <1>9, <1>10 DEF Sound, Within
    <2> QED BY <1>9, <1>10, <2>1, <2>2, <2>3 DEF Sound
  <1> DEFINE moved(r) == /\ s.requesters[r].used /\ s.requesters[r].entry = old
                         /\ s.requesters[r].entryGeneration = live.generation
  <1>15. \A r \in Requesters :
           /\ t.requesters[r].used = s.requesters[r].used
           /\ t.requesters[r].interested = s.requesters[r].interested
           /\ t.requesters[r].failed = s.requesters[r].failed
           /\ moved(r) => t.requesters[r].entry = i /\ t.requesters[r].entryGeneration = d.generation
           /\ ~moved(r) => t.requesters[r] = s.requesters[r]
    BY <1>10, RedirectedTyped
  <1>16. ASSUME Wanted(s) PROVE Wanted(t)
    <2>1. ASSUME NEW r \in Requesters PROVE ServedAt(t, r)
      <3> SUFFICES ASSUME t.requesters[r].used PROVE ServedAt(t, r)
        BY DEF ServedAt
      <3>1. ServedAt(s, r) /\ s.requesters[r].used /\ s.requesters[r].entry \in Slots
        BY <1>13, <1>15, <1>16 DEF Wanted
      <3>2. CASE moved(r)
        BY <1>4, <1>11, <1>15, <3>1, <3>2 DEF ServedAt
      <3>3. CASE ~moved(r)
        <4>1. t.requesters[r] = s.requesters[r]
          BY <1>15, <3>3
        <4>2. s.requesters[r].interested => s.requesters[r].entry # old
          BY <3>1, <3>3 DEF ServedAt
        <4>3. CASE s.requesters[r].entry = i
          BY <1>4, <1>11, <3>1, <4>1, <4>3 DEF ServedAt
        <4>4. CASE s.requesters[r].entry \notin {i, old}
          BY <1>11, <3>1, <4>1, <4>4 DEF ServedAt
        <4>5. CASE s.requesters[r].entry = old
          BY <3>1, <4>1, <4>2, <4>5 DEF ServedAt
        <4> QED BY <4>3, <4>4, <4>5
      <3> QED BY <3>2, <3>3
    <2>2. WantedAt(t, i)
      <3>1. PointingIn(t, i) = PointingIn(s, i) \cup PointingIn(s, old)
        <4>1. ASSUME NEW r \in Requesters
              PROVE  r \in PointingIn(t, i) <=> r \in PointingIn(s, i) \/ r \in PointingIn(s, old)
          <5>1. CASE moved(r)
            BY <1>4, <1>11, <1>15, <5>1 DEF PointingIn
          <5>2. CASE ~moved(r)
            <6>1. t.requesters[r] = s.requesters[r] /\ r \notin PointingIn(s, old)
              BY <1>15, <5>2 DEF PointingIn
            <6> QED BY <1>4, <1>11, <6>1 DEF PointingIn
          <5> QED BY <5>1, <5>2
        <4> QED BY <4>1 DEF PointingIn
      <3>2. PointingIn(s, i) \cap PointingIn(s, old) = {}
        BY DEF PointingIn
      <3>3. IsFiniteSet(PointingIn(s, i)) /\ IsFiniteSet(PointingIn(s, old))
        BY AssetNaturals, FS_Subset DEF PointingIn
      <3>4. Cardinality(PointingIn(s, i)) = d.interest /\ Cardinality(PointingIn(s, old)) = live.interest
        BY <1>16 DEF Wanted, WantedAt
      <3>5. Cardinality({}) = 0
        BY FS_EmptySet
      <3>6. Cardinality(PointingIn(t, i)) = d.interest + live.interest - 0
        BY <3>1, <3>2, <3>3, <3>4, <3>5, FS_Union
      <3>7. Cardinality(PointingIn(t, i)) = n
        BY <1>1, <3>6 DEF n
      <3> QED BY <1>4, <1>11, <3>7 DEF WantedAt
    <2>3. WantedAt(t, old)
      <3>1. \A r \in Requesters : r \notin PointingIn(t, old)
        <4> SUFFICES ASSUME NEW r \in Requesters, r \in PointingIn(t, old) PROVE FALSE
          OBVIOUS
        <4>1. ~moved(r)
          BY <1>15 DEF PointingIn
        <4>2. /\ s.requesters[r].used /\ s.requesters[r].interested /\ s.requesters[r].entry = old
              /\ s.requesters[r].entryGeneration = live.generation + 1
          BY <1>5, <1>11, <1>15, <4>1 DEF PointingIn
        <4>3. s.requesters[r].entryGeneration = live.generation
          BY <1>16, <4>2 DEF Wanted, ServedAt
        <4> QED BY <1>1, <4>2, <4>3
      <3>2. Cardinality(PointingIn(t, old)) = 0
        <4>1. PointingIn(t, old) = {}
          BY <3>1 DEF PointingIn
        <4> QED BY <4>1, FS_EmptySet
      <3> QED BY <1>5, <1>11, <3>2 DEF WantedAt
    <2>4. ASSUME NEW j \in Slots \ {i, old} PROVE WantedAt(t, j)
      <3>1. \A r \in Requesters : r \in PointingIn(t, j) <=> r \in PointingIn(s, j)
        <4> SUFFICES ASSUME NEW r \in Requesters
                     PROVE  r \in PointingIn(t, j) <=> r \in PointingIn(s, j)
          OBVIOUS
        <4>1. CASE moved(r)
          BY <1>15, <4>1 DEF PointingIn
        <4>2. CASE ~moved(r)
          <5>1. t.requesters[r] = s.requesters[r] /\ t.entries[j] = s.entries[j]
            BY <1>11, <1>15, <4>2
          <5> QED BY <5>1 DEF PointingIn
        <4> QED BY <4>1, <4>2
      <3>2. PointingIn(t, j) = PointingIn(s, j)
        BY <3>1 DEF PointingIn
      <3>3. WantedAt(s, j) /\ t.entries[j] = s.entries[j]
        BY <1>11, <1>16 DEF Wanted
      <3> QED BY <3>2, <3>3 DEF WantedAt
    <2> QED BY <2>1, <2>2, <2>3, <2>4 DEF Wanted
  <1>17. ASSUME NEW j \in Slots PROVE SettledAt(s.entries[j], t.entries[j])
    <2>1. CASE j = i
      <3>1. Uses(d, whole)
        BY <1>1, <1>4 DEF Uses
      <3> QED BY <1>4, <1>11, <2>1, <3>1 DEF SettledAt
    <2>2. CASE j = old
      <3>1. Uses(live, left)
        BY <1>1, <1>5 DEF Uses
      <3> QED BY <1>5, <1>11, <2>2, <3>1 DEF SettledAt
    <2>3. CASE j \notin {i, old}
      <3>1. t.entries[j] = s.entries[j] /\ s.entries[j].generation \in Nat
        BY <1>11, <2>3, EntryTyped
      <3> QED BY <3>1 DEF SettledAt, Uses
    <2> QED BY <2>1, <2>2, <2>3
  <1>18. ASSUME Current(s) PROVE Current(t)
    <2> SUFFICES ASSUME NEW j \in Slots, t.entries[j].candidate
                 PROVE  t.entries[j].revision = catalog[t.entries[j].id]
      BY DEF Current
    <2>1. j \notin {i, old}
      BY <1>4, <1>5, <1>11
    <2> QED BY <1>11, <1>18, <2>1 DEF Current
  <1>19. ASSUME Current(s), Outdated(s) PROVE Outdated(t)
    <2> SUFFICES ASSUME NEW j \in Slots, t.entries[j].used
                 PROVE  t.entries[j].residency = "retiring"
                          => t.entries[j].revision # catalog[t.entries[j].id]
      BY <1>19 DEF Outdated, OutdatedAt
    <2>1. d.revision = catalog[d.id]
      BY <1>2, <1>19 DEF Current, Outdated, OutdatedAt
    <2>2. CASE j = i
      BY <1>4, <1>11, <2>1, <2>2
    <2>3. CASE j = old
      BY <1>2, <1>5, <1>11, <2>1, <2>3
    <2>4. CASE j \notin {i, old}
      BY <1>11, <1>19, <2>4 DEF Outdated, OutdatedAt
    <2> QED BY <2>2, <2>3, <2>4
  <1>20. t.reconciled = s.reconciled
    BY <1>9, <1>10
  <1> QED BY <1>4, <1>11, <1>14, <1>16, <1>17, <1>18, <1>19, <1>20 DEF SettledFrom, t

(* A set's parts                                                           *)
Parts(entries, requesters, residentBytes, reconciled) ==
    [entries |-> entries, requesters |-> requesters, residentBytes |-> residentBytes,
     reconciled |-> reconciled]

(* A set's part, replaced.                                                 *)
LEMMA PartsWith ==
    ASSUME NEW E, NEW Q, NEW b, NEW c
    PROVE  /\ Parts(E, Q, b, c).entries = E /\ Parts(E, Q, b, c).requesters = Q
           /\ Parts(E, Q, b, c).residentBytes = b /\ Parts(E, Q, b, c).reconciled = c
           /\ \A x : /\ [Parts(E, Q, b, c) EXCEPT !.entries = x] = Parts(x, Q, b, c)
                     /\ [Parts(E, Q, b, c) EXCEPT !.requesters = x] = Parts(E, x, b, c)
                     /\ [Parts(E, Q, b, c) EXCEPT !.residentBytes = x] = Parts(E, Q, x, c)
  BY DEF Parts

(* An entry's fields, replaced one at a time.                              *)
LEMMA EntryWith ==
    ASSUME NEW d \in EntrySet, NEW n \in Nat
    PROVE  LET p == [d EXCEPT !.candidate = FALSE]
               q == [p EXCEPT !.interest = d.interest + n]
               m == d.interest + n
           IN  /\ p.interest = d.interest /\ p.generation = d.generation /\ p.replaces = d.replaces
               /\ q.interest = m
               /\ [q EXCEPT !.residency = IF m = 0 THEN "evictable" ELSE "resident"] = Whole(d, m)
               /\ [p EXCEPT !.residency = IF d.interest = 0 THEN "evictable" ELSE "resident"]
                    = Whole(d, d.interest)
  <1> DEFINE m == d.interest + n
             p == [d EXCEPT !.candidate = FALSE]
             q == [p EXCEPT !.interest = m]
  <1>1. p \in EntrySet /\ d.interest \in Nat
    BY DEF EntrySet
  <1>2. p.interest = d.interest /\ p.generation = d.generation /\ p.replaces = d.replaces
    BY DEF EntrySet
  <1>3. m \in Nat
    BY <1>1
  <1> HIDE DEF m
  <1>4. q.interest = m
    BY <1>1, <1>3 DEF EntrySet
  <1>5. \A x : [q EXCEPT !.residency = x]
                 = [d EXCEPT !.candidate = FALSE, !.interest = m, !.residency = x]
    OBVIOUS
  <1>6. \A x : [p EXCEPT !.residency = x]
                 = [d EXCEPT !.candidate = FALSE, !.interest = d.interest, !.residency = x]
    BY DEF EntrySet
  <1>7. [q EXCEPT !.residency = IF m = 0 THEN "evictable" ELSE "resident"] = Whole(d, m)
    BY <1>5 DEF Whole
  <1>8. [p EXCEPT !.residency = IF d.interest = 0 THEN "evictable" ELSE "resident"]
          = Whole(d, d.interest)
    <2> HIDE DEF p
    <2> QED BY <1>6 DEF Whole
  <1> QED BY <1>2, <1>4, <1>7, <1>8 DEF m

(* A candidate that replaces nothing any longer                            *)
LEMMA SettleAlone ==
    ASSUME NEW s, Sound(s), NEW i \in Slots,
           s.entries[i].used, s.entries[i].candidate, ~s.entries[i].failed,
           ~(/\ s.entries[s.entries[i].replaces].used
             /\ s.entries[s.entries[i].replaces].generation = s.entries[i].replacesGeneration)
    PROVE  Settle(s, i) = [s EXCEPT !.entries[i] = Whole(s.entries[i], s.entries[i].interest)]
  <1> DEFINE d == s.entries[i]
             p == [d EXCEPT !.candidate = FALSE]
             settled == [s EXCEPT !.entries[i].candidate = FALSE]
             to == IF d.interest = 0 THEN "evictable" ELSE "resident"
  <1>1. d \in EntrySet
    BY EntryTyped
  <1>2. settled.entries[i] = p /\ settled = [s EXCEPT !.entries[i] = p]
    BY DEF Sound, SetType
  <1>3. Settle(s, i) = [settled EXCEPT !.entries[i].residency =
                          IF settled.entries[i].interest = 0 THEN "evictable" ELSE "resident"]
    BY DEF Settle
  <1>4. p.interest = d.interest
    BY <1>1, EntryWith
  <1>5. Settle(s, i) = [settled EXCEPT !.entries[i].residency = to]
    <2> HIDE DEF p, d, settled
    <2> QED BY <1>2, <1>3, <1>4
  <1> HIDE DEF to
  <1>6. [settled EXCEPT !.entries[i].residency = to] = [s EXCEPT !.entries[i] = [p EXCEPT !.residency = to]]
    <2> HIDE DEF p, d
    <2>1. s \in [entries : [Slots -> EntrySet], requesters : [Requesters -> RequesterSet],
                 residentBytes : Int, reconciled : Nat]
      BY DEF Sound, SetType
    <2> QED BY <1>2, <2>1
  <1>7. [p EXCEPT !.residency = to] = Whole(d, d.interest)
    <2>1. d.interest + 0 = d.interest /\ 0 \in Nat
      BY <1>1 DEF EntrySet
    <2> QED BY <1>1, <2>1, EntryWith DEF to
  <1> QED BY <1>5, <1>6, <1>7

(* The two steps of a form's replacement: its requesters are another's,    *)
(* and it retires.                                                         *)
Yielded(s, i, old) ==
    [s EXCEPT !.requesters = Redirected(s, i, old),
              !.entries[i].interest = @ + s.entries[old].interest,
              !.entries[old].interest = 0]
Retiring(s, old) ==
    [s EXCEPT !.entries[old].generation = @ + 1, !.entries[old].residency = "retiring"]

(* Replace, in steps: the requesters and their interest go to the          *)
(* candidate,                                                              *)
LEMMA ReplaceIs ==
    ASSUME NEW s, NEW i
    PROVE  LET old == s.entries[i].replaces
           IN  Replace(s, i) = IF s.entries[old].residency \in {"resident", "evictable"}
                               THEN Retiring(Yielded(s, i, old), old)
                               ELSE Retire(Yielded(s, i, old), old)
  BY DEF Replace, Yielded, Retiring

(* The same, of entries and of one entry                                   *)
With(entries, i, e) == [entries EXCEPT ![i] = e]
YieldedIn(entries, i, old) ==
    [entries EXCEPT ![i] = [entries[i] EXCEPT !.interest = entries[i].interest + entries[old].interest],
                    ![old] = [entries[old] EXCEPT !.interest = 0]]
RetiringIn(e) == [e EXCEPT !.generation = e.generation + 1, !.residency = "retiring"]
ResidingIn(e, residency) == [e EXCEPT !.residency = residency]
Residing(s, i, residency) == [s EXCEPT !.entries[i].residency = residency]

(* the old entry is left without any,                                      *)
LEMMA YieldedIs ==
    ASSUME NEW E \in [Slots -> EntrySet], NEW Q, NEW b, NEW c, NEW i \in Slots, NEW old \in Slots,
           i # old, NEW s, s = Parts(E, Q, b, c)
    PROVE  Yielded(s, i, old) = Parts(YieldedIn(E, i, old), Redirected(s, i, old), b, c)
  <1> DEFINE R == Redirected(s, i, old)
             x == E[i].interest + E[old].interest
             E1 == [E EXCEPT ![i] = [E[i] EXCEPT !.interest = x]]
             E2 == [E1 EXCEPT ![old] = [E[old] EXCEPT !.interest = 0]]
             s1 == [s EXCEPT !.requesters = R]
             s2 == [s1 EXCEPT !.entries = E1]
             s3 == [s2 EXCEPT !.entries = E2]
  <1>1. s.entries = E /\ s.requesters = Q
    BY PartsWith
  <1>2. s1 = Parts(E, R, b, c)
    <2> HIDE DEF R
    <2> QED BY PartsWith
  <1>3. s2 = Parts(E1, R, b, c)
    <2> HIDE DEF s1, R, E1
    <2> QED BY <1>2, PartsWith
  <1>4. s3 = Parts(E2, R, b, c)
    <2> HIDE DEF s2, R, E2, E1
    <2> QED BY <1>3, PartsWith
  <1>5. s1.entries = E /\ s2.entries = E1 /\ E1[old] = E[old]
    <2> HIDE DEF s1, R, s2
    <2> QED BY <1>2, <1>3, PartsWith
  <1> DEFINE s2x == [s1 EXCEPT !.entries[i].interest = s.entries[i].interest + s.entries[old].interest]
             s3x == [s2 EXCEPT !.entries[old].interest = 0]
  <1>6. s2x = s2
    <2> HIDE DEF s1
    <2> QED BY <1>1, <1>5
  <1>7. s3x = s3
    <2> HIDE DEF s2, E1
    <2> QED BY <1>5
  <1>8. Yielded(s, i, old) = [s2x EXCEPT !.entries[old].interest = 0]
    BY DEF Yielded
  <1>9. Yielded(s, i, old) = s3
    <2> HIDE DEF s2x, s2, s3
    <2> QED BY <1>6, <1>7, <1>8 DEF s3x
  <1>10. E2 = YieldedIn(E, i, old)
    BY DEF YieldedIn
  <1> QED
    <2> HIDE DEF s3, R, E2
    <2> QED BY <1>4, <1>9, <1>10 DEF R

(* retires in its slot,                                                    *)
LEMMA RetiringIs ==
    ASSUME NEW E \in [Slots -> EntrySet], NEW Q, NEW b, NEW c, NEW old \in Slots,
           NEW s, s = Parts(E, Q, b, c)
    PROVE  /\ Retiring(s, old) = Parts(With(E, old, RetiringIn(E[old])), Q, b, c)
           /\ Retire(s, old) = Parts(With(E, old, Free(E[old].generation + 1, E[old].interest)),
                                     Q, b - FormBytes(E[old]), c)
  <1>1. s.entries = E /\ s.residentBytes = b
    BY PartsWith
  <1> DEFINE k == E[old].generation + 1
             g == [E[old] EXCEPT !.generation = k]
             E1 == [E EXCEPT ![old] = g]
             E2 == [E1 EXCEPT ![old] = [g EXCEPT !.residency = "retiring"]]
             s1 == [s EXCEPT !.entries[old].generation = k]
             s2 == [s1 EXCEPT !.entries[old].residency = "retiring"]
  <1>2. s1 = Parts(E1, Q, b, c)
    <2>1. s1 = [s EXCEPT !.entries = E1]
      <3> HIDE DEF k
      <3> QED BY <1>1
    <2> HIDE DEF s1, E1
    <2> QED BY <2>1, PartsWith
  <1>3. s2 = Parts(E2, Q, b, c)
    <2>1. E1[old] = g
      OBVIOUS
    <2> HIDE DEF s1, E1, g
    <2>2. s1.entries = E1
      BY <1>2, PartsWith
    <2>3. s2 = [s1 EXCEPT !.entries = E2]
      BY <2>1, <2>2
    <2> HIDE DEF s2, E2
    <2> QED BY <1>2, <2>3, PartsWith
  <1>4. Retiring(s, old) = s2
    <2>1. Retiring(s, old) = [s EXCEPT !.entries[old].generation = s.entries[old].generation + 1,
                                       !.entries[old].residency = "retiring"]
      BY DEF Retiring
    <2>2. k = s.entries[old].generation + 1
      BY <1>1
    <2> HIDE DEF k
    <2> QED BY <2>1, <2>2
  <1>5. E2 = With(E, old, RetiringIn(E[old]))
    <2> HIDE DEF k
    <2>1. E2 = [E EXCEPT ![old] = [E[old] EXCEPT !.generation = k, !.residency = "retiring"]]
      OBVIOUS
    <2> QED BY <2>1 DEF k, With, RetiringIn
  <1>6. Retire(s, old) = Parts(With(E, old, Free(E[old].generation + 1, E[old].interest)),
                               Q, b - FormBytes(E[old]), c)
    <2> DEFINE F == [E EXCEPT ![old] = Free(E[old].generation + 1, E[old].interest)]
               left == b - FormBytes(E[old])
               t1 == [s EXCEPT !.entries = F]
    <2>1. t1 = Parts(F, Q, b, c)
      <3> HIDE DEF F
      <3> QED BY PartsWith
    <2>2. Retire(s, old) = [t1 EXCEPT !.residentBytes = left]
      <3>1. t1 = [s EXCEPT !.entries[old] = Free(s.entries[old].generation + 1, s.entries[old].interest)]
        BY <1>1
      <3>2. t1.residentBytes = b
        <4> HIDE DEF t1, F
        <4> QED BY <2>1, PartsWith
      <3>3. Retire(s, old)
              = [[s EXCEPT !.entries[old] = Free(s.entries[old].generation + 1, s.entries[old].interest)]
                   EXCEPT !.residentBytes = s.residentBytes - FormBytes(s.entries[old])]
        BY DEF Retire
      <3> HIDE DEF t1, F
      <3> QED BY <1>1, <3>1, <3>3
    <2> HIDE DEF t1, F, left
    <2>3. Retire(s, old) = Parts(F, Q, left, c)
      BY <2>1, <2>2, PartsWith
    <2> QED BY <2>3 DEF F, left, With
  <1> HIDE DEF s1, s2, E1, E2
  <1>8. Retiring(s, old) = Parts(E2, Q, b, c)
    BY <1>3, <1>4
  <1> QED BY <1>5, <1>6, <1>8

(* and the candidate is held.                                              *)
LEMMA ResidingIs ==
    ASSUME NEW E, NEW Q, NEW b, NEW c, E \in [Slots -> EntrySet], NEW old \in Slots,
           NEW s, s = Parts(E, Q, b, c), NEW x
    PROVE  Residing(s, old, x) = Parts(With(E, old, ResidingIn(E[old], x)), Q, b, c)
  <1> DEFINE F == [E EXCEPT ![old] = [E[old] EXCEPT !.residency = x]]
  <1>1. s.entries = E
    BY PartsWith
  <1>2. [s EXCEPT !.entries[old].residency = x] = [s EXCEPT !.entries = F]
    BY <1>1
  <1>3. [s EXCEPT !.entries = F] = Parts(F, Q, b, c)
    <2> HIDE DEF F
    <2> QED BY PartsWith
  <1> QED BY <1>2, <1>3 DEF Residing, ResidingIn, With

(* Together they leave the old entry as Left says.                         *)
LEMMA LeftIs ==
    ASSUME NEW live \in EntrySet
    PROVE  LET l == [live EXCEPT !.interest = 0]
           IN  /\ l \in EntrySet /\ l.generation = live.generation /\ l.interest = 0
               /\ FormBytes(l) = FormBytes(live)
               /\ [l EXCEPT !.generation = l.generation + 1, !.residency = "retiring"]
                    = [live EXCEPT !.interest = 0, !.generation = live.generation + 1,
                                   !.residency = "retiring"]
  <1> DEFINE l == [live EXCEPT !.interest = 0]
  <1>1. /\ l \in EntrySet /\ l.generation = live.generation /\ l.interest = 0
        /\ l.residency = live.residency /\ l.id = live.id /\ l.revision = live.revision
    BY DEF EntrySet
  <1> DEFINE k == live.generation + 1
  <1>2. [l EXCEPT !.generation = k, !.residency = "retiring"]
          = [live EXCEPT !.interest = 0, !.generation = k, !.residency = "retiring"]
    <2> HIDE DEF k
    <2> QED OBVIOUS
  <1>3. [l EXCEPT !.generation = l.generation + 1, !.residency = "retiring"]
          = [live EXCEPT !.interest = 0, !.generation = live.generation + 1, !.residency = "retiring"]
    <2>1. l.generation + 1 = k
      BY <1>1
    <2>2. [l EXCEPT !.generation = l.generation + 1, !.residency = "retiring"]
            = [l EXCEPT !.generation = k, !.residency = "retiring"]
      <3> HIDE DEF l, k
      <3> QED BY <2>1
    <2> QED BY <1>2, <2>2
  <1> HIDE DEF l
  <1>4. FormBytes(l) = FormBytes(live)
    BY <1>1 DEF FormBytes, Charged
  <1> QED BY <1>1, <1>3, <1>4 DEF l

(* A candidate that takes over from its live entry                         *)
LEMMA SettleTakes ==
    ASSUME NEW s, Sound(s), NEW i \in Slots,
           s.entries[i].used, s.entries[i].candidate, ~s.entries[i].failed,
           NEW old \in Slots, old = s.entries[i].replaces, old # i,
           s.entries[old].used, s.entries[old].generation = s.entries[i].replacesGeneration,
           s.entries[old].residency # "retiring"
    PROVE  Settle(s, i) = TakenOver(s, i, old)
  <1> DEFINE E == s.entries
             Q == s.requesters
             b == s.residentBytes
             c == s.reconciled
             d == E[i]
             live == E[old]
             m == d.interest + live.interest
             p == [d EXCEPT !.candidate = FALSE]
             q == [p EXCEPT !.interest = m]
             l == [live EXCEPT !.interest = 0]
             R == Redirected(s, i, old)
             settled == [s EXCEPT !.entries[i].candidate = FALSE]
             E1 == [E EXCEPT ![i] = p]
             E3 == [E1 EXCEPT ![i] = q, ![old] = l]
             F == [E3 EXCEPT ![old] = Left(live)]
             taken == Replace(settled, i)
  <1>1. /\ d \in EntrySet /\ d.interest \in Nat /\ d.generation \in Nat
        /\ live \in EntrySet /\ live.interest \in Nat /\ live.generation \in Nat
    BY EntryTyped
  <1>2. s = Parts(E, Q, b, c) /\ E \in [Slots -> EntrySet] /\ b \in Int
    BY SetIs DEF Parts, Sound, SetType
  <1>3. /\ p.interest = d.interest /\ p.generation = d.generation /\ p.replaces = d.replaces
        /\ q.interest = m
        /\ [q EXCEPT !.residency = IF m = 0 THEN "evictable" ELSE "resident"] = Whole(d, m)
    BY <1>1, EntryWith
  <1>4. settled = Parts(E1, Q, b, c)
    <2>1. settled = [s EXCEPT !.entries = E1]
      OBVIOUS
    <2> HIDE DEF settled, E1, E, Q, b, c
    <2> QED BY <1>2, <2>1, PartsWith
  <1>5. E1[i] = p /\ E1[old] = live /\ E1 \in [Slots -> EntrySet]
    <2>1. p \in EntrySet
      BY <1>1 DEF EntrySet
    <2> HIDE DEF p, E
    <2> QED BY <1>2, <2>1
  <1>6. Settle(s, i) = [taken EXCEPT !.entries[i].residency =
                          IF taken.entries[i].interest = 0 THEN "evictable" ELSE "resident"]
    BY DEF Settle
  <1>7. settled.entries = E1 /\ settled.requesters = Q
    <2> HIDE DEF settled, E1, Q, b, c
    <2> QED BY <1>4, PartsWith
  <1> HIDE DEF settled, E1
  <1>8. settled.entries[i] = p /\ settled.entries[old] = live /\ p.replaces = old
    BY <1>3, <1>5, <1>7
  <1>9. Redirected(settled, i, old) = R
    <2> HIDE DEF p
    <2>1. \A r \in Requesters : Redirected(settled, i, old)[r] = R[r]
      BY ZenonT(40), <1>3, <1>7, <1>8 DEF Redirected
    <2> QED BY <2>1 DEF Redirected
  <1>10. taken = IF live.residency \in {"resident", "evictable"}
                 THEN Retiring(Yielded(settled, i, old), old)
                 ELSE Retire(Yielded(settled, i, old), old)
    <2> HIDE DEF p, live
    <2>1. settled.entries[i].replaces = old
      BY <1>8
    <2> QED BY <1>8, <2>1, ReplaceIs
  <1>11. Yielded(settled, i, old) = Parts(E3, R, b, c) /\ E3 \in [Slots -> EntrySet]
         /\ E3[old] = l /\ E3[i] = q
    <2>1. Yielded(settled, i, old) = Parts(YieldedIn(E1, i, old), Redirected(settled, i, old), b, c)
      <3> HIDE DEF b, c, Q
      <3> QED BY <1>4, <1>5, YieldedIs
    <2>2. E1[i].interest + E1[old].interest = m
      BY <1>3, <1>5
    <2>3. [E1[i] EXCEPT !.interest = E1[i].interest + E1[old].interest] = q
      BY <1>5, <2>2
    <2>4. [E1[old] EXCEPT !.interest = 0] = l
      BY <1>5
    <2>6. YieldedIn(E1, i, old) = E3
      <3> HIDE DEF q, l
      <3> QED BY <2>3, <2>4 DEF YieldedIn, E3
    <2>5. l \in EntrySet /\ q \in EntrySet
      <3>1. m \in Nat
        BY <1>1
      <3> HIDE DEF m, d, live
      <3>2. p \in EntrySet
        BY <1>1 DEF EntrySet
      <3> HIDE DEF p
      <3> QED BY <1>1, <3>1, <3>2 DEF EntrySet
    <2> HIDE DEF q, l, R, b, c
    <2>7. Yielded(settled, i, old) = Parts(E3, R, b, c)
      BY <1>9, <2>1, <2>6
    <2>8. E3 \in [Slots -> EntrySet] /\ E3[old] = l /\ E3[i] = q
      BY <1>5, <2>5 DEF E3
    <2> QED BY <2>7, <2>8
  <1> HIDE DEF E3
  <1>12. taken = Parts(F, R, b, c)
    <2>1. /\ l.generation = live.generation /\ l.interest = 0 /\ FormBytes(l) = FormBytes(live)
          /\ [l EXCEPT !.generation = l.generation + 1, !.residency = "retiring"]
               = [live EXCEPT !.interest = 0, !.generation = live.generation + 1,
                              !.residency = "retiring"]
      BY <1>1, LeftIs
    <2>2. CASE live.residency \in {"resident", "evictable"}
      <3>1. taken = Retiring(Yielded(settled, i, old), old)
        BY <1>10, <2>2
      <3>2. RetiringIn(E3[old]) = Left(live)
        <4>1. RetiringIn(E3[old]) = RetiringIn(l)
          BY <1>11
        <4> HIDE DEF live, l
        <4> QED BY <2>1, <2>2, <4>1 DEF Left, RetiringIn
      <3> HIDE DEF taken, R, b, c, live, l
      <3>3. taken = Parts(With(E3, old, RetiringIn(E3[old])), R, b, c)
        BY <1>11, <3>1, RetiringIs
      <3> QED BY <3>2, <3>3 DEF With
    <2>3. CASE live.residency \notin {"resident", "evictable"}
      <3>1. taken = Retire(Yielded(settled, i, old), old)
        BY <1>10, <2>3
      <3>2. Free(E3[old].generation + 1, E3[old].interest) = Left(live)
        <4> HIDE DEF live, l
        <4> QED BY <1>11, <2>1, <2>3 DEF Left
      <3>3. b - FormBytes(E3[old]) = b
        <4>1. FormBytes(live) = 0
          BY <2>3 DEF FormBytes, Charged
        <4> HIDE DEF live, l, b
        <4> QED BY <1>2, <1>11, <2>1, <4>1
      <3> HIDE DEF taken, R, b, c, live, l
      <3>4. taken = Parts(With(E3, old, Free(E3[old].generation + 1, E3[old].interest)), R,
                          b - FormBytes(E3[old]), c)
        BY <1>11, <3>1, RetiringIs
      <3> QED BY <3>2, <3>3, <3>4 DEF With
    <2> QED BY <2>2, <2>3
  <1>13. F \in [Slots -> EntrySet] /\ F[i] = q
    <2>1. live.used /\ ~live.candidate /\ Shape(live)
      <3>1. MatchedAt(E, d) /\ Shape(live)
        BY DEF Sound
      <3> QED BY <3>1 DEF MatchedAt, LiveFor
    <2>2. Left(live) \in EntrySet
      BY <1>1, <2>1, LeftTyped
    <2> HIDE DEF live, q
    <2> QED BY <1>11, <2>2
  <1> DEFINE x == IF m = 0 THEN "evictable" ELSE "resident"
  <1>14. Settle(s, i) = Residing(taken, i, x)
    <2>1. taken.entries[i].interest = m
      <3> HIDE DEF taken, F, R, b, c, q
      <3>1. taken.entries = F
        BY <1>12, PartsWith
      <3> QED BY <1>3, <1>13, <3>1
    <2> HIDE DEF taken, m
    <2> QED BY <1>6, <2>1 DEF Residing
  <1>15. Residing(taken, i, x) = Parts(With(F, i, ResidingIn(F[i], x)), R, b, c)
    <2>1. F \in [Slots -> EntrySet] /\ taken = Parts(F, R, b, c)
      BY <1>12, <1>13
    <2> HIDE DEF taken, F, R, b, c, x, E, E3, d, live, m, p, q, l
    <2> QED BY <2>1, ResidingIs
  <1>16. ResidingIn(F[i], x) = Whole(d, m)
    <2>1. ResidingIn(F[i], x) = ResidingIn(q, x)
      <3> HIDE DEF F, q, x
      <3> QED BY <1>13
    <2>2. ResidingIn(q, x) = Whole(d, m)
      <3> HIDE DEF q, m, d
      <3> QED BY <1>3 DEF ResidingIn
    <2> QED BY <2>1, <2>2
  <1>17. [F EXCEPT ![i] = Whole(d, m)] = [[E EXCEPT ![i] = Whole(d, m)] EXCEPT ![old] = Left(live)]
    <2> DEFINE w == Whole(d, m)
               g == Left(live)
    <2> HIDE DEF w, g
    <2>1. [F EXCEPT ![i] = w] = [[E EXCEPT ![i] = w] EXCEPT ![old] = g]
      <3> HIDE DEF p, q, l
      <3>1. F = [E3 EXCEPT ![old] = g]
        BY DEF g
      <3>2. E3 = [[E1 EXCEPT ![i] = q] EXCEPT ![old] = l] /\ E1 = [E EXCEPT ![i] = p]
        BY DEF E3, E1
      <3> HIDE DEF F, E
      <3> QED BY <1>2, <3>1, <3>2
    <2> QED BY <2>1 DEF w, g
  <1>18. Settle(s, i) = Parts([[E EXCEPT ![i] = Whole(d, m)] EXCEPT ![old] = Left(live)], R, b, c)
    <2>1. Settle(s, i) = Parts(With(F, i, Whole(d, m)), R, b, c)
      <3> HIDE DEF taken, F, R, b, c, x, E, d, m, live
      <3> QED BY <1>14, <1>15, <1>16
    <2> HIDE DEF F, R, b, c, E, d, m, live
    <2> QED BY <1>17, <2>1 DEF With
  <1> QED BY <1>18 DEF Parts, TakenOver

(* One candidate settled, whether it failed, replaces a form or has none   *)
(* to; and all of them.                                                    *)
LEMMA SettleGoes ==
    ASSUME NEW s, Sound(s), Made(s), NEW i \in Slots
    PROVE  SettledFrom(s, Settle(s, i)) /\ ~Settle(s, i).entries[i].candidate
  <1> DEFINE d == s.entries[i]
             old == d.replaces
             live == s.entries[old]
             settled == [s EXCEPT !.entries[i].candidate = FALSE]
             t == Settle(s, i)
  <1>1. d \in EntrySet /\ Shape(d) /\ d.interest \in Nat /\ s \in SetType
    BY EntryTyped DEF Sound
  <1>2. CASE ~d.candidate
    <2>1. t = s
      BY <1>2 DEF Settle
    <2> HIDE DEF t
    <2> QED BY <1>2, <2>1, SettledSame DEF t
  <1>3. d.candidate => d.used /\ d.residency # "loading"
    BY <1>1 DEF Shape, Made
  <1>4. CASE d.candidate /\ d.failed /\ d.interest = 0
    <2>1. t = Retire(settled, i)
      BY <1>3, <1>4 DEF Settle
    <2> HIDE DEF t
    <2> QED BY <1>3, <1>4, <2>1, SettleFailed DEF t
  <1>5. CASE d.candidate /\ d.failed /\ d.interest # 0
    <2>1. t = settled
      BY <1>3, <1>5 DEF Settle
    <2> HIDE DEF t
    <2> QED BY <1>3, <1>5, <2>1, SettleFailed DEF t
  <1>6. CASE d.candidate /\ ~d.failed /\ ~(live.used /\ live.generation = d.replacesGeneration)
    <2> DEFINE whole == Whole(d, d.interest)
    <2>1. t = [s EXCEPT !.entries[i] = whole]
      BY <1>3, <1>6, SettleAlone
    <2>2. /\ whole \in EntrySet /\ Shape(whole) /\ FormBytes(whole) = FormBytes(d) /\ Plain(d, whole)
          /\ whole.used /\ ~whole.candidate /\ whole.interest = d.interest
          /\ whole.generation = d.generation /\ whole.id = d.id /\ whole.revision = d.revision
          /\ whole.residency = (IF d.interest = 0 THEN "evictable" ELSE "resident") /\ ~Ended(whole)
      <3> HIDE DEF d
      <3> QED BY <1>1, <1>3, <1>6, WholeTyped
    <2>3. FormBytes(d) \in Nat /\ s.residentBytes \in Int
      BY <1>1, FormTyped DEF SetType
    <2> HIDE DEF whole, t
    <2>4. t = Put(s, i, whole)
      <3>1. s = Parts(s.entries, s.requesters, s.residentBytes, s.reconciled)
        BY SetIs DEF Parts
      <3>2. t = [s EXCEPT !.entries = [s.entries EXCEPT ![i] = whole]]
        BY <2>1
      <3>3. \A x : [s EXCEPT !.entries = x] = Parts(x, s.requesters, s.residentBytes, s.reconciled)
        BY <3>1, PartsWith
      <3>4. t = Parts([s.entries EXCEPT ![i] = whole], s.requesters, s.residentBytes, s.reconciled)
        BY <3>2, <3>3
      <3>5. s.residentBytes - FormBytes(d) + FormBytes(whole) = s.residentBytes
        BY <2>2, <2>3
      <3> QED BY <3>4, <3>5 DEF Parts, Put
    <2>5. FormBytes(whole) <= FormBytes(d)
      BY <2>2, <2>3
    <2>6. d.used /\ whole.residency # "retiring" /\ (whole.residency = "evictable" => d.interest = 0)
      BY <1>3, <1>6, <2>2
    <2>7. SettledFrom(s, Put(s, i, whole))
      BY <2>2, <2>5, <2>6, SettledPut
    <2>8. Put(s, i, whole).entries[i] = whole
      BY <2>2, PutFields
    <2> QED BY <2>2, <2>4, <2>7, <2>8 DEF t
  <1>7. CASE d.candidate /\ ~d.failed /\ live.used /\ live.generation = d.replacesGeneration
    <2>1. old \in Slots /\ LiveFor(live, d)
      BY <1>1, <1>7 DEF Sound, Shape, MatchedAt
    <2>2. old # i /\ live.residency # "retiring"
      BY <1>7, <2>1 DEF LiveFor
    <2>3. t = TakenOver(s, i, old)
      BY <1>3, <1>7, <2>1, <2>2, SettleTakes
    <2>4. SettledFrom(s, TakenOver(s, i, old)) /\ ~TakenOver(s, i, old).entries[i].candidate
      BY <1>3, <1>7, <2>1, <2>2, TakenOverSettles
    <2> HIDE DEF t
    <2> QED BY <2>3, <2>4 DEF t
  <1> QED BY <1>2, <1>4, <1>5, <1>6, <1>7

LEMMA SettlePass ==
    ASSUME NEW s, Sound(s), Made(s)
    PROVE  /\ SettledFrom(s, InOrder(Settle, s))
           /\ \A i \in Slots : ~InOrder(Settle, s).entries[i].candidate
  <1> DEFINE Takes(h) == h = [n \in 0..MaximumAssets |-> IF n = 0 THEN s ELSE Settle(h[n - 1], n)]
             S == {t \in SetType : Sound(t) /\ Made(t)}
             f == [p \in S \X Slots |-> Settle(p[1], p[2])]
  <1>1. ASSUME NEW t, Sound(t), Made(t), NEW n \in Slots
        PROVE  /\ SettledFrom(t, Settle(t, n)) /\ ~Settle(t, n).entries[n].candidate
               /\ Sound(Settle(t, n)) /\ Made(Settle(t, n)) /\ Settle(t, n) \in SetType
    <2>1. SettledFrom(t, Settle(t, n)) /\ ~Settle(t, n).entries[n].candidate
      BY <1>1, SettleGoes
    <2>2. Made(Settle(t, n))
      BY <1>1, <2>1, MadeOn
    <2> QED BY <2>1, <2>2 DEF SettledFrom, Sound
  <1>2. \E h : Takes(h)
    <2>1. \A t \in S, n \in Slots : Settle(t, n) \in S
      BY <1>1
    <2>2. f \in [S \X Slots -> S] /\ s \in S
      BY <2>1 DEF Sound
    <2>3. \A t \in S, n \in Slots : f[<<t, n>>] = Settle(t, n)
      OBVIOUS
    <2> HIDE DEF f, S
    <2>4. PICK h \in [0..MaximumAssets -> S] :
             h = [n \in 0..MaximumAssets |-> IF n = 0 THEN s ELSE f[<<h[n - 1], n>>]]
      <3>1. Passed(S, s, f)
        BY <2>2, PassExists
      <3> QED BY <3>1 DEF Passed
    <2>5. \A n \in 0..MaximumAssets : n # 0 => f[<<h[n - 1], n>>] = Settle(h[n - 1], n)
      <3> SUFFICES ASSUME NEW n \in 0..MaximumAssets, n # 0
                   PROVE  f[<<h[n - 1], n>>] = Settle(h[n - 1], n)
        OBVIOUS
      <3>1. n \in Slots /\ n - 1 \in 0..MaximumAssets
        BY AssetNaturals DEF Slots
      <3>2. h[n - 1] \in S
        BY <3>1
      <3> QED BY <2>3, <3>1, <3>2
    <2>6. h = [n \in 0..MaximumAssets |-> IF n = 0 THEN s ELSE Settle(h[n - 1], n)]
      BY <2>4, <2>5
    <2> QED BY <2>6
  <1> DEFINE h == CHOOSE g : Takes(g)
  <1>3. Takes(h)
    BY <1>2
  <1>4. InOrder(Settle, s) = h[MaximumAssets]
    BY DEF InOrder
  <1> HIDE DEF h
  <1>5. h[0] = s /\ \A n \in Slots : h[n] = Settle(h[n - 1], n)
    <2>1. 0 \in 0..MaximumAssets /\ \A n \in Slots : n \in 0..MaximumAssets /\ n # 0
      BY AssetNaturals DEF Slots
    <2> QED BY <1>3, <2>1
  <1> DEFINE D == [n \in 0..MaximumAssets |->
                     {t \in SetType : SettledFrom(s, t) /\ \A j \in 1..n : ~t.entries[j].candidate}]
  <1>6. \A n \in 0..MaximumAssets : \A t : t \in D[n] <=>
           t \in SetType /\ SettledFrom(s, t) /\ \A j \in 1..n : ~t.entries[j].candidate
    OBVIOUS
  <1> HIDE DEF D
  <1>7. h[0] \in D[0]
    <2>1. 0 \in 0..MaximumAssets /\ 1..0 = {}
      BY AssetNaturals
    <2>2. s \in SetType /\ SettledFrom(s, s)
      BY SettledSame DEF Sound
    <2> QED BY <1>5, <1>6, <2>1, <2>2
  <1>8. ASSUME NEW n \in Slots, h[n - 1] \in D[n - 1] PROVE h[n] \in D[n]
    <2>1. n \in 0..MaximumAssets /\ n - 1 \in 0..MaximumAssets
          /\ 1..n = 1..(n - 1) \cup {n} /\ n \notin 1..(n - 1) /\ 1..n \subseteq Slots
      BY AssetNaturals DEF Slots
    <2> DEFINE t == h[n - 1]
    <2>2. SettledFrom(s, t) /\ \A j \in 1..(n - 1) : ~t.entries[j].candidate
      BY <1>6, <1>8, <2>1
    <2>3. h[n] = Settle(t, n)
      BY <1>5
    <2> HIDE DEF t
    <2>4. Sound(t) /\ Made(t)
      BY <2>2, MadeOn DEF SettledFrom
    <2>5. SettledFrom(t, h[n]) /\ ~h[n].entries[n].candidate /\ h[n] \in SetType
      BY <1>1, <2>3, <2>4
    <2>6. SettledFrom(s, h[n])
      BY <2>2, <2>5, SettledOn
    <2>7. \A j \in 1..n : ~h[n].entries[j].candidate
      <3> SUFFICES ASSUME NEW j \in 1..(n - 1) PROVE ~h[n].entries[j].candidate
        BY <2>1, <2>5
      <3>1. j \in Slots /\ ~t.entries[j].candidate
        BY <2>1, <2>2
      <3> QED BY <2>5, <3>1 DEF SettledFrom, SettledAt
    <2> QED BY <1>6, <2>1, <2>5, <2>6, <2>7
  <1>9. \A n \in 0..MaximumAssets : h[n] \in D[n]
    BY <1>7, <1>8, Climbs
  <1>10. MaximumAssets \in 0..MaximumAssets
    BY AssetNaturals
  <1> QED BY <1>4, <1>6, <1>9, <1>10 DEF Slots

(* A reload is published once it is all made.                              *)
LEMMA PublishReloadGoes ==
    ASSUME NEW s, Sound(s)
    PROVE  LET t == PublishReload(s)
           IN  /\ SettledFrom(s, t)
               /\ Made(s) => \A i \in Slots : ~t.entries[i].candidate
               /\ ~Made(s) => t = s
  <1> DEFINE t == PublishReload(s)
  <1>1. Made(s) <=> ~\E i \in Slots : /\ s.entries[i].used /\ s.entries[i].candidate
                                      /\ s.entries[i].residency = "loading"
    BY EntryTyped DEF Made, Shape
  <1>2. CASE Made(s)
    <2>1. t = InOrder(Settle, s)
      BY <1>1, <1>2 DEF PublishReload
    <2> HIDE DEF t
    <2> QED BY <1>2, <2>1, SettlePass DEF t
  <1>3. CASE ~Made(s)
    <2>1. t = s
      BY <1>1, <1>3 DEF PublishReload
    <2> HIDE DEF t
    <2> QED BY <1>3, <2>1, SettledSame DEF t
  <1> QED BY <1>2, <1>3

-----------------------------------------------------------------------------
(* The owner's update, but for the requests that are late                  *)
LEMMA UpdatedGoes ==
    ASSUME NEW s, Sound(s), NEW refused, NEW held, NEW order, Ordered(s, order), published \in Nat,
           catalog \in [Ids -> Revisions \cup {NoRevision}],
           s.reconciled = published => Current(s)
    PROVE  LET u == Updated(s, refused, held, order)
           IN  /\ Sound(u) /\ Current(u) /\ u.reconciled = published
               /\ \A i \in Slots : Uses(s.entries[i], u.entries[i])
               /\ Wanted(s) => Wanted(u)
               /\ Outdated(s) => Outdated(u)
               /\ \A i \in Slots : ~Ended(u.entries[i])
               /\ \A i \in Slots : u.entries[i].candidate =>
                    /\ u.requesters = s.requesters
                    /\ \E j \in Slots : u.entries[j].used /\ u.entries[j].residency = "loading"
  <1> DEFINE v == [s EXCEPT !.reconciled = published]
             begun == BeginReload(s, refused)
             taken == TakenIn(begun, held, order)
             u == PublishReload(taken)
  <1>1. Updated(s, refused, held, order) = u
    BY DEF Updated, TakenIn
  <1>2. /\ Sound(v) /\ v.entries = s.entries /\ v.requesters = s.requesters
        /\ (Wanted(s) => Wanted(v)) /\ (Outdated(s) => Outdated(v))
    BY ReconciledSound
  <1>3. Goes(v, begun) /\ Current(begun) /\ begun.reconciled = published
    BY BeginReloadGoes
  <1> HIDE DEF v, begun
  <1>4. Sound(begun) /\ Ordered(v, order) /\ Ordered(begun, order)
    <2>1. Ordered(v, order)
      BY <1>2 DEF Ordered
    <2> QED BY <1>3, <2>1, OrderedGoes DEF Goes
  <1>5. Goes(begun, taken) /\ \A i \in Slots : ~Ended(taken.entries[i])
    BY <1>4, TakePass
  <1> HIDE DEF taken
  <1>6. /\ Goes(v, taken) /\ Sound(taken) /\ Current(taken) /\ taken.reconciled = published
        /\ taken.requesters = s.requesters
    <2>1. Goes(v, taken)
      BY <1>2, <1>3, <1>5, GoesOn
    <2> QED BY <1>2, <1>3, <1>5, <2>1 DEF Goes, Follows
  <1>7. /\ SettledFrom(taken, u)
        /\ Made(taken) => \A i \in Slots : ~u.entries[i].candidate
        /\ ~Made(taken) => u = taken
    BY <1>6, PublishReloadGoes
  <1> HIDE DEF u
  <1>8. Sound(u) /\ Current(u) /\ u.reconciled = published
    BY <1>6, <1>7 DEF SettledFrom
  <1>9. ASSUME NEW i \in Slots PROVE Uses(s.entries[i], u.entries[i])
    <2>1. Uses(s.entries[i], taken.entries[i]) /\ Uses(taken.entries[i], u.entries[i])
      BY <1>2, <1>6, <1>7 DEF Goes, Follows, SettledFrom, SettledAt
    <2>2. /\ s.entries[i].generation \in Nat /\ taken.entries[i].generation \in Nat
          /\ u.entries[i].generation \in Nat
      BY <1>6, <1>8, EntryTyped
    <2> QED BY <2>1, <2>2 DEF Uses
  <1>10. (Wanted(s) => Wanted(u)) /\ (Outdated(s) => Outdated(u))
    BY <1>2, <1>6, <1>7 DEF Goes, SettledFrom
  <1>11. \A i \in Slots : ~Ended(u.entries[i])
    BY <1>5, <1>7 DEF SettledFrom, SettledAt
  <1>12. ASSUME NEW i \in Slots, u.entries[i].candidate
         PROVE  /\ u.requesters = s.requesters
                /\ \E j \in Slots : u.entries[j].used /\ u.entries[j].residency = "loading"
    <2>1. ~Made(taken) /\ u = taken
      BY <1>7, <1>12
    <2>2. PICK j \in Slots : taken.entries[j].candidate /\ taken.entries[j].residency = "loading"
      BY <2>1 DEF Made
    <2>3. taken.entries[j].used
      BY <1>6, <2>2, EntryTyped DEF Shape
    <2> QED BY <1>6, <2>1, <2>2, <2>3
  <1> QED BY <1>1, <1>8, <1>9, <1>10, <1>11, <1>12

-----------------------------------------------------------------------------
(* What requesters do, and are done to: the entries change in what they    *)
(* count, and in whether the form may be evicted.                          *)
Alike(d, e) ==
    /\ e \in EntrySet /\ e.used = d.used /\ e.generation = d.generation /\ e.id = d.id
    /\ e.revision = d.revision /\ e.work = d.work /\ e.failed = d.failed
    /\ e.candidate = d.candidate /\ e.replaces = d.replaces
    /\ e.replacesGeneration = d.replacesGeneration
    /\ \/ e.residency = d.residency
       \/ e.residency \in {"resident", "evictable"} /\ d.residency \in {"resident", "evictable"}

(* The bytes held by entries charged alike                                 *)
LEMMA HeldAlike ==
    ASSUME NEW entries, NEW others,
           \A n \in Slots : FormBytes(entries[n]) \in Int /\ FormBytes(others[n]) = FormBytes(entries[n])
    PROVE  HeldBytes(others) = HeldBytes(entries)
  <1>1. PICK h \in [0..MaximumAssets -> Int] :
             /\ h[0] = 0 /\ \A n \in Slots : h[n] = h[n - 1] + FormBytes(entries[n])
             /\ HeldBytes(entries) = h[MaximumAssets]
    BY HeldPass
  <1>2. PICK g \in [0..MaximumAssets -> Int] :
             /\ g[0] = 0 /\ \A n \in Slots : g[n] = g[n - 1] + FormBytes(others[n])
             /\ HeldBytes(others) = g[MaximumAssets]
    BY HeldPass
  <1> DEFINE D == [n \in 0..MaximumAssets |-> {h[n]}]
  <1>3. \A n \in 0..MaximumAssets : \A x : x \in D[n] <=> x = h[n]
    OBVIOUS
  <1> HIDE DEF D
  <1>4. 0 \in 0..MaximumAssets /\ MaximumAssets \in 0..MaximumAssets
        /\ \A n \in Slots : n \in 0..MaximumAssets /\ n - 1 \in 0..MaximumAssets
    BY AssetNaturals DEF Slots
  <1>5. g[0] \in D[0]
    BY <1>1, <1>2, <1>3, <1>4
  <1>6. \A n \in Slots : g[n - 1] \in D[n - 1] => g[n] \in D[n]
    BY <1>1, <1>2, <1>3, <1>4
  <1>7. \A n \in 0..MaximumAssets : g[n] \in D[n]
    BY <1>5, <1>6, Climbs
  <1> QED BY <1>1, <1>2, <1>3, <1>4, <1>7

(* A set with such entries is as sound.                                    *)
LEMMA AlikeSound ==
    ASSUME NEW s, Sound(s), NEW t, t \in SetType, t.residentBytes = s.residentBytes,
           \A i \in Slots : Alike(s.entries[i], t.entries[i]),
           \A r \in Requesters : t.requesters[r].used => t.requesters[r].entry \in Slots
    PROVE  /\ Sound(t)
           /\ \A i \in Slots : Uses(s.entries[i], t.entries[i])
           /\ Outdated(s) => Outdated(t)
           /\ Current(s) => Current(t)
  <1>1. \A i \in Slots : s.entries[i] \in EntrySet /\ Shape(s.entries[i])
                         /\ MatchedAt(s.entries, s.entries[i]) /\ s.entries[i].generation \in Nat
    BY EntryTyped DEF Sound
  <1>2. \A i \in Slots : Shape(t.entries[i])
    BY <1>1 DEF Alike, Shape
  <1>3. ASSUME NEW i \in Slots PROVE MatchedAt(t.entries, t.entries[i])
    <2> SUFFICES ASSUME t.entries[i].candidate PROVE MatchedAt(t.entries, t.entries[i])
      BY DEF MatchedAt
    <2> DEFINE d == s.entries[i]
               o == d.replaces
    <2>1. /\ d.candidate /\ t.entries[i].replaces = o /\ t.entries[i].id = d.id
          /\ t.entries[i].revision = d.revision
          /\ t.entries[i].replacesGeneration = d.replacesGeneration
      BY DEF Alike
    <2>2. o \in Slots /\ MatchedAt(s.entries, d)
      BY <1>1, <2>1 DEF Shape
    <2>3. Alike(s.entries[o], t.entries[o])
      BY <2>2
    <2>4. /\ d.replacesGeneration <= s.entries[o].generation
          /\ d.replacesGeneration = s.entries[o].generation => LiveFor(s.entries[o], d)
      BY <2>1, <2>2 DEF MatchedAt
    <2> HIDE DEF d, o
    <2>5. ASSUME LiveFor(s.entries[o], d) PROVE LiveFor(t.entries[o], t.entries[i])
      BY <2>1, <2>3, <2>5 DEF LiveFor, Alike
    <2>6. t.entries[o].generation = s.entries[o].generation
      BY <2>3 DEF Alike
    <2> QED BY <2>1, <2>4, <2>5, <2>6 DEF MatchedAt
  <1>4. \A i \in Slots : FormBytes(s.entries[i]) \in Int
                         /\ FormBytes(t.entries[i]) = FormBytes(s.entries[i])
    <2> SUFFICES ASSUME NEW i \in Slots
                 PROVE  /\ FormBytes(s.entries[i]) \in Int
                        /\ FormBytes(t.entries[i]) = FormBytes(s.entries[i])
      OBVIOUS
    <2>1. FormBytes(s.entries[i]) \in Nat
      BY <1>1, FormTyped
    <2>2. Alike(s.entries[i], t.entries[i])
      OBVIOUS
    <2> QED BY <2>1, <2>2 DEF FormBytes, Charged, Alike
  <1>5. HeldBytes(t.entries) = HeldBytes(s.entries)
    BY <1>4, HeldAlike
  <1>6. Sound(t)
    BY <1>2, <1>3, <1>5 DEF Sound, Within
  <1>7. \A i \in Slots : Uses(s.entries[i], t.entries[i])
    BY <1>1 DEF Uses, Alike
  <1>8. Outdated(s) => Outdated(t)
    BY DEF Outdated, OutdatedAt, Alike
  <1>9. Current(s) => Current(t)
    BY DEF Current, Alike
  <1> QED BY <1>6, <1>7, <1>8, <1>9

(* The late requests of an entry, who counted in it                        *)
UncountedOf(s, late, i) ==
    {r \in late : s.requesters[r].entry = i /\ s.requesters[r].interested}

(* What Expire changes of an entry and of a requester.                     *)
LEMMA ExpireFields ==
    ASSUME NEW s, Sound(s), NEW late \in SUBSET Requesters
    PROVE  Expire(s, late) = Parts(Discounted(s, late), Failed(s, late), s.residentBytes, s.reconciled)
  <1> DEFINE F == Discounted(s, late)
             Q == Failed(s, late)
             t == Expire(s, late)
             u == [s EXCEPT !.entries = F]
  <1>1. t = [u EXCEPT !.requesters = Q]
    BY DEF Expire
  <1>2. s = Parts(s.entries, s.requesters, s.residentBytes, s.reconciled)
    BY SetIs DEF Parts
  <1> HIDE DEF t, F, Q
  <1>3. u = Parts(F, s.requesters, s.residentBytes, s.reconciled)
    BY <1>2, PartsWith
  <1> HIDE DEF u
  <1>4. t = Parts(F, Q, s.residentBytes, s.reconciled)
    BY <1>1, <1>3, PartsWith
  <1> QED BY <1>4 DEF t, F, Q

(* A request that is late no longer counts, and nothing else changes.      *)
LEMMA ExpireGoes ==
    ASSUME NEW s, Sound(s), NEW late \in SUBSET Waiting(s)
    PROVE  LET t == Expire(s, late)
           IN  /\ Sound(t) /\ t.reconciled = s.reconciled
               /\ \A i \in Slots : Uses(s.entries[i], t.entries[i])
               /\ Outdated(s) => Outdated(t)
               /\ Current(s) => Current(t)
               /\ Wanted(s) => Wanted(t)
               /\ \A i \in Slots : Alike(s.entries[i], t.entries[i])
                                   /\ t.entries[i].residency = s.entries[i].residency
               /\ \A r \in Requesters :
                    /\ t.requesters[r].used = s.requesters[r].used
                    /\ t.requesters[r].entry = s.requesters[r].entry
                    /\ t.requesters[r].entryGeneration = s.requesters[r].entryGeneration
  <1> DEFINE t == Expire(s, late)
             n(i) == Uncounted(s, late, i)
             left(i) == IF s.entries[i].interest > n(i) THEN s.entries[i].interest - n(i) ELSE 0
  <1>1. late \in SUBSET Requesters /\ s.requesters \in [Requesters -> RequesterSet] /\ s \in SetType
    BY DEF Waiting, Sound, SetType
  <1>10. t = Parts(Discounted(s, late), Failed(s, late), s.residentBytes, s.reconciled)
    BY <1>1, ExpireFields
  <1> HIDE DEF t
  <1>2. /\ t.entries = Discounted(s, late) /\ t.requesters = Failed(s, late)
        /\ t.residentBytes = s.residentBytes /\ t.reconciled = s.reconciled
    BY <1>10, PartsWith
  <1> HIDE DEF t
  <1>3. \A i \in Slots : /\ UncountedOf(s, late, i) \in SUBSET Requesters
                         /\ IsFiniteSet(UncountedOf(s, late, i)) /\ n(i) \in Nat
    <2> SUFFICES ASSUME NEW i \in Slots
                 PROVE  /\ UncountedOf(s, late, i) \in SUBSET Requesters
                        /\ IsFiniteSet(UncountedOf(s, late, i)) /\ n(i) \in Nat
      OBVIOUS
    <2>1. UncountedOf(s, late, i) \in SUBSET Requesters
      BY <1>1 DEF UncountedOf
    <2>2. IsFiniteSet(UncountedOf(s, late, i))
      BY <2>1, AssetNaturals, FS_Subset
    <2>3. n(i) = Cardinality(UncountedOf(s, late, i))
      BY DEF Uncounted, UncountedOf
    <2> HIDE DEF n
    <2> QED BY <2>1, <2>2, <2>3, FS_CardinalityType
  <1>4. ASSUME NEW i \in Slots
        PROVE  /\ Alike(s.entries[i], t.entries[i]) /\ t.entries[i].interest = left(i)
               /\ t.entries[i].residency = s.entries[i].residency
    <2>1. s.entries[i] \in EntrySet /\ s.entries[i].interest \in Nat /\ n(i) \in Nat
      BY <1>3, EntryTyped
    <2>2. left(i) \in Nat
      <3> HIDE DEF n
      <3> QED BY <2>1
    <2>3. t.entries[i] = [s.entries[i] EXCEPT !.interest = left(i)]
      BY <1>2 DEF Discounted
    <2> DEFINE k == left(i)
    <2> HIDE DEF left, n
    <2> QED BY <2>1, <2>2, <2>3 DEF Alike, EntrySet
  <1>5. ASSUME NEW r \in Requesters
        PROVE  /\ t.requesters[r] \in RequesterSet
               /\ t.requesters[r].used = s.requesters[r].used
               /\ t.requesters[r].entry = s.requesters[r].entry
               /\ t.requesters[r].entryGeneration = s.requesters[r].entryGeneration
               /\ r \in late => t.requesters[r].failed /\ ~t.requesters[r].interested
               /\ r \notin late => t.requesters[r] = s.requesters[r]
    <2>1. t.requesters[r] = IF r \in late
                            THEN [s.requesters[r] EXCEPT !.failed = TRUE, !.interested = FALSE]
                            ELSE s.requesters[r]
      BY <1>2 DEF Failed
    <2>2. s.requesters[r] \in RequesterSet
      BY <1>1
    <2> QED BY <2>1, <2>2 DEF RequesterSet
  <1>6. t \in SetType /\ t.residentBytes = s.residentBytes /\ t.reconciled = s.reconciled
    <2>1. t.residentBytes = s.residentBytes /\ t.reconciled = s.reconciled
      BY <1>2
    <2>2. t.entries \in [Slots -> EntrySet]
      <3>1. \A i \in Slots : t.entries[i] \in EntrySet
        BY <1>4 DEF Alike
      <3> QED BY <1>2, <3>1 DEF Discounted
    <2>3. t.requesters \in [Requesters -> RequesterSet]
      BY <1>2, <1>5 DEF Failed
    <2>4. s.residentBytes \in Int /\ s.reconciled \in Nat
      BY <1>1 DEF SetType
    <2>6. t \in SetType
      BY <1>2, <1>10, <2>2, <2>3, <2>4 DEF Parts, SetType
    <2> QED BY <2>1, <2>6
  <1>7. \A r \in Requesters : t.requesters[r].used => t.requesters[r].entry \in Slots
    BY <1>5 DEF Sound
  <1>8. /\ Sound(t) /\ \A i \in Slots : Uses(s.entries[i], t.entries[i])
        /\ (Outdated(s) => Outdated(t)) /\ (Current(s) => Current(t))
    BY <1>4, <1>6, <1>7, AlikeSound
  <1>9. ASSUME Wanted(s) PROVE Wanted(t)
    <2>1. ASSUME NEW r \in Requesters PROVE ServedAt(t, r)
      <3> SUFFICES ASSUME s.requesters[r].used PROVE ServedAt(t, r)
        BY <1>5 DEF ServedAt
      <3>1. ServedAt(s, r) /\ s.requesters[r].entry \in Slots
        BY <1>9 DEF Wanted, Sound
      <3>2. CASE r \in late
        BY <1>5, <3>2 DEF ServedAt
      <3>3. CASE r \notin late
        <4>1. t.requesters[r] = s.requesters[r]
          BY <1>5, <3>3
        <4>2. Alike(s.entries[s.requesters[r].entry], t.entries[s.requesters[r].entry])
          BY <1>4, <3>1
        <4> QED BY <3>1, <4>1, <4>2 DEF ServedAt, Alike
      <3> QED BY <3>2, <3>3
    <2>2. ASSUME NEW i \in Slots PROVE WantedAt(t, i)
      <3>1. PointingIn(t, i) = PointingIn(s, i) \ UncountedOf(s, late, i)
        <4>1. ASSUME NEW r \in Requesters
              PROVE  r \in PointingIn(t, i) <=> r \in PointingIn(s, i) \ UncountedOf(s, late, i)
          <5>1. t.entries[i].generation = s.entries[i].generation
            BY <1>4 DEF Alike
          <5>2. CASE r \in late
            BY <1>5, <5>2 DEF PointingIn, UncountedOf
          <5>3. CASE r \notin late
            BY <1>5, <5>1, <5>3 DEF PointingIn, UncountedOf
          <5> QED BY <5>2, <5>3
        <4> QED BY <4>1 DEF PointingIn
      <3>2. UncountedOf(s, late, i) \in SUBSET PointingIn(s, i)
        <4> SUFFICES ASSUME NEW r \in UncountedOf(s, late, i) PROVE r \in PointingIn(s, i)
          OBVIOUS
        <4>1. /\ r \in late /\ r \in Requesters /\ s.requesters[r].used
              /\ s.requesters[r].interested /\ s.requesters[r].entry = i
          BY <1>1 DEF UncountedOf, Waiting
        <4>2. ServedAt(s, r)
          BY <1>9, <4>1 DEF Wanted
        <4> QED BY <4>1, <4>2 DEF PointingIn, ServedAt
      <3>3. IsFiniteSet(PointingIn(s, i)) /\ IsFiniteSet(UncountedOf(s, late, i))
        BY <1>3, AssetNaturals, FS_Subset DEF PointingIn
      <3>10. n(i) = Cardinality(UncountedOf(s, late, i))
        BY DEF Uncounted, UncountedOf
      <3>4. n(i) <= Cardinality(PointingIn(s, i))
        BY <3>2, <3>3, <3>10, FS_Subset
      <3>5. Cardinality(PointingIn(t, i)) = Cardinality(PointingIn(s, i)) - n(i)
        <4>1. PointingIn(s, i) \cap UncountedOf(s, late, i) = UncountedOf(s, late, i)
          BY <3>2
        <4> QED BY <3>1, <3>3, <3>10, <4>1, FS_Difference
      <3>6. WantedAt(s, i) /\ n(i) \in Nat /\ s.entries[i].interest \in Nat
        BY <1>3, <1>9, EntryTyped DEF Wanted
      <3>7. s.entries[i].interest = Cardinality(PointingIn(s, i))
        BY <3>6 DEF WantedAt
      <3>8. t.entries[i].interest = Cardinality(PointingIn(t, i))
        <4>1. t.entries[i].interest = left(i)
          BY <1>4
        <4> HIDE DEF n
        <4> QED BY <3>4, <3>5, <3>6, <3>7, <4>1
      <3>9. s.entries[i].interest = 0 => t.entries[i].interest = 0
        <4> HIDE DEF n
        <4> QED BY <3>4, <3>5, <3>6, <3>7, <3>8
      <3> QED BY <1>4, <3>6, <3>8, <3>9 DEF WantedAt
    <2> QED BY <2>1, <2>2 DEF Wanted
  <1> QED BY <1>4, <1>5, <1>6, <1>8, <1>9 DEF t

(* One more is interested in an entry, or one less.                        *)
Raised(d) ==
    [d EXCEPT !.interest = d.interest + 1,
              !.residency = IF d.residency = "evictable" THEN "resident" ELSE d.residency]
Lowered(d) == [d EXCEPT !.interest = d.interest - 1]
Asking(s, i) ==
    [used |-> TRUE, entry |-> i, entryGeneration |-> s.entries[i].generation, interested |-> TRUE,
     failed |-> FALSE]

(* What Interested changes of its set.                                     *)
LEMMA InterestedFields ==
    ASSUME NEW s, Sound(s), NEW i \in Slots, NEW r \in Requesters
    PROVE  Interested(s, i, r)
             = Parts(With(s.entries, i, Raised(s.entries[i])), With(s.requesters, r, Asking(s, i)),
                     s.residentBytes, s.reconciled)
  <1> DEFINE E == s.entries
             Q == s.requesters
             b == s.residentBytes
             c == s.reconciled
             d == E[i]
             k == d.interest + 1
             x == IF d.residency = "evictable" THEN "resident" ELSE d.residency
             q == Asking(s, i)
             d1 == [d EXCEPT !.interest = k]
             d2 == [d1 EXCEPT !.residency = x]
             E1 == [E EXCEPT ![i] = d1]
             E2 == [E1 EXCEPT ![i] = d2]
             s1 == [s EXCEPT !.entries[i].interest = k]
             s2 == [s1 EXCEPT !.entries[i].residency = x]
             s3 == [s2 EXCEPT !.requesters[r] = q]
  <1>1. s = Parts(E, Q, b, c) /\ E \in [Slots -> EntrySet]
    BY SetIs DEF Parts, Sound, SetType
  <1>2. Interested(s, i, r) = s3
    <2>1. Interested(s, i, r) = [s EXCEPT !.entries[i].interest = s.entries[i].interest + 1,
              !.entries[i].residency = IF s.entries[i].residency = "evictable" THEN "resident"
                                       ELSE s.entries[i].residency,
              !.requesters[r] = q]
      BY DEF Interested, Asking
    <2> HIDE DEF q
    <2> QED BY <2>1
  <1> HIDE DEF k, x, q
  <1>3. s1 = Parts(E1, Q, b, c)
    <2>1. s1 = [s EXCEPT !.entries = E1]
      OBVIOUS
    <2> HIDE DEF s1, E1, E, Q, b, c
    <2> QED BY <1>1, <2>1, PartsWith
  <1>4. E1[i] = d1 /\ d2 = Raised(d) /\ E2 = With(E, i, d2)
    <2>1. E1[i] = d1
      BY <1>1
    <2>2. d2 = [d EXCEPT !.interest = k, !.residency = x]
      OBVIOUS
    <2>3. d2 = Raised(d)
      BY <2>2 DEF Raised, k, x
    <2>4. E2 = With(E, i, d2)
      <3> HIDE DEF d1, d2
      <3> QED BY DEF With
    <2> QED BY <2>1, <2>3, <2>4
  <1>5. s2 = Parts(E2, Q, b, c)
    <2> HIDE DEF s1, E1, d1
    <2>1. s1.entries = E1
      <3> HIDE DEF Q, b, c
      <3> QED BY <1>3, PartsWith
    <2>2. s2 = [s1 EXCEPT !.entries = E2]
      BY <1>4, <2>1
    <2> HIDE DEF s2, E2, Q, b, c
    <2> QED BY <1>3, <2>2, PartsWith
  <1>6. s3 = Parts(E2, With(Q, r, q), b, c)
    <2> HIDE DEF s2, E2
    <2>1. s2.requesters = Q
      <3> HIDE DEF Q, b, c
      <3> QED BY <1>5, PartsWith
    <2>2. s3 = [s2 EXCEPT !.requesters = With(Q, r, q)]
      BY <2>1 DEF With
    <2> HIDE DEF s3, Q, b, c
    <2> QED BY <1>5, <2>2, PartsWith
  <1> HIDE DEF s3, E2, d2
  <1> QED BY <1>2, <1>4, <1>6 DEF q

(* A requester gone, who counted in an entry, or in none                   *)
Uncounting(s, i, r) == [s EXCEPT !.entries[i].interest = @ - 1, !.requesters[r] = Nobody]
Leaving(s, r) == [s EXCEPT !.requesters[r] = Nobody]

(* What Drop changes of its set.                                           *)
LEMMA LoweredFields ==
    ASSUME NEW s, Sound(s), NEW i \in Slots, NEW r \in Requesters
    PROVE  /\ Uncounting(s, i, r)
                = Parts(With(s.entries, i, Lowered(s.entries[i])), With(s.requesters, r, Nobody),
                        s.residentBytes, s.reconciled)
           /\ Leaving(s, r)
                = Parts(s.entries, With(s.requesters, r, Nobody), s.residentBytes, s.reconciled)
  <1> DEFINE E == s.entries
             Q == s.requesters
             b == s.residentBytes
             c == s.reconciled
             E1 == With(E, i, Lowered(E[i]))
             s1 == [s EXCEPT !.entries = E1]
             s2 == [s1 EXCEPT !.requesters[r] = Nobody]
  <1>1. s = Parts(E, Q, b, c)
    BY SetIs DEF Parts
  <1>2. [s EXCEPT !.entries[i].interest = @ - 1, !.requesters[r] = Nobody] = s2
    BY DEF With, Lowered
  <1>3. s1 = Parts(E1, Q, b, c)
    <2> HIDE DEF E1, E, Q, b, c
    <2> QED BY <1>1, PartsWith
  <1>4. s2 = Parts(E1, With(Q, r, Nobody), b, c)
    <2> HIDE DEF s1, E1
    <2>1. s1.requesters = Q
      <3> HIDE DEF Q, b, c
      <3> QED BY <1>3, PartsWith
    <2>2. s2 = [s1 EXCEPT !.requesters = With(Q, r, Nobody)]
      BY <2>1 DEF With
    <2> HIDE DEF s2, Q, b, c
    <2> QED BY <1>3, <2>2, PartsWith
  <1>5. [s EXCEPT !.requesters[r] = Nobody] = Parts(E, With(Q, r, Nobody), b, c)
    <2>1. [s EXCEPT !.requesters[r] = Nobody] = [s EXCEPT !.requesters = With(Q, r, Nobody)]
      BY DEF With
    <2> HIDE DEF E, Q, b, c
    <2> QED BY <1>1, <2>1, PartsWith
  <1> HIDE DEF s2
  <1> QED BY <1>2, <1>4, <1>5 DEF Uncounting, Leaving

(* What an action keeps of a set: it is sound, the uses of its slots       *)
(* follow each other, and its candidates are as current.                   *)
Keeps(s, t) ==
    /\ Sound(t) /\ t.reconciled = s.reconciled
    /\ \A i \in Slots : Uses(s.entries[i], t.entries[i])
    /\ Outdated(s) => Outdated(t)
    /\ Current(s) => Current(t)

(* A requester becomes another, and one entry counts so.                   *)
Counting(s, i, e, r, q) ==
    Parts(With(s.entries, i, e), With(s.requesters, r, q), s.residentBytes, s.reconciled)

(* The one entry and the one requester that change                         *)
Changed(s, t, i, e, r, q) ==
    /\ t.entries[i] = e /\ \A j \in Slots \ {i} : t.entries[j] = s.entries[j]
    /\ t.requesters[r] = q /\ \A p \in Requesters \ {r} : t.requesters[p] = s.requesters[p]

(* A change of the one entry and the one requester leaves a sound set      *)
(* sound.                                                                  *)
LEMMA CountingSound ==
    ASSUME NEW s, Sound(s), NEW i \in Slots, NEW e, Alike(s.entries[i], e), NEW r \in Requesters,
           NEW q \in RequesterSet, q.used => q.entry \in Slots
    PROVE  /\ Keeps(s, Counting(s, i, e, r, q))
           /\ Changed(s, Counting(s, i, e, r, q), i, e, r, q)
  <1> DEFINE t == Counting(s, i, e, r, q)
  <1>1. /\ s.entries \in [Slots -> EntrySet] /\ s.requesters \in [Requesters -> RequesterSet]
        /\ s.residentBytes \in Int /\ s.reconciled \in Nat /\ e \in EntrySet
    BY DEF Sound, SetType, Alike
  <1>2. /\ t.entries = With(s.entries, i, e) /\ t.requesters = With(s.requesters, r, q)
        /\ t.residentBytes = s.residentBytes /\ t.reconciled = s.reconciled
    BY PartsWith DEF Counting
  <1>3. /\ With(s.entries, i, e) \in [Slots -> EntrySet]
        /\ With(s.requesters, r, q) \in [Requesters -> RequesterSet]
    BY <1>1 DEF With
  <1>4. t \in SetType
    BY <1>1, <1>3 DEF Counting, Parts, SetType
  <1> HIDE DEF t
  <1>5. /\ t.entries[i] = e /\ \A j \in Slots \ {i} : t.entries[j] = s.entries[j]
        /\ t.requesters[r] = q /\ \A p \in Requesters \ {r} : t.requesters[p] = s.requesters[p]
    BY <1>1, <1>2 DEF With
  <1>6. \A j \in Slots : Alike(s.entries[j], t.entries[j])
    <2> SUFFICES ASSUME NEW j \in Slots PROVE Alike(s.entries[j], t.entries[j])
      OBVIOUS
    <2>1. CASE j = i
      BY <1>5, <2>1
    <2>2. CASE j # i
      BY <1>1, <1>5, <2>2 DEF Alike
    <2> QED BY <2>1, <2>2
  <1>7. \A p \in Requesters : t.requesters[p].used => t.requesters[p].entry \in Slots
    BY <1>5 DEF Sound
  <1>8. /\ Sound(t) /\ \A j \in Slots : Uses(s.entries[j], t.entries[j])
        /\ (Outdated(s) => Outdated(t)) /\ (Current(s) => Current(t))
    BY <1>2, <1>4, <1>6, <1>7, AlikeSound
  <1>9. Keeps(s, t)
    BY <1>2, <1>8 DEF Keeps
  <1>10. Changed(s, t, i, e, r, q)
    BY <1>5 DEF Changed
  <1> QED BY <1>9, <1>10 DEF t

(* Two steps that keep are one,                                            *)
LEMMA KeepsOn ==
    ASSUME NEW s, Sound(s), NEW t, Keeps(s, t), NEW u, Keeps(t, u)
    PROVE  Keeps(s, u)
  <1>1. ASSUME NEW i \in Slots PROVE Uses(s.entries[i], u.entries[i])
    <2>1. /\ s.entries[i].generation \in Nat /\ t.entries[i].generation \in Nat
          /\ u.entries[i].generation \in Nat
      BY EntryTyped DEF Keeps
    <2>2. Uses(s.entries[i], t.entries[i]) /\ Uses(t.entries[i], u.entries[i])
      BY DEF Keeps
    <2> QED BY <2>1, <2>2 DEF Uses
  <1> QED BY <1>1 DEF Keeps

(* and a step of a pass keeps.                                             *)
LEMMA GoesKeeps ==
    ASSUME NEW s, NEW t, Goes(s, t)
    PROVE  Keeps(s, t)
  BY DEF Goes, Follows, Keeps

(* A requester more.                                                       *)
LEMMA InterestedGoes ==
    ASSUME NEW s, Sound(s), NEW i \in Slots, s.entries[i].used, NEW r \in Requesters,
           ~s.requesters[r].used
    PROVE  LET t == Interested(s, i, r)
           IN  /\ Keeps(s, t)
               /\ Wanted(s) /\ s.entries[i].residency # "retiring" => Wanted(t)
  <1> DEFINE d == s.entries[i]
             e == Raised(d)
             q == Asking(s, i)
             t == Interested(s, i, r)
  <1>1. d \in EntrySet /\ d.interest \in Nat /\ d.generation \in Nat
    BY EntryTyped
  <1>2. Alike(d, e) /\ e.interest = d.interest + 1 /\ e.residency # "evictable"
        /\ (e.residency = "retiring" => d.residency = "retiring")
    <2> DEFINE k == d.interest + 1
               x == IF d.residency = "evictable" THEN "resident" ELSE d.residency
    <2>1. /\ k \in Nat /\ x \in Residency /\ x # "evictable"
          /\ \/ x = d.residency
             \/ x \in {"resident", "evictable"} /\ d.residency \in {"resident", "evictable"}
          /\ x = "retiring" => d.residency = "retiring"
      <3> HIDE DEF d
      <3>1. d.residency \in Residency /\ k \in Nat
        BY <1>1 DEF EntrySet
      <3>2. CASE d.residency = "evictable"
        BY <3>1, <3>2 DEF Residency
      <3>3. CASE d.residency # "evictable"
        <4>1. x = d.residency
          BY <3>3
        <4> HIDE DEF x, k
        <4> QED BY <3>1, <3>3, <4>1
      <3> QED BY <3>2, <3>3
    <2>2. e = [d EXCEPT !.interest = k, !.residency = x]
      BY DEF Raised
    <2> HIDE DEF d, k, x, e
    <2>3. /\ e.interest = k /\ e.residency = x /\ Alike(d, e)
      BY <1>1, <2>1, <2>2 DEF Alike, EntrySet
    <2> QED BY <2>1, <2>3 DEF k
  <1>3. /\ q \in RequesterSet /\ q.used /\ q.entry = i /\ q.entryGeneration = d.generation
        /\ q.interested /\ ~q.failed
    BY <1>1 DEF Asking, RequesterSet
  <1>4. t = Counting(s, i, e, r, q)
    BY InterestedFields DEF Counting
  <1> HIDE DEF e, q, t
  <1>5. /\ Sound(t) /\ t.reconciled = s.reconciled
        /\ \A j \in Slots : Uses(s.entries[j], t.entries[j])
        /\ (Outdated(s) => Outdated(t)) /\ (Current(s) => Current(t))
        /\ t.entries[i] = e /\ \A j \in Slots \ {i} : t.entries[j] = s.entries[j]
        /\ t.requesters[r] = q /\ \A p \in Requesters \ {r} : t.requesters[p] = s.requesters[p]
    <2>1. Alike(s.entries[i], e) /\ (q.used => q.entry \in Slots) /\ q \in RequesterSet
      BY <1>2, <1>3
    <2> HIDE DEF d
    <2>2. Keeps(s, t) /\ Changed(s, t, i, e, r, q)
      BY <1>4, <2>1, CountingSound
    <2> QED BY <2>2 DEF Keeps, Changed
  <1>6. ASSUME Wanted(s), d.residency # "retiring" PROVE Wanted(t)
    <2>1. e.generation = d.generation /\ e.used
      BY <1>2 DEF Alike
    <2>2. ASSUME NEW p \in Requesters PROVE ServedAt(t, p)
      <3>1. CASE p = r
        BY <1>3, <1>5, <2>1, <3>1 DEF ServedAt
      <3>2. CASE p # r
        <4> SUFFICES ASSUME s.requesters[p].used PROVE ServedAt(t, p)
          BY <1>5, <3>2 DEF ServedAt
        <4>1. ServedAt(s, p) /\ s.requesters[p].entry \in Slots
          BY <1>6 DEF Wanted, Sound
        <4>2. CASE s.requesters[p].entry = i
          BY <1>5, <2>1, <3>2, <4>1, <4>2 DEF ServedAt
        <4>3. CASE s.requesters[p].entry # i
          BY <1>5, <3>2, <4>1, <4>3 DEF ServedAt
        <4> QED BY <4>2, <4>3
      <3> QED BY <3>1, <3>2
    <2>3. WantedAt(t, i)
      <3>1. PointingIn(t, i) = PointingIn(s, i) \cup {r}
        <4>1. ASSUME NEW p \in Requesters
              PROVE  p \in PointingIn(t, i) <=> p \in PointingIn(s, i) \cup {r}
          <5>1. CASE p = r
            BY <1>3, <1>5, <2>1, <5>1 DEF PointingIn
          <5>2. CASE p # r
            BY <1>5, <2>1, <5>2 DEF PointingIn
          <5> QED BY <5>1, <5>2
        <4> QED BY <4>1 DEF PointingIn
      <3>2. r \notin PointingIn(s, i)
        BY DEF PointingIn
      <3>3. IsFiniteSet(PointingIn(s, i))
        BY AssetNaturals, FS_Subset DEF PointingIn
      <3>4. Cardinality(PointingIn(t, i)) = Cardinality(PointingIn(s, i)) + 1
        BY <3>1, <3>2, <3>3, FS_AddElement
      <3>5. d.interest = Cardinality(PointingIn(s, i))
        BY <1>6 DEF Wanted, WantedAt
      <3> QED BY <1>2, <1>5, <1>6, <3>4, <3>5 DEF WantedAt
    <2>4. ASSUME NEW j \in Slots \ {i} PROVE WantedAt(t, j)
      <3>1. \A p \in Requesters : p \in PointingIn(t, j) <=> p \in PointingIn(s, j)
        <4> SUFFICES ASSUME NEW p \in Requesters
                     PROVE  p \in PointingIn(t, j) <=> p \in PointingIn(s, j)
          OBVIOUS
        <4>1. CASE p = r
          BY <1>3, <1>5, <4>1 DEF PointingIn
        <4>2. CASE p # r
          BY <1>5, <4>2 DEF PointingIn
        <4> QED BY <4>1, <4>2
      <3>2. PointingIn(t, j) = PointingIn(s, j)
        BY <3>1 DEF PointingIn
      <3> QED BY <1>5, <1>6, <3>2 DEF Wanted, WantedAt
    <2> QED BY <2>2, <2>3, <2>4 DEF Wanted
  <1> QED BY <1>5, <1>6 DEF Keeps, t, d

(* The last interest in an entry gone                                      *)
LEMMA UnwantGoes ==
    ASSUME NEW s, Sound(s), NEW i \in Slots
    PROVE  LET t == Unwant(s, i)
           IN  Keeps(s, t) /\ t.requesters = s.requesters /\ (Wanted(s) => Wanted(t))
  <1> DEFINE d == s.entries[i]
             t == Unwant(s, i)
             f == Residing(s, i, "evictable")
             e == ResidingIn(d, "evictable")
  <1>1. d \in EntrySet /\ d.interest \in Nat /\ d.generation \in Nat
    BY EntryTyped
  <1>2. Keeps(s, s)
    BY StayGoes, GoesKeeps
  <1>3. ASSUME d.interest = 0, d.residency = "resident"
        PROVE  Keeps(s, f) /\ f.requesters = s.requesters /\ (Wanted(s) => Wanted(f))
    <2>1. Alike(d, e) /\ e.interest = d.interest /\ e.generation = d.generation /\ e.used = d.used
          /\ e.residency = "evictable"
      <3> HIDE DEF d
      <3>1. "evictable" \in Residency
        BY DEF Residency
      <3> QED BY <1>1, <1>3, <3>1 DEF ResidingIn, Alike, EntrySet
    <2> HIDE DEF e
    <2>2. s = Parts(s.entries, s.requesters, s.residentBytes, s.reconciled)
          /\ s.entries \in [Slots -> EntrySet] /\ s.requesters \in [Requesters -> RequesterSet]
          /\ s.residentBytes \in Int /\ s.reconciled \in Nat
      BY SetIs DEF Parts, Sound, SetType
    <2>3. f = Parts(With(s.entries, i, e), s.requesters, s.residentBytes, s.reconciled)
      BY <2>2, ResidingIs DEF e
    <2> HIDE DEF f
    <2>4. /\ f.entries = With(s.entries, i, e) /\ f.requesters = s.requesters
          /\ f.residentBytes = s.residentBytes /\ f.reconciled = s.reconciled
      BY <2>3, PartsWith
    <2>5. e \in EntrySet
      BY <2>1 DEF Alike
    <2>6. f \in SetType
      <3>1. With(s.entries, i, e) \in [Slots -> EntrySet]
        BY <2>2, <2>5 DEF With
      <3> QED BY <2>2, <2>3, <3>1 DEF Parts, SetType
    <2>7. f.entries[i] = e /\ \A j \in Slots \ {i} : f.entries[j] = s.entries[j]
      BY <2>2, <2>4 DEF With
    <2>8. \A j \in Slots : Alike(s.entries[j], f.entries[j])
      <3> SUFFICES ASSUME NEW j \in Slots PROVE Alike(s.entries[j], f.entries[j])
        OBVIOUS
      <3>1. CASE j = i
        BY <2>1, <2>7, <3>1
      <3>2. CASE j # i
        BY <2>2, <2>7, <3>2 DEF Alike
      <3> QED BY <3>1, <3>2
    <2>9. \A r \in Requesters : f.requesters[r].used => f.requesters[r].entry \in Slots
      BY <2>4 DEF Sound
    <2>10. /\ Sound(f) /\ \A j \in Slots : Uses(s.entries[j], f.entries[j])
           /\ (Outdated(s) => Outdated(f)) /\ (Current(s) => Current(f))
      BY <2>4, <2>6, <2>8, <2>9, AlikeSound
    <2>11. ASSUME Wanted(s) PROVE Wanted(f)
      <3>1. \A j \in Slots : f.entries[j].used = s.entries[j].used
                             /\ f.entries[j].generation = s.entries[j].generation
                             /\ f.entries[j].interest = s.entries[j].interest
                             /\ (j # i => f.entries[j] = s.entries[j])
        BY <2>1, <2>7
      <3>2. ASSUME NEW r \in Requesters PROVE ServedAt(f, r)
        <4>1. ServedAt(s, r)
          BY <2>11 DEF Wanted
        <4> QED BY <2>4, <3>1, <4>1 DEF ServedAt, Sound
      <3>3. ASSUME NEW j \in Slots PROVE WantedAt(f, j)
        <4>1. PointingIn(f, j) = PointingIn(s, j)
          BY <2>4, <3>1 DEF PointingIn
        <4>2. WantedAt(s, j)
          BY <2>11 DEF Wanted
        <4>3. CASE j = i
          BY <1>3, <3>1, <4>1, <4>2, <4>3 DEF WantedAt
        <4>4. CASE j # i
          BY <3>1, <4>1, <4>2, <4>4 DEF WantedAt
        <4> QED BY <4>3, <4>4
      <3> QED BY <3>2, <3>3 DEF Wanted
    <2> QED BY <2>4, <2>10, <2>11 DEF Keeps
  <1>4. ASSUME d.interest = 0
        PROVE  LET g == Retire(s, i)
               IN  Keeps(s, g) /\ g.requesters = s.requesters /\ (Wanted(s) => Wanted(g))
    <2>1. Goes(s, Retire(s, i))
      BY <1>4, RetireGoes
    <2> QED BY <2>1, GoesKeeps DEF Goes, Follows
  <1>5. \/ t = s
        \/ d.interest = 0 /\ d.residency = "resident" /\ t = f
        \/ d.interest = 0 /\ t = Retire(s, i)
    <2>1. CASE d.interest > 0
      BY <1>1, <2>1 DEF Unwant
    <2>2. CASE d.interest = 0
      <3>1. CASE d.residency = "resident"
        BY <2>2, <3>1 DEF Unwant, Residing
      <3>2. CASE d.residency # "resident"
        BY <2>2, <3>2 DEF Unwant
      <3> QED BY <3>1, <3>2
    <2> QED BY <1>1, <2>1, <2>2
  <1> HIDE DEF t, f
  <1> QED BY <1>2, <1>3, <1>4, <1>5 DEF t

(* A requester fewer.                                                      *)
LEMMA DropGoes ==
    ASSUME NEW s, Sound(s), NEW r \in Requesters, s.requesters[r].used
    PROVE  LET t == Drop(s, r)
           IN  /\ Keeps(s, t) /\ (Wanted(s) => Wanted(t))
               /\ t.requesters[r] = Nobody
               /\ \A p \in Requesters \ {r} : t.requesters[p] = s.requesters[p]
  <1> DEFINE m == s.requesters[r]
             i == m.entry
             d == s.entries[i]
             t == Drop(s, r)
  <1>1. /\ i \in Slots /\ d \in EntrySet /\ d.interest \in Nat /\ d.generation \in Nat
        /\ s.requesters \in [Requesters -> RequesterSet] /\ s.entries \in [Slots -> EntrySet]
    BY EntryTyped DEF Sound, SetType
  <1>2. Nobody \in RequesterSet /\ ~Nobody.used
    BY DEF Nobody, RequesterSet
  <1>3. CASE Counted(s, r)
    <2> DEFINE e == Lowered(d)
               u == Uncounting(s, i, r)
    <2>1. d.interest > 0 /\ m.interested /\ d.generation = m.entryGeneration
      BY <1>3 DEF Counted
    <2>2. t = Unwant(u, i)
      BY <1>3 DEF Drop, Uncounting
    <2>3. Alike(d, e) /\ e.interest = d.interest - 1 /\ e.residency = d.residency
      <3> HIDE DEF d
      <3> DEFINE k == d.interest - 1
      <3>1. k \in Nat
        BY <1>1, <2>1
      <3>2. e = [d EXCEPT !.interest = k]
        BY DEF Lowered
      <3> HIDE DEF k, e
      <3>3. e.interest = k /\ Alike(d, e) /\ e.residency = d.residency
        BY <1>1, <3>1, <3>2 DEF Alike, EntrySet
      <3> QED BY <3>3 DEF k
    <2>4. u = Counting(s, i, e, r, Nobody)
      BY <1>1, LoweredFields DEF Counting
    <2> HIDE DEF e, u, t
    <2>5. Keeps(s, u) /\ Changed(s, u, i, e, r, Nobody)
      <3>1. Alike(s.entries[i], e) /\ (Nobody.used => Nobody.entry \in Slots)
        BY <1>2, <2>3
      <3> HIDE DEF i, d, m
      <3> QED BY <1>1, <1>2, <2>4, <3>1, CountingSound
    <2>6. /\ u.entries[i] = e /\ \A j \in Slots \ {i} : u.entries[j] = s.entries[j]
          /\ u.requesters[r] = Nobody /\ \A p \in Requesters \ {r} : u.requesters[p] = s.requesters[p]
      BY <2>5 DEF Changed
    <2>7. ASSUME Wanted(s) PROVE Wanted(u)
      <3>1. ASSUME NEW p \in Requesters PROVE ServedAt(u, p)
        <4>1. CASE p = r
          BY <1>2, <2>6, <4>1 DEF ServedAt
        <4>2. CASE p # r
          <5> SUFFICES ASSUME s.requesters[p].used PROVE ServedAt(u, p)
            BY <2>6, <4>2 DEF ServedAt
          <5>1. ServedAt(s, p) /\ s.requesters[p].entry \in Slots
            BY <2>7 DEF Wanted, Sound
          <5>2. CASE s.requesters[p].entry = i
            <6>1. u.requesters[p] = s.requesters[p] /\ u.entries[i] = e
              BY <2>6, <4>2
            <6>2. e.used = s.entries[i].used /\ e.generation = s.entries[i].generation
              BY <2>3 DEF Alike
            <6> QED BY <5>1, <5>2, <6>1, <6>2 DEF ServedAt
          <5>3. CASE s.requesters[p].entry # i
            BY <2>6, <4>2, <5>1, <5>3 DEF ServedAt
          <5> QED BY <5>2, <5>3
        <4> QED BY <4>1, <4>2
      <3>2. WantedAt(u, i)
        <4>1. PointingIn(u, i) = PointingIn(s, i) \ {r}
          <5>1. ASSUME NEW p \in Requesters
                PROVE  p \in PointingIn(u, i) <=> p \in PointingIn(s, i) \ {r}
            <6>1. CASE p = r
              BY <1>2, <2>6, <6>1 DEF PointingIn
            <6>2. CASE p # r
              BY <2>3, <2>6, <6>2 DEF PointingIn, Alike
            <6> QED BY <6>1, <6>2
          <5> QED BY <5>1 DEF PointingIn
        <4>2. r \in PointingIn(s, i)
          BY <2>1 DEF PointingIn
        <4>3. IsFiniteSet(PointingIn(s, i))
          BY AssetNaturals, FS_Subset DEF PointingIn
        <4>4. Cardinality(PointingIn(u, i)) = Cardinality(PointingIn(s, i)) - 1
          BY <4>1, <4>2, <4>3, FS_RemoveElement
        <4>5. WantedAt(s, i)
          BY <1>1, <2>7 DEF Wanted
        <4>6. e.residency \notin {"evictable", "retiring"}
          BY <2>1, <2>3, <4>5, <1>1 DEF WantedAt
        <4> QED BY <2>3, <2>6, <4>4, <4>5, <4>6 DEF WantedAt
      <3>3. ASSUME NEW j \in Slots \ {i} PROVE WantedAt(u, j)
        <4>1. \A p \in Requesters : p \in PointingIn(u, j) <=> p \in PointingIn(s, j)
          <5> SUFFICES ASSUME NEW p \in Requesters
                       PROVE  p \in PointingIn(u, j) <=> p \in PointingIn(s, j)
            OBVIOUS
          <5>1. CASE p = r
            BY <1>2, <2>6, <5>1 DEF PointingIn
          <5>2. CASE p # r
            BY <2>6, <5>2 DEF PointingIn
          <5> QED BY <5>1, <5>2
        <4>2. PointingIn(u, j) = PointingIn(s, j)
          BY <4>1 DEF PointingIn
        <4> QED BY <2>6, <2>7, <4>2 DEF Wanted, WantedAt
      <3> QED BY <3>1, <3>2, <3>3 DEF Wanted
    <2>8. Keeps(u, t) /\ t.requesters = u.requesters /\ (Wanted(u) => Wanted(t))
      <3>1. Sound(u)
        BY <2>5 DEF Keeps
      <3> QED BY <1>1, <2>2, <3>1, UnwantGoes
    <2>9. Keeps(s, t)
      BY <2>5, <2>8, KeepsOn
    <2> QED BY <2>6, <2>7, <2>8, <2>9 DEF t
  <1>4. CASE ~Counted(s, r)
    <2> DEFINE u == Leaving(s, r)
    <2>1. t = u
      BY <1>4 DEF Drop, Leaving
    <2>2. u = Parts(s.entries, With(s.requesters, r, Nobody), s.residentBytes, s.reconciled)
      BY <1>1, LoweredFields
    <2>3. s.entries = With(s.entries, i, d)
      BY <1>1 DEF With
    <2>4. u = Counting(s, i, d, r, Nobody)
      <3> HIDE DEF u, d, i
      <3> QED BY <2>2, <2>3 DEF Counting
    <2> HIDE DEF u, t
    <2>5. Alike(d, d)
      BY <1>1 DEF Alike
    <2>6. Keeps(s, u) /\ Changed(s, u, i, d, r, Nobody)
      <3>1. Alike(s.entries[i], d) /\ (Nobody.used => Nobody.entry \in Slots)
        BY <1>2, <2>5
      <3> HIDE DEF i, d, m
      <3> QED BY <1>1, <1>2, <2>4, <3>1, CountingSound
    <2>7. /\ \A j \in Slots : u.entries[j] = s.entries[j]
          /\ u.requesters[r] = Nobody /\ \A p \in Requesters \ {r} : u.requesters[p] = s.requesters[p]
      BY <2>6 DEF Changed
    <2>8. ASSUME Wanted(s) PROVE Wanted(u)
      <3>1. ~m.interested
        <4> SUFFICES ASSUME m.interested PROVE FALSE
          OBVIOUS
        <4>1. d.generation = m.entryGeneration /\ WantedAt(s, i)
          BY <1>1, <2>8 DEF Wanted, ServedAt
        <4>2. d.interest = 0
          BY <1>1, <1>4, <4>1 DEF Counted
        <4>3. PointingIn(s, i) = {}
          BY <1>1, <2>8, <4>2, NonePoints
        <4> QED BY <4>1, <4>3 DEF PointingIn
      <3>2. ASSUME NEW p \in Requesters PROVE ServedAt(u, p)
        <4>1. CASE p = r
          BY <1>2, <2>7, <4>1 DEF ServedAt
        <4>2. CASE p # r
          <5>1. ServedAt(s, p) /\ (s.requesters[p].used => s.requesters[p].entry \in Slots)
            BY <2>8 DEF Wanted, Sound
          <5> QED BY <2>7, <4>2, <5>1 DEF ServedAt
        <4> QED BY <4>1, <4>2
      <3>3. ASSUME NEW j \in Slots PROVE WantedAt(u, j)
        <4>1. \A p \in Requesters : p \in PointingIn(u, j) <=> p \in PointingIn(s, j)
          <5> SUFFICES ASSUME NEW p \in Requesters
                       PROVE  p \in PointingIn(u, j) <=> p \in PointingIn(s, j)
            OBVIOUS
          <5>1. CASE p = r
            BY <1>2, <2>7, <3>1, <5>1 DEF PointingIn
          <5>2. CASE p # r
            BY <2>7, <5>2 DEF PointingIn
          <5> QED BY <5>1, <5>2
        <4>2. PointingIn(u, j) = PointingIn(s, j)
          BY <4>1 DEF PointingIn
        <4> QED BY <2>7, <2>8, <4>2 DEF Wanted, WantedAt
      <3> QED BY <3>2, <3>3 DEF Wanted
    <2> QED BY <2>1, <2>6, <2>7, <2>8 DEF t
  <1> QED BY <1>3, <1>4

(* Every slot freed                                                        *)
LEMMA RetireKeeps ==
    ASSUME NEW s, Sound(s), NEW i \in Slots
    PROVE  Keeps(s, Retire(s, i)) /\ Retire(s, i).requesters = s.requesters
  <1> DEFINE t == Retire(s, i)
  <1>1. /\ Sound(t) /\ Uses(s.entries[i], t.entries[i])
        /\ t.entries[i] = Free(s.entries[i].generation + 1, s.entries[i].interest)
        /\ \A j \in Slots \ {i} : t.entries[j] = s.entries[j]
        /\ t.requesters = s.requesters /\ t.reconciled = s.reconciled
    BY RetireSound
  <1>2. ~t.entries[i].used /\ ~t.entries[i].candidate
    <2> HIDE DEF t
    <2> QED BY <1>1 DEF Free
  <1> HIDE DEF t
  <1>3. \A j \in Slots : Uses(s.entries[j], t.entries[j])
    <2> SUFFICES ASSUME NEW j \in Slots \ {i} PROVE Uses(s.entries[j], t.entries[j])
      BY <1>1
    <2> QED BY <1>1, EntryTyped DEF Uses
  <1>4. Outdated(s) => Outdated(t)
    <2> SUFFICES ASSUME Outdated(s), NEW j \in Slots, t.entries[j].used
                 PROVE  t.entries[j].residency = "retiring"
                          => t.entries[j].revision # catalog[t.entries[j].id]
      BY DEF Outdated, OutdatedAt
    <2>1. j # i /\ t.entries[j] = s.entries[j]
      BY <1>1, <1>2
    <2> QED BY <2>1 DEF Outdated, OutdatedAt
  <1>5. Current(s) => Current(t)
    <2> SUFFICES ASSUME Current(s), NEW j \in Slots, t.entries[j].candidate
                 PROVE  t.entries[j].revision = catalog[t.entries[j].id]
      BY DEF Current
    <2>1. j # i /\ t.entries[j] = s.entries[j]
      BY <1>1, <1>2
    <2> QED BY <2>1 DEF Current
  <1> QED BY <1>1, <1>3, <1>4, <1>5 DEF Keeps, t

Gone(s, i) == IF s.entries[i].used THEN Retire(s, i) ELSE s

(* Every slot freed, as Close does.                                        *)
LEMMA GonePass ==
    ASSUME NEW s, Sound(s)
    PROVE  Keeps(s, InOrder(Gone, s)) /\ InOrder(Gone, s).requesters = s.requesters
  <1> DEFINE Takes(h) == h = [n \in 0..MaximumAssets |-> IF n = 0 THEN s ELSE Gone(h[n - 1], n)]
             S == {t \in SetType : Keeps(s, t) /\ t.requesters = s.requesters}
             f == [p \in S \X Slots |-> Gone(p[1], p[2])]
  <1>1. ASSUME NEW t \in S, NEW n \in Slots
        PROVE  Gone(t, n) \in S
    <2>1. Sound(t) /\ Keeps(s, t) /\ t.requesters = s.requesters /\ Keeps(t, t)
      BY StayGoes, GoesKeeps DEF Keeps
    <2>2. Keeps(t, Gone(t, n)) /\ Gone(t, n).requesters = t.requesters
      BY <2>1, RetireKeeps DEF Gone
    <2>3. Keeps(s, Gone(t, n))
      BY <2>1, <2>2, KeepsOn
    <2> QED BY <2>1, <2>2, <2>3 DEF Keeps, Sound
  <1>2. s \in S
    BY StayGoes, GoesKeeps DEF Sound
  <1>3. \A t \in S : Keeps(s, t) /\ t.requesters = s.requesters
    OBVIOUS
  <1> HIDE DEF S
  <1>4. \E h : Takes(h)
    <2>1. f \in [S \X Slots -> S]
      BY <1>1
    <2>2. \A t \in S, n \in Slots : f[<<t, n>>] = Gone(t, n)
      OBVIOUS
    <2> HIDE DEF f
    <2>3. PICK h \in [0..MaximumAssets -> S] :
             h = [n \in 0..MaximumAssets |-> IF n = 0 THEN s ELSE f[<<h[n - 1], n>>]]
      <3>1. Passed(S, s, f)
        BY <1>2, <2>1, PassExists
      <3> QED BY <3>1 DEF Passed
    <2>4. \A n \in 0..MaximumAssets : n # 0 => f[<<h[n - 1], n>>] = Gone(h[n - 1], n)
      <3> SUFFICES ASSUME NEW n \in 0..MaximumAssets, n # 0
                   PROVE  f[<<h[n - 1], n>>] = Gone(h[n - 1], n)
        OBVIOUS
      <3>1. n \in Slots /\ n - 1 \in 0..MaximumAssets
        BY AssetNaturals DEF Slots
      <3>2. h[n - 1] \in S
        BY <3>1
      <3> QED BY <2>2, <3>1, <3>2
    <2>5. h = [n \in 0..MaximumAssets |-> IF n = 0 THEN s ELSE Gone(h[n - 1], n)]
      BY <2>3, <2>4
    <2> QED BY <2>5
  <1> DEFINE h == CHOOSE g : Takes(g)
  <1>5. Takes(h)
    BY <1>4
  <1>6. InOrder(Gone, s) = h[MaximumAssets]
    BY DEF InOrder
  <1> HIDE DEF h
  <1>7. /\ h[0] = s /\ \A n \in Slots : h[n] = Gone(h[n - 1], n)
        /\ MaximumAssets \in 0..MaximumAssets /\ 0 \in 0..MaximumAssets
        /\ \A n \in Slots : n \in 0..MaximumAssets /\ n - 1 \in 0..MaximumAssets
    <2>1. /\ 0 \in 0..MaximumAssets /\ MaximumAssets \in 0..MaximumAssets
          /\ \A n \in Slots : n \in 0..MaximumAssets /\ n # 0 /\ n - 1 \in 0..MaximumAssets
      BY AssetNaturals DEF Slots
    <2> QED BY <1>5, <2>1
  <1> DEFINE D == [n \in 0..MaximumAssets |-> S]
  <1>8. \A n \in 0..MaximumAssets : D[n] = S
    OBVIOUS
  <1> HIDE DEF D
  <1>9. \A n \in 0..MaximumAssets : h[n] \in D[n]
    <2>1. h[0] \in D[0]
      BY <1>2, <1>7, <1>8
    <2>2. \A n \in Slots : h[n - 1] \in D[n - 1] => h[n] \in D[n]
      BY <1>1, <1>7, <1>8
    <2> QED BY <2>1, <2>2, Climbs
  <1> QED BY <1>3, <1>6, <1>7, <1>8, <1>9

-----------------------------------------------------------------------------
(* The invariant.  A handle's slot is in the use it was taken for, or in a *)
(* later one.                                                              *)
NamedIn(s, h) ==
    /\ h.generation <= s.entries[h.slot].generation
    /\ h.generation = s.entries[h.slot].generation =>
         s.entries[h.slot].used /\ s.entries[h.slot].id = h.id /\ s.entries[h.slot].revision = h.revision

AssetsInv ==
    /\ TypeOK /\ Sound(set)
    /\ set.reconciled <= published
    /\ set.reconciled = published => Current(set)
    /\ \A h \in handles : NamedIn(set, h)

HandleSet == [slot : Slots, generation : Nat, id : Ids, revision : Revisions]

(* A handle goes on naming what it named.                                  *)
LEMMA NamedOn ==
    ASSUME NEW s, Sound(s), NEW t, Sound(t), \A i \in Slots : Uses(s.entries[i], t.entries[i]),
           NEW h \in HandleSet, NamedIn(s, h)
    PROVE  NamedIn(t, h)
  <1>1. h.slot \in Slots /\ h.generation \in Nat
    BY DEF HandleSet
  <1>2. s.entries[h.slot].generation \in Nat /\ t.entries[h.slot].generation \in Nat
    BY <1>1, EntryTyped
  <1>3. Uses(s.entries[h.slot], t.entries[h.slot])
    BY <1>1
  <1> QED BY <1>1, <1>2, <1>3 DEF NamedIn, Uses

(* A step that keeps the set's uses, and the catalog                       *)
LEMMA KeepsInv ==
    ASSUME AssetsInv, Keeps(set, set'), catalog' = catalog, published' = published,
           closed' \in BOOLEAN, requested' \in Nat, handles' \subseteq HandleSet,
           \A h \in handles' : h \in handles \/ NamedIn(set', h)
    PROVE  AssetsInv'
  <1>1. Sound(set) /\ Sound(set') /\ set'.reconciled = set.reconciled
    BY DEF AssetsInv, Keeps
  <1>2. set' \in SetType
    BY <1>1 DEF Sound
  <1>3. TypeOK'
    <2>1. catalog' \in [Ids -> Revisions \cup {NoRevision}] /\ published' \in Nat
      BY DEF AssetsInv, TypeOK
    <2> QED BY <1>2, <2>1 DEF TypeOK, SetType, HandleSet
  <1>4. set'.reconciled <= published'
    BY <1>1 DEF AssetsInv
  <1>5. (set.reconciled = published => Current(set))'
    BY <1>1 DEF AssetsInv, Keeps, Current
  <1>6. ASSUME NEW h \in handles' PROVE NamedIn(set', h)
    <2> SUFFICES ASSUME h \in handles PROVE NamedIn(set', h)
      BY <1>6
    <2>1. NamedIn(set, h) /\ h \in HandleSet
      BY DEF AssetsInv
    <2>2. \A i \in Slots : Uses(set.entries[i], set'.entries[i])
      BY DEF Keeps
    <2> QED BY <1>1, <2>1, <2>2, NamedOn
  <1>7. (\A h \in handles : NamedIn(set, h))'
    BY <1>6 DEF NamedIn
  <1>8. Sound(set)'
    BY <1>1 DEF Sound, Shape, MatchedAt, LiveFor, Within
  <1> QED BY <1>3, <1>4, <1>5, <1>7, <1>8 DEF AssetsInv

(* What a request does; it counts as it should unless it shares a form     *)
(* that retires.                                                           *)
LEMMA RequestKeeps ==
    ASSUME AssetsInv, NEW id \in Ids, Request(id)
    PROVE  Keeps(set, set') /\ (Outdated(set) /\ Wanted(set) => Wanted(set'))
  <1>1. Sound(set) /\ catalog[id] \in Revisions /\ catalog[id] # NoRevision
    BY DEF AssetsInv, TypeOK, Request, Revisions, NoRevision
  <1>2. PICK r \in Requesters :
         /\ ~set.requesters[r].used
         /\ \/ /\ Of(set, id, catalog[id]) # {}
               /\ set' = Interested(set, Least(Of(set, id, catalog[id])), r)
            \/ /\ Of(set, id, catalog[id]) = {}
               /\ FreeSlots(set) # {}
               /\ set' = Interested(StartLoad(set, id, catalog[id]), Least(FreeSlots(set)), r)
    BY DEF Request
  <1>3. CASE Of(set, id, catalog[id]) # {} /\ set' = Interested(set, Least(Of(set, id, catalog[id])), r)
    <2> DEFINE i == Least(Of(set, id, catalog[id]))
    <2>1. Of(set, id, catalog[id]) \in SUBSET Slots
      BY DEF Of
    <2>2. i \in Of(set, id, catalog[id])
      BY <1>3, <2>1, LeastSlot
    <2>3. /\ i \in Slots /\ set.entries[i].used /\ set.entries[i].id = id
          /\ set.entries[i].revision = catalog[id]
      BY <2>2 DEF Of
    <2> HIDE DEF i
    <2>4. /\ Keeps(set, Interested(set, i, r))
          /\ Wanted(set) /\ set.entries[i].residency # "retiring" => Wanted(Interested(set, i, r))
      BY <1>1, <1>2, <2>3, InterestedGoes
    <2>5. Outdated(set) => set.entries[i].residency # "retiring"
      BY <2>3 DEF Outdated, OutdatedAt
    <2>6. set' = Interested(set, i, r)
      BY <1>3 DEF i
    <2> QED BY <2>4, <2>5, <2>6
  <1>4. CASE /\ FreeSlots(set) # {}
             /\ set' = Interested(StartLoad(set, id, catalog[id]), Least(FreeSlots(set)), r)
    <2> DEFINE i == Least(FreeSlots(set))
               t == StartLoad(set, id, catalog[id])
    <2>1. /\ i \in Slots /\ Goes(set, t)
          /\ t.entries[i] = [set.entries[i] EXCEPT
                               !.used = TRUE, !.id = id, !.revision = catalog[id],
                               !.residency = "loading", !.work = "reading"]
      BY <1>1, <1>4, StartGoes
    <2>2. set.entries[i] \in EntrySet
      BY <1>1, <2>1, EntryTyped
    <2>3. t.entries[i].used /\ t.entries[i].residency = "loading"
      <3> HIDE DEF t, i
      <3> QED BY <2>1, <2>2 DEF EntrySet
    <2>4. set' = Interested(t, i, r)
      BY <1>4
    <2> HIDE DEF i, t
    <2>5. Sound(t) /\ t.requesters = set.requesters /\ Keeps(set, t) /\ (Wanted(set) => Wanted(t))
      BY <2>1, GoesKeeps DEF Goes, Follows
    <2>6. /\ Keeps(t, Interested(t, i, r))
          /\ Wanted(t) /\ t.entries[i].residency # "retiring" => Wanted(Interested(t, i, r))
      BY <1>2, <2>1, <2>3, <2>5, InterestedGoes
    <2>7. Keeps(set, set')
      BY <1>1, <2>4, <2>5, <2>6, KeepsOn
    <2> QED BY <2>3, <2>4, <2>5, <2>6, <2>7
  <1> QED BY <1>2, <1>3, <1>4

(* What the ends of reads and decodings do.                                *)
LEMMA WorkKeeps ==
    ASSUME AssetsInv, NEW i \in Slots, Read(i) \/ Decode(i)
    PROVE  /\ Keeps(set, set') /\ (Wanted(set) => Wanted(set')) /\ set'.requesters = set.requesters
           /\ UNCHANGED <<closed, catalog, published, requested, handles>>
  <1>1. Sound(set)
    BY DEF AssetsInv
  <1>2. set.entries[i].used
    BY <1>1, EntryTyped DEF Read, Decode, Shape
  <1>3. PICK work \in {"read", "unread", "decoded", "undecoded"} :
          set' = [set EXCEPT !.entries[i].work = work]
    BY DEF Read, Decode
  <1>4. work \in Work /\ work # "none"
    BY <1>3 DEF Work
  <1>5. set' = Working(set, i, work)
    BY <1>3 DEF Working
  <1>6. Goes(set, set')
    BY <1>1, <1>2, <1>4, <1>5, WorkGoes
  <1> QED BY <1>6, GoesKeeps DEF Goes, Follows, Read, Decode

(* What the owner's update does                                            *)
LEMMA UpdateKeeps ==
    ASSUME AssetsInv, Update
    PROVE  /\ Sound(set') /\ Current(set') /\ set'.reconciled = published
           /\ \A i \in Slots : Uses(set.entries[i], set'.entries[i])
           /\ Wanted(set) => Wanted(set')
           /\ Outdated(set) => Outdated(set')
           /\ \A i \in Slots : set'.entries[i].candidate => \A r \in Requesters :
                /\ set'.requesters[r].entry = set.requesters[r].entry
                /\ set'.requesters[r].entryGeneration = set.requesters[r].entryGeneration
           /\ UNCHANGED <<closed, catalog, published, requested, handles>>
  <1>1. /\ Sound(set) /\ published \in Nat /\ catalog \in [Ids -> Revisions \cup {NoRevision}]
        /\ (set.reconciled = published => Current(set))
    BY DEF AssetsInv, TypeOK
  <1>2. PICK refused \in SUBSET Ids,
             held \in SUBSET {i \in Slots : set.entries[i].residency = "retiring"}, order \in Orders :
          LET updated == Updated(set, refused, held, order)
          IN  \E late \in SUBSET Waiting(updated) : set' = Expire(updated, late)
    BY DEF Update
  <1> DEFINE u == Updated(set, refused, held, order)
  <1>3. Ordered(set, order)
    BY DEF Orders, Ordered
  <1>4. /\ Sound(u) /\ Current(u) /\ u.reconciled = published
        /\ \A i \in Slots : Uses(set.entries[i], u.entries[i])
        /\ (Wanted(set) => Wanted(u)) /\ (Outdated(set) => Outdated(u))
        /\ \A i \in Slots : u.entries[i].candidate => u.requesters = set.requesters
    BY <1>1, <1>3, UpdatedGoes
  <1>5. PICK late \in SUBSET Waiting(u) : set' = Expire(u, late)
    BY <1>2
  <1> HIDE DEF u
  <1>6. /\ Sound(set') /\ set'.reconciled = u.reconciled
        /\ \A i \in Slots : Uses(u.entries[i], set'.entries[i])
        /\ (Outdated(u) => Outdated(set')) /\ (Current(u) => Current(set'))
        /\ (Wanted(u) => Wanted(set'))
        /\ \A i \in Slots : Alike(u.entries[i], set'.entries[i])
        /\ \A r \in Requesters :
             /\ set'.requesters[r].entry = u.requesters[r].entry
             /\ set'.requesters[r].entryGeneration = u.requesters[r].entryGeneration
    BY <1>4, <1>5, ExpireGoes
  <1>7. \A i \in Slots : Uses(set.entries[i], set'.entries[i])
    <2> SUFFICES ASSUME NEW i \in Slots PROVE Uses(set.entries[i], set'.entries[i])
      OBVIOUS
    <2>1. /\ set.entries[i].generation \in Nat /\ u.entries[i].generation \in Nat
          /\ set'.entries[i].generation \in Nat
      BY <1>1, <1>4, <1>6, EntryTyped
    <2>2. Uses(set.entries[i], u.entries[i]) /\ Uses(u.entries[i], set'.entries[i])
      BY <1>4, <1>6
    <2> QED BY <2>1, <2>2 DEF Uses
  <1>8. ASSUME NEW i \in Slots, set'.entries[i].candidate, NEW r \in Requesters
        PROVE  /\ set'.requesters[r].entry = set.requesters[r].entry
               /\ set'.requesters[r].entryGeneration = set.requesters[r].entryGeneration
    <2>1. u.entries[i].candidate
      BY <1>6, <1>8 DEF Alike
    <2> QED BY <1>4, <1>6, <2>1
  <1> QED BY <1>4, <1>6, <1>7, <1>8 DEF Update

-----------------------------------------------------------------------------
(* The set starts empty.                                                   *)
LEMMA HeldNone ==
    ASSUME NEW entries, \A n \in Slots : FormBytes(entries[n]) = 0
    PROVE  HeldBytes(entries) = 0
  <1>1. PICK h \in [0..MaximumAssets -> Int] :
          /\ h[0] = 0 /\ \A n \in Slots : h[n] = h[n - 1] + FormBytes(entries[n])
          /\ HeldBytes(entries) = h[MaximumAssets]
    BY HeldPass
  <1> DEFINE D == [n \in 0..MaximumAssets |-> {0}]
  <1>2. \A n \in 0..MaximumAssets : D[n] = {0}
    OBVIOUS
  <1>3. /\ 0 \in 0..MaximumAssets /\ MaximumAssets \in 0..MaximumAssets
        /\ \A n \in Slots : n \in 0..MaximumAssets /\ n - 1 \in 0..MaximumAssets
    BY AssetNaturals DEF Slots
  <1> HIDE DEF D
  <1>4. h[0] \in D[0]
    BY <1>1, <1>2, <1>3
  <1>5. \A n \in Slots : h[n - 1] \in D[n - 1] => h[n] \in D[n]
    BY <1>1, <1>2, <1>3
  <1>6. \A n \in 0..MaximumAssets : h[n] \in D[n]
    BY <1>4, <1>5, Climbs
  <1> QED BY <1>1, <1>2, <1>3, <1>6

(* A set that starts has the invariant.                                    *)
LEMMA InitHolds ==
    ASSUME Init
    PROVE  AssetsInv /\ Outdated(set) /\ Wanted(set)
  <1> DEFINE e == Free(0, 0)
  <1>1. e \in EntrySet /\ Shape(e) /\ FormBytes(e) = 0
    BY FreeTyped
  <1>2. /\ e.interest = 0 /\ e.residency = "absent" /\ ~e.used /\ ~e.candidate
    BY DEF Free
  <1>3. Nobody \in RequesterSet /\ ~Nobody.used
    BY DEF Nobody, RequesterSet
  <1> HIDE DEF e
  <1>4. /\ set.entries = [i \in Slots |-> e] /\ set.requesters = [r \in Requesters |-> Nobody]
        /\ set.residentBytes = 0 /\ set.reconciled = 0
        /\ set = [entries |-> [i \in Slots |-> e], requesters |-> [r \in Requesters |-> Nobody],
                  residentBytes |-> 0, reconciled |-> 0]
    BY DEF Init, e
  <1>5. \A i \in Slots : set.entries[i] = e
    BY <1>4
  <1>6. \A r \in Requesters : set.requesters[r] = Nobody
    BY <1>4
  <1>7. set \in SetType
    BY <1>1, <1>3, <1>4 DEF SetType
  <1>8. HeldBytes(set.entries) = 0
    BY <1>1, <1>5, HeldNone
  <1>9. Sound(set)
    BY <1>1, <1>2, <1>3, <1>4, <1>5, <1>6, <1>7, <1>8, AssetNaturals DEF Sound, MatchedAt, Within
  <1>10. TypeOK
    <2>1. catalog \in [Ids -> Revisions \cup {NoRevision}]
      BY AssetNaturals DEF Init, Revisions
    <2> QED BY <1>7, <2>1 DEF Init, TypeOK, SetType
  <1>11. AssetsInv
    BY <1>2, <1>4, <1>5, <1>9, <1>10 DEF AssetsInv, Init, Current
  <1>12. Outdated(set)
    BY <1>2, <1>5 DEF Outdated, OutdatedAt, Init
  <1>13. ASSUME NEW i \in Slots PROVE WantedAt(set, i)
    <2>1. PointingIn(set, i) = {}
      BY <1>3, <1>6 DEF PointingIn
    <2> QED BY <1>2, <1>5, <2>1, FS_EmptySet DEF WantedAt
  <1>14. Wanted(set)
    BY <1>3, <1>6, <1>13 DEF Wanted, ServedAt
  <1> QED BY <1>11, <1>12, <1>14

(* A consumer's steps                                                      *)
LEMMA ReleaseKeeps ==
    ASSUME AssetsInv, NEW r \in Requesters, Release(r)
    PROVE  /\ Keeps(set, set') /\ (Wanted(set) => Wanted(set'))
           /\ ~set'.requesters[r].used
           /\ \A p \in Requesters \ {r} : set'.requesters[p] = set.requesters[p]
           /\ UNCHANGED <<closed, catalog, published, requested, handles>>
  <1>1. /\ Keeps(set, Drop(set, r)) /\ (Wanted(set) => Wanted(Drop(set, r)))
        /\ Drop(set, r).requesters[r] = Nobody
        /\ \A p \in Requesters \ {r} : Drop(set, r).requesters[p] = set.requesters[p]
    BY DropGoes DEF AssetsInv, Release
  <1> QED BY <1>1 DEF Release, Nobody

(* A handle taken names what its slot holds.                               *)
LEMMA HandleNames ==
    ASSUME AssetsInv, NEW r \in Requesters, Handle(r)
    PROVE  /\ handles' \subseteq HandleSet
           /\ \A h \in handles' : h \in handles \/ NamedIn(set, h)
           /\ UNCHANGED <<set, closed, catalog, published, requested>>
  <1> DEFINE i == set.requesters[r].entry
             e == set.entries[i]
             h == [slot |-> i, generation |-> e.generation, id |-> e.id, revision |-> e.revision]
  <1>1. handles' = handles \cup {h}
    BY DEF Handle
  <1>2. set.requesters[r].used /\ e.residency = "resident"
    BY DEF Handle, Readiness
  <1>3. i \in Slots
    BY <1>2 DEF AssetsInv, Sound
  <1>4. e \in EntrySet /\ Shape(e) /\ e.generation \in Nat
    BY <1>3, EntryTyped DEF AssetsInv
  <1>5. e.used
    BY <1>2, <1>4 DEF Shape, EntrySet
  <1>6. e.id \in Ids /\ e.revision \in Revisions
    BY <1>4, <1>5 DEF Shape
  <1>7. h.slot = i /\ h.generation = e.generation /\ h.id = e.id /\ h.revision = e.revision
    OBVIOUS
  <1>8. h \in HandleSet
    BY <1>3, <1>4, <1>6 DEF HandleSet
  <1>9. NamedIn(set, h)
    <2> HIDE DEF h
    <2> QED BY <1>4, <1>5, <1>7 DEF NamedIn
  <1>10. handles \subseteq HandleSet
    BY DEF AssetsInv, TypeOK, HandleSet
  <1> QED BY <1>1, <1>8, <1>9, <1>10 DEF Handle

(* What closing does.                                                      *)
LEMMA CloseKeeps ==
    ASSUME AssetsInv, Close
    PROVE  /\ Keeps(set, set') /\ set'.requesters = set.requesters /\ closed'
           /\ UNCHANGED <<catalog, published, requested, handles>>
  <1>1. set' = InOrder(Gone, set)
    BY DEF Close, Gone
  <1> QED BY <1>1, GonePass DEF AssetsInv, Close

-----------------------------------------------------------------------------
(* Each step keeps the invariant.                                          *)
LEMMA AssetsStep ==
    ASSUME AssetsInv, [Next]_vars
    PROVE  AssetsInv'
  <1>1. /\ Sound(set) /\ closed \in BOOLEAN /\ requested \in Nat /\ requested + 1 \in Nat
        /\ handles \subseteq HandleSet /\ published \in Nat
        /\ set.reconciled \in Nat /\ set.reconciled <= published
    BY DEF AssetsInv, TypeOK, HandleSet
  <1>2. Keeps(set, set)
    BY <1>1, StayGoes, GoesKeeps
  <1>3. CASE \E id \in Ids : Request(id)
    <2>1. PICK id \in Ids : Request(id)
      BY <1>3
    <2>2. /\ Keeps(set, set') /\ catalog' = catalog /\ published' = published
          /\ closed' = closed /\ requested' = requested + 1 /\ handles' = handles
      BY <2>1, RequestKeeps DEF Request
    <2> QED BY <1>1, <2>2, KeepsInv
  <1>4. CASE \E r \in Requesters : Release(r)
    <2>1. PICK r \in Requesters : Release(r)
      BY <1>4
    <2>2. Keeps(set, set') /\ UNCHANGED <<closed, catalog, published, requested, handles>>
      BY <2>1, ReleaseKeeps
    <2> QED BY <1>1, <2>2, KeepsInv
  <1>5. CASE \E r \in Requesters : Handle(r)
    <2>1. PICK r \in Requesters : Handle(r)
      BY <1>5
    <2>2. /\ handles' \subseteq HandleSet /\ \A h \in handles' : h \in handles \/ NamedIn(set, h)
          /\ UNCHANGED <<set, closed, catalog, published, requested>>
      BY <2>1, HandleNames
    <2>3. Keeps(set, set') /\ \A h \in handles' : h \in handles \/ NamedIn(set', h)
      BY <1>2, <2>2
    <2> QED BY <1>1, <2>2, <2>3, KeepsInv
  <1>6. CASE \E i \in Slots : Read(i) \/ Decode(i)
    <2>1. PICK i \in Slots : Read(i) \/ Decode(i)
      BY <1>6
    <2>2. Keeps(set, set') /\ UNCHANGED <<closed, catalog, published, requested, handles>>
      BY <2>1, WorkKeeps
    <2> QED BY <1>1, <2>2, KeepsInv
  <1>7. CASE PublishCatalog
    <2>1. /\ catalog' \in Catalogs(published + 1) /\ published' = published + 1
          /\ published < MaxCatalogs
          /\ set' = set /\ closed' = closed /\ requested' = requested /\ handles' = handles
      BY <1>7 DEF PublishCatalog
    <2>2. catalog' \in [Ids -> Revisions \cup {NoRevision}]
      <3>1. published + 1 \in 1..MaxCatalogs
        BY <1>1, <2>1, AssetNaturals
      <3>2. catalog' \in [Ids -> 0..MaxCatalogs + 1]
        BY <2>1, <3>1, AssetCatalogs
      <3>3. 0..MaxCatalogs + 1 \subseteq Revisions \cup {NoRevision}
        BY AssetNaturals DEF Revisions, NoRevision
      <3> QED BY <3>2, <3>3
    <2>3. set \in SetType
      BY <1>1 DEF Sound
    <2>4. TypeOK'
      BY <1>1, <2>1, <2>2, <2>3 DEF TypeOK, SetType, HandleSet
    <2>5. set'.reconciled <= published' /\ set'.reconciled # published'
      BY <1>1, <2>1
    <2>6. (\A h \in handles : NamedIn(set, h))'
      BY <2>1 DEF AssetsInv, NamedIn
    <2>7. Sound(set)'
      BY <1>1, <2>1
    <2> QED BY <2>4, <2>5, <2>6, <2>7 DEF AssetsInv
  <1>8. CASE Update
    <2>1. /\ Sound(set') /\ Current(set') /\ set'.reconciled = published
          /\ \A i \in Slots : Uses(set.entries[i], set'.entries[i])
          /\ UNCHANGED <<closed, catalog, published, requested, handles>>
      BY <1>8, UpdateKeeps
    <2>2. set' \in SetType
      BY <2>1 DEF Sound
    <2>3. TypeOK'
      <3>1. catalog' \in [Ids -> Revisions \cup {NoRevision}]
        BY <2>1 DEF AssetsInv, TypeOK
      <3> QED BY <1>1, <2>1, <2>2, <3>1 DEF TypeOK, SetType, HandleSet
    <2>4. set'.reconciled <= published'
      BY <1>1, <2>1
    <2>5. Current(set)'
      BY <2>1 DEF Current
    <2>6. ASSUME NEW h \in handles PROVE NamedIn(set', h)
      BY <1>1, <2>1, NamedOn DEF AssetsInv
    <2>7. (\A h \in handles : NamedIn(set, h))'
      BY <2>1, <2>6 DEF NamedIn
    <2>8. Sound(set)'
      BY <2>1 DEF Sound, Shape, MatchedAt, LiveFor, Within
    <2> QED BY <2>3, <2>4, <2>5, <2>7, <2>8 DEF AssetsInv
  <1>9. CASE Close
    <2>1. /\ Keeps(set, set') /\ closed' \in BOOLEAN
          /\ UNCHANGED <<catalog, published, requested, handles>>
      BY <1>9, CloseKeeps DEF Close
    <2> QED BY <1>1, <2>1, KeepsInv
  <1>10. CASE UNCHANGED vars
    <2>1. /\ set' = set /\ closed' = closed /\ catalog' = catalog /\ published' = published
          /\ requested' = requested /\ handles' = handles
      BY <1>10 DEF vars
    <2>2. Keeps(set, set')
      BY <1>2, <2>1
    <2> QED BY <1>1, <2>1, <2>2, KeepsInv
  <1> QED BY <1>3, <1>4, <1>5, <1>6, <1>7, <1>8, <1>9, <1>10 DEF Next

-----------------------------------------------------------------------------
(* In whatever state the requests, the releases, the loads, the catalogs   *)
(* and the updates leave a set: its bytes are those of the forms it holds, *)
(* a candidate replaces a form of its own resource, and once the newest    *)
(* catalog is reconciled every candidate is of its revision.               *)
THEOREM AssetsSound == Spec => []AssetsInv
  <1>1. Init => AssetsInv
    BY InitHolds
  <1>2. AssetsInv /\ [Next]_vars => AssetsInv'
    BY AssetsStep
  <1> QED BY <1>1, <1>2, PTL DEF Spec

(* Every variable keeps its type.                                          *)
THEOREM AssetsTyped == Spec => []TypeOK
  <1>1. AssetsInv => TypeOK
    BY DEF AssetsInv
  <1> QED BY <1>1, AssetsSound, PTL

(* Whatever is loaded, evicted, replaced or failed, the bytes charged are  *)
(* those of the forms held, and never more than the budget.                *)
THEOREM BudgetAlways == Spec => []BudgetKept
  <1>1. AssetsInv => BudgetKept
    BY DEF AssetsInv, Sound, Within, BudgetKept
  <1> QED BY <1>1, AssetsSound, PTL

(* A handle never reads another resource, or another revision, than the    *)
(* one it was taken for, however its slot is used afterwards.              *)
THEOREM HandlesAlways == Spec => []HandlesName
  <1>1. AssetsInv => HandlesName
    BY DEF AssetsInv, HandlesName, Readable, NamedIn
  <1> QED BY <1>1, AssetsSound, PTL

(* No requester is moved to its resource's next revision by a step that    *)
(* leaves another resource's still being made.                             *)
THEOREM MovedAtOnce == Spec => MovedTogether
  <1> DEFINE Alone == (\E r \in Requesters : Moved(r)) => ~\E i \in Slots : set'.entries[i].candidate
  <1>1. ASSUME AssetsInv, Next, NEW r \in Requesters, Moved(r), NEW i \in Slots,
               set'.entries[i].candidate
        PROVE  FALSE
    <2>1. /\ set.requesters[r].used /\ set'.requesters[r].used /\ requested' = requested
          /\ \/ set.requesters[r].entry # set'.requesters[r].entry
             \/ set.requesters[r].entryGeneration # set'.requesters[r].entryGeneration
      BY <1>1 DEF Moved
    <2>2. set'.requesters[r] # set.requesters[r]
      BY <2>1
    <2>3. CASE \E id \in Ids : Request(id)
      <3>1. requested' = requested + 1 /\ requested \in Nat
        BY <1>1, <2>3 DEF Request, AssetsInv, TypeOK
      <3> QED BY <2>1, <3>1
    <2>4. CASE \E p \in Requesters : Release(p)
      BY <1>1, <2>1, <2>2, <2>4, ReleaseKeeps
    <2>5. CASE \E p \in Requesters : Handle(p)
      BY <2>2, <2>5 DEF Handle
    <2>6. CASE \E j \in Slots : Read(j) \/ Decode(j)
      BY <1>1, <2>2, <2>6, WorkKeeps
    <2>7. CASE PublishCatalog
      BY <2>2, <2>7 DEF PublishCatalog
    <2>8. CASE Update
      BY <1>1, <2>1, <2>8, UpdateKeeps
    <2>9. CASE Close
      BY <1>1, <2>2, <2>9, CloseKeeps
    <2> QED BY <1>1, <2>3, <2>4, <2>5, <2>6, <2>7, <2>8, <2>9 DEF Next
  <1>2. AssetsInv /\ [Next]_vars => [Alone]_vars
    BY <1>1
  <1> HIDE DEF Alone
  <1>3. Spec => [][Alone]_vars
    BY <1>2, AssetsSound, PTL DEF Spec
  <1> QED BY <1>3 DEF MovedTogether, Alone

-----------------------------------------------------------------------------
(* What counts its interest does so as long as no catalog brings back a    *)
(* revision whose form was replaced and is still held by a consumer: a     *)
(* request for it would share the form that retires.                       *)
BringsNoneBack ==
    \A i \in Slots : set.entries[i].used /\ set.entries[i].residency = "retiring"
                       => catalog'[set.entries[i].id] # set.entries[i].revision

CountedInv == ~closed => Outdated(set) /\ Wanted(set)

(* Each such step keeps the counts.                                        *)
LEMMA CountedStep ==
    ASSUME AssetsInv, CountedInv, [Next]_vars, BringsNoneBack \/ UNCHANGED vars
    PROVE  CountedInv'
  <1> SUFFICES ASSUME ~closed' PROVE (Outdated(set) /\ Wanted(set))'
    BY DEF CountedInv
  <1>1. ASSUME set' = set, catalog' = catalog, ~closed PROVE (Outdated(set) /\ Wanted(set))'
    <2>1. Outdated(set) /\ Wanted(set)
      BY <1>1 DEF CountedInv
    <2> QED BY <1>1, <2>1 DEF Outdated, OutdatedAt, Wanted, WantedAt, ServedAt, PointingIn
  <1>2. ASSUME ~closed, Outdated(set) => Outdated(set'), Outdated(set) /\ Wanted(set) => Wanted(set'),
               catalog' = catalog
        PROVE  (Outdated(set) /\ Wanted(set))'
    <2>1. Outdated(set') /\ Wanted(set')
      BY <1>2 DEF CountedInv
    <2>2. Outdated(set)'
      BY <1>2, <2>1 DEF Outdated, OutdatedAt
    <2>3. Wanted(set)'
      BY <2>1 DEF Wanted, WantedAt, ServedAt, PointingIn
    <2> QED BY <2>2, <2>3
  <1>3. CASE \E id \in Ids : Request(id)
    <2>1. PICK id \in Ids : Request(id)
      BY <1>3
    <2>2. Keeps(set, set') /\ (Outdated(set) /\ Wanted(set) => Wanted(set'))
      BY <2>1, RequestKeeps
    <2>3. ~closed /\ catalog' = catalog
      BY <2>1 DEF Request
    <2> QED BY <1>2, <2>2, <2>3 DEF Keeps
  <1>4. CASE \E r \in Requesters : Release(r)
    <2>1. PICK r \in Requesters : Release(r)
      BY <1>4
    <2>2. /\ Keeps(set, set') /\ (Wanted(set) => Wanted(set'))
          /\ closed' = closed /\ catalog' = catalog
      BY <2>1, ReleaseKeeps
    <2> QED BY <1>2, <2>2 DEF Keeps
  <1>5. CASE \E r \in Requesters : Handle(r)
    BY <1>1, <1>5 DEF Handle
  <1>6. CASE \E i \in Slots : Read(i) \/ Decode(i)
    <2>1. PICK i \in Slots : Read(i) \/ Decode(i)
      BY <1>6
    <2>2. /\ Keeps(set, set') /\ (Wanted(set) => Wanted(set'))
          /\ closed' = closed /\ catalog' = catalog
      BY <2>1, WorkKeeps
    <2> QED BY <1>2, <2>2 DEF Keeps
  <1>7. CASE PublishCatalog
    <2>1. set' = set /\ closed' = closed /\ published' = published + 1 /\ published \in Nat
      BY <1>7 DEF PublishCatalog, AssetsInv, TypeOK
    <2>2. published' # published
      BY <2>1
    <2>3. BringsNoneBack
      BY <2>2 DEF vars
    <2>4. Outdated(set)'
      BY <2>1, <2>3 DEF Outdated, OutdatedAt, BringsNoneBack
    <2>5. Wanted(set)
      BY <2>1 DEF CountedInv
    <2>6. Wanted(set)'
      BY <2>1, <2>5 DEF Wanted, WantedAt, ServedAt, PointingIn
    <2> QED BY <2>4, <2>6
  <1>8. CASE Update
    <2>1. /\ (Wanted(set) => Wanted(set')) /\ (Outdated(set) => Outdated(set'))
          /\ closed' = closed /\ catalog' = catalog
      BY <1>8, UpdateKeeps
    <2> QED BY <1>2, <2>1
  <1>9. CASE Close
    BY <1>9 DEF Close
  <1>10. CASE UNCHANGED vars
    BY <1>1, <1>10 DEF vars
  <1> QED BY <1>3, <1>4, <1>5, <1>6, <1>7, <1>8, <1>9, <1>10 DEF Next

(* So they hold in every state of such a behaviour.                        *)
LEMMA CountedAlways == Spec /\ [][BringsNoneBack]_vars => [](AssetsInv /\ CountedInv)
  <1>1. Init => CountedInv
    BY InitHolds DEF CountedInv
  <1>2. AssetsInv /\ CountedInv /\ [Next]_vars /\ [BringsNoneBack]_vars => CountedInv'
    BY CountedStep
  <1> QED BY <1>1, <1>2, AssetsSound, PTL DEF Spec

(* As long as no catalog brings such a revision back, what an entry counts *)
(* is who is interested in it, however its requesters came, were moved by  *)
(* a reload, left or were late; and the entry of a request is put to no    *)
(* other use before its consumer releases it.                              *)
THEOREM InterestAlways == Spec /\ [][BringsNoneBack]_vars => []InterestCounted
  <1>1. ASSUME AssetsInv, CountedInv PROVE InterestCounted
    <2> SUFFICES ASSUME ~closed
                 PROVE  /\ \A i \in Slots : set.entries[i].interest = Cardinality(Pointing(i))
                        /\ \A r \in Requesters :
                             set.requesters[r].used => Readiness(set, r) # "not_requested"
      BY DEF InterestCounted
    <2>1. Wanted(set)
      BY <1>1 DEF CountedInv
    <2>2. ASSUME NEW i \in Slots PROVE set.entries[i].interest = Cardinality(Pointing(i))
      BY <2>1 DEF Wanted, WantedAt, PointingIn, Pointing
    <2>3. ASSUME NEW r \in Requesters, set.requesters[r].used
          PROVE  Readiness(set, r) # "not_requested"
      <3>1. ServedAt(set, r)
        BY <2>1 DEF Wanted
      <3> QED BY <2>3, <3>1 DEF ServedAt, Readiness
    <2> QED BY <2>2, <2>3
  <1> QED BY <1>1, CountedAlways, PTL

(* So long, too, while something is awaited of a set, a read or a decoding *)
(* is under way, or the next update does something: a form whose load      *)
(* ended is taken, a reload that was made is published, and a request      *)
(* whose form is none of these has its answer.                             *)
THEOREM NothingWaitsEver == Spec /\ [][BringsNoneBack]_vars => []NothingWaits
  <1>1. ASSUME AssetsInv, CountedInv PROVE NothingWaits
    <2> SUFFICES ASSUME ~closed, Awaited,
                        \A i \in Slots : set.entries[i].work \notin {"reading", "decoding"},
                        NEW order \in Orders, Updated(set, {}, {}, order) = set
                 PROVE  FALSE
      BY DEF NothingWaits
    <2>1. Sound(set) /\ Wanted(set)
      BY <1>1 DEF AssetsInv, CountedInv
    <2>2. /\ set.reconciled = published /\ \A i \in Slots : ~Ended(set.entries[i])
          /\ \A i \in Slots : set.entries[i].candidate =>
               \E j \in Slots : set.entries[j].used /\ set.entries[j].residency = "loading"
      <3>1. Ordered(set, order)
        BY DEF Orders, Ordered
      <3>2. /\ published \in Nat /\ catalog \in [Ids -> Revisions \cup {NoRevision}]
            /\ (set.reconciled = published => Current(set))
        BY <1>1 DEF AssetsInv, TypeOK
      <3> DEFINE u == Updated(set, {}, {}, order)
      <3>3. /\ u.reconciled = published /\ \A i \in Slots : ~Ended(u.entries[i])
            /\ \A i \in Slots : u.entries[i].candidate =>
                 \E j \in Slots : u.entries[j].used /\ u.entries[j].residency = "loading"
        BY <2>1, <3>1, <3>2, UpdatedGoes
      <3>4. u = set
        OBVIOUS
      <3> HIDE DEF u
      <3> QED BY <3>3, <3>4
    <2>3. \A i \in Slots : ~(set.entries[i].used /\ set.entries[i].residency = "loading")
      BY <2>2 DEF Ended
    <2>4. PICK r \in Requesters : Readiness(set, r) = "pending"
      BY <2>2, <2>3 DEF Awaited
    <2> DEFINE i == set.requesters[r].entry
               e == set.entries[i]
    <2>5. /\ set.requesters[r].used /\ ~set.requesters[r].failed
          /\ e.generation = set.requesters[r].entryGeneration
          /\ ~e.failed /\ e.residency # "resident"
      BY <2>4 DEF Readiness
    <2>6. i \in Slots /\ e.residency \in Residency /\ Shape(e)
      BY <2>1, <2>5, EntryTyped DEF Sound
    <2>7. set.requesters[r].interested /\ e.used
      BY <2>1, <2>5 DEF Wanted, ServedAt
    <2>8. r \in PointingIn(set, i)
      BY <2>5, <2>7 DEF PointingIn
    <2>9. e.interest # 0
      BY <2>1, <2>6, <2>8, NonePoints
    <2>10. e.residency \notin {"evictable", "retiring"}
      BY <2>1, <2>6, <2>9 DEF Wanted, WantedAt
    <2>11. e.residency = "absent"
      BY <2>3, <2>5, <2>6, <2>7, <2>10 DEF Residency
    <2> QED BY <2>5, <2>6, <2>7, <2>11 DEF Shape
  <1> QED BY <1>1, CountedAlways, PTL
=============================================================================
