--------------------------- MODULE SyncEngineProofs ---------------------------
(***************************************************************************)
(* Theorems about SyncEngine, for every adapter, store, mode and bound:     *)
(* type correctness, that a skipped container hides no change, and that no  *)
(* new mapping takes an identity key the pair already has. They rest on     *)
(* what the comparison of two containers (TreeCompare) returns for any      *)
(* leaves and any mappings, which comes first: its type, and what it may    *)
(* never plan.                                                              *)
(***************************************************************************)
EXTENDS SyncEngine, TLAPS

(* The comparison of two containers. *)

\* The two sides are two.
LEMMA SidesFacts ==
  /\ "a" \in Sides /\ "b" \in Sides
  /\ \A s \in Sides : Other(s) \in Sides /\ Other(s) # s /\ Other(Other(s)) = s
  BY DEF Sides, Other

\* A key that some leaf of the side carries alone is found again by At.
LEMMA AtLeaf ==
  ASSUME NEW L, NEW s \in Sides, NEW k \in KeyedKeys(L, s)
  PROVE  /\ At(L, s, k) \in Keyed(L, s)
         /\ At(L, s, k).key = k
<1>1. PICK l \in Keyed(L, s) : l.key = k
  BY DEF KeyedKeys
<1> QED
  BY <1>1 DEF At

\* Within a side a key belongs to one keyed leaf.
LEMMA KeyedUnique ==
  ASSUME NEW L, NEW s \in Sides,
         NEW l \in Keyed(L, s), NEW x \in Keyed(L, s), l.key = x.key
  PROVE  l = x
  BY DEF Keyed, Shared

\* Bucketing divides leaves into leaves, and gives keys.
LEMMA KeyedTyped ==
  ASSUME NEW L \in [Sides -> SUBSET Leaf], NEW s \in Sides
  PROVE  /\ Keyed(L, s) \subseteq Leaf
         /\ Loose(L, s) \subseteq Leaf
         /\ \A l \in Keyed(L, s) : l.key \in Keys
         /\ KeyedKeys(L, s) \subseteq Keys
<1>1. L[s] \subseteq Leaf
  OBVIOUS
<1> QED
  BY <1>1 DEF Keyed, Loose, KeyedKeys, Leaf

\* MappingsAfter gives mappings.
LEMMA MappingsAfterTyped ==
  ASSUME NEW L \in [Sides -> SUBSET Leaf], NEW M \in SUBSET Mapping
  PROVE  MappingsAfter(L, M) \in SUBSET Mapping
<1>1. ASSUME NEW k \in OnBoth(L, M)
      PROVE  \A s \in Sides : At(L, s, k) \in Leaf /\ k \in Keys
  <2>1. \A s \in Sides : k \in KeyedKeys(L, s)
    BY <1>1 DEF OnBoth, Sides
  <2> QED
    BY <2>1, AtLeaf, KeyedTyped
<1>2. ASSUME NEW m \in M
      PROVE  Healed(L, M, m) \in Mapping
  <2>1. CASE m.mkey \in OnBoth(L, M)
    <3>1. [s \in Sides |-> At(L, s, m.mkey).id] \in [Sides -> Nat]
      BY <1>1, <2>1 DEF Leaf
    <3>2. m \in Mapping
      OBVIOUS
    <3> QED
      BY <2>1, <3>1, <3>2 DEF Healed, Mapping
  <2>2. CASE m.mkey \notin OnBoth(L, M)
    BY <2>2 DEF Healed
  <2> QED
    BY <2>1, <2>2
<1>3. ASSUME NEW k \in OnBoth(L, M)
      PROVE  NewPair(L, k) \in Mapping
  <2>1. [s \in Sides |-> At(L, s, k).id] \in [Sides -> Nat]
    BY <1>1 DEF Leaf
  <2>2. [s \in Sides |-> At(L, s, k).fp] \in [Sides -> Nat]
    BY <1>1 DEF Leaf
  <2>3. k \in Keys
    BY <1>1, SidesFacts
  <2> QED
    BY <2>1, <2>2, <2>3 DEF NewPair, Mapping
<1> QED
  BY <1>2, <1>3 DEF MappingsAfter, NewPairs

\* Merges are pairs of provider ids.
LEMMA MergesTyped ==
  ASSUME NEW L \in [Sides -> SUBSET Leaf], NEW M \in SUBSET Mapping
  PROVE  Merges(L, M) \in SUBSET [Sides -> Nat]
<1>1. ASSUME NEW m \in M
      PROVE  Healed(L, M, m).id \in [Sides -> Nat]
  <2>1. CASE m.mkey \in OnBoth(L, M)
    <3>1. \A s \in Sides : At(L, s, m.mkey) \in Leaf
      <4>1. \A s \in Sides : m.mkey \in KeyedKeys(L, s)
        BY <2>1 DEF OnBoth, Sides
      <4> QED
        BY <4>1, AtLeaf, KeyedTyped
    <3>2. m \in Mapping
      OBVIOUS
    <3> QED
      BY <2>1, <3>1, <3>2 DEF Healed, Mapping, Leaf
  <2>2. CASE m.mkey \notin OnBoth(L, M)
    BY <2>2 DEF Healed, Mapping
  <2> QED
    BY <2>1, <2>2
<1>2. \A m \in ViaCache(L, M) : m.id \in [Sides -> Nat]
  BY DEF ViaCache, Mapping
<1> QED
  BY <1>1, <1>2 DEF Merges

\* Create operations name a leaf by its id, and its key if it is keyed.
LEMMA CreatesTyped ==
  ASSUME NEW L \in [Sides -> SUBSET Leaf], NEW M \in SUBSET Mapping,
         NEW s \in Sides
  PROVE  Creates(L, M, s) \in SUBSET CreateOp
<1>1. \A l \in OnlyOn(L, M, s) : l.id \in Nat /\ l.key \in Keys
  BY KeyedTyped DEF OnlyOn, Leaf
<1>2. \A l \in Loose(L, s) : l.id \in Nat
  BY KeyedTyped DEF Leaf
<1> QED
  BY <1>1, <1>2 DEF Creates, CreateOp

\* Deletes gives ids.
LEMMA DeletesTyped ==
  ASSUME NEW L \in [Sides -> SUBSET Leaf], NEW M \in SUBSET Mapping,
         NEW s \in Sides
  PROVE  Deletes(L, M, s) \in SUBSET Nat
<1>1. \A l \in OnlyOn(L, M, s) : l.id \in Nat
  BY KeyedTyped DEF OnlyOn, Leaf
<1> QED
  BY <1>1 DEF Deletes

(***************************************************************************)
(* compare_trees returns operations of the types _execute_ops dispatches.   *)
(***************************************************************************)
THEOREM PlanTyped ==
  ASSUME NEW L \in [Sides -> SUBSET Leaf], NEW M \in SUBSET Mapping
  PROVE  Plan(L, M) \in PlanType
<1>1. Merges(L, M) \in SUBSET [Sides -> Nat]
  BY MergesTyped
<1>2. [s \in Sides |-> Creates(L, M, s)] \in [Sides -> SUBSET CreateOp]
  BY CreatesTyped
<1>3. [s \in Sides |-> Deletes(L, M, s)] \in [Sides -> SUBSET Nat]
  BY DeletesTyped
<1> QED
  BY <1>1, <1>2, <1>3 DEF Plan, PlanType

\* A combined hash is a hash.
LEMMA CombineTyped ==
  ASSUME NEW L \in [Sides -> SUBSET Leaf], NEW carried
  PROVE  Combine(L, carried) \in Merkle
<1>1. \A s \in Sides : Digest(L, s) \in SUBSET (Nat \X Nat)
  BY DEF Digest, Leaf
<1> QED
  BY <1>1 DEF Combine, Mixed, Merkle

-------------------------------------------------------------------------------
(***************************************************************************)
(* A keyed create is for a key the pair has no mapping of, and no two       *)
(* creates of a comparison, on one side or on both, have the same key: the  *)
(* mappings they will store respect the unique constraint.                  *)
(***************************************************************************)
THEOREM CreatesAreNew ==
  ASSUME NEW L \in [Sides -> SUBSET Leaf], NEW M \in SUBSET Mapping,
         NEW s \in Sides, NEW op \in Creates(L, M, s), op.key # NoKey
  PROVE  /\ op.key \notin MKeys(MappingsAfter(L, M))
         /\ \A o \in Creates(L, M, s) : o.key = op.key => o = op
         /\ \A o \in Creates(L, M, Other(s)) : o.key # op.key
<1>1. ASSUME NEW r \in Sides, NEW o \in Creates(L, M, r), o.key # NoKey
      PROVE  \E l \in OnlyOn(L, M, r) :
               /\ l.key = o.key /\ l.id = o.id /\ l.key \notin MKeys(M)
               /\ o = [id |-> l.id, key |-> l.key]
  BY <1>1 DEF Creates
<1>2. PICK l \in OnlyOn(L, M, s) :
         l.key = op.key /\ l.key \notin MKeys(M) /\ op = [id |-> l.id, key |-> l.key]
  BY <1>1
<1>3. op.key \notin KeyedKeys(L, Other(s))
  BY <1>2 DEF OnlyOn
<1>4. op.key \notin OnBoth(L, M)
  BY <1>3 DEF OnBoth, Sides, Other
<1>5. op.key \notin MKeys(MappingsAfter(L, M))
  <2>1. \A m \in M : Healed(L, M, m).mkey = m.mkey
    <3>1. \A m \in M : m \in Mapping
      OBVIOUS
    <3> QED
      BY <3>1 DEF Healed, Mapping
  <2>2. \A m \in M : Healed(L, M, m).mkey # op.key
    BY <1>2, <2>1 DEF MKeys
  <2>3. \A k \in OnBoth(L, M) : NewPair(L, k).mkey # op.key
    BY <1>4 DEF NewPair
  <2> QED
    BY <2>2, <2>3 DEF MKeys, MappingsAfter, NewPairs
<1>6. ASSUME NEW o \in Creates(L, M, s), o.key = op.key
      PROVE  o = op
  <2>1. PICK x \in OnlyOn(L, M, s) : x.key = o.key /\ o = [id |-> x.id, key |-> x.key]
    BY <1>1, <1>6
  <2>2. x = l
    BY <1>2, <2>1, <1>6, KeyedUnique DEF OnlyOn
  <2> QED
    BY <1>2, <2>1, <2>2
<1>7. ASSUME NEW o \in Creates(L, M, Other(s))
      PROVE  o.key # op.key
  <2>1. SUFFICES ASSUME o.key = op.key
                 PROVE  FALSE
    OBVIOUS
  <2>2. PICK x \in OnlyOn(L, M, Other(s)) : x.key = op.key
    BY <1>1, <1>7, <2>1, SidesFacts
  <2>3. op.key \in KeyedKeys(L, Other(s))
    BY <2>2 DEF OnlyOn, KeyedKeys
  <2> QED
    BY <1>3, <2>3
<1> QED
  BY <1>5, <1>6, <1>7

\* A merged item of a side is one paired by key or one settled by the cache.
LEMMA MergedItem ==
  ASSUME NEW L \in [Sides -> SUBSET Leaf], NEW M \in SUBSET Mapping,
         NEW s \in Sides, NEW op \in Merges(L, M)
  PROVE  \/ op[s] \in Settled(L, M, s)
         \/ \E l \in Keyed(L, s) : l.id = op[s] /\ l.key \in OnBoth(L, M)
<1>1. CASE \E m \in ViaCache(L, M) : op = m.id
  BY <1>1 DEF Settled
<1>2. CASE \E m \in M : m.mkey \in OnBoth(L, M) /\ op = Healed(L, M, m).id
  <2>1. PICK m \in M : m.mkey \in OnBoth(L, M) /\ op = Healed(L, M, m).id
    BY <1>2
  <2>2. m \in Mapping
    OBVIOUS
  <2>3. op[s] = At(L, s, m.mkey).id
    BY <2>1, <2>2 DEF Healed, Mapping
  <2>4. m.mkey \in KeyedKeys(L, s)
    BY <2>1 DEF OnBoth, Sides
  <2> QED
    BY <2>1, <2>3, <2>4, AtLeaf
<1> QED
  BY <1>1, <1>2 DEF Merges

(***************************************************************************)
(* A comparison plans at most one operation for an item: none is both       *)
(* merged and created on the other side, and none of those is deleted, so   *)
(* that the order in which _execute_ops runs the operations of a pair       *)
(* decides nothing about one item.  Provider ids are unique within a side.  *)
(***************************************************************************)
THEOREM OneOperationPerItem ==
  ASSUME NEW L \in [Sides -> SUBSET Leaf], NEW M \in SUBSET Mapping,
         \A s \in Sides : \A x, y \in L[s] : x.id = y.id => x = y
  PROVE  \A s \in Sides :
           /\ \A op \in Merges(L, M) : op[s] \notin Deletes(L, M, s)
           /\ \A op \in Merges(L, M), c \in Creates(L, M, s) : c.id # op[s]
           /\ \A c \in Creates(L, M, s) : c.id \notin Deletes(L, M, s)
<1> SUFFICES ASSUME NEW s \in Sides
             PROVE  /\ \A op \in Merges(L, M) : op[s] \notin Deletes(L, M, s)
                    /\ \A op \in Merges(L, M), c \in Creates(L, M, s) : c.id # op[s]
                    /\ \A c \in Creates(L, M, s) : c.id \notin Deletes(L, M, s)
  OBVIOUS
<1>1. \A x, y \in L[s] : x.id = y.id => x = y
  OBVIOUS
<1>2. \A id \in Settled(L, M, s) : \E l \in Loose(L, s) : l.id = id
  BY DEF Settled, ViaCache, LooseIds
<1>3. \A x \in Keyed(L, s), y \in Loose(L, s) : x.id # y.id
  BY <1>1 DEF Keyed, Loose
<1>4. \A x \in OnlyOn(L, M, s) : x \in Keyed(L, s) /\ x.key \notin OnBoth(L, M)
  BY DEF OnlyOn, OnBoth, Sides, Other
<1>5. \A id \in Deletes(L, M, s) :
         \E x \in OnlyOn(L, M, s) : x.id = id /\ x.key \in MKeys(M)
  BY DEF Deletes
<1>6. \A c \in Creates(L, M, s) :
         \/ \E x \in OnlyOn(L, M, s) : x.id = c.id /\ x.key \notin MKeys(M)
         \/ \E x \in Loose(L, s) : x.id = c.id /\ x.id \notin Settled(L, M, s)
  BY DEF Creates
<1>7. \A x, y \in Keyed(L, s) : x.id = y.id => x = y
  BY <1>1 DEF Keyed
<1>8. ASSUME NEW op \in Merges(L, M) PROVE op[s] \notin Deletes(L, M, s)
  BY <1>2, <1>3, <1>4, <1>5, <1>7, MergedItem
<1>9. ASSUME NEW op \in Merges(L, M), NEW c \in Creates(L, M, s) PROVE c.id # op[s]
  <2>1. CASE \E x \in OnlyOn(L, M, s) : x.id = c.id /\ x.key \notin MKeys(M)
    BY <2>1, <1>2, <1>3, <1>4, <1>7, MergedItem
  <2>2. CASE \E x \in Loose(L, s) : x.id = c.id /\ x.id \notin Settled(L, M, s)
    BY <2>2, <1>3, MergedItem
  <2> QED
    BY <1>6, <2>1, <2>2
<1>10. ASSUME NEW c \in Creates(L, M, s) PROVE c.id \notin Deletes(L, M, s)
  BY <1>3, <1>4, <1>5, <1>6, <1>7
<1> QED
  BY <1>8, <1>9, <1>10

--------------------------------------------------------------------------------
(* The engine. *)

USE DEF historyVars

\* The initial states are typed.
LEMMA InitTypeOK == Init => TypeOK
<1> SUFFICES ASSUME Init PROVE TypeOK
  OBVIOUS
<1>1. /\ store \in [Sides -> SUBSET Item]
      /\ left \in [user : [UserOps -> Nat], fail : Nat, crash : Nat]
  <2>1. PICK sc \in Scenarios :
          /\ store = sc.items
          /\ left = [user |-> sc.users, fail |-> MaxFail, crash |-> MaxCrash]
    BY DEF Init
  <2>2. /\ sc.items \in [Sides -> SUBSET [id : Nat, key : Keys, val : Values, ver : {1}]]
        /\ sc.users \in [UserOps -> Nat]
    BY EngineAssumption
  <2> QED
    BY <2>1, <2>2, EngineAssumption DEF Item
<1>2. nextId \in [Sides -> Nat] /\ rev \in [Sides -> Nat]
  BY EngineAssumption DEF Init
<1>3. EmptyDatabase \in Database
  BY DEF EmptyDatabase, Database, NoMerkle, Merkle, NoCursor
<1>4. tree \in [Sides -> Tree]
  BY DEF Init, NoTree, Tree, NoCursor
<1>5. plan \in PlanType
  BY DEF Init, EmptyPlan, PlanType
<1>6. cur \in Current
  BY DEF Init, NoCurrent, Current, IdPair, LegacyKeys
<1>7. used \in SUBSET Keys
  BY <1>1 DEF Init, Item
<1> QED
  BY <1>1, <1>2, <1>3, <1>4, <1>5, <1>6, <1>7, SidesFacts
     DEF Init, TypeOK, Phases

\* What EndRun leaves is typed.
LEMMA EndRunTyped ==
  ASSUME EndRun
  PROVE  /\ phase' \in Phases /\ side' \in Sides
         /\ mode' \in {"auto", "confirm", "dry"}
         /\ tree' \in [Sides -> Tree]
         /\ plan' \in PlanType
         /\ fetched' \in [Sides -> SUBSET Item]
         /\ matched' \in SUBSET IdPair
         /\ cur' \in Current
  BY DEF EndRun, Phases, Sides, NoTree, Tree, NoCursor, EmptyPlan, PlanType,
         NoCurrent, Current, IdPair, LegacyKeys

\* The bounds stay natural numbers when a failure is spent.
LEMMA SpendTyped ==
  ASSUME TypeOK, NEW n \in {0, 1}, Spend(n), n = 1 => Fallible
  PROVE  left' \in [user : [UserOps -> Nat], fail : Nat, crash : Nat]
  BY DEF TypeOK, Spend, Fallible

\* A store given items holds items.
LEMMA SetStoreTyped ==
  ASSUME TypeOK, NEW s \in Sides, NEW items \in SUBSET Item, SetStore(s, items)
  PROVE  store' \in [Sides -> SUBSET Item] /\ rev' \in [Sides -> Nat]
  BY DEF TypeOK, SetStore

\* What update_item writes over is an item.
LEMMA TargetTyped ==
  ASSUME TypeOK, NEW s \in Sides, NEW i \in Item
  PROVE  Target(s, i) \in SUBSET Item
<1>1. store[s] \in SUBSET Item /\ rev[s] \in Nat
  BY DEF TypeOK
<1>2. [i EXCEPT !.ver = rev[s]] \in Item
  BY <1>1 DEF Item
<1> QED
  BY <1>1, <1>2 DEF Target

\* A write is typed, and costs a failure only where one may happen.
LEMMA PushesTyped ==
  ASSUME TypeOK, NEW s \in Sides, NEW i \in Item, NEW v \in Values,
         NEW w \in Pushes(s, i, v)
  PROVE  /\ w.items \in SUBSET Item
         /\ w.fp \in Nat /\ w.ok \in BOOLEAN
         /\ w.cost \in {0, 1} /\ (w.cost = 1 => Fallible)
<1>1. store[s] \in SUBSET Item /\ i.ver \in Nat
  BY DEF TypeOK, Item
<1>2. Updated(s, i, v) \in SUBSET Item
  <2>1. ASSUME NEW x \in Item
        PROVE  [x EXCEPT !.val = v, !.ver = @ + 1] \in Item
    <3>1. x.ver + 1 \in Nat
      BY DEF Item
    <3> QED
      BY <3>1 DEF Item
  <2> QED
    BY <1>1, <2>1, TargetTyped DEF Updated
<1>3. \A x \in Target(s, i) : x.ver + 1 \in Nat
  BY TargetTyped DEF Item
<1>4. CASE w \in Updates(s, i, v)
  <2>1. CASE w \in {[items |-> Updated(s, i, v), ok |-> TRUE, fp |-> x.ver + 1,
                     cost |-> 0] : x \in Target(s, i)}
    <3>1. PICK x \in Target(s, i) :
             w = [items |-> Updated(s, i, v), ok |-> TRUE, fp |-> x.ver + 1, cost |-> 0]
      BY <2>1
    <3>2. w.items = Updated(s, i, v) /\ w.ok = TRUE /\ w.fp = x.ver + 1 /\ w.cost = 0
      BY <3>1
    <3>3. w.items \in SUBSET Item /\ w.fp \in Nat
      BY <1>2, <1>3, <3>2
    <3>4. w.ok \in BOOLEAN
      BY <3>2, Zenon
    <3>5. w.cost \in {0, 1} /\ w.cost # 1
      BY <3>2
    <3> QED
      BY <3>3, <3>4, <3>5
  <2>2. CASE w = [items |-> store[s], ok |-> FALSE, fp |-> i.ver, cost |-> 0]
    BY <1>1, <2>2
  <2>3. CASE /\ Fallible
             /\ \E t \in {store[s], Updated(s, i, v)} :
                  w = [items |-> t, ok |-> FALSE, fp |-> i.ver, cost |-> 1]
    BY <1>1, <1>2, <2>3
  <2> QED
    BY <1>4, <2>1, <2>2, <2>3 DEF Updates
<1>5. CASE w = [items |-> store[s], ok |-> TRUE, fp |-> i.ver, cost |-> 0]
  BY <1>1, <1>5
<1> QED
  BY <1>4, <1>5 DEF Pushes

\* What create_item may leave is typed, and a failure has its cost.
LEMMA CreationsTyped ==
  ASSUME TypeOK, NEW t \in Sides, NEW i \in Item, NEW w \in Creations(t, i)
  PROVE  /\ w.items \in SUBSET Item
         /\ w.ok \in BOOLEAN
         /\ w.cost \in {0, 1} /\ (w.cost = 1 => Fallible)
<1>1. store[t] \in SUBSET Item /\ nextId[t] \in Nat
  BY DEF TypeOK
<1>2. [id |-> nextId[t], key |-> i.key, val |-> i.val, ver |-> 1] \in Item
  BY <1>1 DEF Item
<1> DEFINE new == [id |-> nextId[t], key |-> i.key, val |-> i.val, ver |-> 1]
<1>3. store[t] \cup {new} \in SUBSET Item
  BY <1>1, <1>2
<1>4. CASE w = [items |-> store[t] \cup {new}, ok |-> TRUE, cost |-> 0]
  BY <1>3, <1>4
<1>5. CASE /\ Fallible
           /\ \E t2 \in {store[t], store[t] \cup {new}} :
                w = [items |-> t2, ok |-> FALSE, cost |-> 1]
  BY <1>1, <1>3, <1>5
<1>6. CASE w = [items |-> store[t], ok |-> FALSE, cost |-> 0]
  BY <1>1, <1>6
<1> QED
  BY <1>4, <1>5, <1>6 DEF Creations

\* What get_items may return is a set of items.
LEMMA ReadingsTyped ==
  ASSUME TypeOK, NEW s \in Sides, NEW ids, NEW r \in Readings(s, ids)
  PROVE  /\ r.items \in SUBSET Item
         /\ r.cost \in {0, 1} /\ (r.cost = 1 => Fallible)
<1>1. store[s] \in SUBSET Item
  BY DEF TypeOK
<1> QED
  BY <1>1 DEF Readings

\* A merge gives one of the two values.
LEMMA MergeResultsTyped ==
  ASSUME NEW x \in Item, NEW y \in Item, NEW snap, NEW v \in MergeResults(x, y, snap)
  PROVE  v \in Values
  BY DEF MergeResults, MergeScalar, Item

\* _identity_match returns pairs of ids.
LEMMA MatchingsTyped ==
  ASSUME NEW F \in [Sides -> SUBSET Item], NEW S \in Matchings(F)
  PROVE  S \in SUBSET IdPair
<1>1. \A s \in Sides : Ids(F[s]) \subseteq Nat
  BY DEF Ids, Item
<1>2. \A p \in [Sides -> Ids(F["a"]) \cup Ids(F["b"])] : p \in IdPair
  BY <1>1 DEF IdPair, Sides
<1> QED
  BY <1>2 DEF Matchings

\* A new mapping gets an identity key or a legacy one.
LEMMA MappingKeyTyped ==
  ASSUME NEW ka \in Keys \cup {NoKey}, NEW kb \in Keys \cup {NoKey},
         NEW ids \in IdPair
  PROVE  MappingKey(ka, kb, ids) \in Keys \cup LegacyKeys
  BY DEF MappingKey, LegacyKey, LegacyKeys, IdPair, Sides

-------------------------------------------------------------------------------
(* Every step keeps the types. *)

\* A database with other mappings is a database.
LEMMA DatabaseTyped ==
  ASSUME NEW d \in Database, NEW M \in SUBSET Mapping
  PROVE  [d EXCEPT !.maps = M] \in Database
  BY DEF Database

\* A step that ends the run without a commit keeps the types.
LEMMA RollbackTypeOK ==
  ASSUME TypeOK, Rollback, UNCHANGED historyVars,
         store' \in [Sides -> SUBSET Item], nextId' \in [Sides -> Nat],
         rev' \in [Sides -> Nat],
         left' \in [user : [UserOps -> Nat], fail : Nat, crash : Nat]
  PROVE  TypeOK'
<1>1. EndRun
  BY DEF Rollback
<1>2. /\ phase' \in Phases /\ side' \in Sides
      /\ mode' \in {"auto", "confirm", "dry"}
      /\ tree' \in [Sides -> Tree] /\ plan' \in PlanType
      /\ fetched' \in [Sides -> SUBSET Item]
      /\ matched' \in SUBSET IdPair /\ cur' \in Current
  BY <1>1, EndRunTyped
<1>3. db' \in Database /\ sess' \in Database
  BY DEF Rollback, TypeOK
<1>4. used' \in SUBSET Keys /\ deleted' \in SUBSET (Keys \X BOOLEAN)
  BY DEF TypeOK
<1> QED
  BY <1>2, <1>3, <1>4 DEF TypeOK

\* Start keeps the types.
LEMMA StartTypeOK ==
  ASSUME TypeOK, NEW md \in Modes, Start(md)
  PROVE  TypeOK'
<1>1. md \in {"auto", "confirm", "dry"}
  BY EngineAssumption
<1> QED
  BY <1>1, SidesFacts
     DEF TypeOK, Start, VisitPhase, Phases, serverVars, workVars

\* The phase after a tree is built is one of the phases.
LEMMA BuiltTyped ==
  ASSUME NEW s, Built(s)
  PROVE  phase' \in Phases /\ side' \in Sides
  BY SidesFacts DEF Built, VisitPhase, Phases

\* SkipContainer keeps the types.
LEMMA SkipContainerTypeOK ==
  ASSUME TypeOK, NEW s \in Sides, SkipContainer(s)
  PROVE  TypeOK'
<1>1. tree' \in [Sides -> Tree]
  BY DEF TypeOK, SkipContainer, Tree
<1>2. phase' \in Phases /\ side' \in Sides
  BY BuiltTyped DEF SkipContainer
<1> QED
  BY <1>1, <1>2 DEF TypeOK, SkipContainer, serverVars

\* ReadState keeps the types.
LEMMA ReadStateTypeOK ==
  ASSUME TypeOK, NEW s \in Sides, ReadState(s)
  PROVE  TypeOK'
<1>1. tree' \in [Sides -> Tree]
  <2>1. tree[s] \in Tree /\ rev[s] \in Nat
    BY DEF TypeOK
  <2>2. [tree[s] EXCEPT !.cursor = rev[s]] \in Tree
    BY <2>1 DEF Tree
  <2> QED
    BY <2>2 DEF TypeOK, ReadState
<1> QED
  BY <1>1 DEF TypeOK, ReadState, serverVars, Phases

\* List keeps the types.
LEMMA ListTypeOK ==
  ASSUME TypeOK, NEW s \in Sides, List(s)
  PROVE  TypeOK'
<1>1. {LeafOf(s, i) : i \in store[s]} \in SUBSET Leaf
  <2>1. \A i \in store[s] : i \in Item
    BY DEF TypeOK
  <2>2. \A i \in Item : IdentityKey(s, i) \in Keys \cup {NoKey}
    BY EngineAssumption DEF IdentityKey, Item
  <2> QED
    BY <2>1, <2>2 DEF LeafOf, Leaf, Item
<1>2. tree' \in [Sides -> Tree]
  <2>1. [tree[s] EXCEPT !.leaves = {LeafOf(s, i) : i \in store[s]}] \in Tree
    BY <1>1 DEF TypeOK, Tree
  <2> QED
    BY <2>1 DEF TypeOK, List
<1>3. phase' \in Phases /\ side' \in Sides
  BY BuiltTyped DEF List
<1> QED
  BY <1>2, <1>3 DEF TypeOK, List, serverVars

\* Compare keeps the types.
LEMMA CompareTypeOK ==
  ASSUME TypeOK, Compare
  PROVE  TypeOK'
<1>1. Listed \in [Sides -> SUBSET Leaf]
  BY DEF Listed, TypeOK, Tree
<1>2. sess.maps \in SUBSET Mapping /\ sess \in Database
  BY DEF TypeOK, Database
<1>3. Plan(Listed, sess.maps) \in PlanType
  BY <1>1, <1>2, PlanTyped
<1>4. MappingsAfter(Listed, sess.maps) \in SUBSET Mapping
  BY <1>1, <1>2, MappingsAfterTyped
<1>5. Combine(Listed, Carried) \in Merkle
  BY <1>1, CombineTyped
<1>6. [sess EXCEPT !.maps = MappingsAfter(Listed, sess.maps),
                   !.merkle = Combine(Listed, Carried)] \in Database
  BY <1>2, <1>4, <1>5 DEF Database
<1>7. plan' \in PlanType /\ sess' \in Database
  BY <1>3, <1>6 DEF Compare, TypeOK
<1>8. tree' \in [Sides -> Tree]
  <2>1. \A s \in Sides : [tree[s] EXCEPT !.leaves = {}] \in Tree
    BY DEF TypeOK, Tree
  <2> QED
    BY <2>1 DEF Compare
<1> QED
  BY <1>7, <1>8 DEF TypeOK, Compare, serverVars, Phases

\* Proceed keeps the types.
LEMMA ProceedTypeOK ==
  ASSUME TypeOK, Proceed
  PROVE  TypeOK'
  BY DEF TypeOK, Proceed, PhaseAfter, Phases, serverVars, workVars

\* The items of both sides stay items when those of one are replaced.
LEMMA FetchedTyped ==
  ASSUME TypeOK, NEW s \in Sides, NEW items \in SUBSET Item
  PROVE  [fetched EXCEPT ![s] = items] \in [Sides -> SUBSET Item]
  BY DEF TypeOK

\* FetchMerges keeps the types.
LEMMA FetchMergesTypeOK ==
  ASSUME TypeOK, NEW s \in Sides, FetchMerges(s)
  PROVE  TypeOK'
<1>1. PICK r \in Readings(s, {op[s] : op \in plan.merges}) :
         fetched' = [fetched EXCEPT ![s] = r.items] /\ Spend(r.cost)
  BY DEF FetchMerges
<1>2. fetched' \in [Sides -> SUBSET Item]
  BY <1>1, ReadingsTyped, FetchedTyped
<1>3. left' \in [user : [UserOps -> Nat], fail : Nat, crash : Nat]
  BY <1>1, ReadingsTyped, SpendTyped
<1>4. side' \in Sides /\ phase' \in Phases
  BY SidesFacts DEF FetchMerges, TypeOK, Phases
<1> QED
  BY <1>2, <1>3, <1>4 DEF TypeOK, FetchMerges, serverVars

\* No items on either side are items.
LEMMA NothingFetchedTyped == [s \in Sides |-> {}] \in [Sides -> SUBSET Item]
  OBVIOUS

\* FetchMergesFails keeps the types.
LEMMA FetchMergesFailsTypeOK ==
  ASSUME TypeOK, FetchMergesFails
  PROVE  TypeOK'
<1>1. plan' \in PlanType
  BY DEF TypeOK, FetchMergesFails, PlanType
<1>2. fetched' \in [Sides -> SUBSET Item]
  BY NothingFetchedTyped DEF FetchMergesFails
<1>3. left' \in [user : [UserOps -> Nat], fail : Nat, crash : Nat]
  BY SpendTyped DEF FetchMergesFails
<1>4. side' \in Sides /\ phase' \in Phases
  BY SidesFacts DEF FetchMergesFails, PhaseAfter, Phases
<1> QED
  BY <1>1, <1>2, <1>3, <1>4 DEF TypeOK, FetchMergesFails, serverVars

\* A plan without one of its merges is a plan.
LEMMA MergeDoneTyped ==
  ASSUME TypeOK, NEW op, MergeDone(op)
  PROVE  /\ plan' \in PlanType
         /\ phase' \in Phases
         /\ fetched' \in [Sides -> SUBSET Item]
<1>1. [plan EXCEPT !.merges = @ \ {op}] \in PlanType
  BY DEF TypeOK, PlanType
<1> QED
  BY <1>1, NothingFetchedTyped DEF TypeOK, MergeDone, PhaseAfter, Phases

\* MergeSkipped keeps the types.
LEMMA MergeSkippedTypeOK ==
  ASSUME TypeOK, NEW op, MergeSkipped(op)
  PROVE  TypeOK'
  BY MergeDoneTyped DEF TypeOK, MergeSkipped, serverVars

\* The writes of a merge to one side.
LEMMA PushTyped ==
  ASSUME TypeOK, NEW s \in Sides, NEW i \in Item, NEW v \in Values,
         NEW w \in Pushes(s, i, v), SetStore(s, w.items), Spend(w.cost)
  PROVE  /\ store' \in [Sides -> SUBSET Item] /\ rev' \in [Sides -> Nat]
         /\ left' \in [user : [UserOps -> Nat], fail : Nat, crash : Nat]
         /\ w.fp \in Nat /\ w.ok \in BOOLEAN
  BY PushesTyped, SetStoreTyped, SpendTyped

\* MergeWriteA keeps the types.
LEMMA MergeWriteATypeOK ==
  ASSUME TypeOK, NEW op \in plan.merges, MergeWriteA(op)
  PROVE  TypeOK' /\ cur'.val \in Values
<1>1. PICK x \in fetched["a"], y \in fetched["b"], m \in sess.maps :
        \E v \in MergeResults(x, y, m.snap) : \E w \in Pushes("a", x, v) :
          /\ SetStore("a", w.items)
          /\ Spend(w.cost)
          /\ cur' = [ids |-> op, mkey |-> m.mkey, val |-> v, fp |-> w.fp, ok |-> w.ok]
  BY DEF MergeWriteA
<1>2. PICK v \in MergeResults(x, y, m.snap) : \E w \in Pushes("a", x, v) :
        /\ SetStore("a", w.items)
        /\ Spend(w.cost)
        /\ cur' = [ids |-> op, mkey |-> m.mkey, val |-> v, fp |-> w.fp, ok |-> w.ok]
  BY <1>1
<1>3. PICK w \in Pushes("a", x, v) :
        /\ SetStore("a", w.items)
        /\ Spend(w.cost)
        /\ cur' = [ids |-> op, mkey |-> m.mkey, val |-> v, fp |-> w.fp, ok |-> w.ok]
  BY <1>2
<1>4. x \in Item /\ y \in Item /\ m \in Mapping
  BY SidesFacts DEF TypeOK, Database
<1>5. v \in Values
  BY <1>4, MergeResultsTyped
<1>6. /\ store' \in [Sides -> SUBSET Item] /\ rev' \in [Sides -> Nat]
      /\ left' \in [user : [UserOps -> Nat], fail : Nat, crash : Nat]
      /\ w.fp \in Nat /\ w.ok \in BOOLEAN
  BY <1>3, <1>4, <1>5, PushTyped, SidesFacts
<1>7. op \in IdPair /\ m.mkey \in Keys \cup LegacyKeys
  BY <1>4 DEF TypeOK, PlanType, IdPair, Mapping
<1>8. cur' \in Current
  BY <1>3, <1>5, <1>6, <1>7 DEF Current
<1>9. cur'.val \in Values
  BY <1>3, <1>5
<1> QED
  BY <1>6, <1>8, <1>9 DEF TypeOK, MergeWriteA, Phases

\* Recording a merge leaves mappings.
LEMMA RecordMergeTyped ==
  ASSUME TypeOK, NEW fpb \in Nat, NEW ok
  PROVE  RecordMerge(sess.maps, fpb, ok) \in SUBSET Mapping
<1>1. [s \in Sides |-> IF s = "a" THEN cur.fp ELSE fpb] \in [Sides -> Nat]
  BY DEF TypeOK, Current
<1>2. cur.val \in Values \cup {NoSnap}
  BY DEF TypeOK, Current
<1>3. ASSUME NEW m \in Mapping
      PROVE  [m EXCEPT !.fp = [s \in Sides |-> IF s = "a" THEN cur.fp ELSE fpb],
                       !.snap = cur.val] \in Mapping
  BY <1>1, <1>2 DEF Mapping
<1>4. sess.maps \in SUBSET Mapping
  BY DEF TypeOK, Database
<1> QED
  BY <1>3, <1>4 DEF RecordMerge

\* No merge is under way without a value: the step that starts one gives it.
LEMMA MergeWriteBTypeOK ==
  ASSUME TypeOK, cur.val \in Values, MergeWriteB
  PROVE  TypeOK'
<1>1. PICK y \in fetched["b"] : \E w \in Pushes("b", y, cur.val) :
        /\ SetStore("b", w.items)
        /\ Spend(w.cost)
        /\ sess' = [sess EXCEPT !.maps = RecordMerge(@, w.fp, w.ok)]
  BY DEF MergeWriteB
<1>2. PICK w \in Pushes("b", y, cur.val) :
        /\ SetStore("b", w.items)
        /\ Spend(w.cost)
        /\ sess' = [sess EXCEPT !.maps = RecordMerge(@, w.fp, w.ok)]
  BY <1>1
<1>3. y \in Item
  BY SidesFacts DEF TypeOK
<1>4. /\ store' \in [Sides -> SUBSET Item] /\ rev' \in [Sides -> Nat]
      /\ left' \in [user : [UserOps -> Nat], fail : Nat, crash : Nat]
      /\ w.fp \in Nat
  BY <1>2, <1>3, PushTyped, SidesFacts
<1>5. sess' \in Database
  BY <1>2, <1>4, RecordMergeTyped, DatabaseTyped DEF TypeOK
<1>6. plan' \in PlanType /\ phase' \in Phases /\ fetched' \in [Sides -> SUBSET Item]
  BY MergeDoneTyped DEF MergeWriteB
<1>7. cur' \in Current
  BY DEF MergeWriteB, NoCurrent, Current, IdPair, LegacyKeys
<1> QED
  BY <1>4, <1>5, <1>6, <1>7 DEF TypeOK, MergeWriteB

\* Matching leaves pairs of ids and a plan.
LEMMA SourcesReadTyped ==
  ASSUME TypeOK, NEW F \in [Sides -> SUBSET Item], SourcesRead(F)
  PROVE  matched' \in SUBSET IdPair /\ plan' \in PlanType
<1>1. matched' \in SUBSET IdPair
  BY MatchingsTyped DEF SourcesRead
<1>2. [s \in Sides |-> {op \in plan.creates[s] : op.id \in Ids(F[s])}]
        \in [Sides -> SUBSET CreateOp]
  BY DEF TypeOK, PlanType
<1>3. plan' \in PlanType
  BY <1>2 DEF SourcesRead, TypeOK, PlanType
<1> QED
  BY <1>1, <1>3

\* FetchSources keeps the types.
LEMMA FetchSourcesTypeOK ==
  ASSUME TypeOK, NEW s \in Sides, FetchSources(s)
  PROVE  TypeOK'
<1>1. PICK r \in Readings(s, CreateIds(s)) :
         LET F == [fetched EXCEPT ![s] = r.items]
         IN  /\ fetched' = F
             /\ Spend(r.cost)
             /\ IF s = "a" THEN side' = "b" /\ UNCHANGED <<phase, plan, matched>>
                ELSE side' = "a" /\ phase' = "apply" /\ SourcesRead(F)
  BY DEF FetchSources
<1>2. fetched' \in [Sides -> SUBSET Item]
  BY <1>1, ReadingsTyped, FetchedTyped
<1>3. left' \in [user : [UserOps -> Nat], fail : Nat, crash : Nat]
  BY <1>1, ReadingsTyped, SpendTyped
<1>4. \/ UNCHANGED <<phase, plan, matched>>
      \/ phase' = "apply" /\ SourcesRead(fetched')
  BY <1>1
<1>5. plan' \in PlanType /\ matched' \in SUBSET IdPair
  BY <1>2, <1>4, SourcesReadTyped DEF TypeOK
<1>6. side' \in Sides /\ phase' \in Phases
  BY <1>1, <1>4, SidesFacts DEF TypeOK, Phases
<1> QED
  BY <1>2, <1>3, <1>5, <1>6 DEF TypeOK, FetchSources, serverVars

\* FetchSourcesFails keeps the types.
LEMMA FetchSourcesFailsTypeOK ==
  ASSUME TypeOK, NEW s \in Sides, FetchSourcesFails(s)
  PROVE  TypeOK'
<1>1. fetched' \in [Sides -> SUBSET Item]
  BY FetchedTyped DEF FetchSourcesFails
<1>2. left' \in [user : [UserOps -> Nat], fail : Nat, crash : Nat]
  BY SpendTyped DEF FetchSourcesFails
<1>3. \/ UNCHANGED <<phase, plan, matched>>
      \/ phase' = "apply" /\ SourcesRead(fetched')
  BY DEF FetchSourcesFails
<1>4. plan' \in PlanType /\ matched' \in SUBSET IdPair
  BY <1>1, <1>3, SourcesReadTyped DEF TypeOK
<1>5. side' \in Sides /\ phase' \in Phases
  BY <1>3, SidesFacts DEF TypeOK, Phases, FetchSourcesFails
<1> QED
  BY <1>1, <1>2, <1>4, <1>5 DEF TypeOK, FetchSourcesFails, serverVars

\* MatchWriteA keeps the types.
LEMMA MatchWriteATypeOK ==
  ASSUME TypeOK, NEW ids \in matched, MatchWriteA(ids)
  PROVE  TypeOK' /\ cur'.val \in Values
<1>1. PICK x \in fetched["a"], y \in fetched["b"],
           opA \in plan.creates["a"], opB \in plan.creates["b"] :
        \E v \in MergeResults(x, y, NoSnap) : \E w \in Pushes("a", x, v) :
          /\ SetStore("a", w.items)
          /\ Spend(w.cost)
          /\ cur' = [ids |-> ids, mkey |-> MappingKey(opA.key, opB.key, ids),
                     val |-> v, fp |-> w.fp, ok |-> w.ok]
  BY DEF MatchWriteA
<1>2. PICK v \in MergeResults(x, y, NoSnap) : \E w \in Pushes("a", x, v) :
        /\ SetStore("a", w.items)
        /\ Spend(w.cost)
        /\ cur' = [ids |-> ids, mkey |-> MappingKey(opA.key, opB.key, ids),
                   val |-> v, fp |-> w.fp, ok |-> w.ok]
  BY <1>1
<1>3. PICK w \in Pushes("a", x, v) :
        /\ SetStore("a", w.items)
        /\ Spend(w.cost)
        /\ cur' = [ids |-> ids, mkey |-> MappingKey(opA.key, opB.key, ids),
                   val |-> v, fp |-> w.fp, ok |-> w.ok]
  BY <1>2
<1>4. x \in Item /\ y \in Item /\ ids \in IdPair
  BY SidesFacts DEF TypeOK
<1>5. opA \in CreateOp /\ opB \in CreateOp
  BY SidesFacts DEF TypeOK, PlanType
<1>6. v \in Values
  BY <1>4, MergeResultsTyped
<1>7. /\ store' \in [Sides -> SUBSET Item] /\ rev' \in [Sides -> Nat]
      /\ left' \in [user : [UserOps -> Nat], fail : Nat, crash : Nat]
      /\ w.fp \in Nat /\ w.ok \in BOOLEAN
  BY <1>3, <1>4, <1>6, PushTyped, SidesFacts
<1>8. MappingKey(opA.key, opB.key, ids) \in Keys \cup LegacyKeys
  BY <1>4, <1>5, MappingKeyTyped DEF CreateOp
<1>9. cur' \in Current /\ cur'.val \in Values
  BY <1>3, <1>4, <1>6, <1>7, <1>8 DEF Current
<1> QED
  BY <1>7, <1>9 DEF TypeOK, MatchWriteA, Phases

\* A run that goes on with a plan is typed.
LEMMA ContinueTyped ==
  ASSUME TypeOK, NEW p \in PlanType, Continue(p)
  PROVE  /\ phase' \in Phases /\ side' \in Sides
         /\ mode' \in {"auto", "confirm", "dry"}
         /\ tree' \in [Sides -> Tree] /\ plan' \in PlanType
         /\ fetched' \in [Sides -> SUBSET Item]
         /\ matched' \in SUBSET IdPair /\ cur' \in Current
  BY DEF TypeOK, Continue, Phases, NoCurrent, Current, IdPair, LegacyKeys

\* Recording a mapping, or failing to, is typed.
LEMMA RecordTyped ==
  ASSUME TypeOK, NEW p \in PlanType, NEW m \in Mapping, Record(m, p)
  PROVE  /\ phase' \in Phases /\ side' \in Sides
         /\ mode' \in {"auto", "confirm", "dry"}
         /\ tree' \in [Sides -> Tree] /\ plan' \in PlanType
         /\ fetched' \in [Sides -> SUBSET Item]
         /\ matched' \in SUBSET IdPair /\ cur' \in Current
         /\ db' \in Database /\ sess' \in Database
<1>1. CASE Rollback
  BY <1>1, EndRunTyped DEF Rollback, TypeOK
<1>2. CASE sess' = [sess EXCEPT !.maps = @ \cup {m}] /\ Continue(p) /\ UNCHANGED db
  <2>1. sess.maps \cup {m} \in SUBSET Mapping
    BY DEF TypeOK, Database
  <2>2. sess' \in Database
    BY <1>2, <2>1, DatabaseTyped DEF TypeOK
  <2> QED
    BY <1>2, <2>2, ContinueTyped DEF TypeOK
<1> QED
  BY <1>1, <1>2 DEF Record

\* MatchWriteB keeps the types.
LEMMA MatchWriteBTypeOK ==
  ASSUME TypeOK, cur.val \in Values, MatchWriteB
  PROVE  TypeOK'
<1> DEFINE m(w) == [mkey |-> cur.mkey, id |-> cur.ids,
                    fp   |-> [s \in Sides |-> IF s = "a" THEN cur.fp ELSE w.fp],
                    snap |-> cur.val]
<1>1. PICK y \in fetched["b"] : \E w \in Pushes("b", y, cur.val) :
        /\ SetStore("b", w.items)
        /\ Spend(w.cost)
        /\ Record(m(w), WithoutPair(cur.ids))
  BY DEF MatchWriteB
<1>2. PICK w \in Pushes("b", y, cur.val) :
        /\ SetStore("b", w.items)
        /\ Spend(w.cost)
        /\ Record(m(w), WithoutPair(cur.ids))
  BY <1>1
<1>3. y \in Item
  BY SidesFacts DEF TypeOK
<1>4. /\ store' \in [Sides -> SUBSET Item] /\ rev' \in [Sides -> Nat]
      /\ left' \in [user : [UserOps -> Nat], fail : Nat, crash : Nat]
      /\ w.fp \in Nat
  BY <1>2, <1>3, PushTyped, SidesFacts
<1>5. m(w) \in Mapping
  <2>1. [s \in Sides |-> IF s = "a" THEN cur.fp ELSE w.fp] \in [Sides -> Nat]
    BY <1>4 DEF TypeOK, Current
  <2> QED
    BY <2>1 DEF TypeOK, Current, Mapping, IdPair
<1>6. WithoutPair(cur.ids) \in PlanType
  <2>1. [s \in Sides |-> {op \in plan.creates[s] : op.id # cur.ids[s]}]
          \in [Sides -> SUBSET CreateOp]
    BY DEF TypeOK, PlanType
  <2> QED
    BY <2>1 DEF TypeOK, PlanType, WithoutPair
<1>7. /\ phase' \in Phases /\ side' \in Sides
      /\ mode' \in {"auto", "confirm", "dry"}
      /\ tree' \in [Sides -> Tree] /\ plan' \in PlanType
      /\ fetched' \in [Sides -> SUBSET Item]
      /\ matched' \in SUBSET IdPair /\ cur' \in Current
      /\ db' \in Database /\ sess' \in Database
  <2>1. Record(m(w), WithoutPair(cur.ids))
    BY <1>2
  <2> HIDE DEF m
  <2> QED
    BY <2>1, <1>5, <1>6, RecordTyped
<1> QED
  BY <1>4, <1>7 DEF TypeOK, MatchWriteB

\* Create keeps the types.
LEMMA CreateTypeOK ==
  ASSUME TypeOK, NEW s \in Sides, NEW op \in plan.creates[s], Create(s, op)
  PROVE  TypeOK'
<1> DEFINE p == [plan EXCEPT !.creates[s] = @ \ {op}]
<1>1. PICK x \in fetched[s] : \E w \in Creations(Other(s), x) :
        /\ SetStore(Other(s), w.items)
        /\ nextId' = IF w.items = store[Other(s)] THEN nextId
                     ELSE [nextId EXCEPT ![Other(s)] = @ + 1]
        /\ Spend(w.cost)
        /\ IF w.ok THEN Record(CreatedMapping(s, op, x), p)
           ELSE Continue(p) /\ UNCHANGED <<db, sess>>
  BY DEF Create
<1>2. PICK w \in Creations(Other(s), x) :
        /\ SetStore(Other(s), w.items)
        /\ nextId' = IF w.items = store[Other(s)] THEN nextId
                     ELSE [nextId EXCEPT ![Other(s)] = @ + 1]
        /\ Spend(w.cost)
        /\ IF w.ok THEN Record(CreatedMapping(s, op, x), p)
           ELSE Continue(p) /\ UNCHANGED <<db, sess>>
  BY <1>1
<1>3. x \in Item /\ op \in CreateOp /\ Other(s) \in Sides
  BY SidesFacts DEF TypeOK, PlanType
<1>4. /\ w.items \in SUBSET Item
      /\ w.cost \in {0, 1} /\ (w.cost = 1 => Fallible)
  BY <1>3, CreationsTyped
<1>5. /\ store' \in [Sides -> SUBSET Item] /\ rev' \in [Sides -> Nat]
      /\ left' \in [user : [UserOps -> Nat], fail : Nat, crash : Nat]
  BY <1>2, <1>3, <1>4, SetStoreTyped, SpendTyped
<1>6. nextId' \in [Sides -> Nat]
  BY <1>2, <1>3 DEF TypeOK
<1>7. p \in PlanType
  <2>1. [plan.creates EXCEPT ![s] = @ \ {op}] \in [Sides -> SUBSET CreateOp]
    BY DEF TypeOK, PlanType
  <2> QED
    BY <2>1 DEF TypeOK, PlanType
<1>8. CreatedMapping(s, op, x) \in Mapping
  <2> DEFINE ids == [r \in Sides |-> IF r = s THEN x.id ELSE nextId[r]]
             fps == [r \in Sides |-> IF r = s THEN x.ver ELSE 1]
  <2>1. ids \in IdPair /\ fps \in [Sides -> Nat]
    BY <1>3 DEF TypeOK, Item, IdPair
  <2>2. MappingKey(op.key, NoKey, ids) \in Keys \cup LegacyKeys
    BY <1>3, <2>1, MappingKeyTyped DEF CreateOp
  <2>3. x.val \in Values
    BY <1>3 DEF Item
  <2> HIDE DEF ids, fps
  <2>4. [mkey |-> MappingKey(op.key, NoKey, ids), id |-> ids, fp |-> fps,
         snap |-> x.val] \in Mapping
    BY <2>1, <2>2, <2>3 DEF Mapping, IdPair
  <2> QED
    BY <2>4 DEF CreatedMapping, ids, fps
<1>9. /\ phase' \in Phases /\ side' \in Sides
      /\ mode' \in {"auto", "confirm", "dry"}
      /\ tree' \in [Sides -> Tree] /\ plan' \in PlanType
      /\ fetched' \in [Sides -> SUBSET Item]
      /\ matched' \in SUBSET IdPair /\ cur' \in Current
      /\ db' \in Database /\ sess' \in Database
  <2> HIDE DEF p
  <2>1. CASE Record(CreatedMapping(s, op, x), p)
    BY <2>1, <1>7, <1>8, RecordTyped
  <2>2. CASE Continue(p) /\ UNCHANGED <<db, sess>>
    BY <2>2, <1>7, ContinueTyped DEF TypeOK
  <2> QED
    BY <1>2, <2>1, <2>2
<1> QED
  BY <1>5, <1>6, <1>9 DEF TypeOK, Create

\* Delete keeps the types.
LEMMA DeleteTypeOK ==
  ASSUME TypeOK, NEW s \in Sides, NEW id, Delete(s, id)
  PROVE  TypeOK'
<1>1. {i \in store[s] : i.id # id} \in SUBSET Item
  BY DEF TypeOK
<1>2. store' \in [Sides -> SUBSET Item] /\ rev' \in [Sides -> Nat]
  BY <1>1, SetStoreTyped DEF Delete, TypeOK
<1>3. left' \in [user : [UserOps -> Nat], fail : Nat, crash : Nat]
  BY SpendTyped DEF Delete, TypeOK
<1>4. plan' \in PlanType
  <2>1. [plan.deletes EXCEPT ![s] = @ \ {id}] \in [Sides -> SUBSET Nat]
    BY DEF TypeOK, PlanType
  <2> QED
    BY <2>1 DEF TypeOK, PlanType, Delete
<1> QED
  BY <1>2, <1>3, <1>4 DEF TypeOK, Delete

\* Finish keeps the types.
LEMMA FinishTypeOK ==
  ASSUME TypeOK, Finish
  PROVE  TypeOK'
<1>1. Cursors \in [Sides -> Nat]
  BY DEF TypeOK, Cursors, Tree, Database
<1>2. [sess EXCEPT !.cursor = Cursors] \in Database
  BY <1>1 DEF TypeOK, Database
<1>3. /\ phase' \in Phases /\ side' \in Sides
      /\ mode' \in {"auto", "confirm", "dry"}
      /\ tree' \in [Sides -> Tree] /\ plan' \in PlanType
      /\ fetched' \in [Sides -> SUBSET Item]
      /\ matched' \in SUBSET IdPair /\ cur' \in Current
  BY EndRunTyped DEF Finish
<1> QED
  BY <1>2, <1>3 DEF TypeOK, Finish, serverVars

\* A run that ends without a commit keeps the types.
LEMMA ReturnTypeOK ==
  ASSUME TypeOK, ReturnUnexecuted \/ BuildFails \/ Crash
  PROVE  TypeOK'
<1>1. Rollback /\ UNCHANGED <<serverVars, historyVars>>
  BY DEF ReturnUnexecuted, BuildFails, Crash
<1>2. left' \in [user : [UserOps -> Nat], fail : Nat, crash : Nat]
  <2>1. CASE ReturnUnexecuted
    BY <2>1 DEF ReturnUnexecuted, TypeOK
  <2>2. CASE BuildFails
    BY <2>2, SpendTyped DEF BuildFails
  <2>3. CASE Crash
    BY <2>3 DEF Crash, TypeOK
  <2> QED
    BY <2>1, <2>2, <2>3
<1> QED
  BY <1>1, <1>2, RollbackTypeOK DEF TypeOK, serverVars

\* The bounds stay natural numbers when a user acts.
LEMMA UserMayActTyped ==
  ASSUME TypeOK, NEW op \in UserOps, UserMayAct(op)
  PROVE  left' \in [user : [UserOps -> Nat], fail : Nat, crash : Nat]
<1>1. [left.user EXCEPT ![op] = @ - 1] \in [UserOps -> Nat]
  BY DEF TypeOK, UserMayAct
<1> QED
  BY <1>1 DEF TypeOK, UserMayAct

\* A step of a user touches nothing of the run.
LEMMA UserStepTyped ==
  ASSUME TypeOK, UNCHANGED <<db, sess, runVars>>,
         store' \in [Sides -> SUBSET Item], nextId' \in [Sides -> Nat],
         rev' \in [Sides -> Nat], used' \in SUBSET Keys, deleted' \in SUBSET (Keys \X BOOLEAN),
         left' \in [user : [UserOps -> Nat], fail : Nat, crash : Nat]
  PROVE  TypeOK'
  BY DEF TypeOK, runVars, workVars

\* Users keep the types and leave the run alone.
LEMMA UserTypeOK ==
  ASSUME TypeOK, Users
  PROVE  TypeOK' /\ UNCHANGED runVars
<1>1. ASSUME NEW s \in Sides, NEW k \in Keys, NEW v \in Values, UserCreate(s, k, v)
      PROVE  TypeOK' /\ UNCHANGED runVars
  <2>1. [id |-> nextId[s], key |-> k, val |-> v, ver |-> 1] \in Item
    BY DEF TypeOK, Item
  <2>2. store[s] \cup {[id |-> nextId[s], key |-> k, val |-> v, ver |-> 1]}
          \in SUBSET Item
    BY <2>1 DEF TypeOK
  <2>3. store' \in [Sides -> SUBSET Item] /\ rev' \in [Sides -> Nat]
    BY <1>1, <2>2, SetStoreTyped DEF UserCreate
  <2>4. left' \in [user : [UserOps -> Nat], fail : Nat, crash : Nat]
    BY <1>1, UserMayActTyped DEF UserCreate, UserOps
  <2>5. nextId' \in [Sides -> Nat] /\ used' \in SUBSET Keys /\ deleted' \in SUBSET (Keys \X BOOLEAN)
    BY <1>1 DEF TypeOK, UserCreate
  <2>6. UNCHANGED <<db, sess, runVars>>
    BY <1>1 DEF UserCreate, UserMayAct
  <2> QED
    BY <2>3, <2>4, <2>5, <2>6, UserStepTyped
<1>2. ASSUME NEW s \in Sides, NEW i \in store[s], NEW v \in Values, UserEdit(s, i, v)
      PROVE  TypeOK' /\ UNCHANGED runVars
  <2>1. i \in Item
    BY DEF TypeOK
  <2>2. i.ver + 1 \in Nat
    BY <2>1 DEF Item
  <2>3. [i EXCEPT !.val = v, !.ver = @ + 1] \in Item
    BY <2>1, <2>2 DEF Item
  <2>4. (store[s] \ {i}) \cup {[i EXCEPT !.val = v, !.ver = @ + 1]} \in SUBSET Item
    BY <2>3 DEF TypeOK
  <2>5. store' \in [Sides -> SUBSET Item] /\ rev' \in [Sides -> Nat]
    BY <1>2, <2>4, SetStoreTyped DEF UserEdit
  <2>6. left' \in [user : [UserOps -> Nat], fail : Nat, crash : Nat]
    BY <1>2, UserMayActTyped DEF UserEdit, UserOps
  <2>7. UNCHANGED <<nextId, used, deleted, db, sess, runVars>>
    BY <1>2 DEF UserEdit, UserMayAct
  <2> QED
    BY <2>5, <2>6, <2>7, UserStepTyped DEF TypeOK
<1>3. ASSUME NEW s \in Sides, NEW i \in store[s], UserDelete(s, i)
      PROVE  TypeOK' /\ UNCHANGED runVars
  <2>1. i.key \in Keys
    BY DEF TypeOK, Item
  <2>2. store' \in [Sides -> SUBSET Item] /\ rev' \in [Sides -> Nat]
    BY <1>3, SetStoreTyped DEF UserDelete, TypeOK
  <2>3. left' \in [user : [UserOps -> Nat], fail : Nat, crash : Nat]
    BY <1>3, UserMayActTyped DEF UserDelete, UserOps
  <2>4. deleted' \in SUBSET (Keys \X BOOLEAN)
    <3> DEFINE mapped == \E m \in db.maps : m.id[s] = i.id
    <3>1. mapped \in BOOLEAN
      OBVIOUS
    <3>2. deleted' = deleted \cup {<<i.key, mapped>>}
      BY <1>3 DEF UserDelete
    <3> HIDE DEF mapped
    <3>3. <<i.key, mapped>> \in Keys \X BOOLEAN
      BY <2>1, <3>1
    <3> QED
      BY <3>2, <3>3 DEF TypeOK
  <2>5. UNCHANGED <<nextId, used, db, sess, runVars>>
    BY <1>3 DEF UserDelete, UserMayAct
  <2> QED
    BY <2>2, <2>3, <2>4, <2>5, UserStepTyped DEF TypeOK
<1> QED
  BY <1>1, <1>2, <1>3 DEF Users

-------------------------------------------------------------------------------

TypeInv == TypeOK /\ CurrentIsSet

\* The strengthened type invariant is inductive.
LEMMA TypeInvStep == TypeInv /\ [Next]_vars => TypeInv'
<1> SUFFICES ASSUME TypeOK, CurrentIsSet, [Next]_vars
             PROVE  TypeInv'
  BY DEF TypeInv
<1>1. ASSUME NEW md \in Modes, Start(md) PROVE TypeInv'
  BY <1>1, StartTypeOK DEF TypeInv, CurrentIsSet, Start, VisitPhase
<1>2. CASE ReturnUnexecuted \/ BuildFails \/ Crash
  <2>1. phase' = "idle"
    BY <1>2 DEF ReturnUnexecuted, BuildFails, Crash, Rollback, EndRun
  <2> QED
    BY <1>2, <2>1, ReturnTypeOK DEF TypeInv, CurrentIsSet
<1>3. ASSUME NEW s \in Sides, SkipContainer(s) PROVE TypeInv'
  BY <1>3, SkipContainerTypeOK
     DEF TypeInv, CurrentIsSet, SkipContainer, Built, VisitPhase
<1>4. ASSUME NEW s \in Sides, ReadState(s) PROVE TypeInv'
  BY <1>4, ReadStateTypeOK DEF TypeInv, CurrentIsSet, ReadState
<1>5. ASSUME NEW s \in Sides, List(s) PROVE TypeInv'
  BY <1>5, ListTypeOK DEF TypeInv, CurrentIsSet, List, Built, VisitPhase
<1>6. CASE Compare
  BY <1>6, CompareTypeOK DEF TypeInv, CurrentIsSet, Compare
<1>7. CASE Proceed
  BY <1>7, ProceedTypeOK DEF TypeInv, CurrentIsSet, Proceed, PhaseAfter
<1>8. ASSUME NEW s \in Sides, FetchMerges(s) PROVE TypeInv'
  BY <1>8, FetchMergesTypeOK DEF TypeInv, CurrentIsSet, FetchMerges
<1>9. CASE FetchMergesFails
  BY <1>9, FetchMergesFailsTypeOK
     DEF TypeInv, CurrentIsSet, FetchMergesFails, PhaseAfter
<1>10. ASSUME NEW op \in plan.merges, MergeSkipped(op) PROVE TypeInv'
  BY <1>10, MergeSkippedTypeOK
     DEF TypeInv, CurrentIsSet, MergeSkipped, MergeDone, PhaseAfter
<1>11. ASSUME NEW op \in plan.merges, MergeWriteA(op) PROVE TypeInv'
  BY <1>11, MergeWriteATypeOK DEF TypeInv, CurrentIsSet
<1>12. CASE MergeWriteB
  <2>1. cur.val \in Values
    BY <1>12 DEF CurrentIsSet, MergeWriteB
  <2> QED
    BY <1>12, <2>1, MergeWriteBTypeOK
       DEF TypeInv, CurrentIsSet, MergeWriteB, MergeDone, PhaseAfter
<1>13. ASSUME NEW s \in Sides, FetchSources(s) PROVE TypeInv'
  <2>1. phase' \in {"source", "apply"}
    BY <1>13 DEF FetchSources
  <2> QED
    BY <1>13, <2>1, FetchSourcesTypeOK DEF TypeInv, CurrentIsSet
<1>14. ASSUME NEW s \in Sides, FetchSourcesFails(s) PROVE TypeInv'
  <2>1. phase' \in {"source", "apply"}
    BY <1>14 DEF FetchSourcesFails
  <2> QED
    BY <1>14, <2>1, FetchSourcesFailsTypeOK DEF TypeInv, CurrentIsSet
<1>15. ASSUME NEW ids \in matched, MatchWriteA(ids) PROVE TypeInv'
  BY <1>15, MatchWriteATypeOK DEF TypeInv, CurrentIsSet
<1>16. CASE MatchWriteB
  <2>1. cur.val \in Values
    BY <1>16 DEF CurrentIsSet, MatchWriteB
  <2>2. phase' \in {"idle", "apply"}
    BY <1>16 DEF MatchWriteB, Record, Rollback, EndRun, Continue
  <2> QED
    BY <1>16, <2>1, <2>2, MatchWriteBTypeOK DEF TypeInv, CurrentIsSet
<1>17. ASSUME NEW s \in Sides, NEW op \in plan.creates[s], Create(s, op)
       PROVE  TypeInv'
  <2>1. phase' \in {"idle", "apply"}
    BY <1>17 DEF Create, Record, Rollback, EndRun, Continue
  <2> QED
    BY <1>17, <2>1, CreateTypeOK DEF TypeInv, CurrentIsSet
<1>18. ASSUME NEW s \in Sides, NEW id \in plan.deletes[s], Delete(s, id)
       PROVE  TypeInv'
  BY <1>18, DeleteTypeOK DEF TypeInv, CurrentIsSet, Delete
<1>19. CASE Finish
  BY <1>19, FinishTypeOK DEF TypeInv, CurrentIsSet, Finish, EndRun
<1>20. CASE Users
  BY <1>20, UserTypeOK DEF TypeInv, CurrentIsSet, runVars, workVars
<1>21. CASE UNCHANGED vars
  BY <1>21 DEF TypeInv, TypeOK, CurrentIsSet, vars, serverVars, runVars, workVars
<1> QED
  BY <1>1, <1>2, <1>3, <1>4, <1>5, <1>6, <1>7, <1>8, <1>9, <1>10, <1>11, <1>12,
     <1>13, <1>14, <1>15, <1>16, <1>17, <1>18, <1>19, <1>20, <1>21
     DEF Next, Run, Failures

(***************************************************************************)
(* Type correctness, for all adapters, initial stores, modes and bounds.    *)
(* What keeps it from being inductive alone is the merge between its two    *)
(* writes: the value to push to B is one that A's step computed.            *)
(***************************************************************************)
THEOREM TypeCorrect == Spec => []TypeOK
<1>1. Init => TypeInv
  BY InitTypeOK DEF TypeInv, CurrentIsSet, Init
<1>2. TypeInv /\ [Next]_vars => TypeInv'
  BY TypeInvStep
<1>3. TypeInv => TypeOK
  BY DEF TypeInv
<1> QED
  BY <1>1, <1>2, <1>3, PTL DEF Spec

-------------------------------------------------------------------------------
(***************************************************************************)
(* Containers that are passed over.  A cursor never runs ahead of the       *)
(* state string it was read from, and while it has not fallen behind, the   *)
(* listing taken after it, and then the hash of that listing, are what the  *)
(* container holds.                                                         *)
(***************************************************************************)

Held(s) == {<<i.id, i.ver>> : i \in store[s]}

\* Phases before the trees are compared, and those sides whose tree is built.
Early == {"idle", "state", "list", "compare"}

TreeBuilt(s) ==
  \/ phase \notin {"idle", "state", "list"}
  \/ phase # "idle" /\ side = "b" /\ s = "a"

CursorsLag ==
  \A s \in Sides : /\ rev[s] >= 1
                   /\ tree[s].cursor <= rev[s]
                   /\ sess.cursor[s] <= rev[s]
                   /\ db.cursor[s] <= rev[s]

\* A side that skips nothing has no state string.
NoStates ==
  \A s \in Sides :
    ~Skips[s] => /\ tree[s].cursor = NoCursor
                 /\ sess.cursor[s] = NoCursor
                 /\ db.cursor[s] = NoCursor

StatesAsked ==
  /\ phase = "state" => Skips[side]
  /\ phase = "list" /\ Skips[side] => tree[side].cursor # NoCursor
  /\ \A s \in Sides : Skips[s] /\ TreeBuilt(s) => tree[s].cursor # NoCursor

ListingsKnown ==
  \A s \in Sides :
    /\ phase \in Early /\ TreeBuilt(s) /\ Skips[s]
    /\ ~tree[s].carried /\ tree[s].cursor = rev[s]
    => Digest(Listed, s) = Held(s)

HashKnown ==
  \A s \in Sides :
    phase \notin Early /\ Skips[s] /\ tree[s].cursor = rev[s] /\ sess.merkle.kind = "listed"
      => sess.merkle.of[s] = Held(s)

SkipInv ==
  /\ CursorsLag
  /\ NoStates
  /\ StatesAsked
  /\ ListingsKnown
  /\ HashKnown
  /\ SkipMissesNothing

\* State strings only grow, and one that stays the same stands for the same items.
StatesMove ==
  \A s \in Sides : /\ rev'[s] \in Nat
                   /\ rev'[s] >= rev[s]
                   /\ rev'[s] = rev[s] => store'[s] = store[s]

\* A write moves the state string of its side when it changes an item.
LEMMA SetStoreMoves ==
  ASSUME TypeOK, NEW s \in Sides, NEW items, SetStore(s, items)
  PROVE  StatesMove
BY DEF TypeOK, SetStore, StatesMove

\* A step that leaves the servers alone moves no state string.
LEMMA UnchangedMoves ==
  ASSUME TypeOK, UNCHANGED <<store, rev>>
  PROVE  StatesMove
BY DEF TypeOK, StatesMove

\* A change of the servers alone disturbs nothing.
LEMMA ServersSkip ==
  ASSUME TypeOK, SkipInv, StatesMove,
         UNCHANGED <<db, tree>>,
         sess'.merkle = sess.merkle, sess'.cursor = sess.cursor,
         \/ UNCHANGED <<phase, side>>
         \/ phase \notin Early /\ phase' \notin Early
  PROVE  SkipInv'
<1>1. \A s \in Sides : /\ rev[s] \in Nat /\ tree[s].cursor \in Nat
                       /\ sess.cursor[s] \in Nat /\ db.cursor[s] \in Nat
  BY DEF TypeOK, Tree, Database
<1>2. \A s \in Sides : rev'[s] = tree[s].cursor => rev'[s] = rev[s] /\ store'[s] = store[s]
  BY <1>1 DEF SkipInv, CursorsLag, StatesMove
<1>3. \A s \in Sides : rev'[s] = db.cursor[s] => rev'[s] = rev[s] /\ store'[s] = store[s]
  BY <1>1 DEF SkipInv, CursorsLag, StatesMove
<1>4. CursorsLag'
  BY <1>1 DEF SkipInv, CursorsLag, StatesMove
<1>5. NoStates'
  BY DEF SkipInv, NoStates
<1>6. /\ \A s \in Sides : TreeBuilt(s)' => TreeBuilt(s)
      /\ phase' \in {"state", "list"} => phase' = phase /\ side' = side
      /\ phase' \in Early <=> phase \in Early
  BY DEF TreeBuilt, Early
<1>7. StatesAsked'
  BY <1>6 DEF SkipInv, StatesAsked
<1>8. ListingsKnown'
  <2> SUFFICES ASSUME NEW s \in Sides,
                      phase' \in Early, TreeBuilt(s)', Skips[s],
                      ~tree[s].carried, tree[s].cursor = rev'[s]
               PROVE  Digest(Listed', s) = Held(s)'
    BY DEF ListingsKnown, Digest, Listed
  <2>1. Digest(Listed, s) = Held(s) /\ store'[s] = store[s]
    BY <1>2, <1>6 DEF SkipInv, ListingsKnown
  <2>2. Listed' = Listed
    BY DEF Listed
  <2> QED
    BY <2>1, <2>2 DEF Held
<1>9. HashKnown'
  <2> SUFFICES ASSUME NEW s \in Sides,
                      phase' \notin Early, Skips[s], tree[s].cursor = rev'[s],
                      sess.merkle.kind = "listed"
               PROVE  sess.merkle.of[s] = Held(s)'
    BY DEF HashKnown
  <2>1. sess.merkle.of[s] = Held(s) /\ store'[s] = store[s]
    BY <1>2, <1>6 DEF SkipInv, HashKnown
  <2> QED
    BY <2>1 DEF Held
<1>10. SkipMissesNothing'
  BY <1>3 DEF SkipInv, SkipMissesNothing
<1> QED
  BY <1>4, <1>5, <1>7, <1>8, <1>9, <1>10 DEF SkipInv

\* A run that ends without a commit.
LEMMA RollbackSkip ==
  ASSUME TypeOK, SkipInv, StatesMove, Rollback
  PROVE  SkipInv'
<1>1. \A s \in Sides : rev[s] \in Nat /\ db.cursor[s] \in Nat
  BY DEF TypeOK, Database
<1>2. /\ sess' = db /\ db' = db /\ phase' = "idle"
      /\ \A s \in Sides : tree'[s].cursor = NoCursor
  BY DEF Rollback, EndRun, NoTree
<1>3. \A s \in Sides : rev'[s] = db.cursor[s] => rev'[s] = rev[s] /\ store'[s] = store[s]
  BY <1>1 DEF SkipInv, CursorsLag, StatesMove
<1>4. CursorsLag'
  BY <1>1, <1>2 DEF SkipInv, CursorsLag, StatesMove, NoCursor
<1>5. NoStates'
  BY <1>2 DEF SkipInv, NoStates
<1>6. StatesAsked' /\ ListingsKnown' /\ HashKnown'
  BY <1>2 DEF StatesAsked, ListingsKnown, HashKnown, TreeBuilt, Early
<1>7. SkipMissesNothing'
  BY <1>2, <1>3 DEF SkipInv, SkipMissesNothing
<1> QED
  BY <1>4, <1>5, <1>6, <1>7 DEF SkipInv

\* A step that reads a container: only the trees change.
LEMMA BuildSkip ==
  ASSUME TypeOK, SkipInv, UNCHANGED <<serverVars, db, sess>>, phase' \in Early,
         \A s \in Sides : /\ tree'[s].cursor <= rev[s]
                          /\ ~Skips[s] => tree'[s].cursor = tree[s].cursor,
         StatesAsked', ListingsKnown'
  PROVE  SkipInv'
<1>1. CursorsLag' /\ NoStates'
  BY DEF SkipInv, CursorsLag, NoStates, serverVars
<1>2. HashKnown'
  BY DEF HashKnown
<1>3. SkipMissesNothing'
  BY DEF SkipInv, SkipMissesNothing, serverVars
<1> QED
  BY <1>1, <1>2, <1>3 DEF SkipInv

\* A run starts: no tree is built yet.
LEMMA StartSkip ==
  ASSUME TypeOK, SkipInv, NEW md \in Modes, Start(md)
  PROVE  SkipInv'
<1>1. /\ phase = "idle" /\ phase' = VisitPhase("a") /\ side' = "a"
      /\ UNCHANGED <<serverVars, db, sess, tree>>
  BY DEF Start, workVars
<1>2. ~Skips["a"] <=> phase' = "list"
  BY <1>1, EngineAssumption DEF VisitPhase
<1>3. StatesAsked' /\ ListingsKnown'
  BY <1>1, <1>2 DEF StatesAsked, ListingsKnown, TreeBuilt, VisitPhase
<1>4. phase' \in Early
  BY <1>1 DEF VisitPhase, Early
<1>5. \A s \in Sides : tree'[s].cursor <= rev[s]
  BY <1>1 DEF SkipInv, CursorsLag
<1> QED
  BY <1>1, <1>3, <1>4, <1>5, BuildSkip

\* A tree that is not the last one leads to the other side's.
LEMMA BuiltSkip ==
  ASSUME NEW s \in Sides, Built(s)
  PROVE  /\ phase' \in Early
         /\ phase' = "state" => Skips[side']
         /\ phase' = "list" => ~Skips[side']
         /\ \A r \in Sides : TreeBuilt(r)' => r = s \/ s = "b"
BY DEF Built, VisitPhase, TreeBuilt, Early, Sides

\* A container whose state string is the cursor is carried over.
LEMMA SkipContainerSkip ==
  ASSUME TypeOK, SkipInv, NEW s \in Sides, SkipContainer(s)
  PROVE  SkipInv'
<1>1. /\ phase = "state" /\ side = s
      /\ tree' = [tree EXCEPT ![s] =
                    [carried |-> TRUE, leaves |-> {}, cursor |-> rev[s]]]
      /\ Built(s)
      /\ UNCHANGED <<serverVars, db, sess>>
  BY DEF SkipContainer
<1>2. Skips[s] /\ rev[s] >= 1 /\ rev[s] \in Nat
  BY <1>1 DEF SkipInv, StatesAsked, CursorsLag, TypeOK
<1>3. /\ tree'[s] = [carried |-> TRUE, leaves |-> {}, cursor |-> rev[s]]
      /\ \A r \in Sides : r # s => tree'[r] = tree[r]
  BY <1>1 DEF TypeOK
<1>4. \A r \in Sides : TreeBuilt(r)' => r = s \/ TreeBuilt(r)
  BY <1>1, BuiltSkip DEF TreeBuilt, Sides
<1>5. StatesAsked'
  BY <1>1, <1>2, <1>3, <1>4, BuiltSkip DEF SkipInv, StatesAsked, NoCursor
<1>6. ListingsKnown'
  <2> SUFFICES ASSUME NEW r \in Sides,
                      TreeBuilt(r)', Skips[r],
                      ~tree'[r].carried, tree'[r].cursor = rev[r]
               PROVE  Digest(Listed', r) = Held(r)
    BY <1>1 DEF ListingsKnown, Digest, Listed, serverVars, Held
  <2>1. r # s /\ tree'[r] = tree[r]
    BY <1>3
  <2>2. Digest(Listed, r) = Held(r)
    BY <1>1, <1>4, <2>1 DEF SkipInv, ListingsKnown, Early
  <2>3. Digest(Listed', r) = Digest(Listed, r)
    BY <2>1 DEF Digest, Listed
  <2> QED
    BY <2>2, <2>3
<1>7. \A r \in Sides : /\ tree'[r].cursor <= rev[r]
                       /\ ~Skips[r] => tree'[r].cursor = tree[r].cursor
  BY <1>2, <1>3 DEF SkipInv, CursorsLag
<1> QED
  BY <1>1, <1>5, <1>6, <1>7, BuildSkip, BuiltSkip

\* The state string is read while the listing is still to come.
LEMMA ReadStateSkip ==
  ASSUME TypeOK, SkipInv, NEW s \in Sides, ReadState(s)
  PROVE  SkipInv'
<1>1. /\ phase = "state" /\ side = s /\ phase' = "list"
      /\ tree' = [tree EXCEPT ![s] = [@ EXCEPT !.cursor = rev[s]]]
      /\ UNCHANGED <<serverVars, db, sess, side>>
  BY DEF ReadState
<1>2. Skips[s] /\ rev[s] >= 1 /\ rev[s] \in Nat
  BY <1>1 DEF SkipInv, StatesAsked, CursorsLag, TypeOK
<1>3. /\ tree'[s].cursor = rev[s]
      /\ \A r \in Sides : r # s => tree'[r] = tree[r]
  BY <1>1 DEF TypeOK, Tree
<1>4. \A r \in Sides : TreeBuilt(r)' <=> TreeBuilt(r)
  BY <1>1 DEF TreeBuilt
<1>5. \A r \in Sides : TreeBuilt(r) => r # s
  BY <1>1 DEF TreeBuilt
<1>6. StatesAsked'
  BY <1>1, <1>2, <1>3, <1>4 DEF SkipInv, StatesAsked, NoCursor
<1>7. ListingsKnown'
  <2> SUFFICES ASSUME NEW r \in Sides,
                      TreeBuilt(r)', Skips[r],
                      ~tree'[r].carried, tree'[r].cursor = rev[r]
               PROVE  Digest(Listed', r) = Held(r)
    BY <1>1 DEF ListingsKnown, Digest, Listed, serverVars, Held
  <2>1. tree'[r] = tree[r]
    BY <1>3, <1>4, <1>5
  <2>2. Digest(Listed, r) = Held(r)
    BY <1>1, <1>4, <2>1 DEF SkipInv, ListingsKnown, Early
  <2>3. Digest(Listed', r) = Digest(Listed, r)
    BY <2>1 DEF Digest, Listed
  <2> QED
    BY <2>2, <2>3
<1>8. \A r \in Sides : /\ tree'[r].cursor <= rev[r]
                       /\ ~Skips[r] => tree'[r].cursor = tree[r].cursor
  BY <1>2, <1>3 DEF SkipInv, CursorsLag
<1> QED
  BY <1>1, <1>6, <1>7, <1>8, BuildSkip DEF Early

\* The listing holds what the store holds.
LEMMA ListSkip ==
  ASSUME TypeOK, SkipInv, NEW s \in Sides, List(s)
  PROVE  SkipInv'
<1>1. /\ phase = "list" /\ side = s
      /\ tree' = [tree EXCEPT ![s] =
                    [@ EXCEPT !.leaves = {LeafOf(s, i) : i \in store[s]}]]
      /\ Built(s)
      /\ UNCHANGED <<serverVars, db, sess>>
  BY DEF List
<1>2. /\ tree'[s].cursor = tree[s].cursor
      /\ tree'[s].leaves = {LeafOf(s, i) : i \in store[s]}
      /\ \A r \in Sides : r # s => tree'[r] = tree[r]
  BY <1>1 DEF TypeOK, Tree
<1>3. \A r \in Sides : TreeBuilt(r)' => r = s \/ TreeBuilt(r)
  BY <1>1, BuiltSkip DEF TreeBuilt, Sides
<1>4. StatesAsked'
  BY <1>1, <1>2, <1>3, BuiltSkip DEF SkipInv, StatesAsked
<1>5. ListingsKnown'
  <2> SUFFICES ASSUME NEW r \in Sides,
                      TreeBuilt(r)', Skips[r],
                      ~tree'[r].carried, tree'[r].cursor = rev[r]
               PROVE  Digest(Listed', r) = Held(r)
    BY <1>1 DEF ListingsKnown, Digest, Listed, serverVars, Held
  <2>1. CASE r = s
    <3>1. Listed'[s] = {LeafOf(s, i) : i \in store[s]}
      BY <1>2 DEF Listed
    <3>2. \A i : LeafOf(s, i).id = i.id /\ LeafOf(s, i).fp = i.ver
      BY DEF LeafOf
    <3>3. Digest(Listed', s) = Held(s)
      BY <3>1, <3>2 DEF Digest, Held
    <3> QED
      BY <2>1, <3>3
  <2>2. CASE r # s
    <3>1. tree'[r] = tree[r]
      BY <1>2, <2>2
    <3>2. Digest(Listed, r) = Held(r)
      BY <1>1, <1>3, <2>2, <3>1 DEF SkipInv, ListingsKnown, Early
    <3>3. Digest(Listed', r) = Digest(Listed, r)
      BY <3>1 DEF Digest, Listed
    <3> QED
      BY <3>2, <3>3
  <2> QED
    BY <2>1, <2>2
<1>6. \A r \in Sides : tree'[r].cursor = tree[r].cursor
  BY <1>2
<1>7. \A r \in Sides : tree'[r].cursor <= rev[r]
  BY <1>6 DEF SkipInv, CursorsLag
<1> QED
  BY <1>1, <1>4, <1>5, <1>6, <1>7, BuildSkip, BuiltSkip

\* The hash of the pair is that of the listings, or that of no listing at all.
LEMMA CompareSkip ==
  ASSUME TypeOK, SkipInv, Compare
  PROVE  SkipInv'
<1>1. /\ phase = "compare" /\ phase' = "decide"
      /\ tree' = [s \in Sides |-> [tree[s] EXCEPT !.leaves = {}]]
      /\ UNCHANGED <<serverVars, db>>
      /\ sess' = IF Prunes(sess.merkle, Listed, Carried) THEN sess
                 ELSE [sess EXCEPT !.maps = MappingsAfter(Listed, @),
                                   !.merkle = Combine(Listed, Carried)]
  BY DEF Compare
<1>2. \A s \in Sides : tree'[s].cursor = tree[s].cursor
  BY <1>1 DEF TypeOK, Tree
<1>3. sess'.merkle = Combine(Listed, Carried) /\ sess'.cursor = sess.cursor
  BY <1>1 DEF TypeOK, Database, Prunes
<1>4. \A s \in Sides : TreeBuilt(s)
  BY <1>1 DEF TreeBuilt
<1>5. CursorsLag' /\ NoStates'
  BY <1>1, <1>2, <1>3 DEF SkipInv, CursorsLag, NoStates, serverVars
<1>6. StatesAsked' /\ ListingsKnown'
  BY <1>1, <1>2, <1>4 DEF SkipInv, StatesAsked, ListingsKnown, Early
<1>7. HashKnown'
  <2> SUFFICES ASSUME NEW s \in Sides,
                      Skips[s], tree[s].cursor = rev[s],
                      Combine(Listed, Carried).kind = "listed"
               PROVE  Combine(Listed, Carried).of[s] = Held(s)
    BY <1>1, <1>2, <1>3 DEF HashKnown, Held, serverVars
  <2>1. ~tree[s].carried /\ Combine(Listed, Carried).of[s] = Digest(Listed, s)
    BY DEF Combine, Carried, Mixed
  <2> QED
    BY <1>1, <1>4, <2>1 DEF SkipInv, ListingsKnown, Early
<1>8. SkipMissesNothing'
  BY <1>1 DEF SkipInv, SkipMissesNothing, serverVars
<1> QED
  BY <1>5, <1>6, <1>7, <1>8 DEF SkipInv

\* The commit keeps the cursors with the hash that they were read before.
LEMMA FinishSkip ==
  ASSUME TypeOK, SkipInv, Finish
  PROVE  SkipInv'
<1>1. /\ phase = "apply" /\ phase' = "idle"
      /\ db' = [sess EXCEPT !.cursor = Cursors]
      /\ sess' = [sess EXCEPT !.cursor = Cursors]
      /\ \A s \in Sides : tree'[s].cursor = NoCursor
      /\ UNCHANGED serverVars
  BY DEF Finish, EndRun, NoTree
<1>2. /\ db'.cursor = Cursors /\ db'.merkle = sess.merkle
      /\ sess'.cursor = Cursors
  BY <1>1 DEF TypeOK, Database
<1>3. \A s \in Sides : TreeBuilt(s)
  BY <1>1 DEF TreeBuilt
<1>4. \A s \in Sides : Skips[s] => tree[s].cursor # NoCursor
  BY <1>3 DEF SkipInv, StatesAsked
<1>5. \A s \in Sides : rev[s] \in Nat /\ rev[s] # NoCursor
  <2> SUFFICES ASSUME NEW s \in Sides
               PROVE  rev[s] \in Nat /\ rev[s] # NoCursor
    OBVIOUS
  <2>1. rev[s] \in Nat /\ rev[s] >= 1
    BY DEF SkipInv, CursorsLag, TypeOK
  <2>2. \A n \in Nat : n >= 1 => n # 0
    OBVIOUS
  <2> QED
    BY <2>1, <2>2 DEF NoCursor
<1>6. CursorsLag'
  BY <1>1, <1>2, <1>5 DEF SkipInv, CursorsLag, Cursors, NoCursor, serverVars
<1>7. NoStates'
  BY <1>1, <1>2 DEF SkipInv, NoStates, Cursors
<1>8. StatesAsked' /\ ListingsKnown' /\ HashKnown'
  BY <1>1 DEF StatesAsked, ListingsKnown, HashKnown, TreeBuilt, Early
<1>9. SkipMissesNothing'
  <2> SUFFICES ASSUME NEW s \in Sides,
                      Cursors[s] = rev[s], sess.merkle.kind = "listed"
               PROVE  sess.merkle.of[s] = Held(s)
    BY <1>1, <1>2 DEF SkipMissesNothing, Held, serverVars
  <2>1. Skips[s]
    BY <1>5 DEF SkipInv, NoStates, Cursors
  <2>2. tree[s].cursor = rev[s]
    BY <1>4, <2>1 DEF Cursors
  <2> QED
    BY <1>1, <2>1, <2>2 DEF SkipInv, HashKnown, Early
<1> QED
  BY <1>6, <1>7, <1>8, <1>9 DEF SkipInv

\* Every step keeps the invariant.
LEMMA SkipInvStep == TypeOK /\ SkipInv /\ [Next]_vars => SkipInv'
<1> SUFFICES ASSUME TypeOK, SkipInv, [Next]_vars
             PROVE  SkipInv'
  OBVIOUS
<1> DEFINE Later == /\ phase \notin Early /\ phase' \notin Early
                    /\ UNCHANGED <<db, tree>>
                    /\ sess'.merkle = sess.merkle /\ sess'.cursor = sess.cursor
<1>0. \A M : /\ [sess EXCEPT !.maps = M].merkle = sess.merkle
             /\ [sess EXCEPT !.maps = M].cursor = sess.cursor
  BY DEF TypeOK, Database
<1>1. ASSUME NEW md \in Modes, Start(md) PROVE SkipInv'
  BY <1>1, StartSkip
<1>2. CASE ReturnUnexecuted \/ BuildFails \/ Crash
  BY <1>2, UnchangedMoves, RollbackSkip
     DEF ReturnUnexecuted, BuildFails, Crash, serverVars
<1>3. ASSUME NEW s \in Sides, SkipContainer(s) \/ ReadState(s) \/ List(s)
      PROVE  SkipInv'
  BY <1>3, SkipContainerSkip, ReadStateSkip, ListSkip
<1>4. CASE Compare
  BY <1>4, CompareSkip
<1>5. CASE Proceed \/ FetchMergesFails
  <2>1. Later /\ UNCHANGED <<store, rev>>
    BY <1>5 DEF Proceed, FetchMergesFails, PhaseAfter, Early, serverVars, workVars
  <2> QED
    BY <2>1, UnchangedMoves, ServersSkip
<1>6. ASSUME NEW s \in Sides, FetchMerges(s) \/ FetchSources(s) \/ FetchSourcesFails(s)
       PROVE  SkipInv'
  <2>1. Later /\ UNCHANGED <<store, rev>>
    BY <1>6 DEF FetchMerges, FetchSources, FetchSourcesFails, Early, serverVars
  <2> QED
    BY <2>1, UnchangedMoves, ServersSkip
<1>7. ASSUME NEW op \in plan.merges, MergeSkipped(op) PROVE SkipInv'
  <2>1. Later /\ UNCHANGED <<store, rev>>
    BY <1>7 DEF MergeSkipped, MergeDone, PhaseAfter, Early, serverVars
  <2> QED
    BY <2>1, UnchangedMoves, ServersSkip
<1>8. ASSUME NEW op \in plan.merges, MergeWriteA(op) PROVE SkipInv'
  <2>1. Later /\ \E items : SetStore("a", items)
    BY <1>8 DEF MergeWriteA, Early
  <2> QED
    BY <2>1, SetStoreMoves, ServersSkip, SidesFacts
<1>9. CASE MergeWriteB
  <2>1. Later /\ \E items : SetStore("b", items)
    BY <1>0, <1>9 DEF MergeWriteB, MergeDone, PhaseAfter, Early
  <2> QED
    BY <2>1, SetStoreMoves, ServersSkip, SidesFacts
<1>10. ASSUME NEW ids \in matched, MatchWriteA(ids) PROVE SkipInv'
  <2>1. Later /\ \E items : SetStore("a", items)
    BY <1>10 DEF MatchWriteA, Early
  <2> QED
    BY <2>1, SetStoreMoves, ServersSkip, SidesFacts
<1>11. CASE MatchWriteB
  <2>1. (Later \/ Rollback) /\ \E items : SetStore("b", items)
    BY <1>0, <1>11 DEF MatchWriteB, Record, Continue, Early
  <2> QED
    BY <2>1, SetStoreMoves, ServersSkip, RollbackSkip, SidesFacts
<1>12. ASSUME NEW s \in Sides, NEW op \in plan.creates[s], Create(s, op)
       PROVE  SkipInv'
  <2>1. (Later \/ Rollback) /\ \E items : SetStore(Other(s), items)
    BY <1>0, <1>12 DEF Create, Record, Continue, Early
  <2> QED
    BY <2>1, SetStoreMoves, ServersSkip, RollbackSkip, SidesFacts
<1>13. ASSUME NEW s \in Sides, NEW id \in plan.deletes[s], Delete(s, id)
       PROVE  SkipInv'
  <2>1. /\ UNCHANGED <<db, sess, phase, side, tree>>
        /\ (\E items : SetStore(s, items)) \/ UNCHANGED <<store, rev>>
    BY <1>13 DEF Delete
  <2> QED
    BY <2>1, SetStoreMoves, UnchangedMoves, ServersSkip
<1>14. CASE Finish
  BY <1>14, FinishSkip
<1>15. CASE Users
  <2>1. /\ UNCHANGED <<db, sess, phase, side, tree>>
        /\ \E s \in Sides : \E items : SetStore(s, items)
    BY <1>15 DEF Users, UserCreate, UserEdit, UserDelete, UserMayAct, runVars, workVars
  <2> QED
    BY <2>1, SetStoreMoves, ServersSkip
<1>16. CASE UNCHANGED vars
  <2>1. UNCHANGED <<store, rev, db, sess, phase, side, tree>>
    BY <1>16 DEF vars, serverVars, runVars, workVars
  <2> QED
    BY <2>1, UnchangedMoves, ServersSkip
<1>17. CASE Run
  BY <1>3, <1>4, <1>5, <1>8, <1>9, <1>10, <1>11, <1>12, <1>13, <1>14, <1>17, <1>6, <1>7
     DEF Run
<1>18. CASE Failures
  BY <1>2, <1>5, <1>18, <1>6 DEF Failures
<1> QED
  BY <1>1, <1>2, <1>15, <1>16, <1>17, <1>18 DEF Next

(***************************************************************************)
(* Whoever skips and whatever fails, a container that the next run would    *)
(* pass over holds what the stored hash was computed from.                  *)
(***************************************************************************)
THEOREM SkippedIsKnown == Spec => []SkipMissesNothing
<1>1. Init => TypeInv /\ SkipInv
  <2>1. ASSUME Init PROVE SkipInv
    BY <2>1 DEF Init, SkipInv, CursorsLag, NoStates, StatesAsked, ListingsKnown, HashKnown,
           SkipMissesNothing, TreeBuilt, Early, NoTree, EmptyDatabase, NoMerkle, NoCursor
  <2> QED
    BY <2>1, InitTypeOK DEF TypeInv, CurrentIsSet, Init
<1>2. TypeInv /\ SkipInv /\ [Next]_vars => TypeInv' /\ SkipInv'
  BY TypeInvStep, SkipInvStep DEF TypeInv
<1>3. SkipInv => SkipMissesNothing
  BY DEF SkipInv
<1> QED
  BY <1>1, <1>2, <1>3, PTL DEF Spec

-------------------------------------------------------------------------------
(***************************************************************************)
(* What a step may do to the items of a server.  Ids are given out once and *)
(* stay with their item, so each is the id of at most one item.             *)
(***************************************************************************)

Fresh(S, n) == \A x \in S : x.id < n /\ \A y \in S : x.id = y.id => x = y

StoresFresh == \A s \in Sides : Fresh(store[s], nextId[s])

FetchedKnown == \A s \in Sides : \A x \in fetched[s] : x.id < nextId[s]

NewItem(s, k, v) == [id |-> nextId[s], key |-> k, val |-> v, ver |-> 1]
EditedItem(x, v) == [x EXCEPT !.val = v, !.ver = @ + 1]

Kept(s) == store'[s] = store[s] /\ nextId'[s] = nextId[s]

Edited(s) ==
  /\ \E x \in store[s], v \in Values :
       store'[s] = (store[s] \ {x}) \cup {EditedItem(x, v)}
  /\ nextId'[s] = nextId[s]

Added(s) ==
  /\ \E k \in Keys, v \in Values : store'[s] = store[s] \cup {NewItem(s, k, v)}
  /\ nextId'[s] = nextId[s] + 1

Removed(s) ==
  /\ \E id : store'[s] = {i \in store[s] : i.id # id}
  /\ nextId'[s] = nextId[s]

\* A PUT of an item that was fetched and is no longer there.
RestoredItem(s, f, v) == EditedItem([f EXCEPT !.ver = rev[s]], v)

Restored(s, id) ==
  /\ PutsWhole(s) /\ id \notin Ids(store[s])
  /\ \E f \in fetched[s], v \in Values :
       f.id = id /\ store'[s] = store[s] \cup {RestoredItem(s, f, v)}
  /\ nextId'[s] = nextId[s]

Written(s) == Kept(s) \/ Edited(s) \/ \E id : Restored(s, id)

ServersStep == \A s \in Sides : Written(s) \/ Added(s) \/ Removed(s)

\* An edit keeps the id and the key.
LEMMA EditedItemFacts ==
  ASSUME NEW x \in Item, NEW v
  PROVE  /\ EditedItem(x, v).id = x.id
         /\ EditedItem(x, v).key = x.key
         /\ EditedItem(x, v).val = v
         /\ EditedItem(x, v).ver = x.ver + 1
BY DEF EditedItem, Item

\* What a PUT brings back has the id and the key it had.
LEMMA RestoredItemFacts ==
  ASSUME TypeOK, NEW s \in Sides, NEW f \in Item, NEW v
  PROVE  /\ RestoredItem(s, f, v).id = f.id
         /\ RestoredItem(s, f, v).key = f.key
         /\ RestoredItem(s, f, v).val = v
         /\ RestoredItem(s, f, v).ver = rev[s] + 1
<1>1. [f EXCEPT !.ver = rev[s]] \in Item
  BY DEF TypeOK, Item
<1>2. /\ [f EXCEPT !.ver = rev[s]].id = f.id
      /\ [f EXCEPT !.ver = rev[s]].key = f.key
      /\ [f EXCEPT !.ver = rev[s]].ver = rev[s]
  BY DEF Item
<1> QED
  BY <1>1, <1>2, EditedItemFacts DEF RestoredItem

\* A write to an item edits the one with its id; where there is none it does nothing,
\* or it is a PUT and brings one back.
LEMMA UpdatedEdits ==
  ASSUME TypeOK, StoresFresh, NEW s \in Sides, NEW i \in Item, NEW v
  PROVE  \/ Updated(s, i, v) = store[s] /\ i.id \notin Ids(store[s]) /\ ~PutsWhole(s)
         \/ \E x \in store[s] :
              /\ x.id = i.id
              /\ Updated(s, i, v) = (store[s] \ {x}) \cup {EditedItem(x, v)}
         \/ /\ PutsWhole(s) /\ i.id \notin Ids(store[s])
            /\ Updated(s, i, v) = store[s] \cup {RestoredItem(s, i, v)}
<1>1. CASE \E x \in store[s] : x.id = i.id
  <2>1. PICK x \in store[s] : x.id = i.id
    BY <1>1
  <2>2. {y \in store[s] : y.id = i.id} = {x}
    BY <2>1 DEF StoresFresh, Fresh
  <2>3. Updated(s, i, v) = (store[s] \ {x}) \cup {[y EXCEPT !.val = v, !.ver = @ + 1] : y \in {x}}
    BY <2>1, <2>2 DEF Updated, Target, Ids
  <2>4. {[y EXCEPT !.val = v, !.ver = @ + 1] : y \in {x}} = {EditedItem(x, v)}
    BY DEF EditedItem
  <2> QED
    BY <2>1, <2>3, <2>4
<1>2. CASE ~ \E x \in store[s] : x.id = i.id
  <2>1. i.id \notin Ids(store[s])
    BY <1>2 DEF Ids
  <2>2. CASE ~PutsWhole(s)
    <3>1. Target(s, i) = {}
      BY <2>1, <2>2 DEF Target
    <3> QED
      BY <2>1, <2>2, <3>1 DEF Updated
  <2>3. CASE PutsWhole(s)
    <3> DEFINE f == [i EXCEPT !.ver = rev[s]]
    <3>1. Target(s, i) = {f}
      BY <2>1, <2>3 DEF Target
    <3>2. f \notin store[s]
      <4>1. f.id = i.id
        BY DEF Item
      <4> QED
        BY <1>2, <4>1
    <3>3. {[y EXCEPT !.val = v, !.ver = @ + 1] : y \in {f}} = {RestoredItem(s, i, v)}
      BY DEF RestoredItem, EditedItem
    <3>4. Updated(s, i, v) = (store[s] \ {f})
                               \cup {[y EXCEPT !.val = v, !.ver = @ + 1] : y \in {f}}
      BY <3>1 DEF Updated
    <3> QED
      BY <2>1, <2>3, <3>2, <3>3, <3>4
  <2> QED
    BY <2>2, <2>3
<1> QED
  BY <1>1, <1>2

\* A push leaves the items as they are or edits one.
LEMMA PushKeepsItems ==
  ASSUME TypeOK, NEW s \in Sides, NEW i \in Item, NEW v, NEW w \in Pushes(s, i, v)
  PROVE  w.items = store[s] \/ w.items = Updated(s, i, v)
<1>1. CASE w \in Updates(s, i, v)
  BY <1>1 DEF Updates
<1>2. CASE w \in {[items |-> store[s], ok |-> TRUE, fp |-> i.ver, cost |-> 0]}
  BY <1>2
<1> QED
  BY <1>1, <1>2 DEF Pushes

\* The other side of a write stays as it is.
LEMMA SetStoreServers ==
  ASSUME TypeOK, NEW s \in Sides, NEW items, SetStore(s, items)
  PROVE  /\ store'[s] = items
         /\ \A r \in Sides : r # s => store'[r] = store[r]
BY DEF TypeOK, SetStore

\* A push leaves each side as it is, edits one of its items or brings one back.
LEMMA PushServers ==
  ASSUME TypeOK, StoresFresh, NEW s \in Sides, NEW i \in fetched[s], NEW v \in Values,
         NEW w \in Pushes(s, i, v), SetStore(s, w.items), UNCHANGED nextId
  PROVE  \A r \in Sides : Kept(r) \/ Edited(r) \/ (r = s /\ Restored(r, i.id))
<1> i \in Item
  BY DEF TypeOK
<1>1. Kept(s) \/ Edited(s) \/ Restored(s, i.id)
  <2>1. store'[s] = store[s] \/ store'[s] = Updated(s, i, v)
    BY PushKeepsItems, SetStoreServers
  <2> QED
    BY <2>1, UpdatedEdits DEF Kept, Edited, Restored
<1> QED
  BY <1>1, SetStoreServers DEF Kept

\* Servers that are left alone make a step.
LEMMA SameServers ==
  ASSUME UNCHANGED <<store, nextId>>
  PROVE  ServersStep
BY DEF ServersStep, Written, Kept

\* What users do is a step of one server.
LEMMA UserServers ==
  ASSUME TypeOK, StoresFresh, Users
  PROVE  ServersStep
<1>1. ASSUME NEW s \in Sides, NEW k \in Keys, NEW v \in Values, UserCreate(s, k, v)
      PROVE  ServersStep
  <2>1. Added(s)
    BY <1>1, SetStoreServers DEF UserCreate, Added, NewItem, TypeOK
  <2>2. \A r \in Sides : r # s => Kept(r)
    BY <1>1, SetStoreServers DEF UserCreate, Kept, TypeOK
  <2> QED
    BY <2>1, <2>2 DEF ServersStep, Written
<1>2. ASSUME NEW s \in Sides, NEW i \in store[s], NEW v \in Values, UserEdit(s, i, v)
      PROVE  ServersStep
  <2>1. Edited(s)
    BY <1>2, SetStoreServers DEF UserEdit, Edited, EditedItem
  <2>2. \A r \in Sides : r # s => Kept(r)
    BY <1>2, SetStoreServers DEF UserEdit, Kept
  <2> QED
    BY <2>1, <2>2 DEF ServersStep, Written
<1>3. ASSUME NEW s \in Sides, NEW i \in store[s], UserDelete(s, i)
      PROVE  ServersStep
  <2>1. store[s] \ {i} = {x \in store[s] : x.id # i.id}
    BY DEF StoresFresh, Fresh
  <2>2. Removed(s)
    BY <1>3, <2>1, SetStoreServers DEF UserDelete, Removed
  <2>3. \A r \in Sides : r # s => Kept(r)
    BY <1>3, SetStoreServers DEF UserDelete, Kept
  <2> QED
    BY <2>2, <2>3 DEF ServersStep, Written
<1> QED
  BY <1>1, <1>2, <1>3 DEF Users

\* create_item adds an item to one server, or fails.
LEMMA CreateServers ==
  ASSUME TypeOK, StoresFresh, NEW s \in Sides, NEW op \in plan.creates[s], Create(s, op)
  PROVE  \A r \in Sides : Kept(r) \/ Added(r)
<1>1. PICK x \in fetched[s] : \E w \in Creations(Other(s), x) :
        /\ SetStore(Other(s), w.items)
        /\ nextId' = IF w.items = store[Other(s)] THEN nextId
                     ELSE [nextId EXCEPT ![Other(s)] = @ + 1]
  BY DEF Create
<1>2. PICK w \in Creations(Other(s), x) :
        /\ SetStore(Other(s), w.items)
        /\ nextId' = IF w.items = store[Other(s)] THEN nextId
                     ELSE [nextId EXCEPT ![Other(s)] = @ + 1]
  BY <1>1
<1>3. x \in Item /\ Other(s) \in Sides
  BY SidesFacts DEF TypeOK
<1>4. x.key \in Keys /\ x.val \in Values
  BY <1>3 DEF Item
<1>5. \/ w.items = store[Other(s)]
      \/ w.items = store[Other(s)] \cup {NewItem(Other(s), x.key, x.val)}
  BY DEF Creations, NewItem
<1>6. Kept(Other(s)) \/ Added(Other(s))
  BY <1>2, <1>3, <1>4, <1>5, SetStoreServers DEF Kept, Added, TypeOK
<1>7. \A r \in Sides : r # Other(s) => Kept(r)
  BY <1>2, <1>3, SetStoreServers DEF Kept, TypeOK
<1> QED
  BY <1>6, <1>7

\* delete_item removes an item of one server, or fails.
LEMMA DeleteServers ==
  ASSUME TypeOK, NEW s \in Sides, NEW id, Delete(s, id)
  PROVE  ServersStep
<1>1. CASE SetStore(s, {i \in store[s] : i.id # id})
  BY <1>1, SetStoreServers DEF Delete, ServersStep, Written, Kept, Removed
<1>2. CASE UNCHANGED store
  BY <1>2, SameServers DEF Delete
<1> QED
  BY <1>1, <1>2 DEF Delete

\* The writes of a merge leave every side as it is, edit an item or bring one back.
LEMMA WritesEdit ==
  ASSUME TypeOK, CurrentIsSet, StoresFresh,
         \/ \E op \in plan.merges : MergeWriteA(op)
         \/ MergeWriteB
         \/ \E ids \in matched : MatchWriteA(ids)
         \/ MatchWriteB
  PROVE  \A r \in Sides : Written(r)
<1>1. ASSUME NEW op \in plan.merges, MergeWriteA(op) PROVE \A r \in Sides : Written(r)
  <2>1. PICK x \in fetched["a"], y \in fetched["b"], m \in sess.maps :
          \E v \in MergeResults(x, y, m.snap) : \E w \in Pushes("a", x, v) :
            SetStore("a", w.items)
    BY <1>1 DEF MergeWriteA
  <2>2. PICK v \in MergeResults(x, y, m.snap) : \E w \in Pushes("a", x, v) :
          SetStore("a", w.items)
    BY <2>1
  <2>3. x \in Item /\ y \in Item
    BY SidesFacts DEF TypeOK
  <2>4. v \in Values
    BY <2>3, MergeResultsTyped
  <2> QED
    BY <1>1, <2>2, <2>3, <2>4, PushServers, SidesFacts DEF MergeWriteA, Written
<1>2. CASE MergeWriteB
  <2>1. cur.val \in Values
    BY <1>2 DEF CurrentIsSet, MergeWriteB
  <2>2. PICK y \in fetched["b"] : \E w \in Pushes("b", y, cur.val) : SetStore("b", w.items)
    BY <1>2 DEF MergeWriteB
  <2>3. y \in Item
    BY SidesFacts DEF TypeOK
  <2> QED
    BY <1>2, <2>1, <2>2, <2>3, PushServers, SidesFacts DEF MergeWriteB, Written
<1>3. ASSUME NEW ids \in matched, MatchWriteA(ids) PROVE \A r \in Sides : Written(r)
  <2>1. PICK x \in fetched["a"], y \in fetched["b"] :
          \E v \in MergeResults(x, y, NoSnap) : \E w \in Pushes("a", x, v) :
            SetStore("a", w.items)
    BY <1>3 DEF MatchWriteA
  <2>2. PICK v \in MergeResults(x, y, NoSnap) : \E w \in Pushes("a", x, v) :
          SetStore("a", w.items)
    BY <2>1
  <2>3. x \in Item /\ y \in Item
    BY SidesFacts DEF TypeOK
  <2>4. v \in Values
    BY <2>3, MergeResultsTyped
  <2> QED
    BY <1>3, <2>2, <2>3, <2>4, PushServers, SidesFacts DEF MatchWriteA, Written
<1>4. CASE MatchWriteB
  <2>1. cur.val \in Values
    BY <1>4 DEF CurrentIsSet, MatchWriteB
  <2>2. PICK y \in fetched["b"] : \E w \in Pushes("b", y, cur.val) : SetStore("b", w.items)
    BY <1>4 DEF MatchWriteB
  <2>3. y \in Item
    BY SidesFacts DEF TypeOK
  <2> QED
    BY <1>4, <2>1, <2>2, <2>3, PushServers, SidesFacts DEF MatchWriteB, Written
<1> QED
  BY <1>1, <1>2, <1>3, <1>4

\* Every step changes each server in one of these ways.
LEMMA ServersStepHolds ==
  ASSUME TypeOK, CurrentIsSet, StoresFresh, [Next]_vars
  PROVE  ServersStep
<1>1. CASE UNCHANGED <<store, nextId>>
  BY <1>1, SameServers
<1>2. CASE \/ \E op \in plan.merges : MergeWriteA(op)
           \/ MergeWriteB
           \/ \E ids \in matched : MatchWriteA(ids)
           \/ MatchWriteB
  BY <1>2, WritesEdit DEF ServersStep
<1>3. ASSUME NEW s \in Sides, NEW op \in plan.creates[s], Create(s, op) PROVE ServersStep
  BY <1>3, CreateServers DEF ServersStep, Written
<1>4. ASSUME NEW s \in Sides, NEW id \in plan.deletes[s], Delete(s, id) PROVE ServersStep
  BY <1>4, DeleteServers
<1>5. CASE Users
  BY <1>5, UserServers
<1>6. CASE \/ \E md \in Modes : Start(md)
           \/ ReturnUnexecuted \/ BuildFails \/ Crash \/ FetchMergesFails
           \/ Compare \/ Proceed \/ Finish
           \/ UNCHANGED vars
  <2>1. UNCHANGED <<store, nextId>>
    BY <1>6 DEF Start, ReturnUnexecuted, BuildFails, Crash, FetchMergesFails, Compare,
                Proceed, Finish, vars, serverVars
  <2> QED
    BY <1>1, <2>1
<1>7. ASSUME NEW s \in Sides,
              \/ SkipContainer(s) \/ ReadState(s) \/ List(s)
              \/ FetchMerges(s) \/ FetchSources(s) \/ FetchSourcesFails(s)
       PROVE  ServersStep
  <2>1. UNCHANGED <<store, nextId>>
    BY <1>7 DEF SkipContainer, ReadState, List, FetchMerges, FetchSources,
                 FetchSourcesFails, serverVars
  <2> QED
    BY <1>1, <2>1
<1>8. ASSUME NEW op \in plan.merges, MergeSkipped(op) PROVE ServersStep
  BY <1>1, <1>8 DEF MergeSkipped, serverVars
<1>9. CASE Run
  BY <1>2, <1>3, <1>4, <1>6, <1>7, <1>8, <1>9 DEF Run
<1>10. CASE Failures
  BY <1>6, <1>7, <1>10 DEF Failures
<1> QED
  BY <1>5, <1>6, <1>9, <1>10 DEF Next

\* Ids stay fresh when the servers make a step, and counters never go back.
LEMMA ServersStayFresh ==
  ASSUME TypeOK, TypeOK', StoresFresh, FetchedKnown, ServersStep
  PROVE  /\ StoresFresh'
         /\ \A s \in Sides : nextId[s] <= nextId'[s]
<1> SUFFICES ASSUME NEW s \in Sides
             PROVE  Fresh(store'[s], nextId'[s]) /\ nextId[s] <= nextId'[s]
  BY DEF StoresFresh
<1>1. /\ store[s] \subseteq Item /\ nextId[s] \in Nat /\ Fresh(store[s], nextId[s])
      /\ \A x \in store[s] : x.id \in Nat
  BY DEF TypeOK, StoresFresh, Item
<1>2. CASE Kept(s)
  BY <1>1, <1>2 DEF Kept
<1>3. CASE Edited(s)
  <2>1. PICK x \in store[s], v \in Values :
          store'[s] = (store[s] \ {x}) \cup {EditedItem(x, v)}
    BY <1>3 DEF Edited
  <2>2. EditedItem(x, v).id = x.id
    BY <1>1, EditedItemFacts
  <2> QED
    BY <1>1, <1>3, <2>1, <2>2 DEF Edited, Fresh
<1>4. CASE Added(s)
  <2>1. PICK k \in Keys, v \in Values : store'[s] = store[s] \cup {NewItem(s, k, v)}
    BY <1>4 DEF Added
  <2>2. NewItem(s, k, v).id = nextId[s]
    BY DEF NewItem
  <2> QED
    BY <1>1, <1>4, <2>1, <2>2 DEF Added, Fresh
<1>5. CASE Removed(s)
  BY <1>1, <1>5 DEF Removed, Fresh
<1>6. ASSUME NEW id, Restored(s, id)
      PROVE  Fresh(store'[s], nextId'[s]) /\ nextId[s] <= nextId'[s]
  <2>1. PICK f \in fetched[s], v \in Values :
          f.id = id /\ store'[s] = store[s] \cup {RestoredItem(s, f, v)}
    BY <1>6 DEF Restored
  <2>2. RestoredItem(s, f, v).id = id /\ id < nextId[s]
    BY <2>1, RestoredItemFacts DEF TypeOK, FetchedKnown
  <2>3. \A x \in store[s] : x.id # id
    BY <1>6 DEF Restored, Ids
  <2> QED
    BY <1>1, <1>6, <2>1, <2>2, <2>3 DEF Restored, Fresh
<1> QED
  BY <1>2, <1>3, <1>4, <1>5, <1>6 DEF ServersStep, Written

\* Counters never go back.
LEMMA CountersGrow ==
  ASSUME TypeOK, ServersStep
  PROVE  \A s \in Sides : nextId[s] <= nextId'[s]
BY DEF TypeOK, ServersStep, Written, Kept, Edited, Restored, Added, Removed

\* What get_items returned stays; what it returns now is on the server.
LEMMA FetchedFromStore ==
  ASSUME TypeOK, [Next]_vars
  PROVE  \A s \in Sides : fetched'[s] \subseteq fetched[s] \cup store[s]
<1>1. CASE UNCHANGED fetched
  BY <1>1
<1>2. CASE EndRun \/ \A s \in Sides : fetched'[s] = {}
  BY <1>2 DEF EndRun
<1>3. ASSUME NEW s \in Sides, FetchMerges(s) \/ FetchSources(s)
      PROVE  \A r \in Sides : fetched'[r] \subseteq fetched[r] \cup store[r]
  <2>1. \A ids : \A r \in Readings(s, ids) : r.items \subseteq store[s]
    BY DEF Readings
  <2>2. \E I \in SUBSET store[s] : fetched' = [fetched EXCEPT ![s] = I]
    BY <1>3, <2>1 DEF FetchMerges, FetchSources
  <2> QED
    BY <2>2 DEF TypeOK
<1>4. ASSUME NEW s \in Sides, FetchSourcesFails(s)
      PROVE  \A r \in Sides : fetched'[r] \subseteq fetched[r] \cup store[r]
  BY <1>4 DEF FetchSourcesFails, TypeOK
<1>5. CASE FetchMergesFails
  BY <1>2, <1>5 DEF FetchMergesFails
<1>6. ASSUME NEW op, MergeDone(op)
      PROVE  \A r \in Sides : fetched'[r] \subseteq fetched[r] \cup store[r]
  BY <1>6 DEF MergeDone
<1>7. CASE Run
  <2>1. ASSUME NEW s \in Sides, SkipContainer(s) \/ ReadState(s) \/ List(s)
        PROVE  UNCHANGED fetched
    BY <2>1 DEF SkipContainer, ReadState, List
  <2>2. CASE Compare \/ Proceed
    BY <1>1, <2>2 DEF Compare, Proceed, workVars
  <2>3. ASSUME NEW op \in plan.merges, MergeSkipped(op) \/ MergeWriteA(op)
        PROVE  \A r \in Sides : fetched'[r] \subseteq fetched[r] \cup store[r]
    BY <1>1, <1>6, <2>3 DEF MergeSkipped, MergeWriteA
  <2>4. CASE MergeWriteB
    BY <1>6, <2>4 DEF MergeWriteB
  <2>5. ASSUME NEW ids \in matched, MatchWriteA(ids)
        PROVE  UNCHANGED fetched
    BY <2>5 DEF MatchWriteA
  <2>6. ASSUME NEW m, NEW p, Record(m, p)
        PROVE  EndRun \/ UNCHANGED fetched
    BY <2>6 DEF Record, Rollback, Continue
  <2>7. CASE MatchWriteB
    BY <1>1, <1>2, <2>6, <2>7 DEF MatchWriteB
  <2>8. ASSUME NEW s \in Sides, NEW op \in plan.creates[s], Create(s, op)
        PROVE  EndRun \/ UNCHANGED fetched
    BY <2>6, <2>8 DEF Create, Continue
  <2>9. ASSUME NEW s \in Sides, NEW id \in plan.deletes[s], Delete(s, id)
        PROVE  UNCHANGED fetched
    BY <2>9 DEF Delete
  <2>10. CASE Finish
    BY <1>2, <2>10 DEF Finish
  <2> QED
    BY <1>1, <1>2, <1>3, <1>7, <2>1, <2>2, <2>3, <2>4, <2>5, <2>7, <2>8, <2>9, <2>10 DEF Run
<1>8. CASE Failures
  BY <1>2, <1>4, <1>5, <1>8 DEF Failures, BuildFails, Crash, Rollback
<1>9. CASE Users
  BY <1>1, <1>9 DEF Users, UserCreate, UserEdit, UserDelete, UserMayAct, runVars, workVars
<1>10. CASE ReturnUnexecuted
  BY <1>2, <1>10 DEF ReturnUnexecuted, Rollback
<1>11. ASSUME NEW md \in Modes, Start(md) PROVE UNCHANGED fetched
  BY <1>11 DEF Start, workVars
<1>12. CASE UNCHANGED vars
  BY <1>1, <1>12 DEF vars, runVars, workVars
<1> QED
  BY <1>1, <1>7, <1>8, <1>9, <1>10, <1>11, <1>12 DEF Next

\* What was fetched has an id given out before.
LEMMA FetchedStaysKnown ==
  ASSUME TypeOK, TypeOK', StoresFresh, FetchedKnown, ServersStep, [Next]_vars
  PROVE  FetchedKnown'
<1> SUFFICES ASSUME NEW s \in Sides, NEW x \in fetched'[s]
             PROVE  x.id < nextId'[s]
  BY DEF FetchedKnown
<1>1. x \in fetched[s] \cup store[s] /\ x \in Item
  BY FetchedFromStore DEF TypeOK
<1>2. x.id \in Nat /\ x.id < nextId[s]
  BY <1>1 DEF Item, FetchedKnown, StoresFresh, Fresh
<1>3. nextId[s] \in Nat /\ nextId'[s] \in Nat /\ nextId[s] <= nextId'[s]
  BY CountersGrow DEF TypeOK
<1> QED
  BY <1>2, <1>3

-------------------------------------------------------------------------------
(***************************************************************************)
(* Identity keys of the mappings.  A create carries a key that no mapping   *)
(* and no other create has, or none, and then no mapping with a legacy key  *)
(* is about its item: the legacy key of the new mapping is a new one too.   *)
(***************************************************************************)

LeavesFresh == \A s \in Sides : Fresh(tree[s].leaves, nextId[s])

\* The ids were given out, and a legacy key is that of the mapping's ids.
KnownMapping(m) ==
  /\ \A s \in Sides : m.id[s] < nextId[s]
  /\ m.mkey \in LegacyKeys => m.mkey = LegacyKey(m.id)

MapsKnown == \A m \in db.maps \cup sess.maps : KnownMapping(m)

CreatesFresh == \A s \in Sides : Fresh(plan.creates[s], nextId[s])

CreatesKeyed ==
  \A s \in Sides : \A op \in plan.creates[s] :
    op.key # NoKey =>
      /\ op.key \notin MKeys(sess.maps)
      /\ \A o \in plan.creates[s] : o.key = op.key => o = op
      /\ \A o \in plan.creates[Other(s)] : o.key # op.key

CreatesUnmapped ==
  \A s \in Sides : \A op \in plan.creates[s], m \in sess.maps :
    op.key = NoKey /\ m.mkey \in LegacyKeys => m.id[s] # op.id

\* The matched pair between its two writes is still planned.
PairPlanned ==
  phase = "match_b" =>
    \E opA \in plan.creates["a"], opB \in plan.creates["b"] :
      /\ opA.id = cur.ids["a"] /\ opB.id = cur.ids["b"]
      /\ cur.mkey = MappingKey(opA.key, opB.key, cur.ids)

NothingPlanned ==
  phase \in Early =>
    plan.merges = {} /\ \A s \in Sides : plan.creates[s] = {} /\ plan.deletes[s] = {}

KeyInv ==
  /\ StoresFresh
  /\ FetchedKnown
  /\ LeavesFresh
  /\ MapsKnown
  /\ CreatesFresh
  /\ CreatesKeyed
  /\ CreatesUnmapped
  /\ PairPlanned
  /\ NothingPlanned

\* Fewer things with larger counters are as fresh.
LEMMA FreshStays ==
  ASSUME NEW S, NEW T \in SUBSET S, NEW n \in Nat, NEW k \in Nat,
         Fresh(S, n), n <= k, \A x \in S : x.id \in Nat
  PROVE  Fresh(T, k)
BY DEF Fresh

\* A mapping's key is an op's, or legacy when neither op has one.
LEMMA MappingKeyFacts ==
  ASSUME NEW ka \in Keys \cup {NoKey}, NEW kb \in Keys \cup {NoKey}, NEW ids \in IdPair
  PROVE  /\ MappingKey(ka, kb, ids) \in Keys =>
              MappingKey(ka, kb, ids) # NoKey /\ MappingKey(ka, kb, ids) \in {ka, kb}
         /\ MappingKey(ka, kb, ids) \in LegacyKeys =>
              /\ MappingKey(ka, kb, ids) = LegacyKey(ids)
              /\ ka = NoKey /\ kb = NoKey
<1>1. LegacyKey(ids) \in LegacyKeys
  BY DEF LegacyKey, LegacyKeys, IdPair, Sides
<1> QED
  BY <1>1, LegacyAssumption, SentinelAssumption DEF MappingKey

\* Legacy keys are the same only for the same ids.
LEMMA LegacyKeyInjective ==
  ASSUME NEW i \in IdPair, NEW j \in IdPair, LegacyKey(i) = LegacyKey(j)
  PROVE  i = j
<1>1. i["a"] = j["a"] /\ i["b"] = j["b"]
  BY DEF LegacyKey
<1> QED
  BY <1>1 DEF IdPair, Sides

\* Trees that lose leaves or keep them.
LEMMA LeavesStay ==
  ASSUME TypeOK, TypeOK', KeyInv, FetchedKnown', ServersStep,
         \A s \in Sides : tree'[s].leaves \subseteq tree[s].leaves
  PROVE  LeavesFresh'
<1> SUFFICES ASSUME NEW s \in Sides PROVE Fresh(tree'[s].leaves, nextId'[s])
  BY DEF LeavesFresh
<1>1. Fresh(tree[s].leaves, nextId[s]) /\ \A x \in tree[s].leaves : x.id \in Nat
  BY DEF KeyInv, LeavesFresh, TypeOK, Tree, Leaf
<1>2. nextId[s] \in Nat /\ nextId'[s] \in Nat /\ nextId[s] <= nextId'[s]
  BY ServersStayFresh DEF KeyInv, TypeOK
<1> QED
  BY <1>1, <1>2, FreshStays

\* Steps that plan nothing and record nothing new.
LEMMA KeysStay ==
  ASSUME TypeOK, TypeOK', KeyInv, FetchedKnown', ServersStep,
         \A m \in db'.maps \cup sess'.maps : \E o \in db.maps \cup sess.maps :
           o.mkey = m.mkey /\ o.id = m.id,
         LeavesFresh',
         \A s \in Sides : plan'.creates[s] \subseteq plan.creates[s],
         \/ \A s \in Sides : plan'.creates[s] = {}
         \/ \A m \in sess'.maps : \E o \in sess.maps : o.mkey = m.mkey /\ o.id = m.id,
         PairPlanned', NothingPlanned'
  PROVE  KeyInv'
<1>1. StoresFresh' /\ \A s \in Sides : nextId[s] <= nextId'[s]
  BY ServersStayFresh DEF KeyInv
<1>2. \A s \in Sides : nextId[s] \in Nat /\ nextId'[s] \in Nat
  BY DEF TypeOK
<1>3. LeavesFresh'
  OBVIOUS
<1>4. CreatesFresh'
  <2> SUFFICES ASSUME NEW s \in Sides PROVE Fresh(plan'.creates[s], nextId'[s])
    BY DEF CreatesFresh
  <2>1. Fresh(plan.creates[s], nextId[s]) /\ \A x \in plan.creates[s] : x.id \in Nat
    BY DEF KeyInv, CreatesFresh, TypeOK, PlanType, CreateOp
  <2> QED
    BY <1>1, <1>2, <2>1, FreshStays
<1>5. MapsKnown'
  <2> SUFFICES ASSUME NEW m \in db'.maps \cup sess'.maps
               PROVE  KnownMapping(m)'
    BY DEF MapsKnown, KnownMapping
  <2>1. PICK o \in db.maps \cup sess.maps : o.mkey = m.mkey /\ o.id = m.id
    OBVIOUS
  <2>2. KnownMapping(o) /\ o \in Mapping
    BY DEF KeyInv, MapsKnown, TypeOK, Database
  <2>3. \A s \in Sides : o.id[s] \in Nat
    BY <2>2 DEF Mapping
  <2> QED
    BY <1>1, <1>2, <2>1, <2>2, <2>3 DEF KnownMapping
<1>6. CASE \A s \in Sides : plan'.creates[s] = {}
  <2>1. CreatesKeyed' /\ CreatesUnmapped'
    BY <1>6 DEF CreatesKeyed, CreatesUnmapped
  <2> QED
    BY <1>1, <1>3, <1>4, <1>5, <2>1 DEF KeyInv
<1>7. CASE \A m \in sess'.maps : \E o \in sess.maps : o.mkey = m.mkey /\ o.id = m.id
  <2>1. MKeys(sess'.maps) \subseteq MKeys(sess.maps)
    BY <1>7 DEF MKeys
  <2>2. CreatesKeyed'
    BY <2>1, SidesFacts DEF KeyInv, CreatesKeyed
  <2>3. CreatesUnmapped'
    BY <1>7 DEF KeyInv, CreatesUnmapped
  <2> QED
    BY <1>1, <1>3, <1>4, <1>5, <2>2, <2>3 DEF KeyInv
<1> QED
  BY <1>6, <1>7

\* Recording a mapping whose key no other create has.
LEMMA RecordedKeys ==
  ASSUME TypeOK, TypeOK', KeyInv, FetchedKnown', ServersStep, NEW m \in Mapping,
         sess' = [sess EXCEPT !.maps = @ \cup {m}], UNCHANGED <<db, tree>>,
         \A s \in Sides : plan'.creates[s] \subseteq plan.creates[s],
         \A s \in Sides : \A op \in plan'.creates[s] :
           /\ op.key # NoKey => op.key # m.mkey
           /\ m.mkey \in LegacyKeys => m.id[s] # op.id,
         \A s \in Sides : m.id[s] < nextId'[s],
         m.mkey \in LegacyKeys => m.mkey = LegacyKey(m.id),
         phase' = "apply"
  PROVE  KeyInv'
<1>1. StoresFresh' /\ \A s \in Sides : nextId[s] <= nextId'[s]
  BY ServersStayFresh DEF KeyInv
<1>2. \A s \in Sides : nextId[s] \in Nat /\ nextId'[s] \in Nat
  BY DEF TypeOK
<1>3. sess'.maps = sess.maps \cup {m}
  BY DEF TypeOK, Database
<1>4. LeavesFresh'
  BY LeavesStay
<1>5. CreatesFresh'
  <2> SUFFICES ASSUME NEW s \in Sides PROVE Fresh(plan'.creates[s], nextId'[s])
    BY DEF CreatesFresh
  <2>1. Fresh(plan.creates[s], nextId[s]) /\ \A x \in plan.creates[s] : x.id \in Nat
    BY DEF KeyInv, CreatesFresh, TypeOK, PlanType, CreateOp
  <2> QED
    BY <1>1, <1>2, <2>1, FreshStays
<1>6. MapsKnown'
  <2>1. ASSUME NEW o \in db.maps \cup sess.maps PROVE KnownMapping(o)'
    <3>1. KnownMapping(o) /\ o \in Mapping
      BY DEF KeyInv, MapsKnown, TypeOK, Database
    <3>2. \A s \in Sides : o.id[s] \in Nat
      BY <3>1 DEF Mapping
    <3> QED
      BY <1>1, <1>2, <3>1, <3>2 DEF KnownMapping
  <2>2. KnownMapping(m)'
    BY DEF KnownMapping
  <2> QED
    BY <1>3, <2>1, <2>2 DEF MapsKnown
<1>7. CreatesKeyed'
  <2>1. MKeys(sess'.maps) = MKeys(sess.maps) \cup {m.mkey}
    BY <1>3 DEF MKeys
  <2> QED
    BY <2>1, SidesFacts DEF KeyInv, CreatesKeyed
<1>8. CreatesUnmapped'
  BY <1>3 DEF KeyInv, CreatesUnmapped
<1>9. PairPlanned' /\ NothingPlanned'
  BY DEF PairPlanned, NothingPlanned, Early
<1> QED
  BY <1>1, <1>4, <1>5, <1>6, <1>7, <1>8, <1>9 DEF KeyInv

\* A run that ends without a commit.
LEMMA RollbackKeys ==
  ASSUME TypeOK, TypeOK', KeyInv, FetchedKnown', ServersStep, Rollback
  PROVE  KeyInv'
<1>1. /\ sess' = db /\ db' = db /\ phase' = "idle"
      /\ plan' = EmptyPlan /\ tree' = [s \in Sides |-> NoTree]
  BY DEF Rollback, EndRun
<1>2. LeavesFresh'
  BY <1>1, LeavesStay DEF NoTree
<1>3. NothingPlanned' /\ PairPlanned'
  BY <1>1 DEF NothingPlanned, PairPlanned, EmptyPlan
<1>4. \A s \in Sides : plan'.creates[s] = {}
  BY <1>1 DEF EmptyPlan
<1> QED
  BY <1>1, <1>2, <1>3, <1>4, KeysStay

\* The leaves of a listing have the ids of the items.
LEMMA ListKeys ==
  ASSUME TypeOK, TypeOK', KeyInv, FetchedKnown', ServersStep, NEW s \in Sides, List(s)
  PROVE  KeyInv'
<1>1. /\ phase = "list"
      /\ tree' = [tree EXCEPT ![s] =
                    [@ EXCEPT !.leaves = {LeafOf(s, i) : i \in store[s]}]]
      /\ Built(s)
      /\ UNCHANGED <<serverVars, db, sess, plan>>
  BY DEF List
<1>2. /\ tree'[s].leaves = {LeafOf(s, i) : i \in store[s]}
      /\ \A r \in Sides : r # s => tree'[r] = tree[r]
  BY <1>1 DEF TypeOK, Tree
<1>3. \A i : LeafOf(s, i).id = i.id
  BY DEF LeafOf
<1>4. LeavesFresh'
  BY <1>1, <1>2, <1>3 DEF KeyInv, LeavesFresh, StoresFresh, Fresh, serverVars
<1>5. phase' \in Early
  BY <1>1 DEF Built, VisitPhase, Early
<1>6. PairPlanned' /\ NothingPlanned'
  BY <1>1, <1>5 DEF KeyInv, PairPlanned, NothingPlanned, Early
<1> QED
  BY <1>1, <1>4, <1>6, KeysStay

\* What a comparison creates has the ids of leaves.
LEMMA CreatesOfLeaves ==
  ASSUME NEW L, NEW M, NEW s \in Sides, NEW op \in Creates(L, M, s)
  PROVE  \E l \in L[s] :
           /\ l.id = op.id
           /\ op = [id |-> l.id, key |-> op.key]
           /\ op.key = NoKey => l \in Loose(L, s) /\ l.id \notin Settled(L, M, s)
           /\ op.key # NoKey => l \in Keyed(L, s) /\ op.key = l.key
<1>1. CASE op \in {[id |-> l.id, key |-> l.key] :
                     l \in {x \in OnlyOn(L, M, s) : x.key \notin MKeys(M)}}
  <2>1. PICK l \in OnlyOn(L, M, s) : op = [id |-> l.id, key |-> l.key]
    BY <1>1
  <2>2. l \in Keyed(L, s) /\ l \in L[s] /\ l.key # NoKey
    BY DEF OnlyOn, Keyed
  <2> QED
    BY <2>1, <2>2
<1>2. CASE op \in {[id |-> l.id, key |-> NoKey] :
                     l \in {x \in Loose(L, s) : x.id \notin Settled(L, M, s)}}
  <2>1. PICK l \in Loose(L, s) :
          l.id \notin Settled(L, M, s) /\ op = [id |-> l.id, key |-> NoKey]
    BY <1>2
  <2>2. l \in L[s]
    BY DEF Loose
  <2> QED
    BY <2>1, <2>2
<1> QED
  BY <1>1, <1>2 DEF Creates

\* A comparison of fresh leaves plans fresh creates.
LEMMA CreatesOfFreshLeaves ==
  ASSUME NEW L, NEW M, NEW s \in Sides, NEW n, Fresh(L[s], n)
  PROVE  Fresh(Creates(L, M, s), n)
<1> SUFFICES ASSUME NEW x \in Creates(L, M, s)
             PROVE  x.id < n /\ \A y \in Creates(L, M, s) : x.id = y.id => x = y
  BY DEF Fresh
<1>1. PICK l \in L[s] :
        /\ l.id = x.id
        /\ x = [id |-> l.id, key |-> x.key]
        /\ x.key = NoKey => l \in Loose(L, s) /\ l.id \notin Settled(L, M, s)
        /\ x.key # NoKey => l \in Keyed(L, s) /\ x.key = l.key
  BY CreatesOfLeaves
<1>2. ASSUME NEW y \in Creates(L, M, s), x.id = y.id
      PROVE  x = y
  <2>1. PICK k \in L[s] :
          /\ k.id = y.id
          /\ y = [id |-> k.id, key |-> y.key]
          /\ y.key = NoKey => k \in Loose(L, s) /\ k.id \notin Settled(L, M, s)
          /\ y.key # NoKey => k \in Keyed(L, s) /\ y.key = k.key
    BY CreatesOfLeaves
  <2>2. k = l
    BY <1>1, <1>2, <2>1 DEF Fresh
  <2>3. x.key = y.key
    BY <1>1, <2>1, <2>2 DEF Loose
  <2> QED
    BY <1>1, <1>2, <2>1, <2>3
<1> QED
  BY <1>1, <1>2 DEF Fresh

\* After a comparison a mapping has the ids it had, or those of leaves of its key.
LEMMA MappingAfter ==
  ASSUME NEW L \in [Sides -> SUBSET Leaf], NEW M \in SUBSET Mapping,
         NEW m \in MappingsAfter(L, M)
  PROVE  \/ m \in M \ Gone(L, M)
         \/ /\ m.mkey \in OnBoth(L, M)
            /\ m.id = [s \in Sides |-> At(L, s, m.mkey).id]
<1>1. CASE m \in NewPairs(L, M)
  BY <1>1 DEF NewPairs, NewPair
<1>2. CASE \E o \in M \ Gone(L, M) : m = Healed(L, M, o)
  <2>1. PICK o \in M \ Gone(L, M) : m = Healed(L, M, o)
    BY <1>2
  <2>2. CASE o.mkey \in OnBoth(L, M)
    <3>1. m = [o EXCEPT !.id = [s \in Sides |-> At(L, s, o.mkey).id]] /\ o \in Mapping
      BY <2>1, <2>2 DEF Healed
    <3>2. m.mkey = o.mkey /\ m.id = [s \in Sides |-> At(L, s, o.mkey).id]
      BY <3>1 DEF Mapping
    <3> QED
      BY <2>2, <3>2
  <2>3. CASE o.mkey \notin OnBoth(L, M)
    BY <2>1, <2>3 DEF Healed
  <2> QED
    BY <2>2, <2>3
<1> QED
  BY <1>1, <1>2 DEF MappingsAfter

\* A key on both sides is that of a leaf of each.
LEMMA OnBothLeaves ==
  ASSUME NEW L \in [Sides -> SUBSET Leaf], NEW M, NEW k \in OnBoth(L, M), NEW s \in Sides
  PROVE  /\ k \in Keys
         /\ At(L, s, k) \in Keyed(L, s) /\ At(L, s, k) \in L[s] /\ At(L, s, k).key = k
<1>1. k \in KeyedKeys(L, s)
  BY DEF OnBoth, Sides
<1>2. At(L, s, k) \in Keyed(L, s) /\ At(L, s, k).key = k
  BY <1>1, AtLeaf
<1> QED
  BY <1>1, <1>2, KeyedTyped DEF Keyed

\* Comparing leaves no legacy mapping of an item that it creates.
LEMMA LegacyAfter ==
  ASSUME NEW L \in [Sides -> SUBSET Leaf], NEW M \in SUBSET Mapping,
         \A m \in M : m.mkey \in LegacyKeys => m.mkey = LegacyKey(m.id),
         NEW m \in MappingsAfter(L, M), m.mkey \in LegacyKeys
  PROVE  /\ m.mkey = LegacyKey(m.id)
         /\ \A s \in Sides : m.id[s] \in Settled(L, M, s)
<1>1. m \in M /\ m \notin Gone(L, M)
  BY MappingAfter, OnBothLeaves, LegacyAssumption, SidesFacts
<1>2. \A s \in Sides : m.mkey \notin KeyedKeys(L, s)
  BY KeyedTyped, LegacyAssumption
<1>3. ~Open(L, M, m.mkey)
  BY <1>1, <1>2 DEF Gone
<1>4. PICK o \in ViaCache(L, M) : o.mkey = m.mkey
  BY <1>3 DEF Open, MKeys
<1>5. o \in M /\ LegacyKey(o.id) = LegacyKey(m.id)
  BY <1>1, <1>4 DEF ViaCache
<1>6. o.id = m.id
  BY <1>1, <1>5, LegacyKeyInjective DEF Mapping, IdPair
<1> QED
  BY <1>1, <1>4, <1>6 DEF Settled

\* A comparison plans creates whose keys no mapping has afterwards.
LEMMA CompareKeys ==
  ASSUME TypeOK, TypeOK', KeyInv, FetchedKnown', ServersStep, Compare
  PROVE  KeyInv'
<1>1. /\ phase = "compare" /\ phase' = "decide"
      /\ tree' = [s \in Sides |-> [tree[s] EXCEPT !.leaves = {}]]
      /\ UNCHANGED <<serverVars, db>>
  BY DEF Compare
<1>2. LeavesFresh'
  <2>1. \A s \in Sides : tree'[s].leaves = {}
    BY <1>1 DEF TypeOK, Tree
  <2> QED
    BY <2>1, LeavesStay
<1>3. PairPlanned' /\ NothingPlanned'
  BY <1>1 DEF PairPlanned, NothingPlanned, Early
<1>4. CASE Prunes(sess.merkle, Listed, Carried)
  <2>1. UNCHANGED <<plan, sess>>
    BY <1>4 DEF Compare
  <2> QED
    BY <1>1, <1>2, <1>3, <2>1, KeysStay
<1>5. CASE ~Prunes(sess.merkle, Listed, Carried)
  <2>1. PICK L, M : L = Listed /\ M = sess.maps
    OBVIOUS
  <2>2. L \in [Sides -> SUBSET Leaf] /\ M \in SUBSET Mapping
    BY <2>1 DEF Listed, TypeOK, Tree, Database
  <2>3. plan' = Plan(L, M) /\ sess'.maps = MappingsAfter(L, M)
    BY <1>5, <2>1 DEF Compare, TypeOK, Database
  <2>4. \A s \in Sides : plan'.creates[s] = Creates(L, M, s)
    BY <2>3 DEF Plan
  <2>5. \A s \in Sides : Fresh(L[s], nextId[s])
    BY <2>1 DEF KeyInv, LeavesFresh, Listed
  <2>6. CreatesFresh'
    BY <1>1, <2>4, <2>5, CreatesOfFreshLeaves DEF CreatesFresh, serverVars
  <2>7. CreatesKeyed'
    BY <2>2, <2>3, <2>4, CreatesAreNew, SidesFacts DEF CreatesKeyed
  <2>8. \A m \in M : KnownMapping(m)
    BY <2>1 DEF KeyInv, MapsKnown
  <2>9. \A m \in M : m.mkey \in LegacyKeys => m.mkey = LegacyKey(m.id)
    BY <2>8 DEF KnownMapping
  <2>10. CreatesUnmapped'
    <3> SUFFICES ASSUME NEW s \in Sides, NEW op \in Creates(L, M, s),
                        NEW m \in MappingsAfter(L, M),
                        op.key = NoKey, m.mkey \in LegacyKeys
                 PROVE  m.id[s] # op.id
      BY <2>3, <2>4 DEF CreatesUnmapped
    <3>1. op.id \notin Settled(L, M, s)
      BY CreatesOfLeaves
    <3>2. m.id[s] \in Settled(L, M, s)
      BY <2>2, <2>9, LegacyAfter
    <3> QED
      BY <3>1, <3>2
  <2>11. MapsKnown'
    <3>1. ASSUME NEW m \in db.maps PROVE KnownMapping(m)'
      BY <1>1 DEF KeyInv, MapsKnown, KnownMapping, serverVars
    <3>2. ASSUME NEW m \in MappingsAfter(L, M) PROVE KnownMapping(m)'
      <4>1. m.mkey \in LegacyKeys => m.mkey = LegacyKey(m.id)
        BY <2>2, <2>9, LegacyAfter
      <4>2. \A s \in Sides : m.id[s] < nextId[s]
        <5>1. CASE m \in M
          BY <2>8, <5>1 DEF KnownMapping
        <5>2. CASE m.mkey \in OnBoth(L, M) /\ m.id = [s \in Sides |-> At(L, s, m.mkey).id]
          BY <2>2, <2>5, <5>2, OnBothLeaves DEF Fresh
        <5> QED
          BY <2>2, <5>1, <5>2, MappingAfter
      <4> QED
        BY <1>1, <4>1, <4>2 DEF KnownMapping, serverVars
    <3> QED
      BY <1>1, <2>3, <3>1, <3>2 DEF MapsKnown
  <2>12. StoresFresh'
    BY ServersStayFresh DEF KeyInv
  <2> QED
    BY <1>2, <1>3, <2>6, <2>7, <2>10, <2>11, <2>12 DEF KeyInv
<1> QED
  BY <1>4, <1>5

\* Between its two writes a matched pair stays planned.
LEMMA MatchWriteAKeys ==
  ASSUME TypeOK, TypeOK', KeyInv, FetchedKnown', ServersStep, NEW ids \in matched, MatchWriteA(ids)
  PROVE  KeyInv'
<1>1. UNCHANGED <<db, sess, tree, plan>> /\ phase' = "match_b"
  BY DEF MatchWriteA
<1>2. PICK x \in fetched["a"], y \in fetched["b"],
           opA \in plan.creates["a"], opB \in plan.creates["b"] :
        /\ x.id = ids["a"] /\ opA.id = x.id
        /\ y.id = ids["b"] /\ opB.id = y.id
        /\ \E v \in MergeResults(x, y, NoSnap) : \E w \in Pushes("a", x, v) :
             cur' = [ids |-> ids, mkey |-> MappingKey(opA.key, opB.key, ids),
                     val |-> v, fp |-> w.fp, ok |-> w.ok]
  BY DEF MatchWriteA
<1>3. cur'.ids = ids /\ cur'.mkey = MappingKey(opA.key, opB.key, ids)
  BY <1>2
<1>4. PairPlanned'
  BY <1>1, <1>2, <1>3 DEF PairPlanned
<1>5. NothingPlanned'
  BY <1>1 DEF NothingPlanned, Early
<1>6. LeavesFresh'
  BY <1>1, LeavesStay
<1> QED
  BY <1>1, <1>4, <1>5, <1>6, KeysStay

\* The mapping of a matched pair has a new key.
LEMMA PairKeyNew ==
  ASSUME TypeOK, KeyInv, phase = "match_b"
  PROVE  cur.mkey \notin MKeys(sess.maps)
<1>1. PICK opA \in plan.creates["a"], opB \in plan.creates["b"] :
        /\ opA.id = cur.ids["a"] /\ opB.id = cur.ids["b"]
        /\ cur.mkey = MappingKey(opA.key, opB.key, cur.ids)
  BY DEF KeyInv, PairPlanned
<1>2. /\ opA.key \in Keys \cup {NoKey} /\ opB.key \in Keys \cup {NoKey}
      /\ cur.ids \in IdPair /\ cur.mkey \in Keys \cup LegacyKeys
  BY SidesFacts DEF TypeOK, PlanType, CreateOp, Current
<1>3. CASE cur.mkey \in Keys
  <2>1. cur.mkey # NoKey /\ cur.mkey \in {opA.key, opB.key}
    BY <1>1, <1>2, <1>3, MappingKeyFacts
  <2> QED
    BY <2>1, SidesFacts DEF KeyInv, CreatesKeyed
<1>4. CASE cur.mkey \in LegacyKeys
  <2>1. cur.mkey = LegacyKey(cur.ids) /\ opA.key = NoKey
    BY <1>1, <1>2, <1>4, MappingKeyFacts
  <2> SUFFICES ASSUME NEW m \in sess.maps, m.mkey = cur.mkey
               PROVE  FALSE
    BY DEF MKeys
  <2>2. m.mkey = LegacyKey(m.id) /\ m.id \in IdPair
    BY <1>4 DEF KeyInv, MapsKnown, KnownMapping, TypeOK, Database, Mapping, IdPair
  <2>3. m.id = cur.ids
    BY <1>2, <2>1, <2>2, LegacyKeyInjective
  <2> QED
    BY <1>1, <1>4, <2>1, <2>3, SidesFacts DEF KeyInv, CreatesUnmapped
<1> QED
  BY <1>2, <1>3, <1>4

\* Recording a matched pair clashes with no create that is left.
LEMMA MatchWriteBKeys ==
  ASSUME TypeOK, TypeOK', CurrentIsSet, KeyInv, FetchedKnown', ServersStep, MatchWriteB
  PROVE  KeyInv'
<1>1. PICK y \in fetched["b"] : \E w \in Pushes("b", y, cur.val) :
        Record([mkey |-> cur.mkey, id |-> cur.ids,
                fp   |-> [s \in Sides |-> IF s = "a" THEN cur.fp ELSE w.fp],
                snap |-> cur.val],
               WithoutPair(cur.ids))
  BY DEF MatchWriteB
<1>2. PICK w \in Pushes("b", y, cur.val) :
        Record([mkey |-> cur.mkey, id |-> cur.ids,
                fp   |-> [s \in Sides |-> IF s = "a" THEN cur.fp ELSE w.fp],
                snap |-> cur.val],
               WithoutPair(cur.ids))
  BY <1>1
<1>3. PICK m : m = [mkey |-> cur.mkey, id |-> cur.ids,
                    fp   |-> [s \in Sides |-> IF s = "a" THEN cur.fp ELSE w.fp],
                    snap |-> cur.val]
  OBVIOUS
<1>4. m.mkey = cur.mkey /\ m.id = cur.ids
  BY <1>3
<1>5. phase = "match_b"
  BY DEF MatchWriteB
<1>6. /\ sess' = [sess EXCEPT !.maps = @ \cup {m}]
      /\ Continue(WithoutPair(cur.ids))
      /\ UNCHANGED db
  BY <1>2, <1>3, <1>4, <1>5, PairKeyNew DEF Record
<1>7. m \in Mapping
  BY <1>6 DEF TypeOK, Database
<1>8. UNCHANGED tree /\ phase' = "apply"
  BY <1>6 DEF Continue
<1>9. \A s \in Sides : plan'.creates[s] = {op \in plan.creates[s] : op.id # cur.ids[s]}
  BY <1>6 DEF Continue, WithoutPair, TypeOK, PlanType
<1>10. PICK opA \in plan.creates["a"], opB \in plan.creates["b"] :
         /\ opA.id = cur.ids["a"] /\ opB.id = cur.ids["b"]
         /\ cur.mkey = MappingKey(opA.key, opB.key, cur.ids)
  BY <1>5 DEF KeyInv, PairPlanned
<1>11. /\ opA.key \in Keys \cup {NoKey} /\ opB.key \in Keys \cup {NoKey}
       /\ cur.ids \in IdPair /\ cur.mkey \in Keys \cup LegacyKeys
  BY SidesFacts DEF TypeOK, PlanType, CreateOp, Current
<1>12. \A s \in Sides : \A op \in plan'.creates[s] :
         /\ op.key # NoKey => op.key # m.mkey
         /\ m.mkey \in LegacyKeys => m.id[s] # op.id
  <2> SUFFICES ASSUME NEW s \in Sides, NEW op \in plan.creates[s], op.id # cur.ids[s],
                      op.key # NoKey, op.key = cur.mkey
               PROVE  FALSE
    BY <1>4, <1>9
  <2>1. op.key \in Keys
    BY DEF TypeOK, PlanType, CreateOp
  <2>2. cur.mkey \in {opA.key, opB.key}
    BY <1>10, <1>11, <2>1, MappingKeyFacts
  <2>3. s \in {"a", "b"} /\ Other("a") = "b" /\ Other("b") = "a"
    BY DEF Sides, Other
  <2> QED
    BY <1>10, <2>2, <2>3, SidesFacts DEF KeyInv, CreatesKeyed
<1>13. \A s \in Sides : m.id[s] < nextId'[s]
  <2>1. \A s \in Sides : nextId[s] <= nextId'[s] /\ nextId[s] \in Nat /\ nextId'[s] \in Nat
    BY ServersStayFresh DEF KeyInv, TypeOK
  <2>2. \A s \in Sides : cur.ids[s] < nextId[s] /\ cur.ids[s] \in Nat
    BY <1>10, <1>11 DEF KeyInv, CreatesFresh, Fresh, Sides, IdPair
  <2> QED
    BY <1>4, <2>1, <2>2
<1>14. m.mkey \in LegacyKeys => m.mkey = LegacyKey(m.id)
  BY <1>4, <1>10, <1>11, MappingKeyFacts
<1>15. \A s \in Sides : plan'.creates[s] \subseteq plan.creates[s]
  BY <1>9
<1> QED
  BY <1>6, <1>7, <1>8, <1>12, <1>13, <1>14, <1>15, RecordedKeys

\* The mapping of a created item has a new key.
LEMMA CreatedKeyNew ==
  ASSUME TypeOK, KeyInv, NEW s \in Sides, NEW op \in plan.creates[s], NEW x \in fetched[s],
         x.id = op.id
  PROVE  /\ CreatedMapping(s, op, x).mkey \notin MKeys(sess.maps)
         /\ CreatedMapping(s, op, x).id = [r \in Sides |-> IF r = s THEN x.id ELSE nextId[r]]
         /\ CreatedMapping(s, op, x).mkey \in Keys => CreatedMapping(s, op, x).mkey = op.key
         /\ CreatedMapping(s, op, x).mkey \in LegacyKeys =>
              CreatedMapping(s, op, x).mkey = LegacyKey(CreatedMapping(s, op, x).id)
<1>1. PICK ids : ids = [r \in Sides |-> IF r = s THEN x.id ELSE nextId[r]]
  OBVIOUS
<1>2. PICK m : m = CreatedMapping(s, op, x)
  OBVIOUS
<1>3. m.id = ids /\ m.mkey = MappingKey(op.key, NoKey, ids)
  BY <1>1, <1>2 DEF CreatedMapping
<1>4. x.id \in Nat /\ op.key \in Keys \cup {NoKey}
  BY DEF TypeOK, Item, PlanType, CreateOp
<1>5. ids \in IdPair
  BY <1>1, <1>4 DEF IdPair, TypeOK
<1>6. m.mkey \in Keys \cup LegacyKeys
  BY <1>3, <1>4, <1>5, MappingKeyTyped
<1>7. m.mkey \in Keys => m.mkey = op.key /\ op.key # NoKey
  BY <1>3, <1>4, <1>5, MappingKeyFacts, SentinelAssumption
<1>8. m.mkey \in LegacyKeys => m.mkey = LegacyKey(ids)
  BY <1>3, <1>4, <1>5, MappingKeyFacts
<1>9. m.mkey \notin MKeys(sess.maps)
  <2>1. CASE m.mkey \in Keys
    BY <1>7, <2>1 DEF KeyInv, CreatesKeyed
  <2>2. CASE m.mkey \in LegacyKeys
    <3> SUFFICES ASSUME NEW o \in sess.maps, o.mkey = m.mkey
                 PROVE  FALSE
      BY DEF MKeys
    <3>1. KnownMapping(o) /\ o.id \in IdPair
      BY DEF KeyInv, MapsKnown, TypeOK, Database, Mapping, IdPair
    <3>2. o.id = ids
      BY <1>5, <1>8, <2>2, <3>1, LegacyKeyInjective DEF KnownMapping
    <3>3. ids[Other(s)] = nextId[Other(s)] /\ ids[Other(s)] < nextId[Other(s)]
      BY <1>1, <3>1, <3>2, SidesFacts DEF KnownMapping
    <3>4. nextId[Other(s)] \in Nat
      BY SidesFacts DEF TypeOK
    <3> QED
      BY <3>3, <3>4
  <2> QED
    BY <1>6, <2>1, <2>2
<1> QED
  BY <1>1, <1>2, <1>3, <1>7, <1>8, <1>9

\* Recording a created item clashes with no create that is left.
LEMMA CreateKeys ==
  ASSUME TypeOK, TypeOK', KeyInv, FetchedKnown', ServersStep,
         NEW s \in Sides, NEW op \in plan.creates[s], Create(s, op)
  PROVE  KeyInv'
<1> DEFINE p == [plan EXCEPT !.creates[s] = @ \ {op}]
<1>1. PICK x \in fetched[s] : \E w \in Creations(Other(s), x) :
        /\ x.id = op.id
        /\ nextId' = IF w.items = store[Other(s)] THEN nextId
                     ELSE [nextId EXCEPT ![Other(s)] = @ + 1]
        /\ IF w.ok THEN Record(CreatedMapping(s, op, x), p)
           ELSE Continue(p) /\ UNCHANGED <<db, sess>>
  BY DEF Create
<1>2. PICK w \in Creations(Other(s), x) :
        /\ x.id = op.id
        /\ nextId' = IF w.items = store[Other(s)] THEN nextId
                     ELSE [nextId EXCEPT ![Other(s)] = @ + 1]
        /\ IF w.ok THEN Record(CreatedMapping(s, op, x), p)
           ELSE Continue(p) /\ UNCHANGED <<db, sess>>
  BY <1>1
<1>3. PICK m : m = CreatedMapping(s, op, x)
  OBVIOUS
<1>4. /\ m.mkey \notin MKeys(sess.maps)
      /\ m.id = [r \in Sides |-> IF r = s THEN x.id ELSE nextId[r]]
      /\ m.mkey \in Keys => m.mkey = op.key
      /\ m.mkey \in LegacyKeys => m.mkey = LegacyKey(m.id)
  BY <1>2, <1>3, CreatedKeyNew
<1>5. /\ Continue(p)
      /\ \/ ~w.ok /\ UNCHANGED <<db, sess>>
         \/ w.ok /\ sess' = [sess EXCEPT !.maps = @ \cup {m}] /\ UNCHANGED db
  BY <1>2, <1>3, <1>4 DEF Record
<1>6. UNCHANGED tree /\ phase' = "apply"
  BY <1>5 DEF Continue
<1>7. /\ plan'.creates[s] = plan.creates[s] \ {op}
      /\ plan'.creates[Other(s)] = plan.creates[Other(s)]
  BY <1>5, SidesFacts DEF Continue, TypeOK, PlanType
<1>8. \A r \in Sides : r = s \/ r = Other(s)
  BY DEF Sides, Other
<1>9. \A r \in Sides : plan'.creates[r] \subseteq plan.creates[r]
  BY <1>7, <1>8
<1>10. CASE UNCHANGED <<db, sess>>
  <2>1. PairPlanned' /\ NothingPlanned'
    BY <1>6 DEF PairPlanned, NothingPlanned, Early
  <2> QED
    BY <1>6, <1>9, <1>10, <2>1, LeavesStay, KeysStay
<1>11. CASE w.ok /\ sess' = [sess EXCEPT !.maps = @ \cup {m}] /\ UNCHANGED db
  <2>1. m \in Mapping
    BY <1>11 DEF TypeOK, Database
  <2>2. Other(s) \in Sides /\ Other(s) # s /\ nextId[Other(s)] \in Nat
    BY SidesFacts DEF TypeOK
  <2>3. w.items # store[Other(s)]
    <3>1. w.items = store[Other(s)] \cup {NewItem(Other(s), x.key, x.val)}
      BY <1>11 DEF Creations, NewItem
    <3>2. NewItem(Other(s), x.key, x.val).id = nextId[Other(s)]
      BY DEF NewItem
    <3>3. \A i \in store[Other(s)] : i.id # nextId[Other(s)]
      BY <2>2 DEF KeyInv, StoresFresh, Fresh
    <3> QED
      BY <3>1, <3>2, <3>3
  <2>4. nextId'[Other(s)] = nextId[Other(s)] + 1 /\ nextId'[s] = nextId[s]
    BY <1>2, <2>2, <2>3 DEF TypeOK
  <2>5. m.id[s] = op.id /\ m.id[Other(s)] = nextId[Other(s)]
    BY <1>2, <1>4, <2>2
  <2>6. \A r \in Sides : m.id[r] < nextId'[r]
    <3>1. op.id < nextId[s]
      BY DEF KeyInv, CreatesFresh, Fresh
    <3> QED
      BY <1>8, <2>2, <2>4, <2>5, <3>1
  <2>7. \A r \in Sides : \A o \in plan'.creates[r] :
          /\ o.key # NoKey => o.key # m.mkey
          /\ m.mkey \in LegacyKeys => m.id[r] # o.id
    <3>1. ASSUME NEW o \in plan'.creates[s]
          PROVE  /\ o.key # NoKey => o.key # m.mkey
                 /\ m.id[s] # o.id
      <4>1. o \in plan.creates[s] /\ o # op
        BY <1>7
      <4>2. o.id # op.id
        BY <4>1 DEF KeyInv, CreatesFresh, Fresh
      <4>3. o.key # NoKey => o.key \in Keys /\ o.key # op.key
        BY <4>1 DEF KeyInv, CreatesKeyed, TypeOK, PlanType, CreateOp
      <4> QED
        BY <1>4, <2>5, <4>2, <4>3
    <3>2. ASSUME NEW o \in plan'.creates[Other(s)]
          PROVE  /\ o.key # NoKey => o.key # m.mkey
                 /\ m.id[Other(s)] # o.id
      <4>1. o \in plan.creates[Other(s)]
        BY <1>7
      <4>2. o.id # nextId[Other(s)]
        BY <2>2, <4>1 DEF KeyInv, CreatesFresh, Fresh
      <4>3. o.key # NoKey => o.key \in Keys /\ o.key # op.key
        BY <2>2, <4>1, SidesFacts DEF KeyInv, CreatesKeyed, TypeOK, PlanType, CreateOp
      <4> QED
        BY <1>4, <2>5, <4>2, <4>3
    <3> QED
      BY <1>8, <3>1, <3>2
  <2> QED
    BY <1>4, <1>6, <1>9, <1>11, <2>1, <2>6, <2>7, RecordedKeys
<1> QED
  BY <1>5, <1>10, <1>11

\* Every step keeps the invariant.
LEMMA KeyInvStep == TypeInv /\ KeyInv /\ [Next]_vars => KeyInv'
<1> SUFFICES ASSUME TypeOK, CurrentIsSet, KeyInv, [Next]_vars
             PROVE  KeyInv'
  BY DEF TypeInv
<1>1. TypeOK' /\ ServersStep /\ FetchedKnown'
  <2>1. TypeOK' /\ ServersStep
    BY TypeInvStep, ServersStepHolds DEF TypeInv, KeyInv
  <2> QED
    BY <2>1, FetchedStaysKnown DEF KeyInv
<1> DEFINE SamePlan == \A s \in Sides : plan'.creates[s] \subseteq plan.creates[s]
           SameKeys == \A m \in sess'.maps : \E o \in sess.maps : o.mkey = m.mkey /\ o.id = m.id
           Later == /\ phase \notin Early /\ phase' \notin Early \cup {"match_b"}
                    /\ UNCHANGED <<db, tree>> /\ SameKeys /\ SamePlan
<1>2. ASSUME UNCHANGED <<db, tree>>, SameKeys, SamePlan, PairPlanned', NothingPlanned'
      PROVE  KeyInv'
  BY <1>1, <1>2, LeavesStay, KeysStay
<1>3. ASSUME Later PROVE KeyInv'
  <2>1. PairPlanned' /\ NothingPlanned'
    BY <1>3 DEF PairPlanned, NothingPlanned
  <2> QED
    BY <1>2, <1>3, <2>1
<1>4. ASSUME UNCHANGED <<db, sess, tree, plan, cur, phase>> PROVE KeyInv'
  <2>1. PairPlanned' /\ NothingPlanned'
    BY <1>4 DEF KeyInv, PairPlanned, NothingPlanned
  <2> QED
    BY <1>2, <1>4, <2>1
<1>5. ASSUME NEW md \in Modes, Start(md) PROVE KeyInv'
  <2>1. /\ phase = "idle" /\ phase' \in Early
        /\ UNCHANGED <<db, sess, tree, plan>>
    BY <1>5 DEF Start, VisitPhase, Early, workVars
  <2>2. PairPlanned' /\ NothingPlanned'
    BY <2>1 DEF KeyInv, PairPlanned, NothingPlanned, Early
  <2> QED
    BY <1>2, <2>1, <2>2
<1>6. CASE ReturnUnexecuted \/ BuildFails \/ Crash
  BY <1>1, <1>6, RollbackKeys DEF ReturnUnexecuted, BuildFails, Crash
<1>7. ASSUME NEW s \in Sides, SkipContainer(s) \/ ReadState(s) PROVE KeyInv'
  <2>1. /\ phase = "state" /\ phase' \in Early
        /\ UNCHANGED <<db, sess, plan>>
        /\ tree' \in {[tree EXCEPT ![s] = [carried |-> TRUE, leaves |-> {}, cursor |-> rev[s]]],
                      [tree EXCEPT ![s] = [@ EXCEPT !.cursor = rev[s]]]}
    BY <1>7 DEF SkipContainer, ReadState, Built, VisitPhase, Early
  <2>2. \A r \in Sides : tree'[r].leaves \subseteq tree[r].leaves
    BY <2>1 DEF TypeOK, Tree
  <2>3. PairPlanned' /\ NothingPlanned'
    BY <2>1 DEF KeyInv, PairPlanned, NothingPlanned, Early
  <2> QED
    BY <1>1, <2>1, <2>2, <2>3, LeavesStay, KeysStay
<1>8. ASSUME NEW s \in Sides, List(s) PROVE KeyInv'
  BY <1>1, <1>8, ListKeys
<1>9. CASE Compare
  BY <1>1, <1>9, CompareKeys
<1>10. CASE Proceed
  BY <1>3, <1>10 DEF Proceed, PhaseAfter, Early, workVars
<1>11. ASSUME NEW s \in Sides, FetchMerges(s) PROVE KeyInv'
  BY <1>3, <1>11 DEF FetchMerges, Early
<1>12. CASE FetchMergesFails
  <2>1. SamePlan
    BY <1>12 DEF FetchMergesFails, TypeOK, PlanType
  <2> QED
    BY <1>3, <1>12, <2>1 DEF FetchMergesFails, PhaseAfter, Early
<1>13. ASSUME NEW op, MergeDone(op) PROVE SamePlan
  BY <1>13 DEF MergeDone, TypeOK, PlanType
<1>14. ASSUME NEW op \in plan.merges, MergeSkipped(op) PROVE KeyInv'
  BY <1>3, <1>13, <1>14 DEF MergeSkipped, MergeDone, PhaseAfter, Early
<1>15. ASSUME NEW op \in plan.merges, MergeWriteA(op) PROVE KeyInv'
  BY <1>3, <1>15 DEF MergeWriteA, Early
<1>16. CASE MergeWriteB
  <2>1. PICK fpb, ok : sess' = [sess EXCEPT !.maps = RecordMerge(@, fpb, ok)]
    BY <1>16 DEF MergeWriteB
  <2>2. SameKeys
    <3>1. ASSUME NEW m \in sess'.maps
          PROVE  \E o \in sess.maps : o.mkey = m.mkey /\ o.id = m.id
      <4>1. m \in RecordMerge(sess.maps, fpb, ok)
        BY <2>1 DEF TypeOK, Database
      <4>2. PICK o \in sess.maps :
              m \in {o, [o EXCEPT !.fp = [s \in Sides |-> IF s = "a" THEN cur.fp ELSE fpb],
                                  !.snap = cur.val]}
        BY <4>1 DEF RecordMerge
      <4>3. o \in Mapping
        BY DEF TypeOK, Database
      <4> QED
        BY <4>2, <4>3 DEF Mapping
    <3> QED
      BY <3>1
  <2>3. /\ phase \notin Early /\ phase' \notin Early \cup {"match_b"}
        /\ UNCHANGED <<db, tree>> /\ SamePlan
    BY <1>13, <1>16 DEF MergeWriteB, MergeDone, PhaseAfter, Early
  <2> QED
    BY <1>3, <2>2, <2>3
<1>17. ASSUME NEW s \in Sides, FetchSources(s) \/ FetchSourcesFails(s) PROVE KeyInv'
  <2>1. SamePlan
    <3>1. UNCHANGED plan \/ \E F : SourcesRead(F)
      BY <1>17 DEF FetchSources, FetchSourcesFails
    <3>2. ASSUME NEW F, SourcesRead(F) PROVE SamePlan
      BY <3>2 DEF SourcesRead, TypeOK, PlanType
    <3> QED
      BY <3>1, <3>2
  <2> QED
    BY <1>3, <1>17, <2>1 DEF FetchSources, FetchSourcesFails, Early
<1>18. ASSUME NEW ids \in matched, MatchWriteA(ids) PROVE KeyInv'
  BY <1>1, <1>18, MatchWriteAKeys
<1>19. CASE MatchWriteB
  BY <1>1, <1>19, MatchWriteBKeys
<1>20. ASSUME NEW s \in Sides, NEW op \in plan.creates[s], Create(s, op) PROVE KeyInv'
  BY <1>1, <1>20, CreateKeys
<1>21. ASSUME NEW s \in Sides, NEW id \in plan.deletes[s], Delete(s, id) PROVE KeyInv'
  <2>1. SamePlan
    BY <1>21 DEF Delete, TypeOK, PlanType
  <2> QED
    BY <1>3, <1>21, <2>1 DEF Delete, Early
<1>22. CASE Finish
  <2>1. /\ phase' = "idle" /\ plan' = EmptyPlan /\ tree' = [s \in Sides |-> NoTree]
        /\ db'.maps = sess.maps /\ sess'.maps = sess.maps
    BY <1>22 DEF Finish, EndRun, TypeOK, Database
  <2>2. PairPlanned' /\ NothingPlanned' /\ SamePlan
    BY <2>1 DEF PairPlanned, NothingPlanned, EmptyPlan
  <2>3. LeavesFresh'
    BY <1>1, <2>1, LeavesStay DEF NoTree
  <2> QED
    BY <1>1, <2>1, <2>2, <2>3, KeysStay
<1>23. CASE Users
  BY <1>4, <1>23 DEF Users, UserCreate, UserEdit, UserDelete, UserMayAct, runVars, workVars
<1>24. CASE UNCHANGED vars
  BY <1>4, <1>24 DEF vars, runVars, workVars
<1>25. CASE Run
  BY <1>7, <1>8, <1>9, <1>10, <1>11, <1>14, <1>15, <1>16, <1>17, <1>18, <1>19, <1>20,
     <1>21, <1>22, <1>25
     DEF Run
<1>26. CASE Failures
  BY <1>6, <1>12, <1>17, <1>26 DEF Failures
<1> QED
  BY <1>5, <1>6, <1>23, <1>24, <1>25, <1>26 DEF Next

\* No write of a run is lost to the unique constraint: what a create or a matched
\* pair would record has a key that no mapping has, a legacy one too.
AllRecordable ==
  /\ NoKeyClash
  /\ \A s \in Sides : \A op \in plan.creates[s], x \in fetched[s] :
       x.id = op.id => CreatedMapping(s, op, x).mkey \notin MKeys(sess.maps)

\* The invariant holds in every state.
LEMMA KeyInvHolds == Spec => [](TypeInv /\ KeyInv)
<1>1. Init => TypeInv /\ KeyInv
  <2> SUFFICES ASSUME Init PROVE TypeInv /\ KeyInv
    OBVIOUS
  <2>1. TypeInv
    BY InitTypeOK DEF TypeInv, CurrentIsSet, Init
  <2>2. StoresFresh
    <3>1. PICK sc \in Scenarios : store = sc.items
      BY DEF Init
    <3> QED
      BY <3>1, EngineAssumption DEF Init, StoresFresh, Fresh
  <2>3. FetchedKnown
    BY DEF Init, FetchedKnown
  <2> QED
    BY <2>1, <2>2, <2>3
       DEF Init, KeyInv, LeavesFresh, MapsKnown, CreatesFresh, CreatesKeyed,
           CreatesUnmapped, PairPlanned, NothingPlanned, NoTree, EmptyPlan,
           EmptyDatabase, Fresh
<1>2. TypeInv /\ KeyInv /\ [Next]_vars => TypeInv' /\ KeyInv'
  BY TypeInvStep, KeyInvStep
<1> QED
  BY <1>1, <1>2, PTL DEF Spec

(***************************************************************************)
(* No planned operation and no matched pair carries a key that is taken, so *)
(* the unique constraint never ends a run half way.                         *)
(***************************************************************************)
THEOREM KeysNeverClash == Spec => []NoKeyClash /\ []AllRecordable
<1>1. TypeInv /\ KeyInv => AllRecordable
  <2> SUFFICES ASSUME TypeOK, KeyInv PROVE AllRecordable
    BY DEF TypeInv
  <2>1. NoKeyClash
    BY PairKeyNew DEF NoKeyClash, KeyInv, CreatesKeyed
  <2> QED
    BY <2>1, CreatedKeyNew DEF AllRecordable
<1>2. AllRecordable => NoKeyClash
  BY DEF AllRecordable
<1> QED
  BY <1>1, <1>2, KeyInvHolds, PTL
==============================================================================
