----------------------------- MODULE TreeCompare -----------------------------
(***************************************************************************)
(* The comparison of one matched pair of containers (tree.py,               *)
(* _compare_node, the leaf part): from the leaves each side listed and the  *)
(* item mappings of the pair, the operations to run and the mappings left.  *)
(*                                                                          *)
(* L is [Sides -> set of leaves], M the set of the pair's mappings.  Both   *)
(* sides are treated alike in the code, written out twice; here an operator *)
(* takes the side as its last argument.                                     *)
(***************************************************************************)
EXTENDS Naturals, Sides

CONSTANTS
  Keys,      \* identity keys: hashes of an item's cross-provider identity
  NoKey,     \* the identity_key of a leaf whose adapter derives none
  Values,    \* contents of an item
  NoSnap     \* the snapshot of a mapping that was never merged

ASSUME SentinelAssumption == NoKey \notin Keys /\ NoSnap \notin Values

\* A SyncNode of type LEAF: provider id, identity key, fingerprint.
Leaf == [id : Nat, key : Keys \cup {NoKey}, fp : Nat]

\* _legacy_identity_key: the key of a mapping whose items have no identity key.
LegacyKeys == Nat \X Nat
LegacyKey(ids) == <<ids["a"], ids["b"]>>

\* An ItemMapping row with its ItemSnapshot.
Mapping == [mkey : Keys \cup LegacyKeys,
            id   : [Sides -> Nat],
            fp   : [Sides -> Nat],
            snap : Values \cup {NoSnap}]

MKeys(M) == {m.mkey : m \in M}

-------------------------------------------------------------------------------
(* _bucket: leaves that share a key within a side lose it. *)

Shared(L, s, l) == \E x \in L[s] : x # l /\ x.key = l.key

Keyed(L, s) == {l \in L[s] : l.key # NoKey /\ ~Shared(L, s, l)}

Loose(L, s) == L[s] \ Keyed(L, s)

LooseIds(L, s) == {l.id : l \in Loose(L, s)}

KeyedKeys(L, s) == {l.key : l \in Keyed(L, s)}

At(L, s, k) == CHOOSE l \in Keyed(L, s) : l.key = k

-------------------------------------------------------------------------------
(* Mappings whose two items are both loose: the cached pairing is trusted. *)

ViaCache(L, M) == {m \in M : \A s \in Sides : m.id[s] \in LooseIds(L, s)}

Settled(L, M, s) == {m.id[s] : m \in ViaCache(L, M)}

\* The keys of the main loop; a key resolved via the cache is passed over.
Open(L, M, k) == k \notin MKeys(ViaCache(L, M))

OnBoth(L, M) ==
  {k \in KeyedKeys(L, "a") \cap KeyedKeys(L, "b") : Open(L, M, k)}

\* Faulty variant: the other side's keys are not looked at.
OnlyOnIgnoringOther(L, M, s) == {l \in Keyed(L, s) : Open(L, M, l.key)}

\* Leaves of one side whose key the other does not have.
OnlyOn(L, M, s) ==
  {l \in Keyed(L, s) : /\ Open(L, M, l.key)
                       /\ l.key \notin KeyedKeys(L, Other(s))}

-------------------------------------------------------------------------------
(* What happens to the mappings. *)

Healed(L, M, m) ==
  IF m.mkey \in OnBoth(L, M)
    THEN [m EXCEPT !.id = [s \in Sides |-> At(L, s, m.mkey).id]]
    ELSE m

\* Faulty variant: a mapping goes with the first of its items.
GoneFromEither(L, M) ==
  {m \in M : Open(L, M, m.mkey)
             /\ \E s \in Sides : m.mkey \notin KeyedKeys(L, s)}

\* Keyed on neither side: the mapping is deleted ("both gone").
Gone(L, M) ==
  {m \in M : Open(L, M, m.mkey)
             /\ \A s \in Sides : m.mkey \notin KeyedKeys(L, s)}

NewPair(L, k) ==
  [mkey |-> k,
   id   |-> [s \in Sides |-> At(L, s, k).id],
   fp   |-> [s \in Sides |-> At(L, s, k).fp],
   snap |-> NoSnap]

NewPairs(L, M) == {NewPair(L, k) : k \in OnBoth(L, M) \ MKeys(M)}

MappingsAfter(L, M) ==
  {Healed(L, M, m) : m \in M \ Gone(L, M)} \cup NewPairs(L, M)

-------------------------------------------------------------------------------
(* The operations. *)

\* Faulty variant: B's fingerprint is not compared.
DriftedOnA(L, m) ==
  \E l \in L["a"] : l.id = m.id["a"] /\ l.fp # m.fp["a"]

\* A fingerprint is not the recorded one.
Drifted(L, m) ==
  \E s \in Sides : \E l \in L[s] : l.id = m.id[s] /\ l.fp # m.fp[s]

\* MERGE_ITEM: the provider ids of the two items.
Merges(L, M) ==
  {m.id : m \in {x \in ViaCache(L, M) : Drifted(L, x)}}
  \cup
  {m.id : m \in {x \in {Healed(L, M, y) : y \in {z \in M : z.mkey \in OnBoth(L, M)}} :
                   Drifted(L, x)}}

\* CREATE_ITEM for an item of side s, on the other side: its id and op key.
CreateOp == [id : Nat, key : Keys \cup {NoKey}]

\* Faulty variant: mappings are not looked at.
CreatesIgnoringCache(L, M, s) ==
  {[id |-> l.id, key |-> l.key] : l \in OnlyOn(L, M, s)}
  \cup {[id |-> l.id, key |-> NoKey] : l \in Loose(L, s)}

\* A keyed leaf without a mapping, and every loose one that is not settled.
Creates(L, M, s) ==
  {[id |-> l.id, key |-> l.key] : l \in {x \in OnlyOn(L, M, s) : x.key \notin MKeys(M)}}
  \cup
  {[id |-> l.id, key |-> NoKey] : l \in {x \in Loose(L, s) : x.id \notin Settled(L, M, s)}}

\* DELETE_ITEM on side s; none without a cache for the pair.
Deletes(L, M, s) ==
  IF M = {} THEN {}
  ELSE {l.id : l \in {x \in OnlyOn(L, M, s) : x.key \in MKeys(M)}}

PlanType == [merges  : SUBSET [Sides -> Nat],
             creates : [Sides -> SUBSET CreateOp],
             deletes : [Sides -> SUBSET Nat]]

Plan(L, M) ==
  [merges  |-> Merges(L, M),
   creates |-> [s \in Sides |-> Creates(L, M, s)],
   deletes |-> [s \in Sides |-> Deletes(L, M, s)]]

EmptyPlan ==
  [merges  |-> {},
   creates |-> [s \in Sides |-> {}],
   deletes |-> [s \in Sides |-> {}]]

\* The two-sided DELETE_ITEM that only reports a deleted mapping writes nothing.
HasWrites(p) ==
  \/ p.merges # {}
  \/ \E s \in Sides : p.creates[s] # {} \/ p.deletes[s] # {}

-------------------------------------------------------------------------------
(***************************************************************************)
(* Subtree hashes.  A container's hash is a digest of its leaves' ids and   *)
(* fingerprints, so equal hashes are equal sets of those.  The hash a       *)
(* skipped container carries is the stored COMBINED hash of the pair: no    *)
(* combination with it equals an earlier one, which Mixed stands for.       *)
(***************************************************************************)
Digest(L, s) == {<<l.id, l.fp>> : l \in L[s]}

Merkle == [kind : {"none", "mixed", "listed"},
           of   : [Sides -> SUBSET (Nat \X Nat)]]

NoMerkle == [kind |-> "none", of |-> [s \in Sides |-> {}]]
Mixed    == [kind |-> "mixed", of |-> [s \in Sides |-> {}]]

\* Faulty variant: A's hash twice.
CombineOneSided(L, carried) ==
  IF \E s \in Sides : carried[s] THEN Mixed
  ELSE [kind |-> "listed", of |-> [s \in Sides |-> Digest(L, "a")]]

\* _combine_merkle over the two containers' compute_merkle.
Combine(L, carried) ==
  IF \E s \in Sides : carried[s] THEN Mixed
  ELSE [kind |-> "listed", of |-> [s \in Sides |-> Digest(L, s)]]

\* The PRUNE check.
Prunes(stored, L, carried) ==
  /\ stored.kind = "listed"
  /\ stored = Combine(L, carried)
==============================================================================
