--------------------------- MODULE SyncEngineSafety ---------------------------
(***************************************************************************)
(* What the engine never does to items: theorems about SyncEngine.          *)
(*                                                                          *)
(* First for two DAV servers, which key a leaf by its uid, as long as they  *)
(* skip no container: however runs fail, crash and interleave with users,   *)
(* no item is doubled, lost, deleted without cause or, but by the merge     *)
(* that fetched it, brought back.  Then, for these and for adapters that    *)
(* make no identity keys, what is recorded of the values of items is true,  *)
(* and no merge overwrites an edit with what was there before.  Last, again *)
(* for DAV, a pair that is pruned has nothing to sync.                      *)
(***************************************************************************)
EXTENDS SyncEngineProofs

USE DEF historyVars

\* Two DAV sides, users who give an item an identity of its own, and stores that
\* begin without duplicates.
Dav ==
  /\ \A s \in Sides : Identifies[s] = "uid"
  /\ MatchOn \subseteq {"uid"}
  /\ ~ReuseKeys
  /\ \A sc \in Scenarios, s \in Sides : \A i, j \in sc.items[s] : i.key = j.key => i = j

\* No run has found a sync-token unchanged and passed a container over: from then on
\* mapped items look deleted.
NothingSkipped == \A s \in Sides : ~tree[s].carried

-------------------------------------------------------------------------------
(***************************************************************************)
(* The inductive invariant is about references: an id on a side together    *)
(* with an identity key, held by an item, a leaf, a planned create, a       *)
(* mapping or a fetched item.  An id stands for one key, and, but for       *)
(* fetched items, a key for one id.                                         *)
(***************************************************************************)

Has(S, i, k) == \E x \in S : x.id = i /\ x.key = k

Maps(M, s, i, k) == \E m \in M : m.id[s] = i /\ m.mkey = k

KeyRef(s, i, k) ==
  \/ Has(store[s], i, k)
  \/ Has(tree[s].leaves, i, k)
  \/ Has(plan.creates[s], i, k)
  \/ Maps(db.maps, s, i, k)
  \/ Maps(sess.maps, s, i, k)

Ref(s, i, k) == KeyRef(s, i, k) \/ Has(fetched[s], i, k)

DeletedKeys == {d[1] : d \in deleted}

RefsKnown == \A s \in Sides : \A i, k : Ref(s, i, k) => i < nextId[s] /\ k \in used

\* Only a user's deletion takes an identity away.
RefsGone ==
  \A s \in Sides : \A i, k : Ref(s, i, k) => Has(store[s], i, k) \/ k \in DeletedKeys

RefsAgree == \A s \in Sides : \A i, k, l : Ref(s, i, k) /\ Ref(s, i, l) => k = l

RefsOne == \A s \in Sides : \A i, j, k : KeyRef(s, i, k) /\ KeyRef(s, j, k) => i = j

ItemsLive ==
  \A k \in used : k \in DeletedKeys \/ \E s \in Sides : \E i : Has(store[s], i, k)

RefInv ==
  /\ RefsKnown
  /\ RefsGone
  /\ RefsAgree
  /\ RefsOne
  /\ DeletedKeys \subseteq used
  /\ ItemsLive

\* An item that a listing missed is new: nothing else has its key yet.
LateNew ==
  \A s \in Sides : phase \in Early /\ TreeBuilt(s) =>
    \A i, k : Has(store[s], i, k) /\ ~Has(tree[s].leaves, i, k) =>
      /\ \A j : ~Has(store[Other(s)], j, k) /\ ~Has(tree[Other(s)].leaves, j, k)
      /\ k \notin MKeys(sess.maps)

\* What is to be created on a side is not there.
CreatesAbsent ==
  \A s \in Sides : \A i, k : Has(plan.creates[s], i, k) =>
    \A j : ~Has(store[Other(s)], j, k)

\* A mapping that a run drops has no item, and nothing recreates one.
DroppedGone ==
  phase \notin Early =>
    \A k \in MKeys(db.maps) \ MKeys(sess.maps) : \A s \in Sides : \A i :
      ~Has(store[s], i, k) /\ ~Has(plan.creates[s], i, k)

\* A key whose item was deleted while mapped stays mapped until its copies are gone.
TrueMapped ==
  \A k : <<k, TRUE>> \in deleted =>
    \/ k \in MKeys(db.maps)
    \/ \A s \in Sides : \A i :
         ~Has(store[s], i, k) /\ ~Has(plan.creates[s], i, k) /\ ~Has(tree[s].leaves, i, k)

DeletesCaused ==
  \A s \in Sides : \A id \in plan.deletes[s] : \E m \in sess.maps :
    m.id[s] = id /\ \A k : ~Has(store[Other(s)], m.id[Other(s)], k)

SourcesPlanned ==
  phase = "source" /\ side = "b" =>
    \A x \in fetched["a"] : \E k : Has(plan.creates["a"], x.id, k)

NothingMatched == matched = {} /\ phase # "match_b"

\* What is to be merged is mapped, in the database too, and is not to be deleted.
MergesCommitted ==
  /\ \A op \in plan.merges :
       /\ \E m \in sess.maps : m.id = op /\ m.mkey \in MKeys(db.maps)
       /\ \A s \in Sides : op[s] \notin plan.deletes[s]
  /\ phase = "merge_b" => cur.ids \in plan.merges

\* What the phase alone says.
Control ==
  /\ phase \notin {"state", "list", "fetch", "source"} => side = "a"
  /\ phase \in Early => sess = db
  /\ phase \notin Early => \A s \in Sides : tree[s].leaves = {}

DavInv ==
  /\ Control
  /\ NothingMatched
  /\ SourcesPlanned
  /\ MergesCommitted
  /\ RefInv
  /\ LateNew
  /\ CreatesAbsent
  /\ DroppedGone
  /\ TrueMapped
  /\ DeletesCaused

-------------------------------------------------------------------------------

\* The phases of a run in which nothing is skipped and nothing is matched.
LEMMA ControlStep ==
  ASSUME TypeOK, NothingSkipped', Control, NothingMatched, [Next]_vars
  PROVE  Control'
<1>1. ASSUME NEW md \in Modes, Start(md) PROVE Control'
  BY <1>1, SidesFacts DEF Start, VisitPhase, Control, Early, workVars
<1>2. CASE ReturnUnexecuted \/ BuildFails \/ Crash
  BY <1>2 DEF ReturnUnexecuted, BuildFails, Crash, Rollback, EndRun, Control, Early
<1>3. ASSUME NEW s \in Sides, SkipContainer(s) \/ ReadState(s) PROVE Control'
  <2>1. ReadState(s)
    BY <1>3 DEF SkipContainer, TypeOK, NothingSkipped
  <2> QED
    BY <2>1 DEF ReadState, Control, Early
<1>4. ASSUME NEW s \in Sides, List(s) PROVE Control'
  BY <1>4, SidesFacts DEF List, Built, VisitPhase, Control, Early
<1>5. CASE Compare
  <2>1. \A s \in Sides : tree'[s].leaves = {}
    BY <1>5 DEF Compare, TypeOK, Tree
  <2> QED
    BY <1>5, <2>1 DEF Compare, Control, Early
<1>6. CASE Proceed \/ (\E s \in Sides : FetchMerges(s)) \/ FetchMergesFails
  BY <1>6 DEF Proceed, FetchMerges, FetchMergesFails, PhaseAfter, Control, Early, workVars
<1>7. CASE \/ \E op \in plan.merges : MergeSkipped(op) \/ MergeWriteA(op)
           \/ MergeWriteB
  BY <1>7 DEF MergeSkipped, MergeWriteA, MergeWriteB, MergeDone, PhaseAfter, Control, Early
<1>8. ASSUME NEW s \in Sides, FetchSources(s) \/ FetchSourcesFails(s) PROVE Control'
  BY <1>8 DEF FetchSources, FetchSourcesFails, Control, Early
<1>9. CASE (\E ids \in matched : MatchWriteA(ids)) \/ MatchWriteB
  BY <1>9 DEF MatchWriteB, NothingMatched
<1>10. ASSUME NEW s \in Sides, NEW op \in plan.creates[s], Create(s, op) PROVE Control'
  BY <1>10 DEF Create, Record, Continue, Rollback, EndRun, Control, Early
<1>11. ASSUME NEW s \in Sides, NEW id \in plan.deletes[s], Delete(s, id) PROVE Control'
  BY <1>11 DEF Delete, Control, Early
<1>12. CASE Finish
  BY <1>12 DEF Finish, EndRun, Control, Early
<1>13. CASE Users
  BY <1>13 DEF Users, UserCreate, UserEdit, UserDelete, UserMayAct, runVars, workVars, Control,
               Early
<1>14. CASE UNCHANGED vars
  BY <1>14 DEF vars, runVars, workVars, Control, Early
<1>15. CASE Run
  BY <1>3, <1>4, <1>5, <1>6, <1>7, <1>8, <1>9, <1>10, <1>11, <1>12, <1>15 DEF Run
<1>16. CASE Failures
  BY <1>2, <1>6, <1>8, <1>16 DEF Failures
<1> QED
  BY <1>1, <1>2, <1>13, <1>14, <1>15, <1>16 DEF Next

-------------------------------------------------------------------------------
(***************************************************************************)
(* Steps that bring no item, plan nothing and record nothing: all but a     *)
(* create, a listing, a comparison and a user's new item.                   *)
(***************************************************************************)

\* No reference is new, and an item goes only when a user deleted its identity.
RefsOnlyGo ==
  /\ \A s \in Sides :
       /\ nextId'[s] = nextId[s]
       /\ \A i, k :
            /\ Has(store[s], i, k) => Has(store'[s], i, k) \/ k \in DeletedKeys'
            /\ KeyRef(s, i, k)' => KeyRef(s, i, k)
            /\ Ref(s, i, k)' => Ref(s, i, k)
  /\ used' = used
  /\ DeletedKeys \subseteq DeletedKeys' /\ DeletedKeys' \subseteq used

\* An item that a merge may put back: it is mapped.
Back(s, i, k) ==
  /\ phase \in {"merge", "merge_b"}
  /\ \E op \in plan.merges : op[s] = i
  /\ Has(fetched[s], i, k)

Stays ==
  /\ \A s \in Sides :
       /\ nextId'[s] = nextId[s]
       /\ \A i, k :
            /\ Has(store'[s], i, k) => Has(store[s], i, k) \/ Back(s, i, k)
            /\ Has(store[s], i, k) => Has(store'[s], i, k) \/ k \in DeletedKeys'
            /\ Has(tree'[s].leaves, i, k) => Has(tree[s].leaves, i, k)
            /\ Has(plan'.creates[s], i, k) => Has(plan.creates[s], i, k)
            /\ Maps(db'.maps, s, i, k) => Maps(db.maps, s, i, k) \/ Maps(sess.maps, s, i, k)
            /\ Maps(sess'.maps, s, i, k) => Maps(db.maps, s, i, k) \/ Maps(sess.maps, s, i, k)
            /\ Has(fetched'[s], i, k) => Has(fetched[s], i, k) \/ Has(store[s], i, k)
  /\ used' = used
  /\ DeletedKeys \subseteq DeletedKeys' /\ DeletedKeys' \subseteq used

\* Such a step keeps what is known of the references.
LEMMA RefsStay ==
  ASSUME RefInv, RefsOnlyGo
  PROVE  RefInv'
<1>1. RefsKnown' /\ RefsGone'
  BY DEF RefInv, RefsKnown, RefsGone, RefsOnlyGo
<1>2. RefsAgree'
  BY DEF RefInv, RefsAgree, RefsOnlyGo
<1>3. RefsOne'
  BY DEF RefInv, RefsOne, RefsOnlyGo
<1>4. DeletedKeys' \subseteq used' /\ ItemsLive'
  BY DEF RefInv, ItemsLive, RefsOnlyGo
<1> QED
  BY <1>1, <1>2, <1>3, <1>4 DEF RefInv

\* While a tree is built, it and the mappings stay.
ListingStays ==
  \A s \in Sides : phase' \in Early /\ TreeBuilt(s)' =>
    /\ phase \in Early /\ TreeBuilt(s) /\ sess'.maps = sess.maps
    /\ tree'[s].leaves = tree[s].leaves

MappedStay ==
  phase' \notin Early =>
    /\ phase \notin Early
    /\ MKeys(db'.maps) = MKeys(db.maps)
    /\ MKeys(sess.maps) \subseteq MKeys(sess'.maps)

DeletesStay ==
  \A s \in Sides : \A id \in plan'.deletes[s] :
    /\ id \in plan.deletes[s]
    /\ \A m \in sess.maps : \E o \in sess'.maps : o.id = m.id

MergesStay ==
  /\ \A op \in plan'.merges :
       /\ op \in plan.merges /\ db' = db
       /\ \A s \in Sides : plan'.deletes[s] \subseteq plan.deletes[s]
       /\ \A m \in sess.maps : \E o \in sess'.maps : o.mkey = m.mkey /\ o.id = m.id
  /\ phase' = "merge_b" => cur'.ids \in plan'.merges

LEMMA MergesStayMapped ==
  ASSUME MergesCommitted, MergesStay
  PROVE  MergesCommitted'
BY DEF MergesCommitted, MergesStay

\* What a merge may put back has its reference, is neither to be created nor the
\* missing counterpart of an item to be deleted, and its key stays mapped.
LEMMA BackFacts ==
  ASSUME TypeOK, KeyInv, DavInv, NEW s \in Sides, NEW i, NEW k, Back(s, i, k)
  PROVE  /\ phase \notin Early
         /\ KeyRef(s, i, k)
         /\ k \in MKeys(sess.maps) /\ k \in MKeys(db.maps)
         /\ \A r \in Sides : \A j : ~Has(plan.creates[r], j, k)
         /\ \A id \in plan.deletes[Other(s)], m \in sess.maps :
              m.id[Other(s)] = id => m.id[s] # i
<1>1. PICK op \in plan.merges : op[s] = i
  BY DEF Back
<1>2. PICK m \in sess.maps : m.id = op /\ m.mkey \in MKeys(db.maps)
  BY DEF DavInv, MergesCommitted
<1>3. KeyRef(s, i, m.mkey) /\ Ref(s, i, k)
  BY <1>1, <1>2 DEF Back, KeyRef, Ref, Maps
<1>4. m.mkey = k /\ k \in used
  BY <1>3 DEF Ref, DavInv, RefInv, RefsAgree, RefsKnown
<1>5. k \in MKeys(sess.maps) /\ k # NoKey
  BY <1>2, <1>4, SentinelAssumption DEF MKeys, TypeOK
<1>6. \A r \in Sides : \A j : ~Has(plan.creates[r], j, k)
  BY <1>5 DEF KeyInv, CreatesKeyed, Has
<1>7. \A id \in plan.deletes[Other(s)], n \in sess.maps :
         n.id[Other(s)] = id => n.id[s] # i
  <2> SUFFICES ASSUME NEW id \in plan.deletes[Other(s)], NEW n \in sess.maps,
                      n.id[Other(s)] = id, n.id[s] = i
               PROVE  FALSE
    OBVIOUS
  <2>1. Ref(s, i, n.mkey)
    BY DEF Ref, KeyRef, Maps
  <2>2. n.mkey = k
    BY <1>3, <2>1 DEF DavInv, RefInv, RefsAgree
  <2>3. KeyRef(Other(s), id, k) /\ KeyRef(Other(s), op[Other(s)], k)
    BY <1>2, <1>4, <2>2 DEF KeyRef, Maps
  <2>4. op[Other(s)] = id
    BY <2>3, SidesFacts DEF DavInv, RefInv, RefsOne
  <2> QED
    BY <2>4, SidesFacts DEF DavInv, MergesCommitted
<1> QED
  BY <1>2, <1>3, <1>4, <1>5, <1>6, <1>7 DEF Back, Early

\* Such a step keeps the rest of the invariant, too.
LEMMA InvStays ==
  ASSUME TypeOK, KeyInv, DavInv, Control', NothingMatched', SourcesPlanned', TrueMapped',
         Stays, ListingStays, MappedStay, DeletesStay, MergesStay
  PROVE  DavInv'
<1>1. RefInv'
  <2>1. \A s \in Sides : \A i, k : /\ KeyRef(s, i, k)' => KeyRef(s, i, k)
                                   /\ Ref(s, i, k)' => Ref(s, i, k)
    BY BackFacts DEF Stays, KeyRef, Ref
  <2>2. RefsOnlyGo
    BY <2>1 DEF RefsOnlyGo, Stays
  <2> QED
    BY <2>2, RefsStay DEF DavInv
<1>2. LateNew'
  <2> SUFFICES ASSUME NEW s \in Sides, phase' \in Early, TreeBuilt(s)', NEW i, NEW k,
                      Has(store'[s], i, k), ~Has(tree'[s].leaves, i, k)
               PROVE  /\ \A j : /\ ~Has(store'[Other(s)], j, k)
                               /\ ~Has(tree'[Other(s)].leaves, j, k)
                      /\ k \notin MKeys(sess'.maps)
    BY DEF LateNew
  <2>1. /\ phase \in Early /\ TreeBuilt(s) /\ sess'.maps = sess.maps
        /\ tree'[s].leaves = tree[s].leaves
    BY DEF ListingStays
  <2>2. \A r \in Sides : \A j : Has(store'[r], j, k) => Has(store[r], j, k)
    BY <2>1, BackFacts DEF Stays
  <2>3. /\ \A j : ~Has(store[Other(s)], j, k) /\ ~Has(tree[Other(s)].leaves, j, k)
        /\ k \notin MKeys(sess.maps)
    BY <2>1, <2>2 DEF DavInv, LateNew
  <2> QED
    BY <2>1, <2>2, <2>3, SidesFacts DEF Stays
<1>3. CreatesAbsent'
  BY SidesFacts, BackFacts DEF DavInv, CreatesAbsent, Stays
<1>4. DroppedGone'
  BY BackFacts DEF DavInv, DroppedGone, Stays, MappedStay
<1>5. DeletesCaused'
  <2> SUFFICES ASSUME NEW s \in Sides, NEW id \in plan'.deletes[s]
               PROVE  \E o \in sess'.maps :
                        o.id[s] = id /\ \A k : ~Has(store'[Other(s)], o.id[Other(s)], k)
    BY DEF DeletesCaused
  <2>1. PICK m \in sess.maps :
          m.id[s] = id /\ \A k : ~Has(store[Other(s)], m.id[Other(s)], k)
    BY DEF DavInv, DeletesCaused, DeletesStay
  <2>2. PICK o \in sess'.maps : o.id = m.id
    BY DEF DeletesStay
  <2>3. \A k : ~Back(Other(s), m.id[Other(s)], k)
    <3>1. Other(s) \in Sides /\ Other(Other(s)) = s
      BY SidesFacts DEF Sides, Other
    <3> QED
      BY <2>1, <3>1, BackFacts DEF DeletesStay
  <2> QED
    BY <2>1, <2>2, <2>3, SidesFacts DEF Stays
<1>6. MergesCommitted'
  BY MergesStayMapped DEF DavInv
<1> QED
  BY <1>1, <1>2, <1>3, <1>4, <1>5, <1>6 DEF DavInv

-------------------------------------------------------------------------------
(* What the servers' steps do to the references. *)

\* A merge puts back an item that a user deleted after it was fetched.
MergePut(s) ==
  phase \in {"merge", "merge_b"} /\ \E op \in plan.merges : Restored(s, op[s])

Wrote(s) == Kept(s) \/ Edited(s) \/ MergePut(s)

\* Keys and ids of items are typed, and an edit changes neither.
LEMMA EditHas ==
  ASSUME TypeOK, NEW s \in Sides, Kept(s) \/ Edited(s)
  PROVE  \A i, k : Has(store'[s], i, k) <=> Has(store[s], i, k)
<1>1. CASE Kept(s)
  BY <1>1 DEF Kept
<1>2. CASE Edited(s)
  <2>1. PICK x \in store[s], v \in Values :
          store'[s] = (store[s] \ {x}) \cup {EditedItem(x, v)}
    BY <1>2 DEF Edited
  <2>2. EditedItem(x, v).id = x.id /\ EditedItem(x, v).key = x.key
    BY EditedItemFacts DEF TypeOK
  <2> QED
    BY <2>1, <2>2 DEF Has
<1> QED
  BY <1>1, <1>2

\* The write of a merge takes no reference away and brings only one it had fetched.
LEMMA WroteHas ==
  ASSUME TypeOK, NEW s \in Sides, Wrote(s)
  PROVE  \A i, k : /\ Has(store[s], i, k) => Has(store'[s], i, k)
                   /\ Has(store'[s], i, k) => Has(store[s], i, k) \/ Back(s, i, k)
<1>1. CASE Kept(s) \/ Edited(s)
  BY <1>1, EditHas
<1>2. ASSUME phase \in {"merge", "merge_b"}, NEW op \in plan.merges, Restored(s, op[s])
      PROVE  \A i, k : /\ Has(store[s], i, k) => Has(store'[s], i, k)
                       /\ Has(store'[s], i, k) => Has(store[s], i, k) \/ Back(s, i, k)
  <2>1. PICK f \in fetched[s], v \in Values :
          f.id = op[s] /\ store'[s] = store[s] \cup {RestoredItem(s, f, v)}
    BY <1>2 DEF Restored
  <2>2. RestoredItem(s, f, v).id = f.id /\ RestoredItem(s, f, v).key = f.key
    BY RestoredItemFacts DEF TypeOK
  <2>3. Back(s, f.id, f.key)
    BY <1>2, <2>1 DEF Back, Has
  <2> QED
    BY <2>1, <2>2, <2>3 DEF Has
<1> QED
  BY <1>1, <1>2 DEF Wrote, MergePut

\* Removing an item loses its references in the store only.
LEMMA RemoveHas ==
  ASSUME NEW S, NEW T, NEW id, T = {x \in S : x.id # id}
  PROVE  \A i, k : Has(T, i, k) <=> Has(S, i, k) /\ i # id
BY DEF Has

\* A new item brings one reference.
LEMMA AddHas ==
  ASSUME NEW S, NEW T, NEW s, NEW key, NEW v, T = S \cup {NewItem(s, key, v)}
  PROVE  \A i, k : Has(T, i, k) <=> Has(S, i, k) \/ (i = nextId[s] /\ k = key)
<1>1. NewItem(s, key, v).id = nextId[s] /\ NewItem(s, key, v).key = key
  BY DEF NewItem
<1> QED
  BY <1>1 DEF Has

\* Fewer items, fewer references.
LEMMA SubsetHas ==
  ASSUME NEW S, NEW T \in SUBSET S
  PROVE  \A i, k : Has(T, i, k) => Has(S, i, k)
BY DEF Has

\* Mappings with the same ids and keys make the same references.
LEMMA SameMaps ==
  ASSUME NEW M, NEW N, \A n \in N : \E m \in M : m.mkey = n.mkey /\ m.id = n.id
  PROVE  /\ \A s, i, k : Maps(N, s, i, k) => Maps(M, s, i, k)
         /\ MKeys(N) \subseteq MKeys(M)
BY DEF Maps, MKeys

\* A mapping makes a reference for its key on either side.
LEMMA MKeysMaps ==
  ASSUME NEW M, NEW k \in MKeys(M), NEW s
  PROVE  \E i : Maps(M, s, i, k)
BY DEF MKeys, Maps

-------------------------------------------------------------------------------
(* The steps that stay. *)

SameRefs(S, T) == \A i, k : Has(T, i, k) => Has(S, i, k)

\* A step of a run that keeps the keys users gave and deleted.
LEMMA RunStays ==
  ASSUME TypeOK, KeyInv, DavInv, Control', NothingMatched', SourcesPlanned',
         UNCHANGED historyVars,
         \A s \in Sides : Wrote(s),
         \A s \in Sides : SameRefs(tree[s].leaves, tree'[s].leaves),
         \A s \in Sides : SameRefs(plan.creates[s], plan'.creates[s]),
         \A s \in Sides : SameRefs(fetched[s] \cup store[s], fetched'[s]),
         MKeys(db.maps) \subseteq MKeys(db'.maps) \/ TrueMapped',
         \A m \in db'.maps \cup sess'.maps : \E o \in db.maps \cup sess.maps :
           o.mkey = m.mkey /\ o.id = m.id,
         ListingStays, MappedStay, DeletesStay, MergesStay
  PROVE  DavInv'
<1>1. \A s \in Sides : \A i, k :
        /\ Has(store[s], i, k) => Has(store'[s], i, k)
        /\ Has(store'[s], i, k) => Has(store[s], i, k) \/ Back(s, i, k)
  BY WroteHas
<1>2. \A s \in Sides : nextId'[s] = nextId[s]
  BY DEF Wrote, Kept, Edited, MergePut, Restored
<1>3. \A s, i, k : /\ Maps(db'.maps, s, i, k) => Maps(db.maps, s, i, k) \/ Maps(sess.maps, s, i, k)
                   /\ Maps(sess'.maps, s, i, k) => Maps(db.maps, s, i, k) \/ Maps(sess.maps, s, i, k)
  BY DEF Maps
<1>4. \A s \in Sides : \A i, k :
        Has(fetched[s] \cup store[s], i, k) => Has(fetched[s], i, k) \/ Has(store[s], i, k)
  BY DEF Has
<1>5. DeletedKeys' = DeletedKeys /\ DeletedKeys \subseteq used
  BY DEF DeletedKeys, DavInv, RefInv
<1>6. Stays
  BY <1>1, <1>2, <1>3, <1>4, <1>5 DEF Stays, SameRefs
<1>7. TrueMapped'
  BY <1>1, BackFacts DEF DavInv, TrueMapped, SameRefs
<1> QED
  BY <1>6, <1>7, InvStays

\* A run starts or ends without a commit: nothing is planned.
LEMMA IdleDav ==
  ASSUME TypeOK, DavInv, KeyInv, Control', UNCHANGED <<store, nextId, historyVars, db>>,
         \/ Rollback
         \/ \E md \in Modes : Start(md)
  PROVE  DavInv'
<1>1. \A s \in Sides : Wrote(s)
  BY DEF Wrote, Kept
<1>2. CASE Rollback
  <2>1. /\ phase' = "idle" /\ matched' = {} /\ sess' = db /\ plan'.merges = {}
        /\ \A s \in Sides : /\ tree'[s].leaves = {} /\ fetched'[s] = {}
                            /\ plan'.creates[s] = {} /\ plan'.deletes[s] = {}
    BY <1>2 DEF Rollback, EndRun, NoTree, EmptyPlan
  <2>2. /\ NothingMatched' /\ SourcesPlanned'
        /\ ListingStays /\ MappedStay /\ DeletesStay /\ MergesStay
    BY <2>1 DEF NothingMatched, SourcesPlanned, ListingStays, TreeBuilt, MappedStay, DeletesStay,
                MergesStay, Early
  <2> QED
    BY <1>1, <2>1, <2>2, RunStays DEF SameRefs, Has
<1>3. ASSUME NEW md \in Modes, Start(md) PROVE DavInv'
  <2>1. /\ phase = "idle" /\ phase' \in {"list", "state"} /\ side' = "a"
        /\ UNCHANGED <<sess, tree, plan, fetched, matched>>
    BY <1>3 DEF Start, VisitPhase, workVars
  <2>2. plan.merges = {} /\ phase' # "merge_b"
    BY <2>1 DEF KeyInv, NothingPlanned, Early
  <2>3. /\ NothingMatched' /\ SourcesPlanned'
        /\ ListingStays /\ MappedStay /\ DeletesStay /\ MergesStay
    BY <2>1, <2>2, SidesFacts
       DEF DavInv, NothingMatched, SourcesPlanned, ListingStays, TreeBuilt, MappedStay,
           DeletesStay, MergesStay, Early
  <2> QED
    BY <1>1, <2>1, <2>3, RunStays DEF SameRefs, Has
<1> QED
  BY <1>2, <1>3

\* A step of a run that has compared, and neither creates nor commits.
LEMMA LaterDav ==
  ASSUME TypeOK, KeyInv, DavInv, Control', NothingMatched', SourcesPlanned',
         UNCHANGED <<historyVars, db, tree>>,
         \A s \in Sides : Wrote(s),
         plan'.merges \subseteq plan.merges,
         phase' = "merge_b" => cur'.ids \in plan'.merges,
         phase \notin Early, phase' \notin Early,
         \A s \in Sides : plan'.creates[s] \subseteq plan.creates[s],
         \A s \in Sides : plan'.deletes[s] \subseteq plan.deletes[s],
         \A s \in Sides : fetched'[s] \subseteq fetched[s] \cup store[s],
         \A m \in sess'.maps : \E o \in sess.maps : o.mkey = m.mkey /\ o.id = m.id,
         \A m \in sess.maps : \E o \in sess'.maps : o.mkey = m.mkey /\ o.id = m.id
  PROVE  DavInv'
<1>1. MKeys(sess.maps) \subseteq MKeys(sess'.maps)
  BY SameMaps
<1>2. ListingStays /\ MappedStay /\ DeletesStay /\ MergesStay
  BY <1>1 DEF ListingStays, MappedStay, DeletesStay, MergesStay
<1>3. \A s \in Sides : /\ SameRefs(tree[s].leaves, tree'[s].leaves)
                       /\ SameRefs(plan.creates[s], plan'.creates[s])
                       /\ SameRefs(fetched[s] \cup store[s], fetched'[s])
  BY SubsetHas DEF SameRefs
<1> QED
  BY <1>2, <1>3, RunStays

\* What get_items returns is on the server and was asked for.
LEMMA ReadingsFacts ==
  ASSUME NEW s \in Sides, NEW ids, NEW r \in Readings(s, ids)
  PROVE  r.items \subseteq store[s] /\ \A x \in r.items : x.id \in ids
BY DEF Readings

\* The end of a merge leaves the creates and the deletes.
LEMMA MergeDoneDav ==
  ASSUME TypeOK, NEW op, MergeDone(op)
  PROVE  /\ phase' \notin Early \cup {"match_b"}
          /\ phase' # "merge_b" /\ plan'.merges \subseteq plan.merges
         /\ \A s \in Sides : /\ plan'.creates[s] = plan.creates[s]
                             /\ plan'.deletes[s] = plan.deletes[s]
                             /\ fetched'[s] \subseteq fetched[s]
BY DEF MergeDone, PhaseAfter, Early, TypeOK, PlanType

\* A write of a merge is to the item the merge is about.
LEMMA MergeWrote ==
  ASSUME TypeInv, DavInv, KeyInv,
         \/ \E op \in plan.merges : MergeWriteA(op)
         \/ MergeWriteB
  PROVE  \A r \in Sides : Wrote(r)
<1>1. TypeOK /\ CurrentIsSet /\ StoresFresh
  BY DEF TypeInv, KeyInv
<1>2. ASSUME NEW op \in plan.merges, MergeWriteA(op) PROVE \A r \in Sides : Wrote(r)
  <2>1. PICK x \in fetched["a"], y \in fetched["b"], m \in sess.maps :
          x.id = op["a"] /\ \E v \in MergeResults(x, y, m.snap) : \E w \in Pushes("a", x, v) :
            SetStore("a", w.items)
    BY <1>2 DEF MergeWriteA
  <2>2. PICK v \in MergeResults(x, y, m.snap) : \E w \in Pushes("a", x, v) :
          SetStore("a", w.items)
    BY <2>1
  <2>3. x \in Item /\ y \in Item
    BY <1>1, SidesFacts DEF TypeOK
  <2>4. v \in Values
    BY <2>3, MergeResultsTyped
  <2>5. \A r \in Sides : Kept(r) \/ Edited(r) \/ (r = "a" /\ Restored(r, x.id))
    BY <1>1, <1>2, <2>2, <2>4, PushServers, SidesFacts DEF MergeWriteA
  <2> QED
    BY <1>2, <2>1, <2>5 DEF MergeWriteA, Wrote, MergePut
<1>3. CASE MergeWriteB
  <2>1. cur.val \in Values
    BY <1>1, <1>3 DEF CurrentIsSet, MergeWriteB
  <2>2. PICK y \in fetched["b"] :
          y.id = cur.ids["b"] /\ \E w \in Pushes("b", y, cur.val) : SetStore("b", w.items)
    BY <1>3 DEF MergeWriteB
  <2>3. \A r \in Sides : Kept(r) \/ Edited(r) \/ (r = "b" /\ Restored(r, y.id))
    BY <1>1, <1>3, <2>1, <2>2, PushServers, SidesFacts DEF MergeWriteB
  <2>4. phase = "merge_b" /\ cur.ids \in plan.merges
    BY <1>3 DEF MergeWriteB, DavInv, MergesCommitted
  <2> QED
    BY <2>2, <2>3, <2>4 DEF Wrote, MergePut
<1> QED
  BY <1>2, <1>3

\* Merges and what is around them.
LEMMA MergesDav ==
  ASSUME TypeInv, DavInv, KeyInv, Control',
         \/ Proceed \/ (\E s \in Sides : FetchMerges(s)) \/ FetchMergesFails
         \/ \E op \in plan.merges : MergeSkipped(op) \/ MergeWriteA(op)
         \/ MergeWriteB
  PROVE  DavInv'
<1>1. TypeOK /\ CurrentIsSet /\ StoresFresh
  BY DEF TypeInv, KeyInv
<1>2. ASSUME UNCHANGED <<store, nextId>> PROVE \A s \in Sides : Wrote(s)
  BY <1>2 DEF Wrote, Kept
<1>3. CASE Proceed
  BY <1>1, <1>2, <1>3, LaterDav
     DEF Proceed, PhaseAfter, Early, workVars, serverVars, DavInv, Control, NothingMatched,
         SourcesPlanned
<1>4. ASSUME NEW s \in Sides, FetchMerges(s) PROVE DavInv'
  <2>1. PICK r \in Readings(s, {op[s] : op \in plan.merges}) :
          fetched' = [fetched EXCEPT ![s] = r.items]
    BY <1>4 DEF FetchMerges
  <2>2. \A t \in Sides : fetched'[t] \subseteq fetched[t] \cup store[t]
    BY <1>1, <2>1, ReadingsFacts DEF TypeOK
  <2> QED
    BY <1>1, <1>2, <1>4, <2>2, LaterDav
       DEF FetchMerges, Early, serverVars, DavInv, NothingMatched, SourcesPlanned
<1>5. CASE FetchMergesFails
  <2>1. /\ plan'.merges = {}
        /\ \A s \in Sides : /\ plan'.creates[s] = plan.creates[s]
                            /\ plan'.deletes[s] = plan.deletes[s]
                            /\ fetched'[s] = {}
    BY <1>1, <1>5 DEF FetchMergesFails, TypeOK, PlanType
  <2> QED
    BY <1>1, <1>2, <1>5, <2>1, LaterDav
       DEF FetchMergesFails, PhaseAfter, Early, serverVars, DavInv, NothingMatched, SourcesPlanned
<1>6. ASSUME NEW op \in plan.merges, MergeSkipped(op) PROVE DavInv'
  <2>1. SourcesPlanned' /\ NothingMatched'
    BY <1>1, <1>6, MergeDoneDav DEF MergeSkipped, DavInv, Control, NothingMatched, SourcesPlanned
  <2> QED
    BY <1>1, <1>2, <1>6, <2>1, LaterDav, MergeDoneDav DEF MergeSkipped, Early, serverVars
<1>7. ASSUME NEW op \in plan.merges, MergeWriteA(op) PROVE DavInv'
  <2>1. \A s \in Sides : Wrote(s)
    BY <1>7, MergeWrote
  <2>2. cur'.ids = op
    BY <1>7 DEF MergeWriteA
  <2> QED
    BY <1>1, <1>7, <2>1, <2>2, LaterDav
       DEF MergeWriteA, Early, DavInv, NothingMatched, SourcesPlanned
<1>8. CASE MergeWriteB
  <2>1. \A s \in Sides : Wrote(s)
    BY <1>8, MergeWrote
  <2>2. PICK fpb, ok : sess' = [sess EXCEPT !.maps = RecordMerge(@, fpb, ok)]
    BY <1>8 DEF MergeWriteB
  <2>3. sess'.maps = RecordMerge(sess.maps, fpb, ok)
    BY <1>1, <2>2 DEF TypeOK, Database
  <2>4. \A o \in sess.maps :
          LET n == [o EXCEPT !.fp = [s \in Sides |-> IF s = "a" THEN cur.fp ELSE fpb],
                             !.snap = cur.val]
          IN  n.mkey = o.mkey /\ n.id = o.id
    BY <1>1 DEF TypeOK, Database, Mapping
  <2>5. /\ \A m \in sess'.maps : \E o \in sess.maps : o.mkey = m.mkey /\ o.id = m.id
        /\ \A m \in sess.maps : \E o \in sess'.maps : o.mkey = m.mkey /\ o.id = m.id
    BY <2>3, <2>4 DEF RecordMerge
  <2>6. SourcesPlanned' /\ NothingMatched'
    BY <1>1, <1>8, MergeDoneDav DEF MergeWriteB, DavInv, Control, NothingMatched, SourcesPlanned
  <2> QED
    BY <1>1, <1>8, <2>1, <2>5, <2>6, LaterDav, MergeDoneDav DEF MergeWriteB, Early
<1> QED
  BY <1>3, <1>4, <1>5, <1>6, <1>7, <1>8

-------------------------------------------------------------------------------
(* The sources of the creates. *)

\* _identity_match finds two items of one uid, if any.
LEMMA MatchedByUid ==
  ASSUME Dav, NEW F, NEW S \in Matchings(F), NEW p \in S
  PROVE  \E x \in F["a"], y \in F["b"] : x.id = p["a"] /\ y.id = p["b"] /\ x.key = y.key
<1>1. PICK index \in Indexes(F) : Matched(F, index, S)
  BY DEF Matchings
<1>2. PICK k \in IdentityKeys(F, "a", p["a"]) \cap DOMAIN index : index[k] = p["b"]
  BY <1>1 DEF Matched
<1>3. k \in IdentityKeys(F, "b", index[k])
  BY <1>1, <1>2 DEF Indexes
<1>4. \A s \in Sides : \A id : k \in IdentityKeys(F, s, id) =>
        \E x \in F[s] : x.id = id /\ k = <<"uid", x.key>>
  <2> SUFFICES ASSUME NEW s \in Sides, NEW id, k \in IdentityKeys(F, s, id)
               PROVE  \E x \in F[s] : x.id = id /\ k = <<"uid", x.key>>
    OBVIOUS
  <2>1. PICK x \in F[s] :
          /\ x.id = id
          /\ k \in {<<"uid", x.key>>, <<"content", ContentKey[x.val]>>}
          /\ k[1] \in MatchOn
    BY DEF IdentityKeys
  <2>2. k # <<"content", ContentKey[x.val]>>
    BY <2>1 DEF Dav
  <2> QED
    BY <2>1, <2>2
<1>5. PICK x \in F["a"] : x.id = p["a"] /\ k = <<"uid", x.key>>
  BY <1>2, <1>4, SidesFacts
<1>6. PICK y \in F["b"] : y.id = p["b"] /\ k = <<"uid", y.key>>
  BY <1>2, <1>3, <1>4, SidesFacts
<1>7. x.key = y.key
  BY <1>5, <1>6
<1> QED
  BY <1>5, <1>6, <1>7

\* No two creates are of one item, so nothing is matched.
LEMMA NothingToMatch ==
  ASSUME Dav, DavInv, KeyInv, TypeOK, NEW F,
         \A s \in Sides : \A x \in F[s] :
           (\E k : Has(plan.creates[s], x.id, k)) /\ Ref(s, x.id, x.key)
  PROVE  \A S \in Matchings(F) : S = {}
<1> SUFFICES ASSUME NEW S \in Matchings(F), NEW p \in S
             PROVE  FALSE
  OBVIOUS
<1>1. PICK x \in F["a"], y \in F["b"] : x.id = p["a"] /\ y.id = p["b"] /\ x.key = y.key
  BY MatchedByUid
<1>2. ASSUME NEW s \in Sides, NEW z \in F[s]
      PROVE  Has(plan.creates[s], z.id, z.key) /\ z.key \in Keys
  <2>1. PICK k : Has(plan.creates[s], z.id, k)
    BY <1>2
  <2>2. Ref(s, z.id, k) /\ Ref(s, z.id, z.key)
    BY <1>2, <2>1 DEF Ref, KeyRef
  <2>3. k = z.key /\ z.key \in used
    BY <2>2 DEF DavInv, RefInv, RefsAgree, RefsKnown
  <2> QED
    BY <2>1, <2>3 DEF TypeOK
<1>3. PICK o \in plan.creates["a"], q \in plan.creates["b"] :
        o.key = x.key /\ q.key = y.key /\ x.key \in Keys
  BY <1>2, SidesFacts DEF Has
<1>4. Other("a") = "b"
  BY DEF Other
<1> QED
  BY <1>1, <1>3, <1>4, SidesFacts, SentinelAssumption DEF KeyInv, CreatesKeyed

LEMMA SourcesDav ==
  ASSUME Dav, TypeInv, DavInv, KeyInv, Control',
         \E s \in Sides : FetchSources(s) \/ FetchSourcesFails(s)
  PROVE  DavInv'
<1>1. TypeOK
  BY DEF TypeInv
<1>2. PICK s \in Sides : FetchSources(s) \/ FetchSourcesFails(s)
  OBVIOUS
<1>3. PICK I : /\ I \subseteq store[s] /\ \A x \in I : x.id \in CreateIds(s)
               /\ fetched' = [fetched EXCEPT ![s] = I]
               /\ IF s = "a" THEN side' = "b" /\ UNCHANGED <<phase, plan, matched>>
                  ELSE side' = "a" /\ phase' = "apply" /\ SourcesRead([fetched EXCEPT ![s] = I])
  <2>1. CASE FetchSources(s)
    BY <2>1, ReadingsFacts DEF FetchSources
  <2>2. CASE FetchSourcesFails(s)
    BY <2>2 DEF FetchSourcesFails
  <2> QED
    BY <1>2, <2>1, <2>2
<1>4. phase = "source" /\ side = s /\ UNCHANGED <<serverVars, historyVars, db, sess, tree>>
  BY <1>2 DEF FetchSources, FetchSourcesFails
<1>5. \A x \in I : \E k : Has(plan.creates[s], x.id, k)
  BY <1>3 DEF CreateIds, Has
<1>6. fetched'[s] = I /\ \A t \in Sides : t # s => fetched'[t] = fetched[t]
  BY <1>1, <1>3 DEF TypeOK
<1>7. NothingMatched' /\ SourcesPlanned'
  <2>1. CASE s = "a"
    BY <1>3, <1>4, <1>5, <1>6, <2>1 DEF NothingMatched, SourcesPlanned, DavInv
  <2>2. CASE s # "a"
    <3>1. s = "b" /\ \A t \in Sides : t = "a" \/ t = "b"
      BY <2>2 DEF Sides
    <3>2. \A x \in fetched'["b"] :
            (\E k : Has(plan.creates["b"], x.id, k)) /\ Ref("b", x.id, x.key)
      BY <1>3, <1>5, <1>6, <3>1 DEF Ref, KeyRef, Has
    <3>3. \A x \in fetched'["a"] :
            (\E k : Has(plan.creates["a"], x.id, k)) /\ Ref("a", x.id, x.key)
      BY <1>4, <1>6, <3>1, SidesFacts DEF Ref, Has, DavInv, SourcesPlanned
    <3>4. matched' \in Matchings(fetched')
      BY <1>3, <3>1 DEF SourcesRead
    <3>5. matched' = {}
      BY <1>1, <3>1, <3>2, <3>3, <3>4, NothingToMatch
    <3> QED
      BY <1>3, <3>1, <3>5 DEF NothingMatched, SourcesPlanned
  <2> QED
    BY <2>1, <2>2
<1>8. /\ plan'.merges \subseteq plan.merges
      /\ \A t \in Sides : /\ plan'.creates[t] \subseteq plan.creates[t]
                          /\ plan'.deletes[t] \subseteq plan.deletes[t]
  BY <1>1, <1>3 DEF SourcesRead, TypeOK, PlanType
<1>9. phase' \in {"source", "apply"} /\ \A t \in Sides : Wrote(t)
  BY <1>3, <1>4 DEF Wrote, Kept, serverVars
<1> QED
  BY <1>1, <1>3, <1>4, <1>6, <1>7, <1>8, <1>9, LaterDav DEF Early

-------------------------------------------------------------------------------
(* Deletes, the commit, and what users do to items. *)

LEMMA DeleteDav ==
  ASSUME TypeInv, DavInv, KeyInv, Control', NEW s \in Sides, NEW id \in plan.deletes[s],
         Delete(s, id)
  PROVE  DavInv'
<1>1. TypeOK
  BY DEF TypeInv
<1>2. /\ phase = "apply"
      /\ UNCHANGED <<nextId, db, sess, phase, side, tree, fetched, matched, historyVars>>
  BY DEF Delete
<1>3. /\ plan'.merges = plan.merges
      /\ \A t \in Sides : /\ plan'.creates[t] = plan.creates[t]
                          /\ plan'.deletes[t] \subseteq plan.deletes[t]
  BY <1>1 DEF Delete, TypeOK, PlanType
<1>4. PICK m \in sess.maps :
        m.id[s] = id /\ \A k : ~Has(store[Other(s)], m.id[Other(s)], k)
  BY DEF DavInv, DeletesCaused
<1>5. m.mkey \in DeletedKeys
  <2>1. Ref(Other(s), m.id[Other(s)], m.mkey)
    BY DEF Ref, KeyRef, Maps
  <2> QED
    BY <1>4, <2>1, SidesFacts DEF DavInv, RefInv, RefsGone
<1>6. \A k : Has(store[s], id, k) => k \in DeletedKeys
  <2>1. Ref(s, id, m.mkey)
    BY <1>4 DEF Ref, KeyRef, Maps
  <2> QED
    BY <1>5, <2>1 DEF Ref, KeyRef, DavInv, RefInv, RefsAgree
<1>7. \A t \in Sides : \A i, k : /\ Has(store'[t], i, k) => Has(store[t], i, k)
                                 /\ Has(store[t], i, k) => Has(store'[t], i, k) \/ k \in DeletedKeys
  <2>1. CASE SetStore(s, {i \in store[s] : i.id # id})
    <3>1. /\ store'[s] = {i \in store[s] : i.id # id}
          /\ \A t \in Sides : t # s => store'[t] = store[t]
      BY <1>1, <2>1, SetStoreServers
    <3>2. \A i, k : Has(store'[s], i, k) <=> Has(store[s], i, k) /\ i # id
      BY <3>1, RemoveHas
    <3> QED
      BY <1>6, <3>1, <3>2
  <2>2. CASE UNCHANGED store
    BY <2>2
  <2> QED
    BY <2>1, <2>2 DEF Delete
<1>8. Stays
  BY <1>2, <1>3, <1>7 DEF Stays, DeletedKeys, DavInv, RefInv
<1>9. ListingStays /\ MappedStay /\ DeletesStay /\ MergesStay
  BY <1>2, <1>3 DEF ListingStays, MappedStay, DeletesStay, MergesStay, Early
<1>10. TrueMapped' /\ SourcesPlanned' /\ NothingMatched'
  BY <1>2, <1>3, <1>7 DEF DavInv, TrueMapped, SourcesPlanned, NothingMatched
<1> QED
  BY <1>1, <1>8, <1>9, <1>10, InvStays

LEMMA FinishDav ==
  ASSUME TypeInv, DavInv, KeyInv, Control', Finish
  PROVE  DavInv'
<1>1. TypeOK
  BY DEF TypeInv
<1>2. /\ phase = "apply" /\ phase' = "idle" /\ matched' = {}
      /\ db'.maps = sess.maps /\ sess'.maps = sess.maps
      /\ UNCHANGED <<store, nextId, historyVars>> /\ plan'.merges = {}
      /\ \A s \in Sides : /\ tree'[s].leaves = {} /\ fetched'[s] = {}
                          /\ plan'.creates[s] = {} /\ plan'.deletes[s] = {}
  BY <1>1 DEF Finish, EndRun, NoTree, EmptyPlan, TypeOK, Database, serverVars
<1>3. /\ NothingMatched' /\ SourcesPlanned'
      /\ ListingStays /\ MappedStay /\ DeletesStay /\ MergesStay
  BY <1>2 DEF NothingMatched, SourcesPlanned, ListingStays, TreeBuilt, MappedStay, DeletesStay,
              MergesStay, Early
<1>4. TrueMapped'
  <2> SUFFICES ASSUME NEW k, <<k, TRUE>> \in deleted, k \notin MKeys(sess.maps)
               PROVE  \A s \in Sides : \A i : ~Has(store[s], i, k)
    BY <1>2 DEF TrueMapped, Has
  <2> QED
    BY <1>2 DEF DavInv, TrueMapped, DroppedGone, Early
<1>5. \A s \in Sides : Wrote(s)
  BY <1>2 DEF Wrote, Kept
<1> QED
  BY <1>1, <1>2, <1>3, <1>4, <1>5, RunStays DEF SameRefs, Has

\* References have ids and are to keys that users gave.
LEMMA RefTyped ==
  ASSUME TypeOK, NEW s \in Sides, NEW i, NEW k, Ref(s, i, k)
  PROVE  i \in Nat
<1>1. CASE Has(store[s], i, k) \/ Has(fetched[s], i, k)
  BY <1>1 DEF Has, TypeOK, Item
<1>2. CASE Has(tree[s].leaves, i, k)
  BY <1>2 DEF Has, TypeOK, Tree, Leaf
<1>3. CASE Has(plan.creates[s], i, k)
  BY <1>3 DEF Has, TypeOK, PlanType, CreateOp
<1>4. CASE Maps(db.maps, s, i, k) \/ Maps(sess.maps, s, i, k)
  BY <1>4 DEF Maps, TypeOK, Database, Mapping
<1> QED
  BY <1>1, <1>2, <1>3, <1>4 DEF Ref, KeyRef

\* A new item of a key that no item, leaf, create or mapping of its side has.
LEMMA RefsGrow ==
  ASSUME TypeOK, TypeOK', RefInv, NEW t \in Sides, NEW k0,
         \A s \in Sides : \A i, k :
           /\ KeyRef(s, i, k)' => KeyRef(s, i, k) \/ (s = t /\ i = nextId[t] /\ k = k0)
           /\ Ref(s, i, k)' => Ref(s, i, k) \/ (s = t /\ i = nextId[t] /\ k = k0)
           /\ Has(store[s], i, k) => Has(store'[s], i, k),
         Has(store'[t], nextId[t], k0),
         \A j : ~KeyRef(t, j, k0),
         \A s \in Sides : nextId'[s] = IF s = t THEN nextId[s] + 1 ELSE nextId[s],
         used' = used \cup {k0}, deleted' = deleted
  PROVE  RefInv'
<1>1. \A s \in Sides : nextId[s] \in Nat
  BY DEF TypeOK
<1>2. \A s \in Sides : \A i, k : Ref(s, i, k) => i \in Nat /\ i < nextId[s] /\ k \in used
  BY RefTyped DEF RefInv, RefsKnown
<1>3. RefsKnown'
  BY <1>1, <1>2 DEF RefsKnown
<1>4. DeletedKeys' = DeletedKeys
  BY DEF DeletedKeys
<1>5. RefsGone'
  BY <1>4 DEF RefInv, RefsGone
<1>6. RefsAgree'
  <2> SUFFICES ASSUME NEW s \in Sides, NEW i, NEW k, NEW l, Ref(s, i, k)', Ref(s, i, l)'
               PROVE  k = l
    BY DEF RefsAgree
  <2>1. CASE Ref(s, i, k) /\ Ref(s, i, l)
    BY <2>1 DEF RefInv, RefsAgree
  <2>2. CASE s = t /\ i = nextId[t]
    BY <1>1, <1>2, <2>2
  <2> QED
    BY <2>1, <2>2
<1>7. RefsOne'
  <2> SUFFICES ASSUME NEW s \in Sides, NEW i, NEW j, NEW k, KeyRef(s, i, k)', KeyRef(s, j, k)'
               PROVE  i = j
    BY DEF RefsOne
  <2> QED
    BY DEF RefInv, RefsOne
<1>8. ItemsLive' /\ DeletedKeys' \subseteq used'
  BY <1>4 DEF RefInv, ItemsLive
<1> QED
  BY <1>3, <1>5, <1>6, <1>7, <1>8 DEF RefInv

\* A user makes an item, with an identity of its own.
LEMMA UserCreateDav ==
  ASSUME Dav, TypeInv, TypeOK', DavInv, KeyInv, Control',
         NEW t \in Sides, NEW k0 \in Keys, NEW v \in Values, UserCreate(t, k0, v)
  PROVE  DavInv'
<1>1. TypeOK
  BY DEF TypeInv
<1>2. /\ k0 \notin used /\ used' = used \cup {k0}
      /\ nextId' = [nextId EXCEPT ![t] = @ + 1]
      /\ UNCHANGED <<deleted, db, sess, phase, side, tree, plan, fetched, matched, cur>>
  BY DEF UserCreate, UserMayAct, runVars, workVars, Dav
<1>3. /\ store'[t] = store[t] \cup {NewItem(t, k0, v)}
      /\ \A s \in Sides : s # t => store'[s] = store[s]
  BY <1>1, SetStoreServers DEF UserCreate, NewItem
<1>4. \A s \in Sides : \A i, k : Has(store'[s], i, k) <=>
        Has(store[s], i, k) \/ (s = t /\ i = nextId[t] /\ k = k0)
  <2>1. \A i, k : Has(store'[t], i, k) <=> Has(store[t], i, k) \/ (i = nextId[t] /\ k = k0)
    BY <1>3, AddHas
  <2> QED
    BY <1>3, <2>1
<1>5. \A s \in Sides : \A i : ~Ref(s, i, k0)
  BY <1>2 DEF DavInv, RefInv, RefsKnown
<1>6. \A s \in Sides : nextId'[s] = IF s = t THEN nextId[s] + 1 ELSE nextId[s]
  BY <1>1, <1>2 DEF TypeOK
<1>7. RefInv'
  <2>1. \A s \in Sides : \A i, k :
          /\ KeyRef(s, i, k)' => KeyRef(s, i, k) \/ (s = t /\ i = nextId[t] /\ k = k0)
          /\ Ref(s, i, k)' => Ref(s, i, k) \/ (s = t /\ i = nextId[t] /\ k = k0)
    BY <1>2, <1>4 DEF KeyRef, Ref
  <2>2. \A j : ~KeyRef(t, j, k0)
    BY <1>5 DEF Ref
  <2> QED
    BY <1>1, <1>2, <1>4, <1>6, <2>1, <2>2, RefsGrow DEF DavInv
<1>8. k0 \notin MKeys(sess.maps) /\ k0 \notin MKeys(db.maps)
  <2>1. \A i : ~Maps(sess.maps, t, i, k0) /\ ~Maps(db.maps, t, i, k0)
    BY <1>5 DEF Ref, KeyRef
  <2> QED
    BY <2>1, MKeysMaps
<1>9. \A s \in Sides : \A i : /\ ~Has(store[s], i, k0) /\ ~Has(tree[s].leaves, i, k0)
                              /\ ~Has(plan.creates[s], i, k0)
  BY <1>5 DEF Ref, KeyRef
<1>10. LateNew'
  <2> SUFFICES ASSUME NEW s \in Sides, phase \in Early, TreeBuilt(s), NEW i, NEW k,
                      Has(store'[s], i, k), ~Has(tree[s].leaves, i, k)
               PROVE  /\ \A j : ~Has(store'[Other(s)], j, k) /\ ~Has(tree[Other(s)].leaves, j, k)
                      /\ k \notin MKeys(sess.maps)
    BY <1>2 DEF LateNew, TreeBuilt
  <2>1. CASE k = k0
    BY <1>4, <1>8, <1>9, <2>1, SidesFacts
  <2>2. CASE k # k0
    <3>1. Has(store[s], i, k)
      BY <1>4, <2>2
    <3>2. /\ \A j : ~Has(store[Other(s)], j, k) /\ ~Has(tree[Other(s)].leaves, j, k)
          /\ k \notin MKeys(sess.maps)
      BY <3>1 DEF DavInv, LateNew
    <3> QED
      BY <1>4, <2>2, <3>2, SidesFacts
  <2> QED
    BY <2>1, <2>2
<1>11. CreatesAbsent'
  <2> SUFFICES ASSUME NEW s \in Sides, NEW i, NEW k, Has(plan.creates[s], i, k), NEW j
               PROVE  ~Has(store'[Other(s)], j, k)
    BY <1>2 DEF CreatesAbsent
  <2>1. k # k0 /\ ~Has(store[Other(s)], j, k)
    BY <1>9 DEF DavInv, CreatesAbsent
  <2> QED
    BY <1>4, <2>1, SidesFacts
<1>12. DroppedGone'
  BY <1>2, <1>4, <1>8 DEF DavInv, DroppedGone
<1>13. TrueMapped'
  <2>1. <<k0, TRUE>> \notin deleted
    BY <1>2 DEF DavInv, RefInv, DeletedKeys
  <2> QED
    BY <1>2, <1>4, <2>1 DEF DavInv, TrueMapped
<1>14. DeletesCaused'
  <2> SUFFICES ASSUME NEW s \in Sides, NEW id \in plan.deletes[s]
               PROVE  \E m \in sess.maps :
                        m.id[s] = id /\ \A k : ~Has(store'[Other(s)], m.id[Other(s)], k)
    BY <1>2 DEF DeletesCaused
  <2>1. PICK m \in sess.maps :
          m.id[s] = id /\ \A k : ~Has(store[Other(s)], m.id[Other(s)], k)
    BY DEF DavInv, DeletesCaused
  <2>2. m.id[Other(s)] < nextId[Other(s)] /\ nextId[Other(s)] \in Nat /\ Other(s) \in Sides
    BY <1>1, SidesFacts DEF KeyInv, MapsKnown, KnownMapping, TypeOK
  <2> QED
    BY <1>4, <2>1, <2>2
<1>15. NothingMatched' /\ SourcesPlanned' /\ MergesCommitted'
  BY <1>2 DEF DavInv, NothingMatched, SourcesPlanned, MergesCommitted
<1> QED
  BY <1>7, <1>10, <1>11, <1>12, <1>13, <1>14, <1>15 DEF DavInv

\* A user edits or deletes an item, or nothing happens.
LEMMA UserDav ==
  ASSUME TypeInv, DavInv, KeyInv, Control',
         \/ \E s \in Sides : \E i \in store[s] :
              UserDelete(s, i) \/ \E v \in Values : UserEdit(s, i, v)
         \/ UNCHANGED vars
  PROVE  DavInv'
<1>1. TypeOK /\ StoresFresh
  BY DEF TypeInv, KeyInv
<1>2. UNCHANGED <<nextId, used, db, sess, phase, side, tree, plan, fetched, matched, cur>>
  BY DEF UserDelete, UserEdit, UserMayAct, runVars, workVars, vars, serverVars
<1>3. /\ ListingStays /\ MappedStay /\ DeletesStay /\ MergesStay
      /\ NothingMatched' /\ SourcesPlanned'
  BY <1>2 DEF ListingStays, MappedStay, DeletesStay, MergesStay, TreeBuilt, DavInv,
              MergesCommitted, NothingMatched, SourcesPlanned
<1>4. ASSUME \A s \in Sides : Kept(s) \/ Edited(s), deleted' = deleted
      PROVE  DavInv'
  BY <1>1, <1>2, <1>3, <1>4, RunStays DEF Wrote, SameRefs, Has
<1>5. ASSUME NEW s \in Sides, NEW x \in store[s], NEW v \in Values, UserEdit(s, x, v)
      PROVE  DavInv'
  <2>1. Edited(s)
    BY <1>1, <1>5, SetStoreServers DEF UserEdit, Edited, EditedItem
  <2>2. \A r \in Sides : r # s => Kept(r)
    BY <1>1, <1>5, SetStoreServers DEF UserEdit, Kept
  <2> QED
    BY <1>4, <1>5, <2>1, <2>2 DEF UserEdit
<1>6. ASSUME NEW s \in Sides, NEW x \in store[s], UserDelete(s, x)
      PROVE  DavInv'
  <2>1. /\ store'[s] = store[s] \ {x}
        /\ \A r \in Sides : r # s => store'[r] = store[r]
    BY <1>1, <1>6, SetStoreServers DEF UserDelete
  <2>2. deleted' = deleted \cup {<<x.key, \E m \in db.maps : m.id[s] = x.id>>}
    BY <1>6 DEF UserDelete
  <2>3. Ref(s, x.id, x.key) /\ x.key \in used
    BY DEF Ref, KeyRef, Has, DavInv, RefInv, RefsKnown
  <2>4. DeletedKeys' = DeletedKeys \cup {x.key}
    <3>1. PICK b : deleted' = deleted \cup {<<x.key, b>>}
      BY <2>2
    <3>2. <<x.key, b>>[1] = x.key
      OBVIOUS
    <3> DEFINE e == <<x.key, b>>
    <3>3. {d[1] : d \in deleted \cup {e}} = {d[1] : d \in deleted} \cup {e[1]}
      <4> HIDE DEF e
      <4> QED
        OBVIOUS
    <3> QED
      BY <3>1, <3>2, <3>3 DEF DeletedKeys
  <2>5. \A t \in Sides : \A i, k : /\ Has(store'[t], i, k) => Has(store[t], i, k)
                                   /\ Has(store[t], i, k) => Has(store'[t], i, k) \/ k = x.key
    BY <2>1 DEF Has
  <2>6. Stays
    BY <1>2, <2>3, <2>4, <2>5 DEF Stays, DavInv, RefInv
  <2>7. TrueMapped'
    <3> SUFFICES ASSUME NEW k, <<k, TRUE>> \in deleted', k \notin MKeys(db.maps)
                 PROVE  <<k, TRUE>> \in deleted
      BY <1>2, <2>5 DEF DavInv, TrueMapped
    <3> SUFFICES ASSUME k = x.key, NEW m \in db.maps, m.id[s] = x.id
                 PROVE  FALSE
      BY <2>2
    <3>1. Ref(s, x.id, m.mkey)
      BY DEF Ref, KeyRef, Maps
    <3>2. m.mkey = k
      BY <2>3, <3>1 DEF DavInv, RefInv, RefsAgree
    <3> QED
      BY <3>2 DEF MKeys
  <2> QED
    BY <1>1, <1>3, <2>6, <2>7, InvStays
<1>7. CASE UNCHANGED vars
  BY <1>4, <1>7 DEF vars, serverVars, Kept
<1> QED
  BY <1>5, <1>6, <1>7

-------------------------------------------------------------------------------
(* Creates. *)

\* The key of an item to create is on the other side only as an item to be.
LEMMA CreateIsNew ==
  ASSUME TypeOK, DavInv, KeyInv, phase = "apply",
         NEW s \in Sides, NEW op \in plan.creates[s], NEW x \in fetched[s], x.id = op.id
  PROVE  /\ x.key = op.key /\ op.key \in used
         /\ op.key \notin MKeys(sess.maps) /\ op.key \notin MKeys(db.maps)
         /\ \A j : ~KeyRef(Other(s), j, op.key)
         /\ \A o \in plan.creates[s] : o.key = op.key => o = op
<1>1. Has(plan.creates[s], op.id, op.key) /\ Has(fetched[s], op.id, x.key)
  BY DEF Has
<1>2. Ref(s, op.id, op.key) /\ Ref(s, op.id, x.key)
  BY <1>1 DEF Ref, KeyRef
<1>3. x.key = op.key /\ op.key \in used
  BY <1>2 DEF DavInv, RefInv, RefsAgree, RefsKnown
<1>4. op.key # NoKey
  BY <1>3, SentinelAssumption DEF TypeOK
<1>5. /\ op.key \notin MKeys(sess.maps)
      /\ \A o \in plan.creates[s] : o.key = op.key => o = op
      /\ \A o \in plan.creates[Other(s)] : o.key # op.key
  BY <1>4 DEF KeyInv, CreatesKeyed
<1>6. op.key \notin MKeys(db.maps)
  BY <1>1, <1>5 DEF DavInv, DroppedGone, Early
<1>7. \A j : ~KeyRef(Other(s), j, op.key)
  <2>1. \A j : ~Has(store[Other(s)], j, op.key)
    BY <1>1 DEF DavInv, CreatesAbsent
  <2>2. \A j : ~Has(tree[Other(s)].leaves, j, op.key)
    BY SidesFacts DEF DavInv, Control, Early, Has
  <2>3. \A j : ~Has(plan.creates[Other(s)], j, op.key)
    BY <1>5 DEF Has
  <2>4. \A j : ~Maps(db.maps, Other(s), j, op.key) /\ ~Maps(sess.maps, Other(s), j, op.key)
    BY <1>5, <1>6 DEF Maps, MKeys
  <2> QED
    BY <2>1, <2>2, <2>3, <2>4 DEF KeyRef
<1> QED
  BY <1>3, <1>5, <1>6, <1>7

\* What a create does: an item more, and then perhaps its mapping.
LEMMA CreateOutcome ==
  ASSUME TypeOK, DavInv, KeyInv, NEW s \in Sides, NEW op \in plan.creates[s], Create(s, op)
  PROVE  \E x \in fetched[s] :
           /\ x.id = op.id
           /\ phase = "apply" /\ phase' = "apply" /\ matched' = {}
           /\ UNCHANGED <<db, tree, fetched, historyVars, side>>
           /\ plan'.creates[s] = plan.creates[s] \ {op}
           /\ plan'.creates[Other(s)] = plan.creates[Other(s)]
           /\ plan'.deletes = plan.deletes /\ plan'.merges = plan.merges
           /\ store'[s] = store[s] /\ nextId'[s] = nextId[s]
           /\ \/ /\ store'[Other(s)] = store[Other(s)] /\ nextId'[Other(s)] = nextId[Other(s)]
                 /\ sess' = sess
              \/ /\ store'[Other(s)] = store[Other(s)] \cup {NewItem(Other(s), x.key, x.val)}
                 /\ nextId'[Other(s)] = nextId[Other(s)] + 1
                 /\ \/ sess' = sess
                    \/ \E m \in sess'.maps :
                         /\ sess'.maps = sess.maps \cup {m}
                         /\ m.mkey = op.key
                         /\ m.id[s] = op.id /\ m.id[Other(s)] = nextId[Other(s)]
<1> DEFINE t == Other(s)
           p == [plan EXCEPT !.creates[s] = @ \ {op}]
<1>1. PICK x \in fetched[s] : \E w \in Creations(Other(s), x) :
        /\ x.id = op.id
        /\ SetStore(Other(s), w.items)
        /\ nextId' = IF w.items = store[Other(s)] THEN nextId
                     ELSE [nextId EXCEPT ![Other(s)] = @ + 1]
        /\ IF w.ok THEN Record(CreatedMapping(s, op, x), p)
           ELSE Continue(p) /\ UNCHANGED <<db, sess>>
  BY DEF Create
<1>2. PICK w \in Creations(Other(s), x) :
        /\ x.id = op.id
        /\ SetStore(Other(s), w.items)
        /\ nextId' = IF w.items = store[Other(s)] THEN nextId
                     ELSE [nextId EXCEPT ![Other(s)] = @ + 1]
        /\ IF w.ok THEN Record(CreatedMapping(s, op, x), p)
           ELSE Continue(p) /\ UNCHANGED <<db, sess>>
  BY <1>1
<1>3. PICK m : m = CreatedMapping(s, op, x)
  OBVIOUS
<1>4. phase = "apply" /\ matched = {} /\ UNCHANGED historyVars
  BY DEF Create
<1>5. x.key = op.key /\ op.key # NoKey
  BY <1>2, <1>4, CreateIsNew, SentinelAssumption DEF TypeOK
<1>6. /\ m.mkey = op.key
      /\ m.mkey \notin MKeys(sess.maps)
      /\ m.id[s] = op.id /\ m.id[t] = nextId[t]
  BY <1>2, <1>3, <1>5, CreatedKeyNew, SidesFacts DEF CreatedMapping, MappingKey
<1>7. /\ Continue(p)
      /\ UNCHANGED db
      /\ \/ ~w.ok /\ UNCHANGED sess
         \/ w.ok /\ sess' = [sess EXCEPT !.maps = @ \cup {m}]
  BY <1>2, <1>3, <1>6 DEF Record
<1>8. /\ phase' = "apply" /\ matched' = {} /\ UNCHANGED <<tree, fetched, side>>
      /\ plan'.creates[s] = plan.creates[s] \ {op}
      /\ plan'.creates[t] = plan.creates[t]
      /\ plan'.deletes = plan.deletes /\ plan'.merges = plan.merges
  BY <1>4, <1>7, SidesFacts DEF Continue, TypeOK, PlanType
<1>9. store'[t] = w.items /\ store'[s] = store[s]
  BY <1>2, SetStoreServers, SidesFacts
<1>10. nextId' = (IF w.items = store[t] THEN nextId ELSE [nextId EXCEPT ![t] = @ + 1])
  BY <1>2
<1>11. NewItem(t, x.key, x.val) \notin store[t]
  <2>1. NewItem(t, x.key, x.val).id = nextId[t] /\ nextId[t] \in Nat
    BY SidesFacts DEF NewItem, TypeOK
  <2> QED
    BY <2>1, SidesFacts DEF KeyInv, StoresFresh, Fresh
<1>12. CASE w.items = store[t]
  <2>1. ~w.ok
    BY <1>11, <1>12 DEF Creations, NewItem
  <2> QED
    BY <1>1, <1>2, <1>4, <1>7, <1>8, <1>9, <1>10, <1>12, <2>1
<1>13. CASE w.items # store[t]
  <2>1. w.items = store[t] \cup {NewItem(t, x.key, x.val)}
    BY <1>13 DEF Creations, NewItem
  <2>2. nextId'[t] = nextId[t] + 1 /\ nextId'[s] = nextId[s]
    BY <1>10, <1>13, SidesFacts DEF TypeOK
  <2>3. \/ sess' = sess
        \/ m \in sess'.maps /\ sess'.maps = sess.maps \cup {m}
    BY <1>7 DEF TypeOK, Database
  <2> QED
    BY <1>2, <1>4, <1>6, <1>7, <1>8, <1>9, <2>1, <2>2, <2>3
<1> QED
  BY <1>12, <1>13

LEMMA CreateDav ==
  ASSUME TypeInv, TypeOK', DavInv, KeyInv, Control',
         NEW s \in Sides, NEW op \in plan.creates[s], Create(s, op)
  PROVE  DavInv'
<1> DEFINE t == Other(s)
<1>1. TypeOK /\ t \in Sides /\ t # s /\ Other(t) = s /\ \A r \in Sides : r = s \/ r = t
  BY SidesFacts DEF TypeInv, Sides, Other
<1>2. PICK x \in fetched[s] :
        /\ x.id = op.id
        /\ phase = "apply" /\ phase' = "apply" /\ matched' = {}
        /\ UNCHANGED <<db, tree, fetched, historyVars, side>>
        /\ plan'.creates[s] = plan.creates[s] \ {op}
        /\ plan'.creates[t] = plan.creates[t]
        /\ plan'.deletes = plan.deletes /\ plan'.merges = plan.merges
        /\ store'[s] = store[s] /\ nextId'[s] = nextId[s]
        /\ \/ /\ store'[t] = store[t] /\ nextId'[t] = nextId[t]
              /\ sess' = sess
           \/ /\ store'[t] = store[t] \cup {NewItem(t, x.key, x.val)}
              /\ nextId'[t] = nextId[t] + 1
              /\ \/ sess' = sess
                 \/ \E m \in sess'.maps :
                      /\ sess'.maps = sess.maps \cup {m}
                      /\ m.mkey = op.key
                      /\ m.id[s] = op.id /\ m.id[t] = nextId[t]
  BY <1>1, CreateOutcome
<1>3. NothingMatched' /\ SourcesPlanned'
  BY <1>2 DEF NothingMatched, SourcesPlanned
<1>4. \A r \in Sides : plan'.creates[r] \subseteq plan.creates[r]
  BY <1>1, <1>2
<1>5. CASE store'[t] = store[t] /\ nextId'[t] = nextId[t] /\ sess' = sess
  <2>1. \A r \in Sides : Wrote(r)
    BY <1>1, <1>2, <1>5 DEF Wrote, Kept
  <2> QED
    BY <1>1, <1>2, <1>3, <1>4, <1>5, <2>1, LaterDav DEF Early
<1>6. CASE /\ store'[t] = store[t] \cup {NewItem(t, x.key, x.val)}
           /\ nextId'[t] = nextId[t] + 1
           /\ \/ sess' = sess
              \/ \E m \in sess'.maps :
                   /\ sess'.maps = sess.maps \cup {m}
                   /\ m.mkey = op.key
                   /\ m.id[s] = op.id /\ m.id[t] = nextId[t]
  <2> DEFINE k0 == op.key
  <2>1. /\ x.key = k0 /\ k0 \in used
        /\ k0 \notin MKeys(sess.maps) /\ k0 \notin MKeys(db.maps)
        /\ \A j : ~KeyRef(t, j, k0)
        /\ \A o \in plan.creates[s] : o.key = k0 => o = op
    BY <1>1, <1>2, CreateIsNew
  <2>2. Has(plan.creates[s], op.id, k0)
    BY DEF Has
  <2> HIDE DEF k0
  <2>3. \A r \in Sides : \A i, k : Has(store'[r], i, k) <=>
          Has(store[r], i, k) \/ (r = t /\ i = nextId[t] /\ k = k0)
    <3>1. \A i, k : Has(store'[t], i, k) <=> Has(store[t], i, k) \/ (i = nextId[t] /\ k = k0)
      BY <1>6, <2>1, AddHas
    <3> QED
      BY <1>1, <1>2, <3>1
  <2>4. \A r \in Sides : \A i, k : Has(plan'.creates[r], i, k) =>
          Has(plan.creates[r], i, k) /\ (r = s => k # k0)
    BY <1>1, <1>2, <1>4, <2>1 DEF Has
  <2>5. \A r \in Sides : \A i, k : Maps(sess'.maps, r, i, k) =>
          \/ Maps(sess.maps, r, i, k)
          \/ k = k0 /\ ((r = s /\ i = op.id) \/ (r = t /\ i = nextId[t]))
    <3>1. CASE sess' = sess
      BY <3>1
    <3>2. ASSUME NEW m, sess'.maps = sess.maps \cup {m}, m.mkey = k0,
                 m.id[s] = op.id, m.id[t] = nextId[t]
          PROVE  \A r \in Sides : \A i, k : Maps(sess'.maps, r, i, k) =>
                   \/ Maps(sess.maps, r, i, k)
                   \/ k = k0 /\ ((r = s /\ i = op.id) \/ (r = t /\ i = nextId[t]))
      <4> SUFFICES ASSUME NEW r \in Sides, NEW n \in sess'.maps, n \notin sess.maps
                   PROVE  n.mkey = k0 /\ ((r = s /\ n.id[r] = op.id) \/ (r = t /\ n.id[r] = nextId[t]))
        BY DEF Maps
      <4> QED
        BY <1>1, <3>2
    <3> QED
      BY <1>6, <3>1, <3>2 DEF k0
  <2>6. RefInv'
    <3>1. \A r \in Sides : \A i, k :
            /\ KeyRef(r, i, k)' => KeyRef(r, i, k) \/ (r = t /\ i = nextId[t] /\ k = k0)
            /\ Ref(r, i, k)' => Ref(r, i, k) \/ (r = t /\ i = nextId[t] /\ k = k0)
      BY <1>2, <2>2, <2>3, <2>4, <2>5 DEF KeyRef, Ref
    <3>2. \A r \in Sides : nextId'[r] = IF r = t THEN nextId[r] + 1 ELSE nextId[r]
      BY <1>1, <1>2, <1>6
    <3>3. t \in Sides /\ used' = used \cup {k0} /\ deleted' = deleted
      BY <1>1, <1>2, <2>1
    <3>4. /\ \A r \in Sides : \A i, k : Has(store[r], i, k) => Has(store'[r], i, k)
          /\ Has(store'[t], nextId[t], k0)
      BY <2>3, <3>3
    <3>5. TypeOK /\ RefInv /\ \A j : ~KeyRef(t, j, k0)
      BY <1>1, <2>1 DEF DavInv
    <3>6. \A r \in Sides : \A i, k :
            /\ KeyRef(r, i, k)' => KeyRef(r, i, k) \/ (r = t /\ i = nextId[t] /\ k = k0)
            /\ Ref(r, i, k)' => Ref(r, i, k) \/ (r = t /\ i = nextId[t] /\ k = k0)
            /\ Has(store[r], i, k) => Has(store'[r], i, k)
      BY <3>1, <3>4
    <3> HIDE DEF t
    <3> QED
      BY <3>2, <3>3, <3>4, <3>5, <3>6, RefsGrow
  <2>7. LateNew'
    BY <1>2 DEF LateNew, Early
  <2>8. CreatesAbsent'
    <3> SUFFICES ASSUME NEW r \in Sides, NEW i, NEW k, Has(plan'.creates[r], i, k), NEW j
                 PROVE  ~Has(store'[Other(r)], j, k)
      BY DEF CreatesAbsent
    <3>1. ~Has(store[Other(r)], j, k)
      BY <2>4 DEF DavInv, CreatesAbsent
    <3> QED
      BY <1>1, <2>3, <2>4, <3>1, SidesFacts
  <2>9. DroppedGone'
    <3>1. MKeys(db'.maps) \ MKeys(sess'.maps) \subseteq MKeys(db.maps) \ MKeys(sess.maps)
      <4>1. sess.maps \subseteq sess'.maps
        BY <1>6
      <4> QED
        BY <1>2, <4>1 DEF MKeys
    <3>2. phase \notin Early
      BY <1>2 DEF Early
    <3> QED
      BY <1>2, <2>1, <2>3, <2>4, <3>1, <3>2 DEF DavInv, DroppedGone
  <2>10. TrueMapped'
    <3> SUFFICES ASSUME NEW k, <<k, TRUE>> \in deleted, k \notin MKeys(db.maps),
                        NEW r \in Sides, NEW i
                 PROVE  /\ ~Has(store'[r], i, k) /\ ~Has(plan'.creates[r], i, k)
                        /\ ~Has(tree[r].leaves, i, k)
      BY <1>2 DEF TrueMapped
    <3>1. \A q \in Sides : \A j : /\ ~Has(store[q], j, k) /\ ~Has(plan.creates[q], j, k)
                                 /\ ~Has(tree[q].leaves, j, k)
      BY DEF DavInv, TrueMapped
    <3>2. k # k0
      BY <2>2, <3>1
    <3> QED
      BY <2>3, <2>4, <3>1, <3>2
  <2>11. DeletesCaused'
    <3> SUFFICES ASSUME NEW r \in Sides, NEW id \in plan.deletes[r]
                 PROVE  \E m \in sess'.maps :
                          m.id[r] = id /\ \A k : ~Has(store'[Other(r)], m.id[Other(r)], k)
      BY <1>2 DEF DeletesCaused
    <3>1. PICK m \in sess.maps :
            m.id[r] = id /\ \A k : ~Has(store[Other(r)], m.id[Other(r)], k)
      BY DEF DavInv, DeletesCaused
    <3>2. m.id[Other(r)] < nextId[Other(r)] /\ nextId[Other(r)] \in Nat /\ Other(r) \in Sides
      BY <1>1, SidesFacts DEF KeyInv, MapsKnown, KnownMapping, TypeOK
    <3>3. m \in sess'.maps
      BY <1>6
    <3> QED
      BY <2>3, <3>1, <3>2, <3>3
  <2>12. MergesCommitted'
    <3>1. sess.maps \subseteq sess'.maps
      BY <1>6
    <3> QED
      BY <1>2, <3>1 DEF DavInv, MergesCommitted
  <2> QED
    BY <1>3, <2>6, <2>7, <2>8, <2>9, <2>10, <2>11, <2>12 DEF DavInv
<1> QED
  BY <1>2, <1>5, <1>6

-------------------------------------------------------------------------------
(* Listings and comparisons. *)

\* A state string is read before a listing: the leaves stay.
LEMMA ReadStateDav ==
  ASSUME TypeOK, KeyInv, DavInv, Control', NEW s \in Sides, ReadState(s)
  PROVE  DavInv'
<1>1. /\ phase = "state" /\ phase' = "list"
      /\ UNCHANGED <<store, nextId, historyVars, db, sess, side, plan, fetched, matched, cur>>
  BY DEF ReadState, serverVars
<1>2. \A r \in Sides : tree'[r].leaves = tree[r].leaves
  BY DEF ReadState, TypeOK, Tree
<1>3. plan.merges = {} /\ \A r \in Sides : Wrote(r)
  BY <1>1 DEF KeyInv, NothingPlanned, Early, Wrote, Kept
<1>4. /\ NothingMatched' /\ SourcesPlanned'
      /\ ListingStays /\ MappedStay /\ DeletesStay /\ MergesStay
  BY <1>1, <1>2, <1>3
     DEF DavInv, NothingMatched, SourcesPlanned, ListingStays, TreeBuilt, MappedStay,
         DeletesStay, MergesStay, Early
<1> QED
  BY <1>1, <1>2, <1>3, <1>4, RunStays DEF SameRefs, Has

\* The leaves of a DAV listing are keyed as the items are.
LEMMA ListDav ==
  ASSUME Dav, TypeInv, DavInv, Control', NEW s \in Sides, List(s)
  PROVE  DavInv'
<1>1. TypeOK
  BY DEF TypeInv
<1>2. /\ phase = "list" /\ side = s /\ Built(s)
      /\ UNCHANGED <<store, nextId, historyVars, db, sess, plan, fetched, matched, cur>>
  BY DEF List, serverVars
<1>3. /\ tree'[s].leaves = {LeafOf(s, i) : i \in store[s]}
      /\ \A r \in Sides : r # s => tree'[r] = tree[r]
  BY <1>1 DEF List, TypeOK, Tree
<1>4. \A i, k : Has(tree'[s].leaves, i, k) <=> Has(store[s], i, k)
  <2>1. \A x : LeafOf(s, x).id = x.id /\ LeafOf(s, x).key = x.key
    BY DEF LeafOf, IdentityKey, Dav
  <2> QED
    BY <1>3, <2>1 DEF Has
<1>5. RefInv'
  <2>1. \A r \in Sides : \A i, k : Has(tree'[r].leaves, i, k) => KeyRef(r, i, k)
    BY <1>3, <1>4 DEF KeyRef
  <2>2. \A r \in Sides : \A i, k : /\ KeyRef(r, i, k)' => KeyRef(r, i, k)
                                   /\ Ref(r, i, k)' => Ref(r, i, k)
    BY <1>2, <2>1 DEF KeyRef, Ref
  <2>3. RefsOnlyGo
    BY <1>2, <2>2 DEF RefsOnlyGo, DavInv, RefInv, DeletedKeys
  <2> QED
    BY <2>3, RefsStay DEF DavInv
<1>6. phase' \in Early
  BY <1>2 DEF Built, VisitPhase, Early
<1>7. LateNew'
  <2> SUFFICES ASSUME NEW r \in Sides, TreeBuilt(r)', NEW i, NEW k,
                      Has(store[r], i, k), ~Has(tree'[r].leaves, i, k)
               PROVE  /\ \A j : ~Has(store[Other(r)], j, k) /\ ~Has(tree'[Other(r)].leaves, j, k)
                      /\ k \notin MKeys(sess.maps)
    BY <1>2 DEF LateNew
  <2>1. r # s
    BY <1>4
  <2>2. r = "a" /\ s = "b" /\ Other(r) = s
    BY <1>2, <2>1 DEF Built, VisitPhase, TreeBuilt, Sides, Other
  <2>3. phase \in Early /\ TreeBuilt(r)
    BY <1>2, <2>2 DEF Early, TreeBuilt
  <2>4. ~Has(tree[r].leaves, i, k)
    BY <1>3, <2>1
  <2>5. /\ \A j : ~Has(store[Other(r)], j, k)
        /\ k \notin MKeys(sess.maps)
    BY <2>3, <2>4 DEF DavInv, LateNew
  <2> QED
    BY <1>4, <2>2, <2>5
<1>8. CreatesAbsent' /\ DroppedGone' /\ DeletesCaused'
  BY <1>2, <1>6 DEF DavInv, CreatesAbsent, DroppedGone, DeletesCaused
<1>9. TrueMapped'
  BY <1>2, <1>3, <1>4 DEF DavInv, TrueMapped
<1>10. NothingMatched' /\ SourcesPlanned' /\ MergesCommitted'
  BY <1>2, <1>6 DEF DavInv, NothingMatched, SourcesPlanned, MergesCommitted, Early
<1> QED
  BY <1>5, <1>7, <1>8, <1>9, <1>10 DEF DavInv

\* Comparing listings in which every leaf has a key of its own, and mappings whose
\* ids are those of the leaves with their key.
Pairing(L, M) ==
  /\ \A s \in Sides : \A op \in Creates(L, M, s) :
       /\ Has(L[s], op.id, op.key)
       /\ op.key \notin MKeys(M) /\ \A j : ~Has(L[Other(s)], j, op.key)
  /\ \A s \in Sides : \A id \in Deletes(L, M, s) :
       \E m \in M \cap MappingsAfter(L, M) :
         /\ m.id[s] = id /\ Has(L[s], id, m.mkey)
         /\ \A j : ~Has(L[Other(s)], j, m.mkey)
  /\ \A s \in Sides : \A i, k :
       Maps(MappingsAfter(L, M), s, i, k) => Maps(M, s, i, k) \/ Has(L[s], i, k)
  /\ \A k \in MKeys(M) \ MKeys(MappingsAfter(L, M)) : \A s \in Sides : \A i :
       ~Has(L[s], i, k)
  /\ \A op \in Merges(L, M) : \E m \in M \cap MappingsAfter(L, M) : m.id = op

LEMMA PairedLeaves ==
  ASSUME NEW L \in [Sides -> SUBSET Leaf], NEW M \in SUBSET Mapping,
         \A s \in Sides : \A l, x \in L[s] : l.key # NoKey /\ (l.key = x.key => l = x),
         \A m \in M : \A s \in Sides : \A l \in L[s] : l.key = m.mkey => l.id = m.id[s]
  PROVE  Pairing(L, M)
<1>1. ASSUME NEW s \in Sides PROVE Keyed(L, s) = L[s] /\ Loose(L, s) = {}
  <2>1. \A l \in L[s] : l.key # NoKey /\ ~Shared(L, s, l)
    BY DEF Shared
  <2> QED
    BY <2>1 DEF Keyed, Loose
<1>2. ViaCache(L, M) = {}
  BY <1>1, SidesFacts DEF ViaCache, LooseIds
<1>3. \A k : Open(L, M, k)
  BY <1>2 DEF Open, MKeys
<1>4. \A s \in Sides : \A k : k \in KeyedKeys(L, s) <=> \E i : Has(L[s], i, k)
  BY <1>1 DEF KeyedKeys, Has
<1>5. \A m \in M : Healed(L, M, m) = m
  <2> SUFFICES ASSUME NEW m \in M, m.mkey \in OnBoth(L, M)
               PROVE  [m EXCEPT !.id = [s \in Sides |-> At(L, s, m.mkey).id]] = m
    BY DEF Healed
  <2>1. \A s \in Sides : At(L, s, m.mkey).id = m.id[s]
    <3> SUFFICES ASSUME NEW s \in Sides PROVE At(L, s, m.mkey).id = m.id[s]
      OBVIOUS
    <3>1. At(L, s, m.mkey) \in L[s] /\ At(L, s, m.mkey).key = m.mkey
      BY OnBothLeaves
    <3> QED
      BY <3>1
  <2> QED
    BY <2>1 DEF Mapping
<1>6. \A m \in M : m \notin Gone(L, M) => m \in MappingsAfter(L, M)
  BY <1>5 DEF MappingsAfter
<1>7. \A s \in Sides : \A l \in OnlyOn(L, M, s) :
        Has(L[s], l.id, l.key) /\ \A j : ~Has(L[Other(s)], j, l.key)
  <2> SUFFICES ASSUME NEW s \in Sides, NEW l \in OnlyOn(L, M, s)
               PROVE  Has(L[s], l.id, l.key) /\ \A j : ~Has(L[Other(s)], j, l.key)
    OBVIOUS
  <2>1. l \in L[s] /\ l.key \notin KeyedKeys(L, Other(s))
    BY <1>1 DEF OnlyOn
  <2> QED
    BY <1>4, <2>1, SidesFacts DEF Has
<1>8. ASSUME NEW s \in Sides, NEW op \in Creates(L, M, s)
      PROVE  /\ Has(L[s], op.id, op.key)
             /\ op.key \notin MKeys(M) /\ \A j : ~Has(L[Other(s)], j, op.key)
  <2>1. PICK l \in OnlyOn(L, M, s) : l.key \notin MKeys(M) /\ op = [id |-> l.id, key |-> l.key]
    BY <1>1, <1>8 DEF Creates
  <2> QED
    BY <1>7, <2>1
<1>9. ASSUME NEW s \in Sides, NEW id \in Deletes(L, M, s)
      PROVE  \E m \in M \cap MappingsAfter(L, M) :
               /\ m.id[s] = id /\ Has(L[s], id, m.mkey)
               /\ \A j : ~Has(L[Other(s)], j, m.mkey)
  <2>1. PICK l \in OnlyOn(L, M, s) : l.key \in MKeys(M) /\ id = l.id
    BY <1>9 DEF Deletes
  <2>2. PICK m \in M : m.mkey = l.key
    BY <2>1 DEF MKeys
  <2>3. l \in L[s] /\ l.key \in KeyedKeys(L, s)
    BY <1>1 DEF OnlyOn, KeyedKeys
  <2>4. m \in MappingsAfter(L, M)
    BY <1>6, <2>2, <2>3 DEF Gone
  <2> QED
    BY <1>7, <2>1, <2>2, <2>3, <2>4
<1>10. ASSUME NEW s \in Sides, NEW n \in MappingsAfter(L, M)
       PROVE  Maps(M, s, n.id[s], n.mkey) \/ Has(L[s], n.id[s], n.mkey)
  <2>1. CASE n \in M
    BY <2>1 DEF Maps
  <2>2. CASE /\ n.mkey \in OnBoth(L, M)
             /\ n.id = [r \in Sides |-> At(L, r, n.mkey).id]
    <3>1. At(L, s, n.mkey) \in L[s] /\ At(L, s, n.mkey).key = n.mkey
      BY <2>2, OnBothLeaves
    <3> QED
      BY <2>2, <3>1 DEF Has
  <2>3. \/ n \in M \ Gone(L, M)
        \/ /\ n.mkey \in OnBoth(L, M)
           /\ n.id = [r \in Sides |-> At(L, r, n.mkey).id]
    BY MappingAfter
  <2> QED
    BY <2>1, <2>2, <2>3
<1>11. \A k \in MKeys(M) \ MKeys(MappingsAfter(L, M)) : \A s \in Sides : \A i :
         ~Has(L[s], i, k)
  <2> SUFFICES ASSUME NEW m \in M, m.mkey \notin MKeys(MappingsAfter(L, M)), NEW s \in Sides, NEW i
               PROVE  ~Has(L[s], i, m.mkey)
    BY DEF MKeys
  <2>1. m \in Gone(L, M)
    BY <1>6 DEF MKeys
  <2> QED
    BY <1>4, <2>1 DEF Gone
<1>12. \A s \in Sides : \A i, k :
         Maps(MappingsAfter(L, M), s, i, k) => Maps(M, s, i, k) \/ Has(L[s], i, k)
  BY <1>10 DEF Maps
<1>13. \A op \in Merges(L, M) : \E m \in M \cap MappingsAfter(L, M) : m.id = op
  <2> SUFFICES ASSUME NEW op \in Merges(L, M)
               PROVE  \E m \in M \cap MappingsAfter(L, M) : m.id = op
    OBVIOUS
  <2>1. PICK m \in M : m.mkey \in OnBoth(L, M) /\ op = Healed(L, M, m).id
    BY <1>2 DEF Merges
  <2>2. m \notin Gone(L, M)
    BY <2>1 DEF Gone, OnBoth, Sides
  <2> QED
    BY <1>5, <1>6, <2>1, <2>2
<1> QED
  BY <1>8, <1>9, <1>11, <1>12, <1>13 DEF Pairing

\* What a comparison plans, drops and keeps, whether or not it is pruned.
Compared(L, M) ==
  /\ \A s \in Sides : \A op \in plan'.creates[s] :
       /\ Has(L[s], op.id, op.key)
       /\ op.key \notin MKeys(M) /\ \A j : ~Has(L[Other(s)], j, op.key)
  /\ \A s \in Sides : \A id \in plan'.deletes[s] :
       \E m \in M \cap sess'.maps :
         /\ m.id[s] = id /\ Has(L[s], id, m.mkey)
         /\ \A j : ~Has(L[Other(s)], j, m.mkey)
  /\ \A s \in Sides : \A i, k :
       Maps(sess'.maps, s, i, k) => Maps(M, s, i, k) \/ Has(L[s], i, k)
  /\ \A k \in MKeys(M) \ MKeys(sess'.maps) : \A s \in Sides : \A i : ~Has(L[s], i, k)
  /\ \A op \in plan'.merges :
       /\ \E m \in M \cap sess'.maps : m.id = op
       /\ \A s \in Sides : op[s] \notin plan'.deletes[s]

LEMMA ComparedHolds ==
  ASSUME TypeOK, DavInv, KeyInv, Compare
  PROVE  Compared(Listed, sess.maps)
<1>1. PICK L, M : L = Listed /\ M = sess.maps
  OBVIOUS
<1>2. L \in [Sides -> SUBSET Leaf] /\ M \in SUBSET Mapping /\ \A s \in Sides : L[s] = tree[s].leaves
  BY <1>1 DEF Listed, TypeOK, Tree, Database
<1>3. CASE Prunes(sess.merkle, Listed, Carried)
  <2>1. /\ sess' = sess /\ plan'.merges = {}
        /\ \A s \in Sides : plan'.creates[s] = {} /\ plan'.deletes[s] = {}
    BY <1>3 DEF Compare, KeyInv, NothingPlanned, Early
  <2> QED
    BY <2>1 DEF Compared
<1>4. CASE ~Prunes(sess.merkle, Listed, Carried)
  <2>1. plan' = Plan(L, M) /\ sess'.maps = MappingsAfter(L, M)
    BY <1>1, <1>4 DEF Compare, TypeOK, Database
  <2>2. \A s \in Sides : plan'.creates[s] = Creates(L, M, s) /\ plan'.deletes[s] = Deletes(L, M, s)
    BY <2>1 DEF Plan
  <2>3. ASSUME NEW s \in Sides, NEW l \in L[s]
        PROVE  KeyRef(s, l.id, l.key) /\ l.key # NoKey
    <3>1. KeyRef(s, l.id, l.key)
      BY <1>2 DEF KeyRef, Has
    <3>2. l.key \in used
      BY <3>1 DEF Ref, DavInv, RefInv, RefsKnown
    <3> QED
      BY <3>1, <3>2, SentinelAssumption DEF TypeOK
  <2>4. ASSUME NEW s \in Sides, NEW l \in L[s], NEW x \in L[s], l.key = x.key
        PROVE  l = x
    <3>1. l.id = x.id
      BY <2>3, <2>4 DEF DavInv, RefInv, RefsOne
    <3> QED
      BY <1>2, <3>1 DEF KeyInv, LeavesFresh, Fresh
  <2>5. ASSUME NEW m \in M, NEW s \in Sides, NEW l \in L[s], l.key = m.mkey
        PROVE  l.id = m.id[s]
    <3>1. KeyRef(s, m.id[s], l.key)
      BY <1>1, <2>5 DEF KeyRef, Maps
    <3> QED
      BY <2>3, <3>1 DEF DavInv, RefInv, RefsOne
  <2>6. /\ \A s \in Sides : \A l, x \in L[s] : l.key # NoKey /\ (l.key = x.key => l = x)
        /\ \A m \in M : \A s \in Sides : \A l \in L[s] : l.key = m.mkey => l.id = m.id[s]
    BY <2>3, <2>4, <2>5
  <2>7. /\ \A s \in Sides : \A op \in Creates(L, M, s) :
             /\ Has(L[s], op.id, op.key)
             /\ op.key \notin MKeys(M) /\ \A j : ~Has(L[Other(s)], j, op.key)
        /\ \A s \in Sides : \A id \in Deletes(L, M, s) :
             \E m \in M \cap MappingsAfter(L, M) :
               /\ m.id[s] = id /\ Has(L[s], id, m.mkey)
               /\ \A j : ~Has(L[Other(s)], j, m.mkey)
        /\ \A s \in Sides : \A i, k :
             Maps(MappingsAfter(L, M), s, i, k) => Maps(M, s, i, k) \/ Has(L[s], i, k)
        /\ \A k \in MKeys(M) \ MKeys(MappingsAfter(L, M)) : \A s \in Sides : \A i :
             ~Has(L[s], i, k)
        /\ \A op \in Merges(L, M) : \E m \in M \cap MappingsAfter(L, M) : m.id = op
    <3>1. Pairing(L, M)
      BY <1>1, <1>2, <2>6, PairedLeaves DEF TypeOK, Database
    <3> QED
      BY <3>1 DEF Pairing
  <2>8. /\ \A s \in Sides : \A op \in plan'.creates[s] :
             /\ Has(L[s], op.id, op.key)
             /\ op.key \notin MKeys(M) /\ \A j : ~Has(L[Other(s)], j, op.key)
        /\ \A s \in Sides : \A id \in plan'.deletes[s] :
             \E m \in M \cap MappingsAfter(L, M) :
               /\ m.id[s] = id /\ Has(L[s], id, m.mkey)
               /\ \A j : ~Has(L[Other(s)], j, m.mkey)
    BY <2>2, <2>7
  <2>9. \A op \in plan'.merges :
          /\ \E m \in M \cap sess'.maps : m.id = op
          /\ \A s \in Sides : op[s] \notin plan'.deletes[s]
    <3>1. \A s \in Sides : \A x, y \in L[s] : x.id = y.id => x = y
      BY <1>2 DEF KeyInv, LeavesFresh, Fresh
    <3>2. \A s \in Sides : \A op \in Merges(L, M) : op[s] \notin Deletes(L, M, s)
      BY <1>2, <3>1, OneOperationPerItem
    <3>3. plan'.merges = Merges(L, M)
      BY <2>1 DEF Plan
    <3> QED
      BY <2>1, <2>2, <2>7, <3>2, <3>3
  <2>10. Compared(L, M)
    BY <2>1, <2>7, <2>8, <2>9 DEF Compared
  <2> QED
    BY <1>1, <2>10
<1> QED
  BY <1>3, <1>4

LEMMA CompareDav ==
  ASSUME TypeInv, DavInv, KeyInv, Control', Compare
  PROVE  DavInv'
<1>1. TypeOK
  BY DEF TypeInv
<1>2. /\ phase = "compare" /\ phase' = "decide"
      /\ UNCHANGED <<store, nextId, historyVars, db, fetched, matched>>
      /\ \A s \in Sides : tree'[s].leaves = {}
  BY <1>1 DEF Compare, serverVars, TypeOK, Tree
<1>3. PICK L, M : L = Listed /\ M = sess.maps
  OBVIOUS
<1>4. /\ M = db.maps /\ \A s \in Sides : L[s] = tree[s].leaves
      /\ \A s \in Sides : phase \in Early /\ TreeBuilt(s)
  BY <1>2, <1>3 DEF DavInv, Control, Early, TreeBuilt, Listed
<1>5. Compared(L, M)
  BY <1>1, <1>3, ComparedHolds
\* An item that the listing missed has no counterpart and no mapping.
<1>6. \A s \in Sides : \A i, k : Has(store[s], i, k) /\ ~Has(L[s], i, k) =>
        k \notin MKeys(M) /\ \A j : ~Has(L[Other(s)], j, k)
  BY <1>3, <1>4, SidesFacts DEF DavInv, LateNew
<1>7. \A s \in Sides : \A i, k : Has(plan'.creates[s], i, k) =>
        /\ Has(L[s], i, k)
        /\ k \notin MKeys(M) /\ \A j : ~Has(L[Other(s)], j, k)
  BY <1>5 DEF Compared, Has
<1>8. RefInv'
  <2>1. \A s \in Sides : \A i, k : Has(L[s], i, k) \/ Maps(M, s, i, k) => KeyRef(s, i, k)
    BY <1>3, <1>4 DEF KeyRef
  <2>2. \A s \in Sides : \A i, k : /\ Has(plan'.creates[s], i, k) => KeyRef(s, i, k)
                                   /\ Maps(sess'.maps, s, i, k) => KeyRef(s, i, k)
                                   /\ ~Has(tree'[s].leaves, i, k)
    <3>1. \A s \in Sides : \A i, k : ~Has(tree'[s].leaves, i, k)
      BY <1>2 DEF Has
    <3> QED
      BY <1>5, <1>7, <2>1, <3>1 DEF Compared
  <2>3. \A s \in Sides : \A i, k : /\ KeyRef(s, i, k)' => KeyRef(s, i, k)
                                   /\ Ref(s, i, k)' => Ref(s, i, k)
    BY <1>2, <2>2 DEF KeyRef, Ref
  <2>4. RefsOnlyGo
    BY <1>2, <2>3 DEF RefsOnlyGo, DavInv, RefInv, DeletedKeys
  <2> QED
    BY <2>4, RefsStay DEF DavInv
<1>9. LateNew'
  BY <1>2 DEF LateNew, Early
<1>10. CreatesAbsent'
  <2> SUFFICES ASSUME NEW s \in Sides, NEW i, NEW k, Has(plan'.creates[s], i, k), NEW j,
                      Has(store[Other(s)], j, k)
               PROVE  FALSE
    BY <1>2 DEF CreatesAbsent
  <2>1. Has(L[s], i, k) /\ ~Has(L[Other(s)], j, k)
    BY <1>7
  <2> QED
    BY <1>6, <2>1, SidesFacts
<1>11. DroppedGone'
  <2> SUFFICES ASSUME NEW k \in MKeys(M) \ MKeys(sess'.maps), NEW s \in Sides, NEW i
               PROVE  ~Has(store[s], i, k) /\ ~Has(plan'.creates[s], i, k)
    BY <1>2, <1>4 DEF DroppedGone
  <2>1. ~Has(L[s], i, k)
    BY <1>5 DEF Compared
  <2> QED
    BY <1>6, <1>7, <2>1
<1>12. TrueMapped'
  <2>1. \A s \in Sides : \A i, k : Has(plan'.creates[s], i, k) => Has(tree[s].leaves, i, k)
    BY <1>4, <1>7
  <2>2. \A s \in Sides : \A i, k : ~Has(tree'[s].leaves, i, k)
    BY <1>2 DEF Has
  <2> QED
    BY <1>2, <2>1, <2>2 DEF DavInv, TrueMapped
<1>13. DeletesCaused'
  <2> SUFFICES ASSUME NEW s \in Sides, NEW id \in plan'.deletes[s]
               PROVE  \E m \in sess'.maps :
                        m.id[s] = id /\ \A k : ~Has(store[Other(s)], m.id[Other(s)], k)
    BY <1>2 DEF DeletesCaused
  <2>1. PICK m \in M \cap sess'.maps :
          m.id[s] = id /\ \A j : ~Has(L[Other(s)], j, m.mkey)
    BY <1>5 DEF Compared
  <2>2. ASSUME NEW k, Has(store[Other(s)], m.id[Other(s)], k) PROVE FALSE
    <3>1. Ref(Other(s), m.id[Other(s)], k) /\ Ref(Other(s), m.id[Other(s)], m.mkey)
      BY <1>3, <2>2 DEF Ref, KeyRef, Maps
    <3>2. k = m.mkey
      BY <3>1, SidesFacts DEF DavInv, RefInv, RefsAgree
    <3>3. k \notin MKeys(M)
      BY <1>6, <2>1, <2>2, <3>2, SidesFacts
    <3> QED
      BY <3>2, <3>3 DEF MKeys
  <2> QED
    BY <2>1, <2>2
<1>14. NothingMatched' /\ SourcesPlanned'
  BY <1>2 DEF DavInv, NothingMatched, SourcesPlanned
<1>15. MergesCommitted'
  BY <1>2, <1>4, <1>5 DEF MergesCommitted, Compared, MKeys
<1> QED
  BY <1>8, <1>9, <1>10, <1>11, <1>12, <1>13, <1>14, <1>15 DEF DavInv

-------------------------------------------------------------------------------
(* The theorems about DAV. *)

\* The initial stores hold no duplicates.
LEMMA InitDav ==
  ASSUME Dav, Init
  PROVE  DavInv
<1>1. TypeOK
  BY InitTypeOK
<1>2. PICK sc \in Scenarios : store = sc.items
  BY DEF Init
<1>3. /\ phase = "idle" /\ side = "a" /\ db = EmptyDatabase /\ sess = EmptyDatabase
      /\ deleted = {} /\ matched = {} /\ plan.merges = {}
      /\ \A s \in Sides : /\ nextId[s] = FirstId /\ tree[s].leaves = {} /\ fetched[s] = {}
                          /\ plan.creates[s] = {} /\ plan.deletes[s] = {}
      /\ used = UNION {{i.key : i \in store[s]} : s \in Sides}
  BY DEF Init, NoTree, EmptyPlan
<1>4. \A s \in Sides : \A i, k : Ref(s, i, k) => Has(store[s], i, k)
  BY <1>3 DEF Ref, KeyRef, Has, Maps, EmptyDatabase
<1>5. \A s \in Sides : \A x, y \in store[s] :
        x.id < FirstId /\ (x.id = y.id => x = y) /\ (x.key = y.key => x = y)
  BY <1>2, EngineAssumption DEF Dav
<1>6. RefsKnown /\ RefsGone /\ RefsAgree
  BY <1>3, <1>4, <1>5 DEF RefsKnown, RefsGone, RefsAgree, Has
<1>7. RefsOne
  BY <1>4, <1>5 DEF RefsOne, Ref, Has
<1>8. ItemsLive /\ DeletedKeys = {}
  BY <1>3 DEF ItemsLive, DeletedKeys, Has
<1>9. /\ LateNew /\ CreatesAbsent /\ DroppedGone /\ TrueMapped /\ DeletesCaused
      /\ SourcesPlanned /\ NothingMatched /\ MergesCommitted /\ Control
  BY <1>3, SidesFacts
     DEF MergesCommitted, LateNew, TreeBuilt, CreatesAbsent, DroppedGone, TrueMapped, DeletesCaused,
         SourcesPlanned, NothingMatched, Control, Early, Has
<1> QED
  BY <1>6, <1>7, <1>8, <1>9 DEF DavInv, RefInv

\* Every step keeps the invariant.
LEMMA DavInvStep ==
  ASSUME Dav, TypeInv, KeyInv, DavInv, NothingSkipped', [Next]_vars
  PROVE  DavInv'
<1>1. TypeOK /\ TypeOK' /\ Control'
  BY TypeInvStep, ControlStep DEF TypeInv, DavInv
<1>2. CASE (\E md \in Modes : Start(md)) \/ ReturnUnexecuted \/ BuildFails \/ Crash
  <2>1. UNCHANGED <<store, nextId, historyVars, db>>
    BY <1>2 DEF Start, ReturnUnexecuted, BuildFails, Crash, Rollback, serverVars
  <2> QED
    BY <1>1, <1>2, <2>1, IdleDav DEF ReturnUnexecuted, BuildFails, Crash
<1>3. ASSUME NEW s \in Sides, SkipContainer(s) \/ ReadState(s) PROVE DavInv'
  <2>1. ReadState(s)
    BY <1>1, <1>3 DEF SkipContainer, TypeOK, NothingSkipped
  <2> QED
    BY <1>1, <2>1, ReadStateDav
<1>4. ASSUME NEW s \in Sides, List(s) PROVE DavInv'
  BY <1>1, <1>4, ListDav
<1>5. CASE Compare
  BY <1>1, <1>5, CompareDav
<1>6. CASE \/ Proceed \/ (\E s \in Sides : FetchMerges(s)) \/ FetchMergesFails
           \/ \E op \in plan.merges : MergeSkipped(op) \/ MergeWriteA(op)
           \/ MergeWriteB
  BY <1>1, <1>6, MergesDav
<1>7. CASE \E s \in Sides : FetchSources(s) \/ FetchSourcesFails(s)
  BY <1>1, <1>7, SourcesDav
<1>8. CASE (\E ids \in matched : MatchWriteA(ids)) \/ MatchWriteB
  BY <1>8 DEF MatchWriteB, DavInv, NothingMatched
<1>9. ASSUME NEW s \in Sides, NEW op \in plan.creates[s], Create(s, op) PROVE DavInv'
  BY <1>1, <1>9, CreateDav
<1>10. ASSUME NEW s \in Sides, NEW id \in plan.deletes[s], Delete(s, id) PROVE DavInv'
  BY <1>1, <1>10, DeleteDav
<1>11. CASE Finish
  BY <1>1, <1>11, FinishDav
<1>12. ASSUME NEW s \in Sides, NEW k \in Keys, NEW v \in Values, UserCreate(s, k, v)
       PROVE  DavInv'
  BY <1>1, <1>12, UserCreateDav
<1>13. CASE \/ \E s \in Sides : \E i \in store[s] :
                 UserDelete(s, i) \/ \E v \in Values : UserEdit(s, i, v)
            \/ UNCHANGED vars
  BY <1>1, <1>13, UserDav
<1>14. CASE Run
  BY <1>3, <1>4, <1>5, <1>6, <1>7, <1>8, <1>9, <1>10, <1>11, <1>14 DEF Run
<1>15. CASE Failures
  BY <1>2, <1>6, <1>7, <1>15 DEF Failures
<1>16. CASE Users
  BY <1>12, <1>13, <1>16 DEF Users
<1> QED
  BY <1>2, <1>13, <1>14, <1>15, <1>16 DEF Next

\* Every reachable state has the invariant.
LEMMA DavInvHolds ==
  ASSUME Dav
  PROVE  Spec /\ []NothingSkipped => [](TypeInv /\ KeyInv /\ DavInv)
<1>1. Init => DavInv
  BY InitDav
<1>2. TypeInv /\ KeyInv /\ DavInv /\ NothingSkipped' /\ [Next]_vars => DavInv'
  BY DavInvStep
<1> QED
  BY <1>1, <1>2, KeyInvHolds, PTL DEF Spec

(***************************************************************************)
(* Items keyed by uid on both sides are never doubled: while no container   *)
(* is skipped, whatever fails, crashes or is done twice, one identity is at *)
(* most one item of a side.                                                 *)
(***************************************************************************)
THEOREM NothingDoubled == Dav => (Spec /\ []NothingSkipped => []NoDuplicates)
<1> SUFFICES ASSUME Dav PROVE Spec /\ []NothingSkipped => []NoDuplicates
  OBVIOUS
<1>1. TypeInv /\ KeyInv /\ DavInv => NoDuplicates
  <2> SUFFICES ASSUME KeyInv, DavInv, NEW s \in Sides, NEW i \in store[s], NEW j \in store[s],
                      i.key = j.key
               PROVE  i = j
    BY DEF NoDuplicates
  <2>1. i.id = j.id
    BY DEF DavInv, RefInv, RefsOne, KeyRef, Has
  <2> QED
    BY <2>1 DEF KeyInv, StoresFresh, Fresh
<1> QED
  BY <1>1, DavInvHolds, PTL

(***************************************************************************)
(* Such an item is deleted by a run only where its mapped counterpart is    *)
(* gone from the other side at that very time, not just from its listing.   *)
(* A run that skips a container on its sync-token has no listing of it, and *)
(* SyncSkipDeletes.cfg shows it delete what is there; the theorem is about  *)
(* behaviours without such a run.                                           *)
(***************************************************************************)
THEOREM DeletionsFollowed == Dav => (Spec /\ []NothingSkipped => []DeletesFollowDeletions)
<1> SUFFICES ASSUME Dav PROVE Spec /\ []NothingSkipped => []DeletesFollowDeletions
  OBVIOUS
<1>1. TypeInv /\ KeyInv /\ DavInv => DeletesFollowDeletions
  <2>1. \A s \in Sides : \A id : (\A k : ~Has(store[s], id, k)) => id \notin Ids(store[s])
    BY DEF Has, Ids
  <2> SUFFICES ASSUME DavInv, NEW s \in Sides, NEW id \in plan.deletes[s]
               PROVE  \E m \in sess.maps :
                        m.id[s] = id /\ m.id[Other(s)] \notin Ids(store[Other(s)])
    BY DEF DeletesFollowDeletions
  <2>2. PICK m \in sess.maps :
          m.id[s] = id /\ \A k : ~Has(store[Other(s)], m.id[Other(s)], k)
    BY DEF DavInv, DeletesCaused
  <2> QED
    BY <2>1, <2>2, SidesFacts
<1> QED
  BY <1>1, DavInvHolds, PTL

(***************************************************************************)
(* An identity that users gave to an item and of which no user deleted a    *)
(* copy is on a side: while no container is skipped, the last copy of an    *)
(* item is never deleted by a run.                                          *)
(***************************************************************************)
THEOREM NothingLost == Dav => (Spec /\ []NothingSkipped => []NoItemLost)
<1> SUFFICES ASSUME Dav PROVE Spec /\ []NothingSkipped => []NoItemLost
  OBVIOUS
<1>1. TypeInv /\ KeyInv /\ DavInv => NoItemLost
  BY DEF DavInv, RefInv, ItemsLive, DeletedKeys, NoItemLost, Has
<1> QED
  BY <1>1, DavInvHolds, PTL

(***************************************************************************)
(* No step, a run's or a user's, brings an identity to a side after its     *)
(* item was deleted while a committed mapping knew it, but for a merge that *)
(* had fetched the item and PUTs it: no create, whether of this run or a    *)
(* later one, ever does.                                                    *)
(***************************************************************************)
THEOREM NothingResurrected == Dav => (Spec /\ []NothingSkipped => NoResurrection)
<1> SUFFICES ASSUME Dav PROVE Spec /\ []NothingSkipped => NoResurrection
  OBVIOUS
<1> DEFINE A == \A s \in Sides : \A i \in store'[s] :
                  <<i.key, TRUE>> \in deleted /\ i.id \notin Ids(store[s])
                    => /\ phase \in {"merge", "merge_b"}
                       /\ PutsWhole(s) /\ i.id \in Ids(fetched[s])
<1>1. TypeInv /\ KeyInv /\ DavInv /\ [Next]_vars => [A]_vars
  <2> SUFFICES ASSUME TypeOK, CurrentIsSet, KeyInv, DavInv, [Next]_vars,
                      NEW s \in Sides, NEW i \in store'[s], <<i.key, TRUE>> \in deleted,
                      i.id \notin Ids(store[s])
               PROVE  /\ phase \in {"merge", "merge_b"}
                      /\ PutsWhole(s) /\ i.id \in Ids(fetched[s])
    BY DEF TypeInv
  <2>1. StoresFresh
    BY DEF KeyInv
  <2>2. i.key \in used
    BY DEF DavInv, RefInv, DeletedKeys
  <2>3. ASSUME \A r \in Sides : \A j, k : Has(store'[r], j, k) => Has(store[r], j, k)
        PROVE  FALSE
    BY <2>3 DEF Has, Ids
  <2>4. ASSUME \A r \in Sides : Kept(r) \/ Edited(r) PROVE FALSE
    BY <2>3, <2>4, EditHas
  <2>5. ASSUME UNCHANGED store PROVE FALSE
    BY <2>3, <2>5
  <2>6. ASSUME NEW t \in Sides, NEW k \in Keys, NEW v \in Values, UserCreate(t, k, v)
        PROVE  FALSE
    <3>1. /\ store'[t] = store[t] \cup {NewItem(t, k, v)}
          /\ \A r \in Sides : r # t => store'[r] = store[r]
      BY <2>6, SetStoreServers DEF UserCreate, NewItem
    <3>2. i = NewItem(t, k, v)
      BY <3>1 DEF Ids
    <3> QED
      BY <2>2, <2>6, <3>2 DEF NewItem, UserCreate, Dav
  <2>7. ASSUME NEW t \in Sides, NEW op \in plan.creates[t], Create(t, op) PROVE FALSE
    <3>1. PICK x \in fetched[t] :
            /\ x.id = op.id
            /\ phase = "apply"
            /\ store'[t] = store[t]
            /\ \/ store'[Other(t)] = store[Other(t)]
               \/ store'[Other(t)] = store[Other(t)] \cup {NewItem(Other(t), x.key, x.val)}
      BY <2>7, CreateOutcome
    <3>2. /\ x.key = op.key /\ op.key \notin MKeys(db.maps)
      BY <3>1, CreateIsNew
    <3>3. i = NewItem(Other(t), x.key, x.val)
      BY <3>1 DEF Ids, Sides, Other
    <3>4. i.key = op.key /\ Has(plan.creates[t], op.id, op.key)
      BY <3>2, <3>3 DEF NewItem, Has
    <3> QED
      BY <3>2, <3>4 DEF DavInv, TrueMapped
  <2>8. CASE \/ \E op \in plan.merges : MergeWriteA(op)
             \/ MergeWriteB
             \/ \E ids \in matched : MatchWriteA(ids)
             \/ MatchWriteB
    <3>1. phase \in {"merge", "merge_b"}
      BY <2>8 DEF MergeWriteA, MergeWriteB, MatchWriteB, DavInv, NothingMatched
    <3>2. Written(s)
      BY <2>1, <2>8, WritesEdit
    <3>3. ASSUME \A k : Has(store'[s], i.id, k) => Has(store[s], i.id, k) PROVE FALSE
      BY <3>3 DEF Has, Ids
    <3>4. CASE Kept(s) \/ Edited(s)
      BY <3>3, <3>4, EditHas
    <3>5. CASE \E id : Restored(s, id)
      <4>1. PICK f \in fetched[s], v \in Values :
              PutsWhole(s) /\ store'[s] = store[s] \cup {RestoredItem(s, f, v)}
        BY <3>5 DEF Restored
      <4>2. i = RestoredItem(s, f, v)
        BY <4>1 DEF Ids
      <4>3. i.id = f.id
        BY <4>2, RestoredItemFacts DEF TypeOK
      <4> QED
        BY <3>1, <4>1, <4>3 DEF Ids
    <3> QED
      BY <3>2, <3>4, <3>5 DEF Written
  <2>9. ASSUME NEW t \in Sides, NEW id \in plan.deletes[t], Delete(t, id) PROVE FALSE
    BY <2>3, <2>5, <2>9, SetStoreServers DEF Delete, Has
  <2>10. ASSUME NEW t \in Sides, NEW x \in store[t],
                UserDelete(t, x) \/ \E v \in Values : UserEdit(t, x, v)
         PROVE  FALSE
    <3>1. CASE UserDelete(t, x)
      BY <2>3, <3>1, SetStoreServers DEF UserDelete, Has
    <3>2. ASSUME NEW v \in Values, UserEdit(t, x, v) PROVE FALSE
      <4>1. Edited(t) /\ \A r \in Sides : r # t => Kept(r)
        BY <3>2, SetStoreServers DEF UserEdit, Edited, EditedItem, Kept
      <4> QED
        BY <2>4, <4>1
    <3> QED
      BY <2>10, <3>1, <3>2
  <2>11. CASE \/ \E md \in Modes : Start(md)
              \/ ReturnUnexecuted \/ BuildFails \/ Crash \/ FetchMergesFails
              \/ Compare \/ Proceed \/ Finish
              \/ UNCHANGED vars
    BY <2>5, <2>11 DEF Start, ReturnUnexecuted, BuildFails, Crash, FetchMergesFails, Compare,
                       Proceed, Finish, vars, serverVars
  <2>12. ASSUME NEW t \in Sides,
                \/ SkipContainer(t) \/ ReadState(t) \/ List(t)
                \/ FetchMerges(t) \/ FetchSources(t) \/ FetchSourcesFails(t)
         PROVE  FALSE
    BY <2>5, <2>12 DEF SkipContainer, ReadState, List, FetchMerges, FetchSources,
                       FetchSourcesFails, serverVars
  <2>13. ASSUME NEW op \in plan.merges, MergeSkipped(op) PROVE FALSE
    BY <2>5, <2>13 DEF MergeSkipped, serverVars
  <2>14. CASE Run
    BY <2>7, <2>8, <2>9, <2>11, <2>12, <2>13, <2>14 DEF Run
  <2>15. CASE Failures
    BY <2>11, <2>12, <2>15 DEF Failures
  <2>16. CASE Users
    BY <2>6, <2>10, <2>16 DEF Users
  <2> QED
    BY <2>11, <2>14, <2>15, <2>16 DEF Next
<1> QED
  BY <1>1, DavInvHolds, PTL DEF Spec, NoResurrection

-------------------------------------------------------------------------------
(***************************************************************************)
(* What the database says of the values of items.  A fingerprint with a     *)
(* value tells the truth of an item if the item has passed that version, or *)
(* is at it and has that value.  Fetched items, merged mappings and the     *)
(* write between two writes all tell the truth, and stay true whatever a    *)
(* server does next, since versions grow and ids are not given out twice.   *)
(***************************************************************************)

\* What fingerprint fp and value v say of the item with this id among S.
Seen(S, id, fp, v) == \A x \in S : x.id = id => fp <= x.ver /\ (x.ver = fp => x.val = v)

\* Mappings have keys, and items, of their own.
Unique(M) == \A m, n \in M : m.mkey = n.mkey => m = n

Apart(M) == \A m, n \in M : \A s \in Sides : m.id[s] = n.id[s] => m = n

MapsUnique == Unique(db.maps) /\ Unique(sess.maps)

\* No item that is to be created is mapped.
CreatesFree == \A s \in Sides : \A op \in plan.creates[s], m \in sess.maps : m.id[s] # op.id

\* What the adapters must see to: one mapping for an item, none that a comparison
\* points at another item, and no failure while matched pairs are written.
Sound ==
  /\ Apart(sess.maps)
  /\ phase = "compare" => \A m \in sess.maps : Healed(Listed, sess.maps, m) = m
  /\ matched # {} \/ phase = "match_b" => ~Fallible /\ CreatesFree

FetchedTrue ==
  \A s \in Sides : /\ Fresh(fetched[s], nextId[s])
                   /\ \A x \in fetched[s] : Seen(store[s], x.id, x.ver, x.val)

MapsTrue ==
  \A m \in db.maps \cup sess.maps : \A s \in Sides :
    m.snap # NoSnap => Seen(store[s], m.id[s], m.fp[s], m.snap)

MergesMapped == \A op \in plan.merges : \E m \in sess.maps : m.id = op

\* Between its writes a merge is one of fetched items that a mapping pairs.
CurMerged ==
  phase = "merge_b" =>
    \E x \in fetched["a"], y \in fetched["b"], m \in sess.maps :
      /\ x.id = cur.ids["a"] /\ y.id = cur.ids["b"]
      /\ m.id = cur.ids /\ m.mkey = cur.mkey
      /\ cur.val \in MergeResults(x, y, m.snap)

\* What the write to A is remembered for.
CurTrue ==
  (phase = "merge_b" /\ cur.ok) \/ phase = "match_b" =>
    cur.ids["a"] < nextId["a"] /\ Seen(store["a"], cur.ids["a"], cur.fp, cur.val)

TruthInv ==
  /\ FetchedTrue
  /\ MapsTrue
  /\ MergesMapped
  /\ CurMerged
  /\ CurTrue

\* What is true of an item stays true when its server makes a step.
LEMMA SeenStays ==
  ASSUME TypeOK, StoresFresh, ServersStep, NEW s \in Sides, NEW id \in Nat, NEW fp \in Nat,
         NEW v, id < nextId[s], fp <= rev[s], Seen(store[s], id, fp, v)
  PROVE  Seen(store'[s], id, fp, v)
<1>1. store[s] \subseteq Item /\ nextId[s] \in Nat
  BY DEF TypeOK
<1>2. CASE Kept(s)
  BY <1>2 DEF Kept
<1>3. CASE Edited(s)
  <2>1. PICK x \in store[s], w \in Values :
          store'[s] = (store[s] \ {x}) \cup {EditedItem(x, w)}
    BY <1>3 DEF Edited
  <2>2. EditedItem(x, w).id = x.id /\ EditedItem(x, w).ver = x.ver + 1 /\ x.ver \in Nat
    BY <1>1, EditedItemFacts DEF Item
  <2>3. x.id = id => fp <= x.ver + 1 /\ x.ver + 1 # fp
    BY <2>2 DEF Seen
  <2> QED
    BY <2>1, <2>2, <2>3 DEF Seen
<1>4. CASE Added(s)
  <2>1. PICK k \in Keys, w \in Values : store'[s] = store[s] \cup {NewItem(s, k, w)}
    BY <1>4 DEF Added
  <2>2. NewItem(s, k, w).id # id
    BY <1>1 DEF NewItem
  <2> QED
    BY <2>1, <2>2 DEF Seen
<1>5. CASE Removed(s)
  BY <1>5 DEF Removed, Seen
<1>6. CASE \E r : Restored(s, r)
  <2>1. PICK f \in fetched[s], w \in Values : store'[s] = store[s] \cup {RestoredItem(s, f, w)}
    BY <1>6 DEF Restored
  <2>2. RestoredItem(s, f, w).ver = rev[s] + 1 /\ rev[s] \in Nat
    BY RestoredItemFacts DEF TypeOK
  <2>3. fp <= rev[s] + 1 /\ rev[s] + 1 # fp
    BY <2>2
  <2> QED
    BY <2>1, <2>2, <2>3 DEF Seen
<1> QED
  BY <1>2, <1>3, <1>4, <1>5, <1>6 DEF ServersStep, Written

\* An update that reports no failure wrote over its target.
LEMMA UpdateSucceeds ==
  ASSUME NEW s \in Sides, NEW x, NEW v, NEW y, Target(s, x) = {y},
         NEW w \in Updates(s, x, v), w.ok \/ ~Fallible
  PROVE  w.items = Updated(s, x, v) /\ w.ok /\ w.fp = y.ver + 1
<1>1. Target(s, x) # {}
  OBVIOUS
<1>2. w \in {[items |-> Updated(s, x, v), ok |-> TRUE, fp |-> z.ver + 1, cost |-> 0] :
               z \in {y}}
  BY <1>1 DEF Updates
<1> QED
  BY <1>2

\* After a push the caller holds a true fingerprint, unless the call failed.
LEMMA PushSeen ==
  ASSUME TypeOK, StoresFresh, NEW s \in Sides, NEW x \in Item, NEW v \in Values,
         Seen(store[s], x.id, x.ver, x.val), NEW w \in Pushes(s, x, v), w.ok \/ ~Fallible
  PROVE  Seen(w.items, x.id, w.fp, v)
<1>1. CASE v = x.val
  BY <1>1 DEF Pushes
<1>2. CASE v # x.val
  <2>1. w \in Updates(s, x, v)
    BY <1>2 DEF Pushes
  <2>2. CASE x.id \notin Ids(store[s]) /\ ~PutsWhole(s)
    <3>1. w.items = store[s]
      BY <2>2, PushKeepsItems, UpdatedEdits DEF Ids
    <3> QED
      BY <2>2, <3>1 DEF Seen, Ids
  <2>3. CASE x.id \notin Ids(store[s]) /\ PutsWhole(s)
    <3>1. PICK f : f = [x EXCEPT !.ver = rev[s]]
      OBVIOUS
    <3>2. Target(s, x) = {f} /\ f.ver = rev[s]
      BY <2>3, <3>1 DEF Target, Item
    <3>3. w.items = Updated(s, x, v) /\ w.fp = rev[s] + 1
      <4>1. w.items = Updated(s, x, v) /\ w.fp = f.ver + 1
        BY <2>1, <3>2, UpdateSucceeds
      <4> QED
        BY <3>2, <4>1
    <3>4. Updated(s, x, v) = store[s] \cup {RestoredItem(s, x, v)}
      BY <2>3, UpdatedEdits DEF Ids
    <3>5. RestoredItem(s, x, v).ver = rev[s] + 1 /\ RestoredItem(s, x, v).val = v
      BY RestoredItemFacts
    <3> QED
      BY <2>3, <3>3, <3>4, <3>5 DEF Seen, Ids, TypeOK
  <2>4. CASE x.id \in Ids(store[s])
    <3>1. PICK y \in store[s] :
            /\ y.id = x.id
            /\ Updated(s, x, v) = (store[s] \ {y}) \cup {EditedItem(y, v)}
      BY <2>4, UpdatedEdits
    <3>2. {z \in store[s] : z.id = x.id} = {y}
      BY <3>1 DEF StoresFresh, Fresh
    <3>3. w.items = Updated(s, x, v) /\ w.fp = y.ver + 1
      <4>1. Target(s, x) = {y}
        BY <2>4, <3>2 DEF Target
      <4> QED
        BY <2>1, <4>1, UpdateSucceeds
    <3>4. /\ y.ver \in Nat /\ EditedItem(y, v).ver = y.ver + 1
          /\ EditedItem(y, v).val = v /\ EditedItem(y, v).id = x.id
      BY <3>1, EditedItemFacts DEF TypeOK, Item
    <3>5. \A z \in store[s] \ {y} : z.id # x.id
      BY <3>2
    <3> QED
      BY <3>1, <3>3, <3>4, <3>5 DEF Seen
  <2> QED
    BY <2>2, <2>3, <2>4
<1> QED
  BY <1>1, <1>2

\* What has the id of an item in the store is told truly by it.
LEMMA ItemsSeen ==
  ASSUME TypeOK, StoresFresh, NEW s \in Sides, NEW x \in store[s]
  PROVE  Seen(store[s], x.id, x.ver, x.val)
BY DEF TypeOK, Item, StoresFresh, Fresh, Seen

-------------------------------------------------------------------------------
(* The mappings through a step. *)

\* A step records nothing, fetches only what is there and writes no merge.
Quiet ==
  /\ \A M \in {db'.maps, sess'.maps} : M \subseteq db.maps \/ M \subseteq sess.maps
  /\ \A s \in Sides : fetched'[s] \subseteq fetched[s] \/ fetched'[s] \subseteq store[s]
  /\ plan'.merges \subseteq plan.merges
  /\ plan'.merges = {} \/ sess'.maps = sess.maps
  /\ phase' \notin {"merge_b", "match_b"} \/ UNCHANGED <<phase, cur, fetched, sess>>

\* Merges are taken from the plan, never added to it.
LEMMA MergeDoneFewer ==
  ASSUME TypeOK, NEW op, MergeDone(op)
  PROVE  /\ plan'.merges = plan.merges \ {op}
         /\ \A s \in Sides : fetched'[s] \subseteq fetched[s]
         /\ phase' \notin {"merge_b", "match_b"}
BY DEF TypeOK, MergeDone, PhaseAfter, PlanType

\* All other steps are named.
LEMMA QuietSteps ==
  ASSUME TypeOK, [Next]_vars
  PROVE  \/ Quiet
         \/ Compare
         \/ \E op \in plan.merges : MergeWriteA(op)
         \/ MergeWriteB
         \/ \E ids \in matched : MatchWriteA(ids)
         \/ MatchWriteB
         \/ \E s \in Sides : \E op \in plan.creates[s] : Create(s, op)
<1>1. ASSUME EndRun, db' = db, sess' = db PROVE Quiet
  BY <1>1 DEF EndRun, EmptyPlan, Quiet
<1>2. ASSUME NEW md \in Modes, Start(md) PROVE Quiet
  BY <1>2 DEF Start, VisitPhase, Quiet, workVars
<1>3. CASE ReturnUnexecuted \/ BuildFails \/ Crash
  BY <1>1, <1>3 DEF ReturnUnexecuted, BuildFails, Crash, Rollback
<1>4. ASSUME NEW s \in Sides, SkipContainer(s) \/ ReadState(s) \/ List(s) PROVE Quiet
  BY <1>4 DEF SkipContainer, ReadState, List, Built, VisitPhase, Quiet
<1>5. CASE Proceed
  BY <1>5 DEF Proceed, PhaseAfter, Quiet, workVars
<1>6. CASE FetchMergesFails
  <2>1. plan'.merges = {}
    BY <1>6 DEF FetchMergesFails, TypeOK, PlanType
  <2> QED
    BY <1>6, <2>1 DEF FetchMergesFails, PhaseAfter, Quiet
<1>7. ASSUME NEW s \in Sides, FetchMerges(s) PROVE Quiet
  <2>1. PICK r \in Readings(s, {op[s] : op \in plan.merges}) :
          fetched' = [fetched EXCEPT ![s] = r.items]
    BY <1>7 DEF FetchMerges
  <2>2. r.items \subseteq store[s]
    BY <2>1, ReadingsFacts
  <2>3. \A t \in Sides : fetched'[t] \subseteq fetched[t] \/ fetched'[t] \subseteq store[t]
    BY <2>1, <2>2 DEF TypeOK
  <2> QED
    BY <1>7, <2>3 DEF FetchMerges, Quiet
<1>8. ASSUME NEW op \in plan.merges, MergeSkipped(op) PROVE Quiet
  BY <1>8, MergeDoneFewer DEF MergeSkipped, Quiet
<1>9. ASSUME NEW s \in Sides, FetchSources(s) \/ FetchSourcesFails(s) PROVE Quiet
  <2>1. \A t \in Sides : fetched'[t] \subseteq fetched[t] \/ fetched'[t] \subseteq store[t]
    <3>1. CASE FetchSources(s)
      <4>1. PICK r \in Readings(s, CreateIds(s)) : fetched' = [fetched EXCEPT ![s] = r.items]
        BY <3>1 DEF FetchSources
      <4>2. r.items \subseteq store[s]
        BY <4>1, ReadingsFacts
      <4> QED
        BY <4>1, <4>2 DEF TypeOK
    <3>2. CASE FetchSourcesFails(s)
      BY <3>2 DEF FetchSourcesFails, TypeOK
    <3> QED
      BY <1>9, <3>1, <3>2
  <2>2. plan'.merges = plan.merges
    <3>1. UNCHANGED plan \/ \E F : SourcesRead(F)
      BY <1>9 DEF FetchSources, FetchSourcesFails
    <3> QED
      BY <3>1 DEF SourcesRead, TypeOK, PlanType
  <2> QED
    BY <1>9, <2>1, <2>2 DEF FetchSources, FetchSourcesFails, Quiet
<1>10. ASSUME NEW s \in Sides, NEW id \in plan.deletes[s], Delete(s, id) PROVE Quiet
  BY <1>10 DEF Delete, Quiet, TypeOK, PlanType
<1>11. CASE Finish
  <2>1. db'.maps = sess.maps /\ sess'.maps = sess.maps
    BY <1>11 DEF Finish, TypeOK, Database
  <2> QED
    BY <1>11, <2>1 DEF Finish, EndRun, EmptyPlan, Quiet
<1>12. CASE Users
  BY <1>12 DEF Users, UserCreate, UserEdit, UserDelete, UserMayAct, runVars, workVars, Quiet
<1>13. CASE UNCHANGED vars
  BY <1>13 DEF vars, runVars, workVars, Quiet
<1> QED
  BY <1>2, <1>3, <1>4, <1>5, <1>6, <1>7, <1>8, <1>9, <1>10, <1>11, <1>12, <1>13
     DEF Next, Run, Failures

\* A merge is recorded in the mapping with its key, if both writes were accepted.
LEMMA RecordedMerge ==
  ASSUME TypeOK, NEW fpb \in Nat, NEW ok, NEW m \in RecordMerge(sess.maps, fpb, ok)
  PROVE  \E o \in sess.maps :
           /\ m.mkey = o.mkey /\ m.id = o.id
           /\ m = o \/ (/\ o.mkey = cur.mkey /\ cur.ok /\ ok
                        /\ m.fp = [s \in Sides |-> IF s = "a" THEN cur.fp ELSE fpb]
                        /\ m.snap = cur.val)
           /\ \A n \in RecordMerge(sess.maps, fpb, ok) :
                Unique(sess.maps) /\ n.mkey = m.mkey => n = m
<1> DEFINE R(o) == IF o.mkey = cur.mkey /\ cur.ok /\ ok
                     THEN [o EXCEPT !.fp = [s \in Sides |-> IF s = "a" THEN cur.fp ELSE fpb],
                                    !.snap = cur.val]
                     ELSE o
<1>1. RecordMerge(sess.maps, fpb, ok) = {R(o) : o \in sess.maps}
  BY DEF RecordMerge
<1>2. ASSUME NEW o \in sess.maps
      PROVE  /\ R(o).mkey = o.mkey /\ R(o).id = o.id
             /\ R(o) = o \/ (/\ o.mkey = cur.mkey /\ cur.ok /\ ok
                             /\ R(o).fp = [s \in Sides |-> IF s = "a" THEN cur.fp ELSE fpb]
                             /\ R(o).snap = cur.val)
  BY DEF TypeOK, Database, Mapping
<1> HIDE DEF R
<1>3. PICK o \in sess.maps : m = R(o)
  BY <1>1
<1>4. ASSUME NEW n \in RecordMerge(sess.maps, fpb, ok), Unique(sess.maps), n.mkey = m.mkey
      PROVE  n = m
  <2>1. PICK q \in sess.maps : n = R(q)
    BY <1>1
  <2>2. q = o
    BY <1>2, <1>3, <1>4, <2>1 DEF Unique
  <2> QED
    BY <1>3, <2>1, <2>2
<1> QED
  BY <1>2, <1>3, <1>4

\* What a comparison does to mappings and keeps of them.
LEMMA MapsCompared ==
  ASSUME NEW L, NEW M \in SUBSET Mapping
  PROVE  /\ Unique(M) => Unique(MappingsAfter(L, M))
         /\ (\A m \in M : Healed(L, M, m) = m) =>
              \A m \in MappingsAfter(L, M) : m \in M \/ m.snap = NoSnap
         /\ \A op \in Merges(L, M) : \E m \in MappingsAfter(L, M) : m.id = op
<1>1. \A m \in M : Healed(L, M, m).mkey = m.mkey
  BY DEF Healed, Mapping
<1>2. \A n \in NewPairs(L, M) : n.mkey \notin MKeys(M) /\ n.snap = NoSnap
                                /\ n = NewPair(L, n.mkey)
  BY DEF NewPairs, NewPair
<1>3. Unique(M) => Unique(MappingsAfter(L, M))
  BY <1>1, <1>2 DEF Unique, MappingsAfter, MKeys
<1>4. (\A m \in M : Healed(L, M, m) = m) =>
        \A m \in MappingsAfter(L, M) : m \in M \/ m.snap = NoSnap
  BY <1>2 DEF MappingsAfter
<1>5. ASSUME NEW op \in Merges(L, M) PROVE \E m \in MappingsAfter(L, M) : m.id = op
  <2>1. CASE op \in {m.id : m \in {x \in ViaCache(L, M) : Drifted(L, x)}}
    <3>1. PICK m \in ViaCache(L, M) : m.id = op
      BY <2>1
    <3>2. m \in M /\ ~Open(L, M, m.mkey)
      BY DEF ViaCache, Open, MKeys
    <3>3. Healed(L, M, m) = m /\ m \notin Gone(L, M)
      BY <3>2 DEF Healed, OnBoth, Gone
    <3>4. m \in MappingsAfter(L, M)
      BY <3>2, <3>3 DEF MappingsAfter
    <3> QED
      BY <3>1, <3>4
  <2>2. CASE op \in {m.id : m \in {x \in {Healed(L, M, y) :
                                            y \in {z \in M : z.mkey \in OnBoth(L, M)}} :
                                     Drifted(L, x)}}
    <3>1. PICK m \in M : m.mkey \in OnBoth(L, M) /\ Healed(L, M, m).id = op
      BY <2>2
    <3>2. m \notin Gone(L, M)
      BY <3>1 DEF OnBoth, Gone, Sides
    <3>3. Healed(L, M, m) \in MappingsAfter(L, M)
      BY <3>2 DEF MappingsAfter
    <3> QED
      BY <3>1, <3>3
  <2> QED
    BY <2>1, <2>2 DEF Merges
<1> QED
  BY <1>3, <1>4, <1>5

\* A comparison that is pruned changes nothing, and plans no merges.
LEMMA CompareOutcome ==
  ASSUME TypeOK, KeyInv, Compare
  PROVE  /\ UNCHANGED <<store, nextId, db, fetched>>
         /\ phase = "compare" /\ phase' = "decide"
         /\ \/ sess' = sess /\ plan'.merges = {}
            \/ /\ sess'.maps = MappingsAfter(Listed, sess.maps)
               /\ plan'.merges = Merges(Listed, sess.maps)
<1>1. /\ UNCHANGED <<store, nextId, db, fetched>>
      /\ phase = "compare" /\ phase' = "decide"
  BY DEF Compare, serverVars
<1>2. CASE Prunes(sess.merkle, Listed, Carried)
  BY <1>1, <1>2 DEF Compare, KeyInv, NothingPlanned, Early
<1>3. CASE ~Prunes(sess.merkle, Listed, Carried)
  <2>1. PICK N, H : N = MappingsAfter(Listed, sess.maps) /\ H = Combine(Listed, Carried)
    OBVIOUS
  <2>2. /\ plan' = Plan(Listed, sess.maps)
        /\ sess' = [sess EXCEPT !.maps = N, !.merkle = H]
    BY <1>3, <2>1 DEF Compare
  <2>3. sess'.maps = N
    BY <2>2 DEF TypeOK, Database
  <2>4. plan'.merges = Merges(Listed, sess.maps)
    BY <2>2 DEF Plan
  <2> QED
    BY <1>1, <2>1, <2>3, <2>4
<1> QED
  BY <1>1, <1>2, <1>3

\* A create adds its mapping if it was seen to succeed.
LEMMA CreateRecords ==
  ASSUME TypeOK, KeyInv, NEW s \in Sides, NEW op \in plan.creates[s], Create(s, op)
  PROVE  \E x \in fetched[s] :
           /\ x.id = op.id
           /\ phase' = "apply" /\ plan'.merges = plan.merges
           /\ UNCHANGED <<db, fetched>>
           /\ store'[s] = store[s]
           /\ \/ sess' = sess
              \/ /\ store'[Other(s)] = store[Other(s)] \cup {NewItem(Other(s), x.key, x.val)}
                 /\ CreatedMapping(s, op, x).mkey \notin MKeys(sess.maps)
                 /\ sess'.maps = sess.maps \cup {CreatedMapping(s, op, x)}
<1> DEFINE p == [plan EXCEPT !.creates[s] = @ \ {op}]
<1>1. PICK x \in fetched[s] : \E w \in Creations(Other(s), x) :
        /\ x.id = op.id
        /\ SetStore(Other(s), w.items)
        /\ IF w.ok THEN Record(CreatedMapping(s, op, x), p)
           ELSE Continue(p) /\ UNCHANGED <<db, sess>>
  BY DEF Create
<1>2. PICK w \in Creations(Other(s), x) :
        /\ x.id = op.id
        /\ SetStore(Other(s), w.items)
        /\ IF w.ok THEN Record(CreatedMapping(s, op, x), p)
           ELSE Continue(p) /\ UNCHANGED <<db, sess>>
  BY <1>1
<1>3. PICK m : m = CreatedMapping(s, op, x)
  OBVIOUS
<1>4. m.mkey \notin MKeys(sess.maps)
  BY <1>2, <1>3, CreatedKeyNew
<1>5. /\ Continue(p)
      /\ UNCHANGED db
      /\ \/ UNCHANGED sess
         \/ w.ok /\ sess' = [sess EXCEPT !.maps = @ \cup {m}]
  BY <1>2, <1>3, <1>4 DEF Record
<1>6. phase' = "apply" /\ plan'.merges = plan.merges /\ UNCHANGED fetched
  BY <1>5 DEF Continue, TypeOK, PlanType
<1>7. store'[s] = store[s] /\ store'[Other(s)] = w.items
  BY <1>2, SetStoreServers, SidesFacts
<1>8. w.ok => w.items = store[Other(s)] \cup {NewItem(Other(s), x.key, x.val)}
  BY DEF Creations, NewItem
<1>9. sess' = [sess EXCEPT !.maps = @ \cup {m}] => sess'.maps = sess.maps \cup {m}
  BY DEF TypeOK, Database
<1> QED
  BY <1>2, <1>3, <1>4, <1>5, <1>6, <1>7, <1>8, <1>9

\* A matched pair is recorded as its writes left it.
LEMMA MatchRecords ==
  ASSUME TypeOK, KeyInv, MatchWriteB
  PROVE  \E y \in fetched["b"] : \E w \in Pushes("b", y, cur.val) : \E m :
           /\ y.id = cur.ids["b"]
           /\ phase = "match_b" /\ phase' = "apply" /\ plan'.merges = plan.merges
           /\ UNCHANGED <<db, fetched, nextId>>
           /\ SetStore("b", w.items)
           /\ m = [mkey |-> cur.mkey, id |-> cur.ids,
                   fp   |-> [s \in Sides |-> IF s = "a" THEN cur.fp ELSE w.fp],
                   snap |-> cur.val]
           /\ m.mkey \notin MKeys(sess.maps)
           /\ sess'.maps = sess.maps \cup {m}
<1>1. PICK y \in fetched["b"] : \E w \in Pushes("b", y, cur.val) :
        /\ y.id = cur.ids["b"]
        /\ SetStore("b", w.items)
        /\ Record([mkey |-> cur.mkey, id |-> cur.ids,
                   fp   |-> [s \in Sides |-> IF s = "a" THEN cur.fp ELSE w.fp],
                   snap |-> cur.val],
                  WithoutPair(cur.ids))
  BY DEF MatchWriteB
<1>2. PICK w \in Pushes("b", y, cur.val) :
        /\ y.id = cur.ids["b"]
        /\ SetStore("b", w.items)
        /\ Record([mkey |-> cur.mkey, id |-> cur.ids,
                   fp   |-> [s \in Sides |-> IF s = "a" THEN cur.fp ELSE w.fp],
                   snap |-> cur.val],
                  WithoutPair(cur.ids))
  BY <1>1
<1>3. PICK m : m = [mkey |-> cur.mkey, id |-> cur.ids,
                    fp   |-> [s \in Sides |-> IF s = "a" THEN cur.fp ELSE w.fp],
                    snap |-> cur.val]
  OBVIOUS
<1>4. m.mkey = cur.mkey /\ phase = "match_b" /\ UNCHANGED nextId
  BY <1>3 DEF MatchWriteB
<1>5. m.mkey \notin MKeys(sess.maps)
  BY <1>4, PairKeyNew
<1>6. /\ sess' = [sess EXCEPT !.maps = @ \cup {m}]
      /\ Continue(WithoutPair(cur.ids))
      /\ UNCHANGED db
  BY <1>2, <1>3, <1>5 DEF Record
<1>7. /\ phase' = "apply" /\ plan'.merges = plan.merges /\ UNCHANGED fetched
      /\ sess'.maps = sess.maps \cup {m}
  BY <1>6 DEF Continue, WithoutPair, TypeOK, PlanType, Database
<1> QED
  BY <1>2, <1>3, <1>4, <1>5, <1>6, <1>7

\* No two mappings ever share a key.
LEMMA MapsUniqueStep ==
  ASSUME TypeInv, KeyInv, MapsUnique, [Next]_vars
  PROVE  MapsUnique'
<1>1. TypeOK
  BY DEF TypeInv
<1>2. CASE Quiet
  BY <1>2 DEF Quiet, MapsUnique, Unique
<1>3. CASE Compare
  <2>1. sess.maps \in SUBSET Mapping
    BY <1>1 DEF TypeOK, Database
  <2>2. Unique(MappingsAfter(Listed, sess.maps))
    BY <2>1, MapsCompared DEF MapsUnique
  <2> QED
    BY <1>1, <1>3, <2>2, CompareOutcome DEF MapsUnique, Unique
<1>4. CASE (\E op \in plan.merges : MergeWriteA(op)) \/ \E ids \in matched : MatchWriteA(ids)
  BY <1>4 DEF MergeWriteA, MatchWriteA, MapsUnique, Unique
<1>5. CASE MergeWriteB
  <2>1. PICK y \in fetched["b"] : \E w \in Pushes("b", y, cur.val) :
          sess' = [sess EXCEPT !.maps = RecordMerge(@, w.fp, w.ok)]
    BY <1>5 DEF MergeWriteB
  <2>2. PICK w \in Pushes("b", y, cur.val) :
          sess' = [sess EXCEPT !.maps = RecordMerge(@, w.fp, w.ok)]
    BY <2>1
  <2>3. cur.val \in Values /\ y \in Item
    BY <1>1, <1>5, SidesFacts DEF TypeInv, CurrentIsSet, MergeWriteB, TypeOK
  <2>4. w.fp \in Nat
    BY <1>1, <2>3, PushesTyped, SidesFacts
  <2>5. sess'.maps = RecordMerge(sess.maps, w.fp, w.ok)
    BY <1>1, <2>2 DEF TypeOK, Database
  <2>6. Unique(sess.maps) => Unique(sess'.maps)
    <3>1. ASSUME Unique(sess.maps),
                 NEW m \in RecordMerge(sess.maps, w.fp, w.ok),
                 NEW n \in RecordMerge(sess.maps, w.fp, w.ok), m.mkey = n.mkey
          PROVE  m = n
      BY <1>1, <2>4, <3>1, RecordedMerge
    <3> QED
      BY <2>5, <3>1 DEF Unique
  <2> QED
    BY <1>5, <2>6 DEF MergeWriteB, MapsUnique, Unique
<1>6. CASE MatchWriteB
  BY <1>1, <1>6, MatchRecords DEF MapsUnique, Unique, MKeys
<1>7. ASSUME NEW s \in Sides, NEW op \in plan.creates[s], Create(s, op)
      PROVE  MapsUnique'
  BY <1>1, <1>7, CreateRecords DEF MapsUnique, Unique, MKeys
<1> QED
  BY <1>1, <1>2, <1>3, <1>4, <1>5, <1>6, <1>7, QuietSteps

-------------------------------------------------------------------------------
(***************************************************************************)
(* A state string covers every fingerprint given out so far: an item that a *)
(* PUT brings back gets one that nothing has recorded.                      *)
(***************************************************************************)

Covered ==
  /\ cur.fp <= rev["a"]
  /\ \A s \in Sides :
       /\ rev[s] >= 1
       /\ \A x \in store[s] \cup fetched[s] : x.ver <= rev[s]
       /\ \A l \in tree[s].leaves : l.fp <= rev[s]
       /\ \A m \in db.maps \cup sess.maps : m.fp[s] <= rev[s]
       /\ \A h \in db.merkle.of[s] \cup sess.merkle.of[s] : h[2] <= rev[s]

\* Leaves come from a listing, creates from a comparison.
LEMMA LeavesAndCreates ==
  ASSUME TypeOK, [Next]_vars
  PROVE  \A s \in Sides :
           /\ \/ tree'[s].leaves \subseteq tree[s].leaves
              \/ tree'[s].leaves = {LeafOf(s, i) : i \in store[s]}
           /\ \/ plan'.creates[s] \subseteq plan.creates[s]
              \/ plan'.creates[s] = Creates(Listed, sess.maps, s)
<1> DEFINE P == \A s \in Sides :
                  /\ \/ tree'[s].leaves \subseteq tree[s].leaves
                     \/ tree'[s].leaves = {LeafOf(s, i) : i \in store[s]}
                  /\ \/ plan'.creates[s] \subseteq plan.creates[s]
                     \/ plan'.creates[s] = Creates(Listed, sess.maps, s)
<1>1. ASSUME EndRun PROVE P
  BY <1>1 DEF EndRun, NoTree, EmptyPlan
<1>2. ASSUME UNCHANGED <<tree, plan>> PROVE P
  BY <1>2
<1>3. CASE ReturnUnexecuted \/ BuildFails \/ Crash \/ Finish
  BY <1>1, <1>3 DEF ReturnUnexecuted, BuildFails, Crash, Rollback, Finish
<1>4. CASE (\E md \in Modes : Start(md)) \/ Proceed \/ Users \/ UNCHANGED vars
           \/ (\E s \in Sides : FetchMerges(s))
           \/ (\E op \in plan.merges : MergeWriteA(op)) \/ (\E ids \in matched : MatchWriteA(ids))
  BY <1>2, <1>4 DEF Start, Proceed, Users, UserCreate, UserEdit, UserDelete, UserMayAct, vars,
     runVars, workVars, FetchMerges, MergeWriteA, MatchWriteA
<1>5. ASSUME NEW s \in Sides, SkipContainer(s) \/ ReadState(s) \/ List(s) PROVE P
  <2>1. CASE SkipContainer(s)
    BY <2>1 DEF SkipContainer, TypeOK, Tree
  <2>2. CASE ReadState(s)
    BY <2>2 DEF ReadState, TypeOK, Tree
  <2>3. CASE List(s)
    BY <2>3 DEF List, TypeOK, Tree
  <2> QED
    BY <1>5, <2>1, <2>2, <2>3
<1>6. CASE Compare
  <2>1. \A s \in Sides : tree'[s].leaves = {}
    BY <1>6 DEF Compare, TypeOK, Tree
  <2>2. CASE UNCHANGED plan
    BY <2>1, <2>2
  <2>3. CASE plan' = Plan(Listed, sess.maps)
    <3>1. PICK L : L = Listed
      OBVIOUS
    <3>2. \A s \in Sides : plan'.creates[s] = Creates(L, sess.maps, s)
      BY <2>3, <3>1 DEF Plan
    <3> QED
      BY <2>1, <3>1, <3>2
  <2> QED
    BY <1>6, <2>2, <2>3 DEF Compare
<1>7. ASSUME NEW op, MergeDone(op), UNCHANGED tree PROVE P
  BY <1>7 DEF MergeDone, TypeOK, PlanType
<1>8. CASE FetchMergesFails \/ (\E op \in plan.merges : MergeSkipped(op)) \/ MergeWriteB
  BY <1>7, <1>8 DEF FetchMergesFails, MergeSkipped, MergeWriteB, TypeOK, PlanType
<1>9. ASSUME NEW s \in Sides, FetchSources(s) \/ FetchSourcesFails(s) PROVE P
  <2>1. UNCHANGED tree /\ (UNCHANGED plan \/ \E F : SourcesRead(F))
    BY <1>9 DEF FetchSources, FetchSourcesFails
  <2> QED
    BY <2>1 DEF SourcesRead, TypeOK, PlanType
<1>10. CASE MatchWriteB
  <2>1. EndRun \/ Continue(WithoutPair(cur.ids))
    BY <1>10 DEF MatchWriteB, Record, Rollback
  <2> QED
    BY <1>1, <2>1 DEF Continue, WithoutPair, TypeOK, PlanType
<1>11. ASSUME NEW s \in Sides, NEW op \in plan.creates[s], Create(s, op) PROVE P
  <2>1. EndRun \/ Continue([plan EXCEPT !.creates[s] = @ \ {op}])
    BY <1>11 DEF Create, Record, Rollback
  <2> QED
    BY <1>1, <2>1 DEF Continue, TypeOK, PlanType
<1>12. ASSUME NEW s \in Sides, NEW id \in plan.deletes[s], Delete(s, id) PROVE P
  BY <1>12 DEF Delete, TypeOK, PlanType
<1> QED
  BY <1>3, <1>4, <1>5, <1>6, <1>8, <1>9, <1>10, <1>11, <1>12 DEF Next, Run, Failures

\* Items change only where the state string moves.
LEMMA StateStep ==
  ASSUME TypeOK, [Next]_vars
  PROVE  \A s \in Sides : \/ store'[s] = store[s] /\ rev'[s] = rev[s]
                         \/ rev'[s] = rev[s] + 1
<1>1. CASE UNCHANGED <<store, rev>>
  BY <1>1
<1>2. ASSUME NEW t \in Sides, NEW items, SetStore(t, items)
      PROVE  \A s \in Sides : \/ store'[s] = store[s] /\ rev'[s] = rev[s]
                             \/ rev'[s] = rev[s] + 1
  BY <1>2 DEF SetStore, TypeOK
<1>3. CASE (\E op \in plan.merges : MergeWriteA(op)) \/ MergeWriteB
           \/ (\E ids \in matched : MatchWriteA(ids)) \/ MatchWriteB
           \/ (\E s \in Sides : \E op \in plan.creates[s] : Create(s, op))
           \/ (\E s \in Sides : \E id \in plan.deletes[s] : Delete(s, id))
           \/ Users
  <2>1. (\E t \in Sides : \E items : SetStore(t, items)) \/ UNCHANGED <<store, rev>>
    BY <1>3, SidesFacts DEF MergeWriteA, MergeWriteB, MatchWriteA, MatchWriteB, Create, Delete,
       Users, UserCreate, UserEdit, UserDelete
  <2> QED
    BY <1>1, <1>2, <2>1
<1>4. ASSUME \/ (\E md \in Modes : Start(md)) \/ ReturnUnexecuted \/ BuildFails \/ Crash
             \/ FetchMergesFails \/ Compare \/ Proceed \/ Finish \/ UNCHANGED vars
             \/ \E s \in Sides : \/ SkipContainer(s) \/ ReadState(s) \/ List(s)
                                 \/ FetchMerges(s) \/ FetchSources(s) \/ FetchSourcesFails(s)
             \/ \E op \in plan.merges : MergeSkipped(op)
      PROVE  UNCHANGED <<store, rev>>
  BY <1>4 DEF Start, ReturnUnexecuted, BuildFails, Crash, FetchMergesFails, Compare, Proceed,
              Finish, vars, SkipContainer, ReadState, List, FetchMerges, FetchSources,
              FetchSourcesFails, MergeSkipped, serverVars
<1> QED
  BY <1>1, <1>3, <1>4 DEF Next, Run, Failures

\* A step's hash is one there was or that of its listings, and a merge keeps the
\* fingerprint of the write to A.
LEMMA RecordsStep ==
  ASSUME TypeOK, [Next]_vars
  PROVE  /\ \A d \in {db', sess'} : d.merkle \in {db.merkle, sess.merkle, Combine(Listed, Carried)}
         /\ \/ cur' \in {cur, NoCurrent}
            \/ \E x \in fetched["a"], v \in Values : \E w \in Pushes("a", x, v) :
                 store'["a"] = w.items /\ cur'.fp = w.fp
<1> DEFINE H == \A d \in {db', sess'} : d.merkle \in {db.merkle, sess.merkle, Combine(Listed, Carried)}
           C == \/ cur' \in {cur, NoCurrent}
                \/ \E x \in fetched["a"], v \in Values : \E w \in Pushes("a", x, v) :
                     store'["a"] = w.items /\ cur'.fp = w.fp
<1>1. CASE UNCHANGED <<db, sess, cur>>
  BY <1>1
<1>2. CASE ReturnUnexecuted \/ BuildFails \/ Crash
  BY <1>2 DEF ReturnUnexecuted, BuildFails, Crash, Rollback, EndRun
<1>3. CASE Finish
  BY <1>3 DEF Finish, EndRun, TypeOK, Database
<1>4. CASE Compare
  <2>1. PICK N, K : N = MappingsAfter(Listed, sess.maps) /\ K = Combine(Listed, Carried)
    OBVIOUS
  <2>2. UNCHANGED sess \/ sess' = [sess EXCEPT !.maps = N, !.merkle = K]
    BY <1>4, <2>1 DEF Compare
  <2>3. sess'.merkle \in {sess.merkle, K}
    BY <2>2 DEF TypeOK, Database
  <2> QED
    BY <1>4, <2>1, <2>3 DEF Compare
<1>5. CASE MergeWriteB
  <2>1. sess'.merkle = sess.merkle
    BY <1>5 DEF MergeWriteB, TypeOK, Database
  <2> QED
    BY <1>5, <2>1 DEF MergeWriteB
<1>6. ASSUME NEW op \in plan.merges, MergeWriteA(op) PROVE H /\ C
  <2>1. PICK x \in fetched["a"], y \in fetched["b"], m \in sess.maps :
          \E v \in MergeResults(x, y, m.snap) : \E w \in Pushes("a", x, v) :
            /\ SetStore("a", w.items)
            /\ cur' = [ids |-> op, mkey |-> m.mkey, val |-> v, fp |-> w.fp, ok |-> w.ok]
    BY <1>6 DEF MergeWriteA
  <2>2. PICK v \in MergeResults(x, y, m.snap) : \E w \in Pushes("a", x, v) :
          SetStore("a", w.items) /\ cur'.fp = w.fp
    BY <2>1
  <2>3. PICK w \in Pushes("a", x, v) : SetStore("a", w.items) /\ cur'.fp = w.fp
    BY <2>2
  <2>4. v \in Values
    BY MergeResultsTyped, SidesFacts DEF TypeOK
  <2>5. store'["a"] = w.items
    BY <2>3, SetStoreServers, SidesFacts
  <2> QED
    BY <1>6, <2>3, <2>4, <2>5 DEF MergeWriteA
<1>7. ASSUME NEW ids \in matched, MatchWriteA(ids) PROVE H /\ C
  <2>1. PICK x \in fetched["a"], y \in fetched["b"],
            opA \in plan.creates["a"], opB \in plan.creates["b"] :
          \E v \in MergeResults(x, y, NoSnap) : \E w \in Pushes("a", x, v) :
            /\ SetStore("a", w.items)
            /\ cur' = [ids |-> ids, mkey |-> MappingKey(opA.key, opB.key, ids),
                       val |-> v, fp |-> w.fp, ok |-> w.ok]
    BY <1>7 DEF MatchWriteA
  <2>2. PICK v \in MergeResults(x, y, NoSnap) : \E w \in Pushes("a", x, v) :
          SetStore("a", w.items) /\ cur'.fp = w.fp
    BY <2>1
  <2>3. PICK w \in Pushes("a", x, v) : SetStore("a", w.items) /\ cur'.fp = w.fp
    BY <2>2
  <2>4. v \in Values
    BY MergeResultsTyped, SidesFacts DEF TypeOK
  <2>5. store'["a"] = w.items
    BY <2>3, SetStoreServers, SidesFacts
  <2> QED
    BY <1>7, <2>3, <2>4, <2>5 DEF MatchWriteA
<1>8. ASSUME NEW m, NEW q, Record(m, q) PROVE H /\ C
  <2>1. CASE Rollback
    BY <2>1 DEF Rollback, EndRun
  <2>2. CASE sess' = [sess EXCEPT !.maps = @ \cup {m}] /\ Continue(q) /\ UNCHANGED db
    BY <2>2 DEF Continue, TypeOK, Database
  <2> QED
    BY <1>8, <2>1, <2>2 DEF Record
<1>9. CASE MatchWriteB
  <2>1. \E m, q : Record(m, q)
    BY <1>9 DEF MatchWriteB
  <2> QED
    BY <1>8, <2>1
<1>10. ASSUME NEW s \in Sides, NEW op \in plan.creates[s], Create(s, op) PROVE H /\ C
  <2>1. \E m, q : Record(m, q) \/ (Continue(q) /\ UNCHANGED <<db, sess>>)
    BY <1>10 DEF Create
  <2> QED
    BY <1>8, <2>1 DEF Continue
<1>11. ASSUME \/ (\E md \in Modes : Start(md)) \/ FetchMergesFails \/ Proceed \/ Users
              \/ UNCHANGED vars
              \/ \E s \in Sides : \/ SkipContainer(s) \/ ReadState(s) \/ List(s)
                                  \/ FetchMerges(s) \/ FetchSources(s) \/ FetchSourcesFails(s)
                                  \/ \E id \in plan.deletes[s] : Delete(s, id)
              \/ \E op \in plan.merges : MergeSkipped(op)
       PROVE  UNCHANGED <<db, sess, cur>>
  BY <1>11 DEF Start, FetchMergesFails, Proceed, Users, UserCreate, UserEdit, UserDelete,
               UserMayAct, vars, runVars, workVars, SkipContainer, ReadState, List, FetchMerges,
               FetchSources, FetchSourcesFails, Delete, MergeSkipped
<1> QED
  BY <1>1, <1>2, <1>3, <1>4, <1>5, <1>6, <1>7, <1>9, <1>10, <1>11 DEF Next, Run, Failures

\* After a push the caller holds the fingerprint it had or that of an item.
LEMMA PushedFingerprint ==
  ASSUME NEW s \in Sides, NEW i, NEW v, NEW w \in Pushes(s, i, v)
  PROVE  w.fp = i.ver \/ \E x \in Target(s, i) : /\ w.fp = x.ver + 1
                                             /\ w.items = Updated(s, i, v)
<1>1. CASE w \in {[items |-> store[s], ok |-> TRUE, fp |-> i.ver, cost |-> 0]}
  BY <1>1
<1>2. CASE w \in Updates(s, i, v)
  BY <1>2 DEF Updates
<1> QED
  BY <1>1, <1>2 DEF Pushes

LEMMA PushCovered ==
  ASSUME TypeOK, TypeOK', NEW s \in Sides, NEW i \in Item, NEW v, NEW w \in Pushes(s, i, v),
         store'[s] = w.items, i.ver <= rev'[s], \A x \in store'[s] : x.ver <= rev'[s]
  PROVE  w.fp <= rev'[s]
<1> SUFFICES ASSUME NEW x \in Target(s, i), w.fp = x.ver + 1, w.items = Updated(s, i, v)
             PROVE  w.fp <= rev'[s]
  BY PushedFingerprint
<1>1. x \in Item
  BY TargetTyped
<1>2. EditedItem(x, v) \in store'[s]
  BY DEF Updated, EditedItem
<1> QED
  BY <1>1, <1>2, EditedItemFacts

\* No step gives out a fingerprint beyond the state string.
LEMMA CoveredStep ==
  ASSUME TypeInv, KeyInv, Covered, [Next]_vars
  PROVE  Covered'
<1>1. TypeOK /\ TypeOK' /\ StoresFresh /\ ServersStep
  BY TypeInvStep, ServersStepHolds DEF TypeInv, KeyInv
<1>2. ASSUME NEW s \in Sides PROVE rev'[s] \in Nat /\ rev[s] \in Nat /\ rev[s] <= rev'[s]
  BY <1>1, StateStep DEF TypeOK
<1>3. ASSUME NEW s \in Sides, NEW x \in store'[s] PROVE x.ver <= rev'[s]
  <2>1. \A y \in store[s] : y.ver \in Nat /\ y.ver <= rev[s]
    BY <1>1 DEF Covered, TypeOK, Item
  <2>2. CASE x \in store[s]
    BY <1>1, <1>2, <2>1, <2>2
  <2>3. CASE x \notin store[s]
    <3>1. rev'[s] = rev[s] + 1
      BY <1>1, <2>3, StateStep
    <3>2. CASE Edited(s)
      <4>1. PICK y \in store[s], v \in Values :
              store'[s] = (store[s] \ {y}) \cup {EditedItem(y, v)}
        BY <3>2 DEF Edited
      <4>2. x = EditedItem(y, v) /\ x.ver = y.ver + 1
        BY <1>1, <2>3, <4>1, EditedItemFacts DEF TypeOK
      <4> QED
        BY <1>2, <2>1, <3>1, <4>2
    <3>3. CASE Added(s)
      <4>1. x.ver = 1
        BY <2>3, <3>3 DEF Added, NewItem
      <4> QED
        BY <1>2, <3>1, <4>1 DEF Covered
    <3>4. CASE \E id : Restored(s, id)
      <4>1. PICK f \in fetched[s], v \in Values :
              store'[s] = store[s] \cup {RestoredItem(s, f, v)}
        BY <3>4 DEF Restored
      <4>2. x = RestoredItem(s, f, v) /\ x.ver = rev[s] + 1
        BY <1>1, <2>3, <4>1, RestoredItemFacts DEF TypeOK
      <4> QED
        BY <1>2, <3>1, <4>2
    <3> QED
      BY <1>1, <2>3, <3>2, <3>3, <3>4 DEF ServersStep, Written, Kept, Removed
  <2> QED
    BY <2>2, <2>3
<1>4. ASSUME NEW s \in Sides, NEW x \in fetched[s] \cup store[s] PROVE x.ver <= rev'[s] /\ x.ver \in Nat
  <2>1. x.ver \in Nat /\ x.ver <= rev[s]
    BY <1>1 DEF Covered, TypeOK, Item
  <2> QED
    BY <1>2, <2>1
<1>5. ASSUME NEW s \in Sides, NEW x \in fetched'[s] PROVE x.ver <= rev'[s]
  BY <1>1, <1>4, FetchedFromStore
<1>6. ASSUME NEW s \in Sides, NEW l \in tree[s].leaves PROVE l.fp <= rev'[s]
  <2>1. l.fp \in Nat /\ l.fp <= rev[s]
    BY <1>1 DEF Covered, TypeOK, Tree, Leaf
  <2> QED
    BY <1>2, <2>1
<1>7. ASSUME NEW s \in Sides, NEW l \in tree'[s].leaves PROVE l.fp <= rev'[s]
  <2>1. CASE tree'[s].leaves \subseteq tree[s].leaves
    BY <1>6, <2>1
  <2>2. CASE tree'[s].leaves = {LeafOf(s, i) : i \in store[s]}
    BY <1>4, <2>2 DEF LeafOf
  <2> QED
    BY <1>1, <2>1, <2>2, LeavesAndCreates
<1>8. ASSUME NEW s \in Sides, NEW d \in {db', sess'}, NEW h \in d.merkle.of[s] PROVE h[2] <= rev'[s]
  <2>1. ASSUME NEW m \in {db.merkle, sess.merkle}, h \in m.of[s] PROVE h[2] <= rev'[s]
    <3>1. h[2] \in Nat /\ h[2] <= rev[s]
      BY <1>1, <2>1 DEF Covered, TypeOK, Database, Merkle
    <3> QED
      BY <1>2, <3>1
  <2>2. CASE d.merkle = Combine(Listed, Carried)
    <3>1. h \in Digest(Listed, s)
      BY <1>8, <2>2 DEF Combine, Mixed
    <3>2. PICK l \in tree[s].leaves : h = <<l.id, l.fp>>
      BY <3>1 DEF Digest, Listed
    <3> QED
      BY <1>6, <3>2
  <2> QED
    BY <1>1, <1>8, <2>1, <2>2, RecordsStep
<1>9. cur.fp <= rev'["a"]
  <2>1. cur.fp \in Nat /\ cur.fp <= rev["a"]
    BY <1>1 DEF Covered, TypeOK, Current
  <2> QED
    BY <1>2, <2>1, SidesFacts
<1>10. cur'.fp <= rev'["a"]
  <2>1. CASE cur' \in {cur, NoCurrent}
    <3>1. NoCurrent.fp = 0
      BY DEF NoCurrent
    <3> QED
      BY <1>2, <1>9, <2>1, <3>1, SidesFacts
  <2>2. CASE \E x \in fetched["a"], v \in Values : \E w \in Pushes("a", x, v) :
               store'["a"] = w.items /\ cur'.fp = w.fp
    <3>1. PICK x \in fetched["a"], v \in Values : \E w \in Pushes("a", x, v) :
                 store'["a"] = w.items /\ cur'.fp = w.fp
      BY <2>2
    <3>2. x \in Item /\ x.ver <= rev'["a"]
      BY <1>1, <1>4, SidesFacts DEF TypeOK
    <3> QED
      BY <1>1, <1>3, <3>1, <3>2, PushCovered, SidesFacts
  <2> QED
    BY <1>1, <2>1, <2>2, RecordsStep
<1>11. ASSUME NEW s \in Sides, NEW m \in db.maps \cup sess.maps PROVE m.fp[s] <= rev'[s]
  <2>1. m.fp[s] \in Nat /\ m.fp[s] <= rev[s]
    BY <1>1 DEF Covered, TypeOK, Database, Mapping
  <2> QED
    BY <1>2, <2>1
<1>12. ASSUME NEW s \in Sides, NEW m \in db'.maps \cup sess'.maps PROVE m.fp[s] <= rev'[s]
  <2>1. CASE m \in db.maps \cup sess.maps
    BY <1>11, <2>1
  <2>2. CASE Quiet
    BY <1>11, <2>2 DEF Quiet
  <2>3. CASE Compare
    <3>1. m \in db.maps \cup sess.maps \/ m \in MappingsAfter(Listed, sess.maps)
      BY <1>1, <2>3, CompareOutcome
    <3>2. PICK L : L = Listed
      OBVIOUS
    <3>3. /\ L \in [Sides -> SUBSET Leaf] /\ \A r \in Sides : L[r] = tree[r].leaves
          /\ sess.maps \in SUBSET Mapping
      BY <1>1, <3>2 DEF Listed, TypeOK, Tree, Database
    <3>4. ASSUME NEW o \in sess.maps, m = Healed(L, sess.maps, o) PROVE m.fp[s] <= rev'[s]
      <4>1. m.fp = o.fp
        BY <3>3, <3>4 DEF Healed, Mapping
      <4> QED
        BY <1>11, <4>1
    <3>5. ASSUME NEW k \in OnBoth(L, sess.maps), m = NewPair(L, k) PROVE m.fp[s] <= rev'[s]
      <4>1. m.fp[s] = At(L, s, k).fp
        BY <3>5 DEF NewPair
      <4>2. At(L, s, k) \in tree[s].leaves
        BY <3>3, OnBothLeaves
      <4> QED
        BY <1>6, <4>1, <4>2
    <3> QED
      BY <1>11, <3>1, <3>2, <3>4, <3>5 DEF MappingsAfter, NewPairs
  <2>4. CASE (\E op \in plan.merges : MergeWriteA(op)) \/ \E ids \in matched : MatchWriteA(ids)
    BY <1>11, <2>4 DEF MergeWriteA, MatchWriteA
  <2>5. CASE MergeWriteB
    <3>1. PICK y \in fetched["b"] : \E w \in Pushes("b", y, cur.val) :
            SetStore("b", w.items) /\ sess' = [sess EXCEPT !.maps = RecordMerge(@, w.fp, w.ok)]
      BY <2>5 DEF MergeWriteB
    <3>2. PICK w \in Pushes("b", y, cur.val) :
            SetStore("b", w.items) /\ sess' = [sess EXCEPT !.maps = RecordMerge(@, w.fp, w.ok)]
      BY <3>1
    <3>3. cur.val \in Values /\ y \in Item /\ y.ver <= rev'["b"]
      BY <1>1, <1>4, <2>5, SidesFacts DEF TypeInv, CurrentIsSet, MergeWriteB, TypeOK
    <3>4. w.fp \in Nat
      BY <1>1, <3>3, PushesTyped, SidesFacts
    <3>5. store'["b"] = w.items
      BY <1>1, <3>2, SetStoreServers, SidesFacts
    <3>6. w.fp <= rev'["b"]
      BY <1>1, <1>3, <3>3, <3>5, PushCovered, SidesFacts
    <3>7. sess'.maps = RecordMerge(sess.maps, w.fp, w.ok) /\ UNCHANGED db
      BY <1>1, <2>5, <3>2 DEF MergeWriteB, TypeOK, Database
    <3>8. CASE m \in RecordMerge(sess.maps, w.fp, w.ok)
      <4>1. PICK o \in sess.maps :
              m = o \/ m.fp = [r \in Sides |-> IF r = "a" THEN cur.fp ELSE w.fp]
        BY <1>1, <3>4, <3>8, RecordedMerge
      <4> QED
        BY <1>9, <1>11, <3>6, <4>1 DEF Sides
    <3> QED
      BY <1>11, <3>7, <3>8
  <2>6. CASE MatchWriteB
    <3>1. PICK y \in fetched["b"] : \E w \in Pushes("b", y, cur.val) : \E n :
            /\ SetStore("b", w.items)
            /\ UNCHANGED db
            /\ n = [mkey |-> cur.mkey, id |-> cur.ids,
                    fp   |-> [r \in Sides |-> IF r = "a" THEN cur.fp ELSE w.fp],
                    snap |-> cur.val]
            /\ sess'.maps = sess.maps \cup {n}
      BY <1>1, <2>6, MatchRecords
    <3>2. PICK w \in Pushes("b", y, cur.val) : \E n :
            /\ SetStore("b", w.items)
            /\ n.fp = [r \in Sides |-> IF r = "a" THEN cur.fp ELSE w.fp]
            /\ sess'.maps = sess.maps \cup {n}
      BY <3>1
    <3>3. y \in Item /\ y.ver <= rev'["b"]
      BY <1>1, <1>4, SidesFacts DEF TypeOK
    <3>4. store'["b"] = w.items
      BY <1>1, <3>2, SetStoreServers, SidesFacts
    <3>5. w.fp <= rev'["b"]
      BY <1>1, <1>3, <3>3, <3>4, PushCovered, SidesFacts
    <3>6. m \in db.maps \cup sess.maps
          \/ m.fp = [r \in Sides |-> IF r = "a" THEN cur.fp ELSE w.fp]
      BY <3>1, <3>2
    <3> QED
      BY <1>9, <1>11, <3>5, <3>6 DEF Sides
  <2>7. ASSUME NEW r \in Sides, NEW op \in plan.creates[r], Create(r, op)
        PROVE  m.fp[s] <= rev'[s]
    <3>1. PICK x \in fetched[r] :
            m \in db.maps \cup sess.maps \/ m = CreatedMapping(r, op, x)
      BY <1>1, <2>7, CreateRecords
    <3>2. CASE m = CreatedMapping(r, op, x)
      <4>1. m.fp[s] = IF s = r THEN x.ver ELSE 1
        BY <3>2 DEF CreatedMapping
      <4>2. rev[s] >= 1
        BY DEF Covered
      <4> QED
        BY <1>2, <1>4, <4>1, <4>2
    <3> QED
      BY <1>11, <3>1, <3>2
  <2> QED
    BY <1>1, <2>2, <2>3, <2>4, <2>5, <2>6, <2>7, QuietSteps
<1>13. \A s \in Sides : rev'[s] >= 1
  BY <1>2 DEF Covered
<1> QED
  BY <1>3, <1>5, <1>7, <1>8, <1>10, <1>12, <1>13 DEF Covered

-------------------------------------------------------------------------------
(* What is recorded is true. *)

\* Fetched items stay true, and new ones are.
LEMMA FetchedStays ==
  ASSUME TypeOK, TypeOK', KeyInv, Covered, FetchedTrue, ServersStep,
         \A s \in Sides : fetched'[s] \subseteq fetched[s] \/ fetched'[s] \subseteq store[s]
  PROVE  FetchedTrue'
<1> SUFFICES ASSUME NEW s \in Sides
             PROVE  /\ Fresh(fetched'[s], nextId'[s])
                    /\ \A x \in fetched'[s] : Seen(store'[s], x.id, x.ver, x.val)
  BY DEF FetchedTrue
<1>1. StoresFresh /\ nextId[s] \in Nat /\ nextId'[s] \in Nat /\ nextId[s] <= nextId'[s]
  BY ServersStayFresh DEF KeyInv, TypeOK
<1>2. \A x \in store[s] \cup fetched[s] : x.id \in Nat /\ x.ver \in Nat
  BY DEF TypeOK, Item
<1>3. \A x \in store[s] : Seen(store[s], x.id, x.ver, x.val)
  BY <1>1, ItemsSeen
<1>4. PICK S \in {store[s], fetched[s]} : fetched'[s] \subseteq S
  OBVIOUS
<1>5. Fresh(S, nextId[s]) /\ \A x \in S : Seen(store[s], x.id, x.ver, x.val)
  BY <1>1, <1>3, <1>4 DEF FetchedTrue, StoresFresh
<1>6. Fresh(fetched'[s], nextId'[s])
  BY <1>1, <1>2, <1>4, <1>5, FreshStays
<1>7. ASSUME NEW x \in fetched'[s] PROVE Seen(store'[s], x.id, x.ver, x.val)
  <2>1. x.id \in Nat /\ x.ver \in Nat /\ x.id < nextId[s] /\ Seen(store[s], x.id, x.ver, x.val)
    BY <1>2, <1>4, <1>5 DEF Fresh
  <2>2. x.ver <= rev[s]
    BY <1>4 DEF Covered
  <2> QED
    BY <1>1, <2>1, <2>2, SeenStays
<1> QED
  BY <1>6, <1>7

\* Mappings stay true.
LEMMA MapsStay ==
  ASSUME TypeOK, KeyInv, Covered, MapsTrue, ServersStep, NEW m \in db.maps \cup sess.maps,
         NEW s \in Sides, m.snap # NoSnap
  PROVE  Seen(store'[s], m.id[s], m.fp[s], m.snap)
<1>1. m.id[s] \in Nat /\ m.fp[s] \in Nat
  BY DEF TypeOK, Database, Mapping
<1>2. m.id[s] < nextId[s] /\ m.fp[s] <= rev[s] /\ StoresFresh
  BY DEF KeyInv, MapsKnown, KnownMapping, Covered
<1>3. Seen(store[s], m.id[s], m.fp[s], m.snap)
  BY DEF MapsTrue
<1> QED
  BY <1>1, <1>2, <1>3, SeenStays

\* Steps that record and merge nothing.
LEMMA QuietTruth ==
  ASSUME TypeOK, TypeOK', KeyInv, Covered, TruthInv, ServersStep, Quiet
  PROVE  TruthInv'
<1>1. FetchedTrue'
  BY FetchedStays DEF Quiet, TruthInv
<1>2. MapsTrue'
  <2>1. db'.maps \cup sess'.maps \subseteq db.maps \cup sess.maps
    BY DEF Quiet
  <2> QED
    BY <2>1, MapsStay DEF MapsTrue, TruthInv
<1>3. MergesMapped'
  BY DEF Quiet, TruthInv, MergesMapped
<1>4. CASE phase' \notin {"merge_b", "match_b"}
  <2>1. CurMerged' /\ CurTrue'
    BY <1>4 DEF CurMerged, CurTrue
  <2> QED
    BY <1>1, <1>2, <1>3, <2>1 DEF TruthInv
<1>5. CASE UNCHANGED <<phase, cur, fetched, sess>>
  <2>1. CurMerged'
    BY <1>5 DEF TruthInv, CurMerged, MergeResults
  <2>2. CurTrue'
    <3> SUFFICES ASSUME (phase = "merge_b" /\ cur.ok) \/ phase = "match_b"
                 PROVE  cur.ids["a"] < nextId'["a"]
                        /\ Seen(store'["a"], cur.ids["a"], cur.fp, cur.val)
      BY <1>5 DEF CurTrue
    <3>1. cur.ids["a"] < nextId["a"] /\ Seen(store["a"], cur.ids["a"], cur.fp, cur.val)
      BY DEF TruthInv, CurTrue
    <3>2. cur.ids["a"] \in Nat /\ cur.fp \in Nat /\ cur.fp <= rev["a"]
      BY SidesFacts DEF TypeOK, Current, IdPair, Covered
    <3>3. /\ StoresFresh /\ nextId["a"] \in Nat /\ nextId'["a"] \in Nat
          /\ nextId["a"] <= nextId'["a"]
      BY ServersStayFresh, SidesFacts DEF KeyInv, TypeOK
    <3> QED
      BY <3>1, <3>2, <3>3, SeenStays, SidesFacts
  <2> QED
    BY <1>1, <1>2, <1>3, <2>1, <2>2 DEF TruthInv
<1> QED
  BY <1>4, <1>5 DEF Quiet

\* A comparison keeps what mappings say, and what it adds says nothing.
LEMMA CompareTruth ==
  ASSUME TypeOK, TypeOK', KeyInv, Covered, Sound, TruthInv, ServersStep, Compare
  PROVE  TruthInv'
<1>1. /\ UNCHANGED <<store, nextId, db, fetched>>
      /\ phase = "compare" /\ phase' = "decide"
      /\ \/ sess' = sess /\ plan'.merges = {}
         \/ /\ sess'.maps = MappingsAfter(Listed, sess.maps)
            /\ plan'.merges = Merges(Listed, sess.maps)
  BY CompareOutcome
<1>2. FetchedTrue'
  BY <1>1, FetchedStays DEF TruthInv
<1>3. sess.maps \in SUBSET Mapping
  BY DEF TypeOK, Database
<1>4. \A m \in sess'.maps : m \in sess.maps \/ m.snap = NoSnap
  BY <1>1, <1>3, MapsCompared DEF Sound
<1>5. MapsTrue'
  BY <1>1, <1>4, MapsStay DEF MapsTrue, TruthInv
<1>6. MergesMapped'
  BY <1>1, <1>3, MapsCompared DEF MergesMapped
<1>7. CurMerged' /\ CurTrue'
  BY <1>1 DEF CurMerged, CurTrue
<1> QED
  BY <1>2, <1>5, <1>6, <1>7 DEF TruthInv

\* The write to A of a merge.
LEMMA MergeWriteATruth ==
  ASSUME TypeOK, TypeOK', KeyInv, Covered, Sound, TruthInv, ServersStep,
         NEW op \in plan.merges, MergeWriteA(op)
  PROVE  TruthInv'
<1>1. UNCHANGED <<nextId, db, sess, plan, fetched>> /\ phase' = "merge_b"
  BY DEF MergeWriteA
<1>2. PICK x \in fetched["a"], y \in fetched["b"], m \in sess.maps :
        /\ x.id = op["a"] /\ y.id = op["b"] /\ m.id["a"] = op["a"]
        /\ \E v \in MergeResults(x, y, m.snap) : \E w \in Pushes("a", x, v) :
             /\ SetStore("a", w.items)
             /\ cur' = [ids |-> op, mkey |-> m.mkey, val |-> v, fp |-> w.fp, ok |-> w.ok]
  BY DEF MergeWriteA
<1>3. PICK v \in MergeResults(x, y, m.snap) : \E w \in Pushes("a", x, v) :
        /\ SetStore("a", w.items)
        /\ cur' = [ids |-> op, mkey |-> m.mkey, val |-> v, fp |-> w.fp, ok |-> w.ok]
  BY <1>2
<1>4. PICK w \in Pushes("a", x, v) :
        /\ SetStore("a", w.items)
        /\ cur' = [ids |-> op, mkey |-> m.mkey, val |-> v, fp |-> w.fp, ok |-> w.ok]
  BY <1>3
<1>5. /\ cur'.ids = op /\ cur'.mkey = m.mkey /\ cur'.val = v /\ cur'.fp = w.fp
      /\ cur'.ok = w.ok
  BY <1>4
<1>6. x \in Item /\ y \in Item /\ v \in Values
  BY MergeResultsTyped, SidesFacts DEF TypeOK
<1>7. m.id = op
  <2>1. PICK n \in sess.maps : n.id = op
    BY DEF TruthInv, MergesMapped
  <2> QED
    BY <1>2, <2>1, SidesFacts DEF Sound, Apart
<1>8. CurMerged'
  BY <1>1, <1>2, <1>5, <1>7 DEF CurMerged, MergeResults
<1>9. CurTrue'
  <2>1. Seen(store["a"], x.id, x.ver, x.val) /\ x.id < nextId["a"] /\ StoresFresh
    BY SidesFacts DEF TruthInv, FetchedTrue, Fresh, KeyInv
  <2>2. w.ok => Seen(w.items, x.id, w.fp, v)
    BY <1>6, <2>1, PushSeen, SidesFacts
  <2>3. store'["a"] = w.items
    BY <1>4, SetStoreServers, SidesFacts
  <2> QED
    BY <1>1, <1>2, <1>5, <2>1, <2>2, <2>3 DEF CurTrue
<1>10. FetchedTrue' /\ MergesMapped'
  BY <1>1, FetchedStays DEF TruthInv, MergesMapped
<1>11. MapsTrue'
  BY <1>1, MapsStay DEF MapsTrue, TruthInv
<1> QED
  BY <1>8, <1>9, <1>10, <1>11 DEF TruthInv

\* A merge that is recorded has been written to both sides.
LEMMA MergeWriteBTruth ==
  ASSUME TypeInv, TypeOK', KeyInv, Covered, MapsUnique, TruthInv, ServersStep, MergeWriteB
  PROVE  TruthInv'
<1>1. PICK y \in fetched["b"] : \E w \in Pushes("b", y, cur.val) :
        /\ y.id = cur.ids["b"]
        /\ SetStore("b", w.items)
        /\ sess' = [sess EXCEPT !.maps = RecordMerge(@, w.fp, w.ok)]
  BY DEF MergeWriteB
<1>2. PICK w \in Pushes("b", y, cur.val) :
        /\ y.id = cur.ids["b"]
        /\ SetStore("b", w.items)
        /\ sess' = [sess EXCEPT !.maps = RecordMerge(@, w.fp, w.ok)]
  BY <1>1
<1>3. TypeOK /\ phase = "merge_b" /\ MergeDone(cur.ids) /\ UNCHANGED db
  BY DEF TypeInv, MergeWriteB
<1>4. /\ plan'.merges = plan.merges \ {cur.ids}
      /\ \A s \in Sides : fetched'[s] \subseteq fetched[s]
      /\ phase' \notin {"merge_b", "match_b"}
  BY <1>3, MergeDoneFewer
<1>5. y \in Item /\ cur.val \in Values
  BY <1>3, SidesFacts DEF TypeInv, CurrentIsSet, TypeOK
<1>6. w.fp \in Nat
  BY <1>3, <1>5, PushesTyped, SidesFacts
<1>7. sess'.maps = RecordMerge(sess.maps, w.fp, w.ok)
  BY <1>2, <1>3 DEF TypeOK, Database
<1>8. store'["a"] = store["a"] /\ store'["b"] = w.items
  BY <1>2, <1>3, SetStoreServers, SidesFacts
<1>9. FetchedTrue'
  BY <1>3, <1>4, FetchedStays DEF TruthInv
<1>10. MergesMapped'
  <2>1. \A o \in sess.maps : \E m \in RecordMerge(sess.maps, w.fp, w.ok) : m.id = o.id
    <3> SUFFICES ASSUME NEW o \in sess.maps
                 PROVE  \E m \in RecordMerge(sess.maps, w.fp, w.ok) : m.id = o.id
      OBVIOUS
    <3>1. [o EXCEPT !.fp = [s \in Sides |-> IF s = "a" THEN cur.fp ELSE w.fp],
                    !.snap = cur.val].id = o.id
      BY <1>3 DEF TypeOK, Database, Mapping
    <3> QED
      BY <3>1 DEF RecordMerge
  <2> QED
    BY <1>4, <1>7, <2>1 DEF TruthInv, MergesMapped
<1>11. PICK n \in sess.maps : n.id = cur.ids /\ n.mkey = cur.mkey
  BY <1>3 DEF TruthInv, CurMerged
<1>12. cur.ok /\ w.ok =>
         /\ Seen(store'["a"], n.id["a"], cur.fp, cur.val)
         /\ Seen(store'["b"], n.id["b"], w.fp, cur.val)
  <2>1. Seen(store["b"], y.id, y.ver, y.val) /\ StoresFresh
    BY SidesFacts DEF TruthInv, FetchedTrue, KeyInv
  <2>2. w.ok => Seen(w.items, y.id, w.fp, cur.val)
    BY <1>3, <1>5, <2>1, PushSeen, SidesFacts
  <2>3. cur.ok => Seen(store["a"], cur.ids["a"], cur.fp, cur.val)
    BY <1>3 DEF TruthInv, CurTrue
  <2> QED
    BY <1>2, <1>8, <1>11, <2>2, <2>3
<1>13. ASSUME NEW m \in sess'.maps, NEW s \in Sides, m.snap # NoSnap
       PROVE  Seen(store'[s], m.id[s], m.fp[s], m.snap)
  <2>1. PICK o \in sess.maps :
          /\ m.mkey = o.mkey /\ m.id = o.id
          /\ m = o \/ (/\ o.mkey = cur.mkey /\ cur.ok /\ w.ok
                       /\ m.fp = [r \in Sides |-> IF r = "a" THEN cur.fp ELSE w.fp]
                       /\ m.snap = cur.val)
    BY <1>3, <1>6, <1>7, RecordedMerge
  <2>2. CASE m = o
    BY <1>3, <1>13, <2>2, MapsStay DEF TruthInv
  <2>3. CASE /\ o.mkey = cur.mkey /\ cur.ok /\ w.ok
             /\ m.fp = [r \in Sides |-> IF r = "a" THEN cur.fp ELSE w.fp]
             /\ m.snap = cur.val
    <3>1. o = n
      BY <1>11, <2>3 DEF MapsUnique, Unique
    <3>2. m.fp["a"] = cur.fp /\ m.fp["b"] = w.fp
      BY <2>3, SidesFacts
    <3> QED
      BY <1>12, <2>1, <2>3, <3>1, <3>2 DEF Sides
  <2> QED
    BY <2>1, <2>2, <2>3
<1>14. MapsTrue'
  BY <1>3, <1>13, MapsStay DEF MapsTrue, TruthInv
<1>15. CurMerged' /\ CurTrue'
  BY <1>4 DEF CurMerged, CurTrue
<1> QED
  BY <1>9, <1>10, <1>14, <1>15 DEF TruthInv

\* The write to A of a matched pair.
LEMMA MatchWriteATruth ==
  ASSUME TypeOK, TypeOK', KeyInv, Covered, Sound, TruthInv, ServersStep,
         NEW ids \in matched, MatchWriteA(ids)
  PROVE  TruthInv'
<1>1. UNCHANGED <<nextId, db, sess, plan, fetched>> /\ phase' = "match_b"
  BY DEF MatchWriteA
<1>2. PICK x \in fetched["a"], y \in fetched["b"],
           opA \in plan.creates["a"], opB \in plan.creates["b"] :
        /\ x.id = ids["a"]
        /\ \E v \in MergeResults(x, y, NoSnap) : \E w \in Pushes("a", x, v) :
             /\ SetStore("a", w.items)
             /\ cur' = [ids |-> ids, mkey |-> MappingKey(opA.key, opB.key, ids),
                        val |-> v, fp |-> w.fp, ok |-> w.ok]
  BY DEF MatchWriteA
<1>3. PICK v \in MergeResults(x, y, NoSnap) : \E w \in Pushes("a", x, v) :
        /\ SetStore("a", w.items)
        /\ cur' = [ids |-> ids, mkey |-> MappingKey(opA.key, opB.key, ids),
                   val |-> v, fp |-> w.fp, ok |-> w.ok]
  BY <1>2
<1>4. PICK w \in Pushes("a", x, v) :
        /\ SetStore("a", w.items)
        /\ cur' = [ids |-> ids, mkey |-> MappingKey(opA.key, opB.key, ids),
                   val |-> v, fp |-> w.fp, ok |-> w.ok]
  BY <1>3
<1>5. cur'.ids = ids /\ cur'.val = v /\ cur'.fp = w.fp
  BY <1>4
<1>6. x \in Item /\ y \in Item /\ v \in Values
  BY MergeResultsTyped, SidesFacts DEF TypeOK
<1>7. CurTrue'
  <2>1. Seen(store["a"], x.id, x.ver, x.val) /\ x.id < nextId["a"] /\ StoresFresh
    BY SidesFacts DEF TruthInv, FetchedTrue, Fresh, KeyInv
  <2>2. Seen(w.items, x.id, w.fp, v)
    BY <1>6, <2>1, PushSeen, SidesFacts DEF Sound
  <2>3. store'["a"] = w.items
    BY <1>4, SetStoreServers, SidesFacts
  <2> QED
    BY <1>1, <1>2, <1>5, <2>1, <2>2, <2>3 DEF CurTrue
<1>8. FetchedTrue' /\ MergesMapped' /\ CurMerged'
  BY <1>1, FetchedStays DEF TruthInv, MergesMapped, CurMerged
<1>9. MapsTrue'
  BY <1>1, MapsStay DEF MapsTrue, TruthInv
<1> QED
  BY <1>7, <1>8, <1>9 DEF TruthInv

\* The mapping of a matched pair is recorded with what the writes left.
LEMMA MatchWriteBTruth ==
  ASSUME TypeInv, TypeOK', KeyInv, Covered, Sound, TruthInv, ServersStep, MatchWriteB
  PROVE  TruthInv'
<1>1. TypeOK
  BY DEF TypeInv
<1>2. PICK y \in fetched["b"] : \E w \in Pushes("b", y, cur.val) : \E m :
        /\ y.id = cur.ids["b"]
        /\ phase = "match_b" /\ phase' = "apply" /\ plan'.merges = plan.merges
        /\ UNCHANGED <<db, fetched, nextId>>
        /\ SetStore("b", w.items)
        /\ m = [mkey |-> cur.mkey, id |-> cur.ids,
                fp   |-> [s \in Sides |-> IF s = "a" THEN cur.fp ELSE w.fp],
                snap |-> cur.val]
        /\ m.mkey \notin MKeys(sess.maps)
        /\ sess'.maps = sess.maps \cup {m}
  BY <1>1, MatchRecords
<1>3. PICK w \in Pushes("b", y, cur.val) : \E m :
        /\ SetStore("b", w.items)
        /\ m = [mkey |-> cur.mkey, id |-> cur.ids,
                fp   |-> [s \in Sides |-> IF s = "a" THEN cur.fp ELSE w.fp],
                snap |-> cur.val]
        /\ sess'.maps = sess.maps \cup {m}
  BY <1>2
<1>4. PICK m :
        /\ m = [mkey |-> cur.mkey, id |-> cur.ids,
                fp   |-> [s \in Sides |-> IF s = "a" THEN cur.fp ELSE w.fp],
                snap |-> cur.val]
        /\ sess'.maps = sess.maps \cup {m}
  BY <1>3
<1>5. /\ m.id = cur.ids /\ m.fp["a"] = cur.fp /\ m.fp["b"] = w.fp /\ m.snap = cur.val
  BY <1>4, SidesFacts
<1>6. y \in Item /\ cur.val \in Values
  BY <1>1, <1>2, SidesFacts DEF TypeInv, CurrentIsSet, TypeOK
<1>7. store'["a"] = store["a"] /\ store'["b"] = w.items
  BY <1>1, <1>3, SetStoreServers, SidesFacts
<1>8. \A s \in Sides : Seen(store'[s], m.id[s], m.fp[s], m.snap)
  <2>1. Seen(store["b"], y.id, y.ver, y.val) /\ StoresFresh
    BY SidesFacts DEF TruthInv, FetchedTrue, KeyInv
  <2>2. Seen(w.items, y.id, w.fp, cur.val)
    BY <1>1, <1>2, <1>6, <2>1, PushSeen, SidesFacts DEF Sound
  <2>3. Seen(store["a"], cur.ids["a"], cur.fp, cur.val)
    BY <1>2 DEF TruthInv, CurTrue
  <2> QED
    BY <1>2, <1>5, <1>7, <2>2, <2>3 DEF Sides
<1>9. MapsTrue'
  BY <1>1, <1>2, <1>4, <1>8, MapsStay DEF MapsTrue, TruthInv
<1>10. FetchedTrue'
  BY <1>1, <1>2, FetchedStays DEF TruthInv
<1>11. MergesMapped' /\ CurMerged' /\ CurTrue'
  BY <1>2, <1>4 DEF TruthInv, MergesMapped, CurMerged, CurTrue
<1> QED
  BY <1>9, <1>10, <1>11 DEF TruthInv

\* The mapping of a created item is recorded with what was read and made.
LEMMA CreateTruth ==
  ASSUME TypeOK, TypeOK', KeyInv, Covered, TruthInv, ServersStep,
         NEW s \in Sides, NEW op \in plan.creates[s], Create(s, op)
  PROVE  TruthInv'
<1> DEFINE t == Other(s)
<1>1. PICK x \in fetched[s] :
        /\ x.id = op.id
        /\ phase' = "apply" /\ plan'.merges = plan.merges
        /\ UNCHANGED <<db, fetched>>
        /\ store'[s] = store[s]
        /\ \/ sess' = sess
           \/ /\ store'[t] = store[t] \cup {NewItem(t, x.key, x.val)}
              /\ CreatedMapping(s, op, x).mkey \notin MKeys(sess.maps)
              /\ sess'.maps = sess.maps \cup {CreatedMapping(s, op, x)}
  BY CreateRecords
<1>2. PICK m : m = CreatedMapping(s, op, x)
  OBVIOUS
<1>3. /\ t \in Sides /\ t # s /\ \A r \in Sides : r = s \/ r = t
      /\ nextId[t] \in Nat
  BY DEF Sides, Other, TypeOK
<1>4. /\ m.id[s] = x.id /\ m.fp[s] = x.ver /\ m.snap = x.val
      /\ m.id[t] = nextId[t] /\ m.fp[t] = 1
  BY <1>2, <1>3 DEF CreatedMapping
<1>5. ASSUME store'[t] = store[t] \cup {NewItem(t, x.key, x.val)}, NEW r \in Sides
      PROVE  Seen(store'[r], m.id[r], m.fp[r], m.snap)
  <2>1. Seen(store[s], x.id, x.ver, x.val)
    BY DEF TruthInv, FetchedTrue
  <2>2. \A z \in store[t] : z.id # nextId[t]
    BY <1>3 DEF KeyInv, StoresFresh, Fresh
  <2>3. NewItem(t, x.key, x.val).ver = 1 /\ NewItem(t, x.key, x.val).val = x.val
    BY DEF NewItem
  <2>4. Seen(store'[t], nextId[t], 1, x.val)
    BY <1>5, <2>2, <2>3 DEF Seen
  <2> QED
    BY <1>1, <1>3, <1>4, <2>1, <2>4
<1>6. MapsTrue'
  <2>1. \A o \in sess'.maps :
          o \in sess.maps \/ (o = m /\ store'[t] = store[t] \cup {NewItem(t, x.key, x.val)})
    BY <1>1, <1>2
  <2> QED
    BY <1>1, <1>5, <2>1, MapsStay DEF MapsTrue, TruthInv
<1>7. FetchedTrue'
  BY <1>1, FetchedStays DEF TruthInv
<1>8. MergesMapped' /\ CurMerged' /\ CurTrue'
  BY <1>1 DEF TruthInv, MergesMapped, CurMerged, CurTrue
<1> QED
  BY <1>6, <1>7, <1>8 DEF TruthInv

\* Every step keeps the invariant.
LEMMA TruthInvStep ==
  ASSUME TypeInv, KeyInv, Covered, MapsUnique, Sound, TruthInv, [Next]_vars
  PROVE  TruthInv'
<1>1. TypeOK /\ TypeOK' /\ ServersStep
  BY TypeInvStep, ServersStepHolds DEF TypeInv, KeyInv
<1> QED
  BY <1>1, QuietSteps, QuietTruth, CompareTruth, MergeWriteATruth, MergeWriteBTruth,
     MatchWriteATruth, MatchWriteBTruth, CreateTruth

-------------------------------------------------------------------------------
(* Why one item has one mapping: over DAV, as ids agree with keys. *)

\* Over DAV nothing is matched, and an id stands for one key.
LEMMA SoundDav ==
  ASSUME TypeOK, DavInv, MapsUnique
  PROVE  Sound
<1>1. Apart(sess.maps)
  <2> SUFFICES ASSUME NEW m \in sess.maps, NEW n \in sess.maps, NEW s \in Sides,
                      m.id[s] = n.id[s]
               PROVE  m = n
    BY DEF Apart
  <2>1. Ref(s, m.id[s], m.mkey) /\ Ref(s, m.id[s], n.mkey)
    BY DEF Ref, KeyRef, Maps
  <2>2. m.mkey = n.mkey
    BY <2>1 DEF DavInv, RefInv, RefsAgree
  <2> QED
    BY <2>2 DEF MapsUnique, Unique
<1>2. ASSUME NEW m \in sess.maps PROVE Healed(Listed, sess.maps, m) = m
  <2>1. PICK L : L = Listed
    OBVIOUS
  <2>2. L \in [Sides -> SUBSET Leaf] /\ \A s \in Sides : L[s] = tree[s].leaves
    BY <2>1 DEF Listed, TypeOK, Tree
  <2>3. CASE m.mkey \in OnBoth(L, sess.maps)
    <3>1. ASSUME NEW s \in Sides PROVE At(L, s, m.mkey).id = m.id[s]
      <4>1. At(L, s, m.mkey) \in L[s] /\ At(L, s, m.mkey).key = m.mkey
        BY <2>2, <2>3, OnBothLeaves
      <4>2. KeyRef(s, At(L, s, m.mkey).id, m.mkey) /\ KeyRef(s, m.id[s], m.mkey)
        BY <2>2, <4>1 DEF KeyRef, Has, Maps
      <4> QED
        BY <4>2 DEF DavInv, RefInv, RefsOne
    <3>2. m \in Mapping /\ m.id \in [Sides -> Nat]
      BY DEF TypeOK, Database, Mapping
    <3>3. [s \in Sides |-> At(L, s, m.mkey).id] = m.id
      BY <3>1, <3>2
    <3>4. [m EXCEPT !.id = m.id] = m
      BY <3>2 DEF Mapping
    <3> QED
      BY <2>1, <2>3, <3>3, <3>4 DEF Healed
  <2> QED
    BY <2>1, <2>3 DEF Healed
<1> QED
  BY <1>1, <1>2 DEF Sound, DavInv, NothingMatched

-------------------------------------------------------------------------------
(***************************************************************************)
(* And between contact adapters that make no identity keys, as every        *)
(* mapping has the legacy key of its ids.                                   *)
(***************************************************************************)

\* JMAP or Graph contacts on both sides.  Matched pairs are recorded even when a
\* write of theirs failed, so either there are none or no call fails.
Unkeyed ==
  /\ \A s \in Sides : Identifies[s] = "nothing"
  /\ MatchOn = {} \/ MaxFail = 0

NoLeafKeys == \A s \in Sides : \A l \in tree[s].leaves : l.key = NoKey

NoOpKeys == \A s \in Sides : \A op \in plan.creates[s] : op.key = NoKey

MapsLegacy == \A m \in db.maps \cup sess.maps : m.mkey \in LegacyKeys

MapsApart == Apart(db.maps) /\ Apart(sess.maps)

PairsSure ==
  /\ left.fail <= MaxFail
  /\ MatchOn = {} => matched = {} /\ phase # "match_b"

LegacyInv ==
  /\ NoLeafKeys
  /\ NoOpKeys
  /\ MapsLegacy
  /\ MapsApart
  /\ PairsSure

\* A comparison of leaves without keys finds nothing on both sides.
LEMMA NoKeysOnBoth ==
  ASSUME NEW L, NEW M, \A s \in Sides : \A l \in L[s] : l.key = NoKey
  PROVE  /\ OnBoth(L, M) = {}
         /\ MappingsAfter(L, M) \subseteq M
         /\ \A s \in Sides : \A op \in Creates(L, M, s) : op.key = NoKey
<1>1. \A s \in Sides : Keyed(L, s) = {}
  BY DEF Keyed
<1>2. OnBoth(L, M) = {}
  BY <1>1, SidesFacts DEF OnBoth, KeyedKeys
<1>3. NewPairs(L, M) = {} /\ \A m : Healed(L, M, m) = m
  BY <1>2 DEF NewPairs, Healed
<1>4. MappingsAfter(L, M) \subseteq M
  BY <1>3 DEF MappingsAfter
<1>5. \A s \in Sides : \A op \in Creates(L, M, s) : op.key = NoKey
  BY <1>1, CreatesOfLeaves
<1> QED
  BY <1>2, <1>4, <1>5

\* So an item has one mapping, and matched pairs are written without a failure.
LEMMA SoundUnkeyed ==
  ASSUME Unkeyed, TypeOK, KeyInv, LegacyInv
  PROVE  Sound
<1>1. \A m \in sess.maps : Healed(Listed, sess.maps, m) = m
  <2>1. \A s \in Sides : \A l \in Listed[s] : l.key = NoKey
    BY DEF LegacyInv, NoLeafKeys, Listed
  <2> QED
    BY <2>1, NoKeysOnBoth DEF Healed
<1>2. CreatesFree
  BY DEF KeyInv, CreatesUnmapped, LegacyInv, NoOpKeys, MapsLegacy, CreatesFree
<1>3. matched # {} \/ phase = "match_b" => ~Fallible
  BY DEF Unkeyed, LegacyInv, PairsSure, Fallible, TypeOK
<1> QED
  BY <1>1, <1>2, <1>3 DEF Sound, LegacyInv, MapsApart

\* A call costs a failure or nothing.
LEMMA CostsSmall ==
  ASSUME NEW s \in Sides, NEW i
  PROVE  /\ \A ids : \A r \in Readings(s, ids) : r.cost \in {0, 1}
         /\ \A v : \A w \in Pushes(s, i, v) : w.cost \in {0, 1}
         /\ \A w \in Creations(s, i) : w.cost \in {0, 1}
<1>1. \A ids : \A r \in Readings(s, ids) : r.cost \in {0, 1}
  BY DEF Readings
<1>2. \A v : \A w \in Pushes(s, i, v) : w.cost \in {0, 1}
  BY DEF Pushes, Updates
<1>3. \A w \in Creations(s, i) : w.cost \in {0, 1}
  BY DEF Creations
<1> QED
  BY <1>1, <1>2, <1>3

\* Failures are only used up.
LEMMA FailuresSpent ==
  ASSUME TypeOK, TypeOK', [Next]_vars
  PROVE  left'.fail <= left.fail
<1>1. left.fail \in Nat /\ left'.fail \in Nat
  BY DEF TypeOK
<1>2. ASSUME NEW n \in {0, 1}, Spend(n) PROVE left'.fail <= left.fail
  <2>1. left'.fail = left.fail - n
    BY <1>2 DEF Spend, TypeOK
  <2> QED
    BY <1>1, <2>1
<1>3. CASE UNCHANGED left
  BY <1>1, <1>3
<1>4. CASE Crash
  <2>1. left'.fail = left.fail
    BY <1>4 DEF Crash, TypeOK
  <2> QED
    BY <1>1, <2>1
<1>5. CASE BuildFails \/ FetchMergesFails \/ \E s \in Sides : FetchSourcesFails(s)
  BY <1>2, <1>5 DEF BuildFails, FetchMergesFails, FetchSourcesFails
<1>6. CASE Users
  <2>1. PICK op \in UserOps : UserMayAct(op)
    BY <1>6 DEF Users, UserCreate, UserEdit, UserDelete, UserOps
  <2>2. left'.fail = left.fail
    BY <2>1 DEF UserMayAct, TypeOK
  <2> QED
    BY <1>1, <2>2
<1>7. ASSUME NEW s \in Sides, FetchMerges(s) \/ FetchSources(s) PROVE left'.fail <= left.fail
  <2>1. PICK ids, r : r \in Readings(s, ids) /\ Spend(r.cost)
    BY <1>7 DEF FetchMerges, FetchSources
  <2> QED
    BY <1>2, <2>1, CostsSmall
<1>8. ASSUME (\E op \in plan.merges : MergeWriteA(op)) \/ MergeWriteB
             \/ (\E ids \in matched : MatchWriteA(ids)) \/ MatchWriteB
      PROVE  left'.fail <= left.fail
  <2>1. \E s \in Sides : \E i, v, w : w \in Pushes(s, i, v) /\ Spend(w.cost)
    BY <1>8, SidesFacts DEF MergeWriteA, MergeWriteB, MatchWriteA, MatchWriteB
  <2> QED
    BY <1>2, <2>1, CostsSmall
<1>9. ASSUME NEW s \in Sides, NEW op \in plan.creates[s], Create(s, op)
      PROVE  left'.fail <= left.fail
  <2>1. PICK i, w : w \in Creations(Other(s), i) /\ Spend(w.cost)
    BY <1>9 DEF Create
  <2> QED
    BY <1>2, <2>1, CostsSmall, SidesFacts
<1>10. ASSUME NEW s \in Sides, NEW id \in plan.deletes[s], Delete(s, id)
       PROVE  left'.fail <= left.fail
  BY <1>2, <1>3, <1>10 DEF Delete
<1>11. ASSUME NEW s \in Sides, SkipContainer(s) \/ ReadState(s) \/ List(s)
       PROVE  UNCHANGED left
  BY <1>11 DEF SkipContainer, ReadState, List
<1>12. ASSUME (\E md \in Modes : Start(md)) \/ ReturnUnexecuted \/ Compare \/ Proceed
              \/ (\E op \in plan.merges : MergeSkipped(op)) \/ Finish \/ UNCHANGED vars
       PROVE  UNCHANGED left
  BY <1>12 DEF Start, ReturnUnexecuted, Compare, Proceed, MergeSkipped, Finish, vars
<1> QED
  BY <1>3, <1>4, <1>5, <1>6, <1>7, <1>8, <1>9, <1>10, <1>11, <1>12 DEF Next, Run, Failures

\* Without identity keys no leaf and no create ever has one.
LEMMA KeysStayNone ==
  ASSUME Unkeyed, TypeOK, NoLeafKeys, NoOpKeys, [Next]_vars
  PROVE  NoLeafKeys' /\ NoOpKeys'
<1>1. \A s \in Sides : \A l \in {LeafOf(s, i) : i \in store[s]} : l.key = NoKey
  BY DEF LeafOf, IdentityKey, Unkeyed
<1>2. \A s \in Sides : \A op \in Creates(Listed, sess.maps, s) : op.key = NoKey
  <2>1. \A s \in Sides : \A l \in Listed[s] : l.key = NoKey
    BY DEF NoLeafKeys, Listed
  <2> QED
    BY <2>1, NoKeysOnBoth
<1>3. NoLeafKeys'
  BY <1>1, LeavesAndCreates DEF NoLeafKeys
<1>4. NoOpKeys'
  BY <1>2, LeavesAndCreates DEF NoOpKeys
<1> QED
  BY <1>3, <1>4

\* With nothing to match by, nothing is matched.
LEMMA NoMatches ==
  ASSUME MatchOn = {}, TypeOK, NothingMatched, [Next]_vars
  PROVE  NothingMatched'
<1>1. ASSUME NEW F, NEW S \in Matchings(F) PROVE S = {}
  <2>1. \A s \in Sides : \A id : IdentityKeys(F, s, id) = {}
    BY DEF IdentityKeys
  <2> QED
    BY <1>1, <2>1, SidesFacts DEF Matchings, Matched
<1>2. ASSUME EndRun PROVE NothingMatched'
  BY <1>2 DEF EndRun, NothingMatched
<1>3. CASE ReturnUnexecuted \/ BuildFails \/ Crash \/ Finish
  BY <1>2, <1>3 DEF ReturnUnexecuted, BuildFails, Crash, Rollback, Finish
<1>4. CASE (\E md \in Modes : Start(md)) \/ Compare \/ Proceed \/ Users \/ UNCHANGED vars
           \/ (\E s \in Sides : FetchMerges(s)) \/ FetchMergesFails
           \/ (\E op \in plan.merges : MergeWriteA(op))
  BY <1>4 DEF Start, Compare, Proceed, Users, UserCreate, UserEdit, UserDelete, UserMayAct, vars,
     runVars, workVars, FetchMerges, FetchMergesFails, MergeWriteA, NothingMatched, VisitPhase,
     PhaseAfter
<1>5. ASSUME NEW s \in Sides, SkipContainer(s) \/ ReadState(s) \/ List(s) PROVE NothingMatched'
  BY <1>5 DEF SkipContainer, ReadState, List, Built, VisitPhase, NothingMatched
<1>6. CASE (\E op \in plan.merges : MergeSkipped(op)) \/ MergeWriteB
  BY <1>6 DEF MergeSkipped, MergeWriteB, MergeDone, PhaseAfter, NothingMatched
<1>7. ASSUME NEW s \in Sides, FetchSources(s) \/ FetchSourcesFails(s) PROVE NothingMatched'
  <2>1. \/ UNCHANGED <<phase, matched>>
        \/ phase' = "apply" /\ \E F : matched' \in Matchings(F)
    BY <1>7 DEF FetchSources, FetchSourcesFails, SourcesRead
  <2> QED
    BY <1>1, <2>1 DEF NothingMatched
<1>8. CASE (\E ids \in matched : MatchWriteA(ids)) \/ MatchWriteB
  BY <1>8 DEF MatchWriteB, NothingMatched
<1>9. ASSUME NEW s \in Sides, NEW op \in plan.creates[s], Create(s, op) PROVE NothingMatched'
  <2>1. EndRun \/ \E p : Continue(p)
    BY <1>9 DEF Create, Record, Rollback
  <2> QED
    BY <1>2, <2>1 DEF Continue, NothingMatched
<1>10. ASSUME NEW s \in Sides, NEW id \in plan.deletes[s], Delete(s, id) PROVE NothingMatched'
  BY <1>10 DEF Delete, NothingMatched
<1> QED
  BY <1>3, <1>4, <1>5, <1>6, <1>7, <1>8, <1>9, <1>10 DEF Next, Run, Failures

\* A recorded mapping of items that no mapping has leaves all apart.
LEMMA RecordedApart ==
  ASSUME MapsLegacy, MapsApart, NEW m, m.mkey \in LegacyKeys,
         \A s \in Sides : \A n \in sess.maps : n.id[s] # m.id[s],
         sess'.maps = sess.maps \cup {m}, UNCHANGED db
  PROVE  MapsLegacy' /\ MapsApart'
<1>1. Apart(sess.maps \cup {m})
  BY DEF MapsApart, Apart
<1> QED
  BY <1>1 DEF MapsLegacy, MapsApart, Apart

\* Mappings keep legacy keys and items of their own.
LEMMA LegacyMapsStep ==
  ASSUME Unkeyed, TypeInv, KeyInv, MapsUnique, LegacyInv, [Next]_vars
  PROVE  MapsLegacy' /\ MapsApart'
<1>1. TypeOK
  BY DEF TypeInv
<1>2. CASE Quiet
  BY <1>2 DEF Quiet, LegacyInv, MapsLegacy, MapsApart, Apart
<1>3. CASE Compare
  <2>1. \A s \in Sides : \A l \in Listed[s] : l.key = NoKey
    BY DEF LegacyInv, NoLeafKeys, Listed
  <2>2. sess'.maps \subseteq sess.maps /\ UNCHANGED db
    BY <1>1, <1>3, <2>1, CompareOutcome, NoKeysOnBoth
  <2> QED
    BY <2>2 DEF LegacyInv, MapsLegacy, MapsApart, Apart
<1>4. CASE (\E op \in plan.merges : MergeWriteA(op)) \/ \E ids \in matched : MatchWriteA(ids)
  BY <1>4 DEF MergeWriteA, MatchWriteA, LegacyInv, MapsLegacy, MapsApart, Apart
<1>5. CASE MergeWriteB
  <2>1. PICK y \in fetched["b"] : \E w \in Pushes("b", y, cur.val) :
          sess' = [sess EXCEPT !.maps = RecordMerge(@, w.fp, w.ok)]
    BY <1>5 DEF MergeWriteB
  <2>2. PICK w \in Pushes("b", y, cur.val) :
          sess' = [sess EXCEPT !.maps = RecordMerge(@, w.fp, w.ok)]
    BY <2>1
  <2>3. cur.val \in Values /\ y \in Item
    BY <1>1, <1>5, SidesFacts DEF TypeInv, CurrentIsSet, MergeWriteB, TypeOK
  <2>4. w.fp \in Nat
    BY <1>1, <2>3, PushesTyped, SidesFacts
  <2>5. sess'.maps = RecordMerge(sess.maps, w.fp, w.ok) /\ UNCHANGED db
    BY <1>1, <1>5, <2>2 DEF MergeWriteB, TypeOK, Database
  <2>6. ASSUME NEW m \in sess'.maps
        PROVE  \E o \in sess.maps : /\ m.mkey = o.mkey /\ m.id = o.id
                                    /\ \A n \in sess'.maps : n.mkey = m.mkey => n = m
    <3>1. m \in RecordMerge(sess.maps, w.fp, w.ok)
      BY <2>5
    <3>2. PICK o \in sess.maps :
            /\ m.mkey = o.mkey /\ m.id = o.id
            /\ \A n \in RecordMerge(sess.maps, w.fp, w.ok) :
                 Unique(sess.maps) /\ n.mkey = m.mkey => n = m
      BY <1>1, <2>4, <3>1, RecordedMerge
    <3> QED
      BY <2>5, <3>2 DEF MapsUnique
  <2>7. ASSUME NEW m \in sess'.maps, NEW n \in sess'.maps, NEW s \in Sides, m.id[s] = n.id[s]
        PROVE  m = n
    <3>1. PICK o \in sess.maps : /\ m.mkey = o.mkey /\ m.id = o.id
                                 /\ \A z \in sess'.maps : z.mkey = m.mkey => z = m
      BY <2>6
    <3>2. PICK q \in sess.maps : n.mkey = q.mkey /\ n.id = q.id
      BY <2>6
    <3>3. o = q
      BY <2>7, <3>1, <3>2 DEF LegacyInv, MapsApart, Apart
    <3> QED
      BY <3>1, <3>2, <3>3
  <2>8. MapsLegacy'
    BY <2>5, <2>6 DEF LegacyInv, MapsLegacy
  <2> QED
    BY <2>5, <2>7, <2>8 DEF LegacyInv, MapsApart, Apart
<1>6. CASE MatchWriteB
  <2>1. PICK m : /\ m.mkey = cur.mkey /\ m.id = cur.ids
                 /\ phase = "match_b" /\ UNCHANGED db
                 /\ sess'.maps = sess.maps \cup {m}
    <3>1. PICK w, m : /\ m = [mkey |-> cur.mkey, id |-> cur.ids,
                              fp   |-> [s \in Sides |-> IF s = "a" THEN cur.fp ELSE w.fp],
                              snap |-> cur.val]
                      /\ phase = "match_b" /\ UNCHANGED db
                      /\ sess'.maps = sess.maps \cup {m}
      BY <1>1, <1>6, MatchRecords
    <3> QED
      BY <3>1
  <2>2. PICK opA \in plan.creates["a"], opB \in plan.creates["b"] :
          /\ opA.id = cur.ids["a"] /\ opB.id = cur.ids["b"]
          /\ cur.mkey = MappingKey(opA.key, opB.key, cur.ids)
    BY <2>1 DEF KeyInv, PairPlanned
  <2>3. cur.mkey = LegacyKey(cur.ids) /\ cur.ids \in IdPair
    BY <1>1, <2>2, SidesFacts DEF LegacyInv, NoOpKeys, MappingKey, TypeOK, Current
  <2>4. cur.mkey \in LegacyKeys
    BY <2>3 DEF LegacyKey, LegacyKeys, IdPair, Sides
  <2>5. CreatesFree
    BY DEF KeyInv, CreatesUnmapped, LegacyInv, NoOpKeys, MapsLegacy, CreatesFree
  <2>6. \A s \in Sides : \A n \in sess.maps : n.id[s] # cur.ids[s]
    BY <2>2, <2>5 DEF CreatesFree, Sides
  <2> QED
    BY <2>1, <2>4, <2>6, RecordedApart DEF LegacyInv
<1>7. ASSUME NEW s \in Sides, NEW op \in plan.creates[s], Create(s, op)
      PROVE  MapsLegacy' /\ MapsApart'
  <2>1. PICK x \in fetched[s] :
          /\ x.id = op.id
          /\ UNCHANGED db
          /\ \/ sess' = sess
             \/ sess'.maps = sess.maps \cup {CreatedMapping(s, op, x)}
    BY <1>1, <1>7, CreateRecords
  <2>2. CASE sess' = sess
    BY <2>1, <2>2 DEF LegacyInv, MapsLegacy, MapsApart, Apart
  <2>3. CASE sess'.maps = sess.maps \cup {CreatedMapping(s, op, x)}
    <3> DEFINE ids == [r \in Sides |-> IF r = s THEN x.id ELSE nextId[r]]
    <3>1. ids \in IdPair
      BY <1>1 DEF TypeOK, Item, IdPair
    <3>2. PICK m : m = CreatedMapping(s, op, x)
      OBVIOUS
    <3>3. m.mkey = LegacyKey(ids) /\ m.id = ids
      BY <3>2 DEF CreatedMapping, MappingKey, LegacyInv, NoOpKeys
    <3>4. m.mkey \in LegacyKeys
      BY <3>1, <3>3 DEF LegacyKey, LegacyKeys, IdPair, Sides
    <3>5. CreatesFree
      BY DEF KeyInv, CreatesUnmapped, LegacyInv, NoOpKeys, MapsLegacy, CreatesFree
    <3>6. ASSUME NEW r \in Sides, NEW n \in sess.maps PROVE n.id[r] # m.id[r]
      <4>1. CASE r = s
        BY <2>1, <3>3, <3>5, <4>1 DEF CreatesFree
      <4>2. CASE r # s
        <5>1. n.id[r] < nextId[r] /\ n.id[r] \in Nat /\ nextId[r] \in Nat
          BY <1>1 DEF KeyInv, MapsKnown, KnownMapping, TypeOK, Database, Mapping
        <5> QED
          BY <3>3, <4>2, <5>1
      <4> QED
        BY <4>1, <4>2
    <3> QED
      BY <2>1, <2>3, <3>2, <3>4, <3>6, RecordedApart DEF LegacyInv
  <2> QED
    BY <2>1, <2>2, <2>3
<1> QED
  BY <1>1, <1>2, <1>3, <1>4, <1>5, <1>6, <1>7, QuietSteps

\* Every step keeps the invariant.
LEMMA LegacyInvStep ==
  ASSUME Unkeyed, TypeInv, KeyInv, MapsUnique, LegacyInv, [Next]_vars
  PROVE  LegacyInv'
<1>1. TypeOK /\ TypeOK'
  BY TypeInvStep DEF TypeInv
<1>2. NoLeafKeys' /\ NoOpKeys'
  BY <1>1, KeysStayNone DEF LegacyInv
<1>3. MapsLegacy' /\ MapsApart'
  BY LegacyMapsStep
<1>4. left'.fail <= MaxFail
  <2>1. left'.fail <= left.fail
    BY <1>1, FailuresSpent
  <2>2. left.fail <= MaxFail /\ left.fail \in Nat /\ left'.fail \in Nat /\ MaxFail \in Nat
    BY <1>1, EngineAssumption DEF LegacyInv, PairsSure, TypeOK
  <2> QED
    BY <2>1, <2>2
<1>5. MatchOn = {} => (matched = {} /\ phase # "match_b")'
  BY <1>1, NoMatches DEF LegacyInv, PairsSure, NothingMatched
<1>6. PairsSure'
  BY <1>4, <1>5 DEF PairsSure
<1> QED
  BY <1>2, <1>3, <1>6 DEF LegacyInv

-------------------------------------------------------------------------------
(* The theorems about values. *)

\* Nothing is recorded, read or planned before the first run.
LEMMA InitTruth ==
  ASSUME Init
  PROVE  MapsUnique /\ TruthInv /\ LegacyInv /\ Covered
<1>1. /\ phase = "idle" /\ db = EmptyDatabase /\ sess = EmptyDatabase /\ matched = {}
      /\ plan = EmptyPlan /\ left.fail = MaxFail /\ MaxFail \in Nat
      /\ \A s \in Sides : tree[s].leaves = {} /\ fetched[s] = {}
  BY EngineAssumption DEF Init, NoTree
<1>2. db.maps = {} /\ sess.maps = {} /\ plan.merges = {} /\ \A s \in Sides : plan.creates[s] = {}
  BY <1>1 DEF EmptyDatabase, EmptyPlan
<1>3. MapsUnique /\ MapsApart /\ MapsLegacy
  BY <1>2 DEF MapsUnique, Unique, MapsApart, Apart, MapsLegacy
<1>4. TruthInv
  BY <1>1, <1>2 DEF TruthInv, FetchedTrue, Fresh, MapsTrue, MergesMapped, CurMerged, CurTrue
<1>5. LegacyInv
  BY <1>1, <1>2, <1>3 DEF LegacyInv, NoLeafKeys, NoOpKeys, PairsSure
<1>6. Covered
  <2>1. cur.fp = 0 /\ \A s \in Sides : rev[s] = 1
    BY DEF Init, NoCurrent
  <2>2. \A s \in Sides : \A x \in store[s] : x.ver = 1
    BY EngineAssumption DEF Init
  <2>3. \A s \in Sides : db.merkle.of[s] = {} /\ sess.merkle.of[s] = {}
    BY <1>1 DEF EmptyDatabase, NoMerkle
  <2> QED
    BY <1>1, <1>2, <2>1, <2>2, <2>3, SidesFacts DEF Covered
<1> QED
  BY <1>3, <1>4, <1>5, <1>6

\* What the theorems below follow from.
Told == TypeInv /\ KeyInv /\ Covered /\ MapsUnique /\ Sound /\ TruthInv

\* Over DAV, while nothing is skipped.
LEMMA DavTold ==
  ASSUME Dav
  PROVE  Spec /\ []NothingSkipped => []Told
<1>1. Init => Covered /\ MapsUnique /\ TruthInv
  BY InitTruth
<1>2. TypeInv /\ DavInv /\ MapsUnique => Sound
  BY SoundDav DEF TypeInv
<1>3. TypeInv /\ KeyInv /\ DavInv /\ Covered /\ MapsUnique /\ TruthInv /\ [Next]_vars
        => Covered' /\ MapsUnique' /\ TruthInv'
  BY <1>2, CoveredStep, MapsUniqueStep, TruthInvStep
<1>4. TypeInv /\ KeyInv /\ DavInv /\ Covered /\ MapsUnique /\ TruthInv => Told
  BY <1>2 DEF Told
<1> QED
  BY <1>1, <1>3, <1>4, DavInvHolds, PTL DEF Spec

\* Without identity keys.
LEMMA UnkeyedTold ==
  ASSUME Unkeyed
  PROVE  Spec => []Told
<1>1. Init => Covered /\ MapsUnique /\ TruthInv /\ LegacyInv
  BY InitTruth
<1>2. TypeInv /\ KeyInv /\ LegacyInv => Sound
  BY SoundUnkeyed DEF TypeInv
<1>3. TypeInv /\ KeyInv /\ LegacyInv /\ Covered /\ MapsUnique /\ TruthInv /\ [Next]_vars
        => Covered' /\ MapsUnique' /\ TruthInv' /\ LegacyInv'
  BY <1>2, CoveredStep, MapsUniqueStep, TruthInvStep, LegacyInvStep
<1>4. TypeInv /\ KeyInv /\ LegacyInv /\ Covered /\ MapsUnique /\ TruthInv => Told
  BY <1>2 DEF Told
<1> QED
  BY <1>1, <1>3, <1>4, KeyInvHolds, PTL DEF Spec

(***************************************************************************)
(* Where one item has one mapping, which holds over DAV while no container  *)
(* is skipped and, if matched pairs are written without a failure, between  *)
(* adapters without identity keys, two items that are as the database       *)
(* recorded them have the value of the snapshot: a fingerprint never hides  *)
(* a difference.                                                            *)
(***************************************************************************)
THEOREM FingerprintsTell ==
  /\ Dav => (Spec /\ []NothingSkipped => []InSyncWhenUndrifted)
  /\ Unkeyed => (Spec => []InSyncWhenUndrifted)
<1>1. Told => InSyncWhenUndrifted
  BY SidesFacts DEF Told, TruthInv, MapsTrue, Seen, InSyncWhenUndrifted
<1>2. ASSUME Dav PROVE Spec /\ []NothingSkipped => []InSyncWhenUndrifted
  BY <1>1, <1>2, DavTold, PTL
<1>3. ASSUME Unkeyed PROVE Spec => []InSyncWhenUndrifted
  BY <1>1, <1>3, UnkeyedTold, PTL
<1> QED
  BY <1>2, <1>3

\* Only an edit gives an item another value.
LEMMA OverwritesEdit ==
  ASSUME TypeOK, StoresFresh, NEW s \in Sides, NEW id, Overwrites(s, id)
  PROVE  ~(Kept(s) \/ Added(s) \/ Removed(s))
<1>1. PICK i \in store[s] \cap fetched[s], j \in store'[s] :
        i.id = id /\ j.id = id /\ i.val # j.val
  BY DEF Overwrites
<1>2. j \notin store[s] /\ i.id < nextId[s] /\ i.id \in Nat /\ nextId[s] \in Nat
  BY <1>1 DEF StoresFresh, Fresh, TypeOK, Item
<1>3. \A k, v : NewItem(s, k, v).id = nextId[s]
  BY DEF NewItem
<1>4. ~Added(s)
  <2>1. \A k, v : j # NewItem(s, k, v)
    BY <1>1, <1>2, <1>3
  <2> QED
    BY <1>2, <2>1 DEF Added
<1> QED
  BY <1>2, <1>4 DEF Kept, Removed

\* A push overwrites only the item it is about, with another value.
LEMMA PushOverwrites ==
  ASSUME TypeOK, StoresFresh, FetchedTrue, NEW s \in Sides, NEW x \in fetched[s],
         NEW v \in Values, NEW w \in Pushes(s, x, v), store'[s] = w.items,
         NEW id, Overwrites(s, id)
  PROVE  id = x.id /\ v # x.val
<1>1. PICK i \in store[s] \cap fetched[s], j \in store'[s] :
        i.id = id /\ j.id = id /\ i.val # j.val
  BY DEF Overwrites
<1>2. j \notin store[s] /\ x \in Item /\ store[s] \subseteq Item
  BY <1>1 DEF StoresFresh, Fresh, TypeOK
<1>3. PICK z \in store[s] : /\ z.id = x.id
                            /\ Updated(s, x, v) = (store[s] \ {z}) \cup {EditedItem(z, v)}
  <2>1. w.items = Updated(s, x, v)
    BY <1>1, <1>2, PushKeepsItems
  <2>2. RestoredItem(s, x, v).id = x.id
    BY <1>2, RestoredItemFacts
  <2>3. Updated(s, x, v) = store[s] \cup {RestoredItem(s, x, v)} => j.id = x.id
    BY <1>1, <1>2, <2>1, <2>2
  <2>4. Updated(s, x, v) = store[s] \cup {RestoredItem(s, x, v)} => x.id \in Ids(store[s])
    BY <1>1, <2>3 DEF Ids
  <2> QED
    BY <1>1, <1>2, <2>1, <2>4, UpdatedEdits
<1>4. j = EditedItem(z, v)
  BY <1>1, <1>2, <1>3, PushKeepsItems
<1>5. j.id = x.id /\ j.val = v
  BY <1>2, <1>3, <1>4, EditedItemFacts
<1>6. i = x
  BY <1>1, <1>5 DEF FetchedTrue, Fresh
<1> QED
  BY <1>1, <1>5, <1>6

\* A merge gives up a changed value only for that of a changed counterpart.
LEMMA MergedEdits ==
  ASSUME NEW x, NEW y, NEW snap, NEW v \in MergeResults(x, y, snap), snap # NoSnap
  PROVE  /\ x.val # snap /\ v # x.val => y.val # snap
         /\ y.val # snap /\ v # y.val => x.val # snap
BY DEF MergeResults, MergeScalar, IsConflict

\* The fetched item of a mapping.
LEMMA EditedFetched ==
  ASSUME FetchedTrue, NEW s \in Sides, NEW x \in fetched[s], NEW m, m.id[s] = x.id
  PROVE  EditedSince(m, s) <=> m.snap # NoSnap /\ x.val # m.snap
BY DEF EditedSince, FetchedTrue, Fresh

(***************************************************************************)
(* And no merge overwrites an edit it fetched, unless its counterpart was   *)
(* fetched changed too.                                                     *)
(***************************************************************************)
THEOREM EditsSurvive ==
  /\ Dav => (Spec /\ []NothingSkipped => NoLostEdit)
  /\ Unkeyed => (Spec => NoLostEdit)
<1> DEFINE A == \A s \in Sides, m \in sess.maps :
                  cur' # cur /\ EditedSince(m, s) /\ Overwrites(s, m.id[s])
                    => EditedSince(m, Other(s))
<1>1. Told /\ [Next]_vars => [A]_vars
  <2> SUFFICES ASSUME TypeInv, TypeOK, CurrentIsSet, KeyInv, StoresFresh, Sound, TruthInv,
                      FetchedTrue, [Next]_vars,
                      NEW s \in Sides, NEW m \in sess.maps,
                      cur' # cur, EditedSince(m, s), Overwrites(s, m.id[s])
               PROVE  EditedSince(m, Other(s))
    BY DEF Told, TypeInv, KeyInv, TruthInv
  <2>1. ~Kept(s) /\ ~Added(s) /\ ~Removed(s) /\ m.snap # NoSnap
    BY OverwritesEdit DEF EditedSince
  <2>2. store'[s] # store[s]
    BY OverwritesEdit DEF Overwrites, StoresFresh, Fresh
  <2>3. ASSUME NEW op \in plan.merges, MergeWriteA(op) PROVE EditedSince(m, Other(s))
    <3>1. PICK x \in fetched["a"], y \in fetched["b"], n \in sess.maps :
            /\ x.id = op["a"] /\ y.id = op["b"] /\ n.id["a"] = op["a"]
            /\ \E v \in MergeResults(x, y, n.snap) : \E w \in Pushes("a", x, v) :
                 SetStore("a", w.items)
      BY <2>3 DEF MergeWriteA
    <3>2. PICK v \in MergeResults(x, y, n.snap) : \E w \in Pushes("a", x, v) :
            SetStore("a", w.items)
      BY <3>1
    <3>3. PICK w \in Pushes("a", x, v) : SetStore("a", w.items)
      BY <3>2
    <3>4. s = "a" /\ store'[s] = w.items
      BY <2>2, <3>3, SetStoreServers, SidesFacts
    <3>5. v \in Values
      BY MergeResultsTyped, SidesFacts DEF TypeOK
    <3>6. m.id["a"] = x.id /\ v # x.val
      BY <3>4, <3>5, PushOverwrites
    <3>7. n = m /\ m.id = op
      <4>1. PICK o \in sess.maps : o.id = op
        BY DEF TruthInv, MergesMapped
      <4> QED
        BY <3>1, <3>6, <4>1, SidesFacts DEF Sound, Apart
    <3>8. x.val # m.snap
      BY <3>4, <3>6, EditedFetched
    <3>9. y.val # m.snap
      BY <2>1, <3>6, <3>7, <3>8, MergedEdits
    <3> QED
      BY <2>1, <3>1, <3>4, <3>7, <3>9, EditedFetched, SidesFacts DEF Other
  <2>4. ASSUME MergeWriteB PROVE EditedSince(m, Other(s))
    <3>1. PICK z \in fetched["b"] : \E w \in Pushes("b", z, cur.val) :
            z.id = cur.ids["b"] /\ SetStore("b", w.items)
      BY <2>4 DEF MergeWriteB
    <3>2. PICK w \in Pushes("b", z, cur.val) : SetStore("b", w.items)
      BY <3>1
    <3>3. PICK x \in fetched["a"], y \in fetched["b"], n \in sess.maps :
            /\ x.id = cur.ids["a"] /\ y.id = cur.ids["b"] /\ n.id = cur.ids
            /\ cur.val \in MergeResults(x, y, n.snap)
      BY <2>4 DEF TruthInv, CurMerged, MergeWriteB
    <3>4. s = "b" /\ store'[s] = w.items
      BY <2>2, <3>2, SetStoreServers, SidesFacts
    <3>5. cur.val \in Values /\ z = y
      BY <2>4, <3>1, <3>3, SidesFacts DEF CurrentIsSet, MergeWriteB, FetchedTrue, Fresh
    <3>6. m.id["b"] = y.id /\ cur.val # y.val
      BY <3>4, <3>5, PushOverwrites
    <3>7. n = m
      BY <3>3, <3>6, SidesFacts DEF Sound, Apart
    <3>8. y.val # m.snap
      BY <3>4, <3>6, EditedFetched
    <3>9. x.val # m.snap
      BY <2>1, <3>3, <3>6, <3>7, <3>8, MergedEdits
    <3> QED
      BY <2>1, <3>3, <3>4, <3>7, <3>9, EditedFetched, SidesFacts DEF Other
  <2>5. ASSUME NEW ids \in matched, MatchWriteA(ids) PROVE FALSE
    <3>1. PICK x \in fetched["a"], y \in fetched["b"], opA \in plan.creates["a"] :
            /\ opA.id = x.id
            /\ \E v \in MergeResults(x, y, NoSnap) : \E w \in Pushes("a", x, v) :
                 SetStore("a", w.items)
      BY <2>5 DEF MatchWriteA
    <3>2. PICK v \in MergeResults(x, y, NoSnap) : \E w \in Pushes("a", x, v) :
            SetStore("a", w.items)
      BY <3>1
    <3>3. PICK w \in Pushes("a", x, v) : SetStore("a", w.items)
      BY <3>2
    <3>4. s = "a" /\ store'[s] = w.items
      BY <2>2, <3>3, SetStoreServers, SidesFacts
    <3>5. v \in Values
      BY MergeResultsTyped, SidesFacts DEF TypeOK
    <3>6. m.id["a"] = x.id
      BY <3>4, <3>5, PushOverwrites
    <3> QED
      BY <3>1, <3>6, SidesFacts DEF Sound, CreatesFree
  <2>6. ASSUME MatchWriteB PROVE FALSE
    <3>1. PICK y \in fetched["b"] : \E w \in Pushes("b", y, cur.val) :
            y.id = cur.ids["b"] /\ SetStore("b", w.items)
      BY <2>6 DEF MatchWriteB
    <3>2. PICK w \in Pushes("b", y, cur.val) : SetStore("b", w.items)
      BY <3>1
    <3>3. s = "b" /\ store'[s] = w.items
      BY <2>2, <3>2, SetStoreServers, SidesFacts
    <3>4. phase = "match_b" /\ cur.val \in Values
      BY <2>6 DEF CurrentIsSet, MatchWriteB
    <3>5. m.id["b"] = y.id
      BY <3>3, <3>4, PushOverwrites
    <3>6. PICK opB \in plan.creates["b"] : opB.id = cur.ids["b"]
      BY <3>4 DEF KeyInv, PairPlanned
    <3> QED
      BY <3>1, <3>4, <3>5, <3>6, SidesFacts DEF Sound, CreatesFree
  <2>7. ASSUME NEW t \in Sides, NEW op \in plan.creates[t], Create(t, op) PROVE FALSE
    BY <2>1, <2>7, CreateServers
  <2>8. CASE ReturnUnexecuted \/ BuildFails \/ Crash \/ Finish
    BY <2>2, <2>8 DEF ReturnUnexecuted, BuildFails, Crash, Finish, serverVars
  <2>9. ASSUME NEW t \in Sides,
               \/ SkipContainer(t) \/ ReadState(t) \/ List(t)
               \/ FetchMerges(t) \/ FetchSources(t) \/ FetchSourcesFails(t)
        PROVE  FALSE
    BY <2>9 DEF SkipContainer, ReadState, List, FetchMerges, FetchSources, FetchSourcesFails
  <2>10. CASE (\E md \in Modes : Start(md)) \/ Compare \/ Proceed \/ FetchMergesFails
              \/ (\E op \in plan.merges : MergeSkipped(op)) \/ Users \/ UNCHANGED vars
    BY <2>10 DEF Start, Compare, Proceed, FetchMergesFails, MergeSkipped, Users, UserCreate,
                 UserEdit, UserDelete, UserMayAct, vars, runVars, workVars
  <2>11. ASSUME NEW t \in Sides, NEW id \in plan.deletes[t], Delete(t, id) PROVE FALSE
    BY <2>11 DEF Delete
  <2>12. CASE Run
    BY <2>3, <2>4, <2>5, <2>6, <2>7, <2>8, <2>9, <2>10, <2>11, <2>12 DEF Run
  <2>13. CASE Failures
    BY <2>8, <2>9, <2>10, <2>13 DEF Failures
  <2> QED
    BY <2>8, <2>10, <2>12, <2>13 DEF Next
<1>2. ASSUME Dav PROVE Spec /\ []NothingSkipped => NoLostEdit
  BY <1>1, <1>2, DavTold, PTL DEF Spec, NoLostEdit
<1>3. ASSUME Unkeyed PROVE Spec => NoLostEdit
  BY <1>1, <1>3, UnkeyedTold, PTL DEF Spec, NoLostEdit
<1> QED
  BY <1>2, <1>3

-------------------------------------------------------------------------------
(***************************************************************************)
(* Pruning.  The hash of a pair is stored when a run commits, of what the   *)
(* run listed before it wrote.  Versions grow and ids are not given out     *)
(* twice, so what was hashed is either there as it was or never again, and  *)
(* a run that wrote to an item, or deleted one, is followed by listings     *)
(* with another hash; so is one that created a copy, while the copy stays.  *)
(***************************************************************************)

\* What the sides hold, as the leaves a listing would give.
Stored == [s \in Sides |-> {LeafOf(s, i) : i \in store[s]}]

\* What the run will compare: the trees it has built, and what it has yet to list.
View == [s \in Sides |-> IF phase \in Early /\ TreeBuilt(s) THEN tree[s].leaves ELSE Stored[s]]

HashIds(d, s) == {h[1] : h \in d.merkle.of[s]}

Hashed(d, W, s) == {l \in W[s] : <<l.id, l.fp>> \in d.merkle.of[s]}

\* All that was hashed is there as it was.
Intact(d, W) == \A s \in Sides : d.merkle.of[s] \subseteq Digest(W, s)

HashedPaired(d, W) ==
  \A s \in Sides : \A l \in Hashed(d, W, s) : \E x \in Hashed(d, W, Other(s)) : x.key = l.key

\* Mappings hold the hashed fingerprints, but for those yet to be merged.
HashedRecorded(d, W, pending) ==
  \A m \in d.maps :
    \/ m.id \in pending
    \/ \E s \in Sides : \A l \in Hashed(d, W, s) : l.id # m.id[s]
    \/ \A s \in Sides : \A l \in Hashed(d, W, s) : l.id = m.id[s] => l.fp = m.fp[s]

\* A copy that a run made after the listing it hashed.
Copy(d, s, id) ==
  /\ id \notin HashIds(d, s)
  /\ \E m \in d.maps : m.id[s] = id /\ m.id[Other(s)] \in HashIds(d, Other(s))

Copied(d, W) == \E s \in Sides : \E l \in W[s] : Copy(d, s, l.id)

Agreed(d, W, pending, busy) ==
  d.merkle.kind = "listed" /\ Intact(d, W) =>
    /\ HashedPaired(d, W) \/ Copied(d, W) \/ busy
    /\ HashedRecorded(d, W, pending)

Writing == \E s \in Sides : plan.creates[s] # {} \/ plan.deletes[s] # {}

\* An item is at the version a hash has of it or beyond.
Reached(S, h) == \A i \in S : i.id = h[1] => h[2] <= i.ver

HashesReached ==
  \A d \in {db, sess} : \A s \in Sides : \A h \in d.merkle.of[s] :
    h[1] < nextId[s] /\ Reached(store[s], h)

LeavesReached ==
  \A s \in Sides : \A l \in tree[s].leaves : Reached(store[s], <<l.id, l.fp>>)

FetchedReached ==
  \A s \in Sides : \A h \in sess.merkle.of[s] : Reached(fetched[s], h)

NothingFetched == phase \in Early => \A s \in Sides : fetched[s] = {}

Found(s, id) == id \in Ids(fetched[s]) \/ id \notin Ids(store[s])

MergesFound ==
  \A s \in Sides :
    phase \in {"merge", "merge_b"} \/ (phase = "fetch" /\ side = "b" /\ s = "a") =>
      \A op \in plan.merges : Found(s, op[s])

SourcesFound ==
  phase = "source" /\ side = "b" => \A op \in plan.creates["a"] : Found("a", op.id)

MergesOver == phase \in {"source", "apply"} => plan.merges = {}

PlanHashed ==
  sess.merkle.kind = "listed" =>
    \A s \in Sides : CreateIds(s) \cup plan.deletes[s] \subseteq HashIds(sess, s)

CurHashed ==
  phase = "merge_b" /\ sess.merkle.kind = "listed" /\ Intact(sess, Stored) =>
    \A l \in Hashed(sess, Stored, "a") : l.id = cur.ids["a"] => cur.ok /\ cur.fp = l.fp

\* What a run knows before it compares, and what it has planned after that.
RunAgreed ==
  IF phase \in Early THEN Agreed(sess, View, {}, FALSE)
  ELSE Agreed(sess, Stored, plan.merges, Writing)

PruneInv ==
  /\ left.fail = 0
  /\ HashesReached
  /\ LeavesReached
  /\ FetchedReached
  /\ NothingFetched
  /\ MergesFound
  /\ SourcesFound
  /\ MergesOver
  /\ PlanHashed
  /\ CurHashed
  /\ Agreed(db, Stored, {}, FALSE)
  /\ RunAgreed

\* No server is full.
Roomy == \A s \in Sides : nextId[s] <= MaxId

\* No user deletes a copy before a committed listing has it.
CopyKept ==
  \A s \in Sides : \A i \in store[s] :
    UserDelete(s, i) => ~Copy(db, s, i.id) /\ ~Copy(sess, s, i.id)

CopiesStay == [][CopyKept]_vars

-------------------------------------------------------------------------------
(* Views that pass on what was hashed. *)

\* What is hashed in the later view was in the earlier one, and all of it is in
\* the later one if that is intact.
LeavesPass(d, W, X) ==
  \A s \in Sides :
    /\ Hashed(d, X, s) \subseteq W[s]
    /\ d.merkle.of[s] \subseteq Digest(X, s) => Hashed(d, W, s) \subseteq X[s]

CopiesPass(d, W, X) ==
  \A s \in Sides : \A l \in W[s] : Copy(d, s, l.id) => \E x \in X[s] : x.id = l.id

\* An intact view was intact before, with the same hashed leaves.
LEMMA IntactBefore ==
  ASSUME NEW d \in Database, NEW W, NEW X, LeavesPass(d, W, X), Intact(d, X)
  PROVE  Intact(d, W) /\ \A s \in Sides : Hashed(d, X, s) = Hashed(d, W, s)
<1>1. ASSUME NEW s \in Sides PROVE d.merkle.of[s] \subseteq Digest(W, s)
  <2> SUFFICES ASSUME NEW h \in d.merkle.of[s] PROVE h \in Digest(W, s)
    OBVIOUS
  <2>1. PICK l \in X[s] : h = <<l.id, l.fp>>
    BY DEF Intact, Digest
  <2>2. l \in W[s]
    BY <2>1 DEF LeavesPass, Hashed
  <2> QED
    BY <2>1, <2>2 DEF Digest
<1>2. \A s \in Sides : Hashed(d, X, s) = Hashed(d, W, s)
  BY DEF LeavesPass, Hashed, Intact
<1> QED
  BY <1>1, <1>2 DEF Intact

\* Such a view keeps the agreement.
LEMMA AgreedStays ==
  ASSUME NEW d \in Database, NEW W, NEW X, NEW P, NEW Q, P \subseteq Q, NEW b, NEW c,
         LeavesPass(d, W, X), Intact(d, X) => CopiesPass(d, W, X), Agreed(d, W, P, b),
         Intact(d, X) /\ b => c
  PROVE  Agreed(d, X, Q, c)
<1> SUFFICES ASSUME d.merkle.kind = "listed", Intact(d, X)
             PROVE  /\ HashedPaired(d, X) \/ Copied(d, X) \/ c
                    /\ HashedRecorded(d, X, Q)
  BY DEF Agreed
<1>1. Intact(d, W) /\ \A s \in Sides : Hashed(d, X, s) = Hashed(d, W, s)
  BY IntactBefore
<1>2. HashedPaired(d, W) => HashedPaired(d, X)
  BY <1>1, SidesFacts DEF HashedPaired
<1>3. Copied(d, W) => Copied(d, X)
  BY DEF Copied, CopiesPass
<1>4. HashedRecorded(d, W, P) => HashedRecorded(d, X, Q)
  BY <1>1 DEF HashedRecorded
<1> QED
  BY <1>1, <1>2, <1>3, <1>4 DEF Agreed

-------------------------------------------------------------------------------
(* What a step of the servers passes on. *)

\* An id that was given out is there after a step only if it was there before, or
\* if a PUT brings it back.
LEMMA IdsBefore ==
  ASSUME TypeOK, ServersStep, NEW s \in Sides, NEW i \in store'[s], i.id < nextId[s]
  PROVE  \/ \E j \in store[s] : j.id = i.id /\ j.ver <= i.ver /\ (j.ver = i.ver => i = j)
         \/ i.ver = rev[s] + 1 /\ i.id \in Ids(fetched[s])
<1>1. store[s] \subseteq Item /\ nextId[s] \in Nat
  BY DEF TypeOK
<1>2. \A j \in store[s] : j.ver \in Nat
  BY <1>1 DEF Item
<1>3. CASE i \in store[s]
  BY <1>2, <1>3
<1>4. CASE Edited(s)
  <2>1. PICK x \in store[s], w \in Values :
          store'[s] = (store[s] \ {x}) \cup {EditedItem(x, w)}
    BY <1>4 DEF Edited
  <2>2. EditedItem(x, w).id = x.id /\ EditedItem(x, w).ver = x.ver + 1
    BY <1>1, EditedItemFacts
  <2> QED
    BY <1>2, <1>3, <2>1, <2>2
<1>5. CASE Added(s)
  <2>1. PICK k \in Keys, w \in Values : store'[s] = store[s] \cup {NewItem(s, k, w)}
    BY <1>5 DEF Added
  <2>2. NewItem(s, k, w).id = nextId[s]
    BY DEF NewItem
  <2> QED
    BY <1>1, <1>3, <2>1, <2>2
<1>6. CASE \E id : Restored(s, id)
  <2>1. PICK f \in fetched[s], w \in Values : store'[s] = store[s] \cup {RestoredItem(s, f, w)}
    BY <1>6 DEF Restored
  <2>2. RestoredItem(s, f, w).ver = rev[s] + 1 /\ RestoredItem(s, f, w).id = f.id
    BY RestoredItemFacts DEF TypeOK
  <2> QED
    BY <1>3, <2>1, <2>2 DEF Ids
<1> QED
  BY <1>3, <1>4, <1>5, <1>6 DEF ServersStep, Written, Kept, Removed

\* Versions that were reached stay reached.
LEMMA ReachedStays ==
  ASSUME TypeOK, TypeOK', ServersStep, NEW s \in Sides, NEW h \in Nat \X Nat, h[1] < nextId[s],
         h[2] <= rev[s], Reached(store[s], h)
  PROVE  Reached(store'[s], h)
<1> SUFFICES ASSUME NEW i \in store'[s], i.id = h[1] PROVE h[2] <= i.ver
  BY DEF Reached
<1>1. CASE i.ver = rev[s] + 1
  BY <1>1 DEF TypeOK
<1> SUFFICES ASSUME i.ver # rev[s] + 1 PROVE h[2] <= i.ver
  BY <1>1
<1>2. PICK j \in store[s] : j.id = i.id /\ j.ver <= i.ver
  BY IdsBefore
<1>3. h[2] <= j.ver
  BY <1>2 DEF Reached
<1>4. i.ver \in Nat /\ j.ver \in Nat /\ h[2] \in Nat
  BY DEF TypeOK, Item
<1> QED
  BY <1>2, <1>3, <1>4

\* The leaves of a DAV side say what its items are.
LEMMA StoredLeaves ==
  ASSUME Dav, NEW s \in Sides
  PROVE  /\ \A i \in store[s] : \E l \in Stored[s] : l.id = i.id /\ l.key = i.key /\ l.fp = i.ver
         /\ \A l \in Stored[s] : \E i \in store[s] :
              l = LeafOf(s, i) /\ l.id = i.id /\ l.key = i.key /\ l.fp = i.ver
<1>1. \A i : /\ LeafOf(s, i).id = i.id /\ LeafOf(s, i).key = i.key /\ LeafOf(s, i).fp = i.ver
  BY DEF LeafOf, IdentityKey, Dav
<1>2. Stored[s] = {LeafOf(s, i) : i \in store[s]}
  BY DEF Stored
<1> QED
  BY <1>1, <1>2

\* What was hashed is passed on by a step of the servers.
LEMMA StoredPass ==
  ASSUME Dav, TypeOK, TypeOK', StoresFresh, StoresFresh', ServersStep, Covered,
         NEW d \in {db, sess}, HashesReached
  PROVE  LeavesPass(d, Stored, Stored')
<1> SUFFICES ASSUME NEW s \in Sides
             PROVE  /\ Hashed(d, Stored', s) \subseteq Stored[s]
                    /\ d.merkle.of[s] \subseteq Digest(Stored', s) =>
                          Hashed(d, Stored, s) \subseteq Stored'[s]
  BY DEF LeavesPass
<1>1. /\ Stored[s] = {LeafOf(s, i) : i \in store[s]}
      /\ Stored'[s] = {LeafOf(s, i) : i \in store'[s]}
  BY DEF Stored, LeafOf, IdentityKey
<1>2. \A i : LeafOf(s, i).id = i.id /\ LeafOf(s, i).fp = i.ver
  BY DEF LeafOf
<1>3. ASSUME NEW l \in Hashed(d, Stored', s) PROVE l \in Stored[s]
  <2>1. PICK i \in store'[s] : l = LeafOf(s, i)
    BY <1>1 DEF Hashed
  <2>2. <<i.id, i.ver>> \in d.merkle.of[s]
    BY <1>2, <2>1 DEF Hashed
  <2>3. i.id < nextId[s] /\ Reached(store[s], <<i.id, i.ver>>) /\ i.ver # rev[s] + 1
    <3>1. <<i.id, i.ver>>[2] <= rev[s]
      BY <2>2 DEF Covered
    <3>2. rev[s] \in Nat /\ i.ver \in Nat
      BY DEF TypeOK, Item
    <3> QED
      BY <2>2, <3>1, <3>2 DEF HashesReached
  <2>4. PICK j \in store[s] : j.id = i.id /\ j.ver <= i.ver /\ (j.ver = i.ver => i = j)
    BY <2>3, IdsBefore
  <2>5. i.ver <= j.ver
    BY <2>3, <2>4 DEF Reached
  <2>6. i.ver \in Nat /\ j.ver \in Nat
    BY DEF TypeOK, Item
  <2>7. i = j
    BY <2>4, <2>5, <2>6
  <2> QED
    BY <1>1, <2>1, <2>7
<1>4. ASSUME d.merkle.of[s] \subseteq Digest(Stored', s), NEW l \in Hashed(d, Stored, s) PROVE l \in Stored'[s]
  <2>1. PICK j \in store[s] : l = LeafOf(s, j)
    BY <1>1 DEF Hashed
  <2>2. <<l.id, l.fp>> \in d.merkle.of[s]
    BY DEF Hashed
  <2>3. PICK x \in Stored'[s] : x.id = l.id /\ x.fp = l.fp
    BY <1>4, <2>2 DEF Digest
  <2>4. x \in Hashed(d, Stored', s)
    BY <2>2, <2>3 DEF Hashed
  <2>5. x \in Stored[s]
    BY <1>3, <2>4
  <2>6. x = l
    BY <1>1, <1>2, <2>1, <2>3, <2>5 DEF StoresFresh, Fresh
  <2> QED
    BY <2>3, <2>6
<1> QED
  BY <1>3, <1>4

\* Only deletions take an id from a server.
LEMMA RemovedByDeletes ==
  ASSUME TypeInv, KeyInv, [Next]_vars
  PROVE  \/ \A s \in Sides : \A i \in store[s] : \E j \in store'[s] : j.id = i.id
         \/ \E s \in Sides : \E i \in store[s] : UserDelete(s, i)
         \/ \E s \in Sides : \E id \in plan.deletes[s] : Delete(s, id)
<1>1. TypeOK /\ CurrentIsSet /\ StoresFresh
  BY DEF TypeInv, KeyInv
<1>2. ASSUME NEW s \in Sides, Written(s) \/ Added(s)
      PROVE  \A i \in store[s] : \E j \in store'[s] : j.id = i.id
  <2>1. CASE Edited(s)
    <3>1. PICK x \in store[s], w \in Values :
            store'[s] = (store[s] \ {x}) \cup {EditedItem(x, w)}
      BY <2>1 DEF Edited
    <3>2. EditedItem(x, w).id = x.id
      BY <1>1, EditedItemFacts DEF TypeOK
    <3> QED
      BY <3>1, <3>2
  <2> QED
    BY <1>2, <2>1 DEF Written, Kept, Added, Restored
<1>3. CASE \/ \E op \in plan.merges : MergeWriteA(op)
           \/ MergeWriteB
           \/ \E ids \in matched : MatchWriteA(ids)
           \/ MatchWriteB
  BY <1>1, <1>2, <1>3, WritesEdit
<1>4. ASSUME NEW s \in Sides, NEW op \in plan.creates[s], Create(s, op)
      PROVE  \A r \in Sides : \A i \in store[r] : \E j \in store'[r] : j.id = i.id
  BY <1>1, <1>2, <1>4, CreateServers DEF Written
<1>5. CASE UNCHANGED store
  BY <1>5
<1>6. ASSUME NEW s \in Sides, NEW k \in Keys, NEW v \in Values, UserCreate(s, k, v)
      PROVE  \A r \in Sides : \A i \in store[r] : \E j \in store'[r] : j.id = i.id
  BY <1>1, <1>6, SetStoreServers DEF UserCreate
<1>7. ASSUME NEW s \in Sides, NEW i \in store[s], NEW v \in Values, UserEdit(s, i, v)
      PROVE  \A r \in Sides : \A x \in store[r] : \E j \in store'[r] : j.id = x.id
  <2>1. store'[s] = (store[s] \ {i}) \cup {EditedItem(i, v)}
    BY <1>1, <1>7, SetStoreServers DEF UserEdit, EditedItem
  <2>2. EditedItem(i, v).id = i.id
    BY <1>1, EditedItemFacts DEF TypeOK
  <2>3. \A r \in Sides : r # s => store'[r] = store[r]
    BY <1>1, <1>7, SetStoreServers DEF UserEdit
  <2> QED
    BY <2>1, <2>2, <2>3
<1>8. ASSUME \/ (\E md \in Modes : Start(md)) \/ ReturnUnexecuted \/ BuildFails \/ Crash
             \/ FetchMergesFails \/ Compare \/ Proceed \/ Finish \/ UNCHANGED vars
             \/ \E s \in Sides : \/ SkipContainer(s) \/ ReadState(s) \/ List(s)
                                 \/ FetchMerges(s) \/ FetchSources(s) \/ FetchSourcesFails(s)
             \/ \E op \in plan.merges : MergeSkipped(op)
      PROVE  UNCHANGED store
  BY <1>8 DEF Start, ReturnUnexecuted, BuildFails, Crash, FetchMergesFails, Compare, Proceed,
              Finish, vars, SkipContainer, ReadState, List, FetchMerges, FetchSources,
              FetchSourcesFails, MergeSkipped, serverVars
<1> QED
  BY <1>3, <1>4, <1>5, <1>6, <1>7, <1>8 DEF Next, Run, Failures, Users

\* Copies are passed on: a user keeps them, and a run deletes one only if what it
\* is a copy of, and that was hashed, is gone.
LEMMA StoredCopies ==
  ASSUME Dav, Told, DavInv, [Next]_vars, [CopyKept]_vars, NEW d \in {db, sess}
  PROVE  Intact(d, Stored') \/ phase \in Early => CopiesPass(d, Stored, Stored')
<1>1. TypeInv /\ TypeOK /\ KeyInv /\ StoresFresh
  BY DEF Told, TypeInv, KeyInv
<1> SUFFICES ASSUME Intact(d, Stored') \/ phase \in Early, NEW s \in Sides, NEW l \in Stored[s], Copy(d, s, l.id)
             PROVE  \E x \in Stored'[s] : x.id = l.id
  BY DEF CopiesPass
<1>2. PICK i \in store[s] : l.id = i.id
  BY StoredLeaves
<1>3. \A r \in Sides : Stored'[r] = {LeafOf(r, j) : j \in store'[r]}
  BY DEF Stored, LeafOf, IdentityKey
<1>4. \A r, j : LeafOf(r, j).id = j.id
  BY DEF LeafOf
<1>5. ASSUME NEW j \in store'[s], j.id = i.id PROVE \E x \in Stored'[s] : x.id = l.id
  BY <1>2, <1>3, <1>4, <1>5
<1>6. CASE \A r \in Sides : \A x \in store[r] : \E j \in store'[r] : j.id = x.id
  BY <1>5, <1>6
<1>7. ASSUME NEW r \in Sides, NEW x \in store[r], UserDelete(r, x)
      PROVE  \E j \in store'[s] : j.id = i.id
  <2>1. store'[r] = store[r] \ {x} /\ \A q \in Sides : q # r => store'[q] = store[q]
    BY <1>1, <1>7, SetStoreServers DEF UserDelete
  <2>2. ~UNCHANGED vars
    BY <2>1 DEF vars, serverVars
  <2>3. ~Copy(d, r, x.id)
    BY <1>7, <2>2 DEF CopyKept
  <2>4. i \in store'[s]
    BY <1>2, <2>1, <2>3
  <2> QED
    BY <2>4
<1>8. ASSUME NEW r \in Sides, NEW id \in plan.deletes[r], Delete(r, id)
      PROVE  \E j \in store'[s] : j.id = i.id
  <2>1. CASE i \in store'[s]
    BY <2>1
  <2>2. CASE i \notin store'[s]
    <3>1. /\ store'[r] = {x \in store[r] : x.id # id} /\ phase \notin Early
          /\ \A q \in Sides : q # r => store'[q] = store[q]
      BY <1>1, <1>8, <2>2, SetStoreServers DEF Delete, Early
    <3>2. r = s /\ i.id = id
      BY <2>2, <3>1
    <3>3. PICK n \in sess.maps :
            n.id[s] = id /\ \A k : ~Has(store[Other(s)], n.id[Other(s)], k)
      BY <3>2 DEF DavInv, DeletesCaused
    <3>4. PICK m \in d.maps : m.id[s] = id /\ m.id[Other(s)] \in HashIds(d, Other(s))
      BY <1>2, <3>2 DEF Copy
    <3>5. Ref(s, id, m.mkey) /\ Ref(s, id, n.mkey)
      BY <3>3, <3>4 DEF Ref, KeyRef, Maps
    <3>6. m.mkey = n.mkey
      BY <3>5 DEF DavInv, RefInv, RefsAgree
    <3>7. /\ KeyRef(Other(s), m.id[Other(s)], m.mkey)
          /\ KeyRef(Other(s), n.id[Other(s)], m.mkey)
      BY <3>4, <3>6 DEF KeyRef, Maps
    <3>8. m.id[Other(s)] = n.id[Other(s)]
      BY <3>7, SidesFacts DEF DavInv, RefInv, RefsOne
    <3>9. PICK h \in d.merkle.of[Other(s)] : h[1] = m.id[Other(s)]
      BY <3>4 DEF HashIds
    <3>10. PICK x \in Stored'[Other(s)] : h = <<x.id, x.fp>>
      BY <3>1, <3>9, SidesFacts DEF Intact, Digest
    <3>11. PICK j \in store'[Other(s)] : x.id = j.id
      BY <1>3, <1>4, <3>10, SidesFacts
    <3>12. j \in store[Other(s)]
      BY <3>1, <3>2, SidesFacts
    <3> QED
      BY <3>3, <3>8, <3>9, <3>10, <3>11, <3>12 DEF Has
  <2> QED
    BY <2>1, <2>2
<1> QED
  BY <1>1, <1>5, <1>6, <1>7, <1>8, RemovedByDeletes

-------------------------------------------------------------------------------
(* The parts of the invariant through a step. *)

\* Where a step starts from, and what it passes on whatever it is.
Passing ==
  /\ Told /\ DavInv /\ PruneInv
  /\ TypeOK' /\ KeyInv' /\ DavInv' /\ ServersStep /\ left'.fail = 0
  /\ \A d \in {db, sess} :
       /\ LeavesPass(d, Stored, Stored')
       /\ Intact(d, Stored') \/ phase \in Early => CopiesPass(d, Stored, Stored')

\* What Passing says of types and ids.
LEMMA PassingFacts ==
  ASSUME Passing
  PROVE  /\ TypeInv /\ TypeOK /\ KeyInv /\ StoresFresh /\ StoresFresh'
         /\ db \in Database /\ sess \in Database
         /\ \A s \in Sides : nextId[s] <= nextId'[s]
<1>1. TypeInv /\ TypeOK /\ KeyInv /\ StoresFresh /\ StoresFresh' /\ TypeOK' /\ ServersStep
  BY DEF Passing, Told, TypeInv, KeyInv
<1>2. \A s \in Sides : nextId[s] <= nextId'[s]
  BY <1>1, CountersGrow
<1> QED
  BY <1>1, <1>2 DEF TypeOK

\* Hashes that are kept stay reached.
LEMMA HashesStay ==
  ASSUME Passing, \A d \in {db', sess'} : d.merkle \in {db.merkle, sess.merkle}
  PROVE  HashesReached'
<1> SUFFICES ASSUME NEW d \in {db, sess}, NEW s \in Sides, NEW h \in d.merkle.of[s]
             PROVE  h[1] < nextId'[s] /\ Reached(store'[s], h)
  BY DEF HashesReached, Reached
<1>1. TypeOK /\ TypeOK' /\ nextId[s] <= nextId'[s]
  BY PassingFacts DEF Passing
<1>2. h \in Nat \X Nat
  BY <1>1 DEF TypeOK, Database, Merkle
<1>3. h[1] < nextId[s] /\ Reached(store[s], h) /\ h[2] <= rev[s]
  BY DEF Passing, PruneInv, HashesReached, Told, Covered
<1>4. nextId[s] \in Nat /\ nextId'[s] \in Nat /\ h[1] \in Nat
  BY <1>1, <1>2 DEF TypeOK
<1> QED
  BY <1>1, <1>2, <1>3, <1>4, ReachedStays DEF Passing

\* So do leaves that are kept.
LEMMA LeavesStayReached ==
  ASSUME Passing, \A s \in Sides : tree'[s].leaves \subseteq tree[s].leaves
  PROVE  LeavesReached'
<1> SUFFICES ASSUME NEW s \in Sides, NEW l \in tree[s].leaves
             PROVE  Reached(store'[s], <<l.id, l.fp>>)
  BY DEF LeavesReached, Reached
<1>1. TypeOK /\ TypeOK' /\ KeyInv
  BY PassingFacts DEF Passing
<1>2. <<l.id, l.fp>> \in Nat \X Nat
  BY <1>1 DEF TypeOK, Tree, Leaf
<1>3. l.id < nextId[s] /\ Reached(store[s], <<l.id, l.fp>>) /\ l.fp <= rev[s]
  BY <1>1 DEF Passing, PruneInv, LeavesReached, KeyInv, LeavesFresh, Fresh, Told, Covered
<1> QED
  BY <1>1, <1>2, <1>3, ReachedStays DEF Passing

\* What was fetched has reached the hash of the run, or is fetched now and has.
LEMMA FetchedStaysReached ==
  ASSUME Passing, sess'.merkle = sess.merkle,
         \A s \in Sides : fetched'[s] \subseteq fetched[s] \cup store[s]
  PROVE  FetchedReached'
<1> SUFFICES ASSUME NEW s \in Sides, NEW h \in sess.merkle.of[s]
             PROVE  Reached(fetched'[s], h)
  BY DEF FetchedReached, Reached
<1>1. Reached(fetched[s], h) /\ Reached(store[s], h)
  BY DEF Passing, PruneInv, FetchedReached, HashesReached
<1> QED
  BY <1>1 DEF Reached

\* An item that was found, or was gone, stays so.
LEMMA FoundStays ==
  ASSUME Passing, NEW s \in Sides, NEW id \in Nat, id < nextId[s], Found(s, id),
         fetched'[s] = fetched[s]
  PROVE  Found(s, id)'
<1>1. TypeOK
  BY PassingFacts
<1>2. \A i \in store'[s] :
        i.id = id => id \in Ids(fetched[s]) \/ \E j \in store[s] : j.id = id
  BY <1>1, IdsBefore DEF Passing
<1> QED
  BY <1>2 DEF Found, Ids

\* What is planned concerns ids that were given out.
LEMMA PlannedIds ==
  ASSUME Passing
  PROVE  \A s \in Sides : /\ \A op \in plan.merges : op[s] \in Nat /\ op[s] < nextId[s]
                          /\ \A op \in plan.creates[s] : op.id \in Nat /\ op.id < nextId[s]
<1>1. TypeOK /\ KeyInv
  BY PassingFacts
<1>2. ASSUME NEW s \in Sides, NEW op \in plan.merges
      PROVE  op[s] \in Nat /\ op[s] < nextId[s]
  <2>1. PICK m \in sess.maps : m.id = op
    BY DEF Passing, Told, TruthInv, MergesMapped
  <2>2. m.id[s] < nextId[s]
    BY <1>1 DEF KeyInv, MapsKnown, KnownMapping
  <2> QED
    BY <1>1, <2>1, <2>2 DEF TypeOK, PlanType
<1>3. ASSUME NEW s \in Sides, NEW op \in plan.creates[s]
      PROVE  op.id \in Nat /\ op.id < nextId[s]
  BY <1>1 DEF TypeOK, PlanType, CreateOp, KeyInv, CreatesFresh, Fresh
<1> QED
  BY <1>2, <1>3

\* A step that leaves the database leaves what it agrees with.
LEMMA DbAgreedStays ==
  ASSUME Passing, UNCHANGED db
  PROVE  Agreed(db, Stored, {}, FALSE)'
<1>1. /\ Agreed(db, Stored, {}, FALSE) /\ LeavesPass(db, Stored, Stored')
      /\ Intact(db, Stored') => CopiesPass(db, Stored, Stored')
      /\ db \in Database
  BY PassingFacts DEF Passing, PruneInv
<1>2. Agreed(db, Stored', {}, FALSE)
  BY <1>1, AgreedStays
<1> QED
  BY <1>2 DEF Agreed

\* Only the mappings and the hash count.
LEMMA SameAgreed ==
  ASSUME NEW d, NEW e, d.maps = e.maps, d.merkle = e.merkle, NEW W, NEW P, NEW b,
         Agreed(d, W, P, b)
  PROVE  Agreed(e, W, P, b)
<1>1. \A s : Hashed(d, W, s) = Hashed(e, W, s)
  BY DEF Hashed
<1>2. \A s : HashIds(d, s) = HashIds(e, s)
  BY DEF HashIds
<1>3. Intact(d, W) <=> Intact(e, W)
  BY DEF Intact
<1>4. HashedPaired(d, W) <=> HashedPaired(e, W)
  BY <1>1 DEF HashedPaired
<1>5. HashedRecorded(d, W, P) <=> HashedRecorded(e, W, P)
  BY <1>1 DEF HashedRecorded
<1>6. \A s, id : Copy(d, s, id) <=> Copy(e, s, id)
  BY <1>2 DEF Copy
<1>7. Copied(d, W) <=> Copied(e, W)
  BY <1>6 DEF Copied
<1> QED
  BY <1>3, <1>4, <1>5, <1>7 DEF Agreed

\* While it waits, a run knows what the database does.
LEMMA IdleAgreed ==
  ASSUME phase' = "idle", sess'.maps = db'.maps, sess'.merkle = db'.merkle,
         Agreed(db, Stored, {}, FALSE)'
  PROVE  RunAgreed'
<1>1. View' = Stored'
  BY DEF View, Stored, TreeBuilt
<1>2. PICK W : W = Stored'
  OBVIOUS
<1>3. Agreed(db', W, {}, FALSE)
  BY <1>2 DEF Agreed
<1>4. Agreed(sess', W, {}, FALSE)
  BY <1>3, SameAgreed
<1> QED
  BY <1>1, <1>2, <1>4 DEF RunAgreed, Early

\* A run that has compared keeps its plan, or loses of it what is in vain.
LEMMA RunAgreedStays ==
  ASSUME Passing, phase \notin Early, phase' \notin Early, UNCHANGED sess,
         plan.merges \subseteq plan'.merges,
         Intact(sess, Stored') /\ Writing => Writing'
  PROVE  RunAgreed'
<1>1. /\ Agreed(sess, Stored, plan.merges, Writing) /\ LeavesPass(sess, Stored, Stored')
      /\ Intact(sess, Stored') => CopiesPass(sess, Stored, Stored')
      /\ sess \in Database
  BY PassingFacts DEF Passing, PruneInv, RunAgreed
<1>2. PICK b, c : b = Writing /\ c = Writing'
  OBVIOUS
<1>3. Agreed(sess, Stored', plan'.merges, c)
  BY <1>1, <1>2, AgreedStays
<1> QED
  BY <1>2, <1>3 DEF RunAgreed, Agreed

-------------------------------------------------------------------------------
(* The steps up to the comparison, and those that end a run. *)

\* A run that ends leaves what the database knows.
LEMMA EndPrune ==
  ASSUME Passing, EndRun, sess'.maps = db'.maps, sess'.merkle = db'.merkle,
         db'.merkle \in {db.merkle, sess.merkle}, Agreed(db, Stored, {}, FALSE)'
  PROVE  PruneInv'
<1>1. /\ phase' = "idle"
      /\ \A s \in Sides : tree'[s].leaves = {} /\ fetched'[s] = {}
      /\ plan'.merges = {}
      /\ \A s \in Sides : plan'.creates[s] = {} /\ plan'.deletes[s] = {}
  BY DEF EndRun, NoTree, EmptyPlan
<1>2. HashesReached' /\ LeavesReached'
  BY <1>1, HashesStay, LeavesStayReached
<1>3. FetchedReached' /\ NothingFetched' /\ MergesFound' /\ SourcesFound'
  BY <1>1 DEF FetchedReached, Reached, NothingFetched, MergesFound, SourcesFound
<1>4. MergesOver' /\ PlanHashed' /\ CurHashed'
  BY <1>1 DEF MergesOver, PlanHashed, CreateIds, CurHashed
<1>5. RunAgreed'
  BY <1>1, IdleAgreed
<1> QED
  BY <1>2, <1>3, <1>4, <1>5 DEF PruneInv, Passing

LEMMA RollbackPrune ==
  ASSUME Passing, Rollback
  PROVE  PruneInv'
BY EndPrune, DbAgreedStays DEF Rollback

\* The run that commits has nothing left to do.
LEMMA FinishPrune ==
  ASSUME Passing, Finish
  PROVE  PruneInv'
<1>1. /\ phase = "apply" /\ EndRun /\ UNCHANGED store
      /\ \A s \in Sides : plan.creates[s] = {} /\ plan.deletes[s] = {}
  BY DEF Finish, CreatesDone, serverVars
<1>2. PICK c : db' = [sess EXCEPT !.cursor = c] /\ sess' = [sess EXCEPT !.cursor = c]
  BY DEF Finish
<1>3. /\ db'.maps = sess.maps /\ db'.merkle = sess.merkle
      /\ sess'.maps = db'.maps /\ sess'.merkle = db'.merkle
  BY <1>2, PassingFacts DEF Database
<1>4. plan.merges = {} /\ ~Writing
  BY <1>1 DEF Passing, PruneInv, MergesOver, Writing
<1>5. Agreed(sess, Stored, {}, FALSE)
  <2>1. Agreed(sess, Stored, plan.merges, Writing)
    BY <1>1 DEF Passing, PruneInv, RunAgreed, Early
  <2> QED
    BY <1>4, <2>1 DEF Agreed
<1>6. Stored' = Stored
  BY <1>1 DEF Stored, LeafOf, IdentityKey
<1>7. Agreed(db', Stored, {}, FALSE)
  BY <1>3, <1>5, SameAgreed
<1>8. Agreed(db, Stored, {}, FALSE)'
  BY <1>6, <1>7
<1> QED
  BY <1>1, <1>3, <1>8, EndPrune

\* A step that neither fetches nor plans, before the comparison.
LEMMA EarlyPrune ==
  ASSUME Passing, UNCHANGED <<db, sess, plan, fetched>>, phase \in Early, phase' \in Early,
         LeavesReached', RunAgreed'
  PROVE  PruneInv'
<1>1. HashesReached' /\ FetchedReached'
  BY HashesStay, FetchedStaysReached
<1>2. NothingFetched'
  BY DEF Passing, PruneInv, NothingFetched
<1>3. MergesFound' /\ SourcesFound' /\ MergesOver' /\ CurHashed'
  <2>1. plan.merges = {}
    BY PassingFacts DEF KeyInv, NothingPlanned
  <2> QED
    BY <2>1 DEF MergesFound, SourcesFound, MergesOver, CurHashed, Early
<1>4. PlanHashed'
  BY DEF Passing, PruneInv, PlanHashed, CreateIds, HashIds
<1> QED
  BY <1>1, <1>2, <1>3, <1>4, DbAgreedStays DEF PruneInv, Passing

LEMMA StartPrune ==
  ASSUME Passing, NEW md \in Modes, Start(md)
  PROVE  PruneInv'
<1>1. /\ phase = "idle" /\ phase' \in {"state", "list"} /\ side' = "a"
      /\ UNCHANGED <<store, db, sess, tree, plan, fetched>>
  BY DEF Start, VisitPhase, workVars, serverVars
<1>2. View' = View
  BY <1>1 DEF View, TreeBuilt, Stored, LeafOf, IdentityKey
<1>3. RunAgreed'
  <2>1. Agreed(sess, View, {}, FALSE)
    BY <1>1 DEF Passing, PruneInv, RunAgreed, Early
  <2> QED
    BY <1>1, <1>2, <2>1 DEF RunAgreed, Early
<1>4. LeavesReached'
  BY <1>1, LeavesStayReached
<1> QED
  BY <1>1, <1>3, <1>4, EarlyPrune DEF Early

\* Reading a state string, before the listing, changes nothing that is compared.
LEMMA ReadStatePrune ==
  ASSUME Passing, NEW s \in Sides, ReadState(s)
  PROVE  PruneInv'
<1>1. /\ phase = "state" /\ phase' = "list"
      /\ UNCHANGED <<store, db, sess, side, plan, fetched>>
  BY DEF ReadState, serverVars
<1>2. \A r \in Sides : tree'[r].leaves = tree[r].leaves
  BY PassingFacts DEF ReadState, TypeOK, Tree
<1>3. View' = View
  BY <1>1, <1>2 DEF View, TreeBuilt, Early, Stored, LeafOf, IdentityKey
<1>4. RunAgreed'
  <2>1. Agreed(sess, View, {}, FALSE)
    BY <1>1 DEF Passing, PruneInv, RunAgreed, Early
  <2> QED
    BY <1>1, <1>3, <2>1 DEF RunAgreed, Early
<1>5. LeavesReached'
  BY <1>2, LeavesStayReached
<1> QED
  BY <1>1, <1>4, <1>5, EarlyPrune DEF Early

\* A listing gives what the side holds.
LEMMA ListPrune ==
  ASSUME Dav, Passing, NEW s \in Sides, List(s)
  PROVE  PruneInv'
<1>1. /\ phase = "list" /\ side = s /\ Built(s)
      /\ UNCHANGED <<store, nextId, db, sess, plan, fetched>>
  BY DEF List, serverVars
<1>2. /\ tree'[s].leaves = Stored[s]
      /\ \A r \in Sides : r # s => tree'[r] = tree[r]
  BY PassingFacts DEF List, TypeOK, Tree, Stored
<1>3. /\ s = "a" => phase' \in {"state", "list"} /\ side' = "b"
      /\ s = "b" => phase' = "compare"
  BY <1>1, SidesFacts DEF Built, VisitPhase, Sides
<1>4. Stored' = Stored
  BY <1>1 DEF Stored, LeafOf, IdentityKey
<1>5. View' = View
  <2> SUFFICES ASSUME NEW r \in Sides
               PROVE  (IF phase' \in Early /\ TreeBuilt(r)' THEN tree'[r].leaves ELSE Stored[r])
                       = (IF phase \in Early /\ TreeBuilt(r) THEN tree[r].leaves ELSE Stored[r])
    BY <1>4 DEF View
  <2>1. CASE r = s
    BY <1>1, <1>2, <2>1 DEF TreeBuilt
  <2>2. CASE r # s
    BY <1>1, <1>2, <1>3, <2>2 DEF TreeBuilt, Early, Sides
  <2> QED
    BY <2>1, <2>2
<1>6. RunAgreed'
  <2>1. Agreed(sess, View, {}, FALSE) /\ phase' \in Early
    BY <1>1, <1>3 DEF Passing, PruneInv, RunAgreed, Early, Sides
  <2> QED
    BY <1>1, <1>5, <2>1 DEF RunAgreed
<1>7. LeavesReached'
  <2> SUFFICES ASSUME NEW r \in Sides, NEW l \in tree'[r].leaves
               PROVE  Reached(store[r], <<l.id, l.fp>>)
    BY <1>1 DEF LeavesReached, Reached
  <2>1. CASE r = s
    <3>1. PICK i \in store[s] : l.id = i.id /\ l.fp = i.ver
      BY <1>2, <2>1, StoredLeaves
    <3>2. i.ver \in Nat /\ StoresFresh
      BY PassingFacts DEF TypeOK, Item
    <3> QED
      BY <2>1, <3>1, <3>2 DEF Reached, StoresFresh, Fresh
  <2>2. CASE r # s
    BY <1>2, <2>2 DEF Passing, PruneInv, LeavesReached
  <2> QED
    BY <2>1, <2>2
<1> QED
  BY <1>1, <1>3, <1>6, <1>7, EarlyPrune DEF Early, Sides

\* Users change what is yet to be listed, and what runs will find.
LEMMA UsersPrune ==
  ASSUME Passing, UNCHANGED <<db, sess, runVars>>
  PROVE  PruneInv'
<1>1. UNCHANGED <<phase, side, tree, plan, fetched, cur>>
  BY DEF runVars, workVars
<1>2. CASE phase \in Early
  <2>1. \A s \in Sides :
          \/ View'[s] = View[s]
          \/ View[s] = Stored[s] /\ View'[s] = Stored'[s]
    BY <1>1 DEF View, TreeBuilt
  <2>2. LeavesPass(sess, Stored, Stored') /\ CopiesPass(sess, Stored, Stored')
    BY <1>2 DEF Passing
  <2>3. PICK X, Y, W, Z : X = View /\ Y = View' /\ W = Stored /\ Z = Stored'
    OBVIOUS
  <2>4. LeavesPass(sess, X, Y)
    BY <2>1, <2>2, <2>3 DEF LeavesPass, Hashed, Digest
  <2>5. CopiesPass(sess, X, Y)
    BY <2>1, <2>2, <2>3 DEF CopiesPass
  <2>6. Agreed(sess, X, {}, FALSE) /\ sess \in Database
    BY <1>2, <2>3, PassingFacts DEF Passing, PruneInv, RunAgreed
  <2>7. Agreed(sess, Y, {}, FALSE)
    BY <2>4, <2>5, <2>6, AgreedStays
  <2>8. RunAgreed'
    BY <1>1, <1>2, <2>3, <2>7 DEF RunAgreed
  <2> QED
    BY <1>1, <1>2, <2>8, EarlyPrune, LeavesStayReached
<1>3. CASE phase \notin Early
  <2>1. Writing' <=> Writing
    BY <1>1 DEF Writing
  <2>2. RunAgreed'
    BY <1>1, <1>3, <2>1, RunAgreedStays
  <2>3. HashesReached' /\ LeavesReached' /\ FetchedReached' /\ NothingFetched'
    BY <1>1, <1>3, HashesStay, LeavesStayReached, FetchedStaysReached DEF NothingFetched
  <2>4. MergesFound' /\ SourcesFound'
    <3>1. \A s \in Sides : \A op \in plan.merges : Found(s, op[s]) => Found(s, op[s])'
      BY <1>1, FoundStays, PlannedIds
    <3>2. \A op \in plan.creates["a"] : Found("a", op.id) => Found("a", op.id)'
      BY <1>1, FoundStays, PlannedIds, SidesFacts
    <3>3. MergesFound /\ SourcesFound
      BY DEF Passing, PruneInv
    <3>4. MergesFound'
      BY <1>1, <3>1, <3>3 DEF MergesFound
    <3>5. SourcesFound'
      BY <1>1, <3>2, <3>3 DEF SourcesFound
    <3> QED
      BY <3>4, <3>5
  <2>5. MergesOver' /\ PlanHashed'
    BY <1>1 DEF Passing, PruneInv, MergesOver, PlanHashed, CreateIds, HashIds
  <2>6. CurHashed'
    <3> SUFFICES ASSUME phase = "merge_b", sess.merkle.kind = "listed", Intact(sess, Stored'),
                        NEW l \in Hashed(sess, Stored', "a"), l.id = cur.ids["a"]
                 PROVE  cur.ok /\ cur.fp = l.fp
      BY <1>1 DEF CurHashed, Intact, Hashed
    <3>1. LeavesPass(sess, Stored, Stored') /\ sess \in Database
      BY PassingFacts DEF Passing
    <3>2. /\ Intact(sess, Stored)
          /\ \A s \in Sides : Hashed(sess, Stored', s) = Hashed(sess, Stored, s)
      BY <3>1, IntactBefore
    <3>3. CurHashed
      BY DEF Passing, PruneInv
    <3> QED
      BY <3>2, <3>3, SidesFacts DEF CurHashed
  <2> QED
    BY <2>2, <2>3, <2>4, <2>5, <2>6, DbAgreedStays DEF PruneInv, Passing
<1> QED
  BY <1>2, <1>3

-------------------------------------------------------------------------------
(* What a comparison makes of leaves that each have a key of their own. *)

\* A leaf has a key and an id of its own, and is a mapping's by the one if by the
\* other.
Distinct(L, M) ==
  /\ \A s \in Sides : \A l, x \in L[s] :
       l.key # NoKey /\ (l.key = x.key => l = x) /\ (l.id = x.id => l = x)
  /\ \A m \in M : \A s \in Sides : \A l \in L[s] : l.key = m.mkey <=> l.id = m.id[s]

\* Nothing is bucketed, and mappings stay where they are.
LEMMA DistinctFacts ==
  ASSUME NEW L \in [Sides -> SUBSET Leaf], NEW M \in SUBSET Mapping, Distinct(L, M)
  PROVE  /\ \A s \in Sides : Keyed(L, s) = L[s] /\ Loose(L, s) = {}
         /\ ViaCache(L, M) = {}
         /\ \A k : Open(L, M, k)
         /\ \A m \in M : Healed(L, M, m) = m
<1>1. ASSUME NEW s \in Sides PROVE Keyed(L, s) = L[s] /\ Loose(L, s) = {}
  <2>1. \A l \in L[s] : l.key # NoKey /\ ~Shared(L, s, l)
    BY DEF Shared, Distinct
  <2> QED
    BY <2>1 DEF Keyed, Loose
<1>2. ViaCache(L, M) = {}
  BY <1>1, SidesFacts DEF ViaCache, LooseIds
<1>3. \A k : Open(L, M, k)
  BY <1>2 DEF Open, MKeys
<1>4. \A m \in M : Healed(L, M, m) = m
  <2> SUFFICES ASSUME NEW m \in M, m.mkey \in OnBoth(L, M)
               PROVE  [m EXCEPT !.id = [s \in Sides |-> At(L, s, m.mkey).id]] = m
    BY DEF Healed
  <2>1. \A s \in Sides : At(L, s, m.mkey).id = m.id[s]
    <3> SUFFICES ASSUME NEW s \in Sides PROVE At(L, s, m.mkey).id = m.id[s]
      OBVIOUS
    <3>1. At(L, s, m.mkey) \in L[s] /\ At(L, s, m.mkey).key = m.mkey
      BY OnBothLeaves
    <3> QED
      BY <3>1 DEF Distinct
  <2> QED
    BY <2>1 DEF Mapping
<1> QED
  BY <1>1, <1>2, <1>3, <1>4

\* A leaf that the other side has no counterpart of is created there, or deleted.
LEMMA LoneLeaves ==
  ASSUME NEW L \in [Sides -> SUBSET Leaf], NEW M \in SUBSET Mapping, Distinct(L, M),
         NEW s \in Sides, NEW l \in L[s], \A x \in L[Other(s)] : x.key # l.key
  PROVE  Creates(L, M, s) # {} \/ Deletes(L, M, s) # {}
<1>1. l \in OnlyOn(L, M, s)
  BY DistinctFacts, SidesFacts DEF OnlyOn, KeyedKeys
<1>2. CASE l.key \in MKeys(M)
  BY <1>1, <1>2 DEF Deletes, MKeys
<1>3. CASE l.key \notin MKeys(M)
  BY <1>1, <1>3 DEF Creates
<1> QED
  BY <1>2, <1>3

\* A mapping that is left has drifted and is merged, lacks an item, or records the
\* listed fingerprints.
LEMMA MappingsTold ==
  ASSUME NEW L \in [Sides -> SUBSET Leaf], NEW M \in SUBSET Mapping, Distinct(L, M),
         NEW m \in MappingsAfter(L, M)
  PROVE  \/ m.id \in Merges(L, M)
         \/ \E s \in Sides : \A l \in L[s] : l.id # m.id[s]
         \/ \A s \in Sides : \A l \in L[s] : l.id = m.id[s] => l.fp = m.fp[s]
<1>1. CASE m \in NewPairs(L, M)
  <2>1. PICK k \in OnBoth(L, M) : m = NewPair(L, k)
    BY <1>1 DEF NewPairs
  <2>2. ASSUME NEW s \in Sides, NEW l \in L[s], l.id = m.id[s] PROVE l.fp = m.fp[s]
    <3>1. PICK x : x = At(L, s, k)
      OBVIOUS
    <3>2. m.id[s] = x.id /\ m.fp[s] = x.fp /\ x \in L[s]
      BY <2>1, <3>1, OnBothLeaves DEF NewPair
    <3> QED
      BY <2>2, <3>2 DEF Distinct
  <2> QED
    BY <2>2
<1>2. CASE m \in M /\ m.mkey \in OnBoth(L, M)
  <2>1. Drifted(L, m) => m.id \in Merges(L, M)
    BY <1>2, DistinctFacts DEF Merges
  <2> QED
    BY <2>1 DEF Drifted
<1>3. CASE m \in M /\ m.mkey \notin OnBoth(L, M)
  <2>1. PICK s \in Sides : m.mkey \notin KeyedKeys(L, s)
    BY <1>3, DistinctFacts, SidesFacts DEF OnBoth
  <2>2. \A l \in L[s] : l.key # m.mkey
    BY <2>1, DistinctFacts DEF KeyedKeys
  <2> QED
    BY <1>3, <2>2 DEF Distinct
<1>4. m \in NewPairs(L, M) \/ m \in M
  BY DistinctFacts DEF MappingsAfter
<1> QED
  BY <1>1, <1>2, <1>3, <1>4

\* A comparison of leaves that are paired, and as their mappings have them, finds
\* nothing to write.
LEMMA NothingToWrite ==
  ASSUME NEW L \in [Sides -> SUBSET Leaf], NEW M \in SUBSET Mapping, Distinct(L, M),
         \A s \in Sides : \A l \in L[s] : \E x \in L[Other(s)] : x.key = l.key,
         \A m \in M : \/ \E s \in Sides : \A l \in L[s] : l.id # m.id[s]
                      \/ \A s \in Sides : \A l \in L[s] : l.id = m.id[s] => l.fp = m.fp[s]
  PROVE  ~HasWrites(Plan(L, M))
<1>1. ASSUME NEW s \in Sides PROVE Creates(L, M, s) = {} /\ Deletes(L, M, s) = {}
  <2>1. OnlyOn(L, M, s) = {}
    BY DistinctFacts, SidesFacts DEF OnlyOn, KeyedKeys
  <2> QED
    BY <2>1, DistinctFacts DEF Creates, Deletes
<1>2. ASSUME NEW m \in M, m.mkey \in OnBoth(L, M) PROVE ~Drifted(L, m)
  <2>1. \A s \in Sides : \E l \in L[s] : l.id = m.id[s]
    <3> SUFFICES ASSUME NEW s \in Sides PROVE \E l \in L[s] : l.id = m.id[s]
      OBVIOUS
    <3>1. At(L, s, m.mkey) \in L[s] /\ At(L, s, m.mkey).key = m.mkey
      BY <1>2, OnBothLeaves
    <3> QED
      BY <3>1 DEF Distinct
  <2> QED
    BY <2>1 DEF Drifted
<1>3. Merges(L, M) = {}
  BY <1>2, DistinctFacts DEF Merges
<1> QED
  BY <1>1, <1>3 DEF HasWrites, Plan

\* Over DAV the listed leaves are distinct.
LEMMA ListedDistinct ==
  ASSUME TypeOK, DavInv, KeyInv
  PROVE  Distinct(Listed, sess.maps)
<1>1. PICK L, M : L = Listed /\ M = sess.maps
  OBVIOUS
<1>2. \A s \in Sides : L[s] = tree[s].leaves
  BY <1>1 DEF Listed
<1>3. ASSUME NEW s \in Sides, NEW l \in L[s]
      PROVE  KeyRef(s, l.id, l.key) /\ Ref(s, l.id, l.key) /\ l.key # NoKey
  <2>1. KeyRef(s, l.id, l.key)
    BY <1>2 DEF KeyRef, Has
  <2>2. l.key \in used
    BY <2>1 DEF Ref, DavInv, RefInv, RefsKnown
  <2> QED
    BY <2>1, <2>2, SentinelAssumption DEF TypeOK, Ref
<1>4. ASSUME NEW s \in Sides, NEW l \in L[s], NEW x \in L[s]
      PROVE  (l.key = x.key => l = x) /\ (l.id = x.id => l = x)
  <2>1. l.id = x.id => l = x
    BY <1>2 DEF KeyInv, LeavesFresh, Fresh
  <2>2. l.key = x.key => l.id = x.id
    BY <1>3 DEF DavInv, RefInv, RefsOne
  <2> QED
    BY <2>1, <2>2
<1>5. ASSUME NEW m \in M, NEW s \in Sides, NEW l \in L[s]
      PROVE  l.key = m.mkey <=> l.id = m.id[s]
  <2>1. KeyRef(s, m.id[s], m.mkey) /\ Ref(s, m.id[s], m.mkey)
    BY <1>1 DEF KeyRef, Maps, Ref
  <2>2. l.key = m.mkey => l.id = m.id[s]
    BY <1>3, <2>1 DEF DavInv, RefInv, RefsOne
  <2>3. l.id = m.id[s] => l.key = m.mkey
    BY <1>3, <2>1 DEF DavInv, RefInv, RefsAgree
  <2> QED
    BY <2>2, <2>3
<1>6. Distinct(L, M)
  BY <1>3, <1>4, <1>5 DEF Distinct
<1> QED
  BY <1>1, <1>6

-------------------------------------------------------------------------------
(* The comparison. *)

\* A comparison that is pruned leaves what the run knows.
LEMMA PrunedPrune ==
  ASSUME Passing, Compare, Prunes(sess.merkle, Listed, Carried)
  PROVE  PruneInv'
<1>1. /\ phase = "compare" /\ phase' = "decide" /\ UNCHANGED <<store, nextId, db, sess, plan, fetched>>
      /\ \A s \in Sides : tree'[s].leaves = {}
  BY PassingFacts DEF Compare, serverVars, TypeOK, Tree
<1>2. sess = db /\ plan.merges = {} /\ \A s \in Sides : plan.creates[s] = {} /\ plan.deletes[s] = {}
  BY <1>1, PassingFacts DEF Passing, DavInv, Control, KeyInv, NothingPlanned, Early
<1>3. Agreed(db, Stored, {}, FALSE)'
  BY <1>1, DbAgreedStays
<1>4. RunAgreed'
  <2>1. PICK W, b : W = Stored' /\ b = Writing'
    OBVIOUS
  <2>2. Agreed(db, W, {}, FALSE)
    BY <1>1, <1>3, <2>1 DEF Agreed
  <2>3. Agreed(db, W, {}, b)
    BY <2>2 DEF Agreed
  <2> QED
    BY <1>1, <1>2, <2>1, <2>3 DEF RunAgreed, Early
<1>5. HashesReached' /\ LeavesReached' /\ FetchedReached' /\ NothingFetched'
  BY <1>1, HashesStay, LeavesStayReached, FetchedStaysReached DEF NothingFetched, Early
<1>6. MergesFound' /\ SourcesFound' /\ MergesOver' /\ CurHashed'
  BY <1>1 DEF MergesFound, SourcesFound, MergesOver, CurHashed
<1>7. PlanHashed'
  BY <1>1, <1>2 DEF PlanHashed, CreateIds
<1> QED
  BY <1>3, <1>4, <1>5, <1>6, <1>7 DEF PruneInv, Passing

\* What was listed and is there as it was listed is what is hashed.
LEMMA HashedListed ==
  ASSUME Dav, TypeOK, DavInv, KeyInv, NEW d, NEW s \in Sides,
         d.merkle.of[s] = Digest(Listed, s), d.merkle.of[s] \subseteq Digest(Stored, s)
  PROVE  Hashed(d, Stored, s) = tree[s].leaves
<1>1. ASSUME NEW l \in Stored[s], NEW x \in tree[s].leaves, l.id = x.id, l.fp = x.fp
      PROVE  l = x
  <2>1. PICK i \in store[s] : l = LeafOf(s, i) /\ l.id = i.id /\ l.key = i.key
    BY StoredLeaves
  <2>2. Ref(s, l.id, l.key) /\ Ref(s, l.id, x.key)
    BY <1>1, <2>1 DEF Ref, KeyRef, Has
  <2>3. l.key = x.key
    BY <2>2 DEF DavInv, RefInv, RefsAgree
  <2>4. x \in Leaf
    BY DEF TypeOK, Tree
  <2>5. x = [id |-> x.id, key |-> x.key, fp |-> x.fp]
    BY <2>4 DEF Leaf
  <2>6. l = [id |-> l.id, key |-> l.key, fp |-> l.fp]
    BY <2>1 DEF LeafOf
  <2> QED
    BY <1>1, <2>3, <2>5, <2>6
<1>2. Listed[s] = tree[s].leaves
  BY DEF Listed
<1>3. ASSUME NEW l \in Hashed(d, Stored, s) PROVE l \in tree[s].leaves
  <2>1. PICK x \in tree[s].leaves : <<l.id, l.fp>> = <<x.id, x.fp>>
    BY <1>2 DEF Hashed, Digest
  <2> QED
    BY <1>1, <2>1 DEF Hashed
<1>4. ASSUME NEW x \in tree[s].leaves PROVE x \in Hashed(d, Stored, s)
  <2>1. <<x.id, x.fp>> \in d.merkle.of[s]
    BY <1>2 DEF Digest
  <2>2. PICK l \in Stored[s] : <<l.id, l.fp>> = <<x.id, x.fp>>
    BY <2>1 DEF Digest
  <2> QED
    BY <1>1, <2>1, <2>2 DEF Hashed
<1> QED
  BY <1>3, <1>4

\* A comparison that is made stores the hash of what was listed.
LEMMA ComparedPrune ==
  ASSUME Dav, Passing, Compare, ~Prunes(sess.merkle, Listed, Carried)
  PROVE  PruneInv'
<1>1. TypeOK /\ DavInv /\ KeyInv
  BY PassingFacts DEF Passing
<1>2. PICK L, M : L = Listed /\ M = sess.maps
  OBVIOUS
<1>3. /\ L \in [Sides -> SUBSET Leaf] /\ M \in SUBSET Mapping
      /\ \A s \in Sides : L[s] = tree[s].leaves
      /\ Distinct(L, M)
  BY <1>1, <1>2, ListedDistinct DEF Listed, TypeOK, Tree, Database
<1>4. /\ phase = "compare" /\ phase' = "decide" /\ UNCHANGED <<store, nextId, db, fetched>>
      /\ \A s \in Sides : tree'[s].leaves = {} /\ fetched[s] = {}
  BY <1>1 DEF Compare, serverVars, TypeOK, Tree, Passing, PruneInv, NothingFetched, Early
<1>5. /\ plan' = Plan(L, M) /\ sess'.maps = MappingsAfter(L, M)
      /\ sess'.merkle = Combine(L, Carried)
  BY <1>1, <1>2 DEF Compare, TypeOK, Database
<1>6. /\ plan'.merges = Merges(L, M)
      /\ \A s \in Sides : /\ plan'.creates[s] = Creates(L, M, s)
                          /\ plan'.deletes[s] = Deletes(L, M, s)
  BY <1>5 DEF Plan
<1>7. /\ sess'.merkle.kind = "listed" => \A s \in Sides : sess'.merkle.of[s] = Digest(L, s)
      /\ \A s \in Sides : sess'.merkle.of[s] \subseteq Digest(L, s)
  BY <1>5 DEF Combine, Mixed
<1>8. Agreed(db, Stored, {}, FALSE)'
  BY <1>4, DbAgreedStays
<1>9. Stored' = Stored
  BY <1>4 DEF Stored, LeafOf, IdentityKey
<1>10. PICK W, e : W = Stored /\ e = sess'
  OBVIOUS
<1>11. ASSUME e.merkle.kind = "listed", Intact(e, W)
       PROVE  /\ HashedPaired(e, W) \/ Writing'
              /\ HashedRecorded(e, W, Merges(L, M))
  <2>1. \A s \in Sides : Hashed(e, W, s) = L[s]
    BY <1>1, <1>2, <1>3, <1>7, <1>10, <1>11, HashedListed DEF Intact
  <2>2. HashedPaired(e, W) \/ Writing'
    <3> SUFFICES ASSUME ~HashedPaired(e, W) PROVE Writing'
      OBVIOUS
    <3>1. PICK s \in Sides : \E l \in L[s] : \A x \in L[Other(s)] : x.key # l.key
      BY <2>1, SidesFacts DEF HashedPaired
    <3>2. Creates(L, M, s) # {} \/ Deletes(L, M, s) # {}
      BY <1>3, <3>1, LoneLeaves
    <3> QED
      BY <1>6, <3>2 DEF Writing
  <2>3. HashedRecorded(e, W, Merges(L, M))
    <3> SUFFICES ASSUME NEW m \in MappingsAfter(L, M)
                 PROVE  \/ m.id \in Merges(L, M)
                        \/ \E s \in Sides : \A l \in L[s] : l.id # m.id[s]
                        \/ \A s \in Sides : \A l \in L[s] : l.id = m.id[s] => l.fp = m.fp[s]
      BY <1>5, <1>10, <2>1 DEF HashedRecorded
    <3> QED
      BY <1>3, MappingsTold
  <2> QED
    BY <2>2, <2>3
<1>12. RunAgreed'
  <2>1. PICK b : b = Writing'
    OBVIOUS
  <2>2. Agreed(e, W, Merges(L, M), b)
    BY <1>11, <2>1 DEF Agreed
  <2> QED
    BY <1>4, <1>6, <1>9, <1>10, <2>1, <2>2 DEF RunAgreed, Early
<1>13. HashesReached'
  <2>1. ASSUME NEW s \in Sides, NEW h \in sess'.merkle.of[s]
        PROVE  h[1] < nextId[s] /\ Reached(store[s], h)
    <3>1. PICK l \in tree[s].leaves : h = <<l.id, l.fp>>
      BY <1>3, <1>7 DEF Digest
    <3> QED
      BY <1>1, <3>1 DEF KeyInv, LeavesFresh, Fresh, Passing, PruneInv, LeavesReached
  <2>2. \A s \in Sides : \A h \in db.merkle.of[s] : h[1] < nextId[s] /\ Reached(store[s], h)
    BY DEF Passing, PruneInv, HashesReached
  <2> QED
    BY <1>4, <2>1, <2>2 DEF HashesReached, Reached
<1>14. LeavesReached' /\ FetchedReached' /\ NothingFetched'
  BY <1>4 DEF LeavesReached, FetchedReached, Reached, NothingFetched
<1>15. MergesFound' /\ SourcesFound' /\ MergesOver' /\ CurHashed'
  BY <1>4 DEF MergesFound, SourcesFound, MergesOver, CurHashed
<1>16. PlanHashed'
  <2> SUFFICES ASSUME sess'.merkle.kind = "listed", NEW s \in Sides,
                      NEW id \in CreateIds(s)' \cup plan'.deletes[s]
               PROVE  id \in HashIds(sess', s)
    BY DEF PlanHashed, HashIds
  <2>1. \E k : Has(L[s], id, k)
    BY <1>1, <1>2, ComparedHolds DEF Compared, CreateIds
  <2>2. PICK l \in L[s] : l.id = id
    BY <2>1 DEF Has
  <2>3. <<id, l.fp>> \in sess'.merkle.of[s]
    BY <1>7, <2>2 DEF Digest
  <2> QED
    BY <2>3 DEF HashIds
<1> QED
  BY <1>8, <1>12, <1>13, <1>14, <1>15, <1>16 DEF PruneInv, Passing

LEMMA ComparePrune ==
  ASSUME Dav, Passing, Compare
  PROVE  PruneInv'
BY PrunedPrune, ComparedPrune

-------------------------------------------------------------------------------
(* Merges. *)

\* A step after the comparison that keeps hashes and plans nothing more.
LEMMA LaterPrune ==
  ASSUME Passing, UNCHANGED db, sess'.merkle = sess.merkle, phase' \notin Early,
         \A s \in Sides : /\ tree'[s].leaves \subseteq tree[s].leaves
                          /\ fetched'[s] \subseteq fetched[s] \cup store[s]
                          /\ plan'.creates[s] \subseteq plan.creates[s]
                          /\ plan'.deletes[s] \subseteq plan.deletes[s],
         RunAgreed', MergesFound', SourcesFound', MergesOver', CurHashed'
  PROVE  PruneInv'
<1>1. HashesReached' /\ LeavesReached' /\ FetchedReached' /\ NothingFetched'
  BY HashesStay, LeavesStayReached, FetchedStaysReached DEF NothingFetched
<1>2. PlanHashed'
  BY DEF Passing, PruneInv, PlanHashed, CreateIds, HashIds
<1> QED
  BY <1>1, <1>2, DbAgreedStays DEF PruneInv, Passing

LEMMA ProceedPrune ==
  ASSUME Passing, Proceed
  PROVE  PruneInv'
<1>1. /\ phase = "decide" /\ UNCHANGED <<db, sess, side, tree, plan, fetched>>
      /\ phase' = IF plan.merges # {} THEN "fetch" ELSE PhaseAfter(plan)
      /\ side = "a"
  BY DEF Proceed, workVars, Passing, DavInv, Control
<1>2. phase' \in {"fetch", "source", "apply"} /\ (phase' # "fetch" => plan.merges = {})
  BY <1>1 DEF PhaseAfter
<1>3. RunAgreed'
  <2>1. Writing' <=> Writing
    BY <1>1 DEF Writing
  <2> QED
    BY <1>1, <1>2, <2>1, RunAgreedStays DEF Early
<1>4. MergesFound' /\ SourcesFound' /\ MergesOver' /\ CurHashed'
  BY <1>1, <1>2 DEF MergesFound, SourcesFound, MergesOver, CurHashed
<1> QED
  BY <1>1, <1>2, <1>3, <1>4, LaterPrune DEF Early

\* Without a failure a read gives all that is there.
LEMMA AllRead ==
  ASSUME Passing, NEW s \in Sides, NEW ids, NEW r \in Readings(s, ids)
  PROVE  r.items = {i \in store[s] : i.id \in ids}
BY DEF Passing, PruneInv, Readings, Fallible

LEMMA FetchMergesPrune ==
  ASSUME Passing, NEW s \in Sides, FetchMerges(s)
  PROVE  PruneInv'
<1>1. PICK ids : ids = {op[s] : op \in plan.merges}
  OBVIOUS
<1>2. PICK r \in Readings(s, ids) : fetched' = [fetched EXCEPT ![s] = r.items]
  BY <1>1 DEF FetchMerges
<1>3. /\ phase = "fetch" /\ side = s /\ UNCHANGED <<store, db, sess, tree, plan>>
      /\ \/ s = "a" /\ side' = "b" /\ phase' = "fetch"
         \/ s = "b" /\ side' = "a" /\ phase' = "merge"
  BY DEF FetchMerges, serverVars, Sides
<1>4. fetched'[s] = {i \in store[s] : i.id \in ids} /\ \A q \in Sides : q # s => fetched'[q] = fetched[q]
  BY <1>2, AllRead, PassingFacts DEF TypeOK
<1>5. \A op \in plan.merges : Found(s, op[s])'
  BY <1>1, <1>3, <1>4 DEF Found, Ids
<1>6. MergesFound'
  <2>1. s = "b" => \A op \in plan.merges : Found("a", op["a"])'
    BY <1>3, <1>4, SidesFacts DEF Passing, PruneInv, MergesFound, Found
  <2> QED
    BY <1>3, <1>5, <2>1 DEF MergesFound, Sides
<1>7. RunAgreed'
  <2>1. Writing' <=> Writing
    BY <1>3 DEF Writing
  <2> QED
    BY <1>3, <2>1, RunAgreedStays DEF Early
<1>8. SourcesFound' /\ MergesOver' /\ CurHashed'
  BY <1>3 DEF SourcesFound, MergesOver, CurHashed
<1> QED
  BY <1>3, <1>4, <1>6, <1>7, <1>8, LaterPrune DEF Early

\* What ends a merge leaves the others as they were.
LEMMA MergeDonePrune ==
  ASSUME Passing, NEW op, MergeDone(op), phase \in {"merge", "merge_b"},
         UNCHANGED <<db, side, tree>>, sess'.merkle = sess.merkle, RunAgreed'
  PROVE  PruneInv'
<1>1. TypeOK
  BY PassingFacts
<1>2. /\ plan'.merges = plan.merges \ {op}
      /\ phase' = IF plan'.merges # {} THEN "merge" ELSE PhaseAfter(plan')
      /\ fetched' = IF plan'.merges # {} THEN fetched ELSE [s \in Sides |-> {}]
      /\ \A s \in Sides : /\ plan'.creates[s] = plan.creates[s]
                          /\ plan'.deletes[s] = plan.deletes[s]
  BY <1>1 DEF MergeDone, TypeOK, PlanType
<1>3. phase' \in {"merge", "source", "apply"} /\ (phase' # "merge" => plan'.merges = {})
  BY <1>2 DEF PhaseAfter
<1>4. side' = "a"
  BY DEF Passing, DavInv, Control
<1>5. MergesFound'
  <2> SUFFICES ASSUME phase' = "merge", NEW s \in Sides, NEW o \in plan'.merges
               PROVE  Found(s, o[s])'
    BY <1>3 DEF MergesFound
  <2>1. o \in plan.merges /\ fetched'[s] = fetched[s]
    BY <1>2
  <2>2. Found(s, o[s])
    BY <2>1 DEF Passing, PruneInv, MergesFound
  <2> QED
    BY <2>1, <2>2, FoundStays, PlannedIds
<1>6. SourcesFound' /\ MergesOver' /\ CurHashed'
  BY <1>3, <1>4 DEF SourcesFound, MergesOver, CurHashed
<1>7. \A s \in Sides : fetched'[s] \subseteq fetched[s] \cup store[s]
  BY <1>2
<1> QED
  BY <1>2, <1>3, <1>5, <1>6, <1>7, LaterPrune DEF Early

\* A merge is in vain only when one of its items is gone.
LEMMA MergeSkippedPrune ==
  ASSUME Dav, Passing, NEW op \in plan.merges, MergeSkipped(op)
  PROVE  PruneInv'
<1>1. /\ phase = "merge" /\ MergeDone(op) /\ UNCHANGED <<store, db, sess, side, tree>>
      /\ \/ \E s \in Sides : op[s] \notin Ids(fetched[s])
         \/ op["a"] \notin {m.id["a"] : m \in sess.maps}
  BY DEF MergeSkipped, serverVars
<1>2. PICK s \in Sides : op[s] \notin Ids(store[s])
  <2>1. \E m \in sess.maps : m.id = op
    BY DEF Passing, Told, TruthInv, MergesMapped
  <2>2. PICK s \in Sides : op[s] \notin Ids(fetched[s])
    BY <1>1, <2>1
  <2> QED
    BY <1>1, <2>2 DEF Passing, PruneInv, MergesFound, Found
<1>3. /\ plan'.merges = plan.merges \ {op} /\ phase' \notin Early
      /\ \A r \in Sides : /\ plan'.creates[r] = plan.creates[r]
                          /\ plan'.deletes[r] = plan.deletes[r]
  BY <1>1, PassingFacts, MergeDoneDav, MergeDoneFewer
<1>4. Stored' = Stored
  BY <1>1 DEF Stored, LeafOf, IdentityKey
<1>5. \A l \in Stored[s] : l.id # op[s]
  BY <1>2, StoredLeaves DEF Ids
<1>6. PICK P, W, b : P = plan.merges /\ W = Stored /\ b = Writing
  OBVIOUS
<1>7. Agreed(sess, W, P, b)
  BY <1>1, <1>6 DEF Passing, PruneInv, RunAgreed, Early
<1>8. Agreed(sess, W, P \ {op}, b)
  <2>1. HashedRecorded(sess, W, P) => HashedRecorded(sess, W, P \ {op})
    BY <1>5, <1>6 DEF HashedRecorded, Hashed
  <2> QED
    BY <1>7, <2>1 DEF Agreed
<1>9. Writing' <=> b
  BY <1>3, <1>6 DEF Writing
<1>10. RunAgreed'
  BY <1>1, <1>3, <1>4, <1>6, <1>8, <1>9 DEF RunAgreed, Agreed
<1> QED
  BY <1>1, <1>10, MergeDonePrune

\* A push to an item that is then as it was hashed wrote nothing, and holds its
\* fingerprint.
LEMMA PushIntact ==
  ASSUME Dav, Passing, NEW s \in Sides, NEW x \in fetched[s], NEW v \in Values,
         NEW w \in Pushes(s, x, v), store'[s] = w.items,
         NEW l \in Hashed(sess, Stored', s), l.id = x.id
  PROVE  w.ok /\ w.fp = l.fp
<1>1. TypeOK /\ StoresFresh
  BY PassingFacts
<1>2. l \in Stored[s]
  BY DEF Passing, LeavesPass
<1>3. PICK i \in store[s] : l.id = i.id /\ l.fp = i.ver
  BY <1>2, StoredLeaves
<1>4. <<l.id, l.fp>> \in sess.merkle.of[s]
  BY DEF Hashed
<1>5. l.fp <= x.ver /\ x.ver <= i.ver
  BY <1>3, <1>4 DEF Passing, PruneInv, FetchedReached, Reached, Told, TruthInv, FetchedTrue, Seen
<1>6. x \in Item /\ i \in Item /\ x.ver \in Nat /\ i.ver \in Nat
  BY <1>1 DEF TypeOK, Item
<1>7. CASE v = x.val
  BY <1>3, <1>5, <1>6, <1>7 DEF Pushes
<1>8. CASE v # x.val
  <2>1. w \in Updates(s, x, v) /\ ~Fallible /\ x.id \in Ids(store[s])
    BY <1>3, <1>8 DEF Pushes, Passing, PruneInv, Fallible, Ids
  <2>2. PICK y \in store[s] :
          /\ y.id = x.id
          /\ Updated(s, x, v) = (store[s] \ {y}) \cup {EditedItem(y, v)}
    BY <1>1, <1>6, <2>1, UpdatedEdits DEF Ids
  <2>3. y = i
    BY <1>1, <1>3, <2>2 DEF StoresFresh, Fresh
  <2>4. store'[s] = (store[s] \ {i}) \cup {EditedItem(i, v)}
    <3>1. {z \in store[s] : z.id = x.id} = {i}
      BY <1>1, <1>3 DEF StoresFresh, Fresh
    <3>2. Target(s, x) = {i}
      BY <2>1, <3>1 DEF Target
    <3> QED
      BY <2>1, <2>2, <2>3, <3>2, UpdateSucceeds
  <2>5. EditedItem(i, v).ver = i.ver + 1
    BY <1>6, EditedItemFacts
  <2>6. PICK j \in store'[s] : l.id = j.id /\ l.fp = j.ver
    <3>1. l \in Stored'[s]
      BY DEF Hashed
    <3> QED
      BY <3>1 DEF Stored, LeafOf
  <2>7. \A z \in store[s] \ {i} : z.id # l.id
    BY <1>1, <1>3 DEF StoresFresh, Fresh
  <2>8. l.fp = i.ver + 1
    BY <2>4, <2>5, <2>6, <2>7
  <2> QED
    BY <1>3, <1>6, <2>8
<1> QED
  BY <1>7, <1>8

LEMMA MergeWriteAPrune ==
  ASSUME Dav, Passing, NEW op \in plan.merges, MergeWriteA(op)
  PROVE  PruneInv'
<1>1. /\ phase = "merge" /\ phase' = "merge_b"
      /\ UNCHANGED <<nextId, db, sess, side, tree, plan, fetched>>
  BY DEF MergeWriteA
<1>2. PICK x \in fetched["a"], y \in fetched["b"], m \in sess.maps :
        /\ x.id = op["a"]
        /\ \E v \in MergeResults(x, y, m.snap) : \E w \in Pushes("a", x, v) :
             /\ SetStore("a", w.items)
             /\ cur' = [ids |-> op, mkey |-> m.mkey, val |-> v, fp |-> w.fp, ok |-> w.ok]
  BY DEF MergeWriteA
<1>3. PICK v \in MergeResults(x, y, m.snap) : \E w \in Pushes("a", x, v) :
        /\ SetStore("a", w.items)
        /\ cur' = [ids |-> op, mkey |-> m.mkey, val |-> v, fp |-> w.fp, ok |-> w.ok]
  BY <1>2
<1>4. PICK w \in Pushes("a", x, v) :
        /\ SetStore("a", w.items)
        /\ cur' = [ids |-> op, mkey |-> m.mkey, val |-> v, fp |-> w.fp, ok |-> w.ok]
  BY <1>3
<1>5. cur'.ids = op /\ cur'.fp = w.fp /\ cur'.ok = w.ok
  BY <1>4
<1>6. v \in Values /\ store'["a"] = w.items
  BY <1>4, PassingFacts, MergeResultsTyped, SetStoreServers, SidesFacts DEF TypeOK
<1>7. CurHashed'
  <2> SUFFICES ASSUME NEW l \in Hashed(sess', Stored', "a"), l.id = op["a"]
               PROVE  w.ok /\ w.fp = l.fp
    BY <1>5 DEF CurHashed, Hashed
  <2>1. l \in Hashed(sess, Stored', "a")
    BY <1>1
  <2> QED
    BY <1>2, <1>6, <2>1, PushIntact, SidesFacts
<1>8. MergesFound'
  <2>1. \A s \in Sides : \A o \in plan.merges : Found(s, o[s])'
    BY <1>1, FoundStays, PlannedIds DEF Passing, PruneInv, MergesFound
  <2> QED
    BY <1>1, <2>1 DEF MergesFound
<1>9. RunAgreed'
  <2>1. Writing' <=> Writing
    BY <1>1 DEF Writing
  <2> QED
    BY <1>1, <2>1, RunAgreedStays DEF Early
<1>10. SourcesFound' /\ MergesOver'
  BY <1>1 DEF SourcesFound, MergesOver
<1> QED
  BY <1>1, <1>7, <1>8, <1>9, <1>10, LaterPrune DEF Early

\* What a recorded merge makes of the mappings.
LEMMA RecordedFingerprints ==
  ASSUME TypeOK, NEW fpb \in Nat, NEW ok
  PROVE  /\ \A m \in RecordMerge(sess.maps, fpb, ok) : \E o \in sess.maps :
              /\ m.id = o.id /\ (o.mkey # cur.mkey => m = o)
              /\ o.mkey = cur.mkey /\ cur.ok /\ ok => m.fp["a"] = cur.fp /\ m.fp["b"] = fpb
         /\ \A o \in sess.maps : \E m \in RecordMerge(sess.maps, fpb, ok) : m.id = o.id
<1> DEFINE R(o) == IF o.mkey = cur.mkey /\ cur.ok /\ ok
                     THEN [o EXCEPT !.fp = [s \in Sides |-> IF s = "a" THEN cur.fp ELSE fpb],
                                    !.snap = cur.val]
                     ELSE o
<1>1. RecordMerge(sess.maps, fpb, ok) = {R(o) : o \in sess.maps}
  BY DEF RecordMerge
<1>2. ASSUME NEW o \in sess.maps
      PROVE  /\ R(o).id = o.id /\ (o.mkey # cur.mkey => R(o) = o)
             /\ o.mkey = cur.mkey /\ cur.ok /\ ok => R(o).fp["a"] = cur.fp /\ R(o).fp["b"] = fpb
  BY SidesFacts DEF TypeOK, Database, Mapping
<1> HIDE DEF R
<1> QED
  BY <1>1, <1>2

LEMMA MergeWriteBPrune ==
  ASSUME Dav, Passing, MergeWriteB
  PROVE  PruneInv'
<1>1. /\ phase = "merge_b" /\ MergeDone(cur.ids) /\ UNCHANGED <<nextId, db, side, tree>>
      /\ TypeInv /\ TypeOK /\ sess \in Database
  BY PassingFacts DEF MergeWriteB
<1>2. PICK y \in fetched["b"] : \E w \in Pushes("b", y, cur.val) :
        /\ y.id = cur.ids["b"]
        /\ SetStore("b", w.items)
        /\ sess' = [sess EXCEPT !.maps = RecordMerge(@, w.fp, w.ok)]
  BY DEF MergeWriteB
<1>3. PICK w \in Pushes("b", y, cur.val) :
        /\ y.id = cur.ids["b"]
        /\ SetStore("b", w.items)
        /\ sess' = [sess EXCEPT !.maps = RecordMerge(@, w.fp, w.ok)]
  BY <1>2
<1>4. y \in Item /\ cur.val \in Values /\ w.fp \in Nat /\ store'["b"] = w.items
  BY <1>1, <1>3, PushesTyped, SetStoreServers, SidesFacts DEF TypeInv, CurrentIsSet, TypeOK
<1>5. PICK M :
        /\ M = RecordMerge(sess.maps, w.fp, w.ok)
        /\ \A m \in M : \E o \in sess.maps :
             /\ m.id = o.id /\ (o.mkey # cur.mkey => m = o)
             /\ o.mkey = cur.mkey /\ cur.ok /\ w.ok => m.fp["a"] = cur.fp /\ m.fp["b"] = w.fp
        /\ \A o \in sess.maps : \E m \in M : m.id = o.id
  <2>1. PICK f, k : f = w.fp /\ k = w.ok
    OBVIOUS
  <2>2. PICK M : M = RecordMerge(sess.maps, f, k)
    OBVIOUS
  <2>3. f \in Nat
    BY <1>4, <2>1
  <2>4. /\ \A m \in M : \E o \in sess.maps :
             /\ m.id = o.id /\ (o.mkey # cur.mkey => m = o)
             /\ o.mkey = cur.mkey /\ cur.ok /\ k => m.fp["a"] = cur.fp /\ m.fp["b"] = f
        /\ \A o \in sess.maps : \E m \in M : m.id = o.id
    BY <1>1, <2>2, <2>3, RecordedFingerprints
  <2> QED
    BY <2>1, <2>2, <2>4
<1>6. sess'.maps = M /\ sess'.merkle = sess.merkle
  BY <1>1, <1>3, <1>5 DEF Database
<1>7. /\ plan'.merges = plan.merges \ {cur.ids} /\ phase' \notin Early
      /\ \A r \in Sides : /\ plan'.creates[r] = plan.creates[r]
                          /\ plan'.deletes[r] = plan.deletes[r]
  BY <1>1, MergeDoneDav, MergeDoneFewer
<1>8. PICK W, X, P, b, e : W = Stored /\ X = Stored' /\ P = plan.merges /\ b = Writing /\ e = sess'
  OBVIOUS
<1>9. LeavesPass(sess, W, X) /\ (Intact(sess, X) => CopiesPass(sess, W, X))
  BY <1>8 DEF Passing
<1>10. Agreed(sess, X, P, b)
  <2>1. Agreed(sess, W, P, b)
    BY <1>1, <1>8 DEF Passing, PruneInv, RunAgreed, Early
  <2> QED
    BY <1>1, <1>9, <2>1, AgreedStays
<1>11. PICK n \in sess.maps : n.id = cur.ids /\ n.mkey = cur.mkey
  BY <1>1 DEF Passing, Told, TruthInv, CurMerged
<1>12. ASSUME sess.merkle.kind = "listed", Intact(sess, X), HashedRecorded(sess, X, P)
       PROVE  HashedRecorded(e, X, P \ {cur.ids})
  <2>1. Intact(sess, W) /\ \A s \in Sides : Hashed(sess, X, s) = Hashed(sess, W, s)
    BY <1>1, <1>9, <1>12, IntactBefore
  <2>2. \A s \in Sides : Hashed(e, X, s) = Hashed(sess, X, s)
    BY <1>6, <1>8 DEF Hashed
  <2>3. \A l \in Hashed(sess, X, "a") : l.id = cur.ids["a"] => cur.ok /\ cur.fp = l.fp
    BY <1>1, <1>8, <1>12, <2>1, SidesFacts DEF Passing, PruneInv, CurHashed
  <2>4. \A l \in Hashed(sess, X, "b") : l.id = cur.ids["b"] => w.ok /\ w.fp = l.fp
    BY <1>3, <1>4, <1>8, PushIntact, SidesFacts
  <2> SUFFICES ASSUME NEW m \in M
               PROVE  \/ m.id \in P \ {cur.ids}
                      \/ \E s \in Sides : \A l \in Hashed(sess, X, s) : l.id # m.id[s]
                      \/ \A s \in Sides : \A l \in Hashed(sess, X, s) : l.id = m.id[s] => l.fp = m.fp[s]
    BY <1>6, <1>8, <2>2 DEF HashedRecorded
  <2>5. PICK o \in sess.maps :
          /\ m.id = o.id /\ (o.mkey # cur.mkey => m = o)
          /\ o.mkey = cur.mkey /\ cur.ok /\ w.ok => m.fp["a"] = cur.fp /\ m.fp["b"] = w.fp
    BY <1>5
  <2>6. CASE o.mkey # cur.mkey
    <3>1. o.id # cur.ids
      BY <1>11, <2>6, SidesFacts DEF Passing, Told, Sound, Apart
    <3> QED
      BY <1>12, <2>5, <2>6, <3>1 DEF HashedRecorded
  <2>7. CASE o.mkey = cur.mkey
    <3>1. o = n
      BY <1>11, <2>7 DEF Passing, Told, MapsUnique, Unique
    <3>2. m.id = cur.ids
      BY <1>11, <2>5, <3>1
    <3>3. CASE \A s \in Sides : \E l \in Hashed(sess, X, s) : l.id = m.id[s]
      <4>1. cur.ok /\ w.ok
        BY <2>3, <2>4, <3>2, <3>3, SidesFacts
      <4> QED
        BY <2>3, <2>4, <2>5, <2>7, <3>2, <4>1 DEF Sides
    <3> QED
      BY <3>3
  <2> QED
    BY <2>6, <2>7
<1>13. Agreed(e, X, P \ {cur.ids}, b)
  <2>1. e.merkle = sess.merkle /\ (Intact(e, X) <=> Intact(sess, X))
    BY <1>6, <1>8 DEF Intact
  <2>2. HashedPaired(sess, X) => HashedPaired(e, X)
    BY <2>1 DEF HashedPaired, Hashed
  <2>3. Copied(sess, X) => Copied(e, X)
    <3>1. \A o \in sess.maps : \E m \in e.maps : m.id = o.id
      BY <1>5, <1>6, <1>8
    <3>2. \A s, id : Copy(sess, s, id) => Copy(e, s, id)
      BY <2>1, <3>1 DEF Copy, HashIds
    <3> QED
      BY <3>2 DEF Copied
  <2> QED
    BY <1>10, <1>12, <2>1, <2>2, <2>3 DEF Agreed
<1>14. Writing' <=> b
  BY <1>7, <1>8 DEF Writing
<1>15. RunAgreed'
  BY <1>7, <1>8, <1>13, <1>14 DEF RunAgreed, Agreed
<1> QED
  BY <1>1, <1>6, <1>15, MergeDonePrune

-------------------------------------------------------------------------------
(* Creates and deletes. *)

\* What the run knows of hashes that are not of listings, or not intact, is nothing.
LEMMA NothingAgreed ==
  ASSUME phase' \notin Early, sess'.merkle = sess.merkle,
         ~(sess.merkle.kind = "listed" /\ Intact(sess, Stored'))
  PROVE  RunAgreed'
BY DEF RunAgreed, Agreed, Intact

\* The sources that are left out are of items that were hashed and are gone.
LEMMA FetchSourcesPrune ==
  ASSUME Dav, Passing, NEW s \in Sides, FetchSources(s)
  PROVE  PruneInv'
<1>1. PICK r \in Readings(s, CreateIds(s)) :
        /\ fetched' = [fetched EXCEPT ![s] = r.items]
        /\ IF s = "a" THEN side' = "b" /\ UNCHANGED <<phase, plan, matched>>
           ELSE side' = "a" /\ phase' = "apply" /\ SourcesRead([fetched EXCEPT ![s] = r.items])
  BY DEF FetchSources
<1>2. /\ phase = "source" /\ side = s /\ UNCHANGED <<store, db, sess, tree>>
      /\ plan.merges = {} /\ TypeOK
  BY PassingFacts DEF FetchSources, serverVars, Passing, PruneInv, MergesOver
<1>3. /\ fetched'[s] = {i \in store[s] : i.id \in CreateIds(s)}
      /\ \A q \in Sides : q # s => fetched'[q] = fetched[q]
  BY <1>1, <1>2, AllRead DEF TypeOK
<1>4. \A op \in plan.creates[s] : op.id \in Ids(fetched'[s]) \/ op.id \notin Ids(store[s])
  BY <1>3 DEF CreateIds, Ids
<1>5. \A q \in Sides : fetched'[q] \subseteq fetched[q] \cup store[q]
  BY <1>3
<1>6. CASE s = "a"
  <2>1. phase' = "source" /\ side' = "b" /\ UNCHANGED plan
    BY <1>1, <1>2, <1>6
  <2>2. SourcesFound'
    BY <1>2, <1>4, <1>6, <2>1 DEF SourcesFound, Found
  <2>3. MergesFound' /\ MergesOver' /\ CurHashed'
    BY <1>2, <2>1 DEF MergesFound, MergesOver, CurHashed
  <2>4. RunAgreed'
    <3>1. Writing' <=> Writing
      BY <2>1 DEF Writing
    <3> QED
      BY <1>2, <2>1, <3>1, RunAgreedStays DEF Early
  <2> QED
    BY <1>2, <1>5, <2>1, <2>2, <2>3, <2>4, LaterPrune DEF Early
<1>7. CASE s = "b"
  <2>1. /\ phase' = "apply" /\ side' = "a"
        /\ plan' = [plan EXCEPT !.creates =
                     [q \in Sides |-> {op \in plan.creates[q] : op.id \in Ids(fetched'[q])}]]
    BY <1>1, <1>7, SidesFacts DEF SourcesRead
  <2>2. /\ plan'.merges = plan.merges /\ plan'.deletes = plan.deletes
        /\ \A q \in Sides : plan'.creates[q] = {op \in plan.creates[q] : op.id \in Ids(fetched'[q])}
    BY <1>2, <2>1 DEF TypeOK, PlanType
  <2>3. MergesFound' /\ SourcesFound' /\ MergesOver' /\ CurHashed'
    BY <1>2, <2>1, <2>2 DEF MergesFound, SourcesFound, MergesOver, CurHashed
  <2>4. CASE sess.merkle.kind = "listed" /\ Intact(sess, Stored')
    <3>1. Stored' = Stored
      BY <1>2 DEF Stored, LeafOf, IdentityKey
    <3>2. ASSUME NEW q \in Sides, NEW op \in plan.creates[q] PROVE op \in plan'.creates[q]
      <4>1. op.id \in HashIds(sess, q)
        BY <2>4 DEF Passing, PruneInv, PlanHashed, CreateIds
      <4>2. PICK h \in sess.merkle.of[q] : h[1] = op.id
        BY <4>1 DEF HashIds
      <4>3. PICK l \in Stored[q] : h = <<l.id, l.fp>>
        BY <2>4, <3>1, <4>2 DEF Intact, Digest
      <4>4. op.id \in Ids(store[q])
        BY <4>2, <4>3, StoredLeaves DEF Ids
      <4>5. op.id \in Ids(fetched'[q])
        <5>1. CASE q = s
          BY <1>4, <4>4, <5>1
        <5>2. CASE q # s
          <6>1. q = "a" /\ fetched'[q] = fetched[q]
            BY <1>3, <1>7, <5>2 DEF Sides
          <6> QED
            BY <1>2, <1>7, <4>4, <6>1 DEF Passing, PruneInv, SourcesFound, Found
        <5> QED
          BY <5>1, <5>2
      <4> QED
        BY <2>2, <4>5
    <3>3. Writing => Writing'
      BY <2>2, <3>2 DEF Writing
    <3> QED
      BY <1>2, <1>5, <2>1, <2>2, <2>3, <3>3, LaterPrune, RunAgreedStays DEF Early
  <2>5. CASE ~(sess.merkle.kind = "listed" /\ Intact(sess, Stored'))
    <3>1. RunAgreed'
      BY <1>2, <2>1, <2>5, NothingAgreed DEF Early
    <3> QED
      BY <1>2, <1>5, <2>1, <2>2, <2>3, <3>1, LaterPrune DEF Early
  <2> QED
    BY <2>4, <2>5
<1> QED
  BY <1>6, <1>7 DEF Sides

\* A create that neither fails nor is refused adds a copy and its mapping.
LEMMA CreateSucceeds ==
  ASSUME Passing, Roomy, NEW s \in Sides, NEW op \in plan.creates[s], Create(s, op)
  PROVE  \E x \in fetched[s], m \in sess'.maps :
           /\ x.id = op.id
           /\ phase = "apply" /\ phase' = "apply"
           /\ UNCHANGED <<db, tree, fetched>>
           /\ plan'.merges = plan.merges /\ plan'.deletes = plan.deletes
           /\ plan'.creates[s] = plan.creates[s] \ {op}
           /\ plan'.creates[Other(s)] = plan.creates[Other(s)]
           /\ store'[Other(s)] = store[Other(s)] \cup {NewItem(Other(s), x.key, x.val)}
           /\ sess'.maps = sess.maps \cup {m} /\ sess'.merkle = sess.merkle
           /\ m.id[s] = op.id /\ m.id[Other(s)] = nextId[Other(s)]
<1> DEFINE t == Other(s)
           p == [plan EXCEPT !.creates[s] = @ \ {op}]
<1>1. TypeOK /\ KeyInv /\ sess \in Database
  BY PassingFacts
<1>2. PICK x \in fetched[s] : \E w \in Creations(t, x) :
        /\ x.id = op.id
        /\ SetStore(t, w.items)
        /\ IF w.ok THEN Record(CreatedMapping(s, op, x), p)
           ELSE Continue(p) /\ UNCHANGED <<db, sess>>
  BY DEF Create
<1>3. PICK w \in Creations(t, x) :
        /\ x.id = op.id
        /\ SetStore(t, w.items)
        /\ IF w.ok THEN Record(CreatedMapping(s, op, x), p)
           ELSE Continue(p) /\ UNCHANGED <<db, sess>>
  BY <1>2
<1>4. w.ok /\ w.items = store[t] \cup {NewItem(t, x.key, x.val)}
  <2>1. nextId[t] <= MaxId /\ nextId[t] \in Nat /\ MaxId \in Nat
    BY <1>1, SidesFacts, EngineAssumption DEF Roomy, TypeOK
  <2>2. ~(nextId[t] > MaxId) /\ ~Fallible
    BY <2>1 DEF Passing, PruneInv, Fallible
  <2> QED
    BY <2>2 DEF Creations, NewItem
<1>5. PICK m : m = CreatedMapping(s, op, x)
  OBVIOUS
<1>6. m.mkey \notin MKeys(sess.maps)
  BY <1>1, <1>3, <1>5, CreatedKeyNew
<1>7. m.id[s] = op.id /\ m.id[t] = nextId[t]
  BY <1>3, <1>5, SidesFacts DEF CreatedMapping
<1>8. sess' = [sess EXCEPT !.maps = @ \cup {m}] /\ Continue(p) /\ UNCHANGED db
  BY <1>3, <1>4, <1>5, <1>6 DEF Record
<1>9. sess'.maps = sess.maps \cup {m} /\ sess'.merkle = sess.merkle
  BY <1>1, <1>8 DEF Database
<1>10. /\ phase' = "apply" /\ UNCHANGED <<tree, fetched>>
       /\ plan'.merges = plan.merges /\ plan'.deletes = plan.deletes
       /\ plan'.creates[s] = plan.creates[s] \ {op}
       /\ plan'.creates[t] = plan.creates[t]
  BY <1>1, <1>8, SidesFacts DEF Continue, TypeOK, PlanType
<1>11. store'[t] = store[t] \cup {NewItem(t, x.key, x.val)}
  BY <1>1, <1>3, <1>4, SetStoreServers, SidesFacts
<1>12. phase = "apply"
  BY DEF Create
<1> QED
  BY <1>3, <1>7, <1>8, <1>9, <1>10, <1>11, <1>12

\* The new item is a copy of one that was hashed.
LEMMA CreatePrune ==
  ASSUME Dav, Passing, Roomy, NEW s \in Sides, NEW op \in plan.creates[s], Create(s, op)
  PROVE  PruneInv'
<1>1. PICK t : t = Other(s)
  OBVIOUS
<1>2. t \in Sides /\ Other(t) = s /\ \A r \in Sides : r \in {s, t}
  BY <1>1, SidesFacts DEF Sides, Other
<1>3. PICK x \in fetched[s], m \in sess'.maps :
        /\ phase = "apply" /\ phase' = "apply"
        /\ UNCHANGED <<db, tree, fetched>>
        /\ plan'.merges = plan.merges /\ plan'.deletes = plan.deletes
        /\ plan'.creates[s] = plan.creates[s] \ {op}
        /\ plan'.creates[t] = plan.creates[t]
        /\ store'[t] = store[t] \cup {NewItem(t, x.key, x.val)}
        /\ sess'.maps = sess.maps \cup {m} /\ sess'.merkle = sess.merkle
        /\ m.id[s] = op.id /\ m.id[t] = nextId[t]
  BY <1>1, CreateSucceeds
<1>4. MergesFound' /\ SourcesFound' /\ MergesOver' /\ CurHashed'
  BY <1>3 DEF MergesFound, SourcesFound, MergesOver, CurHashed, Passing, PruneInv
<1>5. \A r \in Sides : plan'.creates[r] \subseteq plan.creates[r]
  BY <1>2, <1>3
<1>6. RunAgreed'
  <2>1. CASE ~(sess.merkle.kind = "listed" /\ Intact(sess, Stored'))
    BY <1>3, <2>1, NothingAgreed DEF Early
  <2>2. CASE sess.merkle.kind = "listed" /\ Intact(sess, Stored')
    <3>1. PICK W, X, P, b, e : W = Stored /\ X = Stored' /\ P = plan.merges /\ b = Writing /\ e = sess'
      OBVIOUS
    <3>2. Agreed(sess, X, P, b)
      <4>1. Agreed(sess, W, P, b)
        BY <1>3, <3>1 DEF Passing, PruneInv, RunAgreed, Early
      <4>2. LeavesPass(sess, W, X) /\ (Intact(sess, X) => CopiesPass(sess, W, X))
        BY <3>1 DEF Passing
      <4> QED
        BY <4>1, <4>2, AgreedStays, PassingFacts
    <3>3. \A h \in sess.merkle.of[t] : h[1] # nextId[t]
      <4>1. \A h \in sess.merkle.of[t] : h[1] < nextId[t]
        BY <1>2 DEF Passing, PruneInv, HashesReached
      <4>2. nextId[t] \in Nat
        BY <1>2, PassingFacts DEF TypeOK
      <4> QED
        BY <4>1, <4>2
    <3>4. \A r : Hashed(e, X, r) = Hashed(sess, X, r) /\ HashIds(e, r) = HashIds(sess, r)
      BY <1>3, <3>1 DEF Hashed, HashIds
    <3>5. HashedRecorded(e, X, P)
      <4>1. HashedRecorded(sess, X, P)
        BY <2>2, <3>1, <3>2 DEF Agreed
      <4>2. \A l \in Hashed(sess, X, t) : l.id # m.id[t]
        BY <1>3, <3>3 DEF Hashed
      <4> QED
        BY <1>2, <1>3, <3>1, <3>4, <4>1, <4>2 DEF HashedRecorded
    <3>6. Copied(e, X)
      <4>1. PICK l \in X[t] : l.id = nextId[t]
        <5>1. NewItem(t, x.key, x.val) \in store'[t] /\ NewItem(t, x.key, x.val).id = nextId[t]
          BY <1>3 DEF NewItem
        <5>2. X[t] = {LeafOf(t, i) : i \in store'[t]}
          BY <1>2, <3>1 DEF Stored, LeafOf, IdentityKey
        <5>3. PICK z \in store'[t] : z.id = nextId[t]
          BY <5>1
        <5>4. LeafOf(t, z) \in X[t]
          BY <5>2
        <5>5. LeafOf(t, z).id = z.id
          BY DEF LeafOf
        <5> QED
          BY <5>3, <5>4, <5>5
      <4>2. nextId[t] \notin HashIds(e, t)
        <5>1. nextId[t] \notin HashIds(sess, t)
          BY <3>3 DEF HashIds
        <5> QED
          BY <3>4, <5>1
      <4>3. op.id \in HashIds(e, s)
        BY <2>2, <3>4 DEF Passing, PruneInv, PlanHashed, CreateIds
      <4>4. Copy(e, t, nextId[t])
        BY <1>2, <1>3, <3>1, <4>2, <4>3 DEF Copy
      <4> QED
        BY <1>2, <4>1, <4>4 DEF Copied
    <3>7. Agreed(e, X, P, Writing')
      BY <3>5, <3>6 DEF Agreed
    <3> QED
      BY <1>3, <3>1, <3>7 DEF RunAgreed, Early
  <2> QED
    BY <2>1, <2>2
<1> QED
  BY <1>3, <1>4, <1>5, <1>6, LaterPrune DEF Early

\* An item that is deleted was hashed.
LEMMA DeletePrune ==
  ASSUME Dav, Passing, NEW s \in Sides, NEW id \in plan.deletes[s], Delete(s, id)
  PROVE  PruneInv'
<1>1. /\ phase = "apply" /\ phase' = "apply" /\ TypeOK
      /\ UNCHANGED <<db, sess, tree, fetched>>
      /\ store'[s] = {i \in store[s] : i.id # id}
  <2>1. TypeOK
    BY PassingFacts
  <2>2. SetStore(s, {i \in store[s] : i.id # id})
    BY DEF Delete, Passing, PruneInv, Fallible
  <2>3. PICK I : I = {i \in store[s] : i.id # id}
    OBVIOUS
  <2>4. SetStore(s, I)
    BY <2>2, <2>3
  <2>5. store'[s] = I
    BY <2>1, <2>4, SetStoreServers
  <2> QED
    BY <2>1, <2>3, <2>5 DEF Delete
<1>2. /\ plan'.merges = plan.merges /\ plan'.creates = plan.creates
      /\ \A r \in Sides : plan'.deletes[r] \subseteq plan.deletes[r]
  BY <1>1 DEF Delete, TypeOK, PlanType
<1>3. MergesFound' /\ SourcesFound' /\ MergesOver' /\ CurHashed'
  BY <1>1, <1>2 DEF MergesFound, SourcesFound, MergesOver, CurHashed, Passing, PruneInv
<1>4. ~(sess.merkle.kind = "listed" /\ Intact(sess, Stored'))
  <2> SUFFICES ASSUME sess.merkle.kind = "listed", Intact(sess, Stored') PROVE FALSE
    OBVIOUS
  <2>1. id \in HashIds(sess, s)
    BY DEF Passing, PruneInv, PlanHashed
  <2>2. PICK h \in sess.merkle.of[s] : h[1] = id
    BY <2>1 DEF HashIds
  <2>3. PICK l \in Stored'[s] : h = <<l.id, l.fp>>
    BY <2>2 DEF Intact, Digest
  <2>4. \E i \in store'[s] : l.id = i.id
    BY <2>3 DEF Stored, LeafOf
  <2> QED
    BY <1>1, <2>2, <2>3, <2>4
<1> QED
  BY <1>1, <1>2, <1>3, <1>4, NothingAgreed, LaterPrune DEF Early

-------------------------------------------------------------------------------
(* The invariant holds, and what is pruned was safe to prune. *)

LEMMA PassingHolds ==
  ASSUME Dav, Told, DavInv, PruneInv, TypeOK', KeyInv', DavInv', [Next]_vars, [CopyKept]_vars
  PROVE  Passing
<1>1. TypeInv /\ TypeOK /\ CurrentIsSet /\ StoresFresh /\ StoresFresh'
  BY DEF Told, TypeInv, KeyInv
<1>2. ServersStep
  BY <1>1, ServersStepHolds
<1>3. left'.fail = 0
  <2>1. left'.fail <= left.fail /\ left'.fail \in Nat
    BY <1>1, FailuresSpent DEF TypeOK
  <2> QED
    BY <2>1 DEF PruneInv
<1>4. ASSUME NEW d \in {db, sess} PROVE LeavesPass(d, Stored, Stored')
  BY <1>1, <1>2, <1>4, StoredPass DEF PruneInv, Told
<1>5. ASSUME NEW d \in {db, sess}
      PROVE  Intact(d, Stored') \/ phase \in Early => CopiesPass(d, Stored, Stored')
  BY <1>5, StoredCopies
<1> QED
  BY <1>2, <1>3, <1>4, <1>5 DEF Passing

LEMMA PruneInvStep ==
  ASSUME Dav, Told, DavInv, PruneInv, TypeOK', KeyInv', DavInv', NothingSkipped', Roomy,
         [Next]_vars, [CopyKept]_vars
  PROVE  PruneInv'
<1>1. Passing
  BY PassingHolds
<1>2. /\ matched = {} /\ phase # "match_b" /\ ~Fallible
  BY DEF DavInv, NothingMatched, PruneInv, Fallible
<1>3. CASE UNCHANGED vars
  BY <1>1, <1>3, UsersPrune DEF vars, runVars
<1>4. CASE Users
  <2>1. UNCHANGED <<db, sess, runVars>>
    BY <1>4 DEF Users, UserCreate, UserEdit, UserDelete, UserMayAct
  <2> QED
    BY <1>1, <2>1, UsersPrune
<1>5. CASE (\E md \in Modes : Start(md)) \/ ReturnUnexecuted
  BY <1>1, <1>5, StartPrune, RollbackPrune DEF ReturnUnexecuted
<1>6. CASE Failures
  BY <1>1, <1>2, <1>6, RollbackPrune
     DEF Failures, BuildFails, FetchMergesFails, FetchSourcesFails, Crash
<1>7. CASE Run
  <2>1. CASE \E s \in Sides : SkipContainer(s) \/ ReadState(s)
    <3>1. \A s \in Sides : ~SkipContainer(s)
      BY DEF SkipContainer, Told, TypeInv, TypeOK, NothingSkipped
    <3> QED
      BY <1>1, <2>1, <3>1, ReadStatePrune
  <2>2. CASE (\E s \in Sides : List(s)) \/ Compare \/ Proceed
    BY <1>1, <2>2, ListPrune, ComparePrune, ProceedPrune
  <2>3. CASE \E s \in Sides : FetchMerges(s) \/ FetchSources(s)
    BY <1>1, <2>3, FetchMergesPrune, FetchSourcesPrune
  <2>4. CASE (\E op \in plan.merges : MergeSkipped(op) \/ MergeWriteA(op)) \/ MergeWriteB
    BY <1>1, <2>4, MergeSkippedPrune, MergeWriteAPrune, MergeWriteBPrune
  <2>5. CASE (\E ids \in matched : MatchWriteA(ids)) \/ MatchWriteB
    BY <1>2, <2>5 DEF MatchWriteB
  <2>6. CASE \E s \in Sides : \E op \in plan.creates[s] : Create(s, op)
    BY <1>1, <2>6, CreatePrune
  <2>7. CASE \E s \in Sides : \E id \in plan.deletes[s] : Delete(s, id)
    BY <1>1, <2>7, DeletePrune
  <2>8. CASE Finish
    BY <1>1, <2>8, FinishPrune
  <2> QED
    BY <1>7, <2>1, <2>2, <2>3, <2>4, <2>5, <2>6, <2>7, <2>8 DEF Run
<1> QED
  BY <1>3, <1>4, <1>5, <1>6, <1>7 DEF Next

LEMMA InitPrune ==
  ASSUME Init, MaxFail = 0
  PROVE  PruneInv
<1>1. /\ phase = "idle" /\ db = EmptyDatabase /\ sess = EmptyDatabase /\ left.fail = 0
      /\ plan = EmptyPlan
      /\ \A s \in Sides : tree[s].leaves = {} /\ fetched[s] = {}
  BY DEF Init, NoTree
<1>2. HashesReached /\ LeavesReached /\ FetchedReached /\ NothingFetched
  BY <1>1 DEF EmptyDatabase, NoMerkle, HashesReached, LeavesReached, FetchedReached, NothingFetched
<1>3. MergesFound /\ SourcesFound /\ MergesOver /\ CurHashed
  BY <1>1 DEF MergesFound, SourcesFound, MergesOver, CurHashed
<1>4. PlanHashed /\ Agreed(db, Stored, {}, FALSE) /\ RunAgreed
  BY <1>1 DEF EmptyDatabase, NoMerkle, PlanHashed, Agreed, RunAgreed, Early
<1> QED
  BY <1>1, <1>2, <1>3, <1>4 DEF PruneInv

\* A hash that equals that of the listing is intact in it, and there are no copies.
LEMMA PrunedSafely ==
  ASSUME TypeOK, KeyInv, DavInv, PruneInv
  PROVE  PruneIsSafe
<1> SUFFICES ASSUME phase = "compare", Prunes(sess.merkle, Listed, Carried)
             PROVE  ~HasWrites(Plan(Listed, sess.maps))
  BY DEF PruneIsSafe
<1>1. PICK L, M : L = Listed /\ M = sess.maps
  OBVIOUS
<1>2. /\ L \in [Sides -> SUBSET Leaf] /\ M \in SUBSET Mapping
      /\ \A s \in Sides : L[s] = tree[s].leaves
      /\ Distinct(L, M)
  BY <1>1, ListedDistinct DEF Listed, TypeOK, Tree, Database
<1>3. sess.merkle.kind = "listed" /\ \A s \in Sides : sess.merkle.of[s] = Digest(L, s)
  <2>1. sess.merkle.kind = "listed" /\ sess.merkle = Combine(L, Carried)
    BY <1>1 DEF Prunes
  <2>2. Mixed.kind # "listed"
    BY DEF Mixed
  <2>3. Combine(L, Carried) = [kind |-> "listed", of |-> [s \in Sides |-> Digest(L, s)]]
    BY <2>1, <2>2 DEF Combine
  <2>4. sess.merkle.of = [s \in Sides |-> Digest(L, s)]
    BY <2>1, <2>3
  <2> QED
    BY <2>1, <2>4
<1>4. PICK W : W = View
  OBVIOUS
<1>5. \A s \in Sides : W[s] = L[s]
  BY <1>2, <1>4 DEF View, Early, TreeBuilt
<1>6. Agreed(sess, W, {}, FALSE)
  BY <1>4 DEF PruneInv, RunAgreed, Early
<1>7. Intact(sess, W) /\ \A s \in Sides : Hashed(sess, W, s) = L[s]
  BY <1>3, <1>5 DEF Intact, Hashed, Digest
<1>8. ~Copied(sess, W)
  <2>1. \A s \in Sides : \A l \in W[s] : l.id \in HashIds(sess, s)
    <3> SUFFICES ASSUME NEW s \in Sides, NEW l \in W[s] PROVE l.id \in HashIds(sess, s)
      OBVIOUS
    <3>1. <<l.id, l.fp>> \in sess.merkle.of[s]
      BY <1>3, <1>5 DEF Digest
    <3> QED
      BY <3>1 DEF HashIds
  <2> QED
    BY <2>1 DEF Copied, Copy
<1>9. HashedPaired(sess, W) /\ HashedRecorded(sess, W, {})
  BY <1>3, <1>6, <1>7, <1>8 DEF Agreed
<1>10. \A s \in Sides : \A l \in L[s] : \E x \in L[Other(s)] : x.key = l.key
  BY <1>7, <1>9, SidesFacts DEF HashedPaired
<1>11. \A m \in M : \/ \E s \in Sides : \A l \in L[s] : l.id # m.id[s]
                    \/ \A s \in Sides : \A l \in L[s] : l.id = m.id[s] => l.fp = m.fp[s]
  BY <1>1, <1>7, <1>9 DEF HashedRecorded
<1>12. ~HasWrites(Plan(L, M))
  BY <1>2, <1>10, <1>11, NothingToWrite
<1> QED
  BY <1>1, <1>12

(***************************************************************************)
(* Between DAV servers, while no container is skipped, no call fails, no    *)
(* server is full and users leave a new copy alone until a run has listed   *)
(* it, a pruned pair has no difference that a comparison would find:        *)
(* whatever crashes, and whenever users create, edit and delete, no hash    *)
(* hides a change.                                                          *)
(***************************************************************************)
THEOREM PruningIsSafe ==
  Dav /\ MaxFail = 0 =>
    (Spec /\ []NothingSkipped /\ []Roomy /\ CopiesStay => []PruneIsSafe)
<1> SUFFICES ASSUME Dav, MaxFail = 0
             PROVE  Spec /\ []NothingSkipped /\ []Roomy /\ CopiesStay => []PruneIsSafe
  OBVIOUS
<1>1. Init => PruneInv
  BY InitPrune
<1>2. Told /\ (TypeInv /\ KeyInv /\ DavInv) /\ (TypeInv /\ KeyInv /\ DavInv)' /\ Roomy
        /\ NothingSkipped' /\ PruneInv /\ [Next]_vars /\ [CopyKept]_vars => PruneInv'
  BY PruneInvStep DEF TypeInv
<1>3. (TypeInv /\ KeyInv /\ DavInv) /\ PruneInv => PruneIsSafe
  BY PrunedSafely DEF TypeInv
<1>4. Spec /\ []NothingSkipped => [](TypeInv /\ KeyInv /\ DavInv)
  BY DavInvHolds
<1>5. Spec /\ []NothingSkipped => []Told
  BY DavTold
<1> QED
  BY <1>1, <1>2, <1>3, <1>4, <1>5, PTL DEF Spec, CopiesStay
===============================================================================
