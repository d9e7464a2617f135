------------------------------ MODULE SyncEngine ------------------------------
(***************************************************************************)
(* sync_trees (engine.py) over one pair of containers: two stores that      *)
(* users and the engine write, the state database, and runs of the engine   *)
(* that list, compare, merge, create, delete and commit once, at the end.   *)
(*                                                                          *)
(* A provider call is one step.  Between two steps of a run users may       *)
(* change either store, a call may fail, and the process may die.           *)
(***************************************************************************)
EXTENDS TreeCompare, FieldMerge

CONSTANTS
  Identifies,  \* Identifies[s]: what s's adapter makes identity keys from
  ContentKey,  \* ContentKey[v]: the content key, title and start, of an event
  MatchOn,     \* what identity_fields of the item type name
  Scenarios,   \* what the stores may hold before the first run, and how often
               \* users then create, edit and delete an item
  FirstId,     \* the first id the servers give out after that
  Skips,       \* Skips[s]: does it skip a container whose state is unchanged
  Modes,       \* how a run is started: "auto", "confirm" or "dry"
  ReuseKeys,   \* may a user create an item with an identity used before
  MaxFail,     \* bound on failed calls
  MaxCrash,    \* bound on crashes
  MaxId        \* bound on the ids a server gives out: its quota of items

UserOps == {"create", "edit", "delete"}

ASSUME EngineAssumption ==
  /\ Identifies \in [Sides -> {"uid", "content", "nothing"}]
  /\ ContentKey \in [Values -> Keys]
  /\ MatchOn \subseteq {"uid", "content"}
  /\ Scenarios \subseteq
       [items : [Sides -> SUBSET [id : Nat, key : Keys, val : Values, ver : {1}]],
        users : [UserOps -> Nat]]
  /\ FirstId \in Nat \ {0}
  /\ \A sc \in Scenarios : \A s \in Sides : \A i, j \in sc.items[s] :
       i.id < FirstId /\ (i.id = j.id => i = j)
  /\ Skips \in [Sides -> BOOLEAN]
  /\ Modes \subseteq {"auto", "confirm", "dry"}
  /\ ReuseKeys \in BOOLEAN
  /\ MaxFail \in Nat /\ MaxCrash \in Nat /\ MaxId \in Nat

\* Both are sha256 sums, a legacy key that of a text that begins with "legacy|".
ASSUME LegacyAssumption == \A k \in Keys : k \notin LegacyKeys

VARIABLES
  (* The two servers. *)
  store,    \* store[s]: the items on side s
  nextId,   \* nextId[s]: the next id the server gives out
  rev,      \* rev[s]: the container's state string, JMAP state or sync-token
  (* The state database: committed, and as the run's session sees it. *)
  db,
  sess,
  (* The run. *)
  phase,    \* what the run does next
  side,     \* on which side, for a phase that visits both
  mode,
  tree,     \* tree[s]: what build_tree returned for side s
  plan,     \* the operations not yet executed
  fetched,  \* fetched[s]: the items get_items returned for the current phase
  matched,  \* pairs of creates that _identity_match found to be one item
  cur,      \* the merge between its write to A and its write to B
  (* History and bounds. *)
  used,     \* identities users gave to items so far
  deleted,  \* identities whose item a user deleted; was it mapped then
  left      \* user changes, failures and crashes that may still happen

serverVars  == <<store, nextId, rev>>
historyVars == <<used, deleted>>
workVars    == <<tree, plan, fetched, matched, cur>>
runVars     == <<phase, side, mode, workVars>>
vars        == <<serverVars, db, sess, runVars, historyVars, left>>

-------------------------------------------------------------------------------

\* A SyncItem on a server.  key is its uid, or what a contact's identity_fields
\* hold: it stays with the item and its copies.  The rest, titles and times of
\* events too, is val.
Item == [id : Nat, key : Keys, val : Values, ver : Nat]

Ids(S) == {i.id : i \in S}

NoCursor == 0

Database == [maps   : SUBSET Mapping,
             merkle : Merkle,
             cursor : [Sides -> Nat]]

EmptyDatabase == [maps   |-> {},
                  merkle |-> NoMerkle,
                  cursor |-> [s \in Sides |-> NoCursor]]

\* The SyncNode of a container: carried says its children were not fetched.
Tree == [carried : BOOLEAN, leaves : SUBSET Leaf, cursor : Nat]

NoTree == [carried |-> FALSE, leaves |-> {}, cursor |-> NoCursor]

IdPair == [Sides -> Nat]

\* A merge whose write to A was made: ok and fp are that write's outcome.
Current == [ids  : IdPair,
            mkey : Keys \cup LegacyKeys,
            val  : Values \cup {NoSnap},
            fp   : Nat,
            ok   : BOOLEAN]

NoCurrent == [ids  |-> [s \in Sides |-> 0],
              mkey |-> <<0, 0>>,
              val  |-> NoSnap,
              fp   |-> 0,
              ok   |-> FALSE]

Phases == {"idle", "state", "list", "compare", "decide", "fetch", "merge",
           "merge_b", "source", "apply", "match_b"}

TypeOK ==
  /\ store \in [Sides -> SUBSET Item]
  /\ nextId \in [Sides -> Nat]
  /\ rev \in [Sides -> Nat]
  /\ db \in Database
  /\ sess \in Database
  /\ phase \in Phases
  /\ side \in Sides
  /\ mode \in {"auto", "confirm", "dry"}
  /\ tree \in [Sides -> Tree]
  /\ plan \in PlanType
  /\ fetched \in [Sides -> SUBSET Item]
  /\ matched \in SUBSET IdPair
  /\ cur \in Current
  /\ used \in SUBSET Keys
  /\ deleted \in SUBSET (Keys \X BOOLEAN)
  /\ left \in [user : [UserOps -> Nat], fail : Nat, crash : Nat]

Init ==
  /\ \E sc \in Scenarios :
       /\ store = sc.items
       /\ left = [user |-> sc.users, fail |-> MaxFail, crash |-> MaxCrash]
  /\ nextId = [s \in Sides |-> FirstId]
  /\ rev = [s \in Sides |-> 1]
  /\ db = EmptyDatabase
  /\ sess = EmptyDatabase
  /\ phase = "idle"
  /\ side = "a"
  /\ mode = "auto"
  /\ tree = [s \in Sides |-> NoTree]
  /\ plan = EmptyPlan
  /\ fetched = [s \in Sides |-> {}]
  /\ matched = {}
  /\ cur = NoCurrent
  /\ used = UNION {{i.key : i \in store[s]} : s \in Sides}
  /\ deleted = {}

\* Between the two writes of a merge there is a merged value.
CurrentIsSet == phase \in {"merge_b", "match_b"} => cur.val \in Values

-------------------------------------------------------------------------------
(* How a run ends and what a failure costs. *)

\* sync_trees returns or raises, the CLI closes the session.
EndRun ==
  /\ phase' = "idle"
  /\ side' = "a"
  /\ mode' = "auto"
  /\ tree' = [s \in Sides |-> NoTree]
  /\ plan' = EmptyPlan
  /\ fetched' = [s \in Sides |-> {}]
  /\ matched' = {}
  /\ cur' = NoCurrent

Rollback == EndRun /\ sess' = db /\ UNCHANGED db

Fallible == left.fail > 0

Spend(n) == left' = [left EXCEPT !.fail = @ - n]

\* A change of side s's items by anyone moves the container's state string.
SetStore(s, items) ==
  /\ store' = [store EXCEPT ![s] = items]
  /\ rev' = [rev EXCEPT ![s] = IF items = store[s] THEN @ ELSE @ + 1]

-------------------------------------------------------------------------------
(* Phase 0 and 1: known states and trees. *)

VisitPhase(s) == IF Skips[s] THEN "state" ELSE "list"

Start(md) ==
  /\ phase = "idle"
  /\ mode' = md
  /\ phase' = VisitPhase("a")
  /\ side' = "a"
  /\ UNCHANGED <<serverVars, db, sess, workVars, historyVars, left>>

Built(s) ==
  IF s = "a" THEN phase' = VisitPhase("b") /\ side' = "b"
  ELSE phase' = "compare" /\ side' = "a"

\* get_known_states knows a container with a cursor and a stored hash.
Unchanged(s) ==
  /\ sess.merkle.kind # "none"
  /\ sess.cursor[s] # NoCursor
  /\ sess.cursor[s] = rev[s]

\* The state string is asked for before the listing.
SkipContainer(s) ==
  /\ phase = "state" /\ side = s
  /\ Unchanged(s)
  /\ tree' = [tree EXCEPT ![s] = [carried |-> TRUE, leaves |-> {}, cursor |-> rev[s]]]
  /\ Built(s)
  /\ UNCHANGED <<serverVars, db, sess, mode, plan, fetched, matched, cur,
                 historyVars, left>>

ReadState(s) ==
  /\ phase = "state" /\ side = s
  /\ ~Unchanged(s)
  /\ tree' = [tree EXCEPT ![s] = [@ EXCEPT !.cursor = rev[s]]]
  /\ phase' = "list"
  /\ UNCHANGED <<serverVars, db, sess, side, mode, plan, fetched, matched, cur,
                 historyVars, left>>

\* identity_key of a leaf: the uid on DAV, the content key of JMAP and Graph
\* events, None for JMAP and Graph contacts.
IdentityKey(s, i) ==
  CASE Identifies[s] = "uid" -> i.key
    [] Identifies[s] = "content" -> ContentKey[i.val]
    [] Identifies[s] = "nothing" -> NoKey

LeafOf(s, i) == [id |-> i.id, key |-> IdentityKey(s, i), fp |-> i.ver]

List(s) ==
  /\ phase = "list" /\ side = s
  /\ tree' = [tree EXCEPT ![s] = [@ EXCEPT !.leaves = {LeafOf(s, i) : i \in store[s]}]]
  /\ Built(s)
  /\ UNCHANGED <<serverVars, db, sess, mode, plan, fetched, matched, cur,
                 historyVars, left>>

\* build_tree raised: the error is counted and the run returns.
BuildFails ==
  /\ phase \in {"state", "list"}
  /\ Fallible /\ Spend(1)
  /\ Rollback
  /\ UNCHANGED <<serverVars, historyVars>>

-------------------------------------------------------------------------------
(* Phase 2 and 3: hashes, comparison, and whether to go on. *)

Listed == [s \in Sides |-> tree[s].leaves]
Carried == [s \in Sides |-> tree[s].carried]

Compare ==
  /\ phase = "compare"
  /\ IF Prunes(sess.merkle, Listed, Carried)
       THEN UNCHANGED <<plan, sess>>
       ELSE /\ plan' = Plan(Listed, sess.maps)
            /\ sess' = [sess EXCEPT !.maps = MappingsAfter(Listed, @),
                                    !.merkle = Combine(Listed, Carried)]
  /\ tree' = [s \in Sides |-> [tree[s] EXCEPT !.leaves = {}]]
  /\ phase' = "decide"
  /\ UNCHANGED <<serverVars, db, side, mode, fetched, matched, cur,
                 historyVars, left>>

\* A dry run, a plan without writes to confirm, or a declined plan: no commit.
ReturnUnexecuted ==
  /\ phase = "decide"
  /\ mode \in {"dry", "confirm"}
  /\ Rollback
  /\ UNCHANGED <<serverVars, historyVars, left>>

\* Merges come before creates, creates before deletes.
PhaseAfter(p) ==
  IF \E s \in Sides : p.creates[s] # {} THEN "source" ELSE "apply"

Proceed ==
  /\ phase = "decide"
  /\ mode = "auto" \/ (mode = "confirm" /\ HasWrites(plan))
  /\ phase' = IF plan.merges # {} THEN "fetch" ELSE PhaseAfter(plan)
  /\ UNCHANGED <<serverVars, db, sess, side, mode, workVars, historyVars, left>>

-------------------------------------------------------------------------------
(* Provider reads and writes. *)

\* get_items returns the items it finds; one that cannot be read may be left out.
Readings(s, ids) ==
  LET found == {i \in store[s] : i.id \in ids}
  IN  {[items |-> found, cost |-> 0]}
      \cup IF Fallible THEN {[items |-> found \ {i}, cost |-> 1] : i \in found}
           ELSE {}

\* The DAV adapters, whose keys are uids, PUT a whole item without If-Match, since
\* a merged item has no fingerprint.
PutsWhole(s) == Identifies[s] = "uid"

\* The item that update_item writes over: the one with i's id or, where there is
\* none any more, i itself for a PUT, under a fingerprint never given out before.
Target(s, i) ==
  IF i.id \in Ids(store[s]) THEN {x \in store[s] : x.id = i.id}
  ELSE IF PutsWhole(s) THEN {[i EXCEPT !.ver = rev[s]]} ELSE {}

\* update_item: the server's items after it, whether the caller saw it succeed, and
\* the fingerprint the caller then holds.
Updated(s, i, v) ==
  (store[s] \ Target(s, i))
  \cup {[x EXCEPT !.val = v, !.ver = @ + 1] : x \in Target(s, i)}

Updates(s, i, v) ==
  {[items |-> Updated(s, i, v), ok |-> TRUE, fp |-> x.ver + 1, cost |-> 0] :
     x \in Target(s, i)}
  \cup
  (IF Target(s, i) # {} THEN {}
   ELSE {[items |-> store[s], ok |-> FALSE, fp |-> i.ver, cost |-> 0]})
  \cup
  (IF Fallible
     THEN {[items |-> t, ok |-> FALSE, fp |-> i.ver, cost |-> 1] :
             t \in {store[s], Updated(s, i, v)}}
     ELSE {})

\* Faulty variant: a drifted side is not written and counts as written.
PushesLost(s, i, v) ==
  {[items |-> store[s], ok |-> TRUE, fp |-> i.ver, cost |-> 0]}

\* An item the merge did not change is not written.
Pushes(s, i, v) ==
  IF v = i.val
    THEN {[items |-> store[s], ok |-> TRUE, fp |-> i.ver, cost |-> 0]}
    ELSE Updates(s, i, v)

\* What a merge may give: updated_at, which this module leaves out, picks the
\* winner of a conflict.
MergeResults(x, y, snap) ==
  {MergeScalar(x.val, y.val, snap, snap = NoSnap, w) : w \in Sides}

-------------------------------------------------------------------------------
(* Phase 4, merges. *)

FetchMerges(s) ==
  /\ phase = "fetch" /\ side = s
  /\ \E r \in Readings(s, {op[s] : op \in plan.merges}) :
       fetched' = [fetched EXCEPT ![s] = r.items] /\ Spend(r.cost)
  /\ IF s = "a" THEN side' = "b" /\ UNCHANGED phase
     ELSE side' = "a" /\ phase' = "merge"
  /\ UNCHANGED <<serverVars, db, sess, mode, tree, plan, matched, cur, historyVars>>

\* get_items raised: the whole group of merges is passed over.
FetchMergesFails ==
  /\ phase = "fetch"
  /\ Fallible /\ Spend(1)
  /\ plan' = [plan EXCEPT !.merges = {}]
  /\ fetched' = [s \in Sides |-> {}]
  /\ phase' = PhaseAfter(plan)
  /\ side' = "a"
  /\ UNCHANGED <<serverVars, db, sess, mode, tree, matched, cur, historyVars>>

MergeDone(op) ==
  LET p == [plan EXCEPT !.merges = @ \ {op}]
  IN  /\ plan' = p
      /\ phase' = IF p.merges # {} THEN "merge" ELSE PhaseAfter(p)
      /\ fetched' = IF p.merges # {} THEN fetched ELSE [s \in Sides |-> {}]

\* An item that was not fetched, or no mapping for A's: counted as an error.
MergeSkipped(op) ==
  /\ phase = "merge" /\ op \in plan.merges
  /\ \/ \E s \in Sides : op[s] \notin Ids(fetched[s])
     \/ op["a"] \notin {m.id["a"] : m \in sess.maps}
  /\ MergeDone(op)
  /\ UNCHANGED <<serverVars, db, sess, side, mode, tree, matched, cur,
                 historyVars, left>>

MergeWriteA(op) ==
  /\ phase = "merge" /\ op \in plan.merges
  /\ \E x \in fetched["a"], y \in fetched["b"], m \in sess.maps :
       /\ x.id = op["a"] /\ y.id = op["b"] /\ m.id["a"] = op["a"]
       /\ \E v \in MergeResults(x, y, m.snap) : \E w \in Pushes("a", x, v) :
            /\ SetStore("a", w.items)
            /\ Spend(w.cost)
            /\ cur' = [ids |-> op, mkey |-> m.mkey, val |-> v, fp |-> w.fp, ok |-> w.ok]
  /\ phase' = "merge_b"
  /\ UNCHANGED <<nextId, db, sess, side, mode, tree, plan, fetched, matched,
                 historyVars>>

\* Faulty variant: recorded whether or not the writes succeeded.
RecordAlways(maps, fpb, ok) ==
  {IF m.mkey = cur.mkey
     THEN [m EXCEPT !.fp = [s \in Sides |-> IF s = "a" THEN cur.fp ELSE fpb],
                    !.snap = cur.val]
     ELSE m : m \in maps}

\* update_fingerprints and save_snapshot, only when both writes were accepted.
RecordMerge(maps, fpb, ok) ==
  {IF m.mkey = cur.mkey /\ cur.ok /\ ok
     THEN [m EXCEPT !.fp = [s \in Sides |-> IF s = "a" THEN cur.fp ELSE fpb],
                    !.snap = cur.val]
     ELSE m : m \in maps}

MergeWriteB ==
  /\ phase = "merge_b"
  /\ \E y \in fetched["b"] :
       /\ y.id = cur.ids["b"]
       /\ \E w \in Pushes("b", y, cur.val) :
            /\ SetStore("b", w.items)
            /\ Spend(w.cost)
            /\ sess' = [sess EXCEPT !.maps = RecordMerge(@, w.fp, w.ok)]
  /\ MergeDone(cur.ids)
  /\ cur' = NoCurrent
  /\ UNCHANGED <<nextId, db, side, mode, tree, matched, historyVars>>

-------------------------------------------------------------------------------
(* Phase 4, creates. *)

CreateIds(s) == {op.id : op \in plan.creates[s]}

\* _extract_identity_keys of the fetched item with this id.
IdentityKeys(F, s, id) ==
  UNION {{k \in {<<"uid", i.key>>, <<"content", ContentKey[i.val]>>} : k[1] \in MatchOn} :
           i \in {x \in F[s] : x.id = id}}

\* _identity_match: `index` holds one item of B for each identity key, and an item
\* of A takes one of those that its keys lead to and that is not taken yet.
Indexes(F) ==
  LET keys == UNION {IdentityKeys(F, "b", id) : id \in Ids(F["b"])}
  IN  {index \in [keys -> Ids(F["b"])] :
         \A k \in keys : k \in IdentityKeys(F, "b", index[k])}

Matched(F, index, S) ==
  /\ \A p, q \in S : (p["a"] = q["a"] \/ p["b"] = q["b"]) => p = q
  /\ \A p \in S : \E k \in IdentityKeys(F, "a", p["a"]) \cap DOMAIN index :
       index[k] = p["b"]
  /\ \A id \in Ids(F["a"]) \ {p["a"] : p \in S} :
       \A k \in IdentityKeys(F, "a", id) \cap DOMAIN index :
         index[k] \in {p["b"] : p \in S}

Matchings(F) ==
  LET Pairs == {p \in [Sides -> Ids(F["a"]) \cup Ids(F["b"])] :
                  \A s \in Sides : p[s] \in Ids(F[s])}
  IN  {S \in SUBSET Pairs : \E index \in Indexes(F) : Matched(F, index, S)}

\* With the sources of both sides read, only what was fetched is created.
SourcesRead(F) ==
  /\ matched' \in Matchings(F)
  /\ plan' = [plan EXCEPT !.creates =
               [s \in Sides |-> {op \in plan.creates[s] : op.id \in Ids(F[s])}]]

FetchSources(s) ==
  /\ phase = "source" /\ side = s
  /\ \E r \in Readings(s, CreateIds(s)) :
       LET F == [fetched EXCEPT ![s] = r.items]
       IN  /\ fetched' = F
           /\ Spend(r.cost)
           /\ IF s = "a" THEN side' = "b" /\ UNCHANGED <<phase, plan, matched>>
              ELSE side' = "a" /\ phase' = "apply" /\ SourcesRead(F)
  /\ UNCHANGED <<serverVars, db, sess, mode, tree, cur, historyVars>>

\* get_items raised for one side: its items are left out, the run goes on.
FetchSourcesFails(s) ==
  /\ phase = "source" /\ side = s
  /\ plan.creates[s] # {}
  /\ Fallible /\ Spend(1)
  /\ LET F == [fetched EXCEPT ![s] = {}]
     IN  /\ fetched' = F
         /\ IF s = "a" THEN side' = "b" /\ UNCHANGED <<phase, plan, matched>>
            ELSE side' = "a" /\ phase' = "apply" /\ SourcesRead(F)
  /\ UNCHANGED <<serverVars, db, sess, mode, tree, cur, historyVars>>

\* Faulty variant: only B's key.
MappingKeyOfB(keyA, keyB, ids) == keyB

\* The identity_key of a new mapping: an op's, A's first, or the legacy one.
MappingKey(keyA, keyB, ids) ==
  IF keyA # NoKey THEN keyA ELSE IF keyB # NoKey THEN keyB ELSE LegacyKey(ids)

\* The run goes on with plan p.
Continue(p) ==
  /\ phase' = "apply"
  /\ plan' = p
  /\ matched' = matched \ {cur.ids}
  /\ cur' = NoCurrent
  /\ UNCHANGED <<side, mode, tree, fetched>>

\* create_mapping and save_snapshot.  The unique constraint on (pair_id,
\* identity_key) raises out of sync_trees.
Record(m, p) ==
  IF m.mkey \in MKeys(sess.maps) THEN Rollback
  ELSE /\ sess' = [sess EXCEPT !.maps = @ \cup {m}]
       /\ Continue(p)
       /\ UNCHANGED db

\* A matched pair: a merge without a snapshot.
MatchWriteA(ids) ==
  /\ phase = "apply" /\ ids \in matched
  /\ \E x \in fetched["a"], y \in fetched["b"],
        opA \in plan.creates["a"], opB \in plan.creates["b"] :
       /\ x.id = ids["a"] /\ opA.id = x.id
       /\ y.id = ids["b"] /\ opB.id = y.id
       /\ \E v \in MergeResults(x, y, NoSnap) : \E w \in Pushes("a", x, v) :
            /\ SetStore("a", w.items)
            /\ Spend(w.cost)
            /\ cur' = [ids |-> ids, mkey |-> MappingKey(opA.key, opB.key, ids),
                       val |-> v, fp |-> w.fp, ok |-> w.ok]
  /\ phase' = "match_b"
  /\ UNCHANGED <<nextId, db, sess, side, mode, tree, plan, fetched, matched,
                 historyVars>>

WithoutPair(ids) ==
  [plan EXCEPT !.creates =
     [s \in Sides |-> {op \in plan.creates[s] : op.id # ids[s]}]]

\* The mapping and its snapshot are stored whether or not the writes succeeded.
MatchWriteB ==
  /\ phase = "match_b"
  /\ \E y \in fetched["b"] :
       /\ y.id = cur.ids["b"]
       /\ \E w \in Pushes("b", y, cur.val) :
            /\ SetStore("b", w.items)
            /\ Spend(w.cost)
            /\ Record([mkey |-> cur.mkey, id |-> cur.ids,
                       fp   |-> [s \in Sides |-> IF s = "a" THEN cur.fp ELSE w.fp],
                       snap |-> cur.val],
                      WithoutPair(cur.ids))
  /\ UNCHANGED <<nextId, historyVars>>

\* create_item of s's item i on side t: what the server holds after it.  A server
\* that has given out MaxId ids is full and refuses.
Creations(t, i) ==
  LET new == [id |-> nextId[t], key |-> i.key, val |-> i.val, ver |-> 1]
      created == store[t] \cup {new}
  IN  IF nextId[t] > MaxId THEN {[items |-> store[t], ok |-> FALSE, cost |-> 0]}
      ELSE {[items |-> created, ok |-> TRUE, cost |-> 0]}
           \cup IF Fallible
                  THEN {[items |-> t2, ok |-> FALSE, cost |-> 1] :
                          t2 \in {store[t], created}}
                  ELSE {}

CreatedMapping(s, op, i) ==
  LET ids == [r \in Sides |-> IF r = s THEN i.id ELSE nextId[r]]
  IN  [mkey |-> MappingKey(op.key, NoKey, ids),
       id   |-> ids,
       fp   |-> [r \in Sides |-> IF r = s THEN i.ver ELSE 1],
       snap |-> i.val]

\* Items of A are created on B before items of B on A.
Create(s, op) ==
  /\ phase = "apply" /\ matched = {}
  /\ op \in plan.creates[s]
  /\ s = "b" => plan.creates["a"] = {}
  /\ \E x \in fetched[s] : \E w \in Creations(Other(s), x) :
       LET p == [plan EXCEPT !.creates[s] = @ \ {op}]
       IN  /\ x.id = op.id
           /\ SetStore(Other(s), w.items)
           /\ nextId' = IF w.items = store[Other(s)] THEN nextId
                        ELSE [nextId EXCEPT ![Other(s)] = @ + 1]
           /\ Spend(w.cost)
           /\ IF w.ok THEN Record(CreatedMapping(s, op, x), p)
              ELSE Continue(p) /\ UNCHANGED <<db, sess>>
  /\ UNCHANGED historyVars

-------------------------------------------------------------------------------
(* Phase 4, deletes, and phase 5. *)

CreatesDone == matched = {} /\ \A s \in Sides : plan.creates[s] = {}

\* delete_item: the mapping stays until a later run sees both items gone.
Delete(s, id) ==
  /\ phase = "apply" /\ CreatesDone
  /\ id \in plan.deletes[s]
  /\ plan' = [plan EXCEPT !.deletes[s] = @ \ {id}]
  /\ \/ SetStore(s, {i \in store[s] : i.id # id}) /\ UNCHANGED left
     \/ Fallible /\ Spend(1) /\ UNCHANGED <<store, rev>>
  /\ UNCHANGED <<nextId, db, sess, phase, side, mode, tree, fetched, matched, cur,
                 historyVars>>

\* Faulty variant: the state string at the end of the run, not of the listing.
CursorsAtEnd ==
  [s \in Sides |-> IF tree[s].cursor = NoCursor THEN sess.cursor[s] ELSE rev[s]]

\* _save_tree_cursors: a side without a state string keeps what it had.
Cursors ==
  [s \in Sides |-> IF tree[s].cursor = NoCursor THEN sess.cursor[s]
                   ELSE tree[s].cursor]

\* The cursors are saved and the run commits.
Finish ==
  /\ phase = "apply" /\ CreatesDone
  /\ \A s \in Sides : plan.deletes[s] = {}
  /\ db' = [sess EXCEPT !.cursor = Cursors]
  /\ sess' = [sess EXCEPT !.cursor = Cursors]
  /\ EndRun
  /\ UNCHANGED <<serverVars, historyVars, left>>

\* The process dies; what it did not commit is lost.
Crash ==
  /\ phase # "idle"
  /\ left.crash > 0
  /\ left' = [left EXCEPT !.crash = @ - 1]
  /\ Rollback
  /\ UNCHANGED <<serverVars, historyVars>>

-------------------------------------------------------------------------------
(* The users of the two servers. *)

UserMayAct(op) ==
  /\ left.user[op] > 0
  /\ left' = [left EXCEPT !.user[op] = @ - 1]
  /\ UNCHANGED <<db, sess, runVars>>

UserCreate(s, k, v) ==
  /\ k \notin used \/ ReuseKeys
  /\ nextId[s] <= MaxId
  /\ SetStore(s, store[s] \cup {[id |-> nextId[s], key |-> k, val |-> v, ver |-> 1]})
  /\ nextId' = [nextId EXCEPT ![s] = @ + 1]
  /\ used' = used \cup {k}
  /\ UNCHANGED deleted
  /\ UserMayAct("create")

UserEdit(s, i, v) ==
  /\ i \in store[s] /\ v # i.val
  /\ SetStore(s, (store[s] \ {i}) \cup {[i EXCEPT !.val = v, !.ver = @ + 1]})
  /\ UNCHANGED <<nextId, historyVars>>
  /\ UserMayAct("edit")

UserDelete(s, i) ==
  /\ i \in store[s]
  /\ SetStore(s, store[s] \ {i})
  /\ deleted' = deleted \cup {<<i.key, \E m \in db.maps : m.id[s] = i.id>>}
  /\ UNCHANGED <<nextId, used>>
  /\ UserMayAct("delete")

-------------------------------------------------------------------------------

Run ==
  \/ \E s \in Sides : SkipContainer(s) \/ ReadState(s) \/ List(s)
  \/ Compare
  \/ Proceed
  \/ \E s \in Sides : FetchMerges(s) \/ FetchSources(s)
  \/ \E op \in plan.merges : MergeSkipped(op) \/ MergeWriteA(op)
  \/ MergeWriteB
  \/ \E ids \in matched : MatchWriteA(ids)
  \/ MatchWriteB
  \/ \E s \in Sides : \E op \in plan.creates[s] : Create(s, op)
  \/ \E s \in Sides : \E id \in plan.deletes[s] : Delete(s, id)
  \/ Finish

Failures ==
  \/ BuildFails
  \/ FetchMergesFails
  \/ \E s \in Sides : FetchSourcesFails(s)
  \/ Crash

Users ==
  \/ \E s \in Sides, k \in Keys, v \in Values : UserCreate(s, k, v)
  \/ \E s \in Sides : \E i \in store[s] :
       UserDelete(s, i) \/ \E v \in Values : UserEdit(s, i, v)

Next ==
  \/ \E md \in Modes : Start(md)
  \/ ReturnUnexecuted
  \/ Run
  \/ Failures
  \/ Users

\* A scheduler starts runs again and again and a started run is carried on.
Fairness ==
  /\ WF_vars(\E md \in Modes : Start(md))
  /\ WF_vars(Run)

Spec == Init /\ [][Next]_vars /\ Fairness

-------------------------------------------------------------------------------
(* Properties. *)

(***************************************************************************)
(* However runs fail, crash and interleave with users, no side ever holds   *)
(* one item twice: an item is created on the other side only where it is    *)
(* not there yet (tree.py, the CREATE_ITEM branches).                       *)
(***************************************************************************)
NoDuplicates ==
  \A s \in Sides : \A i, j \in store[s] : i.key = j.key => i = j

(***************************************************************************)
(* No mapping that a run is about to store has an identity_key the pair     *)
(* already has: the unique constraint never ends a run half way, with its   *)
(* writes made and nothing recorded.                                        *)
(***************************************************************************)
NoKeyClash ==
  /\ phase = "match_b" => cur.mkey \notin MKeys(sess.maps)
  /\ \A s \in Sides : \A op \in plan.creates[s] :
       op.key # NoKey =>
         /\ op.key \notin MKeys(sess.maps)
         /\ \A o \in plan.creates[s] : o.key = op.key => o = op
         /\ \A o \in plan.creates[Other(s)] :
              o.key = op.key => \E p \in matched : p[s] = op.id /\ p[Other(s)] = o.id

(***************************************************************************)
(* A planned delete follows a deletion: the item it removes is mapped, and  *)
(* its counterpart is no longer on the other side (tree.py, "We saw it      *)
(* before and it's gone").                                                  *)
(***************************************************************************)
DeletesFollowDeletions ==
  \A s \in Sides : \A id \in plan.deletes[s] :
    \E m \in sess.maps :
      m.id[s] = id /\ m.id[Other(s)] \notin Ids(store[Other(s)])

(***************************************************************************)
(* An item whose user deleted it after a run had committed its mapping is   *)
(* not brought back, whatever fails meanwhile: no run creates it, on either *)
(* side, since a mapping outlives its items until both are gone.  The one   *)
(* exception is a merge that had fetched the item before it was deleted and *)
(* then writes it, which a DAV server takes for a new one (engine.py,       *)
(* _merge_one; carddav_adapter.py, update_item).                            *)
(***************************************************************************)
NoResurrection ==
  [][\A s \in Sides : \A i \in store'[s] :
       <<i.key, TRUE>> \in deleted /\ i.id \notin Ids(store[s])
         => /\ phase \in {"merge", "merge_b"}
            /\ PutsWhole(s) /\ i.id \in Ids(fetched[s])]_vars

(***************************************************************************)
(* Every item a user made, and of which no user deleted a copy, is on at    *)
(* least one side: whatever the engine misreads, fails to do or leaves half *)
(* done, it never deletes the last copy.                                    *)
(***************************************************************************)
NoItemLost ==
  used \ {d[1] : d \in deleted}
    \subseteq UNION {{i.key : i \in store[s]} : s \in Sides}

(***************************************************************************)
(* Fingerprints never hide a difference: if both items of a merged mapping  *)
(* are what the database recorded, both have the value of its snapshot.     *)
(* (engine.py: "would mask drift from the next sync run".)                  *)
(***************************************************************************)
InSyncWhenUndrifted ==
  \A m \in db.maps :
    \A x \in store["a"], y \in store["b"] :
      /\ m.snap # NoSnap
      /\ x.id = m.id["a"] /\ x.ver = m.fp["a"]
      /\ y.id = m.id["b"] /\ y.ver = m.fp["b"]
      => x.val = m.snap /\ y.val = m.snap

EditedSince(m, s) ==
  m.snap # NoSnap /\ \E i \in fetched[s] : i.id = m.id[s] /\ i.val # m.snap

\* A step gives the item another value than the one get_items returned.
Overwrites(s, id) ==
  \E i \in store[s] \cap fetched[s], j \in store'[s] :
    i.id = id /\ j.id = id /\ i.val # j.val

(***************************************************************************)
(* A merge never overwrites an edit with what was there before it: an item  *)
(* that was fetched with another value than the snapshot's is overwritten   *)
(* only if its counterpart was fetched changed too.                         *)
(***************************************************************************)
NoLostEdit ==
  [][\A s \in Sides, m \in sess.maps :
       cur' # cur /\ EditedSince(m, s) /\ Overwrites(s, m.id[s])
         => EditedSince(m, Other(s))]_vars

(***************************************************************************)
(* A pair of containers is pruned only when comparing it would find nothing *)
(* to write: every edit the hash hides has reached the other side.          *)
(***************************************************************************)
PruneIsSafe ==
  phase = "compare" /\ Prunes(sess.merkle, Listed, Carried)
    => ~HasWrites(Plan(Listed, sess.maps))

(***************************************************************************)
(* A container that the next run would skip holds what the stored hash was  *)
(* computed from: a change made while a run is on is not passed over, since *)
(* the state string is read before the listing.                             *)
(***************************************************************************)
SkipMissesNothing ==
  \A s \in Sides :
    db.cursor[s] = rev[s] /\ db.merkle.kind = "listed"
      => db.merkle.of[s] = {<<i.id, i.ver>> : i \in store[s]}

Agree(x, y) ==
  \/ x.val = y.val
  \/ \E m \in db.maps :
       m.id["a"] = x.id /\ m.id["b"] = y.id /\ m.snap = NoSnap

SidesAgree ==
  /\ {i.key : i \in store["a"]} = {i.key : i \in store["b"]}
  /\ \A x \in store["a"], y \in store["b"] : x.key = y.key => Agree(x, y)

(***************************************************************************)
(* Once users rest, repeated runs bring both sides to the same items with   *)
(* the same values, but for pairs that were paired as they stood and never  *)
(* changed since (tree.py pairs two items of one key without merging them). *)
(***************************************************************************)
Convergence == <>[]SidesAgree
==============================================================================
