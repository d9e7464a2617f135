----------------------------- MODULE Containers -----------------------------
(***************************************************************************)
(* Address books and calendars: sync_trees over whole accounts, each with  *)
(* any number of containers, two accounts at a time, and one state database *)
(* for all of them.  Containers are matched by name, made where they are   *)
(* missing, and remembered by id; their items go by their identity keys.   *)
(*                                                                         *)
(* What happens to the values of an item is left to SyncEngine, which has  *)
(* one pair of containers.                                                 *)
(***************************************************************************)
EXTENDS Sides, Integers, FiniteSets

CONSTANTS
  Accounts,
  ProviderOf,   \* the name of an account's provider, its key in the database
  Routes,       \* the commands that are run: which accounts are a and b
  Skips,        \* accounts that pass over a container whose state is unchanged
  Names,        \* lower-cased names of containers
  Keys,
  Scenarios,    \* what the accounts hold at first, and what users then do
  FirstId,      \* of the containers made later
  MaxFail, MaxCrash

UserOps == {"make", "rename", "drop", "add", "remove"}

Container(KeySet) == [id : Nat, name : Names, items : SUBSET (KeySet \X Nat), state : Nat]

ASSUME ContainersAssumption ==
  /\ ProviderOf \in [Accounts -> STRING]
  /\ Routes \subseteq [Sides -> Accounts]
  /\ Skips \subseteq Accounts
  /\ Scenarios \subseteq [servers : [Accounts -> SUBSET Container(Keys)], users : [UserOps -> Nat]]
  /\ FirstId \in Nat \ {0} /\ MaxFail \in Nat /\ MaxCrash \in Nat

VARIABLES
  servers,   \* the containers of each account
  nextId,
  db, sess,  \* the database, committed and as the run sees it
  run,
  removed,   \* keys of which a user removed an item
  spoiled,   \* something happened after which a prune may hide a difference
  left       \* what may still happen

vars == <<servers, nextId, db, sess, run, removed, spoiled, left>>

Root == 0    \* the node "root" of either tree

EmptyDatabase ==
  [hash   |-> [p \in {} |-> {}],    \* NodePair.merkle_hash, by pair
   known  |-> {},                   \* ItemMapping: <<pair, identity_key>>
   cursor |-> {}]                   \* SyncCursor: [pair, provider, state]

NoRun == [pc |-> "idle"]

Init ==
  /\ \E sc \in Scenarios :
       /\ servers = sc.servers
       /\ left = [user |-> sc.users, fail |-> MaxFail, crash |-> MaxCrash]
  /\ nextId = FirstId
  /\ db = EmptyDatabase /\ sess = EmptyDatabase
  /\ run = NoRun
  /\ removed = {}
  /\ spoiled = FALSE

KeysIn(c) == {i[1] : i \in c.items}
KeysOf(p) == UNION {KeysIn(c) : c \in servers[p]}
NamesOf(p) == {c.name : c \in servers[p]}

-----------------------------------------------------------------------------
(* The servers, for users and the program alike: names are unique in an      *)
(* account, an item has a new fingerprint, and a change of a container's     *)
(* items changes its state.                                                  *)

Make(p, name) ==
  /\ name \notin NamesOf(p)
  /\ servers' = [servers EXCEPT ![p] =
       @ \cup {[id |-> nextId, name |-> name, items |-> {}, state |-> 1]}]
  /\ nextId' = nextId + 1

Changed(p, c, items) ==
  servers' = [servers EXCEPT ![p] =
    (@ \ {c}) \cup {[c EXCEPT !.items = items, !.state = @ + 1]}]

Put(p, c, key) == Changed(p, c, c.items \cup {<<key, c.state>>})
Take(p, c, key) == Changed(p, c, {i \in c.items : i[1] # key})

(* Users. *)

User(op) ==
  /\ left.user[op] > 0
  /\ left' = [left EXCEPT !.user[op] = @ - 1]
  /\ UNCHANGED <<db, sess, run>>

UserMakes ==
  /\ User("make")
  /\ \E p \in Accounts, n \in Names : Make(p, n)
  /\ UNCHANGED <<removed, spoiled>>

UserRenames ==
  /\ User("rename")
  /\ \E p \in Accounts : \E c \in servers[p], n \in Names \ NamesOf(p) :
       servers' = [servers EXCEPT ![p] = (@ \ {c}) \cup {[c EXCEPT !.name = n]}]
  /\ spoiled' = TRUE
  /\ UNCHANGED <<nextId, removed>>

UserDrops ==
  /\ User("drop")
  /\ \E p \in Accounts : \E c \in servers[p] :
       /\ servers' = [servers EXCEPT ![p] = @ \ {c}]
       /\ spoiled' = (spoiled \/ c.id >= FirstId)
  /\ UNCHANGED <<nextId, removed>>

\* An item that is elsewhere already is added in a container of the same name.
UserAdds ==
  /\ User("add")
  /\ \E p \in Accounts : \E c \in servers[p], k \in Keys \ (removed \cup KeysOf(p)) :
       /\ \A q \in Accounts : \A d \in servers[q] : k \in KeysIn(d) => d.name = c.name
       /\ Put(p, c, k)
  /\ UNCHANGED <<nextId, removed, spoiled>>

UserRemoves ==
  /\ User("remove")
  /\ \E p \in Accounts : \E c \in servers[p] : \E i \in c.items :
       /\ Take(p, c, i[1])
       /\ removed' = removed \cup {i[1]}
       /\ spoiled' = (spoiled \/ i[2] > 0)
  /\ UNCHANGED nextId

-----------------------------------------------------------------------------
(* The state database. *)

Provider(s) == ProviderOf[run.route[s]]
PairOf(ia, ib) == [pa |-> Provider("a"), ia |-> ia, pb |-> Provider("b"), ib |-> ib]
Pairs(d) == DOMAIN d.hash \cup {m[1] : m \in d.known}

\* get_known_states: one row for a container, whichever comes last.
IdIn(pair, provider) == IF pair.pa = provider THEN pair.ia ELSE pair.ib
KnownRows(provider) ==
  {r \in sess.cursor : r.provider = provider /\ r.pair \in DOMAIN sess.hash}
KnownStates(provider) ==
  LET ids == {IdIn(r.pair, provider) : r \in KnownRows(provider)}
  IN  {f \in [ids -> KnownRows(provider)] : \A i \in ids : IdIn(f[i].pair, provider) = i}

\* get_pair_by_node: the first row, whichever that is.
PairsByNode(d, provider, id, other) ==
  {p \in Pairs(d) : \/ p.pa = provider /\ p.ia = id /\ p.pb = other
                    \/ p.pb = provider /\ p.ib = id /\ p.pa = other}

-----------------------------------------------------------------------------
(* A run: both trees, the comparison, the writes, one commit. *)

Step(pc) == run.pc = pc
Unshared == UNCHANGED <<servers, nextId, removed, spoiled, left>>

Start(route) ==
  /\ Step("idle")
  /\ run' = [pc |-> "list_a", route |-> route]
  /\ sess' = db
  /\ UNCHANGED db
  /\ Unshared

\* build_tree: a skipped container has no children, and its pair's hash.
Node(p, c, known) ==
  LET skipped == p \in Skips /\ c.id \in DOMAIN known /\ known[c.id].state = c.state IN
  [id |-> c.id, name |-> c.name, state |-> c.state,
   items |-> IF skipped THEN {} ELSE KeysIn(c),
   hash |-> IF skipped THEN sess.hash[known[c.id].pair]
            ELSE [id |-> c.id, leaves |-> c.items]]

Nodes(s) ==
  {{Node(run.route[s], c, known) : c \in servers[run.route[s]]} :
     known \in KnownStates(Provider(s))}

ListA ==
  /\ Step("list_a")
  /\ \E nodes \in Nodes("a") : run' = [pc |-> "list_b", route |-> run.route, a |-> nodes]
  /\ UNCHANGED <<db, sess>>
  /\ Unshared

ListB ==
  /\ Step("list_b")
  /\ \E nodes \in Nodes("b") :
       run' = [pc |-> "compare", route |-> run.route, a |-> run.a, b |-> nodes]
  /\ UNCHANGED <<db, sess>>
  /\ Unshared

Hash(nodes) == [children |-> {n.hash : n \in nodes}]
Combined(ha, hb) == [a |-> ha, b |-> hb]
Pruned(pair, h) == pair \in DOMAIN sess.hash /\ sess.hash[pair] = h

\* Faulty variant: the mappings of every pair of the container are looked at.
CachedAnywhere(pair) ==
  {m[2] : m \in {x \in sess.known : x[1].ia = pair.ia \/ x[1].ib = pair.ib}}
\* get_mappings_by_identity
Cached(pair) == {m[2] : m \in {x \in sess.known : x[1] = pair}}

\* Containers of one name that are not pruned.
Compared ==
  {m \in run.a \X run.b :
     /\ m[1].name = m[2].name
     /\ ~Pruned(PairOf(m[1].id, m[2].id), Combined(m[1].hash, m[2].hash))}

\* Items of a container that is only on one side have no container to go to yet:
\* their creates are dropped.
Creates ==
  UNION {LET known == Cached(PairOf(m[1].id, m[2].id)) IN
         {[key |-> k, on |-> "b", from |-> m[1].id, into |-> m[2].id] :
            k \in m[1].items \ (m[2].items \cup known)}
         \cup
         {[key |-> k, on |-> "a", from |-> m[2].id, into |-> m[1].id] :
            k \in m[2].items \ (m[1].items \cup known)} : m \in Compared}

Deletes ==
  UNION {LET known == Cached(PairOf(m[1].id, m[2].id)) IN
         {[key |-> k, on |-> "a", in |-> m[1].id] : k \in (m[1].items \ m[2].items) \cap known}
         \cup
         {[key |-> k, on |-> "b", in |-> m[2].id] : k \in (m[2].items \ m[1].items) \cap known}
         : m \in Compared}

Makes ==
  {[on |-> "b", name |-> n.name] : n \in {x \in run.a : \A y \in run.b : y.name # x.name}}
  \cup
  {[on |-> "a", name |-> n.name] : n \in {x \in run.b : \A y \in run.a : y.name # x.name}}

\* What the comparison leaves of the mappings: pairs of leaves are recorded, those
\* gone from both sides forgotten.
KnownAfter ==
  LET of(m) == PairOf(m[1].id, m[2].id)
      gone == UNION {{<<of(m), k>> : k \in Cached(of(m)) \ (m[1].items \cup m[2].items)} : m \in Compared}
      both == UNION {{<<of(m), k>> : k \in m[1].items \cap m[2].items} : m \in Compared}
  IN  (sess.known \ gone) \cup both

\* Faulty variant: containers with children of the same hash count as the same.
RootHashOfNames == Combined({n.name : n \in run.a}, {n.name : n \in run.b})
RootHash == Combined(Hash(run.a), Hash(run.b))

HashAfter ==
  LET top == PairOf(Root, Root)
      new == {<<PairOf(m[1].id, m[2].id), Combined(m[1].hash, m[2].hash)>> : m \in Compared}
             \cup {<<top, RootHash>>}
      pairs == {x[1] : x \in new}
  IN  [p \in DOMAIN sess.hash \cup pairs |->
         IF p \in pairs THEN (CHOOSE x \in new : x[1] = p)[2] ELSE sess.hash[p]]

Planned(makes, creates, deletes) ==
  run' = [pc |-> "make", route |-> run.route, a |-> run.a, b |-> run.b,
          makes |-> makes, creates |-> creates, deletes |-> deletes]

Compare ==
  /\ Step("compare")
  /\ IF Pruned(PairOf(Root, Root), RootHash)
     THEN Planned({}, {}, {}) /\ UNCHANGED sess
     ELSE /\ Planned(Makes, Creates, Deletes)
          /\ sess' = [sess EXCEPT !.known = KnownAfter, !.hash = HashAfter]
  /\ UNCHANGED db
  /\ Unshared

\* create_container; the id it returns is only logged.
MakeContainer ==
  /\ Step("make")
  /\ \E m \in run.makes :
       /\ Make(run.route[m.on], m.name)
       /\ run' = [run EXCEPT !.makes = @ \ {m}]
  /\ UNCHANGED <<db, sess, removed, spoiled, left>>

\* A server refuses a name that it has.
MakeRefused ==
  /\ Step("make")
  /\ \E m \in run.makes :
       /\ m.name \in NamesOf(run.route[m.on])
       /\ run' = [run EXCEPT !.makes = @ \ {m}]
  /\ UNCHANGED <<db, sess>>
  /\ Unshared

MakeFails ==
  /\ Step("make") /\ left.fail > 0
  /\ \E m \in run.makes : run' = [run EXCEPT !.makes = @ \ {m}]
  /\ left' = [left EXCEPT !.fail = @ - 1] /\ spoiled' = TRUE
  /\ UNCHANGED <<servers, nextId, db, sess, removed>>

\* A get_items of _execute_creates raises: nothing of that container is created.
FetchFails ==
  /\ Step("make") /\ run.makes = {} /\ left.fail > 0
  /\ \E x \in run.creates :
       run' = [run EXCEPT !.creates = {o \in @ : o.on # x.on \/ o.from # x.from}]
  /\ left' = [left EXCEPT !.fail = @ - 1] /\ spoiled' = TRUE
  /\ UNCHANGED <<servers, nextId, db, sess, removed>>

\* get_items finds the items to be created that are still there.  _identity_match
\* pairs creates of one key whichever containers they are for.
Fetched ==
  {o \in run.creates :
     \E c \in servers[run.route[Other(o.on)]] : c.id = o.from /\ o.key \in KeysIn(c)}
MatchedWith(o) == {x \in Fetched : x.on = "a" /\ x.key = o.key}
Matched == {o \in Fetched : o.on = "b" /\ MatchedWith(o) # {}}

\* The new mappings of a matching: B's item is paired with A's.
Matchings ==
  {f \in [Matched -> Fetched] : \A o \in Matched : f[o] \in MatchedWith(o)}
MatchMaps(f) == {<<PairOf(o.from, f[o].from), o.key>> : o \in Matched}

Match ==
  /\ Step("make") /\ run.makes = {}
  /\ \E f \in Matchings :
       /\ MatchMaps(f) \cap sess.known = {}
       /\ sess' = [sess EXCEPT !.known = @ \cup MatchMaps(f)]
       /\ run' = [run EXCEPT !.pc = "write",
                             !.creates = Fetched \ (Matched \cup {f[o] : o \in Matched})]
  /\ UNCHANGED db
  /\ Unshared

\* A mapping the pair has already: the unique constraint ends the run.
MatchRaises ==
  /\ Step("make") /\ run.makes = {}
  /\ \E f \in Matchings : MatchMaps(f) \cap sess.known # {}
  /\ run' = NoRun /\ sess' = db
  /\ UNCHANGED db
  /\ Unshared

\* Faulty variant: a key the container has already is created once more.
FreeAlways(c, key) == TRUE
Free(c, key) == key \notin KeysIn(c)

\* create_item is refused where the container is gone, or has the key.
CreateItem ==
  /\ Step("write")
  /\ \E o \in run.creates :
       /\ run' = [run EXCEPT !.creates = @ \ {o}]
       /\ LET p == run.route[o.on]
              to == {c \in servers[p] : c.id = o.into /\ Free(c, o.key)}
              pair == IF o.on = "b" THEN PairOf(o.from, o.into) ELSE PairOf(o.into, o.from)
          IN  IF to = {} THEN UNCHANGED <<servers, sess>>
              ELSE /\ \E c \in to : Put(p, c, o.key)
                   /\ sess' = [sess EXCEPT !.known = @ \cup {<<pair, o.key>>}]
  /\ UNCHANGED <<nextId, db, removed, spoiled, left>>

DeleteItem ==
  /\ Step("write") /\ run.creates = {}
  /\ \E o \in run.deletes :
       /\ run' = [run EXCEPT !.deletes = @ \ {o}]
       /\ LET p == run.route[o.on]
              of == {c \in servers[p] : c.id = o.in /\ o.key \in KeysIn(c)}
          IN  IF of = {} THEN UNCHANGED servers ELSE \E c \in of : Take(p, c, o.key)
  /\ UNCHANGED <<nextId, db, sess, removed, spoiled, left>>

\* A call for an item raises, before or after the server did what it was asked.
ItemFails ==
  /\ Step("write") /\ left.fail > 0
  /\ \/ \E o \in run.creates :
          /\ run' = [run EXCEPT !.creates = @ \ {o}]
          /\ \/ UNCHANGED servers
             \/ \E c \in servers[run.route[o.on]] :
                  c.id = o.into /\ Free(c, o.key) /\ Put(run.route[o.on], c, o.key)
     \/ /\ run.creates = {}
        /\ \E o \in run.deletes : run' = [run EXCEPT !.deletes = @ \ {o}]
        /\ UNCHANGED servers
  /\ left' = [left EXCEPT !.fail = @ - 1] /\ spoiled' = TRUE
  /\ UNCHANGED <<nextId, db, sess, removed>>

\* _save_tree_cursors, for tree a and then for tree b, and the commit.
SavedCursors(d, s, pick) ==
  LET new == {[pair |-> pick[n], provider |-> Provider(s), state |-> n.state] : n \in DOMAIN pick}
  IN  {r \in d.cursor : \A x \in new : x.pair # r.pair \/ x.provider # r.provider} \cup new

CursorPicks(s) ==
  LET pairs(n) == PairsByNode(sess, Provider(s), n.id, Provider(Other(s)))
      nodes == {n \in run[s] : run.route[s] \in Skips /\ pairs(n) # {}}
  IN  {f \in [nodes -> Pairs(sess)] : \A n \in nodes : f[n] \in pairs(n)}

Commit ==
  /\ Step("write") /\ run.creates = {} /\ run.deletes = {}
  /\ \E pa \in CursorPicks("a"), pb \in CursorPicks("b") :
       LET d == [sess EXCEPT !.cursor = SavedCursors(sess, "a", pa)]
       IN  db' = [d EXCEPT !.cursor = SavedCursors(d, "b", pb)]
  /\ sess' = db'
  /\ run' = NoRun
  /\ Unshared

Crash ==
  /\ ~Step("idle") /\ left.crash > 0
  /\ run' = NoRun /\ sess' = db
  /\ left' = [left EXCEPT !.crash = @ - 1]
  /\ UNCHANGED <<servers, nextId, db, removed, spoiled>>

Run ==
  \/ ListA \/ ListB \/ Compare
  \/ MakeContainer \/ MakeRefused \/ Match \/ MatchRaises
  \/ CreateItem \/ DeleteItem \/ Commit

Users == UserMakes \/ UserRenames \/ UserDrops \/ UserAdds \/ UserRemoves

Next ==
  \/ \E route \in Routes : Start(route)
  \/ Run \/ MakeFails \/ FetchFails \/ ItemFails \/ Crash \/ Users

\* Each command is run again and again, and a run that was started carries on.
Spec ==
  /\ Init /\ [][Next]_vars
  /\ WF_vars(Run)
  /\ \A route \in Routes : SF_vars(Start(route))

-----------------------------------------------------------------------------
\* The domains of the variables; a container has an item of a key once.
TypeOK ==
  /\ \A p \in Accounts : \A c \in servers[p] :
       /\ c \in Container(Keys) /\ c.id < nextId
       /\ \A i, j \in c.items : i[1] = j[1] => i = j
       /\ \A d \in servers[p] : c.name = d.name \/ c.id = d.id => c = d
  /\ \A d \in {db, sess} :
       /\ \A m \in d.known : m[2] \in Keys
       /\ \A r \in d.cursor : r.pair \in Pairs(d)
  /\ removed \subseteq Keys /\ spoiled \in BOOLEAN

\* Whatever becomes of containers, the program takes the last item of a key from
\* an account only after a user removed one: mappings of a container that was
\* renamed, dropped or made again never delete anything (tree.py:368-412).
RemovalsHaveCause ==
  [][run' # run => \A p \in Accounts : KeysOf(p) \ KeysOf(p)' \subseteq removed]_vars

SameContainers(p, q) ==
  /\ NamesOf(p) = NamesOf(q)
  /\ \A c \in servers[p], d \in servers[q] : c.name = d.name => KeysIn(c) = KeysIn(d)

\* Accounts that are synchronised get the same containers with the same items,
\* those of a container that had to be made by the run after the one that made it
\* (tree.py:146-148, engine.py:771-775).  A failed call, a rename, and a change to
\* what a run has made spoil this: the stored hash may describe it.
TreesAlike == <>[](spoiled \/ \A r \in Routes : SameContainers(r.a, r.b))

\* A run does not end on the unique constraint of the mappings.
MatchesAreNew ==
  Step("make") /\ run.makes = {} =>
    \A f \in Matchings : MatchMaps(f) \cap sess.known = {}

Skippable(p, c) ==
  p \in Skips /\ \E r \in db.cursor :
    /\ r.provider = ProviderOf[p] /\ IdIn(r.pair, ProviderOf[p]) = c.id
    /\ r.pair \in DOMAIN db.hash /\ r.state = c.state

\* A container is passed over only in runs that have seen its items: those that
\* have a pair for it (ops.py:77-80 says that a container may take part in several).
SkipMissesNothing ==
  Step("idle") =>
    \A r \in Routes, s \in Sides : \A c \in servers[r[s]] : Skippable(r[s], c) =>
      \A p \in {x \in DOMAIN db.hash :
                  /\ x.pa = ProviderOf[r.a] /\ x.pb = ProviderOf[r.b]
                  /\ IF s = "a" THEN x.ia = c.id ELSE x.ib = c.id} :
        KeysIn(c) \subseteq {m[2] : m \in {x \in db.known : x[1] = p}}
=============================================================================
