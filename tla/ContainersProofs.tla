-------------------------- MODULE ContainersProofs --------------------------
(***************************************************************************)
(* What Containers' runs check of removals, for any number of accounts,     *)
(* containers, routes and changes: whatever becomes of containers, a run    *)
(* takes the last item of a key from an account only after a user removed   *)
(* one.                                                                     *)
(*                                                                         *)
(* The inductive invariant says what a key that is on record still means: a *)
(* mapping, a node of a tree and a planned write each stand for a key that  *)
(* their container has, unless a user removed it.  The last section is about *)
(* types, with hypotheses and an invariant of its own.                       *)
(***************************************************************************)
EXTENDS Containers, TLAPS

\* The accounts start with containers that have ids of their own.
StartApart ==
  \A sc \in Scenarios : \A p, q \in Accounts :
    \A c \in sc.servers[p], d \in sc.servers[q] :
      c.id < FirstId /\ (c.id = d.id => p = q /\ c = d)

\* No account passes over a container, so that a tree shows all there is.
Hypotheses == StartApart /\ Skips = {}

-----------------------------------------------------------------------------
(* The invariant. *)

IsContainer(c) ==
  /\ c = [id |-> c.id, name |-> c.name, items |-> c.items, state |-> c.state]
  /\ c.id \in Nat /\ c.id < nextId

IsDatabase(d) == d = [hash |-> d.hash, known |-> d.known, cursor |-> d.cursor]

IsRun ==
  \/ run = NoRun
  \/ /\ run.route \in Routes
     /\ \/ run = [pc |-> "list_a", route |-> run.route]
        \/ run = [pc |-> "list_b", route |-> run.route, a |-> run.a]
        \/ run = [pc |-> "compare", route |-> run.route, a |-> run.a, b |-> run.b]
        \/ /\ run.pc \in {"make", "write"}
           /\ run = [pc |-> run.pc, route |-> run.route, a |-> run.a, b |-> run.b,
                     makes |-> run.makes, creates |-> run.creates, deletes |-> run.deletes]
           /\ \A o \in run.makes \cup run.creates \cup run.deletes : o.on \in Sides

Shapes ==
  /\ nextId \in Nat
  /\ servers = [p \in Accounts |-> servers[p]]
  /\ \A p \in Accounts : \A c \in servers[p] : IsContainer(c)
  /\ IsDatabase(db) /\ IsDatabase(sess)
  /\ IsRun

\* Containers have ids of their own, whichever account they are in.
IdsApart ==
  \A p, q \in Accounts : \A c \in servers[p], d \in servers[q] : c.id = d.id => p = q /\ c = d

\* The key is in the container of this id, if there is one, or a user removed it.
Held(id, k) ==
  /\ id \in Nat /\ id < nextId
  /\ k \in removed \/ \A p \in Accounts : \A c \in servers[p] : c.id = id => k \in KeysIn(c)

\* A mapping stands for a key that both of its containers had.
MappingsHeld(d) == \A m \in d.known : Held(m[1].ia, m[2]) /\ Held(m[1].ib, m[2])

\* What a tree shows was there, and what it lacks of the mappings was removed.
NodesHeld(nodes) ==
  \A n \in nodes :
    /\ n.id \in Nat /\ n.id < nextId
    /\ \A k \in n.items : Held(n.id, k)
    /\ \A m \in sess.known : n.id = m[1].ia \/ n.id = m[1].ib => m[2] \in n.items \cup removed

TreesHeld ==
  /\ Step("list_b") => NodesHeld(run.a)
  /\ Step("compare") => NodesHeld(run.a) /\ NodesHeld(run.b)

PlanHeld ==
  Step("make") \/ Step("write") =>
    /\ \A o \in run.deletes : o.key \in removed
    /\ \A o \in run.creates : Held(o.from, o.key) /\ o.into \in Nat /\ o.into < nextId

RecordsHeld == MappingsHeld(db) /\ MappingsHeld(sess) /\ TreesHeld /\ PlanHeld

CauseInv == Shapes /\ IdsApart /\ RecordsHeld

-----------------------------------------------------------------------------
(* How the servers change. *)

\* A container is new, or what it was before, less what a user removed.
Evolves ==
  /\ nextId' \in Nat /\ nextId <= nextId'
  /\ removed \subseteq removed'
  /\ servers' = [p \in Accounts |-> servers'[p]]
  /\ \A p \in Accounts : \A c \in servers'[p] :
       /\ IsContainer(c)'
       /\ \/ c.id >= nextId
          \/ \E b \in servers[p] : b.id = c.id /\ KeysIn(b) \ KeysIn(c) \subseteq removed'
  /\ IdsApart'

\* Keys that an account no longer has are among those that a user removed.
LossesCaused == \A p \in Accounts : KeysOf(p) \ KeysOf(p)' \subseteq removed'

\* A step that leaves the servers alone (every listing and comparison) evolves.
LEMMA SameEvolves ==
  ASSUME Shapes, IdsApart, UNCHANGED <<servers, nextId>>, removed \subseteq removed'
  PROVE  Evolves /\ LossesCaused
  BY DEF Shapes, IdsApart, IsContainer, Evolves, LossesCaused, KeysOf, KeysIn

\* A container that is made (create_container) has an id that none had.
LEMMA MakeEvolves ==
  ASSUME Shapes, IdsApart, NEW p \in Accounts, NEW name, Make(p, name), removed' = removed
  PROVE  Evolves /\ LossesCaused
<1>0. PICK new : new = [id |-> nextId, name |-> name, items |-> {}, state |-> 1]
  OBVIOUS
<1>1. nextId' = nextId + 1 /\ nextId \in Nat
  BY DEF Make, Shapes
<1>2. \A q \in Accounts : servers'[q] = IF q = p THEN servers[q] \cup {new} ELSE servers[q]
  BY <1>0 DEF Make, Shapes
<1>3. servers' = [q \in Accounts |-> servers'[q]]
  BY DEF Make, Shapes
<1>4. \A q \in Accounts : \A c \in servers'[q] : c \in servers[q] \/ (q = p /\ c = new)
  BY <1>2
<1>5. \A q \in Accounts : \A c \in servers[q] : IsContainer(c) /\ c.id < nextId
  BY DEF Shapes, IsContainer
<1>6. new.id = nextId /\ IsContainer(new)'
  BY <1>0, <1>1 DEF IsContainer
<1>7. \A q \in Accounts : \A c \in servers[q] : IsContainer(c)' /\ c.id # nextId
  BY <1>1, <1>5 DEF IsContainer
<1>8. IdsApart'
  <2> SUFFICES ASSUME NEW q \in Accounts, NEW r \in Accounts,
                      NEW c \in servers'[q], NEW d \in servers'[r], c.id = d.id
               PROVE  q = r /\ c = d
    BY DEF IdsApart
  <2> QED BY <1>4, <1>6, <1>7 DEF IdsApart
<1>9. Evolves
  <2>1. \A q \in Accounts : \A c \in servers'[q] : IsContainer(c)'
    BY <1>4, <1>6, <1>7
  <2>2. \A q \in Accounts : \A c \in servers'[q] : 
          c.id >= nextId \/ \E b \in servers[q] : b.id = c.id /\ KeysIn(b) \ KeysIn(c) \subseteq removed'
    BY <1>1, <1>4, <1>6
  <2> QED BY <1>1, <1>3, <1>8, <2>1, <2>2 DEF Evolves
<1>10. LossesCaused
  <2> QED BY <1>2 DEF LossesCaused, KeysOf
<1> QED BY <1>9, <1>10

\* A change of the items of a container (an item made, or one that a user removed
\* deleted) leaves it its id and the keys that no user removed.
LEMMA ChangeEvolves ==
  ASSUME Shapes, IdsApart, NEW p \in Accounts, NEW c \in servers[p], NEW items,
         Changed(p, c, items), UNCHANGED nextId, removed \subseteq removed',
         \A k \in KeysIn(c) : k \in removed' \/ \E i \in items : i[1] = k
  PROVE  Evolves /\ LossesCaused
<1>0. PICK new : new = [c EXCEPT !.items = items, !.state = @ + 1]
  OBVIOUS
<1>1. \A q \in Accounts :
        servers'[q] = IF q = p THEN (servers[q] \ {c}) \cup {new} ELSE servers[q]
  BY <1>0 DEF Changed, Shapes
<1>2. servers' = [q \in Accounts |-> servers'[q]]
  BY DEF Changed, Shapes
<1>a. /\ c = [id |-> c.id, name |-> c.name, items |-> c.items, state |-> c.state]
      /\ c.id \in Nat /\ c.id < nextId
  BY DEF Shapes, IsContainer
<1>3. new = [id |-> c.id, name |-> c.name, items |-> items, state |-> c.state + 1]
  BY <1>0, <1>a
<1>4. IsContainer(new)' /\ new.id = c.id /\ KeysIn(c) \ KeysIn(new) \subseteq removed'
  BY <1>3, <1>a DEF IsContainer, KeysIn
<1>5. \A q \in Accounts : \A x \in servers'[q] : (x \in servers[q] /\ x # c) \/ (q = p /\ x = new)
  <2> SUFFICES ASSUME NEW q \in Accounts, NEW x \in servers'[q], ~(q = p /\ x = new)
               PROVE  x \in servers[q] /\ x # c
    OBVIOUS
  <2>1. x \in servers[q] /\ (q = p => x # c)
    BY <1>1
  <2> QED BY <2>1 DEF IdsApart
<1>6. IdsApart'
  <2> SUFFICES ASSUME NEW q \in Accounts, NEW r \in Accounts,
                      NEW x \in servers'[q], NEW y \in servers'[r], x.id = y.id
               PROVE  q = r /\ x = y
    BY DEF IdsApart
  <2> QED BY <1>4, <1>5 DEF IdsApart
<1>7. \A q \in Accounts : \A x \in servers[q] : IsContainer(x)'
  BY DEF Shapes, IsContainer
<1>8. \A q \in Accounts : \A x \in servers'[q] :
        /\ IsContainer(x)'
        /\ \E b \in servers[q] : b.id = x.id /\ KeysIn(b) \ KeysIn(x) \subseteq removed'
  BY <1>4, <1>5, <1>7
<1>9. Evolves
  BY <1>2, <1>6, <1>8 DEF Evolves, Shapes
<1>10. LossesCaused
  BY <1>1, <1>4 DEF LossesCaused, KeysOf
<1> QED BY <1>9, <1>10

\* Put adds a key to a container and takes none away.
LEMMA PutEvolves ==
  ASSUME Shapes, IdsApart, NEW p \in Accounts, NEW c \in servers[p], NEW key,
         Put(p, c, key), UNCHANGED <<nextId, removed>>
  PROVE  Evolves /\ LossesCaused
<1>1. \A k \in KeysIn(c) : \E i \in c.items \cup {<<key, c.state>>} : i[1] = k
  BY DEF KeysIn
<1> QED BY <1>1, ChangeEvolves DEF Put

\* Take takes only the key that it is for.
LEMMA TakeEvolves ==
  ASSUME Shapes, IdsApart, NEW p \in Accounts, NEW c \in servers[p], NEW key,
         Take(p, c, key), UNCHANGED nextId, removed \subseteq removed', key \in removed'
  PROVE  Evolves /\ LossesCaused
<1>1. \A k \in KeysIn(c) : k \in removed' \/ \E i \in {i \in c.items : i[1] # key} : i[1] = k
  BY DEF KeysIn
<1> QED BY <1>1, ChangeEvolves DEF Take

\* A renamed container (a user's) keeps its id and its items.
LEMMA RenameEvolves ==
  ASSUME Shapes, IdsApart, UserRenames
  PROVE  Evolves
<1>0. PICK p \in Accounts : \E c \in servers[p], n \in Names :
        servers' = [servers EXCEPT ![p] = (@ \ {c}) \cup {[c EXCEPT !.name = n]}]
  BY DEF UserRenames
<1>1. PICK c \in servers[p], n \in Names :
        servers' = [servers EXCEPT ![p] = (@ \ {c}) \cup {[c EXCEPT !.name = n]}]
  BY <1>0
<1>a. PICK new : new = [c EXCEPT !.name = n]
  OBVIOUS
<1>2. UNCHANGED <<nextId, removed>>
  BY DEF UserRenames
<1>3. /\ servers' = [q \in Accounts |-> servers'[q]]
      /\ \A q \in Accounts :
           servers'[q] = IF q = p THEN (servers[q] \ {c}) \cup {new} ELSE servers[q]
  BY <1>1, <1>a DEF Shapes
<1>b. /\ c = [id |-> c.id, name |-> c.name, items |-> c.items, state |-> c.state]
      /\ c.id \in Nat /\ c.id < nextId
  BY DEF Shapes, IsContainer
<1>4. new = [id |-> c.id, name |-> n, items |-> c.items, state |-> c.state]
  BY <1>a, <1>b
<1>5. IsContainer(new)' /\ new.id = c.id /\ KeysIn(new) = KeysIn(c)
  BY <1>2, <1>4, <1>b DEF IsContainer, KeysIn
<1>6. \A q \in Accounts : \A x \in servers'[q] : (x \in servers[q] /\ x # c) \/ (q = p /\ x = new)
  <2> SUFFICES ASSUME NEW q \in Accounts, NEW x \in servers'[q], ~(q = p /\ x = new)
               PROVE  x \in servers[q] /\ x # c
    OBVIOUS
  <2>1. x \in servers[q] /\ (q = p => x # c)
    BY <1>3
  <2> QED BY <2>1 DEF IdsApart
<1>7. IdsApart'
  <2> SUFFICES ASSUME NEW q \in Accounts, NEW r \in Accounts,
                      NEW x \in servers'[q], NEW y \in servers'[r], x.id = y.id
               PROVE  q = r /\ x = y
    BY DEF IdsApart
  <2> QED BY <1>5, <1>6 DEF IdsApart
<1>8. \A q \in Accounts : \A x \in servers[q] : IsContainer(x)'
  BY <1>2 DEF Shapes, IsContainer
<1>9. \A q \in Accounts : \A x \in servers'[q] :
        /\ IsContainer(x)'
        /\ \E b \in servers[q] : b.id = x.id /\ KeysIn(b) \ KeysIn(x) \subseteq removed'
  BY <1>5, <1>6, <1>8
<1> QED BY <1>2, <1>3, <1>7, <1>9 DEF Evolves, Shapes

\* A dropped container (a user's) leaves the others as they are.
LEMMA DropEvolves ==
  ASSUME Shapes, IdsApart, UserDrops
  PROVE  Evolves
<1>0. PICK p \in Accounts : \E c \in servers[p] : servers' = [servers EXCEPT ![p] = @ \ {c}]
  BY DEF UserDrops
<1>1. PICK c \in servers[p] : servers' = [servers EXCEPT ![p] = @ \ {c}]
  BY <1>0
<1>2. UNCHANGED <<nextId, removed>>
  BY DEF UserDrops
<1>3. /\ servers' = [q \in Accounts |-> servers'[q]]
      /\ \A q \in Accounts : servers'[q] \subseteq servers[q]
  BY <1>1 DEF Shapes
<1>4. IdsApart'
  BY <1>3 DEF IdsApart
<1>5. \A q \in Accounts : \A x \in servers'[q] : IsContainer(x)'
  BY <1>2, <1>3 DEF Shapes, IsContainer
<1>6. \A q \in Accounts : \A x \in servers'[q] :
        \E b \in servers[q] : b.id = x.id /\ KeysIn(b) \ KeysIn(x) \subseteq removed'
  BY <1>3
<1> QED BY <1>2, <1>3, <1>4, <1>5, <1>6 DEF Evolves, Shapes

\* What a record stands for is still true after any change of the servers.
LEMMA HeldStays ==
  ASSUME Shapes, Evolves, NEW id, NEW k, Held(id, k)
  PROVE  Held(id, k)'
<1>1. id \in Nat /\ id < nextId'
  BY DEF Held, Evolves, Shapes
<1>2. ASSUME k \notin removed', NEW p \in Accounts, NEW c \in servers'[p], c.id = id
      PROVE  k \in KeysIn(c)
  <2>1. PICK b \in servers[p] : b.id = c.id /\ KeysIn(b) \ KeysIn(c) \subseteq removed'
    BY <1>2 DEF Evolves, Held, Shapes
  <2>2. k \in KeysIn(b)
    BY <1>2, <2>1 DEF Held, Evolves
  <2> QED BY <1>2, <2>1, <2>2
<1> QED BY <1>1, <1>2 DEF Held

-----------------------------------------------------------------------------
(* Runs leave the records true. *)

\* The databases' mappings hold on, and so do those that are new if they held before.
LEMMA MappingsStay ==
  ASSUME Shapes, Evolves, NEW d, MappingsHeld(d)
  PROVE  MappingsHeld(d)'
  BY HeldStays DEF MappingsHeld

LEMMA NodesStay ==
  ASSUME Shapes, Evolves, NEW nodes, NodesHeld(nodes), sess'.known = sess.known
  PROVE  NodesHeld(nodes)'
<1> SUFFICES ASSUME NEW n \in nodes
             PROVE  /\ n.id \in Nat /\ n.id < nextId'
                    /\ \A k \in n.items : Held(n.id, k)'
                    /\ \A m \in sess.known :
                         n.id = m[1].ia \/ n.id = m[1].ib => m[2] \in n.items \cup removed'
  BY DEF NodesHeld
<1>1. n.id \in Nat /\ n.id < nextId'
  BY DEF NodesHeld, Evolves, Shapes
<1>2. \A k \in n.items : Held(n.id, k)'
  BY HeldStays DEF NodesHeld
<1>3. \A m \in sess.known :
        n.id = m[1].ia \/ n.id = m[1].ib => m[2] \in n.items \cup removed'
  BY DEF NodesHeld, Evolves
<1> QED BY <1>1, <1>2, <1>3

\* A user's step, or any other that leaves run and database alone.
LEMMA RecordsStay ==
  ASSUME CauseInv, Evolves, UNCHANGED <<db, sess, run>>
  PROVE  RecordsHeld'
<1>1. MappingsHeld(db)' /\ MappingsHeld(sess)'
  BY MappingsStay DEF CauseInv, RecordsHeld
<1>2. TreesHeld'
  BY NodesStay DEF CauseInv, RecordsHeld, TreesHeld, Step
<1>3. PlanHeld'
  BY HeldStays DEF CauseInv, RecordsHeld, PlanHeld, Step, Evolves, Shapes
<1> QED BY <1>1, <1>2, <1>3 DEF RecordsHeld

\* Shapes of what an evolving step leaves.
LEMMA ShapesStay ==
  ASSUME Shapes, Evolves, IsDatabase(db)', IsDatabase(sess)', IsRun'
  PROVE  Shapes'
  BY DEF Shapes, Evolves

\* What a user does (to containers and items, never to a run) keeps the invariant.
LEMMA UsersKeep ==
  ASSUME CauseInv, Users
  PROVE  CauseInv'
<1>1. UNCHANGED <<db, sess, run>>
  BY DEF Users, UserMakes, UserRenames, UserDrops, UserAdds, UserRemoves, User
<1>2. Shapes /\ IdsApart
  BY DEF CauseInv
<1>3. Evolves
  <2>1. CASE UserMakes
    <3>1. PICK p \in Accounts, n \in Names : Make(p, n)
      BY <2>1 DEF UserMakes
    <3>2. removed' = removed
      BY <2>1 DEF UserMakes
    <3> QED BY <1>2, <3>1, <3>2, MakeEvolves
  <2>2. CASE UserRenames
    BY <1>2, <2>2, RenameEvolves
  <2>3. CASE UserDrops
    BY <1>2, <2>3, DropEvolves
  <2>4. CASE UserAdds
    <3>1. PICK p \in Accounts : \E c \in servers[p], k \in Keys : Put(p, c, k)
      BY <2>4 DEF UserAdds
    <3>2. PICK c \in servers[p], k \in Keys : Put(p, c, k)
      BY <3>1
    <3>3. UNCHANGED <<nextId, removed>>
      BY <2>4 DEF UserAdds
    <3> QED BY <1>2, <3>2, <3>3, PutEvolves
  <2>5. CASE UserRemoves
    <3>1. PICK p \in Accounts : \E c \in servers[p] : \E i \in c.items :
            Take(p, c, i[1]) /\ removed' = removed \cup {i[1]}
      BY <2>5 DEF UserRemoves
    <3>2. PICK c \in servers[p] : \E i \in c.items :
            Take(p, c, i[1]) /\ removed' = removed \cup {i[1]}
      BY <3>1
    <3>3. PICK i \in c.items : Take(p, c, i[1]) /\ removed' = removed \cup {i[1]}
      BY <3>2
    <3>4. UNCHANGED nextId
      BY <2>5 DEF UserRemoves
    <3>5. removed \subseteq removed' /\ i[1] \in removed'
      BY <3>3
    <3> QED BY <1>2, <3>3, <3>4, <3>5, TakeEvolves
  <2> QED BY <2>1, <2>2, <2>3, <2>4, <2>5 DEF Users
<1>4. RecordsHeld'
  BY <1>1, <1>3, RecordsStay
<1>5. IsDatabase(db)' /\ IsDatabase(sess)' /\ IsRun'
  BY <1>1, <1>2 DEF Shapes, IsDatabase, IsRun
<1>6. Shapes'
  BY <1>2, <1>3, <1>5, ShapesStay
<1> QED BY <1>3, <1>4, <1>6 DEF CauseInv, Evolves

\* What is known of a run that is writing.
LEMMA Writing ==
  ASSUME CauseInv, Step("make") \/ Step("write")
  PROVE  /\ run = [pc |-> run.pc, route |-> run.route, a |-> run.a, b |-> run.b,
                   makes |-> run.makes, creates |-> run.creates, deletes |-> run.deletes]
         /\ run.pc \in {"make", "write"}
         /\ run.route \in Routes
         /\ \A o \in run.makes \cup run.creates \cup run.deletes :
              o.on \in Sides /\ run.route[o.on] \in Accounts
<1>1. run # NoRun
  BY DEF NoRun, Step
<1>2. /\ run.pc \in {"make", "write"}
      /\ run.route \in Routes
      /\ run = [pc |-> run.pc, route |-> run.route, a |-> run.a, b |-> run.b,
                makes |-> run.makes, creates |-> run.creates, deletes |-> run.deletes]
      /\ \A o \in run.makes \cup run.creates \cup run.deletes : o.on \in Sides
  BY <1>1 DEF CauseInv, Shapes, IsRun, Step
<1>3. run.route \in [Sides -> Accounts]
  BY <1>2, ContainersAssumption
<1> QED BY <1>2, <1>3

\* A write that was made or refused leaves less to do, and mappings that hold.
LEMMA WriteKeeps ==
  ASSUME CauseInv, Step("make") \/ Step("write"), Evolves, UNCHANGED db,
         IsDatabase(sess)', MappingsHeld(sess)',
         NEW pc \in {"make", "write"},
         NEW makes, NEW creates, NEW deletes,
         run' = [pc |-> pc, route |-> run.route, a |-> run.a, b |-> run.b,
                 makes |-> makes, creates |-> creates, deletes |-> deletes],
         makes \subseteq run.makes, creates \subseteq run.creates, deletes \subseteq run.deletes
  PROVE  CauseInv'
<1>1. /\ run' = [pc |-> pc, route |-> run.route, a |-> run.a, b |-> run.b,
                 makes |-> makes, creates |-> creates, deletes |-> deletes]
      /\ run.route \in Routes
      /\ \A o \in makes \cup creates \cup deletes : o.on \in Sides
  BY Writing
<1>2. /\ run'.pc = pc /\ run'.route = run.route /\ run'.a = run.a /\ run'.b = run.b
      /\ run'.makes = makes /\ run'.creates = creates /\ run'.deletes = deletes
  BY <1>1
<1>3. IsRun'
  BY <1>1, <1>2 DEF IsRun
<1>4. IsDatabase(db)'
  BY DEF CauseInv, Shapes, IsDatabase
<1>5. Shapes'
  BY <1>3, <1>4, ShapesStay DEF CauseInv
<1>6. MappingsHeld(db)'
  BY MappingsStay DEF CauseInv, RecordsHeld
<1>7. TreesHeld'
  BY <1>2 DEF TreesHeld, Step
<1>8. PlanHeld'
  <2>1. ASSUME NEW o \in deletes PROVE o.key \in removed'
    BY DEF CauseInv, RecordsHeld, PlanHeld, Evolves
  <2>2. ASSUME NEW o \in creates
        PROVE  Held(o.from, o.key)' /\ o.into \in Nat /\ o.into < nextId'
    <3>1. Held(o.from, o.key) /\ o.into \in Nat /\ o.into < nextId
      BY DEF CauseInv, RecordsHeld, PlanHeld
    <3>2. Held(o.from, o.key)'
      BY <3>1, HeldStays DEF CauseInv
    <3> QED BY <3>1, <3>2 DEF Evolves, CauseInv, Shapes
  <2> QED BY <1>2, <2>1, <2>2 DEF PlanHeld
<1> QED BY <1>5, <1>6, <1>7, <1>8 DEF CauseInv, RecordsHeld, Evolves

\* MakeContainer, MakeRefused and MakeFails, of which only the first makes something.
LEMMA MakesKeep ==
  ASSUME CauseInv, MakeContainer \/ MakeRefused \/ MakeFails
  PROVE  CauseInv' /\ LossesCaused
<1>1. Step("make") /\ UNCHANGED <<db, sess, removed>>
  BY DEF MakeContainer, MakeRefused, MakeFails, Unshared
<1>2. PICK m \in run.makes :
        /\ run' = [run EXCEPT !.makes = @ \ {m}]
        /\ Make(run.route[m.on], m.name) \/ UNCHANGED <<servers, nextId>>
  BY DEF MakeContainer, MakeRefused, MakeFails, Unshared
<1>3. /\ run = [pc |-> run.pc, route |-> run.route, a |-> run.a, b |-> run.b,
                makes |-> run.makes, creates |-> run.creates, deletes |-> run.deletes]
      /\ run.pc = "make" /\ run.route[m.on] \in Accounts
  BY <1>1, Writing DEF Step
<1>4. Evolves /\ LossesCaused
  <2>1. CASE Make(run.route[m.on], m.name)
    <3>1. PICK p \in Accounts : p = run.route[m.on]
      BY <1>3
    <3> QED BY <1>1, <2>1, <3>1, MakeEvolves DEF CauseInv
  <2>2. CASE UNCHANGED <<servers, nextId>>
    BY <1>1, <2>2, SameEvolves DEF CauseInv
  <2> QED BY <1>2, <2>1, <2>2
<1>5. run' = [pc |-> "make", route |-> run.route, a |-> run.a, b |-> run.b,
              makes |-> run.makes \ {m}, creates |-> run.creates, deletes |-> run.deletes]
  BY <1>2, <1>3
<1>6. IsDatabase(sess)'
  BY <1>1 DEF CauseInv, Shapes, IsDatabase
<1>7. MappingsHeld(sess)'
  BY <1>1, <1>4, MappingsStay DEF CauseInv, RecordsHeld
<1>8. PICK makes : makes = run.makes \ {m}
  OBVIOUS
<1>9. PICK creates, deletes : creates = run.creates /\ deletes = run.deletes
  OBVIOUS
<1>10. CauseInv'
  BY <1>1, <1>4, <1>5, <1>6, <1>7, <1>8, <1>9, WriteKeeps
<1> QED BY <1>4, <1>10

\* Creates whose items could not be read are dropped from the plan.
LEMMA FetchesKeep ==
  ASSUME CauseInv, FetchFails
  PROVE  CauseInv' /\ LossesCaused
<1>1. Step("make") /\ UNCHANGED <<servers, nextId, db, sess, removed>>
  BY DEF FetchFails
<1>2. Evolves /\ LossesCaused
  BY <1>1, SameEvolves DEF CauseInv
<1>3. PICK x \in run.creates :
        run' = [run EXCEPT !.creates = {o \in @ : o.on # x.on \/ o.from # x.from}]
  BY DEF FetchFails
<1>4. PICK creates : creates = {o \in run.creates : o.on # x.on \/ o.from # x.from}
  OBVIOUS
<1>5. PICK makes, deletes : makes = run.makes /\ deletes = run.deletes
  OBVIOUS
<1>6. /\ run' = [pc |-> "make", route |-> run.route, a |-> run.a, b |-> run.b,
                 makes |-> makes, creates |-> creates, deletes |-> deletes]
      /\ creates \subseteq run.creates /\ deletes \subseteq run.deletes
  BY <1>1, <1>3, <1>4, <1>5, Writing DEF Step
<1>7. IsDatabase(sess)' /\ MappingsHeld(sess)'
  BY <1>1, <1>2, MappingsStay DEF CauseInv, Shapes, IsDatabase, RecordsHeld
<1>8. CauseInv'
  BY <1>1, <1>2, <1>5, <1>6, <1>7, WriteKeeps
<1> QED BY <1>2, <1>8

\* Items that are matched (_identity_match) are on both sides, and the mapping of the
\* two containers they come from holds.
LEMMA MatchKeeps ==
  ASSUME CauseInv, Match
  PROVE  CauseInv' /\ LossesCaused
<1>1. Step("make") /\ UNCHANGED <<servers, nextId, db, removed>>
  BY DEF Match, Unshared
<1>2. Evolves /\ LossesCaused
  BY <1>1, SameEvolves DEF CauseInv
<1>3. PICK f \in Matchings :
        /\ sess' = [sess EXCEPT !.known = @ \cup MatchMaps(f)]
        /\ run' = [run EXCEPT !.pc = "write",
                              !.creates = Fetched \ (Matched \cup {f[o] : o \in Matched})]
  BY DEF Match
<1>4. PICK creates : creates = Fetched \ (Matched \cup {f[o] : o \in Matched})
  OBVIOUS
<1>5. PICK makes, deletes : makes = run.makes /\ deletes = run.deletes
  OBVIOUS
<1>6. run' = [pc |-> "write", route |-> run.route, a |-> run.a, b |-> run.b,
              makes |-> makes, creates |-> creates, deletes |-> deletes]
  BY <1>1, <1>3, <1>4, <1>5, Writing
<1>7. Fetched \subseteq run.creates /\ creates \subseteq run.creates
  BY <1>4 DEF Fetched
<1>8. ASSUME NEW o \in Matched
      PROVE  o \in run.creates /\ f[o] \in run.creates /\ f[o].key = o.key
  BY <1>3, <1>7 DEF Matchings, Matched, MatchedWith
<1>9. sess = [hash |-> sess.hash, known |-> sess.known, cursor |-> sess.cursor]
  BY DEF CauseInv, Shapes, IsDatabase
<1>10. sess'.known = sess.known \cup MatchMaps(f) /\ IsDatabase(sess)'
  BY <1>3, <1>9 DEF IsDatabase
<1>11. MappingsHeld(sess)'
  <2>1. ASSUME NEW m \in sess.known
        PROVE  Held(m[1].ia, m[2])' /\ Held(m[1].ib, m[2])'
    BY <1>2, HeldStays DEF CauseInv, RecordsHeld, MappingsHeld
  <2>2. ASSUME NEW m \in MatchMaps(f)
        PROVE  Held(m[1].ia, m[2])' /\ Held(m[1].ib, m[2])'
    <3>1. PICK o \in Matched : m = <<PairOf(o.from, f[o].from), o.key>>
      BY DEF MatchMaps
    <3>2. m[1].ia = o.from /\ m[1].ib = f[o].from /\ m[2] = o.key
      BY <3>1 DEF PairOf
    <3>3. Held(o.from, o.key) /\ Held(f[o].from, o.key)
      BY <1>1, <1>8 DEF CauseInv, RecordsHeld, PlanHeld
    <3> QED BY <1>2, <3>2, <3>3, HeldStays DEF CauseInv
  <2> QED BY <1>10, <2>1, <2>2 DEF MappingsHeld
<1>12. CauseInv'
  BY <1>1, <1>2, <1>5, <1>6, <1>7, <1>10, <1>11, WriteKeeps
<1> QED BY <1>2, <1>12

\* After Put the container of this id has the key.
LEMMA PutHolds ==
  ASSUME Shapes, IdsApart, NEW p \in Accounts, NEW c \in servers[p], NEW key,
         Put(p, c, key), UNCHANGED <<nextId, removed>>
  PROVE  Held(c.id, key)'
<1>1. PICK new : new = [c EXCEPT !.items = c.items \cup {<<key, c.state>>}, !.state = @ + 1]
  OBVIOUS
<1>2. servers'[p] = (servers[p] \ {c}) \cup {new}
  BY <1>1 DEF Put, Changed, Shapes
<1>3. /\ c = [id |-> c.id, name |-> c.name, items |-> c.items, state |-> c.state]
      /\ c.id \in Nat /\ c.id < nextId
  BY DEF Shapes, IsContainer
<1>4. new = [id |-> c.id, name |-> c.name, items |-> c.items \cup {<<key, c.state>>},
             state |-> c.state + 1]
  BY <1>1, <1>3
<1>5. new \in servers'[p] /\ new.id = c.id /\ key \in KeysIn(new)
  BY <1>2, <1>4 DEF KeysIn
<1>6. IdsApart'
  BY PutEvolves DEF Evolves
<1>7. \A q \in Accounts : \A x \in servers'[q] : x.id = c.id => x = new
  BY <1>5, <1>6 DEF IdsApart
<1> QED BY <1>3, <1>5, <1>7 DEF Held

\* CreateItem records a mapping of two containers that have the key.
LEMMA CreateKeeps ==
  ASSUME CauseInv, CreateItem
  PROVE  CauseInv' /\ LossesCaused
<1>1. Step("write") /\ UNCHANGED <<nextId, db, removed>>
  BY DEF CreateItem
<1>2. PICK o \in run.creates :
        /\ run' = [run EXCEPT !.creates = @ \ {o}]
        /\ LET p == run.route[o.on]
               to == {c \in servers[p] : c.id = o.into /\ Free(c, o.key)}
               pair == IF o.on = "b" THEN PairOf(o.from, o.into) ELSE PairOf(o.into, o.from)
           IN  IF to = {} THEN UNCHANGED <<servers, sess>>
               ELSE /\ \E c \in to : Put(p, c, o.key)
                    /\ sess' = [sess EXCEPT !.known = @ \cup {<<pair, o.key>>}]
  BY DEF CreateItem
<1>3. PICK p \in Accounts : p = run.route[o.on]
  BY <1>1, Writing
<1>4. PICK pair : pair = IF o.on = "b" THEN PairOf(o.from, o.into) ELSE PairOf(o.into, o.from)
  OBVIOUS
<1>5. /\ pair.ia = o.from \/ pair.ia = o.into
      /\ pair.ib = o.from \/ pair.ib = o.into
  BY <1>4 DEF PairOf
<1>6. \/ UNCHANGED <<servers, sess>>
      \/ /\ \E c \in servers[p] : c.id = o.into /\ Put(p, c, o.key)
         /\ sess' = [sess EXCEPT !.known = @ \cup {<<pair, o.key>>}]
  BY <1>2, <1>3, <1>4
<1>7. PICK makes, creates, deletes :
        makes = run.makes /\ creates = run.creates \ {o} /\ deletes = run.deletes
  OBVIOUS
<1>8. run' = [pc |-> "write", route |-> run.route, a |-> run.a, b |-> run.b,
              makes |-> makes, creates |-> creates, deletes |-> deletes]
  BY <1>1, <1>2, <1>7, Writing DEF Step
<1>9. sess = [hash |-> sess.hash, known |-> sess.known, cursor |-> sess.cursor]
  BY DEF CauseInv, Shapes, IsDatabase
<1>10. CASE UNCHANGED <<servers, sess>>
  <2>1. Evolves /\ LossesCaused
    BY <1>1, <1>10, SameEvolves DEF CauseInv
  <2>2. IsDatabase(sess)' /\ MappingsHeld(sess)'
    BY <1>10, <2>1, MappingsStay DEF CauseInv, Shapes, IsDatabase, RecordsHeld
  <2>3. CauseInv'
    BY <1>1, <1>7, <1>8, <2>1, <2>2, WriteKeeps
  <2> QED BY <2>1, <2>3
<1>11. CASE /\ \E c \in servers[p] : c.id = o.into /\ Put(p, c, o.key)
            /\ sess' = [sess EXCEPT !.known = @ \cup {<<pair, o.key>>}]
  <2>1. PICK c \in servers[p] : c.id = o.into /\ Put(p, c, o.key)
    BY <1>11
  <2>2. Evolves /\ LossesCaused
    BY <1>1, <2>1, PutEvolves DEF CauseInv
  <2>3. IsDatabase(sess)' /\ sess'.known = sess.known \cup {<<pair, o.key>>}
    BY <1>9, <1>11 DEF IsDatabase
  <2>4. Held(o.into, o.key)'
    BY <1>1, <2>1, PutHolds DEF CauseInv
  <2>5. Held(o.from, o.key)'
    <3>1. Held(o.from, o.key)
      BY <1>1 DEF CauseInv, RecordsHeld, PlanHeld
    <3> QED BY <2>2, <3>1, HeldStays DEF CauseInv
  <2>6. Held(pair.ia, o.key)' /\ Held(pair.ib, o.key)'
    BY <1>5, <2>4, <2>5
  <2>7. \A m \in sess.known : Held(m[1].ia, m[2])' /\ Held(m[1].ib, m[2])'
    BY <2>2, HeldStays DEF CauseInv, RecordsHeld, MappingsHeld
  <2>8. MappingsHeld(sess)'
    BY <2>3, <2>6, <2>7 DEF MappingsHeld
  <2>9. CauseInv'
    BY <1>1, <1>7, <1>8, <2>2, <2>3, <2>8, WriteKeeps
  <2> QED BY <2>2, <2>9
<1> QED BY <1>6, <1>10, <1>11

\* DeleteItem deletes what a user removed elsewhere.
LEMMA DeleteKeeps ==
  ASSUME CauseInv, DeleteItem
  PROVE  CauseInv' /\ LossesCaused
<1>1. Step("write") /\ UNCHANGED <<nextId, db, sess, removed>>
  BY DEF DeleteItem
<1>2. PICK o \in run.deletes :
        /\ run' = [run EXCEPT !.deletes = @ \ {o}]
        /\ LET p == run.route[o.on]
               of == {c \in servers[p] : c.id = o.in /\ o.key \in KeysIn(c)}
           IN  IF of = {} THEN UNCHANGED servers ELSE \E c \in of : Take(p, c, o.key)
  BY DEF DeleteItem
<1>3. PICK p \in Accounts : p = run.route[o.on]
  BY <1>1, Writing
<1>4. UNCHANGED servers \/ \E c \in servers[p] : Take(p, c, o.key)
  BY <1>2, <1>3
<1>5. o.key \in removed
  BY <1>1 DEF CauseInv, RecordsHeld, PlanHeld
<1>6. Evolves /\ LossesCaused
  <2>1. CASE UNCHANGED servers
    BY <1>1, <2>1, SameEvolves DEF CauseInv
  <2>2. CASE \E c \in servers[p] : Take(p, c, o.key)
    <3>1. PICK c \in servers[p] : Take(p, c, o.key)
      BY <2>2
    <3> QED BY <1>1, <1>5, <3>1, TakeEvolves DEF CauseInv
  <2> QED BY <1>4, <2>1, <2>2
<1>7. PICK makes, creates, deletes :
        makes = run.makes /\ creates = run.creates /\ deletes = run.deletes \ {o}
  OBVIOUS
<1>8. run' = [pc |-> "write", route |-> run.route, a |-> run.a, b |-> run.b,
              makes |-> makes, creates |-> creates, deletes |-> deletes]
  BY <1>1, <1>2, <1>7, Writing DEF Step
<1>9. IsDatabase(sess)' /\ MappingsHeld(sess)'
  BY <1>1, <1>6, MappingsStay DEF CauseInv, Shapes, IsDatabase, RecordsHeld
<1>10. CauseInv'
  BY <1>1, <1>6, <1>7, <1>8, <1>9, WriteKeeps
<1> QED BY <1>6, <1>10

\* A call that raised made an item or nothing, and no mapping.
LEMMA FailuresKeep ==
  ASSUME CauseInv, ItemFails
  PROVE  CauseInv' /\ LossesCaused
<1>1. Step("write") /\ UNCHANGED <<nextId, db, sess, removed>>
  BY DEF ItemFails
<1>2. \/ \E o \in run.creates :
           /\ run' = [run EXCEPT !.creates = @ \ {o}]
           /\ \/ UNCHANGED servers
              \/ \E c \in servers[run.route[o.on]] : Put(run.route[o.on], c, o.key)
      \/ /\ \E o \in run.deletes : run' = [run EXCEPT !.deletes = @ \ {o}]
         /\ UNCHANGED servers
  BY DEF ItemFails
<1>3. Evolves /\ LossesCaused
  <2>1. CASE UNCHANGED servers
    BY <1>1, <2>1, SameEvolves DEF CauseInv
  <2>2. CASE ~UNCHANGED servers
    <3>1. PICK o \in run.creates :
            \E c \in servers[run.route[o.on]] : Put(run.route[o.on], c, o.key)
      BY <1>2, <2>2
    <3>2. PICK p \in Accounts : p = run.route[o.on]
      BY <1>1, Writing
    <3>3. PICK c \in servers[p] : Put(p, c, o.key)
      BY <3>1, <3>2
    <3> QED BY <1>1, <3>3, PutEvolves DEF CauseInv
  <2> QED BY <2>1, <2>2
<1>4. PICK o : \/ o \in run.creates /\ run' = [run EXCEPT !.creates = @ \ {o}]
               \/ o \in run.deletes /\ run' = [run EXCEPT !.deletes = @ \ {o}]
  BY <1>2
<1>5. PICK makes, creates, deletes :
        /\ makes = run.makes
        /\ creates = run'.creates /\ deletes = run'.deletes
  OBVIOUS
<1>6. /\ run' = [pc |-> "write", route |-> run.route, a |-> run.a, b |-> run.b,
                 makes |-> makes, creates |-> creates, deletes |-> deletes]
      /\ creates \subseteq run.creates /\ deletes \subseteq run.deletes
  BY <1>1, <1>4, <1>5, Writing DEF Step
<1>7. IsDatabase(sess)' /\ MappingsHeld(sess)'
  BY <1>1, <1>3, MappingsStay DEF CauseInv, Shapes, IsDatabase, RecordsHeld
<1>8. CauseInv'
  BY <1>1, <1>3, <1>5, <1>6, <1>7, WriteKeeps
<1> QED BY <1>3, <1>8

\* A run that starts, ends, commits, is aborted or is killed has no tree and no plan,
\* and the mappings of one database.
LEMMA EndsKeep ==
  ASSUME CauseInv,
         (\E route \in Routes : Start(route)) \/ MatchRaises \/ Commit \/ Crash
  PROVE  CauseInv' /\ LossesCaused
<1>1. UNCHANGED <<servers, nextId, removed>>
  BY DEF Start, MatchRaises, Commit, Crash, Unshared
<1>2. Evolves /\ LossesCaused
  BY <1>1, SameEvolves DEF CauseInv
<1>3. /\ db = [hash |-> db.hash, known |-> db.known, cursor |-> db.cursor]
      /\ sess = [hash |-> sess.hash, known |-> sess.known, cursor |-> sess.cursor]
  BY DEF CauseInv, Shapes, IsDatabase
<1>4. sess' = db' /\ IsDatabase(db)' /\ db'.known \in {db.known, sess.known}
  <2>1. CASE (\E route \in Routes : Start(route)) \/ MatchRaises \/ Crash
    BY <1>3, <2>1 DEF Start, MatchRaises, Crash, IsDatabase
  <2>2. CASE Commit
    <3>1. PICK pa \in CursorPicks("a"), pb \in CursorPicks("b") :
            LET d == [sess EXCEPT !.cursor = SavedCursors(sess, "a", pa)]
            IN  db' = [d EXCEPT !.cursor = SavedCursors(d, "b", pb)]
      BY <2>2 DEF Commit
    <3>2. PICK ca : ca = SavedCursors(sess, "a", pa)
      OBVIOUS
    <3>3. PICK d : d = [sess EXCEPT !.cursor = ca]
      OBVIOUS
    <3>4. PICK cb : cb = SavedCursors(d, "b", pb)
      OBVIOUS
    <3>5. db' = [d EXCEPT !.cursor = cb]
      BY <3>1, <3>2, <3>3, <3>4
    <3>6. d = [hash |-> sess.hash, known |-> sess.known, cursor |-> ca]
      BY <1>3, <3>3
    <3>7. db' = [hash |-> sess.hash, known |-> sess.known, cursor |-> cb]
      BY <3>5, <3>6
    <3>8. sess' = db'
      BY <2>2 DEF Commit
    <3> QED BY <3>7, <3>8 DEF IsDatabase
  <2> QED BY <2>1, <2>2
<1>5. IsDatabase(sess)'
  BY <1>4 DEF IsDatabase
<1>6. run' = NoRun \/ \E route \in Routes : run' = [pc |-> "list_a", route |-> route]
  BY DEF Start, MatchRaises, Commit, Crash
<1>7. IsRun'
  BY <1>6 DEF IsRun
<1>8. Shapes'
  BY <1>2, <1>4, <1>5, <1>7, ShapesStay DEF CauseInv
<1>9. MappingsHeld(db)' /\ MappingsHeld(sess)'
  <2>1. ASSUME NEW m \in db'.known PROVE Held(m[1].ia, m[2])' /\ Held(m[1].ib, m[2])'
    <3>1. Held(m[1].ia, m[2]) /\ Held(m[1].ib, m[2])
      BY <1>4 DEF CauseInv, RecordsHeld, MappingsHeld
    <3> QED BY <1>2, <3>1, HeldStays DEF CauseInv
  <2> QED BY <1>4, <2>1 DEF MappingsHeld
<1>10. TreesHeld' /\ PlanHeld'
  BY <1>6 DEF TreesHeld, PlanHeld, Step, NoRun
<1> QED BY <1>2, <1>8, <1>9, <1>10 DEF CauseInv, RecordsHeld, Evolves

\* A tree that is built where no container is passed over shows all that is there.
LEMMA TreeIsWhole ==
  ASSUME CauseInv, Hypotheses, run.route \in Routes, NEW s \in Sides, NEW nodes \in Nodes(s)
  PROVE  NodesHeld(nodes)
<1>1. PICK p \in Accounts : p = run.route[s]
  BY ContainersAssumption
<1>2. ASSUME NEW n \in nodes
      PROVE  \E c \in servers[p] : n.id = c.id /\ n.items = KeysIn(c)
  <2>1. PICK known \in KnownStates(Provider(s)) :
          nodes = {Node(run.route[s], c, known) : c \in servers[run.route[s]]}
    BY DEF Nodes
  <2>2. PICK c \in servers[p] : n = Node(p, c, known)
    BY <1>1, <1>2, <2>1
  <2>3. n.id = c.id /\ n.items = KeysIn(c)
    BY <2>2 DEF Node, Hypotheses
  <2> QED BY <2>3
<1> SUFFICES ASSUME NEW n \in nodes
             PROVE  /\ n.id \in Nat /\ n.id < nextId
                    /\ \A k \in n.items : Held(n.id, k)
                    /\ \A m \in sess.known :
                         n.id = m[1].ia \/ n.id = m[1].ib => m[2] \in n.items \cup removed
  BY DEF NodesHeld
<1>3. PICK c \in servers[p] : n.id = c.id /\ n.items = KeysIn(c)
  BY <1>2
<1>4. c.id \in Nat /\ c.id < nextId
  BY DEF CauseInv, Shapes, IsContainer
<1>5. \A q \in Accounts : \A d \in servers[q] : d.id = c.id => d = c
  BY DEF CauseInv, IdsApart
<1>6. \A k \in n.items : Held(n.id, k)
  BY <1>3, <1>4, <1>5 DEF Held
<1>7. ASSUME NEW m \in sess.known, n.id = m[1].ia \/ n.id = m[1].ib
      PROVE  m[2] \in n.items \cup removed
  <2>1. Held(n.id, m[2])
    BY <1>7 DEF CauseInv, RecordsHeld, MappingsHeld
  <2> QED BY <1>3, <2>1 DEF Held
<1> QED BY <1>3, <1>4, <1>6, <1>7

\* ListA and ListB build trees that are whole.
LEMMA ListsKeep ==
  ASSUME CauseInv, Hypotheses, ListA \/ ListB
  PROVE  CauseInv' /\ LossesCaused
<1>1. UNCHANGED <<servers, nextId, db, sess, removed>>
  BY DEF ListA, ListB, Unshared
<1>2. Evolves /\ LossesCaused
  BY <1>1, SameEvolves DEF CauseInv
<1>3. run # NoRun /\ run.route \in Routes
  BY DEF ListA, ListB, Step, NoRun, CauseInv, Shapes, IsRun
<1>4. IsDatabase(db)' /\ IsDatabase(sess)' /\ MappingsHeld(db)' /\ MappingsHeld(sess)'
  BY <1>1, <1>2, MappingsStay DEF CauseInv, Shapes, IsDatabase, RecordsHeld
<1>5. CASE ListA
  <2>1. PICK nodes \in Nodes("a") : run' = [pc |-> "list_b", route |-> run.route, a |-> nodes]
    BY <1>5 DEF ListA
  <2>2. NodesHeld(nodes)'
    BY <1>1, <1>2, <1>3, TreeIsWhole, NodesStay DEF CauseInv, Sides
  <2>3. run'.pc = "list_b" /\ run'.a = nodes /\ run'.route = run.route
    BY <2>1
  <2>4. IsRun'
    BY <1>3, <2>1, <2>3 DEF IsRun
  <2>5. TreesHeld' /\ PlanHeld'
    BY <2>2, <2>3 DEF TreesHeld, PlanHeld, Step, NodesHeld
  <2>6. Shapes'
    BY <1>2, <1>4, <2>4, ShapesStay DEF CauseInv
  <2> QED BY <1>2, <1>4, <2>5, <2>6 DEF CauseInv, RecordsHeld, Evolves
<1>6. CASE ListB
  <2>1. PICK nodes \in Nodes("b") :
          run' = [pc |-> "compare", route |-> run.route, a |-> run.a, b |-> nodes]
    BY <1>6 DEF ListB
  <2>2. PICK old : old = run.a
    OBVIOUS
  <2>3. NodesHeld(old)
    BY <1>6, <2>2 DEF ListB, CauseInv, RecordsHeld, TreesHeld
  <2>4. NodesHeld(nodes)' /\ NodesHeld(old)'
    BY <1>1, <1>2, <1>3, <2>3, TreeIsWhole, NodesStay DEF CauseInv, Sides
  <2>5. run'.pc = "compare" /\ run'.a = old /\ run'.b = nodes /\ run'.route = run.route
    BY <2>1, <2>2
  <2>6. IsRun'
    BY <1>3, <2>1, <2>2, <2>5 DEF IsRun
  <2>7. TreesHeld' /\ PlanHeld'
    BY <2>4, <2>5 DEF TreesHeld, PlanHeld, Step, NodesHeld
  <2>8. Shapes'
    BY <1>2, <1>4, <2>6, ShapesStay DEF CauseInv
  <2> QED BY <1>2, <1>4, <2>7, <2>8 DEF CauseInv, RecordsHeld, Evolves
<1> QED BY <1>5, <1>6

\* What a comparison plans: creates of what their container has, deletes of what a
\* user removed, since the missing key is on record and the tree is whole.
LEMMA PlanIsCaused ==
  ASSUME CauseInv, Step("compare")
  PROVE  /\ \A o \in Makes \cup Creates \cup Deletes : o.on \in Sides
         /\ \A o \in Creates : Held(o.from, o.key) /\ o.into \in Nat /\ o.into < nextId
         /\ \A o \in Deletes : o.key \in removed
<1>1. NodesHeld(run.a) /\ NodesHeld(run.b)
  BY DEF CauseInv, RecordsHeld, TreesHeld
<1>2. \A m \in Compared : m[1] \in run.a /\ m[2] \in run.b
  BY DEF Compared
<1>3. \A o \in Makes : o.on \in Sides
  BY DEF Makes, Sides
<1>4. ASSUME NEW o \in Creates
      PROVE  o.on \in Sides /\ Held(o.from, o.key) /\ o.into \in Nat /\ o.into < nextId
  <2>1. PICK m \in Compared :
          \/ o.on = "b" /\ o.from = m[1].id /\ o.into = m[2].id /\ o.key \in m[1].items
          \/ o.on = "a" /\ o.from = m[2].id /\ o.into = m[1].id /\ o.key \in m[2].items
    BY DEF Creates
  <2> QED BY <1>1, <1>2, <2>1 DEF NodesHeld, Sides
<1>5. ASSUME NEW o \in Deletes
      PROVE  o.on \in Sides /\ o.key \in removed
  <2>1. PICK m \in Compared :
          /\ o.key \in Cached(PairOf(m[1].id, m[2].id))
          /\ \/ o.on = "a" /\ o.key \notin m[2].items
             \/ o.on = "b" /\ o.key \notin m[1].items
    BY DEF Deletes
  <2>2. PICK x \in sess.known : x[1] = PairOf(m[1].id, m[2].id) /\ x[2] = o.key
    BY <2>1 DEF Cached
  <2>3. x[1].ia = m[1].id /\ x[1].ib = m[2].id
    BY <2>2 DEF PairOf
  <2> QED BY <1>1, <1>2, <2>1, <2>2, <2>3 DEF NodesHeld, Sides
<1> QED BY <1>3, <1>4, <1>5

\* The mappings that a comparison records are of keys that both containers have.
LEMMA KnownIsHeld ==
  ASSUME CauseInv, Step("compare"), NEW m \in KnownAfter
  PROVE  Held(m[1].ia, m[2]) /\ Held(m[1].ib, m[2])
<1>1. NodesHeld(run.a) /\ NodesHeld(run.b)
  BY DEF CauseInv, RecordsHeld, TreesHeld
<1>2. \A x \in Compared : x[1] \in run.a /\ x[2] \in run.b
  BY DEF Compared
<1>3. CASE m \in sess.known
  BY <1>3 DEF CauseInv, RecordsHeld, MappingsHeld
<1>4. CASE m \notin sess.known
  <2>1. PICK x \in Compared :
          \E k \in x[1].items \cap x[2].items : m = <<PairOf(x[1].id, x[2].id), k>>
    BY <1>4 DEF KnownAfter
  <2>2. PICK k \in x[1].items \cap x[2].items : m = <<PairOf(x[1].id, x[2].id), k>>
    BY <2>1
  <2>3. m[1].ia = x[1].id /\ m[1].ib = x[2].id /\ m[2] = k
    BY <2>2 DEF PairOf
  <2> QED BY <1>1, <1>2, <2>2, <2>3 DEF NodesHeld
<1> QED BY <1>3, <1>4

\* Compare plans nothing, or what is caused.
LEMMA CompareKeeps ==
  ASSUME CauseInv, Compare
  PROVE  CauseInv' /\ LossesCaused
<1>1. Step("compare") /\ UNCHANGED <<servers, nextId, db, removed>>
  BY DEF Compare, Unshared
<1>2. Evolves /\ LossesCaused
  BY <1>1, SameEvolves DEF CauseInv
<1>3. run # NoRun /\ run.route \in Routes
  BY <1>1 DEF Step, NoRun, CauseInv, Shapes, IsRun
<1>4. sess = [hash |-> sess.hash, known |-> sess.known, cursor |-> sess.cursor]
  BY DEF CauseInv, Shapes, IsDatabase
<1>5. PICK makes, creates, deletes :
        /\ Planned(makes, creates, deletes)
        /\ \/ makes = {} /\ creates = {} /\ deletes = {} /\ sess' = sess
           \/ /\ makes = Makes /\ creates = Creates /\ deletes = Deletes
              /\ sess' = [sess EXCEPT !.known = KnownAfter, !.hash = HashAfter]
  BY DEF Compare
<1>6. PICK a, b : a = run.a /\ b = run.b
  OBVIOUS
<1>7. run' = [pc |-> "make", route |-> run.route, a |-> a, b |-> b,
              makes |-> makes, creates |-> creates, deletes |-> deletes]
  BY <1>5, <1>6 DEF Planned
<1>8. /\ run'.pc = "make" /\ run'.route = run.route /\ run'.a = a /\ run'.b = b
      /\ run'.makes = makes /\ run'.creates = creates /\ run'.deletes = deletes
  BY <1>7
<1>9. /\ \A o \in makes \cup creates \cup deletes : o.on \in Sides
      /\ \A o \in creates : Held(o.from, o.key) /\ o.into \in Nat /\ o.into < nextId
      /\ \A o \in deletes : o.key \in removed
  BY <1>1, <1>5, PlanIsCaused
<1>10. IsDatabase(sess)' /\ sess'.known \in {sess.known, KnownAfter}
  <2>1. PICK known, hash : known = KnownAfter /\ hash = HashAfter
    OBVIOUS
  <2>2. \/ sess' = sess
        \/ sess' = [hash |-> hash, known |-> known, cursor |-> sess.cursor]
    BY <1>4, <1>5, <2>1
  <2> QED BY <1>4, <2>1, <2>2 DEF IsDatabase
<1>11. MappingsHeld(sess)'
  <2>1. ASSUME NEW m \in sess'.known PROVE Held(m[1].ia, m[2])' /\ Held(m[1].ib, m[2])'
    <3>1. Held(m[1].ia, m[2]) /\ Held(m[1].ib, m[2])
      BY <1>1, <1>10, KnownIsHeld DEF CauseInv, RecordsHeld, MappingsHeld
    <3> QED BY <1>2, <3>1, HeldStays DEF CauseInv
  <2> QED BY <2>1 DEF MappingsHeld
<1>12. IsDatabase(db)' /\ MappingsHeld(db)'
  BY <1>1, <1>2, MappingsStay DEF CauseInv, Shapes, IsDatabase, RecordsHeld
<1>13. IsRun'
  BY <1>3, <1>7, <1>8, <1>9 DEF IsRun
<1>14. Shapes'
  BY <1>2, <1>10, <1>12, <1>13, ShapesStay DEF CauseInv
<1>15. TreesHeld'
  BY <1>8 DEF TreesHeld, Step
<1>16. PlanHeld'
  BY <1>1, <1>8, <1>9 DEF PlanHeld, Held
<1> QED BY <1>2, <1>11, <1>12, <1>14, <1>15, <1>16 DEF CauseInv, RecordsHeld, Evolves

-----------------------------------------------------------------------------
(* The theorems. *)

\* The invariant holds where nothing was synchronised.
LEMMA CauseInit ==
  ASSUME Hypotheses, Init
  PROVE  CauseInv
<1>1. PICK sc \in Scenarios : servers = sc.servers
  BY DEF Init
<1>2. servers \in [Accounts -> SUBSET Container(Keys)]
  BY <1>1, ContainersAssumption
<1>3. \A p \in Accounts : \A c \in servers[p] :
        /\ c = [id |-> c.id, name |-> c.name, items |-> c.items, state |-> c.state]
        /\ c.id \in Nat /\ c.id < nextId
  BY <1>1, <1>2 DEF Container, Hypotheses, StartApart, Init
<1>4. IsDatabase(EmptyDatabase) /\ EmptyDatabase.known = {}
  BY DEF EmptyDatabase, IsDatabase
<1>5. Shapes
  BY <1>2, <1>3, <1>4, ContainersAssumption DEF Shapes, IsContainer, Init, IsRun
<1>6. IdsApart
  BY <1>1 DEF IdsApart, Hypotheses, StartApart
<1>7. RecordsHeld
  BY <1>4 DEF RecordsHeld, MappingsHeld, TreesHeld, PlanHeld, Step, Init, NoRun
<1> QED BY <1>5, <1>6, <1>7 DEF CauseInv

\* Every step keeps it, and a step of a run takes from an account no key that no user
\* removed.
LEMMA CauseStep ==
  ASSUME Hypotheses, CauseInv, [Next]_vars
  PROVE  /\ CauseInv'
         /\ run' # run => LossesCaused /\ removed' = removed
<1>1. CASE UNCHANGED vars
  <2>1. Evolves
    BY <1>1, SameEvolves DEF CauseInv, vars
  <2>2. RecordsHeld'
    BY <1>1, <2>1, RecordsStay DEF vars
  <2>3. IsDatabase(db)' /\ IsDatabase(sess)' /\ IsRun'
    BY <1>1 DEF vars, CauseInv, Shapes, IsDatabase, IsRun
  <2> QED BY <1>1, <2>1, <2>2, <2>3, ShapesStay DEF CauseInv, Evolves, vars
<1>2. CASE Users
  <2>1. run' = run
    BY <1>2 DEF Users, UserMakes, UserRenames, UserDrops, UserAdds, UserRemoves, User
  <2> QED BY <1>2, <2>1, UsersKeep
<1>3. CASE (\E route \in Routes : Start(route)) \/ MatchRaises \/ Commit \/ Crash
  BY <1>3, EndsKeep DEF Start, MatchRaises, Commit, Crash, Unshared
<1>4. CASE ListA \/ ListB
  BY <1>4, ListsKeep DEF ListA, ListB, Unshared
<1>5. CASE Compare
  BY <1>5, CompareKeeps DEF Compare, Unshared
<1>6. CASE MakeContainer \/ MakeRefused \/ MakeFails
  BY <1>6, MakesKeep DEF MakeContainer, MakeRefused, MakeFails, Unshared
<1>7. CASE Match
  BY <1>7, MatchKeeps DEF Match, Unshared
<1>8. CASE CreateItem
  BY <1>8, CreateKeeps DEF CreateItem
<1>9. CASE DeleteItem
  BY <1>9, DeleteKeeps DEF DeleteItem
<1>10. CASE ItemFails
  BY <1>10, FailuresKeep DEF ItemFails
<1>11. CASE FetchFails
  BY <1>11, FetchesKeep DEF FetchFails
<1> QED BY <1>1, <1>2, <1>3, <1>4, <1>5, <1>6, <1>7, <1>8, <1>9, <1>10, <1>11 DEF Next, Run

\* Mappings, trees and plans stand for what their containers have, however many
\* accounts, containers and routes there are and whatever users do (tree.py:368-412,
\* ops.py:get_mappings_by_identity).
THEOREM RecordsAreTrue == Hypotheses => (Spec => []CauseInv)
<1> SUFFICES ASSUME Hypotheses PROVE Spec => []CauseInv
  OBVIOUS
<1>1. Init => CauseInv
  BY CauseInit
<1>2. CauseInv /\ [Next]_vars => CauseInv'
  BY CauseStep
<1> QED BY <1>1, <1>2, PTL DEF Spec

\* A run takes the last item of a key from an account only after a user removed one
\* (tree.py:368-412, engine.py:771-775), where no account passes over containers.
THEOREM RemovalsCaused == Hypotheses => (Spec => RemovalsHaveCause)
<1> SUFFICES ASSUME Hypotheses PROVE Spec => RemovalsHaveCause
  OBVIOUS
<1>1. CauseInv /\ [Next]_vars =>
        [run' # run => \A p \in Accounts : KeysOf(p) \ KeysOf(p)' \subseteq removed]_vars
  BY CauseStep DEF LossesCaused
<1>2. Spec => []CauseInv
  BY RecordsAreTrue
<1> QED BY <1>1, <1>2, PTL DEF Spec, RemovalsHaveCause

-----------------------------------------------------------------------------
(* Types.  Here accounts may pass over containers, and share ids.           *)

OneEach(c) == \A i, j \in c.items : i[1] = j[1] => i = j

\* The containers of one account, all with ids below n.
Account(S, n) ==
  \A c \in S :
    /\ c \in Container(Keys) /\ c.id < n
    /\ OneEach(c)
    /\ \A d \in S : c.name = d.name \/ c.id = d.id => c = d

\* The accounts start with containers that have ids and names of their own, and an
\* item for each of their keys.
StartTyped == \A sc \in Scenarios : \A p \in Accounts : Account(sc.servers[p], FirstId)

ServersTyped ==
  /\ nextId \in Nat
  /\ servers = [p \in Accounts |-> servers[p]]
  /\ \A p \in Accounts : Account(servers[p], nextId)

RecordsTyped(d) ==
  /\ IsDatabase(d)
  /\ \A m \in d.known : m[2] \in Keys
  /\ \A r \in d.cursor : r.pair \in Pairs(d)

NodesTyped(nodes) == \A n \in nodes : n.items \subseteq Keys /\ n.name \in Names

RunTyped ==
  /\ IsRun
  /\ Step("list_b") => NodesTyped(run.a)
  /\ Step("compare") => NodesTyped(run.a) /\ NodesTyped(run.b)
  /\ Step("make") \/ Step("write") =>
       /\ \A o \in run.makes : o.name \in Names
       /\ \A o \in run.creates : o.key \in Keys

TypeInv ==
  /\ ServersTyped
  /\ RecordsTyped(db) /\ RecordsTyped(sess)
  /\ RunTyped
  /\ removed \subseteq Keys /\ spoiled \in BOOLEAN

\* One container of an account is changed for another with its id, a name that no
\* other has and items of different keys.
LEMMA AccountChanged ==
  ASSUME NEW S, NEW n, Account(S, n), NEW c \in S, NEW new \in Container(Keys),
         new.id = c.id, OneEach(new), \A d \in S : d.name = new.name => d = c
  PROVE  Account((S \ {c}) \cup {new}, n)
<1> SUFFICES ASSUME NEW x \in (S \ {c}) \cup {new}
             PROVE  /\ x \in Container(Keys) /\ x.id < n
                    /\ OneEach(x)
                    /\ \A y \in (S \ {c}) \cup {new} : x.name = y.name \/ x.id = y.id => x = y
  BY DEF Account
<1>1. \A y \in S : y.id = c.id => y = c
  BY DEF Account
<1>2. CASE x = new
  BY <1>1, <1>2 DEF Account
<1>3. CASE x \in S \ {c}
  BY <1>1, <1>3 DEF Account
<1> QED BY <1>2, <1>3

LEMMA MakeTyped ==
  ASSUME ServersTyped, NEW p \in Accounts, NEW name \in Names, Make(p, name)
  PROVE  ServersTyped'
<1>1. PICK new : new = [id |-> nextId, name |-> name, items |-> {}, state |-> 1]
  OBVIOUS
<1>2. nextId' = nextId + 1 /\ nextId \in Nat /\ \A d \in servers[p] : d.name # name
  BY DEF Make, ServersTyped, NamesOf
<1>3. /\ servers' = [q \in Accounts |-> servers'[q]]
      /\ \A q \in Accounts : servers'[q] = IF q = p THEN servers[q] \cup {new} ELSE servers[q]
  BY <1>1 DEF Make, ServersTyped
<1>4. new \in Container(Keys) /\ new.id = nextId /\ new.name = name /\ OneEach(new)
  BY <1>1, <1>2 DEF Container, OneEach
<1>5. ASSUME NEW q \in Accounts, NEW c \in servers[q]
      PROVE  c.id \in Nat /\ c.id < nextId
  BY <1>5 DEF ServersTyped, Account, Container
<1>6. ASSUME NEW q \in Accounts
      PROVE  Account(servers'[q], nextId')
  <2> SUFFICES ASSUME NEW c \in servers'[q]
               PROVE  /\ c \in Container(Keys) /\ c.id < nextId'
                      /\ OneEach(c)
                      /\ \A d \in servers'[q] : c.name = d.name \/ c.id = d.id => c = d
    BY DEF Account
  <2>1. CASE c \in servers[q]
    <3>1. c \in Container(Keys) /\ OneEach(c) /\ c.id < nextId'
      BY <1>2, <1>5, <2>1 DEF ServersTyped, Account
    <3>2. c.id # new.id /\ (q = p => c.name # new.name)
      BY <1>2, <1>4, <1>5, <2>1
    <3> QED BY <1>3, <2>1, <3>1, <3>2 DEF ServersTyped, Account
  <2>2. CASE q = p /\ c = new
    <3>1. c.id < nextId'
      BY <1>2, <1>4, <2>2
    <3>2. \A d \in servers[p] : d.id # new.id /\ d.name # new.name
      BY <1>2, <1>4, <1>5
    <3> QED BY <1>3, <1>4, <2>2, <3>1, <3>2
  <2> QED BY <1>3, <2>1, <2>2
<1> QED BY <1>2, <1>3, <1>6 DEF ServersTyped

\* Put adds an item of a new key, Take leaves some of the items.
LEMMA ChangeTyped ==
  ASSUME ServersTyped, NEW p \in Accounts, NEW c \in servers[p],
         NEW items \in SUBSET (Keys \X Nat), Changed(p, c, items), UNCHANGED nextId,
         \A i, j \in items : i[1] = j[1] => i = j
  PROVE  ServersTyped'
<1>1. PICK new : new = [c EXCEPT !.items = items, !.state = @ + 1]
  OBVIOUS
<1>2. c \in Container(Keys) /\ Account(servers[p], nextId)
  BY DEF ServersTyped, Account
<1>3. new = [id |-> c.id, name |-> c.name, items |-> items, state |-> c.state + 1]
  BY <1>1, <1>2 DEF Container
<1>4. new \in Container(Keys) /\ new.id = c.id /\ new.name = c.name /\ OneEach(new)
  BY <1>2, <1>3 DEF Container, OneEach
<1>5. Account((servers[p] \ {c}) \cup {new}, nextId)
  BY <1>2, <1>4, AccountChanged DEF Account
<1>6. /\ servers' = [q \in Accounts |-> servers'[q]]
      /\ \A q \in Accounts :
           servers'[q] = IF q = p THEN (servers[q] \ {c}) \cup {new} ELSE servers[q]
  BY <1>1 DEF Changed, ServersTyped
<1> QED BY <1>5, <1>6 DEF ServersTyped

LEMMA PutTyped ==
  ASSUME ServersTyped, NEW p \in Accounts, NEW c \in servers[p], NEW key \in Keys,
         Put(p, c, key), key \notin KeysIn(c), UNCHANGED nextId
  PROVE  ServersTyped'
<1>1. c \in Container(Keys) /\ OneEach(c)
  BY DEF ServersTyped, Account
<1>2. PICK items : items = c.items \cup {<<key, c.state>>}
  OBVIOUS
<1>3. items \in SUBSET (Keys \X Nat)
  BY <1>1, <1>2 DEF Container
<1>4. \A i, j \in items : i[1] = j[1] => i = j
  BY <1>1, <1>2 DEF OneEach, KeysIn
<1> QED BY <1>2, <1>3, <1>4, ChangeTyped DEF Put

LEMMA TakeTyped ==
  ASSUME ServersTyped, NEW p \in Accounts, NEW c \in servers[p], NEW key,
         Take(p, c, key), UNCHANGED nextId
  PROVE  ServersTyped'
<1>1. c \in Container(Keys) /\ OneEach(c)
  BY DEF ServersTyped, Account
<1>2. PICK items : items = {i \in c.items : i[1] # key}
  OBVIOUS
<1>3. items \in SUBSET (Keys \X Nat)
  BY <1>1, <1>2 DEF Container
<1>4. \A i, j \in items : i[1] = j[1] => i = j
  BY <1>1, <1>2 DEF OneEach
<1> QED BY <1>2, <1>3, <1>4, ChangeTyped DEF Take

LEMMA RenameTyped ==
  ASSUME ServersTyped, UserRenames
  PROVE  ServersTyped'
<1>0. PICK p \in Accounts : \E c \in servers[p], n \in Names \ NamesOf(p) :
        servers' = [servers EXCEPT ![p] = (@ \ {c}) \cup {[c EXCEPT !.name = n]}]
  BY DEF UserRenames
<1>1. PICK c \in servers[p], n \in Names \ NamesOf(p) :
        servers' = [servers EXCEPT ![p] = (@ \ {c}) \cup {[c EXCEPT !.name = n]}]
  BY <1>0
<1>2. PICK new : new = [c EXCEPT !.name = n]
  OBVIOUS
<1>3. c \in Container(Keys) /\ OneEach(c) /\ Account(servers[p], nextId)
  BY DEF ServersTyped, Account
<1>4. new = [id |-> c.id, name |-> n, items |-> c.items, state |-> c.state]
  BY <1>2, <1>3 DEF Container
<1>5. new \in Container(Keys) /\ new.id = c.id /\ new.name = n /\ OneEach(new)
  BY <1>3, <1>4 DEF Container, OneEach
<1>6. \A d \in servers[p] : d.name # n
  BY DEF NamesOf
<1>7. Account((servers[p] \ {c}) \cup {new}, nextId)
  BY <1>3, <1>5, <1>6, AccountChanged
<1>8. /\ servers' = [q \in Accounts |-> servers'[q]]
      /\ \A q \in Accounts :
           servers'[q] = IF q = p THEN (servers[q] \ {c}) \cup {new} ELSE servers[q]
  BY <1>1, <1>2 DEF ServersTyped
<1>9. nextId' = nextId
  BY DEF UserRenames
<1> QED BY <1>7, <1>8, <1>9 DEF ServersTyped

LEMMA DropTyped ==
  ASSUME ServersTyped, UserDrops
  PROVE  ServersTyped'
<1>0. PICK p \in Accounts : \E c \in servers[p] : servers' = [servers EXCEPT ![p] = @ \ {c}]
  BY DEF UserDrops
<1>1. PICK c \in servers[p] : servers' = [servers EXCEPT ![p] = @ \ {c}]
  BY <1>0
<1>2. /\ servers' = [q \in Accounts |-> servers'[q]]
      /\ \A q \in Accounts : servers'[q] \subseteq servers[q]
  BY <1>1 DEF ServersTyped
<1>3. nextId' = nextId
  BY DEF UserDrops
<1> QED BY <1>2, <1>3 DEF ServersTyped, Account

\* What users do.
LEMMA UsersTyped ==
  ASSUME TypeInv, Users
  PROVE  TypeInv'
<1>1. UNCHANGED <<db, sess, run>>
  BY DEF Users, UserMakes, UserRenames, UserDrops, UserAdds, UserRemoves, User
<1>2. ServersTyped /\ removed \subseteq Keys /\ spoiled \in BOOLEAN
  BY DEF TypeInv
<1>3. ServersTyped' /\ removed' \subseteq Keys
  <2>1. CASE UserMakes
    BY <1>2, <2>1, MakeTyped DEF UserMakes
  <2>2. CASE UserRenames
    BY <1>2, <2>2, RenameTyped DEF UserRenames
  <2>3. CASE UserDrops
    BY <1>2, <2>3, DropTyped DEF UserDrops
  <2>4. CASE UserAdds
    <3>1. PICK p \in Accounts : \E c \in servers[p], k \in Keys \ (removed \cup KeysOf(p)) :
            Put(p, c, k)
      BY <2>4 DEF UserAdds
    <3>2. PICK c \in servers[p], k \in Keys \ (removed \cup KeysOf(p)) : Put(p, c, k)
      BY <3>1
    <3>3. k \notin KeysIn(c)
      BY DEF KeysOf
    <3> QED BY <1>2, <2>4, <3>2, <3>3, PutTyped DEF UserAdds
  <2>5. CASE UserRemoves
    <3>1. PICK p \in Accounts : \E c \in servers[p] : \E i \in c.items :
            Take(p, c, i[1]) /\ removed' = removed \cup {i[1]}
      BY <2>5 DEF UserRemoves
    <3>2. PICK c \in servers[p] : \E i \in c.items :
            Take(p, c, i[1]) /\ removed' = removed \cup {i[1]}
      BY <3>1
    <3>3. PICK i \in c.items : Take(p, c, i[1]) /\ removed' = removed \cup {i[1]}
      BY <3>2
    <3>4. i[1] \in Keys
      BY <1>2 DEF ServersTyped, Account, Container
    <3> QED BY <1>2, <2>5, <3>3, <3>4, TakeTyped DEF UserRemoves
  <2> QED BY <2>1, <2>2, <2>3, <2>4, <2>5 DEF Users
<1>4. spoiled' \in BOOLEAN
  BY <1>2 DEF Users, UserMakes, UserRenames, UserDrops, UserAdds, UserRemoves
<1>5. RecordsTyped(db)' /\ RecordsTyped(sess)' /\ RunTyped'
  BY <1>1 DEF TypeInv, RecordsTyped, RunTyped, IsDatabase, Pairs, IsRun, Step, NodesTyped
<1> QED BY <1>3, <1>4, <1>5 DEF TypeInv

\* What is known of a run that is writing.
LEMMA WritingTyped ==
  ASSUME TypeInv, Step("make") \/ Step("write")
  PROVE  /\ run = [pc |-> run.pc, route |-> run.route, a |-> run.a, b |-> run.b,
                   makes |-> run.makes, creates |-> run.creates, deletes |-> run.deletes]
         /\ run.route \in Routes
         /\ \A o \in run.makes \cup run.creates \cup run.deletes :
              o.on \in Sides /\ run.route[o.on] \in Accounts
         /\ \A o \in run.makes : o.name \in Names
         /\ \A o \in run.creates : o.key \in Keys
<1>1. run # NoRun
  BY DEF NoRun, Step
<1>2. /\ run.route \in Routes
      /\ run = [pc |-> run.pc, route |-> run.route, a |-> run.a, b |-> run.b,
                makes |-> run.makes, creates |-> run.creates, deletes |-> run.deletes]
      /\ \A o \in run.makes \cup run.creates \cup run.deletes : o.on \in Sides
  BY <1>1 DEF TypeInv, RunTyped, IsRun, Step
<1>3. run.route \in [Sides -> Accounts]
  BY <1>2, ContainersAssumption
<1> QED BY <1>2, <1>3 DEF TypeInv, RunTyped

\* A write leaves less to do.
LEMMA WriteTyped ==
  ASSUME TypeInv, Step("make") \/ Step("write"),
         ServersTyped', RecordsTyped(sess)', UNCHANGED <<db, removed>>, spoiled' \in BOOLEAN,
         NEW pc \in {"make", "write"}, NEW makes, NEW creates, NEW deletes,
         run' = [pc |-> pc, route |-> run.route, a |-> run.a, b |-> run.b,
                 makes |-> makes, creates |-> creates, deletes |-> deletes],
         makes \subseteq run.makes, creates \subseteq run.creates, deletes \subseteq run.deletes
  PROVE  TypeInv'
<1>1. /\ run.route \in Routes
      /\ \A o \in makes \cup creates \cup deletes : o.on \in Sides
      /\ \A o \in makes : o.name \in Names
      /\ \A o \in creates : o.key \in Keys
  BY WritingTyped
<1>2. /\ run'.pc = pc /\ run'.route = run.route /\ run'.a = run.a /\ run'.b = run.b
      /\ run'.makes = makes /\ run'.creates = creates /\ run'.deletes = deletes
  OBVIOUS
<1>3. IsRun'
  BY <1>1, <1>2 DEF IsRun
<1>4. RunTyped'
  BY <1>1, <1>2, <1>3 DEF RunTyped, Step
<1>5. RecordsTyped(db)'
  BY DEF TypeInv, RecordsTyped, IsDatabase, Pairs
<1> QED BY <1>4, <1>5 DEF TypeInv

\* Mappings that are added (a matching's, a create's) take no pair from a cursor.
LEMMA KnownGrows ==
  ASSUME RecordsTyped(sess), NEW more, \A m \in more : m[2] \in Keys,
         sess' = [sess EXCEPT !.known = @ \cup more]
  PROVE  RecordsTyped(sess)'
<1>1. sess = [hash |-> sess.hash, known |-> sess.known, cursor |-> sess.cursor]
  BY DEF RecordsTyped, IsDatabase
<1>2. sess' = [hash |-> sess.hash, known |-> sess.known \cup more, cursor |-> sess.cursor]
  BY <1>1
<1>3. sess'.hash = sess.hash /\ sess'.known = sess.known \cup more /\ sess'.cursor = sess.cursor
  BY <1>2
<1>4. Pairs(sess) \subseteq Pairs(sess)'
  BY <1>3 DEF Pairs
<1>5. IsDatabase(sess)'
  BY <1>2, <1>3 DEF IsDatabase
<1> QED BY <1>3, <1>4, <1>5 DEF RecordsTyped

LEMMA MakesTyped ==
  ASSUME TypeInv, MakeContainer \/ MakeRefused \/ MakeFails
  PROVE  TypeInv'
<1>1. Step("make") /\ UNCHANGED <<db, sess, removed>> /\ spoiled' \in {spoiled, TRUE}
  BY DEF MakeContainer, MakeRefused, MakeFails, Unshared
<1>2. PICK m \in run.makes :
        /\ run' = [run EXCEPT !.makes = @ \ {m}]
        /\ Make(run.route[m.on], m.name) \/ UNCHANGED <<servers, nextId>>
  BY DEF MakeContainer, MakeRefused, MakeFails, Unshared
<1>3. PICK p \in Accounts : p = run.route[m.on]
  BY <1>1, WritingTyped
<1>4. ServersTyped'
  <2>1. CASE Make(run.route[m.on], m.name)
    BY <1>1, <1>3, <2>1, MakeTyped, WritingTyped DEF TypeInv
  <2>2. CASE UNCHANGED <<servers, nextId>>
    BY <2>2 DEF TypeInv, ServersTyped
  <2> QED BY <1>2, <2>1, <2>2
<1>5. PICK makes, creates, deletes :
        makes = run.makes \ {m} /\ creates = run.creates /\ deletes = run.deletes
  OBVIOUS
<1>6. run' = [pc |-> "make", route |-> run.route, a |-> run.a, b |-> run.b,
              makes |-> makes, creates |-> creates, deletes |-> deletes]
  BY <1>1, <1>2, <1>5, WritingTyped DEF Step
<1>7. RecordsTyped(sess)' /\ spoiled' \in BOOLEAN
  BY <1>1 DEF TypeInv, RecordsTyped, IsDatabase, Pairs
<1> QED BY <1>1, <1>4, <1>5, <1>6, <1>7, WriteTyped

LEMMA FetchesTyped ==
  ASSUME TypeInv, FetchFails
  PROVE  TypeInv'
<1>1. Step("make") /\ UNCHANGED <<servers, nextId, db, sess, removed>> /\ spoiled' = TRUE
  BY DEF FetchFails
<1>2. PICK x \in run.creates :
        run' = [run EXCEPT !.creates = {o \in @ : o.on # x.on \/ o.from # x.from}]
  BY DEF FetchFails
<1>3. PICK creates : creates = {o \in run.creates : o.on # x.on \/ o.from # x.from}
  OBVIOUS
<1>4. PICK makes, deletes : makes = run.makes /\ deletes = run.deletes
  OBVIOUS
<1>5. /\ run' = [pc |-> "make", route |-> run.route, a |-> run.a, b |-> run.b,
                 makes |-> makes, creates |-> creates, deletes |-> deletes]
      /\ creates \subseteq run.creates
  BY <1>1, <1>2, <1>3, <1>4, WritingTyped DEF Step
<1>6. ServersTyped' /\ RecordsTyped(sess)' /\ spoiled' \in BOOLEAN
  BY <1>1 DEF TypeInv, ServersTyped, RecordsTyped, IsDatabase, Pairs
<1> QED BY <1>1, <1>4, <1>5, <1>6, WriteTyped

LEMMA MatchTyped ==
  ASSUME TypeInv, Match
  PROVE  TypeInv'
<1>1. Step("make") /\ UNCHANGED <<servers, nextId, db, removed, spoiled>>
  BY DEF Match, Unshared
<1>2. PICK f \in Matchings :
        /\ sess' = [sess EXCEPT !.known = @ \cup MatchMaps(f)]
        /\ run' = [run EXCEPT !.pc = "write",
                              !.creates = Fetched \ (Matched \cup {f[o] : o \in Matched})]
  BY DEF Match
<1>3. PICK creates : creates = Fetched \ (Matched \cup {f[o] : o \in Matched})
  OBVIOUS
<1>4. PICK makes, deletes : makes = run.makes /\ deletes = run.deletes
  OBVIOUS
<1>5. run' = [pc |-> "write", route |-> run.route, a |-> run.a, b |-> run.b,
              makes |-> makes, creates |-> creates, deletes |-> deletes]
  BY <1>1, <1>2, <1>3, <1>4, WritingTyped
<1>6. Matched \subseteq run.creates /\ creates \subseteq run.creates
  BY <1>3 DEF Matched, Fetched
<1>7. \A m \in MatchMaps(f) : m[2] \in Keys
  BY <1>1, <1>6, WritingTyped DEF MatchMaps
<1>8. RecordsTyped(sess)'
  <2>1. PICK more : more = MatchMaps(f)
    OBVIOUS
  <2> QED BY <1>2, <1>7, <2>1, KnownGrows DEF TypeInv
<1>9. ServersTyped' /\ spoiled' \in BOOLEAN
  BY <1>1 DEF TypeInv, ServersTyped
<1> QED BY <1>1, <1>4, <1>5, <1>6, <1>8, <1>9, WriteTyped

\* CreateItem, DeleteItem and a call that raises.
LEMMA ItemsTyped ==
  ASSUME TypeInv, CreateItem \/ DeleteItem \/ ItemFails
  PROVE  TypeInv'
<1>1. Step("write") /\ UNCHANGED <<nextId, db, removed>> /\ spoiled' \in BOOLEAN
  BY DEF CreateItem, DeleteItem, ItemFails, TypeInv
<1>2. PICK o :
        /\ \/ o \in run.creates /\ run' = [run EXCEPT !.creates = @ \ {o}]
           \/ o \in run.deletes /\ run' = [run EXCEPT !.deletes = @ \ {o}]
        /\ \/ UNCHANGED servers
           \/ /\ o \in run.creates
              /\ \E c \in servers[run.route[o.on]] : Free(c, o.key) /\ Put(run.route[o.on], c, o.key)
           \/ \E c \in servers[run.route[o.on]] : Take(run.route[o.on], c, o.key)
        /\ \/ UNCHANGED sess
           \/ o \in run.creates /\ \E pair : sess' = [sess EXCEPT !.known = @ \cup {<<pair, o.key>>}]
  <2>1. CASE CreateItem
    <3>1. PICK o \in run.creates :
            /\ run' = [run EXCEPT !.creates = @ \ {o}]
            /\ LET p == run.route[o.on]
                   to == {c \in servers[p] : c.id = o.into /\ Free(c, o.key)}
                   pair == IF o.on = "b" THEN PairOf(o.from, o.into) ELSE PairOf(o.into, o.from)
               IN  IF to = {} THEN UNCHANGED <<servers, sess>>
                   ELSE /\ \E c \in to : Put(p, c, o.key)
                        /\ sess' = [sess EXCEPT !.known = @ \cup {<<pair, o.key>>}]
      BY <2>1 DEF CreateItem
    <3>2. PICK pair : pair = IF o.on = "b" THEN PairOf(o.from, o.into) ELSE PairOf(o.into, o.from)
      OBVIOUS
    <3>3. \/ UNCHANGED <<servers, sess>>
          \/ /\ \E c \in servers[run.route[o.on]] :
                  Free(c, o.key) /\ Put(run.route[o.on], c, o.key)
             /\ sess' = [sess EXCEPT !.known = @ \cup {<<pair, o.key>>}]
      BY <3>1, <3>2
    <3> QED BY <3>1, <3>3
  <2>2. CASE DeleteItem
    <3>1. PICK o \in run.deletes :
            /\ run' = [run EXCEPT !.deletes = @ \ {o}]
            /\ LET p == run.route[o.on]
                   of == {c \in servers[p] : c.id = o.in /\ o.key \in KeysIn(c)}
               IN  IF of = {} THEN UNCHANGED servers ELSE \E c \in of : Take(p, c, o.key)
      BY <2>2 DEF DeleteItem
    <3>2. UNCHANGED sess
      BY <2>2 DEF DeleteItem
    <3> QED BY <3>1, <3>2
  <2>3. CASE ItemFails
    BY <2>3 DEF ItemFails
  <2> QED BY <2>1, <2>2, <2>3
<1>3. PICK p \in Accounts : p = run.route[o.on]
  BY <1>1, <1>2, WritingTyped
<1>4. o \in run.creates => o.key \in Keys
  BY <1>1, WritingTyped
<1>5. ServersTyped'
  <2>1. CASE UNCHANGED servers
    BY <1>1, <2>1 DEF TypeInv, ServersTyped
  <2>2. CASE o \in run.creates /\ \E c \in servers[p] : Free(c, o.key) /\ Put(p, c, o.key)
    BY <1>1, <1>4, <2>2, PutTyped DEF TypeInv, Free
  <2>3. CASE \E c \in servers[p] : Take(p, c, o.key)
    BY <1>1, <2>3, TakeTyped DEF TypeInv
  <2> QED BY <1>2, <1>3, <2>1, <2>2, <2>3
<1>6. RecordsTyped(sess)'
  <2>1. CASE UNCHANGED sess
    BY <2>1 DEF TypeInv, RecordsTyped, IsDatabase, Pairs
  <2>2. CASE ~UNCHANGED sess
    <3>1. PICK pair : sess' = [sess EXCEPT !.known = @ \cup {<<pair, o.key>>}]
      BY <1>2, <2>2
    <3>2. PICK more : more = {<<pair, o.key>>}
      OBVIOUS
    <3>3. \A m \in more : m[2] \in Keys
      BY <1>2, <1>4, <2>2, <3>2
    <3> QED BY <3>1, <3>2, <3>3, KnownGrows DEF TypeInv
  <2> QED BY <2>1, <2>2
<1>7. PICK makes, creates, deletes :
        makes = run.makes /\ creates = run'.creates /\ deletes = run'.deletes
  OBVIOUS
<1>8. /\ run' = [pc |-> "write", route |-> run.route, a |-> run.a, b |-> run.b,
                 makes |-> makes, creates |-> creates, deletes |-> deletes]
      /\ creates \subseteq run.creates /\ deletes \subseteq run.deletes
  BY <1>1, <1>2, <1>7, WritingTyped DEF Step
<1> QED BY <1>1, <1>5, <1>6, <1>7, <1>8, WriteTyped

\* The cursors that a run saves are of pairs that it has (_save_tree_cursors).
LEMMA CursorsTyped ==
  ASSUME NEW d, RecordsTyped(d), Pairs(d) = Pairs(sess), NEW s, NEW pick \in CursorPicks(s),
         NEW cursor, cursor = SavedCursors(d, s, pick),
         NEW e, e = [d EXCEPT !.cursor = cursor]
  PROVE  RecordsTyped(e) /\ Pairs(e) = Pairs(sess)
<1>1. e = [hash |-> d.hash, known |-> d.known, cursor |-> cursor]
  BY DEF RecordsTyped, IsDatabase
<1>2. Pairs(e) = Pairs(sess)
  BY <1>1 DEF Pairs
<1>3. ASSUME NEW r \in cursor
      PROVE  r.pair \in Pairs(sess)
  <2>1. CASE r \in d.cursor
    BY <2>1 DEF RecordsTyped
  <2>2. CASE r \notin d.cursor
    <3>1. PICK n \in DOMAIN pick :
            r = [pair |-> pick[n], provider |-> Provider(s), state |-> n.state]
      BY <2>2 DEF SavedCursors
    <3>2. pick[n] \in Pairs(sess)
      BY DEF CursorPicks
    <3> QED BY <3>1, <3>2
  <2> QED BY <2>1, <2>2
<1> QED BY <1>1, <1>2, <1>3 DEF RecordsTyped, IsDatabase

LEMMA EndsTyped ==
  ASSUME TypeInv, (\E route \in Routes : Start(route)) \/ MatchRaises \/ Commit \/ Crash
  PROVE  TypeInv'
<1>1. UNCHANGED <<servers, nextId, removed, spoiled>> /\ sess' = db'
  BY DEF Start, MatchRaises, Commit, Crash, Unshared
<1>2. RecordsTyped(db)'
  <2>1. CASE db' = db
    BY <2>1 DEF TypeInv, RecordsTyped, IsDatabase, Pairs
  <2>2. CASE Commit
    <3>1. PICK pa \in CursorPicks("a"), pb \in CursorPicks("b") :
            LET d == [sess EXCEPT !.cursor = SavedCursors(sess, "a", pa)]
            IN  db' = [d EXCEPT !.cursor = SavedCursors(d, "b", pb)]
      BY <2>2 DEF Commit
    <3>2. PICK ca : ca = SavedCursors(sess, "a", pa)
      OBVIOUS
    <3>3. PICK d : d = [sess EXCEPT !.cursor = ca]
      OBVIOUS
    <3>4. PICK cb : cb = SavedCursors(d, "b", pb)
      OBVIOUS
    <3>5. PICK e : e = [d EXCEPT !.cursor = cb]
      OBVIOUS
    <3>6. RecordsTyped(d) /\ Pairs(d) = Pairs(sess)
      BY <3>2, <3>3, CursorsTyped DEF TypeInv
    <3>7. RecordsTyped(e)
      BY <3>4, <3>5, <3>6, CursorsTyped
    <3>8. db' = e
      BY <3>1, <3>2, <3>3, <3>4, <3>5
    <3> QED BY <3>7, <3>8 DEF RecordsTyped, IsDatabase, Pairs
  <2> QED BY <2>1, <2>2 DEF Start, MatchRaises, Crash
<1>3. RecordsTyped(sess)' /\ ServersTyped'
  BY <1>1, <1>2 DEF RecordsTyped, IsDatabase, Pairs, TypeInv, ServersTyped
<1>4. run' = NoRun \/ \E route \in Routes : run' = [pc |-> "list_a", route |-> route]
  BY DEF Start, MatchRaises, Commit, Crash
<1>5. RunTyped'
  BY <1>4 DEF RunTyped, IsRun, Step, NoRun
<1> QED BY <1>1, <1>2, <1>3, <1>5 DEF TypeInv

\* A tree has names and keys, whether containers are passed over or not.
LEMMA TreesTyped ==
  ASSUME TypeInv, run.route \in Routes, NEW s \in Sides, NEW nodes \in Nodes(s)
  PROVE  NodesTyped(nodes)
<1>1. PICK p \in Accounts : p = run.route[s]
  BY ContainersAssumption
<1>2. PICK known \in KnownStates(Provider(s)) :
        nodes = {Node(run.route[s], c, known) : c \in servers[run.route[s]]}
  BY DEF Nodes
<1> SUFFICES ASSUME NEW n \in nodes PROVE n.items \subseteq Keys /\ n.name \in Names
  BY DEF NodesTyped
<1>3. PICK c \in servers[p] : n = Node(p, c, known)
  BY <1>1, <1>2
<1>4. n.name = c.name /\ n.items \in {{}, KeysIn(c)}
  BY <1>3 DEF Node
<1>5. c \in Container(Keys)
  BY DEF TypeInv, ServersTyped, Account
<1> QED BY <1>4, <1>5 DEF Container, KeysIn

LEMMA ListsTyped ==
  ASSUME TypeInv, ListA \/ ListB
  PROVE  TypeInv'
<1>1. UNCHANGED <<servers, nextId, db, sess, removed, spoiled>>
  BY DEF ListA, ListB, Unshared
<1>2. run.route \in Routes
  BY DEF ListA, ListB, Step, NoRun, TypeInv, RunTyped, IsRun
<1>3. RunTyped'
  <2>1. CASE ListA
    <3>1. PICK nodes \in Nodes("a") : run' = [pc |-> "list_b", route |-> run.route, a |-> nodes]
      BY <2>1 DEF ListA
    <3>2. NodesTyped(nodes)
      BY <1>2, TreesTyped DEF Sides
    <3>3. run'.pc = "list_b" /\ run'.a = nodes /\ run'.route = run.route
      BY <3>1
    <3>4. IsRun'
      BY <1>2, <3>1, <3>3 DEF IsRun
    <3> QED BY <3>2, <3>3, <3>4 DEF RunTyped, Step, NodesTyped
  <2>2. CASE ListB
    <3>1. PICK nodes \in Nodes("b") :
            run' = [pc |-> "compare", route |-> run.route, a |-> run.a, b |-> nodes]
      BY <2>2 DEF ListB
    <3>2. PICK old : old = run.a
      OBVIOUS
    <3>3. NodesTyped(old) /\ NodesTyped(nodes)
      BY <1>2, <2>2, <3>2, TreesTyped DEF ListB, TypeInv, RunTyped, Sides
    <3>4. run'.pc = "compare" /\ run'.a = old /\ run'.b = nodes /\ run'.route = run.route
      BY <3>1, <3>2
    <3>5. IsRun'
      BY <1>2, <3>1, <3>2, <3>4 DEF IsRun
    <3> QED BY <3>3, <3>4, <3>5 DEF RunTyped, Step, NodesTyped
  <2> QED BY <2>1, <2>2
<1> QED BY <1>1, <1>3 DEF TypeInv, ServersTyped, RecordsTyped, IsDatabase, Pairs

\* What the comparison plans and records; a mapping that it forgets is of a pair that
\* has its hash recorded, so no cursor loses its pair.
LEMMA ComparisonTyped ==
  ASSUME TypeInv, Step("compare")
  PROVE  /\ \A o \in Makes \cup Creates \cup Deletes : o.on \in Sides
         /\ \A o \in Makes : o.name \in Names
         /\ \A o \in Creates : o.key \in Keys
         /\ \A m \in KnownAfter : m[2] \in Keys
         /\ \A p \in Pairs(sess) : p \in DOMAIN HashAfter \/ \E m \in KnownAfter : m[1] = p
<1>1. NodesTyped(run.a) /\ NodesTyped(run.b)
  BY DEF TypeInv, RunTyped
<1>2. \A m \in Compared : m[1] \in run.a /\ m[2] \in run.b
  BY DEF Compared
<1>3. \A o \in Makes : o.on \in Sides /\ o.name \in Names
  BY <1>1 DEF Makes, NodesTyped, Sides
<1>4. ASSUME NEW o \in Creates
      PROVE  o.on \in Sides /\ o.key \in Keys
  <2>1. PICK m \in Compared :
          \/ o.on = "b" /\ o.key \in m[1].items
          \/ o.on = "a" /\ o.key \in m[2].items
    BY DEF Creates
  <2> QED BY <1>1, <1>2, <2>1 DEF NodesTyped, Sides
<1>5. \A o \in Deletes : o.on \in Sides
  BY DEF Deletes, Sides
<1>6. ASSUME NEW m \in KnownAfter
      PROVE  m[2] \in Keys
  <2>1. CASE m \in sess.known
    BY <2>1 DEF TypeInv, RecordsTyped
  <2>2. CASE m \notin sess.known
    <3>1. PICK x \in Compared :
            \E k \in x[1].items \cap x[2].items : m = <<PairOf(x[1].id, x[2].id), k>>
      BY <2>2 DEF KnownAfter
    <3> QED BY <1>1, <1>2, <3>1 DEF NodesTyped
  <2> QED BY <2>1, <2>2
<1>7. /\ DOMAIN sess.hash \subseteq DOMAIN HashAfter
      /\ \A x \in Compared : PairOf(x[1].id, x[2].id) \in DOMAIN HashAfter
  <2>1. PICK new : new = {<<PairOf(m[1].id, m[2].id), Combined(m[1].hash, m[2].hash)>> : m \in Compared}
                         \cup {<<PairOf(Root, Root), RootHash>>}
    OBVIOUS
  <2>2. PICK pairs : pairs = {x[1] : x \in new}
    OBVIOUS
  <2>3. DOMAIN HashAfter = DOMAIN sess.hash \cup pairs
    BY <2>1, <2>2 DEF HashAfter
  <2>4. ASSUME NEW x \in Compared
        PROVE  PairOf(x[1].id, x[2].id) \in pairs
    <3>1. PICK y : y = <<PairOf(x[1].id, x[2].id), Combined(x[1].hash, x[2].hash)>>
      OBVIOUS
    <3>2. y \in new /\ y[1] = PairOf(x[1].id, x[2].id)
      BY <2>1, <3>1
    <3> QED BY <2>2, <3>2
  <2> QED BY <2>3, <2>4
<1>8. ASSUME NEW m \in sess.known, m \notin KnownAfter
      PROVE  m[1] \in DOMAIN HashAfter
  <2>1. PICK x \in Compared :
          \E k \in Cached(PairOf(x[1].id, x[2].id)) : m = <<PairOf(x[1].id, x[2].id), k>>
    BY <1>8 DEF KnownAfter
  <2>2. m[1] = PairOf(x[1].id, x[2].id)
    BY <2>1
  <2> QED BY <1>7, <2>2
<1> QED BY <1>3, <1>4, <1>5, <1>6, <1>7, <1>8 DEF Pairs

LEMMA CompareTyped ==
  ASSUME TypeInv, Compare
  PROVE  TypeInv'
<1>1. Step("compare") /\ UNCHANGED <<servers, nextId, db, removed, spoiled>>
  BY DEF Compare, Unshared
<1>2. run.route \in Routes
  BY <1>1 DEF Step, NoRun, TypeInv, RunTyped, IsRun
<1>3. PICK known, hash : known = KnownAfter /\ hash = HashAfter
  OBVIOUS
<1>4. sess = [hash |-> sess.hash, known |-> sess.known, cursor |-> sess.cursor]
  BY DEF TypeInv, RecordsTyped, IsDatabase
<1>5. PICK makes, creates, deletes :
        /\ Planned(makes, creates, deletes)
        /\ \/ makes = {} /\ creates = {} /\ deletes = {} /\ sess' = sess
           \/ /\ makes = Makes /\ creates = Creates /\ deletes = Deletes
              /\ sess' = [sess EXCEPT !.known = known, !.hash = hash]
  BY <1>3 DEF Compare
<1>6. PICK a, b : a = run.a /\ b = run.b
  OBVIOUS
<1>7. run' = [pc |-> "make", route |-> run.route, a |-> a, b |-> b,
              makes |-> makes, creates |-> creates, deletes |-> deletes]
  BY <1>5, <1>6 DEF Planned
<1>8. /\ run'.pc = "make" /\ run'.route = run.route /\ run'.a = a /\ run'.b = b
      /\ run'.makes = makes /\ run'.creates = creates /\ run'.deletes = deletes
  BY <1>7
<1>9. /\ \A o \in makes \cup creates \cup deletes : o.on \in Sides
      /\ \A o \in makes : o.name \in Names
      /\ \A o \in creates : o.key \in Keys
  BY <1>1, <1>5, ComparisonTyped
<1>10. IsRun'
  BY <1>2, <1>7, <1>8, <1>9 DEF IsRun
<1>11. RunTyped'
  BY <1>8, <1>9, <1>10 DEF RunTyped, Step
<1>12. RecordsTyped(sess)'
  <2>1. CASE sess' = sess
    BY <2>1 DEF TypeInv, RecordsTyped, IsDatabase, Pairs
  <2>2. CASE sess' = [sess EXCEPT !.known = known, !.hash = hash]
    <3>1. sess' = [hash |-> hash, known |-> known, cursor |-> sess.cursor]
      BY <1>4, <2>2
    <3>2. sess'.hash = hash /\ sess'.known = known /\ sess'.cursor = sess.cursor /\ IsDatabase(sess)'
      BY <3>1 DEF IsDatabase
    <3>3. \A m \in known : m[2] \in Keys
      BY <1>1, <1>3, ComparisonTyped
    <3>4. Pairs(sess) \subseteq Pairs(sess)'
      BY <1>1, <1>3, <3>2, ComparisonTyped DEF Pairs
    <3> QED BY <3>2, <3>3, <3>4 DEF TypeInv, RecordsTyped
  <2> QED BY <1>5, <2>1, <2>2
<1>13. ServersTyped' /\ RecordsTyped(db)'
  BY <1>1 DEF TypeInv, ServersTyped, RecordsTyped, IsDatabase, Pairs
<1> QED BY <1>1, <1>11, <1>12, <1>13 DEF TypeInv

\* Containers keep ids and names of their own and one item per key, mappings are of
\* keys, and no cursor outlives the pair that it is of (engine.py:1005, ops.py:66-96),
\* for any accounts, routes and changes, whether containers are passed over or not.
THEOREM TypeCorrect == StartTyped => (Spec => []TypeOK)
<1> SUFFICES ASSUME StartTyped PROVE Spec => []TypeOK
  OBVIOUS
<1>1. Init => TypeInv
  <2> SUFFICES ASSUME Init PROVE TypeInv
    OBVIOUS
  <2>1. PICK sc \in Scenarios : servers = sc.servers
    BY DEF Init
  <2>2. servers \in [Accounts -> SUBSET Container(Keys)]
    BY <2>1, ContainersAssumption
  <2>3. ServersTyped
    BY <2>1, <2>2, ContainersAssumption DEF StartTyped, ServersTyped, Init
  <2>4. RecordsTyped(EmptyDatabase)
    BY DEF EmptyDatabase, RecordsTyped, IsDatabase
  <2>5. RunTyped
    BY DEF RunTyped, IsRun, Step, Init, NoRun
  <2> QED BY <2>3, <2>4, <2>5 DEF TypeInv, Init
<1>2. TypeInv /\ [Next]_vars => TypeInv'
  <2> SUFFICES ASSUME TypeInv, [Next]_vars PROVE TypeInv'
    OBVIOUS
  <2>1. CASE UNCHANGED vars
    BY <2>1 DEF vars, TypeInv, ServersTyped, RecordsTyped, IsDatabase, Pairs, RunTyped, IsRun,
                Step, NodesTyped
  <2>2. CASE Users
    BY <2>2, UsersTyped
  <2>3. CASE (\E route \in Routes : Start(route)) \/ MatchRaises \/ Commit \/ Crash
    BY <2>3, EndsTyped
  <2>4. CASE ListA \/ ListB
    BY <2>4, ListsTyped
  <2>5. CASE Compare
    BY <2>5, CompareTyped
  <2>6. CASE MakeContainer \/ MakeRefused \/ MakeFails
    BY <2>6, MakesTyped
  <2>7. CASE Match
    BY <2>7, MatchTyped
  <2>8. CASE CreateItem \/ DeleteItem \/ ItemFails
    BY <2>8, ItemsTyped
  <2>9. CASE FetchFails
    BY <2>9, FetchesTyped
  <2> QED BY <2>1, <2>2, <2>3, <2>4, <2>5, <2>6, <2>7, <2>8, <2>9 DEF Next, Run
<1>3. TypeInv => TypeOK
  BY DEF TypeInv, ServersTyped, Account, OneEach, RecordsTyped, TypeOK
<1> QED BY <1>1, <1>2, <1>3, PTL DEF Spec
=============================================================================
