--------------------------- MODULE ConvertedRounds ---------------------------
(***************************************************************************)
(* One item on two servers of different kinds, through users' edits and the *)
(* rounds of the engine: an item that one side lacks is created there, two  *)
(* items are merged with the snapshot of the last round.  What a side       *)
(* stores is its protocol's record, and everything passes through the       *)
(* adapters' conversions: Read and Writes, which are given by ContactCodecs *)
(* and EventCodecs.  A round merges whenever it likes: a change of anything *)
(* else in the item is enough to start it, and a side that does not differ  *)
(* in the fields looked at may differ in another and be written.            *)
(***************************************************************************)
EXTENDS Merge, TLC

CONSTANTS
  Absent,
  Read(_, _),          \* backend, record |-> fields of the item
  Writes(_, _, _),     \* backend, record or Absent, merged fields |-> the
                       \* records the server may hold then; none if it fails
  Natives(_, _),       \* backend, group |-> records users give an item
  Scenarios,           \* [kind : Sides -> backend, group : fields users edit]
  Untimed,             \* backends whose items carry no updated_at
  Separate(_),         \* backend |-> fields with calls of their own, whose
                       \* failure is passed over
  Unstored(_),         \* backend |-> fields its write conversion leaves out
  Fact(_, _),          \* field, value |-> <<field, what conversions keep of it>>,
                       \* None for a default that says nothing
  MaxEdits, MaxFaults

ASSUME RoundsAssumption == MaxEdits \in Nat /\ MaxFaults \in Nat

VARIABLES
  scene,      \* the scenario, which never changes
  native,     \* side -> what its server holds
  snap,       \* the snapshot of the pair, NoSnapshot before the first round
  edits, faults,
  quiet,      \* recorded rounds since the last edit, up to 4
  given,      \* facts users have ever stored
  withdrawn,  \* facts users have ever removed from a side
  fresh,      \* side -> facts users stored there since the last recorded round
  missed      \* fields a separate call failed for

vars == <<scene, native, snap, edits, faults, quiet, given, withdrawn, fresh, missed>>

-----------------------------------------------------------------------------
Kind(s) == scene.kind[s]
Present(s) == native[s] # Absent
ItemOf(s) == Read(Kind(s), native[s])

\* What an item tells: of a scalar its value, of a list each element.
Facts(i) ==
  (UNION {{Fact(f, v) : v \in IF Strategy[f] = "set" THEN Elements(i[f]) ELSE {i[f]} \ {None}} :
            f \in Fields}) \ {None}
Told(s) == IF Present(s) THEN Facts(ItemOf(s)) ELSE {}

\* What a user may have on a side before the first round.
Held(s) == {Absent} \cup Natives(Kind(s), scene.group)

Init ==
  /\ scene \in Scenarios
  /\ \E x \in Held("a"), y \in Held("b") : native = [s \in Sides |-> IF s = "a" THEN x ELSE y]
  /\ \E s \in Sides : Present(s)
  /\ snap = NoSnapshot
  /\ edits = 0 /\ faults = 0 /\ quiet = 0
  /\ given = UNION {Told(s) : s \in Sides}
  /\ withdrawn = {} /\ missed = {}
  /\ fresh = [s \in Sides |-> {}]

Edit(s) ==
  /\ Present(s) /\ edits < MaxEdits
  /\ \E n \in Natives(Kind(s), scene.group) \ {native[s]} :
       LET after == Facts(Read(Kind(s), n)) IN
       /\ native' = [native EXCEPT ![s] = n]
       /\ given' = given \cup after
       /\ withdrawn' = withdrawn \cup (Told(s) \ after)
       /\ fresh' = [fresh EXCEPT ![s] = (@ \cup (after \ Told(s))) \cap after]
  /\ edits' = edits + 1
  /\ quiet' = 0
  /\ UNCHANGED <<scene, snap, faults, missed>>

-----------------------------------------------------------------------------
(* The engine. *)

\* The same without the fields whose calls failed.
Without(i, fs) == [f \in DOMAIN i |-> IF f \in fs THEN None ELSE i[f]]

\* Fields whose separate calls fail in a round, on reading and on writing.
Failures(s) ==
  {{}} \cup IF faults < MaxFaults THEN SUBSET Separate(Kind(s)) ELSE {}
FailuresOfBoth == {[s \in Sides |-> IF s = "a" THEN x ELSE y] : x \in Failures("a"), y \in Failures("b")}
Noted(fs) ==
  /\ faults' = IF fs = {} THEN faults ELSE faults + 1
  /\ missed' = missed \cup fs

Recorded(fields) ==
  /\ snap' = [fields |-> fields]
  /\ quiet' = IF quiet = 4 THEN 4 ELSE quiet + 1
  /\ fresh' = [s \in Sides |-> {}]

\* _execute_creates: the source item becomes the snapshot; a failure records nothing.
Create(s) ==
  /\ ~Present(s)
  /\ \E unread \in Failures(Other(s)), unsent \in Failures(s) :
       LET i == Without(ItemOf(Other(s)), unread) IN
       /\ \E n \in Writes(Kind(s), Absent, Without(i, unsent)) : native' = [native EXCEPT ![s] = n]
       /\ Recorded(i)
       /\ Noted(unread \cup unsent)
  /\ UNCHANGED <<scene, edits, given, withdrawn>>

\* The times of the last changes, which are never equal by chance alone.
Times == {t \in [Sides -> {1, 2, None}] : \A s \in Sides : (t[s] = None) <=> Kind(s) \in Untimed}

AllAccepted(results) == \A s \in Sides : results[s] # {}

\* What a side may hold after a merge: it is written if it differs, and may be for
\* the sake of fields that are not looked at.
Results(s, m, unsent) ==
  (IF m.drift[s] = {} THEN {native[s]} ELSE {}) \cup Writes(Kind(s), native[s], Without(m.fields, unsent))

Merges(unread) ==
  LET x(s, t) == [fields |-> Without(ItemOf(s), unread[s]), updated |-> t[s]]
  IN {MergeItem(x("a", t), x("b", t), snap) : t \in Times}

\* _merge_one: the sides that differ are written, one after the other; the merge
\* is recorded if no write failed.
Round ==
  /\ \A s \in Sides : Present(s)
  /\ \E unread, unsent \in FailuresOfBoth :
       /\ \E m \in Merges(unread) :
            LET results == [s \in Sides |-> Results(s, m, unsent[s])]
                Stored(s) == IF results[s] = {} THEN {native[s]} ELSE results[s]
            IN /\ \E na \in Stored("a"), nb \in Stored("b") :
                    native' = [s \in Sides |-> IF s = "a" THEN na ELSE nb]
               /\ IF AllAccepted(results) THEN Recorded(m.fields) ELSE UNCHANGED <<snap, quiet, fresh>>
       /\ Noted(UNION {unread[s] \cup unsent[s] : s \in Sides})
  /\ UNCHANGED <<scene, edits, given, withdrawn>>

Next == Round \/ \E s \in Sides : Edit(s) \/ Create(s)

Spec == Init /\ [][Next]_vars

-----------------------------------------------------------------------------
(* Fields that both sides store and whose calls did not fail. *)
Carried == Fields \ (missed \cup UNION {Unstored(Kind(s)) : s \in Sides})
OfCarried(facts) == {x \in facts : x[1] \in Carried}

\* No conversion and no merge makes something up: what a side tells in the end a
\* user stored on one of them, whatever the items went through.
NothingInvented == \A s \in Sides : OfCarried(Told(s)) \subseteq given

\* A side reads as the last recorded round left it.
Untouched(s, f) == ItemOf(s)[f] = snap.fields[f]

\* What a step takes from both sides though no user removed it.
Lost ==
  LET before == UNION {Told(s) : s \in Sides}
  IN {x \in before \ (before' \cup withdrawn) : x[1] \in Carried'}

\* A scalar that gave way to another value or a removal, or was in a conflict.
GaveWay(x) ==
  /\ Strategy[x[1]] = "scalar"
  /\ \/ \E y \in (UNION {Told(s) : s \in Sides})' \cup withdrawn : y[1] = x[1]
     \/ \A s \in Sides : ~Untouched(s, x[1])

\* What users stored and none removed stays: an element of a list for good, a
\* scalar until another value takes its place or a conflict is settled.
NothingVanishes ==
  [][snap # NoSnapshot /\ edits' = edits => \A x \in Lost : GaveWay(x)]_vars

RecordedRound == edits' = edits /\ snap # NoSnapshot /\ snap' # snap
Arrives(x) == \A r \in Sides : x \in Told(r)'

\* Scalars that tell what a user stored on the side since the last recorded round.
FreshScalars(s) ==
  {f \in Carried' : /\ Strategy[f] = "scalar" /\ ItemOf(s)[f] # None
                    /\ Fact(f, ItemOf(s)[f]) \in fresh[s]}

\* The value a user gave a scalar on one side is on both after a recorded round
\* when the other side reads as the last round left it.
EditsArrive ==
  [][RecordedRound => \A s \in Sides : \A f \in FreshScalars(s) :
                        Untouched(Other(s), f) => Arrives(Fact(f, ItemOf(s)[f]))]_vars

\* The same when nobody has changed that field on the other side.
EditsOfOneSideArrive ==
  [][RecordedRound => \A s \in Sides : \A f \in FreshScalars(s) :
       LET x == Fact(f, ItemOf(s)[f])
       IN {y \in Told(Other(s)) : y[1] = x[1]} = {y \in Facts(snap.fields) : y[1] = x[1]}
            => Arrives(x)]_vars

\* Conversions do not keep the sides rewriting each other: after two recorded
\* rounds without an edit nothing changes any more.
RoundsSettle ==
  [][edits' = edits /\ quiet >= 2 =>
       \A s \in Sides :
         LET before == Told(s)  after == Told(s)'
         IN \A x \in (before \ after) \cup (after \ before) : x[1] \notin Carried']_vars
=============================================================================
