----------------------------- MODULE MergeRounds -----------------------------
(***************************************************************************)
(* One matched pair of items under repeated three-way merges: users edit    *)
(* fields on either side, and a round merges the two copies with the        *)
(* snapshot, writes the merged item to the sides that drifted and stores it *)
(* as the next snapshot (_merge_one with both writes accepted; SyncEngine   *)
(* has the rounds in which a write fails).                                  *)
(***************************************************************************)
EXTENDS Merge

CONSTANTS
  FieldValues, \* the values each field can be given, None among them
  Times,       \* the updated_at values an edit can leave, None among them
  MaxEdits     \* bound on the number of edits

ASSUME MaxEditsAssumption == MaxEdits \in Nat

\* A list of any elements two lists of a field have is a list of that field.
ASSUME ListsAssumption ==
  \A f \in Fields : Strategy[f] = "set" =>
    \A v, w \in FieldValues[f] :
      Elements(v) \cup Elements(w) \in FieldValues[f] \ {None}

VARIABLES
  copy,  \* the item on each side
  snap,  \* the merged item of the last round, or NoSnapshot
  edits  \* edits made so far

vars == <<copy, snap, edits>>

Item == {i \in [fields : [Fields -> UNION {FieldValues[f] : f \in Fields}],
                updated : Times] :
           \A f \in Fields : i.fields[f] \in FieldValues[f]}

TypeOK ==
  /\ copy \in [Sides -> Item]
  /\ \/ snap = NoSnapshot
     \/ /\ snap.updated \in Times
        /\ DOMAIN snap.fields = MergedFields
        /\ \A f \in MergedFields : snap.fields[f] \in FieldValues[f]
  /\ edits \in 0..MaxEdits

\* Two items that were paired but never merged: identity matching paired them.
Init ==
  /\ \E t \in Times :
       copy \in [Sides -> {i \in Item : i.updated = t}]
  /\ snap = NoSnapshot
  /\ edits = 0

Edit(s) ==
  /\ edits < MaxEdits
  /\ \E f \in Fields, t \in Times :
       \E v \in FieldValues[f] \ {copy[s].fields[f]} :
         copy' = [copy EXCEPT ![s].fields[f] = v, ![s].updated = t]
  /\ edits' = edits + 1
  /\ UNCHANGED snap

\* Faulty variant: the merged item replaces the fields it does not have.
WrittenWhole(item, m) == [fields |-> m.fields, updated |-> m.updated]

\* An adapter writes the merged fields and leaves the others of the item alone.
Written(item, m) ==
  [fields  |-> [f \in Fields |-> IF f \in MergedFields
                                   THEN m.fields[f] ELSE item.fields[f]],
   updated |-> m.updated]

\* Faulty variant: B is not written.
RoundWithoutB ==
  LET m == MergeItem(copy["a"], copy["b"], snap)
  IN  /\ copy' = [copy EXCEPT !["a"] = IF m.drift["a"] = {} THEN @
                                         ELSE Written(@, m)]
      /\ snap' = [fields |-> m.fields, updated |-> m.updated]
      /\ UNCHANGED edits

\* A round: the sides that differ from the merged item are written.
Round ==
  LET m == MergeItem(copy["a"], copy["b"], snap)
  IN  /\ copy' = [s \in Sides |-> IF m.drift[s] = {} THEN copy[s]
                                  ELSE Written(copy[s], m)]
      /\ snap' = [fields |-> m.fields, updated |-> m.updated]
      /\ UNCHANGED edits

Next == Round \/ \E s \in Sides : Edit(s)

Spec == Init /\ [][Next]_vars

-------------------------------------------------------------------------------

Drifts(c, p) ==
  \E s \in Sides : MergeItem(c["a"], c["b"], p).drift[s] # {}

ChangedSince(s, f) == copy[s].fields[f] # snap.fields[f]

Kept(f) ==
  \A s \in Sides :
    snap # NoSnapshot /\ ChangedSince(s, f) /\ ~ChangedSince(Other(s), f)
      => \A r \in Sides : copy'[r].fields[f] = copy[s].fields[f]

(***************************************************************************)
(* A round leaves nothing for the next one: merging the copies again with   *)
(* the new snapshot writes to neither side (engine.py's second run without  *)
(* changes updates nothing, whatever mix of strategies and missing values). *)
(***************************************************************************)
RoundSettles == [][Round => ~Drifts(copy', snap')]_vars

(***************************************************************************)
(* Of a scalar or immutable field the two copies end up with a value one of *)
(* them had, the same on both sides, and of a list field with every element *)
(* either had: a merge invents nothing, and loses no element.               *)
(***************************************************************************)
NothingInvented ==
  [][Round => \A f \in MergedFields :
       IF Strategy[f] = "set"
         THEN \A r \in Sides :
                Elements(copy'[r].fields[f])
                  = UNION {Elements(copy[s].fields[f]) : s \in Sides}
         ELSE \E s \in Sides : \A r \in Sides :
                copy'[r].fields[f] = copy[s].fields[f]]_vars

(***************************************************************************)
(* A scalar field that one side changed since the last round has that       *)
(* side's value on both sides after the next: an untouched copy never wins, *)
(* not even when its item is the later one by updated_at.                   *)
(***************************************************************************)
ScalarEditKept ==
  [][Round => \A f \in Fields : Strategy[f] = "scalar" => Kept(f)]_vars
==============================================================================
