------------------------------ MODULE FieldMerge ------------------------------
(***************************************************************************)
(* The three-way merge of one field (merge.py): the strategies SCALAR, SET  *)
(* and IMMUTABLE, and the last-write-wins rule.  None stands for Python's   *)
(* None, a missing value or time.                                           *)
(***************************************************************************)
EXTENDS Naturals, Sides

CONSTANT None

(***************************************************************************)
(* _pick_winner: last write wins by updated_at; an item without a time      *)
(* loses to one with a time, and A wins ties.                               *)
(***************************************************************************)
PickWinner(ta, tb) ==
  IF ta = None /\ tb # None THEN "b"
  ELSE IF ta # None /\ tb # None /\ tb > ta THEN "b" ELSE "a"

\* _max_timestamp: the later of two optional times.
MaxTimestamp(ta, tb) ==
  CASE ta = None -> tb
    [] tb = None -> ta
    [] OTHER -> IF ta >= tb THEN ta ELSE tb

(***************************************************************************)
(* A SCALAR field.  `first` says there is no snapshot, which counts as a    *)
(* change on both sides; `winner` settles a conflict.                       *)
(***************************************************************************)
IsConflict(va, vb, prev, first) ==
  /\ first \/ (va # prev /\ vb # prev)
  /\ va # vb

\* Faulty variant: without a conflict B's change is dropped.
MergeScalarKeepingA(va, vb, prev, first, winner) ==
  IF IsConflict(va, vb, prev, first) THEN (IF winner = "a" THEN va ELSE vb)
  ELSE va

\* A change of one side is taken, a conflict goes to the winner.
MergeScalar(va, vb, prev, first, winner) ==
  IF IsConflict(va, vb, prev, first) THEN (IF winner = "a" THEN va ELSE vb)
  ELSE IF first \/ va # prev THEN va ELSE vb

\* A missing list has no elements.
Elements(v) == IF v = None THEN {} ELSE v

\* Faulty variant: an element either side removed is dropped.
MergeSetDroppingRemovals(va, vb, prev) ==
  LET p == Elements(prev)  a == Elements(va)  b == Elements(vb)
  IN  (p \cup (a \ p) \cup (b \ p)) \ ((p \ a) \cup (p \ b))

\* _merge_set: the union of the additions, the intersection of the removals.
MergeSet(va, vb, prev) ==
  LET p == Elements(prev)  a == Elements(va)  b == Elements(vb)
  IN  (p \cup (a \ p) \cup (b \ p)) \ ((p \ a) \cap (p \ b))

\* An IMMUTABLE field: A's value, or B's where A has none.
MergeImmutable(va, vb) == IF va # None THEN va ELSE vb
==============================================================================
