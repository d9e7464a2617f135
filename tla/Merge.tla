-------------------------------- MODULE Merge --------------------------------
(***************************************************************************)
(* The merge of two items, field by field (merge.py, merge_item).  A merge  *)
(* without a snapshot is the first one after two items are paired.          *)
(***************************************************************************)
EXTENDS FieldMerge

CONSTANTS
  NoSnapshot, \* the snapshot of a pair that was never merged
  Fields,     \* the names in TypeSpec.fields
  Strategy    \* the merge_strategy of each field

Strategies == {"scalar", "set", "immutable", "ignore"}

ASSUME StrategyAssumption == Strategy \in [Fields -> Strategies]

(***************************************************************************)
(* merge_item.  An item is [fields: Fields -> value, updated: time or None];*)
(* an IGNOREd field is not in the merged item.                              *)
(***************************************************************************)
MergedFields == {f \in Fields : Strategy[f] # "ignore"}

PrevOf(snap, f) == IF snap = NoSnapshot THEN None ELSE snap.fields[f]

MergeField(f, x, y, snap) ==
  LET va == x.fields[f]
      vb == y.fields[f]
      prev == PrevOf(snap, f)
  IN  CASE Strategy[f] = "scalar" ->
             MergeScalar(va, vb, prev, snap = NoSnapshot,
                         PickWinner(x.updated, y.updated))
        [] Strategy[f] = "set" -> MergeSet(va, vb, prev)
        [] Strategy[f] = "immutable" -> MergeImmutable(va, vb)

\* A list field that is missing and an empty one do not differ (changed_vs_a).
Differs(f, merged, v) ==
  IF Strategy[f] = "set" THEN merged # Elements(v) ELSE merged # v

MergeItem(x, y, snap) ==
  LET merged == [f \in MergedFields |-> MergeField(f, x, y, snap)]
  IN  [fields |-> merged,
       updated |-> MaxTimestamp(x.updated, y.updated),
       drift |-> [s \in Sides |->
                    {f \in MergedFields :
                       Differs(f, merged[f],
                               (IF s = "a" THEN x ELSE y).fields[f])}],
       conflicts |-> {f \in MergedFields :
                        /\ Strategy[f] = "scalar"
                        /\ IsConflict(x.fields[f], y.fields[f],
                                      PrevOf(snap, f), snap = NoSnapshot)}]
==============================================================================
