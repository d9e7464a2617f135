-------------------------- MODULE MergeRoundsProofs --------------------------
(***************************************************************************)
(* Theorems about MergeRounds, for any fields, strategies, values, times    *)
(* and number of edits.                                                     *)
(***************************************************************************)
EXTENDS MergeRounds, TLAPS

\* The merged item of a round, and a field as a merge reads it.
Merged == MergeItem(copy["a"], copy["b"], snap)

ReadAs(f, v) == IF Strategy[f] = "set" THEN Elements(v) ELSE v

\* A merged list has the elements of either list, whatever the snapshot had.
LEMMA SetMergeIsUnion ==
  ASSUME NEW va, NEW vb, NEW prev
  PROVE  MergeSet(va, vb, prev) = Elements(va) \cup Elements(vb)
<1> DEFINE p == Elements(prev)
           a == Elements(va)
           b == Elements(vb)
<1>1. MergeSet(va, vb, prev) = (p \cup (a \ p) \cup (b \ p)) \ ((p \ a) \cap (p \ b))
  BY DEF MergeSet
<1> HIDE DEF p, a, b
<1>2. (p \cup (a \ p) \cup (b \ p)) \ ((p \ a) \cap (p \ b)) = a \cup b
  OBVIOUS
<1> QED
  BY <1>1, <1>2 DEF a, b

\* What a merge makes of a field, strategy by strategy.
LEMMA MergedField ==
  ASSUME NEW x, NEW y, NEW p, NEW f \in MergedFields
  PROVE  /\ Strategy[f] \in {"scalar", "set", "immutable"}
         /\ MergeItem(x, y, p).fields[f] = MergeField(f, x, y, p)
         /\ Strategy[f] = "scalar" =>
              MergeField(f, x, y, p)
                = MergeScalar(x.fields[f], y.fields[f], PrevOf(p, f),
                              p = NoSnapshot, PickWinner(x.updated, y.updated))
         /\ Strategy[f] = "set" =>
              MergeField(f, x, y, p)
                = Elements(x.fields[f]) \cup Elements(y.fields[f])
         /\ Strategy[f] = "immutable" =>
              MergeField(f, x, y, p) = MergeImmutable(x.fields[f], y.fields[f])
<1>1. Strategy[f] \in {"scalar", "set", "immutable"}
  BY StrategyAssumption DEF Strategies, MergedFields
<1>2. MergeItem(x, y, p).fields[f] = MergeField(f, x, y, p)
  BY DEF MergeItem
<1> QED
  BY <1>1, <1>2, SetMergeIsUnion DEF MergeField

\* Two equal readings of a field merge to that reading.
LEMMA MergeOfEquals ==
  ASSUME NEW x, NEW y, NEW p, NEW f \in MergedFields,
         ReadAs(f, x.fields[f]) = ReadAs(f, y.fields[f])
  PROVE  MergeItem(x, y, p).fields[f] = ReadAs(f, x.fields[f])
<1>1. CASE Strategy[f] = "set"
  <2>1. MergeItem(x, y, p).fields[f] = Elements(x.fields[f]) \cup Elements(y.fields[f])
    BY <1>1, MergedField
  <2>2. Elements(x.fields[f]) = Elements(y.fields[f])
    BY <1>1 DEF ReadAs
  <2>3. Elements(x.fields[f]) \cup Elements(x.fields[f]) = Elements(x.fields[f])
    OBVIOUS
  <2> QED
    BY <1>1, <2>1, <2>2, <2>3 DEF ReadAs
<1>2. CASE Strategy[f] = "scalar"
  BY <1>2, MergedField DEF ReadAs, MergeScalar, IsConflict
<1>3. CASE Strategy[f] = "immutable"
  BY <1>3, MergedField DEF ReadAs, MergeImmutable
<1> QED
  BY <1>1, <1>2, <1>3, MergedField

\* A scalar or immutable field is merged to the value of one side.
LEMMA MergedIsOneOf ==
  ASSUME NEW x, NEW y, NEW p, NEW f \in MergedFields, Strategy[f] # "set"
  PROVE  MergeItem(x, y, p).fields[f] \in {x.fields[f], y.fields[f]}
<1>1. CASE Strategy[f] = "scalar"
  BY <1>1, MergedField DEF MergeScalar
<1>2. CASE Strategy[f] = "immutable"
  BY <1>2, MergedField DEF MergeImmutable
<1> QED
  BY <1>1, <1>2, MergedField

\* A merged value of a field is a value of that field, and a merged list is not
\* a missing one.
LEMMA MergedTyped ==
  ASSUME NEW x \in Item, NEW y \in Item, NEW p, NEW f \in MergedFields
  PROVE  /\ MergeItem(x, y, p).fields[f] \in FieldValues[f]
         /\ Strategy[f] = "set" => MergeItem(x, y, p).fields[f] # None
<1>1. f \in Fields /\ x.fields[f] \in FieldValues[f] /\ y.fields[f] \in FieldValues[f]
  BY DEF MergedFields, Item
<1>2. CASE Strategy[f] = "set"
  <2>1. Elements(x.fields[f]) \cup Elements(y.fields[f]) \in FieldValues[f] \ {None}
    BY <1>1, <1>2, ListsAssumption
  <2>2. MergeItem(x, y, p).fields[f] = Elements(x.fields[f]) \cup Elements(y.fields[f])
    BY <1>2, MergedField
  <2> QED
    BY <2>1, <2>2
<1>3. CASE Strategy[f] # "set"
  BY <1>1, <1>3, MergedIsOneOf
<1> QED
  BY <1>2, <1>3

\* The later of two times is one of them.
LEMMA MaxTimestampIsOneOf ==
  ASSUME NEW t, NEW u
  PROVE  MaxTimestamp(t, u) \in {t, u}
BY DEF MaxTimestamp

\* The parts of a merge that are not fields.
LEMMA MergeParts ==
  ASSUME NEW x, NEW y, NEW p, NEW s \in Sides
  PROVE  /\ DOMAIN MergeItem(x, y, p).fields = MergedFields
         /\ MergeItem(x, y, p).updated = MaxTimestamp(x.updated, y.updated)
         /\ MergeItem(x, y, p).drift[s]
              = {f \in MergedFields :
                   Differs(f, MergeItem(x, y, p).fields[f],
                           (IF s = "a" THEN x ELSE y).fields[f])}
BY DEF MergeItem

\* After a round a field of either side reads as the merged one: a side that
\* was not written did not differ from it.
LEMMA RoundWrites ==
  ASSUME TypeOK, Round, NEW s \in Sides, NEW f \in MergedFields
  PROVE  /\ ReadAs(f, copy'[s].fields[f]) = Merged.fields[f]
         /\ Strategy[f] # "set" => copy'[s].fields[f] = Merged.fields[f]
<1> DEFINE m == Merged
<1>1. /\ copy["a"] \in Item /\ copy["b"] \in Item /\ f \in Fields
      /\ copy' = [r \in Sides |-> IF m.drift[r] = {} THEN copy[r]
                                  ELSE Written(copy[r], m)]
  BY DEF TypeOK, Sides, MergedFields, Round, Merged
<1>2. Strategy[f] = "set" => m.fields[f] # None
  BY <1>1, MergedTyped DEF Merged
<1>3. (IF s = "a" THEN copy["a"] ELSE copy["b"]) = copy[s]
  BY DEF Sides
<1>4. m.drift[s] = {g \in MergedFields : Differs(g, m.fields[g], copy[s].fields[g])}
  BY <1>3, MergeParts DEF Merged
<1> HIDE DEF m
<1>5. CASE m.drift[s] = {}
  <2>1. ~Differs(f, m.fields[f], copy[s].fields[f])
    BY <1>4, <1>5
  <2>2. copy'[s] = copy[s]
    BY <1>1, <1>5
  <2> QED
    BY <2>1, <2>2 DEF Differs, ReadAs, m
<1>6. CASE m.drift[s] # {}
  <2>1. copy'[s] = Written(copy[s], m)
    BY <1>1, <1>6
  <2>2. copy'[s].fields[f] = m.fields[f]
    BY <1>1, <2>1 DEF Written
  <2> QED
    BY <1>2, <2>2 DEF ReadAs, Elements, m
<1> QED
  BY <1>5, <1>6

\* Init is well typed and every step keeps the types.
LEMMA TypeInvariance == TypeOK /\ [Next]_vars => TypeOK'
<1> SUFFICES ASSUME TypeOK, [Next]_vars
             PROVE  TypeOK'
  OBVIOUS
<1>1. ASSUME NEW s \in Sides, Edit(s)
      PROVE  TypeOK'
  <2>1. PICK f \in Fields, t \in Times : \E v \in FieldValues[f] :
          copy' = [copy EXCEPT ![s].fields[f] = v, ![s].updated = t]
    BY <1>1 DEF Edit
  <2>2. PICK v \in FieldValues[f] :
          copy' = [copy EXCEPT ![s].fields[f] = v, ![s].updated = t]
    BY <2>1
  <2>3. copy[s] \in Item /\ copy \in [Sides -> Item]
    BY DEF TypeOK
  <2>4. [[copy[s] EXCEPT !.fields[f] = v] EXCEPT !.updated = t] \in Item
    BY <2>3 DEF Item
  <2>5. copy' = [copy EXCEPT ![s] = [[@ EXCEPT !.fields[f] = v] EXCEPT !.updated = t]]
    BY <2>2, <2>3 DEF Item
  <2>6. copy' \in [Sides -> Item]
    BY <2>3, <2>4, <2>5
  <2>7. edits' \in 0..MaxEdits /\ snap' = snap
    BY <1>1, MaxEditsAssumption DEF Edit, TypeOK
  <2> QED
    BY <2>6, <2>7 DEF TypeOK
<1>2. ASSUME Round
      PROVE  TypeOK'
  <2>1. /\ copy["a"] \in Item /\ copy["b"] \in Item
        /\ copy' = [r \in Sides |-> IF Merged.drift[r] = {} THEN copy[r]
                                    ELSE Written(copy[r], Merged)]
        /\ snap' = [fields |-> Merged.fields, updated |-> Merged.updated]
        /\ edits' = edits
    BY <1>2 DEF TypeOK, Sides, Round, Merged
  <2>2. Merged.updated \in Times
    <3>1. Merged.updated = MaxTimestamp(copy["a"].updated, copy["b"].updated)
      BY MergeParts DEF Merged, Sides
    <3> QED
      BY <2>1, <3>1, MaxTimestampIsOneOf DEF Item
  <2>3. DOMAIN Merged.fields = MergedFields
    BY MergeParts DEF Merged, Sides
  <2>4. \A f \in MergedFields : Merged.fields[f] \in FieldValues[f]
    BY <2>1, MergedTyped DEF Merged
  <2>5. ASSUME NEW s \in Sides
        PROVE  Written(copy[s], Merged) \in Item
    <3>1. copy[s] \in Item
      BY DEF TypeOK
    <3> HIDE DEF Merged
    <3> QED
      BY <2>2, <2>4, <3>1 DEF Written, Item
  <2> HIDE DEF Merged
  <2>6. copy' \in [Sides -> Item]
    BY <2>1, <2>5 DEF TypeOK
  <2> QED
    BY <2>1, <2>2, <2>3, <2>4, <2>6 DEF TypeOK
<1>3. ASSUME UNCHANGED vars
      PROVE  TypeOK'
  BY <1>3 DEF vars, TypeOK
<1> QED
  BY <1>1, <1>2, <1>3 DEF Next

\* Init is well typed.
LEMMA InitTyped == Init => TypeOK
<1> SUFFICES ASSUME Init
             PROVE  TypeOK
  OBVIOUS
<1>1. PICK t \in Times : copy \in [Sides -> {i \in Item : i.updated = t}]
  BY DEF Init
<1>2. copy \in [Sides -> Item]
  BY <1>1
<1> QED
  BY <1>2, MaxEditsAssumption DEF Init, TypeOK

(***************************************************************************)
(* Whatever users edit and however rounds and edits alternate, the copies   *)
(* and the snapshot hold values of their fields, and a snapshot holds the   *)
(* merged fields and no other (engine.py stores what merge_item returned).  *)
(***************************************************************************)
THEOREM TypeCorrect == Spec => []TypeOK
BY InitTyped, TypeInvariance, PTL DEF Spec

\* One round, from any well-typed state, leaves no drift behind.
LEMMA RoundLeavesNoDrift ==
  ASSUME TypeOK, Round
  PROVE  ~Drifts(copy', snap')
<1> DEFINE next == MergeItem(copy'["a"], copy'["b"], snap')
<1>1. ASSUME NEW f \in MergedFields, NEW s \in Sides
      PROVE  ~Differs(f, next.fields[f], copy'[s].fields[f])
  <2>1. /\ ReadAs(f, copy'["a"].fields[f]) = Merged.fields[f]
        /\ ReadAs(f, copy'["b"].fields[f]) = Merged.fields[f]
        /\ ReadAs(f, copy'[s].fields[f]) = Merged.fields[f]
    BY RoundWrites DEF Sides
  <2>2. next.fields[f] = ReadAs(f, copy'["a"].fields[f])
    BY <2>1, MergeOfEquals
  <2> QED
    BY <2>1, <2>2 DEF Differs, ReadAs
<1>2. ASSUME NEW s \in Sides
      PROVE  next.drift[s] = {}
  <2>1. (IF s = "a" THEN copy'["a"] ELSE copy'["b"]) = copy'[s]
    BY DEF Sides
  <2>2. next.drift[s] = {f \in MergedFields :
                           Differs(f, next.fields[f], copy'[s].fields[f])}
    BY <2>1, MergeParts
  <2> HIDE DEF next
  <2> QED
    BY <1>1, <2>2
<1> QED
  BY <1>2 DEF Drifts

(***************************************************************************)
(* RoundSettles for any fields, strategies and values: the round after a    *)
(* round writes to neither side.                                            *)
(***************************************************************************)
THEOREM RoundsSettle == Spec => RoundSettles
<1>1. TypeOK /\ [Next]_vars => [Round => ~Drifts(copy', snap')]_vars
  BY RoundLeavesNoDrift
<1> QED
  BY <1>1, TypeCorrect, PTL DEF Spec, RoundSettles

\* One round, from any well-typed state, invents no value.
LEMMA RoundInventsNothing ==
  ASSUME TypeOK, Round, NEW f \in MergedFields
  PROVE  IF Strategy[f] = "set"
           THEN \A r \in Sides :
                  Elements(copy'[r].fields[f])
                    = UNION {Elements(copy[s].fields[f]) : s \in Sides}
           ELSE \E s \in Sides : \A r \in Sides :
                  copy'[r].fields[f] = copy[s].fields[f]
<1>1. CASE Strategy[f] = "set"
  <2>1. Merged.fields[f] = Elements(copy["a"].fields[f]) \cup Elements(copy["b"].fields[f])
    BY <1>1, MergedField DEF Merged
  <2>2. UNION {Elements(copy[s].fields[f]) : s \in Sides}
          = Elements(copy["a"].fields[f]) \cup Elements(copy["b"].fields[f])
    BY DEF Sides
  <2>3. \A r \in Sides : Elements(copy'[r].fields[f]) = Merged.fields[f]
    BY <1>1, RoundWrites DEF ReadAs
  <2> QED
    BY <1>1, <2>1, <2>2, <2>3
<1>2. CASE Strategy[f] # "set"
  <2>1. Merged.fields[f] \in {copy["a"].fields[f], copy["b"].fields[f]}
    BY <1>2, MergedIsOneOf DEF Merged
  <2>2. \A r \in Sides : copy'[r].fields[f] = Merged.fields[f]
    BY <1>2, RoundWrites
  <2>3. \E s \in Sides : Merged.fields[f] = copy[s].fields[f]
    BY <2>1 DEF Sides
  <2> QED
    BY <1>2, <2>2, <2>3
<1> QED
  BY <1>1, <1>2

(***************************************************************************)
(* NothingInvented for any fields, strategies and values.                   *)
(***************************************************************************)
THEOREM MergeInventsNothing == Spec => NothingInvented
<1>1. TypeOK /\ [Next]_vars =>
        [Round => \A f \in MergedFields :
           IF Strategy[f] = "set"
             THEN \A r \in Sides :
                    Elements(copy'[r].fields[f])
                      = UNION {Elements(copy[s].fields[f]) : s \in Sides}
             ELSE \E s \in Sides : \A r \in Sides :
                    copy'[r].fields[f] = copy[s].fields[f]]_vars
  BY RoundInventsNothing
<1> QED
  BY <1>1, TypeCorrect, PTL DEF Spec, NothingInvented

\* One round gives an edit of one side's scalar field to both sides.
LEMMA RoundKeepsEdit ==
  ASSUME TypeOK, Round, NEW f \in Fields, Strategy[f] = "scalar"
  PROVE  Kept(f)
<1> SUFFICES ASSUME NEW s \in Sides, snap # NoSnapshot,
                    ChangedSince(s, f), ~ChangedSince(Other(s), f), NEW r \in Sides
             PROVE  copy'[r].fields[f] = copy[s].fields[f]
  BY DEF Kept
<1>1. f \in MergedFields
  BY DEF MergedFields
<1>2. copy'[r].fields[f] = Merged.fields[f]
  BY <1>1, RoundWrites
<1>3. Merged.fields[f]
        = MergeScalar(copy["a"].fields[f], copy["b"].fields[f], snap.fields[f],
                      snap = NoSnapshot,
                      PickWinner(copy["a"].updated, copy["b"].updated))
  <2>1. PrevOf(snap, f) = snap.fields[f]
    BY DEF PrevOf
  <2> QED
    BY <1>1, <2>1, MergedField DEF Merged
<1>4. CASE s = "a"
  BY <1>2, <1>3, <1>4 DEF ChangedSince, Other, MergeScalar, IsConflict
<1>5. CASE s = "b"
  BY <1>2, <1>3, <1>5 DEF ChangedSince, Other, MergeScalar, IsConflict
<1> QED
  BY <1>4, <1>5 DEF Sides

(***************************************************************************)
(* ScalarEditKept for any fields, strategies and values.                    *)
(***************************************************************************)
THEOREM EditsAreKept == Spec => ScalarEditKept
<1>1. TypeOK /\ [Next]_vars =>
        [Round => \A f \in Fields : Strategy[f] = "scalar" => Kept(f)]_vars
  BY RoundKeepsEdit
<1> QED
  BY <1>1, TypeCorrect, PTL DEF Spec, ScalarEditKept
==============================================================================
