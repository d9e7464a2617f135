---------------------------- MODULE ChangeReport ----------------------------
(***************************************************************************)
(* What the engine needs of a provider for one item: once a merge has been *)
(* recorded, the item is left alone only while it is what was recorded.    *)
(* `reported` says that the next comparison notices the item.              *)
(***************************************************************************)
CONSTANTS Contents, Absent, NoMemo

VARIABLES content,   \* what the provider holds, Absent when nothing
          memo,      \* what the engine recorded, NoMemo when nothing
          reported

vars == <<content, memo, reported>>

Init == content \in Contents \cup {Absent} /\ memo = NoMemo /\ reported = TRUE

\* Anyone, the engine included, changes the item: that is always noticed.
Change ==
  /\ content' \in (Contents \cup {Absent}) \ {content}
  /\ reported' = TRUE
  /\ UNCHANGED memo

\* The engine records, and may notice a change where there is none, but never
\* takes an item for unchanged that is not what it recorded.
Note ==
  /\ memo' \in Contents \cup {NoMemo}
  /\ reported' \in BOOLEAN
  /\ ~reported' => memo' = content
  /\ UNCHANGED content

Spec == Init /\ [][Change \/ Note]_vars
=============================================================================
