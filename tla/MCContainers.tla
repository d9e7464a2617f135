---------------------------- MODULE MCContainers ----------------------------
(* Small instances of Containers: two or three accounts, one container each.  *)
EXTENDS Containers

CONSTANTS K1, K2

One(id, n, ks) == [id |-> id, name |-> n, items |-> {<<k, 0>> : k \in ks}, state |-> 1]

TwoAccounts == {"x", "y"}
ThreeAccounts == {"x", "y", "z"}
TwoRoutes == {[a |-> "x", b |-> "y"]}
ThreeRoutes == TwoRoutes \cup {[a |-> "x", b |-> "z"]}
Providers == [p \in Accounts |-> CASE p = "x" -> "stalwart" [] p = "y" -> "m365" [] p = "z" -> "caldav"]

Use(make, rename, drop, add, remove) ==
  [op \in UserOps |-> CASE op = "make" -> make [] op = "rename" -> rename
                        [] op = "drop" -> drop [] op = "add" -> add [] op = "remove" -> remove]

\* Only x has a container, or all have it with the same item.
Lone == [p \in Accounts |-> IF p = "x" THEN {One(1, "work", {K1})} ELSE {}]
Alike == [p \in Accounts |-> {One(IF p = "x" THEN 1 ELSE IF p = "y" THEN 2 ELSE 3, "work", {K1})}]

Uses(starts, use) == [servers : starts, users : {use}]
\* Not all at once: a container made, renamed or dropped, and one or two items.
Changes ==
  Uses({Lone, Alike}, Use(1, 0, 0, 1, 0)) \cup Uses({Alike}, Use(0, 1, 0, 1, 0))
  \cup Uses({Alike}, Use(0, 0, 1, 1, 0)) \cup Uses({Alike}, Use(0, 0, 1, 0, 1))
  \cup Uses({Lone, Alike}, Use(0, 0, 0, 2, 0)) \cup Uses({Alike}, Use(0, 0, 0, 1, 1))
  \cup Uses({Alike}, Use(0, 1, 1, 0, 1)) \cup Uses({Lone}, Use(1, 0, 1, 0, 0))
Renames == Uses({Alike}, Use(0, 1, 0, 1, 0))
Additions == Uses({Lone, Alike}, Use(0, 0, 0, 1, 0))
=============================================================================
