---------------------------- MODULE MCSyncEngine ----------------------------
(***************************************************************************)
(* Small instances of SyncEngine: which adapters the two sides have, and    *)
(* what the stores hold before the first run.                               *)
(***************************************************************************)
EXTENDS SyncEngine

CONSTANTS K1, K2, V1, V2

(* What the two sides' adapters make identity keys from. *)

\* Contacts or calendars over DAV.
Uids == [s \in Sides |-> "uid"]

\* Calendars over JMAP and Graph.
Contents == [s \in Sides |-> "content"]

\* Contacts over JMAP and Graph.
Nothing == [s \in Sides |-> "nothing"]

\* CardDAV with JMAP or Graph contacts.
UidsOnA == [s \in Sides |-> IF s = "a" THEN "uid" ELSE "nothing"]

\* The two contents of an event have two titles.
Titles == [v \in Values |-> IF v = V1 THEN K1 ELSE K2]

SkipNone == [s \in Sides |-> FALSE]

SkipBoth == [s \in Sides |-> TRUE]

\* Contacts over JMAP and Graph: only JMAP has a state for a container.
SkipOnA == [s \in Sides |-> s = "a"]

(* What the sides hold at first and what users do then. *)

One(k, v) == {[id |-> 1, key |-> k, val |-> v, ver |-> 1]}

\* An item on A, and perhaps the same one on B, with the same value or another.
Started ==
  {[s \in Sides |-> IF s = "a" THEN One(K1, V1) ELSE b] :
     b \in {{}, One(K1, V1), One(K1, V2)}}

\* Two items, each on both sides.
Paired ==
  {[s \in Sides |-> {[id |-> 1, key |-> K1, val |-> V1, ver |-> 1],
                     [id |-> 2, key |-> K2, val |-> V1, ver |-> 1]}]}

Use(starts, c, e, d) ==
  [items : starts,
   users : {[op \in UserOps |-> CASE op = "create" -> c
                                  [] op = "edit" -> e
                                  [] op = "delete" -> d]}]

Idle      == Use(Started, 0, 0, 0)
Mixture   == Use(Started, 1, 1, 1)
Growth    == Use(Started, 1, 2, 0)
Edits     == Use(Started, 0, 2, 0)
Turns     == Use(Started, 1, 1, 0) \cup Use(Started, 0, 1, 1)
Deletion  == Use(Started, 0, 0, 1)
Quietness == Growth \cup Use(Paired, 0, 1, 1)
==============================================================================
