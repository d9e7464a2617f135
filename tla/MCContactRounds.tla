---------------------------- MODULE MCContactRounds ----------------------------
(* Users' contacts on servers of three kinds: a backend is its protocol.       *)
EXTENDS ConvertedRounds, ContactCodecs

AllFields == DOMAIN ContactStrategy
Dav == {"dav"}
SeparateCalls(p) == IF p = "graph" THEN {"photo"} ELSE {}
LeftOut(p) == IF p = "jmap" THEN {"website"} ELSE {}

\* Labels are not looked at, and a full name may be made of its parts.
FactOf(f, v) ==
  CASE f \in {"emails", "phones", "addresses"} -> <<f, v.value>>
    [] f \in {"full_name", "given_name"} -> IF v = Unknown THEN None ELSE <<"full_name", v>>
    [] OTHER -> <<f, v>>

MCRead(p, r) ==
  CASE p = "jmap" -> JmapCardRead(r)
    [] p = "graph" -> GraphContactRead(r)
    [] p = "dav" -> VcardRead(r)

MCWrites(p, r, i) ==
  CASE p = "jmap" -> {JmapCardWrite(IF r = Absent THEN BlankCard ELSE r, i)}
    [] p = "graph" -> GraphContactWrites(IF r = Absent THEN BlankGraphContact ELSE r, i)
    [] p = "dav" -> {VcardWrite(i)}

ContactChoices(p, group) ==
  CASE group = "names" -> [full_name : {"n", "m"}, given_name : {None, "g"}]
    [] group = "unnamed" -> [full_name : IF p = "dav" THEN {"n", "m"} ELSE {None}, given_name : {"g", "h", "k"}]
    [] group = "work" -> [organization : {None, "o"}, department : {None, "d"}]
    [] group = "notes" -> [notes : {None, "n", "m"}]
    [] group = "photo" -> [photo : {None, "p", "q"}]
    [] group = "website" -> [website : {None, "w", "v"}]
    [] group = "emails" ->
         [emails : CASE p = "jmap" -> SUBSET [contexts : {{}, {"work"}}, address : {"x"}]
                     [] p = "graph" -> SUBSET {"x", "y"}
                     [] p = "dav" -> SUBSET [types : {{"other"}, {"home"}}, value : {"x"}]]
    [] group = "phones" ->
         [phones : CASE p = "jmap" -> SUBSET {[contexts |-> {"work"}, features |-> {"voice"}, number |-> 1],
                                              [contexts |-> {}, features |-> {"cell"}, number |-> 2]}
                     [] p = "graph" -> [mobile : {None, 2}, business : SUBSET {1}, home : {{}, {3}}]
                     [] p = "dav" -> SUBSET {[types |-> {"cell"}, value |-> 2],
                                             [types |-> {"home"}, value |-> 3]}]
    [] group = "addresses" ->
         [addresses : CASE p = "jmap" -> SUBSET [contexts : {{"work"}, {"private"}}, components : {1}]
                        [] p = "graph" -> [AddressSlots -> {None, 1}]
                        [] p = "dav" -> SUBSET [types : {{"work"}, {"other"}}, value : {1}]]

MCNatives(p, group) ==
  {c @@ [(IF p = "graph" THEN BlankGraphContact ELSE BlankCard) EXCEPT !.full_name = "n"]
     : c \in ContactChoices(p, group)}

\* Whatever was merged and converted, a server is never given a record that its
\* protocol does not allow (a vCard without a name, a label or a slot that is none
\* of its own), and the snapshot is a contact of the engine's, not of a protocol's.
TypeOK ==
  /\ \A s \in Sides : Present(s) => WellFormed(Kind(s), native[s])
  /\ snap # NoSnapshot => ContactItem(snap.fields)

Pair(p, q) == [a |-> p, b |-> q]
MixedPairs == {Pair("jmap", "graph"), Pair("dav", "jmap"), Pair("dav", "graph")}
Groups == {"names", "unnamed", "work", "notes", "photo", "website", "emails", "phones", "addresses"}
AllGroups ==
  [kind : MixedPairs, group : Groups] \cup [kind : {Pair("graph", "graph")}, group : {"photo", "phones"}]
=============================================================================
