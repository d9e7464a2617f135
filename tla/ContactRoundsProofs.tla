-------------------------- MODULE ContactRoundsProofs --------------------------
(***************************************************************************)
(* Rounds of contacts between JMAP, Graph and CardDAV servers, for any      *)
(* contacts, any pair of protocols, any number of edits and of calls for    *)
(* photos that fail: that they invent nothing, lose nothing, bring edits to *)
(* both sides and come to rest.                                             *)
(***************************************************************************)
EXTENDS MCContactRounds, TLAPS

Protocols == {"jmap", "graph", "dav"}

\* A record, or an item: it has the fields of a contact.
Contact(r) == r = [f \in AllFields |-> r[f]]

\* The items are contacts and pass through the conversions of ContactCodecs.
OfContacts ==
  /\ Fields = AllFields /\ Strategy = ContactStrategy
  /\ \A p, r : Read(p, r) = MCRead(p, r)
  /\ \A p, r, i : Writes(p, r, i) = MCWrites(p, r, i)
  /\ \A f, v : Fact(f, v) = FactOf(f, v)
  /\ \A p : Separate(p) = SeparateCalls(p) /\ Unstored(p) = LeftOut(p)
  /\ \A c \in Scenarios : \A s \in Sides :
       /\ c.kind[s] \in Protocols
       /\ \A n \in Natives(c.kind[s], c.group) : Contact(n) /\ WellFormed(c.kind[s], n)
  /\ ~Contact(Absent)
  /\ \A x : x \notin None

--------------------------------------------------------------------------------
(* What an item tells, field by field. *)

Sets == {"emails", "phones", "addresses"}
Scalars == AllFields \ Sets
Content(i, f) == IF f \in Sets THEN Elements(i[f]) ELSE {i[f]} \ {None}

LEMMA TheFields ==
  /\ AllFields = {"full_name", "given_name", "organization", "department", "website",
                  "notes", "photo", "emails", "phones", "addresses"}
  /\ DOMAIN ContactStrategy = AllFields
  /\ \A f \in AllFields : ContactStrategy[f] = IF f \in Sets THEN "set" ELSE "scalar"
  BY DEF AllFields, ContactStrategy, Sets

LEMMA FactsOfItem ==
  ASSUME OfContacts, NEW i, NEW x
  PROVE  x \in Facts(i) <=> x # None /\ \E f \in AllFields : \E v \in Content(i, f) : x = FactOf(f, v)
<1>1. \A f \in AllFields : Content(i, f) = IF Strategy[f] = "set" THEN Elements(i[f]) ELSE {i[f]} \ {None}
  BY TheFields DEF OfContacts, Content
<1> DEFINE Of(f) == {FactOf(f, v) : v \in Content(i, f)}
<1>2. Facts(i) = (UNION {Of(f) : f \in AllFields}) \ {None}
  <2>1. \A f \in Fields : {Fact(f, v) : v \in IF Strategy[f] = "set" THEN Elements(i[f]) ELSE {i[f]} \ {None}}
                        = Of(f)
    BY <1>1 DEF OfContacts
  <2> QED
    BY <2>1 DEF Facts, OfContacts
<1>3. \A f \in AllFields : x \in Of(f) <=> \E v \in Content(i, f) : x = FactOf(f, v)
  OBVIOUS
<1> HIDE DEF Of
<1> QED
  BY <1>2, <1>3

\* A list that is not set and an empty one have no elements.
LEMMA ListedElements ==
  ASSUME OfContacts, NEW S
  PROVE  Elements(Listed(S)) = S
<1>1. \A x : x \notin None
  BY DEF OfContacts
<1>2. CASE S = {}
  <2>1. Listed(S) = None
    BY <1>2 DEF Listed
  <2> QED
    BY <2>1, <1>2 DEF Elements
<1>3. CASE S # {}
  <2>1. PICK x : x \in S
    BY <1>3
  <2>2. S # None
    BY <2>1, <1>1
  <2> QED
    BY <1>3, <2>2 DEF Listed, Elements
<1> QED
  BY <1>2, <1>3

--------------------------------------------------------------------------------
(* The conversions. *)

LEMMA ReadFields ==
  ASSUME NEW p \in Protocols, NEW r, Contact(r)
  PROVE  /\ Contact(MCRead(p, r))
         /\ \A f \in Scalars : MCRead(p, r)[f] = r[f]
<1>1. CASE p = "jmap"
  BY <1>1, TheFields DEF MCRead, JmapCardRead, Contact, Scalars, Sets
<1>2. CASE p = "graph"
  BY <1>2, TheFields DEF MCRead, GraphContactRead, Contact, Scalars, Sets
<1>3. CASE p = "dav"
  <2>1. VcardRead(r) = [f \in AllFields |-> IF ContactStrategy[f] = "set" THEN Listed(VcardListRead(r[f])) ELSE r[f]]
    BY DEF VcardRead, Contact
  <2>2. MCRead(p, r) = VcardRead(r)
    BY <1>3 DEF MCRead
  <2> QED
    BY <2>1, <2>2, TheFields DEF Contact, Scalars, Sets
<1> QED
  BY <1>1, <1>2, <1>3 DEF Protocols

\* The lists that are read from a record.
LEMMA JmapLists ==
  ASSUME OfContacts, NEW r, Contact(r)
  PROVE  LET Of(f) == Content(MCRead("jmap", r), f) IN
         /\ Of("emails") = {[label |-> JmapLabel(e.contexts), value |-> e.address] : e \in r.emails}
         /\ Of("phones") = {[label |-> JmapPhoneLabel(e), value |-> e.number] : e \in r.phones}
         /\ Of("addresses") = {[label |-> JmapLabel(e.contexts), value |-> e.components] : e \in r.addresses}
<1>1. MCRead("jmap", r) = JmapCardRead(r)
  BY DEF MCRead
<1>2. /\ JmapCardRead(r).emails = Listed({[label |-> JmapLabel(e.contexts), value |-> e.address] : e \in r.emails})
      /\ JmapCardRead(r).phones = Listed({[label |-> JmapPhoneLabel(e), value |-> e.number] : e \in r.phones})
      /\ JmapCardRead(r).addresses = Listed({[label |-> JmapLabel(e.contexts), value |-> e.components] : e \in r.addresses})
  BY TheFields DEF JmapCardRead, Contact
<1> QED
  BY <1>1, <1>2, ListedElements DEF Content, Sets

LEMMA GraphLists ==
  ASSUME OfContacts, NEW r, Contact(r)
  PROVE  LET Of(f) == Content(MCRead("graph", r), f) IN
         /\ Of("emails") = {[label |-> "other", value |-> e] : e \in r.emails}
         /\ Of("phones") = GraphPhonesRead(r.phones)
         /\ Of("addresses") = {[label |-> l, value |-> r.addresses[l]] :
                                 l \in {x \in AddressSlots : r.addresses[x] # None}}
<1>1. MCRead("graph", r) = GraphContactRead(r)
  BY DEF MCRead
<1>2. /\ GraphContactRead(r).emails = Listed({[label |-> "other", value |-> e] : e \in r.emails})
      /\ GraphContactRead(r).phones = Listed(GraphPhonesRead(r.phones))
      /\ GraphContactRead(r).addresses = Listed({[label |-> l, value |-> r.addresses[l]] :
                                                   l \in {x \in AddressSlots : r.addresses[x] # None}})
  BY TheFields DEF GraphContactRead, Contact
<1> QED
  BY <1>1, <1>2, ListedElements DEF Content, Sets

LEMMA DavLists ==
  ASSUME OfContacts, NEW r, Contact(r), NEW f \in Sets
  PROVE  Content(MCRead("dav", r), f) = VcardListRead(r[f])
<1>1. VcardRead(r) = [x \in AllFields |-> IF ContactStrategy[x] = "set" THEN Listed(VcardListRead(r[x])) ELSE r[x]]
  BY DEF VcardRead, Contact
<1>2. MCRead("dav", r) = VcardRead(r)
  BY DEF MCRead
<1> QED
  BY <1>1, <1>2, ListedElements, TheFields DEF Sets, Content

\* An empty record tells nothing.
Blank(p) == IF p = "graph" THEN BlankGraphContact ELSE BlankCard

LEMMA BlankRead ==
  ASSUME OfContacts, NEW p \in Protocols, NEW r, r = Blank(p)
  PROVE  /\ Contact(r)
         /\ \A f \in AllFields : Content(MCRead(p, r), f) = {}
<1>0. BlankCard = [f \in AllFields |-> IF f \in Sets THEN {} ELSE None]
  BY TheFields DEF BlankCard
<1>1. CASE p = "jmap"
  <2>1. Contact(r)
    BY <1>0, <1>1 DEF Contact, Blank
  <2>2. \A f \in Scalars : Content(MCRead(p, r), f) = {}
    <3>1. \A f \in Scalars : r[f] = None
      BY <1>0, <1>1 DEF Scalars, Blank
    <3> QED
      BY <1>1, <2>1, <3>1, ReadFields DEF Content, Scalars, Protocols
  <2>3. r.emails = {} /\ r.phones = {} /\ r.addresses = {}
    BY <1>0, <1>1, TheFields DEF Sets, Blank
  <2>4. \A f \in Sets : Content(MCRead(p, r), f) = {}
    BY <1>1, <2>1, <2>3, JmapLists DEF Sets
  <2> QED
    BY <2>1, <2>2, <2>4 DEF Scalars
<1>2. CASE p = "graph"
  <2>1. Contact(r)
    BY <1>0, <1>2 DEF Contact, BlankGraphContact, Blank
  <2>2. \A f \in Scalars : Content(MCRead(p, r), f) = {}
    <3>1. \A f \in Scalars : r[f] = None
      BY <1>0, <1>2 DEF Scalars, Sets, BlankGraphContact, Blank
    <3> QED
      BY <1>2, <2>1, <3>1, ReadFields DEF Content, Scalars, Protocols
  <2>3. /\ r.emails = {} /\ r.phones = [mobile |-> None, business |-> {}, home |-> {}]
        /\ r.addresses = [l \in AddressSlots |-> None]
    BY <1>0, <1>2, TheFields DEF Sets, BlankGraphContact, Blank
  <2>4. GraphPhonesRead(r.phones) = {}
    BY <2>3 DEF GraphPhonesRead
  <2>5. \A f \in Sets : Content(MCRead(p, r), f) = {}
    BY <1>2, <2>1, <2>3, <2>4, GraphLists DEF Sets
  <2> QED
    BY <2>1, <2>2, <2>5 DEF Scalars
<1>3. CASE p = "dav"
  <2>1. Contact(r)
    BY <1>0, <1>3 DEF Contact, Blank
  <2>2. \A f \in Scalars : Content(MCRead(p, r), f) = {}
    <3>1. \A f \in Scalars : r[f] = None
      BY <1>0, <1>3 DEF Scalars, Blank
    <3> QED
      BY <1>3, <2>1, <3>1, ReadFields DEF Content, Scalars, Protocols
  <2>3. \A f \in Sets : VcardListRead(r[f]) = {}
    BY <1>0, <1>3, TheFields DEF Sets, Blank, VcardListRead
  <2>4. \A f \in Sets : Content(MCRead(p, r), f) = {}
    BY <1>3, <2>1, <2>3, DavLists
  <2> QED
    BY <2>1, <2>2, <2>4 DEF Scalars
<1> QED
  BY <1>1, <1>2, <1>3 DEF Protocols

\* A record that a write leaves has the item's scalars or the old ones, or the
\* name that a vCard has to have; and it lists what the item or the old one lists.
Kept(p, c, i, n) ==
  /\ \A f \in Scalars :
       \/ n[f] \in {i[f], c[f]}
       \/ f = "full_name" /\ n[f] \in {i.given_name, Unknown}
  /\ \A f \in Sets : \A v \in Content(MCRead(p, n), f) :
       \E w \in Content(i, f) \cup Content(MCRead(p, c), f) : w.value = v.value

\* It has the item's scalars that are set and that the protocol writes.
Sent(p, i, n) ==
  \A f \in Scalars \ LeftOut(p) : i[f] # None => n[f] = i[f]

\* It lists what the item lists; Graph has one place for an address of each label,
\* and places for phones of the labels it knows.
Whole(p) == IF p = "graph" THEN {"emails"} ELSE Sets
Lists(p, i, n) ==
  \A f \in Whole(p) : \A v \in Elements(i[f]) : \E w \in Content(MCRead(p, n), f) : w.value = v.value

LEMMA JmapWritten ==
  ASSUME OfContacts, NEW c, Contact(c), NEW i, Contact(i), NEW n, n = JmapCardWrite(c, i)
  PROVE  Contact(n) /\ Kept("jmap", c, i, n) /\ Sent("jmap", i, n) /\ Lists("jmap", i, n)
<1> DEFINE name == Together(c, i, {"full_name", "given_name"})
           work == Together(c, i, {"organization", "department"})
           whole == [f \in AllFields |-> IF f \in DOMAIN name THEN name[f]
                                         ELSE IF f \in DOMAIN work THEN work[f] ELSE c[f]]
<1>1. /\ DOMAIN name = {"full_name", "given_name"} /\ DOMAIN work = {"organization", "department"}
      /\ \A f \in DOMAIN name : name[f] \in {i[f], c[f]} /\ (i[f] # None => name[f] = i[f])
      /\ \A f \in DOMAIN work : work[f] \in {i[f], c[f]} /\ (i[f] # None => work[f] = i[f])
  BY DEF Together
<1>2. DOMAIN c = AllFields
  BY DEF Contact
<1>3. n = [whole EXCEPT
             !.notes = Patched(@, i.notes),
             !.photo = Patched(@, i.photo),
             !.emails = PatchedList(@, JmapEmails(Elements(i.emails))),
             !.phones = PatchedList(@, JmapPhones(Elements(i.phones))),
             !.addresses = PatchedList(@, JmapAddresses(Elements(i.addresses)))]
  BY <1>2 DEF JmapCardWrite, JmapWork
<1> HIDE DEF name, work
<1>4. Contact(n)
  BY <1>3 DEF Contact
<1>5. /\ \A f \in DOMAIN name : n[f] = name[f]
      /\ \A f \in DOMAIN work : n[f] = work[f]
      /\ n.website = c.website
      /\ n.notes = Patched(c.notes, i.notes) /\ n.photo = Patched(c.photo, i.photo)
      /\ n.emails = PatchedList(c.emails, JmapEmails(Elements(i.emails)))
      /\ n.phones = PatchedList(c.phones, JmapPhones(Elements(i.phones)))
      /\ n.addresses = PatchedList(c.addresses, JmapAddresses(Elements(i.addresses)))
  BY <1>1, <1>3, TheFields
<1>6. \A f \in Scalars : n[f] \in {i[f], c[f]} /\ (f # "website" /\ i[f] # None => n[f] = i[f])
  BY <1>1, <1>5, TheFields DEF Scalars, Sets, Patched
<1>7. ASSUME NEW f \in Sets, NEW v \in Content(MCRead("jmap", n), f)
      PROVE  \E w \in Content(i, f) \cup Content(MCRead("jmap", c), f) : w.value = v.value
  <2>1. CASE f = "emails"
    <3>1. PICK e \in n.emails : v = [label |-> JmapLabel(e.contexts), value |-> e.address]
      BY <1>4, <1>7, <2>1, JmapLists
    <3>2. CASE e \in c.emails
      BY <2>1, <3>1, <3>2, JmapLists
    <3>3. CASE e \in JmapEmails(Elements(i.emails))
      BY <2>1, <3>1, <3>3 DEF JmapEmails, Content, Sets
    <3> QED
      BY <1>5, <3>1, <3>2, <3>3 DEF PatchedList
  <2>2. CASE f = "phones"
    <3>1. PICK e \in n.phones : v = [label |-> JmapPhoneLabel(e), value |-> e.number]
      BY <1>4, <1>7, <2>2, JmapLists
    <3>2. CASE e \in c.phones
      BY <2>2, <3>1, <3>2, JmapLists
    <3>3. CASE e \in JmapPhones(Elements(i.phones))
      BY <2>2, <3>1, <3>3 DEF JmapPhones, Content, Sets
    <3> QED
      BY <1>5, <3>1, <3>2, <3>3 DEF PatchedList
  <2>3. CASE f = "addresses"
    <3>1. PICK e \in n.addresses : v = [label |-> JmapLabel(e.contexts), value |-> e.components]
      BY <1>4, <1>7, <2>3, JmapLists
    <3>2. CASE e \in c.addresses
      BY <2>3, <3>1, <3>2, JmapLists
    <3>3. CASE e \in JmapAddresses(Elements(i.addresses))
      BY <2>3, <3>1, <3>3 DEF JmapAddresses, Content, Sets
    <3> QED
      BY <1>5, <3>1, <3>2, <3>3 DEF PatchedList
  <2> QED
    BY <2>1, <2>2, <2>3 DEF Sets
<1>8. ASSUME NEW f \in Sets, NEW v \in Elements(i[f])
      PROVE  \E w \in Content(MCRead("jmap", n), f) : w.value = v.value
  <2>1. CASE f = "emails"
    <3> DEFINE e == [contexts |-> JmapContexts(v.label), address |-> v.value]
    <3>1. e \in JmapEmails(Elements(i.emails))
      BY <1>8, <2>1 DEF JmapEmails
    <3>2. e \in n.emails /\ e.address = v.value
      BY <1>5, <3>1 DEF PatchedList
    <3> HIDE DEF e
    <3>3. [label |-> JmapLabel(e.contexts), value |-> e.address] \in Content(MCRead("jmap", n), "emails")
      BY <1>4, <3>2, JmapLists
    <3> QED
      BY <2>1, <3>2, <3>3
  <2>2. CASE f = "phones"
    <3> DEFINE e == [contexts |-> JmapContexts(v.label), features |-> JmapFeatures(v.label), number |-> v.value]
    <3>1. e \in JmapPhones(Elements(i.phones))
      BY <1>8, <2>2 DEF JmapPhones
    <3>2. e \in n.phones /\ e.number = v.value
      BY <1>5, <3>1 DEF PatchedList
    <3> HIDE DEF e
    <3>3. [label |-> JmapPhoneLabel(e), value |-> e.number] \in Content(MCRead("jmap", n), "phones")
      BY <1>4, <3>2, JmapLists
    <3> QED
      BY <2>2, <3>2, <3>3
  <2>3. CASE f = "addresses"
    <3> DEFINE e == [contexts |-> JmapContexts(v.label), components |-> v.value]
    <3>1. e \in JmapAddresses(Elements(i.addresses))
      BY <1>8, <2>3 DEF JmapAddresses
    <3>2. e \in n.addresses /\ e.components = v.value
      BY <1>5, <3>1 DEF PatchedList
    <3> HIDE DEF e
    <3>3. [label |-> JmapLabel(e.contexts), value |-> e.components] \in Content(MCRead("jmap", n), "addresses")
      BY <1>4, <3>2, JmapLists
    <3> QED
      BY <2>3, <3>2, <3>3
  <2> QED
    BY <2>1, <2>2, <2>3 DEF Sets
<1> QED
  BY <1>4, <1>6, <1>7, <1>8 DEF Kept, Sent, LeftOut, Lists, Whole

LEMMA GraphWritten ==
  ASSUME OfContacts, NEW c, Contact(c), NEW i, Contact(i), NEW n \in GraphContactWrites(c, i)
  PROVE  Contact(n) /\ Kept("graph", c, i, n) /\ Sent("graph", i, n) /\ Lists("graph", i, n)
<1> DEFINE plain == [f \in AllFields |-> IF ContactStrategy[f] = "scalar" THEN Patched(c[f], i[f]) ELSE c[f]]
<1>1. PICK p \in GraphPhones(Elements(i.phones)), a \in GraphAddresses(c.addresses, Elements(i.addresses)) :
        n = [plain EXCEPT !.emails = {e.value : e \in Elements(i.emails)}, !.phones = p, !.addresses = a]
  <2>1. DOMAIN c = AllFields
    BY DEF Contact
  <2>2. PICK p \in GraphPhones(Elements(i.phones)), a \in GraphAddresses(c.addresses, Elements(i.addresses)) :
          n = GraphContactPatch(c, i, p, a)
    BY DEF GraphContactWrites
  <2> QED
    BY <2>1, <2>2 DEF GraphContactPatch
<1>2. Contact(n)
  BY <1>1 DEF Contact
<1>3. /\ n.emails = {e.value : e \in Elements(i.emails)} /\ n.phones = p /\ n.addresses = a
      /\ \A f \in Scalars : n[f] = Patched(c[f], i[f])
  BY <1>1, TheFields DEF Scalars, Sets
<1>4. ASSUME NEW f \in Sets, NEW v \in Content(MCRead("graph", n), f)
      PROVE  \E w \in Content(i, f) \cup Content(MCRead("graph", c), f) : w.value = v.value
  <2>1. CASE f = "emails"
    <3>1. v.value \in n.emails
      BY <1>2, <1>4, <2>1, GraphLists
    <3> QED
      BY <1>3, <2>1, <3>1 DEF Content, Sets
  <2>2. CASE f = "phones"
    <3>1. v.value \in ({p.mobile} \ {None}) \cup p.business \cup p.home
      BY <1>2, <1>3, <1>4, <2>2, GraphLists DEF GraphPhonesRead
    <3>2. \A x \in ({p.mobile} \ {None}) \cup p.business \cup p.home : \E w \in Elements(i.phones) : w.value = x
      <4>1. PICK m \in IF Numbers(Elements(i.phones), {"mobile"}) = {} THEN {None}
                       ELSE Numbers(Elements(i.phones), {"mobile"}) :
              p = [mobile |-> m, home |-> Numbers(Elements(i.phones), {"home"}),
                   business |-> Numbers(Elements(i.phones), {"work", "other"})
                                  \cup (Numbers(Elements(i.phones), {"mobile"}) \ {m})]
        BY DEF GraphPhones
      <4>2. \A labels : \A x \in Numbers(Elements(i.phones), labels) : \E w \in Elements(i.phones) : w.value = x
        BY DEF Numbers
      <4> QED
        BY <4>1, <4>2
    <3> QED
      BY <2>2, <3>1, <3>2 DEF Content
  <2>3. CASE f = "addresses"
    <3>1. PICK l \in AddressSlots : a[l] # None /\ v.value = a[l]
      BY <1>2, <1>3, <1>4, <2>3, GraphLists
    <3>2. a[l] = c.addresses[l] \/ \E w \in Elements(i.addresses) : w.value = a[l]
      BY DEF GraphAddresses
    <3>3. CASE a[l] = c.addresses[l]
      <4>1. [label |-> l, value |-> c.addresses[l]] \in Content(MCRead("graph", c), f)
        BY <2>3, <3>1, <3>3, GraphLists
      <4> QED
        BY <3>1, <3>3, <4>1
    <3> QED
      BY <2>3, <3>1, <3>2, <3>3 DEF Content
  <2> QED
    BY <2>1, <2>2, <2>3 DEF Sets
<1>5. ASSUME NEW v \in Elements(i.emails)
      PROVE  \E w \in Content(MCRead("graph", n), "emails") : w.value = v.value
  <2>1. v.value \in n.emails
    BY <1>3, <1>5
  <2>2. [label |-> "other", value |-> v.value] \in Content(MCRead("graph", n), "emails")
    BY <1>2, <2>1, GraphLists
  <2> QED
    BY <2>2
<1> QED
  BY <1>2, <1>3, <1>4, <1>5 DEF Kept, Sent, Patched, Lists, Whole

LEMMA DavWritten ==
  ASSUME OfContacts, NEW c, NEW i, Contact(i), NEW n, n = VcardWrite(i)
  PROVE  Contact(n) /\ Kept("dav", c, i, n) /\ Sent("dav", i, n) /\ Lists("dav", i, n)
<1>1. Contact(n)
  BY DEF Contact, VcardWrite
<1>2. n.full_name = VcardName(i) /\ \A f \in Scalars \ {"full_name"} : n[f] = i[f]
  BY TheFields DEF VcardWrite, Contact, Scalars, Sets
<1>3. /\ n.emails = {[types |-> {e.label}, value |-> e.value] : e \in Elements(i.emails)}
      /\ n.phones = {[types |-> {IF e.label = "mobile" THEN "cell" ELSE e.label}, value |-> e.value] :
                       e \in Elements(i.phones)}
      /\ n.addresses = {[types |-> {e.label}, value |-> e.value] : e \in Elements(i.addresses)}
  BY TheFields DEF VcardWrite, Contact
<1>4. ASSUME NEW f \in Sets
      PROVE  /\ \A e \in n[f] : \E w \in Elements(i[f]) : w.value = e.value
             /\ \A w \in Elements(i[f]) : \E e \in n[f] : e.value = w.value
  <2>1. \A e \in n[f] : \E w \in Elements(i[f]) : w.value = e.value
    BY <1>3 DEF Sets
  <2>2. ASSUME NEW w \in Elements(i[f])
        PROVE  \E e \in n[f] : e.value = w.value
    <3>1. \/ [types |-> {w.label}, value |-> w.value] \in n[f]
          \/ [types |-> {IF w.label = "mobile" THEN "cell" ELSE w.label}, value |-> w.value] \in n[f]
      BY <1>3, <2>2 DEF Sets
    <3> QED
      BY <3>1
  <2> QED
    BY <2>1, <2>2
<1>5. ASSUME NEW f \in Sets, NEW v \in Content(MCRead("dav", n), f)
      PROVE  \E w \in Content(i, f) : w.value = v.value
  <2>1. v \in VcardListRead(n[f])
    BY <1>1, <1>5, DavLists
  <2>2. PICK e \in n[f] : v.value = e.value
    BY <2>1 DEF VcardListRead
  <2> QED
    BY <1>4, <2>2 DEF Content
<1>6. ASSUME NEW f \in Sets, NEW v \in Elements(i[f])
      PROVE  \E w \in Content(MCRead("dav", n), f) : w.value = v.value
  <2>1. PICK e \in n[f] : e.value = v.value
    BY <1>4, <1>6
  <2>2. [label |-> VcardLabel(e.types), value |-> e.value] \in VcardListRead(n[f])
    BY DEF VcardListRead
  <2>3. [label |-> VcardLabel(e.types), value |-> e.value] \in Content(MCRead("dav", n), f)
    BY <1>1, <2>2, DavLists
  <2> QED
    BY <2>1, <2>3
<1>7. \A f \in Scalars : \/ n[f] \in {i[f], c[f]}
                         \/ f = "full_name" /\ n[f] \in {i.given_name, Unknown}
  BY <1>2 DEF VcardName
<1>8. Sent("dav", i, n)
  BY <1>2 DEF Sent, VcardName
<1> QED
  BY <1>1, <1>5, <1>6, <1>7, <1>8 DEF Kept, Lists, Whole

\* The only fact that is told by two fields is the name.
LEMMA FactsNamed ==
  /\ \A f \in Sets : \A v : FactOf(f, v) = <<f, v.value>>
  /\ \A v : FactOf("full_name", v) = FactOf("given_name", v)
  /\ FactOf("full_name", Unknown) = None
  BY DEF FactOf, Sets

LEMMA FactsKept ==
  ASSUME OfContacts, NEW p \in Protocols, NEW c, Contact(c), NEW i, NEW n, Contact(n), Kept(p, c, i, n)
  PROVE  Facts(MCRead(p, n)) \subseteq Facts(i) \cup Facts(MCRead(p, c))
<1> SUFFICES ASSUME NEW x \in Facts(MCRead(p, n))
             PROVE  x \in Facts(i) \/ x \in Facts(MCRead(p, c))
  OBVIOUS
<1>1. PICK f \in AllFields : \E v \in Content(MCRead(p, n), f) : x = FactOf(f, v) /\ x # None
  BY FactsOfItem
<1>2. PICK v \in Content(MCRead(p, n), f) : x = FactOf(f, v) /\ x # None
  BY <1>1
<1>3. CASE f \in Sets
  <2>1. PICK w \in Content(i, f) \cup Content(MCRead(p, c), f) : w.value = v.value
    BY <1>2, <1>3 DEF Kept
  <2>2. x = FactOf(f, w)
    BY <1>2, <1>3, <2>1, FactsNamed
  <2> QED
    BY <1>2, <2>1, <2>2, FactsOfItem
<1>4. CASE f \in Scalars
  <2>1. v = n[f] /\ v # None
    BY <1>2, <1>4, ReadFields DEF Content, Scalars
  <2>2. CASE v = i[f]
    BY <1>2, <1>4, <2>1, <2>2, FactsOfItem DEF Content, Scalars
  <2>3. CASE v = c[f]
    <3>1. v = MCRead(p, c)[f]
      BY <1>4, <2>3, ReadFields
    <3> QED
      BY <1>2, <1>4, <2>1, <3>1, FactsOfItem DEF Content, Scalars
  <2>4. CASE f = "full_name" /\ v = i.given_name
    <3>1. "given_name" \in Scalars /\ v \in Content(i, "given_name")
      BY <2>1, <2>4, TheFields DEF Scalars, Sets, Content
    <3> QED
      BY <1>2, <2>4, <3>1, FactsNamed, FactsOfItem DEF Scalars
  <2>5. CASE f = "full_name" /\ v = Unknown
    BY <1>2, <2>5, FactsNamed
  <2> QED
    BY <1>2, <1>4, <2>1, <2>2, <2>3, <2>4, <2>5 DEF Kept
<1> QED
  BY <1>3, <1>4 DEF Scalars

\* What a write starts from.
Before(p, r) == IF r = Absent THEN Blank(p) ELSE r

\* A written record tells nothing that neither the item nor the old record told.
LEMMA Written ==
  ASSUME OfContacts, NEW p \in Protocols, NEW r, r = Absent \/ Contact(r),
         NEW i, Contact(i), NEW n \in MCWrites(p, r, i)
  PROVE  /\ Contact(n) /\ Kept(p, Before(p, r), i, n) /\ Sent(p, i, n) /\ Lists(p, i, n)
         /\ Facts(MCRead(p, n)) \subseteq Facts(i) \cup IF r = Absent THEN {} ELSE Facts(MCRead(p, r))
<1> DEFINE c == IF r = Absent THEN Blank(p) ELSE r
<1>1. Contact(c) /\ (r = Absent => \A f \in AllFields : Content(MCRead(p, c), f) = {})
  BY BlankRead
<1>2. Contact(n) /\ Kept(p, c, i, n) /\ Sent(p, i, n) /\ Lists(p, i, n)
  <2>1. CASE p = "jmap"
    <3>1. n = JmapCardWrite(c, i)
      BY <2>1 DEF MCWrites, Blank
    <3> QED
      BY <1>1, <2>1, <3>1, JmapWritten
  <2>2. CASE p = "graph"
    <3>1. n \in GraphContactWrites(c, i)
      BY <2>2 DEF MCWrites, Blank
    <3> QED
      BY <1>1, <2>2, <3>1, GraphWritten
  <2>3. CASE p = "dav"
    <3>1. n = VcardWrite(i)
      BY <2>3 DEF MCWrites
    <3> QED
      BY <1>1, <2>3, <3>1, DavWritten
  <2> QED
    BY <2>1, <2>2, <2>3 DEF Protocols
<1>3. Facts(MCRead(p, n)) \subseteq Facts(i) \cup Facts(MCRead(p, c))
  BY <1>1, <1>2, FactsKept
<1>4. r = Absent => Facts(MCRead(p, c)) = {}
  BY <1>1, FactsOfItem
<1> QED
  BY <1>2, <1>3, <1>4 DEF Before

\* Some record is written.
LEMMA SomeWritten ==
  ASSUME NEW p \in Protocols, NEW r, NEW i
  PROVE  MCWrites(p, r, i) # {}
<1>1. CASE p \in {"jmap", "dav"}
  BY <1>1 DEF MCWrites
<1>2. CASE p = "graph"
  <2>1. \A ps : GraphPhones(ps) # {}
    BY DEF GraphPhones
  <2>2. ASSUME NEW old, NEW as
        PROVE  GraphAddresses(old, as) # {}
    <3> DEFINE Here(l) == {a.value : a \in {x \in as : x.label = l}}
               Slot(l) == IF Here(l) = {} THEN old[l] ELSE CHOOSE v \in Here(l) : TRUE
               slots == [l \in AddressSlots |-> Slot(l)]
    <3>1. \A l \in AddressSlots : Slot(l) \in IF Here(l) = {} THEN {old[l]} ELSE Here(l)
      OBVIOUS
    <3>2. \A l \in AddressSlots : Here(l) \subseteq {a.value : a \in as}
      OBVIOUS
    <3>3. \A l \in AddressSlots : Slot(l) \in {a.value : a \in as} \cup {old[k] : k \in AddressSlots}
      BY <3>1, <3>2
    <3>4. \A l \in AddressSlots : slots[l] = Slot(l)
      OBVIOUS
    <3>5. slots \in [AddressSlots -> {a.value : a \in as} \cup {old[k] : k \in AddressSlots}]
      BY <3>3
    <3>6. \A l \in AddressSlots : slots[l] \in IF Here(l) = {} THEN {old[l]} ELSE Here(l)
      BY <3>1, <3>4
    <3> HIDE DEF slots, Slot
    <3>7. slots \in GraphAddresses(old, as)
      BY <3>5, <3>6 DEF GraphAddresses
    <3> QED
      BY <3>7
  <2>3. \A c : GraphContactWrites(c, i) # {}
    BY <2>1, <2>2 DEF GraphContactWrites
  <2> QED
    BY <1>2, <2>3 DEF MCWrites
<1> QED
  BY <1>1, <1>2 DEF Protocols

--------------------------------------------------------------------------------
(* Merges. *)

LEMMA WithoutTells ==
  ASSUME OfContacts, NEW i, Contact(i), NEW fs
  PROVE  /\ Contact(Without(i, fs))
         /\ Facts(Without(i, fs)) \subseteq Facts(i)
         /\ \A f \in AllFields : Content(Without(i, fs), f) \subseteq Content(i, f)
         /\ \A f \in AllFields \ fs : Without(i, fs)[f] = i[f]
<1>1. Without(i, fs) = [f \in AllFields |-> IF f \in fs THEN None ELSE i[f]]
  BY DEF Without, Contact
<1>2. Contact(Without(i, fs)) /\ \A f \in AllFields \ fs : Without(i, fs)[f] = i[f]
  BY <1>1 DEF Contact
<1>3. \A f \in AllFields : Content(Without(i, fs), f) \subseteq Content(i, f)
  BY <1>1 DEF Content, Elements
<1> QED
  BY <1>2, <1>3, FactsOfItem

\* A merge tells nothing that neither item tells.
LEMMA MergeTells ==
  ASSUME OfContacts, NEW x, NEW y, NEW old, NEW m, m = MergeItem(x, y, old)
  PROVE  /\ m.fields = [f \in AllFields |-> MergeField(f, x, y, old)]
         /\ Contact(m.fields)
         /\ Facts(m.fields) \subseteq Facts(x.fields) \cup Facts(y.fields)
         /\ \A f \in AllFields : Content(m.fields, f) \subseteq Content(x.fields, f) \cup Content(y.fields, f)
<1>1. MergedFields = AllFields
  BY TheFields DEF MergedFields, OfContacts
<1>2. m.fields = [f \in AllFields |-> MergeField(f, x, y, old)]
  BY <1>1 DEF MergeItem
<1>3. \A f \in AllFields : Content(m.fields, f) \subseteq Content(x.fields, f) \cup Content(y.fields, f)
  <2> SUFFICES ASSUME NEW f \in AllFields, NEW v \in Content(m.fields, f)
               PROVE  v \in Content(x.fields, f) \cup Content(y.fields, f)
    OBVIOUS
  <2>1. CASE f \in Sets
    <3>1. Strategy[f] = "set"
      BY <2>1, TheFields DEF OfContacts
    <3>2. m.fields[f] = MergeSet(x.fields[f], y.fields[f], PrevOf(old, f))
      BY <1>2, <3>1 DEF MergeField
    <3>3. v \in Elements(x.fields[f]) \cup Elements(y.fields[f])
      BY <2>1, <3>2 DEF Content, MergeSet, Elements
    <3> QED
      BY <2>1, <3>3 DEF Content
  <2>2. CASE f \notin Sets
    <3>1. Strategy[f] = "scalar"
      BY <2>2, TheFields DEF OfContacts
    <3>2. m.fields[f] \in {x.fields[f], y.fields[f]}
      BY <1>2, <3>1 DEF MergeField, MergeScalar
    <3> QED
      BY <2>2, <3>2 DEF Content
  <2> QED
    BY <2>1, <2>2
<1> QED
  BY <1>2, <1>3, FactsOfItem DEF Contact

--------------------------------------------------------------------------------
(* The rounds. *)

\* The items of both sides are contacts, one of them is there, and tells only what
\* a user gave; a snapshot is of two items.
ContactsInv ==
  /\ scene \in Scenarios
  /\ native = [s \in Sides |-> native[s]]
  /\ \A s \in Sides : native[s] = Absent \/ Contact(native[s])
  /\ \E s \in Sides : Present(s)
  /\ snap # NoSnapshot => (\A s \in Sides : Present(s)) /\ DOMAIN snap.fields = Fields
  /\ edits \in 0..MaxEdits /\ faults \in Nat /\ quiet \in 0..4
  /\ missed \subseteq UNION {Separate(Kind(s)) : s \in Sides}
  /\ DOMAIN fresh = Sides
  /\ \A s \in Sides : None \notin fresh[s]
  /\ \A s \in Sides : Told(s) \subseteq given

\* A side that is there reads as a contact.
LEMMA ItemRead ==
  ASSUME OfContacts, scene \in Scenarios, NEW s \in Sides
  PROVE  /\ Kind(s) \in Protocols
         /\ \A r : Read(Kind(s), r) = MCRead(Kind(s), r)
         /\ \A r : Contact(r) => Contact(Read(Kind(s), r))
         /\ \A r, i : Writes(Kind(s), r, i) = MCWrites(Kind(s), r, i)
<1>1. Kind(s) \in Protocols
  BY DEF OfContacts, Kind
<1>2. \A r : Read(Kind(s), r) = MCRead(Kind(s), r)
  BY DEF OfContacts
<1>3. \A r, i : Writes(Kind(s), r, i) = MCWrites(Kind(s), r, i)
  BY DEF OfContacts
<1> QED
  BY <1>1, <1>2, <1>3, ReadFields

LEMMA InitContacts ==
  ASSUME OfContacts, Init
  PROVE  ContactsInv
<1>1. scene \in Scenarios /\ (\E s \in Sides : Present(s)) /\ snap = NoSnapshot
      /\ edits = 0 /\ faults = 0 /\ quiet = 0 /\ missed = {}
      /\ fresh = [s \in Sides |-> {}] /\ given = UNION {Told(s) : s \in Sides}
  BY DEF Init
<1>2. PICK x \in Held("a"), y \in Held("b") : native = [s \in Sides |-> IF s = "a" THEN x ELSE y]
  BY DEF Init
<1>3. \A s \in Sides : native[s] \in Held(s)
  BY <1>2 DEF Sides
<1>4. \A s \in Sides : native[s] = Absent \/ Contact(native[s])
  BY <1>1, <1>3 DEF Held, OfContacts, Kind
<1>5. native = [s \in Sides |-> native[s]]
  BY <1>2
<1>6. edits \in 0..MaxEdits /\ faults \in Nat /\ quiet \in 0..4
  BY <1>1, RoundsAssumption
<1> QED
  BY <1>1, <1>4, <1>5, <1>6 DEF ContactsInv

LEMMA EditContacts ==
  ASSUME OfContacts, ContactsInv, NEW s \in Sides, Edit(s)
  PROVE  ContactsInv'
<1>1. PICK n \in Natives(Kind(s), scene.group) :
        LET after == Facts(Read(Kind(s), n)) IN
        /\ native' = [native EXCEPT ![s] = n]
        /\ given' = given \cup after
        /\ fresh' = [fresh EXCEPT ![s] = (@ \cup (after \ Told(s))) \cap after]
  BY DEF Edit
<1>2. /\ Present(s) /\ edits < MaxEdits /\ edits' = edits + 1 /\ quiet' = 0
      /\ UNCHANGED <<scene, snap, faults, missed>>
  BY DEF Edit
<1>3. Contact(n) /\ n # Absent
  BY DEF ContactsInv, OfContacts, Kind
<1>4. /\ native' = [t \in Sides |-> native'[t]] /\ native'[s] = n
      /\ \A t \in Sides : t # s => native'[t] = native[t]
  BY <1>1 DEF ContactsInv
<1>5. \A t \in Sides : Present(t)' <=> Present(t)
  BY <1>2, <1>3, <1>4 DEF Present
<1>6. \A t \in Sides : Told(t)' \subseteq given'
  <2>1. Told(s)' = Facts(Read(Kind(s), n))
    BY <1>2, <1>3, <1>4 DEF Told, Present, ItemOf, Kind
  <2>2. \A t \in Sides : t # s => Told(t)' = Told(t)
    BY <1>2, <1>4 DEF Told, Present, ItemOf, Kind
  <2> QED
    BY <1>1, <2>1, <2>2 DEF ContactsInv
<1>7. DOMAIN fresh' = Sides /\ \A t \in Sides : None \notin fresh'[t]
  <2>1. None \notin Facts(Read(Kind(s), n))
    BY DEF Facts
  <2> QED
    BY <1>1, <2>1 DEF ContactsInv
<1>8. edits' \in 0..MaxEdits /\ faults' \in Nat /\ quiet' \in 0..4
  BY <1>2, RoundsAssumption DEF ContactsInv
<1>9. missed' \subseteq UNION {Separate(Kind(t)) : t \in Sides}'
  BY <1>2 DEF ContactsInv, Kind
<1> QED
  BY <1>2, <1>3, <1>4, <1>5, <1>6, <1>7, <1>8, <1>9 DEF ContactsInv

\* The calls that fail are separate ones.
LEMMA NotedTyped ==
  ASSUME ContactsInv, NEW fs, fs \subseteq UNION {Separate(Kind(s)) : s \in Sides},
         Noted(fs), scene' = scene
  PROVE  faults' \in Nat /\ missed' \subseteq UNION {Separate(Kind(s)) : s \in Sides}'
<1>1. missed' \subseteq UNION {Separate(Kind(s)) : s \in Sides}
  BY DEF Noted, ContactsInv
<1> QED
  BY <1>1 DEF Noted, ContactsInv, Kind

LEMMA RecordedTyped ==
  ASSUME ContactsInv, NEW i, Contact(i), OfContacts, Recorded(i)
  PROVE  /\ snap' = [fields |-> i] /\ DOMAIN i = Fields /\ quiet' \in 0..4
         /\ DOMAIN fresh' = Sides /\ \A s \in Sides : fresh'[s] = {}
  BY DEF Recorded, ContactsInv, Contact, OfContacts

LEMMA CreateContacts ==
  ASSUME OfContacts, ContactsInv, NEW s \in Sides, Create(s)
  PROVE  ContactsInv'
<1>1. PICK unread \in Failures(Other(s)), unsent \in Failures(s) :
        LET i == Without(ItemOf(Other(s)), unread) IN
        /\ \E n \in Writes(Kind(s), Absent, Without(i, unsent)) : native' = [native EXCEPT ![s] = n]
        /\ Recorded(i)
        /\ Noted(unread \cup unsent)
  BY DEF Create
<1>2. ~Present(s) /\ UNCHANGED <<scene, edits, given, withdrawn>>
  BY DEF Create
<1> DEFINE o == Other(s)
           i == Without(ItemOf(o), unread)
<1>3. o \in Sides /\ \A t \in Sides : t = s \/ t = o
  BY DEF Sides, Other
<1>4. Contact(native[o]) /\ Present(o)
  BY <1>2, <1>3 DEF ContactsInv, Present
<1>5. /\ Contact(ItemOf(o)) /\ Facts(ItemOf(o)) \subseteq given
      /\ Contact(i) /\ Facts(i) \subseteq given
      /\ Contact(Without(i, unsent)) /\ Facts(Without(i, unsent)) \subseteq given
  <2>1. Contact(ItemOf(o))
    BY <1>3, <1>4, ItemRead DEF ContactsInv, ItemOf
  <2>2. Facts(ItemOf(o)) \subseteq given
    BY <1>3, <1>4 DEF ContactsInv, Told
  <2>3. Contact(i) /\ Facts(i) \subseteq given
    BY <2>1, <2>2, WithoutTells
  <2> HIDE DEF i
  <2> QED
    BY <2>1, <2>2, <2>3, WithoutTells
<1> HIDE DEF i
<1>6. PICK n \in Writes(Kind(s), Absent, Without(i, unsent)) : native' = [native EXCEPT ![s] = n]
  BY <1>1 DEF i
<1>7. Contact(n) /\ Facts(MCRead(Kind(s), n)) \subseteq given /\ n # Absent
  <2>1. n \in MCWrites(Kind(s), Absent, Without(i, unsent)) /\ Kind(s) \in Protocols
    BY ItemRead DEF ContactsInv
  <2>2. Contact(n) /\ Facts(MCRead(Kind(s), n)) \subseteq Facts(Without(i, unsent))
    BY <1>5, <2>1, Written
  <2> QED
    BY <1>5, <2>2 DEF OfContacts
<1>8. /\ native' = [t \in Sides |-> native'[t]] /\ native'[s] = n /\ native'[o] = native[o]
  BY <1>3, <1>6 DEF ContactsInv, Other
<1>9. \A t \in Sides : Contact(native'[t]) /\ Present(t)'
  BY <1>3, <1>4, <1>7, <1>8 DEF Present
<1>10. \A t \in Sides : Told(t)' \subseteq given'
  <2>1. Told(s)' = Facts(MCRead(Kind(s), n))
    BY <1>2, <1>9, <1>8, ItemRead DEF Told, ItemOf, Kind, ContactsInv
  <2>2. Told(o)' = Told(o)
    BY <1>2, <1>4, <1>9, <1>8, <1>3 DEF Told, ItemOf, Kind
  <2> QED
    BY <1>2, <1>3, <1>7, <2>1, <2>2 DEF ContactsInv
<1>11. /\ snap' = [fields |-> i] /\ DOMAIN i = Fields /\ quiet' \in 0..4
       /\ DOMAIN fresh' = Sides /\ \A t \in Sides : fresh'[t] = {}
  BY <1>1, <1>5, RecordedTyped DEF i
<1>12. faults' \in Nat /\ missed' \subseteq UNION {Separate(Kind(t)) : t \in Sides}'
  <2>1. unread \cup unsent \subseteq UNION {Separate(Kind(t)) : t \in Sides}
    BY <1>3 DEF Failures
  <2> QED
    BY <1>1, <1>2, <2>1, NotedTyped
<1> QED
  BY <1>2, <1>8, <1>9, <1>10, <1>11, <1>12 DEF ContactsInv

\* What a side holds after a merge: what it held, if that is the merged item, or
\* what the merged item was written as.
LEMMA ResultTells ==
  ASSUME OfContacts, ContactsInv, NEW s \in Sides, Present(s), NEW m, NEW unsent,
         Contact(m.fields), Facts(m.fields) \subseteq given,
         NEW n \in Results(s, m, unsent)
  PROVE  /\ Contact(n) /\ Facts(MCRead(Kind(s), n)) \subseteq given
         /\ \/ m.drift[s] = {} /\ n = native[s]
            \/ /\ Sent(Kind(s), Without(m.fields, unsent), n)
               /\ Lists(Kind(s), Without(m.fields, unsent), n)
               /\ Kept(Kind(s), native[s], Without(m.fields, unsent), n)
<1>1. Contact(native[s]) /\ Facts(MCRead(Kind(s), native[s])) \subseteq given
  BY ItemRead DEF ContactsInv, Present, Told, ItemOf
<1>2. CASE m.drift[s] = {} /\ n = native[s]
  BY <1>1, <1>2
<1>3. CASE n \in Writes(Kind(s), native[s], Without(m.fields, unsent))
  <2>1. n \in MCWrites(Kind(s), native[s], Without(m.fields, unsent)) /\ Kind(s) \in Protocols
    BY <1>3, ItemRead DEF ContactsInv
  <2>2. Contact(Without(m.fields, unsent)) /\ Facts(Without(m.fields, unsent)) \subseteq given
    BY WithoutTells
  <2>3. /\ Contact(n) /\ Sent(Kind(s), Without(m.fields, unsent), n)
        /\ Lists(Kind(s), Without(m.fields, unsent), n)
        /\ Kept(Kind(s), native[s], Without(m.fields, unsent), n)
        /\ Facts(MCRead(Kind(s), n)) \subseteq Facts(Without(m.fields, unsent)) \cup Facts(MCRead(Kind(s), native[s]))
    BY <1>1, <2>1, <2>2, Written DEF Present, Before
  <2> QED
    BY <1>1, <2>2, <2>3
<1> QED
  BY <1>2, <1>3 DEF Results

\* A round: what was read, what was not sent and what the merge gave.
RoundOf(unread, unsent, m, x, y) ==
  /\ \A s \in Sides : unread[s] \subseteq Separate(Kind(s)) /\ unsent[s] \subseteq Separate(Kind(s))
  /\ x.fields = Without(ItemOf("a"), unread["a"]) /\ y.fields = Without(ItemOf("b"), unread["b"])
  /\ m = MergeItem(x, y, snap)
  /\ native' = [s \in Sides |-> native'[s]]
  /\ \A s \in Sides : \/ native'[s] \in Results(s, m, unsent[s])
                      \/ Results(s, m, unsent[s]) = {} /\ native'[s] = native[s]
  /\ \/ Recorded(m.fields) /\ \A s \in Sides : native'[s] \in Results(s, m, unsent[s])
     \/ UNCHANGED <<snap, quiet, fresh>>
  /\ Noted(UNION {unread[s] \cup unsent[s] : s \in Sides})

LEMMA RoundPicked ==
  ASSUME Round
  PROVE  \E unread, unsent, m, x, y : RoundOf(unread, unsent, m, x, y)
<1>1. PICK unread \in FailuresOfBoth, unsent \in FailuresOfBoth :
        /\ \E m \in Merges(unread) :
             LET results == [s \in Sides |-> Results(s, m, unsent[s])]
                 Stored(s) == IF results[s] = {} THEN {native[s]} ELSE results[s]
             IN /\ \E na \in Stored("a"), nb \in Stored("b") :
                     native' = [s \in Sides |-> IF s = "a" THEN na ELSE nb]
                /\ IF AllAccepted(results) THEN Recorded(m.fields) ELSE UNCHANGED <<snap, quiet, fresh>>
        /\ Noted(UNION {unread[s] \cup unsent[s] : s \in Sides})
  BY DEF Round
<1>2. PICK m \in Merges(unread) :
        LET results == [s \in Sides |-> Results(s, m, unsent[s])]
            Stored(s) == IF results[s] = {} THEN {native[s]} ELSE results[s]
        IN /\ \E na \in Stored("a"), nb \in Stored("b") :
                native' = [s \in Sides |-> IF s = "a" THEN na ELSE nb]
           /\ IF AllAccepted(results) THEN Recorded(m.fields) ELSE UNCHANGED <<snap, quiet, fresh>>
  BY <1>1
<1>3. /\ native' = [s \in Sides |-> native'[s]]
      /\ \A s \in Sides : \/ native'[s] \in Results(s, m, unsent[s])
                          \/ Results(s, m, unsent[s]) = {} /\ native'[s] = native[s]
  BY <1>2 DEF Sides
<1>4. \/ Recorded(m.fields) /\ \A s \in Sides : Results(s, m, unsent[s]) # {}
      \/ UNCHANGED <<snap, quiet, fresh>>
  BY <1>2 DEF AllAccepted
<1>5. PICK x, y : /\ x.fields = Without(ItemOf("a"), unread["a"])
                  /\ y.fields = Without(ItemOf("b"), unread["b"])
                  /\ m = MergeItem(x, y, snap)
  <2>1. PICK t \in Times : m = MergeItem([fields |-> Without(ItemOf("a"), unread["a"]), updated |-> t["a"]],
                                         [fields |-> Without(ItemOf("b"), unread["b"]), updated |-> t["b"]], snap)
    BY <1>2 DEF Merges
  <2>2. PICK x, y : /\ x = [fields |-> Without(ItemOf("a"), unread["a"]), updated |-> t["a"]]
                    /\ y = [fields |-> Without(ItemOf("b"), unread["b"]), updated |-> t["b"]]
    OBVIOUS
  <2> QED
    BY <2>1, <2>2
<1>6. \A s \in Sides : unread[s] \subseteq Separate(Kind(s)) /\ unsent[s] \subseteq Separate(Kind(s))
  BY DEF FailuresOfBoth, Failures, Sides
<1>7. Noted(UNION {unread[s] \cup unsent[s] : s \in Sides})
  BY <1>1
<1>8. RoundOf(unread, unsent, m, x, y)
  BY <1>3, <1>4, <1>5, <1>6, <1>7 DEF RoundOf
<1> QED
  BY <1>8

\* What a merge makes of a round's items.
LEMMA RoundMerges ==
  ASSUME OfContacts, ContactsInv, Round, NEW unread, NEW unsent, NEW m, NEW x, NEW y,
         RoundOf(unread, unsent, m, x, y)
  PROVE  /\ \A s \in Sides : Present(s) /\ Contact(native[s]) /\ Contact(ItemOf(s))
         /\ m.fields = [f \in AllFields |-> MergeField(f, x, y, snap)]
         /\ Contact(m.fields) /\ Facts(m.fields) \subseteq given
<1>1. \A s \in Sides : Present(s) /\ Contact(native[s])
  BY DEF Round, ContactsInv, Present
<1>2. \A s \in Sides : Contact(ItemOf(s)) /\ Facts(ItemOf(s)) \subseteq given
  BY <1>1, ItemRead DEF ContactsInv, ItemOf, Told
<1>3. /\ m.fields = [f \in AllFields |-> MergeField(f, x, y, snap)]
      /\ Contact(m.fields) /\ Facts(m.fields) \subseteq Facts(x.fields) \cup Facts(y.fields)
  BY MergeTells DEF RoundOf
<1>4. Facts(x.fields) \cup Facts(y.fields) \subseteq given
  <2>1. x.fields = Without(ItemOf("a"), unread["a"]) /\ y.fields = Without(ItemOf("b"), unread["b"])
    BY DEF RoundOf
  <2> QED
    BY <1>2, <2>1, WithoutTells DEF Sides
<1> QED
  BY <1>1, <1>2, <1>3, <1>4

\* The items of a round that were read in full: a field is what the items had.
LEMMA ReadInRound ==
  ASSUME OfContacts, ContactsInv, Round, NEW unread, NEW unsent, NEW m, NEW x, NEW y,
         RoundOf(unread, unsent, m, x, y),
         NEW f \in AllFields, \A t \in Sides : f \notin unread[t]
  PROVE  x.fields[f] = ItemOf("a")[f] /\ y.fields[f] = ItemOf("b")[f]
<1>1. \A t \in Sides : Contact(ItemOf(t))
  BY RoundMerges
<1>2. \A t \in Sides : Without(ItemOf(t), unread[t])[f] = ItemOf(t)[f]
  BY <1>1, WithoutTells
<1> QED
  BY <1>2 DEF RoundOf, Sides

\* A merged scalar that a side's protocol writes, and whose calls do not fail, is
\* what the side reads as after a write that is accepted.
LEMMA ScalarLands ==
  ASSUME OfContacts, ContactsInv, Round, NEW unread, NEW unsent, NEW m, NEW x, NEW y,
         RoundOf(unread, unsent, m, x, y), NEW t \in Sides,
         NEW f \in Scalars, \A s \in Sides : f \notin unread[s],
         f \notin unsent[t], f \notin LeftOut(Kind(t)),
         m.fields[f] # None, native'[t] \in Results(t, m, unsent[t])
  PROVE  Contact(native'[t]) /\ MCRead(Kind(t), native'[t])[f] = m.fields[f]
<1>1. /\ Present(t) /\ Contact(native[t]) /\ Contact(ItemOf(t))
      /\ m.fields = [g \in AllFields |-> MergeField(g, x, y, snap)]
      /\ Contact(m.fields) /\ Facts(m.fields) \subseteq given
  BY RoundMerges
<1>2. /\ Contact(native'[t]) /\ Kind(t) \in Protocols
      /\ \/ m.drift[t] = {} /\ native'[t] = native[t]
         \/ Sent(Kind(t), Without(m.fields, unsent[t]), native'[t])
  BY <1>1, ResultTells, ItemRead DEF ContactsInv
<1>3. CASE m.drift[t] = {} /\ native'[t] = native[t]
  <2>1. f \in MergedFields
    BY TheFields DEF MergedFields, OfContacts, Scalars
  <2>2. x.fields[f] = ItemOf("a")[f] /\ y.fields[f] = ItemOf("b")[f]
    BY ReadInRound DEF Scalars
  <2>3. ~Differs(f, m.fields[f], ItemOf(t)[f])
    BY <1>1, <1>3, <2>1, <2>2 DEF RoundOf, MergeItem, Sides
  <2>4. ItemOf(t)[f] = m.fields[f]
    BY <2>3, TheFields DEF Differs, OfContacts, Scalars
  <2> QED
    BY <1>2, <1>3, <2>4, ItemRead DEF ItemOf, ContactsInv
<1>4. CASE Sent(Kind(t), Without(m.fields, unsent[t]), native'[t])
  <2>1. Without(m.fields, unsent[t])[f] = m.fields[f]
    BY <1>1, WithoutTells DEF Scalars
  <2>2. native'[t][f] = m.fields[f]
    BY <1>4, <2>1 DEF Sent
  <2> QED
    BY <1>2, <2>2, ReadFields
<1> QED
  BY <1>2, <1>3, <1>4

LEMMA RoundContacts ==
  ASSUME OfContacts, ContactsInv, Round
  PROVE  ContactsInv'
<1>1. UNCHANGED <<scene, edits, given, withdrawn>>
  BY DEF Round
<1>2. PICK unread, unsent, m, x, y : RoundOf(unread, unsent, m, x, y)
  BY RoundPicked
<1>3. /\ \A s \in Sides : Present(s) /\ Contact(native[s]) /\ Contact(ItemOf(s))
      /\ Contact(m.fields) /\ Facts(m.fields) \subseteq given
  BY <1>2, RoundMerges
<1>4. /\ native' = [s \in Sides |-> native'[s]]
      /\ \A s \in Sides : native'[s] \in Results(s, m, unsent[s]) \/ native'[s] = native[s]
      /\ Recorded(m.fields) \/ UNCHANGED <<snap, quiet, fresh>>
  BY <1>2 DEF RoundOf
<1>5. \A s \in Sides : Contact(native'[s]) /\ Facts(MCRead(Kind(s), native'[s])) \subseteq given
  <2> SUFFICES ASSUME NEW s \in Sides
               PROVE  Contact(native'[s]) /\ Facts(MCRead(Kind(s), native'[s])) \subseteq given
    OBVIOUS
  <2>1. CASE native'[s] = native[s]
    BY <1>3, <2>1, ItemRead DEF ContactsInv, ItemOf, Told
  <2>2. CASE native'[s] \in Results(s, m, unsent[s])
    BY <1>3, <2>2, ResultTells
  <2> QED
    BY <1>4, <2>1, <2>2
<1>6. \A s \in Sides : Present(s)'
  BY <1>5 DEF Present, OfContacts
<1>7. \A s \in Sides : Told(s)' \subseteq given'
  BY <1>1, <1>5, <1>6, ItemRead DEF Told, ItemOf, Kind, ContactsInv
<1>8. /\ snap' # NoSnapshot => DOMAIN snap'.fields = Fields
      /\ quiet' \in 0..4 /\ DOMAIN fresh' = Sides /\ \A s \in Sides : None \notin fresh'[s]
  <2>1. CASE Recorded(m.fields)
    BY <1>3, <2>1, RecordedTyped
  <2>2. CASE UNCHANGED <<snap, quiet, fresh>>
    BY <2>2 DEF ContactsInv
  <2> QED
    BY <1>4, <2>1, <2>2
<1>9. faults' \in Nat /\ missed' \subseteq UNION {Separate(Kind(s)) : s \in Sides}'
  <2>1. UNION {unread[s] \cup unsent[s] : s \in Sides} \subseteq UNION {Separate(Kind(s)) : s \in Sides}
    BY <1>2 DEF RoundOf
  <2> QED
    BY <1>1, <1>2, <2>1, NotedTyped DEF RoundOf
<1> QED
  BY <1>1, <1>4, <1>5, <1>6, <1>7, <1>8, <1>9 DEF ContactsInv, Sides

LEMMA ContactsInvHolds == OfContacts => (Spec => []ContactsInv)
<1> SUFFICES ASSUME OfContacts PROVE Spec => []ContactsInv
  OBVIOUS
<1>1. Init => ContactsInv
  BY InitContacts
<1>2. ContactsInv /\ [Next]_vars => ContactsInv'
  <2> SUFFICES ASSUME ContactsInv, [Next]_vars PROVE ContactsInv'
    OBVIOUS
  <2>1. CASE UNCHANGED vars
    BY <2>1 DEF vars, ContactsInv, Present, Told, ItemOf, Kind
  <2> QED
    BY <2>1, RoundContacts, EditContacts, CreateContacts DEF Next
<1> QED
  BY <1>1, <1>2, PTL DEF Spec

--------------------------------------------------------------------------------
(* The form of records and items. *)

Labelled(e) == DOMAIN e = {"label", "value"} /\ e.label \in Labels /\ e.value # None

LEMMA LabelledItem ==
  ASSUME NEW i, Contact(i)
  PROVE  ContactItem(i) <=> \A f \in Sets : \A e \in Content(i, f) : Labelled(e)
  BY TheFields DEF ContactItem, Contact, Content, Sets, Labelled

\* What is read from a record is a contact of the engine's.
LEMMA ReadForm ==
  ASSUME OfContacts, NEW p \in Protocols, NEW r, Contact(r), WellFormed(p, r)
  PROVE  ContactItem(MCRead(p, r))
<1>1. ASSUME NEW f \in Sets, NEW e \in Content(MCRead(p, r), f)
      PROVE  Labelled(e)
  <2>1. CASE p = "jmap"
    <3>1. \A contexts : JmapLabel(contexts) \in Labels
      BY DEF JmapLabel, Labels
    <3>2. \A x : JmapPhoneLabel(x) \in Labels
      BY <3>1 DEF JmapPhoneLabel, Labels
    <3>3. JmapCard(r)
      BY <2>1 DEF WellFormed
    <3>4. CASE f = "emails"
      BY <2>1, <3>1, <3>3, <3>4, JmapLists DEF JmapCard, Labelled
    <3>5. CASE f = "phones"
      BY <2>1, <3>2, <3>3, <3>5, JmapLists DEF JmapCard, Labelled
    <3>6. CASE f = "addresses"
      BY <2>1, <3>1, <3>3, <3>6, JmapLists DEF JmapCard, Labelled
    <3> QED
      BY <3>4, <3>5, <3>6 DEF Sets
  <2>2. CASE p = "graph"
    <3>1. GraphContact(r)
      BY <2>2 DEF WellFormed
    <3>2. CASE f = "emails"
      BY <2>2, <3>1, <3>2, GraphLists DEF GraphContact, Labelled, Labels
    <3>3. CASE f = "phones"
      BY <2>2, <3>1, <3>3, GraphLists DEF GraphContact, GraphPhonesRead, Labelled, Labels
    <3>4. CASE f = "addresses"
      BY <2>2, <3>4, GraphLists DEF AddressSlots, Labelled, Labels
    <3> QED
      BY <3>2, <3>3, <3>4 DEF Sets
  <2>3. CASE p = "dav"
    <3>1. Vcard(r) /\ e \in VcardListRead(r[f])
      BY <1>1, <2>3, DavLists DEF WellFormed
    <3>2. PICK x \in r[f] : e = [label |-> VcardLabel(x.types), value |-> x.value]
      BY <3>1 DEF VcardListRead
    <3>3. x.value # None
      BY <3>1 DEF Vcard, Sets
    <3> QED
      BY <3>2, <3>3 DEF VcardLabel, Labelled, Labels
  <2> QED
    BY <2>1, <2>2, <2>3 DEF Protocols
<1> QED
  BY <1>1, ReadFields, LabelledItem

\* A record that a contact is written over stays one of its protocol.
LEMMA JmapForm ==
  ASSUME OfContacts, NEW c, Contact(c), JmapCard(c), NEW i, Contact(i), ContactItem(i),
         NEW n, n = JmapCardWrite(c, i)
  PROVE  JmapCard(n)
<1>1. \A f \in Sets : \A e \in Elements(i[f]) : Labelled(e)
  BY LabelledItem DEF Content
<1>2. \A label : JmapContexts(label) \subseteq Contexts
  BY DEF JmapContexts, Contexts
<1>3. \A e \in JmapEmails(Elements(i.emails)) :
        DOMAIN e = {"contexts", "address"} /\ e.address # None /\ e.contexts \subseteq Contexts
  BY <1>1, <1>2 DEF JmapEmails, Labelled, Sets
<1>4. \A e \in JmapPhones(Elements(i.phones)) :
        DOMAIN e = {"contexts", "features", "number"} /\ e.number # None /\ e.contexts \subseteq Contexts
  BY <1>1, <1>2 DEF JmapPhones, Labelled, Sets
<1>5. \A e \in JmapAddresses(Elements(i.addresses)) :
        DOMAIN e = {"contexts", "components"} /\ e.components # None /\ e.contexts \subseteq Contexts
  BY <1>1, <1>2 DEF JmapAddresses, Labelled, Sets
<1>6. /\ n.emails \in {c.emails, JmapEmails(Elements(i.emails))}
      /\ n.phones \in {c.phones, JmapPhones(Elements(i.phones))}
      /\ n.addresses \in {c.addresses, JmapAddresses(Elements(i.addresses))}
  <2>1. PICK whole :
          /\ n = [whole EXCEPT
                    !.notes = Patched(@, i.notes),
                    !.photo = Patched(@, i.photo),
                    !.emails = PatchedList(@, JmapEmails(Elements(i.emails))),
                    !.phones = PatchedList(@, JmapPhones(Elements(i.phones))),
                    !.addresses = PatchedList(@, JmapAddresses(Elements(i.addresses)))]
          /\ DOMAIN whole = AllFields /\ \A f \in Sets : whole[f] = c[f]
    <3> DEFINE name == Together(c, i, {"full_name", "given_name"})
               work == Together(c, i, {"organization", "department"})
               whole == [f \in AllFields |-> IF f \in DOMAIN name THEN name[f]
                                             ELSE IF f \in DOMAIN work THEN work[f] ELSE c[f]]
    <3>1. DOMAIN name = {"full_name", "given_name"} /\ DOMAIN work = {"organization", "department"}
      BY DEF Together
    <3>2. DOMAIN c = AllFields
      BY DEF Contact
    <3>3. n = [whole EXCEPT
                 !.notes = Patched(@, i.notes),
                 !.photo = Patched(@, i.photo),
                 !.emails = PatchedList(@, JmapEmails(Elements(i.emails))),
                 !.phones = PatchedList(@, JmapPhones(Elements(i.phones))),
                 !.addresses = PatchedList(@, JmapAddresses(Elements(i.addresses)))]
      BY <3>2 DEF JmapCardWrite, JmapWork
    <3> HIDE DEF name, work
    <3>4. DOMAIN whole = AllFields /\ \A f \in Sets : whole[f] = c[f]
      BY <3>1, TheFields DEF Sets
    <3> HIDE DEF whole
    <3> QED
      BY <3>3, <3>4
  <2>2. /\ n.emails = PatchedList(c.emails, JmapEmails(Elements(i.emails)))
        /\ n.phones = PatchedList(c.phones, JmapPhones(Elements(i.phones)))
        /\ n.addresses = PatchedList(c.addresses, JmapAddresses(Elements(i.addresses)))
    BY <2>1, TheFields DEF Sets
  <2> QED
    BY <2>2 DEF PatchedList
<1>7. \A e \in n.emails : DOMAIN e = {"contexts", "address"} /\ e.address # None /\ e.contexts \subseteq Contexts
  BY <1>3, <1>6 DEF JmapCard
<1>8. \A e \in n.phones :
        DOMAIN e = {"contexts", "features", "number"} /\ e.number # None /\ e.contexts \subseteq Contexts
  BY <1>4, <1>6 DEF JmapCard
<1>9. \A e \in n.addresses :
        DOMAIN e = {"contexts", "components"} /\ e.components # None /\ e.contexts \subseteq Contexts
  BY <1>5, <1>6 DEF JmapCard
<1> QED
  BY <1>7, <1>8, <1>9 DEF JmapCard

LEMMA GraphForm ==
  ASSUME OfContacts, NEW c, Contact(c), NEW i, Contact(i), ContactItem(i), NEW n \in GraphContactWrites(c, i)
  PROVE  GraphContact(n)
<1>1. PICK p \in GraphPhones(Elements(i.phones)), a \in GraphAddresses(c.addresses, Elements(i.addresses)) :
        n = GraphContactPatch(c, i, p, a)
  BY DEF GraphContactWrites
<1>2. n.emails = {e.value : e \in Elements(i.emails)} /\ n.phones = p /\ n.addresses = a
  BY <1>1, TheFields DEF GraphContactPatch, Contact
<1>3. \A f \in Sets : \A e \in Elements(i[f]) : e.value # None
  BY LabelledItem DEF Content, Labelled
<1>4. None \notin n.emails
  BY <1>2, <1>3 DEF Sets
<1>5. DOMAIN n.addresses = AddressSlots
  BY <1>2 DEF GraphAddresses
<1>6. DOMAIN n.phones = {"mobile", "business", "home"} /\ None \notin n.phones.business \cup n.phones.home
  <2>1. \A labels : None \notin Numbers(Elements(i.phones), labels)
    BY <1>3 DEF Numbers, Sets
  <2>2. PICK m : p = [mobile |-> m, home |-> Numbers(Elements(i.phones), {"home"}),
                      business |-> Numbers(Elements(i.phones), {"work", "other"})
                                     \cup (Numbers(Elements(i.phones), {"mobile"}) \ {m})]
    BY DEF GraphPhones
  <2> QED
    BY <1>2, <2>1, <2>2
<1> QED
  BY <1>4, <1>5, <1>6 DEF GraphContact

LEMMA VcardForm ==
  ASSUME OfContacts, NEW i, Contact(i), ContactItem(i), NEW n, n = VcardWrite(i)
  PROVE  Vcard(n)
<1>1. n.full_name = VcardName(i)
  BY TheFields DEF VcardWrite, Contact
<1>2. /\ n.emails = {[types |-> {e.label}, value |-> e.value] : e \in Elements(i.emails)}
      /\ n.phones = {[types |-> {IF e.label = "mobile" THEN "cell" ELSE e.label}, value |-> e.value] :
                       e \in Elements(i.phones)}
      /\ n.addresses = {[types |-> {e.label}, value |-> e.value] : e \in Elements(i.addresses)}
  BY TheFields DEF VcardWrite, Contact
<1>3. \A f \in Sets : \A e \in Elements(i[f]) : e.value # None
  BY LabelledItem DEF Content, Labelled
<1>4. ASSUME NEW f \in Sets, NEW e \in n[f]
      PROVE  DOMAIN e = {"types", "value"} /\ e.value # None
  BY <1>2, <1>3, <1>4 DEF Sets
<1>5. n.full_name # None
  BY <1>1, UnknownAssumption DEF VcardName
<1> QED
  BY <1>4, <1>5 DEF Vcard, Sets

LEMMA WriteForm ==
  ASSUME OfContacts, NEW p \in Protocols, NEW r, r = Absent \/ (Contact(r) /\ WellFormed(p, r)),
         NEW i, Contact(i), ContactItem(i), NEW n \in MCWrites(p, r, i)
  PROVE  WellFormed(p, n)
<1>1. DOMAIN n = DOMAIN ContactStrategy
  BY Written, TheFields DEF Contact
<1>2. CASE p = "jmap"
  <2>1. PICK c : /\ n = JmapCardWrite(c, i) /\ Contact(c)
                 /\ (r = Absent /\ c = BlankCard) \/ (r # Absent /\ c = r)
    BY <1>2, BlankRead DEF MCWrites, Blank
  <2>2. JmapCard(c)
    <3>1. BlankCard.emails = {} /\ BlankCard.phones = {} /\ BlankCard.addresses = {}
      BY TheFields DEF BlankCard, Sets
    <3>2. JmapCard(BlankCard)
      BY <3>1 DEF JmapCard
    <3> QED
      BY <1>2, <2>1, <3>2 DEF WellFormed
  <2> QED
    BY <1>1, <1>2, <2>1, <2>2, JmapForm DEF WellFormed
<1>3. CASE p = "graph"
  <2>1. PICK c : n \in GraphContactWrites(c, i) /\ Contact(c)
    BY <1>3, BlankRead DEF MCWrites, Blank
  <2> QED
    BY <1>1, <1>3, <2>1, GraphForm DEF WellFormed
<1>4. CASE p = "dav"
  BY <1>1, <1>4, VcardForm DEF MCWrites, WellFormed
<1> QED
  BY <1>2, <1>3, <1>4 DEF Protocols

LEMMA WithoutForm ==
  ASSUME OfContacts, NEW i, Contact(i), ContactItem(i), NEW fs
  PROVE  ContactItem(Without(i, fs))
  BY WithoutTells, LabelledItem, TheFields DEF Sets

LEMMA MergeForm ==
  ASSUME OfContacts, NEW x, NEW y, NEW old, NEW m, m = MergeItem(x, y, old),
         Contact(x.fields), ContactItem(x.fields), Contact(y.fields), ContactItem(y.fields)
  PROVE  ContactItem(m.fields)
<1>1. /\ Contact(m.fields)
      /\ \A f \in Sets : Content(m.fields, f) \subseteq Content(x.fields, f) \cup Content(y.fields, f)
  BY MergeTells, TheFields DEF Sets
<1> QED
  BY <1>1, LabelledItem

FormInv ==
  /\ \A s \in Sides : Present(s) => WellFormed(Kind(s), native[s])
  /\ snap # NoSnapshot => ContactItem(snap.fields)

\* A side that is there reads as a contact of the engine's.
LEMMA ItemForm ==
  ASSUME OfContacts, ContactsInv, FormInv, NEW s \in Sides, Present(s)
  PROVE  Contact(ItemOf(s)) /\ ContactItem(ItemOf(s))
<1>1. Contact(native[s]) /\ WellFormed(Kind(s), native[s]) /\ Kind(s) \in Protocols
  BY ItemRead DEF ContactsInv, FormInv, Present
<1>2. ItemOf(s) = MCRead(Kind(s), native[s])
  BY ItemRead DEF ContactsInv, ItemOf
<1> QED
  BY <1>1, <1>2, ReadForm, ReadFields

LEMMA InitForm ==
  ASSUME OfContacts, Init
  PROVE  FormInv
<1>1. PICK x \in Held("a"), y \in Held("b") : native = [s \in Sides |-> IF s = "a" THEN x ELSE y]
  BY DEF Init
<1>2. \A s \in Sides : native[s] \in Held(s)
  BY <1>1 DEF Sides
<1>3. \A s \in Sides : Present(s) => native[s] \in Natives(Kind(s), scene.group)
  BY <1>2 DEF Held, Present
<1> QED
  BY <1>3 DEF Init, FormInv, OfContacts, Kind

LEMMA EditForm ==
  ASSUME OfContacts, ContactsInv, FormInv, NEW s \in Sides, Edit(s)
  PROVE  FormInv'
<1>1. PICK n \in Natives(Kind(s), scene.group) : native' = [native EXCEPT ![s] = n]
  BY DEF Edit
<1>2. WellFormed(Kind(s), n)
  BY DEF ContactsInv, OfContacts, Kind
<1>3. native'[s] = n /\ \A t \in Sides : t # s => native'[t] = native[t]
  BY <1>1 DEF ContactsInv
<1>4. UNCHANGED <<scene, snap>>
  BY DEF Edit
<1> QED
  BY <1>2, <1>3, <1>4 DEF FormInv, Present, Kind

LEMMA CreateForm ==
  ASSUME OfContacts, ContactsInv, FormInv, NEW s \in Sides, Create(s)
  PROVE  FormInv'
<1> DEFINE o == Other(s)
<1>1. PICK unread \in Failures(o), unsent \in Failures(s) :
        LET i == Without(ItemOf(o), unread) IN
        /\ \E n \in Writes(Kind(s), Absent, Without(i, unsent)) : native' = [native EXCEPT ![s] = n]
        /\ Recorded(i)
  BY DEF Create
<1>2. PICK i, j : i = Without(ItemOf(o), unread) /\ j = Without(i, unsent)
  OBVIOUS
<1>3. PICK n \in Writes(Kind(s), Absent, j) : native' = [native EXCEPT ![s] = n]
  BY <1>1, <1>2
<1>4. /\ ~Present(s) /\ scene' = scene /\ snap' = [fields |-> i]
      /\ o \in Sides /\ o # s /\ \A t \in Sides : t = s \/ t = o
  BY <1>1, <1>2 DEF Create, Recorded, Sides, Other
<1>5. Contact(i) /\ ContactItem(i) /\ Contact(j) /\ ContactItem(j)
  <2>1. Contact(ItemOf(o)) /\ ContactItem(ItemOf(o))
    BY <1>4, ItemForm DEF ContactsInv
  <2>2. Contact(i) /\ ContactItem(i)
    BY <1>2, <2>1, WithoutTells, WithoutForm
  <2> QED
    BY <1>2, <2>2, WithoutTells, WithoutForm
<1>6. WellFormed(Kind(s), n)
  BY <1>5, ItemRead, WriteForm DEF ContactsInv
<1>7. native'[s] = n /\ native'[o] = native[o]
  BY <1>3, <1>4 DEF ContactsInv
<1> QED
  BY <1>4, <1>5, <1>6, <1>7 DEF FormInv, Present, Kind

LEMMA RoundForm ==
  ASSUME OfContacts, ContactsInv, FormInv, Round
  PROVE  FormInv'
<1>1. scene' = scene /\ \A s \in Sides : Present(s)
  BY DEF Round
<1>2. PICK unread, unsent, m, x, y : RoundOf(unread, unsent, m, x, y)
  BY RoundPicked
<1>3. Contact(m.fields) /\ ContactItem(m.fields)
  <2>1. /\ x.fields = Without(ItemOf("a"), unread["a"]) /\ y.fields = Without(ItemOf("b"), unread["b"])
        /\ m = MergeItem(x, y, snap)
    BY <1>2 DEF RoundOf
  <2>2. /\ Contact(x.fields) /\ ContactItem(x.fields) /\ Contact(y.fields) /\ ContactItem(y.fields)
    BY <1>1, <2>1, ItemForm, WithoutTells, WithoutForm DEF Sides
  <2> QED
    BY <2>1, <2>2, MergeForm, MergeTells
<1>4. ASSUME NEW s \in Sides
      PROVE  WellFormed(Kind(s), native'[s])
  <2>1. WellFormed(Kind(s), native[s]) /\ Contact(native[s])
    BY <1>1 DEF FormInv, ContactsInv, Present
  <2>2. CASE native'[s] = native[s]
    BY <2>1, <2>2
  <2>3. CASE native'[s] \in Writes(Kind(s), native[s], Without(m.fields, unsent[s]))
    <3>1. Contact(Without(m.fields, unsent[s])) /\ ContactItem(Without(m.fields, unsent[s]))
      BY <1>3, WithoutTells, WithoutForm
    <3> QED
      BY <2>1, <2>3, <3>1, ItemRead, WriteForm DEF ContactsInv
  <2> QED
    BY <1>2, <2>2, <2>3 DEF RoundOf, Results
<1>5. snap' # NoSnapshot => ContactItem(snap'.fields)
  <2>1. CASE snap' = snap
    BY <2>1 DEF FormInv
  <2>2. CASE snap' = [fields |-> m.fields]
    BY <1>3, <2>2
  <2> QED
    BY <1>2, <2>1, <2>2 DEF RoundOf, Recorded
<1> QED
  BY <1>1, <1>4, <1>5 DEF FormInv, Kind

(***************************************************************************)
(* However contacts are edited, merged and converted, no server is given a  *)
(* record that its protocol does not allow, and the snapshot is a contact.  *)
(***************************************************************************)
THEOREM TypeCorrect == OfContacts => (Spec => []TypeOK)
<1> SUFFICES ASSUME OfContacts PROVE Spec => []TypeOK
  OBVIOUS
<1>1. Init => FormInv
  BY InitForm
<1>2. ContactsInv /\ FormInv /\ [Next]_vars => FormInv'
  <2> SUFFICES ASSUME ContactsInv, FormInv, [Next]_vars PROVE FormInv'
    OBVIOUS
  <2>1. CASE UNCHANGED vars
    BY <2>1 DEF vars, FormInv, Present, Kind
  <2> QED
    BY <2>1, RoundForm, EditForm, CreateForm DEF Next
<1>3. FormInv => TypeOK
  BY DEF FormInv, TypeOK
<1> QED
  BY <1>1, <1>2, <1>3, ContactsInvHolds, PTL DEF Spec

(***************************************************************************)
(* However often contacts are edited, converted and merged, and whatever    *)
(* calls for photos fail, a server tells nothing that no user stored.       *)
(***************************************************************************)
THEOREM ContactsInventNothing == OfContacts => (Spec => []NothingInvented)
<1>1. ContactsInv => NothingInvented
  BY DEF ContactsInv, NothingInvented, OfCarried
<1> QED
  BY <1>1, ContactsInvHolds, PTL

\* A carried scalar that one side changed at most is on both sides after the round.
LEMMA ScalarArrives ==
  ASSUME OfContacts, ContactsInv, [Next]_vars, RecordedRound,
         NEW s \in Sides, NEW f \in FreshScalars(s), Untouched(Other(s), f)
  PROVE  Arrives(Fact(f, ItemOf(s)[f]))
<1>1. Round
  <2>1. snap # NoSnapshot /\ snap' # snap /\ edits' = edits
    BY DEF RecordedRound
  <2>2. \A t \in Sides : ~Create(t) /\ ~Edit(t)
    BY <2>1 DEF ContactsInv, Create, Edit
  <2> QED
    BY <2>1, <2>2 DEF Next, vars
<1>2. PICK unread, unsent, m, x, y : RoundOf(unread, unsent, m, x, y)
  BY <1>1, RoundPicked
<1>3. /\ \A t \in Sides : Present(t) /\ Contact(native[t]) /\ Contact(ItemOf(t))
      /\ m.fields = [g \in AllFields |-> MergeField(g, x, y, snap)]
      /\ Contact(m.fields) /\ Facts(m.fields) \subseteq given
  BY <1>1, <1>2, RoundMerges
<1>4. PICK v : v = ItemOf(s)[f]
  OBVIOUS
<1>5. /\ f \in Scalars /\ v # None /\ FactOf(f, v) # None
      /\ \A t \in Sides : f \notin unread[t] /\ f \notin unsent[t] /\ f \notin LeftOut(Kind(t))
  <2>1. f \in AllFields /\ Strategy[f] = "scalar" /\ v # None /\ Fact(f, v) \in fresh[s]
    BY <1>4 DEF FreshScalars, Carried, OfContacts
  <2>2. f \in Scalars /\ FactOf(f, v) # None
    BY <2>1, TheFields DEF OfContacts, ContactsInv, Scalars
  <2>3. scene' = scene /\ missed' = missed \cup UNION {unread[t] \cup unsent[t] : t \in Sides}
    BY <1>1, <1>2 DEF Round, RoundOf, Noted
  <2>4. \A t \in Sides : f \notin missed' /\ f \notin LeftOut(Kind(t))
    BY <2>3 DEF FreshScalars, Carried, Kind, OfContacts
  <2> QED
    BY <2>1, <2>2, <2>3, <2>4
<1>6. /\ Other(s) \in Sides /\ ItemOf(Other(s))[f] = snap.fields[f]
      /\ x.fields[f] = ItemOf("a")[f] /\ y.fields[f] = ItemOf("b")[f]
  <2>1. \A t \in Sides : Without(ItemOf(t), unread[t])[f] = ItemOf(t)[f]
    BY <1>3, <1>5, WithoutTells DEF Scalars
  <2> QED
    BY <1>2, <2>1 DEF RoundOf, Untouched, Sides, Other
<1>7. m.fields[f] = v
  <2>1. snap # NoSnapshot /\ Strategy[f] = "scalar" /\ f \in AllFields
    BY <1>5, TheFields DEF RecordedRound, Scalars, OfContacts
  <2>2. m.fields[f] = MergeScalar(ItemOf("a")[f], ItemOf("b")[f], snap.fields[f], FALSE,
                                  PickWinner(x.updated, y.updated))
    BY <1>3, <1>6, <2>1 DEF MergeField, PrevOf
  <2> QED
    BY <1>4, <1>6, <2>2 DEF MergeScalar, IsConflict, Sides, Other
<1>8. \A t \in Sides : native'[t] \in Results(t, m, unsent[t])
  BY <1>2 DEF RoundOf, RecordedRound
<1>9. ASSUME NEW t \in Sides
      PROVE  Contact(native'[t]) /\ MCRead(Kind(t), native'[t])[f] = v
  BY <1>1, <1>2, <1>5, <1>7, <1>8, ScalarLands
<1>10. ASSUME NEW t \in Sides
       PROVE  Fact(f, v) \in Told(t)'
  <2>1. Present(t)' /\ ItemOf(t)' = MCRead(Kind(t), native'[t])
    BY <1>1, <1>9, ItemRead DEF Present, OfContacts, ItemOf, Round, Kind, ContactsInv
  <2>2. v \in Content(MCRead(Kind(t), native'[t]), f)
    BY <1>5, <1>9 DEF Content, Scalars
  <2>3. FactOf(f, v) \in Facts(MCRead(Kind(t), native'[t]))
    BY <1>5, <2>2, FactsOfItem DEF Scalars
  <2> QED
    BY <2>1, <2>3 DEF Told, OfContacts
<1> QED
  BY <1>4, <1>10 DEF Arrives

(***************************************************************************)
(* What a user gave a name, a company, a note or a photo is on both servers *)
(* after the next recorded round, if the other side reads as the last round *)
(* left it: no conversion drops it and no merge takes the old value.        *)
(***************************************************************************)
THEOREM ContactEditsArrive == OfContacts => (Spec => EditsArrive)
<1> SUFFICES ASSUME OfContacts PROVE Spec => EditsArrive
  OBVIOUS
<1>1. ContactsInv /\ [Next]_vars =>
        [RecordedRound => \A s \in Sides : \A f \in FreshScalars(s) :
                            Untouched(Other(s), f) => Arrives(Fact(f, ItemOf(s)[f]))]_vars
  BY ScalarArrives
<1> QED
  BY <1>1, ContactsInvHolds, PTL DEF Spec, EditsArrive

--------------------------------------------------------------------------------
(* Nothing vanishes. *)

\* What is told of a field is not the fact that says nothing, and a snapshot is
\* not the missing one.
SentinelsApart == (\A f, v : <<f, v>> # None) /\ (\A i : [fields |-> i] # NoSnapshot)

\* The scalars that alone tell of their field.
Plain == Scalars \ {"full_name", "given_name"}

\* A side lacks a carried value of the snapshot only when a user removed one.
KeptInv ==
  snap # NoSnapshot =>
    \A f \in Plain \cap Carried : snap.fields[f] # None =>
      \A s \in Sides : ItemOf(s)[f] # None \/ \E y \in withdrawn : y[1] = f

\* A fact names its field, if it is not the name.
LEMMA FieldOfFact ==
  /\ \A f \in AllFields \ {"full_name", "given_name"} : \A v : FactOf(f, v)[1] = f
  /\ \A f \in Plain : \A v : FactOf(f, v) = <<f, v>>
  /\ \A f \in {"full_name", "given_name"} : \A v : v # Unknown => FactOf(f, v) = <<"full_name", v>>
  /\ \A f \in {"full_name", "given_name"} : FactOf(f, Unknown) = None
  BY DEF FactOf, Plain, Scalars, Sets

\* A carried field is one both sides store and no call of the round failed for.
LEMMA CarriedInRound ==
  ASSUME OfContacts, ContactsInv, Round, NEW unread, NEW unsent, NEW m, NEW x, NEW y,
         RoundOf(unread, unsent, m, x, y), NEW f, f \in Carried'
  PROVE  /\ f \in AllFields /\ f \in Carried
         /\ \A t \in Sides : f \notin unread[t] /\ f \notin unsent[t] /\ f \notin LeftOut(Kind(t))
<1>1. scene' = scene /\ missed' = missed \cup UNION {unread[t] \cup unsent[t] : t \in Sides}
  BY DEF Round, RoundOf, Noted
<1> QED
  BY <1>1 DEF Carried, Kind, OfContacts

LEMMA RoundKeeps ==
  ASSUME OfContacts, ContactsInv, KeptInv, Round
  PROVE  KeptInv'
<1> SUFFICES ASSUME snap' # NoSnapshot, NEW f \in Plain, f \in Carried', snap'.fields[f] # None,
                    NEW t \in Sides, \A y \in withdrawn' : y[1] # f
             PROVE  ItemOf(t)'[f] # None
  BY DEF KeptInv
<1>1. PICK unread, unsent, m, x, y : RoundOf(unread, unsent, m, x, y)
  BY RoundPicked
<1>2. /\ f \in AllFields /\ f \in Scalars /\ f \in Carried
      /\ \A s \in Sides : f \notin unread[s] /\ f \notin unsent[s] /\ f \notin LeftOut(Kind(s))
  BY <1>1, CarriedInRound DEF Plain, Scalars
<1>3. /\ m.fields = [g \in AllFields |-> MergeField(g, x, y, snap)] /\ Contact(m.fields)
      /\ Present(t) /\ Contact(native[t])
  BY <1>1, RoundMerges
<1>4. x.fields[f] = ItemOf("a")[f] /\ y.fields[f] = ItemOf("b")[f]
  BY <1>1, <1>2, ReadInRound
<1>5. UNCHANGED <<scene, withdrawn>> /\ ItemOf(t)' = MCRead(Kind(t), native'[t])
  BY ItemRead DEF Round, ItemOf, Kind, ContactsInv
<1>6. \E s \in Sides : m.fields[f] = ItemOf(s)[f]
  <2>1. Strategy[f] = "scalar"
    BY <1>2, TheFields DEF Scalars, OfContacts
  <2> QED
    BY <1>2, <1>3, <1>4, <2>1 DEF MergeField, MergeScalar, Sides
<1>7. m.fields[f] # None /\ (native'[t] \notin Results(t, m, unsent[t]) => ItemOf(t)[f] # None)
  <2>1. CASE Recorded(m.fields) /\ native'[t] \in Results(t, m, unsent[t])
    BY <2>1 DEF Recorded
  <2>2. CASE UNCHANGED snap
    <3>1. \A s \in Sides : ItemOf(s)[f] # None
      BY <1>2, <1>5, <2>2 DEF KeptInv
    <3> QED
      BY <1>6, <3>1
  <2> QED
    BY <1>1, <2>1, <2>2 DEF RoundOf
<1>8. CASE native'[t] \in Results(t, m, unsent[t])
  <2>1. MCRead(Kind(t), native'[t])[f] = m.fields[f]
    BY <1>1, <1>2, <1>7, <1>8, ScalarLands
  <2> QED
    BY <1>5, <1>7, <2>1
<1>9. CASE native'[t] = native[t] /\ native'[t] \notin Results(t, m, unsent[t])
  <2>1. ItemOf(t)' = ItemOf(t)
    BY <1>5, <1>9, ItemRead DEF ItemOf, ContactsInv
  <2> QED
    BY <1>7, <1>9, <2>1
<1> QED
  BY <1>1, <1>8, <1>9 DEF RoundOf

LEMMA CreateKeeps ==
  ASSUME OfContacts, ContactsInv, NEW s \in Sides, Create(s)
  PROVE  KeptInv'
<1> DEFINE o == Other(s)
<1>1. PICK unread \in Failures(o), unsent \in Failures(s) :
        /\ \E n \in Writes(Kind(s), Absent, Without(Without(ItemOf(o), unread), unsent)) :
             native' = [native EXCEPT ![s] = n]
        /\ Recorded(Without(ItemOf(o), unread))
        /\ Noted(unread \cup unsent)
  BY DEF Create
<1>2. PICK i, j : i = Without(ItemOf(o), unread) /\ j = Without(i, unsent)
  OBVIOUS
<1>3. PICK n \in Writes(Kind(s), Absent, j) : native' = [native EXCEPT ![s] = n]
  BY <1>1, <1>2
<1>4. ~Present(s) /\ scene' = scene /\ o \in Sides /\ o # s /\ \A t \in Sides : t = s \/ t = o
  BY DEF Create, Sides, Other
<1>5. Present(o) /\ Contact(native[o]) /\ Contact(ItemOf(o))
  BY <1>4, ItemRead DEF ContactsInv, Present, ItemOf
<1>6. Contact(i) /\ Contact(j)
  <2>1. Contact(i)
    BY <1>2, <1>5, WithoutTells
  <2> QED
    BY <1>2, <2>1, WithoutTells
<1>7. Contact(n) /\ Sent(Kind(s), j, n)
  <2>1. n \in MCWrites(Kind(s), Absent, j) /\ Kind(s) \in Protocols
    BY ItemRead DEF ContactsInv
  <2> QED
    BY <1>6, <2>1, Written
<1>8. native'[s] = n /\ native'[o] = native[o]
  BY <1>3, <1>4 DEF ContactsInv
<1> SUFFICES ASSUME NEW f \in Plain, f \in Carried', snap'.fields[f] # None, NEW t \in Sides
             PROVE  ItemOf(t)'[f] # None
  BY DEF KeptInv
<1>9. f \in Scalars /\ f \in AllFields /\ f \notin unread /\ f \notin unsent /\ f \notin LeftOut(Kind(s))
  <2>1. missed' = missed \cup unread \cup unsent
    BY <1>1 DEF Noted
  <2> QED
    BY <1>4, <2>1 DEF Carried, Kind, OfContacts, Plain, Scalars
<1>10. i[f] # None /\ i[f] = ItemOf(o)[f] /\ j[f] = i[f]
  <2>1. snap'.fields = i
    BY <1>1, <1>2 DEF Recorded
  <2>2. i[f] = ItemOf(o)[f]
    BY <1>2, <1>5, <1>9, WithoutTells
  <2>3. j[f] = i[f]
    BY <1>2, <1>6, <1>9, WithoutTells
  <2> QED
    BY <2>1, <2>2, <2>3
<1>11. \A r \in Sides : ItemOf(r)' = MCRead(Kind(r), native'[r])
  BY <1>4, ItemRead DEF ItemOf, Kind, ContactsInv
<1>12. CASE t = o
  BY <1>4, <1>8, <1>10, <1>11, <1>12, ItemRead DEF ItemOf, ContactsInv
<1>13. CASE t = s
  <2>1. n[f] = j[f]
    BY <1>7, <1>9, <1>10 DEF Sent
  <2>2. MCRead(Kind(s), n)[f] = n[f]
    BY <1>7, <1>9, ReadFields, ItemRead DEF ContactsInv
  <2> QED
    BY <1>8, <1>10, <1>11, <1>13, <2>1, <2>2
<1> QED
  BY <1>4, <1>12, <1>13

LEMMA EditKeeps ==
  ASSUME OfContacts, SentinelsApart, ContactsInv, KeptInv, NEW s \in Sides, Edit(s)
  PROVE  KeptInv'
<1>1. PICK n \in Natives(Kind(s), scene.group) :
        /\ native' = [native EXCEPT ![s] = n]
        /\ withdrawn' = withdrawn \cup (Told(s) \ Facts(Read(Kind(s), n)))
  BY DEF Edit
<1>2. Present(s) /\ UNCHANGED <<scene, snap, missed>>
  BY DEF Edit
<1>3. Contact(n) /\ native'[s] = n /\ \A t \in Sides : t # s => native'[t] = native[t]
  BY <1>1 DEF ContactsInv, OfContacts, Kind
<1> SUFFICES ASSUME snap # NoSnapshot, NEW f \in Plain, f \in Carried, snap.fields[f] # None, NEW t \in Sides,
                    \A y \in withdrawn' : y[1] # f
             PROVE  ItemOf(t)'[f] # None
  BY <1>2 DEF KeptInv, Carried, Kind
<1>4. ItemOf(t)[f] # None
  BY <1>1 DEF KeptInv
<1>5. CASE t # s
  BY <1>2, <1>3, <1>4, <1>5 DEF ItemOf, Kind
<1>6. CASE t = s
  <2> SUFFICES ASSUME MCRead(Kind(s), n)[f] = None
               PROVE  FALSE
    BY <1>2, <1>3, <1>6, ItemRead DEF ItemOf, Kind, ContactsInv
  <2>1. PICK v : v = ItemOf(s)[f]
    OBVIOUS
  <2>2. f \in AllFields /\ f \in Scalars /\ f \notin Sets
    BY DEF Plain, Scalars
  <2>3. <<f, v>> \in Told(s)
    <3>1. v \in Content(ItemOf(s), f)
      BY <1>4, <1>6, <2>1, <2>2 DEF Content
    <3>2. <<f, v>> \in Facts(ItemOf(s))
      BY <2>2, <3>1, FieldOfFact, FactsOfItem DEF SentinelsApart
    <3> QED
      BY <1>2, <3>2 DEF Told
  <2>4. <<f, v>> \notin Facts(MCRead(Kind(s), n))
    <3> SUFFICES ASSUME NEW g \in AllFields, NEW w \in Content(MCRead(Kind(s), n), g), <<f, v>> = FactOf(g, w),
                        <<f, v>> # None
                 PROVE  FALSE
      BY FactsOfItem
    <3>1. g = f
      <4>1. CASE g \in {"full_name", "given_name"}
        <5>1. <<f, v>> = <<"full_name", w>>
          BY <4>1, FieldOfFact
        <5> QED
          BY <5>1 DEF Plain
      <4>2. CASE g \notin {"full_name", "given_name"}
        BY <4>2, FieldOfFact
      <4> QED
        BY <4>1, <4>2
    <3> QED
      BY <2>2, <3>1 DEF Content
  <2>5. <<f, v>> \in withdrawn' /\ <<f, v>>[1] = f
    BY <1>1, <2>3, <2>4, ItemRead DEF ContactsInv
  <2> QED
    BY <2>5
<1> QED
  BY <1>5, <1>6

LEMMA KeptInvHolds == OfContacts /\ SentinelsApart => (Spec => [](ContactsInv /\ KeptInv))
<1> SUFFICES ASSUME OfContacts, SentinelsApart PROVE Spec => [](ContactsInv /\ KeptInv)
  OBVIOUS
<1>1. Init => KeptInv
  BY DEF Init, KeptInv
<1>2. ContactsInv /\ KeptInv /\ [Next]_vars => KeptInv'
  <2> SUFFICES ASSUME ContactsInv, KeptInv, [Next]_vars PROVE KeptInv'
    OBVIOUS
  <2>1. CASE UNCHANGED vars
    BY <2>1 DEF vars, KeptInv, ItemOf, Kind, Carried
  <2> QED
    BY <2>1, RoundKeeps, EditKeeps, CreateKeeps DEF Next
<1> QED
  BY <1>1, <1>2, ContactsInvHolds, PTL DEF Spec

\* After a round both sides are there.
LEMMA RoundPresent ==
  ASSUME OfContacts, ContactsInv, Round, NEW s \in Sides
  PROVE  Present(s)'
<1>1. PICK unread, unsent, m, x, y : RoundOf(unread, unsent, m, x, y)
  BY RoundPicked
<1>2. Present(s) /\ Contact(native[s]) /\ Contact(m.fields) /\ Facts(m.fields) \subseteq given
  BY <1>1, RoundMerges
<1>3. native'[s] \in Results(s, m, unsent[s]) \/ native'[s] = native[s]
  BY <1>1 DEF RoundOf
<1>4. Contact(native'[s])
  BY <1>2, <1>3, ResultTells
<1> QED
  BY <1>4 DEF Present, OfContacts

\* What a list of an item tells, a side that keeps it whole tells after the round.
LEMMA ListStays ==
  ASSUME OfContacts, ContactsInv, Round, NEW unread, NEW unsent, NEW m, NEW x, NEW y,
         RoundOf(unread, unsent, m, x, y), NEW f \in Sets,
         NEW s \in Sides, NEW v \in Content(ItemOf(s), f), FactOf(f, v) # None,
         NEW t \in Sides, f \in Whole(Kind(t))
  PROVE  FactOf(f, v) \in Told(t)'
<1>1. f \in AllFields /\ \A r \in Sides : f \notin unread[r] /\ f \notin unsent[r]
  BY TheFields DEF RoundOf, OfContacts, SeparateCalls, Sets
<1>2. /\ \A r \in Sides : Present(r) /\ Contact(native[r]) /\ Contact(ItemOf(r))
      /\ m.fields = [g \in AllFields |-> MergeField(g, x, y, snap)]
      /\ Contact(m.fields) /\ Facts(m.fields) \subseteq given
  BY RoundMerges
<1>3. x.fields[f] = ItemOf("a")[f] /\ y.fields[f] = ItemOf("b")[f]
  BY <1>1, ReadInRound
<1>4. Strategy[f] = "set" /\ f \in MergedFields
  BY <1>1, TheFields DEF OfContacts, MergedFields
<1>5. v \in m.fields[f] /\ m.fields[f] # None
  <2>1. m.fields[f] = MergeSet(ItemOf("a")[f], ItemOf("b")[f], PrevOf(snap, f))
    BY <1>1, <1>2, <1>3, <1>4 DEF MergeField
  <2>2. v \in Elements(ItemOf(s)[f])
    BY DEF Content
  <2>3. v \in m.fields[f]
    BY <2>1, <2>2 DEF MergeSet, Sides
  <2> QED
    BY <2>3 DEF OfContacts
<1>6. native'[t] \in Results(t, m, unsent[t])
  <2>1. Writes(Kind(t), native[t], Without(m.fields, unsent[t])) # {}
    <3>1. MCWrites(Kind(t), native[t], Without(m.fields, unsent[t])) # {}
      BY SomeWritten, ItemRead DEF ContactsInv
    <3> QED
      BY <3>1, ItemRead DEF ContactsInv
  <2>2. Results(t, m, unsent[t]) # {}
    BY <2>1 DEF Results
  <2> QED
    BY <2>2 DEF RoundOf
<1>7. /\ Contact(native'[t]) /\ Kind(t) \in Protocols
      /\ \/ m.drift[t] = {} /\ native'[t] = native[t]
         \/ Lists(Kind(t), Without(m.fields, unsent[t]), native'[t])
  BY <1>2, <1>6, ResultTells, ItemRead DEF ContactsInv
<1>8. \E w \in Content(MCRead(Kind(t), native'[t]), f) : w.value = v.value
  <2>1. CASE m.drift[t] = {} /\ native'[t] = native[t]
    <3>1. ~Differs(f, m.fields[f], ItemOf(t)[f])
      BY <1>2, <1>3, <1>4, <2>1 DEF RoundOf, MergeItem, Sides
    <3>2. v \in Content(ItemOf(t), f)
      BY <1>4, <1>5, <3>1 DEF Differs, Content
    <3> QED
      BY <2>1, <3>2, ItemRead DEF ItemOf, ContactsInv
  <2>2. CASE Lists(Kind(t), Without(m.fields, unsent[t]), native'[t])
    <3>1. Without(m.fields, unsent[t])[f] = m.fields[f]
      BY <1>1, <1>2, WithoutTells
    <3>2. v \in Elements(Without(m.fields, unsent[t])[f])
      BY <1>5, <3>1 DEF Elements
    <3> QED
      BY <2>2, <3>2 DEF Lists
  <2> QED
    BY <1>7, <2>1, <2>2
<1>9. Present(t)' /\ ItemOf(t)' = MCRead(Kind(t), native'[t])
  BY <1>7, ItemRead DEF Present, OfContacts, ItemOf, Round, Kind, ContactsInv
<1>10. FactOf(f, v) \in Facts(MCRead(Kind(t), native'[t]))
  BY <1>1, <1>8, FactsNamed, FactsOfItem
<1> QED
  BY <1>9, <1>10 DEF Told

\* A carried scalar that a round loses gave way.
LEMMA ScalarGivesWay ==
  ASSUME OfContacts, SentinelsApart, ContactsInv, KeptInv, Round, snap # NoSnapshot,
         NEW f \in Plain, f \in Carried',
         NEW s \in Sides, ItemOf(s)[f] # None,
         \E r \in Sides : native'[r] # native[r]
  PROVE  \/ \E y \in (UNION {Told(r) : r \in Sides})' \cup withdrawn : y[1] = f
         \/ \A r \in Sides : ~Untouched(r, f)
<1> SUFFICES ASSUME NEW r \in Sides, Untouched(r, f), \A y \in withdrawn : y[1] # f
             PROVE  \E t \in Sides : \E y \in Told(t)' : y[1] = f
  OBVIOUS
<1>1. PICK unread, unsent, m, x, y : RoundOf(unread, unsent, m, x, y)
  BY RoundPicked
<1>2. /\ f \in AllFields /\ f \in Scalars /\ f \in Carried
      /\ \A t \in Sides : f \notin unread[t] /\ f \notin unsent[t] /\ f \notin LeftOut(Kind(t))
  BY <1>1, CarriedInRound DEF Plain
<1>3. m.fields = [g \in AllFields |-> MergeField(g, x, y, snap)]
  BY <1>1, RoundMerges
<1>4. x.fields[f] = ItemOf("a")[f] /\ y.fields[f] = ItemOf("b")[f]
  BY <1>1, <1>2, ReadInRound
<1>5. Other(r) \in Sides /\ (s = r \/ s = Other(r))
  BY DEF Sides, Other
<1>6. m.fields[f] = ItemOf(Other(r))[f]
  <2>1. Strategy[f] = "scalar"
    BY <1>2, TheFields DEF Scalars, OfContacts
  <2>2. m.fields[f] = MergeScalar(ItemOf("a")[f], ItemOf("b")[f], snap.fields[f], FALSE,
                                  PickWinner(x.updated, y.updated))
    BY <1>2, <1>3, <1>4, <2>1 DEF MergeField, PrevOf
  <2> QED
    BY <2>2 DEF MergeScalar, IsConflict, Untouched, Sides, Other
<1>7. m.fields[f] # None
  BY <1>2, <1>5, <1>6 DEF KeptInv, Untouched
<1>8. PICK t \in Sides : native'[t] \in Results(t, m, unsent[t])
  BY <1>1 DEF RoundOf
<1>9. Contact(native'[t]) /\ MCRead(Kind(t), native'[t])[f] = m.fields[f]
  BY <1>1, <1>2, <1>7, <1>8, ScalarLands
<1>10. Present(t)' /\ ItemOf(t)' = MCRead(Kind(t), native'[t])
  BY <1>9, ItemRead DEF Present, OfContacts, ItemOf, Round, Kind, ContactsInv
<1>11. m.fields[f] \in Content(MCRead(Kind(t), native'[t]), f)
  BY <1>2, <1>7, <1>9 DEF Content, Scalars
<1>12. <<f, m.fields[f]>> \in Facts(MCRead(Kind(t), native'[t]))
  BY <1>2, <1>11, FieldOfFact, FactsOfItem DEF SentinelsApart
<1>13. <<f, m.fields[f]>> \in Told(t)'
  BY <1>10, <1>12 DEF Told
<1>14. <<f, m.fields[f]>>[1] = f
  OBVIOUS
<1> QED
  BY <1>13, <1>14

\* A fact that is lost is lost in a round.
LEMMA LostInRound ==
  ASSUME OfContacts, ContactsInv, [Next]_vars, snap # NoSnapshot, edits' = edits,
         NEW x \in Lost
  PROVE  /\ Round
         /\ \E s \in Sides : native'[s] # native[s]
         /\ x[1] \in Carried'
         /\ \A s \in Sides : x \notin Told(s)'
         /\ \E s \in Sides : \E f \in AllFields : \E v \in Content(ItemOf(s), f) :
              x = FactOf(f, v) /\ x # None /\ x \in Told(s)
<1>1. /\ x[1] \in Carried' /\ \A s \in Sides : x \notin Told(s)'
      /\ \E s \in Sides : x \in Told(s)
  BY DEF Lost
<1>2. Round
  <2>1. \A s \in Sides : ~Create(s) /\ ~Edit(s)
    BY DEF ContactsInv, Create, Edit
  <2>2. ~UNCHANGED vars
    <3>1. UNCHANGED vars => \A s \in Sides : Told(s)' = Told(s)
      BY DEF vars, Told, Present, ItemOf, Kind
    <3> QED
      BY <1>1, <3>1
  <2> QED
    BY <2>1, <2>2 DEF Next
<1>3. \E s \in Sides : native'[s] # native[s]
  <2>1. (\A s \in Sides : native'[s] = native[s]) => \A s \in Sides : Told(s)' = Told(s)
    BY <1>2 DEF Told, Present, ItemOf, Kind, Round
  <2> QED
    BY <1>1, <2>1
<1>4. PICK s \in Sides : x \in Told(s)
  BY <1>1
<1>5. x \in Facts(ItemOf(s))
  BY <1>4 DEF Told
<1>6. \E f \in AllFields : \E v \in Content(ItemOf(s), f) : x = FactOf(f, v) /\ x # None
  BY <1>5, FactsOfItem
<1> QED
  BY <1>1, <1>2, <1>3, <1>4, <1>6

\* A fact of a list that one side keeps whole, or of another field.
Placed(x) == x[1] \in Sets => \E s \in Sides : x[1] \in Whole(Kind(s))

(***************************************************************************)
(* What users stored in a contact and none removed stays, names apart: an   *)
(* element of a list for good, if one side keeps the list whole, a scalar   *)
(* until another value takes its place or a conflict is settled, whatever   *)
(* the conversions and the failed calls in between.                         *)
(***************************************************************************)
THEOREM ContactsKeep ==
  OfContacts /\ SentinelsApart =>
    (Spec => [][snap # NoSnapshot /\ edits' = edits =>
                  \A x \in Lost : x[1] # "full_name" /\ Placed(x) => GaveWay(x)]_vars)
<1> SUFFICES ASSUME OfContacts, SentinelsApart
             PROVE  Spec => [][snap # NoSnapshot /\ edits' = edits =>
                                 \A x \in Lost : x[1] # "full_name" /\ Placed(x) => GaveWay(x)]_vars
  OBVIOUS
<1>1. ASSUME ContactsInv, KeptInv, [Next]_vars, snap # NoSnapshot, edits' = edits,
             NEW x \in Lost, x[1] # "full_name", Placed(x)
      PROVE  GaveWay(x)
  <2>1. /\ Round /\ (\E s \in Sides : native'[s] # native[s]) /\ x[1] \in Carried'
        /\ \A s \in Sides : x \notin Told(s)'
    BY <1>1, LostInRound
  <2>2. PICK s \in Sides, f \in AllFields : \E v \in Content(ItemOf(s), f) : x = FactOf(f, v) /\ x # None
    BY <1>1, LostInRound
  <2>3. PICK v \in Content(ItemOf(s), f) : x = FactOf(f, v) /\ x # None
    BY <2>2
  <2>4. f \notin {"full_name", "given_name"} /\ x[1] = f
    <3>1. CASE f \in {"full_name", "given_name"}
      <4>1. x = <<"full_name", v>>
        BY <2>3, <3>1, FieldOfFact
      <4> QED
        BY <1>1, <4>1
    <3> QED
      BY <2>3, <3>1, FieldOfFact
  <2>5. f \notin Sets
    <3> SUFFICES ASSUME f \in Sets PROVE FALSE
      OBVIOUS
    <3>1. PICK unread, unsent, m, y, z : RoundOf(unread, unsent, m, y, z)
      BY <2>1, RoundPicked
    <3>2. PICK t \in Sides : f \in Whole(Kind(t))
      BY <1>1, <2>4 DEF Placed
    <3>3. x \in Told(t)'
      BY <1>1, <2>1, <2>3, <3>1, <3>2, ListStays
    <3> QED
      BY <2>1, <3>3
  <2>6. f \in Plain /\ Strategy[f] = "scalar" /\ ItemOf(s)[f] # None
    BY <2>3, <2>4, <2>5, TheFields DEF Plain, Scalars, OfContacts, Content
  <2> QED
    BY <1>1, <2>1, <2>4, <2>6, ScalarGivesWay DEF GaveWay
<1>2. ContactsInv /\ KeptInv /\ [Next]_vars =>
        [snap # NoSnapshot /\ edits' = edits =>
           \A x \in Lost : x[1] # "full_name" /\ Placed(x) => GaveWay(x)]_vars
  BY <1>1
<1> QED
  BY <1>2, KeptInvHolds, PTL DEF Spec

--------------------------------------------------------------------------------
(* Rounds settle. *)

\* What a list of an item tells, without the labels.
Values(i, f) == {v.value : v \in Content(i, f)}

\* A scalar after one recorded round: as recorded on both sides, or recorded as
\* missing though one side has it, which the next round takes for a change.
Halfway(f) ==
  \/ \A s \in Sides : ItemOf(s)[f] = snap.fields[f]
  \/ snap.fields[f] = None /\ \/ \E s \in Sides : ItemOf(s)[f] = None
                              \/ ItemOf("a")[f] = ItemOf("b")[f]
Agreed(f) == \A s \in Sides : ItemOf(s)[f] = snap.fields[f]
Alike(f) == Values(ItemOf("a"), f) = Values(ItemOf("b"), f)

\* The lists both sides keep whole.
WholeLists == {f \in Sets : \A s \in Sides : f \in Whole(Kind(s))}

SettleInv ==
  quiet >= 1 =>
    /\ snap # NoSnapshot
    /\ \A f \in Plain \cap Carried : Halfway(f) /\ (quiet >= 2 => Agreed(f))
    /\ \A f \in WholeLists : Alike(f)

\* A scalar of the merged item, and what a side reads as after the round.
LEMMA ScalarInRound ==
  ASSUME OfContacts, ContactsInv, Round, NEW unread, NEW unsent, NEW m, NEW x, NEW y,
         RoundOf(unread, unsent, m, x, y), NEW f \in Plain, f \in Carried'
  PROVE  /\ m.fields[f] = MergeScalar(ItemOf("a")[f], ItemOf("b")[f], PrevOf(snap, f), snap = NoSnapshot,
                                      PickWinner(x.updated, y.updated))
         /\ \A t \in Sides :
              /\ native'[t] \in Results(t, m, unsent[t]) =>
                   IF m.fields[f] # None THEN ItemOf(t)'[f] = m.fields[f]
                                         ELSE ItemOf(t)'[f] \in {None, ItemOf(t)[f]}
              /\ native'[t] = native[t] => ItemOf(t)'[f] = ItemOf(t)[f]
<1>1. /\ f \in AllFields /\ f \in Scalars /\ f # "full_name"
      /\ \A t \in Sides : f \notin unread[t] /\ f \notin unsent[t] /\ f \notin LeftOut(Kind(t))
  BY CarriedInRound DEF Plain
<1>2. /\ m.fields = [g \in AllFields |-> MergeField(g, x, y, snap)]
      /\ \A t \in Sides : Present(t) /\ Contact(native[t]) /\ Contact(ItemOf(t))
      /\ Contact(m.fields) /\ Facts(m.fields) \subseteq given
  BY RoundMerges
<1>3. x.fields[f] = ItemOf("a")[f] /\ y.fields[f] = ItemOf("b")[f]
  BY <1>1, ReadInRound
<1>4. Strategy[f] = "scalar" /\ f \in MergedFields
  BY <1>1, TheFields DEF Scalars, OfContacts, MergedFields
<1>5. m.fields[f] = MergeScalar(ItemOf("a")[f], ItemOf("b")[f], PrevOf(snap, f), snap = NoSnapshot,
                                PickWinner(x.updated, y.updated))
  BY <1>1, <1>2, <1>3, <1>4 DEF MergeField
<1>6. \A t \in Sides : ItemOf(t)' = MCRead(Kind(t), native'[t]) /\ ItemOf(t) = MCRead(Kind(t), native[t])
                       /\ Kind(t) \in Protocols
  BY ItemRead DEF Round, ItemOf, Kind, ContactsInv
<1>7. ASSUME NEW t \in Sides, native'[t] \in Results(t, m, unsent[t])
      PROVE  IF m.fields[f] # None THEN ItemOf(t)'[f] = m.fields[f]
                                   ELSE ItemOf(t)'[f] \in {None, ItemOf(t)[f]}
  <2>1. CASE m.fields[f] # None
    <3>1. MCRead(Kind(t), native'[t])[f] = m.fields[f]
      BY <1>1, <1>7, <2>1, ScalarLands
    <3> QED
      BY <1>6, <2>1, <3>1
  <2>2. CASE m.fields[f] = None
    <3>1. /\ Contact(native'[t])
          /\ \/ m.drift[t] = {} /\ native'[t] = native[t]
             \/ Kept(Kind(t), native[t], Without(m.fields, unsent[t]), native'[t])
      BY <1>2, <1>7, ResultTells
    <3>2. CASE native'[t] = native[t]
      BY <1>6, <2>2, <3>2
    <3>3. CASE Kept(Kind(t), native[t], Without(m.fields, unsent[t]), native'[t])
      <4>1. Without(m.fields, unsent[t])[f] = None
        BY <1>1, <1>2, <2>2, WithoutTells
      <4>2. native'[t][f] \in {None, native[t][f]}
        BY <1>1, <3>3, <4>1 DEF Kept
      <4>3. native'[t][f] = ItemOf(t)'[f] /\ native[t][f] = ItemOf(t)[f]
        BY <1>1, <1>2, <1>6, <3>1, ReadFields
      <4> QED
        BY <2>2, <4>2, <4>3
    <3> QED
      BY <3>1, <3>2, <3>3
  <2> QED
    BY <2>1, <2>2
<1>8. \A t \in Sides : native'[t] = native[t] => ItemOf(t)'[f] = ItemOf(t)[f]
  BY <1>6
<1> QED
  BY <1>5, <1>7, <1>8

\* A list that both sides keep whole: the merged item lists what both list, and so
\* does a side that is written.
LEMMA ListInRound ==
  ASSUME OfContacts, ContactsInv, Round, NEW unread, NEW unsent, NEW m, NEW x, NEW y,
         RoundOf(unread, unsent, m, x, y), NEW f \in WholeLists
  PROVE  /\ Values(m.fields, f) = Values(ItemOf("a"), f) \cup Values(ItemOf("b"), f)
         /\ \A t \in Sides :
              /\ native'[t] \in Results(t, m, unsent[t]) => Values(ItemOf(t)', f) = Values(m.fields, f)
              /\ native'[t] = native[t] => Values(ItemOf(t)', f) = Values(ItemOf(t), f)
<1>1. f \in Sets /\ f \in AllFields /\ \A r \in Sides : f \notin unread[r] /\ f \notin unsent[r] /\ f \in Whole(Kind(r))
  BY TheFields DEF RoundOf, OfContacts, SeparateCalls, Sets, WholeLists
<1>2. /\ \A r \in Sides : Present(r) /\ Contact(native[r]) /\ Contact(ItemOf(r))
      /\ m.fields = [g \in AllFields |-> MergeField(g, x, y, snap)]
      /\ Contact(m.fields) /\ Facts(m.fields) \subseteq given
  BY RoundMerges
<1>3. x.fields[f] = ItemOf("a")[f] /\ y.fields[f] = ItemOf("b")[f]
  BY <1>1, ReadInRound
<1>4. Strategy[f] = "set" /\ f \in MergedFields
  BY <1>1, TheFields DEF OfContacts, MergedFields
<1>5. Content(m.fields, f) = Content(ItemOf("a"), f) \cup Content(ItemOf("b"), f)
  <2>1. m.fields[f] = MergeSet(ItemOf("a")[f], ItemOf("b")[f], PrevOf(snap, f))
    BY <1>1, <1>2, <1>3, <1>4 DEF MergeField
  <2>2. m.fields[f] = Elements(ItemOf("a")[f]) \cup Elements(ItemOf("b")[f])
    BY <2>1 DEF MergeSet
  <2>3. Elements(m.fields[f]) = m.fields[f]
    <3>1. m.fields[f] # None \/ m.fields[f] = {}
      BY <2>2 DEF OfContacts
    <3> QED
      BY <3>1 DEF Elements
  <2> QED
    BY <1>1, <2>2, <2>3 DEF Content
<1>6. \A t \in Sides : ItemOf(t)' = MCRead(Kind(t), native'[t]) /\ ItemOf(t) = MCRead(Kind(t), native[t])
  BY ItemRead DEF Round, ItemOf, Kind, ContactsInv
<1>7. ASSUME NEW t \in Sides, native'[t] \in Results(t, m, unsent[t])
      PROVE  Values(ItemOf(t)', f) = Values(m.fields, f)
  <2>1. \/ m.drift[t] = {} /\ native'[t] = native[t]
        \/ /\ Lists(Kind(t), Without(m.fields, unsent[t]), native'[t])
           /\ Kept(Kind(t), native[t], Without(m.fields, unsent[t]), native'[t])
    BY <1>2, <1>7, ResultTells
  <2>2. CASE m.drift[t] = {} /\ native'[t] = native[t]
    <3>1. ~Differs(f, m.fields[f], ItemOf(t)[f])
      BY <1>2, <1>3, <1>4, <2>2 DEF RoundOf, MergeItem, Sides
    <3>2. m.fields[f] = Elements(ItemOf(t)[f])
      BY <1>4, <3>1 DEF Differs
    <3>3. Content(m.fields, f) = Content(ItemOf(t), f)
      BY <1>1, <3>2 DEF Content, Elements
    <3> QED
      BY <1>6, <2>2, <3>3 DEF Values
  <2>3. CASE /\ Lists(Kind(t), Without(m.fields, unsent[t]), native'[t])
             /\ Kept(Kind(t), native[t], Without(m.fields, unsent[t]), native'[t])
    <3>1. Without(m.fields, unsent[t])[f] = m.fields[f]
      BY <1>1, <1>2, WithoutTells
    <3>2. Content(Without(m.fields, unsent[t]), f) = Content(m.fields, f)
          /\ Elements(Without(m.fields, unsent[t])[f]) = Content(m.fields, f)
      BY <1>1, <3>1 DEF Content
    <3>3. \A v \in Content(m.fields, f) : \E w \in Content(ItemOf(t)', f) : w.value = v.value
      BY <1>1, <1>6, <2>3, <3>2 DEF Lists
    <3>4. \A v \in Content(ItemOf(t)', f) : \E w \in Content(m.fields, f) \cup Content(ItemOf(t), f) : w.value = v.value
      BY <1>1, <1>6, <2>3, <3>2 DEF Kept
    <3>5. Content(ItemOf(t), f) \subseteq Content(m.fields, f)
      BY <1>5 DEF Sides
    <3>6. \A v \in Content(ItemOf(t)', f) : \E w \in Content(m.fields, f) : w.value = v.value
      BY <3>4, <3>5
    <3> QED
      BY <3>3, <3>6 DEF Values
  <2> QED
    BY <2>1, <2>2, <2>3
<1>8. \A t \in Sides : native'[t] = native[t] => Values(ItemOf(t)', f) = Values(ItemOf(t), f)
  BY <1>6
<1>9. Values(m.fields, f) = Values(ItemOf("a"), f) \cup Values(ItemOf("b"), f)
  BY <1>5 DEF Values
<1> QED
  BY <1>7, <1>8, <1>9

LEMMA RoundSettlesScalar ==
  ASSUME OfContacts, ContactsInv, SettleInv, Round, NEW f \in Plain, f \in Carried', quiet' >= 1
  PROVE  Halfway(f)' /\ (quiet' >= 2 => Agreed(f)')
<1>1. PICK unread, unsent, m, x, y : RoundOf(unread, unsent, m, x, y)
  BY RoundPicked
<1> DEFINE va == ItemOf("a")[f]
           vb == ItemOf("b")[f]
           wa == ItemOf("a")'[f]
           wb == ItemOf("b")'[f]
           p == PrevOf(snap, f)
           q == PrevOf(snap', f)
<1>2. PICK w \in {"a", "b"} : w = PickWinner(x.updated, y.updated)
  BY DEF PickWinner
<1>3. /\ m.fields[f] = MergeScalar(va, vb, p, snap = NoSnapshot, w)
      /\ native'["a"] \in Results("a", m, unsent["a"]) =>
           IF m.fields[f] # None THEN wa = m.fields[f] ELSE wa \in {None, va}
      /\ native'["b"] \in Results("b", m, unsent["b"]) =>
           IF m.fields[f] # None THEN wb = m.fields[f] ELSE wb \in {None, vb}
      /\ native'["a"] = native["a"] => wa = va
      /\ native'["b"] = native["b"] => wb = vb
  BY <1>1, <1>2, ScalarInRound DEF Sides
<1>4. /\ native'["a"] \in Results("a", m, unsent["a"]) \/ native'["a"] = native["a"]
      /\ native'["b"] \in Results("b", m, unsent["b"]) \/ native'["b"] = native["b"]
  BY <1>1 DEF RoundOf, Sides
<1>5. f \in Carried
  BY <1>1, CarriedInRound
<1>6. CASE Recorded(m.fields) /\ \A s \in Sides : native'[s] \in Results(s, m, unsent[s])
  <2>1. snap'.fields[f] = m.fields[f] /\ (quiet' >= 2 => quiet >= 1)
    BY <1>6 DEF Recorded, ContactsInv
  <2>2. /\ IF m.fields[f] # None THEN wa = m.fields[f] ELSE wa \in {None, va}
        /\ IF m.fields[f] # None THEN wb = m.fields[f] ELSE wb \in {None, vb}
    BY <1>3, <1>6 DEF Sides
  <2>3. m.fields[f] \in {va, vb}
    BY <1>3 DEF MergeScalar
  <2>4. \/ wa = m.fields[f] /\ wb = m.fields[f]
        \/ m.fields[f] = None /\ (wa = None \/ wb = None)
    BY <2>2, <2>3
  <2>5. Halfway(f)'
    BY <2>1, <2>4 DEF Halfway, Sides
  <2>6. ASSUME quiet' >= 2 PROVE Agreed(f)'
    <3>1. Halfway(f) /\ snap # NoSnapshot
      BY <1>5, <2>1, <2>6 DEF SettleInv
    <3>2. m.fields[f] = MergeScalar(va, vb, snap.fields[f], FALSE, w)
      BY <1>3, <3>1 DEF PrevOf
    <3>3. \/ va = snap.fields[f] /\ vb = snap.fields[f]
          \/ snap.fields[f] = None /\ (va = None \/ vb = None \/ va = vb)
      BY <3>1 DEF Halfway, Sides
    <3>4. /\ va = vb => m.fields[f] = va
          /\ va = snap.fields[f] => m.fields[f] = vb
          /\ vb = snap.fields[f] => m.fields[f] = va
      BY <3>2 DEF MergeScalar, IsConflict
    <3>5. m.fields[f] = None => va = None /\ vb = None
      BY <3>3, <3>4
    <3>6. wa = m.fields[f] /\ wb = m.fields[f]
      BY <2>2, <3>5
    <3> QED
      BY <2>1, <3>6 DEF Agreed, Sides
  <2> QED
    BY <2>5, <2>6
<1>7. CASE UNCHANGED <<snap, quiet>>
  <2>1. Halfway(f) /\ snap # NoSnapshot /\ (quiet >= 2 => Agreed(f))
    BY <1>5, <1>7 DEF SettleInv
  <2>2. m.fields[f] = MergeScalar(va, vb, snap.fields[f], FALSE, w)
    BY <1>3, <2>1 DEF PrevOf
  <2>3. /\ va = vb => m.fields[f] = va
        /\ va = snap.fields[f] => m.fields[f] = vb
        /\ vb = snap.fields[f] => m.fields[f] = va
    BY <2>2 DEF MergeScalar, IsConflict
  <2>4. \/ va = snap.fields[f] /\ vb = snap.fields[f]
        \/ snap.fields[f] = None /\ (va = None \/ vb = None \/ va = vb)
    BY <2>1 DEF Halfway, Sides
  <2>5. (wa = va \/ wa = m.fields[f]) /\ (wb = vb \/ wb = m.fields[f])
    BY <1>3, <1>4
  <2>6. CASE va = vb
    <3>1. wa = va /\ wb = vb
      BY <2>3, <2>5, <2>6
    <3> QED
      BY <1>7, <2>1, <3>1 DEF Halfway, Agreed, Sides
  <2>7. CASE va # vb
    <3>1. snap.fields[f] = None /\ (wa = None \/ wb = None \/ wa = wb)
      BY <2>3, <2>4, <2>5, <2>7
    <3>2. ~Agreed(f)
      BY <2>7 DEF Agreed, Sides
    <3> QED
      BY <1>7, <2>1, <3>1, <3>2 DEF Halfway, Sides
  <2> QED
    BY <2>6, <2>7
<1> QED
  BY <1>1, <1>6, <1>7 DEF RoundOf

LEMMA RoundAligns ==
  ASSUME OfContacts, ContactsInv, SettleInv, Round, NEW f \in WholeLists, quiet' >= 1
  PROVE  Alike(f)'
<1>1. PICK unread, unsent, m, x, y : RoundOf(unread, unsent, m, x, y)
  BY RoundPicked
<1>2. /\ Values(m.fields, f) = Values(ItemOf("a"), f) \cup Values(ItemOf("b"), f)
      /\ \A t \in Sides :
           /\ native'[t] \in Results(t, m, unsent[t]) => Values(ItemOf(t)', f) = Values(m.fields, f)
           /\ native'[t] = native[t] => Values(ItemOf(t)', f) = Values(ItemOf(t), f)
  BY <1>1, ListInRound
<1>3. CASE \A s \in Sides : native'[s] \in Results(s, m, unsent[s])
  BY <1>2, <1>3 DEF Alike, Sides
<1>4. CASE UNCHANGED quiet
  <2>1. Values(ItemOf("a"), f) = Values(ItemOf("b"), f)
    BY <1>4 DEF SettleInv, Alike
  <2> QED
    BY <1>1, <1>2, <2>1 DEF RoundOf, Alike, Sides
<1> QED
  BY <1>1, <1>3, <1>4 DEF RoundOf

LEMMA CreateSettles ==
  ASSUME OfContacts, SentinelsApart, ContactsInv, NEW s \in Sides, Create(s)
  PROVE  SettleInv'
<1> DEFINE o == Other(s)
<1>1. PICK unread \in Failures(o), unsent \in Failures(s) :
        /\ \E n \in Writes(Kind(s), Absent, Without(Without(ItemOf(o), unread), unsent)) :
             native' = [native EXCEPT ![s] = n]
        /\ Recorded(Without(ItemOf(o), unread))
        /\ Noted(unread \cup unsent)
  BY DEF Create
<1>2. PICK i, j : i = Without(ItemOf(o), unread) /\ j = Without(i, unsent)
  OBVIOUS
<1>3. PICK n \in Writes(Kind(s), Absent, j) : native' = [native EXCEPT ![s] = n]
  BY <1>1, <1>2
<1>4. ~Present(s) /\ scene' = scene /\ o \in Sides /\ o # s /\ \A t \in Sides : t = s \/ t = o
  BY DEF Create, Sides, Other
<1>5. Present(o) /\ Contact(native[o]) /\ Contact(ItemOf(o)) /\ Kind(o) \in Protocols /\ Kind(s) \in Protocols
  BY <1>4, ItemRead DEF ContactsInv, Present, ItemOf
<1>6. Contact(i) /\ Contact(j)
  <2>1. Contact(i)
    BY <1>2, <1>5, WithoutTells
  <2> QED
    BY <1>2, <2>1, WithoutTells
<1>7. PICK c : c = Blank(Kind(s)) /\ Contact(c) /\ \A f \in AllFields : Content(MCRead(Kind(s), c), f) = {}
  BY <1>5, BlankRead
<1>8. Contact(n) /\ Kept(Kind(s), c, j, n) /\ Sent(Kind(s), j, n) /\ Lists(Kind(s), j, n)
  <2>1. n \in MCWrites(Kind(s), Absent, j)
    BY ItemRead DEF ContactsInv
  <2> QED
    BY <1>5, <1>6, <1>7, <2>1, Written DEF Before
<1>9. native'[s] = n /\ native'[o] = native[o]
  BY <1>3, <1>4 DEF ContactsInv
<1>10. ItemOf(o)' = ItemOf(o) /\ ItemOf(s)' = MCRead(Kind(s), n)
  BY <1>4, <1>9, ItemRead DEF ItemOf, Kind, ContactsInv
<1>11. snap' = [fields |-> i]
  BY <1>1, <1>2 DEF Recorded
<1>12. snap' # NoSnapshot
  BY <1>11 DEF SentinelsApart
<1>13. ASSUME NEW f \in Plain, f \in Carried'
       PROVE  ItemOf(s)'[f] = snap'.fields[f] /\ ItemOf(o)'[f] = snap'.fields[f]
  <2>1. f \in Scalars /\ f \in AllFields /\ f # "full_name"
        /\ f \notin unread /\ f \notin unsent /\ f \notin LeftOut(Kind(s))
    <3>1. missed' = missed \cup unread \cup unsent
      BY <1>1 DEF Noted
    <3> QED
      BY <1>4, <1>13, <3>1 DEF Carried, Kind, OfContacts, Plain, Scalars
  <2>2. i[f] = ItemOf(o)[f]
    BY <1>2, <1>5, <2>1, WithoutTells
  <2>3. j[f] = i[f]
    BY <1>2, <1>6, <2>1, WithoutTells
  <2>4. c[f] = None
    <3>1. MCRead(Kind(s), c)[f] = c[f]
      BY <1>5, <1>7, <2>1, ReadFields
    <3> QED
      BY <1>7, <2>1, <3>1 DEF Content, Scalars
  <2>5. n[f] = j[f]
    BY <1>8, <2>1, <2>4 DEF Kept, Sent
  <2>6. MCRead(Kind(s), n)[f] = n[f]
    BY <1>5, <1>8, <2>1, ReadFields
  <2> QED
    BY <1>10, <1>11, <2>2, <2>3, <2>5, <2>6
<1>14. ASSUME NEW f \in WholeLists
       PROVE  Values(ItemOf(s)', f) = Values(ItemOf(o)', f)
  <2>1. f \in Sets /\ f \in AllFields /\ f \notin unread /\ f \notin unsent /\ f \in Whole(Kind(s))
    BY TheFields DEF Failures, OfContacts, SeparateCalls, Sets, WholeLists
  <2>2. i[f] = ItemOf(o)[f]
    BY <1>2, <1>5, <2>1, WithoutTells
  <2>3. j[f] = i[f]
    BY <1>2, <1>6, <2>1, WithoutTells
  <2>4. Content(j, f) = Content(ItemOf(o), f) /\ Elements(j[f]) = Content(ItemOf(o), f)
    BY <2>1, <2>2, <2>3 DEF Content
  <2>5. \A v \in Content(ItemOf(o), f) : \E w \in Content(MCRead(Kind(s), n), f) : w.value = v.value
    BY <1>8, <2>1, <2>4 DEF Lists
  <2>6. \A v \in Content(MCRead(Kind(s), n), f) : \E w \in Content(ItemOf(o), f) : w.value = v.value
    BY <1>7, <1>8, <2>1, <2>4 DEF Kept
  <2> QED
    BY <1>10, <2>5, <2>6 DEF Values
<1>15. WholeLists' = WholeLists
  BY <1>4 DEF WholeLists, Kind
<1>16. \A f \in Plain \cap Carried' : Agreed(f)' /\ Halfway(f)'
  BY <1>4, <1>13 DEF Agreed, Halfway
<1>17. \A f \in WholeLists' : Alike(f)'
  BY <1>4, <1>14, <1>15 DEF Alike, Sides
<1> QED
  BY <1>12, <1>16, <1>17 DEF SettleInv

LEMMA SettleInvHolds == OfContacts /\ SentinelsApart => (Spec => [](ContactsInv /\ SettleInv))
<1> SUFFICES ASSUME OfContacts, SentinelsApart PROVE Spec => [](ContactsInv /\ SettleInv)
  OBVIOUS
<1>1. Init => SettleInv
  BY DEF Init, SettleInv
<1>2. ASSUME ContactsInv, SettleInv, [Next]_vars
      PROVE  SettleInv'
  <2>1. CASE UNCHANGED vars
    <3>1. \A f : (Halfway(f)' <=> Halfway(f)) /\ (Agreed(f)' <=> Agreed(f)) /\ (Alike(f)' <=> Alike(f))
      BY <2>1 DEF vars, Halfway, Agreed, Alike, ItemOf, Kind
    <3>2. Carried' = Carried /\ WholeLists' = WholeLists
      BY <2>1 DEF vars, Carried, WholeLists, Kind
    <3> QED
      BY <1>2, <2>1, <3>1, <3>2 DEF vars, SettleInv
  <2>2. ASSUME NEW s \in Sides, Edit(s) PROVE SettleInv'
    BY <2>2 DEF Edit, SettleInv
  <2>3. ASSUME NEW s \in Sides, Create(s) PROVE SettleInv'
    BY <1>2, <2>3, CreateSettles
  <2>4. ASSUME Round, quiet' >= 1 PROVE SettleInv'
    <3>1. snap' # NoSnapshot
      <4>1. PICK unread, unsent, m, x, y : RoundOf(unread, unsent, m, x, y)
        BY <2>4, RoundPicked
      <4>2. Recorded(m.fields) \/ UNCHANGED <<snap, quiet>>
        BY <4>1 DEF RoundOf
      <4> QED
        BY <1>2, <2>4, <4>2 DEF Recorded, SentinelsApart, SettleInv
    <3>2. WholeLists' = WholeLists
      BY <2>4 DEF Round, WholeLists, Kind
    <3> QED
      BY <1>2, <2>4, <3>1, <3>2, RoundSettlesScalar, RoundAligns DEF SettleInv
  <2>5. CASE Round
    BY <2>4, <2>5 DEF SettleInv
  <2> QED
    BY <1>2, <2>1, <2>2, <2>3, <2>5 DEF Next
<1> QED
  BY <1>1, <1>2, ContactsInvHolds, PTL DEF Spec

\* Where both sides agree with the snapshot, or list the same, a round changes neither.
LEMMA SettledScalar ==
  ASSUME OfContacts, ContactsInv, SettleInv, Round, quiet >= 2,
         NEW f \in Plain, f \in Carried', NEW s \in Sides
  PROVE  ItemOf(s)'[f] = ItemOf(s)[f]
<1>1. PICK unread, unsent, m, x, y : RoundOf(unread, unsent, m, x, y)
  BY RoundPicked
<1>2. Agreed(f) /\ quiet >= 1
  BY <1>1, CarriedInRound DEF SettleInv, ContactsInv
<1>3. m.fields[f] = ItemOf(s)[f]
  BY <1>1, <1>2, ScalarInRound DEF Agreed, MergeScalar, Sides
<1>4. /\ native'[s] \in Results(s, m, unsent[s]) =>
           IF m.fields[f] # None THEN ItemOf(s)'[f] = m.fields[f]
                                 ELSE ItemOf(s)'[f] \in {None, ItemOf(s)[f]}
      /\ native'[s] = native[s] => ItemOf(s)'[f] = ItemOf(s)[f]
  BY <1>1, ScalarInRound
<1> QED
  BY <1>1, <1>3, <1>4 DEF RoundOf

LEMMA SettledList ==
  ASSUME OfContacts, ContactsInv, SettleInv, Round, quiet >= 2, NEW f \in WholeLists, NEW s \in Sides
  PROVE  Values(ItemOf(s)', f) = Values(ItemOf(s), f)
<1>1. PICK unread, unsent, m, x, y : RoundOf(unread, unsent, m, x, y)
  BY RoundPicked
<1>2. Alike(f)
  BY DEF SettleInv, ContactsInv
<1>3. Values(m.fields, f) = Values(ItemOf(s), f)
  <2>1. Values(m.fields, f) = Values(ItemOf("a"), f) \cup Values(ItemOf("b"), f)
    BY <1>1, ListInRound
  <2>2. Values(m.fields, f) = Values(ItemOf("a"), f) /\ Values(m.fields, f) = Values(ItemOf("b"), f)
    BY <1>2, <2>1 DEF Alike
  <2> QED
    BY <2>2 DEF Sides
<1>4. /\ native'[s] \in Results(s, m, unsent[s]) => Values(ItemOf(s)', f) = Values(m.fields, f)
      /\ native'[s] = native[s] => Values(ItemOf(s)', f) = Values(ItemOf(s), f)
  BY <1>1, ListInRound
<1> QED
  BY <1>1, <1>3, <1>4 DEF RoundOf

\* A step tells or stops telling a fact of a field only if the item changes in it.
LEMMA ChangeOfField ==
  ASSUME OfContacts, ContactsInv, Round, NEW s \in Sides,
         NEW x \in (Told(s) \ Told(s)') \cup (Told(s)' \ Told(s)), x[1] # "full_name"
  PROVE  \E f \in AllFields \ {"full_name", "given_name"} :
           /\ x[1] = f
           /\ \/ f \in Plain /\ ItemOf(s)'[f] # ItemOf(s)[f]
              \/ f \in Sets /\ Values(ItemOf(s)', f) # Values(ItemOf(s), f)
<1>1. Present(s) /\ Present(s)'
  BY RoundPresent DEF Round
<1>2. Told(s) = Facts(ItemOf(s)) /\ Told(s)' = Facts(ItemOf(s)')
  BY <1>1 DEF Told
<1>3. PICK i, j : i = ItemOf(s) /\ j = ItemOf(s)'
  OBVIOUS
<1>4. x \in (Facts(i) \ Facts(j)) \cup (Facts(j) \ Facts(i))
  BY <1>2, <1>3
<1>5. \E f \in AllFields : \/ \E v \in Content(i, f) : x = FactOf(f, v) /\ x # None
                           \/ \E v \in Content(j, f) : x = FactOf(f, v) /\ x # None
  BY <1>4, FactsOfItem
<1>6. PICK f \in AllFields : \/ \E v \in Content(i, f) : x = FactOf(f, v) /\ x # None
                             \/ \E v \in Content(j, f) : x = FactOf(f, v) /\ x # None
  BY <1>5
<1>7. f \notin {"full_name", "given_name"} /\ x[1] = f
  <2>1. CASE f \in {"full_name", "given_name"}
    <3>1. PICK v : x = FactOf(f, v) /\ x # None
      BY <1>6
    <3>2. x = <<"full_name", v>>
      BY <2>1, <3>1, FieldOfFact
    <3> QED
      BY <3>2
  <2> QED
    BY <1>6, <2>1, FieldOfFact
<1>8. CASE f \in Sets
  <2> SUFFICES ASSUME Values(j, f) = Values(i, f) PROVE FALSE
    BY <1>3, <1>7, <1>8
  <2>1. (\E v \in Content(i, f) : x = FactOf(f, v)) <=> (\E v \in Content(j, f) : x = FactOf(f, v))
    <3>1. \A v : FactOf(f, v) = <<f, v.value>>
      BY <1>8, FactsNamed
    <3>2. /\ \A v \in Content(i, f) : \E w \in Content(j, f) : w.value = v.value
          /\ \A v \in Content(j, f) : \E w \in Content(i, f) : w.value = v.value
      BY DEF Values
    <3>3. /\ \A v \in Content(i, f) : \E w \in Content(j, f) : FactOf(f, w) = FactOf(f, v)
          /\ \A v \in Content(j, f) : \E w \in Content(i, f) : FactOf(f, w) = FactOf(f, v)
      BY <3>1, <3>2
    <3> QED
      BY <3>3
  <2> QED
    BY <1>4, <1>6, <2>1, FactsOfItem
<1>9. CASE f \notin Sets
  <2>1. f \in Plain
    BY <1>7, <1>9 DEF Plain, Scalars
  <2> SUFFICES ASSUME j[f] = i[f] PROVE FALSE
    BY <1>3, <1>7, <2>1
  <2>2. Content(i, f) = Content(j, f)
    BY <1>9 DEF Content
  <2> QED
    BY <1>4, <1>6, <2>2, FactsOfItem
<1> QED
  BY <1>8, <1>9

\* A step that changes what a side tells, and is no edit, is a round then.
LEMMA SettledStep ==
  ASSUME ContactsInv, SettleInv, [Next]_vars, edits' = edits, quiet >= 2, NEW s \in Sides,
         NEW x \in (Told(s) \ Told(s)') \cup (Told(s)' \ Told(s))
  PROVE  Round
<1>1. \A t \in Sides : ~Create(t) /\ ~Edit(t)
  BY DEF ContactsInv, SettleInv, Create, Edit
<1>2. UNCHANGED vars => Told(s)' = Told(s)
  BY DEF vars, Told, Present, ItemOf, Kind
<1>3. ~UNCHANGED vars
  BY <1>2
<1> QED
  BY <1>1, <1>3 DEF Next

(***************************************************************************)
(* After two recorded rounds without an edit rounds change nothing that a   *)
(* contact tells, names and the lists apart that a side does not keep       *)
(* whole: no two conversions keep the sides rewriting each other.           *)
(***************************************************************************)
THEOREM ContactsSettle ==
  OfContacts /\ SentinelsApart =>
    (Spec => [][edits' = edits /\ quiet >= 2 =>
                  \A s \in Sides : \A x \in (Told(s) \ Told(s)') \cup (Told(s)' \ Told(s)) :
                    x[1] \notin Carried' \/ x[1] = "full_name" \/ x[1] \in Sets \ WholeLists]_vars)
<1> SUFFICES ASSUME OfContacts, SentinelsApart
             PROVE  Spec => [][edits' = edits /\ quiet >= 2 =>
                      \A s \in Sides : \A x \in (Told(s) \ Told(s)') \cup (Told(s)' \ Told(s)) :
                        x[1] \notin Carried' \/ x[1] = "full_name" \/ x[1] \in Sets \ WholeLists]_vars
  OBVIOUS
<1>1. ASSUME ContactsInv, SettleInv, SettleInv', [Next]_vars, edits' = edits, quiet >= 2, NEW s \in Sides,
             NEW x \in (Told(s) \ Told(s)') \cup (Told(s)' \ Told(s)), x[1] # "full_name",
             x[1] \in Carried', x[1] \notin Sets \ WholeLists
      PROVE  FALSE
  <2>1. Round
    BY <1>1, SettledStep
  <2>2. PICK f \in AllFields \ {"full_name", "given_name"} :
          /\ x[1] = f
          /\ \/ f \in Plain /\ ItemOf(s)'[f] # ItemOf(s)[f]
             \/ f \in Sets /\ Values(ItemOf(s)', f) # Values(ItemOf(s), f)
    BY <1>1, <2>1, ChangeOfField
  <2>3. CASE f \in Plain
    BY <1>1, <2>1, <2>2, <2>3, SettledScalar DEF Plain, Scalars
  <2>4. CASE f \in Sets
    BY <1>1, <2>1, <2>2, <2>4, SettledList DEF Plain, Scalars
  <2> QED
    BY <2>2, <2>3, <2>4
<1>2. ContactsInv /\ SettleInv /\ SettleInv' /\ [Next]_vars =>
        [edits' = edits /\ quiet >= 2 =>
           \A s \in Sides : \A x \in (Told(s) \ Told(s)') \cup (Told(s)' \ Told(s)) :
             x[1] \notin Carried' \/ x[1] = "full_name" \/ x[1] \in Sets \ WholeLists]_vars
  BY <1>1
<1> QED
  BY <1>2, SettleInvHolds, PTL DEF Spec

--------------------------------------------------------------------------------
(* Contacts that keep their name. *)

\* Users give both copies one full name and no parts, and edit other fields.
OneName(c, name) ==
  /\ name # None
  /\ \A s \in Sides : \A n \in Natives(c.kind[s], c.group) : n.full_name = name /\ n.given_name = None

\* So it is in every scenario.
NamesStand == \A c \in Scenarios : \E name : OneName(c, name)
\* A server of every scenario is not Graph; neither is.
OneNotGraph == \A c \in Scenarios : \E s \in Sides : c.kind[s] # "graph"
NoneGraph == \A c \in Scenarios : \A s \in Sides : c.kind[s] # "graph"

Names(name) ==
  /\ OneName(scene, name)
  /\ \A s \in Sides : Present(s) => native[s].full_name = name
  /\ \A x \in given : x[1] = "full_name" => x = <<"full_name", name>>
NamesInv == \E name : Names(name)

\* A user's contact tells no other name.
LEMMA NativeNames ==
  ASSUME OfContacts, scene \in Scenarios, NEW name, OneName(scene, name), NEW s \in Sides,
         NEW n \in Natives(Kind(s), scene.group), NEW x \in Facts(Read(Kind(s), n)), x[1] = "full_name"
  PROVE  x = <<"full_name", name>>
<1>1. Contact(n) /\ n.full_name = name /\ n.given_name = None
  BY DEF OfContacts, Kind, OneName
<1>2. x \in Facts(MCRead(Kind(s), n)) /\ Kind(s) \in Protocols
  BY ItemRead
<1>3. PICK f \in AllFields : \E v \in Content(MCRead(Kind(s), n), f) : x = FactOf(f, v) /\ x # None
  BY <1>2, FactsOfItem
<1>4. PICK v \in Content(MCRead(Kind(s), n), f) : x = FactOf(f, v) /\ x # None
  BY <1>3
<1>5. f \in {"full_name", "given_name"}
  BY <1>4, FieldOfFact, TheFields
<1>6. f \in Scalars /\ f \notin Sets
  BY <1>5, TheFields DEF Scalars, Sets
<1>7. v = n[f] /\ v # None
  BY <1>1, <1>2, <1>4, <1>6, ReadFields DEF Content
<1>8. v = name /\ v # Unknown
  BY <1>1, <1>4, <1>5, <1>7, FieldOfFact
<1> QED
  BY <1>4, <1>5, <1>8, FieldOfFact

LEMMA InitNames ==
  ASSUME OfContacts, NamesStand, Init
  PROVE  NamesInv
<1>1. PICK name : OneName(scene, name)
  BY DEF Init, NamesStand
<1>2. ContactsInv
  BY InitContacts
<1>3. \A s \in Sides : native[s] \in Held(s)
  <2>1. PICK x \in Held("a"), y \in Held("b") : native = [s \in Sides |-> IF s = "a" THEN x ELSE y]
    BY DEF Init
  <2> QED
    BY <2>1 DEF Sides
<1>4. \A s \in Sides : Present(s) => native[s] \in Natives(Kind(s), scene.group)
  BY <1>3 DEF Held, Present
<1>5. \A s \in Sides : Present(s) => native[s].full_name = name
  BY <1>1, <1>4 DEF OneName, Kind
<1>6. ASSUME NEW x \in given, x[1] = "full_name"
      PROVE  x = <<"full_name", name>>
  <2>1. PICK s \in Sides : x \in Told(s)
    BY <1>6 DEF Init
  <2>2. Present(s) /\ x \in Facts(Read(Kind(s), native[s]))
    BY <2>1 DEF Told, ItemOf
  <2> QED
    BY <1>1, <1>2, <1>4, <1>6, <2>2, NativeNames DEF ContactsInv
<1> QED
  BY <1>1, <1>5, <1>6 DEF NamesInv, Names

LEMMA EditNames ==
  ASSUME OfContacts, ContactsInv, NEW name, Names(name), NEW s \in Sides, Edit(s)
  PROVE  Names(name)'
<1>1. PICK n \in Natives(Kind(s), scene.group) :
        native' = [native EXCEPT ![s] = n] /\ given' = given \cup Facts(Read(Kind(s), n))
  BY DEF Edit
<1>2. Present(s) /\ scene' = scene
  BY DEF Edit
<1>3. native'[s] = n /\ \A t \in Sides : t # s => native'[t] = native[t]
  BY <1>1 DEF ContactsInv
<1>4. \A t \in Sides : Present(t)' => native'[t].full_name = name
  BY <1>3 DEF Names, OneName, Kind, Present
<1>5. \A x \in given' : x[1] = "full_name" => x = <<"full_name", name>>
  <2>1. \A x \in Facts(Read(Kind(s), n)) : x[1] = "full_name" => x = <<"full_name", name>>
    BY NativeNames DEF ContactsInv, Names
  <2> QED
    BY <1>1, <2>1 DEF Names
<1>6. OneName(scene, name)'
  BY <1>2 DEF Names, OneName
<1> QED
  BY <1>4, <1>5, <1>6 DEF Names

LEMMA CreateNames ==
  ASSUME OfContacts, ContactsInv, NEW name, Names(name), NEW s \in Sides, Create(s)
  PROVE  Names(name)'
<1> DEFINE o == Other(s)
<1>1. PICK unread \in Failures(o), unsent \in Failures(s) :
        \E n \in Writes(Kind(s), Absent, Without(Without(ItemOf(o), unread), unsent)) :
          native' = [native EXCEPT ![s] = n]
  BY DEF Create
<1>2. PICK i, j : i = Without(ItemOf(o), unread) /\ j = Without(i, unsent)
  OBVIOUS
<1>3. PICK n \in Writes(Kind(s), Absent, j) : native' = [native EXCEPT ![s] = n]
  BY <1>1, <1>2
<1>4. ~Present(s) /\ UNCHANGED <<scene, given>> /\ o \in Sides /\ o # s /\ \A t \in Sides : t = s \/ t = o
  BY DEF Create, Sides, Other
<1>5. Present(o) /\ Contact(native[o]) /\ Contact(ItemOf(o)) /\ Kind(o) \in Protocols
  BY <1>4, ItemRead DEF ContactsInv, Present, ItemOf
<1>6. /\ "full_name" \in Scalars /\ "full_name" \in AllFields
      /\ "full_name" \notin unread /\ "full_name" \notin unsent /\ "full_name" \notin LeftOut(Kind(s))
  <2>1. unread \subseteq Separate(Kind(o)) /\ unsent \subseteq Separate(Kind(s))
    BY DEF Failures
  <2> QED
    BY <2>1, TheFields DEF OfContacts, SeparateCalls, LeftOut, Scalars, Sets
<1>7. Contact(i) /\ i.full_name = name
  <2>1. ItemOf(o).full_name = name
    BY <1>4, <1>5, <1>6, ItemRead, ReadFields DEF Names, ItemOf, ContactsInv
  <2>2. Contact(i) /\ i["full_name"] = ItemOf(o)["full_name"]
    BY <1>2, <1>5, <1>6, WithoutTells
  <2> QED
    BY <2>1, <2>2
<1>8. Contact(j) /\ j.full_name = name
  <2>1. Contact(j) /\ j["full_name"] = i["full_name"]
    BY <1>2, <1>6, <1>7, WithoutTells
  <2> QED
    BY <1>7, <2>1
<1>9. n.full_name = name
  <2>1. n \in MCWrites(Kind(s), Absent, j) /\ Kind(s) \in Protocols
    BY ItemRead DEF ContactsInv
  <2>2. Sent(Kind(s), j, n)
    BY <1>8, <2>1, Written
  <2> QED
    BY <1>6, <1>8, <2>2 DEF Sent, Names, OneName
<1>10. native'[s] = n /\ native'[o] = native[o]
  BY <1>3, <1>4 DEF ContactsInv
<1>11. \A t \in Sides : native'[t].full_name = name
  BY <1>4, <1>5, <1>9, <1>10 DEF Names
<1>12. OneName(scene, name)' /\ \A x \in given' : x[1] = "full_name" => x = <<"full_name", name>>
  BY <1>4 DEF Names, OneName
<1> QED
  BY <1>11, <1>12 DEF Names

LEMMA RoundNames ==
  ASSUME OfContacts, ContactsInv, NEW name, Names(name), Round
  PROVE  Names(name)'
<1>1. UNCHANGED <<scene, given>>
  BY DEF Round
<1>2. PICK unread, unsent, m, x, y : RoundOf(unread, unsent, m, x, y)
  BY RoundPicked
<1>3. /\ m.fields = [g \in AllFields |-> MergeField(g, x, y, snap)]
      /\ \A s \in Sides : Present(s) /\ Contact(native[s])
  BY <1>2, RoundMerges
<1>4. /\ "full_name" \in Scalars /\ "full_name" \in AllFields /\ Strategy["full_name"] = "scalar"
      /\ \A s \in Sides : "full_name" \notin unread[s] /\ "full_name" \notin unsent[s]
                          /\ "full_name" \notin LeftOut(Kind(s))
  BY <1>2, TheFields DEF RoundOf, OfContacts, SeparateCalls, LeftOut, Scalars, Sets
<1>5. x.fields["full_name"] = name /\ y.fields["full_name"] = name
  <2>1. x.fields["full_name"] = ItemOf("a")["full_name"] /\ y.fields["full_name"] = ItemOf("b")["full_name"]
    BY <1>2, <1>4, ReadInRound
  <2>2. ASSUME NEW s \in Sides PROVE ItemOf(s)["full_name"] = name
    <3>1. native[s].full_name = name
      BY <1>3 DEF Names
    <3>2. ItemOf(s) = MCRead(Kind(s), native[s]) /\ Kind(s) \in Protocols
      BY ItemRead DEF ItemOf, ContactsInv
    <3> QED
      BY <1>3, <1>4, <3>1, <3>2, ReadFields
  <2> QED
    BY <2>1, <2>2 DEF Sides
<1>6. m.fields["full_name"] = name
  BY <1>3, <1>4, <1>5 DEF MergeField, MergeScalar
<1>7. ASSUME NEW t \in Sides
      PROVE  native'[t].full_name = name
  <2>1. CASE native'[t] = native[t]
    BY <1>3, <2>1 DEF Names
  <2>2. CASE native'[t] \in Results(t, m, unsent[t])
    <3>1. Contact(native'[t]) /\ MCRead(Kind(t), native'[t])["full_name"] = name
      BY <1>2, <1>4, <1>6, <2>2, ScalarLands DEF Names, OneName
    <3> QED
      BY <1>4, <3>1, ReadFields, ItemRead DEF ContactsInv
  <2> QED
    BY <1>2, <2>1, <2>2 DEF RoundOf
<1>8. OneName(scene, name)' /\ \A z \in given' : z[1] = "full_name" => z = <<"full_name", name>>
  BY <1>1 DEF Names, OneName
<1> QED
  BY <1>7, <1>8 DEF Names

LEMMA NamesNext ==
  ASSUME OfContacts, ContactsInv, NEW name, Names(name), [Next]_vars
  PROVE  Names(name)'
<1>1. CASE UNCHANGED vars
  BY <1>1 DEF vars, Names, OneName, Present
<1> QED
  BY <1>1, RoundNames, EditNames, CreateNames DEF Next

LEMMA NamesInvHolds == OfContacts /\ NamesStand => (Spec => [](ContactsInv /\ NamesInv))
<1> SUFFICES ASSUME OfContacts, NamesStand PROVE Spec => [](ContactsInv /\ NamesInv)
  OBVIOUS
<1>1. Init => NamesInv
  BY InitNames
<1>2. ContactsInv /\ NamesInv /\ [Next]_vars => NamesInv'
  BY NamesNext DEF NamesInv
<1> QED
  BY <1>1, <1>2, ContactsInvHolds, PTL DEF Spec

\* The name, if a contact that has it tells it, is told of every contact that has it.
LEMMA NameRead ==
  ASSUME OfContacts, NEW p \in Protocols, NEW r, Contact(r), NEW name, r.full_name = name, name # None,
         NEW i, NEW x \in Facts(i), x = <<"full_name", name>>
  PROVE  x \in Facts(MCRead(p, r))
<1>1. PICK f \in AllFields : \E v \in Content(i, f) : x = FactOf(f, v) /\ x # None
  BY FactsOfItem
<1>2. PICK v \in Content(i, f) : x = FactOf(f, v) /\ x # None
  BY <1>1
<1>3. f \in {"full_name", "given_name"}
  BY <1>2, FieldOfFact
<1>4. v # Unknown /\ x = <<"full_name", v>>
  BY <1>2, <1>3, FieldOfFact
<1>5. name # Unknown
  BY <1>4
<1>6. "full_name" \in Scalars /\ "full_name" \notin Sets /\ "full_name" \in AllFields
  BY TheFields DEF Scalars, Sets
<1>7. name \in Content(MCRead(p, r), "full_name")
  BY <1>6, ReadFields DEF Content
<1>8. x = FactOf("full_name", name) /\ x # None
  BY <1>2, <1>5, FieldOfFact
<1> QED
  BY <1>6, <1>7, <1>8, FactsOfItem

\* A round neither gives nor takes a name.
LEMMA NameStays ==
  ASSUME OfContacts, ContactsInv, NEW name, Names(name), Round,
         NEW s \in Sides, NEW x, x[1] = "full_name"
  PROVE  x \in Told(s) <=> x \in Told(s)'
<1>1. Names(name)' /\ ContactsInv' /\ Present(s) /\ Present(s)' /\ name # None
  BY RoundNames, RoundContacts, RoundPresent DEF Round, Names, OneName
<1>2. /\ Contact(native[s]) /\ native[s].full_name = name
      /\ Contact(native'[s]) /\ native'[s].full_name = name
  BY <1>1 DEF ContactsInv, Names, Present
<1>3. PICK p, r, q : p = Kind(s) /\ r = native[s] /\ q = native'[s]
  OBVIOUS
<1>4. p \in Protocols /\ Told(s) = Facts(MCRead(p, r)) /\ Told(s)' = Facts(MCRead(p, q))
  BY <1>1, <1>3, ItemRead DEF Told, ItemOf, Kind, Round, ContactsInv
<1>5. x \in Facts(MCRead(p, r)) => x \in Facts(MCRead(p, q))
  <2> SUFFICES ASSUME x \in Facts(MCRead(p, r)) PROVE x \in Facts(MCRead(p, q))
    OBVIOUS
  <2>1. x = <<"full_name", name>>
    BY <1>4 DEF ContactsInv, Names
  <2> QED
    BY <1>1, <1>2, <1>3, <1>4, <2>1, NameRead
<1>6. x \in Facts(MCRead(p, q)) => x \in Facts(MCRead(p, r))
  <2> SUFFICES ASSUME x \in Facts(MCRead(p, q)) PROVE x \in Facts(MCRead(p, r))
    OBVIOUS
  <2>1. x = <<"full_name", name>>
    BY <1>1, <1>4 DEF ContactsInv, Names
  <2> QED
    BY <1>1, <1>2, <1>3, <1>4, <2>1, NameRead
<1> QED
  BY <1>4, <1>5, <1>6

LEMMA NameNotLost ==
  ASSUME OfContacts, ContactsInv, NamesInv, [Next]_vars, snap # NoSnapshot, edits' = edits,
         NEW x \in Lost
  PROVE  x[1] # "full_name"
<1>1. PICK name : Names(name)
  BY DEF NamesInv
<1>2. Round /\ (\A s \in Sides : x \notin Told(s)') /\ \E s \in Sides : x \in Told(s)
  BY LostInRound
<1> QED
  BY <1>1, <1>2, NameStays

(***************************************************************************)
(* If names stand, nothing in a contact vanishes between two servers that   *)
(* are not both Graph.                                                      *)
(***************************************************************************)
THEOREM NamedContactsKeep ==
  OfContacts /\ SentinelsApart /\ NamesStand /\ OneNotGraph => (Spec => NothingVanishes)
<1> SUFFICES ASSUME OfContacts, SentinelsApart, NamesStand, OneNotGraph PROVE Spec => NothingVanishes
  OBVIOUS
<1>1. ContactsInv => \A x : Placed(x)
  BY DEF ContactsInv, OneNotGraph, Kind, Placed, Whole
<1>2. ContactsInv /\ NamesInv /\ [Next]_vars
      /\ [snap # NoSnapshot /\ edits' = edits =>
            \A x \in Lost : x[1] # "full_name" /\ Placed(x) => GaveWay(x)]_vars
      => [snap # NoSnapshot /\ edits' = edits => \A x \in Lost : GaveWay(x)]_vars
  BY <1>1, NameNotLost
<1>3. Spec => [](ContactsInv /\ NamesInv)
  BY NamesInvHolds
<1> QED
  BY <1>2, <1>3, ContactsKeep, PTL DEF Spec, NothingVanishes

(***************************************************************************)
(* If names stand and neither server is Graph, rounds of contacts settle.   *)
(***************************************************************************)
THEOREM NamedContactsSettle ==
  OfContacts /\ SentinelsApart /\ NamesStand /\ NoneGraph => (Spec => RoundsSettle)
<1> SUFFICES ASSUME OfContacts, SentinelsApart, NamesStand, NoneGraph PROVE Spec => RoundsSettle
  OBVIOUS
<1>1. ContactsInv => WholeLists = Sets
  BY DEF ContactsInv, NoneGraph, Kind, WholeLists, Whole
<1>2. ASSUME ContactsInv, SettleInv, NamesInv, [Next]_vars, edits' = edits, quiet >= 2, NEW s \in Sides,
             NEW x \in (Told(s) \ Told(s)') \cup (Told(s)' \ Told(s)), x[1] \in Carried',
             x[1] \notin Carried' \/ x[1] = "full_name" \/ x[1] \in Sets \ WholeLists
      PROVE  FALSE
  <2>1. x[1] = "full_name"
    BY <1>1, <1>2
  <2>2. PICK name : Names(name)
    BY <1>2 DEF NamesInv
  <2>3. Round
    BY <1>2, SettledStep
  <2> QED
    BY <1>2, <2>1, <2>2, <2>3, NameStays
<1>3. ContactsInv /\ SettleInv /\ NamesInv /\ [Next]_vars
      /\ [edits' = edits /\ quiet >= 2 =>
            \A s \in Sides : \A x \in (Told(s) \ Told(s)') \cup (Told(s)' \ Told(s)) :
              x[1] \notin Carried' \/ x[1] = "full_name" \/ x[1] \in Sets \ WholeLists]_vars
      => [edits' = edits /\ quiet >= 2 =>
            \A s \in Sides :
              LET before == Told(s)  after == Told(s)'
              IN \A x \in (before \ after) \cup (after \ before) : x[1] \notin Carried']_vars
  BY <1>2
<1>4. Spec => [](ContactsInv /\ NamesInv)
  BY NamesInvHolds
<1>5. Spec => [](ContactsInv /\ SettleInv)
  BY SettleInvHolds
<1> QED
  BY <1>3, <1>4, <1>5, ContactsSettle, PTL DEF Spec, RoundsSettle
===============================================================================
