---------------------------- MODULE ContactCodecs ----------------------------
(***************************************************************************)
(* What the contact adapters make of a contact: from the record a server   *)
(* holds to the fields of a SyncItem, and from merged fields to the record  *)
(* the server holds after the write.  Fields that all adapters treat alike  *)
(* have one representative: given_name stands for the parts of a name,      *)
(* notes for nickname and job title.  A list is the set of its elements;    *)
(* where its order decides, any order is possible.  Two fields are left     *)
(* out: birthday, which Graph and CardDAV cut to its date on reading, and   *)
(* photo_type, which is read and written with the photo but merged on its   *)
(* own.                                                                     *)
(***************************************************************************)
EXTENDS FieldMerge, TLC

CONSTANT Unknown   \* the name a vCard gets when the item has none

ASSUME UnknownAssumption == Unknown # None

ContactStrategy ==
  [f \in {"full_name", "given_name", "organization", "department", "website",
          "notes", "photo", "emails", "phones", "addresses"} |->
     IF f \in {"emails", "phones", "addresses"} THEN "set" ELSE "scalar"]

Labels == {"work", "home", "mobile", "other"}

\* The fields of a contact; the elements of its lists are labelled values.
ContactItem(i) ==
  /\ DOMAIN i = DOMAIN ContactStrategy
  /\ \A f \in {"emails", "phones", "addresses"} : \A e \in Elements(i[f]) :
       DOMAIN e = {"label", "value"} /\ e.label \in Labels /\ e.value # None

\* A field without elements is not set in the item.
Listed(elements) == IF elements = {} THEN None ELSE elements
\* Faulty variant: a patch only fills in what is missing.
PatchedBlank(old, new) == IF old = None THEN new ELSE old
\* A patch says nothing about a field that is None: the server keeps what it has.
Patched(old, new) == IF new = None THEN old ELSE new
PatchedList(old, new) == IF new = {} THEN old ELSE new

BlankCard == [f \in DOMAIN ContactStrategy |->
                IF ContactStrategy[f] = "set" THEN {} ELSE None]

-----------------------------------------------------------------------------
(* JSContact: emails [contexts, address], phones [contexts, features, number], *)
(* addresses [contexts, components].                                          *)

Contexts == {"work", "private", "billing", "delivery"}

JmapCard(card) ==
  /\ \A e \in card.emails : DOMAIN e = {"contexts", "address"} /\ e.address # None
  /\ \A p \in card.phones : DOMAIN p = {"contexts", "features", "number"} /\ p.number # None
  /\ \A a \in card.addresses : DOMAIN a = {"contexts", "components"} /\ a.components # None
  /\ \A e \in card.emails \cup card.phones \cup card.addresses : e.contexts \subseteq Contexts

JmapLabel(contexts) ==
  IF "work" \in contexts THEN "work"
  ELSE IF "private" \in contexts THEN "home" ELSE "other"

JmapPhoneLabel(p) ==
  IF "cell" \in p.features THEN "mobile" ELSE JmapLabel(p.contexts)

JmapCardRead(card) ==
  [card EXCEPT
     !.emails = Listed({[label |-> JmapLabel(e.contexts), value |-> e.address] : e \in @}),
     !.phones = Listed({[label |-> JmapPhoneLabel(p), value |-> p.number] : p \in @}),
     !.addresses = Listed({[label |-> JmapLabel(a.contexts), value |-> a.components] : a \in @})]

JmapContexts(label) ==
  CASE label = "work" -> {"work"} [] label = "home" -> {"private"} [] OTHER -> {}

JmapFeatures(label) ==
  CASE label = "mobile" -> {"cell"} [] label \in {"work", "home"} -> {"voice"} [] OTHER -> {}

JmapEmails(es) == {[contexts |-> JmapContexts(e.label), address |-> e.value] : e \in es}
JmapPhones(ps) == {[contexts |-> JmapContexts(p.label), features |-> JmapFeatures(p.label),
                    number |-> p.value] : p \in ps}
JmapAddresses(as) == {[contexts |-> JmapContexts(a.label), components |-> a.value] : a \in as}

\* The parts of a record together, from the item when it has any of them.
Together(card, i, parts) ==
  LET source == IF \E f \in parts : i[f] # None THEN i ELSE card
  IN  [f \in parts |-> source[f]]

\* Faulty variant: the unit is the one of the old organization.
JmapWorkHalf(card, i) ==
  [department |-> card.department] @@ Together(card, i, {"organization", "department"})
\* Faulty variant: name and unit of the organization change places.
JmapWorkSwapped(card, i) ==
  [organization |-> Patched(card.department, i.department),
   department |-> Patched(card.organization, i.organization)]
JmapWork(card, i) == Together(card, i, {"organization", "department"})

\* ContactCard/set with an update: the name and the organization are replaced as
\* a whole when any part is there; `online`, the website, is never written.
JmapCardWrite(card, i) ==
  LET name == Together(card, i, {"full_name", "given_name"})
      work == JmapWork(card, i)
      whole == [f \in DOMAIN card |-> IF f \in DOMAIN name THEN name[f]
                                      ELSE IF f \in DOMAIN work THEN work[f] ELSE card[f]]
  IN [whole EXCEPT
        !.notes = Patched(@, i.notes),
        !.photo = Patched(@, i.photo),
        !.emails = PatchedList(@, JmapEmails(Elements(i.emails))),
        !.phones = PatchedList(@, JmapPhones(Elements(i.phones))),
        !.addresses = PatchedList(@, JmapAddresses(Elements(i.addresses)))]

-----------------------------------------------------------------------------
(* Graph: emails are addresses without a label, phones three lists, addresses *)
(* three slots.  The photo is read and written in calls of its own.           *)

AddressSlots == {"home", "work", "other"}

GraphContact(c) ==
  /\ DOMAIN c.phones = {"mobile", "business", "home"} /\ DOMAIN c.addresses = AddressSlots
  /\ None \notin c.emails \cup c.phones.business \cup c.phones.home

BlankGraphContact ==
  [BlankCard EXCEPT !.phones = [mobile |-> None, business |-> {}, home |-> {}],
                    !.addresses = [l \in AddressSlots |-> None]]

GraphPhonesRead(p) ==
  {[label |-> "mobile", value |-> n] : n \in {p.mobile} \ {None}}
    \cup {[label |-> "work", value |-> n] : n \in p.business}
    \cup {[label |-> "home", value |-> n] : n \in p.home}

GraphContactRead(c) ==
  [c EXCEPT
     !.emails = Listed({[label |-> "other", value |-> e] : e \in @}),
     !.phones = Listed(GraphPhonesRead(@)),
     !.addresses = Listed({[label |-> l, value |-> c.addresses[l]] :
                             l \in {x \in AddressSlots : c.addresses[x] # None}})]

Numbers(ps, labels) == {p.value : p \in {x \in ps : x.label \in labels}}

\* The first mobile number is the mobile phone, other numbers go to business.
GraphPhones(ps) ==
  LET mobiles == Numbers(ps, {"mobile"}) IN
  {[mobile |-> m, home |-> Numbers(ps, {"home"}),
    business |-> Numbers(ps, {"work", "other"}) \cup (mobiles \ {m})]
     : m \in IF mobiles = {} THEN {None} ELSE mobiles}

\* The last address of a label has its slot; a slot without one is left alone.
GraphAddresses(old, as) ==
  {slots \in [AddressSlots -> {a.value : a \in as} \cup {old[l] : l \in AddressSlots}] :
     \A l \in AddressSlots :
       LET here == {a.value : a \in {x \in as : x.label = l}}
       IN  slots[l] \in IF here = {} THEN {old[l]} ELSE here}

\* PATCH: scalars as in JMAP, lists always as a whole.
GraphContactPatch(c, i, phones, addresses) ==
  [[f \in DOMAIN c |-> IF ContactStrategy[f] = "scalar" THEN Patched(c[f], i[f]) ELSE c[f]]
     EXCEPT !.emails = {e.value : e \in Elements(i.emails)},
            !.phones = phones,
            !.addresses = addresses]
GraphContactWrites(c, i) ==
  {GraphContactPatch(c, i, p, a) : p \in GraphPhones(Elements(i.phones)),
                                   a \in GraphAddresses(c.addresses, Elements(i.addresses))}

-----------------------------------------------------------------------------
(* vCard: list elements are [types, value].                                  *)

\* FN is mandatory.
Vcard(card) ==
  /\ card.full_name # None
  /\ \A f \in {"emails", "phones", "addresses"} : \A e \in card[f] :
       DOMAIN e = {"types", "value"} /\ e.value # None

VcardLabel(types) ==
  IF "work" \in types THEN "work" ELSE IF "home" \in types THEN "home"
  ELSE IF "cell" \in types THEN "mobile" ELSE "other"

VcardListRead(ps) == {[label |-> VcardLabel(p.types), value |-> p.value] : p \in ps}

VcardRead(card) ==
  [f \in DOMAIN card |-> IF ContactStrategy[f] = "set" THEN Listed(VcardListRead(card[f]))
                         ELSE card[f]]

\* Faulty variant: FN is what the item has for it.
VcardNameAsIs(i) == i.full_name
\* FN is made up from the parts of the name when missing.
VcardName(i) ==
  IF i.full_name # None THEN i.full_name
  ELSE IF i.given_name # None THEN i.given_name ELSE Unknown

\* PUT replaces the card; a type is the label, CELL for a mobile phone.
VcardWrite(i) ==
  LET Typed(es, Type(_)) == {[types |-> {Type(e.label)}, value |-> e.value] : e \in Elements(es)}
      Same(l) == l
      Phone(l) == IF l = "mobile" THEN "cell" ELSE l
  IN [i EXCEPT !.full_name = VcardName(i),
               !.emails = Typed(@, Same),
               !.phones = Typed(@, Phone),
               !.addresses = Typed(@, Same)]

-----------------------------------------------------------------------------
\* A record that the server of protocol p can hold.
WellFormed(p, r) ==
  /\ DOMAIN r = DOMAIN ContactStrategy
  /\ CASE p = "jmap" -> JmapCard(r) [] p = "graph" -> GraphContact(r) [] p = "dav" -> Vcard(r)
=============================================================================
