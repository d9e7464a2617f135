----------------------------- MODULE ItemWrites -----------------------------
(***************************************************************************)
(* How the adapters write one item, call by call: the item of a pair on    *)
(* the side the adapter serves, with its users; the other side, which is   *)
(* written in one step, after the adapter's; and what the engine has       *)
(* recorded.                                                               *)
(*                                                                         *)
(* Versions stand for the fingerprints servers assign (ETag, `updated`,    *)
(* lastModifiedDateTime), each change of the item getting a new one; 0     *)
(* stands for "", the fingerprint of an answer that carried none.          *)
(***************************************************************************)
EXTENDS FieldMerge

CONSTANTS Texts, Gone,
          Backends,    \* those to study: "jmap", "graph", "graph_photo", "dav"
          MaxEdits,    \* changes users make on the two sides
          MaxFaults    \* calls that fail, answers that are lost, crashes

ASSUME ItemWritesAssumption ==
  /\ Gone \notin Texts /\ None \notin Texts \cup {Gone}
  /\ Backends \subseteq {"jmap", "graph", "graph_photo", "dav"}
  /\ MaxEdits \in Nat /\ MaxFaults \in Nat

VARIABLES backend, server, other, memo, job, edits, faults, silent

vars == <<backend, server, other, memo, job, edits, faults, silent>>

NoMemo == [text |-> None, fp |-> 0]
NoJob == [pc |-> "idle", kind |-> "none", text |-> Gone, fp |-> 0, wrote |-> 0, drift |-> FALSE]

Init ==
  /\ backend \in Backends
  /\ server \in [text : Texts \cup {Gone}, ver : {1}]
  /\ other \in Texts \cup {Gone}
  /\ memo = NoMemo
  /\ job = NoJob
  /\ edits = 0 /\ faults = 0
  /\ silent = FALSE      \* the fingerprint recorded last is not of what was written

Mapped == memo.text # None
Here == server.text # Gone
There == other # Gone
\* Faulty variant: a fingerprint is only looked at to see whether the item is there.
ReportedMissing == ~Mapped \/ ~Here
\* The tree comparison notices the item: gone, or another fingerprint.
Reported == ~Mapped \/ ~Here \/ server.ver # memo.fp

-----------------------------------------------------------------------------
(* Users. *)

UserMayAct == edits < MaxEdits /\ edits' = edits + 1

\* A DAV user may also store an item under the name a create is about to use.
UserChange ==
  /\ \E t \in Texts \cup {Gone} :
       /\ t # server.text
       /\ Here \/ backend = "dav"
       /\ server' = [text |-> t, ver |-> server.ver + 1]
  /\ silent' = FALSE
  /\ UserMayAct
  /\ UNCHANGED <<backend, other, memo, job, faults>>

OtherUserChange ==
  /\ \E t \in Texts \cup {Gone} : t # other /\ other' = t
  /\ UserMayAct
  /\ UNCHANGED <<backend, server, memo, job, faults, silent>>

-----------------------------------------------------------------------------
(* The engine begins. *)

Begin(kind, t) ==
  /\ job.pc = "idle"
  /\ job' = [pc |-> "write", kind |-> kind, text |-> t, fp |-> 0, wrote |-> 0, drift |-> FALSE]
  /\ UNCHANGED <<backend, server, other, memo, edits, faults, silent>>

\* _merge_one, or the merge of a pair matched on its first run: both items are
\* read; a side that holds the merged text already is not written: for the other
\* side `drift` remembers it.
BeginMerge ==
  /\ job.pc = "idle" /\ Here /\ There
  /\ Reported \/ other # memo.text
  /\ \E winner \in Sides :
       LET t == MergeScalar(server.text, other, memo.text, ~Mapped, winner) IN
       job' = [pc |-> IF t = server.text THEN "record" ELSE "write",
               kind |-> "update", text |-> t,
               fp |-> server.ver, wrote |-> server.ver, drift |-> t # other]
  /\ UNCHANGED <<backend, server, other, memo, edits, faults, silent>>

BeginCreate == ~Mapped /\ ~Here /\ There /\ Begin("create", other)
BeginDelete == Mapped /\ Here /\ ~There /\ Begin("delete", Gone)

\* The same two operations on the other side, and a mapping of which both items
\* are gone.
CreateOther ==
  /\ job.pc = "idle" /\ ~Mapped /\ Here /\ ~There
  /\ other' = server.text
  /\ memo' = [text |-> server.text, fp |-> server.ver]
  /\ silent' = FALSE
  /\ UNCHANGED <<backend, server, job, edits, faults>>

DeleteOther ==
  /\ job.pc = "idle" /\ Mapped /\ ~Here /\ There
  /\ other' = Gone
  /\ UNCHANGED <<backend, server, memo, job, edits, faults, silent>>

ForgetPair ==
  /\ job.pc = "idle" /\ Mapped /\ ~Here /\ ~There
  /\ memo' = NoMemo
  /\ silent' = FALSE
  /\ UNCHANGED <<backend, server, other, job, edits, faults>>

-----------------------------------------------------------------------------
(* The adapter's calls. *)

Writing(bs, kinds) == job.pc = "write" /\ backend \in bs /\ job.kind \in kinds
Applied == server' = [text |-> job.text, ver |-> server.ver + 1]
Goes(pc, fp, wrote) ==
  job' = [job EXCEPT !.pc = pc, !.fp = fp, !.wrote = wrote]
Unrecorded == UNCHANGED <<backend, other, memo, edits, faults, silent>>

\* What the other side holds when its turn is over.  An item that is gone there is
\* stored again by a DAV server and stays gone on the others.
OtherGets ==
  IF ~job.drift THEN {other}
  ELSE {job.text} \cup IF There THEN {} ELSE {Gone}

\* ContactCard/set and CalendarEvent/set with a create: the answer has `updated`.
JmapCreate ==
  /\ Writing({"jmap"}, {"create"})
  /\ Applied
  /\ Goes("record", server'.ver, server'.ver)
  /\ Unrecorded

\* The same with an update.  One the server refuses, as it does for an item that
\* is gone, is only logged: either way the fingerprint is asked for next.
JmapUpdate ==
  /\ Writing({"jmap"}, {"update"})
  /\ Here
  /\ Applied
  /\ Goes("readback", 0, server'.ver)
  /\ Unrecorded

JmapUpdateRefused ==
  /\ Writing({"jmap"}, {"update"})
  /\ Here => faults < MaxFaults
  /\ faults' = IF Here THEN faults + 1 ELSE faults
  /\ Goes("readback", 0, 0)
  /\ UNCHANGED <<backend, server, other, memo, edits, silent>>

\* _get_item_fingerprint: a call of its own, after the write.
JmapReadBack ==
  /\ job.pc = "readback"
  /\ Goes("record", IF Here THEN server.ver ELSE 0, job.wrote)
  /\ UNCHANGED server
  /\ Unrecorded

\* POST and PATCH: the answer has lastModifiedDateTime; an item that is gone
\* answers 404, which raises.  A contact's photo follows in a call of its own.
GraphWrite ==
  /\ Writing({"graph", "graph_photo"}, {"create", "update"})
  /\ job.kind = "update" => Here
  /\ Applied
  /\ Goes(IF backend = "graph_photo" THEN "photo" ELSE "record",
          server'.ver, server'.ver)
  /\ Unrecorded

\* PUT photo/$value: its failure is swallowed, its success may touch the item.
GraphPhoto ==
  /\ job.pc = "photo"
  /\ Goes("record", job.fp, job.wrote)
  /\ server' = server \/ (Here /\ server' = [server EXCEPT !.ver = @ + 1])
  /\ Unrecorded

\* PUT with If-None-Match: 412 raises when something has the name already.  PUT
\* of an update has no If-Match, a merged item carrying no fingerprint, and
\* stores an item that is gone again.  The answer may come without ETag.
DavWrite ==
  /\ Writing({"dav"}, {"create", "update"})
  /\ job.kind = "create" => ~Here
  /\ Applied
  /\ \E fp \in {0, server'.ver} : Goes("record", fp, server'.ver)
  /\ Unrecorded

\* Faulty variant: an executed delete is recorded like a merge.
AnyDeleteRecorded ==
  /\ Writing(Backends, {"delete"})
  /\ IF Here THEN Applied ELSE UNCHANGED server
  /\ Goes("record", 0, 0)
  /\ Unrecorded

\* delete_item: destroy, DELETE.  A JMAP server's refusal is logged, a 404 is
\* passed over by Graph and raises for DAV, to the same effect.
AnyDelete ==
  /\ Writing(Backends, {"delete"})
  /\ IF Here THEN Applied ELSE UNCHANGED server
  /\ job' = NoJob
  /\ Unrecorded

\* A call answers with an error status it raises for: nothing is recorded, but
\* the other side has its turn.
CallRefused ==
  /\ job.pc = "write"
  /\ \/ backend \in {"graph", "graph_photo"} /\ job.kind = "update" /\ ~Here
     \/ backend = "dav" /\ job.kind = "create" /\ Here
  /\ job' = NoJob
  /\ other' \in OtherGets
  /\ UNCHANGED <<backend, server, memo, edits, faults, silent>>

\* Faulty variant: the engine records the merge although a call of it failed.
CallFailsRecorded ==
  /\ job.pc = "write" /\ faults < MaxFaults
  /\ faults' = faults + 1
  /\ Goes("record", job.fp, job.wrote)
  /\ UNCHANGED <<backend, server, other, memo, edits, silent>>

\* A timeout, a 5xx or a crash, before or after the server applied the write and
\* the other side had its turn.
CallFails ==
  /\ job.pc # "idle"
  /\ faults < MaxFaults
  /\ faults' = faults + 1
  /\ \/ UNCHANGED server
     \/ /\ job.pc = "write"
        /\ job.kind = "create" => ~Here
        /\ job.kind \in {"update", "delete"} => Here \/ backend = "dav"
        /\ Applied
  /\ job' = NoJob
  /\ other' \in OtherGets \cup {other}
  /\ UNCHANGED <<backend, memo, edits, silent>>

\* The other side has its turn, and the merge is recorded, unless the other side
\* refused the write of an item that is gone there.
Finish ==
  /\ job.pc = "record"
  /\ other' \in OtherGets
  /\ \/ /\ memo' = [text |-> job.text, fp |-> job.fp]
        /\ silent' = (job.fp # 0 /\ job.fp # job.wrote)
     \/ job.drift /\ ~There /\ UNCHANGED <<memo, silent>>
  /\ job' = NoJob
  /\ UNCHANGED <<backend, server, edits, faults>>

Engine ==
  \/ BeginMerge \/ BeginCreate \/ BeginDelete
  \/ CreateOther \/ DeleteOther \/ ForgetPair
  \/ JmapCreate \/ JmapUpdate \/ JmapUpdateRefused \/ JmapReadBack
  \/ GraphWrite \/ GraphPhoto \/ DavWrite
  \/ AnyDelete \/ CallRefused \/ CallFails \/ Finish

Next == UserChange \/ OtherUserChange \/ Engine

Spec == Init /\ [][Next]_vars
FairSpec == Spec /\ WF_vars(Engine)

-----------------------------------------------------------------------------
TypeOK ==
  /\ backend \in Backends
  /\ server \in [text : Texts \cup {Gone}, ver : Nat]
  /\ other \in Texts \cup {Gone}
  /\ memo \in [text : Texts \cup {None}, fp : Nat]
  /\ job \in [pc : {"idle", "write", "readback", "photo", "record"},
              kind : {"none", "create", "update", "delete"},
              text : Texts \cup {Gone}, fp : Nat, wrote : Nat, drift : BOOLEAN]
  /\ edits \in 0..MaxEdits /\ faults \in 0..MaxFaults
  /\ silent \in BOOLEAN

\* The adapters keep the engine's contract: an item is passed over only if it is
\* what was recorded.  `silent` sets apart the one way they do not, a JMAP
\* fingerprint that is read back after a refused update or a user's edit.
Contract ==
  INSTANCE ChangeReport WITH Contents <- Texts, Absent <- Gone, NoMemo <- None,
    content <- server.text, memo <- memo.text, reported <- Reported \/ silent
ReportsChanges == Contract!Spec

\* "Only persist the merged state when both sides match it" (engine.py:586): an
\* item that the next comparison passes over holds the recorded text.
RecordedStateMatches == Reported \/ server.text = memo.text

\* A write that failed is made again: when users and faults stop, the sides end
\* up alike (engine.py:586-588), a silent refusal apart.
WritesRetried == <>[](silent \/ other = server.text)
=============================================================================
