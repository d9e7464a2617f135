--------------------------- MODULE ItemWritesProofs ---------------------------
(***************************************************************************)
(* Theorems about ItemWrites, for any texts, protocols and numbers of edits *)
(* and faults: its state is well formed, and it implements ChangeReport.    *)
(***************************************************************************)
EXTENDS ItemWrites, TLAPS

\* A version is given out once, and nothing recorded is newer than the item.
VersionsGrow ==
  /\ server.ver >= 1
  /\ memo.fp <= server.ver
  /\ job.wrote <= server.ver

\* What an operation is about to store, and what one that wrote has stored.
JobsMean ==
  /\ job.kind \in {"create", "update"} => job.text \in Texts
  /\ job.pc \in {"readback", "photo", "record"} =>
       /\ job.kind \in {"create", "update"}
       /\ job.wrote = server.ver => server.text = job.text
  /\ job.fp <= server.ver

\* Unless a fingerprint was of something else, the recorded one tells the text.
MemoTells ==
  Mapped /\ ~silent /\ memo.fp = server.ver => server.text = memo.text

IInv == TypeOK /\ VersionsGrow /\ JobsMean /\ MemoTells

\* A merge of two texts is one of them.
LEMMA MergePicks ==
  ASSUME NEW x, NEW y, NEW p, NEW first, NEW w
  PROVE  MergeScalar(x, y, p, first, w) \in {x, y}
BY DEF MergeScalar

LEMMA InitIInv == Init => IInv
<1> SUFFICES ASSUME Init PROVE IInv
  OBVIOUS
<1>1. silent \in BOOLEAN
  BY Zenon DEF Init
<1>2. TypeOK
  BY <1>1, ItemWritesAssumption DEF Init, TypeOK, NoMemo, NoJob
<1>3. VersionsGrow /\ JobsMean /\ MemoTells
  BY DEF Init, VersionsGrow, JobsMean, MemoTells, NoMemo, NoJob, Mapped
<1> QED
  BY <1>2, <1>3 DEF IInv

USE ItemWritesAssumption

\* The steps of users.
LEMMA UserStep ==
  IInv /\ (UserChange \/ OtherUserChange) => IInv'
<1> SUFFICES ASSUME IInv, UserChange \/ OtherUserChange PROVE IInv'
  OBVIOUS
<1>1. CASE UserChange
  <2>1. PICK t \in Texts \cup {Gone} : server' = [text |-> t, ver |-> server.ver + 1]
    BY <1>1 DEF UserChange
  <2>2. server' \in [text : Texts \cup {Gone}, ver : Nat] /\ server'.ver = server.ver + 1
    BY <2>1 DEF IInv, TypeOK
  <2>3. edits' \in 0..MaxEdits
    BY <1>1 DEF IInv, TypeOK, UserChange, UserMayAct
  <2>6. silent' \in BOOLEAN
    BY <1>1, Zenon DEF UserChange
  <2>4. TypeOK'
    BY <1>1, <2>2, <2>3, <2>6 DEF IInv, TypeOK, UserChange
  <2>5. VersionsGrow' /\ JobsMean' /\ MemoTells'
    BY <1>1, <2>2 DEF IInv, TypeOK, UserChange, VersionsGrow, JobsMean, MemoTells, Mapped
  <2> QED
    BY <2>4, <2>5 DEF IInv
<1>2. CASE OtherUserChange
  BY <1>2 DEF IInv, TypeOK, VersionsGrow, JobsMean, MemoTells, Mapped, OtherUserChange, UserMayAct
<1> QED
  BY <1>1, <1>2

\* The other side ends up with a text or without the item.
LEMMA OtherTyped ==
  ASSUME TypeOK
  PROVE  OtherGets \subseteq Texts \cup {Gone}
BY DEF OtherGets, TypeOK

\* The engine's own steps, from which a job is made, and its record.
LEMMA EngineStep ==
  IInv /\ (BeginMerge \/ BeginCreate \/ BeginDelete \/ CreateOther \/ DeleteOther
             \/ ForgetPair \/ Finish) => IInv'
<1> SUFFICES ASSUME IInv, BeginMerge \/ BeginCreate \/ BeginDelete \/ CreateOther
                            \/ DeleteOther \/ ForgetPair \/ Finish
             PROVE  IInv'
  OBVIOUS
<1> USE DEF IInv, TypeOK, VersionsGrow, JobsMean, MemoTells, Mapped
<1>1. CASE BeginMerge
  <2>1. server.text \in Texts /\ other \in Texts
    BY <1>1 DEF BeginMerge, Here, There
  <2>2. PICK winner \in Sides :
          LET t == MergeScalar(server.text, other, memo.text, ~Mapped, winner) IN
          job' = [pc |-> IF t = server.text THEN "record" ELSE "write",
                  kind |-> "update", text |-> t,
                  fp |-> server.ver, wrote |-> server.ver, drift |-> t # other]
    BY <1>1 DEF BeginMerge
  <2> DEFINE t == MergeScalar(server.text, other, memo.text, ~Mapped, winner)
  <2>3. t \in Texts
    BY <2>1, MergePicks
  <2> HIDE DEF t
  <2>4. job' = [pc |-> IF t = server.text THEN "record" ELSE "write", kind |-> "update",
                text |-> t, fp |-> server.ver, wrote |-> server.ver, drift |-> t # other]
    BY <2>2 DEF t
  <2>5. (t # other) \in BOOLEAN
    BY Zenon
  <2>6. PICK d \in BOOLEAN :
          job' = [pc |-> IF t = server.text THEN "record" ELSE "write", kind |-> "update",
                  text |-> t, fp |-> server.ver, wrote |-> server.ver, drift |-> d]
    BY <2>4, <2>5, Zenon
  <2> QED
    BY <1>1, <2>3, <2>6 DEF BeginMerge
<1>2. CASE BeginCreate
  BY <1>2 DEF BeginCreate, Begin, There
<1>3. CASE BeginDelete
  BY <1>3 DEF BeginDelete, Begin
<1>4. CASE CreateOther
  <2>1. silent' \in BOOLEAN
    BY <1>4, Zenon DEF CreateOther
  <2> QED
    BY <1>4, <2>1 DEF CreateOther, Here
<1>5. CASE DeleteOther
  BY <1>5 DEF DeleteOther
<1>6. CASE ForgetPair
  <2>1. silent' \in BOOLEAN
    BY <1>6, Zenon DEF ForgetPair
  <2> QED
    BY <1>6, <2>1 DEF ForgetPair, NoMemo
<1>7. CASE Finish
  <2>1. silent' \in BOOLEAN
    BY <1>7, Zenon DEF Finish, IInv, TypeOK
  <2>2. /\ job' = NoJob /\ other' \in Texts \cup {Gone}
        /\ UNCHANGED <<backend, server, edits, faults>>
        /\ job.text \in Texts
        /\ job.wrote = server.ver => server.text = job.text
    BY <1>7, OtherTyped DEF Finish
  <2>3. CASE memo' = [text |-> job.text, fp |-> job.fp] /\ silent' = (job.fp # 0 /\ job.fp # job.wrote)
    <3>1. ~silent' => job.fp = 0 \/ job.fp = job.wrote
      BY <2>3, Zenon
    <3> QED
      BY <2>1, <2>2, <2>3, <3>1 DEF NoJob
  <2>4. CASE UNCHANGED <<memo, silent>>
    BY <2>1, <2>2, <2>4 DEF NoJob
  <2> QED
    BY <1>7, <2>3, <2>4 DEF Finish
<1> QED
  BY <1>1, <1>2, <1>3, <1>4, <1>5, <1>6, <1>7

\* What a call leaves in the job.
LEMMA JobGoes ==
  ASSUME TypeOK, NEW pc, NEW fp, NEW wrote, Goes(pc, fp, wrote)
  PROVE  job' = [pc |-> pc, kind |-> job.kind, text |-> job.text, fp |-> fp, wrote |-> wrote,
                 drift |-> job.drift]
BY DEF TypeOK, Goes

\* A write the server carried out, whatever comes of it.
LEMMA StoredStep ==
  ASSUME IInv, Applied, job.kind \in {"create", "update"},
         NEW pc \in {"readback", "photo", "record"}, NEW fp \in Nat, fp <= server'.ver,
         Goes(pc, fp, server'.ver), UNCHANGED <<backend, memo, other, edits, faults, silent>>
  PROVE  IInv'
<1>1. TypeOK /\ VersionsGrow /\ JobsMean
  BY DEF IInv
<1>2. job.text \in Texts
  BY <1>1 DEF JobsMean
<1>3. /\ server' = [text |-> job.text, ver |-> server.ver + 1]
      /\ server' \in [text : Texts \cup {Gone}, ver : Nat]
      /\ server'.ver = server.ver + 1 /\ server'.text = job.text
  BY <1>1, <1>2 DEF Applied, TypeOK
<1>4. job' = [pc |-> pc, kind |-> job.kind, text |-> job.text, fp |-> fp, wrote |-> server'.ver,
             drift |-> job.drift]
  BY <1>1, JobGoes
<1>5. TypeOK'
  BY <1>1, <1>3, <1>4 DEF TypeOK
<1>6. VersionsGrow' /\ JobsMean' /\ MemoTells'
  BY <1>1, <1>2, <1>3, <1>4 DEF TypeOK, VersionsGrow, JobsMean, MemoTells
<1> QED
  BY <1>5, <1>6 DEF IInv

\* A job that ends with the item untouched, or written or removed.
LEMMA EndedStep ==
  ASSUME IInv, job' = NoJob, faults' \in 0..MaxFaults,
         \/ UNCHANGED server
         \/ Applied,
         other' \in OtherGets \cup {other},
         UNCHANGED <<backend, memo, edits, silent>>
  PROVE  IInv'
<1>1. TypeOK /\ VersionsGrow /\ JobsMean /\ MemoTells
  BY DEF IInv
<1>4. other' \in Texts \cup {Gone}
  BY <1>1, OtherTyped DEF TypeOK
<1>2. CASE UNCHANGED server
  BY <1>1, <1>2, <1>4 DEF IInv, TypeOK, VersionsGrow, JobsMean, MemoTells, Mapped, NoJob
<1>3. CASE Applied
  <2>1. /\ server' \in [text : Texts \cup {Gone}, ver : Nat]
        /\ server'.ver = server.ver + 1
    BY <1>1, <1>3 DEF Applied, TypeOK
  <2> QED
    BY <1>1, <1>4, <2>1 DEF IInv, TypeOK, VersionsGrow, JobsMean, MemoTells, Mapped, NoJob
<1> QED
  BY <1>2, <1>3

\* The adapters' calls.
LEMMA CallStep ==
  IInv /\ (JmapCreate \/ JmapUpdate \/ JmapUpdateRefused \/ JmapReadBack \/ GraphWrite
             \/ GraphPhoto \/ DavWrite \/ AnyDelete \/ CallRefused \/ CallFails) => IInv'
<1> SUFFICES ASSUME IInv, JmapCreate \/ JmapUpdate \/ JmapUpdateRefused \/ JmapReadBack
                            \/ GraphWrite \/ GraphPhoto \/ DavWrite \/ AnyDelete
                            \/ CallRefused \/ CallFails
             PROVE  IInv'
  OBVIOUS
<1>0. TypeOK /\ VersionsGrow /\ JobsMean /\ MemoTells
  BY DEF IInv
<1>a. ASSUME Applied PROVE server'.ver \in Nat
  BY <1>0, <1>a DEF Applied, TypeOK
<1>1. CASE JmapCreate
  BY <1>1, <1>a, StoredStep DEF JmapCreate, Writing, Unrecorded
<1>2. CASE JmapUpdate
  BY <1>2, <1>a, StoredStep DEF JmapUpdate, Writing, Unrecorded
<1>3. CASE JmapUpdateRefused
  <2>1. job' = [pc |-> "readback", kind |-> "update", text |-> job.text, fp |-> 0, wrote |-> 0,
                drift |-> job.drift]
    BY <1>0, <1>3, JobGoes DEF JmapUpdateRefused, Writing
  <2>2. faults' \in 0..MaxFaults
    BY <1>0, <1>3 DEF JmapUpdateRefused, TypeOK
  <2> QED
    BY <1>0, <1>3, <2>1, <2>2
       DEF IInv, TypeOK, VersionsGrow, JobsMean, MemoTells, Mapped, JmapUpdateRefused, Writing
<1>4. CASE JmapReadBack
  <2>1. job' = [pc |-> "record", kind |-> job.kind, text |-> job.text,
                fp |-> IF Here THEN server.ver ELSE 0, wrote |-> job.wrote, drift |-> job.drift]
    BY <1>0, <1>4, JobGoes DEF JmapReadBack
  <2> QED
    BY <1>0, <1>4, <2>1
       DEF IInv, TypeOK, VersionsGrow, JobsMean, MemoTells, Mapped, JmapReadBack, Unrecorded
<1>5. CASE GraphWrite
  BY <1>5, <1>a, <1>0, StoredStep DEF GraphWrite, Writing, Unrecorded, TypeOK
<1>6. CASE GraphPhoto
  <2>1. job' = [pc |-> "record", kind |-> job.kind, text |-> job.text, fp |-> job.fp,
                wrote |-> job.wrote, drift |-> job.drift]
    BY <1>0, <1>6, JobGoes DEF GraphPhoto
  <2>2. /\ server' \in [text : Texts \cup {Gone}, ver : Nat]
        /\ server' = server \/ server'.ver = server.ver + 1
    BY <1>0, <1>6 DEF GraphPhoto, TypeOK
  <2> QED
    BY <1>0, <1>6, <2>1, <2>2
       DEF IInv, TypeOK, VersionsGrow, JobsMean, MemoTells, Mapped, GraphPhoto, Unrecorded
<1>7. CASE DavWrite
  BY <1>7, <1>a, StoredStep DEF DavWrite, Writing, Unrecorded
<1>8. CASE AnyDelete
  BY <1>0, <1>8, EndedStep DEF AnyDelete, Unrecorded, TypeOK
<1>9. CASE CallRefused
  BY <1>0, <1>9, EndedStep DEF CallRefused, Unrecorded, TypeOK
<1>10. CASE CallFails
  <2>1. faults' \in 0..MaxFaults
    BY <1>0, <1>10 DEF CallFails, TypeOK
  <2> QED
    BY <1>10, <2>1, EndedStep DEF CallFails
<1> QED
  BY <1>1, <1>2, <1>3, <1>4, <1>5, <1>6, <1>7, <1>8, <1>9, <1>10

LEMMA IInvStep == IInv /\ [Next]_vars => IInv'
<1> SUFFICES ASSUME IInv, [Next]_vars PROVE IInv'
  OBVIOUS
<1>1. CASE Next
  BY <1>1, UserStep, EngineStep, CallStep DEF Next, Engine
<1>2. CASE UNCHANGED vars
  BY <1>2 DEF IInv, TypeOK, VersionsGrow, JobsMean, MemoTells, Mapped, vars
<1> QED
  BY <1>1, <1>2

(***************************************************************************)
(* The record of an item and the operation in hand are well formed, for all *)
(* protocols.                                                              *)
(***************************************************************************)
THEOREM TypeCorrect == Spec => []TypeOK
<1>1. IInv => TypeOK
  BY DEF IInv
<1> QED
  BY <1>1, InitIInv, IInvStep, PTL DEF Spec

\* A step of the mapped variables: the item changes and is noticed, or a record is
\* made that notices the item, unless it tells what the item holds.
LEMMA ContractStep ==
  IInv /\ [Next]_vars => [Contract!Change \/ Contract!Note]_(Contract!vars)
<1> SUFFICES ASSUME IInv, [Next]_vars
             PROVE  [Contract!Change \/ Contract!Note]_(Contract!vars)
  OBVIOUS
<1>0. IInv' /\ TypeOK /\ VersionsGrow /\ JobsMean /\ TypeOK'
  BY IInvStep DEF IInv
\* A change of the item is noticed, and nothing is recorded by it.
<1>1. ASSUME server'.ver > server.ver, UNCHANGED memo
      PROVE  Contract!Change \/ Contract!Note
  <2>1. Reported' /\ server'.text \in Texts \cup {Gone} /\ memo'.text \in Texts \cup {None}
    BY <1>0, <1>1 DEF Reported, TypeOK, VersionsGrow
  <2>2. CASE server'.text # server.text
    BY <1>1, <2>1, <2>2, Zenon DEF Contract!Change
  <2>3. CASE server'.text = server.text
    BY <1>1, <2>1, <2>3, Zenon DEF Contract!Note
  <2> QED
    BY <2>2, <2>3
\* What the next comparison passes over is what was recorded.
<1>2. ASSUME server'.text = server.text PROVE Contract!Note
  <2>1. ~(Reported' \/ silent') => memo'.text = server.text
    BY <1>0, <1>2 DEF IInv, MemoTells, Reported, Mapped
  <2>2. memo'.text \in Texts \cup {None}
    BY <1>0 DEF TypeOK
  <2>3. (Reported \/ silent)' \in BOOLEAN
    BY Zenon
  <2> QED
    BY <1>2, <2>1, <2>2, <2>3, Zenon DEF Contract!Note
<1>3. ASSUME Applied PROVE server'.ver > server.ver
  BY <1>0, <1>3 DEF Applied, TypeOK
<1>4. CASE UserChange
  BY <1>0, <1>1, <1>4 DEF UserChange, TypeOK
<1>5. CASE UNCHANGED server
  BY <1>2, <1>5
<1>6. CASE GraphPhoto
  <2>1. UNCHANGED server \/ server'.ver > server.ver
    BY <1>0, <1>6 DEF GraphPhoto, TypeOK
  <2> QED
    BY <1>1, <1>5, <1>6, <2>1 DEF GraphPhoto, Unrecorded
<1>7. CASE Applied /\ UNCHANGED memo
  BY <1>1, <1>3, <1>7
<1> QED
  <2>1. CASE Engine
    BY <2>1, <1>5, <1>6, <1>7
       DEF Engine, BeginMerge, BeginCreate, BeginDelete, Begin, CreateOther, DeleteOther,
           ForgetPair, JmapCreate, JmapUpdate, JmapUpdateRefused, JmapReadBack, GraphWrite,
           DavWrite, AnyDelete, CallRefused, CallFails, Finish, Unrecorded
  <2>2. CASE OtherUserChange \/ UNCHANGED vars
    BY <2>2, <1>5 DEF OtherUserChange, vars
  <2> QED
    BY <2>1, <2>2, <1>4 DEF Next

(***************************************************************************)
(* The adapters implement what the engine needs of them, for all protocols: *)
(* an item that is passed over is what was recorded, a JMAP fingerprint     *)
(* read back of something else apart.                                       *)
(***************************************************************************)
THEOREM AdaptersReportChanges == Spec => ReportsChanges
<1>1. Init => Contract!Init
  <2> SUFFICES ASSUME Init PROVE Contract!Init
    OBVIOUS
  <2>1. server.text \in Texts \cup {Gone} /\ memo.text = None
    BY SMT DEF Init, NoMemo
  <2>2. (Reported \/ silent) = TRUE
    BY <2>1, Zenon DEF Reported, Mapped
  <2> QED
    BY <2>1, <2>2, Zenon DEF Contract!Init
<1> QED
  BY <1>1, InitIInv, IInvStep, ContractStep, PTL DEF Spec, ReportsChanges, Contract!Spec
=============================================================================
