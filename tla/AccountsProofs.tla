--------------------------- MODULE AccountsProofs ---------------------------
(***************************************************************************)
(* Proofs about Accounts.  The inductive invariant IInv says what every    *)
(* command in flight knows: whose the token in its hand is, which rows are *)
(* newer than its list, and which accounts it may still write.             *)
(***************************************************************************)
EXTENDS Accounts, TLAPS, Integers

\* Where a command stands tells which account, token and answer it has.
Means(w, p) ==
  /\ p.pc \in {"approve", "commit", "keep", "read", "ask", "row"} => p.at \in Targets
  /\ p.pc \in {"idle", "forget", "scan"} => p.at = NoTarget
  /\ p.pc \in {"row", "keep"} => p.got # None
  /\ p.pc \in {"ask", "row"} => p.rt # None
  /\ p.pc \in {"forget", "scan", "read"} => p.rt = None
  /\ p.pc \notin {"commit", "row", "keep"} => p.got = None
  /\ p.pc \in {"idle", "approve", "commit"} => p.rt = None /\ p.todo = {}
  /\ w = Timer => p.pc \notin {"approve", "commit", "forget"}
CommandsMean == \A w \in Procs : Means(w, proc[w])

\* Commands with a new refresh token in hand.
Answered == {w \in Procs : proc[w].pc \in {"commit", "row", "keep"} /\ proc[w].got # None}

\* The token in hand is good, and with a server that rotates them nobody else's.
AnswersGood ==
  \A w \in Answered :
    LET a == proc[w].at.acct IN
    /\ proc[w].got \in valid[a]
    /\ Rotates =>
         /\ \A v \in Procs : proc[v].at.acct = a => proc[v].rt # proc[w].got
         /\ \A v \in Answered : v # w /\ proc[v].at.acct = a => proc[v].got # proc[w].got
         /\ keyring[a] # None => keyring[a].rt # proc[w].got

\* A refresh that was granted and has not written the keyring.
Refreshed(w, a) ==
  proc[w].pc \in {"row", "keep"} /\ proc[w].rt # None /\ proc[w].at.acct = a

EntriesGood ==
  \A a \in Accts :
    keyring[a] # None =>
      keyring[a].rt \in valid[a] \/ a \in lost \/ \E w \in Procs : Refreshed(w, a)

OneRowEach == \A r, s \in rows : r.acct = s.acct => r = s

\* What a refresh has still to do.
Work(p) ==
  IF p.pc = "forget" THEN {}
  ELSE p.todo \cup (IF p.pc \in {"read", "ask", "row"} THEN {p.at} ELSE {})
Pending(w) == Work(proc[w])

\* A row that a refresh does not know of is as new as the command.
RowsNew ==
  /\ \A w \in Procs : \A t \in Pending(w) : \A r \in rows :
       r.acct = t.acct => r.id = t.row \/ r.token.ttl = Life
  /\ \A w \in Procs : \A r \in rows :
       proc[w].pc = "keep" /\ r.acct = proc[w].at.acct => r.token.ttl = Life

EntriesHonest ==
  \A r \in rows : keyring[r.acct] # None => keyring[r.acct].ttl <= r.token.ttl

\* The accounts of a command that may still write their entries.
Busy(w) ==
  {t.acct : t \in Pending(w)} \cup (IF proc[w].pc = "keep" THEN {proc[w].at.acct} ELSE {})

RowsKept ==
  /\ \A a \in Accts : keyring[a] # None => HasRow(a) \/ a \in overlapped
  /\ \A w \in Procs : \A a \in Busy(w) : HasRow(a) \/ a \in overlapped
  /\ \A w \in Procs : proc[w].pc = "forget" =>
       \A t \in proc[w].sel \ proc[w].todo : keyring[t.acct] = None \/ t.acct \in overlapped

IInv ==
  /\ TypeOK /\ CommandsMean
  /\ AnswersGood /\ EntriesGood
  /\ OneRowEach /\ RowsNew /\ EntriesHonest
  /\ RowsKept

-----------------------------------------------------------------------------
USE AccountsAssumption DEF AccountsAssumption, Procs

\* A command that is done knows nothing.
LEMMA IdleFacts ==
  /\ Idle \in ProcType
  /\ Idle.pc = "idle" /\ Idle.at = NoTarget /\ Idle.todo = {} /\ Idle.sel = {}
  /\ Idle.rt = None /\ Idle.got = None /\ Idle.attempt = 0 /\ Idle.due = FALSE
BY DEF Idle, ProcType

\* One command moves, to a place that makes sense.
LEMMA ProcStep ==
  ASSUME TypeOK, CommandsMean, NEW w \in Procs, NEW p \in ProcType, Means(w, p),
         proc' = [proc EXCEPT ![w] = p]
  PROVE  proc' \in [Procs -> ProcType] /\ CommandsMean'
BY DEF TypeOK, CommandsMean

\* The command of w is done with an account.
LEMMA ProceedShape ==
  ASSUME TypeOK, NEW w \in Procs, Proceed(w)
  PROVE  \E p \in ProcType :
           /\ proc' = [proc EXCEPT ![w] = p]
           /\ p.pc \in {"idle", "scan"} /\ p.at = NoTarget
           /\ p.todo = proc[w].todo /\ p.rt = None /\ p.got = None /\ p.sel = {}
           /\ p.pc = "idle" => p.todo = {}
<1>1. CASE proc[w].todo = {}
  <2>1. proc' = [proc EXCEPT ![w] = Idle]
    BY <1>1 DEF TypeOK, Proceed
  <2> QED
    BY <1>1, <2>1, IdleFacts
<1>2. CASE proc[w].todo # {}
  <2> DEFINE p == [Idle EXCEPT !.pc = "scan", !.todo = proc[w].todo, !.due = proc[w].due]
  <2>1. proc' = [proc EXCEPT ![w] = p]
    BY <1>2 DEF TypeOK, Proceed
  <2>2. p \in ProcType /\ p.pc = "scan" /\ p.at = NoTarget /\ p.todo = proc[w].todo
        /\ p.rt = None /\ p.got = None /\ p.sel = {}
    BY IdleFacts DEF TypeOK, ProcType
  <2> HIDE DEF p
  <2> QED
    BY <2>1, <2>2
<1> QED
  BY <1>1, <1>2

\* A failed attempt is followed by another or by the next account.
LEMMA RetryShape ==
  ASSUME TypeOK, NEW w \in Procs, RetryOrGiveUp(w), proc[w].pc = "ask"
  PROVE  \E p \in ProcType :
           /\ proc' = [proc EXCEPT ![w] = p]
           /\ p.todo = proc[w].todo /\ (p.pc = "idle" => p.todo = {})
           /\ \/ /\ p.pc \in {"idle", "scan"} /\ p.at = NoTarget
                 /\ p.rt = None /\ p.got = None /\ p.sel = {}
              \/ /\ p.pc = "ask" /\ p.at = proc[w].at /\ p.rt = proc[w].rt
                 /\ p.got = proc[w].got /\ p.sel = proc[w].sel
<1>1. CASE proc[w].attempt = RetryAttempts - 1
  <2>1. Proceed(w)
    BY <1>1 DEF RetryOrGiveUp
  <2> QED
    BY <2>1, ProceedShape
<1>2. CASE proc[w].attempt # RetryAttempts - 1
  <2> DEFINE p == [proc[w] EXCEPT !.attempt = @ + 1]
  <2>1. proc' = [proc EXCEPT ![w] = p]
    BY <1>2 DEF TypeOK, RetryOrGiveUp
  <2>2. p \in ProcType /\ p.pc = "ask" /\ p.at = proc[w].at /\ p.rt = proc[w].rt
        /\ p.got = proc[w].got /\ p.sel = proc[w].sel /\ p.todo = proc[w].todo
    BY <1>2 DEF TypeOK, ProcType
  <2> HIDE DEF p
  <2> QED
    BY <2>1, <2>2
<1> QED
  BY <1>1, <1>2

\* A command on an account goes on to its next step.
LEMMA ScanShape ==
  ASSUME TypeOK, CommandsMean, NEW w \in Procs, Scan(w)
  PROVE  \E p \in ProcType :
           /\ proc' = [proc EXCEPT ![w] = p]
           /\ p = Idle \/ (p.rt = proc[w].rt /\ p.got = proc[w].got /\ p.sel = proc[w].sel)
           /\ p.todo \subseteq proc[w].todo /\ (p.pc = "idle" => p.todo = {})
           /\ \/ p.pc \in {"idle", "scan"} /\ p.at = NoTarget
              \/ p.pc = "read" /\ p.at \in proc[w].todo
<1>1. PICK t \in proc[w].todo :
        LET rest == [proc[w] EXCEPT !.todo = @ \ {t}] IN
        IF proc[w].due /\ NotDue(t.acct)
        THEN proc' = [proc EXCEPT ![w] = IF rest.todo = {} THEN Idle ELSE rest]
        ELSE proc' = [proc EXCEPT ![w] = [rest EXCEPT !.pc = "read", !.at = t]]
  BY DEF Scan
<1> DEFINE rest == [proc[w] EXCEPT !.todo = @ \ {t}]
           next == [rest EXCEPT !.pc = "read", !.at = t]
<1>2. rest \in ProcType /\ rest.pc = "scan" /\ rest.at = NoTarget /\ rest.rt = proc[w].rt
      /\ rest.got = proc[w].got /\ rest.sel = proc[w].sel /\ rest.todo \subseteq proc[w].todo
  BY DEF TypeOK, ProcType, Scan, At, CommandsMean, Means
<1>3. next \in ProcType /\ next.pc = "read" /\ next.at = t /\ next.rt = proc[w].rt
      /\ next.got = proc[w].got /\ next.sel = proc[w].sel /\ next.todo \subseteq proc[w].todo
  BY DEF TypeOK, ProcType
<1>4. \/ proc' = [proc EXCEPT ![w] = Idle]
      \/ proc' = [proc EXCEPT ![w] = rest]
      \/ proc' = [proc EXCEPT ![w] = next]
  BY <1>1
<1> HIDE DEF rest, next
<1> QED
  BY <1>2, <1>3, <1>4, IdleFacts

\* The steps that begin a command.
LEMMA BeginTyped ==
  ASSUME TypeOK, CommandsMean,
         NEW w \in Procs, NEW p \in ProcType, proc' = [proc EXCEPT ![w] = p], Means(w, p),
         UNCHANGED <<providers, rows, keyring, down, faults, lost, overlapped>>,
         valid' \in [Accts -> SUBSET Serials], ticked' \in BOOLEAN, missed' \subseteq Accts
  PROVE  TypeOK' /\ CommandsMean'
<1>1. proc' \in [Procs -> ProcType] /\ CommandsMean'
  BY ProcStep
<1> QED
  BY <1>1 DEF TypeOK

\* A command begins with what its place calls for.
LEMMA CommandTyped ==
  ASSUME TypeOK, CommandsMean, Command
  PROVE  TypeOK' /\ CommandsMean'
<1> USE IdleFacts
<1>t. Cli \in Procs /\ Timer \in Procs /\ Cli # Timer
  OBVIOUS
<1>1. ASSUME NEW a \in Accts, BeginLogin(Cli, a) PROVE TypeOK' /\ CommandsMean'
  <2> DEFINE p == [Idle EXCEPT !.pc = "approve", !.at = [row |-> 0, acct |-> a]]
  <2>1. p \in ProcType /\ Means(Cli, p)
    BY DEF ProcType, Means, Targets
  <2>2. proc' = [proc EXCEPT ![Cli] = p]
    BY <1>1 DEF BeginLogin
  <2> HIDE DEF p
  <2>3. ticked' \in BOOLEAN
    BY <1>1, Zenon DEF BeginLogin, TypeOK
  <2> QED
    BY <1>1, <2>1, <2>2, <2>3, BeginTyped DEF BeginLogin, TypeOK
<1>2. ASSUME NEW a \in Accts, BeginImport(Cli, a) PROVE TypeOK' /\ CommandsMean'
  <2>1. PICK s \in Serials \ Held(a) :
          /\ valid' = [valid EXCEPT ![a] = @ \cup {s}]
          /\ proc' = [proc EXCEPT ![Cli] = [Idle EXCEPT !.pc = "commit", !.got = s,
                                              !.at = [row |-> 0, acct |-> a]]]
    BY <1>2 DEF BeginImport
  <2> DEFINE p == [Idle EXCEPT !.pc = "commit", !.got = s, !.at = [row |-> 0, acct |-> a]]
  <2>2. p \in ProcType /\ Means(Cli, p)
    BY DEF ProcType, Means, Targets
  <2>3. proc' = [proc EXCEPT ![Cli] = p]
    BY <2>1
  <2>4. valid' \in [Accts -> SUBSET Serials]
    BY <2>1 DEF TypeOK
  <2>5. ticked' \in BOOLEAN
    BY <1>2, Zenon DEF BeginImport, TypeOK
  <2> HIDE DEF p
  <2> QED
    BY <1>2, <2>2, <2>3, <2>4, <2>5, BeginTyped DEF BeginImport, TypeOK
<1>3. ASSUME NEW u \in Uids, NEW ps \in SUBSET Providers, BeginLogout(Cli, u, ps)
      PROVE  TypeOK' /\ CommandsMean'
  <2> DEFINE sel == {r \in rows : r.acct[2] = u /\ r.acct[1] \in ps}
             ts == {[row |-> r.id, acct |-> r.acct] : r \in sel}
             p == [Idle EXCEPT !.pc = "forget", !.todo = ts, !.sel = ts]
  <2>1. ts \subseteq Targets
    BY DEF TypeOK, Rows, Targets
  <2>2. proc' = [proc EXCEPT ![Cli] = p]
    BY <1>3 DEF BeginLogout
  <2> HIDE DEF ts
  <2>3. p \in ProcType /\ Means(Cli, p)
    BY <2>1 DEF ProcType, Means
  <2> HIDE DEF p
  <2>4. ticked' \in BOOLEAN
    BY <1>3, Zenon DEF BeginLogout, TypeOK
  <2> QED
    BY <1>3, <2>2, <2>3, <2>4, BeginTyped DEF BeginLogout, TypeOK
<1>4. ASSUME NEW w \in Procs, NEW us \in SUBSET Uids, NEW due \in BOOLEAN, BeginRefresh(w, us, due)
      PROVE  TypeOK' /\ CommandsMean'
  <2> DEFINE ts == {[row |-> r.id, acct |-> r.acct] : r \in {x \in Listed : x.acct[2] \in us}}
             p == [Idle EXCEPT !.pc = "scan", !.todo = ts, !.due = due]
  <2>1. ts \subseteq Targets
    BY DEF TypeOK, Rows, Targets, Listed
  <2>2. UNCHANGED proc \/ proc' = [proc EXCEPT ![w] = p]
    BY <1>4 DEF BeginRefresh
  <2> HIDE DEF ts
  <2>3. p \in ProcType /\ Means(w, p)
    BY <2>1 DEF ProcType, Means
  <2> HIDE DEF p
  <2>4. ticked' \in BOOLEAN
    BY <1>4, Zenon DEF BeginRefresh, TypeOK
  <2>5. missed' \subseteq Accts
    BY <1>4 DEF BeginRefresh, TypeOK, Rows
  <2>6. CASE UNCHANGED proc
    BY <1>4, <2>4, <2>5, <2>6 DEF BeginRefresh, TypeOK, CommandsMean
  <2>7. CASE proc' = [proc EXCEPT ![w] = p]
    BY <1>4, <2>3, <2>4, <2>5, <2>7, BeginTyped DEF BeginRefresh, TypeOK
  <2> QED
    BY <2>2, <2>6, <2>7
<1> QED
  BY <1>t, <1>1, <1>2, <1>3, <1>4 DEF Command

\* Steps that write nothing but the command's place.
LEMMA MoveTyped ==
  ASSUME TypeOK, CommandsMean, NEW w \in Procs,
         LoginAbandoned(w) \/ Scan(w) \/ ReadSecret(w) \/ AskFails(w) \/ AskRejected(w)
  PROVE  TypeOK' /\ CommandsMean'
<1> USE IdleFacts
<1>u. ticked' \in BOOLEAN
  <2>1. UNCHANGED ticked
    BY DEF LoginAbandoned, Scan, ReadSecret, AskFails, AskRejected
  <2> QED
    BY <2>1, Zenon DEF TypeOK
<1>v. UNCHANGED <<providers, rows, keyring, valid, down, faults, lost, missed, overlapped>>
  BY DEF LoginAbandoned, Scan, ReadSecret, AskFails, AskRejected
<1>1. \E p \in ProcType : Means(w, p) /\ proc' = [proc EXCEPT ![w] = p]
  <2>1. CASE LoginAbandoned(w)
    BY <2>1 DEF LoginAbandoned, Means
  <2>2. CASE Scan(w)
    <3>1. PICK p \in ProcType :
            /\ proc' = [proc EXCEPT ![w] = p]
            /\ p = Idle \/ (p.rt = proc[w].rt /\ p.got = proc[w].got)
            /\ p.pc = "idle" => p.todo = {}
            /\ \/ p.pc \in {"idle", "scan"} /\ p.at = NoTarget
               \/ p.pc = "read" /\ p.at \in proc[w].todo
      BY <2>2, ScanShape
    <3>2. Means(w, p)
      BY <2>2, <3>1 DEF Means, TypeOK, ProcType, CommandsMean, Scan, At
    <3> QED
      BY <3>1, <3>2
  <2>3. CASE ReadSecret(w)
    <3>1. CASE keyring[proc[w].at.acct] = None
      <4>1. Proceed(w)
        BY <2>3, <3>1 DEF ReadSecret
      <4>2. PICK p \in ProcType :
              /\ proc' = [proc EXCEPT ![w] = p]
              /\ p.pc \in {"idle", "scan"} /\ p.at = NoTarget
              /\ p.rt = None /\ p.got = None /\ (p.pc = "idle" => p.todo = {})
        BY <4>1, ProceedShape
      <4> QED
        BY <4>2 DEF Means
    <3>2. CASE keyring[proc[w].at.acct] # None
      <4> DEFINE entry == keyring[proc[w].at.acct]
                 p == [proc[w] EXCEPT !.pc = "ask", !.rt = entry.rt]
      <4>1. proc[w].at \in Targets
        BY <2>3 DEF ReadSecret, At, CommandsMean, Means
      <4>2. entry.rt \in Serials
        BY <3>2, <4>1 DEF TypeOK, Blobs, Targets
      <4>3. proc' = [proc EXCEPT ![w] = p]
        BY <2>3, <3>2 DEF ReadSecret, TypeOK, ProcType
      <4>4. p \in ProcType /\ Means(w, p)
        BY <2>3, <4>1, <4>2 DEF TypeOK, ProcType, Means, CommandsMean, ReadSecret, At
      <4> HIDE DEF p
      <4> QED
        BY <4>3, <4>4
    <3> QED
      BY <3>1, <3>2
  <2>4. CASE AskFails(w)
    <3>1. PICK p \in ProcType :
            /\ proc' = [proc EXCEPT ![w] = p]
            /\ p.pc = "idle" => p.todo = {}
            /\ \/ p.pc \in {"idle", "scan"} /\ p.at = NoTarget /\ p.rt = None /\ p.got = None
               \/ p.pc = "ask" /\ p.at = proc[w].at /\ p.rt = proc[w].rt /\ p.got = proc[w].got
      BY <2>4, RetryShape DEF AskFails, At
    <3> QED
      BY <2>4, <3>1 DEF Means, CommandsMean, AskFails, At
  <2>5. CASE AskRejected(w)
    <3>1. PICK p \in ProcType :
            /\ proc' = [proc EXCEPT ![w] = p]
            /\ p.pc \in {"idle", "scan"} /\ p.at = NoTarget
            /\ p.rt = None /\ p.got = None /\ (p.pc = "idle" => p.todo = {})
      BY <2>5, ProceedShape DEF AskRejected
    <3> QED
      BY <3>1 DEF Means
  <2> QED
    BY <2>1, <2>2, <2>3, <2>4, <2>5
<1>2. PICK p \in ProcType : Means(w, p) /\ proc' = [proc EXCEPT ![w] = p]
  BY <1>1
<1> QED
  BY <1>u, <1>v, <1>2, BeginTyped DEF TypeOK

\* The steps that write a store.
LEMMA WriteTyped ==
  ASSUME TypeOK, CommandsMean, NEW w \in Procs,
         \/ LoginApproved(w) \/ CommitRow(w) \/ KeepSecret(w) \/ ForgetSecret(w)
         \/ CommitLogout(w) \/ AskLost(w) \/ AskGranted(w) \/ UpdateRow(w) \/ Crash(w)
  PROVE  TypeOK' /\ CommandsMean'
<1> USE IdleFacts
<1>u. ticked' \in BOOLEAN
  <2>1. UNCHANGED ticked
    BY DEF LoginApproved, CommitRow, KeepSecret, ForgetSecret, CommitLogout, AskLost,
           AskGranted, UpdateRow, Crash
  <2> QED
    BY <2>1, Zenon DEF TypeOK
<1>1. CASE LoginApproved(w)
  BY <1>1, <1>u DEF LoginApproved, TypeOK, CommandsMean, Means, ProcType, At, Goto, Targets
<1>2. CASE CommitRow(w)
  <2>1. proc[w].at.acct \in Accts
    BY <1>2 DEF CommitRow, At, CommandsMean, Means, Targets
  <2>2. rows' \subseteq Rows
    BY <1>2, <2>1 DEF CommitRow, TypeOK, Overwritten, Added, FreeRowIds, Rows, Tokens, FreshToken
  <2> QED
    BY <1>2, <1>u, <2>2 DEF CommitRow, TypeOK, CommandsMean, Means, ProcType, At
<1>3. CASE KeepSecret(w)
  <2>1. PICK p \in ProcType :
          /\ proc' = [proc EXCEPT ![w] = p]
          /\ p.pc \in {"idle", "scan"} /\ p.at = NoTarget
          /\ p.rt = None /\ p.got = None /\ (p.pc = "idle" => p.todo = {})
    BY <1>3, ProceedShape DEF KeepSecret
  <2>2. proc' \in [Procs -> ProcType] /\ CommandsMean'
    BY <2>1, ProcStep DEF Means
  <2>3. proc[w].at.acct \in Accts /\ proc[w].got \in Serials
    BY <1>3 DEF KeepSecret, At, CommandsMean, Means, Targets, TypeOK, ProcType
  <2>4. keyring' \in [Accts -> Blobs \cup {None}]
    BY <1>3, <2>3 DEF KeepSecret, TypeOK, Blobs, NewSecret
  <2> QED
    BY <1>3, <1>u, <2>2, <2>3, <2>4 DEF KeepSecret, TypeOK
<1>4. CASE ForgetSecret(w)
  BY <1>4, <1>u DEF ForgetSecret, TypeOK, CommandsMean, Means, ProcType, At, Targets
<1>5. CASE CommitLogout(w)
  BY <1>5, <1>u DEF CommitLogout, TypeOK, CommandsMean, Means, ProcType, At, Targets
<1>6. CASE AskLost(w)
  <2>1. PICK p \in ProcType :
          /\ proc' = [proc EXCEPT ![w] = p]
          /\ p.pc = "idle" => p.todo = {}
          /\ \/ p.pc \in {"idle", "scan"} /\ p.at = NoTarget /\ p.rt = None /\ p.got = None
             \/ p.pc = "ask" /\ p.at = proc[w].at /\ p.rt = proc[w].rt /\ p.got = proc[w].got
    BY <1>6, RetryShape DEF AskLost, At
  <2>2. Means(w, p)
    BY <1>6, <2>1 DEF AskLost, At, CommandsMean, Means
  <2>3. proc' \in [Procs -> ProcType] /\ CommandsMean'
    BY <2>1, <2>2, ProcStep
  <2>4. proc[w].at.acct \in Accts
    BY <1>6 DEF AskLost, At, CommandsMean, Means, Targets
  <2> QED
    BY <1>6, <1>u, <2>3, <2>4 DEF AskLost, TypeOK
<1>7. CASE AskGranted(w)
  BY <1>7, <1>u DEF AskGranted, TypeOK, CommandsMean, Means, ProcType, At, Goto, Targets
<1>8. CASE UpdateRow(w)
  <2>1. proc[w].at.acct \in Accts
    BY <1>8 DEF UpdateRow, At, CommandsMean, Means, Targets
  <2>2. rows' \subseteq Rows
    BY <1>8, <2>1 DEF UpdateRow, TypeOK, Rows, Tokens, FreshToken
  <2> QED
    BY <1>8, <1>u, <2>2 DEF UpdateRow, TypeOK, CommandsMean, Means, ProcType, At, Goto
<1>9. CASE Crash(w)
  BY <1>9, <1>u DEF Crash, TypeOK, CommandsMean, Means, ProcType, At, Targets, InFlight, Waiting
<1> QED
  BY <1>1, <1>2, <1>3, <1>4, <1>5, <1>6, <1>7, <1>8, <1>9

\* Providers come and go, and time passes.
LEMMA WorldTyped ==
  ASSUME TypeOK, CommandsMean,
         (\E p \in Providers : AddProvider(p) \/ RemoveProvider(p)) \/ Advance
  PROVE  TypeOK' /\ CommandsMean'
<1>1. ASSUME NEW p \in Providers, AddProvider(p) \/ RemoveProvider(p)
      PROVE  TypeOK' /\ CommandsMean'
  <2>1. ticked' \in BOOLEAN
    BY <1>1, Zenon DEF AddProvider, RemoveProvider, TypeOK
  <2> QED
    BY <1>1, <2>1 DEF AddProvider, RemoveProvider, TypeOK, CommandsMean
<1>2. CASE Advance
  <2>1. ticked' \in BOOLEAN
    BY <1>2, Zenon DEF Advance
  <2>2. \A n \in 0..Life : Less(n) \in 0..Life
    BY DEF Less
  <2>3. rows' \subseteq Rows
    BY <1>2, <2>2 DEF Advance, TypeOK, Rows, Tokens
  <2>4. keyring' \in [Accts -> Blobs \cup {None}]
    BY <1>2, <2>2 DEF Advance, TypeOK, Blobs
  <2>5. down' \in 0..MaxOutage
    BY <1>2 DEF Advance, TypeOK
  <2> QED
    BY <1>2, <2>1, <2>3, <2>4, <2>5 DEF Advance, TypeOK, CommandsMean
<1> QED
  BY <1>1, <1>2

\* Types and places are kept by every step.
LEMMA TypeStep ==
  TypeOK /\ CommandsMean /\ [Next]_vars => TypeOK' /\ CommandsMean'
<1> SUFFICES ASSUME TypeOK, CommandsMean, [Next]_vars PROVE TypeOK' /\ CommandsMean'
  OBVIOUS
<1>1. CASE Next
  BY <1>1, CommandTyped, MoveTyped, WriteTyped, WorldTyped DEF Next, Step
<1>2. CASE UNCHANGED vars
  <2>1. ticked' \in BOOLEAN
    BY <1>2, Zenon DEF vars, TypeOK
  <2> QED
    BY <1>2, <2>1 DEF vars, TypeOK, CommandsMean
<1> QED
  BY <1>1, <1>2

(***************************************************************************)
(* Refresh tokens.                                                          *)
(***************************************************************************)
\* A step after which the command has no answer in hand.
LEMMA TokensFrame ==
  ASSUME TypeOK, CommandsMean, AnswersGood, EntriesGood,
         NEW w \in Procs, NEW p \in ProcType, proc' = [proc EXCEPT ![w] = p],
         p.pc \notin {"commit", "row", "keep"} \/ (p.pc = "commit" /\ p.got = None),
         p.rt = None \/ (p.rt = proc[w].rt /\ p.at = proc[w].at),
         \A a \in Accts : Refreshed(w, a) => a \in lost',
         UNCHANGED <<keyring, valid>>, lost \subseteq lost'
  PROVE  AnswersGood' /\ EntriesGood'
<1>1. \A v \in Procs : proc'[v] = IF v = w THEN p ELSE proc[v]
  BY DEF TypeOK
<1>2. Answered' \subseteq Answered \ {w}
  BY <1>1 DEF Answered
<1>3. AnswersGood'
  BY <1>1, <1>2 DEF AnswersGood, Answered
<1>4. EntriesGood'
  BY <1>1 DEF EntriesGood, Refreshed
<1> QED
  BY <1>3, <1>4

\* A token that was just issued is nobody's yet.
LEMMA AnswerTokens ==
  ASSUME TypeOK, CommandsMean, AnswersGood, EntriesGood, NEW w \in Procs,
         proc[w].pc \in {"idle", "approve", "ask"},
         NEW p \in ProcType, proc' = [proc EXCEPT ![w] = p],
         p.pc \in {"commit", "row"}, p.pc = "row" => p.rt # None,
         p.rt = None \/ (p.rt = proc[w].rt /\ p.at = proc[w].at),
         NEW a \in Accts, p.at.acct = a, p.got \notin Held(a), p.got # None,
         NEW spent, spent = {} \/ (Rotates /\ p.pc = "row" /\ spent = {p.rt}),
         valid' = [valid EXCEPT ![a] = (@ \ spent) \cup {p.got}],
         UNCHANGED <<keyring, lost>>
  PROVE  AnswersGood' /\ EntriesGood'
<1> DEFINE s == p.got
<1>1. \A v \in Procs : proc'[v] = IF v = w THEN p ELSE proc[v]
  BY DEF TypeOK
<1>2. Answered' = Answered \cup {w} /\ w \notin Answered /\ Answered \subseteq Procs
  BY <1>1 DEF Answered
<1>3. /\ \A v \in Procs : proc[v].at.acct = a => s # proc[v].rt /\ s # proc[v].got
      /\ keyring[a] # None => keyring[a].rt # s
  BY DEF Held
<1>4. p.rt # s
  BY <1>3
<1>5. /\ \A b \in Accts \ {a} : valid'[b] = valid[b]
      /\ valid'[a] = (valid[a] \ spent) \cup {s}
  BY DEF TypeOK
<1>6. \A v \in Answered : proc[v].at.acct \in Accts
  BY DEF Answered, CommandsMean, Means, Targets
<1>7. \A v \in Answered : proc[v].at.acct = a => proc[v].got \notin spent
  <2>1. CASE spent = {}
    BY <2>1
  <2>2. CASE Rotates /\ p.rt # None /\ spent = {p.rt}
    BY <2>2, Zenon DEF AnswersGood
  <2> QED
    BY <2>1, <2>2
<1>8. \A v \in Answered' : proc'[v].got \in valid'[proc'[v].at.acct]
  BY <1>1, <1>2, <1>5, <1>6, <1>7 DEF AnswersGood
<1>9. ASSUME NEW v \in Answered', Rotates, NEW u \in Procs, proc'[u].at.acct = proc'[v].at.acct
      PROVE  proc'[u].rt # proc'[v].got
  <2>1. CASE v = w /\ u = w
    BY <1>1, <1>4, <2>1
  <2>2. CASE v = w /\ u # w
    BY <1>1, <1>3, <1>9, <2>2
  <2>3. CASE v # w /\ u = w
    <3>1. v \in Answered /\ proc'[v] = proc[v] /\ proc'[u] = p
      BY <1>1, <1>2, <2>3
    <3>2. CASE p.rt = None
      BY <3>1, <3>2 DEF Answered
    <3>3. CASE p.rt = proc[w].rt /\ p.at = proc[w].at
      BY <1>9, <3>1, <3>3 DEF AnswersGood
    <3> QED
      BY <3>2, <3>3
  <2>4. CASE v # w /\ u # w
    <3>1. v \in Answered /\ proc'[v] = proc[v] /\ proc'[u] = proc[u]
      BY <1>1, <1>2, <2>4
    <3> QED
      BY <1>9, <3>1 DEF AnswersGood
  <2> QED
    BY <2>1, <2>2, <2>3, <2>4
<1>10. ASSUME NEW v \in Answered', Rotates, NEW u \in Answered' \ {v},
              proc'[u].at.acct = proc'[v].at.acct
       PROVE  proc'[u].got # proc'[v].got
  <2>1. CASE v = w
    BY <1>1, <1>2, <1>3, <1>10, <2>1
  <2>2. CASE u = w
    BY <1>1, <1>2, <1>3, <1>10, <2>2
  <2>3. CASE v # w /\ u # w
    <3>1. v \in Answered /\ proc'[v] = proc[v] /\ u \in Answered /\ proc'[u] = proc[u] /\ u # v
      BY <1>1, <1>2, <2>3
    <3> QED
      BY <1>10, <3>1 DEF AnswersGood
  <2> QED
    BY <2>1, <2>2, <2>3
<1>11. ASSUME NEW v \in Answered', Rotates, keyring[proc'[v].at.acct] # None
       PROVE  keyring[proc'[v].at.acct].rt # proc'[v].got
  <2>1. CASE v = w
    BY <1>1, <1>3, <1>11, <2>1
  <2>2. CASE v # w
    <3>1. v \in Answered /\ proc'[v] = proc[v]
      BY <1>1, <1>2, <2>2
    <3> QED
      BY <1>11, <3>1 DEF AnswersGood
  <2> QED
    BY <2>1, <2>2
<1>12. AnswersGood'
  BY <1>2, <1>8, <1>9, <1>10, <1>11 DEF AnswersGood
<1>13. EntriesGood'
  <2> SUFFICES ASSUME NEW b \in Accts, keyring[b] # None, b \notin lost,
                      keyring[b].rt \notin valid'[b]
               PROVE  \E v \in Procs : Refreshed(v, b)'
    BY DEF EntriesGood
  <2>1. CASE keyring[b].rt \in valid[b]
    BY <1>1, <1>5, <2>1 DEF Refreshed
  <2>2. CASE keyring[b].rt \notin valid[b]
    <3>1. PICK v \in Procs : Refreshed(v, b)
      BY <2>2 DEF EntriesGood
    <3> QED
      BY <1>1, <3>1 DEF Refreshed
  <2> QED
    BY <2>1, <2>2
<1> QED
  BY <1>12, <1>13

\* A command begins with no token in hand, or one that was just issued.
LEMMA CommandTokens ==
  ASSUME TypeOK, CommandsMean, AnswersGood, EntriesGood, Command
  PROVE  AnswersGood' /\ EntriesGood'
<1> USE IdleFacts
<1>t. Cli \in Procs /\ Timer \in Procs
  OBVIOUS
<1>i. \A w \in Procs, a \in Accts : proc[w].pc = "idle" => ~Refreshed(w, a)
  BY DEF Refreshed
<1>1. ASSUME NEW a \in Accts, BeginLogin(Cli, a) PROVE AnswersGood' /\ EntriesGood'
  <2> DEFINE p == [Idle EXCEPT !.pc = "approve", !.at = [row |-> 0, acct |-> a]]
  <2>1. p \in ProcType /\ p.pc = "approve" /\ p.rt = None
    BY DEF ProcType, Targets
  <2>2. proc' = [proc EXCEPT ![Cli] = p]
    BY <1>1 DEF BeginLogin
  <2> HIDE DEF p
  <2> QED
    BY <1>1, <1>t, <1>i, <2>1, <2>2, TokensFrame DEF BeginLogin, At
<1>2. ASSUME NEW a \in Accts, BeginImport(Cli, a) PROVE AnswersGood' /\ EntriesGood'
  <2>1. PICK s \in Serials \ Held(a) :
          /\ valid' = [valid EXCEPT ![a] = @ \cup {s}]
          /\ proc' = [proc EXCEPT ![Cli] = [Idle EXCEPT !.pc = "commit", !.got = s,
                                              !.at = [row |-> 0, acct |-> a]]]
    BY <1>2 DEF BeginImport
  <2> DEFINE p == [Idle EXCEPT !.pc = "commit", !.got = s, !.at = [row |-> 0, acct |-> a]]
  <2>2. /\ p \in ProcType /\ p.pc = "commit" /\ p.rt = None /\ p.got = s
        /\ p.at.acct = a /\ s # None
    BY DEF ProcType, Targets
  <2>3. proc' = [proc EXCEPT ![Cli] = p] /\ valid' = [valid EXCEPT ![a] = (@ \ {}) \cup {p.got}]
    BY <2>1, <2>2 DEF TypeOK
  <2> HIDE DEF p
  <2> QED
    BY <1>2, <1>t, <2>2, <2>3, AnswerTokens DEF BeginImport, At
<1>3. ASSUME NEW u \in Uids, NEW ps \in SUBSET Providers, BeginLogout(Cli, u, ps)
      PROVE  AnswersGood' /\ EntriesGood'
  <2> DEFINE sel == {r \in rows : r.acct[2] = u /\ r.acct[1] \in ps}
             ts == {[row |-> r.id, acct |-> r.acct] : r \in sel}
             p == [Idle EXCEPT !.pc = "forget", !.todo = ts, !.sel = ts]
  <2>1. ts \subseteq Targets
    BY DEF TypeOK, Rows, Targets
  <2>2. proc' = [proc EXCEPT ![Cli] = p]
    BY <1>3 DEF BeginLogout
  <2> HIDE DEF ts
  <2>3. p \in ProcType /\ p.pc = "forget" /\ p.rt = None
    BY <2>1 DEF ProcType
  <2> HIDE DEF p
  <2> QED
    BY <1>3, <1>t, <1>i, <2>2, <2>3, TokensFrame DEF BeginLogout, At
<1>4. ASSUME NEW w \in Procs, NEW us \in SUBSET Uids, NEW due \in BOOLEAN, BeginRefresh(w, us, due)
      PROVE  AnswersGood' /\ EntriesGood'
  <2> DEFINE ts == {[row |-> r.id, acct |-> r.acct] : r \in {x \in Listed : x.acct[2] \in us}}
             p == [Idle EXCEPT !.pc = "scan", !.todo = ts, !.due = due]
  <2>1. ts \subseteq Targets
    BY DEF TypeOK, Rows, Targets, Listed
  <2>2. UNCHANGED proc \/ proc' = [proc EXCEPT ![w] = p]
    BY <1>4 DEF BeginRefresh
  <2> HIDE DEF ts
  <2>3. p \in ProcType /\ p.pc = "scan" /\ p.rt = None
    BY <2>1 DEF ProcType
  <2> HIDE DEF p
  <2>4. CASE UNCHANGED proc
    BY <1>4, <2>4 DEF BeginRefresh, AnswersGood, EntriesGood, Answered, Refreshed
  <2>5. CASE proc' = [proc EXCEPT ![w] = p]
    BY <1>4, <1>i, <2>3, <2>5, TokensFrame DEF BeginRefresh, At
  <2> QED
    BY <2>2, <2>4, <2>5
<1> QED
  BY <1>t, <1>1, <1>2, <1>3, <1>4 DEF Command

\* Steps of a command that has no answer in hand afterwards.
LEMMA MoveTokens ==
  ASSUME TypeOK, CommandsMean, AnswersGood, EntriesGood, NEW w \in Procs,
         LoginAbandoned(w) \/ Scan(w) \/ AskFails(w) \/ AskRejected(w) \/ Crash(w)
           \/ CommitLogout(w) \/ ForgetSecret(w)
  PROVE  AnswersGood' /\ EntriesGood'
<1> USE IdleFacts
<1>1. CASE LoginAbandoned(w)
  BY <1>1, TokensFrame DEF LoginAbandoned, Refreshed, At
<1>2. CASE Scan(w)
  <2>1. PICK p \in ProcType :
          /\ proc' = [proc EXCEPT ![w] = p]
          /\ p = Idle \/ (p.rt = proc[w].rt /\ p.got = proc[w].got /\ p.sel = proc[w].sel)
          /\ \/ p.pc \in {"idle", "scan"} /\ p.at = NoTarget
             \/ p.pc = "read" /\ p.at \in proc[w].todo
    BY <1>2, ScanShape
  <2>2. proc[w].rt = None /\ proc[w].got = None
    BY <1>2 DEF Scan, At, CommandsMean, Means
  <2> QED
    BY <1>2, <2>1, <2>2, TokensFrame DEF Scan, Refreshed, At
<1>3. CASE AskFails(w)
  <2>1. PICK p \in ProcType :
          /\ proc' = [proc EXCEPT ![w] = p]
          /\ \/ p.pc \in {"idle", "scan"} /\ p.rt = None
             \/ p.pc = "ask" /\ p.at = proc[w].at /\ p.rt = proc[w].rt
    BY <1>3, RetryShape DEF AskFails, At
  <2> QED
    BY <1>3, <2>1, TokensFrame DEF AskFails, Refreshed, At
<1>4. CASE AskRejected(w)
  <2>1. PICK p \in ProcType :
          /\ proc' = [proc EXCEPT ![w] = p]
          /\ p.pc \in {"idle", "scan"} /\ p.rt = None
    BY <1>4, ProceedShape DEF AskRejected
  <2> QED
    BY <1>4, <2>1, TokensFrame DEF AskRejected, Refreshed, At
<1>5. CASE Crash(w)
  <2>1. \A a \in Accts : Refreshed(w, a) => a \in lost'
    BY <1>5 DEF Crash, Refreshed, InFlight, At
  <2> QED
    BY <1>5, <2>1, TokensFrame DEF Crash
<1>6. CASE CommitLogout(w)
  BY <1>6, TokensFrame DEF CommitLogout, Refreshed, At
<1>7. CASE ForgetSecret(w)
  <2>1. PICK t \in proc[w].todo :
          /\ proc' = [proc EXCEPT ![w].todo = @ \ {t}]
          /\ keyring' = [keyring EXCEPT ![t.acct] = None] \/ UNCHANGED keyring
    BY <1>7 DEF ForgetSecret
  <2>2. \A v \in Procs : /\ proc'[v].pc = proc[v].pc /\ proc'[v].at = proc[v].at
                         /\ proc'[v].rt = proc[v].rt /\ proc'[v].got = proc[v].got
    BY <2>1 DEF TypeOK, ProcType
  <2>3. \A a \in Accts : keyring'[a] # None => keyring'[a] = keyring[a]
    BY <2>1 DEF TypeOK
  <2>4. Answered' = Answered /\ Answered \subseteq Procs
    BY <2>2 DEF Answered
  <2>5. \A v \in Answered : proc[v].at.acct \in Accts
    BY DEF Answered, CommandsMean, Means, Targets
  <2>6. UNCHANGED <<valid, lost>>
    BY <1>7 DEF ForgetSecret
  <2>7. AnswersGood'
    BY <2>2, <2>3, <2>4, <2>5, <2>6 DEF AnswersGood
  <2>8. EntriesGood'
    BY <2>2, <2>3, <2>6 DEF EntriesGood, Refreshed
  <2> QED
    BY <2>7, <2>8
<1> QED
  BY <1>1, <1>2, <1>3, <1>4, <1>5, <1>6, <1>7

\* Steps that read, get, pass on or store a token.
LEMMA WriteTokens ==
  ASSUME TypeOK, CommandsMean, AnswersGood, EntriesGood, NEW w \in Procs,
         LoginApproved(w) \/ CommitRow(w) \/ KeepSecret(w) \/ ReadSecret(w)
           \/ AskLost(w) \/ AskGranted(w) \/ UpdateRow(w)
  PROVE  AnswersGood' /\ EntriesGood'
<1> USE IdleFacts
<1>1. CASE LoginApproved(w)
  <2> DEFINE a == proc[w].at.acct
  <2>0. a \in Accts /\ proc[w].pc = "approve"
    BY <1>1 DEF LoginApproved, At, CommandsMean, Means, Targets
  <2>1. ASSUME NEW s \in Serials \ Held(a), valid' = [valid EXCEPT ![a] = @ \cup {s}],
               proc' = [proc EXCEPT ![w].pc = "commit", ![w].got = s]
        PROVE  AnswersGood' /\ EntriesGood'
    <3> DEFINE p == [proc[w] EXCEPT !.pc = "commit", !.got = s]
    <3>1. /\ p \in ProcType /\ p.pc = "commit" /\ p.rt = proc[w].rt /\ p.got = s
          /\ p.at = proc[w].at /\ s # None
      BY DEF ProcType, TypeOK
    <3>2. proc' = [proc EXCEPT ![w] = p] /\ valid' = [valid EXCEPT ![a] = (@ \ {}) \cup {p.got}]
      BY <2>1, <3>1 DEF TypeOK
    <3> HIDE DEF p
    <3> QED
      BY <1>1, <2>0, <3>1, <3>2, AnswerTokens DEF LoginApproved
  <2>2. CASE Goto(w, "commit") /\ UNCHANGED valid
    <3> DEFINE p == [proc[w] EXCEPT !.pc = "commit"]
    <3>1. /\ p \in ProcType /\ p.pc = "commit" /\ p.rt = proc[w].rt /\ p.at = proc[w].at
          /\ p.got = proc[w].got
      BY DEF ProcType, TypeOK
    <3>2. proc' = [proc EXCEPT ![w] = p]
      BY <2>2 DEF TypeOK, Goto
    <3>3. p.got = None
      BY <2>0, <3>1 DEF CommandsMean, Means
    <3> HIDE DEF p
    <3> QED
      BY <1>1, <2>0, <2>2, <3>1, <3>2, <3>3, TokensFrame DEF LoginApproved, Refreshed
  <2> QED
    BY <1>1, <2>1, <2>2 DEF LoginApproved
<1>2. CASE CommitRow(w)
  BY <1>2 DEF CommitRow, At, TypeOK, ProcType, AnswersGood, EntriesGood, Answered, Refreshed,
             CommandsMean, Means
<1>3. CASE KeepSecret(w)
  <2> DEFINE a == proc[w].at.acct
  <2>1. PICK p \in ProcType :
          /\ proc' = [proc EXCEPT ![w] = p]
          /\ p.pc \in {"idle", "scan"} /\ p.rt = None
    BY <1>3, ProceedShape DEF KeepSecret
  <2>2. \A v \in Procs : proc'[v] = IF v = w THEN p ELSE proc[v]
    BY <2>1 DEF TypeOK
  <2>3. a \in Accts /\ w \in Answered
    BY <1>3 DEF KeepSecret, At, CommandsMean, Means, Targets, Answered
  <2>4. Answered' \subseteq Answered \ {w} /\ Answered \subseteq Procs
    BY <2>1, <2>2 DEF Answered
  <2>5. /\ \A b \in Accts \ {a} : keyring'[b] = keyring[b]
        /\ keyring'[a].rt = proc[w].got
    BY <1>3, <2>3 DEF KeepSecret, NewSecret, TypeOK
  <2>6. \A v \in Answered : proc[v].at.acct \in Accts /\ proc[v].got # None
    BY DEF Answered, CommandsMean, Means, Targets
  <2>7. AnswersGood'
    BY <1>3, <2>1, <2>2, <2>3, <2>4, <2>5, <2>6 DEF KeepSecret, AnswersGood
  <2>8. EntriesGood'
    <3>1. proc[w].got \in valid[a]
      BY <2>3 DEF AnswersGood
    <3> QED
      BY <1>3, <2>2, <2>5, <3>1 DEF KeepSecret, EntriesGood, Refreshed
  <2> QED
    BY <2>7, <2>8
<1>4. CASE ReadSecret(w)
  <2> DEFINE entry == keyring[proc[w].at.acct]
  <2>1. CASE entry = None
    <3>1. PICK p \in ProcType :
            /\ proc' = [proc EXCEPT ![w] = p]
            /\ p.pc \in {"idle", "scan"} /\ p.rt = None
      BY <1>4, <2>1, ProceedShape DEF ReadSecret
    <3> QED
      BY <1>4, <3>1, TokensFrame DEF ReadSecret, Refreshed, At
  <2>2. CASE entry # None
    <3>1. /\ \A v \in Procs \ {w} : proc'[v] = proc[v]
          /\ proc'[w].pc = "ask" /\ proc'[w].at = proc[w].at /\ proc'[w].rt = entry.rt
      BY <1>4, <2>2 DEF ReadSecret, TypeOK, ProcType
    <3>2. Answered' = Answered /\ w \notin Answered /\ Answered \subseteq Procs
      BY <1>4, <3>1 DEF Answered, ReadSecret, At
    <3>3. AnswersGood'
      BY <1>4, <2>2, <3>1, <3>2 DEF AnswersGood, ReadSecret
    <3>4. EntriesGood'
      BY <1>4, <3>1 DEF EntriesGood, ReadSecret, At, Refreshed
    <3> QED
      BY <3>3, <3>4
  <2> QED
    BY <2>1, <2>2
<1>5. CASE AskLost(w)
  <2> DEFINE a == proc[w].at.acct
  <2>1. PICK p \in ProcType :
          /\ proc' = [proc EXCEPT ![w] = p]
          /\ \/ p.pc \in {"idle", "scan"} /\ p.rt = None
             \/ p.pc = "ask" /\ p.at = proc[w].at /\ p.rt = proc[w].rt
    BY <1>5, RetryShape DEF AskLost, At
  <2>2. \A v \in Procs : proc'[v] = IF v = w THEN p ELSE proc[v]
    BY <2>1 DEF TypeOK
  <2>3. Answered' = Answered /\ w \notin Answered /\ Answered \subseteq Procs
    BY <1>5, <2>1, <2>2 DEF Answered, AskLost, At
  <2>4. a \in Accts
    BY <1>5 DEF AskLost, At, CommandsMean, Means, Targets
  <2>5. /\ \A b \in Accts \ {a} : valid'[b] = valid[b]
        /\ valid'[a] = valid[a] \ {proc[w].rt}
    BY <1>5, <2>4 DEF AskLost, TypeOK
  <2>6. \A v \in Answered : proc[v].at.acct \in Accts /\ proc[v].got # None
    BY DEF Answered, CommandsMean, Means, Targets
  <2>7. AnswersGood'
    BY <1>5, <2>1, <2>2, <2>3, <2>5, <2>6 DEF AskLost, AnswersGood
  <2>8. EntriesGood'
    BY <1>5, <2>2, <2>5 DEF AskLost, EntriesGood, Refreshed, At
  <2> QED
    BY <2>7, <2>8
<1>6. CASE AskGranted(w)
  <2> DEFINE a == proc[w].at.acct
  <2>0. a \in Accts /\ proc[w].pc = "ask" /\ proc[w].rt # None
    BY <1>6 DEF AskGranted, At, CommandsMean, Means, Targets
  <2>1. CASE Rotates
    <3>1. PICK s \in Serials \ Held(a) :
            /\ valid' = [valid EXCEPT ![a] = (@ \ {proc[w].rt}) \cup {s}]
            /\ proc' = [proc EXCEPT ![w].pc = "row", ![w].got = s]
      BY <1>6, <2>1 DEF AskGranted
    <3> DEFINE p == [proc[w] EXCEPT !.pc = "row", !.got = s]
    <3>2. /\ p \in ProcType /\ p.pc = "row" /\ p.rt = proc[w].rt /\ p.got = s
          /\ p.at = proc[w].at /\ s # None
      BY DEF ProcType, TypeOK
    <3>3. /\ proc' = [proc EXCEPT ![w] = p]
          /\ valid' = [valid EXCEPT ![a] = (@ \ {p.rt}) \cup {p.got}]
      BY <3>1, <3>2 DEF TypeOK
    <3> HIDE DEF p
    <3> QED
      BY <1>6, <2>0, <2>1, <3>2, <3>3, AnswerTokens DEF AskGranted
  <2>2. CASE ~Rotates
    <3>1. /\ \A v \in Procs \ {w} : proc'[v] = proc[v]
          /\ proc'[w].pc = "row" /\ proc'[w].at = proc[w].at /\ proc'[w].rt = proc[w].rt
          /\ proc'[w].got = proc[w].rt
          /\ UNCHANGED <<valid, keyring, lost>>
      BY <1>6, <2>2 DEF AskGranted, TypeOK, ProcType
    <3>2. AnswersGood'
      BY <1>6, <2>2, <3>1 DEF AskGranted, AnswersGood, Answered
    <3>3. EntriesGood'
      BY <2>0, <3>1 DEF EntriesGood, Refreshed
    <3> QED
      BY <3>2, <3>3
  <2> QED
    BY <2>1, <2>2
<1>7. CASE UpdateRow(w)
  BY <1>7 DEF UpdateRow, At, Goto, TypeOK, ProcType, AnswersGood, EntriesGood, Answered, Refreshed
<1> QED
  BY <1>1, <1>2, <1>3, <1>4, <1>5, <1>6, <1>7

\* Time and providers leave the tokens alone.
LEMMA WorldTokens ==
  ASSUME TypeOK, CommandsMean, AnswersGood, EntriesGood,
         \/ \E p \in Providers : AddProvider(p) \/ RemoveProvider(p)
         \/ Advance
         \/ UNCHANGED vars
  PROVE  AnswersGood' /\ EntriesGood'
<1>1. UNCHANGED <<valid, proc, lost>>
  BY DEF AddProvider, RemoveProvider, Advance, vars
<1>2. \A a \in Accts : keyring'[a] # None => keyring[a] # None /\ keyring'[a].rt = keyring[a].rt
  <2>1. CASE Advance
    BY <2>1 DEF Advance, TypeOK, Blobs
  <2>2. CASE UNCHANGED keyring
    BY <2>2
  <2> QED
    BY <2>1, <2>2 DEF AddProvider, RemoveProvider, vars
<1>3. \A v \in Answered : proc[v].at.acct \in Accts
  BY DEF Answered, CommandsMean, Means, Targets
<1> QED
  BY <1>1, <1>2, <1>3 DEF AnswersGood, EntriesGood, Answered, Refreshed

-----------------------------------------------------------------------------
\* The rows and what the entries promise of them.

\* A step that leaves the rows and the entries alone and takes on no new account.
LEMMA RowsFrame ==
  ASSUME TypeOK, RowsNew, EntriesHonest, OneRowEach,
         NEW w \in Procs, NEW p \in ProcType, proc' = [proc EXCEPT ![w] = p],
         p.pc # "keep", Work(p) \subseteq Pending(w), UNCHANGED <<rows, keyring>>
  PROVE  OneRowEach' /\ RowsNew' /\ EntriesHonest'
<1>1. \A v \in Procs : proc'[v] = IF v = w THEN p ELSE proc[v]
  BY DEF TypeOK
<1>2. \A v \in Procs : Pending(v)' \subseteq Pending(v)
  BY <1>1 DEF Pending
<1>3. \A v \in Procs : proc'[v].pc = "keep" => proc'[v] = proc[v]
  BY <1>1
<1>4. RowsNew'
  BY <1>2, <1>3 DEF RowsNew
<1> QED
  BY <1>4 DEF OneRowEach, EntriesHonest

\* A refresh lists the rows under their own keys.
LEMMA CommandRows ==
  ASSUME TypeOK, CommandsMean, OneRowEach, RowsNew, EntriesHonest, Command
  PROVE  OneRowEach' /\ RowsNew' /\ EntriesHonest'
<1> USE IdleFacts
<1>t. Cli \in Procs /\ Timer \in Procs
  OBVIOUS
<1>1. ASSUME NEW a \in Accts, BeginLogin(Cli, a)
      PROVE  OneRowEach' /\ RowsNew' /\ EntriesHonest'
  <2> DEFINE p == [Idle EXCEPT !.pc = "approve", !.at = [row |-> 0, acct |-> a]]
  <2>1. p \in ProcType /\ p.pc = "approve" /\ p.todo = {}
    BY DEF ProcType, Targets
  <2>2. proc' = [proc EXCEPT ![Cli] = p]
    BY <1>1 DEF BeginLogin
  <2> HIDE DEF p
  <2> QED
    BY <1>1, <1>t, <2>1, <2>2, RowsFrame DEF BeginLogin, Work
<1>2. ASSUME NEW a \in Accts, BeginImport(Cli, a)
      PROVE  OneRowEach' /\ RowsNew' /\ EntriesHonest'
  <2>1. PICK s \in Serials \ Held(a) :
          proc' = [proc EXCEPT ![Cli] = [Idle EXCEPT !.pc = "commit", !.got = s,
                                              !.at = [row |-> 0, acct |-> a]]]
    BY <1>2 DEF BeginImport
  <2> DEFINE p == [Idle EXCEPT !.pc = "commit", !.got = s, !.at = [row |-> 0, acct |-> a]]
  <2>2. p \in ProcType /\ p.pc = "commit" /\ p.todo = {}
    BY DEF ProcType, Targets
  <2>3. proc' = [proc EXCEPT ![Cli] = p]
    BY <2>1
  <2> HIDE DEF p
  <2> QED
    BY <1>2, <1>t, <2>2, <2>3, RowsFrame DEF BeginImport, Work
<1>3. ASSUME NEW u \in Uids, NEW ps \in SUBSET Providers, BeginLogout(Cli, u, ps)
      PROVE  OneRowEach' /\ RowsNew' /\ EntriesHonest'
  <2> DEFINE sel == {r \in rows : r.acct[2] = u /\ r.acct[1] \in ps}
             ts == {[row |-> r.id, acct |-> r.acct] : r \in sel}
             p == [Idle EXCEPT !.pc = "forget", !.todo = ts, !.sel = ts]
  <2>1. ts \subseteq Targets
    BY DEF TypeOK, Rows, Targets
  <2>2. proc' = [proc EXCEPT ![Cli] = p]
    BY <1>3 DEF BeginLogout
  <2> HIDE DEF ts
  <2>3. p \in ProcType /\ p.pc = "forget"
    BY <2>1 DEF ProcType
  <2> HIDE DEF p
  <2> QED
    BY <1>3, <1>t, <2>2, <2>3, RowsFrame DEF BeginLogout, Work
<1>4. ASSUME NEW w \in Procs, NEW us \in SUBSET Uids, NEW due \in BOOLEAN, BeginRefresh(w, us, due)
      PROVE  OneRowEach' /\ RowsNew' /\ EntriesHonest'
  <2> DEFINE ts == {[row |-> r.id, acct |-> r.acct] : r \in {x \in Listed : x.acct[2] \in us}}
             p == [Idle EXCEPT !.pc = "scan", !.todo = ts, !.due = due]
  <2>1. ts \subseteq Targets
    BY DEF TypeOK, Rows, Targets, Listed
  <2>2. UNCHANGED proc \/ proc' = [proc EXCEPT ![w] = p]
    BY <1>4 DEF BeginRefresh
  <2>3. UNCHANGED <<rows, keyring>>
    BY <1>4 DEF BeginRefresh
  <2>4. \A t \in ts : \A r \in rows : r.acct = t.acct => r.id = t.row
    BY DEF OneRowEach, Listed
  <2> HIDE DEF ts
  <2>5. p \in ProcType /\ p.pc = "scan" /\ p.todo = ts
    BY <2>1 DEF ProcType
  <2> HIDE DEF p
  <2>6. CASE UNCHANGED proc
    BY <2>3, <2>6 DEF OneRowEach, RowsNew, EntriesHonest, Pending, Work
  <2>7. CASE proc' = [proc EXCEPT ![w] = p]
    <3>1. \A v \in Procs : proc'[v] = IF v = w THEN p ELSE proc[v]
      BY <2>7 DEF TypeOK
    <3>2. Pending(w)' = ts /\ \A v \in Procs \ {w} : Pending(v)' = Pending(v)
      BY <2>5, <3>1 DEF Pending, Work
    <3>3. RowsNew'
      BY <2>3, <2>4, <2>5, <3>1, <3>2 DEF RowsNew
    <3> QED
      BY <2>3, <3>3 DEF OneRowEach, EntriesHonest
  <2> QED
    BY <2>2, <2>6, <2>7
<1> QED
  BY <1>t, <1>1, <1>2, <1>3, <1>4 DEF Command

\* Steps that write neither a row nor an entry.
LEMMA MoveShape ==
  ASSUME TypeOK, CommandsMean, NEW w \in Procs,
         \/ LoginApproved(w) \/ LoginAbandoned(w) \/ Scan(w) \/ ReadSecret(w)
         \/ AskFails(w) \/ AskLost(w) \/ AskRejected(w) \/ AskGranted(w) \/ Crash(w)
  PROVE  /\ UNCHANGED <<rows, keyring, overlapped>>
         /\ \E p \in ProcType :
              /\ proc' = [proc EXCEPT ![w] = p]
              /\ p.pc \notin {"keep", "forget"} /\ Work(p) \subseteq Pending(w)
<1> USE IdleFacts
<1>0. UNCHANGED <<rows, keyring, overlapped>>
  BY DEF LoginApproved, LoginAbandoned, Scan, ReadSecret, AskFails, AskLost, AskRejected,
         AskGranted, Crash
<1>1. CASE LoginApproved(w)
  <2>1. proc[w].todo = {}
    BY <1>1 DEF LoginApproved, At, CommandsMean, Means
  <2>2. \E p \in ProcType : /\ proc' = [proc EXCEPT ![w] = p]
                            /\ p.pc = "commit" /\ p.todo = {}
    <3>1. CASE Goto(w, "commit")
      <4> DEFINE p == [proc[w] EXCEPT !.pc = "commit"]
      <4>1. p \in ProcType /\ p.pc = "commit" /\ p.todo = {}
        BY <2>1 DEF TypeOK, ProcType
      <4> QED
        BY <3>1, <4>1 DEF Goto, TypeOK
    <3>2. ASSUME NEW s \in Serials, proc' = [proc EXCEPT ![w].pc = "commit", ![w].got = s]
          PROVE  \E p \in ProcType : /\ proc' = [proc EXCEPT ![w] = p]
                                     /\ p.pc = "commit" /\ p.todo = {}
      <4> DEFINE p == [proc[w] EXCEPT !.pc = "commit", !.got = s]
      <4>1. p \in ProcType /\ p.pc = "commit" /\ p.todo = {}
        BY <2>1 DEF TypeOK, ProcType
      <4> QED
        BY <3>2, <4>1 DEF TypeOK
    <3> QED
      BY <1>1, <3>1, <3>2 DEF LoginApproved
  <2> QED
    BY <1>0, <2>2 DEF Work
<1>2. CASE LoginAbandoned(w) \/ Crash(w)
  BY <1>0, <1>2 DEF LoginAbandoned, Crash, Work
<1>3. CASE Scan(w)
  <2>1. PICK p \in ProcType :
          /\ proc' = [proc EXCEPT ![w] = p]
          /\ p.todo \subseteq proc[w].todo
          /\ \/ p.pc \in {"idle", "scan"} /\ p.at = NoTarget
             \/ p.pc = "read" /\ p.at \in proc[w].todo
    BY <1>3, ScanShape
  <2>2. Work(p) \subseteq Pending(w)
    BY <1>3, <2>1 DEF Scan, At, Work, Pending
  <2> QED
    BY <1>0, <2>1, <2>2
<1>4. CASE AskFails(w) \/ AskLost(w)
  <2>1. PICK p \in ProcType :
          /\ proc' = [proc EXCEPT ![w] = p]
          /\ p.todo = proc[w].todo
          /\ \/ p.pc \in {"idle", "scan"}
             \/ p.pc = "ask" /\ p.at = proc[w].at
    BY <1>4, RetryShape DEF AskFails, AskLost, At
  <2>2. Work(p) \subseteq Pending(w)
    BY <1>4, <2>1 DEF AskFails, AskLost, At, Work, Pending
  <2> QED
    BY <1>0, <2>1, <2>2
<1>5. CASE Proceed(w) /\ proc[w].pc # "forget"
  <2>1. PICK p \in ProcType :
          /\ proc' = [proc EXCEPT ![w] = p]
          /\ p.todo = proc[w].todo /\ p.pc \in {"idle", "scan"}
    BY <1>5, ProceedShape
  <2>2. Work(p) \subseteq Pending(w)
    BY <1>5, <2>1 DEF Work, Pending
  <2> QED
    BY <1>0, <2>1, <2>2
<1>6. CASE AskRejected(w)
  BY <1>5, <1>6 DEF AskRejected, At
<1>7. CASE ReadSecret(w)
  <2>1. CASE Proceed(w)
    BY <1>5, <1>7, <2>1 DEF ReadSecret, At
  <2>2. CASE keyring[proc[w].at.acct] # None
    <3> DEFINE p == [proc[w] EXCEPT !.pc = "ask", !.rt = keyring[proc[w].at.acct].rt]
    <3>1. proc[w].at.acct \in Accts
      BY <1>7 DEF ReadSecret, At, CommandsMean, Means, Targets
    <3>2. proc' = [proc EXCEPT ![w] = p]
      BY <1>7, <2>2 DEF ReadSecret, TypeOK, ProcType
    <3>3. p \in ProcType /\ p.pc = "ask" /\ p.at = proc[w].at /\ p.todo = proc[w].todo
      BY <2>2, <3>1 DEF TypeOK, ProcType, Blobs
    <3> HIDE DEF p
    <3>4. Work(p) \subseteq Pending(w)
      BY <1>7, <3>3 DEF ReadSecret, At, Work, Pending
    <3> QED
      BY <1>0, <3>2, <3>3, <3>4
  <2> QED
    BY <1>7, <2>1, <2>2 DEF ReadSecret
<1>8. CASE AskGranted(w)
  <2>1. PICK s \in Serials \cup {None} :
          proc' = [proc EXCEPT ![w] = [proc[w] EXCEPT !.pc = "row", !.got = s]]
    <3>1. \E s \in Serials \cup {None} : proc' = [proc EXCEPT ![w].pc = "row", ![w].got = s]
      BY <1>8 DEF AskGranted, TypeOK, ProcType
    <3> QED
      BY <3>1 DEF TypeOK, ProcType
  <2> DEFINE p == [proc[w] EXCEPT !.pc = "row", !.got = s]
  <2>2. p \in ProcType /\ p.pc = "row" /\ p.todo = proc[w].todo /\ p.at = proc[w].at
    BY DEF TypeOK, ProcType
  <2>3. proc' = [proc EXCEPT ![w] = p]
    BY <2>1
  <2> HIDE DEF p
  <2>4. Work(p) \subseteq Pending(w)
    BY <1>8, <2>2 DEF AskGranted, At, Work, Pending
  <2> QED
    BY <1>0, <2>2, <2>3, <2>4
<1> QED
  BY <1>1, <1>2, <1>3, <1>4, <1>6, <1>7, <1>8

\* Steps that write nothing keep what the entries promise.
LEMMA MoveRows ==
  ASSUME TypeOK, CommandsMean, OneRowEach, RowsNew, EntriesHonest, NEW w \in Procs,
         \/ LoginApproved(w) \/ LoginAbandoned(w) \/ Scan(w) \/ ReadSecret(w)
         \/ AskFails(w) \/ AskLost(w) \/ AskRejected(w) \/ AskGranted(w) \/ Crash(w)
  PROVE  OneRowEach' /\ RowsNew' /\ EntriesHonest'
BY MoveShape, RowsFrame

\* Steps that write rows or entries.
LEMMA WriteRows ==
  ASSUME TypeOK, CommandsMean, OneRowEach, RowsNew, EntriesHonest, NEW w \in Procs,
         \/ CommitRow(w) \/ KeepSecret(w) \/ ForgetSecret(w) \/ CommitLogout(w) \/ UpdateRow(w)
  PROVE  OneRowEach' /\ RowsNew' /\ EntriesHonest'
<1> USE IdleFacts
<1> DEFINE a == proc[w].at.acct
<1>r. /\ \A r \in rows : r.acct \in Accts /\ r.token.ttl \in 0..Life /\ r.token.ttl <= Life
      /\ Life \in Nat
  BY DEF TypeOK, Rows, Tokens
<1>k. \A b \in Accts : keyring[b] # None => keyring[b].ttl \in 0..Life
  BY DEF TypeOK, Blobs
<1>1. CASE CommitRow(w)
  <2>1. a \in Accts /\ proc[w].todo = {} /\ proc[w].pc = "commit"
    BY <1>1 DEF CommitRow, At, CommandsMean, Means, Targets
  <2>2. /\ \A s \in rows' : (s \in rows /\ s.acct # a) \/ (s.acct = a /\ s.token.ttl = Life)
        /\ OneRowEach'
    <3>1. CASE HasRow(a)
      <4>1. rows' = Overwritten(a)
        BY <1>1, <3>1 DEF CommitRow
      <4> DEFINE Written(r) == [r EXCEPT !.token = FreshToken(a)]
      <4>2. \A r \in rows : Written(r).acct = r.acct /\ Written(r).token.ttl = Life
        BY DEF TypeOK, Rows, FreshToken
      <4>3. rows' = {IF r.acct = a THEN Written(r) ELSE r : r \in rows}
        BY <4>1 DEF Overwritten
      <4> HIDE DEF Written, a
      <4>4. \A s \in rows' : \E r \in rows :
              s.acct = r.acct /\ s = IF r.acct = a THEN Written(r) ELSE r
        BY <4>2, <4>3
      <4>5. OneRowEach'
        BY <4>4 DEF OneRowEach
      <4>6. \A s \in rows' : (s \in rows /\ s.acct # a) \/ (s.acct = a /\ s.token.ttl = Life)
        <5> SUFFICES ASSUME NEW s \in rows'
                     PROVE  (s \in rows /\ s.acct # a) \/ (s.acct = a /\ s.token.ttl = Life)
          OBVIOUS
        <5>1. PICK r \in rows : s.acct = r.acct /\ s = IF r.acct = a THEN Written(r) ELSE r
          BY <4>4
        <5> QED
          BY <4>2, <5>1
      <4> QED
        BY <4>5, <4>6
    <3>2. CASE ~HasRow(a)
      <4>1. PICK i \in RowIds : rows' = rows \cup {[id |-> i, acct |-> a, token |-> FreshToken(a)]}
        BY <1>1, <3>2 DEF CommitRow, Added, FreeRowIds
      <4>2. \A r \in rows : r.acct # a
        BY <3>2 DEF HasRow
      <4> DEFINE new == [id |-> i, acct |-> a, token |-> FreshToken(a)]
      <4>3. new.acct = a /\ new.token.ttl = Life /\ rows' = rows \cup {new}
        BY <4>1 DEF FreshToken
      <4> HIDE DEF new, a
      <4>4. \A s \in rows' : (s \in rows /\ s.acct # a) \/ (s.acct = a /\ s.token.ttl = Life)
        BY <4>2, <4>3
      <4>5. OneRowEach'
        BY <4>2, <4>3 DEF OneRowEach
      <4> QED
        BY <4>4, <4>5
    <3> QED
      BY <3>1, <3>2
  <2>3. /\ \A v \in Procs \ {w} : proc'[v] = proc[v]
        /\ proc'[w].pc \in {"idle", "keep"} /\ proc'[w].todo = {}
        /\ proc'[w].pc = "keep" => proc'[w].at.acct = a
    BY <1>1, <2>1 DEF CommitRow, TypeOK, ProcType
  <2>4. \A v \in Procs : Pending(v)' \subseteq Pending(v)
    BY <2>3 DEF Pending, Work
  <2>5. RowsNew'
    BY <2>2, <2>3, <2>4 DEF RowsNew
  <2>6. EntriesHonest'
    BY <1>1, <1>r, <1>k, <2>1, <2>2 DEF CommitRow, EntriesHonest
  <2> QED
    BY <2>2, <2>5, <2>6
<1>2. CASE KeepSecret(w)
  <2>1. PICK p \in ProcType :
          /\ proc' = [proc EXCEPT ![w] = p]
          /\ p.todo = proc[w].todo /\ p.pc \in {"idle", "scan"}
    BY <1>2, ProceedShape DEF KeepSecret
  <2>2. \A v \in Procs : proc'[v] = IF v = w THEN p ELSE proc[v]
    BY <2>1 DEF TypeOK
  <2>3. \A v \in Procs : Pending(v)' \subseteq Pending(v)
    BY <1>2, <2>1, <2>2 DEF KeepSecret, At, Pending, Work
  <2>4. RowsNew' /\ OneRowEach'
    BY <1>2, <2>1, <2>2, <2>3 DEF KeepSecret, RowsNew, OneRowEach
  <2>5. a \in Accts
    BY <1>2 DEF KeepSecret, At, CommandsMean, Means, Targets
  <2>6. \A b \in Accts : keyring'[b] = IF b = a THEN [rt |-> NewSecret(w), ttl |-> Life]
                                       ELSE keyring[b]
    BY <1>2, <2>5 DEF KeepSecret, TypeOK
  <2>7. \A r \in rows : r.acct = a => r.token.ttl = Life
    BY <1>2 DEF KeepSecret, At, RowsNew
  <2>8. EntriesHonest'
    BY <1>2, <1>r, <2>6, <2>7 DEF KeepSecret, EntriesHonest
  <2> QED
    BY <2>4, <2>8
<1>3. CASE ForgetSecret(w)
  <2>1. PICK t \in proc[w].todo :
          /\ proc' = [proc EXCEPT ![w].todo = @ \ {t}]
          /\ keyring' = [keyring EXCEPT ![t.acct] = None] \/ UNCHANGED keyring
    BY <1>3 DEF ForgetSecret
  <2>2. \A v \in Procs : /\ proc'[v].pc = proc[v].pc /\ proc'[v].at = proc[v].at
                         /\ proc'[v].todo \subseteq proc[v].todo
    BY <2>1 DEF TypeOK, ProcType
  <2>3. \A b \in Accts : keyring'[b] # None => keyring'[b] = keyring[b]
    BY <2>1 DEF TypeOK
  <2>4. \A v \in Procs : Pending(v)' \subseteq Pending(v)
    BY <2>2 DEF Pending, Work
  <2>5. RowsNew' /\ OneRowEach'
    BY <1>3, <2>2, <2>4 DEF ForgetSecret, RowsNew, OneRowEach
  <2>6. EntriesHonest'
    BY <1>3, <1>r, <2>3 DEF ForgetSecret, EntriesHonest
  <2> QED
    BY <2>5, <2>6
<1>4. CASE CommitLogout(w)
  <2>1. proc' = [proc EXCEPT ![w] = Idle] /\ rows' \subseteq rows /\ UNCHANGED keyring
    BY <1>4 DEF CommitLogout
  <2>2. \A v \in Procs : proc'[v] = IF v = w THEN Idle ELSE proc[v]
    BY <2>1 DEF TypeOK
  <2>3. \A v \in Procs : Pending(v)' \subseteq Pending(v)
    BY <2>2 DEF Pending, Work
  <2>4. RowsNew'
    BY <2>1, <2>2, <2>3 DEF RowsNew
  <2> QED
    BY <2>1, <2>4 DEF OneRowEach, EntriesHonest
<1>5. CASE UpdateRow(w)
  <2> DEFINE t == proc[w].at
             Written(r) == [r EXCEPT !.token = FreshToken(t.acct)]
  <2>1. t \in Targets /\ t \in Pending(w) /\ proc[w].pc = "row"
    BY <1>5 DEF UpdateRow, At, CommandsMean, Means, Pending, Work
  <2>2. rows' = {IF r.id = t.row THEN Written(r) ELSE r : r \in rows}
    BY <1>5 DEF UpdateRow
  <2>3. \A r \in rows : /\ Written(r).id = r.id /\ Written(r).acct = r.acct
                        /\ Written(r).token.ttl = Life
    BY DEF TypeOK, Rows, FreshToken
  <2> HIDE DEF Written, t
  <2>4. \A s \in rows' : \E r \in rows :
          /\ s = IF r.id = t.row THEN Written(r) ELSE r
          /\ s.id = r.id /\ s.acct = r.acct
          /\ s.token.ttl = Life \/ (s = r /\ r.id # t.row)
    <3> SUFFICES ASSUME NEW s \in rows'
                 PROVE  \E r \in rows : /\ s = IF r.id = t.row THEN Written(r) ELSE r
                                        /\ s.id = r.id /\ s.acct = r.acct
                                        /\ s.token.ttl = Life \/ (s = r /\ r.id # t.row)
      OBVIOUS
    <3>1. PICK r \in rows : s = IF r.id = t.row THEN Written(r) ELSE r
      BY <2>2
    <3> QED
      BY <2>3, <3>1
  <2>5. OneRowEach'
    BY <2>4 DEF OneRowEach
  <2>6. /\ \A v \in Procs : v # w => proc'[v] = proc[v]
        /\ proc'[w].pc = "keep" /\ proc'[w].at = t /\ proc'[w].todo = proc[w].todo
    BY <1>5 DEF UpdateRow, Goto, TypeOK, ProcType, t
  <2>7. \A v \in Procs : Pending(v)' \subseteq Pending(v)
    BY <2>1, <2>6 DEF Pending, Work
  <2>8. RowsNew'
    <3>1. ASSUME NEW v \in Procs, NEW x \in Pending(v)', NEW s \in rows', s.acct = x.acct
          PROVE  s.id = x.row \/ s.token.ttl = Life
      BY <2>4, <2>7, <3>1 DEF RowsNew
    <3>2. ASSUME NEW v \in Procs, NEW s \in rows', proc'[v].pc = "keep",
                 s.acct = proc'[v].at.acct
          PROVE  s.token.ttl = Life
      <4>1. CASE v = w
        BY <2>1, <2>4, <2>6, <3>2, <4>1 DEF RowsNew
      <4>2. CASE v # w
        BY <2>4, <2>6, <3>2, <4>2 DEF RowsNew
      <4> QED
        BY <4>1, <4>2
    <3> QED
      BY <3>1, <3>2 DEF RowsNew
  <2>9. EntriesHonest'
    <3>1. UNCHANGED keyring
      BY <1>5 DEF UpdateRow
    <3> QED
      BY <1>r, <1>k, <2>4, <3>1 DEF EntriesHonest
  <2> QED
    BY <2>5, <2>8, <2>9
<1> QED
  BY <1>1, <1>2, <1>3, <1>4, <1>5

\* Entries and rows age together.
LEMMA WorldRows ==
  ASSUME TypeOK, CommandsMean, OneRowEach, RowsNew, EntriesHonest,
         \/ \E p \in Providers : AddProvider(p) \/ RemoveProvider(p)
         \/ Advance
         \/ UNCHANGED vars
  PROVE  OneRowEach' /\ RowsNew' /\ EntriesHonest'
<1>1. CASE UNCHANGED <<rows, keyring, proc>>
  BY <1>1 DEF OneRowEach, RowsNew, EntriesHonest, Pending, Work
<1>2. CASE Advance
  <2> DEFINE Aged(r) == [r EXCEPT !.token.ttl = Less(@)]
  <2>1. rows' = {Aged(r) : r \in rows} /\ UNCHANGED proc
    BY <1>2 DEF Advance
  <2>2. \A r \in rows : /\ Aged(r).acct = r.acct /\ Aged(r).token.ttl = Less(r.token.ttl)
                        /\ r.acct \in Accts /\ r.token.ttl \in 0..Life
    BY DEF TypeOK, Rows, Tokens
  <2> HIDE DEF Aged
  <2>3. OneRowEach'
    BY <2>1, <2>2 DEF OneRowEach
  <2>4. \A w \in Procs : Pending(w)' = {} /\ proc[w].pc # "keep"
    BY <1>2, <2>1 DEF Advance, Waiting, Pending, Work, CommandsMean, Means
  <2>5. RowsNew'
    BY <2>1, <2>4 DEF RowsNew
  <2>6. \A b \in Accts : keyring'[b] # None =>
          keyring[b] # None /\ keyring[b].ttl \in 0..Life /\ keyring'[b].ttl = Less(keyring[b].ttl)
    BY <1>2 DEF Advance, TypeOK, Blobs
  <2>7. \A m, n \in 0..Life : m <= n => Less(m) <= Less(n)
    BY DEF Less
  <2>8. EntriesHonest'
    BY <2>1, <2>2, <2>6, <2>7 DEF EntriesHonest
  <2> QED
    BY <2>3, <2>5, <2>8
<1> QED
  BY <1>1, <1>2 DEF AddProvider, RemoveProvider, vars

-----------------------------------------------------------------------------
\* Entries have rows.

\* A step that leaves rows and entries alone: the accounts it takes on have rows.
LEMMA KeptFrame ==
  ASSUME TypeOK, RowsKept,
         NEW w \in Procs, NEW p \in ProcType, proc' = [proc EXCEPT ![w] = p],
         p.pc \notin {"keep", "forget"}, UNCHANGED <<rows, keyring, overlapped>>,
         \A t \in Work(p) : HasRow(t.acct) \/ t.acct \in overlapped
  PROVE  RowsKept'
<1>1. \A v \in Procs : proc'[v] = IF v = w THEN p ELSE proc[v]
  BY DEF TypeOK
<1>2. \A b \in Accts : HasRow(b)' <=> HasRow(b)
  BY DEF HasRow
<1>3. \A b : HasRow(b)' <=> HasRow(b)
  BY DEF HasRow
<1>4. \A v \in Procs \ {w} : Busy(v)' = Busy(v)
  BY <1>1 DEF Busy, Pending
<1>5. Busy(w)' = {t.acct : t \in Work(p)}
  BY <1>1 DEF Busy, Pending
<1>6. \A v \in Procs : \A b \in Busy(v)' : HasRow(b)' \/ b \in overlapped'
  BY <1>3, <1>4, <1>5 DEF RowsKept
<1>7. \A v \in Procs : proc'[v].pc = "forget" =>
        \A t \in proc'[v].sel \ proc'[v].todo : keyring'[t.acct] = None \/ t.acct \in overlapped'
  BY <1>1 DEF RowsKept
<1>8. \A b \in Accts : keyring'[b] # None => HasRow(b)' \/ b \in overlapped'
  BY <1>3 DEF RowsKept
<1> QED
  BY <1>6, <1>7, <1>8 DEF RowsKept

\* Steps that write nothing take on no account.
LEMMA MoveKept ==
  ASSUME TypeOK, CommandsMean, RowsKept, NEW w \in Procs,
         \/ LoginApproved(w) \/ LoginAbandoned(w) \/ Scan(w) \/ ReadSecret(w)
         \/ AskFails(w) \/ AskLost(w) \/ AskRejected(w) \/ AskGranted(w) \/ Crash(w)
  PROVE  RowsKept'
<1>1. UNCHANGED <<rows, keyring, overlapped>>
  BY MoveShape
<1>2. PICK p \in ProcType :
        /\ proc' = [proc EXCEPT ![w] = p]
        /\ p.pc \notin {"keep", "forget"} /\ Work(p) \subseteq Pending(w)
  BY MoveShape
<1>3. \A t \in Work(p) : HasRow(t.acct) \/ t.acct \in overlapped
  BY <1>2 DEF RowsKept, Busy
<1> QED
  BY <1>1, <1>2, <1>3, KeptFrame

\* The accounts a refresh takes on have rows.
LEMMA CommandKept ==
  ASSUME TypeOK, CommandsMean, RowsKept, Command
  PROVE  RowsKept'
<1> USE IdleFacts
<1>t. Cli \in Procs /\ Timer \in Procs
  OBVIOUS
<1>1. ASSUME NEW a \in Accts, BeginLogin(Cli, a) PROVE RowsKept'
  <2> DEFINE p == [Idle EXCEPT !.pc = "approve", !.at = [row |-> 0, acct |-> a]]
  <2>1. p \in ProcType /\ p.pc = "approve" /\ p.todo = {}
    BY DEF ProcType, Targets
  <2>2. proc' = [proc EXCEPT ![Cli] = p]
    BY <1>1 DEF BeginLogin
  <2> HIDE DEF p
  <2> QED
    BY <1>1, <1>t, <2>1, <2>2, KeptFrame DEF BeginLogin, Work
<1>2. ASSUME NEW a \in Accts, BeginImport(Cli, a) PROVE RowsKept'
  <2>1. PICK s \in Serials \ Held(a) :
          proc' = [proc EXCEPT ![Cli] = [Idle EXCEPT !.pc = "commit", !.got = s,
                                              !.at = [row |-> 0, acct |-> a]]]
    BY <1>2 DEF BeginImport
  <2> DEFINE p == [Idle EXCEPT !.pc = "commit", !.got = s, !.at = [row |-> 0, acct |-> a]]
  <2>2. p \in ProcType /\ p.pc = "commit" /\ p.todo = {}
    BY DEF ProcType, Targets
  <2>3. proc' = [proc EXCEPT ![Cli] = p]
    BY <2>1
  <2> HIDE DEF p
  <2> QED
    BY <1>2, <1>t, <2>2, <2>3, KeptFrame DEF BeginImport, Work
<1>3. ASSUME NEW u \in Uids, NEW ps \in SUBSET Providers, BeginLogout(Cli, u, ps)
      PROVE  RowsKept'
  <2> DEFINE sel == {r \in rows : r.acct[2] = u /\ r.acct[1] \in ps}
             ts == {[row |-> r.id, acct |-> r.acct] : r \in sel}
             p == [Idle EXCEPT !.pc = "forget", !.todo = ts, !.sel = ts]
  <2>1. ts \subseteq Targets
    BY DEF TypeOK, Rows, Targets
  <2>2. proc' = [proc EXCEPT ![Cli] = p]
    BY <1>3 DEF BeginLogout
  <2> HIDE DEF ts
  <2>3. p \in ProcType /\ p.pc = "forget" /\ p.sel = p.todo
    BY <2>1 DEF ProcType
  <2> HIDE DEF p
  <2>4. \A v \in Procs : proc'[v] = IF v = Cli THEN p ELSE proc[v]
    BY <2>2 DEF TypeOK
  <2>5. \A b : HasRow(b)' <=> HasRow(b)
    BY <1>3 DEF BeginLogout, HasRow
  <2>6. Busy(Cli)' = {} /\ \A v \in Procs \ {Cli} : Busy(v)' = Busy(v)
    BY <2>3, <2>4 DEF Busy, Pending, Work
  <2>7. UNCHANGED <<keyring, overlapped>>
    BY <1>3 DEF BeginLogout
  <2> QED
    BY <2>3, <2>4, <2>5, <2>6, <2>7 DEF RowsKept
<1>4. ASSUME NEW w \in Procs, NEW us \in SUBSET Uids, NEW due \in BOOLEAN, BeginRefresh(w, us, due)
      PROVE  RowsKept'
  <2> DEFINE ts == {[row |-> r.id, acct |-> r.acct] : r \in {x \in Listed : x.acct[2] \in us}}
             p == [Idle EXCEPT !.pc = "scan", !.todo = ts, !.due = due]
  <2>1. ts \subseteq Targets
    BY DEF TypeOK, Rows, Targets, Listed
  <2>2. UNCHANGED proc \/ proc' = [proc EXCEPT ![w] = p]
    BY <1>4 DEF BeginRefresh
  <2>3. UNCHANGED <<rows, keyring, overlapped>>
    BY <1>4 DEF BeginRefresh
  <2>4. \A t \in ts : HasRow(t.acct)
    BY DEF HasRow, Listed
  <2> HIDE DEF ts
  <2>5. p \in ProcType /\ p.pc = "scan" /\ p.todo = ts
    BY <2>1 DEF ProcType
  <2> HIDE DEF p
  <2>6. CASE UNCHANGED proc
    BY <2>3, <2>6 DEF RowsKept, HasRow, Busy, Pending, Work
  <2>7. CASE proc' = [proc EXCEPT ![w] = p]
    BY <2>3, <2>4, <2>5, <2>7, KeptFrame DEF Work
  <2> QED
    BY <2>2, <2>6, <2>7
<1> QED
  BY <1>t, <1>1, <1>2, <1>3, <1>4 DEF Command

\* Entries are written for accounts with rows; rows go after their entries.
LEMMA WriteKept ==
  ASSUME TypeOK, CommandsMean, RowsKept, NEW w \in Procs,
         \/ CommitRow(w) \/ KeepSecret(w) \/ ForgetSecret(w) \/ CommitLogout(w) \/ UpdateRow(w)
  PROVE  RowsKept'
<1> USE IdleFacts
<1> DEFINE a == proc[w].at.acct
<1>1. CASE CommitRow(w)
  <2>1. a \in Accts /\ proc[w].todo = {} /\ proc[w].pc = "commit" /\ w = Cli
    BY <1>1 DEF CommitRow, At, CommandsMean, Means, Targets
  <2>2. /\ \A b : b = a => HasRow(b)'
        /\ \A b : HasRow(b) => HasRow(b)'
    <3>1. CASE HasRow(a)
      <4>1. rows' = Overwritten(a)
        BY <1>1, <3>1 DEF CommitRow
      <4> DEFINE Written(r) == [r EXCEPT !.token = FreshToken(a)]
      <4>2. \A r \in rows : Written(r).acct = r.acct
        BY DEF TypeOK, Rows
      <4>3. rows' = {IF r.acct = a THEN Written(r) ELSE r : r \in rows}
        BY <4>1 DEF Overwritten
      <4> HIDE DEF Written, a
      <4>4. \A b : HasRow(b) => HasRow(b)'
        <5> SUFFICES ASSUME NEW r \in rows PROVE \E s \in rows' : s.acct = r.acct
          BY DEF HasRow
        <5>1. (IF r.acct = a THEN Written(r) ELSE r) \in rows'
          BY <4>3
        <5> QED
          BY <4>2, <5>1
      <4> QED
        BY <3>1, <4>4
    <3>2. CASE ~HasRow(a)
      <4>1. PICK i \in RowIds : rows' = rows \cup {[id |-> i, acct |-> a, token |-> FreshToken(a)]}
        BY <1>1, <3>2 DEF CommitRow, Added, FreeRowIds
      <4> DEFINE new == [id |-> i, acct |-> a, token |-> FreshToken(a)]
      <4>2. new.acct = a /\ new \in rows' /\ rows \subseteq rows'
        BY <4>1
      <4> HIDE DEF new, a
      <4> QED
        BY <4>2 DEF HasRow
    <3> QED
      BY <3>1, <3>2
  <2>3. /\ \A v \in Procs \ {w} : proc'[v] = proc[v]
        /\ proc'[w].pc \in {"idle", "keep"} /\ proc'[w].todo = {}
        /\ proc'[w].pc = "keep" => proc'[w].at.acct = a
    BY <1>1, <2>1 DEF CommitRow, TypeOK, ProcType
  <2>4. Busy(w)' \subseteq {a} /\ \A v \in Procs \ {w} : Busy(v)' = Busy(v)
    BY <2>3 DEF Busy, Pending, Work
  <2>5. UNCHANGED keyring /\ overlapped' = overlapped \ {a}
    BY <1>1 DEF CommitRow
  <2>6. \A v \in Procs : proc'[v].pc # "forget"
    BY <2>1, <2>3 DEF CommandsMean, Means
  <2> QED
    BY <2>2, <2>4, <2>5, <2>6 DEF RowsKept
<1>2. CASE KeepSecret(w)
  <2>1. PICK p \in ProcType :
          /\ proc' = [proc EXCEPT ![w] = p]
          /\ p.todo = proc[w].todo /\ p.pc \in {"idle", "scan"}
    BY <1>2, ProceedShape DEF KeepSecret
  <2>2. \A v \in Procs : proc'[v] = IF v = w THEN p ELSE proc[v]
    BY <2>1 DEF TypeOK
  <2>3. \A v \in Procs : Busy(v)' \subseteq Busy(v)
    BY <1>2, <2>1, <2>2 DEF KeepSecret, At, Busy, Pending, Work
  <2>4. a \in Accts /\ a \in Busy(w)
    BY <1>2 DEF KeepSecret, At, CommandsMean, Means, Targets, Busy
  <2>5. \A b \in Accts \ {a} : keyring'[b] = keyring[b]
    BY <1>2, <2>4 DEF KeepSecret, TypeOK
  <2>6. /\ overlapped \subseteq overlapped'
        /\ \A v \in Procs : \A t \in proc[v].sel \ proc[v].todo : t.acct = a => a \in overlapped'
    BY <1>2 DEF KeepSecret
  <2>7. \A b : HasRow(b)' <=> HasRow(b)
    BY <1>2 DEF KeepSecret, HasRow
  <2>8. \A b \in Accts : keyring'[b] # None => HasRow(b)' \/ b \in overlapped'
    BY <2>4, <2>5, <2>6, <2>7 DEF RowsKept
  <2>9. \A v \in Procs : \A b \in Busy(v)' : HasRow(b)' \/ b \in overlapped'
    BY <2>3, <2>6, <2>7 DEF RowsKept
  <2>10. ASSUME NEW v \in Procs, proc'[v].pc = "forget", NEW t \in proc'[v].sel \ proc'[v].todo
         PROVE  keyring'[t.acct] = None \/ t.acct \in overlapped'
    <3>1. proc'[v] = proc[v] /\ t.acct \in Accts
      BY <2>1, <2>2, <2>10 DEF TypeOK, ProcType, Targets
    <3> QED
      BY <2>5, <2>6, <2>10, <3>1 DEF RowsKept
  <2> QED
    BY <2>8, <2>9, <2>10 DEF RowsKept
<1>3. CASE ForgetSecret(w)
  <2>1. PICK t \in proc[w].todo :
          /\ proc' = [proc EXCEPT ![w].todo = @ \ {t}]
          /\ \/ keyring' = [keyring EXCEPT ![t.acct] = None] /\ UNCHANGED overlapped
             \/ overlapped' = overlapped \cup {t.acct} /\ UNCHANGED keyring
    BY <1>3 DEF ForgetSecret
  <2>2. /\ \A v \in Procs : /\ proc'[v].pc = proc[v].pc /\ proc'[v].at = proc[v].at
                            /\ proc'[v].sel = proc[v].sel
        /\ proc'[w].todo = proc[w].todo \ {t}
        /\ \A v \in Procs \ {w} : proc'[v].todo = proc[v].todo
    BY <2>1 DEF TypeOK, ProcType
  <2>3. /\ \A b \in Accts : keyring'[b] # None => keyring'[b] = keyring[b]
        /\ t.acct \in Accts
        /\ keyring'[t.acct] = None \/ t.acct \in overlapped'
        /\ overlapped \subseteq overlapped'
    BY <2>1 DEF TypeOK, ProcType, Targets
  <2>4. \A v \in Procs : Busy(v)' \subseteq Busy(v)
    BY <2>2 DEF Busy, Pending, Work
  <2>5. \A b : HasRow(b)' <=> HasRow(b)
    BY <1>3 DEF ForgetSecret, HasRow
  <2>6. ASSUME NEW v \in Procs, proc'[v].pc = "forget", NEW x \in proc'[v].sel \ proc'[v].todo
        PROVE  keyring'[x.acct] = None \/ x.acct \in overlapped'
    <3>1. x.acct \in Accts /\ x \in proc[v].sel /\ proc[v].pc = "forget"
      BY <2>2, <2>6 DEF TypeOK, ProcType, Targets
    <3>2. x = t \/ x \notin proc[v].todo
      BY <2>2, <2>6
    <3> QED
      BY <2>3, <3>1, <3>2 DEF RowsKept
  <2>7. \A b \in Accts : keyring'[b] # None => HasRow(b)' \/ b \in overlapped'
    BY <2>3, <2>5 DEF RowsKept
  <2>8. \A v \in Procs : \A b \in Busy(v)' : HasRow(b)' \/ b \in overlapped'
    BY <2>3, <2>4, <2>5 DEF RowsKept
  <2> QED
    BY <2>6, <2>7, <2>8 DEF RowsKept
<1>4. CASE CommitLogout(w)
  <2> DEFINE gone == {r \in rows : [row |-> r.id, acct |-> r.acct] \in proc[w].sel}
  <2>1. /\ proc' = [proc EXCEPT ![w] = Idle] /\ UNCHANGED keyring
        /\ rows' = rows \ gone /\ overlapped \subseteq overlapped'
        /\ proc[w].todo = {} /\ proc[w].pc = "forget"
    BY <1>4 DEF CommitLogout, AllForgotten, At
  <2>2. \A v \in Procs : proc'[v] = IF v = w THEN Idle ELSE proc[v]
    BY <2>1 DEF TypeOK
  <2>3. \A r \in gone : keyring[r.acct] = None \/ r.acct \in overlapped
    BY <2>1 DEF RowsKept
  <2>4. \A v \in Procs \ {w} : \A r \in gone :
          ~At(v, "approve") /\ r.acct \in {proc[v].at.acct} \cup {t.acct : t \in proc[v].todo}
            => r.acct \in overlapped'
    <3> SUFFICES ASSUME NEW v \in Procs \ {w}, NEW r \in gone, ~At(v, "approve"),
                        r.acct \in {proc[v].at.acct} \cup {t.acct : t \in proc[v].todo}
                 PROVE  r.acct \in overlapped'
      OBVIOUS
    <3> DEFINE x == [row |-> r.id, acct |-> r.acct]
    <3>1. x \in proc[w].sel /\ x.acct = r.acct
      OBVIOUS
    <3> HIDE DEF x
    <3>2. x.acct \in overlapped'
      BY <1>4, <3>1 DEF CommitLogout
    <3> QED
      BY <3>1, <3>2
  <2> HIDE DEF gone
  <2>5. \A b : HasRow(b) => HasRow(b)' \/ \E r \in gone : r.acct = b
    BY <2>1 DEF HasRow
  <2>6. \A b \in Accts : keyring'[b] # None => HasRow(b)' \/ b \in overlapped'
    BY <2>1, <2>3, <2>5 DEF RowsKept
  <2>7. ASSUME NEW v \in Procs, NEW b \in Busy(v)'
        PROVE  HasRow(b)' \/ b \in overlapped'
    <3>1. v # w /\ b \in Busy(v)
      BY <2>2, <2>7 DEF Busy, Pending, Work
    <3>2. ~At(v, "approve") /\ b \in {proc[v].at.acct} \cup {t.acct : t \in proc[v].todo}
      BY <3>1 DEF Busy, Pending, Work, At, CommandsMean, Means
    <3>3. HasRow(b) \/ b \in overlapped
      BY <3>1 DEF RowsKept
    <3> QED
      BY <2>1, <2>4, <2>5, <3>1, <3>2, <3>3
  <2>8. \A v \in Procs : proc'[v].pc = "forget" =>
          \A t \in proc'[v].sel \ proc'[v].todo : keyring'[t.acct] = None \/ t.acct \in overlapped'
    BY <2>1, <2>2 DEF RowsKept
  <2> QED
    BY <2>6, <2>7, <2>8 DEF RowsKept
<1>5. CASE UpdateRow(w)
  <2> DEFINE t == proc[w].at
             Written(r) == [r EXCEPT !.token = FreshToken(t.acct)]
  <2>1. t \in Targets /\ t \in Pending(w) /\ proc[w].pc = "row"
    BY <1>5 DEF UpdateRow, At, CommandsMean, Means, Pending, Work
  <2>2. rows' = {IF r.id = t.row THEN Written(r) ELSE r : r \in rows}
    BY <1>5 DEF UpdateRow
  <2>3. \A r \in rows : Written(r).acct = r.acct
    BY DEF TypeOK, Rows
  <2> HIDE DEF Written
  <2>4. \A b : HasRow(b) => HasRow(b)'
    <3> SUFFICES ASSUME NEW r \in rows PROVE \E s \in rows' : s.acct = r.acct
      BY DEF HasRow
    <3>1. (IF r.id = t.row THEN Written(r) ELSE r) \in rows'
      BY <2>2
    <3> QED
      BY <2>3, <3>1
  <2>5. /\ \A v \in Procs : v # w => proc'[v] = proc[v]
        /\ proc'[w].pc = "keep" /\ proc'[w].at = t /\ proc'[w].todo = proc[w].todo
    BY <1>5 DEF UpdateRow, Goto, TypeOK, ProcType
  <2>6. \A v \in Procs : Busy(v)' \subseteq Busy(v)
    BY <2>1, <2>5 DEF Busy, Pending, Work
  <2>7. UNCHANGED <<keyring, overlapped>>
    BY <1>5 DEF UpdateRow
  <2> QED
    BY <2>4, <2>5, <2>6, <2>7 DEF RowsKept
<1> QED
  BY <1>1, <1>2, <1>3, <1>4, <1>5

\* Ageing and providers leave entries and rows in place.
LEMMA WorldKept ==
  ASSUME TypeOK, CommandsMean, RowsKept,
         \/ \E p \in Providers : AddProvider(p) \/ RemoveProvider(p)
         \/ Advance
         \/ UNCHANGED vars
  PROVE  RowsKept'
<1>1. UNCHANGED <<proc, overlapped>>
  BY DEF AddProvider, RemoveProvider, Advance, vars
<1>2. /\ \A b \in Accts : keyring'[b] # None => keyring[b] # None
      /\ \A b : HasRow(b) => HasRow(b)'
  <2>1. CASE Advance
    <3> DEFINE Aged(r) == [r EXCEPT !.token.ttl = Less(@)]
    <3>1. rows' = {Aged(r) : r \in rows}
      BY <2>1 DEF Advance
    <3>2. \A r \in rows : Aged(r).acct = r.acct
      BY DEF TypeOK, Rows
    <3> HIDE DEF Aged
    <3>3. \A b : HasRow(b) => HasRow(b)'
      BY <3>1, <3>2 DEF HasRow
    <3> QED
      BY <2>1, <3>3 DEF Advance
  <2>2. CASE UNCHANGED <<rows, keyring>>
    BY <2>2 DEF HasRow
  <2> QED
    BY <2>1, <2>2 DEF AddProvider, RemoveProvider, vars
<1>3. \A v \in Procs : Busy(v)' = Busy(v)
  BY <1>1 DEF Busy, Pending, Work
<1>4. \A v \in Procs : \A t \in proc[v].sel : t.acct \in Accts
  BY DEF TypeOK, ProcType, Targets
<1> QED
  BY <1>1, <1>2, <1>3, <1>4 DEF RowsKept

-----------------------------------------------------------------------------
\* The invariant holds at first ...
LEMMA IInvInit == Init => IInv
<1> SUFFICES ASSUME Init PROVE IInv
  OBVIOUS
<1> USE IdleFacts
<1>1. /\ rows = {} /\ \A a \in Accts : keyring[a] = None
      /\ \A w \in Procs : proc[w] = Idle
  BY DEF Init
<1>2. TypeOK
  <2>1. ticked \in BOOLEAN
    BY Zenon DEF Init
  <2>2. /\ keyring \in [Accts -> Blobs \cup {None}] /\ valid \in [Accts -> SUBSET Serials]
        /\ proc \in [Procs -> ProcType]
    BY DEF Init
  <2> QED
    BY <2>1, <2>2 DEF Init, TypeOK
<1>3. CommandsMean
  BY <1>1 DEF CommandsMean, Means
<1>4. AnswersGood /\ EntriesGood
  BY <1>1 DEF AnswersGood, EntriesGood, Answered
<1>5. OneRowEach /\ RowsNew /\ EntriesHonest
  BY <1>1 DEF OneRowEach, RowsNew, EntriesHonest
<1>6. RowsKept
  BY <1>1 DEF RowsKept, Busy, Pending, Work
<1> QED
  BY <1>2, <1>3, <1>4, <1>5, <1>6 DEF IInv

\* ... and after every step ...
LEMMA IInvStep == IInv /\ [Next]_vars => IInv'
<1> SUFFICES ASSUME IInv, [Next]_vars PROVE IInv'
  OBVIOUS
<1> USE DEF IInv
<1>1. TypeOK' /\ CommandsMean'
  BY TypeStep
<1>2. CASE Command
  BY <1>1, <1>2, CommandTokens, CommandRows, CommandKept
<1>3. ASSUME NEW w \in Procs, Step(w) PROVE IInv'
  <2>1. CASE \/ LoginApproved(w) \/ LoginAbandoned(w) \/ Scan(w) \/ ReadSecret(w)
             \/ AskFails(w) \/ AskLost(w) \/ AskRejected(w) \/ AskGranted(w) \/ Crash(w)
    BY <1>1, <2>1, MoveTokens, WriteTokens, MoveRows, MoveKept
  <2>2. CASE \/ CommitRow(w) \/ KeepSecret(w) \/ ForgetSecret(w) \/ CommitLogout(w)
             \/ UpdateRow(w)
    BY <1>1, <2>2, MoveTokens, WriteTokens, WriteRows, WriteKept
  <2> QED
    BY <1>3, <2>1, <2>2 DEF Step
<1>4. CASE \/ \E p \in Providers : AddProvider(p) \/ RemoveProvider(p)
           \/ Advance
           \/ UNCHANGED vars
  BY <1>1, <1>4, WorldTokens, WorldRows, WorldKept
<1> QED
  BY <1>2, <1>3, <1>4 DEF Next

\* ... so it always holds.
LEMMA IInvHolds == Spec => []IInv
BY IInvInit, IInvStep, PTL DEF Spec

\* Every state has its type.
THEOREM TypeCorrect == Spec => []TypeOK
BY IInvHolds, PTL DEF IInv

\* However many commands run side by side, a refresh token in the keyring is one the
\* IdP accepts, unless an answer was lost or the refresh that replaces it is under way.
THEOREM RefreshTokensKept == Spec => []RefreshTokenKept
<1>1. IInv => RefreshTokenKept
  BY DEF IInv, EntriesGood, Refreshed, RefreshTokenKept, InFlight
<1> QED
  BY <1>1, IInvHolds, PTL

\* No entry promises more than the row delivers, wherever a command dies.
THEOREM ExpiryHonest == Spec => []ExpiryNotOverstated
<1>1. IInv => ExpiryNotOverstated
  BY DEF IInv, EntriesHonest, ExpiryNotOverstated, AccessTokens, Listed
<1> QED
  BY <1>1, IInvHolds, PTL

\* An entry without a row is one of an account logged out under another command.
THEOREM EntriesAccountedFor == Spec => []EntriesHaveRows
<1>1. IInv => EntriesHaveRows
  BY DEF IInv, RowsKept, EntriesHaveRows
<1> QED
  BY <1>1, IInvHolds, PTL

-----------------------------------------------------------------------------
(***************************************************************************)
(* The proof that tick keeps every access token fresh.  Within a period a  *)
(* token has more left than the current outage can eat; once the timer has *)
(* fired with the IdP up, it outlives the horizon or its refresh is not    *)
(* over yet.                                                               *)
(***************************************************************************)

\* A refresh has a rotated token in hand, a login nothing else to do.
LoginsAlone == \A w \in Procs : proc[w].pc = "keep" /\ proc[w].rt = None => proc[w].todo = {}

\* A dead token is shown to the IdP only when another refresh has replaced it.
AskGood(w) ==
  LET a == proc[w].at.acct IN
  \/ proc[w].rt \in valid[a] \/ a \in lost
  \/ \E v \in Procs : Refreshed(v, a)
  \/ keyring[a] = None \/ keyring[a].ttl = Life
AsksGood == \A w \in Procs : proc[w].pc = "ask" => AskGood(w)

\* The tick of this period has an account still to do, or a refresh has its new token.
Doing(w, p, a) ==
  \/ w = Timer /\ \E t \in Work(p) : t.acct = a
  \/ p.pc = "row" /\ p.at.acct = a
InHand(a) == \E w \in Procs : Doing(w, proc[w], a)

\* What a token has left when the IdP is out for the down-th period.
Floor == IF down = 0 THEN Horizon - MaxOutage - 1 ELSE Horizon - down

Ahead ==
  \A r \in rows :
    keyring[r.acct] # None /\ r.acct \notin missed =>
      /\ r.token.ttl >= Floor
      /\ ticked /\ down = 0 => r.token.ttl >= Horizon \/ InHand(r.acct)

FInv == IInv /\ lost \subseteq missed /\ LoginsAlone /\ AsksGood /\ Ahead

\* The timer fires often enough: every outage ends before the horizon does.
Timely == MaxOutage + 1 < Horizon /\ Horizon <= Life

USE AccountsAssumption DEF AccountsAssumption, Procs

-----------------------------------------------------------------------------
\* The steps that begin a command.
LEMMA CommandShape ==
  ASSUME TypeOK, Command
  PROVE  /\ UNCHANGED <<rows, keyring, down, lost>> /\ missed \subseteq missed'
         /\ \A b \in Accts : valid[b] \subseteq valid'[b]
         /\ \/ UNCHANGED proc
            \/ \E w \in Procs, p \in ProcType :
                 /\ proc[w].pc = "idle" /\ proc' = [proc EXCEPT ![w] = p]
                 /\ p.pc \notin {"keep", "ask", "row"}
<1> USE IdleFacts
<1>t. Cli \in Procs /\ Timer \in Procs
  OBVIOUS
<1> DEFINE Goal == /\ UNCHANGED <<rows, keyring, down, lost>> /\ missed \subseteq missed'
                   /\ \A b \in Accts : valid[b] \subseteq valid'[b]
                   /\ \/ UNCHANGED proc
                      \/ \E w \in Procs, p \in ProcType :
                           /\ proc[w].pc = "idle" /\ proc' = [proc EXCEPT ![w] = p]
                           /\ p.pc \notin {"keep", "ask", "row"}
<1>1. ASSUME NEW a \in Accts, BeginLogin(Cli, a) PROVE Goal
  <2> DEFINE p == [Idle EXCEPT !.pc = "approve", !.at = [row |-> 0, acct |-> a]]
  <2>1. p \in ProcType /\ p.pc = "approve"
    BY DEF ProcType, Targets
  <2>2. proc' = [proc EXCEPT ![Cli] = p]
    BY <1>1 DEF BeginLogin
  <2> HIDE DEF p
  <2> QED
    BY <1>1, <1>t, <2>1, <2>2 DEF BeginLogin, At
<1>2. ASSUME NEW a \in Accts, BeginImport(Cli, a) PROVE Goal
  <2>1. PICK s \in Serials \ Held(a) :
          /\ valid' = [valid EXCEPT ![a] = @ \cup {s}]
          /\ proc' = [proc EXCEPT ![Cli] = [Idle EXCEPT !.pc = "commit", !.got = s,
                                              !.at = [row |-> 0, acct |-> a]]]
    BY <1>2 DEF BeginImport
  <2> DEFINE p == [Idle EXCEPT !.pc = "commit", !.got = s, !.at = [row |-> 0, acct |-> a]]
  <2>2. p \in ProcType /\ p.pc = "commit"
    BY DEF ProcType, Targets
  <2>3. proc' = [proc EXCEPT ![Cli] = p]
    BY <2>1
  <2>4. \A b \in Accts : valid[b] \subseteq valid'[b]
    BY <2>1 DEF TypeOK
  <2> HIDE DEF p
  <2> QED
    BY <1>2, <1>t, <2>2, <2>3, <2>4 DEF BeginImport, At
<1>3. ASSUME NEW u \in Uids, NEW ps \in SUBSET Providers, BeginLogout(Cli, u, ps) PROVE Goal
  <2> DEFINE sel == {r \in rows : r.acct[2] = u /\ r.acct[1] \in ps}
             ts == {[row |-> r.id, acct |-> r.acct] : r \in sel}
             p == [Idle EXCEPT !.pc = "forget", !.todo = ts, !.sel = ts]
  <2>1. ts \subseteq Targets
    BY DEF TypeOK, Rows, Targets
  <2>2. proc' = [proc EXCEPT ![Cli] = p]
    BY <1>3 DEF BeginLogout
  <2> HIDE DEF ts
  <2>3. p \in ProcType /\ p.pc = "forget"
    BY <2>1 DEF ProcType
  <2> HIDE DEF p
  <2> QED
    BY <1>3, <1>t, <2>2, <2>3 DEF BeginLogout, At
<1>4. ASSUME NEW w \in Procs, NEW us \in SUBSET Uids, NEW due \in BOOLEAN, BeginRefresh(w, us, due)
      PROVE  Goal
  <2> DEFINE ts == {[row |-> r.id, acct |-> r.acct] : r \in {x \in Listed : x.acct[2] \in us}}
             p == [Idle EXCEPT !.pc = "scan", !.todo = ts, !.due = due]
  <2>1. ts \subseteq Targets
    BY DEF TypeOK, Rows, Targets, Listed
  <2>2. UNCHANGED proc \/ proc' = [proc EXCEPT ![w] = p]
    BY <1>4 DEF BeginRefresh
  <2> HIDE DEF ts
  <2>3. p \in ProcType /\ p.pc = "scan"
    BY <2>1 DEF ProcType
  <2> HIDE DEF p
  <2> QED
    BY <1>4, <2>2, <2>3 DEF BeginRefresh, At
<1> QED
  BY <1>t, <1>1, <1>2, <1>3, <1>4 DEF Command

\* Accounts whose newest token was lost are missed.
LEMMA LostStep ==
  ASSUME FInv, [Next]_vars
  PROVE  (lost \subseteq missed)'
<1> USE DEF FInv
<1>1. CASE Command
  BY <1>1, CommandShape DEF IInv
<1>2. ASSUME NEW w \in Procs, Step(w) PROVE (lost \subseteq missed)'
  <2>1. CASE Crash(w)
    BY <2>1 DEF Crash, At, InFlight
  <2>2. CASE ~Crash(w)
    BY <1>2, <2>2 DEF Step, LoginApproved, LoginAbandoned, CommitRow, KeepSecret, ForgetSecret,
                      CommitLogout, Scan, ReadSecret, AskFails, AskLost, AskRejected,
                      AskGranted, UpdateRow
  <2> QED
    BY <2>1, <2>2
<1>3. CASE (\E p \in Providers : AddProvider(p) \/ RemoveProvider(p)) \/ Advance \/ UNCHANGED vars
  BY <1>3 DEF AddProvider, RemoveProvider, Advance, vars
<1> QED
  BY <1>1, <1>2, <1>3 DEF Next

\* Only a command that had nothing else to do keeps a token of a login.
LEMMA AloneStep ==
  ASSUME FInv, [Next]_vars
  PROVE  LoginsAlone'
<1> USE IdleFacts DEF FInv, IInv
<1>1. CASE Command
  BY <1>1, CommandShape DEF LoginsAlone, TypeOK
<1>2. ASSUME NEW w \in Procs, Step(w) PROVE LoginsAlone'
  <2>1. CASE \/ LoginApproved(w) \/ LoginAbandoned(w) \/ Scan(w) \/ ReadSecret(w)
             \/ AskFails(w) \/ AskLost(w) \/ AskRejected(w) \/ AskGranted(w) \/ Crash(w)
    BY <2>1, MoveShape DEF LoginsAlone, TypeOK
  <2>2. CASE CommitRow(w)
    BY <2>2 DEF CommitRow, At, CommandsMean, Means, LoginsAlone, TypeOK, ProcType
  <2>3. CASE KeepSecret(w)
    BY <2>3, ProceedShape DEF KeepSecret, LoginsAlone, TypeOK
  <2>4. CASE ForgetSecret(w) \/ CommitLogout(w)
    BY <2>4 DEF ForgetSecret, CommitLogout, At, LoginsAlone, TypeOK, ProcType
  <2>5. CASE UpdateRow(w)
    BY <2>5 DEF UpdateRow, At, Goto, CommandsMean, Means, LoginsAlone, TypeOK, ProcType
  <2> QED
    BY <1>2, <2>1, <2>2, <2>3, <2>4, <2>5 DEF Step
<1>3. CASE (\E p \in Providers : AddProvider(p) \/ RemoveProvider(p)) \/ Advance \/ UNCHANGED vars
  BY <1>3 DEF AddProvider, RemoveProvider, Advance, vars, LoginsAlone
<1> QED
  BY <1>1, <1>2, <1>3 DEF Next

-----------------------------------------------------------------------------
\* Refresh tokens shown to the IdP.

LEMMA AsksFrame ==
  ASSUME TypeOK, CommandsMean, AsksGood, NEW w \in Procs, NEW p \in ProcType,
         proc' = [proc EXCEPT ![w] = p],
         p.pc = "ask" => proc[w].pc = "ask" /\ p.rt = proc[w].rt /\ p.at = proc[w].at,
         \A b \in Accts : valid[b] \subseteq valid'[b],
         \A b \in Accts : keyring'[b] = None \/ keyring'[b] = keyring[b],
         lost \subseteq lost',
         \A b \in Accts : Refreshed(w, b) =>
           (p.pc \in {"row", "keep"} /\ p.rt # None /\ p.at.acct = b) \/ b \in lost'
  PROVE  AsksGood'
<1>1. \A v \in Procs : proc'[v] = IF v = w THEN p ELSE proc[v]
  BY DEF TypeOK
<1>2. \A b \in Accts : (\E v \in Procs : Refreshed(v, b)) =>
        (\E v \in Procs : Refreshed(v, b)') \/ b \in lost'
  <2> SUFFICES ASSUME NEW b \in Accts, NEW v \in Procs, Refreshed(v, b)
               PROVE  (\E u \in Procs : Refreshed(u, b)') \/ b \in lost'
    OBVIOUS
  <2>1. CASE v = w
    BY <1>1, <2>1 DEF Refreshed
  <2>2. CASE v # w
    BY <1>1, <2>2 DEF Refreshed
  <2> QED
    BY <2>1, <2>2
<1> SUFFICES ASSUME NEW v \in Procs, proc'[v].pc = "ask" PROVE AskGood(v)'
  BY DEF AsksGood
<1>3. proc[v].pc = "ask" /\ proc'[v].rt = proc[v].rt /\ proc'[v].at = proc[v].at
  BY <1>1
<1> DEFINE a == proc[v].at.acct
<1>4. a \in Accts
  BY <1>3 DEF CommandsMean, Means, Targets
<1>5. \/ proc[v].rt \in valid[a] \/ a \in lost
      \/ \E u \in Procs : Refreshed(u, a)
      \/ keyring[a] = None \/ keyring[a].ttl = Life
  BY <1>3 DEF AsksGood, AskGood
<1>6. \A b \in Accts : b = a =>
        \/ proc[v].rt \in valid'[b] \/ b \in lost'
        \/ \E u \in Procs : Refreshed(u, b)'
        \/ keyring'[b] = None \/ keyring'[b].ttl = Life
  BY <1>2, <1>5
<1> QED
  BY <1>3, <1>4, <1>6 DEF AskGood, Refreshed

\* The same when tokens are used up or entries written, account by account.
LEMMA AsksKeep ==
  ASSUME TypeOK, CommandsMean, AsksGood,
         NEW w \in Procs, \A v \in Procs \ {w} : proc'[v] = proc[v],
         proc'[w].pc = "ask" => AskGood(w)',
         \A b \in Accts : \A v \in Procs \ {w} :
           proc[v].pc = "ask" /\ proc[v].at.acct = b
             /\ (\/ proc[v].rt \in valid[b] \/ b \in lost
                 \/ \E u \in Procs : Refreshed(u, b)
                 \/ keyring[b] = None \/ keyring[b].ttl = Life) =>
               \/ proc[v].rt \in valid'[b] \/ b \in lost'
               \/ \E u \in Procs : Refreshed(u, b)'
               \/ keyring'[b] = None \/ keyring'[b].ttl = Life
  PROVE  AsksGood'
<1> SUFFICES ASSUME NEW v \in Procs, proc'[v].pc = "ask" PROVE AskGood(v)'
  BY DEF AsksGood
<1>1. CASE v = w
  BY <1>1
<1>2. CASE v # w
  <2>1. proc[v].pc = "ask" /\ proc'[v] = proc[v] /\ proc[v].at.acct \in Accts
    BY <1>2 DEF CommandsMean, Means, Targets
  <2> QED
    BY <1>2, <2>1 DEF AsksGood, AskGood, Refreshed
<1> QED
  BY <1>1, <1>2

\* Nobody asks with a dead token that was not replaced or lost.
LEMMA AsksStep ==
  ASSUME FInv, [Next]_vars
  PROVE  AsksGood'
<1> USE IdleFacts DEF FInv, IInv
<1>1. CASE Command
  <2>1. CASE UNCHANGED proc
    BY <1>1, <2>1, CommandShape DEF AsksGood, AskGood, Refreshed, CommandsMean, Means, Targets
  <2>2. CASE \E w \in Procs, p \in ProcType :
               /\ proc[w].pc = "idle" /\ proc' = [proc EXCEPT ![w] = p]
               /\ p.pc \notin {"keep", "ask", "row"}
    <3>1. PICK w \in Procs, p \in ProcType :
            /\ proc[w].pc = "idle" /\ proc' = [proc EXCEPT ![w] = p]
            /\ p.pc \notin {"keep", "ask", "row"}
      BY <2>2
    <3>2. \A b \in Accts : ~Refreshed(w, b)
      BY <3>1 DEF Refreshed
    <3> QED
      BY <1>1, <3>1, <3>2, CommandShape, AsksFrame
  <2> QED
    BY <1>1, <2>1, <2>2, CommandShape
<1>2. ASSUME NEW w \in Procs, Step(w) PROVE AsksGood'
  <2> DEFINE a == proc[w].at.acct
  <2>1. CASE LoginApproved(w)
    <3>1. \A b \in Accts : valid[b] \subseteq valid'[b]
      BY <2>1 DEF LoginApproved, TypeOK
    <3>2. proc'[w].pc = "commit" /\ \A v \in Procs \ {w} : proc'[v] = proc[v]
      BY <2>1 DEF LoginApproved, Goto, TypeOK, ProcType
    <3>3. \A b \in Accts : (\E u \in Procs : Refreshed(u, b)) => \E u \in Procs : Refreshed(u, b)'
      BY <2>1, <3>2 DEF LoginApproved, At, Refreshed
    <3> QED
      BY <2>1, <3>1, <3>2, <3>3, AsksKeep DEF LoginApproved
  <2>2. CASE LoginAbandoned(w)
    BY <2>2, AsksFrame DEF LoginAbandoned, At, Refreshed
  <2>3. CASE CommitRow(w)
    <3>1. proc'[w].pc \in {"idle", "keep"} /\ \A v \in Procs \ {w} : proc'[v] = proc[v]
      BY <2>3 DEF CommitRow, TypeOK, ProcType
    <3>2. \A b \in Accts : (\E u \in Procs : Refreshed(u, b)) => \E u \in Procs : Refreshed(u, b)'
      BY <2>3, <3>1 DEF CommitRow, At, Refreshed
    <3> QED
      BY <2>3, <3>1, <3>2, AsksKeep DEF CommitRow
  <2>4. CASE KeepSecret(w)
    <3>1. PICK p \in ProcType : proc' = [proc EXCEPT ![w] = p] /\ p.pc \in {"idle", "scan"}
      BY <2>4, ProceedShape DEF KeepSecret
    <3>2. proc'[w].pc # "ask" /\ \A v \in Procs \ {w} : proc'[v] = proc[v]
      BY <3>1 DEF TypeOK
    <3>3. a \in Accts
      BY <2>4 DEF KeepSecret, At, CommandsMean, Means, Targets
    <3>4. /\ keyring'[a].ttl = Life
          /\ \A b \in Accts \ {a} : keyring'[b] = keyring[b] /\ (b \in lost => b \in lost')
      BY <2>4, <3>3 DEF KeepSecret, TypeOK
    <3>5. \A b \in Accts \ {a} :
            (\E u \in Procs : Refreshed(u, b)) => \E u \in Procs : Refreshed(u, b)'
      BY <3>2 DEF Refreshed
    <3> QED
      BY <2>4, <3>2, <3>4, <3>5, AsksKeep DEF KeepSecret
  <2>5. CASE ForgetSecret(w)
    <3>1. proc'[w].pc = "forget" /\ \A v \in Procs \ {w} : proc'[v] = proc[v]
      BY <2>5 DEF ForgetSecret, At, TypeOK, ProcType
    <3>2. \A b \in Accts : keyring'[b] = None \/ keyring'[b] = keyring[b]
      BY <2>5 DEF ForgetSecret, TypeOK
    <3>3. \A b \in Accts : (\E u \in Procs : Refreshed(u, b)) => \E u \in Procs : Refreshed(u, b)'
      BY <2>5, <3>1 DEF ForgetSecret, At, Refreshed
    <3> QED
      BY <2>5, <3>1, <3>2, <3>3, AsksKeep DEF ForgetSecret
  <2>6. CASE CommitLogout(w)
    BY <2>6, AsksFrame DEF CommitLogout, At, Refreshed
  <2>7. CASE Scan(w)
    <3>1. PICK p \in ProcType :
            proc' = [proc EXCEPT ![w] = p] /\ p.pc \in {"idle", "scan", "read"}
      BY <2>7, ScanShape
    <3> QED
      BY <2>7, <3>1, AsksFrame DEF Scan, At, Refreshed
  <2>8. CASE ReadSecret(w)
    <3>1. CASE Proceed(w)
      <4>1. PICK p \in ProcType : proc' = [proc EXCEPT ![w] = p] /\ p.pc \in {"idle", "scan"}
        BY <3>1, ProceedShape
      <4> QED
        BY <2>8, <4>1, AsksFrame DEF ReadSecret, At, Refreshed
    <3>2. CASE keyring[a] # None
      <4>1. /\ \A v \in Procs \ {w} : proc'[v] = proc[v]
            /\ proc'[w].at = proc[w].at /\ proc'[w].rt = keyring[a].rt /\ proc'[w].pc = "ask"
        BY <2>8, <3>2 DEF ReadSecret, TypeOK, ProcType
      <4>2. a \in Accts
        BY <2>8 DEF ReadSecret, At, CommandsMean, Means, Targets
      <4>3. \A b \in Accts : (\E u \in Procs : Refreshed(u, b)) => \E u \in Procs : Refreshed(u, b)'
        BY <2>8, <4>1 DEF ReadSecret, At, Refreshed
      <4>4. \A b \in Accts : b = a =>
              keyring[a].rt \in valid[b] \/ b \in lost \/ \E u \in Procs : Refreshed(u, b)'
        BY <3>2, <4>3 DEF EntriesGood
      <4>5. AskGood(w)'
        BY <2>8, <4>1, <4>2, <4>4 DEF AskGood, ReadSecret, Refreshed
      <4> QED
        BY <2>8, <4>1, <4>3, <4>5, AsksKeep DEF ReadSecret
    <3> QED
      BY <2>8, <3>1, <3>2 DEF ReadSecret
  <2>9. CASE AskFails(w)
    <3>1. PICK p \in ProcType :
            /\ proc' = [proc EXCEPT ![w] = p]
            /\ \/ p.pc \in {"idle", "scan"}
               \/ p.pc = "ask" /\ p.at = proc[w].at /\ p.rt = proc[w].rt
      BY <2>9, RetryShape DEF AskFails, At
    <3> QED
      BY <2>9, <3>1, AsksFrame DEF AskFails, At, Refreshed
  <2>10. CASE AskLost(w)
    <3>1. PICK p \in ProcType :
            /\ proc' = [proc EXCEPT ![w] = p]
            /\ \/ p.pc \in {"idle", "scan"}
               \/ p.pc = "ask" /\ p.at = proc[w].at
      BY <2>10, RetryShape DEF AskLost, At
    <3>2. \A v \in Procs : proc'[v] = IF v = w THEN p ELSE proc[v]
      BY <3>1 DEF TypeOK
    <3>3. a \in Accts /\ a \in lost' /\ lost \subseteq lost' /\ UNCHANGED keyring
      BY <2>10 DEF AskLost, At, CommandsMean, Means, Targets
    <3>4. \A b \in Accts \ {a} : valid'[b] = valid[b]
      BY <2>10 DEF AskLost, TypeOK
    <3>5. \A b \in Accts : (\E u \in Procs : Refreshed(u, b)) => \E u \in Procs : Refreshed(u, b)'
      BY <2>10, <3>2 DEF AskLost, At, Refreshed
    <3>6. proc'[w].pc = "ask" => AskGood(w)'
      BY <3>1, <3>2, <3>3 DEF AskGood
    <3> QED
      BY <3>2, <3>3, <3>4, <3>5, <3>6, AsksKeep
  <2>11. CASE AskRejected(w)
    <3>1. PICK p \in ProcType : proc' = [proc EXCEPT ![w] = p] /\ p.pc \in {"idle", "scan"}
      BY <2>11, ProceedShape DEF AskRejected
    <3> QED
      BY <2>11, <3>1, AsksFrame DEF AskRejected, At, Refreshed
  <2>12. CASE AskGranted(w)
    <3>1. /\ \A v \in Procs \ {w} : proc'[v] = proc[v]
          /\ proc'[w].pc = "row" /\ proc'[w].at = proc[w].at /\ proc'[w].rt = proc[w].rt
      BY <2>12 DEF AskGranted, TypeOK, ProcType
    <3>2. a \in Accts /\ proc[w].rt # None
      BY <2>12 DEF AskGranted, At, CommandsMean, Means, Targets
    <3>3. \A b \in Accts \ {a} : valid'[b] = valid[b]
      BY <2>12 DEF AskGranted, TypeOK
    <3>4. /\ \A b \in Accts : (\E u \in Procs : Refreshed(u, b)) => \E u \in Procs : Refreshed(u, b)'
          /\ \A b \in Accts : b = a => Refreshed(w, b)'
      BY <2>12, <3>1, <3>2 DEF AskGranted, At, Refreshed
    <3> QED
      BY <2>12, <3>1, <3>3, <3>4, AsksKeep DEF AskGranted
  <2>13. CASE UpdateRow(w)
    <3> DEFINE p == [proc[w] EXCEPT !.pc = "keep"]
    <3>1. p \in ProcType /\ p.pc = "keep" /\ p.rt = proc[w].rt /\ p.at = proc[w].at
      BY DEF TypeOK, ProcType
    <3>2. proc' = [proc EXCEPT ![w] = p]
      BY <2>13 DEF UpdateRow, Goto, TypeOK
    <3> HIDE DEF p
    <3> QED
      BY <2>13, <3>1, <3>2, AsksFrame DEF UpdateRow, Refreshed
  <2>14. CASE Crash(w)
    <3>1. \A b \in Accts : Refreshed(w, b) => b \in lost'
      BY <2>14 DEF Crash, Refreshed, InFlight, At
    <3> QED
      BY <2>14, <3>1, AsksFrame DEF Crash
  <2> QED
    BY <1>2, <2>1, <2>2, <2>3, <2>4, <2>5, <2>6, <2>7, <2>8, <2>9, <2>10, <2>11, <2>12, <2>13,
       <2>14 DEF Step
<1>3. CASE (\E p \in Providers : AddProvider(p) \/ RemoveProvider(p)) \/ Advance \/ UNCHANGED vars
  <2>1. CASE Advance
    BY <2>1 DEF Advance, Waiting, AsksGood
  <2>2. CASE UNCHANGED <<proc, valid, lost, keyring>>
    BY <2>2 DEF AsksGood, AskGood, Refreshed
  <2> QED
    BY <1>3, <2>1, <2>2 DEF AddProvider, RemoveProvider, vars
<1> QED
  BY <1>1, <1>2, <1>3 DEF Next

-----------------------------------------------------------------------------
\* The tick keeps ahead of the expiry.

\* What is left at worst is more than nothing and less than a new token has.
LEMMA FloorBelow ==
  ASSUME TypeOK, Timely
  PROVE  Floor <= Horizon /\ Floor <= Life /\ Floor > 0 /\ Floor \in Int
BY DEF TypeOK, Timely, Floor

\* A step of one command within a period.
LEMMA AheadFrame ==
  ASSUME TypeOK, Timely, Ahead, NEW w \in Procs, NEW p \in ProcType,
         proc' = [proc EXCEPT ![w] = p], UNCHANGED <<ticked, down>>,
         \A r \in rows' :
           \/ r.token.ttl = Life
           \/ /\ r \in rows
              /\ keyring'[r.acct] # None /\ r.acct \notin missed' =>
                   /\ keyring[r.acct] # None /\ r.acct \notin missed
                   /\ down = 0 /\ Doing(w, proc[w], r.acct) =>
                        r.token.ttl >= Horizon \/ Doing(w, p, r.acct)
  PROVE  Ahead'
<1>1. \A v \in Procs : proc'[v] = IF v = w THEN p ELSE proc[v]
  BY DEF TypeOK
<1>2. Floor' = Floor
  BY DEF Floor
<1> SUFFICES ASSUME NEW r \in rows', keyring'[r.acct] # None, r.acct \notin missed'
             PROVE  /\ r.token.ttl >= Floor
                    /\ ticked /\ down = 0 => r.token.ttl >= Horizon \/ InHand(r.acct)'
  BY <1>2 DEF Ahead
<1>3. CASE r.token.ttl = Life
  BY <1>3, FloorBelow DEF Timely
<1>4. CASE r.token.ttl # Life
  <2>1. /\ r \in rows /\ keyring[r.acct] # None /\ r.acct \notin missed
        /\ down = 0 /\ Doing(w, proc[w], r.acct) =>
             r.token.ttl >= Horizon \/ Doing(w, p, r.acct)
    BY <1>4
  <2>2. /\ r.token.ttl >= Floor
        /\ ticked /\ down = 0 => r.token.ttl >= Horizon \/ InHand(r.acct)
    BY <2>1 DEF Ahead
  <2>3. InHand(r.acct) =>
          Doing(w, proc[w], r.acct) \/ \E v \in Procs \ {w} : Doing(v, proc[v], r.acct)
    BY DEF InHand
  <2>4. Doing(w, p, r.acct) \/ (\E v \in Procs \ {w} : Doing(v, proc[v], r.acct)) => InHand(r.acct)'
    BY <1>1 DEF InHand
  <2> QED
    BY <2>1, <2>2, <2>3, <2>4
<1> QED
  BY <1>3, <1>4

\* The tick lists every row or marks it as missed.
LEMMA CommandAhead ==
  ASSUME FInv, Timely, Command
  PROVE  Ahead'
<1> USE IdleFacts DEF FInv, IInv
<1>t. Cli \in Procs /\ Timer \in Procs
  OBVIOUS
<1>1. CASE UNCHANGED ticked
  <2>1. CASE UNCHANGED proc
    BY <1>1, <2>1, CommandShape DEF Ahead, Floor, InHand, Doing
  <2>2. CASE \E w \in Procs, p \in ProcType :
               /\ proc[w].pc = "idle" /\ proc' = [proc EXCEPT ![w] = p]
               /\ p.pc \notin {"keep", "ask", "row"}
    <3>1. PICK w \in Procs, p \in ProcType :
            /\ proc[w].pc = "idle" /\ proc' = [proc EXCEPT ![w] = p]
            /\ p.pc \notin {"keep", "ask", "row"}
      BY <2>2
    <3>2. \A b : ~Doing(w, proc[w], b)
      BY <3>1 DEF Doing, Work, CommandsMean, Means
    <3>3. UNCHANGED <<rows, keyring, down>> /\ missed \subseteq missed'
      BY CommandShape
    <3> QED
      BY <1>1, <3>1, <3>2, <3>3, AheadFrame
  <2> QED
    BY <2>1, <2>2, CommandShape
<1>2. CASE ~UNCHANGED ticked
  <2> DEFINE ts == {[row |-> r.id, acct |-> r.acct] : r \in {x \in Listed : x.acct[2] \in Uids}}
             p == [Idle EXCEPT !.pc = "scan", !.todo = ts, !.due = TRUE]
  <2>1. BeginRefresh(Timer, Uids, TRUE)
    <3>1. ASSUME NEW us, BeginRefresh(Cli, us, FALSE) PROVE FALSE
      <4>1. ticked' = (ticked \/ FALSE) /\ ticked \in BOOLEAN
        BY <3>1, Zenon DEF BeginRefresh, TypeOK
      <4>2. UNCHANGED ticked
        BY <4>1, Zenon
      <4> QED
        BY <1>2, <4>2
    <3>2. ASSUME \/ \E a \in Accts : BeginLogin(Cli, a) \/ BeginImport(Cli, a)
                 \/ \E u, ps : BeginLogout(Cli, u, ps)
          PROVE  FALSE
      BY <1>2, <3>2 DEF BeginLogin, BeginImport, BeginLogout
    <3> QED
      BY <3>1, <3>2 DEF Command
  <2>2. ts \subseteq Targets
    BY DEF TypeOK, Rows, Targets, Listed
  <2>3. IF ts = {} THEN UNCHANGED proc ELSE proc' = [proc EXCEPT ![Timer] = p]
    BY <2>1 DEF BeginRefresh
  <2>4. /\ UNCHANGED <<rows, keyring, down>>
        /\ missed' = missed \cup {r.acct : r \in rows \ Listed}
    BY <2>1 DEF BeginRefresh
  <2>5. \A r \in rows : r \in Listed => \E t \in ts : t.acct = r.acct
    <3> SUFFICES ASSUME NEW r \in rows, r \in Listed PROVE \E t \in ts : t.acct = r.acct
      OBVIOUS
    <3>1. r.acct[2] \in Uids
      BY DEF TypeOK, Rows, Accts
    <3>2. [row |-> r.id, acct |-> r.acct] \in ts
      BY <3>1
    <3> QED
      BY <3>2
  <2> HIDE DEF ts
  <2>6. p \in ProcType /\ p.pc = "scan" /\ p.todo = ts
    BY <2>2 DEF ProcType
  <2> HIDE DEF p
  <2> SUFFICES ASSUME NEW r \in rows, keyring[r.acct] # None, r.acct \notin missed'
               PROVE  r.token.ttl >= Floor /\ InHand(r.acct)'
    BY <2>4 DEF Ahead, Floor
  <2>7. r.acct \notin missed /\ r \in Listed
    BY <2>4
  <2>8. PICK t \in ts : t.acct = r.acct
    BY <2>5, <2>7
  <2>9. proc'[Timer] = p
    BY <1>t, <2>3, <2>6, <2>8 DEF TypeOK
  <2>10. InHand(r.acct)'
    BY <1>t, <2>6, <2>8, <2>9 DEF InHand, Doing, Work
  <2> QED
    BY <2>7, <2>10 DEF Ahead
<1> QED
  BY <1>1, <1>2

\* Steps of commands that the tick does not wait for.
LEMMA OthersAhead ==
  ASSUME FInv, Timely, NEW w \in Procs,
         \/ LoginApproved(w) \/ LoginAbandoned(w) \/ CommitRow(w) \/ ForgetSecret(w)
         \/ CommitLogout(w)
  PROVE  Ahead'
<1> USE IdleFacts DEF FInv, IInv
<1>1. \A b : ~Doing(w, proc[w], b)
  BY DEF LoginApproved, LoginAbandoned, CommitRow, ForgetSecret, CommitLogout, At, Doing, Work,
         CommandsMean, Means
<1>2. proc' \in [Procs -> ProcType] /\ UNCHANGED <<ticked, down, missed>>
  BY TypeStep DEF Next, Step, TypeOK, LoginApproved, LoginAbandoned, CommitRow, ForgetSecret,
                  CommitLogout
<1>3. proc' = [proc EXCEPT ![w] = proc'[w]]
  BY <1>2 DEF LoginApproved, LoginAbandoned, CommitRow, ForgetSecret, CommitLogout, Goto, TypeOK
<1>4. \A b \in Accts : keyring'[b] # None => keyring[b] # None
  BY DEF LoginApproved, LoginAbandoned, CommitRow, ForgetSecret, CommitLogout, TypeOK
<1>5. \A r \in rows' : r.token.ttl = Life \/ r \in rows
  <2>1. CASE CommitRow(w)
    BY <2>1 DEF CommitRow, Overwritten, Added, FreshToken, TypeOK, Rows
  <2>2. CASE rows' \subseteq rows
    BY <2>2
  <2> QED
    BY <2>1, <2>2 DEF LoginApproved, LoginAbandoned, ForgetSecret, CommitLogout
<1>6. \A r \in rows : r.acct \in Accts
  BY DEF TypeOK, Rows
<1>7. proc'[w] \in ProcType
  BY <1>2
<1> QED
  BY <1>1, <1>2, <1>3, <1>4, <1>5, <1>6, <1>7, AheadFrame

\* Steps of a refresh.
LEMMA RefreshAhead ==
  ASSUME FInv, Timely, NEW w \in Procs,
         \/ KeepSecret(w) \/ Scan(w) \/ ReadSecret(w) \/ AskFails(w) \/ AskLost(w)
         \/ AskRejected(w) \/ AskGranted(w) \/ UpdateRow(w) \/ Crash(w)
  PROVE  Ahead'
<1> USE IdleFacts DEF FInv, IInv
<1> DEFINE a == proc[w].at.acct
<1>d. UNCHANGED <<ticked, down>>
  BY DEF KeepSecret, Scan, ReadSecret, AskFails, AskLost, AskRejected, AskGranted, UpdateRow, Crash
<1>r. \A r \in rows : r.acct \in Accts /\ r.token.ttl \in 0..Life
  BY DEF TypeOK, Rows, Tokens
<1>1. CASE KeepSecret(w)
  <2>1. PICK p \in ProcType :
          /\ proc' = [proc EXCEPT ![w] = p]
          /\ p.todo = proc[w].todo /\ p.pc \in {"idle", "scan"}
    BY <1>1, ProceedShape DEF KeepSecret
  <2>2. \A b : Doing(w, proc[w], b) => Doing(w, p, b)
    BY <1>1, <2>1 DEF KeepSecret, At, Doing, Work
  <2>3. a \in Accts
    BY <1>1 DEF KeepSecret, At, CommandsMean, Means, Targets
  <2>4. \A b \in Accts \ {a} : keyring'[b] = keyring[b] /\ (b \in missed' <=> b \in missed)
    BY <1>1, <2>3 DEF KeepSecret, TypeOK
  <2>5. \A r \in rows : r.acct = a => r.token.ttl = Life
    BY <1>1 DEF KeepSecret, At, RowsNew
  <2>6. UNCHANGED rows
    BY <1>1 DEF KeepSecret
  <2>7. \A r \in rows :
          \/ r.token.ttl = Life
          \/ keyring'[r.acct] = keyring[r.acct] /\ (r.acct \in missed' <=> r.acct \in missed)
    BY <1>r, <2>4, <2>5
  <2>8. \A r \in rows' :
          \/ r.token.ttl = Life
          \/ /\ r \in rows
             /\ keyring'[r.acct] # None /\ r.acct \notin missed' =>
                  /\ keyring[r.acct] # None /\ r.acct \notin missed
                  /\ down = 0 /\ Doing(w, proc[w], r.acct) =>
                       r.token.ttl >= Horizon \/ Doing(w, p, r.acct)
    BY <2>2, <2>6, <2>7
  <2> QED
    BY <1>d, <2>1, <2>8, AheadFrame
<1>2. CASE Scan(w)
  <2>1. PICK t \in proc[w].todo :
          LET rest == [proc[w] EXCEPT !.todo = @ \ {t}] IN
          IF proc[w].due /\ NotDue(t.acct)
          THEN proc' = [proc EXCEPT ![w] = IF rest.todo = {} THEN Idle ELSE rest]
          ELSE proc' = [proc EXCEPT ![w] = [rest EXCEPT !.pc = "read", !.at = t]]
    BY <1>2 DEF Scan
  <2> DEFINE rest == [proc[w] EXCEPT !.todo = @ \ {t}]
             next == [rest EXCEPT !.pc = "read", !.at = t]
  <2>2. /\ rest \in ProcType /\ rest.pc = "scan" /\ rest.todo = proc[w].todo \ {t}
        /\ next \in ProcType /\ next.pc = "read" /\ next.todo = proc[w].todo \ {t}
        /\ next.at = t /\ proc[w].pc = "scan" /\ proc[w].todo \subseteq Targets
    BY <1>2 DEF TypeOK, ProcType, Scan, At
  <2>3. \/ /\ NotDue(t.acct)
           /\ \/ rest.todo = {} /\ proc' = [proc EXCEPT ![w] = Idle]
              \/ proc' = [proc EXCEPT ![w] = rest]
        \/ proc' = [proc EXCEPT ![w] = next]
    BY <2>1
  <2>4. UNCHANGED <<rows, keyring, missed>>
    BY <1>2 DEF Scan
  <2> HIDE DEF rest, next
  <2>5. CASE proc' = [proc EXCEPT ![w] = next]
    <3>1. \A b : Doing(w, proc[w], b) => Doing(w, next, b)
      BY <2>2 DEF Doing, Work
    <3> QED
      BY <1>d, <2>2, <2>4, <2>5, <3>1, AheadFrame
  <2>6. ASSUME NotDue(t.acct), NEW p \in {rest, Idle}, proc' = [proc EXCEPT ![w] = p],
               p = Idle => rest.todo = {}
        PROVE  Ahead'
    <3>1. \A b : Doing(w, proc[w], b) => Doing(w, p, b) \/ b = t.acct
      BY <2>2, <2>6 DEF Doing, Work
    <3>2. \A r \in rows : r.acct = t.acct => keyring[r.acct] = None \/ r.token.ttl >= Horizon
      <4> SUFFICES ASSUME NEW r \in rows, r.acct = t.acct, keyring[r.acct] # None
                   PROVE  r.token.ttl >= Horizon
        OBVIOUS
      <4>1. keyring[r.acct].ttl >= Horizon
        BY <2>6 DEF NotDue
      <4>2. keyring[r.acct].ttl <= r.token.ttl
        BY DEF EntriesHonest
      <4>3. keyring[r.acct].ttl \in 0..Life /\ r.token.ttl \in 0..Life
        BY <1>r DEF TypeOK, Blobs
      <4> QED
        BY <4>1, <4>2, <4>3
    <3>3. p \in ProcType
      BY <2>2
    <3> QED
      BY <1>d, <2>4, <2>6, <3>1, <3>2, <3>3, AheadFrame
  <2> QED
    BY <2>3, <2>5, <2>6
<1>3. ASSUME Proceed(w), UNCHANGED <<rows, keyring>>, missed \subseteq missed',
             proc[w].pc \in {"read", "ask"},
             \A r \in rows : r.acct = a =>
               \/ keyring[r.acct] = None \/ r.acct \in missed' \/ r.token.ttl >= Horizon
               \/ \E v \in Procs \ {w} : Doing(v, proc[v], r.acct)
      PROVE  Ahead'
  <2>1. PICK p \in ProcType :
          /\ proc' = [proc EXCEPT ![w] = p]
          /\ p.todo = proc[w].todo /\ p.pc \in {"idle", "scan"}
    BY <1>3, ProceedShape
  <2>2. \A b : Doing(w, proc[w], b) => Doing(w, p, b) \/ b = a
    BY <1>3, <2>1 DEF Doing, Work
  <2>3. \A v \in Procs : proc'[v] = IF v = w THEN p ELSE proc[v]
    BY <2>1 DEF TypeOK
  <2> SUFFICES ASSUME NEW r \in rows, keyring[r.acct] # None, r.acct \notin missed'
               PROVE  /\ r.token.ttl >= Floor
                      /\ ticked /\ down = 0 => r.token.ttl >= Horizon \/ InHand(r.acct)'
    BY <1>d, <1>3 DEF Ahead, Floor
  <2>4. /\ r.token.ttl >= Floor
        /\ ticked /\ down = 0 => r.token.ttl >= Horizon \/ InHand(r.acct)
    BY <1>3 DEF Ahead
  <2>5. InHand(r.acct) => InHand(r.acct)' \/ r.acct = a
    BY <2>2, <2>3 DEF InHand
  <2>6. (\E v \in Procs \ {w} : Doing(v, proc[v], r.acct)) => InHand(r.acct)'
    BY <2>3 DEF InHand
  <2> QED
    BY <1>3, <2>4, <2>5, <2>6
<1>4. CASE ReadSecret(w)
  <2>1. CASE keyring[a] = None
    BY <1>3, <1>4, <2>1 DEF ReadSecret, At
  <2>2. CASE keyring[a] # None
    <3> DEFINE p == [proc[w] EXCEPT !.pc = "ask", !.rt = keyring[a].rt]
    <3>1. a \in Accts
      BY <1>4 DEF ReadSecret, At, CommandsMean, Means, Targets
    <3>2. proc' = [proc EXCEPT ![w] = p]
      BY <1>4, <2>2 DEF ReadSecret, TypeOK, ProcType
    <3>3. p \in ProcType /\ p.pc = "ask" /\ p.at = proc[w].at /\ p.todo = proc[w].todo
      BY <2>2, <3>1 DEF TypeOK, ProcType, Blobs
    <3> HIDE DEF p
    <3>4. \A b : Doing(w, proc[w], b) => Doing(w, p, b)
      BY <1>4, <3>3 DEF ReadSecret, At, Doing, Work
    <3> QED
      BY <1>d, <1>4, <3>2, <3>3, <3>4, AheadFrame DEF ReadSecret
  <2> QED
    BY <2>1, <2>2
<1>5. CASE AskFails(w)
  <2>1. PICK p \in ProcType :
          /\ proc' = [proc EXCEPT ![w] = p]
          /\ p.todo = proc[w].todo
          /\ \/ p.pc \in {"idle", "scan"}
             \/ p.pc = "ask" /\ p.at = proc[w].at
    BY <1>5, RetryShape DEF AskFails, At
  <2>2. UNCHANGED <<rows, keyring, missed>>
    BY <1>5 DEF AskFails
  <2>3. CASE down # 0
    BY <1>d, <2>1, <2>2, <2>3, AheadFrame
  <2>4. CASE down = 0
    <3>1. RetryOrGiveUp(w) /\ proc[w].attempt # RetryAttempts - 1 /\ proc[w].pc = "ask"
      BY <1>5, <2>4 DEF AskFails, At
    <3>2. proc'[w].pc = "ask" /\ proc'[w] = p
      BY <2>1, <3>1 DEF RetryOrGiveUp, TypeOK, ProcType
    <3>3. \A b : Doing(w, proc[w], b) => Doing(w, p, b)
      BY <2>1, <3>1, <3>2 DEF Doing, Work
    <3> QED
      BY <1>d, <2>1, <2>2, <3>3, AheadFrame
  <2> QED
    BY <2>3, <2>4
<1>6. CASE AskLost(w)
  <2>1. PICK p \in ProcType :
          /\ proc' = [proc EXCEPT ![w] = p]
          /\ p.todo = proc[w].todo
          /\ \/ p.pc \in {"idle", "scan"}
             \/ p.pc = "ask" /\ p.at = proc[w].at
    BY <1>6, RetryShape DEF AskLost, At
  <2>2. UNCHANGED <<rows, keyring>> /\ missed' = missed \cup {a}
    BY <1>6 DEF AskLost
  <2>3. \A b : Doing(w, proc[w], b) => Doing(w, p, b) \/ b = a
    BY <1>6, <2>1 DEF AskLost, At, Doing, Work
  <2> QED
    BY <1>d, <2>1, <2>2, <2>3, AheadFrame
<1>7. CASE AskRejected(w)
  <2>1. a \in Accts
    BY <1>7 DEF AskRejected, At, CommandsMean, Means, Targets
  <2>2. \/ a \in lost \/ \E v \in Procs : Refreshed(v, a)
        \/ keyring[a] = None \/ keyring[a].ttl = Life
    BY <1>7 DEF AskRejected, At, AsksGood, AskGood
  <2>3. ASSUME NEW r \in rows, r.acct = a, keyring[a] # None, a \notin missed
        PROVE  r.token.ttl >= Horizon \/ \E v \in Procs \ {w} : Doing(v, proc[v], r.acct)
    <3>1. CASE keyring[a].ttl = Life
      BY <1>r, <2>3, <3>1 DEF EntriesHonest, Timely
    <3>2. ASSUME NEW v \in Procs, Refreshed(v, a)
          PROVE  r.token.ttl >= Horizon \/ (Doing(v, proc[v], r.acct) /\ v # w)
      <4>1. CASE proc[v].pc = "row"
        BY <1>7, <2>3, <3>2, <4>1 DEF Refreshed, Doing, AskRejected, At
      <4>2. CASE proc[v].pc = "keep"
        BY <2>3, <3>2, <4>2 DEF Refreshed, RowsNew, Timely
      <4> QED
        BY <3>2, <4>1, <4>2 DEF Refreshed
    <3> QED
      BY <2>2, <2>3, <3>1, <3>2
  <2> QED
    BY <1>3, <1>7, <2>3 DEF AskRejected, At
<1>8. CASE AskGranted(w)
  <2>1. \E s \in Serials \cup {None} : proc' = [proc EXCEPT ![w].pc = "row", ![w].got = s]
    BY <1>8 DEF AskGranted, TypeOK, ProcType
  <2>2. PICK s \in Serials \cup {None} : proc' = [proc EXCEPT ![w].pc = "row", ![w].got = s]
    BY <2>1
  <2> DEFINE p == [proc[w] EXCEPT !.pc = "row", !.got = s]
  <2>3. p \in ProcType /\ p.pc = "row" /\ p.todo = proc[w].todo /\ p.at = proc[w].at
    BY DEF TypeOK, ProcType
  <2>4. proc' = [proc EXCEPT ![w] = p]
    BY <2>2 DEF TypeOK, ProcType
  <2> HIDE DEF p
  <2>5. \A b : Doing(w, proc[w], b) => Doing(w, p, b)
    BY <1>8, <2>3 DEF AskGranted, At, Doing, Work
  <2> QED
    BY <1>d, <1>8, <2>3, <2>4, <2>5, AheadFrame DEF AskGranted
<1>9. CASE UpdateRow(w)
  <2> DEFINE t == proc[w].at
             Written(r) == [r EXCEPT !.token = FreshToken(t.acct)]
             p == [proc[w] EXCEPT !.pc = "keep"]
  <2>1. t \in Targets /\ t \in Pending(w) /\ proc[w].pc = "row"
    BY <1>9 DEF UpdateRow, At, CommandsMean, Means, Pending, Work
  <2>2. rows' = {IF r.id = t.row THEN Written(r) ELSE r : r \in rows}
    BY <1>9 DEF UpdateRow
  <2>3. \A r \in rows : Written(r).token.ttl = Life
    BY DEF TypeOK, Rows, FreshToken
  <2>4. p \in ProcType /\ p.pc = "keep" /\ p.todo = proc[w].todo
    BY DEF TypeOK, ProcType
  <2>5. proc' = [proc EXCEPT ![w] = p]
    BY <1>9 DEF UpdateRow, Goto, TypeOK
  <2> HIDE DEF Written, p
  <2>6. \A s \in rows' : s.token.ttl = Life \/ (s \in rows /\ s.acct # t.acct)
    <3> SUFFICES ASSUME NEW s \in rows'
                 PROVE  s.token.ttl = Life \/ (s \in rows /\ s.acct # t.acct)
      OBVIOUS
    <3>1. PICK r \in rows : s = IF r.id = t.row THEN Written(r) ELSE r
      BY <2>2
    <3> QED
      BY <2>1, <2>3, <3>1 DEF RowsNew
  <2>7. \A b : Doing(w, proc[w], b) => Doing(w, p, b) \/ b = t.acct
    BY <2>1, <2>4 DEF Doing, Work
  <2> QED
    BY <1>d, <1>9, <2>4, <2>5, <2>6, <2>7, AheadFrame DEF UpdateRow
<1>10. CASE Crash(w)
  <2>1. proc' = [proc EXCEPT ![w] = Idle] /\ UNCHANGED <<rows, keyring>> /\ missed \subseteq missed'
    BY <1>10 DEF Crash
  <2>2. \A b : Doing(w, proc[w], b) => b \in missed'
    BY <1>10 DEF Crash, Doing, Work, At, CommandsMean, Means, LoginsAlone, TypeOK, ProcType
  <2> QED
    BY <1>d, <2>1, <2>2, AheadFrame
<1> QED
  BY <1>1, <1>2, <1>4, <1>5, <1>6, <1>7, <1>8, <1>9, <1>10

\* A period passes when every refresh is over, and takes one off.
LEMMA WorldAhead ==
  ASSUME FInv, Timely,
         \/ \E p \in Providers : AddProvider(p) \/ RemoveProvider(p)
         \/ Advance
         \/ UNCHANGED vars
  PROVE  Ahead'
<1> USE DEF FInv, IInv
<1>1. CASE UNCHANGED <<rows, keyring, proc, missed, ticked, down>>
  BY <1>1 DEF Ahead, Floor, InHand, Doing
<1>2. CASE Advance
  <2> DEFINE Aged(r) == [r EXCEPT !.token.ttl = Less(@)]
  <2>1. rows' = {Aged(r) : r \in rows} /\ UNCHANGED <<proc, missed>> /\ ticked /\ ~ticked'
    BY <1>2 DEF Advance
  <2>2. \A r \in rows : /\ Aged(r).acct = r.acct /\ Aged(r).token.ttl = Less(r.token.ttl)
                        /\ r.acct \in Accts /\ r.token.ttl \in 0..Life
    BY DEF TypeOK, Rows, Tokens
  <2> HIDE DEF Aged
  <2>3. \A b : ~InHand(b)
    BY <1>2 DEF Advance, Waiting, InHand, Doing, Work, CommandsMean, Means
  <2>4. \A b \in Accts : keyring'[b] # None => keyring[b] # None
    BY <1>2 DEF Advance
  <2>5. down' = 0 \/ (down < MaxOutage /\ down' = down + 1)
    BY <1>2 DEF Advance
  <2>6. \A n \in Nat : Less(n) >= n - 1
    BY DEF Less
  <2> SUFFICES ASSUME NEW r \in rows, keyring[r.acct] # None, r.acct \notin missed
               PROVE  Less(r.token.ttl) >= Floor'
    BY <2>1, <2>2, <2>4 DEF Ahead
  <2>7. r.token.ttl \in Nat /\ r.token.ttl >= Floor /\ (down = 0 => r.token.ttl >= Horizon)
    BY <2>1, <2>2, <2>3 DEF Ahead
  <2>8. Less(r.token.ttl) >= r.token.ttl - 1 /\ Less(r.token.ttl) \in Nat
    BY <2>6, <2>7 DEF Less
  <2>9. down \in 0..MaxOutage
    BY DEF TypeOK
  <2> QED
    BY <2>5, <2>7, <2>8, <2>9 DEF Floor
<1> QED
  BY <1>1, <1>2 DEF AddProvider, RemoveProvider, vars

-----------------------------------------------------------------------------
\* Where the timer is frequent enough, the invariant always holds.
LEMMA FInvHolds == Timely => (Spec => []FInv)
<1> SUFFICES ASSUME Timely PROVE Spec => []FInv
  OBVIOUS
<1>1. Init => FInv
  BY IInvInit DEF Init, FInv, LoginsAlone, AsksGood, Ahead, Idle
<1>2. FInv /\ [Next]_vars => FInv'
  <2> SUFFICES ASSUME FInv, [Next]_vars PROVE FInv'
    OBVIOUS
  <2>1. IInv' /\ (lost \subseteq missed)' /\ LoginsAlone' /\ AsksGood'
    BY IInvStep, LostStep, AloneStep, AsksStep DEF FInv
  <2>2. Ahead'
    BY CommandAhead, OthersAhead, RefreshAhead, WorldAhead DEF Next, Step
  <2> QED
    BY <2>1, <2>2 DEF FInv
<1> QED
  BY <1>1, <1>2, PTL DEF Spec

\* A sync run is never handed an expired token, for every horizon that exceeds the
\* longest outage by more than a period and every token that lives as long as it:
\* a fault or a removed provider aside, tick renews every account in time.
THEOREM TokensFresh == Timely => (Spec => []TokenFresh)
<1> SUFFICES ASSUME Timely PROVE Spec => []TokenFresh
  OBVIOUS
<1>1. FInv => TokenFresh
  <2> SUFFICES ASSUME FInv, NEW r \in rows, keyring[r.acct] # None, r.acct \notin missed
               PROVE  r.token.ttl > 0
    BY DEF TokenFresh, AccessTokens, Listed
  <2>1. Floor > 0 /\ Floor \in Int
    BY FloorBelow DEF FInv, IInv
  <2>2. r.token.ttl >= Floor /\ r.token.ttl \in Nat
    BY DEF FInv, IInv, Ahead, TypeOK, Rows, Tokens
  <2> QED
    BY <2>1, <2>2
<1> QED
  BY <1>1, FInvHolds, PTL
=============================================================================
