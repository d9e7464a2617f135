------------------------------ MODULE Accounts ------------------------------
(***************************************************************************)
(* The OAuth helper groupware-sync-auth: accounts in a database that sync  *)
(* runs read (oc_ioidc_userconfig), refresh tokens in a keyring, and the   *)
(* commands that keep the two together while the timer runs                *)
(* `groupware-sync-auth tick` beside whatever the operator types.          *)
(*                                                                         *)
(* Database transactions and keyring calls are one step each; a process    *)
(* may die between any two of them.  Time is counted in timer periods, and *)
(* down: a ttl is the number of periods left.  A period passes only when   *)
(* no command is between two of its own steps: a refresh takes at most     *)
(* three attempts of 30 seconds, an approval may take any time.            *)
(*                                                                         *)
(* A provider is its name.  The code holds its primary key: one removed    *)
(* and added again under a login is the same here, as it is to the code    *)
(* where the freed key is handed out again, and only the name the keyring  *)
(* goes by; a row left with a key no provider has is not modelled then.    *)
(***************************************************************************)
EXTENDS Naturals, FiniteSets

CONSTANTS Providers, Uids,    \* names in oc_ioidc_providers, user ids
          Cli, Timer,         \* the operator's command line, systemd's tick
          Serials,            \* refresh tokens of one account held at a time
          RowIds,             \* primary keys of oc_ioidc_userconfig
          Life,               \* expires_in of an access token, in periods
          Horizon,            \* tick --horizon, in periods
          RetryAttempts,
          Rotates,            \* the IdP replaces a refresh token it is shown
          ReusesIds,          \* SQLite hands the highest freed key out again
          MaxOutage,          \* consecutive periods the IdP is unreachable
          MaxFaults,          \* crashes and lost answers
          None

Accts == Providers \X Uids

ASSUME AccountsAssumption ==
  /\ Life \in Nat \ {0} /\ Horizon \in Nat /\ RetryAttempts \in Nat \ {0}
  /\ RowIds \subseteq Nat \ {0} /\ MaxOutage \in Nat /\ MaxFaults \in Nat
  /\ Rotates \in BOOLEAN /\ ReusesIds \in BOOLEAN
  /\ None \notin Serials \cup Accts /\ Cli # Timer

Procs == {Cli, Timer}
Tokens == [acct : Accts, ttl : 0..Life]
Rows == [id : RowIds, acct : Accts, token : Tokens]
Blobs == [rt : Serials, ttl : 0..Life]
Targets == [row : RowIds \cup {0}, acct : Accts]

VARIABLES providers,   \* registered provider names
          rows,        \* oc_ioidc_userconfig
          keyring,     \* account -> SecretBlob, or None
          valid,       \* account -> refresh tokens the IdP accepts
          proc,        \* process -> where its command stands
          down,        \* consecutive periods without the IdP, this one included
          ticked,      \* the timer fired in this period
          faults,      \* crashes and lost answers so far
          lost,        \* accounts whose newest refresh token no one received
          missed,      \* accounts a fault or a removed provider kept from a refresh
          overlapped   \* accounts logged out under the hands of another command

vars == <<providers, rows, keyring, valid, proc, down, ticked, faults, lost,
          missed, overlapped>>

-----------------------------------------------------------------------------
NoTarget == [row |-> 0, acct |-> None]
Idle == [pc |-> "idle", at |-> NoTarget, todo |-> {}, sel |-> {},
         due |-> FALSE, rt |-> None, got |-> None, attempt |-> 0]
Waiting == {"idle", "approve"}
InFlight(w, a) == proc[w].pc \in {"row", "keep"} /\ proc[w].at.acct = a

HasRow(a) == \E r \in rows : r.acct = a
FreshToken(a) == [acct |-> a, ttl |-> Life]

\* The refresh tokens of an account that anything still holds.
Held(a) ==
  {keyring[a].rt : x \in {y \in {a} : keyring[y] # None}}
    \cup UNION {{proc[w].rt, proc[w].got} : w \in {v \in Procs : proc[v].at.acct = a}}

Remembered == UNION {{t.row : t \in proc[w].todo} \cup {proc[w].at.row} : w \in Procs}
\* SQLite hands out the key after the highest one, freed or not; elsewhere a key
\* does not return while a command remembers it (which key is of no interest).
Unused(i) == i \notin Remembered /\ \A r \in rows : r.id # i
FreeRowIds ==
  {i \in RowIds :
     IF ReusesIds
     THEN (\A r \in rows : r.id < i) /\ (i = 1 \/ \E r \in rows : r.id = i - 1)
     ELSE Unused(i) /\ \A j \in RowIds : Unused(j) => i <= j}

\* list_accounts: the rows joined with their provider.
Listed == {r \in rows : r.acct[1] \in providers}
\* get_access_token: what a sync run may be given for an account.
AccessTokens(a) == {r.token : r \in {x \in Listed : x.acct = a}}

At(w, pc) == proc[w].pc = pc
Goto(w, pc) == proc' = [proc EXCEPT ![w].pc = pc]
\* The command goes on with its next account, or returns.
Proceed(w) == proc' = [proc EXCEPT ![w] =
                         IF @.todo = {} THEN Idle
                         ELSE [Idle EXCEPT !.pc = "scan", !.todo = proc[w].todo,
                                           !.due = proc[w].due]]

Init ==
  /\ providers = Providers
  /\ rows = {}
  /\ keyring = [a \in Accts |-> None]
  /\ valid = [a \in Accts |-> {}]
  /\ proc = [w \in Procs |-> Idle]
  /\ down = 0 /\ ticked = FALSE /\ faults = 0
  /\ lost = {} /\ missed = {} /\ overlapped = {}

-----------------------------------------------------------------------------
\* provider add and remove: one transaction each.
AddProvider(p) ==
  /\ p \notin providers
  /\ providers' = providers \cup {p}
  /\ UNCHANGED <<rows, keyring, valid, proc, down, ticked, faults, lost, missed,
                 overlapped>>

RemoveProvider(p) ==
  /\ p \in providers
  /\ \A r \in rows : r.acct[1] # p
  /\ providers' = providers \ {p}
  /\ UNCHANGED <<rows, keyring, valid, proc, down, ticked, faults, lost, missed,
                 overlapped>>

\* login: a device code is requested and shown, the poll for its token begins.
BeginLogin(w, a) ==
  /\ At(w, "idle")
  /\ a[1] \in providers
  /\ proc' = [proc EXCEPT ![w] = [Idle EXCEPT !.pc = "approve",
                                              !.at = [row |-> 0, acct |-> a]]]
  /\ UNCHANGED <<providers, rows, keyring, valid, down, ticked, faults, lost,
                 missed, overlapped>>

\* The poll and the userinfo call succeed; the IdP may leave out a refresh token.
LoginApproved(w) ==
  LET a == proc[w].at.acct IN
  /\ At(w, "approve")
  /\ \/ \E s \in Serials \ Held(a) :
          /\ valid' = [valid EXCEPT ![a] = @ \cup {s}]
          /\ proc' = [proc EXCEPT ![w].pc = "commit", ![w].got = s]
     \/ /\ Goto(w, "commit")
        /\ UNCHANGED valid
  /\ UNCHANGED <<providers, rows, keyring, down, ticked, faults, lost, missed,
                 overlapped>>

\* Denied, expired, or no userinfo: nothing was written.
LoginAbandoned(w) ==
  /\ At(w, "approve")
  /\ proc' = [proc EXCEPT ![w] = Idle]
  /\ UNCHANGED <<providers, rows, keyring, valid, down, ticked, faults, lost,
                 missed, overlapped>>

\* import-token: the operator's refresh token is exchanged at once.
BeginImport(w, a) ==
  /\ At(w, "idle")
  /\ a[1] \in providers
  /\ \E s \in Serials \ Held(a) :
       /\ valid' = [valid EXCEPT ![a] = @ \cup {s}]
       /\ proc' = [proc EXCEPT ![w] = [Idle EXCEPT !.pc = "commit", !.got = s,
                                         !.at = [row |-> 0, acct |-> a]]]
  /\ UNCHANGED <<providers, rows, keyring, down, ticked, faults, lost, missed,
                 overlapped>>

\* The row of a new account, or the new token in the row it has.
Added(a) == {rows \cup {[id |-> i, acct |-> a, token |-> FreshToken(a)]} : i \in FreeRowIds}
\* Faulty variant: the row an account has is left alone.
Untouched(a) == rows
Overwritten(a) == {IF r.acct = a THEN [r EXCEPT !.token = FreshToken(a)] ELSE r : r \in rows}

\* The row is found or added, and committed, before the keyring is written; a
\* login that got no refresh token leaves the row behind and raises.
CommitRow(w) ==
  LET a == proc[w].at.acct IN
  /\ At(w, "commit")
  /\ rows' \in IF HasRow(a) THEN {Overwritten(a)} ELSE Added(a)
  /\ proc' = [proc EXCEPT ![w] = IF @.got = None THEN Idle
                                 ELSE [@ EXCEPT !.pc = "keep"]]
  /\ overlapped' = overlapped \ {a}
  /\ UNCHANGED <<providers, keyring, valid, down, ticked, faults, lost, missed>>

\* Faulty variant: a refresh writes back the token it has read.
OldSecret(w) == IF proc[w].rt = None THEN proc[w].got ELSE proc[w].rt
NewSecret(w) == proc[w].got

\* secrets.write: the last step of login, import-token and every refresh.
KeepSecret(w) ==
  LET a == proc[w].at.acct IN
  /\ At(w, "keep")
  /\ keyring' = [keyring EXCEPT ![a] = [rt |-> NewSecret(w), ttl |-> Life]]
  /\ Proceed(w)
  /\ lost' = lost \ {a}
  /\ missed' = missed \ {a}
  /\ overlapped' = IF \E v \in Procs : \E t \in proc[v].sel \ proc[v].todo : t.acct = a
                   THEN overlapped \cup {a} ELSE overlapped
  /\ UNCHANGED <<providers, rows, valid, down, ticked, faults>>

\* logout --uid, with or without --provider: the rows are selected ...
BeginLogout(w, u, ps) ==
  LET sel == {r \in rows : r.acct[2] = u /\ r.acct[1] \in ps} IN
  /\ At(w, "idle")
  /\ ps = Providers \/ ps \subseteq providers
  /\ sel # {}
  /\ proc' = [proc EXCEPT ![w] =
                [Idle EXCEPT !.pc = "forget",
                   !.todo = {[row |-> r.id, acct |-> r.acct] : r \in sel},
                   !.sel = {[row |-> r.id, acct |-> r.acct] : r \in sel}]]
  /\ UNCHANGED <<providers, rows, keyring, valid, down, ticked, faults, lost,
                 missed, overlapped>>

\* ... their keyring entries deleted one by one, if the provider is known ...
ForgetSecret(w) ==
  /\ At(w, "forget")
  /\ \E t \in proc[w].todo :
       /\ proc' = [proc EXCEPT ![w].todo = @ \ {t}]
       /\ IF t.acct[1] \in providers
          THEN /\ keyring' = [keyring EXCEPT ![t.acct] = None]
               /\ UNCHANGED overlapped
          ELSE /\ overlapped' = overlapped \cup {t.acct}
               /\ UNCHANGED keyring
  /\ UNCHANGED <<providers, rows, valid, down, ticked, faults, lost, missed>>

\* Faulty variant: the rows go first.
AnyTime(w) == TRUE
AllForgotten(w) == proc[w].todo = {}

\* ... and one commit removes the rows.
CommitLogout(w) ==
  /\ At(w, "forget")
  /\ AllForgotten(w)
  /\ rows' = {r \in rows : [row |-> r.id, acct |-> r.acct] \notin proc[w].sel}
  /\ overlapped' = overlapped \cup
       {t.acct : t \in {x \in proc[w].sel :
          \E v \in Procs \ {w} :
             /\ ~At(v, "approve")
             /\ x.acct \in {proc[v].at.acct} \cup {t.acct : t \in proc[v].todo}}}
  /\ proc' = [proc EXCEPT ![w] = Idle]
  /\ UNCHANGED <<providers, keyring, valid, down, ticked, faults, lost, missed>>

\* refresh --uid or --all (due FALSE) and tick (due TRUE) list their accounts.
BeginRefresh(w, us, due) ==
  LET targets == {[row |-> r.id, acct |-> r.acct] :
                     r \in {x \in Listed : x.acct[2] \in us}}
  IN
  /\ At(w, "idle")
  /\ targets # {} \/ due
  /\ IF targets = {} THEN UNCHANGED proc
     ELSE proc' = [proc EXCEPT ![w] = [Idle EXCEPT !.pc = "scan",
                                         !.todo = targets, !.due = due]]
  /\ ticked' = (ticked \/ due)
  /\ missed' = IF due THEN missed \cup {r.acct : r \in rows \ Listed} ELSE missed
  /\ UNCHANGED <<providers, rows, keyring, valid, down, faults, lost, overlapped>>

\* Faulty variant: tick waits until the token has expired.
NotExpired(a) == keyring[a] = None \/ keyring[a].ttl > 0
\* tick passes over an account without entry, or whose token outlives the horizon.
NotDue(a) == keyring[a] = None \/ keyring[a].ttl >= Horizon
Scan(w) ==
  /\ At(w, "scan")
  /\ \E t \in proc[w].todo :
       LET rest == [proc[w] EXCEPT !.todo = @ \ {t}] IN
       IF proc[w].due /\ NotDue(t.acct)
       THEN proc' = [proc EXCEPT ![w] = IF rest.todo = {} THEN Idle ELSE rest]
       ELSE proc' = [proc EXCEPT ![w] = [rest EXCEPT !.pc = "read", !.at = t]]
  /\ UNCHANGED <<providers, rows, keyring, valid, down, ticked, faults, lost,
                 missed, overlapped>>

\* refresh_one reads the entry itself.
ReadSecret(w) ==
  LET entry == keyring[proc[w].at.acct] IN
  /\ At(w, "read")
  /\ IF entry = None THEN Proceed(w)
     ELSE proc' = [proc EXCEPT ![w].pc = "ask", ![w].rt = entry.rt]
  /\ UNCHANGED <<providers, rows, keyring, valid, down, ticked, faults, lost,
                 missed, overlapped>>

\* Faulty variant: one attempt too many.
RetryOnceMore(w) ==
  IF proc[w].attempt = RetryAttempts THEN Proceed(w)
  ELSE proc' = [proc EXCEPT ![w].attempt = @ + 1]
RetryOrGiveUp(w) ==
  IF proc[w].attempt = RetryAttempts - 1 THEN Proceed(w)
  ELSE proc' = [proc EXCEPT ![w].attempt = @ + 1]

\* An attempt that does not reach the IdP; all of them fail only in an outage.
AskFails(w) ==
  /\ At(w, "ask")
  /\ proc[w].attempt = RetryAttempts - 1 => down > 0
  /\ RetryOrGiveUp(w)
  /\ UNCHANGED <<providers, rows, keyring, valid, down, ticked, faults, lost,
                 missed, overlapped>>

\* The IdP rotates the token, its answer is lost, and the loop asks again.
AskLost(w) ==
  LET a == proc[w].at.acct IN
  /\ At(w, "ask")
  /\ Rotates /\ down = 0 /\ faults < MaxFaults
  /\ proc[w].rt \in valid[a]
  /\ valid' = [valid EXCEPT ![a] = @ \ {proc[w].rt}]
  /\ RetryOrGiveUp(w)
  /\ faults' = faults + 1
  /\ lost' = lost \cup {a}
  /\ missed' = missed \cup {a}
  /\ UNCHANGED <<providers, rows, keyring, down, ticked, overlapped>>

\* invalid_grant is final: the row and the entry are left alone.
AskRejected(w) ==
  /\ At(w, "ask")
  /\ down = 0
  /\ proc[w].rt \notin valid[proc[w].at.acct]
  /\ Proceed(w)
  /\ UNCHANGED <<providers, rows, keyring, valid, down, ticked, faults, lost,
                 missed, overlapped>>

\* The old refresh token is kept when the answer has none.
AskGranted(w) ==
  LET a == proc[w].at.acct IN
  /\ At(w, "ask")
  /\ down = 0
  /\ proc[w].rt \in valid[a]
  /\ IF Rotates
     THEN \E s \in Serials \ Held(a) :
            /\ valid' = [valid EXCEPT ![a] = (@ \ {proc[w].rt}) \cup {s}]
            /\ proc' = [proc EXCEPT ![w].pc = "row", ![w].got = s]
     ELSE /\ proc' = [proc EXCEPT ![w].pc = "row", ![w].got = proc[w].rt]
          /\ UNCHANGED valid
  /\ UNCHANGED <<providers, rows, keyring, down, ticked, faults, lost, missed,
                 overlapped>>

\* The row is looked up again by its key and written, if it is still there.
UpdateRow(w) ==
  LET t == proc[w].at IN
  /\ At(w, "row")
  /\ rows' = {IF r.id = t.row THEN [r EXCEPT !.token = FreshToken(t.acct)] ELSE r
                : r \in rows}
  /\ Goto(w, "keep")
  /\ UNCHANGED <<providers, keyring, valid, down, ticked, faults, lost, missed,
                 overlapped>>

-----------------------------------------------------------------------------
\* A command dies between two of its steps.
Crash(w) ==
  LET a == proc[w].at.acct
      refreshing == proc[w].pc \in {"scan", "read", "ask", "row"}
                      \/ (At(w, "keep") /\ proc[w].rt # None)
  IN
  /\ proc[w].pc \notin Waiting
  /\ faults < MaxFaults
  /\ faults' = faults + 1
  /\ lost' = IF refreshing /\ InFlight(w, a) THEN lost \cup {a} ELSE lost
  /\ missed' = IF refreshing
               THEN missed \cup {t.acct : t \in proc[w].todo}
                           \cup (IF At(w, "scan") THEN {} ELSE {a})
               ELSE missed
  /\ proc' = [proc EXCEPT ![w] = Idle]
  /\ UNCHANGED <<providers, rows, keyring, valid, down, ticked, overlapped>>

\* The timer fired and its tick ended; a period passes.
Less(n) == IF n = 0 THEN 0 ELSE n - 1
Advance ==
  /\ ticked
  /\ \A w \in Procs : proc[w].pc \in Waiting
  /\ rows' = {[r EXCEPT !.token.ttl = Less(@)] : r \in rows}
  /\ keyring' = [a \in Accts |-> IF keyring[a] = None THEN None
                                 ELSE [keyring[a] EXCEPT !.ttl = Less(@)]]
  /\ ticked' = FALSE
  /\ down' \in {0} \cup (IF down < MaxOutage THEN {down + 1} ELSE {})
  /\ UNCHANGED <<providers, valid, proc, faults, lost, missed, overlapped>>

Command ==
  \/ \E a \in Accts : BeginLogin(Cli, a) \/ BeginImport(Cli, a)
  \/ \E u \in Uids :
       \/ BeginLogout(Cli, u, Providers)
       \/ \E p \in Providers : BeginLogout(Cli, u, {p})
       \/ BeginRefresh(Cli, {u}, FALSE)
  \/ BeginRefresh(Cli, Uids, FALSE)
  \/ BeginRefresh(Timer, Uids, TRUE) /\ ~ticked

Step(w) ==
  \/ LoginApproved(w) \/ LoginAbandoned(w) \/ CommitRow(w) \/ KeepSecret(w)
  \/ ForgetSecret(w) \/ CommitLogout(w)
  \/ Scan(w) \/ ReadSecret(w) \/ AskFails(w) \/ AskLost(w) \/ AskRejected(w)
  \/ AskGranted(w) \/ UpdateRow(w) \/ Crash(w)

Next ==
  \/ \E p \in Providers : AddProvider(p) \/ RemoveProvider(p)
  \/ Command
  \/ \E w \in Procs : Step(w)
  \/ Advance

Spec == Init /\ [][Next]_vars

-----------------------------------------------------------------------------
ProcType ==
  [pc : {"idle", "approve", "commit", "keep", "forget", "scan", "read", "ask", "row"},
   at : Targets \cup {NoTarget}, todo : SUBSET Targets, sel : SUBSET Targets, due : BOOLEAN,
   rt : Serials \cup {None}, got : Serials \cup {None},
   attempt : 0..(RetryAttempts - 1)]

TypeOK ==
  /\ providers \subseteq Providers
  /\ rows \subseteq Rows
  /\ keyring \in [Accts -> Blobs \cup {None}]
  /\ valid \in [Accts -> SUBSET Serials]
  /\ proc \in [Procs -> ProcType]
  /\ down \in 0..MaxOutage /\ ticked \in BOOLEAN /\ faults \in 0..MaxFaults
  /\ lost \subseteq Accts /\ missed \subseteq Accts /\ overlapped \subseteq Accts

\* A refresh token in the keyring is one the IdP accepts, whatever commands ran
\* side by side: only a crash or an answer lost after the IdP rotated it, or a
\* refresh that has the new one in hand, leaves a dead token (service.py:293-309).
RefreshTokenKept ==
  \A a \in Accts :
    keyring[a] # None =>
      \/ keyring[a].rt \in valid[a]
      \/ a \in lost
      \/ \E w \in Procs : InFlight(w, a)

\* The entry never promises more than the token in the row delivers, so tick is
\* never late because of it: a crash between the two writes of a login or a
\* refresh errs on the early side (service.py:175-214, 295-309).
ExpiryNotOverstated ==
  \A a \in Accts : \A t \in AccessTokens(a) :
    keyring[a] # None => keyring[a].ttl <= t.ttl

\* A sync run is never handed an expired token as long as the IdP is out for at
\* most MaxOutage ticks in a row and no crash or lost answer hit the account:
\* the horizon of three periods leaves tick a second chance (service.py:313-338).
TokenFresh ==
  \A a \in Accts : \A t \in AccessTokens(a) :
    keyring[a] # None /\ a \notin missed => t.ttl > 0

\* logout leaves no refresh token behind (service.py:219), crashes included:
\* an entry without a row takes a logout that overlaps a refresh of the account,
\* or one whose provider was removed under a login.
EntriesHaveRows ==
  \A a \in Accts : keyring[a] # None => HasRow(a) \/ a \in overlapped

\* The token a sync run is given was issued to the account it asked for: a
\* refresh writes the row of its own account (service.py:243, 296).
TokenOfAccount == \A r \in rows : r.token.acct = r.acct
=============================================================================
