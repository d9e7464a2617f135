----------------------------- MODULE ClientLoops -----------------------------
(***************************************************************************)
(* The loops in which the program waits for a server: the poll for the      *)
(* token of a device code (oauth.py), and the calls of the JMAP and Graph   *)
(* adapters that are made again after 429 Too Many Requests, with the       *)
(* Retry-After header read by retry.py.                                     *)
(*                                                                          *)
(* One loop runs against a server that becomes ready at a time of its own.  *)
(* Times are in half seconds, so that a fraction of a second can be lost;   *)
(* a sleep and a call each take one step, the clock is moved on by both.    *)
(***************************************************************************)
EXTENDS Integers, FiniteSets

CONSTANTS
  Loops,         \* those to study: "device", "jmap", "graph"
  ReadyTimes,    \* when the user approves, or the server stops to throttle
  Styles,        \* of Retry-After: "none", "junk", "negative", "seconds", "date"
  Latencies,     \* how long a call may take
  Lifetimes,     \* expires_in of a device code
  MaxSlowDowns

ASSUME LoopsAssumption ==
  /\ Loops \subseteq {"device", "jmap", "graph"}
  /\ Styles \subseteq {"none", "junk", "negative", "seconds", "date"}
  /\ ReadyTimes \subseteq Nat /\ Latencies \subseteq Nat /\ Lifetimes \subseteq Nat
  /\ \E d \in Latencies : \A e \in Latencies : e <= d     \* every call times out
  /\ MaxSlowDowns \in Nat

Second == 2
Interval == 5 * Second               \* the default; the one servers send
MAX_RETRY_AFTER_SECONDS == 120
Tries(l) == IF l = "jmap" THEN 8 ELSE 4

VARIABLES
  loop, now,
  pc,          \* "request", "test", "sleep", "call", "give up" (the wait after the
               \* last attempt of _call), "done"
  attempt, interval, wait, deadline, outcome,    \* the program's
  ready, style, expiry, spacing, asked, slowed   \* the server's

vars == <<loop, now, pc, attempt, interval, wait, deadline, outcome,
          ready, style, expiry, spacing, asked, slowed>>

Init ==
  /\ loop \in Loops /\ ready \in ReadyTimes /\ style \in Styles
  /\ now = 0 /\ attempt = 0 /\ interval = 0 /\ wait = 0 /\ deadline = 0
  /\ pc = IF loop = "device" THEN "request" ELSE "call"
  /\ outcome = "none"
  /\ expiry = 0 /\ spacing = 0 /\ slowed = 0
  /\ asked = 0       \* the server wants no call before that time

\* A call is made, and answered after a while.
Called == \E d \in Latencies : now' = now + d
Ends(result) == pc' = "done" /\ outcome' = result

-----------------------------------------------------------------------------
(* The device code flow. *)

\* request_device_code; the lifetime counts from the answer, the server's from
\* its issue.
RequestCode ==
  /\ pc = "request"
  /\ Called
  /\ \E e \in Lifetimes : expiry' = now + e /\ deadline' = now' + e
  /\ interval' = Interval /\ spacing' = Interval
  /\ pc' = "test"
  /\ UNCHANGED <<loop, attempt, wait, outcome, ready, style, asked, slowed>>

\* poll_for_token looks at the deadline before it sleeps, not before it polls.
ExpiresLocally ==
  /\ pc = "test" /\ now >= deadline
  /\ Ends("expired")
  /\ UNCHANGED <<loop, now, attempt, interval, wait, deadline, ready, style, expiry,
                 spacing, asked, slowed>>

\* Faulty variant: the local deadline is not looked at.
BeginSleepAlways ==
  /\ pc = "test"
  /\ pc' = "sleep" /\ wait' = interval
  /\ UNCHANGED <<loop, now, attempt, interval, deadline, outcome, ready, style,
                 expiry, spacing, asked, slowed>>

BeginSleep ==
  /\ pc = "test" /\ now < deadline
  /\ pc' = "sleep" /\ wait' = interval
  /\ UNCHANGED <<loop, now, attempt, interval, deadline, outcome, ready, style,
                 expiry, spacing, asked, slowed>>

Sleep ==
  /\ pc = "sleep"
  /\ now' = now + wait
  /\ pc' = "call"
  /\ UNCHANGED <<loop, attempt, interval, wait, deadline, outcome, ready, style,
                 expiry, spacing, asked, slowed>>

Polling == pc = "call" /\ loop = "device" /\ Called

\* authorization_pending; a server may forget to say that the code expired.
Pending ==
  /\ Polling
  /\ now' < ready
  /\ pc' = "test"
  /\ asked' = now' + spacing
  /\ UNCHANGED <<loop, attempt, interval, wait, deadline, outcome, ready, style,
                 expiry, spacing, slowed>>

\* Faulty variant: slow_down is taken for authorization_pending.
SlowedAsBefore(i) == i
Slowed(i) == i + 5 * Second

SlowDown ==
  /\ Polling
  /\ now' < ready /\ slowed < MaxSlowDowns
  /\ slowed' = slowed + 1
  /\ spacing' = spacing + 5 * Second
  /\ asked' = now' + spacing'
  /\ interval' = Slowed(interval)
  /\ pc' = "test"
  /\ UNCHANGED <<loop, attempt, wait, deadline, outcome, ready, style, expiry>>

\* expired_token, which ends the loop as every error of the server but the two
\* above does.
Refused ==
  /\ Polling
  /\ now' >= expiry
  /\ Ends("refused")
  /\ UNCHANGED <<loop, attempt, interval, wait, deadline, ready, style, expiry,
                 spacing, asked, slowed>>

Granted ==
  /\ Polling
  /\ ready <= now' /\ now' < expiry
  /\ Ends("served")
  /\ UNCHANGED <<loop, attempt, interval, wait, deadline, ready, style, expiry,
                 spacing, asked, slowed>>

-----------------------------------------------------------------------------
(* 429 and Retry-After. *)

Least(x, y) == IF x <= y THEN x ELSE y

\* The header of a server that is ready in `left` half seconds.
Header(left) ==
  [kind |-> style,
   n |-> CASE style = "seconds" -> (left + Second - 1) \div Second
           [] style = "date" -> now' + left
           [] style = "negative" -> -1
           [] OTHER -> 0]

\* Seconds to a date are cut to a whole number.
RetryAfter(header, default) ==
  LET seconds == CASE header.kind \in {"seconds", "negative"} -> header.n
                   [] header.kind = "date" -> (header.n - now') \div Second
                   [] OTHER -> default
  IN  IF seconds < 0 THEN default ELSE seconds

\* parse_retry_after
ParseRetryAfter(header, default) ==
  Least(RetryAfter(header, default), MAX_RETRY_AFTER_SECONDS) * Second

\* Faulty variant: the same default for every attempt.
DefaultWaitConstant(l, n) == 5
DefaultWait(l, n) == IF l = "jmap" THEN Least(5 * 2^n, 120) ELSE 5

Requesting == pc = "call" /\ loop # "device" /\ Called
Throttled == Requesting /\ now' < ready

\* Faulty variant: one attempt too many.
LastAttemptLate(n) == n > Tries(loop)
LastAttempt(n) == n = Tries(loop)

\* _call also waits after its last attempt, _request does not.
Wait ==
  LET header == Header(ready - now') IN
  /\ Throttled
  /\ loop = "graph" => attempt < Tries(loop) - 1
  /\ wait' = ParseRetryAfter(header, DefaultWait(loop, attempt))
  /\ asked' = CASE style = "seconds" -> now' + Least(header.n, MAX_RETRY_AFTER_SECONDS) * Second
                [] style = "date" -> Least(ready, now' + MAX_RETRY_AFTER_SECONDS * Second)
                [] OTHER -> now'
  /\ attempt' = attempt + 1
  /\ pc' = IF LastAttempt(attempt') THEN "give up" ELSE "sleep"
  /\ UNCHANGED <<loop, interval, deadline, outcome, ready, style, expiry, spacing, slowed>>

\* The last 429 raises.
GiveUp ==
  /\ \/ /\ Throttled /\ loop = "graph" /\ attempt = Tries(loop) - 1
     \/ /\ pc = "give up" /\ now' = now + wait
  /\ Ends("throttled")
  /\ UNCHANGED <<loop, attempt, interval, wait, deadline, ready, style, expiry,
                 spacing, asked, slowed>>

Served ==
  /\ Requesting
  /\ ready <= now'
  /\ Ends("served")
  /\ UNCHANGED <<loop, attempt, interval, wait, deadline, ready, style, expiry,
                 spacing, asked, slowed>>

\* A timeout, a broken connection, an answer of another kind: any of them raises.
CallFails ==
  /\ pc \in {"request", "call"}
  /\ Called
  /\ Ends("failed")
  /\ UNCHANGED <<loop, attempt, interval, wait, deadline, ready, style, expiry,
                 spacing, asked, slowed>>

Finished == pc = "done" /\ UNCHANGED vars

Next ==
  \/ RequestCode \/ ExpiresLocally \/ BeginSleep \/ Sleep
  \/ Pending \/ SlowDown \/ Refused \/ Granted
  \/ Wait \/ GiveUp \/ Served \/ CallFails \/ Finished

Spec == Init /\ [][Next]_vars

-----------------------------------------------------------------------------
\* The domains of the variables; no call is made more often than its bound says.
TypeOK ==
  /\ loop \in Loops /\ style \in Styles /\ ready \in ReadyTimes
  /\ pc \in {"request", "test", "sleep", "call", "give up", "done"}
  /\ outcome \in {"none", "served", "expired", "refused", "throttled", "failed"}
  /\ now \in Nat /\ interval \in Nat /\ wait \in Nat /\ deadline \in Nat
  /\ expiry \in Nat /\ spacing \in Nat /\ asked \in Nat
  /\ attempt \in 0..Tries(loop) /\ slowed \in 0..MaxSlowDowns

\* The program never calls before the time a server asked it to wait for, slow_down
\* and the cap of two minutes taken into account; a date may be missed by less
\* than a second, which is cut off (oauth.py:162, retry.py:22-35).
Patient == pc = "call" => now + Second > asked

MaxLatency == CHOOSE d \in Latencies : \A e \in Latencies : e <= d

\* How long a server may throttle before a call is given up: the waits between
\* the attempts, by default or up to the cap if it says how long.
Patience(l) ==
  IF style = "seconds" THEN (Tries(l) - 1) * 120 * Second
  ELSE IF l = "jmap" THEN (5 + 10 + 20 + 40 + 80 + 120 + 120) * Second
  ELSE 15 * Second

\* Nothing is given up that would have been had in time: a user who approves more
\* than one interval and the time of two calls before the code expires is logged in,
\* and a call outlives a throttling server as long as its attempts can
\* (oauth.py:127-166, jmap_adapter.py:468-478, graph_adapter.py:79-91).  Dates are
\* left out: cut to whole seconds, the last second goes on attempts without a wait.
GivesUpLate ==
  /\ outcome \in {"expired", "refused"} => ready + spacing + 2 * MaxLatency >= expiry
  /\ outcome = "throttled" /\ style # "date" => ready > Patience(loop)

\* No server keeps the program in a loop for long: the last poll is at most one
\* interval after the deadline, and a throttled call ends after its attempts with
\* two minutes each (oauth.py:128, retry.py:8).
EndsInTime ==
  IF loop = "device" THEN pc = "request" \/ now <= deadline + spacing + MaxLatency
  ELSE now <= Tries(loop) * (120 * Second + MaxLatency)
=============================================================================
