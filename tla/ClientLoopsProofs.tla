-------------------------- MODULE ClientLoopsProofs --------------------------
(***************************************************************************)
(* Theorems about ClientLoops, for any latencies, lifetimes, times at which *)
(* a server becomes ready and styles of the Retry-After header.             *)
(***************************************************************************)
EXTENDS ClientLoops, TLAPS

\* Where a loop may stand.
Course ==
  /\ loop = "device" => pc # "give up" /\ attempt = 0
  /\ loop # "device" => pc \notin {"request", "test"}
  /\ pc = "give up" => loop = "jmap"
  /\ pc # "done" => outcome = "none"
  /\ pc = "call" /\ loop # "device" => attempt < Tries(loop)
  /\ pc = "sleep" /\ loop # "device" => attempt \in 1..(Tries(loop) - 1)

\* The poll: what is asked of it, and how its clock stands to the user's approval.
PollInv ==
  /\ pc = "request" => now = 0 /\ asked = 0
  /\ expiry <= deadline /\ interval = spacing
  /\ pc = "test" =>
       /\ asked <= now + spacing
       /\ now < ready \/ now <= MaxLatency
       /\ now <= deadline + spacing + MaxLatency
  /\ pc = "sleep" =>
       /\ asked <= now + wait /\ wait = spacing
       /\ now < ready \/ now <= MaxLatency
       /\ now < deadline
  /\ pc = "call" =>
       /\ asked <= now
       /\ now < ready + spacing \/ now <= MaxLatency + spacing
       /\ now < deadline + spacing
  /\ pc = "done" => now <= deadline + spacing + MaxLatency
  /\ outcome # "throttled"
  /\ outcome \in {"expired", "refused"} => ready + spacing + 2 * MaxLatency >= expiry

\* How long the waits before the attempt number n are at least, if no header
\* with seconds brings the call to the time the server is ready.
Waited(n) ==
  IF style = "seconds" THEN 240 * n
  ELSE IF loop = "jmap" THEN <<0, 10, 30, 70, 150, 310, 550, 790>>[n + 1] ELSE 10 * n

Longest == 240 + MaxLatency

CallInv ==
  /\ pc = "call" =>
       /\ asked < now + 2
       /\ now <= attempt * Longest
       /\ style # "date" => now >= ready \/ now >= Waited(attempt)
  /\ pc = "sleep" =>
       /\ asked < now + wait + 2
       /\ now + wait <= attempt * Longest
       /\ style # "date" => now + wait >= ready \/ now + wait >= Waited(attempt)
  /\ pc = "give up" =>
       /\ now + wait <= Tries(loop) * Longest
       /\ style # "date" => ready > Patience(loop)
  /\ pc = "done" => now <= Tries(loop) * Longest
  /\ outcome \notin {"expired", "refused"}
  /\ outcome = "throttled" /\ style # "date" => ready > Patience(loop)

IInv ==
  /\ TypeOK /\ Course
  /\ loop = "device" => PollInv
  /\ loop # "device" => CallInv

LEMMA MaxLatencyType ==
  /\ MaxLatency \in Nat
  /\ \A e \in Latencies : e \in Nat /\ e <= MaxLatency
<1>1. PICK d \in Latencies : \A e \in Latencies : e <= d
  BY LoopsAssumption DEF LoopsAssumption
<1>2. MaxLatency \in Latencies /\ \A e \in Latencies : e <= MaxLatency
  BY <1>1 DEF MaxLatency
<1> QED
  BY <1>2, LoopsAssumption DEF LoopsAssumption

\* The numbers among the variables.
LEMMA Times ==
  ASSUME TypeOK
  PROVE  /\ now \in Nat /\ interval \in Nat /\ wait \in Nat /\ deadline \in Nat
         /\ expiry \in Nat /\ spacing \in Nat /\ asked \in Nat /\ ready \in Nat
         /\ attempt \in Nat /\ slowed \in Nat /\ Tries(loop) \in {4, 8}
<1>1. ready \in Nat
  BY LoopsAssumption DEF LoopsAssumption, TypeOK
<1>2. Tries(loop) \in {4, 8}
  BY DEF Tries
<1>3. attempt \in Nat
  <2>1. attempt \in 0..Tries(loop)
    BY DEF TypeOK
  <2> QED
    BY <1>2, <2>1
<1>4. slowed \in Nat
  <2>1. MaxSlowDowns \in Nat
    BY LoopsAssumption DEF LoopsAssumption
  <2>2. slowed \in 0..MaxSlowDowns
    BY DEF TypeOK
  <2> QED
    BY <2>1, <2>2
<1> QED
  BY <1>1, <1>2, <1>3, <1>4 DEF TypeOK

\* The clock after a call.
LEMMA CallTakes ==
  ASSUME now \in Nat, Called
  PROVE  now' \in Nat /\ now' \in Int /\ now <= now' /\ now' <= now + MaxLatency
<1>1. PICK d \in Latencies : now' = now + d
  BY DEF Called
<1> QED
  BY <1>1, MaxLatencyType

\* The waits that the code chooses when there is no usable header.
LEMMA DefaultWaits ==
  /\ \A n \in 0..7 :
       /\ DefaultWait("jmap", n) = <<5, 10, 20, 40, 80, 120, 120, 120>>[n + 1]
       /\ DefaultWait("jmap", n) \in 5..120
  /\ \A n \in 0..3 : DefaultWait("graph", n) = 5
<1>1. /\ 2^0 = 1 /\ 2^1 = 2 /\ 2^2 = 4 /\ 2^3 = 8
      /\ 2^4 = 16 /\ 2^5 = 32 /\ 2^6 = 64 /\ 2^7 = 128
  OBVIOUS
<1>2. ASSUME NEW n \in 0..7
      PROVE  /\ DefaultWait("jmap", n) = <<5, 10, 20, 40, 80, 120, 120, 120>>[n + 1]
             /\ DefaultWait("jmap", n) \in 5..120
  <2>1. CASE n = 0
    BY <1>1, <2>1 DEF DefaultWait, Least
  <2>2. CASE n = 1
    BY <1>1, <2>2 DEF DefaultWait, Least
  <2>3. CASE n = 2
    BY <1>1, <2>3 DEF DefaultWait, Least
  <2>4. CASE n = 3
    BY <1>1, <2>4 DEF DefaultWait, Least
  <2>5. CASE n = 4
    BY <1>1, <2>5 DEF DefaultWait, Least
  <2>6. CASE n = 5
    BY <1>1, <2>6 DEF DefaultWait, Least
  <2>7. CASE n = 6
    BY <1>1, <2>7 DEF DefaultWait, Least
  <2>8. CASE n = 7
    BY <1>1, <2>8 DEF DefaultWait, Least
  <2> QED
    BY <2>1, <2>2, <2>3, <2>4, <2>5, <2>6, <2>7, <2>8
<1>3. \A n \in 0..3 : DefaultWait("graph", n) = 5
  BY DEF DefaultWait
<1> QED
  BY <1>2, <1>3

\* What parse_retry_after makes of the header of a server that is ready in `left`.
LEMMA WaitLength ==
  ASSUME NEW left \in Nat, now' \in Int, NEW default \in 5..120, style \in Styles
  PROVE  LET w == ParseRetryAfter(Header(left), default) IN
         /\ w \in 0..240
         /\ style = "seconds" =>
              /\ w >= left \/ w = 240
              /\ w = Least(Header(left).n, MAX_RETRY_AFTER_SECONDS) * Second
         /\ style = "date" => w + 2 > left \/ w = 240
         /\ style \notin {"seconds", "date"} => w = default * 2
<1>1. style \in {"none", "junk", "negative", "seconds", "date"}
  BY LoopsAssumption DEF LoopsAssumption
<1>2. CASE style = "seconds"
  <2>1. Header(left).kind = "seconds" /\ Header(left).n = (left + 1) \div 2
    BY <1>2 DEF Header, Second
  <2>2. RetryAfter(Header(left), default) = (left + 1) \div 2
    BY <2>1 DEF RetryAfter
  <2> QED
    BY <1>2, <2>1, <2>2 DEF ParseRetryAfter, Least, MAX_RETRY_AFTER_SECONDS, Second
<1>3. CASE style = "date"
  <2>1. Header(left).kind = "date" /\ Header(left).n = now' + left
    BY <1>3 DEF Header
  <2>2. RetryAfter(Header(left), default) = left \div 2
    <3>1. \A t \in Int : (t + left) - t = left
      OBVIOUS
    <3>2. (now' + left) - now' = left
      BY <3>1
    <3> QED
      BY <2>1, <3>2 DEF RetryAfter, Second
  <2> QED
    BY <1>3, <2>2 DEF ParseRetryAfter, Least, MAX_RETRY_AFTER_SECONDS, Second
<1>4. CASE style = "negative"
  <2>1. Header(left).kind = "negative" /\ Header(left).n = -1
    BY <1>4 DEF Header
  <2>2. RetryAfter(Header(left), default) = default
    BY <2>1 DEF RetryAfter
  <2> QED
    BY <1>4, <2>2 DEF ParseRetryAfter, Least, MAX_RETRY_AFTER_SECONDS, Second
<1>5. CASE style \in {"none", "junk"}
  <2>1. RetryAfter(Header(left), default) = default
    BY <1>5 DEF Header, RetryAfter
  <2> QED
    BY <1>5, <2>1 DEF ParseRetryAfter, Least, MAX_RETRY_AFTER_SECONDS, Second
<1> QED
  BY <1>1, <1>2, <1>3, <1>4, <1>5

\* The product of a bound with at most 8 attempts.
LEMMA ProductGrows ==
  ASSUME NEW bound \in Nat, NEW m \in {4, 8}, NEW n \in Nat, n <= m
  PROVE  n * bound <= m * bound
<1>1. n \in 0..8
  OBVIOUS
<1> QED
  BY <1>1

LEMMA InitIInv == Init => IInv
<1> SUFFICES ASSUME Init PROVE IInv
  OBVIOUS
<1> USE LoopsAssumption, MaxLatencyType
     DEF Init, LoopsAssumption
<1>1. TypeOK /\ Course
  BY DEF TypeOK, Course, Tries
<1>2. loop = "device" => PollInv
  BY DEF PollInv
<1>3. loop # "device" => CallInv
  <2>1. ASSUME loop # "device" PROVE Waited(0) = 0
    BY DEF Waited
  <2> QED
    BY <2>1 DEF CallInv, Longest
<1> QED
  BY <1>1, <1>2, <1>3 DEF IInv

\* The device code flow.
LEMMA PollStep ==
  IInv /\ (RequestCode \/ ExpiresLocally \/ BeginSleep \/ Pending \/ SlowDown
             \/ Refused \/ Granted) => IInv'
<1> SUFFICES ASSUME IInv, RequestCode \/ ExpiresLocally \/ BeginSleep \/ Pending \/ SlowDown
                            \/ Refused \/ Granted
             PROVE  IInv'
  OBVIOUS
<1>0. TypeOK /\ Course /\ loop = "device" /\ loop' = "device" /\ PollInv
  BY DEF IInv, TypeOK, Course, RequestCode, ExpiresLocally, BeginSleep, Pending, SlowDown,
         Refused, Granted, Polling
<1>a. ASSUME Called PROVE now' \in Nat /\ now <= now' /\ now' <= now + MaxLatency
  BY <1>0, <1>a, CallTakes DEF TypeOK
<1>b. MaxLatency \in Nat
  BY MaxLatencyType
<1>c. /\ now \in Nat /\ interval \in Nat /\ wait \in Nat /\ deadline \in Nat
      /\ expiry \in Nat /\ spacing \in Nat /\ asked \in Nat /\ ready \in Nat
  BY <1>0, Times
<1> SUFFICES TypeOK' /\ Course' /\ PollInv'
  BY <1>0 DEF IInv
<1>1. CASE RequestCode
  <2>1. PICK e \in Lifetimes : expiry' = now + e /\ deadline' = now' + e
    BY <1>1 DEF RequestCode
  <2>2. PICK d \in Latencies : now' = now + d
    BY <1>1 DEF RequestCode, Called
  <2>3. e \in Nat /\ d \in Nat /\ d <= MaxLatency
    BY MaxLatencyType, LoopsAssumption DEF LoopsAssumption
  <2>4. now' = d /\ expiry' = e /\ deadline' = d + e /\ asked = 0
    BY <1>0, <1>1, <2>1, <2>2, <2>3 DEF RequestCode, PollInv
  <2>5. interval' = 10 /\ spacing' = 10 /\ pc' = "test"
        /\ UNCHANGED <<loop, attempt, wait, outcome, ready, style, asked, slowed>>
    BY <1>1 DEF RequestCode, Interval, Second
  <2>6. outcome = "none"
    BY <1>0, <1>1 DEF RequestCode, Course
  <2>7. TypeOK'
    <3>1. now' \in Nat /\ deadline' \in Nat /\ expiry' \in Nat
      BY <2>3, <2>4
    <3>2. interval' \in Nat /\ spacing' \in Nat
      BY <2>5
    <3> QED
      BY <1>0, <2>5, <3>1, <3>2 DEF TypeOK
  <2>9. Course'
    BY <1>0, <2>5, <2>6 DEF Course
  <2>8. /\ asked' <= now' + spacing' /\ now' <= MaxLatency
        /\ now' <= deadline' + spacing' + MaxLatency /\ expiry' <= deadline'
    BY <1>b, <2>3, <2>4, <2>5
  <2> QED
    BY <2>5, <2>6, <2>7, <2>8, <2>9 DEF PollInv
<1>2. CASE ExpiresLocally
  BY <1>0, <1>2, <1>c, <1>b DEF ExpiresLocally, Ends, TypeOK, Course, PollInv
<1>3. CASE BeginSleep
  BY <1>0, <1>3, <1>c, <1>b DEF BeginSleep, TypeOK, Course, PollInv
<1>4. CASE Pending
  BY <1>0, <1>4, <1>c, <1>a, <1>b DEF Pending, Polling, TypeOK, Course, PollInv
<1>5. CASE SlowDown
  <2>1. /\ spacing' = spacing + 10 /\ interval' = interval + 10
        /\ asked' = now' + spacing'
    BY <1>5 DEF SlowDown, Slowed, Second
  <2>3. slowed' \in 0..MaxSlowDowns
    <3>1. /\ MaxSlowDowns \in Nat /\ slowed \in 0..MaxSlowDowns
          /\ slowed < MaxSlowDowns /\ slowed' = slowed + 1
      BY <1>0, <1>5, LoopsAssumption DEF LoopsAssumption, TypeOK, SlowDown
    <3> QED
      BY <3>1
  <2>2. TypeOK' /\ Course'
    BY <1>0, <1>5, <1>c, <1>a, <2>1, <2>3 DEF SlowDown, Polling, TypeOK, Course
  <2> QED
    BY <1>0, <1>5, <1>c, <1>a, <1>b, <2>1, <2>2 DEF SlowDown, Polling, Course, PollInv
<1>6. CASE Refused
  BY <1>0, <1>6, <1>c, <1>a, <1>b DEF Refused, Polling, Ends, TypeOK, Course, PollInv
<1>7. CASE Granted
  BY <1>0, <1>7, <1>c, <1>a, <1>b DEF Granted, Polling, Ends, TypeOK, Course, PollInv
<1> QED
  BY <1>1, <1>2, <1>3, <1>4, <1>5, <1>6, <1>7

\* What is known of a loop of calls that is throttled once more.
LEMMA Throttling ==
  ASSUME IInv, Throttled
  PROVE  /\ loop \in {"jmap", "graph"} /\ attempt \in 0..(Tries(loop) - 1)
         /\ now' < ready /\ now <= now' /\ now' <= now + MaxLatency
         /\ now' <= attempt * Longest + MaxLatency
         /\ style # "date" => Waited(attempt) < ready /\ Waited(attempt) <= now'
<1>1. TypeOK /\ Course /\ CallInv /\ loop # "device" /\ pc = "call" /\ Called /\ now' < ready
  BY DEF IInv, Throttled, Requesting
<1>2. /\ now \in Nat /\ ready \in Nat /\ attempt \in Nat /\ Tries(loop) \in {4, 8}
  BY <1>1, Times
<1>3. loop \in {"jmap", "graph"} /\ attempt \in 0..(Tries(loop) - 1)
  BY <1>1, <1>2, LoopsAssumption DEF LoopsAssumption, TypeOK, Course
<1>4. PICK d \in Latencies : now' = now + d
  BY <1>1 DEF Called
<1>5. d \in Nat /\ d <= MaxLatency /\ MaxLatency \in Nat
  BY MaxLatencyType
<1>6. now <= attempt * Longest /\ attempt * Longest \in Nat
  BY <1>1, <1>2, <1>5 DEF CallInv, Longest
<1>7. style # "date" => Waited(attempt) \in Nat /\ (now >= ready \/ now >= Waited(attempt))
  <2>1. Waited(attempt) \in Nat
    BY <1>3 DEF Waited, Tries
  <2> QED
    BY <1>1, <2>1 DEF CallInv
<1> QED
  BY <1>1, <1>2, <1>3, <1>4, <1>5, <1>6, <1>7

\* A call, with all the waits before it, ends in time.
LEMMA CallEnds ==
  ASSUME TypeOK, Course, CallInv, loop # "device", pc = "call", Called
  PROVE  now' \in Nat /\ now' <= Tries(loop) * Longest
<1>1. PICK d \in Latencies : now' = now + d
  BY DEF Called
<1>2. d \in Nat /\ d <= MaxLatency /\ MaxLatency \in Nat
  BY MaxLatencyType
<1>3. now \in Nat /\ attempt \in Nat /\ Tries(loop) \in {4, 8} /\ attempt < Tries(loop)
  BY Times DEF Course
<1>4. now <= attempt * Longest
  BY DEF CallInv
<1>5. attempt * Longest + Longest <= Tries(loop) * Longest
  <2>1. CASE Tries(loop) = 4
    <3>1. attempt \in {0, 1, 2, 3}
      BY <1>3, <2>1
    <3> QED
      BY <1>2, <2>1, <3>1 DEF Longest
  <2>2. CASE Tries(loop) = 8
    <3>1. attempt \in {0, 1, 2, 3, 4, 5, 6, 7}
      BY <1>3, <2>2
    <3> QED
      BY <1>2, <2>2, <3>1 DEF Longest
  <2> QED
    BY <1>3, <2>1, <2>2
<1>6. attempt * Longest \in Nat /\ Tries(loop) * Longest \in Nat
  BY <1>2, <1>3 DEF Longest
<1>7. now + d \in Nat /\ now + d <= Tries(loop) * Longest
  BY <1>2, <1>3, <1>4, <1>5, <1>6 DEF Longest
<1> QED
  BY <1>1, <1>7

\* The calls that are made again.
LEMMA RetryStep ==
  IInv /\ (Wait \/ GiveUp \/ Served) => IInv'
<1> SUFFICES ASSUME IInv, Wait \/ GiveUp \/ Served PROVE IInv'
  OBVIOUS
<1>0. TypeOK /\ Course /\ loop # "device" /\ loop' = loop /\ CallInv
  BY DEF IInv, TypeOK, Course, Wait, GiveUp, Served, Throttled, Requesting
<1>a. MaxLatency \in Nat /\ Longest \in Nat
  BY MaxLatencyType DEF Longest
<1>b. /\ now \in Nat /\ interval \in Nat /\ wait \in Nat /\ deadline \in Nat
      /\ expiry \in Nat /\ spacing \in Nat /\ asked \in Nat /\ ready \in Nat
      /\ attempt \in Nat /\ slowed \in Nat /\ Tries(loop) \in {4, 8}
  BY <1>0, Times
<1> SUFFICES TypeOK' /\ Course' /\ CallInv'
  BY <1>0 DEF IInv
<1>1. CASE Wait
  <2>1. PICK d \in Latencies : now' = now + d
    BY <1>1 DEF Wait, Throttled, Requesting, Called
  <2>2. d \in Nat /\ d <= MaxLatency
    BY MaxLatencyType
  <2>3. /\ loop \in {"jmap", "graph"} /\ attempt \in 0..(Tries(loop) - 1)
        /\ now + d < ready /\ now + d <= attempt * Longest + MaxLatency
        /\ style # "date" => Waited(attempt) < ready /\ Waited(attempt) <= now + d
    BY <1>1, <2>1, Throttling DEF Wait
  <2>4. PICK left \in Nat : ready = now + d + left /\ left = ready - now' /\ left > 0
    <3>1. ready - (now + d) \in Nat /\ ready = now + d + (ready - (now + d))
          /\ ready - (now + d) > 0
      BY <1>b, <2>2, <2>3
    <3> QED
      BY <2>1, <3>1
  <2>5. PICK default \in 5..120 : default = DefaultWait(loop, attempt)
    BY <2>3, DefaultWaits DEF Tries
  <2>6. PICK w \in 0..240 :
          /\ w = ParseRetryAfter(Header(left), default)
          /\ style = "seconds" =>
               /\ w >= left \/ w = 240
               /\ w = Least(Header(left).n, MAX_RETRY_AFTER_SECONDS) * Second
          /\ style = "date" => w + 2 > left \/ w = 240
          /\ style \notin {"seconds", "date"} => w = default * 2
    <3>1. style \in Styles
      BY <1>0 DEF TypeOK
    <3>2. now' \in Int
      BY <1>b, <2>1, <2>2
    <3> QED
      BY <3>1, <3>2, WaitLength, Zenon
  <2>7. /\ wait' = w /\ attempt' = attempt + 1
        /\ pc' = IF attempt + 1 = Tries(loop) THEN "give up" ELSE "sleep"
        /\ loop = "graph" => attempt < Tries(loop) - 1
        /\ UNCHANGED <<loop, interval, deadline, outcome, ready, style, expiry, spacing, slowed>>
    BY <1>1, <2>4, <2>5, <2>6 DEF Wait, LastAttempt
  <2>8. asked' \in Nat /\ asked' < now + d + w + 2
    <3>1. CASE style = "seconds"
      <4>1. asked' = now + d + w
        BY <1>1, <2>1, <2>4, <2>6, <3>1 DEF Wait
      <4> QED
        BY <1>b, <2>2, <4>1
    <3>2. CASE style = "date"
      <4>1. asked' = Least(ready, now' + 240)
        <5>1. MAX_RETRY_AFTER_SECONDS * Second = 240
          BY DEF MAX_RETRY_AFTER_SECONDS, Second
        <5>2. asked' = Least(ready, now' + MAX_RETRY_AFTER_SECONDS * Second)
          BY <1>1, <3>2, Zenon DEF Wait
        <5> QED
          BY <5>1, <5>2, Zenon
      <4>2. asked' = Least(now + d + left, now + d + 240)
        BY <2>1, <2>4, <4>1, Zenon
      <4> QED
        BY <1>b, <2>2, <2>6, <3>2, <4>2 DEF Least
    <3>3. CASE style \notin {"seconds", "date"}
      <4>1. asked' = now + d
        BY <1>1, <2>1, <3>3 DEF Wait
      <4> QED
        BY <1>b, <2>2, <4>1
    <3> QED
      BY <3>1, <3>2, <3>3
  <2>9. ASSUME attempt < Tries(loop) - 1, style # "date"
        PROVE  now + d + w >= ready \/ now + d + w >= Waited(attempt + 1)
    <3>1. CASE style = "seconds"
      BY <1>b, <2>2, <2>3, <2>4, <2>6, <2>9, <3>1 DEF Waited
    <3>2. CASE style # "seconds" /\ loop = "graph"
      <4>1. w = 10
        BY <2>3, <2>5, <2>6, <2>9, <3>2, DefaultWaits DEF Tries
      <4> QED
        BY <1>b, <2>2, <2>3, <2>9, <3>2, <4>1 DEF Waited
    <3>3. CASE style # "seconds" /\ loop = "jmap"
      <4>1. attempt \in 0..6
        BY <2>3, <2>9, <3>3 DEF Tries
      <4>2. w = <<10, 20, 40, 80, 160, 240, 240>>[attempt + 1]
        BY <2>5, <2>6, <2>9, <3>3, <4>1, DefaultWaits
      <4>3. /\ now + d >= <<0, 10, 30, 70, 150, 310, 550, 790>>[attempt + 1]
            /\ Waited(attempt + 1) = <<0, 10, 30, 70, 150, 310, 550, 790>>[attempt + 2]
        BY <2>3, <2>9, <3>3, <4>1 DEF Waited
      <4> QED
        BY <1>b, <2>2, <4>1, <4>2, <4>3
    <3> QED
      BY <2>3, <3>1, <3>2, <3>3
  <2>10. now + d + w <= (attempt + 1) * Longest
    <3>1. (attempt + 1) * Longest = attempt * Longest + Longest
      BY <1>a, <1>b
    <3>2. attempt * Longest \in Nat
      BY <1>a, <1>b
    <3> QED
      BY <1>a, <1>b, <2>2, <2>3, <3>1, <3>2 DEF Longest
  <2>11. ASSUME attempt + 1 = Tries(loop), style # "date" PROVE ready > Patience(loop)
    <3>1. loop # "graph"
      <4>1. ~(attempt < Tries(loop) - 1)
        BY <1>b, <2>11
      <4> QED
        BY <2>7, <4>1, Zenon
    <3>2. loop = "jmap" /\ attempt = 7
      BY <1>b, <2>3, <2>11, <3>1 DEF Tries
    <3> QED
      BY <1>b, <2>3, <2>11, <3>2 DEF Waited, Patience, Tries, Second
  <2>12. /\ attempt + 1 \in 0..Tries(loop) /\ attempt + 1 \in 1..Tries(loop)
         /\ now + d \in Nat /\ w \in Nat
    BY <1>b, <2>2, <2>3, <2>6
  <2>a. Tries(loop)' = Tries(loop)
    BY <1>0 DEF Tries
  <2>13. TypeOK'
    <3>1. attempt' \in 0..Tries(loop)'
      BY <2>7, <2>12, <2>a, Zenon
    <3>2. slowed' \in 0..MaxSlowDowns
      BY <1>0, <2>7, Zenon DEF TypeOK
    <3>3. pc' \in {"sleep", "give up"}
      BY <2>7, Zenon
    <3>4. now' \in Nat /\ wait' \in Nat /\ asked' \in Nat
      BY <2>1, <2>7, <2>8, <2>12, Zenon
    <3> QED
      BY <1>0, <2>7, <3>1, <3>2, <3>3, <3>4, Zenon DEF TypeOK
  <2>14. CASE attempt + 1 = Tries(loop)
    <3>a. loop # "graph"
      <4>1. ~(attempt < Tries(loop) - 1)
        BY <1>b, <2>14
      <4> QED
        BY <2>7, <4>1, Zenon
    <3>1. pc' = "give up" /\ loop = "jmap"
      BY <2>3, <2>7, <2>14, <3>a, Zenon
    <3>2. outcome = "none"
      BY <1>0, <1>1 DEF Course, Wait, Throttled, Requesting
    <3>3. Course'
      BY <1>0, <2>7, <3>1, <3>2 DEF Course
    <3>4. now' + wait' <= Tries(loop)' * Longest
      BY <2>1, <2>7, <2>10, <2>14, <2>a, Zenon
    <3>5. style' # "date" => ready' > Patience(loop)'
      BY <1>0, <2>7, <2>11, <2>14 DEF Patience
    <3> QED
      BY <2>7, <2>13, <3>1, <3>2, <3>3, <3>4, <3>5 DEF CallInv
  <2>15. CASE attempt + 1 # Tries(loop)
    <3>1. pc' = "sleep"
      BY <2>7, <2>15
    <3>2. outcome = "none"
      BY <1>0, <1>1 DEF Course, Wait, Throttled, Requesting
    <3>3. attempt' \in 1..(Tries(loop)' - 1)
      <4>1. attempt + 1 \in 1..(Tries(loop) - 1)
        BY <1>b, <2>12, <2>15
      <4> QED
        BY <2>7, <2>a, <4>1, Zenon
    <3>4. Course'
      BY <1>0, <2>7, <3>1, <3>2, <3>3 DEF Course
    <3>5. asked' < now' + wait' + 2
      BY <2>1, <2>7, <2>8, Zenon
    <3>6. now' + wait' <= attempt' * Longest
      BY <2>1, <2>7, <2>10, Zenon
    <3>7. style' # "date" => now' + wait' >= ready' \/ now' + wait' >= Waited(attempt)'
      <4>1. attempt < Tries(loop) - 1
        BY <1>b, <2>3, <2>15
      <4>2. Waited(attempt)' = Waited(attempt + 1)
        BY <2>7 DEF Waited
      <4> QED
        BY <2>1, <2>7, <2>9, <4>1, <4>2, Zenon
    <3> QED
      BY <2>7, <2>13, <3>1, <3>2, <3>4, <3>5, <3>6, <3>7, Zenon DEF CallInv
  <2> QED
    BY <2>14, <2>15
<1>2. CASE GiveUp
  <2>1. UNCHANGED <<loop, attempt, interval, wait, deadline, ready, style, expiry,
                    spacing, asked, slowed>>
        /\ pc' = "done" /\ outcome' = "throttled"
    BY <1>2 DEF GiveUp, Ends
  <2>2. /\ now' \in Nat /\ now' <= Tries(loop) * Longest
        /\ style # "date" => ready > Patience(loop)
    <3>1. CASE Throttled /\ loop = "graph" /\ attempt = Tries(loop) - 1
      <4>1. PICK d \in Latencies : now' = now + d
        BY <3>1 DEF Throttled, Requesting, Called
      <4>2. /\ now + d <= attempt * Longest + MaxLatency
            /\ style # "date" => Waited(attempt) < ready
        BY <3>1, <4>1, Throttling
      <4>3. attempt = 3 /\ Tries(loop) = 4
        BY <3>1 DEF Tries
      <4>4. now + d \in Nat /\ now + d <= 4 * Longest
        BY <1>a, <1>b, <4>1, <4>2, <4>3, MaxLatencyType DEF Longest
      <4>5. style # "date" => ready > Patience(loop)
        BY <1>b, <3>1, <4>2, <4>3 DEF Waited, Patience, Second
      <4> QED
        BY <4>1, <4>3, <4>4, <4>5
    <3>2. CASE pc = "give up" /\ now' = now + wait
      <4>1. now + wait \in Nat
        BY <1>b
      <4> QED
        BY <1>0, <3>2, <4>1, Zenon DEF CallInv
    <3> QED
      BY <1>2, <3>1, <3>2 DEF GiveUp
  <2>3. Tries(loop)' = Tries(loop) /\ Patience(loop)' = Patience(loop)
    BY <2>1 DEF Tries, Patience
  <2> QED
    BY <1>0, <2>1, <2>2, <2>3 DEF TypeOK, Course, CallInv
<1>3. CASE Served
  <2>1. UNCHANGED <<loop, attempt, interval, wait, deadline, ready, style, expiry,
                    spacing, asked, slowed>>
        /\ pc' = "done" /\ outcome' = "served"
    BY <1>3 DEF Served, Ends
  <2>2. now' \in Nat /\ now' <= Tries(loop) * Longest
    <3>1. Called /\ pc = "call"
      BY <1>3 DEF Served, Requesting
    <3> QED
      BY <1>0, <3>1, CallEnds
  <2>3. Tries(loop)' = Tries(loop)
    BY <2>1 DEF Tries
  <2> QED
    BY <1>0, <2>1, <2>2, <2>3 DEF TypeOK, Course, CallInv
<1> QED
  BY <1>1, <1>2, <1>3

\* The steps that both kinds of loop take.
LEMMA CommonStep ==
  IInv /\ (Sleep \/ CallFails) => IInv'
<1> SUFFICES ASSUME IInv, Sleep \/ CallFails PROVE IInv'
  OBVIOUS
<1>0. TypeOK /\ Course /\ loop' = loop
  BY DEF IInv, Sleep, CallFails
<1>a. MaxLatency \in Nat /\ Longest \in Nat
  BY MaxLatencyType DEF Longest
<1>b. /\ now \in Nat /\ interval \in Nat /\ wait \in Nat /\ deadline \in Nat
      /\ expiry \in Nat /\ spacing \in Nat /\ asked \in Nat /\ ready \in Nat
      /\ attempt \in Nat /\ slowed \in Nat /\ Tries(loop) \in {4, 8}
  BY <1>0, Times
<1>c. Tries(loop)' = Tries(loop)
  BY <1>0 DEF Tries
<1>1. CASE Sleep
  <2>1. /\ pc = "sleep" /\ pc' = "call" /\ now' = now + wait
        /\ UNCHANGED <<loop, attempt, interval, wait, deadline, outcome, ready, style,
                       expiry, spacing, asked, slowed>>
    BY <1>1, Zenon DEF Sleep
  <2>2. TypeOK'
    <3>1. now + wait \in Nat
      BY <1>b
    <3> QED
      BY <1>0, <1>c, <2>1, <3>1, Zenon DEF TypeOK
  <2>3. Course'
    <3>1. loop # "device" => attempt \in 1..(Tries(loop) - 1) /\ attempt < Tries(loop)
      BY <1>0, <1>b, <2>1 DEF Course
    <3> QED
      BY <1>0, <1>c, <2>1, <3>1, Zenon DEF Course
  <2>4. ASSUME loop = "device" PROVE PollInv'
    <3>1. PollInv
      BY <2>4 DEF IInv
    <3>2. /\ asked <= now + wait /\ wait = spacing
          /\ now + wait < ready + spacing \/ now + wait <= MaxLatency + spacing
          /\ now + wait < deadline + spacing
      BY <1>a, <1>b, <2>1, <3>1 DEF PollInv
    <3> QED
      BY <2>1, <3>1, <3>2, Zenon DEF PollInv
  <2>5. ASSUME loop # "device" PROVE CallInv'
    <3>1. CallInv
      BY <2>5 DEF IInv
    <3>2. Waited(attempt)' = Waited(attempt)
      BY <2>1 DEF Waited
    <3>3. Patience(loop)' = Patience(loop)
      BY <2>1 DEF Patience
    <3> QED
      BY <2>1, <3>1, <3>2, <3>3, Zenon DEF CallInv
  <2> QED
    BY <1>0, <2>2, <2>3, <2>4, <2>5 DEF IInv
<1>2. CASE CallFails
  <2>1. /\ pc \in {"request", "call"} /\ pc' = "done" /\ outcome' = "failed"
        /\ UNCHANGED <<loop, attempt, interval, wait, deadline, ready, style, expiry,
                       spacing, asked, slowed>>
    BY <1>2, Zenon DEF CallFails, Ends
  <2>2. PICK d \in Latencies : now' = now + d
    BY <1>2 DEF CallFails, Called
  <2>3. d \in Nat /\ d <= MaxLatency
    BY MaxLatencyType
  <2>4. TypeOK'
    <3>1. now + d \in Nat
      BY <1>b, <2>3
    <3> QED
      BY <1>0, <1>c, <2>1, <2>2, <3>1, Zenon DEF TypeOK
  <2>5. Course'
    BY <1>0, <2>1, Zenon DEF Course
  <2>6. ASSUME loop = "device" PROVE PollInv'
    <3>1. PollInv
      BY <2>6 DEF IInv
    <3>2. now + d <= deadline + spacing + MaxLatency
      BY <1>a, <1>b, <2>1, <2>3, <3>1 DEF PollInv
    <3> QED
      BY <2>1, <2>2, <3>1, <3>2, Zenon DEF PollInv
  <2>7. ASSUME loop # "device" PROVE CallInv'
    <3>1. CallInv /\ Called /\ pc = "call"
      BY <1>0, <1>2, <2>1, <2>7, Zenon DEF IInv, CallFails, Course
    <3>2. now' <= Tries(loop) * Longest
      BY <1>0, <2>7, <3>1, CallEnds
    <3> QED
      BY <1>c, <2>1, <3>1, <3>2, Zenon DEF CallInv
  <2> QED
    BY <1>0, <2>4, <2>5, <2>6, <2>7 DEF IInv
<1> QED
  BY <1>1, <1>2

LEMMA IInvStep == IInv /\ [Next]_vars => IInv'
<1>1. ASSUME IInv, UNCHANGED vars PROVE IInv'
  <2>1. UNCHANGED <<loop, now, pc, attempt, interval, wait, deadline, outcome, ready,
                    style, expiry, spacing, asked, slowed>>
    BY <1>1 DEF vars
  <2>2. /\ Tries(loop)' = Tries(loop) /\ Patience(loop)' = Patience(loop)
        /\ Waited(attempt)' = Waited(attempt)
    BY <2>1, Zenon DEF Tries, Patience, Waited
  <2>3. TypeOK' /\ Course'
    BY <1>1, <2>1, <2>2, Zenon DEF IInv, TypeOK, Course
  <2>4. loop = "device" => PollInv'
    BY <1>1, <2>1, Zenon DEF IInv, PollInv
  <2>5. loop # "device" => CallInv'
    BY <1>1, <2>1, <2>2, Zenon DEF IInv, CallInv
  <2> QED
    BY <2>1, <2>3, <2>4, <2>5, Zenon DEF IInv
<1>2. Finished => UNCHANGED vars
  BY DEF Finished
<1> QED
  BY <1>1, <1>2, PollStep, RetryStep, CommonStep DEF Next

THEOREM IInvHolds == Spec => []IInv
<1> QED
  BY InitIInv, IInvStep, PTL DEF Spec

\* The variables keep to their domains: whatever the server answers and however long
\* it throttles, no call is made more often than its bound says (jmap_adapter.py:458,
\* graph_adapter.py:77).
THEOREM TypeCorrect == Spec => []TypeOK
<1>1. IInv => TypeOK
  BY DEF IInv
<1> QED
  BY <1>1, IInvHolds, PTL

\* No call is made before the time the server asked the program to wait for, up to the
\* second that a date loses, for any latencies and any number of slow_down answers
\* (oauth.py:162, retry.py:22-35).
THEOREM CallsArePatient == Spec => []Patient
<1>1. IInv => Patient
  <2> SUFFICES ASSUME IInv, pc = "call" PROVE now + Second > asked
    BY DEF Patient
  <2>1. now \in Nat /\ asked \in Nat
    BY Times DEF IInv
  <2>2. CASE loop = "device"
    BY <2>1, <2>2 DEF IInv, PollInv, Second
  <2>3. CASE loop # "device"
    BY <2>1, <2>3 DEF IInv, CallInv, Second
  <2> QED
    BY <2>2, <2>3
<1> QED
  BY <1>1, IInvHolds, PTL

\* Nothing is given up that would have been had in time, for any lifetime of a code, any
\* time of approval and any time for which a server throttles (oauth.py:127-166,
\* jmap_adapter.py:468-478, graph_adapter.py:79-91).
THEOREM NothingGivenUpEarly == Spec => []GivesUpLate
<1>1. IInv => GivesUpLate
  BY DEF IInv, PollInv, CallInv, GivesUpLate
<1> QED
  BY <1>1, IInvHolds, PTL

\* No loop outlives its bound, whatever the server does: the deadline of a code and one
\* interval, or two minutes and a call for every attempt (oauth.py:128, retry.py:8).
THEOREM LoopsEnd == Spec => []EndsInTime
<1>1. IInv => EndsInTime
  <2> SUFFICES ASSUME IInv PROVE EndsInTime
    OBVIOUS
  <2>1. /\ now \in Nat /\ wait \in Nat /\ deadline \in Nat /\ spacing \in Nat
        /\ attempt \in Nat /\ Tries(loop) \in {4, 8} /\ MaxLatency \in Nat
    BY Times, MaxLatencyType DEF IInv
  <2>2. CASE loop = "device"
    <3>1. pc \in {"request", "test", "sleep", "call", "done"}
      BY <2>2 DEF IInv, TypeOK, Course
    <3>2. CASE pc = "request"
      BY <2>2, <3>2 DEF EndsInTime
    <3>3. CASE pc # "request"
      BY <2>1, <2>2, <3>1, <3>3 DEF IInv, PollInv, EndsInTime
    <3> QED
      BY <3>2, <3>3
  <2>3. CASE loop # "device"
    <3>0. CallInv /\ TypeOK /\ Course
      BY <2>3 DEF IInv
    <3>1. now <= Tries(loop) * Longest
      <4>1. pc \in {"call", "sleep", "give up", "done"}
        BY <2>3, <3>0 DEF TypeOK, Course
      <4>2. attempt * Longest \in Nat /\ Tries(loop) * Longest \in Nat
        BY <2>1 DEF Longest
      <4>3. attempt * Longest <= Tries(loop) * Longest
        <5>1. attempt \in 0..Tries(loop)
          BY <3>0 DEF TypeOK
        <5>2. attempt <= Tries(loop)
          BY <2>1, <5>1
        <5>3. Longest \in Nat
          BY <2>1 DEF Longest
        <5> QED
          BY <2>1, <5>2, <5>3, ProductGrows
      <4>4. PICK most \in Nat : most = attempt * Longest
        BY <4>2
      <4>5. PICK bound \in Nat : bound = Tries(loop) * Longest
        BY <4>2
      <4>6. \/ now <= most \/ now + wait <= most
            \/ now <= bound \/ now + wait <= bound
        BY <3>0, <4>1, <4>4, <4>5, Zenon DEF CallInv
      <4>7. most <= bound
        BY <4>3, <4>4, <4>5, Zenon
      <4>8. now <= bound
        BY <2>1, <4>6, <4>7
      <4> QED
        BY <4>5, <4>8, Zenon
    <3> QED
      BY <2>1, <2>3, <3>1 DEF EndsInTime, Longest, Second
  <2> QED
    BY <2>2, <2>3
<1> QED
  BY <1>1, IInvHolds, PTL
=============================================================================
