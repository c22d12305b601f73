------------------------ MODULE DeviceLifecycleProofs ------------------------
(***************************************************************************)
(* Theorems of DeviceLifecycle.  The invariant says of each device what it *)
(* is: off, down, or up, and of the run loop that it is woken for whatever *)
(* is outstanding.  A handler's pass opens the devices one by one; a       *)
(* device's turn sees its own record as the pass found it (TurnOfEach), so *)
(* what one open makes of a record is proved once, for any other devices.  *)
(***************************************************************************)
EXTENDS DeviceLifecycle, WellFoundedInduction, TLAPS

----------------------------------------------------------------------------
(* What the state is made of *)

AnyEntry == UNION {Entries[n] : n \in Names}

\* What the host may answer for an id, and the causes a device may be down for.
AnyAnswer == UNION {Answers[i] : i \in Ids}
Causes == AnyAnswer \cup {"same-hardware", "open-failed", "stalled", "failed", "disconnected"}

Deadline == Nat \cup {None}

RetryState == [attempts : Nat, next : Deadline, settle : Deadline, recovered : Deadline,
               encodeSeen : BOOLEAN, awaitEncode : BOOLEAN]

GeometryState == [of : {GeometryOf(e) : e \in AnyEntry} \cup {None}, step : 0 .. Top, ceiling : 0 .. Top, shortfalls : Nat]

Device ==
    [st : {None, "serving", "skipped", "failed", "superseded", "disabled"}, entry : AnyEntry \cup {None}, addr : Addrs \cup {None},
     step : 0 .. Top, hour : BOOLEAN, encoded : SUBSET Streams, await : BOOLEAN,
     pump : {None, "live", "gone", "failed", "shortfall", "stalled", "encode"}, path : Streams \cup {None}, stale : Nat,
     mounted : BOOLEAN, downReason : Causes \cup {None}, downCond : Causes \cup {None}, periodCond : 0 .. Top,
     retried : BOOLEAN, retry : RetryState, faulted : SUBSET Streams, faultOf : AnyEntry \cup {None}, geometry : GeometryState]

TypeOK ==
    /\ cfg \in [Names -> AnyEntry \cup {None}] /\ \A n \in Names : cfg[n] \in Entries[n] \cup {None}
    /\ discovery \in BOOLEAN
    /\ dev \in [Names -> Device]
    /\ alive \in Int
    /\ announced \in [Names -> AnyEntry \cup {None}]
    /\ retryAt \in Deadline /\ timer \in Deadline /\ due \in BOOLEAN
    /\ host \in [Ids -> AnyAnswer]

----------------------------------------------------------------------------
(* The invariant of one device *)

\* The conditions are as the appliance holds them: the one that it is down
\* names its cause; the capture-period one has an escalation behind it.
Told(x) ==
    /\ x.downCond = x.downReason
    /\ x.geometry.of = None => x.geometry = NoGeometry /\ x.periodCond = 0
    /\ x.periodCond > 0 => x.geometry.step > 0
    /\ x.geometry.step <= x.geometry.ceiling

\* No restart of the device is under way.
AtRest(r) == r.settle = None /\ r.recovered = None /\ ~r.encodeSeen /\ ~r.awaitEncode

\* A device that is down says so, and is due to be retried if that can help.
Down(x) ==
    /\ IsDown(x) /\ x.pump = None /\ ~x.mounted /\ x.downReason # None
    /\ AtRest(x.retry) /\ (x.retried => x.retry.next # None)
    /\ ~IsCardIndex(x.entry) /\ RetryableCause(x.downReason) => x.retried

\* A device that serves has its track and its pump, and is told as down while
\* a restart has yet to prove itself: by a settle, or by an encode that is
\* waited for.
Up(x) ==
    /\ x.st = "serving" /\ x.pump # None /\ x.mounted /\ (x.pump = "encode" => x.path \in Streams)
    /\ x.step = 0 => x.periodCond = 0
    /\ x.retry.next = None
    /\ (x.downReason # None) = Retrying(x)
    /\ Retrying(x) => x.retry.settle # None \/ (x.retry.awaitEncode /\ x.await)
    /\ x.faulted # {} => x.await /\ Retrying(x) /\ (x.retry.encodeSeen => EncodedAll(x))

\* A device that is not configured, or disabled, has nothing outstanding.
Off(x) ==
    /\ x.st \in {None, "disabled"} /\ x.pump = None /\ ~x.mounted
    /\ ~x.retried /\ x.retry = NoRetry /\ x.faulted = {} /\ x.downReason = None /\ x.geometry = NoGeometry

\* The record is that of the entry the device is configured with.
Of(x, e) == x.entry # None /\ CaptureParamsEqual(x.entry, e) /\ (x.faulted # {} => CaptureParamsEqual(x.faultOf, e))

Kept(x, c, n) == Told(x) /\ IF Enabled(c, n) THEN (Up(x) \/ Down(x)) /\ Of(x, c[n]) ELSE Off(x)

----------------------------------------------------------------------------
(* The invariant *)

\* A wait for an encode that has happened is over, or the loop is about to end it.
Prompted(x, signal) ==
    x.st = "serving" /\ Retrying(x) /\ x.retry.settle = None /\ EncodedAll(x) => signal

\* The timer is armed for a deadline no later than any, or its signal is pending.
Waits(r, at) == \A t \in {r.next, r.settle} \ {None} : at # None /\ at <= t

TimerArmed == due \/ retryAt = None \/ timer = retryAt

\* An advertisement is for the parameters configured; a device that clients
\* may play has one.
Advertised(x, a, on) ==
    /\ a # None /\ x.st \in {"serving", "skipped", "failed"} => CaptureParamsEqual(a, x.entry)
    /\ on /\ x.st = "serving" /\ (~Retrying(x) \/ x.faulted # {}) => a # None

PumpCount(x) == (IF x.pump # None THEN 1 ELSE 0) + x.stale

PumpsOf(D) == Total([n \in Names |-> PumpCount(D[n])])

DevicesKept == \A n \in Names : Kept(dev[n], cfg, n)
LoopPrompted == \A n \in Names : Prompted(dev[n], due)
DeadlinesWaitedFor == \A n \in Names : Waits(dev[n].retry, retryAt)
DevicesAdvertised == \A n \in Names : Advertised(dev[n], announced[n], discovery)

IInv ==
    /\ TypeOK
    /\ DevicesKept /\ LoopPrompted /\ DeadlinesWaitedFor /\ TimerArmed
    /\ DevicesAdvertised
    /\ alive = PumpsOf(dev)

----------------------------------------------------------------------------
(* Numbers *)

\* A set of numbers that is not empty has a least one.
LEMMA LeastNumber ==
    ASSUME NEW T, T \subseteq Nat, T # {}
    PROVE  \E x \in T : \A y \in T : x <= y
<1> DEFINE R == OpToRel(<, Nat)
<1>1. IsWellFoundedOn(R, Nat)
  BY NatLessThanWellFounded
<1>2. \A x, y \in Nat : <<y, x>> \in R <=> y < x
  BY DEF OpToRel
<1> HIDE DEF R
<1>3. PICK x \in T : \A y \in T : ~(<<y, x>> \in R)
  BY <1>1, WFMin
<1>4. \A y \in T : ~(y < x)
  BY <1>2, <1>3
<1> QED
  BY <1>3, <1>4

\* Min and Max find the ends of a set of numbers.
LEMMA MinIsLeast ==
    ASSUME NEW T, T \subseteq Nat, T # {}
    PROVE  Min(T) \in T /\ \A y \in T : Min(T) <= y
<1>1. \E x \in T : \A y \in T : x <= y
  BY LeastNumber
<1> QED
  BY <1>1 DEF Min

\* Max finds the greatest of a set of numbers up to a bound.
LEMMA MaxIsGreatest ==
    ASSUME NEW k \in Nat, NEW T, T \subseteq 0 .. k, T # {}
    PROVE  Max(T) \in T /\ \A y \in T : Max(T) >= y
<1> DEFINE U == {k - y : y \in T}
<1>1. U \subseteq Nat /\ U # {}
  <2>1. \A y \in T : k - y \in Nat
    OBVIOUS
  <2> QED
    BY <2>1
<1>2. PICK u \in U : \A y \in U : u <= y
  BY <1>1, LeastNumber
<1>3. PICK x \in T : u = k - x
  BY <1>2
<1>4. \A y \in T : x >= y
  <2> TAKE y \in T
  <2>1. k - y \in U
    OBVIOUS
  <2>2. k - x <= k - y
    BY <1>2, <1>3, <2>1
  <2> HIDE DEF U
  <2> QED
    BY <2>2
<1> HIDE DEF U
<1>5. \E z \in T : \A y \in T : z >= y
  BY <1>3, <1>4
<1> QED
  BY <1>5 DEF Max

\* The lesser of two numbers.
LEMMA MinOfPair ==
    ASSUME NEW a \in Nat, NEW b \in Nat
    PROVE  Min({a, b}) = IF a <= b THEN a ELSE b
<1>1. Min({a, b}) \in {a, b} /\ \A y \in {a, b} : Min({a, b}) <= y
  BY MinIsLeast
<1> QED
  BY <1>1

----------------------------------------------------------------------------
(* Going through the devices in config order *)

\* A pass goes through the first k devices of the configuration.
HasPass(pass, D, k) ==
    \E g : g = [i \in 0 .. k |-> IF i = 0 THEN D ELSE TakeTurn(pass, g[i - 1], Order[i])]

\* It can: each value is made of the one before it.
LEMMA PassExists ==
    ASSUME NEW pass, NEW D, NEW k \in Nat
    PROVE  HasPass(pass, D, k)
<1> DEFINE After(g, m) ==
        g = [i \in 0 .. m |-> IF i = 0 THEN D ELSE TakeTurn(pass, g[i - 1], Order[i])]
           T == {m \in Nat : ~HasPass(pass, D, m)}
<1>1. SUFFICES ASSUME T # {} PROVE FALSE
  OBVIOUS
<1>2. PICK m \in T : \A j \in T : m <= j
  BY <1>1, LeastNumber
<1>3. m # 0
  <2>1. After([i \in 0 .. 0 |-> D], 0)
    OBVIOUS
  <2>2. HasPass(pass, D, 0)
    BY <2>1 DEF HasPass
  <2> QED
    BY <1>2, <2>2
<1>4. m - 1 \in Nat /\ m - 1 \notin T
  BY <1>2, <1>3
<1>5. PICK g : After(g, m - 1)
  BY <1>4 DEF HasPass
<1> DEFINE h == [i \in 0 .. m |-> IF i < m THEN g[i] ELSE TakeTurn(pass, g[m - 1], Order[m])]
<1>6. After(h, m)
  <2> DEFINE l == [i \in 0 .. m |-> IF i = 0 THEN D ELSE TakeTurn(pass, h[i - 1], Order[i])]
  <2>1. ASSUME NEW i \in 0 .. m PROVE h[i] = l[i]
    <3>1. CASE i = 0
      BY <1>3, <1>4, <1>5, <3>1
    <3>2. CASE i # 0 /\ i < m
      <4>1. i \in 0 .. m - 1 /\ i - 1 \in 0 .. m /\ i - 1 < m
        BY <1>4, <3>2
      <4>2. h[i] = g[i] /\ h[i - 1] = g[i - 1]
        BY <3>2, <4>1
      <4>3. g[i] = TakeTurn(pass, g[i - 1], Order[i])
        BY <1>5, <3>2, <4>1
      <4> HIDE DEF h
      <4> QED
        BY <3>2, <4>2, <4>3
    <3>3. CASE i = m
      <4>1. m - 1 \in 0 .. m /\ m - 1 < m /\ i \in 0 .. m
        BY <1>4
      <4>2. h[i] = TakeTurn(pass, g[m - 1], Order[m]) /\ h[m - 1] = g[m - 1]
        BY <3>3, <4>1
      <4> HIDE DEF h
      <4> QED
        BY <1>3, <3>3, <4>2
    <3> QED
      BY <1>4, <3>1, <3>2, <3>3
  <2> QED
    BY <2>1
<1>7. HasPass(pass, D, m)
  BY <1>6 DEF HasPass
<1> QED
  BY <1>2, <1>7

\* Each device has its turn with its own record as it was, whatever the others'
\* have become.
LEMMA TurnOfEach ==
    ASSUME NEW pass, NEW S, NEW D \in [Names -> S],
           \A E \in [Names -> S], n \in Names : E[n] = D[n] => Turn(pass, E, n) \in S
    PROVE  /\ Passed(pass, D) \in [Names -> S]
           /\ \A n \in Names : \E E \in [Names -> S] : E[n] = D[n] /\ Passed(pass, D)[n] = Turn(pass, E, n)
<1> DEFINE k == Len(Order)
           after == CHOOSE g : g = [i \in 0 .. k |-> IF i = 0 THEN D
                                     ELSE TakeTurn(pass, g[i - 1], Order[i])]
           Done(i) == {Order[j] : j \in 1 .. i}
           Right(i) ==
               /\ after[i] \in [Names -> S]
               /\ \A n \in Names :
                     IF n \in Done(i) THEN \E E \in [Names -> S] : E[n] = D[n] /\ after[i][n] = Turn(pass, E, n)
                     ELSE after[i][n] = D[n]
           T == {i \in 0 .. k : ~Right(i)}
<1>1. k \in Nat /\ DOMAIN Order = 1 .. k /\ \A i \in 1 .. k : Order[i] \in Names
  BY ConfigAssumption
<1>2. \A i, j \in 1 .. k : Order[i] = Order[j] => i = j
  BY <1>1, ConfigAssumption
<1>3. Names = Done(k)
  BY <1>1 DEF Names, Range
<1>4. Passed(pass, D) = after[k]
  BY DEF Passed
<1>5. after = [i \in 0 .. k |-> IF i = 0 THEN D ELSE TakeTurn(pass, after[i - 1], Order[i])]
  <2>1. HasPass(pass, D, k)
    BY <1>1, PassExists
  <2> QED
    BY <2>1, Zenon DEF HasPass
<1> HIDE DEF after, k
<1>6. after[0] = D /\ \A i \in 1 .. k : after[i] = TakeTurn(pass, after[i - 1], Order[i])
  <2>1. 0 \in 0 .. k /\ \A i \in 1 .. k : i \in 0 .. k /\ i # 0
    BY <1>1
  <2> QED
    BY <1>5, <2>1
<1>7. Right(0)
  <2>1. Done(0) = {}
    OBVIOUS
  <2> QED
    BY <1>6, <2>1
<1>8. ASSUME NEW i \in 1 .. k, Right(i - 1) PROVE Right(i)
  <2> DEFINE b == after[i - 1]
             m == Order[i]
             t == Turn(pass, b, m)
  <2>1. m \in Names /\ m \notin Done(i - 1)
    BY <1>1, <1>2
  <2>2. b \in [Names -> S] /\ b[m] = D[m]
    BY <1>8, <2>1
  <2>3. t \in S
    BY <2>1, <2>2
  <2>4. after[i] = [b EXCEPT ![m] = t]
    BY <1>6 DEF TakeTurn
  <2>5. Done(i) = Done(i - 1) \cup {m}
    BY <1>1
  <2>6. after[i] \in [Names -> S] /\ after[i][m] = t /\ \A n \in Names \ {m} : after[i][n] = b[n]
    <3> HIDE DEF b, t, m
    <3> QED
      BY <2>1, <2>2, <2>3, <2>4
  <2>7. ASSUME NEW n \in Names
        PROVE  IF n \in Done(i) THEN \E E \in [Names -> S] : E[n] = D[n] /\ after[i][n] = Turn(pass, E, n)
               ELSE after[i][n] = D[n]
    <3>1. CASE n = m
      BY <2>2, <2>5, <2>6, <3>1
    <3>2. CASE n # m
      <4>1. after[i][n] = b[n] /\ (n \in Done(i) <=> n \in Done(i - 1))
        BY <2>5, <2>6, <3>2
      <4> QED
        BY <1>8, <4>1
    <3> QED
      BY <3>1, <3>2
  <2> QED
    BY <2>6, <2>7
<1>9. T = {}
  <2>1. SUFFICES ASSUME T # {} PROVE FALSE
    OBVIOUS
  <2>2. T \subseteq Nat
    BY <1>1
  <2>3. PICK i \in T : \A j \in T : i <= j
    BY <2>1, <2>2, LeastNumber
  <2>4. i \in 1 .. k /\ i - 1 \in 0 .. k
    BY <1>1, <1>7, <2>3
  <2>5. Right(i - 1)
    BY <2>3, <2>4
  <2> QED
    BY <1>8, <2>3, <2>4, <2>5
<1>10. Right(k)
  BY <1>1, <1>9
<1> QED
  BY <1>3, <1>4, <1>10

----------------------------------------------------------------------------
(* Counting over the devices *)

\* There are sums of the first k counts.
HasSum(count, k) ==
    \E s : s = [i \in 0 .. k |-> IF i = 0 THEN 0 ELSE s[i - 1] + count[Order[i]]]

\* The partial sums of Total exist for any count: each is made of the one
\* before it.
LEMMA SumExists ==
    ASSUME NEW count, NEW k \in Nat
    PROVE  HasSum(count, k)
<1> DEFINE After(s, m) == s = [i \in 0 .. m |-> IF i = 0 THEN 0 ELSE s[i - 1] + count[Order[i]]]
           T == {m \in Nat : ~HasSum(count, m)}
<1>1. SUFFICES ASSUME T # {} PROVE FALSE
  OBVIOUS
<1>2. PICK m \in T : \A j \in T : m <= j
  BY <1>1, LeastNumber
<1>3. m # 0
  <2>1. After([i \in 0 .. 0 |-> 0], 0)
    OBVIOUS
  <2>2. HasSum(count, 0)
    BY <2>1 DEF HasSum
  <2> QED
    BY <1>2, <2>2
<1>4. m - 1 \in Nat /\ m - 1 \notin T
  BY <1>2, <1>3
<1>5. PICK s : After(s, m - 1)
  BY <1>4 DEF HasSum
<1> DEFINE h == [i \in 0 .. m |-> IF i < m THEN s[i] ELSE s[m - 1] + count[Order[m]]]
<1>6. After(h, m)
  <2> DEFINE l == [i \in 0 .. m |-> IF i = 0 THEN 0 ELSE h[i - 1] + count[Order[i]]]
  <2>1. ASSUME NEW i \in 0 .. m PROVE h[i] = l[i]
    <3>1. CASE i = 0
      BY <1>3, <1>4, <1>5, <3>1
    <3>2. CASE i # 0 /\ i < m
      <4>1. i \in 0 .. m - 1 /\ i - 1 \in 0 .. m /\ i - 1 < m
        BY <1>4, <3>2
      <4>2. h[i] = s[i] /\ h[i - 1] = s[i - 1]
        BY <3>2, <4>1
      <4>3. s[i] = s[i - 1] + count[Order[i]]
        BY <1>5, <3>2, <4>1
      <4> HIDE DEF h
      <4> QED
        BY <3>2, <4>2, <4>3
    <3>3. CASE i = m
      <4>1. m - 1 \in 0 .. m /\ m - 1 < m /\ i \in 0 .. m
        BY <1>4
      <4>2. h[i] = s[m - 1] + count[Order[m]] /\ h[m - 1] = s[m - 1]
        BY <3>3, <4>1
      <4> HIDE DEF h
      <4> QED
        BY <1>3, <3>3, <4>2
    <3> QED
      BY <1>4, <3>1, <3>2, <3>3
  <2> QED
    BY <2>1
<1>7. HasSum(count, m)
  BY <1>6 DEF HasSum
<1> QED
  BY <1>2, <1>7

\* The sums of whole counts are whole, and Total is the last.
Sums(count, s) ==
    /\ s \in [0 .. Len(Order) -> Int] /\ s[0] = 0
    /\ \A i \in 1 .. Len(Order) : s[i] = s[i - 1] + count[Order[i]]

\* The configuration lists every name once.
LEMMA OrderIndex ==
    /\ Len(Order) \in Nat
    /\ \A i \in 1 .. Len(Order) : Order[i] \in Names
    /\ \A n \in Names : \E i \in 1 .. Len(Order) : Order[i] = n
    /\ \A i, j \in 1 .. Len(Order) : Order[i] = Order[j] => i = j
<1>1. Len(Order) \in Nat /\ DOMAIN Order = 1 .. Len(Order) /\ \A i \in 1 .. Len(Order) : Order[i] \in Names
  BY ConfigAssumption
<1>2. \A i, j \in 1 .. Len(Order) : Order[i] = Order[j] => i = j
  BY <1>1, ConfigAssumption
<1>3. \A n \in Names : \E i \in 1 .. Len(Order) : Order[i] = n
  BY <1>1 DEF Names, Range
<1> QED
  BY <1>1, <1>2, <1>3

\* Total is the last of its partial sums.
LEMMA TotalIsSum ==
    ASSUME NEW count \in [Names -> Int]
    PROVE  \E s : Sums(count, s) /\ Total(count) = s[Len(Order)]
<1> DEFINE k == Len(Order)
           sum == CHOOSE s : s = [i \in 0 .. k |-> IF i = 0 THEN 0 ELSE s[i - 1] + count[Order[i]]]
           T == {i \in 0 .. k : sum[i] \notin Int}
<1>1. k \in Nat /\ \A i \in 1 .. k : Order[i] \in Names
  BY OrderIndex
<1>2. Total(count) = sum[k]
  BY DEF Total
<1>3. sum = [i \in 0 .. k |-> IF i = 0 THEN 0 ELSE sum[i - 1] + count[Order[i]]]
  <2>1. HasSum(count, k)
    BY <1>1, SumExists
  <2> QED
    BY <2>1, Zenon DEF HasSum
<1> HIDE DEF sum, k
<1>4. sum[0] = 0 /\ DOMAIN sum = 0 .. k /\ \A i \in 1 .. k : sum[i] = sum[i - 1] + count[Order[i]]
  <2>1. 0 \in 0 .. k /\ \A i \in 1 .. k : i \in 0 .. k /\ i # 0
    BY <1>1
  <2> QED
    BY <1>3, <2>1
<1>5. T = {}
  <2>1. SUFFICES ASSUME T # {} PROVE FALSE
    OBVIOUS
  <2>2. T \subseteq Nat
    BY <1>1
  <2>3. PICK i \in T : \A j \in T : i <= j
    BY <2>1, <2>2, LeastNumber
  <2>4. i \in 1 .. k /\ i - 1 \in 0 .. k
    BY <1>1, <1>4, <2>3
  <2>5. sum[i - 1] \in Int
    BY <2>3, <2>4
  <2>6. count[Order[i]] \in Int
    BY <1>1, <2>4
  <2> QED
    BY <1>4, <2>3, <2>4, <2>5, <2>6
<1>6. \A i \in 0 .. k : sum[i] \in Int
  BY <1>5
<1>7. sum \in [0 .. k -> Int]
  BY <1>3, <1>6
<1>8. Sums(count, sum)
  BY <1>4, <1>7 DEF Sums, k
<1> QED
  BY <1>2, <1>8 DEF k

\* The total of counts put together is that of each put together.
LEMMA TotalOfSums ==
    ASSUME NEW f \in [Names -> Int], NEW g \in [Names -> Int], NEW h \in [Names -> Int],
           \A n \in Names : h[n] = f[n] + g[n]
    PROVE  Total(h) = Total(f) + Total(g) /\ Total(f) \in Int /\ Total(g) \in Int
<1> DEFINE k == Len(Order)
<1>1. k \in Nat /\ \A i \in 1 .. k : Order[i] \in Names
  BY OrderIndex
<1>2. PICK s : Sums(f, s) /\ Total(f) = s[k]
  BY TotalIsSum
<1>3. PICK t : Sums(g, t) /\ Total(g) = t[k]
  BY TotalIsSum
<1>4. PICK u : Sums(h, u) /\ Total(h) = u[k]
  BY TotalIsSum
<1>5. \A i \in 0 .. k : s[i] \in Int /\ t[i] \in Int /\ u[i] \in Int
  BY <1>2, <1>3, <1>4 DEF Sums
<1>6. s[0] = 0 /\ t[0] = 0 /\ u[0] = 0
  BY <1>2, <1>3, <1>4 DEF Sums
<1>7. \A i \in 1 .. k : s[i] = s[i - 1] + f[Order[i]] /\ t[i] = t[i - 1] + g[Order[i]] /\ u[i] = u[i - 1] + h[Order[i]]
  BY <1>2, <1>3, <1>4 DEF Sums
<1> HIDE DEF k
<1> DEFINE T == {i \in 0 .. k : u[i] # s[i] + t[i]}
<1>8. T = {}
  <2>1. SUFFICES ASSUME T # {} PROVE FALSE
    OBVIOUS
  <2>2. T \subseteq Nat
    BY <1>1
  <2>3. PICK i \in T : \A j \in T : i <= j
    BY <2>1, <2>2, LeastNumber
  <2>4. i \in 1 .. k /\ i - 1 \in 0 .. k /\ ~(i <= i - 1)
    BY <1>1, <1>6, <2>3
  <2>5. u[i - 1] = s[i - 1] + t[i - 1]
    BY <2>3, <2>4
  <2>6. Order[i] \in Names
    BY <1>1, <2>4
  <2>7. f[Order[i]] \in Int /\ g[Order[i]] \in Int /\ h[Order[i]] = f[Order[i]] + g[Order[i]]
    BY <2>6
  <2>8. u[i] = s[i] + t[i]
    BY <1>5, <1>7, <2>4, <2>5, <2>7
  <2> QED
    BY <2>3, <2>8
<1>9. k \in 0 .. k
  BY <1>1
<1>10. u[k] = s[k] + t[k]
  BY <1>8, <1>9
<1> QED
  BY <1>2, <1>3, <1>4, <1>5, <1>9, <1>10

\* A count that changes for one device changes the total by as much.
LEMMA TotalOfOne ==
    ASSUME NEW n \in Names, NEW f \in [Names -> Int], NEW g \in [Names -> Int], NEW d \in Int,
           g[n] = f[n] + d, \A m \in Names \ {n} : g[m] = f[m]
    PROVE  Total(g) = Total(f) + d
<1> DEFINE k == Len(Order)
<1>1. k \in Nat /\ \A i \in 1 .. k : Order[i] \in Names
  BY OrderIndex
<1>2. PICK p \in 1 .. k : Order[p] = n
  BY OrderIndex
<1>3. \A i \in 1 .. k : i # p => Order[i] # n
  BY <1>2, OrderIndex
<1>4. PICK s : Sums(f, s) /\ Total(f) = s[k]
  BY TotalIsSum
<1>5. PICK t : Sums(g, t) /\ Total(g) = t[k]
  BY TotalIsSum
<1>6. \A i \in 0 .. k : s[i] \in Int /\ t[i] \in Int
  BY <1>4, <1>5 DEF Sums
<1>7. s[0] = 0 /\ t[0] = 0
  BY <1>4, <1>5 DEF Sums
<1>8. \A i \in 1 .. k : s[i] = s[i - 1] + f[Order[i]] /\ t[i] = t[i - 1] + g[Order[i]]
  BY <1>4, <1>5 DEF Sums
<1> HIDE DEF k
<1> DEFINE T == {i \in 0 .. k : t[i] # s[i] + (IF i < p THEN 0 ELSE d)}
<1>9. T = {}
  <2>1. SUFFICES ASSUME T # {} PROVE FALSE
    OBVIOUS
  <2>2. T \subseteq Nat
    BY <1>1
  <2>3. PICK i \in T : \A j \in T : i <= j
    BY <2>1, <2>2, LeastNumber
  <2>4. i \in 1 .. k /\ i - 1 \in 0 .. k /\ ~(i <= i - 1)
    BY <1>1, <1>2, <1>7, <2>3
  <2>5. t[i - 1] = s[i - 1] + (IF i - 1 < p THEN 0 ELSE d)
    BY <2>3, <2>4
  <2>6. Order[i] \in Names /\ f[Order[i]] \in Int
    BY <1>1, <2>4
  <2>7. s[i] = s[i - 1] + f[Order[i]] /\ t[i] = t[i - 1] + g[Order[i]] /\ s[i - 1] \in Int
    BY <1>6, <1>8, <2>4
  <2>8. CASE i = p
    <3>1. g[Order[i]] = f[Order[i]] + d
      BY <1>2, <2>8
    <3> QED
      BY <2>3, <2>4, <2>5, <2>6, <2>7, <2>8, <3>1
  <2>9. CASE i # p
    <3>1. g[Order[i]] = f[Order[i]]
      BY <1>3, <2>4, <2>6, <2>9
    <3> QED
      BY <1>2, <2>3, <2>4, <2>5, <2>6, <2>7, <2>9, <3>1
  <2> QED
    BY <2>8, <2>9
<1>10. k \in 0 .. k /\ ~(k < p)
  BY <1>1, <1>2
<1>11. t[k] = s[k] + d
  BY <1>9, <1>10
<1> QED
  BY <1>4, <1>5, <1>11

----------------------------------------------------------------------------
(* The down condition *)

\* None is no cause, deadline, status or result of a pump.
LEMMA NoneIsNoCause ==
    /\ None \notin Causes /\ None \notin Nat
    /\ None \notin {"serving", "skipped", "failed", "superseded", "disabled"}
    /\ None \notin {"live", "gone", "failed", "shortfall", "stalled", "encode"}
BY NoneAssumption DEF Causes, AnyAnswer

\* What changes a condition changes no more, and leaves it as it is held.
Blames(x, y) ==
    /\ y \in Device /\ Told(y) /\ y.downReason # None
    /\ y = [x EXCEPT !.downReason = y.downReason, !.downCond = y.downReason]

\* replaceDown leaves the condition active with the cause it is given.
LEMMA ReplaceDownBlames ==
    ASSUME NEW x \in Device, Told(x), NEW c \in Causes
    PROVE  Blames(x, ReplaceDown(x, c)) /\ ReplaceDown(x, c).downReason = c
<1> DEFINE y == [x EXCEPT !.downReason = c, !.downCond = c]
<1>1. c # None
  BY NoneIsNoCause
<1>2. x.downCond = x.downReason
  BY DEF Told
<1>3. ReplaceDown(x, c) = y
  <2>1. CASE x.downReason # None /\ SameCondition(x.downReason, c)
    <3>1. ReplaceDown(x, c) = [x EXCEPT !.downReason = c, !.downCond = IF x.downCond = None THEN x.downCond ELSE c]
      BY <2>1 DEF ReplaceDown
    <3> QED
      BY <1>2, <2>1, <3>1
  <2>2. CASE x.downReason # None /\ ~SameCondition(x.downReason, c)
    <3>1. Resolve(x).downCond = None
      BY DEF Resolve, Device
    <3> QED
      BY <2>2, <3>1 DEF ReplaceDown, Onset, Resolve, Device
  <2>3. CASE x.downReason = None
    BY <1>2, <2>3 DEF ReplaceDown, Onset, Device
  <2> QED
    BY <2>1, <2>2, <2>3
<1>4. y \in Device /\ y.downReason = c /\ y.downCond = c
  BY DEF Device
<1>5. y.geometry = x.geometry /\ y.periodCond = x.periodCond
  BY DEF Device
<1> HIDE DEF y
<1>6. Told(y)
  BY <1>4, <1>5 DEF Told
<1>7. y = [x EXCEPT !.downReason = y.downReason, !.downCond = y.downReason]
  BY <1>4 DEF y
<1> QED
  BY <1>1, <1>3, <1>4, <1>6, <1>7 DEF Blames

\* markDown leaves the condition active; it names the cause it is given unless
\* that is retryable.
LEMMA MarkDownBlames ==
    ASSUME NEW x \in Device, Told(x), NEW c \in Causes
    PROVE  /\ Blames(x, MarkDown(x, c))
           /\ ~RetryableCause(c) => MarkDown(x, c).downReason = c
<1>1. CASE MarkDown(x, c) = x /\ x.downReason # None /\ RetryableCause(c)
  <2>1. x = [x EXCEPT !.downReason = x.downReason, !.downCond = x.downReason]
    BY DEF Told, Device
  <2> QED
    BY <1>1, <2>1 DEF Blames
<1>2. CASE MarkDown(x, c) = ReplaceDown(x, c)
  BY <1>2, ReplaceDownBlames
<1> QED
  BY <1>1, <1>2 DEF MarkDown

\* finishRecovery leaves no condition.
LEMMA FinishRecoveryClears ==
    ASSUME NEW x \in Device, Told(x)
    PROVE  LET y == FinishRecovery(x) IN
           /\ y \in Device /\ Told(y) /\ y.downReason = None
           /\ y = [x EXCEPT !.downReason = None, !.downCond = None]
<1> DEFINE y == [x EXCEPT !.downReason = None, !.downCond = None]
<1>1. FinishRecovery(x) = y
  BY DEF FinishRecovery, Resolve, Told, Device
<1>2. y \in Device /\ y.downReason = None /\ y.downCond = None /\ y.geometry = x.geometry /\ y.periodCond = x.periodCond
  BY DEF Device
<1> HIDE DEF y
<1>3. Told(y)
  BY <1>2 DEF Told
<1> QED
  BY <1>1, <1>2, <1>3 DEF y

----------------------------------------------------------------------------
(* The retry state *)

\* A retry state that was just made has nothing under way.
LEMMA NoRetryType == NoRetry \in RetryState /\ AtRest(NoRetry) /\ NoRetry.next = None
BY NoneAssumption DEF NoRetry, RetryState, Deadline, AtRest

\* A delay is never 0.
LEMMA BackoffDelayType ==
    ASSUME NEW attempts \in Nat \ {0}
    PROVE  BackoffDelay(attempts) \in Nat \ {0}
<1>1. Len(Backoff) \in Nat \ {0} /\ \A i \in 1 .. Len(Backoff) : Backoff[i] \in Nat \ {0}
  BY DeviceBounds
<1> DEFINE i == IF attempts > Len(Backoff) THEN Len(Backoff) ELSE attempts
<1>2. i \in 1 .. Len(Backoff)
  BY <1>1
<1>3. BackoffDelay(attempts) = Backoff[i]
  BY DEF BackoffDelay
<1> QED
  BY <1>1, <1>2, <1>3

\* A device is scheduled to be retried, or has nothing left to retry.
Scheduled(x, y) ==
    /\ y \in Device /\ y = [x EXCEPT !.retried = y.retried, !.retry = y.retry]
    /\ AtRest(y.retry) /\ (y.retried => y.retry.next # None) /\ (~y.retried => y.retry = NoRetry)

\* A device whose retry state is dropped has none.
LEMMA DropRetrySchedules ==
    ASSUME NEW x \in Device
    PROVE  Scheduled(x, DropRetry(x)) /\ ~DropRetry(x).retried
<1> DEFINE y == [x EXCEPT !.retried = FALSE, !.retry = NoRetry]
<1>0. NoRetry \in RetryState
  BY NoRetryType
<1>1. y \in Device /\ y.retried = FALSE /\ y.retry = NoRetry
  BY <1>0 DEF Device
<1>2. y = [x EXCEPT !.retried = y.retried, !.retry = y.retry]
  BY DEF Device
<1> HIDE DEF y
<1>3. DropRetry(x) = y
  BY DEF DropRetry, y
<1> QED
  BY <1>1, <1>2, <1>3, NoRetryType DEF Scheduled

\* scheduleRetry leaves a retry with a deadline where one can help, and no
\* retry state anywhere else.
LEMMA ScheduleRetrySchedules ==
    ASSUME NEW x \in Device, NEW e
    PROVE  LET y == ScheduleRetry(x, e) IN
           Scheduled(x, y) /\ (~IsCardIndex(e) /\ RetryableCause(x.downReason) => y.retried)
<1>1. CASE IsCardIndex(e) \/ ~RetryableCause(x.downReason)
  BY <1>1, DropRetrySchedules DEF ScheduleRetry
<1>2. CASE ~(IsCardIndex(e) \/ ~RetryableCause(x.downReason))
  <2> DEFINE before == IF x.retry.recovered # None /\ x.retry.recovered >= RetryResetAfter THEN 0 ELSE x.retry.attempts
             attempts == IF before < Len(Backoff) THEN before + 1 ELSE before
             r == [NoRetry EXCEPT !.attempts = attempts, !.next = BackoffDelay(attempts)]
             y == [x EXCEPT !.retried = TRUE, !.retry = r]
  <2>1. ScheduleRetry(x, e) = y
    BY <1>2 DEF ScheduleRetry
  <2>2. Len(Backoff) \in Nat \ {0}
    BY DeviceBounds
  <2>3. x.retry.attempts \in Nat
    BY DEF Device, RetryState
  <2>4. attempts \in Nat \ {0}
    BY <2>2, <2>3
  <2> HIDE DEF attempts
  <2>5. BackoffDelay(attempts) \in Nat \ {0}
    BY <2>4, BackoffDelayType
  <2>6. r \in RetryState /\ AtRest(r) /\ r.next # None
    BY <2>4, <2>5, NoneAssumption DEF NoRetry, RetryState, Deadline, AtRest
  <2> HIDE DEF r
  <2>7. y \in Device /\ y.retried = TRUE /\ y.retry = r
    BY <2>6 DEF Device
  <2>8. y = [x EXCEPT !.retried = y.retried, !.retry = y.retry]
    BY <2>7
  <2> HIDE DEF y
  <2> QED
    BY <2>1, <2>6, <2>7, <2>8 DEF Scheduled
<1> QED
  BY <1>1, <1>2

----------------------------------------------------------------------------
(* The capture-period ladder *)

\* What moves on the ladder moves nothing else, and keeps its condition true.
Climbs(x, y) ==
    /\ y \in Device /\ Told(y)
    /\ y = [x EXCEPT !.geometry = y.geometry, !.periodCond = y.periodCond]

\* A device that fell short of nothing is on the first step, and any may be
\* tried.
LEMMA NoGeometryType == NoGeometry \in GeometryState /\ NoGeometry.of = None /\ NoGeometry.step = 0 /\ NoGeometry.ceiling = Top
BY DeviceBounds DEF NoGeometry, GeometryState

OnRung(x, g, p) == [x EXCEPT !.geometry = g, !.periodCond = p]

\* A step with its ceiling, and a condition that has an escalation behind it,
\* can be taken.
LEMMA ClimbsTo ==
    ASSUME NEW x \in Device, Told(x), NEW g \in GeometryState, NEW p \in 0 .. Top,
           g.of = None => g = NoGeometry /\ p = 0, p > 0 => g.step > 0, g.step <= g.ceiling
    PROVE  Climbs(x, OnRung(x, g, p)) /\ OnRung(x, g, p).geometry = g /\ OnRung(x, g, p).periodCond = p
<1> DEFINE y == [x EXCEPT !.geometry = g, !.periodCond = p]
<1>1. y \in Device /\ y.geometry = g /\ y.periodCond = p /\ y.downReason = x.downReason /\ y.downCond = x.downCond
  BY DEF Device
<1>2. y = [x EXCEPT !.geometry = y.geometry, !.periodCond = y.periodCond]
  BY <1>1
<1> HIDE DEF y
<1>3. Told(y)
  BY <1>1 DEF Told
<1> QED
  BY <1>1, <1>2, <1>3 DEF Climbs, y, OnRung

\* A device may stay on its step.
LEMMA ClimbsNowhere ==
    ASSUME NEW x \in Device, Told(x)
    PROVE  Climbs(x, x)
<1>1. x = [x EXCEPT !.geometry = x.geometry, !.periodCond = x.periodCond]
  BY DEF Device
<1> QED
  BY <1>1 DEF Climbs

\* dropGeometry leaves neither a step nor a condition.
LEMMA DropGeometryClimbs ==
    ASSUME NEW x \in Device, Told(x)
    PROVE  Climbs(x, DropGeometry(x)) /\ DropGeometry(x).geometry = NoGeometry /\ DropGeometry(x).periodCond = 0
<1>1. DropGeometry(x) = OnRung(x, NoGeometry, 0)
  BY DEF DropGeometry, ClearGeometry, OnRung, Device
<1>2. 0 \in 0 .. Top /\ NoGeometry.step <= NoGeometry.ceiling
  BY DeviceBounds, NoGeometryType
<1> QED
  BY <1>1, <1>2, NoGeometryType, ClimbsTo

\* geometryStep keeps what is told of the ladder true.
LEMMA GeometryStepClimbs ==
    ASSUME NEW x \in Device, Told(x), NEW e
    PROVE  Climbs(x, GeometryStep(x, e))
BY DropGeometryClimbs, ClimbsNowhere DEF GeometryStep

\* So does the end of a run, which may forget the escalation.
LEMMA GeometryRunEndedClimbs ==
    ASSUME NEW x \in Device, Told(x)
    PROVE  Climbs(x, GeometryRunEnded(x))
<1>1. CASE x.geometry.of = None \/ ~x.hour
  BY <1>1, ClimbsNowhere DEF GeometryRunEnded
<1>2. CASE ~(x.geometry.of = None \/ ~x.hour)
  <2>1. x.geometry.step = 0 => x.periodCond = 0
    <3>1. x.periodCond \in Nat /\ x.geometry.step \in Nat
      BY DeviceBounds DEF Device, GeometryState
    <3> QED
      BY <3>1 DEF Told
  <2>2. CASE x.geometry.step = 0
    <3>1. GeometryRunEnded(x) = [x EXCEPT !.geometry = NoGeometry]
      BY <1>2, <2>2 DEF GeometryRunEnded
    <3>2. GeometryRunEnded(x) = DropGeometry(x)
      BY <2>1, <2>2, <3>1 DEF DropGeometry, ClearGeometry, Device
    <3> QED
      BY <3>2, DropGeometryClimbs
  <2>3. CASE x.geometry.step # 0
    BY <1>2, <2>3, DropGeometryClimbs DEF GeometryRunEnded, DropGeometry
  <2> QED
    BY <2>2, <2>3
<1> QED
  BY <1>1, <1>2

\* So does a shortfall, which may escalate up to the ceiling.
LEMMA GeometryShortfallClimbs ==
    ASSUME NEW x \in Device, Told(x), x.entry \in AnyEntry
    PROVE  Climbs(x, GeometryShortfall(x))
<1> DEFINE g == IF x.geometry.of = None THEN [x.geometry EXCEPT !.of = GeometryOf(x.entry)] ELSE x.geometry
           h == IF x.step # g.step \/ g.step >= g.ceiling THEN g
                ELSE IF g.shortfalls + 1 < Shortfalls THEN [g EXCEPT !.shortfalls = @ + 1]
                ELSE [g EXCEPT !.step = @ + 1, !.shortfalls = 0]
<1>1. CASE x.geometry.of = None /\ x.step # 0
  BY <1>1, ClimbsNowhere DEF GeometryShortfall
<1>2. CASE ~(x.geometry.of = None /\ x.step # 0)
  <2>1. GeometryShortfall(x) = [x EXCEPT !.geometry = h]
    BY <1>2 DEF GeometryShortfall
  <2>2. x.geometry \in GeometryState /\ x.periodCond \in 0 .. Top
    BY DEF Device
  <2>3. g \in GeometryState /\ g.of # None /\ g.step = x.geometry.step /\ g.ceiling = x.geometry.ceiling
    <3>1. GeometryOf(x.entry) # None
      BY NoneAssumption DEF GeometryOf, AnyEntry
    <3>2. GeometryOf(x.entry) \in {GeometryOf(e) : e \in AnyEntry}
      OBVIOUS
    <3> QED
      BY <2>2, <3>1, <3>2 DEF GeometryState
  <2> HIDE DEF g
  <2>4. g.step \in 0 .. Top /\ g.ceiling \in 0 .. Top /\ g.shortfalls \in Nat
    BY <2>3 DEF GeometryState
  <2>5. h \in GeometryState /\ h.of = g.of /\ h.step <= h.ceiling /\ h.step >= g.step /\ h.step \in 0 .. Top
    <3>1. g.step <= g.ceiling
      BY <2>3 DEF Told
    <3>2. CASE x.step # g.step \/ g.step >= g.ceiling
      BY <2>3, <2>4, <3>1, <3>2
    <3>3. CASE ~(x.step # g.step \/ g.step >= g.ceiling) /\ g.shortfalls + 1 < Shortfalls
      BY <2>3, <2>4, <3>1, <3>3 DEF GeometryState
    <3>4. CASE ~(x.step # g.step \/ g.step >= g.ceiling) /\ ~(g.shortfalls + 1 < Shortfalls)
      <4>1. g.step + 1 \in 0 .. Top /\ g.step + 1 <= g.ceiling
        BY <2>4, <3>4, DeviceBounds
      <4>2. h = [g EXCEPT !.step = g.step + 1, !.shortfalls = 0]
        BY <3>4
      <4>3. h \in GeometryState /\ h.of = g.of /\ h.step = g.step + 1 /\ h.ceiling = g.ceiling
        <5> HIDE DEF h
        <5> QED
          BY <2>3, <2>4, <4>1, <4>2 DEF GeometryState
      <4> HIDE DEF h
      <4> QED
        BY <2>4, <4>1, <4>3
    <3> QED
      BY <3>2, <3>3, <3>4
  <2> HIDE DEF h
  <2>6. x.periodCond > 0 => h.step > 0
    BY <2>2, <2>3, <2>4, <2>5, DeviceBounds DEF Told
  <2>7. [x EXCEPT !.geometry = h] = OnRung(x, h, x.periodCond)
    BY DEF OnRung, Device
  <2> QED
    BY <2>1, <2>2, <2>3, <2>5, <2>6, <2>7, ClimbsTo
<1> QED
  BY <1>1, <1>2

----------------------------------------------------------------------------
(* An open of a device *)

\* The opens that were refused are above the one that worked.
Likely(o, asked) ==
    /\ o.got \in 0 .. asked /\ o.refusedAt \in 0 .. asked
    /\ o.ok /\ o.refusedAt # 0 => o.got < o.refusedAt

\* What an open comes to is at a step no higher than it asked for, and lower
\* than any that was refused.
LEMMA OutcomeIsLikely ==
    ASSUME NEW asked \in 0 .. Top, NEW o \in Outcomes[asked]
    PROVE  Likely(o, asked)
<1>1. PICK res : o = OpenLadder(asked, res)
  BY DEF Outcomes
<1> DEFINE steps == {s \in 0 .. asked : s = 0 \/ res[s] = "ok" \/ ~GeometryFallback(res[s])}
           last == Max(steps)
           refused == {s \in (last + 1) .. asked : GeometryRefused(res[s])}
           ok == res[last] = "ok"
<1>2. asked \in Nat
  BY DeviceBounds
<1>3. last \in 0 .. asked
  <2>1. steps \subseteq 0 .. asked /\ 0 \in steps
    BY <1>2
  <2> HIDE DEF steps
  <2> QED
    BY <1>2, <2>1, MaxIsGreatest
<1>4. o = [ok |-> ok, got |-> IF ok THEN last ELSE 0, refusedAt |-> IF refused = {} THEN 0 ELSE Min(refused)]
  BY <1>1 DEF OpenLadder
<1> HIDE DEF steps, last, ok
<1>5. refused # {} => Min(refused) \in (last + 1) .. asked
  <2>1. refused \subseteq (last + 1) .. asked
    OBVIOUS
  <2>2. refused \subseteq Nat
    BY <1>2, <1>3
  <2> HIDE DEF refused
  <2> QED
    BY <2>1, <2>2, MinIsLeast
<1> HIDE DEF refused
<1> QED
  BY <1>2, <1>3, <1>4, <1>5 DEF Likely

\* An open that gets what it asks for is one such.
LEMMA FineIsLikely ==
    ASSUME NEW asked \in 0 .. Top
    PROVE  Likely(Fine(asked), asked)
BY DeviceBounds DEF Likely, Fine

\* geometryRefuse puts the ceiling, and the step, just below the step that was
\* refused.
LEMMA GeometryRefuseClimbs ==
    ASSUME NEW x \in Device, Told(x), NEW r \in 0 .. x.geometry.step
    PROVE  LET y == GeometryRefuse(x, r) IN
           /\ Climbs(x, y)
           /\ r = 0 \/ x.geometry.of = None => y = x
           /\ r # 0 /\ x.geometry.of # None =>
                 /\ y.geometry.of = x.geometry.of /\ y.geometry.ceiling = r - 1 /\ y.geometry.step = r - 1
<1>1. x.geometry \in GeometryState /\ x.periodCond \in 0 .. Top
  BY DEF Device
<1>2. x.geometry.step \in 0 .. Top /\ x.geometry.ceiling \in 0 .. Top /\ Top \in Nat
  BY <1>1, DeviceBounds DEF GeometryState
<1>3. CASE r = 0 \/ x.geometry.of = None
  BY <1>3, ClimbsNowhere DEF GeometryRefuse
<1>4. CASE ~(r = 0 \/ x.geometry.of = None)
  <2> DEFINE c == r - 1
             g == [x.geometry EXCEPT !.ceiling = c, !.shortfalls = 0, !.step = c]
             p == IF c = 0 THEN 0 ELSE x.periodCond
  <2>1. c \in 0 .. Top /\ x.geometry.step <= x.geometry.ceiling
    BY <1>2, <1>4 DEF Told
  <2>2. Min({x.geometry.ceiling, r - 1}) = c /\ Min({x.geometry.step, c}) = c
    BY <1>2, <2>1, MinOfPair
  <2>3. g \in GeometryState /\ g.of = x.geometry.of /\ g.ceiling = c /\ g.step = c
    BY <1>1, <2>1 DEF GeometryState
  <2>4. GeometryRefuse(x, r) = OnRung(x, g, p)
    <3> DEFINE y == [x EXCEPT !.geometry.ceiling = c, !.geometry.shortfalls = 0, !.geometry.step = c]
    <3>1. y = [x EXCEPT !.geometry = g]
      BY <1>1 DEF Device, GeometryState
    <3>2. GeometryRefuse(x, r) = IF c = 0 THEN ClearGeometry(y) ELSE y
      <4> DEFINE m == Min({x.geometry.ceiling, r - 1})
                 k == Min({x.geometry.step, m})
                 v == [x EXCEPT !.geometry.ceiling = m, !.geometry.shortfalls = 0, !.geometry.step = k]
      <4>1. GeometryRefuse(x, r) = IF m = 0 THEN ClearGeometry(v) ELSE v
        BY <1>4, Zenon DEF GeometryRefuse
      <4>2. m = c /\ k = c
        BY <2>2
      <4> HIDE DEF m, k, c
      <4> QED
        BY <4>1, <4>2
    <3> HIDE DEF y, g, c
    <3> QED
      BY <3>1, <3>2 DEF OnRung, ClearGeometry, Device
  <2>5. p \in 0 .. Top /\ (p > 0 => g.step > 0) /\ g.step <= g.ceiling
    BY <1>1, <1>2, <2>1, <2>3
  <2> HIDE DEF g, p, c
  <2>6. Climbs(x, OnRung(x, g, p)) /\ OnRung(x, g, p).geometry = g
    BY <1>4, <2>3, <2>5, ClimbsTo
  <2> QED
    BY <1>4, <2>3, <2>4, <2>6 DEF c
<1> QED
  BY <1>3, <1>4

\* One change to the ladder after another is a change to it.
LEMMA ClimbsOn ==
    ASSUME NEW x \in Device, NEW y, NEW z, Climbs(x, y), Climbs(y, z)
    PROVE  Climbs(x, z)
<1>1. y = [x EXCEPT !.geometry = y.geometry, !.periodCond = y.periodCond]
  BY DEF Climbs
<1>2. z = [y EXCEPT !.geometry = z.geometry, !.periodCond = z.periodCond]
  BY DEF Climbs
<1>3. z = [x EXCEPT !.geometry = z.geometry, !.periodCond = z.periodCond]
  BY <1>1, <1>2 DEF Device
<1> QED
  BY <1>3 DEF Climbs

\* What an open leaves of the ladder is right: a refusal it got past is below
\* its ceiling, and a device that opened with the default period has no condition.
LEMMA LadderClimbs ==
    ASSUME NEW x \in Device, Told(x), NEW o, Likely(o, x.geometry.step)
    PROVE  LET y == GeometryRefuse(x, o.refusedAt)
               z == GeometryOpened(y, x.geometry.step, o.got)
           IN  /\ Climbs(x, y)
               /\ o.ok => Climbs(x, z) /\ (o.got = 0 => z.periodCond = 0)
<1> DEFINE asked == x.geometry.step
           y == GeometryRefuse(x, o.refusedAt)
           z == GeometryOpened(y, asked, o.got)
           g == y.geometry
<1>1. asked \in 0 .. Top /\ asked \in Nat /\ x.geometry.ceiling \in Nat /\ x.periodCond \in Nat
  BY DeviceBounds DEF Device, GeometryState
<1>2. o.got \in 0 .. asked /\ o.refusedAt \in 0 .. asked /\ (o.ok /\ o.refusedAt # 0 => o.got < o.refusedAt)
  BY DEF Likely
<1>3. /\ Climbs(x, y)
      /\ o.refusedAt = 0 \/ x.geometry.of = None => y = x
      /\ o.refusedAt # 0 /\ x.geometry.of # None =>
            /\ g.of = x.geometry.of /\ g.ceiling = o.refusedAt - 1 /\ g.step = o.refusedAt - 1
  BY <1>2, GeometryRefuseClimbs
<1> HIDE DEF y
<1>4. y \in Device /\ Told(y)
  BY <1>3 DEF Climbs
<1>5. g \in GeometryState /\ y.periodCond \in Nat /\ g.step \in Nat /\ g.ceiling \in Nat
  BY <1>4, DeviceBounds DEF Device, GeometryState
<1>6. g.of = None => y.periodCond = 0
  BY <1>4 DEF Told
<1>7. y.periodCond > 0 => g.step > 0
  BY <1>4 DEF Told
<1>8. g.step <= asked
  BY <1>1, <1>2, <1>3
<1>9. ASSUME o.ok PROVE Climbs(y, z) /\ (o.got = 0 => z.periodCond = 0)
  <2>1. CASE asked = 0 \/ g.of = None
    <3>1. z = y
      BY <2>1 DEF GeometryOpened
    <3>2. y.periodCond = 0
      BY <1>1, <1>5, <1>6, <1>7, <1>8, <2>1
    <3> QED
      BY <1>4, <3>1, <3>2, ClimbsNowhere
  <2>2. CASE asked # 0 /\ g.of # None /\ o.got = 0
    <3>1. z = ClearGeometry(y)
      BY <2>2 DEF GeometryOpened
    <3>2. ClearGeometry(y) = OnRung(y, g, 0)
      BY <1>4 DEF ClearGeometry, OnRung, Device
    <3>3. g.step <= g.ceiling /\ 0 \in 0 .. Top /\ ~(0 > 0)
      BY <1>4, DeviceBounds DEF Told
    <3> QED
      BY <1>4, <1>5, <2>2, <3>1, <3>2, <3>3, ClimbsTo
  <2>3. CASE asked # 0 /\ g.of # None /\ o.got # 0 /\ o.got < asked /\ g.ceiling >= asked
    <3>1. z = y
      BY <2>3 DEF GeometryOpened
    <3> QED
      BY <1>4, <2>3, <3>1, ClimbsNowhere
  <2>4. CASE asked # 0 /\ g.of # None /\ o.got # 0 /\ ~(o.got < asked /\ g.ceiling >= asked)
    <3>1. z = [y EXCEPT !.periodCond = o.got]
      BY <2>4 DEF GeometryOpened
    <3>2. z = OnRung(y, g, o.got)
      BY <1>4, <3>1 DEF OnRung, Device
    <3>3. g.step <= g.ceiling
      BY <1>4 DEF Told
    <3>4. o.got \in 0 .. Top
      BY <1>1, <1>2, DeviceBounds
    <3>5. g.step > 0
      <4>1. CASE o.refusedAt = 0 \/ x.geometry.of = None
        BY <1>1, <1>3, <2>4, <4>1
      <4>2. CASE o.refusedAt # 0 /\ x.geometry.of # None
        BY <1>2, <1>3, <1>9, <2>4, <4>2
      <4> QED
        BY <4>1, <4>2
    <3> QED
      BY <1>4, <1>5, <2>4, <3>2, <3>3, <3>4, <3>5, ClimbsTo
  <2> QED
    BY <2>1, <2>2, <2>3, <2>4
<1> HIDE DEF z
<1>10. o.ok => Climbs(x, z)
  BY <1>3, <1>9, ClimbsOn
<1> QED
  BY <1>3, <1>9, <1>10 DEF y, z

----------------------------------------------------------------------------
(* The record of a device that was opened, or not *)

\* Whatever the open of an entry comes to, the retry state and the faults are
\* as they were, and the record is of the entry.
Opened(x, e, y) ==
    /\ y \in Device /\ Told(y) /\ y.entry = e
    /\ y.retried = x.retried /\ y.retry = x.retry /\ y.faulted = x.faulted /\ y.faultOf = x.faultOf /\ y.stale = x.stale
    /\ \/ y.st = "skipped" /\ y.pump = None /\ ~y.mounted /\ y.downReason # None
       \/ /\ y.st = "serving" /\ y.pump = "live" /\ y.mounted
          /\ y.downReason = x.downReason /\ (y.step = 0 => y.periodCond = 0)

\* A new record has the entry it is made for, and what outlives a record is
\* kept.
LEMMA NewRecordKeeps ==
    ASSUME NEW x \in Device, Told(x), NEW st \in {"serving", "skipped"}, NEW e \in AnyEntry, NEW step \in 0 .. Top
    PROVE  LET y == NewRecord(x, st, e, step) IN
           /\ y \in Device /\ Told(y) /\ y.st = st /\ y.entry = e /\ y.step = step
           /\ y.mounted = x.mounted /\ y.downReason = x.downReason /\ y.periodCond = x.periodCond
           /\ y.retried = x.retried /\ y.retry = x.retry /\ y.faulted = x.faulted /\ y.faultOf = x.faultOf /\ y.stale = x.stale
<1> DEFINE a == IF host[e.id] \in Addrs THEN host[e.id] ELSE None
           v == [x EXCEPT !.st = st, !.entry = e, !.addr = a, !.step = step]
           y == [v EXCEPT !.hour = FALSE, !.encoded = {}, !.await = FALSE]
<1>1. a \in Addrs \cup {None}
  OBVIOUS
<1> HIDE DEF a
<1>2. v \in Device
  BY <1>1 DEF Device
<1>3. /\ v.st = st /\ v.entry = e /\ v.step = step
      /\ v.mounted = x.mounted /\ v.downReason = x.downReason /\ v.downCond = x.downCond
      /\ v.periodCond = x.periodCond /\ v.geometry = x.geometry
      /\ v.retried = x.retried /\ v.retry = x.retry /\ v.faulted = x.faulted /\ v.faultOf = x.faultOf /\ v.stale = x.stale
  BY DEF Device
<1>4. NewRecord(x, st, e, step) = y
  BY DEF NewRecord, a
<1> HIDE DEF v
<1>5. y \in Device
  <2> DEFINE c == [v EXCEPT !.encoded = {}]
  <2>1. c \in Device
    BY <1>2 DEF Device
  <2>2. y = [c EXCEPT !.hour = FALSE, !.await = FALSE]
    BY <1>2 DEF Device
  <2> HIDE DEF c, y
  <2> QED
    BY ZenonT(60), <2>1, <2>2 DEF Device
<1>6. /\ y.st = v.st /\ y.entry = v.entry /\ y.step = v.step
      /\ y.mounted = v.mounted /\ y.downReason = v.downReason /\ y.downCond = v.downCond
      /\ y.periodCond = v.periodCond /\ y.geometry = v.geometry
      /\ y.retried = v.retried /\ y.retry = v.retry /\ y.faulted = v.faulted /\ y.faultOf = v.faultOf /\ y.stale = v.stale
  BY <1>2 DEF Device
<1> HIDE DEF y
<1>7. Told(y)
  BY <1>3, <1>6 DEF Told
<1> QED
  BY <1>3, <1>4, <1>5, <1>6, <1>7

\* A device that was not opened is down, and told so.
LEMMA SkippedOpens ==
    ASSUME NEW x \in Device, Told(x), ~x.mounted, NEW e \in AnyEntry, NEW cause \in Causes
    PROVE  Opened(x, e, Skipped(x, e, cause)) /\ Skipped(x, e, cause).st = "skipped"
<1> DEFINE w == MarkDown(x, cause)
           v == NewRecord(w, "skipped", e, 0)
           y == [v EXCEPT !.pump = None]
<1>1. Skipped(x, e, cause) = y
  BY DEF Skipped
<1>2. Blames(x, w)
  BY MarkDownBlames
<1> HIDE DEF w
<1>3. w \in Device /\ Told(w) /\ w.downReason # None
  BY <1>2 DEF Blames
<1>4. w = [x EXCEPT !.downReason = w.downReason, !.downCond = w.downReason]
  BY <1>2 DEF Blames
<1>5. /\ w.retried = x.retried /\ w.retry = x.retry /\ w.faulted = x.faulted /\ w.faultOf = x.faultOf /\ w.stale = x.stale
      /\ w.mounted = x.mounted
  BY <1>4 DEF Device
<1>6. /\ v \in Device /\ Told(v) /\ v.st = "skipped" /\ v.entry = e
      /\ v.mounted = w.mounted /\ v.downReason = w.downReason
      /\ v.retried = w.retried /\ v.retry = w.retry /\ v.faulted = w.faulted /\ v.faultOf = w.faultOf /\ v.stale = w.stale
  BY <1>3, DeviceBounds, NewRecordKeeps
<1> HIDE DEF v
<1>7. y \in Device
  BY <1>6 DEF Device
<1>8. /\ y.st = v.st /\ y.entry = v.entry /\ y.pump = None
      /\ y.mounted = v.mounted /\ y.downReason = v.downReason /\ y.downCond = v.downCond
      /\ y.periodCond = v.periodCond /\ y.geometry = v.geometry
      /\ y.retried = v.retried /\ y.retry = v.retry /\ y.faulted = v.faulted /\ y.faultOf = v.faultOf /\ y.stale = v.stale
  BY <1>6 DEF Device
<1> HIDE DEF y
<1>9. Told(y)
  BY <1>6, <1>8 DEF Told
<1> QED
  BY <1>1, <1>3, <1>5, <1>6, <1>7, <1>8, <1>9 DEF Opened

\* What an open on another step of the ladder comes to, it comes to.
LEMMA OpenedFromRung ==
    ASSUME NEW x \in Device, NEW y, Climbs(x, y), NEW e, NEW z, Opened(y, e, z)
    PROVE  Opened(x, e, z)
<1>1. y = [x EXCEPT !.geometry = y.geometry, !.periodCond = y.periodCond]
  BY DEF Climbs
<1>2. /\ y.retried = x.retried /\ y.retry = x.retry /\ y.faulted = x.faulted /\ y.faultOf = x.faultOf /\ y.stale = x.stale
      /\ y.mounted = x.mounted /\ y.downReason = x.downReason
  BY <1>1 DEF Device
<1> QED
  BY <1>2 DEF Opened

\* Every device is some device.
AsKept(D, n) == D[n] \in Device /\ Told(D[n]) /\ ~D[n].mounted

Resolvable(e) == e \in AnyEntry /\ e.id \in Ids /\ host[e.id] \in AnyAnswer

\* openAndStart leaves a device that serves, or is down and told so; a refusal
\* before the open leaves it down.
LEMMA OpenAndStartOpens ==
    ASSUME NEW D, NEW n, AsKept(D, n), NEW e, Resolvable(e),
           NEW o, ~ResolveRefused(e) => Likely(o, Asked(D[n], e))
    PROVE  LET y == OpenAndStart(D, n, e, o) IN
           Opened(D[n], e, y) /\ (OpenRefused(D, n, e) => y.st = "skipped")
<1> DEFINE x == GeometryStep(D[n], e)
           asked == x.geometry.step
           y == GeometryRefuse(x, o.refusedAt)
           z == GeometryOpened(y, asked, o.got)
           r == OpenAndStart(D, n, e, o)
<1>1. D[n] \in Device /\ Told(D[n]) /\ ~D[n].mounted /\ e \in AnyEntry /\ host[e.id] \in AnyAnswer
  BY DEF AsKept, Resolvable
<1>2. Climbs(D[n], x)
  BY <1>1, GeometryStepClimbs
<1>3. x \in Device /\ Told(x) /\ x.mounted = D[n].mounted
  <2>1. x = [D[n] EXCEPT !.geometry = x.geometry, !.periodCond = x.periodCond]
    BY <1>2 DEF Climbs
  <2>2. x.mounted = D[n].mounted
    <3> HIDE DEF x
    <3> QED
      BY <1>1, <2>1 DEF Device
  <2> QED
    BY <1>2, <2>2 DEF Climbs
<1>4. Asked(D[n], e) = asked
  BY DEF Asked
<1>5. host[e.id] \in Causes /\ "same-hardware" \in Causes /\ "open-failed" \in Causes
  BY <1>1 DEF Causes
<1>6. CASE ResolveRefused(e)
  <2>1. r = Skipped(x, e, host[e.id])
    BY <1>6 DEF OpenAndStart
  <2> HIDE DEF x, r
  <2>2. Opened(x, e, r) /\ r.st = "skipped"
    BY <1>1, <1>3, <1>5, <2>1, SkippedOpens
  <2> QED
    BY <1>1, <1>2, <2>2, OpenedFromRung DEF r
<1>7. CASE ~ResolveRefused(e) /\ Owned(D, n, e)
  <2>1. r = Skipped(x, e, "same-hardware")
    BY <1>7 DEF OpenAndStart
  <2> HIDE DEF x, r
  <2>2. Opened(x, e, r) /\ r.st = "skipped"
    BY <1>1, <1>3, <1>5, <2>1, SkippedOpens
  <2> QED
    BY <1>1, <1>2, <2>2, OpenedFromRung DEF r
<1>8. CASE ~ResolveRefused(e) /\ ~Owned(D, n, e)
  <2>1. Likely(o, asked) /\ ~OpenRefused(D, n, e)
    BY <1>4, <1>8 DEF OpenRefused
  <2> HIDE DEF x
  <2>2. Climbs(x, y) /\ (o.ok => Climbs(x, z) /\ (o.got = 0 => z.periodCond = 0))
    BY <1>3, <2>1, LadderClimbs
  <2>3. CASE ~o.ok
    <3>1. r = Skipped(y, e, "open-failed")
      BY <1>8, <2>3 DEF OpenAndStart, x
    <3>2. y = [x EXCEPT !.geometry = y.geometry, !.periodCond = y.periodCond]
      BY <2>2 DEF Climbs
    <3> HIDE DEF y, r
    <3>3. y \in Device /\ Told(y) /\ y.mounted = x.mounted
      BY <1>3, <2>2, <3>2 DEF Climbs, Device
    <3>4. Opened(y, e, r) /\ r.st = "skipped"
      BY <1>1, <1>3, <1>5, <3>1, <3>3, SkippedOpens
    <3> QED
      BY <1>1, <1>2, <1>3, <2>1, <2>2, <3>4, OpenedFromRung DEF r
  <2>4. CASE o.ok
    <3> DEFINE v == NewRecord(z, "serving", e, o.got)
               s == [v EXCEPT !.pump = "live", !.mounted = TRUE]
    <3>1. r = s
      BY <1>8, <2>4 DEF OpenAndStart, x
    <3>2. Climbs(x, z) /\ (o.got = 0 => z.periodCond = 0)
      BY <2>2, <2>4
    <3>3. o.got \in 0 .. Top
      <4>1. asked \in 0 .. Top /\ Top \in Nat
        BY <1>3, DeviceBounds DEF Device, GeometryState
      <4> QED
        BY <2>1, <4>1 DEF Likely
    <3> HIDE DEF z, y
    <3>4. z \in Device /\ Told(z)
      BY <3>2 DEF Climbs
    <3>5. /\ v \in Device /\ Told(v) /\ v.st = "serving" /\ v.entry = e /\ v.step = o.got
          /\ v.downReason = z.downReason /\ v.periodCond = z.periodCond
          /\ v.retried = z.retried /\ v.retry = z.retry /\ v.faulted = z.faulted /\ v.faultOf = z.faultOf /\ v.stale = z.stale
      BY <1>1, <3>3, <3>4, NewRecordKeeps
    <3> HIDE DEF v
    <3>6. s \in Device
      BY <3>5 DEF Device
    <3>7. /\ s.st = v.st /\ s.pump = "live" /\ s.mounted = TRUE /\ s.entry = v.entry /\ s.step = v.step
          /\ s.downReason = v.downReason /\ s.downCond = v.downCond
          /\ s.geometry = v.geometry /\ s.periodCond = v.periodCond
          /\ s.retried = v.retried /\ s.retry = v.retry /\ s.faulted = v.faulted /\ s.faultOf = v.faultOf /\ s.stale = v.stale
      BY <3>5 DEF Device
    <3> HIDE DEF s, r
    <3>8. Told(s)
      BY <3>5, <3>7 DEF Told
    <3>9. Opened(z, e, s)
      BY <3>2, <3>5, <3>6, <3>7, <3>8 DEF Opened
    <3>10. Opened(x, e, s)
      BY <1>3, <3>2, <3>9, OpenedFromRung
    <3> QED
      BY <1>1, <1>2, <2>1, <3>1, <3>10, OpenedFromRung DEF r
  <2> QED
    BY <2>3, <2>4
<1> QED
  BY <1>6, <1>7, <1>8

----------------------------------------------------------------------------
(* A device that was started or restarted *)

\* It serves or is down, told as what it is; a fault is remembered with the
\* entry it happened under, or is forgotten.
Restarted(x, e, y) ==
    /\ y \in Device /\ Told(y) /\ (Up(y) \/ Down(y)) /\ y.entry = e /\ y.stale = x.stale
    /\ y.faulted = {} \/ (y.faulted = x.faulted /\ y.faultOf = x.faultOf)
    /\ y.st = "serving" /\ Retrying(y) => y.retry.settle # None

\* An open that failed, with the retry state scheduled from what it comes to.
LEMMA FailedOpenIsDown ==
    ASSUME NEW x, NEW y, NEW e, Opened(x, e, y), y.st = "skipped"
    PROVE  LET z == ScheduleRetry(y, e) IN
           Restarted(x, e, z) /\ z.st = "skipped" /\ z.faulted = x.faulted /\ z.faultOf = x.faultOf
<1> DEFINE z == ScheduleRetry(y, e)
<1>1. y \in Device /\ Told(y) /\ y.entry = e /\ y.pump = None /\ ~y.mounted /\ y.downReason # None
  BY NoneIsNoCause DEF Opened
<1>2. Scheduled(y, z) /\ (~IsCardIndex(e) /\ RetryableCause(y.downReason) => z.retried)
  BY <1>1, ScheduleRetrySchedules
<1> HIDE DEF z
<1>3. z = [y EXCEPT !.retried = z.retried, !.retry = z.retry]
  BY <1>2 DEF Scheduled
<1>4. /\ z.st = y.st /\ z.entry = y.entry /\ z.pump = y.pump /\ z.mounted = y.mounted
      /\ z.downReason = y.downReason /\ z.downCond = y.downCond /\ z.geometry = y.geometry /\ z.periodCond = y.periodCond
      /\ z.faulted = y.faulted /\ z.faultOf = y.faultOf /\ z.stale = y.stale
  BY <1>1, <1>3 DEF Device
<1>5. z \in Device /\ AtRest(z.retry) /\ (z.retried => z.retry.next # None)
  BY <1>2 DEF Scheduled
<1>6. Told(z)
  BY <1>1, <1>4 DEF Told
<1>7. Down(z)
  BY <1>1, <1>2, <1>4, <1>5 DEF Down, IsDown
<1>8. y.faulted = x.faulted /\ y.faultOf = x.faultOf /\ y.stale = x.stale
  BY DEF Opened
<1> QED
  BY <1>1, <1>4, <1>5, <1>6, <1>7, <1>8 DEF Restarted, z

\* A retry that was decided on: the next deadline is taken, nothing has
\* recovered, and the device is told as down or has a fault to prove.
Retriable(x) ==
    /\ x.retried /\ x.retry.next = None /\ x.retry.recovered = None /\ ~x.retry.encodeSeen
    /\ x.downReason # None \/ x.faulted # {}

\* attemptRetry leaves a device that waits to settle, or is down with its next
\* attempt scheduled; it forgets no fault.
LEMMA AttemptRetryRestarts ==
    ASSUME NEW D, NEW n, AsKept(D, n), Retriable(D[n]), NEW e, Resolvable(e),
           NEW o, ~ResolveRefused(e) => Likely(o, Asked(D[n], e))
    PROVE  LET y == AttemptRetry(D, n, e, o) IN
           /\ Restarted(D[n], e, y) /\ y.faulted = D[n].faulted /\ y.faultOf = D[n].faultOf
           /\ y.st = "serving" => Retrying(y)
<1> DEFINE d == D[n]
           x == OpenAndStart(D, n, e, o)
           y == [x EXCEPT !.retry.settle = RetrySettle]
           r == AttemptRetry(D, n, e, o)
<1>1. Opened(d, e, x)
  BY OpenAndStartOpens
<1>2. d \in Device
  BY DEF AsKept
<1>3. CASE x.st # "serving"
  <2>1. r = ScheduleRetry(x, e)
    BY <1>3 DEF AttemptRetry
  <2> HIDE DEF x
  <2>2. x.st = "skipped"
    BY <1>1, <1>3 DEF Opened
  <2> QED
    BY <1>1, <2>1, <2>2, FailedOpenIsDown DEF d
<1>4. CASE x.st = "serving"
  <2>1. r = IF y.faulted = {} THEN y ELSE [ReplaceDown(y, "failed") EXCEPT !.await = TRUE]
    BY <1>4 DEF AttemptRetry
  <2> HIDE DEF x, r
  <2>2. /\ x \in Device /\ Told(x) /\ x.entry = e /\ x.pump = "live" /\ x.mounted /\ (x.step = 0 => x.periodCond = 0)
        /\ x.retried = d.retried /\ x.retry = d.retry /\ x.faulted = d.faulted /\ x.faultOf = d.faultOf /\ x.stale = d.stale
        /\ x.downReason = d.downReason
    BY <1>1, <1>4 DEF Opened
  <2>3. RetrySettle \in Nat /\ RetrySettle # None
    BY DeviceBounds, NoneIsNoCause
  <2>4. x.retry \in RetryState
    BY <2>2 DEF Device
  <2>5. y \in Device
    BY <2>2, <2>3, <2>4 DEF Device, RetryState, Deadline
  <2>6. /\ y.st = x.st /\ y.entry = x.entry /\ y.pump = x.pump /\ y.mounted = x.mounted /\ y.step = x.step
        /\ y.periodCond = x.periodCond /\ y.geometry = x.geometry /\ y.downReason = x.downReason /\ y.downCond = x.downCond
        /\ y.retried = x.retried /\ y.faulted = x.faulted /\ y.faultOf = x.faultOf /\ y.stale = x.stale
    BY <2>2 DEF Device
  <2>7. y.retry.settle = RetrySettle /\ y.retry.next = x.retry.next /\ y.retry.recovered = x.retry.recovered
        /\ y.retry.encodeSeen = x.retry.encodeSeen
    BY <2>2, <2>4 DEF Device, RetryState
  <2> HIDE DEF y, d
  <2>8. Told(y)
    BY <2>2, <2>6 DEF Told
  <2>9. y.retried /\ y.retry.next = None /\ y.retry.recovered = None /\ ~y.retry.encodeSeen
    BY <2>2, <2>6, <2>7 DEF Retriable, d
  <2>10. CASE y.faulted = {}
    <3>1. y.downReason # None
      BY <2>2, <2>6, <2>10 DEF Retriable, d
    <3>2. Up(y)
      BY <1>4, <2>2, <2>3, <2>6, <2>7, <2>9, <2>10, <3>1, NoneIsNoCause DEF Up, Retrying
    <3> QED
      BY <2>1, <2>2, <2>3, <2>5, <2>6, <2>7, <2>8, <2>9, <2>10, <3>2 DEF Restarted, Retrying, r, d
  <2>11. CASE y.faulted # {}
    <3> DEFINE w == ReplaceDown(y, "failed")
               z == [w EXCEPT !.await = TRUE]
    <3>1. Blames(y, w)
      BY <2>5, <2>8, ReplaceDownBlames DEF Causes
    <3> HIDE DEF w
    <3>2. w \in Device /\ Told(w) /\ w.downReason # None
      BY <3>1 DEF Blames
    <3>3. w = [y EXCEPT !.downReason = w.downReason, !.downCond = w.downReason]
      BY <3>1 DEF Blames
    <3>4. /\ w.st = y.st /\ w.entry = y.entry /\ w.pump = y.pump /\ w.mounted = y.mounted /\ w.step = y.step
          /\ w.periodCond = y.periodCond /\ w.geometry = y.geometry /\ w.retry = y.retry
          /\ w.retried = y.retried /\ w.faulted = y.faulted /\ w.faultOf = y.faultOf /\ w.stale = y.stale
      BY <2>5, <3>3 DEF Device
    <3>5. z \in Device
      BY <3>2 DEF Device
    <3>6. /\ z.st = w.st /\ z.entry = w.entry /\ z.pump = w.pump /\ z.mounted = w.mounted /\ z.step = w.step
          /\ z.periodCond = w.periodCond /\ z.geometry = w.geometry /\ z.retry = w.retry /\ z.await = TRUE
          /\ z.retried = w.retried /\ z.faulted = w.faulted /\ z.faultOf = w.faultOf /\ z.stale = w.stale
          /\ z.downReason = w.downReason /\ z.downCond = w.downCond
      BY <3>2 DEF Device
    <3> HIDE DEF z
    <3>7. Told(z)
      BY <3>2, <3>6 DEF Told
    <3>8. Retrying(z) /\ z.retry.settle # None
      BY <2>3, <2>7, <2>9, <3>4, <3>6 DEF Retrying
    <3>9. Up(z)
      BY <1>4, <2>2, <2>6, <2>9, <3>2, <3>4, <3>6, <3>8, NoneIsNoCause DEF Up, Retrying
    <3>10. r = z
      BY <2>1, <2>11 DEF z, w
    <3> QED
      BY <2>2, <2>6, <3>4, <3>5, <3>6, <3>7, <3>8, <3>9, <3>10 DEF Restarted, r, d
  <2> QED
    BY <2>10, <2>11
<1> QED
  BY <1>3, <1>4

\* startDevice leaves a device that serves and is told of nothing, or is down;
\* it has forgotten the faults.
LEMMA StartDeviceRestarts ==
    ASSUME NEW D \in [Names -> Device], NEW n \in Names, AsKept(D, n), NEW e, Resolvable(e),
           NEW o, ~ResolveRefused(e) => Likely(o, Asked(D[n], e))
    PROVE  LET y == StartDevice(D, n, e, o) IN Restarted(D[n], e, y) /\ y.faulted = {}
<1> DEFINE d == DropRetry(D[n])
           c == [d EXCEPT !.faulted = {}, !.faultOf = None]
           E == [D EXCEPT ![n] = c]
           x == OpenAndStart(E, n, e, o)
           r == StartDevice(D, n, e, o)
<1>1. r = IF x.st # "serving" THEN ScheduleRetry(x, e) ELSE FinishRecovery(x)
  BY DEF StartDevice
<1>2. D[n] \in Device /\ Told(D[n]) /\ ~D[n].mounted
  BY DEF AsKept
<1>3. Scheduled(D[n], d) /\ ~d.retried
  BY <1>2, DropRetrySchedules
<1>4. E[n] = c
  OBVIOUS
<1> HIDE DEF d, E
<1>5. d = [D[n] EXCEPT !.retried = d.retried, !.retry = d.retry] /\ d \in Device /\ AtRest(d.retry) /\ d.retry.next = None
  BY <1>3, NoRetryType DEF Scheduled
<1>6. /\ d.mounted = D[n].mounted /\ d.geometry = D[n].geometry /\ d.periodCond = D[n].periodCond /\ d.stale = D[n].stale
      /\ d.downReason = D[n].downReason /\ d.downCond = D[n].downCond
  BY ZenonT(60), <1>2, <1>5 DEF Device
<1>7. c \in Device
  <2> DEFINE b == [d EXCEPT !.faulted = {}]
  <2>1. b \in Device
    BY <1>5 DEF Device
  <2>2. c = [b EXCEPT !.faultOf = None]
    BY <1>5 DEF Device
  <2> HIDE DEF b, c
  <2> QED
    BY <2>1, <2>2 DEF Device
<1>8. /\ c.mounted = d.mounted /\ c.geometry = d.geometry /\ c.periodCond = d.periodCond /\ c.stale = d.stale
      /\ c.downReason = d.downReason /\ c.downCond = d.downCond /\ c.faulted = {} /\ c.retried = d.retried /\ c.retry = d.retry
  BY <1>5 DEF Device
<1> HIDE DEF c
<1>9. Told(c)
  BY <1>2, <1>6, <1>8 DEF Told
<1>10. AsKept(E, n)
  BY <1>2, <1>4, <1>6, <1>7, <1>8, <1>9 DEF AsKept
<1>11. Asked(c, e) = Asked(D[n], e)
  BY <1>2, <1>6, <1>7, <1>8 DEF Asked, GeometryStep, DropGeometry, ClearGeometry, Device
<1>12. Opened(c, e, x)
  BY <1>4, <1>10, <1>11, OpenAndStartOpens
<1> HIDE DEF x, r
<1>13. CASE x.st # "serving"
  <2>1. x.st = "skipped"
    BY <1>12, <1>13 DEF Opened
  <2>2. Restarted(c, e, r) /\ r.faulted = {}
    BY <1>1, <1>8, <1>12, <1>13, <2>1, FailedOpenIsDown
  <2> QED
    BY <1>6, <1>8, <2>2 DEF Restarted, r
<1>14. CASE x.st = "serving"
  <2>1. r = FinishRecovery(x)
    BY <1>1, <1>14
  <2>2. /\ x \in Device /\ Told(x) /\ x.entry = e /\ x.pump = "live" /\ x.mounted /\ (x.step = 0 => x.periodCond = 0)
        /\ x.retried = c.retried /\ x.retry = c.retry /\ x.faulted = c.faulted /\ x.stale = c.stale
    BY <1>12, <1>14 DEF Opened
  <2>3. r \in Device /\ Told(r) /\ r.downReason = None /\ r = [x EXCEPT !.downReason = None, !.downCond = None]
    BY <2>1, <2>2, FinishRecoveryClears
  <2>4. /\ r.st = x.st /\ r.entry = x.entry /\ r.pump = x.pump /\ r.mounted = x.mounted /\ r.step = x.step
        /\ r.periodCond = x.periodCond /\ r.retried = x.retried /\ r.retry = x.retry /\ r.faulted = x.faulted /\ r.stale = x.stale
    BY ZenonT(60), <2>2, <2>3 DEF Device
  <2>5. ~Retrying(r)
    BY <1>3, <1>8, <2>2, <2>4 DEF Retrying
  <2>6. Up(r)
    <3>1. r.st = "serving" /\ r.pump = "live" /\ "live" # None /\ r.mounted /\ (r.step = 0 => r.periodCond = 0)
      BY <1>14, <2>2, <2>4, NoneIsNoCause
    <3>2. r.retry.next = None /\ r.faulted = {} /\ ~(r.downReason # None)
      BY <1>5, <1>8, <2>2, <2>3, <2>4
    <3> QED
      BY <2>5, <3>1, <3>2 DEF Up, Retrying
  <2> QED
    BY <1>6, <1>8, <2>2, <2>3, <2>4, <2>5, <2>6 DEF Restarted, r
<1> QED
  BY <1>13, <1>14

\* restartFaulted leaves the faults as they were, whatever its open comes to.
LEMMA RestartFaultedRestarts ==
    ASSUME NEW D \in [Names -> Device], NEW n \in Names, AsKept(D, n), AtRest(D[n].retry), D[n].faulted # {}, NEW e, Resolvable(e),
           NEW o, ~ResolveRefused(e) => Likely(o, Asked(D[n], e)), NEW resetBackoff \in BOOLEAN
    PROVE  LET y == RestartFaulted(D, n, e, o, resetBackoff) IN
           Restarted(D[n], e, y) /\ y.faulted = D[n].faulted /\ y.faultOf = D[n].faultOf
<1> DEFINE r == RestartFaulted(D, n, e, o, resetBackoff)
<1>1. D[n] \in Device /\ Told(D[n]) /\ ~D[n].mounted
  BY DEF AsKept
<1>2. D[n].retry \in RetryState
  BY <1>1 DEF Device
<1>3. CASE OpenRefused(D, n, e)
  <2> DEFINE E == IF resetBackoff THEN [D EXCEPT ![n] = DropRetry(D[n])] ELSE D
             x == OpenAndStart(E, n, e, o)
  <2>1. r = ScheduleRetry(x, e)
    BY <1>3 DEF RestartFaulted
  <2>2. OpenRefused(E, n, e)
    BY <1>3 DEF OpenRefused, Owned
  <2>3. Scheduled(D[n], DropRetry(D[n]))
    BY <1>1, DropRetrySchedules
  <2>4. E[n] = IF resetBackoff THEN DropRetry(D[n]) ELSE D[n]
    OBVIOUS
  <2> HIDE DEF E
  <2> DEFINE c == E[n]
  <2>5. c \in Device /\ c = [D[n] EXCEPT !.retried = c.retried, !.retry = c.retry]
    <3>1. CASE resetBackoff
      BY <2>3, <2>4, <3>1 DEF Scheduled
    <3>2. CASE ~resetBackoff
      BY <1>1, <2>4, <3>2 DEF Device
    <3> QED
      BY <3>1, <3>2
  <2> HIDE DEF c
  <2>6. /\ c.mounted = D[n].mounted /\ c.geometry = D[n].geometry /\ c.periodCond = D[n].periodCond /\ c.stale = D[n].stale
        /\ c.downReason = D[n].downReason /\ c.downCond = D[n].downCond /\ c.faulted = D[n].faulted /\ c.faultOf = D[n].faultOf
    BY <1>1, <2>5 DEF Device
  <2>7. Told(c)
    BY <1>1, <2>6 DEF Told
  <2>8. AsKept(E, n)
    BY <1>1, <2>5, <2>6, <2>7 DEF AsKept, c
  <2>9. Asked(c, e) = Asked(D[n], e)
    BY <1>1, <2>5, <2>6 DEF Asked, GeometryStep, DropGeometry, ClearGeometry, Device
  <2>10. Opened(c, e, x) /\ x.st = "skipped"
    BY <2>2, <2>8, <2>9, OpenAndStartOpens DEF c
  <2> HIDE DEF x, r
  <2>11. Restarted(c, e, r) /\ r.faulted = c.faulted /\ r.faultOf = c.faultOf
    BY <2>1, <2>10, FailedOpenIsDown
  <2> QED
    BY <2>6, <2>11 DEF Restarted, r
<1>4. CASE ~OpenRefused(D, n, e)
  <2> DEFINE st == IF resetBackoff THEN [D[n].retry EXCEPT !.attempts = 0, !.recovered = None] ELSE D[n].retry
             t == [st EXCEPT !.next = None]
             c == [D[n] EXCEPT !.retried = TRUE, !.retry = t]
             E == [D EXCEPT ![n].retried = TRUE, ![n].retry = t]
  <2>1. r = AttemptRetry(E, n, e, o)
    BY <1>4 DEF RestartFaulted
  <2>2. E[n] = c
    OBVIOUS
  <2>3. st \in RetryState /\ st.recovered = None /\ ~st.encodeSeen
    BY <1>2 DEF RetryState, Deadline, AtRest
  <2> HIDE DEF st
  <2>4. t \in RetryState /\ t.recovered = None /\ ~t.encodeSeen /\ t.next = None
    BY <2>3 DEF RetryState, Deadline
  <2> HIDE DEF t, E
  <2>5. c \in Device
    BY <1>1, <2>4 DEF Device
  <2>6. /\ c.mounted = D[n].mounted /\ c.geometry = D[n].geometry /\ c.periodCond = D[n].periodCond /\ c.stale = D[n].stale
        /\ c.downReason = D[n].downReason /\ c.downCond = D[n].downCond /\ c.faulted = D[n].faulted /\ c.faultOf = D[n].faultOf
        /\ c.retried = TRUE /\ c.retry = t
    BY <1>1 DEF Device
  <2> HIDE DEF c
  <2>7. Told(c)
    BY <1>1, <2>6 DEF Told
  <2>8. AsKept(E, n)
    BY <1>1, <2>2, <2>5, <2>6, <2>7 DEF AsKept
  <2>9. Asked(c, e) = Asked(D[n], e)
    BY <1>1, <2>5, <2>6 DEF Asked, GeometryStep, DropGeometry, ClearGeometry, Device
  <2>10. Retriable(c)
    BY <2>4, <2>6 DEF Retriable
  <2>11. Restarted(c, e, r) /\ r.faulted = c.faulted /\ r.faultOf = c.faultOf
    <3> HIDE DEF r
    <3> QED
      BY <2>1, <2>2, <2>8, <2>9, <2>10, AttemptRetryRestarts
  <2> HIDE DEF r
  <2> QED
    BY <2>6, <2>11 DEF Restarted, r
<1> QED
  BY <1>3, <1>4

----------------------------------------------------------------------------
(* A device that stops, and one that the configuration forgets *)

\* stop leaves the pump to be counted off by its result and nothing mounted.
LEMMA StopSupersedes ==
    ASSUME NEW x \in Device, Told(x), x.st = "serving", x.pump # None
    PROVE  LET y == Stop(x) IN
           /\ y \in Device /\ Told(y) /\ ~y.mounted /\ y.st = "superseded" /\ y.pump = None
           /\ PumpCount(y) = PumpCount(x) /\ y.faulted = x.faulted /\ y.faultOf = x.faultOf
<1> DEFINE g == GeometryRunEnded(x)
           y == [g EXCEPT !.st = "superseded", !.pump = None, !.path = None, !.stale = g.stale + 1, !.mounted = FALSE]
<1>1. Stop(x) = y
  BY DEF Stop
<1>2. Climbs(x, g)
  BY GeometryRunEndedClimbs
<1> HIDE DEF g
<1>3. g \in Device /\ Told(g) /\ g = [x EXCEPT !.geometry = g.geometry, !.periodCond = g.periodCond]
  BY <1>2 DEF Climbs
<1>4. g.stale = x.stale /\ g.stale \in Nat /\ g.faulted = x.faulted /\ g.faultOf = x.faultOf
  BY <1>3 DEF Device
<1>5. y \in Device
  <2> DEFINE v == [g EXCEPT !.st = "superseded", !.pump = None]
             u == [v EXCEPT !.path = None]
             w == [u EXCEPT !.stale = g.stale + 1]
  <2>1. v \in Device
    BY ZenonT(60), <1>3 DEF Device
  <2>2. y = [w EXCEPT !.mounted = FALSE]
    OBVIOUS
  <2> HIDE DEF v
  <2>4. u \in Device
    BY <2>1 DEF Device
  <2> HIDE DEF u
  <2>3. w \in Device
    BY <1>4, <2>4 DEF Device
  <2> HIDE DEF w, y
  <2> QED
    BY ZenonT(60), <2>2, <2>3 DEF Device
<1>6. /\ y.st = "superseded" /\ y.pump = None /\ y.mounted = FALSE /\ y.stale = g.stale + 1
      /\ y.downReason = g.downReason /\ y.downCond = g.downCond /\ y.geometry = g.geometry /\ y.periodCond = g.periodCond
      /\ y.faulted = g.faulted /\ y.faultOf = g.faultOf
  BY <1>3 DEF Device
<1> HIDE DEF y
<1>7. Told(y)
  BY <1>3, <1>6 DEF Told
<1>8. PumpCount(y) = PumpCount(x)
  BY <1>4, <1>6 DEF PumpCount
<1> QED
  BY <1>1, <1>4, <1>5, <1>6, <1>7, <1>8

\* What reconcileRecords leaves of a device it forgets is off, with nothing
\* outstanding.
LEMMA ForgottenIsOff ==
    ASSUME NEW x \in Device, Told(x), x.st # "serving", x.pump = None, ~x.mounted,
           NEW st \in {None, "disabled"}, NEW e \in AnyEntry \cup {None}
    PROVE  LET y == [Forgotten(x) EXCEPT !.st = st, !.entry = e] IN
           y \in Device /\ Told(y) /\ Off(y) /\ y.stale = x.stale
<1> DEFINE a == Resolve(x)
           b == DropRetry(a)
           c == DropGeometry(b)
           d == [c EXCEPT !.downReason = None, !.faulted = {}, !.faultOf = None]
           f == [d EXCEPT !.addr = None, !.step = 0, !.hour = FALSE, !.encoded = {}, !.await = FALSE]
           y == [f EXCEPT !.st = st, !.entry = e]
<1>1. [Forgotten(x) EXCEPT !.st = st, !.entry = e] = y
  <2>1. Forgotten(x) = [DropGeometry(DropRetry(Resolve(x)))
                           EXCEPT !.downReason = None, !.faulted = {}, !.faultOf = None,
                                  !.addr = None, !.step = 0, !.hour = FALSE, !.encoded = {}, !.await = FALSE]
    BY DEF Forgotten
  <2>2. Forgotten(x) = f
    BY <2>1
  <2> HIDE DEF f
  <2> QED
    BY <2>2
<1>2. /\ a \in Device /\ a.downCond = None
      /\ a.pump = None /\ ~a.mounted /\ a.stale = x.stale
  BY DEF Resolve, Device
<1> HIDE DEF a
<1>3. Scheduled(a, b) /\ ~b.retried
  BY <1>2, DropRetrySchedules
<1> HIDE DEF b
<1>4. b = [a EXCEPT !.retried = b.retried, !.retry = b.retry]
  BY <1>3 DEF Scheduled
<1>5. /\ b \in Device /\ ~b.retried /\ b.retry = NoRetry
      /\ b.pump = None /\ ~b.mounted /\ b.stale = x.stale /\ b.downCond = None
  BY <1>2, <1>3, <1>4 DEF Scheduled, Device
<1>6. NoGeometry \in GeometryState /\ 0 \in 0 .. Top
  BY NoGeometryType, DeviceBounds
<1>7. c = OnRung(b, NoGeometry, 0)
  BY <1>5 DEF DropGeometry, ClearGeometry, OnRung, Device
<1>8. /\ c \in Device /\ ~c.retried /\ c.retry = NoRetry /\ c.geometry = NoGeometry /\ c.periodCond = 0
      /\ c.pump = None /\ ~c.mounted /\ c.stale = x.stale /\ c.downCond = None
  <2> HIDE DEF c
  <2> QED
    BY <1>5, <1>6, <1>7 DEF OnRung, Device
<1> HIDE DEF c
<1>9. d \in Device
  <2> DEFINE w == [c EXCEPT !.faulted = {}]
  <2>1. w \in Device
    BY <1>8 DEF Device
  <2> DEFINE v == [w EXCEPT !.downReason = None]
  <2>2. d = [v EXCEPT !.faultOf = None]
    BY <1>8 DEF Device
  <2> HIDE DEF w
  <2>3. v \in Device
    BY <2>1 DEF Device
  <2> HIDE DEF v, d
  <2> QED
    BY <2>2, <2>3 DEF Device
<1>10. /\ ~d.retried /\ d.retry = NoRetry /\ d.geometry = NoGeometry /\ d.periodCond = 0 /\ d.faulted = {} /\ d.downReason = None
       /\ d.pump = None /\ ~d.mounted /\ d.stale = x.stale /\ d.downCond = None
  BY <1>8 DEF Device
<1> HIDE DEF d
<1>11. f \in Device
  <2> DEFINE w == [d EXCEPT !.encoded = {}]
  <2>1. w \in Device
    BY <1>9 DEF Device
  <2> DEFINE u == [w EXCEPT !.addr = None]
             v == [u EXCEPT !.step = 0]
  <2>2. f = [v EXCEPT !.hour = FALSE, !.await = FALSE]
    BY <1>9 DEF Device
  <2> HIDE DEF w
  <2>3. u \in Device
    BY <2>1 DEF Device
  <2> HIDE DEF u
  <2>4. v \in Device
    BY <1>6, <2>3 DEF Device
  <2> HIDE DEF v, f
  <2> QED
    BY ONLY ZenonT(60), <2>2, <2>4 DEF Device
<1>12. /\ ~f.retried /\ f.retry = NoRetry /\ f.geometry = NoGeometry /\ f.periodCond = 0 /\ f.faulted = {} /\ f.downReason = None
       /\ f.pump = None /\ ~f.mounted /\ f.stale = x.stale /\ f.downCond = None
  BY <1>9, <1>10 DEF Device
<1> HIDE DEF f
<1>13. y \in Device
  <2> DEFINE v == [f EXCEPT !.st = st]
  <2>1. v \in Device
    BY <1>11 DEF Device
  <2>2. y = [v EXCEPT !.entry = e]
    OBVIOUS
  <2> HIDE DEF v, y
  <2> QED
    BY <2>1, <2>2 DEF Device
<1>14. /\ ~y.retried /\ y.retry = NoRetry /\ y.geometry = NoGeometry /\ y.periodCond = 0 /\ y.faulted = {} /\ y.downReason = None
       /\ y.pump = None /\ ~y.mounted /\ y.stale = x.stale /\ y.downCond = None /\ y.st = st
  BY <1>11, <1>12 DEF Device
<1> HIDE DEF y
<1>15. Told(y)
  BY <1>14, NoGeometryType, DeviceBounds DEF Told
<1>16. Off(y)
  BY <1>14 DEF Off
<1> QED
  BY <1>1, <1>13, <1>14, <1>15, <1>16

----------------------------------------------------------------------------
(* A pump that ended *)

\* A device whose pump ended is down, and its other pumps are as they were.
LEMMA FailedIsDown ==
    ASSUME NEW x \in Device, Told(x), Up(x), x.entry \in AnyEntry
    PROVE  LET y == Failed(x) IN
           /\ y \in Device /\ Told(y) /\ Down(y) /\ y.entry = x.entry /\ y.stale = x.stale /\ y.st = "failed"
           /\ y.faulted # {} => (y.faulted = x.faulted /\ y.faultOf = x.faultOf) \/ y.faultOf = x.entry
<1> DEFINE cause == IF x.pump \in {"stalled", "shortfall"} THEN "stalled" ELSE "failed"
           a == [x EXCEPT !.st = "failed", !.pump = None, !.path = None, !.mounted = FALSE]
           dead == GeometryRunEnded(a)
           told == MarkDown(dead, cause)
           down == ScheduleRetry(told, x.entry)
           short == IF x.pump = "shortfall" /\ down.retried THEN GeometryShortfall(down) ELSE down
           lost == MarkDown(dead, "disconnected")
           y == Failed(x)
<1>1. y = IF Lost(x) THEN DropRetry(lost)
          ELSE IF x.pump = "encode" /\ short.retried
          THEN [short EXCEPT !.faulted = short.faulted \cup {x.path}, !.faultOf = x.entry]
          ELSE short
  BY DEF Failed
<1>2. /\ a \in Device /\ a.st = "failed" /\ a.pump = None /\ ~a.mounted
      /\ a.geometry = x.geometry /\ a.periodCond = x.periodCond /\ a.downReason = x.downReason /\ a.downCond = x.downCond
      /\ a.faulted = x.faulted /\ a.faultOf = x.faultOf /\ a.entry = x.entry /\ a.stale = x.stale
  BY ZenonT(60) DEF Device
<1> HIDE DEF y, a
<1>3. Told(a)
  BY <1>2 DEF Told
<1>4. Climbs(a, dead)
  BY <1>2, <1>3, GeometryRunEndedClimbs
<1> HIDE DEF dead
<1>5. dead \in Device /\ Told(dead) /\ dead = [a EXCEPT !.geometry = dead.geometry, !.periodCond = dead.periodCond]
  BY <1>4 DEF Climbs
<1>6. /\ dead.st = "failed" /\ dead.pump = None /\ ~dead.mounted
      /\ dead.faulted = x.faulted /\ dead.faultOf = x.faultOf /\ dead.entry = x.entry /\ dead.stale = x.stale
  <2>1. /\ dead.st = a.st /\ dead.pump = a.pump /\ dead.mounted = a.mounted
        /\ dead.faulted = a.faulted /\ dead.faultOf = a.faultOf /\ dead.entry = a.entry /\ dead.stale = a.stale
    BY ZenonT(60), <1>2, <1>5 DEF Device
  <2> QED
    BY <1>2, <2>1
<1>7. ASSUME NEW w, Blames(dead, w)
      PROVE  /\ w \in Device /\ Told(w) /\ w.downReason # None /\ w.st = "failed" /\ w.pump = None /\ ~w.mounted
             /\ w.faulted = x.faulted /\ w.faultOf = x.faultOf /\ w.entry = x.entry /\ w.stale = x.stale
  <2>1. w = [dead EXCEPT !.downReason = w.downReason, !.downCond = w.downReason]
    BY <1>7 DEF Blames
  <2>2. /\ w.st = dead.st /\ w.pump = dead.pump /\ w.mounted = dead.mounted
        /\ w.faulted = dead.faulted /\ w.faultOf = dead.faultOf /\ w.entry = dead.entry /\ w.stale = dead.stale
    BY <1>5, <2>1 DEF Device
  <2> QED
    BY <1>6, <1>7, <2>2 DEF Blames
<1>8. ASSUME NEW w, Blames(dead, w), NEW z, Scheduled(w, z), ~IsCardIndex(x.entry) /\ RetryableCause(w.downReason) => z.retried
      PROVE  /\ z \in Device /\ Told(z) /\ Down(z) /\ z.entry = x.entry /\ z.stale = x.stale /\ z.st = "failed"
             /\ z.faulted = x.faulted /\ z.faultOf = x.faultOf
  <2>1. /\ w \in Device /\ Told(w) /\ w.downReason # None /\ w.st = "failed" /\ w.pump = None /\ ~w.mounted
        /\ w.faulted = x.faulted /\ w.faultOf = x.faultOf /\ w.entry = x.entry /\ w.stale = x.stale
    BY <1>7, <1>8
  <2>2. z \in Device /\ z = [w EXCEPT !.retried = z.retried, !.retry = z.retry]
    BY <1>8 DEF Scheduled
  <2>3. /\ z.st = w.st /\ z.pump = w.pump /\ z.mounted = w.mounted /\ z.faulted = w.faulted /\ z.faultOf = w.faultOf
        /\ z.entry = w.entry /\ z.stale = w.stale /\ z.downReason = w.downReason /\ z.downCond = w.downCond
        /\ z.geometry = w.geometry /\ z.periodCond = w.periodCond
    BY ZenonT(60), <2>1, <2>2 DEF Device
  <2>4. Told(z)
    BY <2>1, <2>3 DEF Told
  <2>5. AtRest(z.retry) /\ (z.retried => z.retry.next # None)
    BY <1>8 DEF Scheduled
  <2>6. Down(z)
    BY <1>8, <2>1, <2>3, <2>5 DEF Down, IsDown
  <2> QED
    BY <2>1, <2>2, <2>3, <2>4, <2>6
<1>9. CASE Lost(x)
  <2>1. Blames(dead, lost) /\ lost.downReason = "disconnected"
    BY <1>5, MarkDownBlames DEF Causes, RetryableCause
  <2> HIDE DEF lost
  <2>2. lost \in Device
    BY <1>7, <2>1
  <2>3. Scheduled(lost, DropRetry(lost)) /\ ~RetryableCause(lost.downReason)
    BY <2>1, <2>2, DropRetrySchedules DEF RetryableCause
  <2>4. y = DropRetry(lost)
    BY <1>1, <1>9
  <2> QED
    BY <1>8, <2>1, <2>3, <2>4 DEF y
<1>10. CASE ~Lost(x)
  <2>1. Blames(dead, told)
    BY <1>5, MarkDownBlames DEF Causes
  <2> HIDE DEF told
  <2>2. told \in Device
    BY <1>7, <2>1
  <2>3. Scheduled(told, down) /\ (~IsCardIndex(x.entry) /\ RetryableCause(told.downReason) => down.retried)
    BY <2>2, ScheduleRetrySchedules
  <2> HIDE DEF down
  <2>4. /\ down \in Device /\ Told(down) /\ Down(down) /\ down.entry = x.entry /\ down.stale = x.stale /\ down.st = "failed"
        /\ down.faulted = x.faulted /\ down.faultOf = x.faultOf
    BY <1>8, <2>1, <2>3
  <2>5. Climbs(down, short)
    BY <2>4, ClimbsNowhere, GeometryShortfallClimbs
  <2> HIDE DEF short
  <2>6. short \in Device /\ Told(short) /\ short = [down EXCEPT !.geometry = short.geometry, !.periodCond = short.periodCond]
    BY <2>5 DEF Climbs
  <2>7. /\ short.st = down.st /\ short.pump = down.pump /\ short.mounted = down.mounted /\ short.faulted = down.faulted
        /\ short.faultOf = down.faultOf /\ short.entry = down.entry /\ short.stale = down.stale
        /\ short.downReason = down.downReason /\ short.retried = down.retried /\ short.retry = down.retry
    BY <2>4, <2>6 DEF Device
  <2>8. Down(short)
    BY <2>4, <2>7 DEF Down, IsDown
  <2>9. CASE x.pump = "encode" /\ short.retried
    <3> DEFINE z == [short EXCEPT !.faulted = short.faulted \cup {x.path}, !.faultOf = x.entry]
    <3>1. y = z
      BY <1>1, <1>10, <2>9
    <3>2. x.path \in Streams
      BY <2>9 DEF Up, Device
    <3>3. short.faulted \cup {x.path} \in SUBSET Streams
      BY <2>6, <3>2 DEF Device
    <3>4. z \in Device
      <4> HIDE DEF z
      <4>1. z = [short EXCEPT !.faulted = short.faulted \cup {x.path}, !.faultOf = x.entry]
        BY DEF z
      <4> DEFINE fs == short.faulted \cup {x.path}
      <4> HIDE DEF fs
      <4>2. z = [short EXCEPT !.faulted = fs, !.faultOf = x.entry] /\ fs \in SUBSET Streams
        BY <3>3, <4>1 DEF fs
      <4> QED
        BY <2>6, <4>2 DEF Device
    <3>5. /\ z.st = short.st /\ z.pump = short.pump /\ z.mounted = short.mounted /\ z.faultOf = x.entry
          /\ z.entry = short.entry /\ z.stale = short.stale /\ z.downReason = short.downReason /\ z.downCond = short.downCond
          /\ z.geometry = short.geometry /\ z.periodCond = short.periodCond
          /\ z.retried = short.retried /\ z.retry = short.retry
      BY <2>6 DEF Device
    <3> HIDE DEF z
    <3>6. Told(z)
      BY <2>6, <3>5 DEF Told
    <3>7. Down(z)
      BY <2>8, <3>5 DEF Down, IsDown
    <3> QED
      BY <2>4, <2>7, <3>1, <3>4, <3>5, <3>6, <3>7 DEF y
  <2>10. CASE ~(x.pump = "encode" /\ short.retried)
    <3>1. y = short
      BY <1>1, <1>10, <2>10
    <3> QED
      BY <2>4, <2>6, <2>7, <2>8, <3>1 DEF y
  <2> QED
    BY <2>9, <2>10
<1> QED
  BY <1>9, <1>10

----------------------------------------------------------------------------
(* A device that onRetryDue looks at *)

WithRetry(x, r) == [x EXCEPT !.retry = r]

\* Two records that differ in their retry state, and perhaps in what it has proved.
SameRun(x, y) ==
    /\ y.st = x.st /\ y.entry = x.entry /\ y.step = x.step /\ y.encoded = x.encoded /\ y.await = x.await
    /\ y.pump = x.pump /\ y.path = x.path /\ y.stale = x.stale /\ y.mounted = x.mounted
    /\ y.periodCond = x.periodCond /\ y.retried = x.retried

\* A change to the retry state alone leaves the run of a device as it was.
LEMMA RetryReplaced ==
    ASSUME NEW x \in Device, Told(x), NEW r \in RetryState
    PROVE  LET y == WithRetry(x, r) IN
           /\ y \in Device /\ Told(y) /\ SameRun(x, y) /\ y.retry = r
           /\ y.downReason = x.downReason /\ y.faulted = x.faulted /\ y.faultOf = x.faultOf
<1> DEFINE y == [x EXCEPT !.retry = r]
<1>1. y \in Device
  BY DEF Device
<1>2. /\ y.st = x.st /\ y.entry = x.entry /\ y.step = x.step /\ y.encoded = x.encoded /\ y.await = x.await
      /\ y.pump = x.pump /\ y.path = x.path /\ y.stale = x.stale /\ y.mounted = x.mounted
      /\ y.periodCond = x.periodCond /\ y.retried = x.retried /\ y.retry = r /\ y.geometry = x.geometry
      /\ y.downReason = x.downReason /\ y.downCond = x.downCond /\ y.faulted = x.faulted /\ y.faultOf = x.faultOf
  BY DEF Device
<1> HIDE DEF y
<1>3. Told(y)
  BY <1>2 DEF Told
<1>4. WithRetry(x, r) = y
  BY DEF WithRetry, y
<1> QED
  BY <1>1, <1>2, <1>3, <1>4 DEF SameRun

\* What a look at a device may do: no encode that has happened is left unseen;
\* a device that clients may play was one, or is reported; the condition of a
\* fault ends when every faulted stream has encoded.
Looked(x, y, e) ==
    /\ y \in Device /\ Told(y) /\ (Up(y) \/ Down(y)) /\ Of(y, e) /\ y.stale = x.stale
    /\ Prompted(y, FALSE)
    /\ y.st = "serving" /\ (~Retrying(y) \/ y.faulted # {}) =>
          \/ x.st = "serving" /\ (~Retrying(x) \/ x.faulted # {})
          \/ Retrying(x) /\ y.retried /\ y.retry.recovered # None
          \/ IsDown(x) /\ x.retried /\ x.retry.next = 0 /\ y.faulted # {}
    /\ x.faulted # {} /\ x.downReason # None /\ y.downReason = None => x.st = "serving" /\ EncodedAll(x)

\* A new retry state of a device that serves.
LEMMA LookedAtUp ==
    ASSUME NEW x \in Device, Told(x), Up(x), NEW e, Of(x, e), NEW r \in RetryState,
           r.next = None, x.retried => r.recovered = x.retry.recovered,
           x.retried => r.settle # None \/ (r.awaitEncode /\ x.await /\ ~EncodedAll(x)),
           x.faulted # {} /\ r.encodeSeen => EncodedAll(x)
    PROVE  Looked(x, WithRetry(x, r), e)
<1> DEFINE y == WithRetry(x, r)
<1>1. /\ y \in Device /\ Told(y) /\ SameRun(x, y) /\ y.retry = r
      /\ y.downReason = x.downReason /\ y.faulted = x.faulted /\ y.faultOf = x.faultOf
  BY RetryReplaced
<1> HIDE DEF y
<1>2. Retrying(y) = Retrying(x) /\ EncodedAll(y) = EncodedAll(x)
  BY <1>1 DEF SameRun, Retrying, EncodedAll
<1>3. Retrying(x) => x.retried
  BY DEF Retrying
<1>4. Up(y)
  BY <1>1, <1>2, <1>3 DEF Up, SameRun
<1>5. Of(y, e)
  BY <1>1 DEF Of, SameRun
<1>6. Prompted(y, FALSE)
  BY <1>1, <1>2, <1>3 DEF Prompted
<1> QED
  BY <1>1, <1>2, <1>4, <1>5, <1>6 DEF Looked, SameRun, y

\* A device left as it is.
LEMMA LookedAway ==
    ASSUME NEW x \in Device, Told(x), Up(x) \/ Down(x), NEW e, Of(x, e), Prompted(x, FALSE)
    PROVE  Looked(x, x, e)
BY DEF Looked

\* The end of a settle is a recovery, or the wait for an encode that has not
\* happened.
LEMMA SettledLooks ==
    ASSUME NEW x \in Device, Told(x), Up(x), NEW e, Of(x, e), x.retried, ~x.retry.awaitEncode
    PROVE  Looked(x, Settled(x), e)
<1> DEFINE y == [x EXCEPT !.retry.settle = None]
           r == x.retry
<1>1. r \in RetryState
  BY DEF Device
<1>2. x.st = "serving" /\ r.next = None
  BY DEF Up
<1>3. RetrySettle \in Nat /\ RetrySettle # None
  BY DeviceBounds, NoneIsNoCause
<1>4. CASE x.faulted # {} /\ ~x.retry.encodeSeen /\ EncodedAll(x)
  <2> DEFINE s == [r EXCEPT !.settle = RetrySettle, !.awaitEncode = FALSE, !.encodeSeen = TRUE]
  <2>1. Settled(x) = SettleFromEncode(y)
    BY <1>2, <1>4 DEF Settled
  <2>2. SettleFromEncode(y) = WithRetry(x, s)
    BY <1>1 DEF SettleFromEncode, WithRetry, Device, RetryState
  <2>3. s \in RetryState /\ s.next = None /\ s.recovered = r.recovered /\ s.settle # None
    BY <1>1, <1>2, <1>3 DEF RetryState, Deadline
  <2> HIDE DEF s
  <2> QED
    BY <1>4, <2>1, <2>2, <2>3, LookedAtUp
<1>5. CASE x.faulted # {} /\ ~x.retry.encodeSeen /\ ~EncodedAll(x)
  <2> DEFINE s == [r EXCEPT !.settle = None, !.awaitEncode = TRUE]
  <2>1. Settled(x) = [y EXCEPT !.retry.awaitEncode = TRUE]
    BY <1>2, <1>5 DEF Settled
  <2>2. [y EXCEPT !.retry.awaitEncode = TRUE] = WithRetry(x, s)
    BY <1>1 DEF WithRetry, Device, RetryState
  <2>3. s \in RetryState /\ s.next = None /\ s.recovered = r.recovered /\ s.awaitEncode = TRUE /\ s.encodeSeen = r.encodeSeen
    BY <1>1, <1>2 DEF RetryState, Deadline
  <2> HIDE DEF s
  <2>4. x.await
    BY <1>5 DEF Up
  <2> QED
    BY <1>5, <2>1, <2>2, <2>3, <2>4, LookedAtUp
<1>6. CASE ~(x.faulted # {} /\ ~x.retry.encodeSeen)
  <2> DEFINE s == [r EXCEPT !.settle = None, !.recovered = 0, !.encodeSeen = FALSE]
             v == WithRetry(x, s)
             c == [v EXCEPT !.faulted = {}]
             w == [c EXCEPT !.faultOf = None]
             z == FinishRecovery(w)
  <2>1. Settled(x) = z
    <3>1. Settled(x) = FinishRecovery([y EXCEPT !.retry.recovered = 0, !.retry.encodeSeen = FALSE, !.faulted = {}, !.faultOf = None])
      BY <1>2, <1>6 DEF Settled
    <3>2. [y EXCEPT !.retry.recovered = 0, !.retry.encodeSeen = FALSE, !.faulted = {}, !.faultOf = None] = w
      BY <1>1 DEF WithRetry, Device, RetryState
    <3> QED
      BY <3>1, <3>2
  <2>2. s \in RetryState /\ s.next = None /\ s.recovered = 0 /\ s.settle = None
    BY <1>1, <1>2 DEF RetryState, Deadline
  <2> HIDE DEF s
  <2>3. v \in Device /\ Told(v) /\ SameRun(x, v) /\ v.retry = s
    BY <2>2, RetryReplaced
  <2> HIDE DEF v
  <2>4. c \in Device
    BY ONLY <2>3 DEF Device
  <2>5. /\ c.st = v.st /\ c.entry = v.entry /\ c.step = v.step /\ c.encoded = v.encoded /\ c.await = v.await
        /\ c.pump = v.pump /\ c.path = v.path /\ c.stale = v.stale /\ c.mounted = v.mounted
        /\ c.periodCond = v.periodCond /\ c.retried = v.retried /\ c.retry = v.retry /\ c.geometry = v.geometry
        /\ c.downReason = v.downReason /\ c.downCond = v.downCond /\ c.faulted = {}
    BY ONLY <2>3 DEF Device
  <2> HIDE DEF c
  <2>6. w \in Device
    BY ONLY <2>4 DEF Device
  <2>7. /\ w.st = c.st /\ w.entry = c.entry /\ w.step = c.step /\ w.encoded = c.encoded /\ w.await = c.await
        /\ w.pump = c.pump /\ w.path = c.path /\ w.stale = c.stale /\ w.mounted = c.mounted
        /\ w.periodCond = c.periodCond /\ w.retried = c.retried /\ w.retry = c.retry /\ w.geometry = c.geometry
        /\ w.downReason = c.downReason /\ w.downCond = c.downCond /\ w.faulted = c.faulted
    BY ONLY <2>4 DEF Device
  <2> HIDE DEF w
  <2>8. Told(w)
    BY <2>3, <2>5, <2>7 DEF Told
  <2>9. z \in Device /\ Told(z) /\ z.downReason = None /\ z = [w EXCEPT !.downReason = None, !.downCond = None]
    BY <2>6, <2>8, FinishRecoveryClears
  <2> HIDE DEF z
  <2>10. /\ z.st = w.st /\ z.entry = w.entry /\ z.step = w.step /\ z.encoded = w.encoded /\ z.await = w.await
         /\ z.pump = w.pump /\ z.path = w.path /\ z.stale = w.stale /\ z.mounted = w.mounted
         /\ z.periodCond = w.periodCond /\ z.retried = w.retried /\ z.retry = w.retry /\ z.faulted = w.faulted
    BY ONLY <2>6, <2>9 DEF Device
  <2>11. SameRun(x, z) /\ z.retry = s /\ z.faulted = {} /\ z.retried /\ z.retry.recovered = 0 /\ 0 # None
    BY <2>2, <2>3, <2>5, <2>7, <2>10, NoneIsNoCause DEF SameRun
  <2>12. ~Retrying(z)
    BY <2>11 DEF Retrying
  <2>13. Up(z)
    BY <2>2, <2>9, <2>11, <2>12 DEF Up, SameRun, Retrying
  <2>14. Of(z, e)
    BY <2>11 DEF Of, SameRun
  <2>15. Prompted(z, FALSE)
    BY <2>12 DEF Prompted
  <2>16. x.faulted # {} => EncodedAll(x)
    BY <1>6 DEF Up
  <2> QED
    BY <1>2, <2>1, <2>9, <2>11, <2>12, <2>13, <2>14, <2>15, <2>16 DEF Looked, SameRun
<1> QED
  BY <1>4, <1>5, <1>6

\* onRetryDue keeps what is kept of each device it looks at.
LEMMA RetryPassLooks ==
    ASSUME NEW D \in [Names -> Device], NEW n \in Names, Kept(D[n], cfg, n), Enabled(cfg, n), Resolvable(cfg[n]),
           NEW o, D[n].retried /\ D[n].retry.next = 0 /\ IsDown(D[n]) /\ ~ResolveRefused(cfg[n]) => Likely(o, Asked(D[n], cfg[n]))
    PROVE  Looked(D[n], RetryPass(D, n, o), cfg[n])
<1> DEFINE x == D[n]
           e == cfg[n]
           y == RetryPass(D, n, o)
<1>1. x \in Device /\ Told(x) /\ (Up(x) \/ Down(x)) /\ Of(x, e)
  BY DEF Kept
<1>2. x.retry \in RetryState
  BY <1>1 DEF Device
<1>3. Down(x) => IsDown(x) /\ x.st # "serving" /\ AtRest(x.retry)
  BY DEF Down, IsDown
<1>4. Up(x) => x.st = "serving" /\ ~IsDown(x) /\ x.retry.next = None
  BY DEF Up, IsDown
<1>5. 0 # None
  BY NoneIsNoCause
<1>6. CASE ~x.retried
  <2>1. y = x
    BY <1>6 DEF RetryPass
  <2>2. Prompted(x, FALSE)
    BY <1>6 DEF Prompted, Retrying
  <2> QED
    BY <1>1, <2>1, <2>2, LookedAway
<1>7. CASE x.retried /\ x.retry.awaitEncode
  <2>1. Up(x) /\ x.st = "serving"
    BY <1>1, <1>3, <1>4, <1>7 DEF AtRest
  <2>2. CASE EncodedAll(x)
    <3> DEFINE s == [x.retry EXCEPT !.awaitEncode = FALSE, !.encodeSeen = TRUE, !.settle = RetrySettle]
    <3>1. y = SettleFromEncode(x)
      BY <1>7, <2>1, <2>2 DEF RetryPass
    <3>2. SettleFromEncode(x) = WithRetry(x, s)
      BY <1>1, <1>2 DEF SettleFromEncode, WithRetry, Device, RetryState
    <3>3. RetrySettle \in Nat /\ RetrySettle # None
      BY DeviceBounds, NoneIsNoCause
    <3>4. s \in RetryState /\ s.next = x.retry.next /\ s.recovered = x.retry.recovered /\ s.settle # None
      BY <1>2, <3>3 DEF RetryState, Deadline
    <3> HIDE DEF s
    <3> QED
      BY <1>1, <1>4, <2>1, <2>2, <3>1, <3>2, <3>4, LookedAtUp
  <2>3. CASE ~EncodedAll(x)
    <3>1. y = x
      BY <1>7, <2>1, <2>3 DEF RetryPass
    <3>2. Prompted(x, FALSE)
      BY <2>3 DEF Prompted
    <3> QED
      BY <1>1, <3>1, <3>2, LookedAway
  <2> QED
    BY <2>2, <2>3
<1>8. CASE x.retried /\ ~x.retry.awaitEncode /\ x.retry.settle = 0
  <2>1. Up(x)
    BY <1>1, <1>3, <1>5, <1>8 DEF AtRest
  <2>2. y = Settled(x)
    BY <1>8 DEF RetryPass
  <2> QED
    BY <1>1, <1>8, <2>1, <2>2, SettledLooks
<1>9. CASE x.retried /\ ~x.retry.awaitEncode /\ x.retry.settle # 0 /\ x.retry.next = 0
  <2> DEFINE s == [x.retry EXCEPT !.next = None]
             c == WithRetry(x, s)
             E == [D EXCEPT ![n].retry.next = None]
  <2>1. Down(x) /\ IsDown(x)
    BY <1>1, <1>3, <1>4, <1>5, <1>9
  <2>2. y = AttemptRetry(E, n, e, o)
    BY <1>9, <2>1 DEF RetryPass
  <2>3. E[n] = c
    BY <1>1, <1>2 DEF WithRetry, Device, RetryState
  <2>4. s \in RetryState /\ s.next = None /\ s.recovered = x.retry.recovered /\ s.encodeSeen = x.retry.encodeSeen
    BY <1>2 DEF RetryState, Deadline
  <2> HIDE DEF s, E
  <2>5. /\ c \in Device /\ Told(c) /\ SameRun(x, c) /\ c.retry = s
        /\ c.downReason = x.downReason /\ c.faulted = x.faulted /\ c.faultOf = x.faultOf
    BY <1>1, <2>4, RetryReplaced
  <2>6. c.geometry = x.geometry
    BY <1>1 DEF WithRetry, Device
  <2> HIDE DEF c
  <2>7. ~x.mounted /\ x.downReason # None
    BY <2>1 DEF Down
  <2>8. AsKept(E, n)
    BY <2>3, <2>5, <2>7 DEF AsKept, SameRun
  <2>9. Retriable(c)
    BY <1>3, <1>9, <2>1, <2>4, <2>5, <2>7 DEF Retriable, SameRun, AtRest
  <2>10. Asked(c, e) = Asked(x, e)
    BY <1>1, <2>5, <2>6 DEF Asked, GeometryStep, DropGeometry, ClearGeometry, Device, SameRun
  <2>11. Restarted(c, e, y) /\ y.faulted = c.faulted /\ y.faultOf = c.faultOf /\ (y.st = "serving" => Retrying(y))
    <3> HIDE DEF y
    <3> QED
      BY <1>9, <2>1, <2>2, <2>3, <2>8, <2>9, <2>10, AttemptRetryRestarts
  <2> HIDE DEF y
  <2>12. e # None
    BY DEF Enabled
  <2>13. Of(y, e)
    BY <1>1, <2>5, <2>11, <2>12 DEF Of, Restarted, CaptureParamsEqual
  <2>14. Prompted(y, FALSE)
    BY <2>11 DEF Prompted, Restarted
  <2>15. y.faulted # {} => y.downReason # None
    BY <2>11 DEF Restarted, Up, Down
  <2> QED
    BY <1>9, <2>1, <2>5, <2>11, <2>13, <2>14, <2>15 DEF Looked, Restarted, SameRun, y
<1>10. CASE x.retried /\ ~x.retry.awaitEncode /\ x.retry.settle # 0 /\ x.retry.next # 0
  <2>1. y = x
    BY <1>10 DEF RetryPass
  <2>2. Prompted(x, FALSE)
    BY <1>1, <1>3, <1>10 DEF Prompted, Up
  <2> QED
    BY <1>1, <2>1, <2>2, LookedAway
<1> QED
  BY <1>6, <1>7, <1>8, <1>9, <1>10

----------------------------------------------------------------------------
(* The passes of the run loop's handlers *)

\* An open that is planned for a record: of an entry that can be resolved, with
\* an outcome the ladder may come to.
Openable(x, e, o) ==
    /\ x \in Device /\ Told(x) /\ ~x.mounted /\ Resolvable(e)
    /\ ~ResolveRefused(e) => Likely(o, Asked(x, e))

\* The outcome a pass gives each of its opens is one the ladder may come to.
LEMMA OutcomesLikely ==
    ASSUME NEW D \in [Names -> Device], NEW c, NEW opened, NEW o \in PassOutcomes(D, c, opened),
           NEW n \in Names, n \in opened, Told(D[n]), ~ResolveRefused(c[n])
    PROVE  Likely(o[n], Asked(D[n], c[n]))
<1> DEFINE attempted == Attempted(c, opened)
           may == [m \in attempted |-> Outcomes[Asked(D[m], c[m])]]
           chosen == {q \in [attempted -> AnyOutcome] : \A m \in attempted : q[m] \in may[m]}
<1>1. PICK p \in chosen : o = [m \in Names |-> IF m \in attempted THEN p[m] ELSE Fine(0)]
  BY DEF PassOutcomes
<1>2. n \in attempted
  BY DEF Attempted
<1>3. o[n] = p[n] /\ p[n] \in Outcomes[Asked(D[n], c[n])]
  <2> HIDE DEF attempted
  <2> QED
    BY <1>1, <1>2
<1>4. Asked(D[n], c[n]) \in 0 .. Top
  <2>1. Climbs(D[n], GeometryStep(D[n], c[n]))
    BY GeometryStepClimbs
  <2>2. GeometryStep(D[n], c[n]) \in Device
    BY <2>1 DEF Climbs
  <2> QED
    BY <2>2 DEF Asked, Device, GeometryState
<1> QED
  BY <1>3, <1>4, OutcomeIsLikely

\* The restarts of a save: each device is started anew, and the others stay.
LEMMA RestartPass ==
    ASSUME NEW D \in [Names -> Device], NEW c, NEW opened, NEW o, \A n \in Names : n \in opened => Openable(D[n], c[n], o[n])
    PROVE  LET E == Passed([of |-> "restart", cfg |-> c, opened |-> opened, o |-> o], D) IN
           /\ E \in [Names -> Device]
           /\ \A n \in Names : IF n \in opened THEN Restarted(D[n], c[n], E[n]) /\ E[n].faulted = {} ELSE E[n] = D[n]
<1> DEFINE pass == [of |-> "restart", cfg |-> c, opened |-> opened, o |-> o]
           Right(n, y) == IF n \in opened THEN Restarted(D[n], c[n], y) /\ y.faulted = {} ELSE y = D[n]
<1>1. ASSUME NEW E \in [Names -> Device], NEW n \in Names, E[n] = D[n]
      PROVE  Turn(pass, E, n) \in Device /\ Right(n, Turn(pass, E, n))
  <2>1. CASE n \in opened
    <3>1. Turn(pass, E, n) = StartDevice(E, n, c[n], o[n])
      BY <2>1 DEF Turn, StartPlanned
    <3>2. AsKept(E, n) /\ Resolvable(c[n]) /\ (~ResolveRefused(c[n]) => Likely(o[n], Asked(E[n], c[n])))
      BY <1>1, <2>1 DEF Openable, AsKept
    <3>3. Restarted(E[n], c[n], Turn(pass, E, n)) /\ Turn(pass, E, n).faulted = {}
      BY <3>1, <3>2, StartDeviceRestarts
    <3> HIDE DEF pass
    <3> QED
      BY <1>1, <2>1, <3>3 DEF Restarted
  <2>2. CASE n \notin opened
    BY <1>1, <2>2 DEF Turn
  <2> QED
    BY <2>1, <2>2
<1> HIDE DEF pass
<1>2. /\ Passed(pass, D) \in [Names -> Device]
      /\ \A n \in Names : \E E \in [Names -> Device] : E[n] = D[n] /\ Passed(pass, D)[n] = Turn(pass, E, n)
  <2>1. \A E \in [Names -> Device], n \in Names : E[n] = D[n] => Turn(pass, E, n) \in Device
    BY <1>1
  <2> HIDE DEF Right
  <2> QED
    BY ONLY <2>1, D \in [Names -> Device], TurnOfEach
<1>3. ASSUME NEW n \in Names PROVE Right(n, Passed(pass, D)[n])
  <2>1. PICK E \in [Names -> Device] : E[n] = D[n] /\ Passed(pass, D)[n] = Turn(pass, E, n)
    BY <1>2
  <2>2. Right(n, Turn(pass, E, n))
    BY <1>1, <2>1
  <2> QED
    BY <2>1, <2>2
<1> QED
  BY <1>2, <1>3 DEF pass

\* What a start makes of a record: a retry that a fault waits for, or a start anew.
StartedFrom(x, e, y) ==
    /\ Restarted(x, e, y)
    /\ IF x.faulted # {} /\ CaptureParamsEqual(x.faultOf, e) THEN y.faulted = x.faulted /\ y.faultOf = x.faultOf
       ELSE y.faulted = {}

\* The starts of a save: a device whose fault the save cannot have fixed keeps
\* it.
LEMMA StartPass ==
    ASSUME NEW D \in [Names -> Device], NEW c, NEW opened, NEW o,
           \A n \in Names : n \in opened => Openable(D[n], c[n], o[n]) /\ (D[n].faulted # {} => AtRest(D[n].retry))
    PROVE  LET E == Passed([of |-> "start", cfg |-> c, opened |-> opened, o |-> o], D) IN
           /\ E \in [Names -> Device]
           /\ \A n \in Names : IF n \in opened THEN StartedFrom(D[n], c[n], E[n]) ELSE E[n] = D[n]
<1> DEFINE pass == [of |-> "start", cfg |-> c, opened |-> opened, o |-> o]
           Right(n, y) == IF n \in opened THEN StartedFrom(D[n], c[n], y) ELSE y = D[n]
<1>1. ASSUME NEW E \in [Names -> Device], NEW n \in Names, E[n] = D[n]
      PROVE  Turn(pass, E, n) \in Device /\ Right(n, Turn(pass, E, n))
  <2>1. CASE n \in opened
    <3> DEFINE y == Turn(pass, E, n)
    <3>1. y = StartPlanned(E, n, c[n], o[n], FALSE)
      BY <2>1 DEF Turn
    <3>2. AsKept(E, n) /\ Resolvable(c[n]) /\ (~ResolveRefused(c[n]) => Likely(o[n], Asked(E[n], c[n])))
      BY <1>1, <2>1 DEF Openable, AsKept
    <3> HIDE DEF y
    <3>3. CASE E[n].faulted # {} /\ CaptureParamsEqual(E[n].faultOf, c[n])
      <4>1. y = RestartFaulted(E, n, c[n], o[n], TRUE)
        BY <3>1, <3>3 DEF StartPlanned
      <4>2. AtRest(E[n].retry)
        BY <1>1, <2>1, <3>3
      <4>3. Restarted(E[n], c[n], y) /\ y.faulted = E[n].faulted /\ y.faultOf = E[n].faultOf
        BY ZenonT(60), <3>2, <3>3, <4>1, <4>2, RestartFaultedRestarts
      <4> QED
        BY <1>1, <2>1, <3>3, <4>3 DEF Restarted, StartedFrom, y
    <3>4. CASE ~(E[n].faulted # {} /\ CaptureParamsEqual(E[n].faultOf, c[n]))
      <4>1. y = StartDevice(E, n, c[n], o[n])
        BY <3>1, <3>4 DEF StartPlanned
      <4>2. Restarted(E[n], c[n], y) /\ y.faulted = {}
        BY <3>2, <4>1, StartDeviceRestarts
      <4> QED
        BY <1>1, <2>1, <3>4, <4>2 DEF Restarted, StartedFrom, y
    <3> QED
      BY <3>3, <3>4
  <2>2. CASE n \notin opened
    BY <1>1, <2>2 DEF Turn
  <2> QED
    BY <2>1, <2>2
<1> HIDE DEF pass
<1>2. /\ Passed(pass, D) \in [Names -> Device]
      /\ \A n \in Names : \E E \in [Names -> Device] : E[n] = D[n] /\ Passed(pass, D)[n] = Turn(pass, E, n)
  <2>1. \A E \in [Names -> Device], n \in Names : E[n] = D[n] => Turn(pass, E, n) \in Device
    BY <1>1
  <2> HIDE DEF Right
  <2> QED
    BY ONLY <2>1, D \in [Names -> Device], TurnOfEach
<1>3. ASSUME NEW n \in Names PROVE Right(n, Passed(pass, D)[n])
  <2>1. PICK E \in [Names -> Device] : E[n] = D[n] /\ Passed(pass, D)[n] = Turn(pass, E, n)
    BY <1>2
  <2>2. Right(n, Turn(pass, E, n))
    BY <1>1, <2>1
  <2> QED
    BY <2>1, <2>2
<1> QED
  BY <1>2, <1>3 DEF pass

\* What retryDown makes of one: the fault is kept, if there is one.
LEMMA RetryDownPass ==
    ASSUME NEW D \in [Names -> Device], NEW c, NEW opened, NEW o,
           \A n \in Names : n \in opened => Openable(D[n], c[n], o[n]) /\ (D[n].faulted # {} => AtRest(D[n].retry))
    PROVE  LET E == Passed([of |-> "retryDown", cfg |-> c, opened |-> opened, o |-> o], D) IN
           /\ E \in [Names -> Device]
           /\ \A n \in Names :
                 IF n \in opened
                 THEN /\ Restarted(D[n], c[n], E[n])
                      /\ D[n].faulted # {} => E[n].faulted = D[n].faulted /\ E[n].faultOf = D[n].faultOf
                 ELSE E[n] = D[n]
<1> DEFINE pass == [of |-> "retryDown", cfg |-> c, opened |-> opened, o |-> o]
           Right(n, y) ==
               IF n \in opened
               THEN /\ Restarted(D[n], c[n], y)
                    /\ D[n].faulted # {} => y.faulted = D[n].faulted /\ y.faultOf = D[n].faultOf
               ELSE y = D[n]
<1>1. ASSUME NEW E \in [Names -> Device], NEW n \in Names, E[n] = D[n]
      PROVE  Turn(pass, E, n) \in Device /\ Right(n, Turn(pass, E, n))
  <2>1. CASE n \in opened
    <3> DEFINE y == Turn(pass, E, n)
    <3>1. y = RestartDown(E, n, c[n], o[n])
      BY <2>1 DEF Turn
    <3>2. AsKept(E, n) /\ Resolvable(c[n]) /\ (~ResolveRefused(c[n]) => Likely(o[n], Asked(E[n], c[n])))
      BY <1>1, <2>1 DEF Openable, AsKept
    <3> HIDE DEF y
    <3>3. CASE E[n].faulted # {}
      <4>1. y = RestartFaulted(E, n, c[n], o[n], FALSE)
        BY <3>1, <3>3 DEF RestartDown
      <4>2. AtRest(E[n].retry)
        BY <1>1, <2>1, <3>3
      <4>3. Restarted(E[n], c[n], y) /\ y.faulted = E[n].faulted /\ y.faultOf = E[n].faultOf
        BY ZenonT(60), <3>2, <3>3, <4>1, <4>2, RestartFaultedRestarts
      <4> QED
        BY <1>1, <2>1, <3>3, <4>3 DEF Restarted, y
    <3>4. CASE E[n].faulted = {}
      <4>1. y = StartDevice(E, n, c[n], o[n])
        BY <3>1, <3>4 DEF RestartDown
      <4>2. Restarted(E[n], c[n], y)
        BY <3>2, <4>1, StartDeviceRestarts
      <4> QED
        BY <1>1, <2>1, <3>4, <4>2 DEF Restarted, y
    <3> QED
      BY <3>3, <3>4
  <2>2. CASE n \notin opened
    BY <1>1, <2>2 DEF Turn
  <2> QED
    BY <2>1, <2>2
<1> HIDE DEF pass
<1>2. /\ Passed(pass, D) \in [Names -> Device]
      /\ \A n \in Names : \E E \in [Names -> Device] : E[n] = D[n] /\ Passed(pass, D)[n] = Turn(pass, E, n)
  <2>1. \A E \in [Names -> Device], n \in Names : E[n] = D[n] => Turn(pass, E, n) \in Device
    BY <1>1
  <2> HIDE DEF Right
  <2> QED
    BY ONLY <2>1, D \in [Names -> Device], TurnOfEach
<1>3. ASSUME NEW n \in Names PROVE Right(n, Passed(pass, D)[n])
  <2>1. PICK E \in [Names -> Device] : E[n] = D[n] /\ Passed(pass, D)[n] = Turn(pass, E, n)
    BY <1>2
  <2>2. Right(n, Turn(pass, E, n))
    BY <1>1, <2>1
  <2> QED
    BY <2>1, <2>2
<1> QED
  BY <1>2, <1>3 DEF pass

\* The pass of onRetryDue looks at every configured device.
LEMMA RetryDuePass ==
    ASSUME NEW D \in [Names -> Device], \A n \in Names : Kept(D[n], cfg, n) /\ (Enabled(cfg, n) => Resolvable(cfg[n])),
           NEW opened, NEW o,
           \A n \in Names : Enabled(cfg, n) /\ D[n].retried /\ D[n].retry.next = 0 /\ IsDown(D[n]) /\ ~ResolveRefused(cfg[n])
                            => Likely(o[n], Asked(D[n], cfg[n]))
    PROVE  LET E == Passed([of |-> "retryDue", cfg |-> cfg, opened |-> opened, o |-> o], D) IN
           /\ E \in [Names -> Device]
           /\ \A n \in Names : IF Enabled(cfg, n) THEN Looked(D[n], E[n], cfg[n]) ELSE E[n] = D[n]
<1> DEFINE pass == [of |-> "retryDue", cfg |-> cfg, opened |-> opened, o |-> o]
           Right(n, y) == IF Enabled(cfg, n) THEN Looked(D[n], y, cfg[n]) ELSE y = D[n]
<1>1. ASSUME NEW E \in [Names -> Device], NEW n \in Names, E[n] = D[n]
      PROVE  Turn(pass, E, n) \in Device /\ Right(n, Turn(pass, E, n))
  <2> DEFINE y == Turn(pass, E, n)
  <2>1. y = RetryPass(E, n, o[n])
    BY DEF Turn
  <2> HIDE DEF y
  <2>2. CASE Enabled(cfg, n)
    <3>1. Looked(E[n], y, cfg[n])
      BY <1>1, <2>1, <2>2, RetryPassLooks
    <3> QED
      BY <1>1, <2>2, <3>1 DEF Looked, y
  <2>3. CASE ~Enabled(cfg, n)
    BY <1>1, <2>1, <2>3 DEF RetryPass, y
  <2> QED
    BY <2>2, <2>3
<1> HIDE DEF pass
<1>2. /\ Passed(pass, D) \in [Names -> Device]
      /\ \A n \in Names : \E E \in [Names -> Device] : E[n] = D[n] /\ Passed(pass, D)[n] = Turn(pass, E, n)
  <2>1. \A E \in [Names -> Device], n \in Names : E[n] = D[n] => Turn(pass, E, n) \in Device
    BY <1>1
  <2> HIDE DEF Right
  <2> QED
    BY ONLY <2>1, D \in [Names -> Device], TurnOfEach
<1>3. ASSUME NEW n \in Names PROVE Right(n, Passed(pass, D)[n])
  <2>1. PICK E \in [Names -> Device] : E[n] = D[n] /\ Passed(pass, D)[n] = Turn(pass, E, n)
    BY <1>2
  <2>2. Right(n, Turn(pass, E, n))
    BY <1>1, <2>1
  <2> QED
    BY <2>1, <2>2
<1> QED
  BY <1>2, <1>3 DEF pass

----------------------------------------------------------------------------
(* The timer and the count of pumps *)

\* armRetryTimer leaves a timer no later than any deadline, or a signal pending.
LEMMA ArmRetryTimerArms ==
    ASSUME dev' \in [Names -> Device], retryAt \in Deadline, timer \in Deadline, NEW at \in Deadline,
           due' \/ at = None \/ timer = at, ArmRetryTimer(at)
    PROVE  /\ retryAt' \in Deadline /\ timer' \in Deadline
           /\ due' \/ retryAt' = None \/ timer' = retryAt'
           /\ \A n \in Names : Waits(dev'[n].retry, retryAt')
<1> DEFINE ts == ({dev'[n].retry.next : n \in Names} \cup {dev'[n].retry.settle : n \in Names}) \ {None}
           t == EarliestDeadline(dev')
<1>1. \A n \in Names : dev'[n].retry.next \in Deadline /\ dev'[n].retry.settle \in Deadline
  BY DEF Device, RetryState
<1>2. ts \subseteq Nat
  BY <1>1 DEF Deadline
<1>3. t = IF ts = {} THEN None ELSE Min(ts)
  BY DEF EarliestDeadline
<1>4. \A n \in Names : \A d \in {dev'[n].retry.next, dev'[n].retry.settle} \ {None} : d \in ts
  OBVIOUS
<1> HIDE DEF ts, t
<1>5. t \in Deadline /\ \A d \in ts : t # None /\ t <= d
  BY <1>2, <1>3, MinIsLeast, NoneIsNoCause DEF Deadline
<1>6. retryAt' = t /\ timer' = IF t = at THEN timer ELSE t
  BY DEF ArmRetryTimer, t
<1>7. \A n \in Names : Waits(dev'[n].retry, retryAt')
  BY <1>4, <1>5, <1>6 DEF Waits
<1> QED
  BY <1>5, <1>6, <1>7

\* The pumps are those of the current runtimes and those that were superseded.
LEMMA PumpsAreLiveOrStale ==
    ASSUME NEW D \in [Names -> Device]
    PROVE  /\ PumpsOf(D) = Live(D) + Total([n \in Names |-> D[n].stale])
           /\ Live(D) \in Int /\ Total([n \in Names |-> D[n].stale]) \in Int
<1> DEFINE live == [n \in Names |-> IF D[n].pump # None THEN 1 ELSE 0]
           stale == [n \in Names |-> D[n].stale]
           both == [n \in Names |-> PumpCount(D[n])]
<1>1. \A n \in Names : D[n].stale \in Int
  BY DEF Device
<1>2. live \in [Names -> Int] /\ stale \in [Names -> Int] /\ both \in [Names -> Int]
  BY <1>1 DEF PumpCount
<1>3. \A n \in Names : both[n] = live[n] + stale[n]
  BY DEF PumpCount
<1>4. Live(D) = Total(live) /\ PumpsOf(D) = Total(both)
  BY DEF Live, PumpsOf
<1> HIDE DEF live, stale, both
<1>5. Total(both) = Total(live) + Total(stale) /\ Total(live) \in Int /\ Total(stale) \in Int
  BY <1>2, <1>3, TotalOfSums
<1> QED
  BY <1>4, <1>5 DEF stale

\* A handler that leaves the pumps of superseded runtimes alone counts the others.
LEMMA HandlerCounts ==
    ASSUME NEW D \in [Names -> Device], NEW E \in [Names -> Device], \A n \in Names : E[n].stale = D[n].stale, NEW k, k = PumpsOf(D)
    PROVE  k + Live(E) - Live(D) = PumpsOf(E) /\ k + Live(E) - Live(D) \in Int
<1>1. [n \in Names |-> E[n].stale] = [n \in Names |-> D[n].stale]
  OBVIOUS
<1>2. PumpsOf(D) = Live(D) + Total([n \in Names |-> D[n].stale]) /\ Live(D) \in Int /\ Total([n \in Names |-> D[n].stale]) \in Int
  BY PumpsAreLiveOrStale
<1>3. PumpsOf(E) = Live(E) + Total([n \in Names |-> D[n].stale]) /\ Live(E) \in Int
  BY <1>1, PumpsAreLiveOrStale
<1> QED
  BY <1>2, <1>3

\* Records with the same counts have the same pumps.
LEMMA SamePumps ==
    ASSUME NEW D, NEW E, \A n \in Names : PumpCount(E[n]) = PumpCount(D[n])
    PROVE  PumpsOf(E) = PumpsOf(D)
<1>1. [n \in Names |-> PumpCount(E[n])] = [n \in Names |-> PumpCount(D[n])]
  OBVIOUS
<1> QED
  BY <1>1 DEF PumpsOf

----------------------------------------------------------------------------
(* What the devices of one step are to those of the step before *)

\* The proof the condition of an encode fault waits for: see ProofBeforeClear.
ProofKept ==
    \A n \in Names :
        (/\ dev[n].faulted # {} /\ dev[n].downCond # None /\ dev'[n].downCond = None
         /\ Enabled(cfg', n) /\ CaptureParamsEqual(dev[n].faultOf, cfg'[n]))
        => dev[n].st = "serving" /\ EncodedAll(dev[n])

\* An enabled entry can be resolved.
LEMMA ConfiguredResolves ==
    ASSUME NEW c, \A n \in Names : c[n] \in Entries[n] \cup {None}, host \in [Ids -> AnyAnswer],
           NEW n \in Names, Enabled(c, n)
    PROVE  Resolvable(c[n])
<1>1. c[n] \in Entries[n]
  BY DEF Enabled
<1>2. c[n].id \in Ids
  BY <1>1, ConfigAssumption
<1> QED
  BY <1>1, <1>2 DEF Resolvable, AnyEntry

\* What is announced anew is what clients may play.
LEMMA AnnouncementAdvertises ==
    ASSUME NEW D, NEW c, NEW on \in BOOLEAN, NEW n \in Names, D[n] \in Device, Kept(D[n], c, n)
    PROVE  /\ Announcement(D, on)[n] \in AnyEntry \cup {None}
           /\ Advertised(D[n], Announcement(D, on)[n], on)
<1>1. Announcement(D, on)[n] = IF on /\ D[n].st = "serving" THEN D[n].entry ELSE None
  BY DEF Announcement
<1>2. D[n].entry \in AnyEntry \cup {None}
  BY DEF Device
<1>3. D[n].st = "serving" => D[n].entry # None
  BY NoneIsNoCause DEF Kept, Off, Of
<1> QED
  BY <1>1, <1>2, <1>3 DEF Advertised, CaptureParamsEqual

\* A change to a device that leaves what is told, retried and proved of it alone.
Touched(x, y) ==
    /\ y \in Device
    /\ y.st = x.st /\ y.entry = x.entry /\ y.step = x.step /\ y.mounted = x.mounted /\ y.await = x.await
    /\ y.downReason = x.downReason /\ y.downCond = x.downCond /\ y.periodCond = x.periodCond /\ y.geometry = x.geometry
    /\ y.retried = x.retried /\ y.retry = x.retry /\ y.faulted = x.faulted /\ y.faultOf = x.faultOf
    /\ x.encoded \subseteq y.encoded
    /\ (y.pump # None) = (x.pump # None)
    /\ (x.pump = "encode" => x.path \in Streams) => (y.pump = "encode" => y.path \in Streams)

\* A change that leaves alone what is told, retried and proved leaves a device
\* kept.
LEMMA TouchedIsKept ==
    ASSUME NEW x, NEW y, Touched(x, y), NEW c, NEW n, Kept(x, c, n)
    PROVE  Kept(y, c, n)
<1>1. Told(y)
  BY DEF Touched, Kept, Told
<1>2. Up(x) => Up(y)
  <2>1. Up(x) => y.st = "serving" /\ y.pump # None /\ y.mounted /\ (y.step = 0 => y.periodCond = 0) /\ y.retry.next = None
    BY DEF Touched, Up
  <2>2. Retrying(y) = Retrying(x)
    BY DEF Touched, Retrying
  <2>3. Up(x) => (y.downReason # None) = Retrying(y) /\ (Retrying(y) => y.retry.settle # None \/ (y.retry.awaitEncode /\ y.await))
    BY <2>2 DEF Touched, Up
  <2>4. EncodedAll(x) => EncodedAll(y)
    BY DEF Touched, EncodedAll
  <2>5. Up(x) => (y.faulted # {} => y.await /\ Retrying(y) /\ (y.retry.encodeSeen => EncodedAll(y)))
    BY <2>2, <2>4 DEF Touched, Up
  <2> QED
    BY <2>1, <2>3, <2>5 DEF Up, Touched
<1>3. Down(x) => Down(y)
  BY DEF Touched, Down, IsDown
<1>4. Off(x) => Off(y)
  BY DEF Touched, Off, Kept, Told
<1>5. Of(x, c[n]) => Of(y, c[n])
  BY DEF Touched, Of
<1> QED
  BY <1>1, <1>2, <1>3, <1>4, <1>5 DEF Kept

\* A step that changes no more of any device keeps the invariant.
LEMMA TouchKeeps ==
    ASSUME IInv, dev' \in [Names -> Device], \A n \in Names : Touched(dev[n], dev'[n]) /\ Prompted(dev'[n], due'),
           UNCHANGED <<cfg, discovery, announced, retryAt, timer>>, due' \in BOOLEAN, due => due',
           host' \in [Ids -> AnyAnswer], alive' = PumpsOf(dev'), alive' \in Int
    PROVE  IInv' /\ ProofKept
<1>1. TypeOK'
  BY DEF IInv, TypeOK
<1>2. DevicesKept'
  BY TouchedIsKept DEF IInv, DevicesKept, Kept, Enabled
<1>3. LoopPrompted'
  BY DEF LoopPrompted
<1>4. DeadlinesWaitedFor' /\ TimerArmed'
  BY DEF IInv, DeadlinesWaitedFor, TimerArmed, Touched
<1>5. DevicesAdvertised'
  BY DEF IInv, DevicesAdvertised, Advertised, Touched, Retrying
<1>6. ProofKept
  BY DEF ProofKept, Touched
<1> QED
  BY <1>1, <1>2, <1>3, <1>4, <1>5, <1>6 DEF IInv

\* The pumps are counted one by one.
LEMMA OnePumpLess ==
    ASSUME dev \in [Names -> Device], dev' \in [Names -> Device], alive \in Int, alive = PumpsOf(dev), NEW n \in Names,
           PumpCount(dev'[n]) = PumpCount(dev[n]) - 1, \A m \in Names \ {n} : dev'[m] = dev[m]
    PROVE  alive - 1 = PumpsOf(dev')
<1> DEFINE f == [m \in Names |-> PumpCount(dev[m])]
           g == [m \in Names |-> PumpCount(dev'[m])]
<1>1. f \in [Names -> Int] /\ g \in [Names -> Int]
  BY DEF PumpCount, Device
<1>2. g[n] = f[n] + (-1) /\ \A m \in Names \ {n} : g[m] = f[m]
  <2>1. PumpCount(dev[n]) \in Int
    BY DEF PumpCount, Device
  <2> QED
    BY <2>1
<1>3. PumpsOf(dev) = Total(f) /\ PumpsOf(dev') = Total(g)
  BY DEF PumpsOf
<1> HIDE DEF f, g
<1>4. Total(g) = Total(f) + (-1)
  BY <1>1, <1>2, TotalOfOne
<1> QED
  BY <1>3, <1>4

----------------------------------------------------------------------------
(* Steps that leave what is kept of the devices alone *)

\* The result of a superseded pump only counts it off.
LEMMA StalePumpDoneKeeps ==
    ASSUME IInv, NEW n \in Names, OnStalePumpDone(n)
    PROVE  IInv' /\ ProofKept
<1> DEFINE x == dev[n]
           y == [x EXCEPT !.stale = @ - 1]
<1>1. TypeOK /\ x \in Device /\ x.stale > 0 /\ alive' = alive - 1 /\ Kept(x, cfg, n)
  BY DEF IInv, TypeOK, DevicesKept, OnStalePumpDone
<1>2. dev' = [dev EXCEPT ![n] = y]
  BY DEF OnStalePumpDone
<1>3. y \in Device /\ y.stale = x.stale - 1 /\ y.pump = x.pump
  BY <1>1 DEF Device
<1>4. Touched(x, y)
  BY <1>1, <1>3 DEF Touched, Device
<1> HIDE DEF y
<1>5. dev' \in [Names -> Device] /\ dev'[n] = y /\ \A m \in Names \ {n} : dev'[m] = dev[m]
  BY <1>1, <1>2, <1>3 DEF TypeOK
<1>6. \A m \in Names : Touched(dev[m], dev'[m])
  BY <1>1, <1>4, <1>5 DEF TypeOK, Touched
<1>7. PumpCount(dev'[n]) = PumpCount(dev[n]) - 1
  BY <1>1, <1>3, <1>5 DEF PumpCount, Device
<1>8. alive' = PumpsOf(dev') /\ alive' \in Int
  BY <1>1, <1>5, <1>7, OnePumpLess DEF IInv, TypeOK
<1>9. UNCHANGED <<cfg, discovery, announced, retryAt, timer, due, host>>
  BY DEF OnStalePumpDone
<1>10. \A m \in Names : Prompted(dev'[m], due')
  <2>1. \A m \in Names : dev'[m].st = dev[m].st /\ dev'[m].retry = dev[m].retry /\ dev'[m].retried = dev[m].retried
                         /\ dev'[m].faulted = dev[m].faulted /\ dev'[m].encoded = dev[m].encoded
    BY <1>1, <1>2, <1>5 DEF Device, y
  <2> QED
    BY <1>9, <2>1 DEF IInv, LoopPrompted, Prompted, Retrying, EncodedAll
<1> QED
  BY <1>1, <1>5, <1>6, <1>8, <1>9, <1>10, TouchKeeps DEF TypeOK

\* No pump is gained or lost where each device keeps its own.
LEMMA CountKept ==
    ASSUME IInv, alive' = alive, \A m \in Names : PumpCount(dev'[m]) = PumpCount(dev[m])
    PROVE  alive' = PumpsOf(dev') /\ alive' \in Int
<1>1. PumpsOf(dev') = PumpsOf(dev)
  BY SamePumps
<1> QED
  BY <1>1 DEF IInv, TypeOK

\* An hour of service changes nothing that is kept.
LEMMA ServesAnHourKeeps ==
    ASSUME IInv, NEW n \in Names, ServesAnHour(n)
    PROVE  IInv' /\ ProofKept
<1> DEFINE x == dev[n]
           y == [x EXCEPT !.hour = TRUE]
<1>1. TypeOK /\ x \in Device /\ alive' = alive /\ Kept(x, cfg, n)
  BY DEF IInv, TypeOK, DevicesKept, ServesAnHour
<1>2. dev' = [dev EXCEPT ![n] = y] /\ UNCHANGED <<cfg, discovery, announced, retryAt, timer, due, host>>
  BY DEF ServesAnHour
<1>3. y \in Device /\ y.stale = x.stale /\ y.pump = x.pump /\ y.encoded = x.encoded
  BY <1>1 DEF Device
<1>4. Touched(x, y)
  BY <1>1, <1>3 DEF Touched, Device
<1> HIDE DEF y
<1>5. dev' \in [Names -> Device] /\ dev'[n] = y /\ \A m \in Names \ {n} : dev'[m] = dev[m]
  BY <1>1, <1>2, <1>3 DEF TypeOK
<1>6. \A m \in Names : Touched(dev[m], dev'[m])
  BY <1>1, <1>4, <1>5 DEF TypeOK, Touched
<1>7. \A m \in Names : PumpCount(dev'[m]) = PumpCount(dev[m])
  BY <1>3, <1>5 DEF PumpCount
<1>8. \A m \in Names : dev'[m].encoded = dev[m].encoded
  BY <1>3, <1>5
<1>9. \A m \in Names : Prompted(dev'[m], due')
  BY <1>2, <1>6, <1>8 DEF Touched, IInv, LoopPrompted, Prompted, Retrying, EncodedAll
<1> QED
  BY <1>1, <1>2, <1>5, <1>6, <1>7, <1>9, CountKept, TouchKeeps DEF TypeOK

\* A pump that ended still counts until its result is read.
LEMMA PumpEndsKeeps ==
    ASSUME IInv, NEW n \in Names, PumpEnds(n)
    PROVE  IInv' /\ ProofKept
<1> DEFINE x == dev[n]
<1>1. TypeOK /\ x \in Device /\ alive' = alive /\ Kept(x, cfg, n) /\ x.pump = "live"
  BY DEF IInv, TypeOK, DevicesKept, PumpEnds
<1>2. UNCHANGED <<cfg, discovery, announced, retryAt, timer, due, host>>
  BY DEF PumpEnds
<1>3. PICK y : /\ dev' = [dev EXCEPT ![n] = y] /\ y \in Device /\ y.stale = x.stale /\ y.encoded = x.encoded
               /\ y.pump # None /\ Touched(x, y)
  <2>1. ASSUME NEW res \in {"failed", "shortfall", "stalled"}, dev' = [dev EXCEPT ![n].pump = res]
        PROVE  \E y : /\ dev' = [dev EXCEPT ![n] = y] /\ y \in Device /\ y.stale = x.stale /\ y.encoded = x.encoded
                      /\ y.pump # None /\ Touched(x, y)
    <3> DEFINE y == [x EXCEPT !.pump = res]
    <3>1. y \in Device /\ y.stale = x.stale /\ y.encoded = x.encoded /\ y.pump = res /\ res # None /\ res # "encode"
      BY <1>1, NoneIsNoCause DEF Device
    <3>2. Touched(x, y)
      BY <1>1, <3>1, NoneIsNoCause DEF Touched, Device
    <3>3. dev' = [dev EXCEPT ![n] = y]
      BY <2>1
    <3> QED
      BY <3>1, <3>2, <3>3
  <2>2. ASSUME NEW s \in Streams, dev' = [dev EXCEPT ![n].pump = "encode", ![n].path = s]
        PROVE  \E y : /\ dev' = [dev EXCEPT ![n] = y] /\ y \in Device /\ y.stale = x.stale /\ y.encoded = x.encoded
                      /\ y.pump # None /\ Touched(x, y)
    <3> DEFINE y == [x EXCEPT !.pump = "encode", !.path = s]
    <3>1. y \in Device /\ y.stale = x.stale /\ y.encoded = x.encoded /\ y.pump = "encode" /\ y.path = s
      BY ZenonT(60), <1>1 DEF Device
    <3>2. Touched(x, y)
      BY <1>1, <3>1, NoneIsNoCause DEF Touched, Device
    <3>3. dev' = [dev EXCEPT ![n] = y]
      BY <2>2, <1>1 DEF TypeOK
    <3> QED
      BY <3>1, <3>2, <3>3, NoneIsNoCause
  <2> QED
    BY <2>1, <2>2 DEF PumpEnds
<1>5. dev' \in [Names -> Device] /\ dev'[n] = y /\ \A m \in Names \ {n} : dev'[m] = dev[m]
  BY <1>1, <1>3 DEF TypeOK
<1>6. \A m \in Names : Touched(dev[m], dev'[m])
  BY <1>1, <1>3, <1>5 DEF TypeOK, Touched
<1>7. \A m \in Names : PumpCount(dev'[m]) = PumpCount(dev[m])
  BY <1>1, <1>3, <1>5, NoneIsNoCause DEF PumpCount
<1>8. \A m \in Names : dev'[m].encoded = dev[m].encoded
  BY <1>3, <1>5
<1>9. \A m \in Names : Prompted(dev'[m], due')
  BY <1>2, <1>6, <1>8 DEF Touched, IInv, LoopPrompted, Prompted, Retrying, EncodedAll
<1> QED
  BY <1>1, <1>2, <1>5, <1>6, <1>7, <1>9, CountKept, TouchKeeps DEF TypeOK

\* A first encode wakes the loop when the device waits for one.
LEMMA NoteEncodedKeeps ==
    ASSUME IInv, NEW n \in Names, NEW s \in Streams, NoteEncoded(n, s)
    PROVE  IInv' /\ ProofKept
<1> DEFINE x == dev[n]
           y == [x EXCEPT !.encoded = @ \cup {s}]
<1>1. TypeOK /\ x \in Device /\ alive' = alive /\ Kept(x, cfg, n) /\ x.pump = "live"
  BY DEF IInv, TypeOK, DevicesKept, NoteEncoded
<1>2. dev' = [dev EXCEPT ![n] = y] /\ UNCHANGED <<cfg, discovery, announced, retryAt, timer, host>>
  BY DEF NoteEncoded
<1>3. due' = (due \/ x.await)
  BY DEF NoteEncoded
<1>4. y \in Device /\ y.stale = x.stale /\ y.pump = x.pump
  BY <1>1 DEF Device
<1>5. Touched(x, y)
  BY <1>1, <1>4 DEF Touched, Device
<1> HIDE DEF y
<1>6. dev' \in [Names -> Device] /\ dev'[n] = y /\ \A m \in Names \ {n} : dev'[m] = dev[m]
  BY <1>1, <1>2, <1>4 DEF TypeOK
<1>7. \A m \in Names : Touched(dev[m], dev'[m])
  BY <1>1, <1>5, <1>6 DEF TypeOK, Touched
<1>8. \A m \in Names : PumpCount(dev'[m]) = PumpCount(dev[m])
  BY <1>4, <1>6 DEF PumpCount
<1>9. due' \in BOOLEAN /\ (due => due')
  BY <1>1, <1>3 DEF TypeOK, Device
<1>10. \A m \in Names : Prompted(dev'[m], due')
  <2>1. Prompted(dev'[n], due')
    <3>1. Up(x)
      BY <1>1, NoneIsNoCause DEF Kept, Down, Off
    <3>2. Up(y)
      BY <1>1, <1>5, <3>1, TouchedIsKept, NoneIsNoCause DEF Kept, Down, Off, Touched
    <3>3. Retrying(y) /\ y.retry.settle = None => y.await
      BY <3>2 DEF Up
    <3> QED
      BY <1>3, <1>5, <1>6, <3>3 DEF Prompted, Touched
  <2>2. \A m \in Names \ {n} : Prompted(dev'[m], due')
    BY <1>6, <1>9 DEF IInv, LoopPrompted, Prompted
  <2> QED
    BY <2>1, <2>2
<1> QED
  BY <1>1, <1>2, <1>6, <1>7, <1>8, <1>9, <1>10, CountKept, TouchKeeps DEF TypeOK

\* A device that moves or goes leaves what the appliance keeps as it is until
\* it is read.
LEMMA HostChangesKeeps ==
    ASSUME IInv, HostChanges
    PROVE  IInv' /\ ProofKept
<1>1. TypeOK /\ alive' = alive /\ UNCHANGED <<cfg, discovery, announced, retryAt, timer, due>>
  BY DEF IInv, HostChanges
<1>2. PICK i \in Ids, a \in UNION {Answers[j] : j \in Ids}, kind \in {"gone", "failed"} :
        /\ a \in Answers[i] /\ host' = [host EXCEPT ![i] = a]
        /\ dev' = [n \in Names |->
                      IF dev[n].pump = "live" /\ dev[n].entry.id = i /\ host[i] \in Addrs
                      THEN [dev[n] EXCEPT !.pump = kind] ELSE dev[n]]
  BY DEF HostChanges
<1>3. host' \in [Ids -> AnyAnswer]
  BY <1>1, <1>2 DEF TypeOK, AnyAnswer
<1>4. ASSUME NEW n \in Names
      PROVE  /\ dev'[n] \in Device /\ Touched(dev[n], dev'[n])
             /\ PumpCount(dev'[n]) = PumpCount(dev[n]) /\ dev'[n].encoded = dev[n].encoded
  <2> DEFINE x == dev[n]
             y == [x EXCEPT !.pump = kind]
  <2>1. x \in Device /\ Kept(x, cfg, n)
    BY <1>1 DEF TypeOK, IInv, DevicesKept
  <2>2. dev'[n] = x \/ (x.pump = "live" /\ dev'[n] = y)
    BY <1>2
  <2>3. CASE dev'[n] = x
    BY <2>1, <2>3 DEF Touched
  <2>4. CASE x.pump = "live" /\ dev'[n] = y
    <3>1. y \in Device /\ y.stale = x.stale /\ y.encoded = x.encoded /\ y.pump = kind
      BY <2>1, <2>4 DEF Device
    <3>2. kind # None /\ kind # "encode" /\ x.pump # None
      BY <2>4, NoneIsNoCause
    <3>3. Touched(x, y)
      BY <2>1, <3>1, <3>2 DEF Touched, Device
    <3>4. PumpCount(y) = PumpCount(x)
      BY <3>1, <3>2 DEF PumpCount
    <3> HIDE DEF y
    <3> QED
      BY <2>4, <3>1, <3>3, <3>4
  <2> QED
    BY <2>2, <2>3, <2>4
<1>5. dev' \in [Names -> Device]
  <2>1. \A n \in Names : dev'[n] \in Device
    BY <1>4
  <2>2. dev' = [n \in Names |-> dev'[n]]
    BY <1>2
  <2> QED
    BY <2>1, <2>2
<1>6. \A m \in Names : Prompted(dev'[m], due')
  BY <1>1, <1>4 DEF Touched, IInv, LoopPrompted, Prompted, Retrying, EncodedAll
<1> QED
  BY <1>1, <1>3, <1>4, <1>5, <1>6, CountKept, TouchKeeps DEF TypeOK

\* The enumeration changes nothing that is kept.
LEMMA EnumerateKeeps ==
    ASSUME IInv, Enumerate \/ UNCHANGED vars
    PROVE  IInv' /\ ProofKept
<1>1. UNCHANGED <<cfg, discovery, dev, alive, announced, retryAt, timer, due, host>>
  BY DEF Enumerate, vars
<1>2. PumpsOf(dev') = PumpsOf(dev)
  BY <1>1
<1>3. TypeOK' /\ DevicesKept' /\ LoopPrompted' /\ DeadlinesWaitedFor' /\ TimerArmed' /\ DevicesAdvertised'
  BY <1>1 DEF IInv, TypeOK, DevicesKept, LoopPrompted, DeadlinesWaitedFor, TimerArmed, DevicesAdvertised, Kept, Enabled
<1> QED
  BY <1>1, <1>2, <1>3 DEF IInv, ProofKept

\* A timer that fires leaves its signal.
LEMMA TimerFiresKeeps ==
    ASSUME IInv, TimerFires
    PROVE  IInv' /\ ProofKept
<1>1. UNCHANGED <<cfg, discovery, dev, alive, announced, retryAt, host>> /\ timer' = None /\ due' = TRUE
  BY DEF TimerFires
<1>2. PumpsOf(dev') = PumpsOf(dev)
  BY <1>1
<1>3. TypeOK' /\ DevicesKept' /\ DeadlinesWaitedFor' /\ DevicesAdvertised'
  BY <1>1 DEF IInv, TypeOK, DevicesKept, DeadlinesWaitedFor, DevicesAdvertised, Kept, Enabled, Deadline
<1>4. TimerArmed' /\ LoopPrompted'
  BY <1>1 DEF TimerArmed, LoopPrompted, Prompted
<1> QED
  BY <1>1, <1>2, <1>3, <1>4 DEF IInv, ProofKept

----------------------------------------------------------------------------
(* The clock, and the end of a pump *)

\* A deadline that comes closer is one still.
LEMMA TickedIsDeadline ==
    ASSUME NEW t \in Deadline
    PROVE  /\ Ticked(t) \in Deadline /\ (Ticked(t) = None) = (t = None)
           /\ \A u \in Nat : t # None /\ t <= u => Ticked(t) # None /\ Ticked(t) <= Ticked(u)
BY NoneIsNoCause DEF Ticked, Deadline

\* Time brings every deadline and the timer closer alike.
LEMMA TickKeeps ==
    ASSUME IInv, Tick
    PROVE  IInv' /\ ProofKept
<1> DEFINE Aged(x) == [x EXCEPT !.retry.next = Ticked(@), !.retry.settle = Ticked(@),
                                !.retry.recovered = IF @ = None \/ @ = RetryResetAfter THEN @ ELSE @ + 1]
<1>1. TypeOK /\ alive' = alive /\ UNCHANGED <<cfg, discovery, announced, due, host>>
  BY DEF IInv, Tick
<1>2. dev' = [n \in Names |-> Aged(dev[n])] /\ retryAt' = Ticked(retryAt) /\ timer' = Ticked(timer)
  BY DEF Tick
<1>3. ASSUME NEW n \in Names
      PROVE  LET x == dev[n]
                 y == dev'[n] IN
             /\ y \in Device /\ y.retry.next = Ticked(x.retry.next) /\ y.retry.settle = Ticked(x.retry.settle)
             /\ (y.retry.recovered = None) = (x.retry.recovered = None)
             /\ y.retry.encodeSeen = x.retry.encodeSeen /\ y.retry.awaitEncode = x.retry.awaitEncode
             /\ y = [x EXCEPT !.retry = y.retry]
             /\ x.retry = NoRetry => y.retry = NoRetry
  <2> DEFINE x == dev[n]
             q == x.retry
             rec == IF q.recovered = None \/ q.recovered = RetryResetAfter THEN q.recovered ELSE q.recovered + 1
             r == [q EXCEPT !.next = Ticked(q.next), !.settle = Ticked(q.settle), !.recovered = rec]
  <2>1. x \in Device /\ q \in RetryState
    BY <1>1 DEF TypeOK, Device
  <2>2. q.next \in Deadline /\ q.settle \in Deadline /\ q.recovered \in Deadline
    BY <2>1 DEF RetryState
  <2>3. rec \in Deadline /\ (rec = None) = (q.recovered = None)
    BY <2>2, NoneIsNoCause DEF Deadline
  <2>4. dev'[n] = [x EXCEPT !.retry = r]
    BY <1>2, <2>1 DEF Device
  <2>5. Ticked(q.next) \in Deadline /\ Ticked(q.settle) \in Deadline
    BY <2>2, TickedIsDeadline
  <2> HIDE DEF rec, q
  <2>6. /\ r \in RetryState /\ r.next = Ticked(q.next) /\ r.settle = Ticked(q.settle) /\ r.recovered = rec
        /\ r.encodeSeen = q.encodeSeen /\ r.awaitEncode = q.awaitEncode
    BY <2>1, <2>3, <2>5 DEF RetryState
  <2>7. q = NoRetry => r = NoRetry
    <3>1. SUFFICES ASSUME q = NoRetry PROVE r = NoRetry
      OBVIOUS
    <3>2. q.next = None /\ q.settle = None /\ q.recovered = None
      BY <3>1 DEF NoRetry
    <3>3. Ticked(q.next) = None /\ Ticked(q.settle) = None /\ rec = None
      BY <2>3, <3>2 DEF Ticked
    <3>4. r = [NoRetry EXCEPT !.next = None, !.settle = None, !.recovered = None]
      BY <3>1, <3>3
    <3> HIDE DEF r
    <3> QED
      BY <3>4 DEF NoRetry
  <2> HIDE DEF r
  <2>8. dev'[n] \in Device /\ dev'[n].retry = r
    BY <2>1, <2>4, <2>6 DEF Device
  <2> QED
    BY <2>3, <2>4, <2>6, <2>7, <2>8 DEF q
<1> HIDE DEF Aged
<1>4. dev' \in [Names -> Device]
  BY <1>2, <1>3
<1>5. ASSUME NEW n \in Names
      PROVE  LET x == dev[n]
                 y == dev'[n] IN
             /\ y.st = x.st /\ y.entry = x.entry /\ y.step = x.step /\ y.mounted = x.mounted /\ y.await = x.await
             /\ y.downReason = x.downReason /\ y.downCond = x.downCond /\ y.periodCond = x.periodCond /\ y.geometry = x.geometry
             /\ y.retried = x.retried /\ y.faulted = x.faulted /\ y.faultOf = x.faultOf
             /\ y.encoded = x.encoded /\ y.pump = x.pump /\ y.path = x.path /\ y.stale = x.stale
  <2>1. dev[n] \in Device /\ dev'[n] = [dev[n] EXCEPT !.retry = dev'[n].retry]
    BY <1>1, <1>3 DEF TypeOK
  <2> QED
    BY <2>1 DEF Device
<1>6. ASSUME NEW n \in Names
      PROVE  /\ dev[n].retry.next \in Deadline /\ dev[n].retry.settle \in Deadline
             /\ (dev'[n].retry.next = None) = (dev[n].retry.next = None)
             /\ (dev'[n].retry.settle = None) = (dev[n].retry.settle = None)
  <2>1. dev[n].retry.next \in Deadline /\ dev[n].retry.settle \in Deadline
    BY <1>1 DEF TypeOK, Device, RetryState
  <2> QED
    BY ZenonT(60), <1>3, <2>1, TickedIsDeadline
<1>7. TypeOK'
  BY <1>1, <1>2, <1>4, TickedIsDeadline DEF TypeOK
<1>8. ASSUME NEW n \in Names PROVE Kept(dev'[n], cfg', n)
  <2> DEFINE x == dev[n]
             y == dev'[n]
  <2>1. Kept(x, cfg, n)
    BY DEF IInv, DevicesKept
  <2>2. Told(y)
    BY <1>5, <2>1 DEF Kept, Told
  <2>3. Retrying(y) = Retrying(x) /\ EncodedAll(y) = EncodedAll(x)
    BY <1>3, <1>5 DEF Retrying, EncodedAll
  <2>4. Up(x) => Up(y)
    BY ZenonT(60), <1>3, <1>5, <1>6, <2>3 DEF Up
  <2>5. Down(x) => Down(y)
    BY <1>3, <1>5, <1>6 DEF Down, IsDown, AtRest
  <2>6. Off(x) => Off(y)
    BY <1>3, <1>5 DEF Off
  <2>7. Of(x, cfg[n]) => Of(y, cfg[n])
    BY <1>5 DEF Of
  <2> QED
    BY <1>1, <2>1, <2>2, <2>4, <2>5, <2>6, <2>7 DEF Kept, Enabled
<1>9. LoopPrompted'
  BY <1>1, <1>3, <1>5, <1>6 DEF IInv, LoopPrompted, Prompted, Retrying, EncodedAll
<1>10. ASSUME NEW n \in Names PROVE Waits(dev'[n].retry, retryAt')
  <2>1. Waits(dev[n].retry, retryAt) /\ retryAt \in Deadline
    BY <1>1 DEF IInv, DeadlinesWaitedFor, TypeOK
  <2>2. ASSUME NEW t \in Deadline, t # None, retryAt # None /\ retryAt <= t
        PROVE  retryAt' # None /\ retryAt' <= Ticked(t)
    BY <1>2, <2>1, <2>2, TickedIsDeadline DEF Deadline
  <2> QED
    BY ZenonT(60), <1>3, <1>6, <2>1, <2>2 DEF Waits
<1>11. TimerArmed'
  <2>1. due \/ retryAt = None \/ timer = retryAt
    BY DEF IInv, TimerArmed
  <2>2. retryAt = None => retryAt' = None
    BY <1>2 DEF Ticked
  <2> QED
    BY <1>1, <1>2, <2>1, <2>2 DEF TimerArmed
<1>12. DevicesAdvertised'
  <2>1. \A n \in Names : Retrying(dev'[n]) = Retrying(dev[n])
    BY <1>3, <1>5 DEF Retrying
  <2> QED
    BY <1>1, <1>5, <2>1 DEF IInv, DevicesAdvertised, Advertised
<1>13. alive' = PumpsOf(dev') /\ alive' \in Int
  BY <1>1, <1>5, CountKept DEF PumpCount
<1>14. ProofKept
  BY <1>5 DEF ProofKept
<1> QED
  BY <1>7, <1>8, <1>9, <1>10, <1>11, <1>12, <1>13, <1>14 DEF IInv, DevicesKept, DeadlinesWaitedFor

\* The death of the current pump leaves its device down, told so, and retried
\* if that can help.
LEMMA PumpDoneKeeps ==
    ASSUME IInv, NEW n \in Names, OnPumpDone(n)
    PROVE  IInv' /\ ProofKept
<1> DEFINE x == dev[n]
           y == Failed(x)
<1>1. TypeOK /\ x \in Device /\ Kept(x, cfg, n) /\ x.pump # None
  BY DEF IInv, TypeOK, DevicesKept, OnPumpDone
<1>2. dev' = [dev EXCEPT ![n] = y] /\ alive' = alive - 1 /\ UNCHANGED <<cfg, discovery, announced, due, host>> /\ ArmRetryTimer(retryAt)
  BY DEF OnPumpDone
<1>3. Told(x) /\ Up(x) /\ Enabled(cfg, n) /\ Of(x, cfg[n])
  BY <1>1 DEF Kept, Down, Off
<1>4. x.entry \in AnyEntry
  BY <1>1, <1>3 DEF Of, Device
<1>5. /\ y \in Device /\ Told(y) /\ Down(y) /\ y.entry = x.entry /\ y.stale = x.stale /\ y.st = "failed"
      /\ y.faulted # {} => (y.faulted = x.faulted /\ y.faultOf = x.faultOf) \/ y.faultOf = x.entry
  BY <1>1, <1>3, <1>4, FailedIsDown
<1> HIDE DEF y
<1>6. dev' \in [Names -> Device] /\ dev'[n] = y /\ \A m \in Names \ {n} : dev'[m] = dev[m]
  BY <1>1, <1>2, <1>5 DEF TypeOK
<1>7. /\ retryAt' \in Deadline /\ timer' \in Deadline
      /\ due' \/ retryAt' = None \/ timer' = retryAt'
      /\ \A m \in Names : Waits(dev'[m].retry, retryAt')
  BY <1>1, <1>2, <1>6, ArmRetryTimerArms DEF TypeOK, IInv, TimerArmed
<1>8. PumpCount(y) = PumpCount(x) - 1
  BY <1>1, <1>5 DEF PumpCount, Down, Device
<1>9. alive' = PumpsOf(dev') /\ alive' \in Int
  <2>1. alive \in Int /\ alive = PumpsOf(dev) /\ dev \in [Names -> Device]
    BY DEF IInv, TypeOK
  <2>2. PumpCount(dev'[n]) = PumpCount(dev[n]) - 1
    BY <1>6, <1>8
  <2>3. alive - 1 = PumpsOf(dev')
    BY <1>6, <2>1, <2>2, OnePumpLess
  <2> QED
    BY <1>2, <2>1, <2>3
<1>10. TypeOK'
  BY <1>1, <1>2, <1>6, <1>7, <1>9 DEF TypeOK
<1>11. DevicesKept'
  <2>1. Of(y, cfg[n])
    BY <1>3, <1>5 DEF Of
  <2>2. Kept(y, cfg, n)
    BY <1>3, <1>5, <2>1 DEF Kept
  <2> QED
    BY <1>2, <1>6, <2>2 DEF IInv, DevicesKept, Kept, Enabled
<1>12. LoopPrompted'
  BY <1>2, <1>5, <1>6 DEF IInv, LoopPrompted, Prompted
<1>13. DevicesAdvertised'
  BY <1>2, <1>3, <1>5, <1>6 DEF IInv, DevicesAdvertised, Advertised, Up
<1>14. ProofKept
  <2>1. y.downCond # None
    BY <1>5 DEF Told, Down
  <2> QED
    BY <1>6, <2>1 DEF ProofKept
<1> QED
  BY <1>7, <1>9, <1>10, <1>11, <1>12, <1>13, <1>14 DEF IInv, DeadlinesWaitedFor, TimerArmed

----------------------------------------------------------------------------
(* The handlers that open devices *)

\* An open anew leaves a device as it is to be kept.
LEMMA RestartedIsKept ==
    ASSUME NEW x, NEW y, NEW c, NEW n, Enabled(c, n), Restarted(x, c[n], y),
           y.faulted # {} => CaptureParamsEqual(y.faultOf, c[n])
    PROVE  Kept(y, c, n)
BY DEF Restarted, Kept, Of, CaptureParamsEqual, Enabled

\* A device the configuration does not list, or disables, stays off.
LEMMA ForgottenStaysOff ==
    ASSUME NEW x \in Device, Told(x), x.st # "serving", x.pump = None, ~x.mounted,
           NEW c, NEW n, ~Enabled(c, n), c[n] \in AnyEntry \cup {None}
    PROVE  LET y == Unconfigured(x, c[n]) IN y \in Device /\ Kept(y, c, n) /\ y.stale = x.stale
<1> DEFINE st == IF c[n] = None THEN None ELSE "disabled"
           y == [Forgotten(x) EXCEPT !.st = st, !.entry = c[n]]
<1>1. st \in {None, "disabled"}
  OBVIOUS
<1>2. Unconfigured(x, c[n]) = y
  BY DEF Unconfigured
<1> HIDE DEF st
<1>3. y \in Device /\ Told(y) /\ Off(y) /\ y.stale = x.stale
  BY ZenonT(60), <1>1, ForgottenIsOff
<1> HIDE DEF y
<1>4. Kept(y, c, n)
  BY <1>3 DEF Kept
<1> QED
  BY <1>2, <1>3, <1>4

\* What a device that is not served by now is.
LEMMA KeptDown ==
    ASSUME NEW x \in Device, NEW c, NEW n, Kept(x, c, n), x.st # "serving"
    PROVE  /\ Told(x) /\ ~x.mounted /\ x.pump = None /\ (x.faulted # {} => AtRest(x.retry))
           /\ Enabled(c, n) => Down(x) /\ Of(x, c[n])
BY DEF Kept, Up, Down, Off

\* A hotplug restarts the devices that are down, and the others stay.
LEMMA RetryDownKeeps ==
    ASSUME IInv, RetryDown
    PROVE  IInv' /\ ProofKept
<1> DEFINE opened == {n \in Names : Enabled(cfg, n) /\ ~IsCardIndex(cfg[n]) /\ IsDown(dev[n])}
<1>1. TypeOK /\ UNCHANGED <<cfg, discovery, due, host>> /\ ArmRetryTimer(retryAt)
  BY DEF IInv, RetryDown
<1>2. PICK o \in PassOutcomes(dev, cfg, opened) :
        dev' = ReconcileRecords(Passed([of |-> "retryDown", cfg |-> cfg, opened |-> opened, o |-> o], dev), cfg)
  BY DEF RetryDown
<1> DEFINE E == Passed([of |-> "retryDown", cfg |-> cfg, opened |-> opened, o |-> o], dev)
<1>3. /\ alive' = alive + Live(dev') - Live(dev)
      /\ announced' = IF \E n \in opened : dev'[n].st = "serving" THEN Announcement(dev', discovery) ELSE announced
  BY DEF RetryDown
<1>4. ASSUME NEW n \in Names
      PROVE  dev[n] \in Device /\ Kept(dev[n], cfg, n) /\ Told(dev[n])
  BY <1>1 DEF TypeOK, IInv, DevicesKept, Kept
<1>5. ASSUME NEW n \in Names, n \in opened
      PROVE  Openable(dev[n], cfg[n], o[n]) /\ (dev[n].faulted # {} => AtRest(dev[n].retry))
  <2>1. Enabled(cfg, n) /\ dev[n].st # "serving"
    BY <1>5 DEF IsDown
  <2>2. Resolvable(cfg[n])
    BY <1>1, <2>1, ConfiguredResolves DEF TypeOK
  <2>3. ~dev[n].mounted /\ (dev[n].faulted # {} => AtRest(dev[n].retry))
    BY <1>4, <2>1, KeptDown
  <2>4. ~ResolveRefused(cfg[n]) => Likely(o[n], Asked(dev[n], cfg[n]))
    BY <1>1, <1>4, <1>5, OutcomesLikely DEF TypeOK
  <2> QED
    BY <1>4, <2>2, <2>3, <2>4 DEF Openable
<1> HIDE DEF opened
<1>6. /\ E \in [Names -> Device]
      /\ \A n \in Names :
            IF n \in opened
            THEN /\ Restarted(dev[n], cfg[n], E[n])
                 /\ dev[n].faulted # {} => E[n].faulted = dev[n].faulted /\ E[n].faultOf = dev[n].faultOf
            ELSE E[n] = dev[n]
  BY <1>1, <1>5, RetryDownPass DEF TypeOK
<1> HIDE DEF E
<1>7. ASSUME NEW n \in Names
      PROVE  dev'[n] = IF Enabled(cfg, n) THEN E[n] ELSE Unconfigured(E[n], cfg[n])
  BY <1>2 DEF ReconcileRecords, E
<1>8. ASSUME NEW n \in Names, n \in opened
      PROVE  /\ Enabled(cfg, n) /\ dev'[n] = E[n] /\ Restarted(dev[n], cfg[n], dev'[n]) /\ Down(dev[n]) /\ Of(dev[n], cfg[n])
             /\ dev[n].faulted # {} => dev'[n].faulted = dev[n].faulted /\ dev'[n].faultOf = dev[n].faultOf
  <2>1. Enabled(cfg, n) /\ dev[n].st # "serving"
    BY <1>8 DEF IsDown, opened
  <2> QED
    BY <1>4, <1>6, <1>7, <1>8, <2>1, KeptDown
<1>9. ASSUME NEW n \in Names, n \notin opened, Enabled(cfg, n)
      PROVE  dev'[n] = dev[n]
  BY <1>6, <1>7, <1>9
<1>10. ASSUME NEW n \in Names, ~Enabled(cfg, n)
       PROVE  dev'[n] \in Device /\ Kept(dev'[n], cfg, n) /\ dev'[n].stale = dev[n].stale /\ n \notin opened
  <2>1. n \notin opened
    BY <1>10 DEF opened
  <2>2. E[n] = dev[n] /\ Off(dev[n])
    BY <1>4, <1>6, <1>10, <2>1 DEF Kept
  <2>3. dev[n].st # "serving"
    BY <2>2, NoneIsNoCause DEF Off
  <2>4. cfg[n] \in AnyEntry \cup {None}
    BY <1>1 DEF TypeOK
  <2>5. dev'[n] = Unconfigured(dev[n], cfg[n])
    BY <1>7, <1>10, <2>2
  <2>6. dev[n].pump = None /\ ~dev[n].mounted
    BY <2>2 DEF Off
  <2>7. dev'[n] \in Device /\ Kept(dev'[n], cfg, n) /\ dev'[n].stale = dev[n].stale
    BY <1>4, <1>10, <2>3, <2>4, <2>5, <2>6, ForgottenStaysOff
  <2> QED
    BY <2>1, <2>7
<1>11. ASSUME NEW n \in Names
       PROVE  dev'[n] \in Device /\ Kept(dev'[n], cfg, n) /\ dev'[n].stale = dev[n].stale
  <2>1. CASE n \in opened
    <3>1. dev'[n].faulted # {} => CaptureParamsEqual(dev'[n].faultOf, cfg[n])
      BY <1>8, <2>1 DEF Restarted, Of
    <3> QED
      BY <1>8, <2>1, <3>1, RestartedIsKept DEF Restarted
  <2>2. CASE n \notin opened
    BY <1>4, <1>9, <1>10, <2>2
  <2> QED
    BY <2>1, <2>2
<1>12. dev' \in [Names -> Device]
  <2>1. dev' = [n \in Names |-> dev'[n]]
    BY <1>2 DEF ReconcileRecords
  <2> QED
    BY <1>11, <2>1
<1>13. /\ retryAt' \in Deadline /\ timer' \in Deadline
       /\ due' \/ retryAt' = None \/ timer' = retryAt'
       /\ \A m \in Names : Waits(dev'[m].retry, retryAt')
  BY <1>1, <1>12, ArmRetryTimerArms DEF TypeOK, IInv, TimerArmed
<1>14. alive' = PumpsOf(dev') /\ alive' \in Int
  <2>1. dev \in [Names -> Device] /\ alive = PumpsOf(dev)
    BY <1>1 DEF TypeOK, IInv
  <2>2. alive + Live(dev') - Live(dev) = PumpsOf(dev') /\ alive + Live(dev') - Live(dev) \in Int
    BY <1>11, <1>12, <2>1, HandlerCounts
  <2> QED
    BY <1>3, <2>2
<1>15. ASSUME NEW n \in Names PROVE Prompted(dev'[n], due')
  <2>1. CASE n \in opened
    BY <1>8, <2>1 DEF Prompted, Restarted
  <2>2. CASE n \notin opened /\ Enabled(cfg, n)
    BY <1>1, <1>9, <2>2 DEF IInv, LoopPrompted
  <2>3. CASE ~Enabled(cfg, n)
    BY <1>10, <2>3, NoneIsNoCause DEF Prompted, Kept, Off
  <2> QED
    BY <2>1, <2>2, <2>3
<1>16. ASSUME NEW n \in Names
       PROVE  announced'[n] \in AnyEntry \cup {None} /\ Advertised(dev'[n], announced'[n], discovery')
  <2>1. CASE \E m \in opened : dev'[m].st = "serving"
    <3>1. announced' = Announcement(dev', discovery) /\ discovery \in BOOLEAN
      BY <1>1, <1>3, <2>1 DEF TypeOK
    <3> QED
      BY <1>1, <1>11, <3>1, AnnouncementAdvertises
  <2>2. CASE ~\E m \in opened : dev'[m].st = "serving"
    <3>1. announced' = announced
      BY <1>3, <2>2
    <3>2. announced[n] \in AnyEntry \cup {None} /\ Advertised(dev[n], announced[n], discovery)
      BY <1>1 DEF TypeOK, IInv, DevicesAdvertised
    <3>3. CASE n \in opened
      <4>1. dev'[n].st # "serving" /\ dev'[n].entry = cfg[n]
        BY <1>8, <2>2, <3>3 DEF Restarted
      <4>2. announced[n] # None => CaptureParamsEqual(announced[n], dev[n].entry)
        BY <1>8, <3>2, <3>3 DEF Advertised, Down, IsDown
      <4>3. CaptureParamsEqual(dev[n].entry, cfg[n])
        BY <1>8, <3>3 DEF Of
      <4> QED
        BY <3>1, <3>2, <4>1, <4>2, <4>3 DEF Advertised, CaptureParamsEqual
    <3>4. CASE n \notin opened /\ Enabled(cfg, n)
      BY <1>1, <1>9, <3>1, <3>2, <3>4
    <3>5. CASE ~Enabled(cfg, n)
      BY <1>10, <3>1, <3>2, <3>5, NoneIsNoCause DEF Advertised, Kept, Off
    <3> QED
      BY <3>3, <3>4, <3>5
  <2> QED
    BY <2>1, <2>2
<1>17. announced' \in [Names -> AnyEntry \cup {None}]
  <2>1. announced' = [n \in Names |-> announced'[n]]
    BY <1>1, <1>3 DEF TypeOK, Announcement
  <2> QED
    BY <1>16, <2>1
<1>18. TypeOK'
  BY <1>1, <1>12, <1>13, <1>14, <1>17 DEF TypeOK
<1>19. DevicesKept'
  BY <1>1, <1>11 DEF DevicesKept, Kept, Enabled
<1>20. ProofKept
  <2>1. ASSUME NEW n \in Names, dev[n].faulted # {}, dev[n].downCond # None, dev'[n].downCond = None, Enabled(cfg', n)
        PROVE  FALSE
    <3>1. CASE n \in opened
      <4>1. dev'[n].faulted # {} /\ Told(dev'[n]) /\ (Up(dev'[n]) \/ Down(dev'[n]))
        BY <1>8, <2>1, <3>1 DEF Restarted
      <4> QED
        BY <2>1, <4>1 DEF Told, Up, Down
    <3>2. CASE n \notin opened
      BY <1>1, <1>9, <2>1, <3>2 DEF Enabled
    <3> QED
      BY <3>1, <3>2
  <2> QED
    BY <2>1 DEF ProofKept
<1> QED
  BY <1>13, <1>14, <1>15, <1>16, <1>18, <1>19, <1>20
     DEF IInv, LoopPrompted, DeadlinesWaitedFor, TimerArmed, DevicesAdvertised

\* The backstop of onRetryDue leaves what is kept of a device as it is.
LEMMA PrunedIsKept ==
    ASSUME dev \in [Names -> Device], NEW n \in Names, Kept(dev[n], cfg, n)
    PROVE  LET y == Pruned(dev)[n] IN
           /\ y \in Device /\ Kept(y, cfg, n) /\ y.stale = dev[n].stale /\ y.st = dev[n].st
           /\ Enabled(cfg, n) => y = dev[n]
<1> DEFINE x == dev[n]
           u == DropRetry(x)
           y == [u EXCEPT !.faulted = {}, !.faultOf = None]
<1>1. CASE Enabled(cfg, n)
  BY <1>1 DEF Pruned
<1>2. CASE ~Enabled(cfg, n)
  <2>1. x \in Device /\ Told(x) /\ Off(x)
    BY <1>2 DEF Kept
  <2>2. u \in Device /\ u = [x EXCEPT !.retried = FALSE, !.retry = NoRetry]
    BY <2>1, DropRetrySchedules DEF Scheduled, DropRetry
  <2>3. /\ u.st = x.st /\ u.pump = x.pump /\ u.mounted = x.mounted /\ u.stale = x.stale /\ u.retried = FALSE /\ u.retry = NoRetry
        /\ u.downReason = x.downReason /\ u.downCond = x.downCond /\ u.periodCond = x.periodCond /\ u.geometry = x.geometry
    BY <2>1, <2>2 DEF Device
  <2> HIDE DEF u
  <2>4. /\ y \in Device /\ y.st = x.st /\ y.pump = x.pump /\ y.mounted = x.mounted /\ y.stale = x.stale
        /\ y.retried = FALSE /\ y.retry = NoRetry /\ y.faulted = {}
        /\ y.downReason = x.downReason /\ y.downCond = x.downCond /\ y.periodCond = x.periodCond /\ y.geometry = x.geometry
    BY ZenonT(60), <2>2, <2>3 DEF Device
  <2>5. Pruned(dev)[n] = IF y.geometry.of = None THEN y ELSE DropGeometry(y)
    BY <1>2 DEF Pruned, u
  <2> HIDE DEF y
  <2>6. x.geometry = NoGeometry
    BY <2>1 DEF Off
  <2>7. y.geometry.of = None
    BY <2>4, <2>6 DEF NoGeometry
  <2>8. Told(y) /\ Off(y)
    BY <2>1, <2>4 DEF Told, Off
  <2> QED
    BY <1>2, <2>4, <2>5, <2>7, <2>8 DEF Kept
<1> QED
  BY <1>1, <1>2

\* The retry signal is taken: every deadline that came is acted on and the
\* timer armed for the next.
LEMMA RetryDueKeeps ==
    ASSUME IInv, OnRetryDue
    PROVE  IInv' /\ ProofKept
<1> DEFINE opened == {n \in Names : Enabled(cfg, n) /\ dev[n].retried /\ dev[n].retry.next = 0 /\ IsDown(dev[n])}
           recovered == {n \in Names : Retrying(dev[n]) /\ dev'[n].retried /\ dev'[n].retry.recovered # None}
           reannounce == {n \in opened : dev'[n].st = "serving" /\ dev'[n].faulted # {} /\ discovery /\ announced[n] = None}
           P == Pruned(dev)
<1>1. TypeOK /\ UNCHANGED <<cfg, discovery, host>> /\ due' = FALSE /\ ArmRetryTimer(None)
  BY DEF IInv, OnRetryDue
<1>2. PICK o \in PassOutcomes(dev, cfg, opened) :
        dev' = Passed([of |-> "retryDue", cfg |-> cfg, opened |-> opened, o |-> o], P)
  BY DEF OnRetryDue
<1>3. /\ alive' = alive + Live(dev') - Live(dev)
      /\ announced' = IF recovered \cup reannounce # {} THEN Announcement(dev', discovery) ELSE announced
  BY DEF OnRetryDue
<1>4. ASSUME NEW n \in Names
      PROVE  /\ dev[n] \in Device /\ Kept(dev[n], cfg, n) /\ Told(dev[n])
             /\ P[n] \in Device /\ Kept(P[n], cfg, n) /\ P[n].stale = dev[n].stale /\ P[n].st = dev[n].st
             /\ Enabled(cfg, n) => P[n] = dev[n]
  <2>1. dev[n] \in Device /\ Kept(dev[n], cfg, n) /\ Told(dev[n])
    BY <1>1 DEF TypeOK, IInv, DevicesKept, Kept
  <2> HIDE DEF P
  <2> QED
    BY <1>1, <2>1, PrunedIsKept DEF TypeOK, P
<1>5. P \in [Names -> Device]
  <2>1. P = [n \in Names |-> P[n]]
    BY DEF Pruned
  <2> HIDE DEF P
  <2> QED
    BY <1>4, <2>1
<1> HIDE DEF P
<1>6. ASSUME NEW n \in Names, Enabled(cfg, n)
      PROVE  Resolvable(cfg[n])
  BY <1>1, <1>6, ConfiguredResolves DEF TypeOK
<1>7. ASSUME NEW n \in Names, Enabled(cfg, n), P[n].retried, P[n].retry.next = 0, IsDown(P[n]), ~ResolveRefused(cfg[n])
      PROVE  Likely(o[n], Asked(P[n], cfg[n]))
  <2>1. P[n] = dev[n]
    BY <1>4, <1>7
  <2>2. n \in opened
    BY <1>7, <2>1
  <2> HIDE DEF opened
  <2>3. Likely(o[n], Asked(dev[n], cfg[n]))
    BY <1>1, <1>4, <1>7, <2>2, OutcomesLikely DEF TypeOK
  <2> QED
    BY <2>1, <2>3
<1>8. /\ dev' \in [Names -> Device]
      /\ \A n \in Names : IF Enabled(cfg, n) THEN Looked(P[n], dev'[n], cfg[n]) ELSE dev'[n] = P[n]
  <2> HIDE DEF opened
  <2> QED
    BY <1>2, <1>4, <1>5, <1>6, <1>7, RetryDuePass
<1>9. ASSUME NEW n \in Names, Enabled(cfg, n)
      PROVE  Looked(dev[n], dev'[n], cfg[n])
  BY <1>4, <1>8, <1>9
<1>10. ASSUME NEW n \in Names, ~Enabled(cfg, n)
       PROVE  dev'[n] = P[n] /\ Off(dev'[n])
  BY <1>4, <1>8, <1>10 DEF Kept
<1>11. ASSUME NEW n \in Names
       PROVE  Kept(dev'[n], cfg, n) /\ dev'[n].stale = dev[n].stale /\ Prompted(dev'[n], FALSE)
  <2>1. CASE Enabled(cfg, n)
    BY <1>9, <2>1 DEF Looked, Kept
  <2>2. CASE ~Enabled(cfg, n)
    BY <1>4, <1>10, <2>2, NoneIsNoCause DEF Prompted, Off
  <2> QED
    BY <2>1, <2>2
<1>12. /\ retryAt' \in Deadline /\ timer' \in Deadline
       /\ due' \/ retryAt' = None \/ timer' = retryAt'
       /\ \A m \in Names : Waits(dev'[m].retry, retryAt')
  BY <1>1, <1>8, ArmRetryTimerArms DEF TypeOK, Deadline
<1>13. alive' = PumpsOf(dev') /\ alive' \in Int
  <2>1. dev \in [Names -> Device] /\ alive = PumpsOf(dev)
    BY <1>1 DEF TypeOK, IInv
  <2>2. alive + Live(dev') - Live(dev) = PumpsOf(dev') /\ alive + Live(dev') - Live(dev) \in Int
    BY <1>8, <1>11, <2>1, HandlerCounts
  <2> QED
    BY <1>3, <2>2
<1>14. ASSUME NEW n \in Names
       PROVE  announced'[n] \in AnyEntry \cup {None} /\ Advertised(dev'[n], announced'[n], discovery')
  <2>1. CASE recovered \cup reannounce # {}
    <3>1. announced' = Announcement(dev', discovery) /\ discovery \in BOOLEAN
      BY <1>1, <1>3, <2>1 DEF TypeOK
    <3> QED
      BY <1>1, <1>8, <1>11, <3>1, AnnouncementAdvertises
  <2>2. CASE recovered \cup reannounce = {}
    <3>1. announced' = announced
      BY <1>3, <2>2
    <3>2. announced[n] \in AnyEntry \cup {None} /\ Advertised(dev[n], announced[n], discovery)
      BY <1>1 DEF TypeOK, IInv, DevicesAdvertised
    <3>3. CASE Enabled(cfg, n)
      <4>1. dev[n].st \in {"serving", "skipped", "failed"} /\ Of(dev[n], cfg[n]) /\ Of(dev'[n], cfg[n])
        BY <1>4, <1>9, <3>3 DEF Kept, Up, Down, IsDown, Looked
      <4>2. announced[n] # None => CaptureParamsEqual(announced[n], dev'[n].entry)
        BY <3>2, <4>1 DEF Advertised, Of, CaptureParamsEqual
      <4>3. ASSUME discovery, dev'[n].st = "serving", ~Retrying(dev'[n]) \/ dev'[n].faulted # {}
            PROVE  announced[n] # None
        <5>1. CASE dev[n].st = "serving" /\ (~Retrying(dev[n]) \/ dev[n].faulted # {})
          BY <3>2, <4>3, <5>1 DEF Advertised
        <5>2. CASE Retrying(dev[n]) /\ dev'[n].retried /\ dev'[n].retry.recovered # None
          BY <2>2, <5>2
        <5>3. CASE IsDown(dev[n]) /\ dev[n].retried /\ dev[n].retry.next = 0 /\ dev'[n].faulted # {}
          BY <2>2, <3>3, <4>3, <5>3
        <5> QED
          BY <1>9, <3>3, <4>3, <5>1, <5>2, <5>3 DEF Looked
      <4> QED
        BY <1>1, <3>1, <3>2, <4>2, <4>3 DEF Advertised
    <3>4. CASE ~Enabled(cfg, n)
      BY <1>10, <3>1, <3>2, <3>4, NoneIsNoCause DEF Advertised, Off
    <3> QED
      BY <3>3, <3>4
  <2> QED
    BY <2>1, <2>2
<1>15. announced' \in [Names -> AnyEntry \cup {None}]
  <2>1. announced' = [n \in Names |-> announced'[n]]
    BY <1>1, <1>3 DEF TypeOK, Announcement
  <2> QED
    BY <1>14, <2>1
<1>16. TypeOK'
  BY <1>1, <1>8, <1>12, <1>13, <1>15 DEF TypeOK
<1>17. DevicesKept' /\ LoopPrompted'
  BY <1>1, <1>11 DEF DevicesKept, LoopPrompted, Kept, Enabled
<1>18. ProofKept
  <2>1. ASSUME NEW n \in Names, dev[n].faulted # {}, dev[n].downCond # None, dev'[n].downCond = None, Enabled(cfg', n)
        PROVE  dev[n].st = "serving" /\ EncodedAll(dev[n])
    <3>1. Enabled(cfg, n)
      BY <1>1, <2>1 DEF Enabled
    <3>2. Looked(dev[n], dev'[n], cfg[n]) /\ Told(dev[n])
      BY <1>4, <1>9, <3>1
    <3> QED
      BY <2>1, <3>2 DEF Looked, Told
  <2> QED
    BY <2>1 DEF ProofKept
<1> QED
  BY <1>12, <1>13, <1>14, <1>16, <1>17, <1>18
     DEF IInv, DeadlinesWaitedFor, TimerArmed, DevicesAdvertised

----------------------------------------------------------------------------
(* A save *)

\* A save stops, restarts and starts what it plans, and forgets what it no
\* longer lists.
LEMMA ReconcileKeeps ==
    ASSUME IInv, NEW c, c \in [Names -> AnyEntry \cup {None}], \A n \in Names : c[n] \in Entries[n] \cup {None},
           NEW on \in BOOLEAN, Reconcile(c, on)
    PROVE  IInv' /\ ProofKept
<1> DEFINE stops == PlanStop(c) \cup PlanRestart(c)
           restarts == PlanRestart(c)
           starts == PlanStart(c)
           opened == restarts \cup starts
           stopped == [n \in Names |-> IF n \in stops THEN Stop(dev[n]) ELSE dev[n]]
<1>1. /\ TypeOK /\ cfg' = c /\ discovery' = on /\ due' = due /\ host' = host /\ ArmRetryTimer(retryAt)
      /\ alive' = alive + Live(dev') - Live(stopped)
      /\ announced' = IF stops \cup opened # {} \/ on # discovery THEN Announcement(dev', on) ELSE announced
  BY DEF IInv, Reconcile
<1>2. PICK o \in PassOutcomes(stopped, c, opened) :
        dev' = ReconcileRecords(
                  Passed([of |-> "start", cfg |-> c, opened |-> starts, o |-> o],
                         Passed([of |-> "restart", cfg |-> c, opened |-> restarts, o |-> o], stopped)), c)
  BY DEF Reconcile
<1> DEFINE R == Passed([of |-> "restart", cfg |-> c, opened |-> restarts, o |-> o], stopped)
           S == Passed([of |-> "start", cfg |-> c, opened |-> starts, o |-> o], R)
<1>3. ASSUME NEW n \in Names
      PROVE  /\ dev[n] \in Device /\ Kept(dev[n], cfg, n) /\ Told(dev[n])
             /\ n \in restarts => n \in opened /\ Enabled(c, n) /\ dev[n].st = "serving" /\ ~CaptureParamsEqual(dev[n].entry, c[n])
             /\ n \in starts => n \in opened /\ Enabled(c, n) /\ dev[n].st # "serving"
             /\ (n \in stops) = (dev[n].st = "serving" /\ (~Enabled(c, n) \/ ~CaptureParamsEqual(dev[n].entry, c[n])))
             /\ n \notin restarts /\ n \notin starts /\ Enabled(c, n) =>
                   dev[n].st = "serving" /\ CaptureParamsEqual(dev[n].entry, c[n])
             /\ n \in restarts => n \in stops
             /\ n \in opened => n \in restarts \/ n \in starts
  BY <1>1 DEF TypeOK, IInv, DevicesKept, Kept, PlanStop, PlanRestart, PlanStart
<1>4. ASSUME NEW n \in Names
      PROVE  /\ stopped[n] \in Device /\ Told(stopped[n]) /\ PumpCount(stopped[n]) = PumpCount(dev[n])
             /\ stopped[n].faulted = dev[n].faulted /\ stopped[n].faultOf = dev[n].faultOf
             /\ n \in stops => ~stopped[n].mounted /\ stopped[n].st = "superseded" /\ stopped[n].pump = None
             /\ n \notin stops => stopped[n] = dev[n]
  <2>1. CASE n \in stops
    <3>1. dev[n].st = "serving"
      BY <1>3, <2>1
    <3>2. Up(dev[n])
      BY <1>3, <3>1, NoneIsNoCause DEF Kept, Down, IsDown, Off
    <3>3. stopped[n] = Stop(dev[n])
      BY <2>1
    <3> HIDE DEF stopped, stops
    <3> QED
      BY <1>3, <2>1, <3>1, <3>2, <3>3, StopSupersedes DEF Up
  <2>2. CASE n \notin stops
    <3>1. stopped[n] = dev[n]
      BY <2>2
    <3> HIDE DEF stopped, stops
    <3> QED
      BY <1>3, <2>2, <3>1
  <2> QED
    BY <2>1, <2>2
<1>5. stopped \in [Names -> Device]
  <2>1. stopped = [n \in Names |-> stopped[n]]
    OBVIOUS
  <2> HIDE DEF stopped
  <2> QED
    BY <1>4, <2>1
<1> HIDE DEF stops, restarts, starts, opened, stopped
<1>6. ASSUME NEW n \in Names, n \in opened
      PROVE  Resolvable(c[n]) /\ (~ResolveRefused(c[n]) => Likely(o[n], Asked(stopped[n], c[n])))
  <2>1. Resolvable(c[n])
    BY <1>1, <1>3, <1>6, ConfiguredResolves DEF TypeOK
  <2> QED
    BY <1>4, <1>5, <1>6, <2>1, OutcomesLikely
<1>7. ASSUME NEW n \in Names, n \in restarts
      PROVE  Openable(stopped[n], c[n], o[n])
  <2>1. n \in opened /\ n \in stops
    BY <1>3, <1>7
  <2> QED
    BY <1>4, <1>6, <2>1 DEF Openable
<1>8. /\ R \in [Names -> Device]
      /\ \A n \in Names : IF n \in restarts THEN Restarted(stopped[n], c[n], R[n]) /\ R[n].faulted = {} ELSE R[n] = stopped[n]
  BY <1>5, <1>7, RestartPass
<1> HIDE DEF R
<1>9. ASSUME NEW n \in Names, n \in starts
      PROVE  /\ R[n] = dev[n] /\ n \notin restarts /\ Openable(R[n], c[n], o[n])
             /\ R[n].faulted # {} => AtRest(R[n].retry)
  <2>1. n \notin restarts /\ n \notin stops /\ n \in opened /\ dev[n].st # "serving"
    BY <1>3, <1>9
  <2>2. R[n] = dev[n] /\ stopped[n] = dev[n]
    BY <1>4, <1>8, <2>1
  <2>3. ~dev[n].mounted /\ (dev[n].faulted # {} => AtRest(dev[n].retry))
    BY <1>3, <2>1, KeptDown
  <2> QED
    BY <1>3, <1>6, <2>1, <2>2, <2>3 DEF Openable
<1>10. /\ S \in [Names -> Device]
       /\ \A n \in Names : IF n \in starts THEN StartedFrom(R[n], c[n], S[n]) ELSE S[n] = R[n]
  BY <1>8, <1>9, StartPass
<1> HIDE DEF S
<1>11. ASSUME NEW n \in Names
       PROVE  dev'[n] = IF Enabled(c, n) THEN S[n] ELSE Unconfigured(S[n], c[n])
  BY <1>2 DEF ReconcileRecords, S, R
<1>12. ASSUME NEW n \in Names, n \in restarts
       PROVE  /\ dev[n].st = "serving" /\ Enabled(c, n) /\ Restarted(stopped[n], c[n], dev'[n]) /\ dev'[n].faulted = {}
              /\ ~CaptureParamsEqual(dev[n].entry, c[n])
  <2>1. n \notin starts /\ Enabled(c, n)
    BY <1>3, <1>12
  <2> QED
    BY <1>3, <1>8, <1>10, <1>11, <1>12, <2>1
<1>13. ASSUME NEW n \in Names, n \in starts
       PROVE  Enabled(c, n) /\ StartedFrom(dev[n], c[n], dev'[n]) /\ stopped[n] = dev[n]
  <2>1. n \notin stops /\ Enabled(c, n)
    BY <1>3, <1>13
  <2> QED
    BY <1>4, <1>9, <1>10, <1>11, <1>13, <2>1
<1>14. ASSUME NEW n \in Names, n \notin restarts, n \notin starts, Enabled(c, n)
       PROVE  /\ dev'[n] = dev[n] /\ dev[n].st = "serving" /\ CaptureParamsEqual(dev[n].entry, c[n])
              /\ n \notin stops /\ stopped[n] = dev[n]
  <2>1. dev[n].st = "serving" /\ CaptureParamsEqual(dev[n].entry, c[n])
    BY <1>3, <1>14
  <2>2. n \notin stops
    BY <1>3, <1>14, <2>1
  <2> QED
    BY <1>4, <1>8, <1>10, <1>11, <1>14, <2>1, <2>2
<1>15. ASSUME NEW n \in Names, ~Enabled(c, n)
       PROVE  dev'[n] \in Device /\ Kept(dev'[n], c, n) /\ dev'[n].stale = stopped[n].stale
  <2>1. S[n] = stopped[n] /\ dev'[n] = Unconfigured(stopped[n], c[n])
    BY <1>3, <1>8, <1>10, <1>11, <1>15
  <2>2. stopped[n].st # "serving" /\ stopped[n].pump = None /\ ~stopped[n].mounted
    <3>1. CASE n \in stops
      BY <1>4, <3>1
    <3>2. CASE n \notin stops
      <4>1. dev[n].st # "serving"
        BY <1>3, <1>15, <3>2
      <4> QED
        BY <1>3, <1>4, <3>2, <4>1, KeptDown
    <3> QED
      BY <3>1, <3>2
  <2> QED
    BY <1>4, <1>15, <2>1, <2>2, ForgottenStaysOff
<1>16. ASSUME NEW n \in Names
       PROVE  dev'[n] \in Device /\ Kept(dev'[n], c, n) /\ dev'[n].stale = stopped[n].stale
  <2>1. CASE n \in restarts
    BY <1>12, <2>1, RestartedIsKept DEF Restarted
  <2>2. CASE n \in starts
    <3>1. Restarted(dev[n], c[n], dev'[n])
      BY <1>13, <2>2 DEF StartedFrom
    <3>2. dev'[n].faulted # {} => CaptureParamsEqual(dev'[n].faultOf, c[n])
      BY <1>13, <2>2 DEF StartedFrom
    <3> QED
      BY <1>13, <2>2, <3>1, <3>2, RestartedIsKept DEF Restarted
  <2>3. CASE n \notin restarts /\ n \notin starts /\ Enabled(c, n)
    <3>1. dev'[n] = dev[n] /\ dev[n].st = "serving" /\ CaptureParamsEqual(dev[n].entry, c[n]) /\ stopped[n] = dev[n]
      BY <1>14, <2>3
    <3>2. Told(dev[n]) /\ Up(dev[n]) /\ Of(dev[n], cfg[n])
      BY <1>3, <3>1, NoneIsNoCause DEF Kept, Down, IsDown, Off
    <3>3. Of(dev[n], c[n])
      BY <3>1, <3>2 DEF Of, CaptureParamsEqual
    <3> QED
      BY <1>3, <2>3, <3>1, <3>2, <3>3 DEF Kept
  <2>4. CASE ~Enabled(c, n)
    BY <1>15, <2>4
  <2> QED
    BY <2>1, <2>2, <2>3, <2>4
<1>17. dev' \in [Names -> Device]
  <2>1. dev' = [n \in Names |-> dev'[n]]
    BY <1>2 DEF ReconcileRecords
  <2> QED
    BY <1>16, <2>1
<1>18. /\ retryAt' \in Deadline /\ timer' \in Deadline
       /\ due' \/ retryAt' = None \/ timer' = retryAt'
       /\ \A m \in Names : Waits(dev'[m].retry, retryAt')
  BY <1>1, <1>17, ArmRetryTimerArms DEF TypeOK, IInv, TimerArmed
<1>19. alive' = PumpsOf(dev') /\ alive' \in Int
  <2>1. alive = PumpsOf(stopped)
    BY <1>4, SamePumps DEF IInv
  <2>2. alive + Live(dev') - Live(stopped) = PumpsOf(dev') /\ alive + Live(dev') - Live(stopped) \in Int
    BY <1>5, <1>16, <1>17, <2>1, HandlerCounts
  <2> QED
    BY <1>1, <2>2
<1>20. ASSUME NEW n \in Names PROVE Prompted(dev'[n], due')
  <2>1. CASE n \in restarts
    BY <1>12, <2>1 DEF Prompted, Restarted
  <2>2. CASE n \in starts
    BY <1>13, <2>2 DEF Prompted, StartedFrom, Restarted
  <2>3. CASE n \notin restarts /\ n \notin starts /\ Enabled(c, n)
    BY <1>1, <1>14, <2>3 DEF IInv, LoopPrompted
  <2>4. CASE ~Enabled(c, n)
    BY <1>16, <2>4, NoneIsNoCause DEF Prompted, Kept, Off
  <2> QED
    BY <2>1, <2>2, <2>3, <2>4
<1>21. ASSUME NEW n \in Names
       PROVE  announced'[n] \in AnyEntry \cup {None} /\ Advertised(dev'[n], announced'[n], on)
  <2>1. CASE stops \cup opened # {} \/ on # discovery
    <3>1. announced' = Announcement(dev', on)
      BY <1>1, <2>1
    <3> QED
      BY <1>16, <3>1, AnnouncementAdvertises
  <2>2. CASE stops \cup opened = {} /\ on = discovery
    <3>1. announced' = announced
      BY <1>1, <2>2
    <3>2. announced[n] \in AnyEntry \cup {None} /\ Advertised(dev[n], announced[n], discovery)
      BY <1>1 DEF TypeOK, IInv, DevicesAdvertised
    <3>3. n \notin restarts /\ n \notin starts
      BY <1>3, <2>2
    <3>4. CASE Enabled(c, n)
      BY <1>14, <2>2, <3>1, <3>2, <3>3, <3>4
    <3>5. CASE ~Enabled(c, n)
      BY <1>16, <3>1, <3>2, <3>5, NoneIsNoCause DEF Advertised, Kept, Off
    <3> QED
      BY <3>4, <3>5
  <2> QED
    BY <2>1, <2>2
<1>22. announced' \in [Names -> AnyEntry \cup {None}]
  <2>1. announced' = [n \in Names |-> announced'[n]]
    BY <1>1 DEF TypeOK, Announcement
  <2> QED
    BY <1>21, <2>1
<1>23. TypeOK'
  BY <1>1, <1>17, <1>18, <1>19, <1>22 DEF TypeOK
<1>24. DevicesKept'
  BY <1>1, <1>16 DEF DevicesKept, Kept, Enabled
<1>25. ProofKept
  <2>1. ASSUME NEW n \in Names, dev[n].faulted # {}, dev[n].downCond # None, dev'[n].downCond = None,
               Enabled(c, n), CaptureParamsEqual(dev[n].faultOf, c[n])
        PROVE  FALSE
    <3>1. CASE n \in restarts
      <4>1. Of(dev[n], cfg[n])
        BY <1>3, <1>12, <3>1, NoneIsNoCause DEF Kept, Off
      <4> QED
        BY <1>12, <2>1, <3>1, <4>1 DEF Of, CaptureParamsEqual
    <3>2. CASE n \in starts
      <4>1. dev'[n].faulted # {} /\ Told(dev'[n]) /\ (Up(dev'[n]) \/ Down(dev'[n]))
        BY <1>13, <2>1, <3>2 DEF StartedFrom, Restarted
      <4> QED
        BY <2>1, <4>1 DEF Told, Up, Down
    <3>3. CASE n \notin restarts /\ n \notin starts
      BY <1>14, <2>1, <3>3
    <3> QED
      BY <3>1, <3>2, <3>3
  <2>2. \A n \in Names : Enabled(cfg', n) = Enabled(c, n) /\ cfg'[n] = c[n]
    BY <1>1 DEF Enabled
  <2> QED
    BY <2>1, <2>2 DEF ProofKept
<1> QED
  BY <1>1, <1>18, <1>19, <1>20, <1>21, <1>23, <1>24, <1>25
     DEF IInv, LoopPrompted, DeadlinesWaitedFor, TimerArmed, DevicesAdvertised

----------------------------------------------------------------------------
(* The theorems *)

\* The appliance starts with nothing to keep.
LEMMA InitKeeps == Init => IInv
<1> SUFFICES ASSUME Init PROVE IInv
  OBVIOUS
<1>1. NoDevice \in Device
  <2>1. 0 \in 0 .. Top
    BY DeviceBounds
  <2>2. NoRetry \in RetryState /\ NoGeometry \in GeometryState
    BY NoRetryType, NoGeometryType
  <2> QED
    BY <2>1, <2>2 DEF NoDevice, Device
<1>2. Told(NoDevice) /\ Off(NoDevice)
  BY NoRetryType, NoGeometryType, DeviceBounds DEF NoDevice, Told, Off
<1>3. \A n \in Names : dev[n] = NoDevice /\ cfg[n] = None /\ announced[n] = None
  BY DEF Init
<1>4. alive = 0 /\ alive = PumpsOf(dev)
  <2> DEFINE zero == [n \in Names |-> PumpCount(dev[n])]
  <2>1. \A n \in Names : PumpCount(dev[n]) = 0
    BY <1>3 DEF PumpCount, NoDevice
  <2>2. zero \in [Names -> Int] /\ \A n \in Names : zero[n] = zero[n] + zero[n]
    BY <2>1
  <2>3. PumpsOf(dev) = Total(zero)
    BY DEF PumpsOf
  <2> HIDE DEF zero
  <2>4. Total(zero) = Total(zero) + Total(zero) /\ Total(zero) \in Int
    BY <2>2, TotalOfSums
  <2>5. alive = 0
    BY DEF Init
  <2>6. \A t \in Int : t = t + t => t = 0
    OBVIOUS
  <2>7. Total(zero) = 0
    BY <2>4, <2>6
  <2> QED
    BY <2>3, <2>5, <2>7
<1>5. TypeOK
  <2>1. dev \in [Names -> Device]
    BY <1>1 DEF Init
  <2>2. cfg \in [Names -> AnyEntry \cup {None}] /\ announced \in [Names -> AnyEntry \cup {None}]
    BY DEF Init
  <2>3. \A n \in Names : cfg[n] \in Entries[n] \cup {None}
    BY <1>3
  <2>4. retryAt \in Deadline /\ timer \in Deadline /\ due \in BOOLEAN /\ discovery \in BOOLEAN
    BY DEF Init, Deadline
  <2>5. host \in [Ids -> AnyAnswer]
    BY DEF Init, AnyAnswer
  <2>6. alive \in Int
    BY <1>4
  <2> QED
    BY <2>1, <2>2, <2>3, <2>4, <2>5, <2>6 DEF TypeOK
<1>6. \A n \in Names : Kept(dev[n], cfg, n)
  BY <1>2, <1>3 DEF Kept, Enabled
<1>7. \A n \in Names : Prompted(dev[n], due) /\ Waits(dev[n].retry, retryAt) /\ Advertised(dev[n], announced[n], discovery)
  BY <1>3, NoneIsNoCause DEF Prompted, Waits, Advertised, NoDevice, NoRetry
<1>8. TimerArmed
  BY DEF Init, TimerArmed
<1> QED
  BY <1>4, <1>5, <1>6, <1>7, <1>8 DEF IInv, DevicesKept, LoopPrompted, DeadlinesWaitedFor, DevicesAdvertised

\* A save of any configuration keeps the invariant.
LEMMA SaveKeeps ==
    ASSUME IInv, Save
    PROVE  IInv' /\ ProofKept
<1>1. PICK c \in [Names -> AnyEntry \cup {None}], on \in Discoveries :
        (\A n \in Names : c[n] \in Entries[n] \cup {None}) /\ Reconcile(c, on)
  BY DEF Save, AnyEntry
<1>2. on \in BOOLEAN
  BY DeviceBounds
<1> QED
  BY <1>1, <1>2, ReconcileKeeps

\* Every step keeps the invariant, and clears no condition before its proof.
LEMMA StepKeeps == IInv /\ [Next]_vars => IInv' /\ ProofKept
<1> SUFFICES ASSUME IInv, [Next]_vars PROVE IInv' /\ ProofKept
  OBVIOUS
<1>1. CASE Save
  BY <1>1, SaveKeeps
<1>2. CASE RetryDown
  BY <1>2, RetryDownKeeps
<1>3. CASE OnRetryDue
  BY <1>3, RetryDueKeeps
<1>4. ASSUME NEW n \in Names, OnStalePumpDone(n) PROVE IInv' /\ ProofKept
  BY <1>4, StalePumpDoneKeeps
<1>5. ASSUME NEW n \in Names, OnPumpDone(n) PROVE IInv' /\ ProofKept
  BY <1>5, PumpDoneKeeps
<1>6. ASSUME NEW n \in Names, ServesAnHour(n) PROVE IInv' /\ ProofKept
  BY <1>6, ServesAnHourKeeps
<1>7. ASSUME NEW n \in Names, PumpEnds(n) PROVE IInv' /\ ProofKept
  BY <1>7, PumpEndsKeeps
<1>8. ASSUME NEW n \in Names, NEW s \in Streams, NoteEncoded(n, s) PROVE IInv' /\ ProofKept
  BY <1>8, NoteEncodedKeeps
<1>9. CASE Tick
  BY <1>9, TickKeeps
<1>10. CASE TimerFires
  BY <1>10, TimerFiresKeeps
<1>11. CASE HostChanges
  BY <1>11, HostChangesKeeps
<1>12. CASE Enumerate \/ UNCHANGED vars
  BY <1>12, EnumerateKeeps
<1> QED
  BY <1>1, <1>2, <1>3, <1>4, <1>5, <1>6, <1>7, <1>8, <1>9, <1>10, <1>11, <1>12 DEF Next

\* What is kept of every device holds from the start and through every handler of
\* the run loop, every death, retry, hotplug and save.
THEOREM DeviceInvariant == Spec => []IInv
<1>1. IInv /\ [Next]_vars => IInv'
  BY StepKeeps
<1> QED
  BY <1>1, InitKeeps, PTL DEF Spec

\* The count of pumps is right and each serving device has its own, with its
\* track, whichever pump ends when and whatever replaced it meanwhile.
THEOREM PumpsAreAccounted == Spec => []PumpsAccounted
<1>1. ASSUME IInv PROVE PumpsAccounted
  <2>1. dev \in [Names -> Device] /\ alive = PumpsOf(dev)
    BY <1>1 DEF IInv, TypeOK
  <2>2. alive = Live(dev) + Total([n \in Names |-> dev[n].stale])
    BY <2>1, PumpsAreLiveOrStale
  <2>3. ASSUME NEW n \in Names
        PROVE  (dev[n].st = "serving") = (dev[n].pump # None) /\ dev[n].mounted = (dev[n].pump # None)
    <3>1. Kept(dev[n], cfg, n) /\ dev[n].mounted \in BOOLEAN
      BY <1>1, <2>1 DEF IInv, DevicesKept, Device
    <3>2. CASE Up(dev[n])
      BY <3>1, <3>2 DEF Up
    <3>3. CASE Down(dev[n])
      BY <3>1, <3>3 DEF Down, IsDown
    <3>4. CASE Off(dev[n])
      BY <3>1, <3>4, NoneIsNoCause DEF Off
    <3> QED
      BY <3>1, <3>2, <3>3, <3>4 DEF Kept
  <2> QED
    BY <2>2, <2>3 DEF PumpsAccounted
<1> QED
  BY <1>1, DeviceInvariant, PTL

\* The device-down condition is active, with the cause, exactly while it should
\* be, and the capture-period one never without its escalation.
THEOREM DeviceDownIsTold == Spec => []DownIsTold
<1>1. ASSUME IInv PROVE DownIsTold
  <2>1. ASSUME NEW n \in Names
        PROVE  /\ dev[n].downCond = dev[n].downReason
               /\ (dev[n].downReason # None) = (IsDown(dev[n]) \/ (dev[n].st = "serving" /\ Retrying(dev[n])))
               /\ dev[n].st = "serving" /\ dev[n].step = 0 => dev[n].periodCond = 0
               /\ dev[n].periodCond > 0 => dev[n].geometry.step > 0 /\ Enabled(cfg, n)
    <3>1. Kept(dev[n], cfg, n) /\ Told(dev[n])
      BY <1>1 DEF IInv, DevicesKept, Kept
    <3>2. CASE Up(dev[n])
      <4>1. Enabled(cfg, n)
        BY <3>1, <3>2, NoneIsNoCause DEF Kept, Up, Off
      <4> QED
        BY <3>1, <3>2, <4>1 DEF Told, Up, IsDown
    <3>3. CASE Down(dev[n])
      <4>1. Enabled(cfg, n)
        BY <3>1, <3>3, NoneIsNoCause DEF Kept, Down, IsDown, Off
      <4> QED
        BY <3>1, <3>3, <4>1 DEF Told, Down, IsDown
    <3>4. CASE Off(dev[n])
      <4>1. dev[n].geometry.of = None
        BY <3>4, NoGeometryType DEF Off
      <4>2. dev[n].periodCond = 0
        BY <3>1, <4>1 DEF Told
      <4>3. dev[n].st \notin {"serving", "skipped", "failed"} /\ dev[n].downReason = None
        BY <3>4, NoneIsNoCause DEF Off
      <4> QED
        BY <3>1, <4>2, <4>3 DEF Told, IsDown
    <3> QED
      BY <3>1, <3>2, <3>3, <3>4 DEF Kept
  <2> QED
    BY <2>1 DEF DownIsTold
<1> QED
  BY <1>1, DeviceInvariant, PTL

\* No restart is forgotten: a retry that can help is scheduled, a restart that
\* waits has what ends its wait, and the timer is armed for it.
THEOREM RetriesAreWoken == Spec => []RetryHasWakeup
<1>1. ASSUME IInv PROVE RetryHasWakeup
  <2> SUFFICES ASSUME NEW n \in Names
        PROVE  LET x == dev[n] IN
               /\ IsDown(x) /\ ~IsCardIndex(x.entry) /\ RetryableCause(x.downReason) => x.retried /\ x.retry.next # None
               /\ x.st = "serving" /\ Retrying(x) =>
                      x.retry.settle # None \/ (x.retry.awaitEncode /\ x.await /\ (EncodedAll(x) => due))
               /\ \A t \in {x.retry.next, x.retry.settle} \ {None} : due \/ (timer # None /\ timer <= t)
    BY DEF RetryHasWakeup
  <2> DEFINE x == dev[n]
  <2>1. Kept(x, cfg, n) /\ Prompted(x, due) /\ Waits(x.retry, retryAt) /\ TimerArmed
    BY <1>1 DEF IInv, DevicesKept, LoopPrompted, DeadlinesWaitedFor
  <2>2. IsDown(x) => Down(x)
    BY <2>1, NoneIsNoCause DEF Kept, Up, Off, IsDown
  <2>3. x.st = "serving" => Up(x)
    BY <2>1, NoneIsNoCause DEF Kept, Down, Off, IsDown
  <2>4. IsDown(x) /\ ~IsCardIndex(x.entry) /\ RetryableCause(x.downReason) => x.retried /\ x.retry.next # None
    BY <2>2 DEF Down
  <2>5. x.st = "serving" /\ Retrying(x) =>
            x.retry.settle # None \/ (x.retry.awaitEncode /\ x.await /\ (EncodedAll(x) => due))
    BY <2>1, <2>3 DEF Up, Prompted
  <2>6. \A t \in {x.retry.next, x.retry.settle} \ {None} : due \/ (timer # None /\ timer <= t)
    BY <2>1 DEF Waits, TimerArmed
  <2> QED
    BY <2>4, <2>5, <2>6
<1> QED
  BY <1>1, DeviceInvariant, PTL

\* Discovery finds every device a client could play, with the parameters it has.
THEOREM DevicesAreDiscoverable == Spec => []Discoverable
<1>1. ASSUME IInv PROVE Discoverable
  BY <1>1 DEF IInv, DevicesAdvertised, Advertised, Discoverable
<1> QED
  BY <1>1, DeviceInvariant, PTL

\* The condition an encode fault raised is cleared by the proof it waits for and
\* by nothing else that leaves the device configured as it is.
THEOREM ProofComesFirst == Spec => ProofBeforeClear
<1>1. IInv /\ [Next]_vars =>
        [\A n \in Names :
            (/\ dev[n].faulted # {} /\ dev[n].downCond # None /\ dev'[n].downCond = None
             /\ Enabled(cfg', n) /\ CaptureParamsEqual(dev[n].faultOf, cfg'[n]))
            => dev[n].st = "serving" /\ EncodedAll(dev[n])]_vars
  BY StepKeeps DEF ProofKept
<1> QED
  BY <1>1, DeviceInvariant, PTL DEF Spec, ProofBeforeClear

==============================================================================
