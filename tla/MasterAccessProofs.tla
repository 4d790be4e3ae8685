-------------------------- MODULE MasterAccessProofs --------------------------
(* Theorems about RateLimiter and MasterAccess, for any clients, addresses, *)
(* rates, window and size of the log.                                      *)
(*                                                                         *)
(* MasterAccess has two limiters that differ in their rate, so what is     *)
(* known of one is stated of values: the rate R, the windows l, what       *)
(* passed a, and the time t.                                               *)
EXTENDS MasterAccess, SequenceTheorems, TLAPS

(* Of the first n of s, any two that are d places apart differ by more     *)
(* than W.                                                                 *)
Spaced(s, n, d, W) == \A i \in 1..n : i + d <= n => s[i + d] > s[i] + W

(* Times of admission never decrease and are not in the future.            *)
Ordered(s, t) ==
    /\ \A i \in 1..Len(s) : s[i] <= t
    /\ \A i, j \in 1..Len(s) : i <= j => s[i] <= s[j]

(* Request number b of the visitor opened its latest window.  The one R    *)
(* places before it was in an earlier window, which was over by then.      *)
Opened(R, l, a, t, ip, b) ==
    /\ Len(a[ip]) < b + R
    /\ b > R => a[ip][b] > a[ip][b - R] + Window
    /\ IF ip \in DOMAIN l
       THEN /\ l[ip].resetAt = a[ip][b] + Window
            /\ IF l[ip].count <= R
               THEN l[ip].count = Len(a[ip]) - b + 1
               ELSE R = Len(a[ip]) - b + 1
       ELSE t > a[ip][b] + Window

VisitorInv(R, l, a, t, ip) ==
    /\ Ordered(a[ip], t)
    /\ IF a[ip] = <<>>
       THEN ip \notin DOMAIN l
       ELSE \E b \in 1..Len(a[ip]) : Opened(R, l, a, t, ip, b)
    /\ Spaced(a[ip], Len(a[ip]), 2 * R, Window)

Typed(l, a, t) ==
    /\ DOMAIN l \subseteq Visitors
    /\ \A ip \in DOMAIN l : l[ip] \in Entry
    /\ a \in [Visitors -> Seq(Nat)]
    /\ t \in Nat

LimiterInv(R, l, a, t) ==
    Typed(l, a, t) /\ \A ip \in Visitors : VisitorInv(R, l, a, t, ip)

(* What a limiter of rate R does in a step.                                *)
NewWindowIn(l, t, ip) == ip \notin DOMAIN l \/ t > l[ip].resetAt

CountedIn(l, t, ip) ==
    IF NewWindowIn(l, t, ip)
    THEN [count |-> 1, resetAt |-> t + Window]
    ELSE [count |-> l[ip].count + 1, resetAt |-> l[ip].resetAt]

Counts(l, t, ip) ==
    [v \in DOMAIN l \cup {ip} |-> IF v = ip THEN CountedIn(l, t, ip) ELSE l[v]]

Admits(R, l, a, t, l2, a2, t2, ip) ==
    /\ CountedIn(l, t, ip).count <= R
    /\ l2 = Counts(l, t, ip) /\ t2 = t
    /\ a2 = [a EXCEPT ![ip] = Append(@, t)]

Refuses(R, l, a, t, l2, a2, t2, ip) ==
    /\ ~(CountedIn(l, t, ip).count <= R)
    /\ l2 = Counts(l, t, ip) /\ t2 = t /\ a2 = a

Drops(l, a, t, l2, a2, t2) ==
    /\ l2 = [ip \in {v \in DOMAIN l : ~(t > l[v].resetAt)} |-> l[ip]]
    /\ a2 = a /\ t2 = t

Forgets(l, a, t, l2, a2, t2) ==
    /\ DOMAIN l2 = {} /\ a2 = [ip \in Visitors |-> <<>>] /\ t2 = t

Waits(l, a, t, l2, a2, t2) == l2 = l /\ a2 = a /\ t2 \in {t, t + 1}

Steps(R, l, a, t, l2, a2, t2) ==
    \/ \E ip \in Visitors : \/ Admits(R, l, a, t, l2, a2, t2, ip)
                            \/ Refuses(R, l, a, t, l2, a2, t2, ip)
    \/ Drops(l, a, t, l2, a2, t2)
    \/ Forgets(l, a, t, l2, a2, t2)
    \/ Waits(l, a, t, l2, a2, t2)

-----------------------------------------------------------------------------
(* The arithmetic.  s lists the n requests that passed, t one more, at     *)
(* the time last.                                                          *)

(* It opens a window: that of b, at most R places back, is over.           *)
LEMMA OpenedLater ==
  ASSUME NEW R \in Nat, R > 0, NEW W \in Nat, NEW n \in Nat, NEW last \in Nat,
         NEW s, NEW t,
         \A i \in 1..n : s[i] \in Nat /\ t[i] = s[i],
         \A i, j \in 1..n : i <= j => s[i] <= s[j],
         t[n + 1] = last, Spaced(s, n, 2 * R, W),
         NEW b \in 1..n, n < b + R, last > s[b] + W
  PROVE  /\ Spaced(t, n + 1, 2 * R, W)
         /\ n + 1 > R => t[n + 1] > t[n + 1 - R] + W
<1>1. ASSUME NEW i \in 1..n, i + R <= n + 1
      PROVE  last > t[i] + W
  <2>1. i <= b
    BY <1>1
  <2>2. s[i] <= s[b] /\ s[i] \in Nat /\ s[b] \in Nat
    BY <2>1
  <2> QED
    BY <2>2
<1>2. ASSUME n + 1 > R PROVE t[n + 1] > t[n + 1 - R] + W
  <2>1. n + 1 - R \in 1..n /\ (n + 1 - R) + R <= n + 1
    BY <1>2
  <2> QED
    BY <1>1, <2>1
<1>3. ASSUME NEW i \in 1..(n + 1), i + 2 * R <= n + 1
      PROVE  t[i + 2 * R] > t[i] + W
  <2>1. i \in 1..n /\ i + R <= n + 1 /\ i + 2 * R \in 1..(n + 1)
    BY <1>3
  <2>2. CASE i + 2 * R = n + 1
    BY <1>1, <2>1, <2>2
  <2>3. CASE i + 2 * R # n + 1
    <3>1. i + 2 * R \in 1..n /\ i + 2 * R <= n
      BY <2>1, <2>3
    <3> QED
      BY <2>1, <3>1 DEF Spaced
  <2> QED
    BY <2>2, <2>3
<1> QED
  BY <1>2, <1>3 DEF Spaced

(* It is counted in the open window, which b opened less than R places     *)
(* before it.                                                              *)
LEMMA CountedLater ==
  ASSUME NEW R \in Nat, R > 0, NEW W \in Nat, NEW n \in Nat, NEW last \in Nat,
         NEW s, NEW t,
         \A i \in 1..n : s[i] \in Nat /\ t[i] = s[i] /\ s[i] <= last,
         \A i, j \in 1..n : i <= j => s[i] <= s[j],
         t[n + 1] = last, Spaced(s, n, 2 * R, W),
         NEW b \in 1..n, n + 1 < b + R, b > R => s[b] > s[b - R] + W
  PROVE  Spaced(t, n + 1, 2 * R, W)
<1>1. ASSUME NEW i \in 1..(n + 1), i + 2 * R <= n + 1
      PROVE  t[i + 2 * R] > t[i] + W
  <2>1. i \in 1..n /\ i + 2 * R \in 1..(n + 1)
    BY <1>1
  <2>2. CASE i + 2 * R = n + 1
    <3>1. b > R /\ b - R \in 1..n /\ i <= b - R
      BY <2>1, <2>2
    <3>2. s[b] > s[b - R] + W /\ s[i] <= s[b - R] /\ s[b] <= last
      BY <2>1, <3>1
    <3>3. s[b] \in Nat /\ s[b - R] \in Nat /\ s[i] \in Nat
      BY <2>1, <3>1
    <3> QED
      BY <2>1, <2>2, <3>2, <3>3
  <2>3. CASE i + 2 * R # n + 1
    <3>1. i + 2 * R \in 1..n /\ i + 2 * R <= n
      BY <2>1, <2>3
    <3> QED
      BY <2>1, <3>1 DEF Spaced
  <2> QED
    BY <2>2, <2>3
<1> QED
  BY <1>1 DEF Spaced
-----------------------------------------------------------------------------
(* One limiter.                                                            *)
LEMMA LimiterStarts ==
  ASSUME NEW l, NEW a, NEW t \in Nat, NEW R,
         DOMAIN l = {}, a = [ip \in Visitors |-> <<>>]
  PROVE  LimiterInv(R, l, a, t)
BY DEF LimiterInv, Typed, VisitorInv, Ordered, Spaced

LEMMA CountedType ==
  ASSUME NEW l, NEW a, NEW t, Typed(l, a, t), NEW ip \in Visitors
  PROVE  /\ CountedIn(l, t, ip) \in Entry
         /\ DOMAIN Counts(l, t, ip) \subseteq Visitors
         /\ ip \in DOMAIN Counts(l, t, ip)
         /\ Counts(l, t, ip)[ip] = CountedIn(l, t, ip)
         /\ \A v \in DOMAIN Counts(l, t, ip) : Counts(l, t, ip)[v] \in Entry
<1>1. CountedIn(l, t, ip) \in Entry
  <2>1. CASE NewWindowIn(l, t, ip)
    BY <2>1, WindowAssumption DEF CountedIn, Entry, Typed
  <2>2. CASE ~NewWindowIn(l, t, ip)
    <3>1. l[ip] \in Entry
      BY <2>2 DEF NewWindowIn, Typed
    <3> QED
      BY <2>2, <3>1 DEF CountedIn, Entry
  <2> QED
    BY <2>1, <2>2
<1> QED
  BY <1>1 DEF Counts, Typed

LEMMA TypedStep ==
  ASSUME NEW R, NEW l, NEW a, NEW t, NEW l2, NEW a2, NEW t2,
         Typed(l, a, t), Steps(R, l, a, t, l2, a2, t2)
  PROVE  Typed(l2, a2, t2)
<1>1. ASSUME NEW ip \in Visitors, Admits(R, l, a, t, l2, a2, t2, ip)
      PROVE  Typed(l2, a2, t2)
  <2>1. a2 \in [Visitors -> Seq(Nat)] /\ t2 \in Nat
    BY <1>1 DEF Admits, Typed
  <2> QED
    BY <1>1, <2>1, CountedType DEF Admits, Typed
<1>2. ASSUME NEW ip \in Visitors, Refuses(R, l, a, t, l2, a2, t2, ip)
      PROVE  Typed(l2, a2, t2)
  <2>1. a2 \in [Visitors -> Seq(Nat)] /\ t2 \in Nat
    BY <1>2 DEF Refuses, Typed
  <2> QED
    BY <1>2, <2>1, CountedType DEF Refuses, Typed
<1>3. CASE Drops(l, a, t, l2, a2, t2)
  BY <1>3 DEF Drops, Typed
<1>4. CASE Forgets(l, a, t, l2, a2, t2)
  BY <1>4 DEF Forgets, Typed
<1>5. CASE Waits(l, a, t, l2, a2, t2)
  BY <1>5 DEF Waits, Typed
<1> QED
  BY <1>1, <1>2, <1>3, <1>4, <1>5 DEF Steps

(* A request that passes: it opens a window that the last one's end        *)
(* precedes, or it is one of the first R of the open window.            *)
LEMMA AdmitOwn ==
  ASSUME NEW R \in Nat, R > 0, NEW l, NEW a, NEW time, NEW l2, NEW a2, NEW later,
         LimiterInv(R, l, a, time), NEW ip \in Visitors,
         Admits(R, l, a, time, l2, a2, later, ip)
  PROVE  VisitorInv(R, l2, a2, later, ip)
<1> DEFINE s == a[ip]
           t == a2[ip]
           n == Len(s)
<1>0. R \in Nat /\ R > 0 /\ Window \in Nat
  BY WindowAssumption
<1>1. /\ s \in Seq(Nat) /\ n \in Nat /\ time \in Nat
      /\ \A i \in 1..n : s[i] \in Nat
      /\ ip \in DOMAIN l => l[ip] \in Entry
  BY DEF LimiterInv, Typed
<1>2. /\ t = Append(s, time)
      /\ later = time
      /\ ip \in DOMAIN l2 /\ l2[ip] = CountedIn(l, time, ip)
  BY <1>1, CountedType DEF Admits, LimiterInv, Typed
<1>3. /\ Len(t) = n + 1 /\ t[n + 1] = time
      /\ \A i \in 1..n : t[i] = s[i]
      /\ t # <<>>
  BY <1>1, <1>2
<1>4. VisitorInv(R, l, a, time, ip)
  BY DEF LimiterInv
<1>5. /\ \A i \in 1..n : s[i] <= time
      /\ \A i, j \in 1..n : i <= j => s[i] <= s[j]
      /\ Spaced(s, n, 2 * R, Window)
  BY <1>4 DEF VisitorInv, Ordered
<1> HIDE DEF s, t, n
<1>6. /\ \A i \in 1..Len(t) : t[i] <= later
      /\ \A i, j \in 1..Len(t) : i <= j => t[i] <= t[j]
  <2>1. \A i \in 1..Len(t) : t[i] <= time
    BY <1>1, <1>3, <1>5
  <2>2. ASSUME NEW i \in 1..Len(t), NEW j \in 1..Len(t), i <= j
        PROVE  t[i] <= t[j]
    <3>1. CASE j = n + 1
      BY <1>1, <1>3, <2>1, <3>1
    <3>2. CASE j # n + 1
      <4>1. i \in 1..n /\ j \in 1..n
        BY <1>1, <1>3, <2>2, <3>2
      <4> QED
        BY <1>3, <1>5, <2>2, <4>1
    <3> QED
      BY <3>1, <3>2
  <2> QED
    BY <1>2, <2>1, <2>2
<1>7. SUFFICES /\ Spaced(t, n + 1, 2 * R, Window)
               /\ \E b \in 1..(n + 1) : Opened(R, l2, a2, later, ip, b)
  BY <1>3, <1>6 DEF VisitorInv, Ordered, t
<1>8. CASE NewWindowIn(l, time, ip)
  <2>1. l2[ip] = [count |-> 1, resetAt |-> time + Window]
    BY <1>2, <1>8 DEF CountedIn
  <2>2. /\ Spaced(t, n + 1, 2 * R, Window)
        /\ n + 1 > R => t[n + 1] > t[n + 1 - R] + Window
    <3>3. CASE s = <<>>
      <4>1. n = 0
        BY <3>3 DEF n
      <4> QED
        BY <1>0, <4>1 DEF Spaced
    <3>4. CASE s # <<>>
      <4>1. PICK b \in 1..n : Opened(R, l, a, time, ip, b)
        BY <1>4, <3>4 DEF VisitorInv, s, n
      <4>2. n < b + R /\ time > s[b] + Window
        BY <1>1, <1>8, <4>1 DEF Opened, NewWindowIn, s, n
      <4> QED
        BY <1>0, <1>1, <1>3, <1>5, <4>2, OpenedLater
    <3> QED
      BY <3>3, <3>4
  <2>3. l2[ip].count = 1 /\ l2[ip].resetAt = t[n + 1] + Window
    BY <1>3, <2>1
  <2>4. PICK b \in 1..(n + 1) : b = n + 1
    BY <1>1
  <2>5. n + 1 < b + R /\ (n + 1) - b + 1 = 1
    BY <1>0, <1>1, <2>4
  <2>6. Opened(R, l2, a2, later, ip, b)
    BY <1>0, <1>1, <1>2, <1>3, <2>2, <2>3, <2>4, <2>5 DEF Opened, t
  <2> QED
    BY <2>2, <2>4, <2>6
<1>9. CASE ~NewWindowIn(l, time, ip)
  <2>1. /\ ip \in DOMAIN l /\ l[ip] \in Entry
        /\ CountedIn(l, time, ip).count = l[ip].count + 1
        /\ CountedIn(l, time, ip).resetAt = l[ip].resetAt
    BY <1>1, <1>9 DEF CountedIn, NewWindowIn, Entry
  <2>2. l[ip].count + 1 <= R /\ l[ip].count \in Nat
    BY <2>1 DEF Admits, Entry
  <2>3. s # <<>>
    BY <1>4, <2>1 DEF VisitorInv, s
  <2>4. PICK b \in 1..n : Opened(R, l, a, time, ip, b)
    BY <1>4, <2>3 DEF VisitorInv, s, n
  <2>5. /\ l[ip].count = n - b + 1
        /\ l[ip].resetAt = s[b] + Window
        /\ b > R => s[b] > s[b - R] + Window
    <3>1. /\ IF l[ip].count <= R THEN l[ip].count = n - b + 1
                                         ELSE R = n - b + 1
          /\ l[ip].resetAt = s[b] + Window
          /\ b > R => s[b] > s[b - R] + Window
      BY <2>1, <2>4, Zenon DEF Opened, s, n
    <3> QED
      BY <1>0, <2>2, <3>1
  <2>6. n + 1 < b + R
    BY <1>0, <1>1, <2>2, <2>5
  <2>7. Spaced(t, n + 1, 2 * R, Window)
    BY <1>0, <1>1, <1>3, <1>5, <2>5, <2>6, CountedLater
  <2>8. b > R => b - R \in 1..n
    BY <1>0, <1>1
  <2>9. Opened(R, l2, a2, later, ip, b)
    <3>1. Len(t) < b + R
      BY <1>3, <2>6
    <3>2. b > R => t[b] > t[b - R] + Window
      BY <1>3, <2>5, <2>8
    <3>3. /\ ip \in DOMAIN l2 /\ l2[ip].resetAt = t[b] + Window
          /\ l2[ip].count <= R
      BY <1>2, <1>3, <2>1, <2>2, <2>5
    <3>4. l2[ip].count = Len(t) - b + 1
      BY <1>1, <1>2, <1>3, <2>1, <2>5
    <3> QED
      BY <3>1, <3>2, <3>3, <3>4, Zenon DEF Opened, t
  <2> QED
    BY <1>1, <2>7, <2>9
<1> QED
  BY <1>8, <1>9

(* A refused request counts up the entry of an open window that is full.   *)
LEMMA RefuseOwn ==
  ASSUME NEW R \in Nat, R > 0, NEW l, NEW a, NEW time, NEW l2, NEW a2, NEW later,
         LimiterInv(R, l, a, time), NEW ip \in Visitors,
         Refuses(R, l, a, time, l2, a2, later, ip)
  PROVE  /\ VisitorInv(R, l2, a2, later, ip)
         /\ Len(a[ip]) >= R
         /\ a[ip][Len(a[ip]) - R + 1] + Window >= time
<1> DEFINE n == Len(a[ip])
<1>1. /\ a[ip] \in Seq(Nat) /\ n \in Nat /\ time \in Nat
      /\ \A i \in 1..n : a[ip][i] \in Nat
      /\ ip \in DOMAIN l => l[ip] \in Entry
      /\ R \in Nat /\ R > 0 /\ Window \in Nat
  BY WindowAssumption DEF LimiterInv, Typed
<1>2. VisitorInv(R, l, a, time, ip)
  BY DEF LimiterInv
<1>3. ~NewWindowIn(l, time, ip)
  <2> SUFFICES ASSUME NewWindowIn(l, time, ip) PROVE FALSE
    OBVIOUS
  <2>1. CountedIn(l, time, ip).count = 1
    BY DEF CountedIn
  <2> QED
    BY <1>1, <2>1 DEF Refuses
<1>4. /\ ip \in DOMAIN l /\ l[ip] \in Entry
      /\ CountedIn(l, time, ip).count = l[ip].count + 1
      /\ CountedIn(l, time, ip).resetAt = l[ip].resetAt
      /\ time <= l[ip].resetAt
  BY <1>1, <1>3 DEF CountedIn, NewWindowIn, Entry
<1>5. l[ip].count >= R
  BY <1>1, <1>4 DEF Refuses, Entry
<1>6. PICK b \in 1..n : Opened(R, l, a, time, ip, b)
  BY <1>2, <1>4 DEF VisitorInv
<1>7. R = n - b + 1 /\ l[ip].resetAt = a[ip][b] + Window
  <2>1. /\ l[ip].resetAt = a[ip][b] + Window
        /\ IF l[ip].count <= R THEN l[ip].count = n - b + 1
                                       ELSE R = n - b + 1
    BY <1>4, <1>6, Zenon DEF Opened
  <2>2. l[ip].count \in Nat
    BY <1>4 DEF Entry
  <2> HIDE DEF n
  <2> QED
    BY <1>1, <1>5, <2>1, <2>2
<1>8. /\ a2[ip] = a[ip] /\ later = time
      /\ ip \in DOMAIN l2 /\ l2[ip] = CountedIn(l, time, ip)
  BY CountedType DEF Refuses, LimiterInv
<1>9. Opened(R, l2, a2, later, ip, b)
  BY <1>1, <1>4, <1>5, <1>6, <1>7, <1>8 DEF Opened, Entry
<1>10. VisitorInv(R, l2, a2, later, ip)
  <2>1. Ordered(a2[ip], later) /\ Spaced(a2[ip], Len(a2[ip]), 2 * R, Window)
    BY <1>2, <1>8 DEF VisitorInv
  <2>2. a2[ip] # <<>> /\ \E c \in 1..Len(a2[ip]) : Opened(R, l2, a2, later, ip, c)
    BY <1>1, <1>6, <1>8, <1>9
  <2> QED
    BY <2>1, <2>2 DEF VisitorInv
<1>11. n >= R /\ n - R + 1 = b
  <2> HIDE DEF n
  <2> QED
    BY <1>1, <1>6, <1>7
<1> QED
  BY <1>4, <1>7, <1>10, <1>11

(* Whatever leaves the log and the entry of a visitor alone, or drops an   *)
(* entry whose window is over, keeps what is known of it as time goes on.  *)
LEMMA OthersKept ==
  ASSUME NEW R \in Nat, R > 0, NEW l, NEW a, NEW time, NEW l2, NEW a2, NEW later,
         LimiterInv(R, l, a, time), NEW ip \in Visitors,
         a2[ip] = a[ip], later \in Nat, later >= time,
         \/ /\ ip \in DOMAIN l2 <=> ip \in DOMAIN l
            /\ ip \in DOMAIN l => l2[ip] = l[ip]
         \/ ip \in DOMAIN l /\ time > l[ip].resetAt /\ ip \notin DOMAIN l2
  PROVE  VisitorInv(R, l2, a2, later, ip)
<1>1. /\ a[ip] \in Seq(Nat) /\ time \in Nat
      /\ \A i \in 1..Len(a[ip]) : a[ip][i] \in Nat
  BY DEF LimiterInv, Typed
<1>2. VisitorInv(R, l, a, time, ip)
  BY DEF LimiterInv
<1>3. Ordered(a2[ip], later)
  BY <1>1, <1>2 DEF VisitorInv, Ordered
<1>4. ASSUME NEW b \in 1..Len(a[ip]), Opened(R, l, a, time, ip, b)
      PROVE  Opened(R, l2, a2, later, ip, b)
  <2>0. a[ip][b] \in Nat /\ Window \in Nat
    BY <1>1, WindowAssumption
  <2>1. CASE ip \notin DOMAIN l
    BY <1>1, <1>4, <2>0, <2>1 DEF Opened
  <2>2. CASE /\ ip \in DOMAIN l /\ ip \in DOMAIN l2
             /\ l2[ip] = l[ip]
    BY <1>4, <2>2 DEF Opened
  <2>3. CASE ip \in DOMAIN l /\ time > l[ip].resetAt /\ ip \notin DOMAIN l2
    BY <1>1, <1>4, <2>0, <2>3 DEF Opened
  <2> QED
    BY <2>1, <2>2, <2>3
<1> QED
  BY <1>2, <1>3, <1>4 DEF VisitorInv


LEMMA LimiterStep ==
  ASSUME NEW R \in Nat, R > 0, NEW l, NEW a, NEW t, NEW l2, NEW a2, NEW t2,
         LimiterInv(R, l, a, t), Steps(R, l, a, t, l2, a2, t2)
  PROVE  LimiterInv(R, l2, a2, t2)
<1>1. Typed(l, a, t) /\ Typed(l2, a2, t2)
  BY TypedStep DEF LimiterInv
<1>2. ASSUME NEW ip \in Visitors PROVE VisitorInv(R, l2, a2, t2, ip)
  <2>1. CASE Forgets(l, a, t, l2, a2, t2)
    BY <2>1 DEF Forgets, VisitorInv, Ordered, Spaced
  <2>2. CASE Drops(l, a, t, l2, a2, t2)
    <3>1. a2[ip] = a[ip] /\ t2 \in Nat /\ t2 >= t
      BY <1>1, <2>2 DEF Drops, Typed
    <3> QED
      BY <2>2, <3>1, OthersKept DEF Drops
  <2>3. CASE Waits(l, a, t, l2, a2, t2)
    <3>1. a2[ip] = a[ip] /\ l2 = l /\ t2 \in Nat /\ t2 >= t
      BY <1>1, <2>3 DEF Waits, Typed
    <3> QED
      BY <3>1, OthersKept
  <2>4. ASSUME NEW v \in Visitors,
               \/ Admits(R, l, a, t, l2, a2, t2, v)
               \/ Refuses(R, l, a, t, l2, a2, t2, v)
        PROVE  VisitorInv(R, l2, a2, t2, ip)
    <3>1. CASE v = ip
      BY <2>4, <3>1, AdmitOwn, RefuseOwn
    <3>2. CASE v # ip
      <4>1. a2[ip] = a[ip] /\ t2 = t /\ t \in Nat
        BY <1>1, <2>4, <3>2 DEF Admits, Refuses, Typed
      <4>2. /\ ip \in DOMAIN l2 <=> ip \in DOMAIN l
            /\ ip \in DOMAIN l => l2[ip] = l[ip]
        BY <2>4, <3>2 DEF Admits, Refuses, Counts
      <4> QED
        BY <4>1, <4>2, OthersKept
    <3> QED
      BY <3>1, <3>2
  <2> QED
    BY <2>1, <2>2, <2>3, <2>4 DEF Steps
<1> QED
  BY <1>1, <1>2 DEF LimiterInv

LEMMA LimiterBudget ==
  ASSUME NEW R \in Nat, NEW l, NEW a, NEW t, LimiterInv(R, l, a, t)
  PROVE  \A ip \in Visitors : \A i \in 1..Len(a[ip]) :
            i + 2 * R <= Len(a[ip]) => a[ip][i + 2 * R] > a[ip][i] + Window
BY DEF LimiterInv, VisitorInv, Spaced

-----------------------------------------------------------------------------
(* The limiter of RateLimiter, which is also the shared one.               *)
SharedInv == LimiterInv(Rate, limits, admitted, now)

LEMMA SharedStarts == LimiterInit /\ now = 0 => SharedInv
BY LimiterStarts DEF LimiterInit, SharedInv

LEMMA SharedSteps ==
  ASSUME [LimiterNext]_limiterVars
  PROVE  Steps(Rate, limits, admitted, now, limits', admitted', now')
<1> USE DEF Steps
<1>1. ASSUME NEW ip \in Visitors, Admit(ip)
      PROVE  Admits(Rate, limits, admitted, now, limits', admitted', now', ip)
  BY <1>1 DEF Admit, Allowed, Count, Counted, NewWindow, Over,
              Admits, Counts, CountedIn, NewWindowIn
<1>2. ASSUME NEW ip \in Visitors, Refuse(ip)
      PROVE  Refuses(Rate, limits, admitted, now, limits', admitted', now', ip)
  BY <1>2 DEF Refuse, Allowed, Count, Counted, NewWindow, Over,
              Refuses, Counts, CountedIn, NewWindowIn
<1>3. CASE Cleanup
  BY <1>3 DEF Cleanup, Kept, Over, Drops
<1>4. CASE LimiterForget
  BY <1>4 DEF LimiterForget, Forgets
<1>5. CASE Tick \/ UNCHANGED limiterVars
  BY <1>5 DEF Tick, limiterVars, Waits
<1> QED
  BY <1>1, <1>2, <1>3, <1>4, <1>5 DEF LimiterNext

LEMMA SharedStep == SharedInv /\ [LimiterNext]_limiterVars => SharedInv'
BY RateAssumption, SharedSteps, LimiterStep DEF SharedInv

(* For every rate and window, and whatever the clean-up and other visitors *)
(* do: no interval of one window's length lets through more than twice the *)
(* rate (allow and cleanup).                                               *)
THEOREM BudgetOfTwoWindows == LimiterSpec => []TwoWindowBudget
<1>1. SharedInv => TwoWindowBudget
  BY RateAssumption, LimiterBudget DEF SharedInv, TwoWindowBudget
<1> QED
  BY <1>1, SharedStarts, SharedStep, PTL DEF LimiterSpec

LEMMA SharedRefusal ==
  ASSUME SharedInv, NEW ip \in Visitors, Refuse(ip)
  PROVE  /\ Len(admitted[ip]) >= Rate
         /\ admitted[ip][Len(admitted[ip]) - Rate + 1] + Window >= now
<1>1. Refuses(Rate, limits, admitted, now, limits', admitted', now', ip)
  BY DEF Refuse, Allowed, Count, Counted, NewWindow, Over,
         Refuses, Counts, CountedIn, NewWindowIn
<1> QED
  BY <1>1, RateAssumption, RefuseOwn DEF SharedInv

(* A refusal is always earned by Rate requests that passed within the      *)
(* length of one window before it (allow).                                 *)
THEOREM RefusalsEarned == LimiterSpec => RefusedOnlyWhenSpent
<1>1. SharedInv =>
         [\A ip \in Visitors : Refuse(ip) =>
             /\ Len(admitted[ip]) >= Rate
             /\ admitted[ip][Len(admitted[ip]) - Rate + 1] + Window >= now]_limiterVars
  BY SharedRefusal
<1> QED
  BY <1>1, SharedStarts, SharedStep, PTL DEF LimiterSpec, RefusedOnlyWhenSpent

-----------------------------------------------------------------------------
(* The limiter of /api/login.                                              *)
LoginInv == LimiterInv(LoginRate, loginLimits, loginAdmitted, now)

LEMMA LoginStarts == Login!LimiterInit /\ now = 0 => LoginInv
BY LimiterStarts DEF Login!LimiterInit, LoginInv

LEMMA LoginSteps ==
  ASSUME [Login!LimiterNext]_(Login!limiterVars)
  PROVE  Steps(LoginRate, loginLimits, loginAdmitted, now,
               loginLimits', loginAdmitted', now')
<1> USE DEF Steps
<1>1. ASSUME NEW ip \in Visitors, Login!Admit(ip)
      PROVE  Admits(LoginRate, loginLimits, loginAdmitted, now,
                    loginLimits', loginAdmitted', now', ip)
  BY <1>1 DEF Login!Admit, Login!Allowed, Login!Count, Login!Counted, Login!NewWindow,
              Login!Over, Admits, Counts, CountedIn, NewWindowIn
<1>2. ASSUME NEW ip \in Visitors, Login!Refuse(ip)
      PROVE  Refuses(LoginRate, loginLimits, loginAdmitted, now,
                     loginLimits', loginAdmitted', now', ip)
  BY <1>2 DEF Login!Refuse, Login!Allowed, Login!Count, Login!Counted, Login!NewWindow,
              Login!Over, Refuses, Counts, CountedIn, NewWindowIn
<1>3. CASE Login!Cleanup
  BY <1>3 DEF Login!Cleanup, Login!Kept, Login!Over, Drops
<1>4. CASE Login!LimiterForget
  BY <1>4 DEF Login!LimiterForget, Forgets
<1>5. CASE Login!Tick \/ UNCHANGED Login!limiterVars
  BY <1>5 DEF Login!Tick, Login!limiterVars, Waits
<1> QED
  BY <1>1, <1>2, <1>3, <1>4, <1>5 DEF Login!LimiterNext

LEMMA LoginStep == LoginInv /\ [Login!LimiterNext]_(Login!limiterVars) => LoginInv'
BY LoginRateAssumption, LoginSteps, LimiterStep DEF LoginInv

LEMMA LoginRefusal ==
  ASSUME LoginInv, NEW ip \in Visitors, Login!Refuse(ip)
  PROVE  /\ Len(loginAdmitted[ip]) >= LoginRate
         /\ loginAdmitted[ip][Len(loginAdmitted[ip]) - LoginRate + 1] + Window >= now
<1>1. Refuses(LoginRate, loginLimits, loginAdmitted, now,
              loginLimits', loginAdmitted', now', ip)
  BY DEF Login!Refuse, Login!Allowed, Login!Count, Login!Counted, Login!NewWindow,
         Login!Over, Refuses, Counts, CountedIn, NewWindowIn
<1> QED
  BY <1>1, LoginRateAssumption, RefuseOwn DEF LoginInv

-----------------------------------------------------------------------------
(* Every step of MasterAccess is a step of each limiter, or leaves it be.  *)
LEMMA BothLimiters ==
  ASSUME [Next]_accessVars
  PROVE  /\ [LimiterNext]_limiterVars
         /\ [Login!LimiterNext]_(Login!limiterVars)
<1> USE DEF limiterVars, Login!limiterVars, LimiterNext, Login!LimiterNext
<1>1. ASSUME NEW c \in Clients PROVE ExtractIP(c) \in Visitors
  BY AddressAssumption DEF ExtractIP
<1>2. ASSUME NEW c \in Clients, Request(c)
      PROVE  /\ [LimiterNext]_limiterVars
             /\ [Login!LimiterNext]_(Login!limiterVars)
  BY <1>1, <1>2 DEF Request, Admit, Refuse
<1>3. ASSUME NEW c \in Clients, LimitLogin(c)
      PROVE  /\ [LimiterNext]_limiterVars
             /\ [Login!LimiterNext]_(Login!limiterVars)
  BY <1>1, <1>3 DEF LimitLogin, Login!Admit, Login!Refuse
<1>4. ASSUME NEW c \in Clients,
             \/ ValidatePassword(c) \/ GetUser(c) \/ RecordSuccess(c) \/ ReturnToken(c)
             \/ UpdateTOTPSecret(c) \/ ReturnSecret(c)
      PROVE  UNCHANGED <<limiterVars, Login!limiterVars>>
  BY <1>4 DEF ValidatePassword, GetUser, RecordSuccess, ReturnToken,
              UpdateTOTPSecret, ReturnSecret, limitVars
<1>5. CASE CleanupAll \/ CleanupLogin
  BY <1>5 DEF CleanupAll, CleanupLogin, Cleanup, Login!Cleanup
<1>6. CASE Clock
  BY <1>6 DEF Clock, Tick, Login!Tick
<1>7. CASE CloseLog \/ UNCHANGED accessVars
  BY <1>7 DEF CloseLog, accessVars, limitVars
<1>8. CASE Restart
  BY <1>8 DEF Restart
<1> QED
  BY <1>2, <1>3, <1>4, <1>5, <1>6, <1>7, <1>8 DEF Next

LEMMA LimitersKept == Spec => [](SharedInv /\ LoginInv)
<1>1. Init => SharedInv /\ LoginInv
  BY SharedStarts, LoginStarts DEF Init
<1>2. SharedInv /\ LoginInv /\ [Next]_accessVars => SharedInv' /\ LoginInv'
  BY BothLimiters, SharedStep, LoginStep
<1> QED
  BY <1>1, <1>2, PTL DEF Spec

(* Both limiters of the master keep their budget, one behind the other and *)
(* with shared addresses, for any clients, rates and window.               *)
THEOREM BudgetsHold == Spec => []Budgets
<1>1. SharedInv => TwoWindowBudget
  BY RateAssumption, LimiterBudget DEF SharedInv, TwoWindowBudget
<1>2. LoginInv => Login!TwoWindowBudget
  BY LoginRateAssumption, LimiterBudget DEF LoginInv, Login!TwoWindowBudget
<1> QED
  BY <1>1, <1>2, LimitersKept, PTL DEF Budgets

(* Neither limiter ever refuses a client whose address has budget left.    *)
THEOREM NobodyRefusedForNothing == Spec => RefusalsAreEarned
<1>1. SharedInv =>
         [\A ip \in Visitors : Refuse(ip) =>
             /\ Len(admitted[ip]) >= Rate
             /\ admitted[ip][Len(admitted[ip]) - Rate + 1] + Window >= now]_limiterVars
  BY SharedRefusal
<1>2. LoginInv =>
         [\A ip \in Visitors : Login!Refuse(ip) =>
             /\ Len(loginAdmitted[ip]) >= LoginRate
             /\ loginAdmitted[ip][Len(loginAdmitted[ip]) - LoginRate + 1] + Window >= now
         ]_(Login!limiterVars)
  BY LoginRefusal
<1> QED
  BY <1>1, <1>2, LimitersKept, PTL
     DEF RefusalsAreEarned, RefusedOnlyWhenSpent, Login!RefusedOnlyWhenSpent

-----------------------------------------------------------------------------
(* The types of what is not a limiter's.                                   *)
AccountOK ==
    /\ minted \in [Clients -> Token] /\ token \in [Clients -> Token]
    /\ fresh \in 0..MaxFresh /\ secret \in 0..fresh
    /\ made \in [Clients -> 0..fresh]
    /\ shown \in [Clients -> SUBSET (1..fresh)]

ControlOK ==
    /\ pc \in [Clients -> PCs]
    /\ \A c \in Clients : pc[c] \in {"minted", "logged"} <=> minted[c] # NoToken
    /\ \A c \in Clients : minted[c] # NoToken => minted[c].id \in 1..fresh
    /\ \A c \in Clients : pc[c] = "stored" => made[c] \in 1..fresh

LogOK ==
    /\ file \in Seq(Event) /\ entries \in Seq(Event)
    /\ Len(entries) <= MaxSize
    /\ open \in BOOLEAN /\ missed \subseteq 1..fresh
    /\ boot \in 0..Len(file) /\ restarts \in 0..MaxRestarts

OwnOK == AccountOK /\ ControlOK /\ LogOK

LEMMA TypesTogether == SharedInv /\ LoginInv /\ OwnOK => TypeOK
BY DEF SharedInv, LoginInv, LimiterInv, Typed, LimiterTypeOK, Login!LimiterTypeOK,
       Entry, Login!Entry, OwnOK, AccountOK, ControlOK, LogOK, TypeOK

(* A log keeps its last MaxSize entries.                                   *)
LEMMA NewestProperties ==
  ASSUME NEW S, NEW s \in Seq(S)
  PROVE  LET n == IF Len(s) > MaxSize THEN MaxSize ELSE Len(s)
         IN  /\ Newest(s) \in Seq(S)
             /\ Len(Newest(s)) = n
             /\ \A i \in 1..n : Newest(s)[i] = s[Len(s) - n + i]
<1> USE LogAssumption
<1>1. CASE Len(s) > MaxSize
  <2> DEFINE m == Len(s) - MaxSize + 1
  <2>1. m \in 1..Len(s) + 1 /\ Len(s) \in m-1..Len(s)
    BY <1>1
  <2>2. /\ SubSeq(s, m, Len(s)) \in Seq(S)
        /\ Len(SubSeq(s, m, Len(s))) = MaxSize
    BY <1>1
  <2>3. \A i \in 1..MaxSize : SubSeq(s, m, Len(s))[i] = s[Len(s) - MaxSize + i]
    BY <1>1
  <2> QED
    BY <1>1, <2>2, <2>3 DEF Newest
<1>2. CASE ~(Len(s) > MaxSize)
  BY <1>2 DEF Newest
<1> QED
  BY <1>1, <1>2

LEMMA LogStep ==
  ASSUME LogOK, NEW what \in {"login_failed", "totp_failed", "login_success"},
         NEW id \in 0..fresh, fresh \in Nat, fresh' = fresh, Log(what, id),
         UNCHANGED processVars
  PROVE  LogOK'
<1> DEFINE e == [what |-> what, token |-> id]
<1>1. e \in Event /\ Event' = Event
  BY DEF Event
<1>2. Append(entries, e) \in Seq(Event) /\ Append(file, e) \in Seq(Event)
      /\ Len(Append(file, e)) = Len(file) + 1 /\ Len(file) \in Nat
  BY <1>1 DEF LogOK
<1> HIDE DEF e
<1>3. entries' \in Seq(Event) /\ Len(entries') <= MaxSize
  <2>1. entries' = Newest(Append(entries, e))
    BY DEF Log, e
  <2> DEFINE s == Append(entries, e)
  <2> HIDE DEF s
  <2>2. s \in Seq(Event)
    BY <1>2 DEF s
  <2>3. /\ Newest(s) \in Seq(Event)
        /\ Len(Newest(s)) = IF Len(s) > MaxSize THEN MaxSize ELSE Len(s)
    BY <2>2, NewestProperties, Zenon
  <2> QED
    BY <2>1, <2>2, <2>3, LogAssumption DEF s
<1>4. file' \in Seq(Event) /\ Len(file') >= Len(file) /\ Len(file') \in Nat
  BY <1>2 DEF Log, LogOK, e
<1>5. missed' \subseteq 1..fresh
  BY DEF Log, LogOK
<1> QED
  BY <1>1, <1>3, <1>4, <1>5 DEF LogOK, processVars

(* The types grow with the number of secrets and tokens made.              *)
LEMMA LogGrows ==
  ASSUME LogOK, fresh \in Nat, fresh' \in Nat, fresh' >= fresh,
         UNCHANGED <<auditVars, processVars>>
  PROVE  LogOK'
<1>1. ASSUME NEW s \in Seq(Event) PROVE s \in Seq(Event)'
  <2>1. 0..fresh \subseteq 0..fresh'
    OBVIOUS
  <2>2. Event \subseteq Event'
    BY <2>1 DEF Event
  <2> QED
    BY <2>2
<1> QED
  BY <1>1 DEF LogOK, auditVars, processVars

LEMMA OwnStep ==
  ASSUME OwnOK, [Next]_accessVars, now \in Nat
  PROVE  OwnOK'
<1>0. fresh \in Nat /\ MaxFresh \in Nat /\ MaxRestarts \in Nat /\ restarts \in Nat
  BY BoundAssumption DEF OwnOK, AccountOK, LogOK
<1> USE DEF OwnOK, Token, NoToken, Goto
<1>1. ASSUME NEW c \in Clients, Request(c) \/ LimitLogin(c) PROVE OwnOK'
  <2>1. UNCHANGED <<accountVars, auditVars, processVars>>
    BY <1>1 DEF Request, LimitLogin
  <2>2. /\ pc' \in [Clients -> PCs]
        /\ \A d \in Clients : /\ pc'[d] \in {"minted", "logged"} <=> pc[d] \in {"minted", "logged"}
                              /\ pc'[d] = "stored" => pc[d] = "stored"
    BY <1>1 DEF Request, LimitLogin, ControlOK, PCs
  <2>3. AccountOK'
    BY <2>1 DEF AccountOK, accountVars
  <2>4. ControlOK'
    <3>1. minted' = minted /\ made' = made /\ fresh' = fresh
      BY <2>1 DEF accountVars
    <3> QED
      BY <2>2, <3>1 DEF ControlOK
  <2> QED
    BY <1>0, <2>1, <2>3, <2>4, LogGrows DEF accountVars
<1>2. ASSUME NEW c \in Clients, ValidatePassword(c) PROVE OwnOK'
  <2>1. AccountOK' /\ fresh' = fresh
    BY <1>2 DEF ValidatePassword, AccountOK, accountVars
  <2>2. ControlOK'
    BY <1>2 DEF ValidatePassword, ControlOK, accountVars, PCs
  <2>3. LogOK'
    BY <1>0, <1>2, <2>1, LogStep, LogGrows DEF ValidatePassword
  <2> QED
    BY <2>1, <2>2, <2>3
<1>3. ASSUME NEW c \in Clients, GetUser(c) PROVE OwnOK'
  <2>1. CASE fresh' = fresh + 1 /\ fresh < MaxFresh /\ UNCHANGED auditVars
             /\ minted' = [minted EXCEPT ![c] = [id |-> fresh', exp |-> now + Ttl]]
             /\ Goto(c, "minted")
    <3>1. fresh' \in 0..MaxFresh /\ fresh' >= fresh /\ 0..fresh \subseteq 0..fresh'
          /\ 1..fresh \subseteq 1..fresh' /\ fresh' \in 1..fresh'
      BY <1>0, <2>1
    <3>2. [id |-> fresh', exp |-> now + Ttl] \in Token'
      BY <1>0, <3>1, LogAssumption
    <3>3. Token \subseteq Token'
      BY <3>1
    <3>4. AccountOK'
      <4>1. UNCHANGED <<token, secret, made, shown>>
        BY <1>3 DEF GetUser
      <4>2. minted' \in [Clients -> Token']
        BY <2>1, <3>2, <3>3 DEF AccountOK
      <4> QED
        BY <3>1, <3>3, <4>1, <4>2 DEF AccountOK
    <3>5. ControlOK'
      <4>1. UNCHANGED made
        BY <1>3 DEF GetUser
      <4>2. /\ pc' \in [Clients -> PCs]
            /\ \A d \in Clients \ {c} : pc'[d] = pc[d] /\ minted'[d] = minted[d]
            /\ pc'[c] = "minted" /\ minted'[c].id = fresh' /\ minted'[c] # NoToken
        BY <1>0, <2>1 DEF ControlOK, AccountOK, PCs
      <4> QED
        BY <3>1, <4>1, <4>2 DEF ControlOK
    <3>6. LogOK'
      BY <1>0, <1>3, <2>1, <3>1, LogGrows DEF GetUser
    <3> QED
      BY <3>4, <3>5, <3>6
  <2>2. CASE Log("totp_failed", 0) /\ Goto(c, "idle") /\ UNCHANGED <<minted, fresh>>
             /\ pc[c] = "password"
    <3>1. AccountOK'
      BY <1>3, <2>2 DEF GetUser, AccountOK
    <3>2. ControlOK'
      BY <1>3, <2>2 DEF GetUser, ControlOK, PCs
    <3>3. LogOK'
      BY <1>0, <1>3, <2>2, LogStep DEF GetUser
    <3> QED
      BY <3>1, <3>2, <3>3
  <2> QED
    BY <1>3, <2>1, <2>2 DEF GetUser
<1>4. ASSUME NEW c \in Clients, RecordSuccess(c) PROVE OwnOK'
  <2>1. AccountOK' /\ fresh' = fresh
    BY <1>4 DEF RecordSuccess, AccountOK, accountVars
  <2>2. ControlOK'
    BY <1>4 DEF RecordSuccess, ControlOK, accountVars, PCs
  <2>3. minted[c].id \in 0..fresh
    BY DEF AccountOK
  <2>4. LogOK'
    BY <1>0, <1>4, <2>1, <2>3, LogStep DEF RecordSuccess
  <2> QED
    BY <2>1, <2>2, <2>4
<1>5. ASSUME NEW c \in Clients, ReturnToken(c) PROVE OwnOK'
  <2>1. AccountOK' /\ fresh' = fresh
    <3>1. minted' \in [Clients -> Token]
      BY <1>0, <1>5 DEF ReturnToken, AccountOK
    <3>2. token' = token \/ token' = [token EXCEPT ![c] = minted[c]]
      BY <1>5 DEF ReturnToken
    <3>3. token' \in [Clients -> Token]
      BY <3>2 DEF AccountOK
    <3> QED
      BY <1>5, <3>1, <3>3 DEF ReturnToken, AccountOK
  <2>2. ControlOK'
    BY <1>5 DEF ReturnToken, ControlOK, PCs, AccountOK
  <2>3. LogOK'
    BY <1>0, <1>5, <2>1, LogGrows DEF ReturnToken
  <2> QED
    BY <2>1, <2>2, <2>3
<1>6. ASSUME NEW c \in Clients, UpdateTOTPSecret(c) PROVE OwnOK'
  <2>1. fresh' = fresh + 1 /\ fresh' \in 0..MaxFresh /\ 0..fresh \subseteq 0..fresh'
        /\ 1..fresh \subseteq 1..fresh' /\ fresh' \in 0..fresh' /\ fresh' >= fresh
    BY <1>0, <1>6 DEF UpdateTOTPSecret
  <2>2. Token \subseteq Token'
    BY <2>1
  <2>3. AccountOK'
    <3>1. UNCHANGED <<minted, token, shown>> /\ secret' = fresh'
          /\ made' = [made EXCEPT ![c] = fresh']
      BY <1>6 DEF UpdateTOTPSecret
    <3> QED
      BY <2>1, <2>2, <3>1 DEF AccountOK
  <2>4. ControlOK'
    <3>1. UNCHANGED minted
      BY <1>6 DEF UpdateTOTPSecret
    <3>2. /\ pc' \in [Clients -> PCs]
          /\ \A d \in Clients \ {c} : pc'[d] = pc[d] /\ made'[d] = made[d]
          /\ pc[c] = "setup" /\ pc'[c] = "stored" /\ made'[c] = fresh'
      BY <1>6 DEF UpdateTOTPSecret, ControlOK, AccountOK, PCs
    <3> QED
      BY <1>0, <2>1, <3>1, <3>2 DEF ControlOK
  <2>5. LogOK'
    BY <1>0, <1>6, <2>1, LogGrows DEF UpdateTOTPSecret
  <2> QED
    BY <2>3, <2>4, <2>5
<1>7. ASSUME NEW c \in Clients, ReturnSecret(c) PROVE OwnOK'
  <2>1. made[c] \in 1..fresh
    BY <1>7 DEF ReturnSecret, ControlOK
  <2>2. AccountOK' /\ fresh' = fresh
    <3>1. made' \in [Clients -> 0..fresh]
      BY <1>0, <1>7 DEF ReturnSecret, AccountOK
    <3>2. shown' = shown \/ shown' = [shown EXCEPT ![c] = @ \cup {made[c]}]
      BY <1>7 DEF ReturnSecret
    <3>3. shown' \in [Clients -> SUBSET (1..fresh)]
      BY <2>1, <3>2 DEF AccountOK
    <3> QED
      BY <1>7, <3>1, <3>3 DEF ReturnSecret, AccountOK
  <2>3. ControlOK'
    BY <1>7 DEF ReturnSecret, ControlOK, PCs
  <2>4. LogOK'
    BY <1>0, <1>7, <2>2, LogGrows DEF ReturnSecret
  <2> QED
    BY <2>2, <2>3, <2>4
<1>8. CASE CleanupAll \/ CleanupLogin \/ Clock \/ UNCHANGED accessVars
  <2>1. UNCHANGED <<pc, accountVars, auditVars, processVars>>
    BY <1>8 DEF CleanupAll, CleanupLogin, Clock, Quiet, accessVars
  <2> QED
    BY <1>0, <2>1, LogGrows DEF AccountOK, ControlOK, accountVars
<1>9. CASE CloseLog
  BY <1>9 DEF CloseLog, AccountOK, ControlOK, LogOK, accountVars, auditVars, Event
<1>10. CASE Restart
  <2>1. AccountOK'
    BY <1>0, <1>10 DEF Restart, AccountOK
  <2>2. ControlOK'
    BY <1>0, <1>10 DEF Restart, ControlOK, PCs
  <2>3. LogOK'
    BY <1>0, <1>10, LogAssumption DEF Restart, LogOK, Event
  <2> QED
    BY <2>1, <2>2, <2>3
<1> QED
  BY <1>1, <1>2, <1>3, <1>4, <1>5, <1>6, <1>7, <1>8, <1>9, <1>10 DEF Next

LEMMA OwnKept == Spec => []OwnOK
<1>1. Init => OwnOK
  BY BoundAssumption, LogAssumption
     DEF Init, OwnOK, AccountOK, ControlOK, LogOK, Token, NoToken, PCs
<1>2. SharedInv /\ OwnOK /\ [Next]_accessVars => OwnOK'
  BY OwnStep DEF SharedInv, LimiterInv, Typed
<1> QED
  BY <1>1, <1>2, LimitersKept, PTL DEF Spec

(* Type invariant of requests, limiters, accounts, tokens and the log.     *)
THEOREM TypeCorrect == Spec => []TypeOK
BY TypesTogether, LimitersKept, OwnKept, PTL

-----------------------------------------------------------------------------
(* The audit log.  A login's token is in the file, or was logged too late, *)
(* from the moment its entry is made.                                      *)
Recorded(id) ==
    \/ id \in missed
    \/ \E i \in 1..Len(file) : file[i] = [what |-> "login_success", token |-> id]

TrailInv ==
    /\ \A c \in Clients : pc[c] = "logged" => Recorded(minted[c].id)
    /\ \A c \in Clients : token[c] # NoToken => Recorded(token[c].id)
    /\ RecentIsTail

LEMMA TailProperties ==
  ASSUME NEW S, NEW s \in Seq(S), NEW k \in 0..Len(s)
  PROVE  /\ SubSeq(s, Len(s) - k + 1, Len(s)) \in Seq(S)
         /\ Len(SubSeq(s, Len(s) - k + 1, Len(s))) = k
         /\ \A i \in 1..k : SubSeq(s, Len(s) - k + 1, Len(s))[i] = s[Len(s) - k + i]
<1> DEFINE m == Len(s) - k + 1
<1>1. m \in 1..Len(s) + 1 /\ Len(s) \in m-1..Len(s)
  OBVIOUS
<1>2. SubSeq(s, m, Len(s)) \in Seq(S) /\ Len(SubSeq(s, m, Len(s))) = k
  BY <1>1
<1>3. \A i \in 1..k : SubSeq(s, m, Len(s))[i] = s[Len(s) - k + i]
  BY <1>1
<1> QED
  BY <1>2, <1>3

(* The newest entries of a tail and one more are the newest of the whole.  *)
LEMMA NewestOfTail ==
  ASSUME NEW S, NEW f \in Seq(S), NEW e \in S,
         NEW k \in 0..Len(f), NEW m \in 0..Len(f) + 1,
         m <= k + 1, m <= MaxSize, m = k + 1 \/ m = MaxSize
  PROVE  Newest(Append(SubSeq(f, Len(f) - k + 1, Len(f)), e)) =
           SubSeq(Append(f, e), Len(Append(f, e)) - m + 1, Len(Append(f, e)))
<1> DEFINE g == SubSeq(f, Len(f) - k + 1, Len(f))
           h == Append(f, e)
           a == Append(g, e)
           t == SubSeq(h, Len(h) - m + 1, Len(h))
<1>1. Len(f) \in Nat /\ k \in Nat /\ m \in Nat /\ m <= k + 1 /\ k <= Len(f)
  BY LogAssumption
<1>2. /\ h \in Seq(S) /\ Len(h) = Len(f) + 1 /\ h[Len(f) + 1] = e
      /\ \A i \in 1..Len(f) : h[i] = f[i]
  OBVIOUS
<1>3. g \in Seq(S) /\ Len(g) = k /\ \A i \in 1..k : g[i] = f[Len(f) - k + i]
  BY TailProperties, Zenon
<1> HIDE DEF g, h
<1>4. /\ a \in Seq(S) /\ Len(a) = k + 1 /\ a[k + 1] = e
      /\ \A i \in 1..k : a[i] = f[Len(f) - k + i]
  <2>1. a \in Seq(S) /\ Len(a) = Len(g) + 1 /\ a[Len(g) + 1] = e
        /\ \A i \in 1..Len(g) : a[i] = g[i]
    BY <1>3
  <2> QED
    BY <1>3, <2>1
<1> HIDE DEF a
<1>5. /\ Newest(a) \in Seq(S) /\ Len(Newest(a)) = m
      /\ \A i \in 1..m : Newest(a)[i] = a[Len(a) - m + i]
  <2>1. /\ Newest(a) \in Seq(S)
        /\ Len(Newest(a)) = IF Len(a) > MaxSize THEN MaxSize ELSE Len(a)
        /\ \A i \in 1..(IF Len(a) > MaxSize THEN MaxSize ELSE Len(a)) :
             Newest(a)[i] = a[Len(a) - (IF Len(a) > MaxSize THEN MaxSize ELSE Len(a)) + i]
    <3>1. a \in Seq(S)
      BY <1>4
    <3> QED
      BY <3>1, NewestProperties, Zenon
  <2>3. Len(a) = k + 1
    BY <1>4
  <2>2. (IF Len(a) > MaxSize THEN MaxSize ELSE Len(a)) = m
    BY <1>1, <2>3, LogAssumption
  <2>4. /\ Newest(a) \in Seq(S) /\ Len(Newest(a)) = m
        /\ \A i \in 1..m : Newest(a)[i] = a[Len(a) - m + i]
    BY <2>1, <2>2, Zenon
  <2> QED
    BY <2>4
<1>6. t \in Seq(S) /\ Len(t) = m /\ \A i \in 1..m : t[i] = h[Len(h) - m + i]
  <2>1. m \in 0..Len(h)
    BY <1>2
  <2>2. h \in Seq(S)
    BY <1>2
  <2>3. \A j \in 0..Len(h) :
          /\ SubSeq(h, Len(h) - j + 1, Len(h)) \in Seq(S)
          /\ Len(SubSeq(h, Len(h) - j + 1, Len(h))) = j
          /\ \A i \in 1..j : SubSeq(h, Len(h) - j + 1, Len(h))[i] = h[Len(h) - j + i]
    BY <2>2, TailProperties, Zenon
  <2> QED
    BY <2>1, <2>3, Zenon
<1> HIDE DEF t
<1>7. ASSUME NEW i \in 1..m PROVE Newest(a)[i] = t[i]
  <2>0. Len(h) = Len(f) + 1 /\ Len(a) = k + 1
    BY <1>2, <1>4
  <2>1. CASE i = m
    <3>1. Len(a) - m + i = k + 1 /\ Len(h) - m + i = Len(f) + 1
      BY <1>1, <2>1, <2>0
    <3> QED
      BY <1>2, <1>4, <1>5, <1>6, <3>1
  <2>2. CASE i # m
    <3>1. /\ Len(a) - m + i \in 1..k /\ Len(h) - m + i \in 1..Len(f)
          /\ Len(f) - k + (Len(a) - m + i) = Len(h) - m + i
      BY <1>1, <2>2, <2>0
    <3>2. a[Len(a) - m + i] = f[Len(h) - m + i]
      BY <1>4, <3>1
    <3>3. h[Len(h) - m + i] = f[Len(h) - m + i]
      BY <1>2, <3>1
    <3> QED
      BY <1>5, <1>6, <3>2, <3>3
  <2> QED
    BY <2>1, <2>2
<1>8. Newest(a) = t
  BY <1>5, <1>6, <1>7, SeqEqual
<1> QED
  BY <1>8 DEF a, t, g, h

LEMMA LogTrail ==
  ASSUME LogOK, fresh \in Nat,
         NEW what \in {"login_failed", "totp_failed", "login_success"},
         NEW id \in 0..fresh, Log(what, id), UNCHANGED processVars
  PROVE  /\ \A x : Recorded(x) => Recorded(x)'
         /\ what = "login_success" /\ id # 0 => Recorded(id)'
         /\ RecentIsTail => RecentIsTail'
<1> DEFINE e == [what |-> what, token |-> id]
<1>1. e \in Event /\ file \in Seq(Event) /\ Len(file) \in Nat
  BY DEF Event, LogOK
<1>2. /\ entries' = Newest(Append(entries, e))
      /\ file' = IF open THEN Append(file, e) ELSE file
      /\ missed' = IF open \/ id = 0 THEN missed ELSE missed \cup {id}
      /\ open' = open /\ boot' = boot
  BY DEF Log, processVars
<1>3. ASSUME NEW x, Recorded(x) PROVE Recorded(x)'
  <2>1. /\ missed \subseteq missed'
        /\ \A i \in 1..Len(file) : i \in 1..Len(file') /\ file'[i] = file[i]
    <3> HIDE DEF e
    <3> QED
      BY <1>1, <1>2
  <2> QED
    BY <1>3, <2>1 DEF Recorded
<1>4. ASSUME what = "login_success", id # 0 PROVE Recorded(id)'
  <2>1. CASE open
    <3>1. Len(file) + 1 \in 1..Len(file') /\ file'[Len(file) + 1] = e
      <4> HIDE DEF e
      <4> QED
        BY <1>1, <1>2, <2>1
    <3> QED
      BY <1>4, <3>1 DEF Recorded
  <2>2. CASE ~open
    BY <1>2, <1>4, <2>2 DEF Recorded
  <2> QED
    BY <2>1, <2>2
<1>5. ASSUME RecentIsTail PROVE RecentIsTail'
  <2> HIDE DEF e
  <2> SUFFICES ASSUME open
               PROVE  entries' = SubSeq(file', Len(file') - (IF Len(file') - boot' < MaxSize
                        THEN Len(file') - boot' ELSE MaxSize) + 1, Len(file'))
    BY <1>2 DEF RecentIsTail
  <2> DEFINE n == Len(file) - boot
             k == IF n < MaxSize THEN n ELSE MaxSize
             m == IF n + 1 < MaxSize THEN n + 1 ELSE MaxSize
  <2>1. n \in 0..Len(file) /\ boot \in Nat
    BY <1>1 DEF LogOK
  <2>2. entries = SubSeq(file, Len(file) - k + 1, Len(file))
    BY <1>5 DEF RecentIsTail
  <2>3. file' = Append(file, e)
    BY <1>2
  <2> HIDE DEF n
  <2>4. /\ k \in 0..Len(file) /\ m \in 0..Len(file) + 1
        /\ m <= k + 1 /\ m <= MaxSize /\ (m = k + 1 \/ m = MaxSize)
    BY <1>1, <2>1, LogAssumption
  <2>5. Len(file') - boot' = n + 1
    BY <1>1, <1>2, <2>1, <2>3 DEF n
  <2> HIDE DEF k
  <2>6. Newest(Append(entries, e)) = SubSeq(file', Len(file') - m + 1, Len(file'))
    <3> HIDE DEF m
    <3>1. file \in Seq(Event) /\ e \in Event
      BY <1>1
    <3>2. Newest(Append(SubSeq(file, Len(file) - k + 1, Len(file)), e)) =
            SubSeq(Append(file, e), Len(Append(file, e)) - m + 1, Len(Append(file, e)))
      BY <2>4, <3>1, NewestOfTail, Zenon
    <3> QED
      BY <2>2, <2>3, <3>2, Zenon
  <2> QED
    BY <1>2, <2>5, <2>6
<1> QED
  BY <1>3, <1>4, <1>5

LEMMA TrailStep ==
  ASSUME OwnOK, TrailInv, [Next]_accessVars
  PROVE  TrailInv'
<1>0. fresh \in Nat /\ LogOK
  BY DEF OwnOK, AccountOK
<1> USE DEF Goto
<1>1. ASSUME UNCHANGED <<file, entries, missed, open, boot>>,
             UNCHANGED <<minted, token>>,
             \A c \in Clients : pc'[c] = "logged" => pc[c] = "logged"
      PROVE  TrailInv'
  BY <1>1 DEF TrailInv, Recorded, RecentIsTail
<1>2. ASSUME NEW c \in Clients, Request(c) \/ LimitLogin(c) PROVE TrailInv'
  <2>1. \A d \in Clients : pc'[d] = "logged" => pc[d] = "logged"
    BY <1>2 DEF Request, LimitLogin, OwnOK, ControlOK
  <2> QED
    BY <1>1, <1>2, <2>1 DEF Request, LimitLogin, accountVars, auditVars, processVars
<1>3. ASSUME NEW c \in Clients, NEW what \in {"login_failed", "totp_failed"},
             Log(what, 0), Goto(c, "idle"), UNCHANGED <<minted, token, processVars>>
      PROVE  TrailInv'
  <2>1. (\A x : Recorded(x) => Recorded(x)') /\ RecentIsTail'
    BY <1>0, <1>3, LogTrail DEF TrailInv
  <2>2. \A d \in Clients : pc'[d] = "logged" => pc[d] = "logged"
    BY <1>3 DEF OwnOK, ControlOK
  <2> QED
    BY <1>3, <2>1, <2>2 DEF TrailInv
<1>4. ASSUME NEW c \in Clients, ValidatePassword(c) PROVE TrailInv'
  <2>1. CASE Goto(c, "password") /\ UNCHANGED auditVars
    <3>1. \A d \in Clients : pc'[d] = "logged" => pc[d] = "logged"
      BY <2>1 DEF OwnOK, ControlOK
    <3> QED
      BY <1>1, <1>4, <2>1, <3>1 DEF ValidatePassword, accountVars, auditVars, processVars
  <2>2. CASE Log("login_failed", 0) /\ Goto(c, "idle")
    BY <1>3, <1>4, <2>2 DEF ValidatePassword, accountVars
  <2> QED
    BY <1>4, <2>1, <2>2 DEF ValidatePassword
<1>5. ASSUME NEW c \in Clients, GetUser(c) PROVE TrailInv'
  <2>1. CASE Goto(c, "minted") /\ UNCHANGED auditVars
             /\ minted' = [minted EXCEPT ![c] = [id |-> fresh', exp |-> now + Ttl]]
    <3>1. \A d \in Clients : pc'[d] = "logged" => pc[d] = "logged" /\ minted'[d] = minted[d]
      BY <2>1 DEF OwnOK, ControlOK, AccountOK
    <3>2. UNCHANGED <<file, entries, missed, open, boot, token>>
      BY <1>5, <2>1 DEF GetUser, auditVars, processVars
    <3> QED
      BY <3>1, <3>2 DEF TrailInv, Recorded, RecentIsTail
  <2>2. CASE Log("totp_failed", 0) /\ Goto(c, "idle") /\ UNCHANGED <<minted, fresh>>
    BY <1>3, <1>5, <2>2 DEF GetUser
  <2> QED
    BY <1>5, <2>1, <2>2 DEF GetUser
<1>6. ASSUME NEW c \in Clients, RecordSuccess(c) PROVE TrailInv'
  <2>1. minted[c].id \in 1..fresh
    BY <1>6 DEF RecordSuccess, OwnOK, ControlOK
  <2>2. /\ \A x : Recorded(x) => Recorded(x)'
        /\ Recorded(minted[c].id)'
        /\ RecentIsTail'
    <3>1. minted[c].id \in 0..fresh /\ minted[c].id # 0 /\ minted' = minted
      BY <1>0, <1>6, <2>1 DEF RecordSuccess, accountVars
    <3> DEFINE id == minted[c].id
    <3>2. Log("login_success", id) /\ UNCHANGED processVars
      BY <1>6 DEF RecordSuccess
    <3>3. id' = id
      BY <3>1
    <3> HIDE DEF id
    <3>4. /\ \A x : Recorded(x) => Recorded(x)'
          /\ RecentIsTail'
      BY <1>0, <3>1, <3>2, LogTrail DEF TrailInv, id
    <3>5. \/ id \in missed'
          \/ \E i \in 1..Len(file') : file'[i] = [what |-> "login_success", token |-> id]
      BY <1>0, <3>1, <3>2, LogTrail DEF Recorded, id
    <3> QED
      BY <3>3, <3>4, <3>5 DEF Recorded, id
  <2>3. /\ minted' = minted /\ token' = token
        /\ \A d \in Clients : d # c => pc'[d] = pc[d]
    BY <1>6 DEF RecordSuccess, accountVars, OwnOK, ControlOK
  <2> QED
    BY <2>2, <2>3 DEF TrailInv
<1>7. ASSUME NEW c \in Clients, ReturnToken(c) PROVE TrailInv'
  <2>1. UNCHANGED <<file, entries, missed, open, boot>>
    BY <1>7 DEF ReturnToken, auditVars, processVars
  <2>2. \A d \in Clients : pc'[d] = "logged" => pc[d] = "logged" /\ minted'[d] = minted[d]
    BY <1>7 DEF ReturnToken, OwnOK, ControlOK, AccountOK
  <2>3. ASSUME NEW d \in Clients, token'[d] # NoToken PROVE Recorded(token'[d].id)
    <3>1. Recorded(minted[c].id)
      BY <1>7 DEF ReturnToken, TrailInv
    <3>2. token'[d] = token[d] \/ token'[d] = minted[c]
      BY <1>7 DEF ReturnToken, OwnOK, AccountOK
    <3> QED
      BY <2>3, <3>1, <3>2 DEF TrailInv
  <2> QED
    BY <2>1, <2>2, <2>3 DEF TrailInv, Recorded, RecentIsTail
<1>8. ASSUME NEW c \in Clients, UpdateTOTPSecret(c) \/ ReturnSecret(c) PROVE TrailInv'
  <2>1. \A d \in Clients : pc'[d] = "logged" => pc[d] = "logged"
    BY <1>8 DEF UpdateTOTPSecret, ReturnSecret, OwnOK, ControlOK
  <2> QED
    BY <1>1, <1>8, <2>1 DEF UpdateTOTPSecret, ReturnSecret, auditVars, processVars
<1>9. CASE CleanupAll \/ CleanupLogin \/ Clock \/ UNCHANGED accessVars
  <2>1. UNCHANGED <<pc, accountVars, auditVars, processVars>>
    BY <1>9 DEF CleanupAll, CleanupLogin, Clock, Quiet, accessVars
  <2> QED
    BY <1>1, <2>1 DEF accountVars, auditVars, processVars
<1>10. CASE CloseLog
  BY <1>10 DEF CloseLog, TrailInv, Recorded, RecentIsTail, accountVars, auditVars
<1>11. CASE Restart
  <2>1. /\ UNCHANGED <<file, missed, token>> /\ entries' = <<>> /\ boot' = Len(file)
        /\ \A c \in Clients : pc'[c] = "idle"
    BY <1>11 DEF Restart
  <2>2. RecentIsTail'
    <3>1. file \in Seq(Event) /\ Len(file) \in Nat /\ 0 \in 0..Len(file)
      BY DEF OwnOK, LogOK
    <3>2. (IF Len(file') - boot' < MaxSize THEN Len(file') - boot' ELSE MaxSize) = 0
      BY <2>1, <3>1, LogAssumption
    <3>3. SubSeq(file, Len(file) - 0 + 1, Len(file)) = <<>>
      BY <3>1, TailProperties
    <3> QED
      BY <2>1, <3>2, <3>3 DEF RecentIsTail
  <2> QED
    BY <2>1, <2>2 DEF TrailInv, Recorded
<1> QED
  BY <1>2, <1>4, <1>5, <1>6, <1>7, <1>8, <1>9, <1>10, <1>11 DEF Next

(* A token that a client holds is in the audit file, unless its login came *)
(* after main had closed it, and /api/audit shows the end of that file     *)
(* (HandleLogin, Logger.Log, main), for any clients and size of the log.   *)
THEOREM TrailIsComplete == Spec => []AuditTrail
<1>1. Init => TrailInv
  <2> SUFFICES ASSUME Init PROVE TrailInv
    OBVIOUS
  <2>1. SubSeq(<<>>, 1, 0) = <<>>
    OBVIOUS
  <2>2. RecentIsTail
    BY <2>1, LogAssumption DEF Init, RecentIsTail
  <2> QED
    BY <2>2 DEF Init, TrailInv
<1>2. TrailInv => AuditTrail
  BY DEF TrailInv, AuditTrail, Recorded, TokensAreRecorded
<1> QED
  BY <1>1, <1>2, TrailStep, OwnKept, PTL DEF Spec
=============================================================================
