-------------------------- MODULE CommunityProofs --------------------------
(***************************************************************************)
(* Proofs about RateLimit and Community.                                   *)
(*                                                                         *)
(* The limiter: what it remembers of a key is the end of the list of the   *)
(* calls it admitted, and everything before that has left the window.  So  *)
(* the call Limit places before a new one is either forgotten or does not  *)
(* exist.  Once it has refused, it admits nothing until the first call it  *)
(* remembers expires, which bounds how long a patient caller is refused.   *)
(***************************************************************************)
EXTENDS Community, TLAPS, SequenceTheorems, WellFoundedInduction

----------------------------------------------------------------------------
(* Forgetting *)

\* The loop over a bucket stops somewhere: CHOOSE has something to choose.
LEMMA ForgetsPrefix ==
    ASSUME NEW q \in Seq(Nat), now \in Nat
    PROVE  \E n \in 0 .. Len(q) :
              /\ Forget(q) = SubSeq(q, n + 1, Len(q))
              /\ \A i \in 1 .. n : Expired(q[i])
              /\ n < Len(q) => ~ Expired(q[n + 1])
  <1> DEFINE T == {m \in 0 .. Len(q) : m = Len(q) \/ ~ Expired(q[m + 1])}
  <1>1. Len(q) \in T /\ T \subseteq Nat
    OBVIOUS
  <1>2. PICK n \in T : \A y \in T : ~ (<<y, n>> \in OpToRel(<, Nat))
    <2>1. T # {}
      BY <1>1
    <2> HIDE DEF T
    <2>2. QED
      BY <1>1, <2>1, NatLessThanWellFounded, WFMin
  <1>3. \A y \in T : ~ (y < n)
    BY <1>1, <1>2 DEF OpToRel
  <1>4. \A i \in 1 .. n : Expired(q[i])
    <2>1. SUFFICES ASSUME NEW i \in 1 .. n, ~ Expired(q[i]) PROVE FALSE
      OBVIOUS
    <2>2. i - 1 \in T /\ i - 1 < n
      BY <1>1, <2>1
    <2>3. QED
      BY <1>3, <2>2
  <1>5. n \in 0 .. Len(q) /\ (n < Len(q) => ~ Expired(q[n + 1]))
    OBVIOUS
  <1>6. \E m \in 0 .. Len(q) : StopsAt(q, m)
    BY <1>4, <1>5 DEF StopsAt
  <1>7. Outdated(q) \in 0 .. Len(q) /\ StopsAt(q, Outdated(q))
    BY <1>6 DEF Outdated
  <1>8. QED
    BY <1>7 DEF Forget, StopsAt

----------------------------------------------------------------------------
(* The ledger of one key: q is what is remembered and a all that was       *)
(* admitted, l the limit and t the time.                                   *)

Ledger(q, a, l, t) ==
    /\ Len(q) <= l
    /\ Len(q) <= Len(a)
    /\ \A i \in 1 .. Len(q) : q[i] = a[Len(a) - Len(q) + i]
    /\ \A i \in 1 .. Len(a) - Len(q) : a[i] + Window <= t
    /\ \A i \in 1 .. Len(a) : a[i] <= t
    /\ \A i, j \in 1 .. Len(a) : j = i + l => a[i] + Window <= a[j]

LEMMA LedgerDrops ==
    ASSUME NEW q \in Seq(Nat), NEW a \in Seq(Nat), NEW l \in Nat, NEW t \in Nat,
           Ledger(q, a, l, t),
           NEW n \in 0 .. Len(q), \A i \in 1 .. n : q[i] + Window <= t
    PROVE  /\ SubSeq(q, n + 1, Len(q)) \in Seq(Nat)
           /\ Len(SubSeq(q, n + 1, Len(q))) = Len(q) - n
           /\ Ledger(SubSeq(q, n + 1, Len(q)), a, l, t)
  <1>0. Window \in Nat
    BY RateLimitAssumption
  <1>1. PICK b : b = SubSeq(q, n + 1, Len(q))
    OBVIOUS
  <1>2. /\ b \in Seq(Nat) /\ Len(b) = Len(q) - n
        /\ \A i \in 1 .. Len(q) - n : b[i] = q[n + i]
    BY <1>1
  <1>3. \A i \in 1 .. Len(b) : b[i] = a[Len(a) - Len(b) + i]
    <2>1. ASSUME NEW i \in 1 .. Len(b) PROVE b[i] = a[Len(a) - Len(b) + i]
      <3>1. n + i \in 1 .. Len(q) /\ Len(a) - Len(b) + i = Len(a) - Len(q) + (n + i)
        BY <1>2
      <3>2. QED
        BY <1>2, <3>1 DEF Ledger
    <2>2. QED
      BY <2>1
  <1>4. ASSUME NEW i \in 1 .. Len(a) - Len(b) PROVE a[i] + Window <= t
    <2>1. CASE i <= Len(a) - Len(q)
      BY <1>2, <2>1 DEF Ledger
    <2>2. CASE i > Len(a) - Len(q)
      <3>1. PICK j \in 1 .. n : i = Len(a) - Len(q) + j
        <4>1. i - (Len(a) - Len(q)) \in 1 .. n
          BY <1>2, <2>2
        <4>2. i = Len(a) - Len(q) + (i - (Len(a) - Len(q)))
          OBVIOUS
        <4>3. QED
          BY <4>1, <4>2
      <3>2. j \in 1 .. Len(q)
        OBVIOUS
      <3>3. q[j] = a[i] /\ q[j] + Window <= t
        BY <3>1, <3>2 DEF Ledger
      <3>4. QED
        BY <3>3
    <2>3. QED
      BY <2>1, <2>2
  <1>5. Len(b) <= l /\ Len(b) <= Len(a)
    BY <1>2 DEF Ledger
  <1>6. Ledger(b, a, l, t)
    BY <1>3, <1>4, <1>5 DEF Ledger
  <1>7. QED
    BY <1>1, <1>2, <1>6

LEMMA LedgerAdmits ==
    ASSUME NEW q \in Seq(Nat), NEW a \in Seq(Nat), NEW l \in Nat, NEW t \in Nat,
           Ledger(q, a, l, t), Len(q) < l
    PROVE  Ledger(Append(q, t), Append(a, t), l, t)
  <1>0. Window \in Nat
    BY RateLimitAssumption
  <1>1. PICK c, b : c = Append(q, t) /\ b = Append(a, t)
    OBVIOUS
  <1>2. /\ Len(c) = Len(q) + 1 /\ Len(b) = Len(a) + 1
        /\ \A i \in 1 .. Len(q) : c[i] = q[i]
        /\ \A i \in 1 .. Len(a) : b[i] = a[i]
        /\ c[Len(q) + 1] = t /\ b[Len(a) + 1] = t
    BY <1>1
  <1>3. ASSUME NEW i \in 1 .. Len(c) PROVE c[i] = b[Len(b) - Len(c) + i]
    <2>1. CASE i = Len(q) + 1
      BY <1>2, <2>1
    <2>2. CASE i \in 1 .. Len(q)
      <3>1. Len(a) - Len(q) + i \in 1 .. Len(a) /\ Len(b) - Len(c) + i = Len(a) - Len(q) + i
        BY <1>2, <2>2 DEF Ledger
      <3>2. QED
        BY <1>2, <2>2, <3>1 DEF Ledger
    <2>3. QED
      BY <1>2, <2>1, <2>2
  <1>4. ASSUME NEW i \in 1 .. Len(b) - Len(c) PROVE b[i] + Window <= t
    <2>1. i \in 1 .. Len(a) - Len(q) /\ i \in 1 .. Len(a)
      BY <1>2
    <2>2. QED
      BY <1>2, <2>1 DEF Ledger
  <1>5. ASSUME NEW i \in 1 .. Len(b) PROVE b[i] <= t
    <2>1. CASE i = Len(a) + 1
      BY <1>2, <2>1
    <2>2. CASE i \in 1 .. Len(a)
      BY <1>2, <2>2 DEF Ledger
    <2>3. QED
      BY <1>2, <2>1, <2>2
  <1>6. ASSUME NEW i \in 1 .. Len(b), NEW j \in 1 .. Len(b), j = i + l
        PROVE  b[i] + Window <= b[j]
    <2>1. CASE j = Len(a) + 1
      <3>1. b[j] = t
        BY <1>2, <2>1
      <3>2. i <= Len(b) - Len(c)
        <4>1. /\ Len(b) = Len(a) + 1 /\ Len(c) = Len(q) + 1
              /\ Len(a) + 1 = i + l
          BY <1>2, <1>6, <2>1
        <4>2. Len(a) \in Nat /\ Len(q) \in Nat /\ Len(q) + 1 <= l
          OBVIOUS
        <4>3. i \in Nat
          OBVIOUS
        <4>4. QED
          BY <4>1, <4>2, <4>3
      <3>3. i \in 1 .. Len(b) - Len(c)
        BY <3>2
      <3>4. QED
        BY <1>4, <3>1, <3>3
    <2>2. CASE j \in 1 .. Len(a)
      <3>1. i \in 1 .. Len(a)
        BY <1>6, <2>2
      <3>2. QED
        BY <1>2, <1>6, <2>2, <3>1 DEF Ledger
    <2>3. QED
      BY <1>2, <2>1, <2>2
  <1>7. Len(c) <= l /\ Len(c) <= Len(b)
    BY <1>2 DEF Ledger
  <1>8. QED
    BY <1>1, <1>3, <1>4, <1>5, <1>6, <1>7 DEF Ledger

----------------------------------------------------------------------------
(* Waiting.  The caller of one key was refused f times in a row, the last  *)
(* time told to wait until w.                                              *)

Patience(q, l, w, f) ==
    /\ f <= 2
    /\ f > 0 => Len(q) = l /\ q[1] + Window < w + Second
    /\ f = 2 => q[1] + Window <= w

\* Whole seconds that fall short of x ticks by less than one second.
LEMMA WholeSeconds ==
    ASSUME NEW x \in Nat, x > 0
    PROVE  LET whole == x \div Second
               retry == Second * (IF whole > 1 THEN whole ELSE 1)
           IN  retry \in Nat /\ x < retry + Second /\ (x < Second => x <= retry)
  <1>1. PICK n : n = x \div Second
    OBVIOUS
  <1>2. /\ n \in Nat /\ Second \in Nat \ {0}
        /\ Second * n <= x /\ x < Second * (n + 1)
    BY <1>1, RateLimitAssumption
  <1>3. /\ Second * n \in Nat /\ Second * 1 = Second
        /\ Second * (n + 1) = Second * n + Second
    BY <1>2
  <1>4. CASE n > 1
    <2>1. x < Second * n + Second /\ Second <= Second * n
      BY <1>2, <1>3, <1>4
    <2>2. QED
      BY <1>1, <1>2, <1>3, <1>4, <2>1
  <1>5. CASE n = 1
    BY <1>1, <1>2, <1>3, <1>5
  <1>6. CASE n = 0
    BY <1>1, <1>2, <1>3, <1>6
  <1>7. QED
    BY <1>2, <1>4, <1>5, <1>6

\* What a refusal over a full bucket tells the caller.
LEMMA RefusalPatience ==
    ASSUME NEW q \in Seq(Nat), NEW l \in Nat \ {0}, NEW w \in Nat, NEW f \in Nat,
           NEW t \in Nat, now = t, Patience(q, l, w, f), Len(q) = l,
           q[1] <= t, ~ Expired(q[1])
    PROVE  /\ RetryAfter(q) \in Nat
           /\ Patience(q, l, t + RetryAfter(q), IF t < w THEN 1 ELSE f + 1)
  <1>1. q[1] \in Nat
    <2>1. 1 \in 1 .. Len(q)
      OBVIOUS
    <2>2. QED
      BY <2>1, ElementOfSeq
  <1>2. PICK x : x = Window - (t - q[1])
    OBVIOUS
  <1>3. x \in Nat /\ x > 0 /\ q[1] + Window = t + x
    <2>1. ~ (q[1] + Window <= t) /\ Window \in Nat
      BY RateLimitAssumption DEF Expired
    <2>2. QED
      BY <1>1, <1>2, <2>1
  <1>4. PICK y : y = RetryAfter(q)
    OBVIOUS
  <1>5. y \in Nat /\ x < y + Second /\ (x < Second => x <= y)
    BY <1>2, <1>3, <1>4, WholeSeconds, now = t DEF RetryAfter
  <1>6. Second \in Nat /\ Window \in Nat
    BY RateLimitAssumption
  <1>7. q[1] + Window < t + y + Second
    BY <1>3, <1>5, <1>6
  <1> DEFINE Wanted == Patience(q, l, t + y, IF t < w THEN 1 ELSE f + 1)
  <1>8. ASSUME t < w \/ f = 0 PROVE Wanted
    BY <1>7, <1>8 DEF Patience
  <1>9. ASSUME t >= w, f = 1 PROVE Wanted
    <2>1. x < Second
      <3>1. q[1] + Window < w + Second
        BY <1>9 DEF Patience
      <3>2. QED
        BY <1>3, <1>6, <1>9, <3>1
    <2>2. q[1] + Window <= t + y
      BY <1>3, <1>5, <1>6, <2>1
    <2>3. QED
      BY <1>7, <1>9, <2>2 DEF Patience
  <1>10. ASSUME t >= w, f = 2 PROVE FALSE
    <2>1. q[1] + Window <= w
      BY <1>10 DEF Patience
    <2>2. QED
      BY <1>3, <1>6, <1>10, <2>1
  <1>11. Wanted
    <2>1. f \in {0, 1, 2}
      BY DEF Patience
    <2>2. QED
      BY <1>8, <1>9, <1>10, <2>1
  <1>12. QED
    BY <1>4, <1>5, <1>11

LimitInv ==
    /\ LimitTypeOK
    /\ \A k \in Keys : /\ Ledger(bucket[k], admitted[k], Limit[k], now)
                       /\ Patience(bucket[k], Limit[k], told[k], refused[k])

LEMMA InitLimit == LimitInit => LimitInv
  BY RateLimitAssumption DEF LimitInit, LimitInv, LimitTypeOK, NoCalls, Zeros, Ledger, Patience

LEMMA ForgetfulKeeps == ASSUME LimitInv, Forgetful PROVE LimitInv'
  BY RateLimitAssumption DEF Forgetful, LimitInv, LimitTypeOK, NoCalls, Zeros, Ledger, Patience

LEMMA TickKeeps == ASSUME LimitInv, Tick PROVE LimitInv'
  <1>1. now \in Nat /\ now' \in Nat /\ now <= now' /\ UNCHANGED limiter /\ Window \in Nat
    BY RateLimitAssumption DEF Tick, LimitInv, LimitTypeOK
  <1>2. ASSUME NEW q \in Seq(Nat), NEW a \in Seq(Nat), NEW l \in Nat,
               NEW t \in Nat, NEW u \in Nat, t <= u, Ledger(q, a, l, t)
        PROVE  Ledger(q, a, l, u)
    <2>1. \A i \in 1 .. Len(a) - Len(q) : i \in 1 .. Len(a)
      OBVIOUS
    <2>2. \A i \in 1 .. Len(a) : a[i] \in Nat
      OBVIOUS
    <2>3. \A i \in 1 .. Len(a) - Len(q) : a[i] + Window <= u
      <3>1. SUFFICES ASSUME NEW i \in 1 .. Len(a) - Len(q) PROVE a[i] + Window <= u
        OBVIOUS
      <3>2. a[i] + Window <= t /\ a[i] \in Nat
        BY <1>2, <2>1, <2>2 DEF Ledger
      <3>3. QED
        BY <1>1, <1>2, <3>2
    <2>4. \A i \in 1 .. Len(a) : a[i] <= u
      <3>1. SUFFICES ASSUME NEW i \in 1 .. Len(a) PROVE a[i] <= u
        OBVIOUS
      <3>2. a[i] <= t /\ a[i] \in Nat
        BY <1>2, <2>2 DEF Ledger
      <3>3. QED
        BY <1>2, <3>2
    <2>5. QED
      BY <1>2, <2>3, <2>4 DEF Ledger
  <1>3. PICK t, u : t = now /\ u = now'
    OBVIOUS
  <1>4. ASSUME NEW k \in Keys
        PROVE  Ledger(bucket'[k], admitted'[k], Limit[k], u)
    BY <1>1, <1>2, <1>3, RateLimitAssumption DEF LimitInv, LimitTypeOK, limiter
  <1>5. QED
    BY <1>1, <1>3, <1>4 DEF LimitInv, LimitTypeOK, limiter

\* What a call finds after forgetting.
LEMMA CallFinds ==
    ASSUME LimitInv, NEW k \in Keys
    PROVE  \E n \in 0 .. Len(bucket[k]) :
              /\ Forget(bucket[k]) = SubSeq(bucket[k], n + 1, Len(bucket[k]))
              /\ Forget(bucket[k]) \in Seq(Nat)
              /\ Len(Forget(bucket[k])) = Len(bucket[k]) - n
              /\ Ledger(Forget(bucket[k]), admitted[k], Limit[k], now)
              /\ n < Len(bucket[k]) => ~ Expired(bucket[k][n + 1])
  <1>1. /\ bucket[k] \in Seq(Nat) /\ admitted[k] \in Seq(Nat) /\ Limit[k] \in Nat /\ now \in Nat
        /\ Ledger(bucket[k], admitted[k], Limit[k], now)
    BY RateLimitAssumption DEF LimitInv, LimitTypeOK
  <1>2. PICK q, t : q = bucket[k] /\ t = now
    OBVIOUS
  <1>3. PICK n \in 0 .. Len(q) : /\ Forget(q) = SubSeq(q, n + 1, Len(q))
                                 /\ \A i \in 1 .. n : Expired(q[i])
                                 /\ n < Len(q) => ~ Expired(q[n + 1])
    BY <1>1, <1>2, ForgetsPrefix
  <1>4. \A i \in 1 .. n : q[i] + Window <= t
    BY <1>2, <1>3 DEF Expired
  <1>5. /\ SubSeq(q, n + 1, Len(q)) \in Seq(Nat) /\ Len(SubSeq(q, n + 1, Len(q))) = Len(q) - n
        /\ Ledger(SubSeq(q, n + 1, Len(q)), admitted[k], Limit[k], t)
    BY <1>1, <1>2, <1>3, <1>4, LedgerDrops
  <1>6. QED
    BY <1>2, <1>3, <1>5

LEMMA AdmitKeeps == ASSUME LimitInv, NEW k \in Keys, Admit(k) PROVE LimitInv'
  <1>1. PICK q, a, l, t : q = Forget(bucket[k]) /\ a = admitted[k] /\ l = Limit[k] /\ t = now
    OBVIOUS
  <1>2. /\ q \in Seq(Nat) /\ a \in Seq(Nat) /\ l \in Nat /\ t \in Nat
        /\ Ledger(q, a, l, t) /\ Len(q) < l
    BY <1>1, CallFinds, RateLimitAssumption DEF LimitInv, LimitTypeOK, Admit
  <1>3. Ledger(Append(q, t), Append(a, t), l, t) /\ Append(q, t) \in Seq(Nat)
        /\ Append(a, t) \in Seq(Nat)
    BY <1>2, LedgerAdmits
  <1>4. /\ bucket' \in [Keys -> Seq(Nat)] /\ admitted' \in [Keys -> Seq(Nat)]
        /\ refused' \in [Keys -> Nat] /\ told' = told /\ now' = t
        /\ bucket'[k] = Append(q, t) /\ admitted'[k] = Append(a, t) /\ refused'[k] = 0
        /\ \A j \in Keys : j # k => /\ bucket'[j] = bucket[j] /\ admitted'[j] = admitted[j]
                                    /\ refused'[j] = refused[j]
    BY <1>1, <1>3 DEF Admit, LimitInv, LimitTypeOK
  <1>5. LimitTypeOK'
    BY <1>1, <1>2, <1>4 DEF LimitInv, LimitTypeOK
  <1>6. ASSUME NEW j \in Keys
        PROVE  /\ Ledger(bucket'[j], admitted'[j], Limit[j], t)
               /\ Patience(bucket'[j], Limit[j], told'[j], refused'[j])
    <2>1. CASE j = k
      <3>1. Ledger(bucket'[j], admitted'[j], Limit[j], t)
        BY <1>1, <1>3, <1>4, <2>1
      <3>2. Patience(bucket'[j], Limit[j], told'[j], refused'[j])
        BY <1>4, <2>1 DEF Patience
      <3>3. QED
        BY <3>1, <3>2
    <2>2. CASE j # k
      BY <1>1, <1>4, <2>2 DEF LimitInv
    <2>3. QED
      BY <2>1, <2>2
  <1>7. QED
    BY <1>4, <1>5, <1>6 DEF LimitInv

LEMMA RefuseKeeps == ASSUME LimitInv, NEW k \in Keys, Refuse(k) PROVE LimitInv'
  <1>1. PICK q, a, l, t, w, f :
          /\ q = bucket[k] /\ a = admitted[k] /\ l = Limit[k] /\ t = now
          /\ w = told[k] /\ f = refused[k]
    OBVIOUS
  <1>2. /\ q \in Seq(Nat) /\ a \in Seq(Nat) /\ l \in Nat \ {0} /\ t \in Nat
        /\ w \in Nat /\ f \in Nat
        /\ Ledger(q, a, l, t) /\ Patience(q, l, w, f)
    BY <1>1, RateLimitAssumption DEF LimitInv, LimitTypeOK
  <1>3. Forget(q) = q /\ Len(q) = l /\ ~ Expired(q[1])
    <2>1. PICK n \in 0 .. Len(q) : /\ Forget(q) = SubSeq(q, n + 1, Len(q))
                                   /\ Len(Forget(q)) = Len(q) - n
                                   /\ n < Len(q) => ~ Expired(q[n + 1])
      BY <1>1, CallFinds
    <2>2. Len(Forget(q)) >= l /\ Len(q) <= l
      BY <1>1, <1>2 DEF Refuse, Ledger
    <2>3. n = 0 /\ Len(q) = l /\ 0 < Len(q)
      BY <1>2, <2>1, <2>2
    <2>4. Forget(q) = q
      BY <1>2, <2>1, <2>3, SubSeqFull
    <2>5. QED
      BY <2>1, <2>3, <2>4
  <1>4. q[1] <= t
    <2>1. Len(q) <= Len(a) /\ 1 \in 1 .. Len(q)
      BY <1>2, <1>3 DEF Ledger
    <2>2. Len(a) - Len(q) + 1 \in 1 .. Len(a)
      BY <1>2, <2>1
    <2>3. q[1] = a[Len(a) - Len(q) + 1]
      BY <1>2, <2>1 DEF Ledger
    <2>4. QED
      BY <1>2, <2>2, <2>3 DEF Ledger
  <1>5. /\ RetryAfter(q) \in Nat
        /\ Patience(q, l, t + RetryAfter(q), IF t < w THEN 1 ELSE f + 1)
    BY <1>1, <1>2, <1>3, <1>4, RefusalPatience
  <1>6. /\ bucket' = [bucket EXCEPT ![k] = q] /\ told' = [told EXCEPT ![k] = t + RetryAfter(q)]
        /\ refused' = [refused EXCEPT ![k] = IF t < w THEN 1 ELSE f + 1]
        /\ UNCHANGED <<now, admitted>>
    BY <1>1, <1>3 DEF Refuse
  <1>7. /\ bucket' = bucket /\ told' \in [Keys -> Nat] /\ refused' \in [Keys -> Nat]
        /\ told'[k] = t + RetryAfter(q) /\ refused'[k] = IF t < w THEN 1 ELSE f + 1
        /\ \A j \in Keys : j # k => told'[j] = told[j] /\ refused'[j] = refused[j]
    BY <1>1, <1>2, <1>5, <1>6 DEF LimitInv, LimitTypeOK
  <1>8. LimitTypeOK'
    BY <1>6, <1>7 DEF LimitInv, LimitTypeOK
  <1>9. ASSUME NEW j \in Keys
        PROVE  /\ Ledger(bucket'[j], admitted'[j], Limit[j], now')
               /\ Patience(bucket'[j], Limit[j], told'[j], refused'[j])
    <2>1. CASE j = k
      BY <1>1, <1>2, <1>5, <1>6, <1>7, <2>1
    <2>2. CASE j # k
      BY <1>6, <1>7, <2>2 DEF LimitInv
    <2>3. QED
      BY <2>1, <2>2
  <1>10. QED
    BY <1>8, <1>9 DEF LimitInv

LEMMA NextLimit == LimitInv /\ [LimitNext]_limitVars => LimitInv'
  <1> SUFFICES ASSUME LimitInv, [LimitNext]_limitVars PROVE LimitInv'
    OBVIOUS
  <1>1. CASE UNCHANGED limitVars
    BY <1>1 DEF limitVars, limiter, LimitInv, LimitTypeOK
  <1>2. QED
    BY <1>1, TickKeeps, ForgetfulKeeps, AdmitKeeps, RefuseKeeps DEF LimitNext

\* The invariant of the limiter holds whoever calls it (enforce_rate_limit).
THEOREM LimiterInvariant == LimitSpec => []LimitInv
  BY InitLimit, NextLimit, PTL DEF LimitSpec

\* A call that is admitted comes a whole window after the one admitted Limit
\* calls earlier.
LEMMA LedgerKeepsWindow == LimitInv => WindowIsKept
  <1> SUFFICES ASSUME LimitInv, NEW k \in Keys PROVE
        \A i, j \in DOMAIN admitted[k] :
            j = i + Limit[k] => admitted[k][i] + Window <= admitted[k][j]
    BY DEF WindowIsKept
  <1>1. PICK a, l : a = admitted[k] /\ l = Limit[k]
    OBVIOUS
  <1>2. a \in Seq(Nat) /\ \A i, j \in 1 .. Len(a) : j = i + l => a[i] + Window <= a[j]
    BY <1>1 DEF LimitInv, LimitTypeOK, Ledger
  <1>3. DOMAIN a = 1 .. Len(a)
    BY <1>2
  <1>4. QED
    BY <1>1, <1>2, <1>3

LEMMA PatienceHelps == LimitInv => WaitingHelps
  BY DEF LimitInv, Patience, WaitingHelps

----------------------------------------------------------------------------
(* Comments and reports take the steps of the limiter and no others.       *)

LEMMA InitUses == Init => LimitInit
  BY DEF Init

LEMMA NextUses == [Next]_vars => [LimitNext]_limitVars
  <1> SUFFICES ASSUME [Next]_vars PROVE [LimitNext]_limitVars
    OBVIOUS
  <1>1. ASSUME NEW r \in Requests, BeginComment(r) \/ BeginReport(r)
        PROVE  LimitNext
    <2>1. PICK u \in Readers, scope \in {"comment", "report"} :
             Admit(<<scope, u>>) \/ Refuse(<<scope, u>>)
      BY <1>1 DEF BeginComment, BeginReport, Enforced, Idle
    <2>2. <<scope, u>> \in Keys
      BY CommunityAssumption
    <2>3. QED
      BY <2>1, <2>2 DEF LimitNext
  <1>2. CASE Time
    BY <1>2 DEF Time, LimitNext
  <1>3. CASE UNCHANGED limitVars
    BY <1>3
  <1>4. QED
    BY <1>1, <1>2, <1>3 DEF Next, RequestStep, LoadPublication, LoadParent, InsertComment,
       BeginModerate, CommitModerate, LoadTarget, CheckExisting, InsertReport, BeginReview,
       CommitReview, AbortRequest, EditorialStep, Publish, Withdraw, ReadOnly, vars

\* create_comment and create_report use the limiter as it is specified.
THEOREM HandlersUseLimiter == Spec => UsesLimiter
  BY InitUses, NextUses, PTL DEF Spec, UsesLimiter, LimitSpec

\* For any limit and window, no window of time admits more comments or
\* reports of a member than the limit (enforce_rate_limit).
THEOREM LimitIsKept == Spec => []WindowIsKept
  BY HandlersUseLimiter, LimiterInvariant, LedgerKeepsWindow, PTL DEF UsesLimiter

\* Whoever waits for Retry-After is refused at most once more.
THEOREM PatienceIsRewarded == Spec => []WaitingHelps
  BY HandlersUseLimiter, LimiterInvariant, PatienceHelps, PTL DEF UsesLimiter

----------------------------------------------------------------------------
(* Comments and reports.  A request acts on rows that exist for good: no   *)
(* comment changes its place and no report is withdrawn.                   *)

Knows(s) ==
    /\ s.at \in {"publication", "parent", "insert"} => s.about \in Pubs
    /\ s.at = "parent" => s.parent \in Comments
    /\ s.at = "insert" /\ s.parent # None =>
          /\ comment[s.parent].exists
          /\ comment[s.parent].parent = None
          /\ comment[s.parent].pub = s.about
    /\ s.at = "moderate" =>
          s.about \in Comments /\ comment[s.about].exists /\ s.want \in BOOLEAN
    /\ s.at \in {"target", "existing", "file"} => s.about \in Targets /\ s.who \in Readers
    /\ s.at = "review" =>
          /\ s.about \in Reports /\ report[s.about].status # "absent"
          /\ s.want \in {"resolved", "dismissed"}

ContentTypeOK ==
    /\ published \subseteq Pubs
    /\ comment \in [Comments -> Comment]
    /\ lastAction \in [Comments -> {None, "hide", "restore"}]
    /\ report \in [Reports -> Report]
    /\ rq \in [Requests -> Request]

CommunityInv ==
    /\ ContentTypeOK
    /\ \A c \in Comments : comment[c].exists \/ ~ comment[c].hidden
    /\ VisibilityIsAudited
    /\ ThreadsAreFlat
    /\ OneReportEach
    /\ \A r \in Requests : Knows(rq[r])

LEMMA IdleKnows == Idle \in Request /\ Knows(Idle) /\ Knows(Idle)'
  BY DEF Idle, Request, Knows

LEMMA InitCommunity == Init => CommunityInv
  <1> SUFFICES ASSUME Init PROVE CommunityInv
    OBVIOUS
  <1>1. ContentTypeOK
    BY IdleKnows DEF Init, ContentTypeOK, Comment, NoComment, Report, NoReport
  <1>2. \A c \in Comments : comment[c] = NoComment /\ lastAction[c] = None
    BY DEF Init
  <1>3. VisibilityIsAudited /\ ThreadsAreFlat /\ \A c \in Comments : ~ comment[c].hidden
    BY <1>2, CommunityAssumption DEF VisibilityIsAudited, ThreadsAreFlat, NoComment
  <1>4. OneReportEach
    BY DEF Init, OneReportEach, NoReport
  <1>5. QED
    BY <1>1, <1>3, <1>4, IdleKnows DEF Init, CommunityInv

\* A step that only changes what one request holds, or what is published.
LEMMA HoldingKeeps ==
    ASSUME CommunityInv, UNCHANGED <<comment, lastAction, report>>, published' \subseteq Pubs,
           NEW r \in Requests, NEW s \in Request, Knows(s), rq' = [rq EXCEPT ![r] = s]
    PROVE  CommunityInv'
  <1>1. ContentTypeOK'
    BY DEF CommunityInv, ContentTypeOK
  <1>2. \A q \in Requests : rq'[q] = IF q = r THEN s ELSE rq[q]
    BY DEF CommunityInv, ContentTypeOK
  <1>3. \A q \in Requests : Knows(rq[q])'
    BY <1>2 DEF CommunityInv, Knows
  <1>4. VisibilityIsAudited' /\ ThreadsAreFlat' /\ OneReportEach'
    BY DEF CommunityInv, VisibilityIsAudited, ThreadsAreFlat, OneReportEach
  <1>5. QED
    BY <1>1, <1>3, <1>4 DEF CommunityInv

\* A step that moves one request on: what it holds otherwise stays.
LEMMA MoveKeeps ==
    ASSUME CommunityInv, NEW r \in Requests,
           NEW t \in {"parent", "insert", "existing", "file"},
           Goto(r, [rq[r] EXCEPT !.at = t]), ReadOnly,
           t \in {"parent", "insert"} => rq[r].about \in Pubs,
           t = "parent" => rq[r].parent \in Comments,
           t = "insert" /\ rq[r].parent # None =>
               /\ comment[rq[r].parent].exists
               /\ comment[rq[r].parent].parent = None
               /\ comment[rq[r].parent].pub = rq[r].about,
           t \in {"existing", "file"} => rq[r].about \in Targets /\ rq[r].who \in Readers
    PROVE  CommunityInv'
  <1>1. PICK s : s = [rq[r] EXCEPT !.at = t]
    OBVIOUS
  <1>2. rq[r] \in Request
    BY DEF CommunityInv, ContentTypeOK
  <1>3. /\ s \in Request /\ s.at = t /\ s.about = rq[r].about /\ s.parent = rq[r].parent
        /\ s.who = rq[r].who
    BY <1>1, <1>2 DEF Request
  <1>4. Knows(s)
    BY <1>3 DEF Knows
  <1>5. QED
    BY <1>1, <1>3, <1>4, HoldingKeeps DEF Goto, ReadOnly, content, CommunityInv, ContentTypeOK

LEMMA ReadsKeep ==
    ASSUME CommunityInv, NEW r \in Requests,
           \/ BeginComment(r) \/ LoadPublication(r) \/ LoadParent(r)
           \/ \E c \in Comments : BeginModerate(r, c)
           \/ BeginReport(r) \/ LoadTarget(r) \/ CheckExisting(r)
           \/ \E s \in Reports : BeginReview(r, s)
           \/ AbortRequest(r)
    PROVE  CommunityInv'
  <1>0. rq[r] \in Request /\ Knows(rq[r]) /\ published \subseteq Pubs
    BY DEF CommunityInv, ContentTypeOK
  <1>1. ASSUME NEW s \in Request, Knows(s), UNCHANGED content, Goto(r, s) \/ UNCHANGED rq
        PROVE  CommunityInv'
    <2>1. CASE Goto(r, s)
      BY <1>0, <1>1, <2>1, HoldingKeeps DEF Goto, content
    <2>2. CASE UNCHANGED rq
      BY <1>1, <2>2 DEF content, CommunityInv, ContentTypeOK, Knows, VisibilityIsAudited,
         ThreadsAreFlat, OneReportEach
    <2>3. QED
      BY <1>1, <2>1, <2>2
  <1>2. CASE BeginComment(r)
    <2>1. PICK u \in Readers, p \in Pubs, parent \in Comments \cup {None} :
             Enforced(r, "comment", [Idle EXCEPT !.at = "publication", !.who = u,
                                                 !.about = p, !.parent = parent])
      BY <1>2 DEF BeginComment
    <2>2. PICK s : s = [Idle EXCEPT !.at = "publication", !.who = u,
                                    !.about = p, !.parent = parent]
      OBVIOUS
    <2>3. s \in Request /\ Knows(s)
      BY <2>2 DEF Idle, Request, Targets, Knows
    <2>4. QED
      BY <1>1, <2>1, <2>2, <2>3 DEF Enforced
  <1>3. CASE BeginReport(r)
    <2>1. PICK u \in Readers, x \in Targets :
             Enforced(r, "report", [Idle EXCEPT !.at = "target", !.who = u, !.about = x])
      BY <1>3 DEF BeginReport
    <2>2. PICK s : s = [Idle EXCEPT !.at = "target", !.who = u, !.about = x]
      OBVIOUS
    <2>3. s \in Request /\ Knows(s)
      BY <2>2 DEF Idle, Request, Knows
    <2>4. QED
      BY <1>1, <2>1, <2>2, <2>3 DEF Enforced
  <1>4. CASE LoadPublication(r)
    BY <1>0, <1>4, MoveKeeps DEF LoadPublication, Knows, Request
  <1>5. CASE LoadParent(r)
    BY <1>0, <1>5, MoveKeeps DEF LoadParent, Knows, ReadOnly
  <1>6. ASSUME NEW c \in Comments, BeginModerate(r, c) PROVE CommunityInv'
    <2>1. PICK hide \in BOOLEAN : Goto(r, [Idle EXCEPT !.at = "moderate", !.about = c,
                                                      !.seen = comment[c].hidden, !.want = hide])
      BY <1>6 DEF BeginModerate
    <2>2. PICK s : s = [Idle EXCEPT !.at = "moderate", !.about = c,
                                    !.seen = comment[c].hidden, !.want = hide]
      OBVIOUS
    <2>3. comment[c].hidden \in BOOLEAN /\ comment[c].exists
      BY <1>6 DEF BeginModerate, CommunityInv, ContentTypeOK, Comment
    <2>4. s \in Request /\ Knows(s)
      BY <2>2, <2>3 DEF Idle, Request, Targets, Knows
    <2>5. QED
      BY <1>1, <1>6, <2>1, <2>2, <2>4 DEF BeginModerate, ReadOnly
  <1>7. CASE LoadTarget(r)
    BY <1>0, <1>7, MoveKeeps DEF LoadTarget, Knows
  <1>8. CASE CheckExisting(r)
    BY <1>0, <1>8, MoveKeeps DEF CheckExisting, Knows
  <1>9. ASSUME NEW t \in Reports, BeginReview(r, t) PROVE CommunityInv'
    <2>1. PICK verdict \in {"resolved", "dismissed"} :
             Goto(r, [Idle EXCEPT !.at = "review", !.about = t, !.want = verdict])
      BY <1>9 DEF BeginReview
    <2>2. PICK s : s = [Idle EXCEPT !.at = "review", !.about = t, !.want = verdict]
      OBVIOUS
    <2>3. s \in Request /\ Knows(s)
      BY <1>9, <2>2 DEF BeginReview, Idle, Request, Knows
    <2>4. QED
      BY <1>1, <1>9, <2>1, <2>2, <2>3 DEF BeginReview, ReadOnly
  <1>10. CASE AbortRequest(r)
    BY <1>1, <1>10, IdleKnows DEF AbortRequest, Finish, ReadOnly
  <1>11. QED
    BY <1>2, <1>3, <1>4, <1>5, <1>6, <1>7, <1>8, <1>9, <1>10

\* After a commit each request knows what it knew, for rows only move on.
LEMMA StillKnows ==
    ASSUME CommunityInv,
           \A c \in Comments : comment[c].exists =>
               /\ comment'[c].exists
               /\ comment'[c].parent = comment[c].parent
               /\ comment'[c].pub = comment[c].pub,
           \A s \in Reports : report[s].status # "absent" => report'[s].status # "absent",
           NEW r \in Requests, rq' = [rq EXCEPT ![r] = Idle]
    PROVE  /\ \A q \in Requests : Knows(rq[q])'
           /\ rq' \in [Requests -> Request]
  <1>1. /\ \A q \in Requests : rq'[q] = IF q = r THEN Idle ELSE rq[q]
        /\ rq' \in [Requests -> Request]
    BY IdleKnows DEF CommunityInv, ContentTypeOK
  <1>2. ASSUME NEW q \in Requests, rq'[q] = rq[q] PROVE Knows(rq[q])'
    <2>1. Knows(rq[q]) /\ rq[q] \in Request
      BY DEF CommunityInv, ContentTypeOK
    <2>2. rq[q].at = "insert" /\ rq[q].parent # None => rq[q].parent \in Comments
      BY <2>1 DEF Request
    <2>3. QED
      BY <1>2, <2>1, <2>2 DEF Knows
  <1>3. ASSUME NEW q \in Requests, rq'[q] = Idle PROVE Knows(rq[q])'
    <2>1. rq'[q].at = "idle"
      BY <1>3 DEF Idle
    <2>2. QED
      BY <2>1 DEF Knows
  <1>4. QED
    BY <1>1, <1>2, <1>3

LEMMA InsertCommentKeeps ==
    ASSUME CommunityInv, NEW r \in Requests, NEW c \in Comments, InsertComment(r, c)
    PROVE  CommunityInv'
  <1>0. /\ rq[r] \in Request /\ Knows(rq[r]) /\ rq[r].at = "insert" /\ ContentTypeOK
        /\ ~ comment[c].exists
    BY DEF CommunityInv, ContentTypeOK, InsertComment
  <1>1. PICK n : n = [exists |-> TRUE, pub |-> rq[r].about,
                      parent |-> rq[r].parent, hidden |-> FALSE]
    OBVIOUS
  <1>2. /\ n \in Comment /\ n.exists /\ n.pub = rq[r].about /\ n.parent = rq[r].parent
        /\ ~ n.hidden
    BY <1>0, <1>1 DEF Knows, Comment, Request
  <1>3. /\ \A d \in Comments : comment'[d] = IF d = c THEN n ELSE comment[d]
        /\ comment' \in [Comments -> Comment]
        /\ rq' = [rq EXCEPT ![r] = Idle] /\ UNCHANGED <<published, lastAction, report>>
    BY <1>0, <1>1, <1>2 DEF InsertComment, ContentTypeOK, Finish, Goto
  <1>4. /\ \A q \in Requests : Knows(rq[q])' /\ rq' \in [Requests -> Request]
    BY <1>0, <1>3, StillKnows
  <1>5. ContentTypeOK' /\ OneReportEach'
    BY <1>3, <1>4 DEF CommunityInv, ContentTypeOK, OneReportEach
  <1>6. VisibilityIsAudited' /\ \A d \in Comments : comment'[d].exists \/ ~ comment'[d].hidden
    BY <1>0, <1>2, <1>3 DEF CommunityInv, VisibilityIsAudited
  <1>7. ThreadsAreFlat'
    <2>1. ASSUME NEW d \in Comments, comment'[d].parent # None
          PROVE  /\ comment'[comment'[d].parent].exists
                 /\ comment'[comment'[d].parent].parent = None
                 /\ comment'[comment'[d].parent].pub = comment'[d].pub
      <3>1. PICK p : p = comment'[d].parent
        OBVIOUS
      <3>2. p \in Comments
        BY <1>3, <2>1, <3>1 DEF Comment
      <3>3. /\ comment[p].exists /\ comment[p].parent = None /\ comment[p].pub = comment'[d].pub
        <4>1. CASE d = c
          BY <1>0, <1>2, <1>3, <2>1, <3>1, <4>1 DEF Knows
        <4>2. CASE d # c
          BY <1>3, <2>1, <3>1, <4>2 DEF CommunityInv, ThreadsAreFlat
        <4>3. QED
          BY <4>1, <4>2
      <3>4. comment'[p] = comment[p]
        BY <1>0, <1>3, <3>2, <3>3
      <3>5. QED
        BY <3>1, <3>3, <3>4
    <2>2. QED
      BY <2>1 DEF ThreadsAreFlat
  <1>8. QED
    BY <1>4, <1>5, <1>6, <1>7 DEF CommunityInv

LEMMA CommitModerateKeeps ==
    ASSUME CommunityInv, NEW r \in Requests, CommitModerate(r) PROVE CommunityInv'
  <1>0. /\ rq[r] \in Request /\ Knows(rq[r]) /\ rq[r].at = "moderate" /\ ContentTypeOK
    BY DEF CommunityInv, ContentTypeOK, CommitModerate
  <1>1. PICK c \in Comments, w \in BOOLEAN : c = rq[r].about /\ w = rq[r].want
    BY <1>0 DEF Knows
  <1>2. /\ comment[c].exists /\ rq' = [rq EXCEPT ![r] = Idle] /\ UNCHANGED <<published, report>>
        /\ \/ /\ comment' = [comment EXCEPT ![c].hidden = w]
              /\ lastAction' = [lastAction EXCEPT ![c] = IF w THEN "hide" ELSE "restore"]
           \/ UNCHANGED <<comment, lastAction>>
    BY <1>0, <1>1 DEF CommitModerate, Finish, Goto, Knows
  <1>3. /\ comment' \in [Comments -> Comment]
        /\ lastAction' \in [Comments -> {None, "hide", "restore"}]
        /\ \A d \in Comments : /\ comment'[d].exists = comment[d].exists
                               /\ comment'[d].parent = comment[d].parent
                               /\ comment'[d].pub = comment[d].pub
        /\ \A d \in Comments : d # c => comment'[d] = comment[d] /\ lastAction'[d] = lastAction[d]
        /\ \/ comment'[c].hidden = w /\ lastAction'[c] = IF w THEN "hide" ELSE "restore"
           \/ comment'[c] = comment[c] /\ lastAction'[c] = lastAction[c]
    BY <1>0, <1>2 DEF ContentTypeOK, Comment
  <1>4. /\ \A q \in Requests : Knows(rq[q])' /\ rq' \in [Requests -> Request]
    BY <1>0, <1>2, <1>3, StillKnows
  <1>5. ContentTypeOK' /\ OneReportEach'
    BY <1>2, <1>3, <1>4 DEF CommunityInv, ContentTypeOK, OneReportEach
  <1>6. VisibilityIsAudited'
    <2>1. ASSUME NEW d \in Comments PROVE comment'[d].hidden <=> lastAction'[d] = "hide"
      <3>1. comment[d].hidden <=> lastAction[d] = "hide"
        BY DEF CommunityInv, VisibilityIsAudited
      <3>2. QED
        BY <1>3, <3>1
    <2>2. QED
      BY <2>1 DEF VisibilityIsAudited
  <1>7. \A d \in Comments : comment'[d].exists \/ ~ comment'[d].hidden
    BY <1>2, <1>3 DEF CommunityInv
  <1>8. ThreadsAreFlat'
    <2>1. \A d \in Comments : comment[d].parent # None => comment[d].parent \in Comments
      BY <1>0 DEF ContentTypeOK, Comment
    <2>2. ThreadsAreFlat
      BY DEF CommunityInv
    <2>3. QED
      BY <1>3, <2>1, <2>2 DEF ThreadsAreFlat
  <1>9. QED
    BY <1>4, <1>5, <1>6, <1>7, <1>8 DEF CommunityInv

LEMMA ReportCommitsKeep ==
    ASSUME CommunityInv, NEW r \in Requests,
           CommitReview(r) \/ \E s \in Reports : InsertReport(r, s)
    PROVE  CommunityInv'
  <1>0. rq[r] \in Request /\ Knows(rq[r]) /\ ContentTypeOK /\ OneReportEach
    BY DEF CommunityInv, ContentTypeOK
  <1>1. ASSUME report' \in [Reports -> Report], OneReportEach',
               \A s \in Reports : report[s].status # "absent" => report'[s].status # "absent",
               rq' = [rq EXCEPT ![r] = Idle], UNCHANGED <<published, comment, lastAction>>
        PROVE  CommunityInv'
    <2>1. /\ \A q \in Requests : Knows(rq[q])' /\ rq' \in [Requests -> Request]
      BY <1>0, <1>1, StillKnows
    <2>2. QED
      BY <1>1, <2>1 DEF CommunityInv, ContentTypeOK, VisibilityIsAudited, ThreadsAreFlat
  <1>2. CASE CommitReview(r)
    <2>1. PICK s \in Reports, v \in {"resolved", "dismissed"} : s = rq[r].about /\ v = rq[r].want
      BY <1>0, <1>2 DEF CommitReview, Knows
    <2>2. /\ report' = [report EXCEPT ![s].status = v] /\ report[s].status # "absent"
          /\ rq' = [rq EXCEPT ![r] = Idle] /\ UNCHANGED <<published, comment, lastAction>>
      BY <1>0, <1>2, <2>1 DEF CommitReview, Finish, Goto, Knows
    <2>3. /\ report' \in [Reports -> Report]
          /\ \A t \in Reports : /\ report'[t].by = report[t].by
                                /\ report'[t].target = report[t].target
                                /\ report'[t].status # "absent" <=> report[t].status # "absent"
      BY <1>0, <2>2 DEF ContentTypeOK, Report
    <2>4. OneReportEach'
      BY <1>0, <2>3 DEF OneReportEach
    <2>5. QED
      BY <1>1, <2>2, <2>3, <2>4
  <1>3. ASSUME NEW s \in Reports, InsertReport(r, s) PROVE CommunityInv'
    <2>1. PICK n : n = [by |-> rq[r].who, target |-> rq[r].about, status |-> "open"]
      OBVIOUS
    <2>2. n \in Report /\ n.by = rq[r].who /\ n.target = rq[r].about /\ n.status = "open"
      BY <1>0, <1>3, <2>1 DEF InsertReport, Knows, Report
    <2>3. /\ report' \in [Reports -> Report]
          /\ \A t \in Reports : report'[t] = IF t = s THEN n ELSE report[t]
          /\ \A t \in Reports : ~ (report[t].by = n.by /\ report[t].target = n.target)
          /\ rq' = [rq EXCEPT ![r] = Idle] /\ UNCHANGED <<published, comment, lastAction>>
      BY <1>0, <1>3, <2>1, <2>2 DEF InsertReport, Finish, Goto, SameReport, ContentTypeOK
    <2>4. OneReportEach'
      BY <1>0, <2>2, <2>3 DEF OneReportEach
    <2>5. \A t \in Reports : report[t].status # "absent" => report'[t].status # "absent"
      BY <2>2, <2>3
    <2>6. QED
      BY <1>1, <2>3, <2>4, <2>5
  <1>4. QED
    BY <1>2, <1>3

LEMMA NextCommunity == CommunityInv /\ [Next]_vars => CommunityInv'
  <1> SUFFICES ASSUME CommunityInv, [Next]_vars PROVE CommunityInv'
    OBVIOUS
  <1>1. ASSUME UNCHANGED <<comment, lastAction, report, rq>>, published' \subseteq Pubs
        PROVE  CommunityInv'
    BY <1>1 DEF CommunityInv, ContentTypeOK, Knows, VisibilityIsAudited, ThreadsAreFlat,
       OneReportEach
  <1>2. CASE EditorialStep
    BY <1>1, <1>2 DEF EditorialStep, Publish, Withdraw, Materials!Publish, Materials!Withdraw,
       CommunityInv, ContentTypeOK
  <1>3. CASE Time \/ UNCHANGED vars
    BY <1>1, <1>3 DEF Time, vars, content, CommunityInv, ContentTypeOK
  <1>4. ASSUME NEW r \in Requests, RequestStep(r) PROVE CommunityInv'
    BY <1>4, ReadsKeep, InsertCommentKeeps, CommitModerateKeeps, ReportCommitsKeep
       DEF RequestStep
  <1>5. QED
    BY <1>2, <1>3, <1>4 DEF Next

\* What requests know of comments and reports holds in every reachable state.
THEOREM CommunityInvariant == Spec => []CommunityInv
  BY InitCommunity, NextCommunity, PTL DEF Spec

\* A comment is hidden exactly when the audit row committed last says so: no
\* change of visibility is without its row, and no row without its change,
\* for any number of moderators (update_comment_visibility).
THEOREM HiddenIsAudited == Spec => []VisibilityIsAudited
  <1>1. CommunityInv => VisibilityIsAudited
    BY DEF CommunityInv
  <1>2. QED
    BY CommunityInvariant, <1>1, PTL

\* Replies are one level deep and within one publication (create_comment).
THEOREM RepliesAreFlat == Spec => []ThreadsAreFlat
  <1>1. CommunityInv => ThreadsAreFlat
    BY DEF CommunityInv
  <1>2. QED
    BY CommunityInvariant, <1>1, PTL

\* A member reports a target once (create_report and its unique key).
THEOREM ReportsAreUnique == Spec => []OneReportEach
  <1>1. CommunityInv => OneReportEach
    BY DEF CommunityInv
  <1>2. QED
    BY CommunityInvariant, <1>1, PTL
============================================================================
