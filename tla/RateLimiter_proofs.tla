------------------------- MODULE RateLimiter_proofs -------------------------
(***************************************************************************)
(* Proofs about RateLimiter, for every limit, window, clock resolution and *)
(* lag.                                                                    *)
(***************************************************************************)
EXTENDS RateLimiter, TLAPS

(* What a deque knows of the past, at the instant t: it is the tail of all *)
(* the instants, and what it forgot is out of the window for good.         *)
TailOf(all, tail, t) ==
    LET gone == Len(all) - Len(tail) IN
    /\ gone >= 0
    /\ \A i \in 1 .. Len(tail) : tail[i] = all[gone + i]
    /\ \A i \in 1 .. gone : all[i] <= t - Window
    /\ \A i \in 1 .. Len(all) : all[i] <= t

Recorded(k) == TailOf(admitted[k], events[k], now)

LInv ==
    /\ TypeOK
    /\ \A k \in Keys : Recorded(k)
    /\ NeverOverLimit
    /\ RetryAfterIsHonest

(* What int() cuts off is less than a second.                              *)
LEMMA Division ==
    \A x \in Int : \A d \in Nat \ {0} :
        x \div d \in Int /\ d * (x \div d) <= x /\ x < d * (x \div d) + d
OBVIOUS

(* Rounding a positive number of seconds up and turning it back into ticks.*)
LEMMA RoundUp ==
    ASSUME NEW d \in Nat \ {0}, NEW q \in Int, NEW w \in Int,
           w = IF q + 1 > 1 THEN q + 1 ELSE 1
    PROVE  /\ d * w \in Nat
           /\ q >= 1 => d * w = d * q + d
           /\ ~(q >= 1) => d * w = d /\ d * q <= 0
<1>1. CASE q >= 1
  <2>1. w = q + 1
    BY <1>1
  <2>2. d * w = d * q + d
    BY <2>1
  <2>3. d * q \in Nat
    BY <1>1
  <2> QED
    BY <1>1, <2>2, <2>3
<1>2. CASE ~(q >= 1)
  <2>1. w = 1
    BY <1>2
  <2>2. d * q <= 0
    BY <1>2
  <2> QED
    BY <1>2, <2>1, <2>2
<1> QED
  BY <1>1, <1>2

(* The arithmetic of a wait of dw ticks, dq those of its full seconds.     *)
LEMMA WaitArithmetic ==
    ASSUME NEW oldest \in Nat, NEW window \in Nat, NEW instant \in Nat, NEW late \in Nat,
           NEW d \in Nat \ {0}, NEW dq \in Int, NEW dw \in Nat,
           dq <= window - (instant - oldest), window - (instant - oldest) < dq + d,
           instant < oldest + window + late,
           dw = dq + d \/ (dw = d /\ dq <= 0)
    PROVE  /\ instant + dw \in Nat
           /\ oldest + window <= instant + dw
           /\ instant + dw <= oldest + window + d + late
OBVIOUS

(* The wait a refused request is told: at least until the oldest instant   *)
(* has left the window, at most a second longer.                           *)
LEMMA Wait ==
    ASSUME NEW s \in Seq(Nat), Len(s) > 0, NEW instant \in Nat, NEW late \in Nat,
           instant < s[1] + Window + late
    PROVE  /\ instant + Second * retry_after(s, instant) \in Nat
           /\ s[1] + Window <= instant + Second * retry_after(s, instant)
           /\ instant + Second * retry_after(s, instant) <= s[1] + Window + Second + late
<1> DEFINE x == Window - (instant - s[1])
           q == x \div Second
           w == retry_after(s, instant)
<1>1. s[1] \in Nat /\ x \in Int /\ Second \in Nat \ {0} /\ Window \in Nat
  BY LimiterAssumption
<1>2. q \in Int /\ Second * q <= x /\ x < Second * q + Second
  <2> HIDE DEF x
  <2> QED
    BY <1>1, Division
<1>3. w = IF q + 1 > 1 THEN q + 1 ELSE 1
  BY DEF retry_after
<1>4. x = Window - (instant - s[1])
  OBVIOUS
<1> HIDE DEF x, q, w
<1>5. w \in Int
  BY <1>2, <1>3
<1>6. /\ Second * w \in Nat
      /\ q >= 1 => Second * w = Second * q + Second
      /\ ~(q >= 1) => Second * w = Second /\ Second * q <= 0
  BY <1>1, <1>2, <1>3, <1>5, RoundUp
<1> DEFINE sw == Second * w
           sq == Second * q
<1>7. /\ sw \in Nat /\ sq \in Int /\ sq <= x /\ x < sq + Second
      /\ q >= 1 => sw = sq + Second
      /\ ~(q >= 1) => sw = Second /\ sq <= 0
  BY <1>1, <1>2, <1>6
<1> HIDE DEF sw, sq
<1>8. /\ instant + sw \in Nat
      /\ s[1] + Window <= instant + sw
      /\ instant + sw <= s[1] + Window + Second + late
  BY <1>1, <1>4, <1>7, WaitArithmetic
<1> QED
  BY <1>8 DEF sw, w

(* What the loop of check leaves: the deque without its first n instants.  *)
LEMMA AfterFacts ==
    ASSUME NEW s \in Seq(Nat), NEW n \in 0 .. Len(s)
    PROVE  /\ After(s, n) \in Seq(Nat)
           /\ Len(After(s, n)) = Len(s) - n
           /\ \A i \in 1 .. Len(s) - n : After(s, n)[i] = s[n + i]
BY DEF After

(* At start the deques are empty and nobody was refused.                   *)
LEMMA Initially == Init => LInv
BY LimiterAssumption DEF Init, LInv, TypeOK, Recorded, TailOf, NeverOverLimit, RetryAfterIsHonest

(* Nothing is refused out of a deque the loop has shortened: Limit instants*)
(* or more are left only when none was popped.                             *)
LEMMA RefuseFacts ==
    ASSUME LInv, NEW k \in Keys, Refuse(k)
    PROVE  /\ events' = events /\ admitted' = admitted
           /\ now' \in Nat /\ now <= now' /\ now' <= now + Lag
           /\ Len(events[k]) = Limit
           /\ events[k][1] > now - Window
           /\ told' = [told EXCEPT ![k] = now' + Second * retry_after(events[k], now')]
<1>1. PICK n \in 0 .. Len(events[k]), lag \in 0 .. Lag :
         /\ Expired(events[k], n)
         /\ Full(After(events[k], n))
         /\ events' = [events EXCEPT ![k] = After(@, n)]
         /\ now' = now + lag
         /\ told' = [told EXCEPT ![k] = now' + Second * retry_after(events'[k], now')]
         /\ admitted' = admitted
  BY DEF Refuse
<1>2. /\ events \in [Keys -> Seq(Nat)] /\ events[k] \in Seq(Nat)
      /\ Len(events[k]) <= Limit /\ now \in Nat
  BY DEF LInv, TypeOK
<1>3. Len(After(events[k], n)) = Len(events[k]) - n
  BY <1>2, AfterFacts
<1>4. n = 0 /\ Len(events[k]) = Limit
  BY <1>1, <1>2, <1>3, LimiterAssumption DEF Full
<1>5. After(events[k], n) = events[k]
  BY <1>2, <1>4 DEF After
<1>6. events' = events
  BY <1>1, <1>2, <1>5
<1>7. events[k][1] > now - Window
  BY <1>1, <1>4, LimiterAssumption DEF Expired, Cutoff
<1>8. told' = [told EXCEPT ![k] = now' + Second * retry_after(events[k], now')]
  BY <1>1, <1>6
<1>9. now' \in Nat /\ now <= now' /\ now' <= now + Lag
  BY <1>1, <1>2, LimiterAssumption
<1> QED
  BY <1>1, <1>4, <1>6, <1>7, <1>8, <1>9

(* A request is let through when fewer than Limit instants are left.       *)
LEMMA AdmitFacts ==
    ASSUME LInv, NEW k \in Keys, Admit(k)
    PROVE  \E n \in 0 .. Len(events[k]) :
             /\ Len(events[k]) - n < Limit
             /\ \A i \in 1 .. n : events[k][i] <= now - Window
             /\ events' = [events EXCEPT ![k] = Append(After(events[k], n), now)]
             /\ admitted' = [admitted EXCEPT ![k] = Append(admitted[k], now)]
             /\ told' = [told EXCEPT ![k] = NULL]
             /\ now' = now
<1>1. PICK n \in 0 .. Len(events[k]) :
         /\ Expired(events[k], n)
         /\ ~Full(After(events[k], n))
         /\ events' = [events EXCEPT ![k] = Append(After(@, n), now)]
         /\ admitted' = [admitted EXCEPT ![k] = Append(@, now)]
         /\ told' = [told EXCEPT ![k] = NULL]
         /\ now' = now
  BY DEF Admit
<1>2. Len(After(events[k], n)) = Len(events[k]) - n
  BY AfterFacts DEF LInv, TypeOK
<1>3. Len(events[k]) - n < Limit
  BY <1>1, <1>2, LimiterAssumption DEF Full, LInv, TypeOK
<1> QED
  BY <1>1, <1>3 DEF Expired, Cutoff

(* Dropping n instants off a tail and adding one to it and to the whole    *)
(* leaves a tail; what is not in it was dropped now or before.             *)
LEMMA TailStep ==
    ASSUME NEW all \in Seq(Nat), NEW tail \in Seq(Nat), NEW n \in 0 .. Len(tail),
           NEW t \in Nat, TailOf(all, tail, t),
           \A i \in 1 .. n : tail[i] <= t - Window
    PROVE  TailOf(Append(all, t), Append(After(tail, n), t), t)
<1> DEFINE all2  == Append(all, t)
           tail2 == Append(After(tail, n), t)
           la    == Len(all)
           lt    == Len(tail)
           cut   == t - Window
<1>1. /\ la \in Nat /\ lt \in Nat /\ lt <= la /\ n \in 0 .. lt /\ cut \in Int
      /\ \A i \in 1 .. lt : tail[i] = all[la - lt + i]
      /\ \A i \in 1 .. la - lt : all[i] <= cut
      /\ \A i \in 1 .. la : all[i] <= t
  BY LimiterAssumption DEF TailOf
<1>2. /\ Len(all2) = la + 1 /\ all2[la + 1] = t
      /\ \A i \in 1 .. la : all2[i] = all[i]
  OBVIOUS
<1>3. /\ After(tail, n) \in Seq(Nat) /\ Len(After(tail, n)) = lt - n
      /\ \A i \in 1 .. lt - n : After(tail, n)[i] = tail[n + i]
  BY AfterFacts
<1>4. /\ Len(tail2) = lt - n + 1 /\ tail2[lt - n + 1] = t
      /\ \A i \in 1 .. lt - n : tail2[i] = tail[n + i]
  BY <1>3
<1>5. \A i \in 1 .. n : tail[i] <= cut
  OBVIOUS
<1>t. t \in Nat
  OBVIOUS
<1>6. TailOf(all2, tail2, t) <=>
        /\ Len(all2) - Len(tail2) >= 0
        /\ \A i \in 1 .. Len(tail2) : tail2[i] = all2[Len(all2) - Len(tail2) + i]
        /\ \A i \in 1 .. Len(all2) - Len(tail2) : all2[i] <= cut
        /\ \A i \in 1 .. Len(all2) : all2[i] <= t
  BY DEF TailOf
<1> HIDE DEF all2, tail2, la, lt, cut
<1>7. Len(all2) - Len(tail2) = la - lt + n /\ Len(all2) - Len(tail2) >= 0
  BY <1>1, <1>2, <1>4
<1>8. ASSUME NEW i \in 1 .. lt - n + 1 PROVE tail2[i] = all2[la - lt + n + i]
  <2>1. CASE i \in 1 .. lt - n
    <3>1. /\ n + i \in 1 .. lt /\ la - lt + (n + i) \in 1 .. la
          /\ la - lt + (n + i) = la - lt + n + i
      BY <1>1, <2>1
    <3>2. tail2[i] = tail[n + i]
      BY <1>4, <2>1
    <3> QED
      BY <1>1, <1>2, <3>1, <3>2
  <2>2. CASE i = lt - n + 1
    <3>1. la - lt + n + i = la + 1
      BY <1>1, <2>2
    <3> QED
      BY <1>2, <1>4, <2>2, <3>1
  <2> QED
    BY <1>1, <2>1, <2>2
<1>9. ASSUME NEW i \in 1 .. la - lt + n PROVE all2[i] <= cut
  <2>1. i \in 1 .. la /\ all2[i] = all[i]
    BY <1>1, <1>2
  <2>2. CASE i \in 1 .. la - lt
    BY <1>1, <2>1, <2>2
  <2>3. CASE ~(i \in 1 .. la - lt)
    <3>1. i - (la - lt) \in 1 .. n /\ i - (la - lt) \in 1 .. lt
      BY <1>1, <2>3
    <3>2. la - lt + (i - (la - lt)) = i
      BY <1>1
    <3> QED
      BY <1>1, <1>5, <2>1, <3>1, <3>2
  <2> QED
    BY <2>2, <2>3
<1>10. ASSUME NEW i \in 1 .. la + 1 PROVE all2[i] <= t
  <2>1. CASE i \in 1 .. la
    BY <1>1, <1>2, <2>1
  <2>2. CASE i = la + 1
    BY <1>2, <1>t, <2>2
  <2> QED
    BY <1>1, <2>1, <2>2
<1>11. TailOf(all2, tail2, t)
  BY <1>2, <1>4, <1>6, <1>7, <1>8, <1>9, <1>10
<1> QED
  BY <1>11 DEF all2, tail2

(* A request let through: it is the newest instant, and what the loop      *)
(* popped joins what is out of the window.                                 *)
LEMMA AdmitRecorded ==
    ASSUME LInv, NEW k \in Keys, Admit(k), NEW j \in Keys
    PROVE  Recorded(j)'
<1>1. PICK n \in 0 .. Len(events[k]) :
             /\ \A i \in 1 .. n : events[k][i] <= now - Window
             /\ events' = [events EXCEPT ![k] = Append(After(events[k], n), now)]
             /\ admitted' = [admitted EXCEPT ![k] = Append(admitted[k], now)]
             /\ now' = now
  BY AdmitFacts
<1>2. /\ events[k] \in Seq(Nat) /\ admitted[k] \in Seq(Nat) /\ now \in Nat
      /\ events \in [Keys -> Seq(Nat)] /\ admitted \in [Keys -> Seq(Nat)]
      /\ Recorded(k) /\ Recorded(j)
  BY DEF LInv, TypeOK
<1>3. CASE j # k
  BY <1>1, <1>2, <1>3 DEF Recorded
<1>4. CASE j = k
  <2>1. TailOf(Append(admitted[k], now), Append(After(events[k], n), now), now)
    BY <1>1, <1>2, TailStep DEF Recorded
  <2> QED
    BY <1>1, <1>2, <1>4, <2>1 DEF Recorded
<1> QED
  BY <1>3, <1>4

(* A request let through starts a window Limit requests after any other.   *)
LEMMA AdmitNeverOver ==
    ASSUME LInv, NEW k \in Keys, Admit(k)
    PROVE  NeverOverLimit'
<1>1. PICK n \in 0 .. Len(events[k]) :
             /\ Len(events[k]) - n < Limit
             /\ \A i \in 1 .. n : events[k][i] <= now - Window
             /\ admitted' = [admitted EXCEPT ![k] = Append(admitted[k], now)]
  BY AdmitFacts
<1> SUFFICES ASSUME NEW j \in Keys, NEW i \in 1 .. Len(admitted'[j]) - Limit
             PROVE  admitted'[j][i + Limit] - admitted'[j][i] >= Window
  BY DEF NeverOverLimit
<1>2. /\ events[k] \in Seq(Nat) /\ admitted[k] \in Seq(Nat) /\ now \in Nat
      /\ admitted \in [Keys -> Seq(Nat)] /\ Recorded(k) /\ NeverOverLimit
      /\ Limit \in Nat \ {0} /\ Window \in Nat
  BY LimiterAssumption DEF LInv, TypeOK
<1>3. CASE j # k
  BY <1>1, <1>2, <1>3 DEF NeverOverLimit
<1>4. CASE j = k
  <2> DEFINE a == admitted[k]
             old == events[k]
             gone == Len(a) - Len(old)
  <2>a. /\ gone >= 0
        /\ \A m \in 1 .. Len(old) : old[m] = a[gone + m]
        /\ \A m \in 1 .. gone : a[m] <= now - Window
    BY <1>2 DEF Recorded, TailOf
  <2>b. /\ Len(a) \in Nat /\ Len(old) \in Nat /\ gone = Len(a) - Len(old)
        /\ n \in 0 .. Len(old) /\ i \in Nat
    BY <1>1, <1>2
  <2>0. /\ Len(old) - n < Limit
        /\ \A m \in 1 .. n : old[m] <= now - Window
    BY <1>1
  <2>1. /\ admitted'[j] = Append(a, now) /\ Len(Append(a, now)) = Len(a) + 1
        /\ Append(a, now)[Len(a) + 1] = now
        /\ \A m \in 1 .. Len(a) : Append(a, now)[m] = a[m] /\ a[m] \in Nat
    BY <1>1, <1>2, <1>4
  <2> HIDE DEF a, old, gone
  <2>2. i \in 1 .. Len(a) /\ i + Limit \in 1 .. Len(a) + 1
    BY <1>2, <2>1
  <2>3. CASE i + Limit \in 1 .. Len(a)
    <3>1. i \in 1 .. Len(a) - Limit
      BY <1>2, <2>2, <2>3
    <3>2. a[i + Limit] - a[i] >= Window
      BY <1>2, <3>1 DEF NeverOverLimit, a
    <3> QED
      BY <2>1, <2>2, <2>3, <3>2
  <2>4. CASE i + Limit = Len(a) + 1
    <3>1. i \in 1 .. gone + n /\ gone \in Nat
      BY <1>2, <2>0, <2>a, <2>b, <2>2, <2>4
    <3>2. a[i] <= now - Window
      <4>1. CASE i <= gone
        BY <2>0, <2>a, <2>b, <3>1, <4>1
      <4>2. CASE i > gone
        <5>1. i - gone \in 1 .. n /\ i - gone \in 1 .. Len(old) /\ gone + (i - gone) = i
          BY <2>0, <2>a, <2>b, <3>1, <4>2
        <5> QED
          BY <2>0, <2>a, <2>b, <5>1
      <4> QED
        BY <2>0, <2>a, <2>b, <3>1, <4>1, <4>2
    <3> QED
      BY <1>2, <2>1, <2>2, <2>4, <3>2
  <2> QED
    <3>1. i + Limit \in Nat /\ i + Limit \in 1 .. Len(a) + 1
      BY <1>2, <2>2, <2>b
    <3> QED
      BY <2>3, <2>4, <2>b, <3>1
<1> QED
  BY <1>3, <1>4

(* The types after a request let through, and what was told to others.     *)
LEMMA AdmitTypes ==
    ASSUME LInv, NEW k \in Keys, Admit(k)
    PROVE  TypeOK' /\ RetryAfterIsHonest'
<1>1. PICK n \in 0 .. Len(events[k]) :
             /\ Len(events[k]) - n < Limit
             /\ events' = [events EXCEPT ![k] = Append(After(events[k], n), now)]
             /\ admitted' = [admitted EXCEPT ![k] = Append(admitted[k], now)]
             /\ told' = [told EXCEPT ![k] = NULL]
             /\ now' = now
  BY AdmitFacts
<1>2. TypeOK /\ RetryAfterIsHonest /\ Limit \in Nat
  BY LimiterAssumption DEF LInv
<1>3. /\ After(events[k], n) \in Seq(Nat)
      /\ Len(After(events[k], n)) = Len(events[k]) - n
  BY <1>2, AfterFacts DEF TypeOK
<1> DEFINE new == Append(After(events[k], n), now)
<1>4. new \in Seq(Nat) /\ Len(new) = Len(events[k]) - n + 1
  BY <1>2, <1>3 DEF TypeOK
<1>5. Len(new) <= Limit
  BY <1>1, <1>2, <1>4 DEF TypeOK
<1>6. Append(admitted[k], now) \in Seq(Nat)
  BY <1>2 DEF TypeOK
<1>7. events' = [events EXCEPT ![k] = new]
  BY <1>1
<1> HIDE DEF new
<1>8. TypeOK'
  BY <1>1, <1>2, <1>4, <1>5, <1>6, <1>7 DEF TypeOK
<1>9. RetryAfterIsHonest'
  BY <1>1, <1>2, <1>7 DEF TypeOK, RetryAfterIsHonest
<1> QED
  BY <1>8, <1>9

(* The wait a refused request is told fits its deque, which stays.         *)
LEMMA RefuseTypes ==
    ASSUME LInv, NEW k \in Keys, Refuse(k)
    PROVE  TypeOK' /\ RetryAfterIsHonest'
<1> DEFINE wait == now' + Second * retry_after(events[k], now')
<1>1. /\ events' = events /\ admitted' = admitted
      /\ now' \in Nat /\ now <= now' /\ now' <= now + Lag
      /\ Len(events[k]) = Limit
      /\ events[k][1] > now - Window
      /\ told' = [told EXCEPT ![k] = wait]
  BY RefuseFacts
<1>2. /\ TypeOK /\ RetryAfterIsHonest
      /\ Limit \in Nat \ {0} /\ Window \in Nat /\ Lag \in Nat
  BY LimiterAssumption DEF LInv
<1>3. events[k] \in Seq(Nat) /\ Len(events[k]) > 0 /\ now \in Nat
  BY <1>1, <1>2 DEF TypeOK
<1>4. events[k][1] \in Nat
  BY <1>3
<1>5. now' < events[k][1] + Window + Lag
  BY <1>1, <1>2, <1>3, <1>4
<1>6. /\ wait \in Nat
      /\ events[k][1] + Window <= wait
      /\ wait <= events[k][1] + Window + Second + Lag
  BY <1>1, <1>2, <1>3, <1>5, Wait
<1> HIDE DEF wait
<1>7. TypeOK'
  BY <1>1, <1>2, <1>6 DEF TypeOK
<1>8. RetryAfterIsHonest'
  BY <1>1, <1>2, <1>6 DEF TypeOK, RetryAfterIsHonest
<1> QED
  BY <1>7, <1>8

(* Time passing takes nothing back: what was out of the window stays out.  *)
LEMMA Later ==
    ASSUME NEW all \in Seq(Nat), NEW tail \in Seq(Nat),
           NEW t \in Nat, NEW u \in Nat, t <= u, TailOf(all, tail, t)
    PROVE  TailOf(all, tail, u)
<1>1. Window \in Nat /\ Len(all) \in Nat /\ Len(tail) \in Nat
  BY LimiterAssumption
<1>2. \A i \in 1 .. Len(all) : all[i] \in Nat
  OBVIOUS
<1> QED
  BY <1>1, <1>2 DEF TailOf

(* Every step keeps the invariant.                                         *)
LEMMA Preserved == LInv /\ [Next]_vars => LInv'
<1> SUFFICES ASSUME LInv, [Next]_vars PROVE LInv'
  OBVIOUS
<1>1. ASSUME NEW k \in Keys, Admit(k) PROVE LInv'
  <2>1. TypeOK' /\ RetryAfterIsHonest'
    BY <1>1, AdmitTypes
  <2>2. NeverOverLimit'
    BY <1>1, AdmitNeverOver
  <2>3. \A j \in Keys : Recorded(j)'
    BY <1>1, AdmitRecorded
  <2> QED
    BY <2>1, <2>2, <2>3 DEF LInv
<1>2. ASSUME NEW k \in Keys, Refuse(k) PROVE LInv'
  <2>1. TypeOK' /\ RetryAfterIsHonest'
    BY <1>2, RefuseTypes
  <2>2. events' = events /\ admitted' = admitted /\ now' \in Nat /\ now <= now'
    BY <1>2, RefuseFacts
  <2>3. NeverOverLimit'
    BY <2>2 DEF LInv, NeverOverLimit
  <2>4. ASSUME NEW j \in Keys PROVE Recorded(j)'
    BY <2>2, Later DEF LInv, TypeOK, Recorded
  <2> QED
    BY <2>1, <2>3, <2>4 DEF LInv
<1>3. CASE Tick
  <2>1. /\ events' = events /\ admitted' = admitted /\ told' = told
        /\ now \in Nat /\ now' \in Nat /\ now <= now'
    BY <1>3 DEF Tick, LInv, TypeOK
  <2>2. TypeOK' /\ NeverOverLimit' /\ RetryAfterIsHonest'
    BY <2>1 DEF LInv, TypeOK, NeverOverLimit, RetryAfterIsHonest
  <2>3. ASSUME NEW j \in Keys PROVE Recorded(j)'
    BY <2>1, Later DEF LInv, TypeOK, Recorded
  <2> QED
    BY <2>2, <2>3 DEF LInv
<1>4. CASE UNCHANGED vars
  BY <1>4 DEF vars, LInv, TypeOK, Recorded, NeverOverLimit, RetryAfterIsHonest
<1> QED
  BY <1>1, <1>2, <1>3, <1>4 DEF Next

(* In every state of the limiter.                                          *)
LEMMA Invariant == Spec => []LInv
BY Initially, Preserved, PTL DEF Spec

(* check: no deque of the limiter outgrows the limit.                      *)
THEOREM LimiterTypes == Spec => []TypeOK
<1>1. LInv => TypeOK
  BY DEF LInv
<1> QED
  BY <1>1, Invariant, PTL

(* check: no window, wherever it starts, sees more than Limit requests of  *)
(* one key, although the deque forgets.                                    *)
THEOREM NeverOverTheLimit == Spec => []NeverOverLimit
<1>1. LInv => NeverOverLimit
  BY DEF LInv
<1> QED
  BY <1>1, Invariant, PTL

(* retry_after: who waits as long as told finds the window no longer full. *)
THEOREM RetryAfterHonest == Spec => []RetryAfterIsHonest
<1>1. LInv => RetryAfterIsHonest
  BY DEF LInv
<1> QED
  BY <1>1, Invariant, PTL

(* check: a refusal means Limit requests were let through within a window. *)
LEMMA RefusedStep ==
    ASSUME LInv, [Next]_vars, NEW k \in Keys, told'[k] # told[k], told'[k] # NULL
    PROVE  /\ Len(admitted[k]) >= Limit
           /\ admitted[k][Len(admitted[k]) - Limit + 1] > now - Window
<1>1. told \in [Keys -> Nat \union {NULL}]
  BY DEF LInv, TypeOK
<1>2. ASSUME NEW j \in Keys, Admit(j) PROVE FALSE
  BY <1>1, <1>2 DEF Admit
<1>3. ASSUME NEW j \in Keys, Refuse(j), j # k PROVE FALSE
  BY <1>1, <1>3, RefuseFacts
<1>4. Refuse(k)
  BY <1>2, <1>3 DEF Next, Tick, vars
<1>5. Len(events[k]) = Limit /\ events[k][1] > now - Window
  BY <1>4, RefuseFacts
<1>6. /\ events[k] \in Seq(Nat) /\ admitted[k] \in Seq(Nat)
      /\ Limit \in Nat \ {0} /\ Recorded(k)
  BY LimiterAssumption DEF LInv, TypeOK
<1>7. /\ Len(admitted[k]) - Limit >= 0
      /\ \A i \in 1 .. Limit : events[k][i] = admitted[k][Len(admitted[k]) - Limit + i]
  BY <1>5, <1>6 DEF Recorded, TailOf
<1>8. 1 \in 1 .. Limit /\ Len(admitted[k]) \in Nat
  BY <1>6
<1>9. events[k][1] = admitted[k][Len(admitted[k]) - Limit + 1]
  BY <1>7, <1>8
<1>10. Len(admitted[k]) >= Limit
  BY <1>6, <1>7, <1>8
<1> QED
  BY <1>5, <1>9, <1>10

(* The same of every step of the limiter.                                  *)
THEOREM RefusedOnlyFull == Spec => RefusedOnlyWhenFull
<1>1. LInv /\ [Next]_vars =>
        [\A k \in Keys : told'[k] # told[k] /\ told'[k] # NULL =>
           /\ Len(admitted[k]) >= Limit
           /\ admitted[k][Len(admitted[k]) - Limit + 1] > now - Window]_vars
  BY RefusedStep
<1> QED
  BY <1>1, Invariant, PTL DEF Spec, RefusedOnlyWhenFull
=============================================================================
