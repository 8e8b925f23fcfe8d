-------------------------- MODULE RateLimiterProofs --------------------------
(***************************************************************************)
(* What the limiter admits, for any number of addresses and any rate,      *)
(* interval and burst.                                                     *)
(***************************************************************************)
EXTENDS RateLimiter, TLAPS

(* The tokens of d units of time.                                          *)
Earned(d) == (d \div Interval) * Rate

(* Division by the interval: the quotient and what remains.                *)
LEMMA Quotient ==
    ASSUME NEW d \in Nat
    PROVE  /\ d \div Interval \in Nat
           /\ Interval * (d \div Interval) <= d
           /\ d < Interval * ((d \div Interval) + 1)
BY LimiterAssumption

(* A multiple of the interval that fits bounds the quotient from below.    *)
LEMMA QuotientAtLeast ==
    ASSUME NEW d \in Nat, NEW q \in Nat, Interval * q <= d
    PROVE  q <= d \div Interval
<1> DEFINE p == d \div Interval
<1>1. p \in Nat /\ d < Interval * (p + 1) BY Quotient
<1>2. SUFFICES ASSUME p + 1 <= q PROVE FALSE BY <1>1
<1> HIDE DEF p
<1>3. Interval * (p + 1) <= Interval * q BY <1>1, <1>2, LimiterAssumption
<1> QED BY <1>1, <1>3, LimiterAssumption

(* Multiplication by the rate keeps the order.                             *)
LEMMA RateKeepsOrder ==
    ASSUME NEW p \in Nat, NEW q \in Nat, p <= q
    PROVE  p * Rate \in Nat /\ q * Rate \in Nat /\ p * Rate <= q * Rate
BY LimiterAssumption

LEMMA EarnedIsNat ==
    ASSUME NEW d \in Nat
    PROVE  Earned(d) \in Nat
BY Quotient, RateKeepsOrder DEF Earned

(* What two stretches of time earn apart, they earn together: the time lost *)
(* between them is never a gain.                                           *)
LEMMA EarnedTogether ==
    ASSUME NEW d \in Nat, NEW e \in Nat
    PROVE  Earned(d) + Earned(e) <= Earned(d + e)
<1> DEFINE p == d \div Interval
           q == e \div Interval
           r == (d + e) \div Interval
<1>1. p \in Nat /\ q \in Nat /\ r \in Nat BY Quotient
<1>2. Interval * p <= d /\ Interval * q <= e BY Quotient
<1> HIDE DEF p, q, r
<1>3. Interval * (p + q) = Interval * p + Interval * q BY <1>1, LimiterAssumption
<1>4. Interval * (p + q) <= d + e BY <1>1, <1>2, <1>3, LimiterAssumption
<1>5. p + q <= r BY <1>1, <1>4, QuotientAtLeast DEF r
<1>6. (p + q) * Rate <= r * Rate BY <1>1, <1>5, RateKeepsOrder
<1>7. (p + q) * Rate = p * Rate + q * Rate BY <1>1, LimiterAssumption
<1> QED BY <1>6, <1>7 DEF Earned, p, q, r

(* More time earns no less.                                                *)
LEMMA EarnedGrows ==
    ASSUME NEW d \in Nat, NEW e \in Nat, d <= e
    PROVE  Earned(d) <= Earned(e)
<1>1. e - d \in Nat /\ d + (e - d) = e OBVIOUS
<1>2. Earned(d) + Earned(e - d) <= Earned(e) BY <1>1, EarnedTogether
<1> QED BY <1>1, <1>2, EarnedIsNat

(* Whoever is forgotten could have filled the bucket.                      *)
LEMMA SilenceFills ==
    ASSUME NEW d \in Nat, d > Silence
    PROVE  Burst <= Earned(d)
<1> DEFINE q == d \div Interval
<1>1. Interval * Burst <= d BY LimiterAssumption
<1>2. q \in Nat /\ Burst <= q BY <1>1, LimiterAssumption, Quotient, QuotientAtLeast
<1> HIDE DEF q
<1>3. q <= q * Rate BY <1>2, LimiterAssumption
<1>4. q * Rate \in Nat BY <1>2, RateKeepsOrder
<1> QED BY <1>2, <1>3, <1>4, LimiterAssumption DEF Earned, q

-----------------------------------------------------------------------------

(* The bucket after the refill, before a request takes from it.            *)
LEMMA RefillBounds ==
    ASSUME TypeOK, NEW a \in Addrs
    PROVE  /\ Refill(a) \in 0 .. Burst
           /\ a \in known => Refill(a) <= tokens[a] + Earned(now - last[a])
<1>1. tokens[a] \in 0 .. Burst /\ last[a] \in 0 .. now /\ now \in Nat BY DEF TypeOK
<1>2. Elapsed(a) \in Nat BY <1>1 DEF Elapsed
<1>3. Earned(Elapsed(a)) \in Nat BY <1>2, EarnedIsNat
<1>4. Refill(a) = LET full == (IF a \in known THEN tokens[a] ELSE Burst) + Earned(Elapsed(a))
                  IN IF full > Burst THEN Burst ELSE full
      BY DEF Refill, Earned
<1>5. a \in known => Elapsed(a) = now - last[a] BY DEF Elapsed
<1> HIDE DEF Earned, Elapsed
<1> QED BY <1>1, <1>3, <1>4, <1>5, LimiterAssumption

(* Buckets and clocks stay in their ranges (TypeOK).                       *)
LEMMA TypeStep == TypeOK /\ [Next]_vars => TypeOK'
<1> SUFFICES ASSUME TypeOK, [Next]_vars PROVE TypeOK'
    OBVIOUS
<1> USE LimiterAssumption DEF TypeOK
<1>1. ASSUME NEW a \in Addrs, Admit(a) PROVE TypeOK'
  <2>1. Refill(a) - 1 \in 0 .. Burst BY <1>1, RefillBounds DEF Admit
  <2> QED BY <1>1, <2>1 DEF Admit, Visit
<1>2. ASSUME NEW a \in Addrs, TurnAway(a) PROVE TypeOK'
  BY <1>2 DEF TurnAway, Visit
<1>3. ASSUME NEW a \in Addrs, Watch(a) PROVE TypeOK'
  BY <1>3 DEF Watch
<1>4. CASE Cleanup BY <1>4 DEF Cleanup
<1>5. CASE Tick
  <2>1. now' \in Nat /\ 0 .. now \subseteq 0 .. now' BY <1>5 DEF Tick
  <2>2. last \in [Addrs -> 0 .. now'] /\ since \in [Addrs -> 0 .. now'] BY <2>1
  <2> QED BY <1>5, <2>1, <2>2 DEF Tick
<1>6. CASE UNCHANGED vars BY <1>6 DEF vars
<1> QED BY <1>1, <1>2, <1>3, <1>4, <1>5, <1>6 DEF Next

(* Every reachable state is well-typed: no sequence of requests and        *)
(* clean-ups leaves a bucket with more than the burst or less than nothing *)
(* (Middleware of ratelimit.go).                                           *)
THEOREM TypeCorrect == Spec => []TypeOK
<1>1. Init => TypeOK BY LimiterAssumption DEF Init, TypeOK
<1> QED BY <1>1, TypeStep, PTL DEF Spec

-----------------------------------------------------------------------------

(* What was admitted is covered by what was earned: with a visit since the *)
(* count began, the bucket's tokens count too; an address that was         *)
(* forgotten has earned a whole bucket by its silence.                     *)
Covered(a) ==
    IF a \in known
    THEN IF last[a] >= since[a]
         THEN admitted[a] + tokens[a] <= Burst + Earned(last[a] - since[a])
         ELSE admitted[a] = 0
    ELSE admitted[a] <= Earned(now - since[a])

AllCovered == \A a \in Addrs : Covered(a)

(* The clock's moves earn, and never take back.                            *)
LEMMA EarnedSince ==
    ASSUME TypeOK, NEW a \in Addrs
    PROVE  /\ Earned(now - since[a]) \in Nat
           /\ last[a] >= since[a] =>
                /\ Earned(last[a] - since[a]) \in Nat
                /\ Earned(now - last[a]) \in Nat
                /\ Earned(last[a] - since[a]) + Earned(now - last[a]) <= Earned(now - since[a])
<1>1. now \in Nat /\ last[a] \in 0 .. now /\ since[a] \in 0 .. now BY DEF TypeOK
<1>2. now - since[a] \in Nat /\ now - last[a] \in Nat BY <1>1
<1>3. ASSUME last[a] >= since[a]
      PROVE  /\ last[a] - since[a] \in Nat
             /\ (last[a] - since[a]) + (now - last[a]) = now - since[a]
  BY <1>1, <1>3
<1> QED BY <1>2, <1>3, EarnedIsNat, EarnedTogether

(* An admitted or refused request of an address keeps it covered.          *)
LEMMA VisitCovered ==
    ASSUME TypeOK, NEW a \in Addrs, Covered(a), NEW n \in 0 .. 1, n <= Refill(a),
           Visit(a, Refill(a) - n), admitted'[a] = admitted[a] + n,
           UNCHANGED <<now, since>>
    PROVE  Covered(a)'
<1>1. now \in Nat /\ last[a] \in 0 .. now /\ since[a] \in 0 .. now
      /\ tokens[a] \in 0 .. Burst /\ admitted[a] \in Nat
  BY DEF TypeOK
<1>2. a \in known' /\ last'[a] = now /\ tokens'[a] = Refill(a) - n
  BY DEF Visit, TypeOK
<1>3. Refill(a) \in 0 .. Burst /\ (a \in known => Refill(a) <= tokens[a] + Earned(now - last[a]))
  BY RefillBounds
<1>4. admitted[a] + Refill(a) <= Burst + Earned(now - since[a])
  <2>1. CASE a \in known /\ last[a] >= since[a]
    BY <1>1, <1>3, <2>1, EarnedSince, LimiterAssumption DEF Covered
  <2>2. CASE a \in known /\ ~(last[a] >= since[a])
    BY <1>1, <1>3, <2>2, EarnedSince, LimiterAssumption DEF Covered
  <2>3. CASE a \notin known
    BY <1>1, <1>3, <2>3, EarnedSince, LimiterAssumption DEF Covered
  <2> QED BY <2>1, <2>2, <2>3
<1>5. admitted'[a] + tokens'[a] = admitted[a] + Refill(a) BY <1>1, <1>2, <1>3
<1>6. last'[a] >= since'[a] /\ last'[a] - since'[a] = now - since[a] BY <1>1, <1>2
<1> QED BY <1>2, <1>4, <1>5, <1>6 DEF Covered, Earned

(* Whatever concerns other addresses, and the passing of time.             *)
LEMMA UntouchedCovered ==
    ASSUME TypeOK, NEW a \in Addrs, Covered(a), now' \in Nat, now <= now',
           a \in known <=> a \in known', last'[a] = last[a], tokens'[a] = tokens[a],
           since'[a] = since[a], admitted'[a] = admitted[a]
    PROVE  Covered(a)'
<1>1. now \in Nat /\ since[a] \in 0 .. now /\ admitted[a] \in Nat BY DEF TypeOK
<1>2. now - since[a] \in Nat /\ now' - since[a] \in Nat /\ now - since[a] <= now' - since[a]
  BY <1>1
<1>3. Earned(now - since[a]) <= Earned(now' - since[a]) BY <1>2, EarnedGrows
<1>4. Earned(now - since[a]) \in Nat /\ Earned(now' - since[a]) \in Nat BY <1>2, EarnedIsNat
<1> QED BY <1>1, <1>3, <1>4 DEF Covered, Earned

LEMMA CoveredStep == TypeOK /\ AllCovered /\ [Next]_vars => AllCovered'
<1> SUFFICES ASSUME TypeOK, AllCovered, [Next]_vars, NEW b \in Addrs PROVE Covered(b)'
    BY DEF AllCovered
<1>0. Covered(b) /\ now \in Nat /\ last[b] \in 0 .. now /\ since[b] \in 0 .. now
      /\ tokens[b] \in 0 .. Burst /\ admitted[b] \in Nat
  BY DEF AllCovered, TypeOK
<1>1. ASSUME NEW a \in Addrs, Admit(a) PROVE Covered(b)'
  <2>1. CASE a = b
    <3>1. admitted'[b] = admitted[b] + 1 BY <1>1, <2>1 DEF Admit, TypeOK
    <3>2. 1 <= Refill(b) BY <1>1, <2>1, RefillBounds DEF Admit
    <3> QED BY <1>0, <1>1, <2>1, <3>1, <3>2, VisitCovered DEF Admit
  <2>2. CASE a # b
    BY <1>0, <1>1, <2>2, UntouchedCovered DEF Admit, Visit, TypeOK
  <2> QED BY <2>1, <2>2
<1>2. ASSUME NEW a \in Addrs, TurnAway(a) PROVE Covered(b)'
  <2>1. CASE a = b
    <3>1. Refill(b) = 0 /\ Visit(b, Refill(b) - 0) /\ admitted'[b] = admitted[b] + 0
      BY <1>0, <1>2, <2>1 DEF TurnAway
    <3>2. 0 \in 0 .. 1 /\ 0 <= Refill(b) BY <3>1
    <3> QED BY <1>0, <1>2, <3>1, <3>2, VisitCovered DEF TurnAway
  <2>2. CASE a # b
    BY <1>0, <1>2, <2>2, UntouchedCovered DEF TurnAway, Visit, TypeOK
  <2> QED BY <2>1, <2>2
<1>3. ASSUME NEW a \in Addrs, Watch(a) PROVE Covered(b)'
  <2>1. CASE a = b
    <3>1. since'[b] = now /\ admitted'[b] = 0 /\ last'[b] = last[b]
          /\ tokens'[b] = tokens[b] /\ now' = now /\ known' = known
      BY <1>3, <2>1 DEF Watch, TypeOK
    <3>2. Earned(0) \in Nat BY EarnedIsNat
    <3>3. now' - since'[b] = 0 BY <1>0, <3>1
    <3>4. last'[b] >= since'[b] => last'[b] - since'[b] = 0 BY <1>0, <3>1
    <3>5. Covered(b)' <=>
            IF b \in known'
            THEN IF last'[b] >= since'[b]
                 THEN admitted'[b] + tokens'[b] <= Burst + Earned(last'[b] - since'[b])
                 ELSE admitted'[b] = 0
            ELSE admitted'[b] <= Earned(now' - since'[b])
      BY DEF Covered, Earned
    <3> QED BY <1>0, <3>1, <3>2, <3>3, <3>4, <3>5, LimiterAssumption
  <2>2. CASE a # b
    BY <1>0, <1>3, <2>2, UntouchedCovered DEF Watch, TypeOK
  <2> QED BY <2>1, <2>2
<1>4. CASE Cleanup
  <2>1. CASE b \in known /\ b \notin known'
    <3>1. now - last[b] > Silence BY <1>0, <1>4, <2>1, LimiterAssumption DEF Cleanup
    <3>2. now - last[b] \in Nat BY <1>0
    <3>3. Burst <= Earned(now - last[b]) BY <3>1, <3>2, SilenceFills
    <3>4. admitted[b] <= Earned(now - since[b])
      BY <1>0, <2>1, <3>2, <3>3, EarnedSince, LimiterAssumption DEF Covered
    <3> QED BY <1>4, <2>1, <3>4 DEF Cleanup, Covered, Earned
  <2>2. CASE b \in known <=> b \in known'
    BY <1>0, <1>4, <2>2, UntouchedCovered DEF Cleanup
  <2>3. known' \subseteq known BY <1>4 DEF Cleanup
  <2> QED BY <2>1, <2>2, <2>3
<1>5. CASE Tick
  BY <1>0, <1>5, UntouchedCovered DEF Tick
<1>6. CASE UNCHANGED vars
  BY <1>0, <1>6, UntouchedCovered DEF vars
<1> QED BY <1>1, <1>2, <1>3, <1>4, <1>5, <1>6 DEF Next

LEMMA CoveredBounds == TypeOK /\ AllCovered => AdmissionBound
<1> SUFFICES ASSUME TypeOK, AllCovered, NEW a \in Addrs
             PROVE  admitted[a] <= Burst + Earned(now - since[a])
    BY DEF AdmissionBound, Earned
<1>1. Covered(a) /\ tokens[a] \in 0 .. Burst /\ admitted[a] \in Nat BY DEF AllCovered, TypeOK
<1> QED BY <1>1, EarnedSince, LimiterAssumption DEF Covered

(* Whenever one begins to count, at most Burst requests of an address and  *)
(* Rate for every whole interval since are let through to the log-in       *)
(* handler, clean-ups included (Middleware and cleanup of ratelimit.go).   *)
THEOREM AdmissionCorrect == Spec => []AdmissionBound
<1>1. Init => AllCovered
  <2>1. Earned(0) \in Nat BY EarnedIsNat
  <2>2. SUFFICES ASSUME Init, NEW a \in Addrs PROVE Covered(a)
    BY DEF AllCovered
  <2>3. a \notin known /\ admitted[a] = 0 /\ now - since[a] = 0
    BY <2>2 DEF Init
  <2> QED BY <2>1, <2>3 DEF Covered
<1> QED BY <1>1, TypeCorrect, CoveredStep, CoveredBounds, PTL DEF Spec

(* The bucket of a client that waited is not empty.                        *)
LEMMA WaitingFills ==
    ASSUME TypeOK, NEW a \in Addrs, a \in known, last[a] + Interval <= now, Burst > 0
    PROVE  Refill(a) > 0
<1> DEFINE d == now - last[a]
           q == d \div Interval
<1>1. tokens[a] \in Nat /\ last[a] \in Nat /\ now \in Nat /\ d \in Nat /\ Interval * 1 <= d
  BY LimiterAssumption DEF TypeOK
<1>2. q \in Nat /\ 1 <= q BY <1>1, Quotient, QuotientAtLeast
<1>3. Refill(a) = LET full == tokens[a] + q * Rate IN IF full > Burst THEN Burst ELSE full
  BY DEF Refill, Elapsed
<1> HIDE DEF d, q
<1>4. 1 * Rate <= q * Rate /\ q * Rate \in Nat BY <1>2, RateKeepsOrder
<1>5. tokens[a] + q * Rate > 0 BY <1>1, <1>4, LimiterAssumption
<1> QED BY <1>1, <1>3, <1>4, <1>5, LimiterAssumption

(* A client that waited for an interval is never turned away, whatever was *)
(* refused to it before: what a request drops of the time since the last   *)
(* one is less than an interval (the refill in Middleware of ratelimit.go).*)
THEOREM PatienceCorrect == Spec => PatientIsServed
<1> DEFINE Served == \A a \in Addrs :
                       a \in known /\ last[a] + Interval <= now /\ Burst > 0 /\ last'[a] # last[a]
                         => admitted'[a] = admitted[a] + 1
<1>1. TypeOK /\ [Next]_vars => [Served]_vars
  <2> SUFFICES ASSUME TypeOK, [Next]_vars,
                      NEW a \in Addrs, a \in known, last[a] + Interval <= now, Burst > 0,
                      last'[a] # last[a]
               PROVE  admitted'[a] = admitted[a] + 1
    OBVIOUS
  <2>1. last \in [Addrs -> 0 .. now] /\ admitted \in [Addrs -> Nat] BY DEF TypeOK
  <2>2. ASSUME NEW b \in Addrs, Admit(b) PROVE admitted'[a] = admitted[a] + 1
    <3>1. b = a BY <2>1, <2>2 DEF Admit, Visit
    <3> QED BY <2>1, <2>2, <3>1 DEF Admit
  <2>3. ASSUME NEW b \in Addrs, TurnAway(b) PROVE FALSE
    <3>1. b = a BY <2>1, <2>3 DEF TurnAway, Visit
    <3> QED BY <2>3, <3>1, WaitingFills DEF TurnAway
  <2>4. ASSUME NEW b \in Addrs, Tick \/ Cleanup \/ Watch(b) \/ UNCHANGED vars PROVE FALSE
    BY <2>4 DEF Tick, Cleanup, Watch, vars
  <2>5. UNCHANGED vars => FALSE BY DEF vars
  <2> QED BY <2>2, <2>3, <2>4, <2>5 DEF Next
<1> QED BY <1>1, TypeCorrect, PTL DEF Spec, PatientIsServed
=============================================================================
