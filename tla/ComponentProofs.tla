---------------------------- MODULE ComponentProofs ----------------------------
(***************************************************************************)
(* Components that share no state: whom the rate limiter refuses           *)
(* (RateLimiter), how packets reach the sketch (Ingest), how an evaluation *)
(* run counts its windows (Evaluation), what the detectors make of quiet   *)
(* windows and of floods (Detectors), and what a tree makes of steady      *)
(* traffic (HalfSpaceTrees).                                               *)
(*                                                                         *)
(* The theorems of the rate limiter are of its own specification, for      *)
(* every set of addresses, every size of the Count-Min Sketch and every    *)
(* placement of addresses in it; the others are of the composition.  Lists *)
(* in which nothing occurs twice come before the packets, with sets that   *)
(* are cut into parts, and sums over a list before the detectors.          *)
(***************************************************************************)
EXTENDS Components, Counting

------------------------------------------------------------------------------
(* The rate limiter *)

USE RateLimiterAssumption

\* The limit in force is a counter value, whatever the flag.
LEMMA LimitRange == perIPLimit \in 1 .. MaxCount
<1>1. LimitFlag % (MaxCount + 1) \in 0 .. MaxCount
  BY DEF RateLimiterAssumption
<1>. QED
  BY <1>1 DEF perIPLimit, RateLimiterAssumption

LEMMA BucketSize == maxTokens \in Nat /\ GlobalRPS * TokenUnits \in 0 .. maxTokens
<1>1. GlobalRPS * TokenUnits \in Nat
  BY DEF RateLimiterAssumption
<1>. QED
  BY <1>1 DEF maxTokens, RateLimiterAssumption

LEMMA RefilledRange ==
  ASSUME TypeOK
  PROVE  /\ Refilled \in 0 .. maxTokens
         /\ Refilled <= tokens + pending
  BY BucketSize DEF Refilled, TypeOK

LEMMA IncrementedType ==
  ASSUME TypeOK, NEW ip \in Ip
  PROVE  Incremented(ip) \in [Row -> [Col -> 0 .. MaxCount]]
  BY DEF Incremented, TypeOK, RateLimiterAssumption

\* What one increment does to every counter.
LEMMA IncrementedValue ==
  ASSUME TypeOK, NEW ip \in Ip, NEW r \in Row, NEW c \in Col
  PROVE  Incremented(ip)[r][c] =
           IF c = ColOf[r][ip] /\ cms[r][c] < MaxCount THEN cms[r][c] + 1 ELSE cms[r][c]
  BY DEF Incremented, TypeOK, RateLimiterAssumption

\* Time that passed but was not credited yet counts as supplied too.
BucketInv == spent + tokens + pending <= maxTokens + waited

\* An admitted request was counted; under a limit that counters can exceed, the
\* admitted ones stay within it.
AdmissionInv ==
  /\ \A ip \in Ip : admitted[ip] <= counted[ip]
  /\ perIPLimit < MaxCount => WithinLimit

IInv == TypeOK /\ BucketInv /\ NeverUnderestimates /\ AdmissionInv

LEMMA InitIInv == Init => IInv
<1> SUFFICES ASSUME Init PROVE IInv
  OBVIOUS
<1>1. TypeOK
  BY BucketSize, LimitRange DEF Init, TypeOK, RateLimiterAssumption
<1>2. BucketInv
  BY BucketSize DEF Init, BucketInv
<1>3. NeverUnderestimates
  BY DEF Init, NeverUnderestimates, RateLimiterAssumption
<1>4. AdmissionInv
  BY LimitRange DEF Init, AdmissionInv, WithinLimit
<1>. QED
  BY <1>1, <1>2, <1>3, <1>4 DEF IInv

\* Counting a request keeps the sketch above the truth.
LEMMA CountKeepsSketch ==
  ASSUME TypeOK, NeverUnderestimates, NEW ip \in Ip, Count(ip), cms' = Incremented(ip)
  PROVE  NeverUnderestimates'
<1> SUFFICES ASSUME NEW other \in Ip, NEW r \in Row
             PROVE  \/ cms'[r][ColOf[r][other]] >= counted'[other]
                    \/ cms'[r][ColOf[r][other]] = MaxCount
  BY DEF NeverUnderestimates
<1> DEFINE c == ColOf[r][other]
<1>1. c \in Col
  BY DEF RateLimiterAssumption
<1>2. cms'[r][c] = IF c = ColOf[r][ip] /\ cms[r][c] < MaxCount THEN cms[r][c] + 1 ELSE cms[r][c]
  BY <1>1, IncrementedValue
<1>3. cms[r][c] \in 0 .. MaxCount /\ counted[other] \in Nat
  BY <1>1 DEF TypeOK
<1>4. counted'[other] = IF other = ip THEN counted[other] + 1 ELSE counted[other]
  BY DEF Count, TypeOK
<1>5. cms[r][c] >= counted[other] \/ cms[r][c] = MaxCount
  BY DEF NeverUnderestimates
<1>. QED
  BY <1>2, <1>3, <1>4, <1>5 DEF RateLimiterAssumption

LEMMA NextIInv == IInv /\ [Next]_vars => IInv'
<1> SUFFICES ASSUME IInv, [Next]_vars PROVE IInv'
  OBVIOUS
<1> USE DEF IInv
<1>1. ASSUME NEW units \in 1 .. MaxElapsed, Elapse(units) PROVE IInv'
  <2>1. TypeOK'
    BY <1>1, BucketSize DEF Elapse, TypeOK, RateLimiterAssumption
  <2>2. BucketInv'
    BY <1>1, BucketSize DEF Elapse, BucketInv, TypeOK, RateLimiterAssumption
  <2>3. NeverUnderestimates' /\ AdmissionInv'
    BY <1>1 DEF Elapse, NeverUnderestimates, AdmissionInv, WithinLimit
  <2>. QED
    BY <2>1, <2>2, <2>3
<1>2. ASSUME NEW ip \in Ip, DropNoToken(ip) PROVE IInv'
  <2>1. TypeOK'
    BY <1>2, BucketSize, RefilledRange DEF DropNoToken, history, TypeOK, RateLimiterAssumption
  <2>2. BucketInv'
    BY <1>2, BucketSize, RefilledRange DEF DropNoToken, history, BucketInv, TypeOK
  <2>3. NeverUnderestimates' /\ AdmissionInv'
    BY <1>2 DEF DropNoToken, history, NeverUnderestimates, AdmissionInv, WithinLimit
  <2>. QED
    BY <2>1, <2>2, <2>3
<1>3. ASSUME NEW ip \in Ip, DropOverLimit(ip) PROVE IInv'
  <2>1. TypeOK'
    BY <1>3, BucketSize, RefilledRange, IncrementedType
    DEF DropOverLimit, Count, TypeOK, RateLimiterAssumption
  <2>2. BucketInv'
    BY <1>3, BucketSize, RefilledRange DEF DropOverLimit, BucketInv, TypeOK
  <2>3. NeverUnderestimates'
    BY <1>3, CountKeepsSketch DEF DropOverLimit
  <2>4. AdmissionInv'
    BY <1>3 DEF DropOverLimit, Count, AdmissionInv, WithinLimit, TypeOK
  <2>. QED
    BY <2>1, <2>2, <2>3, <2>4
<1>4. ASSUME NEW ip \in Ip, Allow(ip) PROVE IInv'
  <2>1. TypeOK'
    BY <1>4, BucketSize, RefilledRange, IncrementedType
    DEF Allow, Count, TypeOK, RateLimiterAssumption
  <2>2. BucketInv'
    BY <1>4, BucketSize, RefilledRange DEF Allow, BucketInv, TypeOK, RateLimiterAssumption
  <2>3. NeverUnderestimates'
    BY <1>4, CountKeepsSketch DEF Allow
  <2>4. \A other \in Ip : admitted'[other] <= counted'[other]
    BY <1>4 DEF Allow, Count, AdmissionInv, TypeOK
  <2>5. ASSUME perIPLimit < MaxCount PROVE admitted'[ip] <= perIPLimit
    <3>1. PICK r \in Row : ~(cms'[r][ColOf[r][ip]] > perIPLimit)
      BY <1>4 DEF Allow, OverLimit
    <3>2. ColOf[r][ip] \in Col
      BY DEF RateLimiterAssumption
    <3>3. cms'[r][ColOf[r][ip]] \in 0 .. MaxCount
      BY <2>1, <3>2 DEF TypeOK
    <3>4. cms'[r][ColOf[r][ip]] >= counted'[ip]
      BY <2>3, <2>5, <3>1, <3>3, LimitRange DEF NeverUnderestimates, RateLimiterAssumption
    <3>5. counted'[ip] \in Nat /\ admitted'[ip] \in Nat
      BY <2>1 DEF TypeOK
    <3>. QED
      BY <2>4, <3>1, <3>3, <3>4, <3>5, LimitRange DEF RateLimiterAssumption
  <2>6. AdmissionInv'
    BY <1>4, <2>4, <2>5 DEF Allow, AdmissionInv, WithinLimit, TypeOK
  <2>. QED
    BY <2>1, <2>2, <2>3, <2>6
<1>5. CASE DecayCMS
  <2>1. TypeOK'
    BY <1>5 DEF DecayCMS, bucket, TypeOK, RateLimiterAssumption
  <2>2. BucketInv'
    BY <1>5 DEF DecayCMS, bucket, BucketInv
  <2>3. NeverUnderestimates'
    BY <1>5, <2>1 DEF DecayCMS, NeverUnderestimates, TypeOK, RateLimiterAssumption
  <2>4. AdmissionInv'
    BY <1>5, LimitRange DEF DecayCMS, AdmissionInv, WithinLimit
  <2>. QED
    BY <2>1, <2>2, <2>3, <2>4
<1>6. CASE Reset
  <2>1. TypeOK'
    BY <1>6, BucketSize DEF Reset, TypeOK, RateLimiterAssumption
  <2>2. BucketInv'
    BY <1>6, BucketSize DEF Reset, BucketInv
  <2>3. NeverUnderestimates'
    BY <1>6, <2>1 DEF Reset, NeverUnderestimates, TypeOK, RateLimiterAssumption
  <2>4. AdmissionInv'
    BY <1>6, LimitRange DEF Reset, AdmissionInv, WithinLimit
  <2>. QED
    BY <2>1, <2>2, <2>3, <2>4
<1>7. CASE UNCHANGED vars
  BY <1>7 DEF vars, bucket, history, TypeOK, BucketInv, NeverUnderestimates, AdmissionInv,
              WithinLimit
<1>. QED
  BY <1>1, <1>2, <1>3, <1>4, <1>5, <1>6, <1>7 DEF Next

LEMMA Invariance == Spec => []IInv
BY InitIInv, NextIInv, PTL DEF Spec

------------------------------------------------------------------------------
\* Every counter stays a uint16 and the bucket within its brim, for every
\* number of addresses and every size of the sketch.
THEOREM TypeCorrect == Spec => []TypeOK
<1>1. IInv => TypeOK
  BY DEF IInv
<1>. QED
  BY <1>1, Invariance, PTL

\* A counter of an address never shows less than the requests it was counted
\* for since the last decay, unless it is saturated.
THEOREM SketchErrsUpwards == Spec => []NeverUnderestimates
<1>1. IInv => NeverUnderestimates
  BY DEF IInv
<1>. QED
  BY <1>1, Invariance, PTL

\* The global limit: tokens taken never exceed a full bucket and elapsed time.
THEOREM RateRespected == Spec => []WithinRate
<1>1. IInv => WithinRate
  BY BucketSize DEF IInv, BucketInv, WithinRate, TypeOK
<1>. QED
  BY <1>1, Invariance, PTL

\* The limit of an address holds between two decays, provided that counters can
\* exceed it: they saturate at MaxCount, and so high a limit stops nobody.
THEOREM LimitRespected == ASSUME perIPLimit < MaxCount PROVE Spec => []WithinLimit
<1>1. IInv => WithinLimit
  BY DEF IInv, AdmissionInv
<1>. QED
  BY <1>1, Invariance, PTL

------------------------------------------------------------------------------
(* Who is blamed *)

Requests(ip, r) == SumFunctionOnSet(sinceReset, SharersOf(ip, r))

\* A counter never shows more than the requests of those on it since the reset.
SketchBounded ==
  \A ip \in Ip, r \in Row : cms[r][ColOf[r][ip]] <= Requests(ip, r)

LEMMA Sharers ==
  ASSUME NEW ip \in Ip, NEW r \in Row
  PROVE  /\ SharersOf(ip, r) \in SUBSET Ip
         /\ IsFiniteSet(SharersOf(ip, r))
         /\ \A other \in Ip : other \in SharersOf(ip, r) <=> ColOf[r][other] = ColOf[r][ip]
<1>1. SharersOf(ip, r) \in SUBSET Ip
  BY DEF SharersOf
<1>2. IsFiniteSet(Ip)
  BY DEF RateLimiterAssumption
<1>3. IsFiniteSet(SharersOf(ip, r))
  BY <1>1, <1>2, FS_Subset
<1>4. QED
  BY <1>1, <1>3 DEF SharersOf

LEMMA RequestsCount ==
  ASSUME TypeOK, NEW ip \in Ip, NEW r \in Row
  PROVE  /\ Requests(ip, r) \in Nat
         /\ \A other \in Ip :
              Count(other) =>
                Requests(ip, r)' = Requests(ip, r)
                                     + (IF ColOf[r][other] = ColOf[r][ip] THEN 1 ELSE 0)
<1>1. sinceReset \in [Ip -> Nat]
  BY DEF TypeOK
<1>2. Requests(ip, r) \in Nat
  BY <1>1, Sharers, SumFacts DEF Requests
<1>3. ASSUME NEW other \in Ip, Count(other)
      PROVE  Requests(ip, r)' = Requests(ip, r)
                                  + (IF ColOf[r][other] = ColOf[r][ip] THEN 1 ELSE 0)
  <2>1. sinceReset' = [sinceReset EXCEPT ![other] = @ + 1]
    BY <1>3 DEF Count
  <2>2. SumFunctionOnSet([sinceReset EXCEPT ![other] = @ + 1], SharersOf(ip, r))
          = Requests(ip, r) + (IF other \in SharersOf(ip, r) THEN 1 ELSE 0)
    <3> DEFINE S == SharersOf(ip, r)
    <3>1. S \in SUBSET Ip /\ IsFiniteSet(S)
      BY Sharers
    <3> HIDE DEF S
    <3>2. \A a \in Ip : SumFunctionOnSet([sinceReset EXCEPT ![a] = @ + 1], S)
                           = SumFunctionOnSet(sinceReset, S) + (IF a \in S THEN 1 ELSE 0)
      BY <1>1, <3>1, SumFacts
    <3>3. SumFunctionOnSet([sinceReset EXCEPT ![other] = @ + 1], S)
            = SumFunctionOnSet(sinceReset, S) + (IF other \in S THEN 1 ELSE 0)
      BY <3>2
    <3>. QED
      BY <3>3 DEF S, Requests
  <2>3. Requests(ip, r)' = SumFunctionOnSet(sinceReset', SharersOf(ip, r))
    BY DEF Requests, SharersOf
  <2>4. QED
    BY <2>1, <2>2, <2>3, Sharers
<1>4. QED
  BY <1>2, <1>3

LEMMA CountKeepsBound ==
  ASSUME TypeOK, SketchBounded, NEW ip \in Ip, Count(ip), cms' = Incremented(ip)
  PROVE  SketchBounded'
<1> SUFFICES ASSUME NEW other \in Ip, NEW r \in Row
             PROVE  cms'[r][ColOf[r][other]] <= Requests(other, r)'
  BY DEF SketchBounded
<1> DEFINE c == ColOf[r][other]
<1>1. c \in Col
  BY DEF RateLimiterAssumption
<1>2. cms'[r][c] = IF c = ColOf[r][ip] /\ cms[r][c] < MaxCount THEN cms[r][c] + 1 ELSE cms[r][c]
  BY <1>1, IncrementedValue
<1>3. cms[r][c] \in 0 .. MaxCount
  BY <1>1 DEF TypeOK
<1>4. Requests(other, r) \in Nat /\ cms[r][c] <= Requests(other, r)
  BY RequestsCount DEF SketchBounded
<1>5. Requests(other, r)' = Requests(other, r) + (IF ColOf[r][ip] = c THEN 1 ELSE 0)
  BY RequestsCount
<1> HIDE DEF c
<1>6. cms[r][c] \in Nat
  BY <1>3 DEF RateLimiterAssumption
<1>7. cms'[r][c] <= Requests(other, r)'
  BY <1>2, <1>4, <1>5, <1>6
<1>8. QED
  BY <1>7 DEF c

LEMMA FairStep ==
  ASSUME TypeOK, TypeOK', SketchBounded, BlamedFairly, [Next]_vars
  PROVE  SketchBounded' /\ BlamedFairly'
<1>1. CASE (\E units \in 1 .. MaxElapsed : Elapse(units)) \/ UNCHANGED vars
  <2>1. cms' = cms /\ sinceReset' = sinceReset /\ blamed' = blamed
    BY <1>1 DEF Elapse, vars, history
  <2>2. QED
    BY <2>1 DEF SketchBounded, BlamedFairly, Requests, SharersOf
<1>2. ASSUME NEW ip \in Ip, DropNoToken(ip)
      PROVE  SketchBounded' /\ BlamedFairly'
  <2>1. cms' = cms /\ sinceReset' = sinceReset /\ blamed' = {}
    BY <1>2 DEF DropNoToken, history
  <2>2. QED
    BY <2>1 DEF SketchBounded, BlamedFairly, Requests, SharersOf
<1>3. ASSUME NEW ip \in Ip, DropOverLimit(ip)
      PROVE  SketchBounded' /\ BlamedFairly'
  <2>1. SketchBounded'
    BY <1>3, CountKeepsBound DEF DropOverLimit
  <2>2. ASSUME NEW r \in Row
        PROVE  Requests(ip, r)' > perIPLimit
    <3>1. cms'[r][ColOf[r][ip]] > perIPLimit
      BY <1>3 DEF DropOverLimit, OverLimit
    <3>2. cms'[r][ColOf[r][ip]] <= Requests(ip, r)'
      BY <2>1 DEF SketchBounded
    <3>3. ColOf[r][ip] \in Col
      BY DEF RateLimiterAssumption
    <3>4. cms'[r][ColOf[r][ip]] \in 0 .. MaxCount
      BY <3>3 DEF TypeOK
    <3>5. Requests(ip, r)' \in Nat
      BY <1>3, RequestsCount DEF DropOverLimit
    <3>6. MaxCount \in Nat
      BY DEF RateLimiterAssumption
    <3>7. QED
      BY <3>1, <3>2, <3>4, <3>5, <3>6, LimitRange
  <2>3. blamed' = {ip}
    BY <1>3 DEF DropOverLimit
  <2>4. QED
    BY <2>1, <2>2, <2>3 DEF BlamedFairly, Requests
<1>4. ASSUME NEW ip \in Ip, Allow(ip)
      PROVE  SketchBounded' /\ BlamedFairly'
  <2>1. SketchBounded'
    BY <1>4, CountKeepsBound DEF Allow
  <2>2. blamed' = {}
    BY <1>4 DEF Allow
  <2>3. QED
    BY <2>1, <2>2 DEF BlamedFairly
<1>5. CASE DecayCMS
  <2>1. ASSUME NEW ip \in Ip, NEW r \in Row
        PROVE  cms'[r][ColOf[r][ip]] <= Requests(ip, r)'
    <3>1. ColOf[r][ip] \in Col
      BY DEF RateLimiterAssumption
    <3>2. cms'[r][ColOf[r][ip]] = cms[r][ColOf[r][ip]] \div 2
      BY <1>5, <3>1 DEF DecayCMS
    <3>3. cms[r][ColOf[r][ip]] \in Nat
      BY <3>1 DEF TypeOK, RateLimiterAssumption
    <3>4. Requests(ip, r)' = Requests(ip, r)
      BY <1>5 DEF DecayCMS, Requests, SharersOf
    <3>5. cms[r][ColOf[r][ip]] <= Requests(ip, r) /\ Requests(ip, r) \in Nat
      BY RequestsCount DEF SketchBounded
    <3>6. QED
      BY <3>2, <3>3, <3>4, <3>5
  <2>2. blamed' = {}
    BY <1>5 DEF DecayCMS
  <2>3. QED
    BY <2>1, <2>2 DEF SketchBounded, BlamedFairly
<1>6. CASE Reset
  <2>1. ASSUME NEW ip \in Ip, NEW r \in Row
        PROVE  cms'[r][ColOf[r][ip]] <= Requests(ip, r)'
    <3>1. cms'[r][ColOf[r][ip]] = 0
      BY <1>6 DEF Reset, RateLimiterAssumption
    <3>2. Requests(ip, r)' \in Nat
      <4>1. sinceReset' \in [Ip -> Nat]
        BY DEF TypeOK
      <4>2. SumFunctionOnSet(sinceReset', SharersOf(ip, r)) \in Nat
        BY <4>1, Sharers, SumFacts
      <4>3. QED
        BY <4>2 DEF Requests, SharersOf
    <3>3. QED
      BY <3>1, <3>2
  <2>2. blamed' = {}
    BY <1>6 DEF Reset
  <2>3. QED
    BY <2>1, <2>2 DEF SketchBounded, BlamedFairly
<1>7. QED
  BY <1>1, <1>2, <1>3, <1>4, <1>5, <1>6 DEF Next

\* Nobody is dropped for requests that were not made: in every row those who
\* share the counters of the dropped address made more than the limit, however
\* many addresses collide and however often the sketch decays.
THEOREM BlameIsFair == Spec => []BlamedFairly
<1>1. Init => SketchBounded /\ BlamedFairly
  <2> SUFFICES ASSUME Init PROVE SketchBounded /\ BlamedFairly
    OBVIOUS
  <2>1. TypeOK
    BY InitIInv DEF IInv
  <2>2. \A ip \in Ip, r \in Row : cms[r][ColOf[r][ip]] = 0 /\ Requests(ip, r) \in Nat
    BY <2>1, RequestsCount DEF Init, RateLimiterAssumption
  <2>3. blamed = {}
    BY DEF Init
  <2>4. QED
    BY <2>2, <2>3 DEF SketchBounded, BlamedFairly
<1>2. TypeOK /\ TypeOK' /\ SketchBounded /\ BlamedFairly /\ [Next]_vars
        => SketchBounded' /\ BlamedFairly'
  BY FairStep
<1>3. QED
  BY <1>1, <1>2, TypeCorrect, PTL DEF Spec

HIDE RateLimiterAssumption

------------------------------------------------------------------------------
(* The part at work *)

\* A step of the composition is a step of the part at work, or none.
LEMMA StepOfPart ==
  ASSUME [AnyNext]_anyVars
  PROVE  /\ part' = part
         /\ part = "input" => [Input!Next]_Input!vars
         /\ part = "run" => [Run!Next]_Run!vars
         /\ part = "detector" => [Detector!Next]_Detector!vars
         /\ part = "trees" => [Trees!Next]_Trees!vars
         /\ part = "list" => [List!Next]_List!vars
         /\ part = "registers" => [Registers!Next]_Registers!vars
<1>1. CASE AnyNext
  BY <1>1 DEF AnyNext
<1>2. CASE UNCHANGED anyVars
  <2>1. UNCHANGED part /\ UNCHANGED inputVars /\ UNCHANGED runVars /\ UNCHANGED detectorVars
    BY <1>2 DEF anyVars
  <2>2. UNCHANGED Input!vars
    BY <2>1 DEF inputVars, Input!vars, Input!channels, Input!sketch, Input!losses
  <2>3. UNCHANGED Run!vars
    BY <2>1 DEF runVars, Run!vars
  <2>4. UNCHANGED Detector!vars
    BY <2>1 DEF detectorVars, Detector!vars
  <2>5. UNCHANGED Trees!vars
    BY <1>2 DEF anyVars, treeVars, Trees!vars
  <2>6. UNCHANGED List!vars
    BY <1>2 DEF anyVars, listVars, List!vars
  <2>7. UNCHANGED registerVars
    BY <1>2 DEF anyVars
  <2>8. UNCHANGED Registers!vars
    BY <2>7 DEF registerVars, Registers!vars, Registers!memory, Registers!locals, Registers!export
  <2>9. QED
    BY <2>1, <2>2, <2>3, <2>4, <2>5, <2>6, <2>8
<1>. QED
  BY <1>1, <1>2

------------------------------------------------------------------------------
(* Lists and sets *)

\* One more at the end of a list that does not have it.
LEMMA AppendTo ==
  ASSUME NEW s \in Seq(Nat), IsInjective(s), NEW p \in Nat, p \notin Range(s)
  PROVE  /\ Append(s, p) \in Seq(Nat) /\ IsInjective(Append(s, p))
         /\ Range(Append(s, p)) = Range(s) \cup {p}
<1> DEFINE t == Append(s, p)
<1>1. /\ t \in Seq(Nat) /\ Len(t) = Len(s) + 1 /\ Len(s) \in Nat
      /\ \A i \in 1 .. Len(s) : t[i] = s[i]
      /\ t[Len(s) + 1] = p
  OBVIOUS
<1>2. DOMAIN t = 1 .. Len(s) + 1 /\ DOMAIN s = 1 .. Len(s)
  BY <1>1
<1> HIDE DEF t
<1>3. \A i \in 1 .. Len(s) : s[i] # p
  BY <1>2 DEF Range
<1>4. \A i \in 1 .. Len(s) + 1 : i \in 1 .. Len(s) \/ i = Len(s) + 1
  BY <1>1
<1>5. IsInjective(t)
  <2> SUFFICES ASSUME NEW i \in DOMAIN t, NEW j \in DOMAIN t, t[i] = t[j]
               PROVE  i = j
    BY DEF IsInjective
  <2>1. CASE i \in 1 .. Len(s) /\ j \in 1 .. Len(s)
    BY <1>1, <1>2, <2>1 DEF IsInjective
  <2>2. CASE i = Len(s) + 1 \/ j = Len(s) + 1
    BY <1>1, <1>2, <1>3, <1>4, <2>2
  <2>. QED
    BY <1>2, <1>4, <2>1, <2>2
<1>6. Range(t) = Range(s) \cup {p}
  <2>1. \A i \in DOMAIN t : t[i] \in Range(s) \cup {p}
    BY <1>1, <1>2, <1>4 DEF Range
  <2>2. \A i \in DOMAIN s : s[i] \in Range(t)
    <3>1. \A i \in DOMAIN s : i \in DOMAIN t /\ t[i] = s[i]
      BY <1>1, <1>2, <1>4
    <3>2. QED
      BY <3>1 DEF Range
  <2>3. p \in Range(t)
    BY <1>1, <1>2 DEF Range
  <2>4. QED
    BY <2>1, <2>2, <2>3 DEF Range
<1>. QED
  BY <1>1, <1>5, <1>6 DEF t

\* The first of a list, and the rest.
LEMMA TailOf ==
  ASSUME NEW s \in Seq(Nat), IsInjective(s), s # << >>
  PROVE  /\ Head(s) \in Nat /\ Head(s) \in Range(s)
         /\ Tail(s) \in Seq(Nat) /\ IsInjective(Tail(s))
         /\ Range(Tail(s)) = Range(s) \ {Head(s)}
<1> DEFINE t == Tail(s)
           p == Head(s)
<1>1. /\ t \in Seq(Nat) /\ Len(t) = Len(s) - 1 /\ Len(s) \in Nat /\ Len(s) >= 1
      /\ \A i \in 1 .. Len(s) - 1 : t[i] = s[i + 1]
      /\ s[1] = p
  OBVIOUS
<1>2. DOMAIN t = 1 .. Len(s) - 1 /\ DOMAIN s = 1 .. Len(s)
  BY <1>1
<1>3. p \in Nat
  BY <1>1
<1> HIDE DEF t, p
<1>4. \A i \in DOMAIN t : i + 1 \in DOMAIN s /\ i + 1 # 1 /\ t[i] = s[i + 1]
  <2> SUFFICES ASSUME NEW i \in DOMAIN t
               PROVE  i + 1 \in DOMAIN s /\ i + 1 # 1 /\ t[i] = s[i + 1]
    OBVIOUS
  <2>1. i \in 1 .. Len(s) - 1 /\ Len(s) \in Nat
    BY <1>1, <1>2
  <2>2. i + 1 \in 1 .. Len(s) /\ i + 1 # 1
    BY <2>1
  <2>3. QED
    BY <1>1, <1>2, <2>1, <2>2
<1>5. IsInjective(t)
  <2> SUFFICES ASSUME NEW i \in DOMAIN t, NEW j \in DOMAIN t, t[i] = t[j]
               PROVE  i = j
    BY DEF IsInjective
  <2>1. i + 1 = j + 1
    BY <1>4 DEF IsInjective
  <2>. QED
    BY <1>1, <1>2, <2>1
<1>6. 1 \in DOMAIN s
  BY <1>1, <1>2
<1>7. Range(t) = Range(s) \ {p}
  <2>1. ASSUME NEW i \in DOMAIN t
        PROVE  t[i] \in Range(s) \ {p}
    <3>1. i + 1 \in DOMAIN s /\ i + 1 # 1 /\ t[i] = s[i + 1]
      BY <1>4
    <3>2. s[i + 1] # s[1]
      BY <1>6, <3>1 DEF IsInjective
    <3>3. QED
      BY <1>1, <3>1, <3>2 DEF Range
  <2>2. \A i \in DOMAIN s : s[i] # p => s[i] \in Range(t)
    <3> SUFFICES ASSUME NEW i \in DOMAIN s, s[i] # p
                 PROVE  s[i] \in Range(t)
      OBVIOUS
    <3> DEFINE k == i - 1
    <3>1. k \in 1 .. Len(s) - 1 /\ k + 1 = i
      <4>1. Len(s) \in Nat /\ i \in 1 .. Len(s) /\ i # 1
        BY <1>1, <1>2
      <4>2. QED
        BY <4>1
    <3> HIDE DEF k
    <3>2. k \in DOMAIN t /\ t[k] = s[i]
      BY <1>1, <1>2, <3>1
    <3>3. QED
      BY <3>2 DEF Range
  <2>3. QED
    BY <2>1, <2>2 DEF Range
<1>8. p \in Range(s)
  BY <1>1, <1>6 DEF Range
<1>. QED
  BY <1>1, <1>3, <1>5, <1>7, <1>8 DEF t, p

\* The size of a union of two sets with nothing in common.
LEMMA DisjointUnion ==
  ASSUME NEW S, NEW T, IsFiniteSet(S), IsFiniteSet(T), S \cap T = {}
  PROVE  /\ IsFiniteSet(S \cup T)
         /\ Cardinality(S \cup T) = Cardinality(S) + Cardinality(T)
<1>1. Cardinality(S) \in Nat /\ Cardinality(T) \in Nat
  BY FS_CardinalityType
<1>2. /\ IsFiniteSet(S \cup T)
      /\ Cardinality(S \cup T) = Cardinality(S) + Cardinality(T) - Cardinality(S \cap T)
  BY FS_Union
<1>3. Cardinality(S \cap T) = 0
  BY FS_EmptySet
<1>. QED
  BY <1>1, <1>2, <1>3

\* A finite set is what it has within another and what it has outside.
LEMMA InAndOut ==
  ASSUME NEW S, IsFiniteSet(S), NEW T
  PROVE  /\ IsFiniteSet(S \cap T) /\ IsFiniteSet(S \ T)
         /\ Cardinality(S \cap T) \in Nat /\ Cardinality(S \ T) \in Nat
         /\ Cardinality(S) = Cardinality(S \cap T) + Cardinality(S \ T)
<1> DEFINE A == S \cap T
           B == S \ T
<1>1. IsFiniteSet(A) /\ IsFiniteSet(B)
  BY FS_Subset
<1>2. A \cup B = S /\ A \cap B = {}
  OBVIOUS
<1> HIDE DEF A, B
<1>3. Cardinality(S) = Cardinality(A) + Cardinality(B)
  BY <1>1, <1>2, DisjointUnion
<1>. QED
  BY <1>1, <1>3, FS_CardinalityType DEF A, B

Places(s, X) == {i \in DOMAIN s : s[i] \in X}

\* A list without repetitions has as many places for the members of a set as it
\* has of its members.
LEMMA PlacesOf ==
  ASSUME NEW D, NEW s \in Seq(D), IsInjective(s), NEW X
  PROVE  /\ IsFiniteSet(Range(s)) /\ Range(s) \subseteq D
         /\ Cardinality(Places(s, X)) = Cardinality(Range(s) \cap X)
<1> DEFINE I == {i \in DOMAIN s : s[i] \in X}
           f == [i \in I |-> s[i]]
<1>1. DOMAIN s = 1 .. Len(s) /\ Len(s) \in Nat /\ \A i \in DOMAIN s : s[i] \in D
  OBVIOUS
<1>2. IsFiniteSet(DOMAIN s)
  BY <1>1, FS_Interval
<1>3. IsFiniteSet(Range(s)) /\ Range(s) \subseteq D
  <2>1. s \in Surjection(DOMAIN s, Range(s))
    BY <1>1 DEF Surjection, Range
  <2>2. IsFiniteSet(Range(s))
    BY <1>2, <2>1, FS_Surjection
  <2>3. QED
    BY <1>1, <2>2 DEF Range
<1>4. f \in Bijection(I, Range(s) \cap X)
  <2>1. f \in [I -> Range(s) \cap X]
    BY DEF Range
  <2>2. \A i, j \in I : f[i] = f[j] => i = j
    BY DEF IsInjective
  <2>3. \A x \in Range(s) \cap X : \E i \in I : f[i] = x
    BY DEF Range
  <2>4. QED
    BY <2>1, <2>2, <2>3 DEF Bijection, Injection, Surjection, IsInjective
<1>5. IsFiniteSet(I)
  BY <1>2, FS_Subset
<1>6. Cardinality(I) = Cardinality(Range(s) \cap X)
  BY <1>4, <1>5, FS_Bijection DEF ExistsBijection
<1>. QED
  BY <1>3, <1>6 DEF Places

\* The windows T of a run, the attacks A and the alerts E, cut into regions.
Cut(A, E, T) ==
  /\ Cardinality((T \cap A) \cap E) \in Nat /\ Cardinality((T \cap A) \ E) \in Nat
  /\ Cardinality((T \ A) \cap E) \in Nat /\ Cardinality((T \ A) \ E) \in Nat
  /\ Cardinality((E \cap A) \ T) \in Nat /\ Cardinality((E \ A) \ T) \in Nat
  /\ Cardinality(A \ T) \in Nat /\ Cardinality(A) \in Nat
  /\ Cardinality(E \cap A) = Cardinality((T \cap A) \cap E) + Cardinality((E \cap A) \ T)
  /\ Cardinality(E \ A) = Cardinality((T \ A) \cap E) + Cardinality((E \ A) \ T)
  /\ Cardinality(A \ E)
       = Cardinality((T \cap A) \ E) + (Cardinality(A \ T) - Cardinality((E \cap A) \ T))
  /\ Cardinality(T)
       = (Cardinality((T \cap A) \cap E) + Cardinality((T \cap A) \ E))
           + (Cardinality((T \ A) \cap E) + Cardinality((T \ A) \ E))
  /\ Cardinality(A)
       = (Cardinality((T \cap A) \cap E) + Cardinality((T \cap A) \ E)) + Cardinality(A \ T)

LEMMA Regions ==
  ASSUME NEW A \in SUBSET Nat, NEW E \in SUBSET Nat, IsFiniteSet(A), IsFiniteSet(E),
         NEW T, IsFiniteSet(T)
  PROVE  Cut(A, E, T)
<1>1. IsFiniteSet(T \cap A) /\ IsFiniteSet(T \ A) /\ IsFiniteSet(E \cap A) /\ IsFiniteSet(E \ A)
      /\ IsFiniteSet(A \ T) /\ IsFiniteSet(A \ E)
  BY InAndOut
<1>2. /\ (E \cap A) \cap T = (T \cap A) \cap E
      /\ (E \ A) \cap T = (T \ A) \cap E
      /\ (A \ E) \cap T = (T \cap A) \ E
      /\ (A \ T) \cap E = (E \cap A) \ T
      /\ (A \ T) \ E = (A \ E) \ T
      /\ A \cap T = T \cap A
  OBVIOUS
<1>3. /\ Cardinality(E \cap A) = Cardinality((E \cap A) \cap T) + Cardinality((E \cap A) \ T)
      /\ Cardinality((E \cap A) \ T) \in Nat
  BY <1>1, InAndOut
<1>4. /\ Cardinality(E \ A) = Cardinality((E \ A) \cap T) + Cardinality((E \ A) \ T)
      /\ Cardinality((E \ A) \ T) \in Nat
  BY <1>1, InAndOut
<1>5. /\ Cardinality(A \ E) = Cardinality((A \ E) \cap T) + Cardinality((A \ E) \ T)
      /\ Cardinality((A \ E) \ T) \in Nat
  BY <1>1, InAndOut
<1>6. /\ Cardinality(A \ T) = Cardinality((A \ T) \cap E) + Cardinality((A \ T) \ E)
      /\ Cardinality(A \ T) \in Nat
  BY <1>1, InAndOut, FS_CardinalityType
<1>7. /\ Cardinality(T \cap A) = Cardinality((T \cap A) \cap E) + Cardinality((T \cap A) \ E)
      /\ Cardinality((T \cap A) \cap E) \in Nat /\ Cardinality((T \cap A) \ E) \in Nat
  BY <1>1, InAndOut
<1>8. /\ Cardinality(T \ A) = Cardinality((T \ A) \cap E) + Cardinality((T \ A) \ E)
      /\ Cardinality((T \ A) \cap E) \in Nat /\ Cardinality((T \ A) \ E) \in Nat
  BY <1>1, InAndOut
<1>9. Cardinality(T) = Cardinality(T \cap A) + Cardinality(T \ A)
  BY InAndOut
<1>10. Cardinality(A) = Cardinality(A \cap T) + Cardinality(A \ T) /\ Cardinality(A) \in Nat
  BY InAndOut, FS_CardinalityType
<1>11. /\ Cardinality(E \cap A) = Cardinality((T \cap A) \cap E) + Cardinality((E \cap A) \ T)
       /\ Cardinality(E \ A) = Cardinality((T \ A) \cap E) + Cardinality((E \ A) \ T)
  BY <1>2, <1>3, <1>4
<1>12. Cardinality(A \ E)
         = Cardinality((T \cap A) \ E) + (Cardinality(A \ T) - Cardinality((E \cap A) \ T))
  <2>1. Cardinality(A \ T) = Cardinality((E \cap A) \ T) + Cardinality((A \ E) \ T)
    BY <1>2, <1>6
  <2>2. Cardinality(A \ E) = Cardinality((T \cap A) \ E) + Cardinality((A \ E) \ T)
    BY <1>2, <1>5
  <2>3. QED
    BY <1>3, <1>5, <1>7, <2>1, <2>2
<1>13. Cardinality(A) = Cardinality(T \cap A) + Cardinality(A \ T)
  BY <1>2, <1>10
<1>14. Cardinality(A)
         = (Cardinality((T \cap A) \cap E) + Cardinality((T \cap A) \ E)) + Cardinality(A \ T)
  BY <1>7, <1>13
<1>15. Cardinality(T)
         = (Cardinality((T \cap A) \cap E) + Cardinality((T \cap A) \ E))
             + (Cardinality((T \ A) \cap E) + Cardinality((T \ A) \ E))
  BY <1>7, <1>8, <1>9
<1>. QED
  BY <1>3, <1>4, <1>6, <1>7, <1>8, <1>10, <1>11, <1>12, <1>14, <1>15 DEF Cut

------------------------------------------------------------------------------
(* Homes of packets *)

At(home, h) == {p \in DOMAIN home : home[p] = h}

\* The packets X have moved from one home to another, or into one from nowhere.
Moved(home, m, X, from, to) ==
  /\ At(m, to) = At(home, to) \cup X
  /\ At(m, from) = At(home, from) \ X
  /\ \A g : g # from /\ g # to => At(m, g) = At(home, g)

\* The packets X are new at a home.
Joined(home, m, X, to) ==
  /\ At(m, to) = At(home, to) \cup X
  /\ \A g : g # to => At(m, g) = At(home, g)

\* One more handed over is in the channel or was dropped.
LEMMA OneMoreHanded ==
  ASSUME NEW a \in Nat, NEW b \in Nat, NEW c \in Nat, NEW d \in Nat, NEW e \in Nat,
         d + e = b + c + 1
  PROVE  (a + b + c) + 1 = a + d + e
OBVIOUS

\* Packets can be given a new home.
LEMMA CanMove ==
  ASSUME NEW D, NEW H, NEW home \in [D -> H], NEW from, NEW to \in H, from # to,
         NEW X, X \subseteq At(home, from)
  PROVE  \E m \in [D -> H] : Moved(home, m, X, from, to)
<1> DEFINE m == [p \in D |-> IF p \in X THEN to ELSE home[p]]
<1>1. m \in [D -> H]
  OBVIOUS
<1>2. \A p \in D : m[p] = IF p \in X THEN to ELSE home[p]
  OBVIOUS
<1>3. DOMAIN m = D /\ DOMAIN home = D
  OBVIOUS
<1> HIDE DEF m
<1>4. /\ At(m, to) = At(home, to) \cup X
      /\ At(m, from) = At(home, from) \ X
  BY <1>2, <1>3 DEF At
<1>5. ASSUME NEW g, g # from, g # to
      PROVE  At(m, g) = At(home, g)
  BY <1>2, <1>3, <1>5 DEF At
<1>6. Moved(home, m, X, from, to)
  BY <1>4, <1>5 DEF Moved
<1>. QED
  BY <1>1, <1>6

\* And the k packets after the nth their first one.
LEMMA CanJoin ==
  ASSUME NEW n \in Nat, NEW k \in Nat, NEW H, NEW home \in [1 .. n -> H], NEW to \in H
  PROVE  \E m \in [1 .. n + k -> H] : Joined(home, m, n + 1 .. n + k, to)
<1> DEFINE m == [p \in 1 .. n + k |-> IF p \in 1 .. n THEN home[p] ELSE to]
<1>1. m \in [1 .. n + k -> H]
  OBVIOUS
<1>2. \A p \in 1 .. n + k : m[p] = IF p \in 1 .. n THEN home[p] ELSE to
  OBVIOUS
<1>3. /\ \A p \in 1 .. n + k : p \in 1 .. n \/ p \in n + 1 .. n + k
      /\ \A p \in 1 .. n : p \in 1 .. n + k /\ p \notin n + 1 .. n + k
      /\ \A p \in n + 1 .. n + k : p \in 1 .. n + k /\ p \notin 1 .. n
  OBVIOUS
<1>4. DOMAIN m = 1 .. n + k /\ DOMAIN home = 1 .. n
  OBVIOUS
<1> HIDE DEF m
<1>5. At(m, to) = At(home, to) \cup (n + 1 .. n + k)
  BY <1>2, <1>3, <1>4, Zenon DEF At
<1>6. ASSUME NEW g, g # to
      PROVE  At(m, g) = At(home, g)
  BY <1>2, <1>3, <1>4, <1>6, Zenon DEF At
<1>7. Joined(home, m, n + 1 .. n + k, to)
  BY <1>5, <1>6 DEF Joined
<1>. QED
  BY <1>1, <1>7

------------------------------------------------------------------------------
(* Handlers *)

Waiting(c) == IF c.address THEN c.left ELSE Tail(c.left)

\* Packets of running handlers: those whose address is to be sent, and whose bytes.
AddressesLeft == UNION {Range(Waiting(c)) : c \in calls}
BytesLeft == UNION {Range(c.left) : c \in calls}

GoodCall(c) ==
  /\ c \in [left : Seq(Nat), address : BOOLEAN]
  /\ IsInjective(c.left)
  /\ c.left = << >> => c.address

GoodCalls ==
  /\ \A c \in calls : GoodCall(c)
  /\ \A c, d \in calls : c # d => Range(c.left) \cap Range(d.left) = {}

\* A handler starts at the address of its first packet.
LEMMA HandlerOf ==
  ASSUME NEW s \in Seq(Nat), IsInjective(s)
  PROVE  GoodCall(Input!Handler(s)) /\ Input!Handler(s).left = s /\ Waiting(Input!Handler(s)) = s
BY DEF GoodCall, Input!Handler, Waiting

LEMMA WaitingWithin ==
  ASSUME NEW c, GoodCall(c)
  PROVE  Range(Waiting(c)) \subseteq Range(c.left)
<1>1. CASE c.address
  BY <1>1 DEF Waiting
<1>2. CASE ~c.address
  BY <1>2, TailOf DEF Waiting, GoodCall
<1>. QED
  BY <1>1, <1>2

LEMMA WhatIsLeft ==
  /\ \A x : x \in AddressesLeft <=> \E e \in calls : x \in Range(Waiting(e))
  /\ \A x : x \in AddressesLeft' <=> \E e \in calls' : x \in Range(Waiting(e))
  /\ \A x : x \in BytesLeft <=> \E e \in calls : x \in Range(e.left)
  /\ \A x : x \in BytesLeft' <=> \E e \in calls' : x \in Range(e.left)
<1>1. /\ AddressesLeft' = UNION {Range(Waiting(e)) : e \in calls'}
      /\ BytesLeft' = UNION {Range(e.left) : e \in calls'}
  BY DEF AddressesLeft, BytesLeft, Range, Waiting
<1>. QED
  BY <1>1 DEF AddressesLeft, BytesLeft

\* The address of the next packet of a handler has been sent.
LEMMA AddressSent ==
  ASSUME GoodCalls, NEW c \in calls, c.left # << >>, c.address,
         calls' = (calls \ {c}) \cup {[c EXCEPT !.address = FALSE]}
  PROVE  /\ GoodCalls'
         /\ Head(c.left) \in AddressesLeft
         /\ AddressesLeft' = AddressesLeft \ {Head(c.left)}
         /\ BytesLeft' = BytesLeft
<1> DEFINE d == [c EXCEPT !.address = FALSE]
           p == Head(c.left)
<1>1. c.left \in Seq(Nat) /\ IsInjective(c.left) /\ c \in [left : Seq(Nat), address : BOOLEAN]
  BY DEF GoodCalls, GoodCall
<1>2. d \in [left : Seq(Nat), address : BOOLEAN] /\ d.left = c.left /\ ~d.address
  BY <1>1
<1>3. GoodCall(d) /\ d.left = c.left /\ Waiting(c) = c.left /\ Waiting(d) = Tail(c.left)
  BY <1>1, <1>2 DEF GoodCall, Waiting
<1>4. p \in Range(c.left) /\ Range(Tail(c.left)) = Range(c.left) \ {p}
  BY <1>1, TailOf
<1> HIDE DEF d, p
<1>5. calls' = (calls \ {c}) \cup {d}
  BY DEF d
<1>6. \A e \in calls : e # c => p \notin Range(e.left) /\ p \notin Range(Waiting(e))
  BY <1>4, WaitingWithin DEF GoodCalls
<1>7. GoodCalls'
  <2>1. \A e \in calls' : GoodCall(e)
    BY <1>3, <1>5 DEF GoodCalls
  <2>2. \A e, f \in calls' : e # f => Range(e.left) \cap Range(f.left) = {}
    BY <1>3, <1>5 DEF GoodCalls
  <2>3. QED
    BY <2>1, <2>2 DEF GoodCalls
<1>8. AddressesLeft' = AddressesLeft \ {p} /\ p \in AddressesLeft
  <2>1. p \in AddressesLeft
    BY <1>3, <1>4, WhatIsLeft
  <2>2. \A x : x \in AddressesLeft' <=> \E e \in calls' : x \in Range(Waiting(e))
    BY WhatIsLeft
  <2>3. \A x : x \in AddressesLeft <=> \E e \in calls : x \in Range(Waiting(e))
    BY WhatIsLeft
  <2>4. Range(Waiting(c)) = Range(c.left) /\ Range(Waiting(d)) = Range(c.left) \ {p}
    BY <1>3, <1>4
  <2>5. \A e \in calls \ {c} : p \notin Range(Waiting(e))
    BY <1>6
  <2>6. \A x : x \in AddressesLeft' <=> x \in AddressesLeft /\ x # p
    BY <1>5, <2>2, <2>3, <2>4, <2>5
  <2>7. QED
    BY <2>1, <2>6
<1>9. BytesLeft' = BytesLeft
  BY <1>3, <1>5, WhatIsLeft
<1>. QED
  BY <1>7, <1>8, <1>9 DEF p

\* So has its byte length.
LEMMA BytesSent ==
  ASSUME GoodCalls, NEW c \in calls, c.left # << >>, ~c.address,
         calls' = (calls \ {c}) \cup {Input!Handler(Tail(c.left))}
  PROVE  /\ GoodCalls'
         /\ Head(c.left) \in BytesLeft
         /\ AddressesLeft' = AddressesLeft
         /\ BytesLeft' = BytesLeft \ {Head(c.left)}
<1> DEFINE d == Input!Handler(Tail(c.left))
           p == Head(c.left)
<1>1. c.left \in Seq(Nat) /\ IsInjective(c.left)
  BY DEF GoodCalls, GoodCall
<1>2. /\ Tail(c.left) \in Seq(Nat) /\ IsInjective(Tail(c.left))
      /\ p \in Range(c.left) /\ Range(Tail(c.left)) = Range(c.left) \ {p}
  BY <1>1, TailOf
<1>3. GoodCall(d) /\ d.left = Tail(c.left) /\ Waiting(d) = Tail(c.left) /\ Waiting(c) = Tail(c.left)
  BY <1>2, HandlerOf DEF Waiting
<1> HIDE DEF d, p
<1>4. calls' = (calls \ {c}) \cup {d}
  BY DEF d
<1>5. \A e \in calls : e # c => Range(e.left) \cap Range(c.left) = {}
  BY DEF GoodCalls
<1>6. \A e \in calls : e # c => Range(e.left) \cap Range(d.left) = {}
  BY <1>2, <1>3, <1>5
<1>7. GoodCalls'
  <2>1. \A e \in calls' : GoodCall(e)
    BY <1>3, <1>4 DEF GoodCalls
  <2>2. \A e, f \in calls' : e # f => Range(e.left) \cap Range(f.left) = {}
    BY <1>4, <1>6 DEF GoodCalls
  <2>3. QED
    BY <2>1, <2>2 DEF GoodCalls
<1>8. AddressesLeft' = AddressesLeft
  BY <1>3, <1>4, WhatIsLeft
<1>9. BytesLeft' = BytesLeft \ {p} /\ p \in BytesLeft
  BY <1>2, <1>3, <1>4, <1>5, WhatIsLeft
<1>. QED
  BY <1>7, <1>8, <1>9 DEF p

\* A call begins with the packets of a list that no other has.
LEMMA CallBegins ==
  ASSUME GoodCalls, NEW s \in Seq(Nat), IsInjective(s), Range(s) \cap BytesLeft = {},
         calls' = calls \cup {Input!Handler(s)}
  PROVE  /\ GoodCalls'
         /\ AddressesLeft' = AddressesLeft \cup Range(s)
         /\ BytesLeft' = BytesLeft \cup Range(s)
<1> DEFINE d == Input!Handler(s)
<1>1. GoodCall(d) /\ d.left = s /\ Waiting(d) = s
  BY HandlerOf
<1> HIDE DEF d
<1>2. calls' = calls \cup {d}
  BY DEF d
<1>3. \A e \in calls : Range(e.left) \cap Range(d.left) = {}
  BY <1>1 DEF BytesLeft
<1>4. GoodCalls'
  <2>1. \A e \in calls' : GoodCall(e)
    BY <1>1, <1>2 DEF GoodCalls
  <2>2. \A e, f \in calls' : e # f => Range(e.left) \cap Range(f.left) = {}
    BY <1>2, <1>3 DEF GoodCalls
  <2>3. QED
    BY <2>1, <2>2 DEF GoodCalls
<1>5. AddressesLeft' = AddressesLeft \cup Range(s)
  BY <1>1, <1>2, WhatIsLeft
<1>6. BytesLeft' = BytesLeft \cup Range(s)
  BY <1>1, <1>2, WhatIsLeft
<1>. QED
  BY <1>4, <1>5, <1>6

\* A handler with nothing left is done.
LEMMA CallReturns ==
  ASSUME GoodCalls, calls' = calls \ {Input!Handler(<< >>)}
  PROVE  /\ GoodCalls'
         /\ AddressesLeft' = AddressesLeft
         /\ BytesLeft' = BytesLeft
<1> DEFINE d == Input!Handler(<< >>)
<1>1. << >> \in Seq(Nat) /\ IsInjective(<< >>) /\ Range(<< >>) = {}
  BY DEF IsInjective, Range
<1>2. Range(d.left) = {} /\ Range(Waiting(d)) = {}
  BY <1>1, HandlerOf
<1> HIDE DEF d
<1>3. calls' = calls \ {d}
  BY DEF d
<1>4. GoodCalls'
  BY <1>3 DEF GoodCalls
<1>5. AddressesLeft' = AddressesLeft
  BY <1>2, <1>3, WhatIsLeft
<1>6. BytesLeft' = BytesLeft
  BY <1>2, <1>3, WhatIsLeft
<1>. QED
  BY <1>4, <1>5, <1>6

------------------------------------------------------------------------------
(* The invariant *)

Homes == {"batch", "call", "queue", "held", "inserted", "limited", "dropped", "unsent"}
BytesHomes == {"batch", "call", "handed", "unsent"}

\* Every packet has one home as an address.
Houses(home) ==
  /\ home \in [1 .. read -> Homes]
  /\ Range(batch) = At(home, "batch")
  /\ AddressesLeft = At(home, "call")
  /\ Range(ipsChan) = At(home, "queue")
  /\ {held} \ {0} = At(home, "held")
  /\ inserted = At(home, "inserted")
  /\ limited = At(home, "limited")
  /\ dropped = At(home, "dropped")
  /\ unsent = At(home, "unsent")

\* And one as a byte length, where those are counted by themselves; what has
\* been handed over is in the channel, in the counters, or was dropped.
BytesHouses(home) ==
  /\ home \in [1 .. read -> BytesHomes]
  /\ Range(batch) = At(home, "batch")
  /\ BytesLeft = At(home, "call")
  /\ unsent = At(home, "unsent")
  /\ Cardinality(At(home, "handed")) = packets + bytesChan + bytesDropped

Counted == source # "pcap" => \E home : BytesHouses(home)

Shape ==
  /\ read \in Nat /\ held \in Nat /\ packets \in Nat /\ bytesChan \in Nat /\ bytesDropped \in Nat
  /\ batch \in Seq(Nat) /\ IsInjective(batch)
  /\ ipsChan \in Seq(Nat) /\ IsInjective(ipsChan)
  /\ GoodCalls

\* The capture loop uses neither batches nor calls, and counts what it inserts.
CaptureOnly ==
  source = "pcap" => /\ batch = << >> /\ calls = {} /\ bytesChan = 0
                     /\ reader \notin {"calling", "flushing"}
                     /\ packets = Cardinality(inserted)

Housed == \E home : Houses(home)

Sound == Shape /\ Housed /\ Counted /\ CaptureOnly

LEMMA EmptyList == << >> \in Seq(Nat) /\ IsInjective(<< >>) /\ Range(<< >>) = {} /\ Len(<< >>) = 0
BY DEF IsInjective, Range

LEMMA InitSound == ASSUME Input!Init PROVE Sound
<1> USE DEF Input!Init
<1>1. Shape
  BY EmptyList DEF Shape, GoodCalls
<1>2. AddressesLeft = {} /\ BytesLeft = {} /\ Range(batch) = {} /\ Range(ipsChan) = {}
  BY EmptyList DEF AddressesLeft, BytesLeft
<1>3. 1 .. read = {}
  OBVIOUS
<1>4. Housed
  <2> DEFINE home == [p \in 1 .. read |-> "unsent"]
  <2>1. home \in [1 .. read -> Homes] /\ \A h : At(home, h) = {}
    BY <1>3 DEF Homes, At
  <2> HIDE DEF home
  <2>2. Houses(home)
    BY <1>2, <2>1 DEF Houses
  <2>3. QED
    BY <2>2 DEF Housed
<1>5. Counted
  <2> DEFINE home == [p \in 1 .. read |-> "unsent"]
  <2>1. home \in [1 .. read -> BytesHomes] /\ \A h : At(home, h) = {}
    BY <1>3 DEF BytesHomes, At
  <2> HIDE DEF home
  <2>2. Cardinality({}) = packets + bytesChan + bytesDropped
    BY FS_EmptySet
  <2>3. BytesHouses(home)
    BY <1>2, <2>1, <2>2 DEF BytesHouses
  <2>4. QED
    BY <2>3 DEF Counted
<1>6. CaptureOnly
  BY FS_EmptySet DEF CaptureOnly
<1>. QED
  BY <1>1, <1>4, <1>5, <1>6 DEF Sound

\* Packets are numbers from 1 to read, and so is everything that has a home.
LEMMA HousesWithin ==
  ASSUME NEW home, Houses(home)
  PROVE  /\ Range(batch) \subseteq 1 .. read /\ AddressesLeft \subseteq 1 .. read
         /\ Range(ipsChan) \subseteq 1 .. read /\ inserted \subseteq 1 .. read
BY DEF Houses, At

------------------------------------------------------------------------------
(* Addresses and bytes on their way *)

LEMMA HandleAddress ==
  ASSUME Sound, NEW c \in calls, c.left # << >>, c.address,
         Input!SendAddress(Head(c.left)),
         calls' = (calls \ {c}) \cup {[c EXCEPT !.address = FALSE]},
         UNCHANGED <<bytesChan, bytesDropped, source, reader, read, batch, held,
                     inserted, limited, packets, unsent>>
  PROVE  Sound'
<1> DEFINE p == Head(c.left)
<1>1. PICK home : Houses(home)
  BY DEF Sound, Housed
<1>2. /\ GoodCalls' /\ p \in AddressesLeft
      /\ AddressesLeft' = AddressesLeft \ {p} /\ BytesLeft' = BytesLeft
  BY AddressSent DEF Sound, Shape
<1>3. p \in 1 .. read /\ home[p] = "call" /\ p \in Nat
  BY <1>1, <1>2 DEF Houses, At
<1> HIDE DEF p
<1>4. p \notin Range(ipsChan)
  BY <1>1, <1>3 DEF Houses, At
<1>5. ipsChan \in Seq(Nat) /\ IsInjective(ipsChan)
  BY DEF Sound, Shape
<1>6. \/ ipsChan' = Append(ipsChan, p) /\ dropped' = dropped
      \/ dropped' = dropped \cup {p} /\ ipsChan' = ipsChan
  BY DEF Input!SendAddress, p
<1>7. /\ ipsChan' \in Seq(Nat) /\ IsInjective(ipsChan')
      /\ \/ Range(ipsChan') = Range(ipsChan) \cup {p} /\ dropped' = dropped
         \/ Range(ipsChan') = Range(ipsChan) /\ dropped' = dropped \cup {p}
  <2>1. CASE ipsChan' = Append(ipsChan, p) /\ dropped' = dropped
    <3> DEFINE q == Append(ipsChan, p)
    <3>1. q \in Seq(Nat) /\ IsInjective(q) /\ Range(q) = Range(ipsChan) \cup {p}
      BY <1>3, <1>4, <1>5, AppendTo
    <3>2. ipsChan' = q
      BY <2>1
    <3> HIDE DEF q
    <3>3. QED
      BY <2>1, <3>1, <3>2
  <2>2. CASE dropped' = dropped \cup {p} /\ ipsChan' = ipsChan
    BY <1>5, <2>2
  <2>3. QED
    BY <1>6, <2>1, <2>2
<1>8. Shape'
  BY <1>2, <1>7 DEF Sound, Shape
<1>9. Housed'
  <2>1. PICK h \in {"queue", "dropped"} :
          /\ h = "queue" => Range(ipsChan') = Range(ipsChan) \cup {p} /\ dropped' = dropped
          /\ h = "dropped" => Range(ipsChan') = Range(ipsChan) /\ dropped' = dropped \cup {p}
    BY <1>7
  <2>2. home \in [1 .. read -> Homes] /\ h \in Homes /\ "call" # h
    BY <1>1 DEF Houses, Homes
  <2>3. {p} \subseteq At(home, "call")
    BY <1>1, <1>3 DEF Houses, At
  <2>4. PICK m \in [1 .. read -> Homes] : Moved(home, m, {p}, "call", h)
    BY <2>2, <2>3, CanMove
  <2>5. Range(batch)' = Range(batch)
    BY DEF Range
  <2>6. Houses(m)'
    BY <1>1, <1>2, <2>1, <2>4, <2>5 DEF Houses, Moved
  <2>7. QED
    BY <2>6 DEF Housed
<1>10. Counted'
  BY <1>2 DEF Sound, Counted, BytesHouses, Range
<1>11. CaptureOnly'
  BY DEF Sound, CaptureOnly
<1>. QED
  BY <1>8, <1>9, <1>10, <1>11 DEF Sound

LEMMA FiniteHomes ==
  ASSUME NEW n \in Nat, NEW H, NEW home \in [1 .. n -> H], NEW h
  PROVE  IsFiniteSet(At(home, h)) /\ Cardinality(At(home, h)) \in Nat
<1>1. IsFiniteSet(1 .. n) /\ At(home, h) \subseteq 1 .. n
  BY FS_Interval DEF At
<1>. QED
  BY <1>1, FS_Subset, FS_CardinalityType

LEMMA HandleBytes ==
  ASSUME Sound, NEW c \in calls, c.left # << >>, ~c.address,
         Input!SendBytes,
         calls' = (calls \ {c}) \cup {Input!Handler(Tail(c.left))},
         UNCHANGED <<ipsChan, dropped, source, reader, read, batch, held,
                     inserted, limited, packets, unsent>>
  PROVE  Sound'
<1> DEFINE p == Head(c.left)
<1>1. /\ GoodCalls' /\ p \in BytesLeft
      /\ AddressesLeft' = AddressesLeft /\ BytesLeft' = BytesLeft \ {p}
  BY BytesSent DEF Sound, Shape
<1> HIDE DEF p
<1>2. /\ bytesChan' \in Nat /\ bytesDropped' \in Nat
      /\ bytesChan' + bytesDropped' = bytesChan + bytesDropped + 1
  <2>1. bytesChan \in Nat /\ bytesDropped \in Nat
    BY DEF Sound, Shape
  <2>2. \/ bytesChan' = bytesChan + 1 /\ bytesDropped' = bytesDropped
        \/ bytesDropped' = bytesDropped + 1 /\ bytesChan' = bytesChan
    BY DEF Input!SendBytes
  <2>3. QED
    BY <2>1, <2>2
<1>3. source # "pcap"
  BY DEF Sound, CaptureOnly
<1>4. Shape'
  BY <1>1, <1>2 DEF Sound, Shape
<1>5. Housed'
  BY <1>1 DEF Sound, Housed, Houses, Range
<1>6. Counted'
  <2>1. PICK home : BytesHouses(home)
    BY <1>3 DEF Sound, Counted
  <2>2. read \in Nat /\ packets \in Nat /\ bytesChan \in Nat /\ bytesDropped \in Nat
    BY DEF Sound, Shape
  <2>3. home \in [1 .. read -> BytesHomes] /\ "handed" \in BytesHomes
    BY <2>1 DEF BytesHouses, BytesHomes
  <2>4. {p} \subseteq At(home, "call") /\ p \notin At(home, "handed")
    BY <1>1, <2>1 DEF BytesHouses, At
  <2>5. PICK m \in [1 .. read -> BytesHomes] : Moved(home, m, {p}, "call", "handed")
    BY <2>3, <2>4, CanMove
  <2>6. IsFiniteSet(At(home, "handed"))
    BY <2>2, <2>3, FiniteHomes
  <2>7. Cardinality(At(home, "handed") \cup {p}) = Cardinality(At(home, "handed")) + 1
    BY <2>4, <2>6, FS_AddElement
  <2>8. Cardinality(At(m, "handed")) = packets + bytesChan' + bytesDropped'
    <3>1. Cardinality(At(home, "handed")) = packets + bytesChan + bytesDropped
      BY <2>1 DEF BytesHouses
    <3>2. Cardinality(At(m, "handed")) = Cardinality(At(home, "handed")) + 1
      BY <2>5, <2>7 DEF Moved
    <3>3. (packets + bytesChan + bytesDropped) + 1 = packets + bytesChan' + bytesDropped'
      <4>1. PICK d \in Nat, e \in Nat :
              d = bytesChan' /\ e = bytesDropped' /\ d + e = bytesChan + bytesDropped + 1
        BY <1>2
      <4>2. PICK a \in Nat, b \in Nat, k \in Nat :
              a = packets /\ b = bytesChan /\ k = bytesDropped
        BY <2>2
      <4>3. d + e = b + k + 1
        BY <4>1, <4>2
      <4>4. (a + b + k) + 1 = a + d + e
        BY <4>3, OneMoreHanded
      <4>5. QED
        BY <4>1, <4>2, <4>4
    <3>4. QED
      BY <3>1, <3>2, <3>3
  <2>9. Range(batch)' = Range(batch)
    BY DEF Range
  <2>10. BytesHouses(m)'
    BY <1>1, <2>1, <2>5, <2>8, <2>9 DEF BytesHouses, Moved
  <2>11. QED
    BY <2>10 DEF Counted
<1>7. CaptureOnly'
  BY <1>3 DEF CaptureOnly
<1>. QED
  BY <1>4, <1>5, <1>6, <1>7 DEF Sound

LEMMA ReturnStep ==
  ASSUME Sound, Input!Return
  PROVE  Sound'
<1> USE DEF Input!Return, Input!channels, Input!sketch, Input!losses
<1>1. GoodCalls' /\ AddressesLeft' = AddressesLeft /\ BytesLeft' = BytesLeft
  BY CallReturns DEF Sound, Shape
<1>2. Shape'
  BY <1>1 DEF Sound, Shape
<1>3. Housed'
  BY <1>1 DEF Sound, Housed, Houses, Range
<1>4. Counted'
  BY <1>1 DEF Sound, Counted, BytesHouses, Range
<1>5. CaptureOnly'
  BY DEF Sound, CaptureOnly
<1>. QED
  BY <1>2, <1>3, <1>4, <1>5 DEF Sound

------------------------------------------------------------------------------
(* Packets that are read *)

\* The next packet has no home yet.
LEMMA NextPacket ==
  ASSUME Sound
  PROVE  /\ read + 1 \in Nat /\ read + 1 .. read + 1 = {read + 1}
         /\ read + 1 \notin Range(batch) /\ read + 1 \notin Range(ipsChan)
<1>1. PICK home : Houses(home)
  BY DEF Sound, Housed
<1>2. read \in Nat
  BY DEF Sound, Shape
<1>3. Range(batch) \subseteq 1 .. read /\ Range(ipsChan) \subseteq 1 .. read
  BY <1>1, HousesWithin
<1>4. read + 1 \notin 1 .. read /\ read + 1 .. read + 1 = {read + 1}
  BY <1>2
<1>. QED
  BY <1>2, <1>3, <1>4

LEMMA CaptureStep ==
  ASSUME Sound, Input!Capture
  PROVE  Sound'
<1> DEFINE p == read + 1
<1>1. /\ source = "pcap" /\ read' = p
      /\ UNCHANGED <<source, reader, batch, calls, bytesChan, held, inserted, limited, packets,
                     bytesDropped, unsent>>
  BY DEF Input!Capture, Input!sketch
<1>2. \/ ipsChan' = Append(ipsChan, p) /\ dropped' = dropped
      \/ dropped' = dropped \cup {p} /\ ipsChan' = ipsChan
  BY <1>1 DEF Input!Capture, Input!SendAddress
<1>3. p \in Nat /\ p .. p = {p} /\ p \notin Range(ipsChan)
  BY NextPacket
<1>4. ipsChan \in Seq(Nat) /\ IsInjective(ipsChan) /\ read \in Nat
  BY DEF Sound, Shape
<1>5. read' \in Nat
  BY <1>1, <1>3
<1> HIDE DEF p
<1>6. /\ ipsChan' \in Seq(Nat) /\ IsInjective(ipsChan')
      /\ \/ Range(ipsChan') = Range(ipsChan) \cup {p} /\ dropped' = dropped
         \/ Range(ipsChan') = Range(ipsChan) /\ dropped' = dropped \cup {p}
  BY <1>2, <1>3, <1>4, AppendTo
<1>7. AddressesLeft' = AddressesLeft /\ Range(batch)' = Range(batch) /\ GoodCalls'
  BY <1>1 DEF AddressesLeft, Range, Waiting, GoodCalls, GoodCall, Sound, Shape
<1>8. Shape'
  BY <1>1, <1>5, <1>6, <1>7 DEF Sound, Shape
<1>9. Housed'
  <2>1. PICK h \in {"queue", "dropped"} :
          /\ h = "queue" => Range(ipsChan') = Range(ipsChan) \cup {p} /\ dropped' = dropped
          /\ h = "dropped" => Range(ipsChan') = Range(ipsChan) /\ dropped' = dropped \cup {p}
    BY <1>6
  <2>2. PICK home : Houses(home)
    BY DEF Sound, Housed
  <2>3. home \in [1 .. read -> Homes] /\ h \in Homes
    BY <2>2 DEF Houses, Homes
  <2>4. PICK m \in [1 .. read + 1 -> Homes] : Joined(home, m, read + 1 .. read + 1, h)
    BY <1>4, <2>3, CanJoin
  <2>5. m \in [1 .. read' -> Homes] /\ Joined(home, m, {p}, h)
    BY <1>1, <1>3, <2>4 DEF p
  <2>6. Houses(m)'
    BY <1>1, <1>7, <2>1, <2>2, <2>5 DEF Houses, Joined
  <2>7. QED
    BY <2>6 DEF Housed
<1>10. Counted'
  BY <1>1 DEF Counted
<1>11. CaptureOnly'
  BY <1>1 DEF Sound, CaptureOnly
<1>. QED
  BY <1>8, <1>9, <1>10, <1>11 DEF Sound

LEMMA CaptureEndsStep ==
  ASSUME Sound, Input!CaptureEnds
  PROVE  Sound'
<1>1. /\ source = "pcap" /\ reader' = "ended"
      /\ UNCHANGED <<source, batch, calls, ipsChan, bytesChan, held, inserted, limited, packets,
                     dropped, bytesDropped>>
  BY DEF Input!CaptureEnds, Input!sketch, Input!channels
<1>2. /\ AddressesLeft' = AddressesLeft /\ Range(batch)' = Range(batch)
      /\ Range(ipsChan)' = Range(ipsChan) /\ GoodCalls'
  BY <1>1 DEF AddressesLeft, Range, Waiting, GoodCalls, GoodCall, Sound, Shape
<1>3. Counted' /\ CaptureOnly'
  BY <1>1 DEF Counted, CaptureOnly, Sound
<1>4. read \in Nat
  BY DEF Sound, Shape
<1>5. PICK home : Houses(home)
  BY DEF Sound, Housed
<1>6. CASE UNCHANGED <<read, unsent>>
  <2>1. Shape'
    BY <1>1, <1>2, <1>6 DEF Sound, Shape
  <2>2. Houses(home)'
    BY <1>1, <1>2, <1>5, <1>6 DEF Houses
  <2>3. QED
    BY <1>3, <2>1, <2>2 DEF Sound, Housed
<1>7. CASE read' = read + 1 /\ unsent' = unsent \cup {read'}
  <2>1. Shape'
    BY <1>1, <1>2, <1>4, <1>7 DEF Sound, Shape
  <2>2. home \in [1 .. read -> Homes] /\ "unsent" \in Homes
    BY <1>5 DEF Houses, Homes
  <2>3. PICK m \in [1 .. read + 1 -> Homes] : Joined(home, m, read + 1 .. read + 1, "unsent")
    BY <1>4, <2>2, CanJoin
  <2>4. m \in [1 .. read' -> Homes] /\ Joined(home, m, {read'}, "unsent")
    BY <1>7, <2>3, NextPacket
  <2>5. Houses(m)'
    BY <1>1, <1>2, <1>5, <1>7, <2>4 DEF Houses, Joined
  <2>6. QED
    BY <1>3, <2>1, <2>5 DEF Sound, Housed
<1>. QED
  BY <1>6, <1>7 DEF Input!CaptureEnds

LEMMA DatagramStep ==
  ASSUME Sound, Input!IngestAssumption, NEW n \in 1 .. BatchSize, Input!Datagram(n)
  PROVE  Sound'
<1> DEFINE s == [i \in 1 .. n |-> read + i]
           new == read + 1 .. read + n
<1>1. /\ source = "udp" /\ calls = {} /\ read' = read + n /\ calls' = {Input!Handler(s)}
      /\ UNCHANGED <<source, reader, batch, ipsChan, bytesChan, held, inserted, limited, packets,
                     dropped, bytesDropped, unsent>>
  BY DEF Input!Datagram, Input!sketch, Input!channels, Input!losses
<1>2. read \in Nat /\ n \in Nat /\ read' \in Nat
  BY <1>1 DEF Sound, Shape, Input!IngestAssumption
<1>3. s \in Seq(Nat) /\ IsInjective(s) /\ Range(s) = new
  <2>1. s \in [1 .. n -> Nat]
    BY <1>2
  <2>2. s \in Seq(Nat) /\ DOMAIN s = 1 .. n
    BY <1>2, <2>1
  <2>3. \A i \in 1 .. n : s[i] = read + i
    OBVIOUS
  <2> HIDE DEF s
  <2>4. IsInjective(s)
    BY <1>2, <2>2, <2>3 DEF IsInjective
  <2>5. \A i \in 1 .. n : s[i] \in new
    BY <1>2, <2>3
  <2>6. \A p \in new : p - read \in 1 .. n /\ s[p - read] = p
    BY <1>2, <2>3
  <2>7. Range(s) = new
    <3>1. Range(s) \subseteq new
      BY <2>2, <2>5 DEF Range
    <3>2. new \subseteq Range(s)
      <4> HIDE DEF new
      <4>1. QED
        BY <2>2, <2>6 DEF Range
    <3>3. QED
      BY <3>1, <3>2
  <2>8. QED
    BY <2>2, <2>4, <2>7
<1>4. AddressesLeft = {} /\ BytesLeft = {}
  BY <1>1 DEF AddressesLeft, BytesLeft
<1> HIDE DEF s
<1>5. calls' = calls \cup {Input!Handler(s)}
  BY <1>1
<1>6. GoodCalls' /\ AddressesLeft' = AddressesLeft \cup new /\ BytesLeft' = BytesLeft \cup new
  BY <1>3, <1>4, <1>5, CallBegins DEF Sound, Shape
<1>7. Range(batch)' = Range(batch) /\ Range(ipsChan)' = Range(ipsChan)
  BY <1>1 DEF Range
<1>8. Shape'
  BY <1>1, <1>2, <1>6 DEF Sound, Shape
<1> HIDE DEF new
<1>9. Housed'
  <2>1. PICK home : Houses(home)
    BY DEF Sound, Housed
  <2>2. home \in [1 .. read -> Homes] /\ "call" \in Homes
    BY <2>1 DEF Houses, Homes
  <2>3. PICK m \in [1 .. read + n -> Homes] : Joined(home, m, read + 1 .. read + n, "call")
    BY <1>2, <2>2, CanJoin
  <2>4. m \in [1 .. read' -> Homes] /\ Joined(home, m, new, "call")
    BY <1>1, <2>3 DEF new
  <2>5. Houses(m)'
    BY <1>1, <1>6, <1>7, <2>1, <2>4 DEF Houses, Joined
  <2>6. QED
    BY <2>5 DEF Housed
<1>10. Counted'
  <2>1. PICK home : BytesHouses(home)
    BY <1>1 DEF Sound, Counted
  <2>2. home \in [1 .. read -> BytesHomes] /\ "call" \in BytesHomes
    BY <2>1 DEF BytesHouses, BytesHomes
  <2>3. PICK m \in [1 .. read + n -> BytesHomes] : Joined(home, m, read + 1 .. read + n, "call")
    BY <1>2, <2>2, CanJoin
  <2>4. m \in [1 .. read' -> BytesHomes] /\ Joined(home, m, new, "call")
    BY <1>1, <2>3 DEF new
  <2>5. BytesHouses(m)'
    BY <1>1, <1>6, <1>7, <2>1, <2>4 DEF BytesHouses, Joined
  <2>6. QED
    BY <2>5 DEF Counted
<1>11. CaptureOnly'
  BY <1>1 DEF CaptureOnly
<1>. QED
  BY <1>8, <1>9, <1>10, <1>11 DEF Sound

LEMMA CollectStep ==
  ASSUME Sound, source # "pcap", Input!Collect
  PROVE  Sound'
<1> DEFINE p == read + 1
<1>1. /\ read' = p /\ batch' = Append(batch, p)
      /\ UNCHANGED <<source, calls, ipsChan, bytesChan, held, inserted, limited, packets,
                     dropped, bytesDropped, unsent>>
  BY DEF Input!Collect, Input!sketch, Input!channels, Input!losses
<1>2. p \in Nat /\ p .. p = {p} /\ p \notin Range(batch)
  BY NextPacket
<1>3. batch \in Seq(Nat) /\ IsInjective(batch) /\ read \in Nat
  BY DEF Sound, Shape
<1>4. read' \in Nat
  BY <1>1, <1>2
<1> HIDE DEF p
<1>5. batch' \in Seq(Nat) /\ IsInjective(batch') /\ Range(batch') = Range(batch) \cup {p}
  BY <1>1, <1>2, <1>3, AppendTo
<1>6. /\ AddressesLeft' = AddressesLeft /\ BytesLeft' = BytesLeft
      /\ Range(ipsChan)' = Range(ipsChan) /\ Range(batch)' = Range(batch')
      /\ GoodCalls'
  BY <1>1 DEF AddressesLeft, BytesLeft, Range, Waiting, GoodCalls, GoodCall, Sound, Shape
<1>7. Shape'
  BY <1>1, <1>4, <1>5, <1>6 DEF Sound, Shape
<1>8. Housed'
  <2>1. PICK home : Houses(home)
    BY DEF Sound, Housed
  <2>2. home \in [1 .. read -> Homes] /\ "batch" \in Homes
    BY <2>1 DEF Houses, Homes
  <2>3. PICK m \in [1 .. read + 1 -> Homes] : Joined(home, m, read + 1 .. read + 1, "batch")
    BY <1>3, <2>2, CanJoin
  <2>4. m \in [1 .. read' -> Homes] /\ Joined(home, m, {p}, "batch")
    BY <1>1, <1>2, <2>3 DEF p
  <2>5. Houses(m)'
    BY <1>1, <1>5, <1>6, <2>1, <2>4 DEF Houses, Joined
  <2>6. QED
    BY <2>5 DEF Housed
<1>9. Counted'
  <2>1. PICK home : BytesHouses(home)
    BY DEF Sound, Counted
  <2>2. home \in [1 .. read -> BytesHomes] /\ "batch" \in BytesHomes
    BY <2>1 DEF BytesHouses, BytesHomes
  <2>3. PICK m \in [1 .. read + 1 -> BytesHomes] : Joined(home, m, read + 1 .. read + 1, "batch")
    BY <1>3, <2>2, CanJoin
  <2>4. m \in [1 .. read' -> BytesHomes] /\ Joined(home, m, {p}, "batch")
    BY <1>1, <1>2, <2>3 DEF p
  <2>5. BytesHouses(m)'
    BY <1>1, <1>5, <1>6, <2>1, <2>4 DEF BytesHouses, Joined
  <2>6. QED
    BY <2>5 DEF Counted
<1>10. CaptureOnly'
  BY <1>1 DEF CaptureOnly
<1>. QED
  BY <1>7, <1>8, <1>9, <1>10 DEF Sound

------------------------------------------------------------------------------
(* Batches *)

SameRange == \A f : Input!Range(f) = Range(f)

LEMMA RangeIsRange == SameRange
BY DEF SameRange, Input!Range, Range

\* The batch goes to a call, or is lost.
LEMMA BatchLeaves ==
  ASSUME Sound, source # "pcap", batch' = << >>,
         \/ calls' = calls \cup {Input!Handler(batch)} /\ UNCHANGED unsent
         \/ unsent' = unsent \cup Range(batch) /\ UNCHANGED calls,
         UNCHANGED <<source, read, ipsChan, bytesChan, held, inserted, limited, packets,
                     dropped, bytesDropped>>
  PROVE  Sound'
<1> DEFINE all == Range(batch)
<1>1. batch \in Seq(Nat) /\ IsInjective(batch) /\ GoodCalls
  BY DEF Sound, Shape
<1>2. PICK home : Houses(home)
  BY DEF Sound, Housed
<1>3. PICK bytesHome : BytesHouses(bytesHome)
  BY DEF Sound, Counted
<1>4. all = At(home, "batch") /\ all = At(bytesHome, "batch") /\ all \cap BytesLeft = {}
  BY <1>2, <1>3 DEF Houses, BytesHouses, At
<1>5. Range(batch)' = {} /\ Range(ipsChan)' = Range(ipsChan)
  BY EmptyList DEF Range
<1>6. PICK h \in {"call", "unsent"} :
        /\ h = "call" => /\ AddressesLeft' = AddressesLeft \cup all
                         /\ BytesLeft' = BytesLeft \cup all
                         /\ unsent' = unsent
        /\ h = "unsent" => /\ AddressesLeft' = AddressesLeft
                           /\ BytesLeft' = BytesLeft
                           /\ unsent' = unsent \cup all
        /\ GoodCalls'
  <2>1. CASE calls' = calls \cup {Input!Handler(batch)} /\ UNCHANGED unsent
    <3>1. GoodCalls' /\ AddressesLeft' = AddressesLeft \cup all /\ BytesLeft' = BytesLeft \cup all
      BY <1>1, <1>4, <2>1, CallBegins
    <3>2. QED
      BY <2>1, <3>1
  <2>2. CASE unsent' = unsent \cup all /\ UNCHANGED calls
    <3>1. AddressesLeft' = AddressesLeft /\ BytesLeft' = BytesLeft /\ GoodCalls'
      BY <1>1, <2>2 DEF AddressesLeft, BytesLeft, Range, Waiting, GoodCalls, GoodCall
    <3>2. QED
      BY <2>2, <3>1
  <2>3. QED
    BY <2>1, <2>2
<1>7. Shape'
  BY <1>6, EmptyList DEF Sound, Shape
<1> HIDE DEF all
<1>8. Housed'
  <2>1. home \in [1 .. read -> Homes] /\ h \in Homes /\ "batch" # h
    BY <1>2 DEF Houses, Homes
  <2>2. PICK m \in [1 .. read -> Homes] : Moved(home, m, all, "batch", h)
    BY <1>4, <2>1, CanMove
  <2>3. Houses(m)'
    BY <1>2, <1>4, <1>5, <1>6, <2>2 DEF Houses, Moved
  <2>4. QED
    BY <2>3 DEF Housed
<1>9. Counted'
  <2>1. bytesHome \in [1 .. read -> BytesHomes] /\ h \in BytesHomes /\ "batch" # h
    BY <1>3 DEF BytesHouses, BytesHomes
  <2>2. PICK m \in [1 .. read -> BytesHomes] : Moved(bytesHome, m, all, "batch", h)
    BY <1>4, <2>1, CanMove
  <2>3. BytesHouses(m)'
    BY <1>3, <1>4, <1>5, <1>6, <2>2 DEF BytesHouses, Moved
  <2>4. QED
    BY <2>3 DEF Counted
<1>10. CaptureOnly'
  BY DEF CaptureOnly
<1>. QED
  BY <1>7, <1>8, <1>9, <1>10 DEF Sound

LEMMA TakeStep ==
  ASSUME Sound, Input!Take
  PROVE  Sound'
<1> DEFINE p == Head(ipsChan)
<1>1. /\ held = 0 /\ ipsChan # << >> /\ held' = p /\ ipsChan' = Tail(ipsChan)
      /\ UNCHANGED <<source, reader, read, batch, calls, bytesChan, inserted, limited, packets,
                     dropped, bytesDropped, unsent>>
  BY DEF Input!Take, Input!sketch, Input!losses
<1>2. ipsChan \in Seq(Nat) /\ IsInjective(ipsChan) /\ read \in Nat
  BY DEF Sound, Shape
<1>3. /\ p \in Nat /\ p \in Range(ipsChan)
      /\ ipsChan' \in Seq(Nat) /\ IsInjective(ipsChan') /\ Range(ipsChan') = Range(ipsChan) \ {p}
  BY <1>1, <1>2, TailOf
<1> HIDE DEF p
<1>4. PICK home : Houses(home)
  BY DEF Sound, Housed
<1>5. p \in At(home, "queue") /\ p # 0
  BY <1>2, <1>3, <1>4 DEF Houses, At
<1>6. /\ AddressesLeft' = AddressesLeft /\ BytesLeft' = BytesLeft /\ Range(batch)' = Range(batch)
      /\ Range(ipsChan)' = Range(ipsChan') /\ GoodCalls'
  BY <1>1 DEF AddressesLeft, BytesLeft, Range, Waiting, GoodCalls, GoodCall, Sound, Shape
<1>7. Shape'
  BY <1>1, <1>3, <1>6 DEF Sound, Shape
<1>8. Housed'
  <2>1. home \in [1 .. read -> Homes] /\ "held" \in Homes /\ {p} \subseteq At(home, "queue")
    BY <1>4, <1>5 DEF Houses, Homes
  <2>2. PICK m \in [1 .. read -> Homes] : Moved(home, m, {p}, "queue", "held")
    BY <2>1, CanMove
  <2>3. {held} \ {0} = {} /\ {held'} \ {0} = {p}
    BY <1>1, <1>5
  <2>4. Houses(m)'
    BY <1>1, <1>3, <1>4, <1>6, <2>2, <2>3 DEF Houses, Moved
  <2>5. QED
    BY <2>4 DEF Housed
<1>9. Counted'
  BY <1>1, <1>6 DEF Sound, Counted, BytesHouses
<1>10. CaptureOnly'
  BY <1>1 DEF Sound, CaptureOnly
<1>. QED
  BY <1>7, <1>8, <1>9, <1>10 DEF Sound

LEMMA InsertStep ==
  ASSUME Sound, Input!Insert
  PROVE  Sound'
<1>1. /\ held # 0 /\ held' = 0
      /\ UNCHANGED <<source, reader, read, batch, calls, ipsChan, bytesChan,
                     dropped, bytesDropped, unsent>>
  BY DEF Input!Insert, Input!losses
<1>2. \/ limited' = limited \cup {held} /\ inserted' = inserted /\ packets' = packets
      \/ /\ inserted' = inserted \cup {held} /\ limited' = limited
         /\ packets' = IF source = "pcap" THEN packets + 1 ELSE packets
  BY DEF Input!Insert
<1>3. PICK home : Houses(home)
  BY DEF Sound, Housed
<1>4. held \in At(home, "held") /\ held \notin inserted /\ inserted = At(home, "inserted")
  BY <1>1, <1>3 DEF Houses, At
<1>5. read \in Nat /\ held \in Nat /\ packets \in Nat
  BY DEF Sound, Shape
<1>6. IsFiniteSet(inserted) /\ Cardinality(inserted) \in Nat
  <2>1. home \in [1 .. read -> Homes]
    BY <1>3 DEF Houses
  <2>2. IsFiniteSet(At(home, "inserted")) /\ Cardinality(At(home, "inserted")) \in Nat
    BY <1>5, <2>1, FiniteHomes
  <2>3. QED
    BY <1>4, <2>2
<1>7. /\ AddressesLeft' = AddressesLeft /\ BytesLeft' = BytesLeft /\ Range(batch)' = Range(batch)
      /\ Range(ipsChan)' = Range(ipsChan) /\ GoodCalls'
  BY <1>1 DEF AddressesLeft, BytesLeft, Range, Waiting, GoodCalls, GoodCall, Sound, Shape
<1>8. Shape'
  BY <1>1, <1>2, <1>5, <1>7 DEF Sound, Shape
<1>9. Housed'
  <2>1. PICK h \in {"limited", "inserted"} :
          /\ h = "limited" => limited' = limited \cup {held} /\ inserted' = inserted
          /\ h = "inserted" => inserted' = inserted \cup {held} /\ limited' = limited
    BY <1>2
  <2>2. home \in [1 .. read -> Homes] /\ h \in Homes /\ "held" # h /\ {held} \subseteq At(home, "held")
    BY <1>3, <1>4 DEF Houses, Homes
  <2>3. PICK m \in [1 .. read -> Homes] : Moved(home, m, {held}, "held", h)
    BY <2>2, CanMove
  <2>4. {held} \ {0} = {held} /\ {held'} \ {0} = {}
    BY <1>1
  <2>5. Houses(m)'
    BY <1>1, <1>3, <1>7, <2>1, <2>3, <2>4 DEF Houses, Moved
  <2>6. QED
    BY <2>5 DEF Housed
<1>10. Counted'
  <2>1. source # "pcap" => packets' = packets
    BY <1>2
  <2>2. QED
    BY <1>1, <1>7, <2>1 DEF Sound, Counted, BytesHouses
<1>11. CaptureOnly'
  <2> SUFFICES ASSUME source = "pcap"
               PROVE  packets' = Cardinality(inserted')
    BY <1>1 DEF Sound, CaptureOnly
  <2>1. packets = Cardinality(inserted)
    BY DEF Sound, CaptureOnly
  <2>2. Cardinality(inserted \cup {held}) = Cardinality(inserted) + 1
    BY <1>4, <1>6, FS_AddElement
  <2>3. QED
    BY <1>2, <2>1, <2>2
<1>. QED
  BY <1>8, <1>9, <1>10, <1>11 DEF Sound

LEMMA TakeBytesStep ==
  ASSUME Sound, Input!TakeBytes
  PROVE  Sound'
<1>1. /\ bytesChan > 0 /\ bytesChan' = bytesChan - 1 /\ packets' = packets + 1
      /\ UNCHANGED <<source, reader, read, batch, calls, ipsChan, held, inserted, limited,
                     dropped, bytesDropped, unsent>>
  BY DEF Input!TakeBytes, Input!losses
<1>2. bytesChan \in Nat /\ packets \in Nat /\ bytesDropped \in Nat
  BY DEF Sound, Shape
<1>3. /\ bytesChan' \in Nat /\ packets' \in Nat
      /\ packets' + bytesChan' + bytesDropped = packets + bytesChan + bytesDropped
  BY <1>1, <1>2
<1>4. source # "pcap"
  BY <1>1, <1>2 DEF Sound, CaptureOnly
<1>5. /\ AddressesLeft' = AddressesLeft /\ BytesLeft' = BytesLeft /\ Range(batch)' = Range(batch)
      /\ Range(ipsChan)' = Range(ipsChan) /\ GoodCalls'
  BY <1>1 DEF AddressesLeft, BytesLeft, Range, Waiting, GoodCalls, GoodCall, Sound, Shape
<1>6. Shape'
  BY <1>1, <1>3, <1>5 DEF Sound, Shape
<1>7. Housed'
  BY <1>1, <1>5 DEF Sound, Housed, Houses
<1>8. Counted'
  BY <1>1, <1>3, <1>5 DEF Sound, Counted, BytesHouses
<1>9. CaptureOnly'
  BY <1>1, <1>4 DEF CaptureOnly
<1>. QED
  BY <1>6, <1>7, <1>8, <1>9 DEF Sound

\* Only the reader's state changes, if anything.
LEMMA ReaderStep ==
  ASSUME Sound, source # "pcap" \/ UNCHANGED reader,
         UNCHANGED <<source, read, batch, calls, ipsChan, bytesChan, held, inserted, limited, packets,
                     dropped, bytesDropped, unsent>>
  PROVE  Sound'
<1>1. /\ AddressesLeft' = AddressesLeft /\ BytesLeft' = BytesLeft /\ Range(batch)' = Range(batch)
      /\ Range(ipsChan)' = Range(ipsChan) /\ GoodCalls'
  BY DEF AddressesLeft, BytesLeft, Range, Waiting, GoodCalls, GoodCall, Sound, Shape
<1>2. Shape' /\ Housed' /\ Counted' /\ CaptureOnly'
  BY <1>1 DEF Sound, Shape, Housed, Houses, Counted, BytesHouses, CaptureOnly
<1>. QED
  BY <1>2 DEF Sound

LEMMA SoundStep ==
  ASSUME Input!IngestAssumption, Sound, [Input!Next]_Input!vars
  PROVE  Sound'
<1>1. CASE Input!Handle
  <2>1. PICK c \in calls :
          /\ c.left # << >>
          /\ IF c.address
             THEN /\ Input!SendAddress(Head(c.left))
                  /\ calls' = (calls \ {c}) \cup {[c EXCEPT !.address = FALSE]}
                  /\ UNCHANGED <<bytesChan, bytesDropped>>
             ELSE /\ Input!SendBytes
                  /\ calls' = (calls \ {c}) \cup {Input!Handler(Tail(c.left))}
                  /\ UNCHANGED <<ipsChan, dropped>>
          /\ UNCHANGED <<source, reader, read, batch, held, inserted, limited, packets, unsent>>
    BY <1>1 DEF Input!Handle, Input!sketch
  <2>2. CASE c.address
    BY <2>1, <2>2, HandleAddress
  <2>3. CASE ~c.address
    BY <2>1, <2>3, HandleBytes
  <2>4. QED
    BY <2>2, <2>3
<1>2. CASE Input!Return
  BY <1>2, ReturnStep
<1>3. CASE Input!Capture
  BY <1>3, CaptureStep
<1>4. CASE Input!CaptureEnds
  BY <1>4, CaptureEndsStep
<1>5. CASE \E n \in 1 .. BatchSize : Input!Datagram(n)
  BY <1>5, DatagramStep
<1>6. CASE Input!Line \/ Input!DatasetRow
  BY <1>6, CollectStep DEF Input!Line, Input!DatasetRow
<1>7. CASE Input!Call
  <2>1. source # "pcap"
    BY <1>7 DEF Input!Call, Sound, CaptureOnly
  <2>2. /\ batch' = << >>
        /\ \/ calls' = calls \cup {Input!Handler(batch)} /\ UNCHANGED unsent
           \/ unsent' = unsent \cup Range(batch) /\ UNCHANGED calls
        /\ UNCHANGED <<source, read, ipsChan, bytesChan, held, inserted, limited, packets,
                       dropped, bytesDropped>>
    BY <1>7, RangeIsRange DEF Input!Call, Input!channels, Input!sketch, SameRange
  <2>3. QED
    BY <2>1, <2>2, BatchLeaves
<1>8. CASE Input!BridgeStop \/ Input!ReplayEnds
  <2>1. /\ source # "pcap" /\ batch' = << >> /\ unsent' = unsent \cup Range(batch)
        /\ UNCHANGED <<source, read, calls, ipsChan, bytesChan, held, inserted, limited, packets,
                       dropped, bytesDropped>>
    BY <1>8, RangeIsRange
       DEF Input!BridgeStop, Input!ReplayEnds, Input!channels, Input!sketch, SameRange
  <2>2. QED
    BY <2>1, BatchLeaves
<1>9. CASE Input!ReadError \/ Input!EndOfInput \/ UNCHANGED Input!vars
  <2>1. /\ source # "pcap" \/ UNCHANGED reader
        /\ UNCHANGED <<source, read, batch, calls, ipsChan, bytesChan, held, inserted, limited,
                       packets, dropped, bytesDropped, unsent>>
    BY <1>9 DEF Input!ReadError, Input!EndOfInput, Input!vars, Input!channels, Input!sketch, Input!losses
  <2>2. QED
    BY <2>1, ReaderStep
<1>10. CASE Input!Take
  BY <1>10, TakeStep
<1>11. CASE Input!Insert
  BY <1>11, InsertStep
<1>12. CASE Input!TakeBytes
  BY <1>12, TakeBytesStep
<1>. QED
  BY <1>1, <1>2, <1>3, <1>4, <1>5, <1>6, <1>7, <1>8, <1>9, <1>10, <1>11, <1>12 DEF Input!Next

LEMMA SoundAccounts ==
  ASSUME Sound
  PROVE  Input!Accounting
<1> SUFFICES ASSUME Input!Quiet
             PROVE  Input!Accounting
  BY DEF Input!Accounting
<1>1. PICK home : Houses(home)
  BY DEF Sound, Housed
<1>2. read \in Nat /\ packets \in Nat /\ bytesChan \in Nat /\ bytesDropped \in Nat
  BY DEF Sound, Shape
<1>3. calls = {} /\ batch = << >> /\ ipsChan = << >> /\ bytesChan = 0 /\ held = 0
  BY DEF Input!Quiet
<1>4. Range(batch) = {} /\ Range(ipsChan) = {} /\ AddressesLeft = {} /\ BytesLeft = {}
  BY <1>3, EmptyList DEF AddressesLeft, BytesLeft
<1> DEFINE i == At(home, "inserted")
           l == At(home, "limited")
           d == At(home, "dropped")
           u == At(home, "unsent")
<1>5. home \in [1 .. read -> {"inserted", "limited", "dropped", "unsent"}]
  <2>1. At(home, "batch") = {} /\ At(home, "call") = {} /\ At(home, "queue") = {} /\ At(home, "held") = {}
    BY <1>1, <1>3, <1>4 DEF Houses
  <2>2. home \in [1 .. read -> Homes]
    BY <1>1 DEF Houses
  <2>3. QED
    BY <2>1, <2>2 DEF At, Homes
<1>6. ((i \cup l) \cup d) \cup u = 1 .. read
  BY <1>5 DEF At
<1>7. i \cap l = {} /\ (i \cup l) \cap d = {} /\ ((i \cup l) \cup d) \cap u = {}
  BY DEF At
<1>8. /\ IsFiniteSet(i) /\ IsFiniteSet(l) /\ IsFiniteSet(d) /\ IsFiniteSet(u)
      /\ Cardinality(i) \in Nat /\ Cardinality(l) \in Nat
      /\ Cardinality(d) \in Nat /\ Cardinality(u) \in Nat
  BY <1>2, <1>5, FiniteHomes
<1>9. i = inserted /\ l = limited /\ d = dropped /\ u = unsent
  BY <1>1 DEF Houses
<1>10. Cardinality(1 .. read) = read /\ Cardinality({}) = 0
  <2>1. Cardinality(1 .. read) = IF 1 > read THEN 0 ELSE read - 1 + 1
    BY <1>2, FS_Interval
  <2>2. QED
    BY <1>2, <2>1, FS_EmptySet
<1> HIDE DEF i, l, d, u
<1>11. Cardinality(i) + Cardinality(l) + Cardinality(d) + Cardinality(u) = read
  <2>1. IsFiniteSet(i \cup l) /\ Cardinality(i \cup l) = Cardinality(i) + Cardinality(l)
    BY <1>7, <1>8, DisjointUnion
  <2>2. /\ IsFiniteSet((i \cup l) \cup d)
        /\ Cardinality((i \cup l) \cup d) = Cardinality(i \cup l) + Cardinality(d)
    BY <1>7, <1>8, <2>1, DisjointUnion
  <2>3. Cardinality(((i \cup l) \cup d) \cup u) = Cardinality((i \cup l) \cup d) + Cardinality(u)
    BY <1>7, <1>8, <2>2, DisjointUnion
  <2>4. Cardinality(((i \cup l) \cup d) \cup u) = read
    BY <1>6, <1>10
  <2>5. QED
    BY <1>8, <2>1, <2>2, <2>3, <2>4
<1>12. packets = IF source = "pcap" THEN Cardinality(inserted)
                 ELSE read - Cardinality(unsent) - bytesDropped
  <2>1. CASE source = "pcap"
    BY <2>1 DEF Sound, CaptureOnly
  <2>2. CASE source # "pcap"
    <3>1. PICK bytesHome : BytesHouses(bytesHome)
      BY <2>2 DEF Sound, Counted
    <3> DEFINE h == At(bytesHome, "handed")
    <3>2. At(bytesHome, "batch") = {} /\ At(bytesHome, "call") = {} /\ At(bytesHome, "unsent") = unsent
      BY <1>4, <3>1 DEF BytesHouses
    <3>3. bytesHome \in [1 .. read -> {"handed", "unsent"}]
      BY <3>1, <3>2 DEF BytesHouses, BytesHomes, At
    <3>4. (1 .. read) \ unsent = h /\ unsent \subseteq 1 .. read
      BY <3>2, <3>3 DEF At
    <3>5. IsFiniteSet(h) /\ Cardinality(h) \in Nat
      BY <1>2, <3>3, FiniteHomes
    <3> HIDE DEF h
    <3>6. h \cup unsent = 1 .. read /\ h \cap unsent = {}
      BY <3>4
    <3>7. Cardinality(h \cup unsent) = Cardinality(h) + Cardinality(unsent) - Cardinality(h \cap unsent)
      BY <1>8, <1>9, <3>5, FS_Union
    <3>8. Cardinality(h \cup unsent) = read /\ Cardinality(h \cap unsent) = 0
      BY <1>10, <3>6
    <3>9. Cardinality(unsent) \in Nat
      BY <1>8, <1>9
    <3>10. Cardinality(h) = packets + bytesChan + bytesDropped
      BY <3>1 DEF BytesHouses, h
    <3>11. packets = read - Cardinality(unsent) - bytesDropped
      <4>1. \A a, b, c, e, n \in Nat : n = a + b - 0 /\ a = c + 0 + e => c = n - b - e
        OBVIOUS
      <4>2. QED
        BY <1>2, <1>3, <3>5, <3>7, <3>8, <3>9, <3>10, <4>1
    <3>12. QED
      BY <2>2, <3>11
  <2>3. QED
    BY <2>1, <2>2
<1>13. UNION Input!Range(Input!Fates) = 1 .. read
  <2>1. \A f : Input!Range(f) = {f[x] : x \in DOMAIN f}
    BY DEF Input!Range
  <2>2. Input!Range(Input!Fates) = {inserted, limited, dropped, unsent}
    BY <2>1 DEF Input!Fates
  <2>3. QED
    BY <1>6, <1>9, <2>2
<1>14. \A S : Input!Cardinality(S) = Cardinality(S)
  BY DEF Input!Cardinality, Cardinality
<1>15. /\ Input!Cardinality(inserted) + Input!Cardinality(limited) + Input!Cardinality(dropped)
            + Input!Cardinality(unsent) = read
       /\ packets = IF source = "pcap" THEN Input!Cardinality(inserted)
                    ELSE read - Input!Cardinality(unsent) - bytesDropped
  BY <1>9, <1>11, <1>12, <1>14, Zenon
<1>. QED
  BY <1>13, <1>15, Zenon DEF Input!Accounting

\* For channels and batches of any size and any number of packets, from every
\* source: when all has run dry each packet has met one fate, and the traffic
\* counters have counted what they should.
THEOREM PacketsAccounted == AnySpec => []Accounting
<1> DEFINE Inv == part = "input" => Sound
<1> USE ComponentsAssumption DEF ComponentsAssumption
<1>1. AnyInit => Inv
  BY InitSound DEF AnyInit
<1>2. Inv /\ [AnyNext]_anyVars => Inv'
  BY StepOfPart, SoundStep
<1>3. Inv => Accounting
  BY SoundAccounts DEF Accounting
<1>. QED
  BY <1>1, <1>2, <1>3, PTL DEF AnySpec

------------------------------------------------------------------------------
(* An evaluation run *)

Alerts == Range(events)
Attacks == Range(attackList)
Windows == 0 .. TotalWindows - 1

\* What a run has written down, and when it was written.
Written ==
  /\ attackList \in AttackLists
  /\ windowID \in Nat /\ wid \in Nat
  /\ events \in Seq(Nat) /\ IsInjective(events)
  /\ detect = "stopped" => result = Run!Metrics
  /\ summary # Run!NoResult =>
       /\ detect = "stopped"
       /\ summary = [tp |-> Run!Tally(TRUE, TRUE), fp |-> Run!Tally(FALSE, TRUE),
                     fn |-> Run!Tally(TRUE, FALSE), tn |-> Run!Tally(FALSE, FALSE)]

\* An instance has operators of the library of its own.
LEMMA SameCardinality == \A S : Run!Cardinality(S) = Cardinality(S)
BY DEF Run!Cardinality, Cardinality

LEMMA SameAttacks == Run!attackSet = Attacks /\ Run!Range(events) = Alerts
BY DEF Run!attackSet, Attacks, Alerts, Range, Run!Range

LEMMA TimelineRegions ==
  /\ Run!Tally(TRUE, TRUE) = Cardinality((Windows \cap Attacks) \cap Alerts)
  /\ Run!Tally(TRUE, FALSE) = Cardinality((Windows \cap Attacks) \ Alerts)
  /\ Run!Tally(FALSE, TRUE) = Cardinality((Windows \ Attacks) \cap Alerts)
  /\ Run!Tally(FALSE, FALSE) = Cardinality((Windows \ Attacks) \ Alerts)
<1> DEFINE Cell(a, p) == {w \in DOMAIN Run!Timeline : Run!Timeline[w] = [attack |-> a, predicted |-> p]}
<1>1. DOMAIN Run!Timeline = Windows
  BY DEF Run!Timeline, Windows
<1>2. ASSUME NEW w \in Windows, NEW a \in BOOLEAN, NEW p \in BOOLEAN
      PROVE  Run!Timeline[w] = [attack |-> a, predicted |-> p]
               <=> (w \in Attacks <=> a) /\ (w \in Alerts <=> p)
  <2>1. Run!Timeline[w] = [attack |-> w \in Attacks, predicted |-> w \in Alerts]
    BY SameAttacks DEF Run!Timeline, Windows, Alerts
  <2>2. QED
    BY <2>1
<1>3. /\ Cell(TRUE, TRUE) = (Windows \cap Attacks) \cap Alerts
      /\ Cell(TRUE, FALSE) = (Windows \cap Attacks) \ Alerts
      /\ Cell(FALSE, TRUE) = (Windows \ Attacks) \cap Alerts
      /\ Cell(FALSE, FALSE) = (Windows \ Attacks) \ Alerts
  BY <1>1, <1>2
<1>4. \A a, p \in BOOLEAN : Run!Tally(a, p) = Cardinality(Cell(a, p))
  BY SameCardinality DEF Run!Tally
<1>. QED
  BY <1>3, <1>4

LEMMA RunCounts ==
  ASSUME Written, Run!EvaluationAssumption
  PROVE  /\ Attacks \in SUBSET Nat /\ IsFiniteSet(Attacks)
         /\ Alerts \in SUBSET Nat /\ IsFiniteSet(Alerts)
         /\ Run!Cardinality({i \in DOMAIN events : events[i] \in Run!attackSet}) = Cardinality(Alerts \cap Attacks)
         /\ Run!Cardinality({i \in DOMAIN events : events[i] \notin Run!attackSet}) = Cardinality(Alerts \ Attacks)
         /\ Run!Cardinality({i \in DOMAIN attackList : attackList[i] \notin Run!Range(events)}) = Cardinality(Attacks \ Alerts)
         /\ Run!Cardinality({i \in DOMAIN events : events[i] >= TotalWindows /\ events[i] \in Run!attackSet})
              = Cardinality((Alerts \cap Attacks) \ Windows)
         /\ Run!Cardinality({i \in DOMAIN events : events[i] >= TotalWindows /\ events[i] \notin Run!attackSet})
              = Cardinality((Alerts \ Attacks) \ Windows)
         /\ Run!Cardinality({w \in Run!attackSet : w >= TotalWindows}) = Cardinality(Attacks \ Windows)
<1> DEFINE A == Attacks
           late == {w \in Nat : w >= TotalWindows}
<1>1. /\ events \in Seq(Nat) /\ IsInjective(events)
      /\ attackList \in Seq(Nat) /\ IsInjective(attackList)
      /\ TotalWindows \in Nat
  BY DEF Written, Run!EvaluationAssumption, Run!IsInjective, IsInjective
<1>2. Alerts \in SUBSET Nat /\ IsFiniteSet(Alerts) /\ A \in SUBSET Nat /\ IsFiniteSet(A)
  BY <1>1, PlacesOf DEF Alerts, Attacks, A
<1>3. ASSUME NEW X
      PROVE  Cardinality(Places(events, X)) = Cardinality(Alerts \cap X)
  BY <1>1, PlacesOf DEF Alerts
<1>4. ASSUME NEW X
      PROVE  Cardinality(Places(attackList, X)) = Cardinality(A \cap X)
  BY <1>1, PlacesOf DEF Attacks, A
<1>5. /\ \A i \in DOMAIN events : events[i] \in Nat
      /\ \A i \in DOMAIN attackList : attackList[i] \in Nat
  BY <1>1
<1> HIDE DEF A
<1>5a. \A w \in Nat : w \notin Windows <=> w >= TotalWindows
  BY <1>1 DEF Windows
<1>6. Cardinality({i \in DOMAIN events : events[i] \notin A}) = Cardinality(Alerts \ A)
  <2>1. {i \in DOMAIN events : events[i] \notin A} = {i \in DOMAIN events : events[i] \in Nat \ A}
    BY <1>5
  <2>2. Alerts \cap (Nat \ A) = Alerts \ A
    BY <1>2
  <2>3. QED
    BY <1>3, <2>1, <2>2 DEF Places
<1>7. Cardinality({i \in DOMAIN attackList : attackList[i] \notin Range(events)}) = Cardinality(A \ Alerts)
  <2>1. {i \in DOMAIN attackList : attackList[i] \notin Range(events)}
          = {i \in DOMAIN attackList : attackList[i] \in Nat \ Alerts}
    BY <1>5 DEF Alerts
  <2>2. A \cap (Nat \ Alerts) = A \ Alerts
    BY <1>2
  <2>3. QED
    BY <1>4, <2>1, <2>2 DEF Places
<1>8. Cardinality({i \in DOMAIN events : events[i] >= TotalWindows /\ events[i] \in A})
        = Cardinality((Alerts \cap A) \ Windows)
  <2>1. {i \in DOMAIN events : events[i] >= TotalWindows /\ events[i] \in A}
          = {i \in DOMAIN events : events[i] \in late \cap A}
    BY <1>5
  <2>2. Alerts \cap (late \cap A) = (Alerts \cap A) \ Windows
    BY <1>2, <1>5a
  <2>3. QED
    BY <1>3, <2>1, <2>2 DEF Places
<1>9. Cardinality({i \in DOMAIN events : events[i] >= TotalWindows /\ events[i] \notin A})
        = Cardinality((Alerts \ A) \ Windows)
  <2>1. {i \in DOMAIN events : events[i] >= TotalWindows /\ events[i] \notin A}
          = {i \in DOMAIN events : events[i] \in late \ A}
    BY <1>5
  <2>2. Alerts \cap (late \ A) = (Alerts \ A) \ Windows
    BY <1>2, <1>5a
  <2>3. QED
    BY <1>3, <2>1, <2>2 DEF Places
<1>10. {w \in A : w >= TotalWindows} = A \ Windows
  BY <1>2, <1>5a
<1>. QED
  BY <1>2, <1>3, <1>6, <1>7, <1>8, <1>9, <1>10, SameAttacks, SameCardinality, Zenon DEF A, Alerts, Places

\* What is computed from attacks and alerts stays what it is with them.
LEMMA SameCounts ==
  ASSUME UNCHANGED <<attackList, events>>
  PROVE  /\ Run!Metrics' = Run!Metrics
         /\ \A a, p \in BOOLEAN : Run!Tally(a, p)' = Run!Tally(a, p)
<1>1. Run!attackSet' = Run!attackSet /\ attackList' = attackList /\ events' = events
  BY DEF Run!attackSet
<1>2. Run!Timeline' = Run!Timeline
  BY <1>1 DEF Run!Timeline
<1>3. \A a, p \in BOOLEAN : Run!Tally(a, p)' = Run!Tally(a, p)
  BY <1>2 DEF Run!Tally
<1>4. Run!Metrics' = Run!Metrics
  BY <1>1, Zenon DEF Run!Metrics, Run!Count
<1>. QED
  BY <1>3, <1>4

LEMMA WrittenStep ==
  ASSUME Run!EvaluationAssumption, Written, [Run!Next]_Run!vars
  PROVE  Written'
<1>1. CASE Run!Generate \/ Run!Rotate \/ UNCHANGED Run!vars
  <2>1. UNCHANGED <<attackList, wid, events, detect, result, summary>> /\ windowID' \in Nat
    BY <1>1 DEF Run!Generate, Run!Rotate, Run!vars, Written
  <2>2. QED
    BY <2>1, SameCounts DEF Written, Run!NoResult
<1>2. CASE Run!Check
  <2>1. detect = "running" /\ detect' = "judging"
    BY <1>2 DEF Run!Check
  <2>2. UNCHANGED <<attackList, windowID, events, result, summary>> /\ wid' = windowID
    BY <1>2 DEF Run!Check
  <2>3. QED
    BY <2>1, <2>2 DEF Written, Run!NoResult
<1>3. CASE Run!Judge
  <2>1. detect = "judging" /\ detect' = "running"
    BY <1>3 DEF Run!Judge
  <2>2. UNCHANGED <<attackList, windowID, wid, result, summary>>
    BY <1>3 DEF Run!Judge
  <2>3. events' \in Seq(Nat) /\ IsInjective(events')
    <3>1. events \in Seq(Nat) /\ IsInjective(events) /\ wid \in Nat
      BY DEF Written
    <3>2. CASE UNCHANGED events
      BY <3>1, <3>2
    <3>3. CASE wid \notin Run!Range(events) /\ events' = Append(events, wid)
      <4>1. events' \in Seq(Nat) /\ Len(events') = Len(events) + 1
        BY <3>1, <3>3
      <4>2. \A i \in 1 .. Len(events) : events'[i] = events[i] /\ events[i] # wid
        BY <3>1, <3>3 DEF Run!Range
      <4>3. events'[Len(events) + 1] = wid
        BY <3>1, <3>3
      <4>4. ASSUME NEW i \in DOMAIN events', NEW j \in DOMAIN events', events'[i] = events'[j]
            PROVE  i = j
        <5>1. /\ i \in 1 .. Len(events) \/ i = Len(events) + 1
              /\ j \in 1 .. Len(events) \/ j = Len(events) + 1
          BY <3>1, <4>1
        <5>2. CASE i \in 1 .. Len(events) /\ j \in 1 .. Len(events)
          BY <3>1, <4>2, <4>4, <5>2 DEF IsInjective
        <5>3. CASE i = Len(events) + 1 \/ j = Len(events) + 1
          BY <4>2, <4>3, <4>4, <5>1, <5>3
        <5>4. QED
          BY <5>1, <5>2, <5>3
      <4>5. QED
        BY <4>1, <4>4 DEF IsInjective
    <3>4. QED
      BY <1>3, <3>2, <3>3 DEF Run!Judge
  <2>4. QED
    BY <2>1, <2>2, <2>3 DEF Written, Run!NoResult
<1>4. CASE Run!Finish
  <2>1. UNCHANGED <<attackList, windowID, wid, events, summary>>
    BY <1>4 DEF Run!Finish
  <2>2. detect = "running" /\ result' = Run!Metrics
    BY <1>4 DEF Run!Finish
  <2>3. QED
    BY <2>1, <2>2, SameCounts DEF Written, Run!NoResult
<1>5. CASE Run!Summarize
  <2>1. UNCHANGED <<attackList, windowID, wid, events, detect, result>> /\ detect = "stopped"
    BY <1>5 DEF Run!Summarize
  <2>2. summary' = [tp |-> Run!Tally(TRUE, TRUE), fp |-> Run!Tally(FALSE, TRUE),
                    fn |-> Run!Tally(TRUE, FALSE), tn |-> Run!Tally(FALSE, FALSE)]
    BY <1>5 DEF Run!Summarize
  <2>3. QED
    BY <2>1, <2>2, SameCounts DEF Written
<1>6. QED
  BY <1>1, <1>2, <1>3, <1>4, <1>5 DEF Run!Next

LEMMA WrittenAgrees ==
  ASSUME Run!EvaluationAssumption, Written
  PROVE  Run!SummariesAgree
<1> SUFFICES ASSUME summary # Run!NoResult
             PROVE  Run!SummariesAgree
  BY DEF Run!SummariesAgree
<1> DEFINE A == Attacks
           E == Alerts
           tp == Cardinality((Windows \cap A) \cap E)
           fn == Cardinality((Windows \cap A) \ E)
           fp == Cardinality((Windows \ A) \cap E)
           tn == Cardinality((Windows \ A) \ E)
           beyond == Cardinality(A \ Windows)
           lateAttack == Cardinality((E \cap A) \ Windows)
           lateNormal == Cardinality((E \ A) \ Windows)
<1>1. summary = [tp |-> tp, fp |-> fp, fn |-> fn, tn |-> tn]
  BY TimelineRegions, Zenon DEF Written
<1>2. result = Run!Metrics
  BY DEF Written
<1>3. A \in SUBSET Nat /\ IsFiniteSet(A) /\ E \in SUBSET Nat /\ IsFiniteSet(E)
  BY RunCounts
<1>4. IsFiniteSet(Windows) /\ Cardinality(Windows) = TotalWindows /\ TotalWindows \in Nat
  BY FS_Interval DEF Windows, Run!EvaluationAssumption
<1>4a. Cut(A, E, Windows)
  BY <1>3, <1>4, Regions
<1>5. /\ tp \in Nat /\ fn \in Nat /\ fp \in Nat /\ tn \in Nat
      /\ beyond \in Nat /\ lateAttack \in Nat /\ lateNormal \in Nat
  BY <1>4a DEF Cut
<1>6. /\ Cardinality(E \cap A) = tp + lateAttack
      /\ Cardinality(E \ A) = fp + lateNormal
      /\ Cardinality(A \ E) = fn + (beyond - lateAttack)
      /\ Cardinality(Windows) = (tp + fn) + (fp + tn)
      /\ Cardinality(A) = (tp + fn) + beyond
  BY <1>4a DEF Cut
<1> HIDE DEF tp, fn, fp, tn, beyond, lateAttack, lateNormal
<1>7. TotalWindows - Cardinality(A) - Cardinality(E \ A) = tn - beyond - lateNormal
  BY <1>4, <1>5, <1>6
<1>8. Run!Metrics = [tp |-> Cardinality(E \cap A), fp |-> Cardinality(E \ A), fn |-> Cardinality(A \ E),
                     tn |-> IF TotalWindows - Cardinality(A) - Cardinality(E \ A) < 0 THEN 0
                            ELSE TotalWindows - Cardinality(A) - Cardinality(E \ A)]
  BY RunCounts, SameAttacks, SameCardinality, Zenon DEF Run!Metrics, Run!Count
<1>9. Run!Metrics = [tp |-> tp + lateAttack, fp |-> fp + lateNormal, fn |-> fn + beyond - lateAttack,
                     tn |-> IF tn - beyond - lateNormal < 0 THEN 0 ELSE tn - beyond - lateNormal]
  <2>1. fn + (beyond - lateAttack) = fn + beyond - lateAttack
    BY <1>5
  <2>2. QED
    BY <1>6, <1>7, <1>8, <2>1, Zenon
<1>10. result = [tp |-> summary.tp + lateAttack, fp |-> summary.fp + lateNormal,
                 fn |-> summary.fn + beyond - lateAttack,
                 tn |-> IF summary.tn - beyond - lateNormal < 0 THEN 0
                        ELSE summary.tn - beyond - lateNormal]
  <2>1. summary.tp = tp /\ summary.fp = fp /\ summary.fn = fn /\ summary.tn = tn
    BY <1>1
  <2>2. QED
    BY <1>2, <1>9, <2>1, Zenon
<1>. QED
  BY <1>10, RunCounts, SameAttacks, SameCardinality, Zenon
     DEF Run!SummariesAgree, Run!Count, beyond, lateAttack, lateNormal

\* For any number of windows and every list of attack windows, and however
\* generator, rotations and checks interleave, the logger's counts and those of
\* the run differ by what lies beyond the last window, and by nothing else.
THEOREM SummariesDifferKnowingly == AnySpec => []SummariesAgree
<1> DEFINE Inv == part = "run" => Written
<1> USE ComponentsAssumption DEF ComponentsAssumption
<1>1. AnyInit => Inv
  <2>1. Run!Init => Written
    BY DEF Run!Init, Written, Run!NoResult, IsInjective
  <2>2. QED
    BY <2>1 DEF AnyInit
<1>2. Inv /\ [AnyNext]_anyVars => Inv'
  BY StepOfPart, WrittenStep
<1>3. Inv => SummariesAgree
  BY WrittenAgrees DEF SummariesAgree
<1>. QED
  BY <1>1, <1>2, <1>3, PTL DEF AnySpec

------------------------------------------------------------------------------
(* Sums over a list *)

Adding(g, n, a) == g = [i \in 0 .. n |-> IF i = 0 THEN 0 ELSE g[i - 1] + a[i]]

LEMMA AddingExists ==
  ASSUME NEW a
  PROVE  \A n \in Nat : \E g : Adding(g, n, a)
<1> DEFINE Fine == {n \in Nat : \E g : Adding(g, n, a)}
<1>1. 0 \in Fine
  <2> DEFINE g == [i \in 0 .. 0 |-> 0]
  <2>1. Adding(g, 0, a)
    BY DEF Adding
  <2>2. QED
    BY <2>1
<1>2. ASSUME NEW n \in Fine
      PROVE  n + 1 \in Fine
  <2>1. PICK g : Adding(g, n, a)
    OBVIOUS
  <2> DEFINE h == [i \in 0 .. n + 1 |-> IF i = 0 THEN 0 ELSE g[i - 1] + a[i]]
  <2>2. ASSUME NEW i \in 0 .. n
        PROVE  h[i] = g[i]
    BY <2>1 DEF Adding
  <2>3. ASSUME NEW i \in 0 .. n + 1, i # 0
        PROVE  g[i - 1] = h[i - 1]
    <3>1. i - 1 \in 0 .. n
      BY <2>3
    <3>2. QED
      BY <2>2, <3>1
  <2>4. h = [i \in 0 .. n + 1 |-> IF i = 0 THEN 0 ELSE h[i - 1] + a[i]]
    <3>1. \A i \in 0 .. n + 1 :
            (IF i = 0 THEN 0 ELSE g[i - 1] + a[i]) = (IF i = 0 THEN 0 ELSE h[i - 1] + a[i])
      BY <2>3
    <3>2. h = [i \in 0 .. n + 1 |-> IF i = 0 THEN 0 ELSE g[i - 1] + a[i]]
      OBVIOUS
    <3> HIDE DEF h
    <3>3. QED
      BY <3>1, <3>2
  <2> HIDE DEF h
  <2>5. Adding(h, n + 1, a)
    BY <2>4 DEF Adding
  <2>6. QED
    BY <2>5
<1>3. Fine \in SUBSET Nat
  OBVIOUS
<1>4. Fine = Nat
  <2> HIDE DEF Fine
  <2>1. QED
    BY <1>1, <1>2, <1>3, Induction
<1>. QED
  BY <1>4

\* f holds the sums of the kth powers of the first members of s.
Sums(f, s, k) ==
  /\ f \in [0 .. Len(s) -> Nat]
  /\ f[0] = 0
  /\ \A i \in 1 .. Len(s) : f[i] = f[i - 1] + Detector!Power(s[i], k)
  /\ Detector!PowerSum(s, k) = f[Len(s)]

LEMMA PowerSums ==
  ASSUME NEW s \in Seq(Nat), NEW k
  PROVE  \E f : Sums(f, s, k)
<1> DEFINE num == Len(s)
           a == [i \in 1 .. num |-> Detector!Power(s[i], k)]
           f == CHOOSE g : Adding(g, num, a)
<1>1. num \in Nat
  OBVIOUS
<1>2. \A i \in 1 .. num : a[i] \in Nat /\ a[i] = Detector!Power(s[i], k)
  <2>1. \A i \in 1 .. num : s[i] \in Nat
    OBVIOUS
  <2>2. \A x \in Nat : Detector!Power(x, k) \in Nat
    BY DEF Detector!Power
  <2>3. QED
    BY <2>1, <2>2
<1>3. Adding(f, num, a)
  <2> HIDE DEF a, num
  <2>1. QED
    BY <1>1, AddingExists
<1>4. Detector!PowerSum(s, k) = f[num]
  <2>1. ASSUME NEW g
        PROVE  Adding(g, num, a) <=> g = [i \in 0 .. Len(s) |-> IF i = 0 THEN 0 ELSE g[i - 1] + Detector!Power(s[i], k)]
    <3>1. \A i \in 0 .. num : i # 0 => i \in 1 .. num
      BY <1>1
    <3>2. [i \in 0 .. num |-> IF i = 0 THEN 0 ELSE g[i - 1] + a[i]]
            = [i \in 0 .. num |-> IF i = 0 THEN 0 ELSE g[i - 1] + Detector!Power(s[i], k)]
      BY <3>1
    <3>3. QED
      BY <3>2 DEF Adding
  <2>2. f = CHOOSE g : g = [i \in 0 .. Len(s) |-> IF i = 0 THEN 0 ELSE g[i - 1] + Detector!Power(s[i], k)]
    BY <2>1
  <2>3. QED
    BY <2>2 DEF Detector!PowerSum
<1> HIDE DEF f, a, num
<1>5. /\ f = [i \in 0 .. num |-> f[i]] /\ f[0] = 0
      /\ \A i \in 1 .. num : f[i] = f[i - 1] + a[i]
  <2>1. f = [i \in 0 .. num |-> IF i = 0 THEN 0 ELSE f[i - 1] + a[i]]
    BY <1>3 DEF Adding
  <2>2. \A i \in 0 .. num : f[i] = IF i = 0 THEN 0 ELSE f[i - 1] + a[i]
    BY <2>1
  <2>3. 0 \in 0 .. num /\ \A i \in 1 .. num : i \in 0 .. num /\ i # 0
    BY <1>1
  <2>4. QED
    BY <2>1, <2>2, <2>3
<1>6. \A i \in 0 .. num : f[i] \in Nat
  <2> DEFINE Fine == {i \in Nat : i <= num => f[i] \in Nat}
  <2>1. 0 \in Fine
    BY <1>5
  <2>2. ASSUME NEW i \in Fine
        PROVE  i + 1 \in Fine
    <3>1. CASE i + 1 <= num
      <4>1. i + 1 \in 1 .. num /\ (i + 1) - 1 = i /\ i \in Nat /\ f[i] \in Nat
        BY <1>1, <3>1
      <4>2. f[i + 1] = f[i] + a[i + 1]
        BY <1>5, <4>1
      <4>3. QED
        BY <1>2, <4>1, <4>2
    <3>2. QED
      BY <3>1
  <2>3. Fine \in SUBSET Nat
    OBVIOUS
  <2>4. Fine = Nat
    <3> HIDE DEF Fine
    <3>1. QED
      BY <2>1, <2>2, <2>3, Induction
  <2>5. QED
    BY <1>1, <2>4
<1>7. f \in [0 .. num -> Nat]
  BY <1>5, <1>6
<1>8. Sums(f, s, k)
  BY <1>2, <1>4, <1>5, <1>7 DEF Sums, num
<1>. QED
  BY <1>8

------------------------------------------------------------------------------
(* The history of counts *)

LEMMA HistoryAppended ==
  ASSUME NEW s \in Seq(Nat), NEW c \in Nat, MaxHistory \in Nat \ {0}
  PROVE  /\ Detector!Appended(s, c) \in Seq(Nat)
         /\ \A i \in DOMAIN Detector!Appended(s, c) :
              Detector!Appended(s, c)[i] = c
                \/ \E j \in DOMAIN s : Detector!Appended(s, c)[i] = s[j]
<1> DEFINE t == IF Len(s) >= MaxHistory THEN Tail(s) ELSE s
           u == Append(t, c)
<1>1. /\ t \in Seq(Nat) /\ Len(t) \in Nat
      /\ \A i \in DOMAIN t : \E j \in DOMAIN s : t[i] = s[j]
  <2>1. CASE Len(s) >= MaxHistory
    <3>1. s # << >> /\ Len(s) \in Nat
      BY <2>1
    <3>2. /\ Tail(s) \in Seq(Nat) /\ Len(Tail(s)) = Len(s) - 1
          /\ \A i \in 1 .. Len(s) - 1 : Tail(s)[i] = s[i + 1] /\ i + 1 \in 1 .. Len(s)
      BY <3>1
    <3>3. QED
      BY <2>1, <3>1, <3>2
  <2>2. QED
    BY <2>1
<1> HIDE DEF t
<1>2. /\ u \in Seq(Nat) /\ Len(u) = Len(t) + 1
      /\ \A i \in 1 .. Len(t) : u[i] = t[i]
      /\ u[Len(t) + 1] = c
  BY <1>1
<1> HIDE DEF u
<1>3. \A i \in DOMAIN u : i \in DOMAIN t \/ i = Len(t) + 1
  BY <1>1, <1>2
<1>4. \A i \in DOMAIN t : i \in 1 .. Len(t)
  BY <1>1
<1>5. \A i \in DOMAIN u : u[i] = c \/ \E j \in DOMAIN s : u[i] = s[j]
  BY <1>1, <1>2, <1>3, <1>4
<1>6. Detector!Appended(s, c) = u
  BY DEF Detector!Appended, t, u
<1>. QED
  BY <1>2, <1>5, <1>6

LEMMA SumsAreNatural ==
  ASSUME NEW s \in Seq(Nat), NEW k
  PROVE  Detector!PowerSum(s, k) \in Nat
<1>1. PICK f : Sums(f, s, k)
  BY PowerSums
<1>2. Len(s) \in 0 .. Len(s)
  OBVIOUS
<1>. QED
  BY <1>1, <1>2 DEF Sums

\* A sum is no smaller than so many times the smallest.
LEMMA SumAtLeast ==
  ASSUME NEW s \in Seq(Nat), NEW l \in Nat, \A i \in DOMAIN s : s[i] >= l
  PROVE  Detector!PowerSum(s, 1) >= Len(s) * l
<1>1. PICK f : Sums(f, s, 1)
  BY PowerSums
<1>2. /\ f \in [0 .. Len(s) -> Nat] /\ f[0] = 0 /\ Detector!PowerSum(s, 1) = f[Len(s)]
      /\ \A i \in 1 .. Len(s) : f[i] = f[i - 1] + s[i]
  BY <1>1 DEF Sums, Detector!Power
<1>3. Len(s) \in Nat /\ \A i \in 1 .. Len(s) : s[i] \in Nat /\ s[i] >= l
  OBVIOUS
<1> DEFINE n == Len(s)
           Fine == {i \in Nat : i <= n => f[i] >= i * l}
<1>4. 0 \in Fine
  BY <1>2
<1>5. ASSUME NEW i \in Fine
      PROVE  i + 1 \in Fine
  <2> HIDE DEF n
  <2>1. CASE i + 1 <= n
    <3>1. i + 1 \in 1 .. n /\ (i + 1) - 1 = i /\ i \in 0 .. n
      BY <1>3, <2>1 DEF n
    <3>2. /\ f[i + 1] = f[i] + s[i + 1] /\ s[i + 1] >= l
          /\ f[i] \in Nat /\ s[i + 1] \in Nat /\ f[i] >= i * l
      <4>1. f[i + 1] = f[(i + 1) - 1] + s[i + 1]
        BY <1>2, <3>1 DEF n
      <4>2. s[i + 1] >= l /\ s[i + 1] \in Nat /\ f[i] \in Nat
        BY <1>2, <1>3, <3>1 DEF n
      <4>3. f[i] >= i * l
        BY <3>1
      <4>4. QED
        BY <3>1, <4>1, <4>2, <4>3
    <3>3. (i + 1) * l = i * l + l /\ i * l \in Nat
      OBVIOUS
    <3>4. f[i + 1] >= (i + 1) * l
      BY <3>2, <3>3
    <3>5. QED
      BY <3>4
  <2>2. CASE ~(i + 1 <= n)
    BY <2>2
  <2>3. QED
    BY <2>1, <2>2
<1>6. Fine \in SUBSET Nat
  OBVIOUS
<1>7. Fine = Nat
  <2> HIDE DEF Fine
  <2>1. QED
    BY <1>4, <1>5, <1>6, Induction
<1>8. n \in Fine
  BY <1>3, <1>7
<1>. QED
  BY <1>2, <1>8

------------------------------------------------------------------------------
(* Squares *)

\* The squares of i numbers p * x + q, from the sums a of the x and b of their squares.
Squares(p, q, a, b, i) == p * p * b + 2 * p * q * a + i * q * q

OneMoreSquare(p, q, a, b, i, x) ==
  Squares(p, q, a + x, b + x * x, i + 1) = Squares(p, q, a, b, i) + (p * x + q) * (p * x + q)

LEMMA SquareByOne ==
  ASSUME NEW p \in Int, NEW q \in Int, NEW a \in Int, NEW b \in Int, NEW i \in Int, NEW x \in Int
  PROVE  OneMoreSquare(p, q, a, b, i, x)
BY DEF OneMoreSquare, Squares

LEMMA SquareIsNatural == ASSUME NEW x \in Int PROVE x * x \in Nat
OBVIOUS

LEMMA SquaresGrow == ASSUME NEW x \in Nat, NEW y \in Nat, x <= y PROVE x * x <= y * y
OBVIOUS

\* Stretched by p and moved by q, the members of a list have squares whose sum
\* is what its sums make it; the last m of them, if they are no less than c,
\* contribute their part.
LEMMA SquaresTogether ==
  ASSUME NEW s \in Seq(Nat), NEW p \in Int, NEW q \in Int, NEW c \in Nat, NEW m \in 0 .. Len(s),
         m # 0 => p >= 0 /\ p * c + q >= 0,
         \A i \in DOMAIN s : i > Len(s) - m => s[i] >= c
  PROVE  Squares(p, q, Detector!PowerSum(s, 1), Detector!PowerSum(s, 2), Len(s))
           >= m * ((p * c + q) * (p * c + q))
<1> DEFINE n == Len(s)
           w == (p * c + q) * (p * c + q)
<1>1. PICK f : Sums(f, s, 1)
  BY PowerSums
<1>2. PICK g : Sums(g, s, 2)
  BY PowerSums
<1>3. /\ f \in [0 .. n -> Nat] /\ f[0] = 0 /\ Detector!PowerSum(s, 1) = f[n]
      /\ \A i \in 1 .. n : f[i] = f[i - 1] + s[i]
  BY <1>1 DEF Sums, Detector!Power
<1>4. /\ g \in [0 .. n -> Nat] /\ g[0] = 0 /\ Detector!PowerSum(s, 2) = g[n]
      /\ \A i \in 1 .. n : g[i] = g[i - 1] + s[i] * s[i]
  BY <1>2 DEF Sums, Detector!Power
<1>5. n \in Nat /\ m \in Nat /\ m <= n /\ \A i \in 1 .. n : s[i] \in Nat /\ i \in DOMAIN s
  OBVIOUS
<1>6. w \in Nat
  <2>1. p * c + q \in Int
    OBVIOUS
  <2>2. QED
    BY <2>1, SquareIsNatural
<1>7. \A i \in 1 .. n : i > n - m => s[i] >= c
  BY <1>5
<1> DEFINE sq(i) == Squares(p, q, f[i], g[i], i)
           share(i) == IF i <= n - m THEN 0 ELSE (i - (n - m)) * w
           Fine == {i \in Nat : i <= n => sq(i) \in Int /\ sq(i) >= share(i)}
<1> HIDE DEF n, w
<1>8. 0 \in Fine
  <2>1. sq(0) = 0 /\ share(0) = 0
    BY <1>3, <1>4, <1>5 DEF Squares
  <2>2. QED
    BY <2>1
<1>9. ASSUME NEW i \in Fine
      PROVE  i + 1 \in Fine
  <2> SUFFICES ASSUME i + 1 <= n
               PROVE  sq(i + 1) \in Int /\ sq(i + 1) >= share(i + 1)
    OBVIOUS
  <2>1. i \in Nat /\ i <= n /\ i + 1 \in 1 .. n /\ (i + 1) - 1 = i /\ i \in 0 .. n
    BY <1>5
  <2>2. sq(i) \in Int /\ sq(i) >= share(i)
    BY <2>1
  <2> DEFINE x == s[i + 1]
             y == (p * x + q) * (p * x + q)
  <2>3. x \in Nat /\ f[i] \in Nat /\ g[i] \in Nat /\ i + 1 > n - m => x >= c
    BY <1>3, <1>4, <1>5, <1>7, <2>1
  <2>4. f[i + 1] = f[i] + x /\ g[i + 1] = g[i] + x * x
    BY <1>3, <1>4, <2>1
  <2>5. x \in Nat /\ f[i] \in Nat /\ g[i] \in Nat
    BY <1>3, <1>4, <1>5, <2>1
  <2> HIDE DEF x
  <2>6. sq(i + 1) = sq(i) + y
    <3>1. x \in Int /\ f[i] \in Int /\ g[i] \in Int /\ i \in Int
      BY <2>1, <2>5
    <3>2. OneMoreSquare(p, q, f[i], g[i], i, x)
      BY <3>1, SquareByOne
    <3>3. QED
      BY <2>4, <3>2 DEF OneMoreSquare
  <2> HIDE DEF sq
  <2>7. y \in Nat
    <3>1. p * x + q \in Int
      BY <2>5
    <3>2. QED
      BY <3>1, SquareIsNatural
  <2>8. i + 1 > n - m => y >= w
    <3> SUFFICES ASSUME i + 1 > n - m
                 PROVE  y >= w
      OBVIOUS
    <3>1. m # 0 /\ x >= c
      BY <1>5, <1>7, <2>1 DEF x
    <3>2. p \in Nat /\ p * c + q >= 0
      BY <3>1
    <3>3. p * c <= p * x
      BY <2>5, <3>1, <3>2, ProductsGrow
    <3>4. p * c + q \in Nat /\ p * x + q \in Nat /\ p * c + q <= p * x + q
      <4>1. p * c \in Int /\ p * x \in Int
        BY <2>5
      <4>2. QED
        BY <3>2, <3>3, <4>1
    <3>5. QED
      BY <3>4, SquaresGrow DEF w
  <2> HIDE DEF y
  <2>9. share(i + 1) <= share(i) + y
    <3>1. CASE i + 1 <= n - m
      BY <1>5, <2>1, <2>7, <3>1
    <3>2. CASE i <= n - m /\ ~(i + 1 <= n - m)
      <4>1. (i + 1) - (n - m) = 1
        BY <1>5, <2>1, <3>2
      <4>2. share(i + 1) = w /\ share(i) = 0
        BY <1>6, <3>2, <4>1
      <4>3. y >= w
        BY <1>5, <2>1, <2>8, <3>2
      <4> HIDE DEF share
      <4>4. QED
        BY <1>6, <2>7, <4>2, <4>3
    <3>3. CASE ~(i <= n - m)
      <4> DEFINE k == i - (n - m)
      <4>1. k \in Nat /\ (i + 1) - (n - m) = k + 1 /\ ~(i + 1 <= n - m) /\ i + 1 > n - m
        BY <1>5, <2>1, <3>3
      <4>2. share(i) = k * w /\ share(i + 1) = (k + 1) * w
        BY <3>3, <4>1
      <4> HIDE DEF k, share
      <4>3. (k + 1) * w = k * w + w /\ k * w \in Nat
        BY <1>6, <4>1
      <4>4. QED
        BY <1>6, <2>7, <2>8, <4>1, <4>2, <4>3
    <3>4. QED
      BY <3>1, <3>2, <3>3
  <2>10. share(i) \in Int /\ share(i + 1) \in Int
    <3>1. i - (n - m) \in Int /\ (i + 1) - (n - m) \in Int
      BY <1>5, <2>1
    <3>2. QED
      BY <1>6, <3>1
  <2> HIDE DEF share
  <2>11. QED
    BY <2>2, <2>6, <2>7, <2>9, <2>10
<1>10. Fine \in SUBSET Nat
  OBVIOUS
<1>11. Fine = Nat
  <2> HIDE DEF Fine
  <2>1. QED
    BY <1>8, <1>9, <1>10, Induction
<1>12. sq(n) >= share(n)
  <2>1. n \in Fine
    BY <1>5, <1>11
  <2>2. QED
    BY <1>5, <2>1
<1>13. share(n) = m * w
  <2>1. CASE m = 0
    <3>1. m * w = 0 /\ n <= n - m
      BY <1>5, <1>6, <2>1
    <3>2. QED
      BY <3>1
  <2>2. CASE m # 0
    <3>1. ~(n <= n - m) /\ n - (n - m) = m
      BY <1>5, <2>2
    <3>2. QED
      BY <3>1
  <2>3. QED
    BY <2>1, <2>2
<1>. QED
  BY <1>3, <1>4, <1>12, <1>13 DEF n, w

\* The spread of a history is not negative.
LEMMA SpreadIsNatural ==
  ASSUME NEW s \in Seq(Nat)
  PROVE  Detector!Spread(s) \in Nat
<1> DEFINE n == Len(s)
           a == Detector!PowerSum(s, 1)
           b == Detector!PowerSum(s, 2)
           v == n * b - a * a
<1>1. PICK f : Sums(f, s, 1)
  BY PowerSums
<1>2. n \in Nat /\ a \in Nat /\ b \in Nat
  BY SumsAreNatural
<1>3. n = 0 => a = 0
  BY <1>1 DEF Sums
<1> HIDE DEF n, a, b
<1>4. v \in Int
  BY <1>2
<1>5. Squares(n, -a, a, b, n) >= 0
  <2>1. -a \in Int /\ n \in Int /\ 0 \in 0 .. Len(s) /\ 0 \in Nat
    BY <1>2
  <2>2. \A i \in DOMAIN s : ~(i > Len(s) - 0)
    OBVIOUS
  <2>3. Squares(n, -a, a, b, n) >= 0 * ((n * 0 + (-a)) * (n * 0 + (-a)))
    BY <2>1, <2>2, SquaresTogether DEF n, a, b
  <2>4. QED
    BY <1>2, <2>3
<1>6. n * v >= 0
  <2>1. n * v = Squares(n, -a, a, b, n)
    BY <1>2 DEF Squares
  <2>2. QED
    BY <1>5, <2>1
<1>7. v >= 0
  <2>1. CASE n = 0
    BY <1>2, <1>3, <2>1
  <2>2. CASE n # 0
    <3> HIDE DEF v
    <3>1. QED
      BY <1>2, <1>4, <1>6, <2>2
  <2>3. QED
    BY <2>1, <2>2
<1>. QED
  BY <1>4, <1>7 DEF Detector!Spread, n, a, b

------------------------------------------------------------------------------
(* The z-score *)

\* k is the floor of d / sqrt(v), as far as -9 .. 11 go.
Floors(d, v, k) ==
  /\ k \in -9 .. 11
  /\ Detector!AtLeast(d, v, k) \/ k = -9
  /\ k = 11 \/ ~Detector!AtLeast(d, v, k + 1)

LEMMA FloorExists ==
  ASSUME NEW d, NEW v
  PROVE  \E k : Floors(d, v, k)
<1> DEFINE Past == {m \in Nat : m = 20 \/ ~Detector!AtLeast(d, v, m - 8)}
<1>1. PICK m \in Past : \A o \in Past : m <= o
  <2>1. Past \in SUBSET Nat /\ 20 \in Past
    OBVIOUS
  <2> HIDE DEF Past
  <2>2. QED
    BY <2>1, LeastOf
<1>2. m \in Nat /\ m <= 20
  BY <1>1
<1> DEFINE k == m - 9
<1>3. k \in -9 .. 11 /\ k + 1 = m - 8 /\ m = 20 => k = 11
  BY <1>2
<1>4. k \in -9 .. 11 /\ k + 1 = m - 8
  BY <1>2
<1>5. k = 11 \/ ~Detector!AtLeast(d, v, k + 1)
  BY <1>1, <1>2, <1>4
<1>6. Detector!AtLeast(d, v, k) \/ k = -9
  <2>1. CASE m = 0
    BY <2>1
  <2>2. CASE m # 0
    <3>1. m - 1 \in Nat /\ m - 1 \notin Past /\ (m - 1) - 8 = k
      BY <1>1, <1>2, <2>2
    <3>2. QED
      BY <3>1
  <2>3. QED
    BY <2>1, <2>2
<1>7. Floors(d, v, k)
  BY <1>4, <1>5, <1>6 DEF Floors
<1>. QED
  BY <1>7

LEMMA SquareOrder ==
  ASSUME NEW j \in Int, NEW k \in Int, NEW v \in Int,
         (0 <= j /\ j <= k) \/ (k <= j /\ j <= 0), v >= 0
  PROVE  j * j * v <= k * k * v
<1>1. j * j <= k * k
  <2>1. CASE 0 <= j /\ j <= k
    BY <2>1
  <2>2. CASE k <= j /\ j <= 0
    <3>1. -j \in Nat /\ -k \in Nat /\ -j <= -k /\ (-j) * (-j) = j * j /\ (-k) * (-k) = k * k
      BY <2>2
    <3>2. QED
      BY <3>1, SquaresGrow
  <2>3. QED
    BY <2>1, <2>2
<1>2. j * j \in Int /\ k * k \in Int /\ v \in Nat
  OBVIOUS
<1>. QED
  BY <1>1, <1>2, ProductsGrow

\* What is at least k deviations away is at least fewer.
LEMMA FewerDeviations ==
  ASSUME NEW d \in Int, NEW v \in Nat, NEW k \in Int, NEW j \in Int, j <= k,
         Detector!AtLeast(d, v, k)
  PROVE  Detector!AtLeast(d, v, j)
<1>1. d * d \in Nat
  BY SquareIsNatural
<1>2. CASE j >= 0
  <2>1. j * j * v <= k * k * v /\ k >= 0 /\ d >= 0 /\ k * k * v <= d * d
    BY <1>2, SquareOrder DEF Detector!AtLeast
  <2>2. j * j * v \in Int /\ k * k * v \in Int
    OBVIOUS
  <2>3. j * j * v <= d * d
    BY <1>1, <2>1, <2>2
  <2>4. QED
    BY <1>2, <2>1, <2>3 DEF Detector!AtLeast
<1>3. CASE j < 0 /\ d >= 0
  BY <1>3 DEF Detector!AtLeast
<1>4. CASE j < 0 /\ d < 0
  <2>1. k < 0 /\ d * d <= k * k * v
    BY <1>4 DEF Detector!AtLeast
  <2>2. k * k * v <= j * j * v
    BY <1>4, <2>1, SquareOrder
  <2>3. j * j * v \in Int /\ k * k * v \in Int
    OBVIOUS
  <2>4. d * d <= j * j * v
    BY <1>1, <2>1, <2>2, <2>3
  <2>5. QED
    BY <1>4, <2>4 DEF Detector!AtLeast
<1>. QED
  BY <1>2, <1>3, <1>4

\* Who is further away is so by as many deviations at least.
LEMMA FurtherAway ==
  ASSUME NEW d \in Int, NEW e \in Int, d <= e, NEW v \in Nat, NEW k \in Int,
         Detector!AtLeast(d, v, k)
  PROVE  Detector!AtLeast(e, v, k)
<1>1. k * k * v \in Int /\ d * d \in Int /\ e * e \in Int
  OBVIOUS
<1>2. CASE d >= 0
  <2>1. d * d <= e * e
    BY <1>2, SquaresGrow
  <2>2. QED
    BY <1>1, <1>2, <2>1 DEF Detector!AtLeast
<1>3. CASE d < 0 /\ e >= 0
  BY <1>3 DEF Detector!AtLeast
<1>4. CASE d < 0 /\ e < 0
  <2>1. -d \in Nat /\ -e \in Nat /\ -e <= -d /\ (-d) * (-d) = d * d /\ (-e) * (-e) = e * e
    BY <1>4
  <2>2. e * e <= d * d
    BY <2>1, SquaresGrow
  <2>3. QED
    BY <1>1, <1>4, <2>2 DEF Detector!AtLeast
<1>. QED
  BY <1>2, <1>3, <1>4

LEMMA FloorsGrow ==
  ASSUME NEW d \in Int, NEW e \in Int, d <= e, NEW v \in Nat,
         NEW j, Floors(d, v, j), NEW k, Floors(e, v, k)
  PROVE  j <= k
<1> SUFFICES ASSUME k < j PROVE FALSE
  BY DEF Floors
<1>1. j \in -9 .. 11 /\ k \in -9 .. 11 /\ k # 11 /\ j # -9 /\ k + 1 <= j
  BY DEF Floors
<1>2. Detector!AtLeast(d, v, j) /\ ~Detector!AtLeast(e, v, k + 1)
  BY <1>1 DEF Floors
<1>3. j \in Int /\ k + 1 \in Int
  BY <1>1
<1>4. Detector!AtLeast(e, v, j)
  BY <1>2, <1>3, FurtherAway
<1>5. Detector!AtLeast(e, v, k + 1)
  BY <1>1, <1>3, <1>4, FewerDeviations
<1>. QED
  BY <1>2, <1>5

\* The two numbers around a z-score.
ZNumbers(h, c, k) ==
  /\ Floors(Detector!Distance(h, c), Detector!Spread(h), k)
  /\ Detector!ZScore(h, c)
       = IF Len(h) < MinHistory THEN <<0, 0>>
         ELSE IF Detector!Spread(h) = 0
              THEN IF Detector!Distance(h, c) > 0 THEN <<5, 5>> ELSE <<0, 0>>
              ELSE <<k, IF k * k * Detector!Spread(h) = Detector!Distance(h, c) * Detector!Distance(h, c)
                        THEN k ELSE k + 1>>

LEMMA ZScoreIs ==
  ASSUME NEW h, NEW c
  PROVE  \E k : ZNumbers(h, c, k)
<1> DEFINE d == Detector!Distance(h, c)
           v == Detector!Spread(h)
           k == CHOOSE o \in -9 .. 11 : /\ Detector!AtLeast(d, v, o) \/ o = -9
                                        /\ o = 11 \/ ~Detector!AtLeast(d, v, o + 1)
<1>1. Floors(d, v, k)
  <2>1. PICK o : Floors(d, v, o)
    BY FloorExists
  <2> HIDE DEF d, v
  <2>2. QED
    BY <2>1 DEF Floors
<1>2. ZNumbers(h, c, k)
  BY <1>1 DEF ZNumbers, Detector!ZScore
<1>. QED
  BY <1>2

LEMMA DistanceIs ==
  ASSUME NEW h \in Seq(Nat), NEW c \in Nat, NEW e \in Nat, c <= e
  PROVE  /\ Detector!Distance(h, c) \in Int /\ Detector!Distance(h, e) \in Int
         /\ Detector!Distance(h, c) <= Detector!Distance(h, e)
<1>1. Detector!PowerSum(h, 1) \in Nat /\ Len(h) \in Nat
  BY SumsAreNatural
<1>2. Len(h) * c <= Len(h) * e /\ Len(h) * c \in Nat /\ Len(h) * e \in Nat
  BY <1>1, ProductsGrow
<1>. QED
  BY <1>1, <1>2 DEF Detector!Distance

LEMMA ZScoreGrows ==
  ASSUME NEW h \in Seq(Nat), NEW c \in Nat, NEW e \in Nat, c <= e
  PROVE  /\ Detector!ZScore(h, c)[1] \in Int /\ Detector!ZScore(h, c)[2] \in Int
         /\ Detector!ZScore(h, c)[1] <= Detector!ZScore(h, c)[2]
         /\ Detector!ZScore(h, c)[1] <= Detector!ZScore(h, e)[1]
<1>1. PICK j : ZNumbers(h, c, j)
  BY ZScoreIs
<1>2. PICK k : ZNumbers(h, e, k)
  BY ZScoreIs
<1>3. /\ Detector!Distance(h, c) \in Int /\ Detector!Distance(h, e) \in Int
      /\ Detector!Distance(h, c) <= Detector!Distance(h, e)
  BY DistanceIs
<1>4. Detector!Spread(h) \in Nat
  BY SpreadIsNatural
<1>5. j <= k /\ j \in Int /\ k \in Int
  <2>1. /\ Floors(Detector!Distance(h, c), Detector!Spread(h), j)
        /\ Floors(Detector!Distance(h, e), Detector!Spread(h), k)
    BY <1>1, <1>2 DEF ZNumbers
  <2>2. j <= k
    BY <1>3, <1>4, <2>1, FloorsGrow
  <2>3. QED
    BY <2>1, <2>2 DEF Floors
<1>. QED
  BY <1>1, <1>2, <1>3, <1>4, <1>5 DEF ZNumbers

\* No history of larger counts has a positive z-score.
LEMMA ZScoreQuiet ==
  ASSUME NEW h \in Seq(Nat), NEW c \in Nat, \A i \in DOMAIN h : h[i] >= c
  PROVE  Detector!ZScore(h, c)[2] <= 0
<1> DEFINE d == Detector!Distance(h, c)
           v == Detector!Spread(h)
<1>1. PICK k : ZNumbers(h, c, k)
  BY ZScoreIs
<1>2. v \in Nat
  BY SpreadIsNatural
<1>3. d \in Int /\ d <= 0
  <2>1. Detector!PowerSum(h, 1) >= Len(h) * c /\ Detector!PowerSum(h, 1) \in Nat
    BY SumAtLeast, SumsAreNatural
  <2>2. Len(h) * c \in Nat
    OBVIOUS
  <2>3. QED
    BY <2>1, <2>2 DEF Detector!Distance
<1>4. Floors(d, v, k)
  BY <1>1 DEF ZNumbers
<1> HIDE DEF d, v
<1>5. k \in Int /\ (v # 0 => IF k * k * v = d * d THEN k <= 0 ELSE k + 1 <= 0)
  <2>1. k \in -9 .. 11 /\ (Detector!AtLeast(d, v, k) \/ k = -9)
    BY <1>4 DEF Floors
  <2>2. k >= 0 => d = 0 /\ k * k * v <= 0
    BY <1>3, <2>1 DEF Detector!AtLeast
  <2>3. v # 0 /\ k >= 0 => k = 0
    <3> SUFFICES ASSUME v # 0, k >= 0, k # 0 PROVE FALSE
      OBVIOUS
    <3>1. k * k >= 1 /\ k * k \in Nat
      BY <2>1
    <3>2. 1 * v <= k * k * v
      BY <1>2, <3>1, ProductsGrow
    <3>3. k * k * v <= 0 /\ k * k * v \in Int
      BY <1>2, <2>1, <2>2
    <3>4. QED
      BY <1>2, <3>2, <3>3
  <2>4. k = 0 => k * k * v = 0
    BY <1>2
  <2>5. QED
    BY <1>2, <1>3, <2>1, <2>2, <2>3, <2>4
<1>. QED
  BY <1>1, <1>3, <1>5 DEF ZNumbers, d, v

------------------------------------------------------------------------------
(* The moving average and the ensemble *)

LEMMA Quotient ==
  ASSUME NEW a \in Int, NEW e \in Nat \ {0}
  PROVE  /\ a \div e \in Int
         /\ (a \div e) * e <= a /\ a < (a \div e) * e + e
OBVIOUS

\* The quotient q is the only multiple that low.
LEMMA QuotientAtLeast ==
  ASSUME NEW a \in Int, NEW e \in Nat \ {0}, NEW q \in Int, q * e <= a
  PROVE  q <= a \div e
<1> DEFINE r == a \div e
<1>1. r \in Int /\ a < r * e + e
  BY Quotient
<1> HIDE DEF r
<1>2. q * e < (r + 1) * e /\ q * e \in Int /\ (r + 1) * e \in Int
  <2>1. r * e + e = (r + 1) * e /\ r * e \in Int /\ q * e \in Int
    BY <1>1
  <2>2. QED
    BY <1>1, <2>1
<1>3. q < r + 1
  <2> SUFFICES ASSUME r + 1 <= q PROVE FALSE
    BY <1>1
  <2>1. (r + 1) * e <= q * e
    BY <1>1, ProductsGrow
  <2>2. QED
    BY <1>2, <2>1
<1>. QED
  BY <1>1, <1>3 DEF r

LEMMA QuotientsGrow ==
  ASSUME NEW a \in Int, NEW b \in Int, NEW e \in Nat \ {0}, a <= b
  PROVE  a \div e <= b \div e
<1> DEFINE q == a \div e
<1>1. q \in Int /\ q * e <= a
  BY Quotient
<1> HIDE DEF q
<1>2. q * e <= b
  <2>1. q * e \in Int
    BY <1>1
  <2>2. QED
    BY <1>1, <2>1
<1>. QED
  BY <1>1, <1>2, QuotientAtLeast DEF q

\* Larger counts are larger in the units of the average.
InUnits(a, b) ==
  CountUnit * a \in Nat /\ CountUnit * b \in Nat /\ CountUnit * a <= CountUnit * b

LEMMA UnitsGrow ==
  ASSUME CountUnit \in Nat \ {0}, NEW a \in Nat, NEW b \in Nat, a <= b
  PROVE  InUnits(a, b)
<1>1. CountUnit * a <= CountUnit * b
  BY ProductsGrow
<1>. QED
  BY <1>1 DEF InUnits

LEMMA SmoothedIs ==
  ASSUME NEW e, e = Detector!NoBaseline \/ e \in Nat, NEW c \in Nat, NEW inverse \in Nat \ {0},
         CountUnit \in Nat \ {0}
  PROVE  /\ Detector!Smoothed(e, c, inverse) \in Nat
         /\ \A l \in Nat : l <= c /\ (e \in Nat => e >= CountUnit * l)
                             => Detector!Smoothed(e, c, inverse) >= CountUnit * l
<1>1. CASE e = Detector!NoBaseline
  <2>1. Detector!Smoothed(e, c, inverse) = CountUnit * c /\ CountUnit * c \in Nat
    BY <1>1 DEF Detector!Smoothed
  <2>2. \A l \in Nat : l <= c => CountUnit * l <= CountUnit * c
    BY ProductsGrow
  <2>3. \A l \in Nat : CountUnit * l \in Nat
    OBVIOUS
  <2>4. QED
    BY <2>1, <2>2, <2>3
<1>2. CASE e # Detector!NoBaseline
  <2> DEFINE a == CountUnit * c + (inverse - 1) * e
  <2>1. e \in Nat /\ Detector!Smoothed(e, c, inverse) = a \div inverse
    BY <1>2 DEF Detector!Smoothed
  <2>2. a \in Nat
    <3>1. CountUnit * c \in Nat /\ inverse - 1 \in Nat /\ (inverse - 1) * e \in Nat
      BY <2>1
    <3>2. QED
      BY <3>1
  <2>3. ASSUME NEW l \in Nat, l <= c, e >= CountUnit * l
        PROVE  a \div inverse >= CountUnit * l
    <3> DEFINE u == CountUnit * l
    <3>1. u \in Nat /\ u <= CountUnit * c /\ e >= u
      BY <2>3, ProductsGrow
    <3> HIDE DEF u
    <3>2. inverse - 1 \in Nat /\ CountUnit * c \in Nat
      OBVIOUS
    <3>3. (inverse - 1) * u <= (inverse - 1) * e
      BY <2>1, <3>1, <3>2, ProductsGrow
    <3>4. u * inverse = u + (inverse - 1) * u
      BY <3>1
    <3>5. (inverse - 1) * u \in Nat /\ (inverse - 1) * e \in Nat
      BY <2>1, <3>1, <3>2
    <3>6. u * inverse <= a
      BY <3>1, <3>2, <3>3, <3>4, <3>5
    <3> HIDE DEF a
    <3>7. u <= a \div inverse /\ a \div inverse \in Int
      BY <2>2, <3>1, <3>6, QuotientAtLeast, Quotient
    <3>8. QED
      BY <3>1, <3>7 DEF u
  <2>4. a \div inverse \in Nat
    <3> HIDE DEF a
    <3>1. 0 * inverse <= a
      BY <2>2
    <3>2. 0 <= a \div inverse /\ a \div inverse \in Int
      BY <2>2, <3>1, QuotientAtLeast, Quotient
    <3>3. QED
      BY <3>2
  <2>5. QED
    BY <2>1, <2>3, <2>4
<1>. QED
  BY <1>1, <1>2

LEMMA ResidualGrows ==
  ASSUME NEW e, e = Detector!NoBaseline \/ e \in Nat, NEW c \in Nat, NEW d \in Nat, c <= d,
         CountUnit \in Nat \ {0}
  PROVE  /\ Detector!Residual(e, c)[1] \in Int /\ Detector!Residual(e, c)[2] \in Int
         /\ Detector!Residual(e, c)[1] <= Detector!Residual(e, c)[2]
         /\ Detector!Residual(e, c)[1] <= Detector!Residual(e, d)[1]
<1>1. CASE e <= 0
  BY <1>1 DEF Detector!Residual
<1>2. CASE ~(e <= 0)
  <2>1. e \in Nat \ {0}
    BY <1>2 DEF Detector!NoBaseline
  <2> DEFINE a == CountUnit * c - e
             b == CountUnit * d - e
  <2>2. a \in Int /\ b \in Int /\ a <= b
    <3>1. CountUnit * c <= CountUnit * d /\ CountUnit * c \in Nat /\ CountUnit * d \in Nat
      BY ProductsGrow
    <3>2. QED
      BY <2>1, <3>1
  <2>3. /\ Detector!Residual(e, c) = Detector!Around(a, e)
        /\ Detector!Residual(e, d) = Detector!Around(b, e)
    BY <1>2 DEF Detector!Residual
  <2> HIDE DEF a, b
  <2>4. a \div e \in Int /\ a \div e <= b \div e
    BY <2>1, <2>2, Quotient, QuotientsGrow
  <2>5. QED
    BY <2>3, <2>4 DEF Detector!Around
<1>. QED
  BY <1>1, <1>2

LEMMA ResidualQuiet ==
  ASSUME NEW e, e = Detector!NoBaseline \/ e \in Nat, NEW c \in Nat, CountUnit \in Nat \ {0},
         e \in Nat => e >= CountUnit * c
  PROVE  Detector!Residual(e, c)[2] <= 0
<1>1. CASE e <= 0
  BY <1>1 DEF Detector!Residual
<1>2. CASE ~(e <= 0)
  <2>1. e \in Nat \ {0}
    BY <1>2 DEF Detector!NoBaseline
  <2> DEFINE a == CountUnit * c - e
             q == a \div e
  <2>2. a \in Int /\ a <= 0
    <3>1. CountUnit * c \in Nat /\ e >= CountUnit * c
      BY <2>1
    <3>2. QED
      BY <2>1, <3>1
  <2>3. Detector!Residual(e, c) = <<q, IF q * e = a THEN q ELSE q + 1>>
    BY <1>2 DEF Detector!Residual, Detector!Around
  <2> HIDE DEF a
  <2>4. q \in Int /\ q * e <= a
    BY <2>1, <2>2, Quotient
  <2> HIDE DEF q
  <2>5. q <= 0
    <3> SUFFICES ASSUME q >= 1 PROVE FALSE
      BY <2>4
    <3>1. 1 * e <= q * e /\ q * e \in Int
      BY <2>1, <2>4, ProductsGrow
    <3>2. QED
      BY <2>1, <2>2, <2>4, <3>1
  <2>6. q = 0 => q * e = a
    <3> SUFFICES ASSUME q = 0 PROVE 0 = a
      BY <2>1
    <3>1. 0 * e <= a
      BY <2>4
    <3>2. QED
      BY <2>1, <2>2, <3>1
  <2>7. QED
    BY <2>3, <2>4, <2>5, <2>6
<1>. QED
  BY <1>1, <1>2

\* The table of the sigmoid.
LEMMA SigmoidTable ==
  \A z \in Int :
    Detector!Sigmoid(z)
      = IF z < -7 THEN 0 ELSE IF z = -7 THEN 1 ELSE IF z = -6 THEN 2 ELSE IF z = -5 THEN 7
        ELSE IF z = -4 THEN 18 ELSE IF z = -3 THEN 47 ELSE IF z = -2 THEN 119
        ELSE IF z = -1 THEN 269 ELSE IF z = 0 THEN 500 ELSE IF z = 1 THEN 731
        ELSE IF z = 2 THEN 881 ELSE IF z = 3 THEN 953 ELSE IF z = 4 THEN 982
        ELSE IF z = 5 THEN 993 ELSE IF z = 6 THEN 998 ELSE IF z = 7 THEN 999 ELSE 1000
BY DEF Detector!Sigmoid

\* What a logistic of an integer lies in, in thousandths.
Score(v) == v \in 0 .. 1000

LEMMA SigmoidIs ==
  ASSUME NEW x \in Int
  PROVE  Score(Detector!Sigmoid(x))
BY SigmoidTable DEF Score

LEMMA SigmoidLow ==
  ASSUME NEW x \in Int
  PROVE  /\ x <= -3 => Detector!Sigmoid(x) <= 47
         /\ x <= -2 => Detector!Sigmoid(x) <= 119
BY SigmoidTable

LEMMA SigmoidGrows ==
  ASSUME NEW x \in Int, NEW y \in Int, x <= y
  PROVE  Detector!Sigmoid(x) <= Detector!Sigmoid(y)
BY SigmoidTable

\* Scores grow with the norms of their parts; the least ones, with nothing from
\* the learning detectors, fall when those are trained.
Growing(n, m, z, y, e, d, loda, hst) ==
  /\ Detector!Combined(n, z, e, 0, 0) \in Int
  /\ Detector!Combined(n, z, e, loda, hst) \in Int
  /\ Detector!Combined(n, z, e, 0, 0) <= Detector!Combined(n, y, d, loda, hst)
  /\ m >= LodaWarmup /\ m >= HstWindow =>
       Detector!Combined(m, z, e, 0, 0) <= Detector!Combined(n, z, e, 0, 0)

LEMMA ScoresGrow ==
  ASSUME NEW n \in Nat, NEW m \in Nat, NEW z \in Int, NEW y \in Int,
         NEW e \in Int, NEW d \in Int, NEW loda \in Nat, NEW hst \in Nat,
         z <= y, e <= d, LodaWarmup \in Nat, HstWindow \in Nat
  PROVE  Growing(n, m, z, y, e, d, loda, hst)
<1> DEFINE za == z - 3
           zb == y - 3
           ef == e - 2
           eg == d - 2
<1>1. za \in Int /\ zb \in Int /\ za <= zb /\ ef \in Int /\ eg \in Int /\ ef <= eg
  OBVIOUS
<1> DEFINE a == Detector!Sigmoid(za)
           b == Detector!Sigmoid(zb)
           f == Detector!Sigmoid(ef)
           g == Detector!Sigmoid(eg)
<1>2. a \in 0 .. 1000 /\ b \in 0 .. 1000 /\ a <= b /\ f \in 0 .. 1000 /\ g \in 0 .. 1000 /\ f <= g
  <2> HIDE DEF za, zb, ef, eg
  <2>1. a \in 0 .. 1000 /\ b \in 0 .. 1000 /\ f \in 0 .. 1000 /\ g \in 0 .. 1000
    <3>1. Score(a)
      BY <1>1, SigmoidIs
    <3>2. Score(b)
      BY <1>1, SigmoidIs
    <3>3. Score(f)
      BY <1>1, SigmoidIs
    <3>4. Score(g)
      BY <1>1, SigmoidIs
    <3>5. QED
      BY <3>1, <3>2, <3>3, <3>4 DEF Score
  <2>2. a <= b
    BY <1>1, SigmoidGrows
  <2>3. f <= g
    BY <1>1, SigmoidGrows
  <2>4. QED
    BY <2>1, <2>2, <2>3
<1> DEFINE wl == IF n >= LodaWarmup THEN 150 ELSE 0
           wh == IF n >= HstWindow THEN 150 ELSE 0
<1>3. /\ Detector!Combined(n, z, e, 0, 0) = (wl * 0 + wh * 0 + 400 * a + 300 * f) \div (wl + wh + 400 + 300)
      /\ Detector!Combined(n, z, e, loda, hst)
           = (wl * loda + wh * hst + 400 * a + 300 * f) \div (wl + wh + 400 + 300)
      /\ Detector!Combined(n, y, d, loda, hst)
           = (wl * loda + wh * hst + 400 * b + 300 * g) \div (wl + wh + 400 + 300)
      /\ m >= LodaWarmup /\ m >= HstWindow =>
           Detector!Combined(m, z, e, 0, 0) = (150 * 0 + 150 * 0 + 400 * a + 300 * f) \div (150 + 150 + 400 + 300)
  BY DEF Detector!Combined, Detector!DefaultWeights
<1> HIDE DEF a, b, f, g
<1> DEFINE low == 400 * a + 300 * f
           high == wl * loda + wh * hst + 400 * b + 300 * g
           mid == wl * loda + wh * hst + 400 * a + 300 * f
           w == wl + wh + 700
<1>4. wl \in {0, 150} /\ wh \in {0, 150}
  OBVIOUS
<1>5. w \in {700, 850, 1000} /\ wl + wh + 400 + 300 = w
  BY <1>4
<1>6. low \in Nat /\ mid \in Nat /\ high \in Nat /\ low <= high
  <2>1. wl * loda \in Nat /\ wh * hst \in Nat
    BY <1>4
  <2>2. QED
    BY <1>2, <2>1
<1>7. /\ wl * 0 + wh * 0 + 400 * a + 300 * f = low
      /\ 150 * 0 + 150 * 0 + 400 * a + 300 * f = low /\ 150 + 150 + 400 + 300 = 1000
  BY <1>2, <1>4
<1>8. /\ Detector!Combined(n, z, e, 0, 0) = low \div w
      /\ Detector!Combined(n, z, e, loda, hst) = mid \div w
      /\ Detector!Combined(n, y, d, loda, hst) = high \div w
      /\ m >= LodaWarmup /\ m >= HstWindow => Detector!Combined(m, z, e, 0, 0) = low \div 1000
  <2> HIDE DEF wl, wh
  <2>1. QED
    BY <1>3, <1>5, <1>7
<1> HIDE DEF w, low, mid, high
<1>9. w \in Nat \ {0} /\ w <= 1000
  BY <1>5
<1>10. low \div w \in Int /\ mid \div w \in Int /\ low \div w <= high \div w
  BY <1>6, <1>9, Quotient, QuotientsGrow
<1>11. low \div 1000 <= low \div w
  <2> DEFINE q == low \div 1000
  <2>1. q \in Int /\ q * 1000 <= low /\ low < q * 1000 + 1000
    BY <1>6, Quotient
  <2> HIDE DEF q
  <2>2. q >= 0
    BY <1>6, <2>1
  <2>3. q * w <= q * 1000 /\ q * w \in Int
    BY <1>9, <2>1, <2>2, ProductsGrow
  <2>4. q * w <= low
    BY <1>6, <2>1, <2>3
  <2>5. q <= low \div w
    BY <1>6, <1>9, <2>1, <2>4, QuotientAtLeast
  <2>6. QED
    BY <2>5 DEF q
<1>. QED
  BY <1>8, <1>10, <1>11 DEF Growing

\* A count below all the others leaves 354 to the learning detectors.
LEMMA QuietScore ==
  ASSUME NEW n \in Nat, NEW z \in Int, z <= 0, NEW e \in Int, e <= 0,
         LodaWarmup \in Nat, HstWindow \in Nat
  PROVE  Detector!Combined(n, z, e, 1000, 1000) <= 354
<1> DEFINE a == Detector!Sigmoid(z - 3)
           f == Detector!Sigmoid(e - 2)
           wl == IF n >= LodaWarmup THEN 150 ELSE 0
           wh == IF n >= HstWindow THEN 150 ELSE 0
<1>1. a \in 0 .. 47 /\ f \in 0 .. 119
  <2> DEFINE za == z - 3
             ef == e - 2
  <2>1. za \in Int /\ za <= -3 /\ ef \in Int /\ ef <= -2
    OBVIOUS
  <2> HIDE DEF za, ef
  <2>2. Detector!Sigmoid(za) \in 0 .. 1000 /\ Detector!Sigmoid(za) <= 47
    <3>1. Score(Detector!Sigmoid(za))
      BY <2>1, SigmoidIs
    <3>2. QED
      BY <2>1, <3>1, SigmoidLow DEF Score
  <2>3. Detector!Sigmoid(ef) \in 0 .. 1000 /\ Detector!Sigmoid(ef) <= 119
    <3>1. Score(Detector!Sigmoid(ef))
      BY <2>1, SigmoidIs
    <3>2. QED
      BY <2>1, <3>1, SigmoidLow DEF Score
  <2>4. Detector!Sigmoid(za) = a /\ Detector!Sigmoid(ef) = f
    BY DEF za, ef
  <2> HIDE DEF a, f
  <2>5. QED
    BY <2>2, <2>3, <2>4
<1>2. Detector!Combined(n, z, e, 1000, 1000)
        = (wl * 1000 + wh * 1000 + 400 * a + 300 * f) \div (wl + wh + 400 + 300)
  BY DEF Detector!Combined, Detector!DefaultWeights
<1> HIDE DEF a, f
<1>3. wl \in {0, 150} /\ wh \in {0, 150}
  OBVIOUS
<1> HIDE DEF wl, wh
<1> DEFINE x == wl * 1000 + wh * 1000 + 400 * a + 300 * f
           w == wl + wh + 400 + 300
<1>4. w \in Nat \ {0} /\ x \in Int /\ x < 355 * w
  BY <1>1, <1>3
<1> HIDE DEF x, w
<1>5. x \div w \in Int /\ (x \div w) * w <= x
  BY <1>4, Quotient
<1>6. x \div w < 355
  <2> DEFINE q == x \div w
  <2>1. q \in Int /\ q * w <= x
    BY <1>5
  <2> HIDE DEF q
  <2>2. SUFFICES ASSUME 355 <= q PROVE FALSE
    BY <2>1 DEF q
  <2>3. 355 * w <= q * w /\ q * w \in Int /\ 355 * w \in Int
    BY <1>4, <2>1, <2>2, ProductsGrow
  <2>4. QED
    BY <1>4, <2>1, <2>3
<1>. QED
  BY <1>2, <1>5, <1>6 DEF x, w

------------------------------------------------------------------------------
(* The invariant of the detectors *)

Measured ==
  /\ zHistory \in Seq(Nat) /\ samples \in Nat /\ last \in Int
  /\ ewma = Detector!NoBaseline \/ ewma \in Nat
  /\ current \in Nat /\ least \in Nat
  /\ level = Detector!NoLevel \/ level \in Nat

\* The ensemble's baselines have seen nothing below the least count.
Calm ==
  kind = "ensemble" => /\ \A i \in DOMAIN zHistory : zHistory[i] >= least
                       /\ ewma \in Nat => ewma >= CountUnit * least

\* A flood that lasts has frozen baselines, with which it scores high enough.
Frozen ==
  level # Detector!NoLevel =>
    /\ kind = "ensemble" /\ attack /\ last > Threshold
    /\ Detector!LeastScore(Detector!MaxSamples, zHistory, ewma, level) > Threshold

LEMMA ScoresOf ==
  ASSUME Detector!DetectorsAssumption, NEW h \in Seq(Nat),
         NEW e, e = Detector!NoBaseline \/ e \in Nat,
         NEW n \in Nat, NEW c \in Nat, NEW d \in Nat, c <= d
  PROVE  /\ Detector!LeastScore(n, h, e, c) \in Int /\ Detector!LargestScore(n, h, e, c) \in Int
         /\ Detector!LeastScore(n, h, e, c) <= Detector!LargestScore(n, h, e, c)
         /\ Detector!LeastScore(n, h, e, c) <= Detector!LeastScore(n, h, e, d)
         /\ Detector!LeastScore(Detector!MaxSamples, h, e, c) <= Detector!LeastScore(n, h, e, c)
<1> DEFINE z == Detector!ZScore(h, c)
           r == Detector!Residual(e, c)
           y == Detector!ZScore(h, d)
           q == Detector!Residual(e, d)
           m == Detector!MaxSamples
<1>1. /\ LodaWarmup \in Nat /\ HstWindow \in Nat /\ CountUnit \in Nat \ {0}
      /\ m \in Nat /\ m >= LodaWarmup /\ m >= HstWindow
  BY DEF Detector!DetectorsAssumption, Detector!MaxSamples
<1>2. z[1] \in Int /\ z[2] \in Int /\ z[1] <= z[2] /\ z[1] <= y[1] /\ y[1] \in Int
  <2>1. d <= d
    OBVIOUS
  <2>2. y[1] \in Int
    BY <2>1, ZScoreGrows
  <2>3. QED
    BY <2>2, ZScoreGrows
<1>3. r[1] \in Int /\ r[2] \in Int /\ r[1] <= r[2] /\ r[1] <= q[1] /\ q[1] \in Int
  <2>1. d <= d
    OBVIOUS
  <2>2. q[1] \in Int
    BY <1>1, <2>1, ResidualGrows
  <2>3. QED
    BY <1>1, <2>2, ResidualGrows
<1>4. /\ Detector!LeastScore(n, h, e, c) = Detector!Combined(n, z[1], r[1], 0, 0)
      /\ Detector!LeastScore(n, h, e, d) = Detector!Combined(n, y[1], q[1], 0, 0)
      /\ Detector!LeastScore(m, h, e, c) = Detector!Combined(m, z[1], r[1], 0, 0)
      /\ Detector!LargestScore(n, h, e, c) = Detector!Combined(n, z[2], r[2], 1000, 1000)
  BY DEF Detector!LeastScore, Detector!LargestScore
<1> HIDE DEF z, r, y, q, m
<1>5. ASSUME NEW a \in Int, NEW b \in Int, NEW f \in Int, NEW g \in Int, NEW x \in Nat,
             a <= b, f <= g
      PROVE  Growing(n, m, a, b, f, g, x, x)
  <2>1. n \in Nat /\ m \in Nat /\ LodaWarmup \in Nat /\ HstWindow \in Nat
    BY <1>1
  <2>2. a \in Int /\ b \in Int /\ f \in Int /\ g \in Int /\ x \in Nat /\ a <= b /\ f <= g
    BY <1>5
  <2>3. QED
    BY <2>1, <2>2, ScoresGrow
<1>6. Growing(n, m, z[1], z[2], r[1], r[2], 1000, 1000)
  <2>1. z[1] \in Int /\ z[2] \in Int /\ r[1] \in Int /\ r[2] \in Int /\ 1000 \in Nat
    BY <1>2, <1>3
  <2>2. z[1] <= z[2] /\ r[1] <= r[2]
    BY <1>2, <1>3
  <2>3. QED
    BY <2>1, <2>2, <1>5
<1>7. Growing(n, m, z[1], y[1], r[1], q[1], 0, 0)
  BY <1>2, <1>3, <1>5
<1>8. Growing(n, m, z[2], z[2], r[2], r[2], 1000, 1000)
  <2>1. z[2] <= z[2] /\ r[2] <= r[2]
    BY <1>2, <1>3
  <2>2. QED
    BY <1>2, <1>3, <1>5, <2>1
<1>. QED
  BY <1>1, <1>4, <1>6, <1>7, <1>8 DEF Growing, m

LEMMA AloneStep ==
  ASSUME Detector!DetectorsAssumption, Measured, Calm, Frozen, NEW c \in Counts,
         Detector!ZScoreCheck(c) \/ Detector!EwmaCheck(c)
  PROVE  Measured' /\ Calm' /\ Frozen' /\ Detector!QuietIsNormal'
<1>1. c \in Nat /\ MaxHistory \in Nat \ {0} /\ AloneInverse \in Nat \ {0} /\ CountUnit \in Nat \ {0}
  BY DEF Detector!DetectorsAssumption
<1>2. kind # "ensemble" /\ UNCHANGED <<kind, last, least, level>> /\ current' = c
  BY DEF Detector!ZScoreCheck, Detector!EwmaCheck, Detector!Alarm
<1>3. zHistory' \in Seq(Nat)
  BY <1>1, HistoryAppended DEF Detector!ZScoreCheck, Detector!EwmaCheck, Measured
<1>4. ewma' = Detector!NoBaseline \/ ewma' \in Nat
  BY <1>1, SmoothedIs DEF Detector!ZScoreCheck, Detector!EwmaCheck, Measured
<1>5. samples' \in Nat
  BY DEF Detector!ZScoreCheck, Detector!EwmaCheck, Measured
<1>6. Measured'
  BY <1>1, <1>2, <1>3, <1>4, <1>5 DEF Measured
<1>7. level = Detector!NoLevel
  BY <1>2 DEF Frozen
<1>. QED
  BY <1>2, <1>6, <1>7 DEF Calm, Frozen, Detector!QuietIsNormal

\* What a check of the ensemble learns, counts and concludes.
Checked(prev, l, h, e, n, low, high) ==
  /\ kind = "ensemble" /\ UNCHANGED kind
  /\ h = IF Detector!Feeds THEN Detector!Appended(zHistory, l) ELSE zHistory
  /\ e = IF Detector!Feeds THEN Detector!Smoothed(ewma, l, AlphaInverse) ELSE ewma
  /\ n = IF samples < Detector!MaxSamples THEN samples + 1 ELSE samples
  /\ low = Detector!LeastScore(n, h, e, prev)
  /\ high = Detector!LargestScore(n, h, e, prev)
  /\ zHistory' = h /\ ewma' = e /\ samples' = n
  /\ last' = low \/ last' = high \/ (last' = Threshold /\ Threshold \in low .. high)
  /\ attack' = (last' > Threshold)
  /\ least' = IF Detector!Feeds /\ l < least THEN l ELSE least
  /\ level' = IF level # Detector!NoLevel /\ prev >= level THEN level
              ELSE IF Detector!LeastScore(Detector!MaxSamples, h, e, prev) > Threshold
                   THEN prev ELSE Detector!NoLevel
  /\ current' = prev

LEMMA CheckedBy ==
  ASSUME NEW prev, NEW cur, Detector!EnsembleCheck(prev, cur)
  PROVE  \E h, e, n, low, high : Checked(prev, Detector!Learnt(prev, cur), h, e, n, low, high)
<1> DEFINE l == Detector!Learnt(prev, cur)
           h == IF Detector!Feeds THEN Detector!Appended(zHistory, l) ELSE zHistory
           e == IF Detector!Feeds THEN Detector!Smoothed(ewma, l, AlphaInverse) ELSE ewma
           n == IF samples < Detector!MaxSamples THEN samples + 1 ELSE samples
           low == Detector!LeastScore(n, h, e, prev)
           high == Detector!LargestScore(n, h, e, prev)
<1>1. /\ kind = "ensemble" /\ UNCHANGED kind
      /\ zHistory' = h /\ ewma' = e /\ samples' = n
      /\ \E t \in {low, high} \cup ({Threshold} \cap low .. high) : last' = t /\ attack' = (t > Threshold)
      /\ least' = IF Detector!Feeds /\ l < least THEN l ELSE least
      /\ level' = IF level # Detector!NoLevel /\ prev >= level THEN level
                  ELSE IF Detector!LeastScore(Detector!MaxSamples, h, e, prev) > Threshold
                       THEN prev ELSE Detector!NoLevel
      /\ current' = prev
  BY Zenon DEF Detector!EnsembleCheck
<1>2. /\ last' = low \/ last' = high \/ (last' = Threshold /\ Threshold \in low .. high)
      /\ attack' = (last' > Threshold)
  <2> HIDE DEF low, high
  <2>1. PICK t \in {low, high} \cup ({Threshold} \cap low .. high) :
          last' = t /\ attack' = (t > Threshold)
    BY <1>1, Zenon
  <2>2. t = low \/ t = high \/ (t = Threshold /\ Threshold \in low .. high)
    OBVIOUS
  <2>3. QED
    BY <2>1, <2>2, Zenon
<1>3. Checked(prev, l, h, e, n, low, high)
  BY <1>1, <1>2, Zenon DEF Checked
<1>. QED
  BY <1>3

LEMMA EnsembleStep ==
  ASSUME Detector!DetectorsAssumption, Measured, Calm, Frozen,
         NEW prev \in Counts, NEW cur \in Counts, Detector!EnsembleCheck(prev, cur)
  PROVE  Measured' /\ Calm' /\ Frozen' /\ (354 <= Threshold => Detector!QuietIsNormal')
<1> DEFINE l == Detector!Learnt(prev, cur)
<1>1. PICK h, e, n, low, high : Checked(prev, l, h, e, n, low, high)
  BY CheckedBy
<1>2. /\ prev \in Nat /\ l \in Nat /\ MaxHistory \in Nat \ {0} /\ AlphaInverse \in Nat \ {0}
      /\ CountUnit \in Nat \ {0} /\ Threshold \in Nat
      /\ LodaWarmup \in Nat /\ HstWindow \in Nat
  BY DEF Detector!DetectorsAssumption, Detector!Learnt
<1> HIDE DEF l
<1>3. h \in Seq(Nat) /\ (e = Detector!NoBaseline \/ e \in Nat)
  BY <1>1, <1>2, HistoryAppended, SmoothedIs DEF Checked, Measured
<1>4. n \in Nat /\ least' \in Nat
  BY <1>1, <1>2 DEF Checked, Measured
<1>5. /\ low \in Int /\ high \in Int /\ low <= high
      /\ Detector!LeastScore(Detector!MaxSamples, h, e, prev) <= low
      /\ Detector!LeastScore(Detector!MaxSamples, h, e, prev) \in Int
  <2>1. prev <= prev /\ Detector!MaxSamples \in Nat
    BY <1>2 DEF Detector!MaxSamples
  <2>2. /\ low \in Int /\ high \in Int /\ low <= high
        /\ Detector!LeastScore(Detector!MaxSamples, h, e, prev) <= low
    BY <1>1, <1>2, <1>3, <1>4, <2>1, ScoresOf DEF Checked
  <2>3. Detector!LeastScore(Detector!MaxSamples, h, e, prev) \in Int
    BY <1>2, <1>3, <2>1, ScoresOf
  <2>4. QED
    BY <2>2, <2>3
<1>6. Measured'
  BY <1>1, <1>2, <1>3, <1>4, <1>5 DEF Checked, Measured
<1>7. Calm'
  <2>1. /\ \A i \in DOMAIN zHistory : zHistory[i] >= least
        /\ ewma \in Nat => ewma >= CountUnit * least
    BY <1>1 DEF Checked, Calm
  <2>2. CASE ~Detector!Feeds
    BY <1>1, <2>1, <2>2 DEF Checked, Calm
  <2>3. CASE Detector!Feeds
    <3>1. /\ least' \in Nat /\ least' <= l /\ least' <= least /\ least \in Nat
      BY <1>1, <1>2, <2>3 DEF Checked, Measured
    <3>2. \A i \in DOMAIN h : h[i] >= least'
      <4>1. h = Detector!Appended(zHistory, l) /\ zHistory \in Seq(Nat)
        BY <1>1, <2>3 DEF Checked, Measured
      <4>2. \A i \in DOMAIN h : h[i] = l \/ \E j \in DOMAIN zHistory : h[i] = zHistory[j]
        BY <1>2, <4>1, HistoryAppended
      <4>3. \A j \in DOMAIN zHistory : zHistory[j] \in Nat /\ zHistory[j] >= least
        BY <2>1, <4>1
      <4>4. QED
        BY <1>2, <3>1, <4>2, <4>3
    <3>3. e \in Nat /\ e >= CountUnit * least'
      <4>1. e = Detector!Smoothed(ewma, l, AlphaInverse)
        BY <1>1, <2>3 DEF Checked
      <4>2. CountUnit * least' <= CountUnit * least /\ CountUnit * least \in Nat /\ CountUnit * least' \in Nat
        <5>1. InUnits(least', least)
          BY <1>2, <3>1, UnitsGrow
        <5>2. QED
          BY <5>1 DEF InUnits
      <4>3. ewma = Detector!NoBaseline \/ ewma \in Nat
        BY DEF Measured
      <4>4. ewma \in Nat => ewma >= CountUnit * least'
        BY <2>1, <4>2
      <4>5. QED
        BY <1>2, <3>1, <4>1, <4>3, <4>4, SmoothedIs
    <3>4. QED
      BY <1>1, <3>2, <3>3 DEF Checked, Calm
  <2>4. QED
    BY <2>2, <2>3
<1>8. Frozen'
  <2> SUFFICES ASSUME level' # Detector!NoLevel
               PROVE  Frozen'
    BY DEF Frozen
  <2>1. CASE level # Detector!NoLevel /\ prev >= level
    <3>1. /\ level' = level /\ level \in Nat /\ level <= prev
          /\ attack /\ last > Threshold /\ last \in Int
          /\ Detector!LeastScore(Detector!MaxSamples, zHistory, ewma, level) > Threshold
      BY <1>1, <1>2, <2>1 DEF Checked, Frozen, Measured
    <3>2. h = zHistory /\ e = ewma
      BY <1>1, <1>2, <3>1 DEF Checked, Detector!Feeds
    <3>3. /\ Detector!LeastScore(Detector!MaxSamples, h, e, level) \in Int
          /\ Detector!LeastScore(Detector!MaxSamples, h, e, level)
               <= Detector!LeastScore(Detector!MaxSamples, h, e, prev)
      <4>1. Detector!MaxSamples \in Nat
        BY <1>2 DEF Detector!MaxSamples
      <4>2. QED
        BY <1>2, <1>3, <3>1, <4>1, ScoresOf
    <3>4. low > Threshold /\ high > Threshold
      BY <1>2, <1>5, <3>1, <3>2, <3>3
    <3>5. last' > Threshold
      BY <1>1, <1>2, <1>5, <3>4 DEF Checked
    <3>6. QED
      BY <1>1, <3>1, <3>2, <3>5 DEF Checked, Frozen
  <2>2. CASE ~(level # Detector!NoLevel /\ prev >= level)
    <3>1. level' = prev /\ Detector!LeastScore(Detector!MaxSamples, h, e, prev) > Threshold
      BY <1>1, <2>2 DEF Checked
    <3>2. low > Threshold /\ high > Threshold
      BY <1>2, <1>5, <3>1
    <3>3. last' > Threshold
      BY <1>1, <1>2, <1>5, <3>2 DEF Checked
    <3>4. QED
      BY <1>1, <3>1, <3>3 DEF Checked, Frozen
  <2>3. QED
    BY <2>1, <2>2
<1>9. ASSUME 354 <= Threshold
      PROVE  Detector!QuietIsNormal'
  <2> SUFFICES ASSUME prev <= least'
               PROVE  ~attack'
    BY <1>1 DEF Checked, Detector!QuietIsNormal
  <2>1. /\ \A i \in DOMAIN h : h[i] \in Nat /\ h[i] >= least'
        /\ e \in Nat => e >= CountUnit * least'
    BY <1>1, <1>3, <1>7 DEF Checked, Calm
  <2>2. \A i \in DOMAIN h : h[i] >= prev
    BY <1>2, <1>4, <2>1
  <2>3. e \in Nat => e >= CountUnit * prev
    <3>1. CountUnit * prev <= CountUnit * least' /\ CountUnit * prev \in Nat /\ CountUnit * least' \in Nat
      <4>1. InUnits(prev, least')
        BY <1>2, <1>4, UnitsGrow
      <4>2. QED
        BY <4>1 DEF InUnits
    <3>2. QED
      BY <2>1, <3>1
  <2>4. Detector!ZScore(h, prev)[2] <= 0 /\ Detector!ZScore(h, prev)[2] \in Int
    <3>1. prev <= prev
      BY <1>2
    <3>2. QED
      BY <1>2, <1>3, <2>2, <3>1, ZScoreQuiet, ZScoreGrows
  <2>5. Detector!Residual(e, prev)[2] <= 0 /\ Detector!Residual(e, prev)[2] \in Int
    <3>1. prev <= prev
      BY <1>2
    <3>2. QED
      BY <1>2, <1>3, <2>3, <3>1, ResidualQuiet, ResidualGrows
  <2>6. high <= 354
    <3>1. high = Detector!Combined(n, Detector!ZScore(h, prev)[2], Detector!Residual(e, prev)[2], 1000, 1000)
      BY <1>1 DEF Checked, Detector!LargestScore
    <3>2. QED
      BY <1>2, <1>4, <2>4, <2>5, <3>1, QuietScore
  <2>7. ~(last' > Threshold)
    BY <1>1, <1>2, <1>5, <1>9, <2>6 DEF Checked
  <2>8. QED
    BY <1>1, <2>7 DEF Checked
<1>. QED
  BY <1>6, <1>7, <1>8, <1>9

LEMMA FirstOf ==
  ASSUME Detector!DetectorsAssumption, Detector!Init
  PROVE  Measured /\ Calm /\ Frozen /\ Detector!QuietIsNormal
<1>1. Detector!LargestCount \in Nat
  BY DEF Detector!DetectorsAssumption, Detector!LargestCount
<1>2. << >> \in Seq(Nat) /\ DOMAIN << >> = {}
  OBVIOUS
<1>3. ~(Detector!NoBaseline \in Nat)
  BY DEF Detector!NoBaseline
<1>. QED
  BY <1>1, <1>2, <1>3 DEF Detector!Init, Measured, Calm, Frozen, Detector!QuietIsNormal

LEMMA DetectorStep ==
  ASSUME Detector!DetectorsAssumption, Measured, Calm, Frozen, [Detector!Next]_Detector!vars
  PROVE  /\ Measured' /\ Calm' /\ Frozen'
         /\ 354 <= Threshold /\ Detector!QuietIsNormal => Detector!QuietIsNormal'
<1>1. CASE \E c \in Counts : Detector!ZScoreCheck(c) \/ Detector!EwmaCheck(c)
  BY <1>1, AloneStep
<1>2. CASE \E prev, cur \in Counts : Detector!EnsembleCheck(prev, cur)
  BY <1>2, EnsembleStep
<1>3. CASE UNCHANGED Detector!vars
  BY <1>3 DEF Detector!vars, Measured, Calm, Frozen, Detector!QuietIsNormal,
              Detector!LeastScore, Detector!ZScore, Detector!Residual
<1>. QED
  BY <1>1, <1>2, <1>3 DEF Detector!Next

\* In an ensemble of any size, for any counts: while an attack that the
\* statistical detectors are sure of does not abate, the baselines stay frozen
\* and every check says attack, whatever the learning detectors make of it.
THEOREM FloodIsHeld == AnySpec => []FloodLasts
<1> DEFINE Inv == part = "detector" => Measured /\ Calm /\ Frozen
<1> USE ComponentsAssumption DEF ComponentsAssumption
<1>1. AnyInit => Inv
  BY FirstOf DEF AnyInit
<1>2. Inv /\ [AnyNext]_anyVars => Inv'
  BY StepOfPart, DetectorStep
<1>3. Inv => FloodLasts
  BY DEF Frozen, FloodLasts, Detector!FloodLasts
<1>. QED
  BY <1>1, <1>2, <1>3, PTL DEF AnySpec

\* With a threshold above what the learning detectors and the sigmoids of a
\* count below the mean can reach together, a window with no more sources than
\* the baselines have ever seen is no attack.
THEOREM QuietStaysNormal == 354 <= Threshold => (AnySpec => []QuietIsNormal)
<1> DEFINE Inv == part = "detector" => Measured /\ Calm /\ Frozen /\ Detector!QuietIsNormal
<1> SUFFICES ASSUME 354 <= Threshold PROVE AnySpec => []QuietIsNormal
  OBVIOUS
<1> USE ComponentsAssumption DEF ComponentsAssumption
<1>1. AnyInit => Inv
  BY FirstOf DEF AnyInit
<1>2. Inv /\ [AnyNext]_anyVars => Inv'
  BY StepOfPart, DetectorStep
<1>3. Inv => QuietIsNormal
  BY DEF QuietIsNormal
<1>. QED
  BY <1>1, <1>2, <1>3, PTL DEF AnySpec

------------------------------------------------------------------------------
(* The z-score alone *)

\* A history keeps its last counts, one place nearer to its beginning.
LEMMA LastAppended ==
  ASSUME NEW s \in Seq(Nat), NEW c \in Nat, NEW m \in 0 .. Len(s),
         MaxHistory \in Nat \ {0}, Len(s) <= MaxHistory, m < MaxHistory,
         \A i \in DOMAIN s : i > Len(s) - m => s[i] >= c
  PROVE  /\ Len(Detector!Appended(s, c)) \in m + 1 .. MaxHistory
         /\ \A i \in DOMAIN Detector!Appended(s, c) :
              i > Len(Detector!Appended(s, c)) - (m + 1) => Detector!Appended(s, c)[i] >= c
<1> DEFINE t == IF Len(s) >= MaxHistory THEN Tail(s) ELSE s
           u == Append(t, c)
<1>1. /\ t \in Seq(Nat) /\ Len(t) \in m .. MaxHistory - 1
      /\ \A i \in 1 .. Len(t) : i > Len(t) - m => t[i] >= c
  <2>1. CASE Len(s) >= MaxHistory
    <3>1. s # << >> /\ Len(s) = MaxHistory
      BY <2>1
    <3>2. /\ Tail(s) \in Seq(Nat) /\ Len(Tail(s)) = Len(s) - 1
          /\ \A i \in 1 .. Len(s) - 1 : Tail(s)[i] = s[i + 1] /\ i + 1 \in DOMAIN s
      BY <3>1
    <3>3. t = Tail(s) /\ Len(t) = MaxHistory - 1 /\ Len(t) = Len(s) - 1
      BY <2>1, <3>1, <3>2
    <3> HIDE DEF t
    <3>4. ASSUME NEW i \in 1 .. Len(t), i > Len(t) - m
          PROVE  t[i] >= c
      <4>1. i \in 1 .. Len(s) - 1 /\ i + 1 > Len(s) - m
        BY <3>3, <3>4
      <4>2. t[i] = s[i + 1] /\ i + 1 \in DOMAIN s
        BY <3>2, <3>3, <4>1
      <4>3. s[i + 1] >= c
        BY <4>1, <4>2
      <4>4. QED
        BY <4>2, <4>3
    <3>5. t \in Seq(Nat)
      BY <3>2, <3>3
    <3>6. Len(t) \in m .. MaxHistory - 1
      BY <3>3
    <3>7. QED
      BY <3>4, <3>5, <3>6
  <2>2. CASE ~(Len(s) >= MaxHistory)
    BY <2>2
  <2>3. QED
    BY <2>1, <2>2
<1> HIDE DEF t
<1>2. /\ Len(u) = Len(t) + 1 /\ DOMAIN u = 1 .. Len(t) + 1
      /\ \A i \in 1 .. Len(t) : u[i] = t[i]
      /\ u[Len(t) + 1] = c
  BY <1>1
<1> HIDE DEF u
<1>3. Len(u) \in m + 1 .. MaxHistory
  BY <1>1, <1>2
<1>4. ASSUME NEW i \in DOMAIN u, i > Len(u) - (m + 1)
      PROVE  u[i] >= c
  <2>1. CASE i = Len(t) + 1
    <3>1. u[Len(t) + 1] = c /\ c >= c
      BY <1>2
    <3>2. QED
      BY <2>1, <3>1
  <2>2. CASE i \in 1 .. Len(t)
    <3>1. i > Len(t) - m
      BY <1>1, <1>2, <1>4, <2>2
    <3>2. QED
      BY <1>1, <1>2, <2>2, <3>1
  <2>3. i = Len(t) + 1 \/ i \in 1 .. Len(t)
    <3>1. Len(t) \in Nat /\ i \in 1 .. Len(t) + 1
      BY <1>1, <1>2
    <3>2. QED
      BY <3>1
  <2>4. QED
    BY <2>1, <2>2, <2>3
<1>5. Detector!Appended(s, c) = u
  BY DEF Detector!Appended, t, u
<1>. QED
  BY <1>3, <1>4, <1>5

\* The squares for p and q as the bound below needs them.
ShareSquares(d, v, a, b, n) == Squares(d * n, v - d * a, a, b, n) = n * v * (d * d + v)

LEMMA SharedSquares ==
  ASSUME NEW n \in Int, NEW a \in Int, NEW b \in Int, NEW d \in Int, NEW v \in Int, v = n * b - a * a
  PROVE  ShareSquares(d, v, a, b, n)
<1>1. Squares(d * n, v - d * a, a, b, n)
        = n * (d * d * (n * b - a * a)) + n * (v * v)
  BY DEF Squares
<1>2. n * (d * d * v) + n * (v * v) = n * v * (d * d + v)
  OBVIOUS
<1>. QED
  BY <1>1, <1>2 DEF ShareSquares

\* What exceeds k deviations is less than a share 1 / (1 + k^2) of the counts.
LEMMA FewExceed ==
  ASSUME NEW s \in Seq(Nat), NEW c \in Nat, NEW m \in 0 .. Len(s), Squared \in Nat,
         \A i \in DOMAIN s : i > Len(s) - m => s[i] >= c,
         Detector!Exceeds(s, c), m # 0
  PROVE  m * (1 + Squared) < Len(s)
<1> DEFINE n == Len(s)
           a == Detector!PowerSum(s, 1)
           b == Detector!PowerSum(s, 2)
           v == Detector!Spread(s)
           d == Detector!Distance(s, c)
           w == d * d + v
<1>1. n \in Nat /\ a \in Nat /\ b \in Nat /\ v \in Nat /\ m \in Nat
  BY SumsAreNatural, SpreadIsNatural
<1>2. d = n * c - a /\ v = n * b - a * a
  BY DEF Detector!Distance, Detector!Spread
<1>3. d > 0 /\ d * d > Squared * v
  BY DEF Detector!Exceeds
<1> HIDE DEF a, b, v, d, n
<1>4. d \in Nat /\ d * d \in Nat /\ Squared * v \in Nat
  <2>1. d \in Int
    BY <1>1, <1>2
  <2>2. d \in Nat
    BY <1>3, <2>1
  <2>3. QED
    BY <1>1, <2>2
<1>5. (d * n) * c + (v - d * a) = w
  BY <1>1, <1>2, <1>4
<1>6. w \in Nat \ {0}
  BY <1>1, <1>3, <1>4
<1>7. n * v * w >= m * (w * w)
  <2>1. d * n \in Nat /\ v - d * a \in Int
    BY <1>1, <1>4
  <2>2. Squares(d * n, v - d * a, a, b, n)
          >= m * (((d * n) * c + (v - d * a)) * ((d * n) * c + (v - d * a)))
    <3>1. d * n >= 0 /\ (d * n) * c + (v - d * a) >= 0 /\ d * n \in Int
      BY <1>5, <1>6, <2>1
    <3>2. QED
      BY <2>1, <3>1, SquaresTogether DEF a, b, n
  <2>3. ShareSquares(d, v, a, b, n)
    BY <1>1, <1>2, <1>4, SharedSquares
  <2>4. QED
    BY <1>5, <2>2, <2>3 DEF ShareSquares
<1>8. n * v >= m * w
  <2> HIDE DEF w
  <2>1. n * v \in Nat /\ m * w \in Nat /\ m * (w * w) = (m * w) * w
    BY <1>1, <1>6
  <2> DEFINE x == n * v
             y == m * w
  <2>2. x * w >= y * w /\ x \in Nat /\ y \in Nat
    BY <1>7, <2>1
  <2> HIDE DEF x, y
  <2>3. SUFFICES ASSUME x < y PROVE FALSE
    BY <2>2 DEF x, y
  <2>4. x + 1 <= y
    BY <2>2, <2>3
  <2>5. (x + 1) * w <= y * w /\ (x + 1) * w = x * w + w /\ x * w \in Nat /\ y * w \in Nat
    <3>1. (x + 1) * w <= y * w
      BY <1>6, <2>2, <2>4, ProductsGrow
    <3>2. QED
      BY <1>6, <2>2, <3>1
  <2>6. QED
    BY <1>6, <2>2, <2>5
<1>9. d * d >= Squared * v + 1
  BY <1>3, <1>4
<1>10. m * w >= m * (Squared * v + 1 + v)
  <2>1. Squared * v + 1 + v <= w /\ Squared * v + 1 + v \in Int /\ w \in Int
    BY <1>1, <1>4, <1>6, <1>9
  <2> HIDE DEF w
  <2>2. QED
    BY <1>1, <2>1, ProductsGrow
<1>11. n * v >= (m * (1 + Squared)) * v + m
  <2>1. m * (Squared * v + 1 + v) = (m * (1 + Squared)) * v + m
    BY <1>1
  <2> HIDE DEF w
  <2>2. QED
    BY <1>1, <1>6, <1>8, <1>10, <2>1
<1> SUFFICES ASSUME n <= m * (1 + Squared) PROVE FALSE
  <2>1. m * (1 + Squared) \in Int
    BY <1>1
  <2>2. QED
    BY <1>1, <2>1 DEF n
<1> DEFINE y == m * (1 + Squared)
<1>12. y \in Nat /\ n <= y
  BY <1>1
<1> HIDE DEF y
<1>13. n * v <= y * v /\ n * v \in Nat /\ y * v \in Nat
  BY <1>1, <1>12, ProductsGrow
<1>14. n * v >= y * v + m
  BY <1>11 DEF y
<1>. QED
  BY <1>1, <1>13, <1>14

\* The z-score's last alarms are the last counts of its history, none of them
\* below the current one.
Recent ==
  kind = "zscore" =>
    /\ zHistory \in Seq(Nat) /\ Len(zHistory) <= MaxHistory
    /\ current \in Nat /\ alarms \in 0 .. Len(zHistory)
    /\ \A i \in DOMAIN zHistory : i > Len(zHistory) - alarms => zHistory[i] >= current
    /\ Detector!FloodForgotten

LEMMA RecentStep ==
  ASSUME Detector!DetectorsAssumption, Recent, [Detector!Next]_Detector!vars
  PROVE  Recent'
<1> USE DEF Detector!FloodForgotten
<1>1. CASE \E c \in Counts : Detector!ZScoreCheck(c)
  <2>1. PICK c \in Counts : Detector!ZScoreCheck(c)
    BY <1>1
  <2>2. /\ c \in Nat /\ Squared \in Nat /\ MaxHistory \in Nat \ {0}
    BY DEF Detector!DetectorsAssumption
  <2>3. /\ kind = "zscore" /\ kind' = "zscore" /\ current' = c
        /\ attack' = Detector!Exceeds(zHistory, c)
        /\ zHistory' = Detector!Appended(zHistory, c)
        /\ alarms' = IF ~attack' THEN 0
                     ELSE IF attack /\ c <= current /\ alarms < MaxHistory THEN alarms + 1 ELSE 1
    BY <2>1 DEF Detector!ZScoreCheck, Detector!Alarm, Detector!MaxAlarms
  <2> DEFINE n == Len(zHistory)
             bound == (MaxHistory - 1) \div (1 + Squared) + 1
  <2>4. /\ zHistory \in Seq(Nat) /\ n <= MaxHistory /\ n \in Nat
        /\ current \in Nat /\ alarms \in 0 .. n
        /\ \A i \in DOMAIN zHistory : i > n - alarms => zHistory[i] >= current
        /\ alarms <= bound
    BY <2>3 DEF Recent, Detector!ForgottenAfter
  <2>5. Detector!ForgottenAfter' = bound
    BY <2>3 DEF Detector!ForgottenAfter
  <2>6. zHistory' \in Seq(Nat)
    BY <2>2, <2>3, <2>4, HistoryAppended
  <2>7. bound \in Nat /\ bound >= 1
    <3>1. MaxHistory - 1 \in Nat /\ 1 + Squared \in Nat \ {0} /\ 0 * (1 + Squared) <= MaxHistory - 1
      BY <2>2
    <3>2. 0 <= (MaxHistory - 1) \div (1 + Squared) /\ (MaxHistory - 1) \div (1 + Squared) \in Int
      BY <3>1, Quotient, QuotientAtLeast
    <3>3. QED
      BY <3>2
  <2>8. CASE attack' /\ attack /\ c <= current /\ alarms < MaxHistory
    <3>1. \A i \in DOMAIN zHistory : i > n - alarms => zHistory[i] >= c
      <4>1. \A i \in DOMAIN zHistory : zHistory[i] \in Nat
        BY <2>4
      <4>2. QED
        BY <2>2, <2>4, <2>8, <4>1
    <3>2. alarms' = alarms + 1
      BY <2>3, <2>8
    <3>3. /\ Len(zHistory') \in alarms + 1 .. MaxHistory
          /\ \A i \in DOMAIN zHistory' : i > Len(zHistory') - (alarms + 1) => zHistory'[i] >= c
      BY <2>2, <2>3, <2>4, <2>8, <3>1, LastAppended
    <3>4. alarms + 1 <= bound
      <4>1. CASE alarms = 0
        BY <2>7, <4>1
      <4>2. CASE alarms # 0
        <5>1. alarms * (1 + Squared) < n
          BY <2>2, <2>3, <2>4, <2>8, <3>1, <4>2, FewExceed
        <5>2. alarms * (1 + Squared) <= MaxHistory - 1
          <6>1. alarms * (1 + Squared) \in Int
            BY <2>2, <2>4
          <6>2. QED
            BY <2>2, <2>4, <5>1, <6>1
        <5>3. alarms <= (MaxHistory - 1) \div (1 + Squared)
          <6>1. MaxHistory - 1 \in Int /\ 1 + Squared \in Nat \ {0} /\ alarms \in Int
            BY <2>2, <2>4
          <6>2. QED
            BY <5>2, <6>1, QuotientAtLeast
        <5>4. (MaxHistory - 1) \div (1 + Squared) \in Int
          BY <2>2, Quotient
        <5>5. QED
          BY <2>4, <5>3, <5>4
      <4>3. QED
        BY <4>1, <4>2
    <3> HIDE DEF bound
    <3>5. QED
      BY <2>2, <2>3, <2>4, <2>5, <2>6, <3>2, <3>3, <3>4 DEF Recent
  <2>9. CASE attack' /\ ~(attack /\ c <= current /\ alarms < MaxHistory)
    <3>1. alarms' = 1
      BY <2>3, <2>9
    <3>2. /\ Len(zHistory') \in 0 + 1 .. MaxHistory
          /\ \A i \in DOMAIN zHistory' : i > Len(zHistory') - (0 + 1) => zHistory'[i] >= c
      <4>1. 0 \in 0 .. n /\ 0 < MaxHistory /\ \A i \in DOMAIN zHistory : ~(i > n - 0)
        BY <2>2, <2>4
      <4>2. QED
        BY <2>2, <2>3, <2>4, <4>1, LastAppended
    <3> HIDE DEF bound
    <3>3. QED
      BY <2>2, <2>3, <2>5, <2>6, <2>7, <3>1, <3>2 DEF Recent
  <2>10. CASE ~attack'
    <3>1. alarms' = 0
      BY <2>3, <2>10
    <3>2. Len(zHistory') \in 0 + 1 .. MaxHistory
      <4>1. 0 \in 0 .. n /\ 0 < MaxHistory /\ \A i \in DOMAIN zHistory : ~(i > n - 0)
        BY <2>2, <2>4
      <4>2. QED
        BY <2>2, <2>3, <2>4, <4>1, LastAppended
    <3>3. \A i \in DOMAIN zHistory' : ~(i > Len(zHistory') - 0)
      BY <2>6
    <3> HIDE DEF bound
    <3>4. QED
      BY <2>2, <2>3, <2>5, <2>6, <2>7, <3>1, <3>2, <3>3 DEF Recent
  <2>11. QED
    BY <2>3, <2>8, <2>9, <2>10
<1>2. CASE \E c \in Counts : Detector!EwmaCheck(c)
  BY <1>2 DEF Detector!EwmaCheck, Recent
<1>3. CASE \E prev, cur \in Counts : Detector!EnsembleCheck(prev, cur)
  <2>1. kind = "ensemble" /\ kind' = kind
    BY <1>3 DEF Detector!EnsembleCheck
  <2>2. QED
    BY <2>1 DEF Recent
<1>4. CASE UNCHANGED Detector!vars
  BY <1>4 DEF Detector!vars, Recent, Detector!ForgottenAfter
<1>. QED
  BY <1>1, <1>2, <1>3, <1>4 DEF Detector!Next

\* For any history and any sensitivity: the z-score alone, which learns from the
\* flood it measures, does not call more than a share 1 / (1 + sensitivity^2)
\* of its history an attack, and the check that starts it, unless counts rise.
THEOREM ZScoreForgets == AnySpec => [](kind = "zscore" => FloodForgotten)
<1> DEFINE Inv == part = "detector" => Recent
<1> USE ComponentsAssumption DEF ComponentsAssumption
<1>1. AnyInit => Inv
  <2>1. Detector!Init => Recent
    <3> SUFFICES ASSUME Detector!Init, kind = "zscore" PROVE Recent
      BY DEF Recent
    <3>1. MaxHistory - 1 \in Nat /\ 1 + Squared \in Nat \ {0} /\ 0 * (1 + Squared) <= MaxHistory - 1
      BY DEF Detector!DetectorsAssumption
    <3>2. 0 <= (MaxHistory - 1) \div (1 + Squared) /\ (MaxHistory - 1) \div (1 + Squared) \in Int
      BY <3>1, Quotient, QuotientAtLeast
    <3>3. Detector!FloodForgotten
      BY <3>2 DEF Detector!Init, Detector!FloodForgotten, Detector!ForgottenAfter
    <3>4. << >> \in Seq(Nat) /\ DOMAIN << >> = {} /\ Len(<< >>) = 0 /\ MaxHistory \in Nat
      BY DEF Detector!DetectorsAssumption
    <3>5. QED
      BY <3>3, <3>4 DEF Detector!Init, Recent
  <2>2. QED
    BY <2>1 DEF AnyInit
<1>2. Inv /\ [AnyNext]_anyVars => Inv'
  BY StepOfPart, RecentStep
<1>3. Inv => (kind = "zscore" => FloodForgotten)
  BY DEF Recent, FloodForgotten
<1>. QED
  BY <1>1, <1>2, <1>3, PTL DEF AnySpec

------------------------------------------------------------------------------
(* The moving average alone *)

Multiplying(g, n, b) == g = [i \in 0 .. n |-> IF i = 0 THEN 1 ELSE b * g[i - 1]]

LEMMA MultiplyingExists ==
  ASSUME NEW b
  PROVE  \A n \in Nat : \E g : Multiplying(g, n, b)
<1> DEFINE Fine == {n \in Nat : \E g : Multiplying(g, n, b)}
<1>1. 0 \in Fine
  <2> DEFINE g == [i \in 0 .. 0 |-> 1]
  <2>1. Multiplying(g, 0, b)
    BY DEF Multiplying
  <2>2. QED
    BY <2>1
<1>2. ASSUME NEW n \in Fine
      PROVE  n + 1 \in Fine
  <2>1. PICK g : Multiplying(g, n, b)
    OBVIOUS
  <2> DEFINE h == [i \in 0 .. n + 1 |-> IF i = 0 THEN 1 ELSE b * g[i - 1]]
  <2>2. ASSUME NEW i \in 0 .. n
        PROVE  h[i] = g[i]
    BY <2>1 DEF Multiplying
  <2>3. ASSUME NEW i \in 0 .. n + 1, i # 0
        PROVE  g[i - 1] = h[i - 1]
    <3>1. i - 1 \in 0 .. n
      BY <2>3
    <3>2. QED
      BY <2>2, <3>1
  <2>4. h = [i \in 0 .. n + 1 |-> IF i = 0 THEN 1 ELSE b * h[i - 1]]
    <3>1. \A i \in 0 .. n + 1 :
            (IF i = 0 THEN 1 ELSE b * g[i - 1]) = (IF i = 0 THEN 1 ELSE b * h[i - 1])
      BY <2>3
    <3>2. h = [i \in 0 .. n + 1 |-> IF i = 0 THEN 1 ELSE b * g[i - 1]]
      OBVIOUS
    <3> HIDE DEF h
    <3>3. QED
      BY <3>1, <3>2
  <2> HIDE DEF h
  <2>5. Multiplying(h, n + 1, b)
    BY <2>4 DEF Multiplying
  <2>6. QED
    BY <2>5
<1>3. Fine \in SUBSET Nat
  OBVIOUS
<1>4. Fine = Nat
  <2> HIDE DEF Fine
  <2>1. QED
    BY <1>1, <1>2, <1>3, Induction
<1>. QED
  BY <1>4

\* p holds the powers of b up to that of the average's weight.
Raises(p, b) ==
  /\ p \in [0 .. AloneInverse -> Nat]
  /\ p[0] = 1
  /\ \A i \in 1 .. AloneInverse : p[i] = b * p[i - 1]

LEMMA PowersRaise ==
  ASSUME NEW b \in Nat, AloneInverse \in Nat \ {0}
  PROVE  Raises(Detector!Powers(b), b)
<1> DEFINE p == CHOOSE g : Multiplying(g, AloneInverse, b)
<1>1. Multiplying(p, AloneInverse, b)
  BY MultiplyingExists
<1>2. Detector!Powers(b) = p
  BY DEF Detector!Powers, Multiplying
<1> HIDE DEF p
<1>3. /\ p = [i \in 0 .. AloneInverse |-> p[i]] /\ p[0] = 1
      /\ \A i \in 1 .. AloneInverse : p[i] = b * p[i - 1]
  <2>1. p = [i \in 0 .. AloneInverse |-> IF i = 0 THEN 1 ELSE b * p[i - 1]]
    BY <1>1 DEF Multiplying
  <2>2. \A i \in 0 .. AloneInverse : p[i] = IF i = 0 THEN 1 ELSE b * p[i - 1]
    BY <2>1
  <2>3. 0 \in 0 .. AloneInverse /\ \A i \in 1 .. AloneInverse : i \in 0 .. AloneInverse /\ i # 0
    OBVIOUS
  <2>4. QED
    BY <2>1, <2>2, <2>3
<1>4. \A i \in 0 .. AloneInverse : p[i] \in Nat
  <2> DEFINE Fine == {i \in Nat : i <= AloneInverse => p[i] \in Nat}
  <2>1. 0 \in Fine
    BY <1>3
  <2>2. ASSUME NEW i \in Fine
        PROVE  i + 1 \in Fine
    <3>1. CASE i + 1 <= AloneInverse
      <4>1. i + 1 \in 1 .. AloneInverse /\ (i + 1) - 1 = i /\ i \in Nat /\ p[i] \in Nat
        BY <3>1
      <4>2. p[i + 1] = b * p[i]
        BY <1>3, <4>1
      <4>3. b * p[i] \in Nat
        BY <4>1
      <4>4. QED
        BY <4>1, <4>2, <4>3
    <3>2. QED
      BY <3>1
  <2>3. Fine \in SUBSET Nat
    OBVIOUS
  <2>4. Fine = Nat
    <3> HIDE DEF Fine
    <3>1. QED
      BY <2>1, <2>2, <2>3, Induction
  <2>5. QED
    BY <2>4
<1>5. p \in [0 .. AloneInverse -> Nat]
  BY <1>3, <1>4
<1>. QED
  BY <1>2, <1>3, <1>5 DEF Raises

\* The weights are powers.
LEMMA WeightsAre ==
  ASSUME AloneInverse \in Nat \ {0}
  PROVE  /\ Detector!All(0) = 1 /\ Detector!Old(0) = 1
         /\ \A n \in 0 .. AloneInverse : Detector!All(n) \in Nat /\ Detector!Old(n) \in Nat
         /\ \A n \in 0 .. AloneInverse - 1 :
              Detector!All(n + 1) = AloneInverse * Detector!All(n) /\ Detector!Old(n + 1) = (AloneInverse - 1) * Detector!Old(n)
<1>1. AloneInverse - 1 \in Nat /\ AloneInverse \in Nat
  OBVIOUS
<1>2. Raises(Detector!Powers(AloneInverse), AloneInverse)
      /\ Raises(Detector!Powers(AloneInverse - 1), AloneInverse - 1)
  BY <1>1, PowersRaise
<1>3. \A n \in 0 .. AloneInverse - 1 : n + 1 \in 1 .. AloneInverse /\ (n + 1) - 1 = n
  OBVIOUS
<1>. QED
  BY <1>2, <1>3 DEF Raises, Detector!All, Detector!Old

\* Bernoulli's inequality: n counts weigh n times what is left of the average
\* at least.
LEMMA WeightsGrow ==
  ASSUME AloneInverse \in Nat \ {0}
  PROVE  \A n \in 0 .. AloneInverse :
           (AloneInverse - 1) * Detector!All(n) >= (AloneInverse - 1 + n) * Detector!Old(n)
<1> DEFINE r == AloneInverse - 1
           Fine == {n \in Nat : n <= AloneInverse => r * Detector!All(n) >= (r + n) * Detector!Old(n)}
<1>1. 0 \in Fine
  BY WeightsAre
<1>2. ASSUME NEW n \in Fine
      PROVE  n + 1 \in Fine
  <2> SUFFICES ASSUME n + 1 <= AloneInverse
               PROVE  r * Detector!All(n + 1) >= (r + (n + 1)) * Detector!Old(n + 1)
    OBVIOUS
  <2>1. n \in 0 .. AloneInverse - 1 /\ n \in 0 .. AloneInverse /\ n \in Nat /\ r \in Nat
    OBVIOUS
  <2>2. Detector!All(n + 1) = (r + 1) * Detector!All(n) /\ Detector!Old(n + 1) = r * Detector!Old(n)
    BY <2>1, WeightsAre
  <2>3. r * Detector!All(n) >= (r + n) * Detector!Old(n)
    BY <2>1
  <2> DEFINE x == Detector!All(n)
             y == Detector!Old(n)
             p == r * x
             q == (r + n) * y
  <2>4. x \in Nat /\ y \in Nat
    BY <2>1, WeightsAre
  <2>5. p >= q
    BY <2>3
  <2> HIDE DEF x, y, r, Fine
  <2>6. p \in Nat /\ q \in Nat /\ n * y \in Nat
    BY <2>1, <2>4
  <2>7. q * (r + 1) <= p * (r + 1)
    BY <2>1, <2>5, <2>6, ProductsGrow
  <2>8. r * ((r + 1) * x) = p * (r + 1)
    BY <2>1, <2>4
  <2>9. q * (r + 1) = (r + (n + 1)) * (r * y) + n * y
    BY <2>1, <2>4
  <2>10. r * ((r + 1) * x) \in Nat /\ (r + (n + 1)) * (r * y) \in Nat
    BY <2>1, <2>4
  <2> HIDE DEF p, q
  <2>11. r * ((r + 1) * x) >= (r + (n + 1)) * (r * y)
    <3> DEFINE u == r * ((r + 1) * x)
               v == (r + (n + 1)) * (r * y)
               w == n * y
               f == q * (r + 1)
    <3>1. u \in Nat /\ v \in Nat /\ w \in Nat /\ f <= u /\ f = v + w
      BY <2>6, <2>7, <2>8, <2>9, <2>10
    <3> HIDE DEF u, v, w, f
    <3>2. u >= v
      BY <3>1
    <3>3. QED
      BY <3>2 DEF u, v
  <2>12. QED
    BY <2>2, <2>11 DEF x, y
<1>3. Fine \in SUBSET Nat
  OBVIOUS
<1>4. Fine = Nat
  <2> HIDE DEF Fine
  <2>1. QED
    BY <1>1, <1>2, <1>3, Induction
<1>. QED
  BY <1>4

LEMMA OldWithinAll ==
  ASSUME AloneInverse \in Nat \ {0}
  PROVE  \A n \in 0 .. AloneInverse : Detector!Old(n) <= Detector!All(n)
<1> DEFINE r == AloneInverse - 1
           Fine == {n \in Nat : n <= AloneInverse => Detector!Old(n) <= Detector!All(n)}
<1>1. 0 \in Fine
  BY WeightsAre
<1>2. ASSUME NEW n \in Fine
      PROVE  n + 1 \in Fine
  <2> SUFFICES ASSUME n + 1 <= AloneInverse
               PROVE  Detector!Old(n + 1) <= Detector!All(n + 1)
    OBVIOUS
  <2>1. n \in 0 .. AloneInverse - 1 /\ n \in 0 .. AloneInverse /\ n \in Nat /\ r \in Nat
    OBVIOUS
  <2>2. Detector!All(n + 1) = (r + 1) * Detector!All(n) /\ Detector!Old(n + 1) = r * Detector!Old(n)
    BY <2>1, WeightsAre
  <2> DEFINE x == Detector!All(n)
             y == Detector!Old(n)
  <2>3. x \in Nat /\ y \in Nat /\ y <= x
    BY <2>1, WeightsAre
  <2> HIDE DEF x, y, r, Fine
  <2>4. r * y <= r * x /\ r * y \in Nat /\ r * x \in Nat /\ (r + 1) * x = r * x + x
    BY <2>1, <2>3, ProductsGrow
  <2>5. r * y <= (r + 1) * x
    BY <2>3, <2>4
  <2>6. QED
    BY <2>2, <2>5 DEF x, y
<1>3. Fine \in SUBSET Nat
  OBVIOUS
<1>4. Fine = Nat
  <2> HIDE DEF Fine
  <2>1. QED
    BY <1>1, <1>2, <1>3, Induction
<1>. QED
  BY <1>4

LEMMA SomeForgets ==
  ASSUME AloneInverse \in Nat \ {0}, Deviation \in Nat \ {0}
  PROVE  \E n \in 1 .. AloneInverse : Detector!Forgets(n)
<1> DEFINE a == AloneInverse
           r == AloneInverse - 1
           x == Detector!All(a)
           y == Detector!Old(a)
           d == 1 + Deviation
<1>1. x \in Nat /\ y \in Nat /\ r \in Nat /\ a = r + 1 /\ d \in Nat /\ d >= 2
  BY WeightsAre
<1>2. r * x >= (r + a) * y
  BY WeightsGrow
<1>3. x >= 2 * y
  <2>1. CASE r = 0
    <3>1. a - 1 = 0 /\ 0 \in 0 .. a - 1 /\ a = 0 + 1
      BY <2>1, <1>1
    <3>2. Detector!Old(0 + 1) = (a - 1) * Detector!Old(0) /\ Detector!Old(0) = 1
      BY <3>1, WeightsAre
    <3>3. y = 0
      BY <3>1, <3>2
    <3> HIDE DEF x, y
    <3>4. QED
      BY <1>1, <3>3
  <2>2. CASE r # 0
    <3> HIDE DEF x, y, r, a
    <3> SUFFICES ASSUME x + 1 <= 2 * y PROVE FALSE
      BY <1>1
    <3>1. (x + 1) * r <= (2 * y) * r
      BY <1>1, ProductsGrow
    <3>2. (r + a) * y = (2 * y) * r + y
      BY <1>1
    <3>3. r * x = (x + 1) * r - r
      BY <1>1
    <3> DEFINE p == (x + 1) * r
               q == (2 * y) * r
    <3>4. p \in Nat /\ q \in Nat /\ p <= q /\ p - r >= q + y
      BY <1>1, <1>2, <3>1, <3>2, <3>3
    <3> HIDE DEF p, q
    <3>5. QED
      BY <1>1, <2>2, <3>4
  <2>3. QED
    BY <2>1, <2>2
<1>4. Detector!Reached(a)
  <2> HIDE DEF x, y, a, d
  <2>1. 2 * (x - y) <= d * (x - y)
    BY <1>1, <1>3, ProductsGrow
  <2>2. d * (x - y) \in Int
    BY <1>1
  <2>3. d * (x - y) >= x
    BY <1>1, <1>3, <2>1, <2>2
  <2>4. QED
    BY <2>3 DEF Detector!Reached, x, y, a, d
<1> HIDE DEF x, y, d
<1> DEFINE S == {n \in 1 .. a : Detector!Reached(n)}
<1>5. S \in SUBSET Nat /\ a \in S
  BY <1>1, <1>4
<1>6. PICK n \in S : \A m \in S : n <= m
  <2> HIDE DEF S, a
  <2>1. QED
    BY <1>5, LeastOf
<1>7. ASSUME NEW k \in 1 .. n - 1, Detector!Reached(k)
      PROVE  FALSE
  <2>1. n \in 1 .. a /\ k \in 1 .. a /\ k < n
    BY <1>1, <1>7
  <2>2. k \in S
    BY <1>7, <2>1
  <2> HIDE DEF S
  <2>3. n <= k
    BY <1>6, <2>2
  <2>4. QED
    BY <2>1, <2>3
<1>8. n \in 1 .. AloneInverse /\ Detector!Forgets(n)
  BY <1>7 DEF Detector!Forgets
<1>. QED
  BY <1>8

\* A check moves the average towards the count: in parts of the weights, it is
\* still as near to a count of c as the earlier ones had brought it.
LEMMA AverageGains ==
  ASSUME NEW r \in Nat, NEW p \in Nat, NEW q \in Nat, NEW x \in Int, NEW e \in Nat, NEW f \in Nat,
         p * e >= x * (p - q) + q, (r + 1) * f >= x + r * e
  PROVE  ((r + 1) * p) * f >= x * ((r + 1) * p - r * q) + r * q
<1> DEFINE s == x + r * e
           t == (r + 1) * f
           u == x * (p - q) + q
           v == p * e
<1>1. s \in Int /\ t \in Int /\ u \in Int /\ v \in Int /\ s <= t /\ u <= v
  OBVIOUS
<1>2. ((r + 1) * p) * f = t * p
  OBVIOUS
<1>3. s * p = x * p + v * r
  OBVIOUS
<1>4. x * ((r + 1) * p - r * q) + r * q = x * p + u * r
  OBVIOUS
<1> HIDE DEF s, t, u, v
<1>5. s * p <= t * p /\ u * r <= v * r
  BY <1>1, ProductsGrow
<1> DEFINE sp == s * p
           tp == t * p
           ur == u * r
           vr == v * r
           xp == x * p
<1>6. sp \in Int /\ tp \in Int /\ ur \in Int /\ vr \in Int /\ xp \in Int
  BY <1>1
<1>7. sp <= tp /\ ur <= vr /\ sp = xp + vr
  BY <1>3, <1>5
<1>8. ((r + 1) * p) * f = tp /\ x * ((r + 1) * p - r * q) + r * q = xp + ur
  BY <1>2, <1>4
<1> HIDE DEF sp, tp, ur, vr, xp
<1>9. tp >= xp + ur
  BY <1>6, <1>7
<1>. QED
  BY <1>8, <1>9

\* Once the average is within the deviation of a flood of one source, it is
\* within the deviation of any other.
LEMMA AlarmEnds ==
  ASSUME NEW u \in Nat, NEW r \in Nat, NEW p \in Nat, NEW q \in Nat, NEW d \in Nat,
         NEW c \in Nat \ {0}, NEW e \in Nat,
         d * (p - q) >= p, d * ((u - r) * (p - q) + q) > (u - 1) * p,
         p * e >= (u * c - r) * (p - q) + q
  PROVE  ~(u * c > e * d)
<1> SUFFICES ASSUME u * c - 1 >= e * d PROVE FALSE
  <2>1. u * c \in Nat /\ e * d \in Nat
    OBVIOUS
  <2>2. QED
    BY <2>1
<1> DEFINE x == (u - r) * (p - q) + q
           y == (u * c - r) * (p - q) + q
           k == u * (c - 1)
           g == d * (p - q)
           w == e * d
           z == u * c - 1
<1>1. /\ x \in Int /\ y \in Int /\ k \in Nat /\ g \in Int /\ w \in Nat /\ z \in Int
      /\ p * e \in Nat
  <2>1. c - 1 \in Nat
    OBVIOUS
  <2>2. QED
    BY <2>1
<1>2. y = x + k * (p - q)
  OBVIOUS
<1>3. w <= z /\ p <= g /\ y <= p * e /\ z = (u - 1) + k
  OBVIOUS
<1>4. d * x > (u - 1) * p
  OBVIOUS
<1>5. w * p = (p * e) * d
  OBVIOUS
<1>6. k * g = (k * (p - q)) * d
  OBVIOUS
<1> HIDE DEF x, y, k, g, w, z
<1>7. w * p <= z * p
  BY <1>1, <1>3, ProductsGrow
<1>8. y * d <= (p * e) * d
  BY <1>1, <1>3, ProductsGrow
<1>9. k * p <= k * g
  BY <1>1, <1>3, ProductsGrow
<1>10. z * p = (u - 1) * p + k * p
  BY <1>1, <1>3
<1>11. y * d = d * x + k * g
  <2>1. y * d = x * d + (k * (p - q)) * d
    BY <1>1, <1>2
  <2>2. x * d = d * x
    BY <1>1
  <2>3. QED
    BY <1>6, <2>1, <2>2
<1> DEFINE wp == w * p
           zp == z * p
           yd == y * d
           kp == k * p
           kg == k * g
           dx == d * x
           up == (u - 1) * p
<1>12. wp \in Int /\ zp \in Int /\ yd \in Int /\ kp \in Int /\ kg \in Int /\ dx \in Int /\ up \in Int
  BY <1>1
<1>13. wp <= zp /\ yd <= wp /\ kp <= kg /\ zp = up + kp /\ yd = dx + kg /\ dx > up
  BY <1>4, <1>5, <1>7, <1>8, <1>9, <1>10, <1>11
<1> HIDE DEF wp, zp, yd, kp, kg, dx, up
<1>. QED
  BY <1>12, <1>13

\* The average is as near to the current count as its alarms have brought it.
Fading ==
  kind = "ewma" =>
    /\ ewma = Detector!NoBaseline \/ ewma \in Nat
    /\ current \in Nat /\ alarms \in Nat /\ Detector!FloodForgotten
    /\ alarms > 0 =>
         Detector!All(alarms) * ewma
           >= (CountUnit * current - (AloneInverse - 1)) * (Detector!All(alarms) - Detector!Old(alarms))
              + Detector!Old(alarms)

LEMMA FadingStep ==
  ASSUME Detector!DetectorsAssumption, Deviation > 0, Detector!FineUnit,
         Fading, [Detector!Next]_Detector!vars
  PROVE  Fading'
<1> DEFINE a == AloneInverse
           r == AloneInverse - 1
<1>1. CASE \E c \in Counts : Detector!EwmaCheck(c)
  <2>1. PICK c \in Counts : Detector!EwmaCheck(c)
    BY <1>1
  <2>2. /\ c \in Nat /\ CountUnit \in Nat \ {0} /\ a \in Nat \ {0} /\ r \in Nat /\ a = r + 1
        /\ Deviation \in Nat \ {0}
    BY DEF Detector!DetectorsAssumption
  <2>3. /\ kind = "ewma" /\ kind' = "ewma" /\ current' = c
        /\ attack' => ewma > 0 /\ CountUnit * c > ewma * (1 + Deviation)
        /\ ewma' = Detector!Smoothed(ewma, c, a)
        /\ \/ ~attack' /\ alarms' = 0
           \/ attack' /\ c <= current /\ alarms' = alarms + 1
           \/ attack' /\ alarms' = 1
    BY <2>1 DEF Detector!EwmaCheck, Detector!Alarm
  <2>4. PICK n \in 1 .. a : Detector!Forgets(n) /\ n = Detector!ForgottenAfter
    <3>1. \E n \in 1 .. a : Detector!Forgets(n)
      BY <2>2, SomeForgets
    <3>2. QED
      BY <2>3, <3>1 DEF Detector!ForgottenAfter
  <2>5. Detector!ForgottenAfter' = n
    BY <2>3, <2>4 DEF Detector!ForgottenAfter
  <2>6. /\ ewma = Detector!NoBaseline \/ ewma \in Nat
        /\ current \in Nat /\ alarms \in 0 .. n
        /\ alarms > 0 =>
             Detector!All(alarms) * ewma
               >= (CountUnit * current - r) * (Detector!All(alarms) - Detector!Old(alarms))
                  + Detector!Old(alarms)
    BY <2>3, <2>4 DEF Fading, Detector!FloodForgotten
  <2>7. ewma' \in Nat
    BY <2>2, <2>3, <2>6, SmoothedIs
  <2>8. CASE ~attack'
    <3>1. alarms' = 0
      BY <2>3, <2>8
    <3>2. QED
      BY <2>2, <2>3, <2>4, <2>5, <2>7, <3>1 DEF Fading, Detector!FloodForgotten
  <2>9. CASE attack'
    <3> DEFINE x == CountUnit * c - r
    <3>1. /\ ewma \in Nat /\ ewma >= 1 /\ CountUnit * c \in Nat /\ c \in Nat \ {0}
          /\ CountUnit * c > ewma * (1 + Deviation) /\ x \in Int
      <4>1. ewma \in Nat /\ ewma >= 1 /\ CountUnit * c > ewma * (1 + Deviation)
        BY <2>3, <2>6, <2>9 DEF Detector!NoBaseline
      <4>2. ewma * (1 + Deviation) \in Nat /\ CountUnit * c \in Nat
        BY <2>2, <4>1
      <4>3. c # 0
        <5> SUFFICES ASSUME c = 0 PROVE FALSE
          OBVIOUS
        <5>1. CountUnit * c = 0
          BY <2>2
        <5>2. QED
          BY <4>1, <4>2, <5>1
      <4>4. QED
        BY <2>2, <4>1, <4>2, <4>3
    <3>2. a * ewma' >= x + r * ewma
      <4> DEFINE s == CountUnit * c + r * ewma
                 f == s \div a
      <4>1. s \in Nat
        BY <2>2, <3>1
      <4>2. ewma' = f
        BY <2>3, <3>1 DEF Detector!Smoothed, Detector!NoBaseline
      <4>3. f \in Int /\ s < f * a + a
        <5> HIDE DEF s
        <5>1. QED
          BY <2>2, <4>1, Quotient
      <4>4. s = (CountUnit * c - r) + r * ewma + r /\ r * ewma \in Nat
        BY <2>2, <3>1
      <4> HIDE DEF s, f
      <4>5. f * a \in Int /\ f * a = a * f
        BY <2>2, <4>3
      <4>6. QED
        BY <2>2, <3>1, <4>1, <4>2, <4>3, <4>4, <4>5
    <3>3. ASSUME NEW m \in 0 .. a - 1, m + 1 <= n, alarms' = m + 1,
                 Detector!All(m) * ewma >= x * (Detector!All(m) - Detector!Old(m)) + Detector!Old(m)
          PROVE  Fading'
      <4> DEFINE p == Detector!All(m)
                 q == Detector!Old(m)
      <4>1. /\ p \in Nat /\ q \in Nat
            /\ Detector!All(m + 1) = a * p /\ Detector!Old(m + 1) = r * q
        BY <2>2, WeightsAre
      <4>2. p * ewma >= x * (p - q) + q
        BY <3>3
      <4>3. ((r + 1) * p) * ewma' >= x * ((r + 1) * p - r * q) + r * q
        <5> HIDE DEF p, q, x, a, r
        <5>1. (r + 1) * ewma' >= x + r * ewma
          BY <2>2, <3>2
        <5>2. QED
          BY <2>2, <2>7, <3>1, <4>1, <4>2, <5>1, AverageGains
      <4>4. Detector!All(m + 1) * ewma'
              >= x * (Detector!All(m + 1) - Detector!Old(m + 1)) + Detector!Old(m + 1)
        <5> HIDE DEF p, q, x, a, r
        <5>1. QED
          BY <2>2, <4>1, <4>3
      <4>5. /\ (CountUnit * current - (AloneInverse - 1))' = x
            /\ Detector!All(alarms)' = Detector!All(m + 1) /\ Detector!Old(alarms)' = Detector!Old(m + 1)
        BY <2>3, <3>3 DEF Detector!All, Detector!Old, Detector!Powers
      <4>6. (Detector!FloodForgotten)'
        BY <2>4, <2>5, <3>3 DEF Detector!FloodForgotten
      <4>7. current' \in Nat /\ alarms' \in Nat
        BY <2>2, <2>3, <3>3
      <4> HIDE DEF p, q, x, a, r
      <4>8. QED
        BY <2>7, <4>4, <4>5, <4>6, <4>7 DEF Fading
    <3>4. CASE alarms' = 1
      <4>1. 0 \in 0 .. a - 1 /\ 0 + 1 <= n /\ alarms' = 0 + 1
        BY <2>2, <2>4, <3>4
      <4>2. Detector!All(0) = 1 /\ Detector!Old(0) = 1
        BY <2>2, WeightsAre
      <4>3. 1 * ewma >= x * (1 - 1) + 1
        BY <3>1
      <4>4. QED
        BY <3>3, <4>1, <4>2, <4>3
    <3>5. CASE alarms > 0 /\ c <= current /\ alarms' = alarms + 1
      <4> DEFINE p == Detector!All(alarms)
                 q == Detector!Old(alarms)
                 y == CountUnit * current - r
      <4>1. alarms \in 0 .. a /\ alarms \in Nat /\ alarms <= n
        <5>1. n \in Nat /\ n <= a /\ a \in Nat /\ alarms \in 0 .. n
          BY <2>2, <2>4, <2>6
        <5> HIDE DEF a
        <5>2. QED
          BY <5>1
      <4>2. p \in Nat /\ q \in Nat /\ q <= p
        <5>1. p \in Nat /\ q \in Nat
          BY <2>2, <4>1, WeightsAre
        <5>2. q <= p
          BY <2>2, <4>1, OldWithinAll
        <5>3. QED
          BY <5>1, <5>2
      <4>3. x <= y /\ y \in Int
        BY <2>2, <2>6, <3>5, ProductsGrow
      <4>4. x * (p - q) <= y * (p - q) /\ x * (p - q) \in Int /\ y * (p - q) \in Int
        <5> HIDE DEF p, q, x, y
        <5>1. p - q \in Nat
          BY <4>2
        <5>2. QED
          BY <3>1, <4>3, <5>1, ProductsGrow
      <4>5. p * ewma >= y * (p - q) + q
        BY <2>6, <3>5
      <4>6. p * ewma >= x * (p - q) + q
        <5> HIDE DEF p, q, x, y
        <5>1. p * ewma \in Nat
          BY <3>1, <4>2
        <5>2. QED
          BY <4>2, <4>4, <4>5, <5>1
      <4>7. alarms # n
        <5> SUFFICES ASSUME alarms = n PROVE FALSE
          OBVIOUS
        <5> DEFINE d == 1 + Deviation
        <5>1. d * (p - q) >= p
          BY <2>4 DEF Detector!Forgets, Detector!Reached
        <5>2. d * ((CountUnit - r) * (p - q) + q) > (CountUnit - 1) * p
          BY <2>4 DEF Detector!FineUnit
        <5>3. p * ewma >= (CountUnit * c - r) * (p - q) + q
          BY <4>6
        <5>4. d \in Nat /\ CountUnit \in Nat
          BY <2>2
        <5>5. CountUnit * c > ewma * d
          BY <3>1
        <5> HIDE DEF p, q, d, r
        <5>6. QED
          BY <2>2, <3>1, <4>2, <5>1, <5>2, <5>3, <5>4, <5>5, AlarmEnds
      <4>8. alarms \in 0 .. a - 1 /\ alarms + 1 <= n
        BY <2>2, <2>4, <4>1, <4>7
      <4>9. QED
        BY <3>3, <3>5, <4>6, <4>8
    <3>6. QED
      BY <2>3, <2>6, <2>9, <3>4, <3>5
  <2>10. QED
    BY <2>8, <2>9
<1>2. CASE \E c \in Counts : Detector!ZScoreCheck(c)
  BY <1>2 DEF Detector!ZScoreCheck, Fading
<1>3. CASE \E prev, cur \in Counts : Detector!EnsembleCheck(prev, cur)
  <2>1. kind = "ensemble" /\ kind' = kind
    BY <1>3 DEF Detector!EnsembleCheck
  <2>2. QED
    BY <2>1 DEF Fading
<1>4. CASE UNCHANGED Detector!vars
  BY <1>4 DEF Detector!vars, Fading, Detector!FloodForgotten, Detector!ForgottenAfter
<1>. QED
  BY <1>1, <1>2, <1>3, <1>4 DEF Detector!Next

\* The ensemble has no alarms of this kind.
NoAlarms == kind \in {"ensemble", "zscore", "ewma"} /\ (kind = "ensemble" => alarms = 0)

\* However long the history and however slow the average: alone, the z-score and
\* the moving average, which learn from the flood they measure, call no more
\* checks in a row an attack than their memory allows, unless counts rise.  The
\* average is rounded down, to a unit that is fine enough to show it.
THEOREM FloodIsForgotten ==
  ASSUME Deviation > 0, Detector!FineUnit
  PROVE  AnySpec => []FloodForgotten
<1> DEFINE Inv == part = "detector" => NoAlarms /\ Fading
<1> USE ComponentsAssumption DEF ComponentsAssumption
<1>1. AnyInit => Inv
  <2>1. ASSUME Detector!Init
        PROVE  NoAlarms /\ Fading
    <3>1. PICK n \in 1 .. AloneInverse : Detector!Forgets(n)
      BY SomeForgets DEF Detector!DetectorsAssumption
    <3>2. kind = "ewma" => Detector!ForgottenAfter \in 1 .. AloneInverse
      BY <3>1 DEF Detector!ForgottenAfter
    <3>3. alarms = 0 /\ ewma = Detector!NoBaseline /\ current = 0
          /\ kind \in {"ensemble", "zscore", "ewma"}
      BY <2>1 DEF Detector!Init
    <3>4. QED
      BY <3>2, <3>3 DEF NoAlarms, Fading, Detector!FloodForgotten
  <2>2. QED
    BY <2>1 DEF AnyInit
<1>2. Inv /\ [AnyNext]_anyVars => Inv'
  <2> SUFFICES ASSUME part = "detector", NoAlarms, Fading, [Detector!Next]_Detector!vars
               PROVE  NoAlarms' /\ Fading'
    BY StepOfPart
  <2>1. Fading'
    BY FadingStep
  <2>2. NoAlarms'
    BY DEF NoAlarms, Detector!Next, Detector!vars, Detector!ZScoreCheck, Detector!EwmaCheck,
           Detector!EnsembleCheck
  <2>3. QED
    BY <2>1, <2>2
<1>3. Inv => (part = "detector" /\ kind # "zscore" => Detector!FloodForgotten)
  <2> SUFFICES ASSUME NoAlarms, Fading, kind # "zscore" PROVE Detector!FloodForgotten
    OBVIOUS
  <2>1. CASE kind = "ewma"
    BY <2>1 DEF Fading
  <2>2. CASE kind = "ensemble"
    <3>1. PICK n \in 1 .. AloneInverse : Detector!Forgets(n)
      BY SomeForgets DEF Detector!DetectorsAssumption
    <3>2. Detector!ForgottenAfter \in 1 .. AloneInverse
      BY <2>2, <3>1 DEF Detector!ForgottenAfter
    <3>3. QED
      BY <2>2, <3>2 DEF NoAlarms, Detector!FloodForgotten
  <2>3. QED
    BY <2>1, <2>2 DEF NoAlarms
<1>4. (part = "detector" /\ kind # "zscore" => Detector!FloodForgotten)
        /\ (kind = "zscore" => FloodForgotten) => FloodForgotten
  BY DEF FloodForgotten
<1>. QED
  BY <1>1, <1>2, <1>3, <1>4, ZScoreForgets, PTL DEF AnySpec

------------------------------------------------------------------------------
(* A tree and its scores *)

\* Every node on the way to a leaf is one.
LEMMA PathOfNodes ==
  ASSUME Trees!HalfSpaceTreesAssumption, NEW leaf \in Trees!Leaf, NEW d \in 0 .. MaxDepth
  PROVE  Trees!NodeAt(leaf, d) \in Trees!Node
<1> DEFINE p == 2^MaxDepth
           q == 2^(MaxDepth + 1)
           e == 2^(MaxDepth - d)
           n == leaf \div e
<1>1. MaxDepth \in Nat /\ MaxDepth - d \in 0 .. MaxDepth
  BY DEF Trees!HalfSpaceTreesAssumption
<1>2. p \in Nat \ {0} /\ q = 2 * p
  BY <1>1, PowersDouble DEF Doubled
<1>3. e \in Nat \ {0} /\ e <= p
  BY <1>1, PowersGrow DEF PowersUpTo
<1>4. leaf \in p .. q - 1
  BY DEF Trees!Leaf
<1> HIDE DEF p, q, e, n
<1>5. leaf \in Nat /\ leaf >= e /\ leaf <= q - 1
  BY <1>2, <1>3, <1>4
<1>6. n \in Int /\ n * e <= leaf
  BY <1>3, <1>5, Quotient DEF n
<1>7. 1 <= n
  <2>1. 1 * e <= leaf
    BY <1>3, <1>5
  <2>2. QED
    BY <1>3, <1>5, <2>1, QuotientAtLeast DEF n
<1>8. n <= leaf
  <2>1. n * 1 <= n * e
    <3>1. n \in Nat /\ 1 <= e /\ e \in Int
      BY <1>3, <1>6, <1>7
    <3>2. QED
      BY <3>1, ProductsGrow
  <2>2. n * e \in Int
    BY <1>3, <1>6
  <2>3. QED
    BY <1>5, <1>6, <2>1, <2>2
<1>9. n \in 1 .. q - 1
  BY <1>2, <1>5, <1>6, <1>7, <1>8
<1>. QED
  BY <1>9 DEF Trees!Node, Trees!NodeAt, n, q, e

\* Share x of y in units of u: no more than one.
LEMMA ShareOf ==
  ASSUME NEW u \in Nat, NEW y \in Nat \ {0}, NEW x \in 0 .. y
  PROVE  (u * x) \div y \in 0 .. u
<1> DEFINE q == (u * x) \div y
<1>1. u * x \in Nat /\ u * x <= u * y /\ u * y \in Nat
  <2>1. u * x <= u * y
    BY ProductsGrow
  <2>2. QED
    BY <2>1
<1>2. q \in Int /\ q * y <= u * x
  BY <1>1, Quotient
<1>3. 0 <= q
  <2>1. 0 * y <= u * x
    BY <1>1
  <2>2. QED
    BY <1>1, <2>1, QuotientAtLeast
<1> HIDE DEF q
<1>4. q <= u
  <2> SUFFICES ASSUME u + 1 <= q PROVE FALSE
    BY <1>2
  <2>1. (u + 1) * y <= q * y
    BY <1>2, ProductsGrow
  <2>2. (u + 1) * y = u * y + y /\ q * y \in Int
    BY <1>2
  <2>3. QED
    BY <1>1, <1>2, <2>1, <2>2
<1>. QED
  BY <1>2, <1>3, <1>4 DEF q

Masses ==
  /\ mass \in [Trees!Node -> Nat]
  /\ refMass \in [Trees!Node -> Nat]

LEMMA NodeScores ==
  ASSUME Trees!HalfSpaceTreesAssumption, Masses, NEW n \in Trees!Node
  PROVE  Trees!NodeScore(n) \in 0 .. MassUnit
<1> DEFINE x == Trees!Abs(mass[n] - refMass[n])
           y == refMass[n] + mass[n]
<1>1. mass[n] \in Nat /\ refMass[n] \in Nat /\ MassUnit \in Nat
  BY DEF Masses, Trees!HalfSpaceTreesAssumption
<1>2. y \in Nat /\ x \in 0 .. y
  BY <1>1 DEF Trees!Abs
<1> HIDE DEF x, y
<1>3. Trees!NodeScore(n) = IF y = 0 THEN 0 ELSE (MassUnit * x) \div y
  BY DEF Trees!NodeScore, x, y
<1>4. CASE y = 0
  BY <1>1, <1>3, <1>4
<1>5. CASE y # 0
  <2>1. (MassUnit * x) \div y \in 0 .. MassUnit
    BY <1>1, <1>2, <1>5, ShareOf
  <2>2. QED
    BY <1>3, <1>5, <2>1
<1>. QED
  BY <1>4, <1>5

\* f holds what the upper levels of the path to leaf add up to.
Levels(f, leaf) ==
  f = [d \in 0 .. MaxDepth |->
         2^d * Trees!NodeScore(Trees!NodeAt(leaf, d)) + (IF d = 0 THEN 0 ELSE f[d - 1])]

\* Sums as Levels has them, of any terms.
Stacking(g, n, a) == g = [i \in 0 .. n |-> a[i] + (IF i = 0 THEN 0 ELSE g[i - 1])]

LEMMA StackingExists ==
  ASSUME NEW a
  PROVE  \A n \in Nat : \E g : Stacking(g, n, a)
<1> DEFINE Fine == {n \in Nat : \E g : Stacking(g, n, a)}
<1>1. 0 \in Fine
  <2> DEFINE g == [i \in 0 .. 0 |-> a[i] + 0]
  <2>1. Stacking(g, 0, a)
    BY DEF Stacking
  <2>2. QED
    BY <2>1
<1>2. ASSUME NEW n \in Fine
      PROVE  n + 1 \in Fine
  <2>1. PICK g : Stacking(g, n, a)
    OBVIOUS
  <2> DEFINE h == [i \in 0 .. n + 1 |-> a[i] + (IF i = 0 THEN 0 ELSE g[i - 1])]
  <2>2. ASSUME NEW i \in 0 .. n
        PROVE  h[i] = g[i]
    BY <2>1 DEF Stacking
  <2>3. ASSUME NEW i \in 0 .. n + 1, i # 0
        PROVE  g[i - 1] = h[i - 1]
    <3>1. i - 1 \in 0 .. n
      BY <2>3
    <3>2. QED
      BY <2>2, <3>1
  <2>4. h = [i \in 0 .. n + 1 |-> a[i] + (IF i = 0 THEN 0 ELSE h[i - 1])]
    <3>1. \A i \in 0 .. n + 1 :
            a[i] + (IF i = 0 THEN 0 ELSE g[i - 1]) = a[i] + (IF i = 0 THEN 0 ELSE h[i - 1])
      BY <2>3
    <3>2. h = [i \in 0 .. n + 1 |-> a[i] + (IF i = 0 THEN 0 ELSE g[i - 1])]
      OBVIOUS
    <3> HIDE DEF h
    <3>3. QED
      BY <3>1, <3>2
  <2> HIDE DEF h
  <2>5. Stacking(h, n + 1, a)
    BY <2>4 DEF Stacking
  <2>6. QED
    BY <2>5
<1>3. Fine \in SUBSET Nat
  OBVIOUS
<1>4. Fine = Nat
  <2> HIDE DEF Fine
  <2>1. QED
    BY <1>1, <1>2, <1>3, Induction
<1>. QED
  BY <1>4

LEMMA LevelsExist ==
  ASSUME MaxDepth \in Nat, NEW leaf
  PROVE  \E f : Levels(f, leaf)
<1> DEFINE term(d) == 2^d * Trees!NodeScore(Trees!NodeAt(leaf, d))
           a == [d \in 0 .. MaxDepth |-> term(d)]
<1>1. PICK f : Stacking(f, MaxDepth, a)
  <2> HIDE DEF a
  <2>1. QED
    BY StackingExists
<1>2. \A d \in 0 .. MaxDepth : a[d] = term(d)
  OBVIOUS
<1> HIDE DEF a, term
<1>3. f = [d \in 0 .. MaxDepth |-> term(d) + (IF d = 0 THEN 0 ELSE f[d - 1])]
  BY <1>1, <1>2 DEF Stacking
<1>4. Levels(f, leaf)
  BY <1>3 DEF Levels, term
<1>. QED
  BY <1>4

\* What the levels add up to when no node scores more than k, or each does.
Heights(f, leaf, k) ==
  \A d \in 0 .. MaxDepth :
    /\ f[d] \in Nat
    /\ (\A i \in 0 .. MaxDepth : Trees!NodeScore(Trees!NodeAt(leaf, i)) <= k) =>
         f[d] <= (2^(d + 1) - 1) * k
    /\ (\A i \in 0 .. MaxDepth : Trees!NodeScore(Trees!NodeAt(leaf, i)) = k) =>
         f[d] = (2^(d + 1) - 1) * k

LEMMA NextHeight ==
  ASSUME NEW p \in Nat \ {0}, NEW k \in Nat, NEW c \in Nat, NEW x \in Nat
  PROVE  /\ p * c + x \in Nat
         /\ c <= k /\ x <= (p - 1) * k => p * c + x <= (2 * p - 1) * k
         /\ c = k /\ x = (p - 1) * k => p * c + x = (2 * p - 1) * k
<1>1. p * c \in Nat /\ p * k \in Nat /\ (p - 1) * k \in Int
  OBVIOUS
<1>2. (2 * p - 1) * k = p * k + (p - 1) * k
  OBVIOUS
<1>3. c <= k => p * c <= p * k
  BY ProductsGrow
<1>. QED
  BY <1>1, <1>2, <1>3

LEMMA LevelHeights ==
  ASSUME MaxDepth \in Nat, NEW leaf, NEW k \in Nat, NEW f, Levels(f, leaf),
         \A i \in 0 .. MaxDepth : Trees!NodeScore(Trees!NodeAt(leaf, i)) \in Nat
  PROVE  Heights(f, leaf, k)
<1> DEFINE c(i) == Trees!NodeScore(Trees!NodeAt(leaf, i))
           Low == \A i \in 0 .. MaxDepth : c(i) <= k
           Even == \A i \in 0 .. MaxDepth : c(i) = k
           Right(d) == /\ f[d] \in Nat
                       /\ Low => f[d] <= (2^(d + 1) - 1) * k
                       /\ Even => f[d] = (2^(d + 1) - 1) * k
           Fine == {d \in Nat : d <= MaxDepth => Right(d)}
<1>1. \A d \in 0 .. MaxDepth : f[d] = 2^d * c(d) + (IF d = 0 THEN 0 ELSE f[d - 1])
  <2>1. f = [d \in 0 .. MaxDepth |-> 2^d * c(d) + (IF d = 0 THEN 0 ELSE f[d - 1])]
    BY DEF Levels
  <2> HIDE DEF c
  <2>2. QED
    BY <2>1
<1>2. \A i \in 0 .. MaxDepth : c(i) \in Nat
  OBVIOUS
<1> HIDE DEF c
<1>3. ASSUME NEW d \in 0 .. MaxDepth, NEW x \in Nat, f[d] = 2^d * c(d) + x,
             Low => x <= (2^d - 1) * k, Even => x = (2^d - 1) * k
      PROVE  Right(d)
  <2> DEFINE p == 2^d
             q == 2^(d + 1)
             b == c(d)
  <2>1. p \in Nat \ {0} /\ q = 2 * p
    BY PowersDouble DEF Doubled
  <2>2. b \in Nat /\ (Low => b <= k) /\ (Even => b = k)
    BY <1>2
  <2>3. f[d] = p * b + x /\ (Low => x <= (p - 1) * k) /\ (Even => x = (p - 1) * k)
    BY <1>3
  <2> HIDE DEF p, q, b, Low, Even
  <2>4. /\ f[d] \in Nat
        /\ Low => f[d] <= (q - 1) * k
        /\ Even => f[d] = (q - 1) * k
    BY <2>1, <2>2, <2>3, NextHeight
  <2>5. QED
    BY <2>4 DEF q
<1>4. 0 \in Fine
  <2>1. 2^0 - 1 = 0 /\ 0 * k = 0
    BY PowerOfZero
  <2>2. f[0] = 2^0 * c(0) + 0
    <3> DEFINE t(d) == 2^d * c(d)
    <3>1. \A d \in 0 .. MaxDepth : f[d] = t(d) + (IF d = 0 THEN 0 ELSE f[d - 1])
      BY <1>1
    <3> HIDE DEF t
    <3>2. f[0] = t(0) + 0
      BY <3>1
    <3>3. QED
      BY <3>2 DEF t
  <2> HIDE DEF Low, Even
  <2>3. Right(0)
    <3> HIDE DEF Right
    <3>1. 0 \in 0 .. MaxDepth /\ 0 \in Nat /\ 0 = (2^0 - 1) * k /\ 0 <= (2^0 - 1) * k
      BY <2>1
    <3>2. QED
      BY <1>3, <2>2, <3>1
  <2>4. QED
    BY <2>3
<1>5. ASSUME NEW d \in Fine
      PROVE  d + 1 \in Fine
  <2> HIDE DEF Low, Even
  <2> SUFFICES ASSUME d + 1 <= MaxDepth
               PROVE  Right(d + 1)
    OBVIOUS
  <2>1. d \in Nat /\ Right(d) /\ d + 1 \in 0 .. MaxDepth /\ d + 1 # 0 /\ (d + 1) - 1 = d
    OBVIOUS
  <2>2. f[d + 1] = 2^(d + 1) * c(d + 1) + f[d]
    BY <1>1, <2>1
  <2>3. f[d] \in Nat /\ (Low => f[d] <= (2^(d + 1) - 1) * k) /\ (Even => f[d] = (2^(d + 1) - 1) * k)
    BY <2>1
  <2> HIDE DEF Right
  <2>4. QED
    BY <1>3, <2>1, <2>2, <2>3
<1>6. Fine \in SUBSET Nat
  OBVIOUS
<1>7. Fine = Nat
  <2> HIDE DEF Fine
  <2>1. QED
    BY <1>4, <1>5, <1>6, Induction
<1>8. \A d \in 0 .. MaxDepth : Right(d)
  <2> HIDE DEF Right
  <2>1. QED
    BY <1>7
<1>. QED
  BY <1>8 DEF Heights, c

\* Along the path of the only leaf of a window, masses count its samples.
Weighed ==
  /\ Masses
  /\ samplesSeen \in 0 .. WindowSize - 1 /\ trained \in BOOLEAN
  /\ \A leaf \in Trees!Leaf :
       /\ seen \subseteq {leaf} => \A n \in Trees!Path(leaf) : mass[n] = samplesSeen
       /\ trained /\ refSeen = {leaf} => \A n \in Trees!Path(leaf) : refMass[n] = WindowSize

LEMMA PathsOfNodes ==
  ASSUME Trees!HalfSpaceTreesAssumption
  PROVE  \A leaf \in Trees!Leaf : Trees!Path(leaf) \subseteq Trees!Node
BY PathOfNodes DEF Trees!Path

LEMMA WeighedInit ==
  ASSUME Trees!HalfSpaceTreesAssumption, Trees!Init
  PROVE  Weighed
<1>1. 0 \in 0 .. WindowSize - 1
  <2>1. WindowSize \in Nat \ {0}
    BY DEF Trees!HalfSpaceTreesAssumption
  <2>2. QED
    BY <2>1
<1>2. \A leaf \in Trees!Leaf : \A n \in Trees!Path(leaf) : mass[n] = 0
  BY PathsOfNodes DEF Trees!Init
<1>3. Masses
  BY DEF Trees!Init, Masses
<1>. QED
  BY <1>1, <1>2, <1>3 DEF Trees!Init, Weighed

LEMMA WeighedStep ==
  ASSUME Trees!HalfSpaceTreesAssumption, Weighed, [Trees!Next]_Trees!vars
  PROVE  Weighed'
<1>1. ASSUME NEW l \in Trees!Leaf, Trees!Update(l)
      PROVE  Weighed'
  <2> DEFINE more == Trees!Inserted(l)
  <2>1. /\ mass \in [Trees!Node -> Nat] /\ refMass \in [Trees!Node -> Nat]
        /\ samplesSeen \in 0 .. WindowSize - 1 /\ WindowSize \in Nat \ {0}
    BY DEF Weighed, Masses, Trees!HalfSpaceTreesAssumption
  <2>2. /\ more \in [Trees!Node -> Nat]
        /\ \A n \in Trees!Path(l) : more[n] = mass[n] + 1
    BY <2>1, PathsOfNodes DEF Trees!Inserted
  <2> HIDE DEF more
  <2>3. \A leaf \in Trees!Leaf :
          seen \cup {l} \subseteq {leaf} =>
            leaf = l /\ \A n \in Trees!Path(leaf) : more[n] = samplesSeen + 1
    BY <2>2 DEF Weighed
  <2>4. CASE Trees!Full(samplesSeen + 1)
    <3>1. samplesSeen + 1 = WindowSize
      BY <2>1, <2>4 DEF Trees!Full
    <3>2. /\ refMass' = more /\ mass' = [n \in Trees!Node |-> 0]
          /\ samplesSeen' = 0 /\ trained' = TRUE
          /\ refSeen' = seen \cup {l} /\ seen' = {}
      BY <1>1, <2>4 DEF Trees!Update, more
    <3>3. Masses'
      BY <2>2, <3>2 DEF Masses
    <3>4. ASSUME NEW leaf \in Trees!Leaf
          PROVE  /\ \A n \in Trees!Path(leaf) : mass'[n] = samplesSeen'
                 /\ refSeen' = {leaf} => \A n \in Trees!Path(leaf) : refMass'[n] = WindowSize
      <4>1. \A n \in Trees!Path(leaf) : mass'[n] = samplesSeen'
        BY <3>2, PathsOfNodes
      <4>2. QED
        BY <2>3, <3>1, <3>2, <4>1
    <3>5. 0 \in 0 .. WindowSize - 1
      BY <2>1
    <3>6. QED
      BY <3>2, <3>3, <3>4, <3>5 DEF Weighed
  <2>5. CASE ~Trees!Full(samplesSeen + 1)
    <3>1. samplesSeen + 1 \in 0 .. WindowSize - 1
      BY <2>1, <2>5 DEF Trees!Full
    <3>2. /\ mass' = more /\ samplesSeen' = samplesSeen + 1 /\ seen' = seen \cup {l}
          /\ refMass' = refMass /\ trained' = trained /\ refSeen' = refSeen
      BY <1>1, <2>5 DEF Trees!Update, more
    <3>3. Masses'
      BY <2>1, <2>2, <3>2 DEF Masses
    <3>4. ASSUME NEW leaf \in Trees!Leaf
          PROVE  /\ seen' \subseteq {leaf} => \A n \in Trees!Path(leaf) : mass'[n] = samplesSeen'
                 /\ trained' /\ refSeen' = {leaf} => \A n \in Trees!Path(leaf) : refMass'[n] = WindowSize
      BY <2>3, <3>2 DEF Weighed
    <3>5. trained' \in BOOLEAN
      BY <3>2 DEF Weighed
    <3>6. QED
      BY <3>1, <3>2, <3>3, <3>4, <3>5 DEF Weighed
  <2>6. QED
    BY <2>4, <2>5
<1>2. CASE UNCHANGED Trees!vars
  BY <1>2 DEF Trees!vars, Weighed, Masses
<1>. QED
  BY <1>1, <1>2 DEF Trees!Next

LEMMA WeighedScores ==
  ASSUME Trees!HalfSpaceTreesAssumption, Weighed
  PROVE  Trees!SteadyScore
<1> SUFFICES ASSUME NEW leaf \in Trees!Leaf
             PROVE  /\ Trees!Score(leaf) <= Trees!Largest * MassUnit
                    /\ trained /\ refSeen = {leaf} /\ seen \subseteq {leaf} =>
                         Trees!Score(leaf)
                           = Trees!Largest * ((MassUnit * (WindowSize - samplesSeen)) \div (WindowSize + samplesSeen))
  BY DEF Trees!SteadyScore
<1> DEFINE c(d) == Trees!NodeScore(Trees!NodeAt(leaf, d))
           f == CHOOSE g : Levels(g, leaf)
           k == (MassUnit * (WindowSize - samplesSeen)) \div (WindowSize + samplesSeen)
<1>1. /\ MaxDepth \in Nat /\ WindowSize \in Nat \ {0} /\ MassUnit \in Nat
      /\ samplesSeen \in 0 .. WindowSize - 1
  BY DEF Trees!HalfSpaceTreesAssumption, Weighed
<1>2. Levels(f, leaf)
  BY <1>1, LevelsExist
<1>3. Trees!Score(leaf) = IF trained THEN f[MaxDepth] ELSE 0
  BY DEF Trees!Score, Levels
<1>4. \A d \in 0 .. MaxDepth : c(d) \in 0 .. MassUnit
  BY PathOfNodes, NodeScores DEF Weighed
<1> HIDE DEF f
<1>5. \A d \in 0 .. MaxDepth : c(d) \in Nat /\ c(d) <= MassUnit
  BY <1>1, <1>4
<1>6. f[MaxDepth] <= Trees!Largest * MassUnit
  <2>1. Heights(f, leaf, MassUnit)
    BY <1>1, <1>2, <1>5, LevelHeights
  <2>2. MaxDepth \in 0 .. MaxDepth
    BY <1>1
  <2>3. QED
    BY <1>5, <2>1, <2>2 DEF Heights, Trees!Largest
<1>7. 0 <= Trees!Largest * MassUnit
  <2> DEFINE q == 2^(MaxDepth + 1)
  <2>1. q \in Nat \ {0}
    BY <1>1, PowersDouble DEF Doubled
  <2> HIDE DEF q
  <2>2. 0 <= (q - 1) * MassUnit
    <3>1. q - 1 \in Nat
      BY <2>1
    <3>2. QED
      BY <1>1, <3>1
  <2>3. QED
    BY <2>2 DEF q, Trees!Largest
<1>8. ASSUME trained, refSeen = {leaf}, seen \subseteq {leaf}
      PROVE  f[MaxDepth] = Trees!Largest * k
  <2>1. ASSUME NEW d \in 0 .. MaxDepth
        PROVE  c(d) = k
    <3> DEFINE n == Trees!NodeAt(leaf, d)
    <3>1. n \in Trees!Path(leaf)
      BY DEF Trees!Path
    <3>2. mass[n] = samplesSeen /\ refMass[n] = WindowSize
      BY <1>8, <3>1 DEF Weighed
    <3> HIDE DEF n
    <3>3. Trees!Abs(mass[n] - refMass[n]) = WindowSize - samplesSeen
      BY <1>1, <3>2 DEF Trees!Abs
    <3>4. refMass[n] + mass[n] = WindowSize + samplesSeen /\ WindowSize + samplesSeen # 0
      BY <1>1, <3>2
    <3>5. Trees!NodeScore(n) = k
      BY <3>3, <3>4 DEF Trees!NodeScore
    <3>6. QED
      BY <3>5 DEF n
  <2>2. k \in Nat
    <3>1. MaxDepth \in 0 .. MaxDepth
      BY <1>1
    <3>2. QED
      BY <1>5, <2>1, <3>1
  <2> HIDE DEF k
  <2>3. Heights(f, leaf, k)
    BY <1>1, <1>2, <1>5, <2>2, LevelHeights
  <2>4. MaxDepth \in 0 .. MaxDepth
    BY <1>1
  <2>5. QED
    BY <2>1, <2>3, <2>4 DEF Heights, Trees!Largest
<1> HIDE DEF k
<1>9. Trees!Score(leaf) <= Trees!Largest * MassUnit
  BY <1>3, <1>6, <1>7
<1>10. trained /\ refSeen = {leaf} /\ seen \subseteq {leaf} => Trees!Score(leaf) = Trees!Largest * k
  BY <1>3, <1>8
<1>. QED
  BY <1>9, <1>10 DEF k

\* For trees of any depth and windows of any size: what a sample scores is
\* bounded, and traffic that never changes is scored by the age of the window.
THEOREM SteadyIsScored == AnySpec => []SteadyScore
<1> DEFINE Inv == part = "trees" => Weighed
<1> USE ComponentsAssumption DEF ComponentsAssumption
<1>1. AnyInit => Inv
  BY WeighedInit DEF AnyInit
<1>2. Inv /\ [AnyNext]_anyVars => Inv'
  BY StepOfPart, WeighedStep
<1>3. Inv => SteadyScore
  BY WeighedScores DEF SteadyScore
<1>. QED
  BY <1>1, <1>2, <1>3, PTL DEF AnySpec
==============================================================================
