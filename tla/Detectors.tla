------------------------------- MODULE Detectors -------------------------------
(***************************************************************************)
(* The statistical detectors (ddos/detector): a z-score over the history   *)
(* of counts or a moving average alone, or both with two learning          *)
(* detectors in an ensemble.                                               *)
(*                                                                         *)
(* Only one goroutine calls them, once per check.  Scores are per mille.   *)
(* A sigmoid is known at whole numbers and free between its neighbours;    *)
(* the moving average is kept in units of 1/Unit, rounded down; what LODA  *)
(* and the half-space trees make of a sample is free once they are trained.*)
(***************************************************************************)
EXTENDS Integers, Sequences

CONSTANTS
  Counts,       \* distinct sources in a window
  MinHistory,   \* counts the z-score needs, 5
  MaxHistory,   \* counts it keeps, 60 in the ensemble and 20 alone
  Squared,      \* the square of its sensitivity, 3.0
  AlphaInverse, \* 1 / alpha of the moving average, 20 in the ensemble
  AloneInverse, \* the same alone, 5
  EwmaWarmup,   \* counts the moving average needs alone, 5
  Deviation,    \* and how often it must be exceeded beyond itself, 2
  Unit,
  LodaWarmup,   \* samples until LODA is trained, 10
  HstWindow,    \* samples until the half-space trees are, 50
  Threshold     \* above it the ensemble signals an attack, 600

\* Counts have a largest value, and a full history is not empty.
DetectorsAssumption ==
  /\ Counts \subseteq Nat /\ \E c \in Counts : \A d \in Counts : d <= c
  /\ {Squared, Deviation, EwmaWarmup, LodaWarmup, HstWindow, Threshold} \subseteq Nat
  /\ {MinHistory, MaxHistory, AlphaInverse, AloneInverse, Unit} \subseteq Nat \ {0}

VARIABLES
  kind,      \* the detector: "ensemble", "zscore" or "ewma"
  history,   \* ZScoreDetector.history
  ewma,      \* EWMADetector.ewma, NoBaseline before the first sample
  samples,   \* of LODA and the trees, or seen by the moving average alone
  last,      \* lastComponents.EnsembleScore
  attack,    \* what the last IsAttack returned
  \* History variables
  current,   \* the count it was asked about
  least,     \* the least count the baselines have seen
  level,     \* the count of a sure attack that has not abated, or NoLevel
  alarms     \* attacks in a row with counts that did not rise

vars == <<kind, history, ewma, samples, last, attack, current, least, level, alarms>>

NoBaseline == -1
NoLevel == -1
LargestCount == CHOOSE c \in Counts : \A d \in Counts : d <= c
MaxSamples == IF LodaWarmup > HstWindow THEN LodaWarmup ELSE HstWindow
MaxAlarms == MaxHistory

Init ==
  /\ kind \in {"ensemble", "zscore", "ewma"}
  /\ history = <<>>
  /\ ewma = NoBaseline
  /\ samples = 0
  /\ last = 0
  /\ attack = FALSE
  /\ current = 0
  /\ least = LargestCount
  /\ level = NoLevel
  /\ alarms = 0

------------------------------------------------------------------------------
(* ZScoreDetector *)

Power(c, k) == IF k = 1 THEN c ELSE c * c

PowerSum(s, k) ==
  LET sum[i \in 0 .. Len(s)] == IF i = 0 THEN 0 ELSE sum[i - 1] + Power(s[i], k)
  IN sum[Len(s)]

\* n times the distance of c from the mean, and n^2 times the variance.
Distance(h, c) == Len(h) * c - PowerSum(h, 1)
Spread(h) == Len(h) * PowerSum(h, 2) - PowerSum(h, 1) * PowerSum(h, 1)

\* appendHistory
Appended(h, c) == Append(IF Len(h) >= MaxHistory THEN Tail(h) ELSE h, c)

\* (c - mean) / stddev > sensitivity, without the roots.
Exceeds(h, c) ==
  /\ Len(h) >= MinHistory
  /\ Distance(h, c) > 0
  /\ Distance(h, c) * Distance(h, c) > Squared * Spread(h)

\* History: attacks in a row whose counts did not rise.
Alarm(c) ==
  /\ current' = c
  /\ alarms' = IF ~attack' THEN 0
               ELSE IF attack /\ c <= current /\ alarms < MaxAlarms THEN alarms + 1 ELSE 1

\* Mutant of ZScoreCheck: an attack is not remembered.
ZScoreCheckFreezes(c) ==
  /\ kind = "zscore"
  /\ attack' = Exceeds(history, c)
  /\ history' = IF attack' THEN history ELSE Appended(history, c)
  /\ Alarm(c)
  /\ UNCHANGED <<kind, ewma, samples, last, least, level>>

\* IsAttack of the z-score alone: the current count, of an unfinished window,
\* is compared and then remembered whatever came of it.
ZScoreCheck(c) ==
  /\ kind = "zscore"
  /\ attack' = Exceeds(history, c)
  /\ history' = Appended(history, c)
  /\ Alarm(c)
  /\ UNCHANGED <<kind, ewma, samples, last, least, level>>

------------------------------------------------------------------------------
(* EWMADetector *)

\* EWMADetector.IsAttack, of which the ensemble uses the baseline only.
Smoothed(e, c, inverse) ==
  IF e = NoBaseline THEN Unit * c ELSE (Unit * c + (inverse - 1) * e) \div inverse

\* The moving average alone: the count is compared with the baseline from
\* before it, and moves it whatever came of it.
EwmaCheck(c) ==
  /\ kind = "ewma"
  /\ attack' = (samples + 1 > EwmaWarmup /\ ewma > 0 /\ Unit * c > ewma * (1 + Deviation))
  /\ ewma' = Smoothed(ewma, c, AloneInverse)
  /\ samples' = IF samples < EwmaWarmup THEN samples + 1 ELSE samples
  /\ Alarm(c)
  /\ UNCHANGED <<kind, history, last, least, level>>

------------------------------------------------------------------------------
(* EnsembleDetector *)

\* 1000 / (1 + e^-x), to the nearest whole number.
Sigmoid(x) ==
  LET table == <<1, 2, 7, 18, 47, 119, 269, 500, 731, 881, 953, 982, 993, 998, 999>>
  IN IF x < -7 THEN 0 ELSE IF x > 7 THEN 1000 ELSE table[x + 8]

\* The whole numbers around a quotient: floor and ceiling.
Around(numerator, denominator) ==
  LET below == numerator \div denominator
  IN <<below, IF below * denominator = numerator THEN below ELSE below + 1>>

\* k <= d / sqrt(v)
AtLeast(d, v, k) == IF k >= 0 THEN d >= 0 /\ k * k * v <= d * d ELSE d >= 0 \/ d * d <= k * k * v

\* computeZScoreNorm, as the whole numbers around it; beyond -9 and 11 its
\* sigmoid is 0 or 1000.
ZScore(h, c) ==
  LET d == Distance(h, c)
      v == Spread(h)
      below == CHOOSE k \in -9 .. 11 :
                 (AtLeast(d, v, k) \/ k = -9) /\ (k = 11 \/ ~AtLeast(d, v, k + 1))
  IN IF Len(h) < MinHistory THEN <<0, 0>>
     ELSE IF v = 0 THEN IF d > 0 THEN <<5, 5>> ELSE <<0, 0>>
     ELSE <<below, IF below * below * v = d * d THEN below ELSE below + 1>>

\* computeEWMAResidual
Residual(e, c) == IF e <= 0 THEN <<0, 0>> ELSE Around(Unit * c - e, e)

\* Mutant of DefaultWeights: the defaults of EnsembleWeights' comments.
CommentedWeights == [loda |-> 400, hst |-> 300, zscore |-> 200, ewma |-> 100]

\* DefaultEnsembleWeights
DefaultWeights == [loda |-> 150, hst |-> 150, zscore |-> 400, ewma |-> 300]

\* Score, for given norms of its parts: those not trained are left out.
Combined(n, z, e, loda, hst) ==
  LET w == DefaultWeights
      wl == IF n >= LodaWarmup THEN w.loda ELSE 0
      wh == IF n >= HstWindow THEN w.hst ELSE 0
  IN (wl * loda + wh * hst + w.zscore * Sigmoid(z - 3) + w.ewma * Sigmoid(e - 2))
       \div (wl + wh + w.zscore + w.ewma)

\* The least and the largest score that the learning detectors leave open.
LeastScore(n, h, e, c) == Combined(n, ZScore(h, c)[1], Residual(e, c)[1], 0, 0)
LargestScore(n, h, e, c) == Combined(n, ZScore(h, c)[2], Residual(e, c)[2], 1000, 1000)

\* Mutant of Feeds: the baselines learn from every window.
FeedsAlways == TRUE

\* The baselines learn as long as the last score was no attack.
Feeds == last < Threshold

\* The count of the finished window, or of the current one as long as there is none.
Learnt(prev, cur) == IF prev > 0 THEN prev ELSE cur

\* IsAttack of the ensemble: the parts learn first and judge then.
EnsembleCheck(prev, cur) ==
  /\ kind = "ensemble"
  /\ LET h == IF Feeds THEN Appended(history, Learnt(prev, cur)) ELSE history
         e == IF Feeds THEN Smoothed(ewma, Learnt(prev, cur), AlphaInverse) ELSE ewma
         n == IF samples < MaxSamples THEN samples + 1 ELSE samples
         low == LeastScore(n, h, e, prev)
         high == LargestScore(n, h, e, prev)
     IN /\ history' = h
        /\ ewma' = e
        /\ samples' = n
        /\ \E s \in {low, high} \cup ({Threshold} \cap low .. high) :
             last' = s /\ attack' = (s > Threshold)
        /\ least' = IF Feeds /\ Learnt(prev, cur) < least THEN Learnt(prev, cur) ELSE least
        /\ level' = IF level # NoLevel /\ prev >= level THEN level
                    ELSE IF LeastScore(MaxSamples, h, e, prev) > Threshold THEN prev ELSE NoLevel
  /\ current' = prev
  /\ UNCHANGED <<kind, alarms>>

\* The current count matters to the baselines in the first window only.
Next ==
  \/ \E c \in Counts : ZScoreCheck(c) \/ EwmaCheck(c)
  \/ \E prev, cur \in Counts : (prev > 0 => cur = prev) /\ EnsembleCheck(prev, cur)

Spec == Init /\ [][Next]_vars

------------------------------------------------------------------------------
(* Properties *)

\* A window with no more sources than the baselines have ever seen is no
\* attack, whatever the learning detectors make of it.
QuietIsNormal == kind = "ensemble" /\ current <= least => ~attack

\* An attack that the statistical detectors are sure of stays one as long as
\* it does not abate: freezing the baselines "prevents attack traffic from
\* contaminating" them (ensemble.go:190).
FloodLasts == level # NoLevel => attack

\* n counts weigh All(n) - Old(n) in the average, what was there before Old(n).
Powers(b) == LET p[n \in 0 .. AloneInverse] == IF n = 0 THEN 1 ELSE b * p[n - 1] IN p
All(n) == Powers(AloneInverse)[n]
Old(n) == Powers(AloneInverse - 1)[n]
Reached(n) == (1 + Deviation) * (All(n) - Old(n)) >= All(n)
Forgets(n) == Reached(n) /\ \A k \in 1 .. n - 1 : ~Reached(k)

\* What rounding takes of the average of a single source does not hide that it
\* is within the deviation.
FineUnit ==
  \A n \in 1 .. AloneInverse : Forgets(n) =>
    (1 + Deviation) * ((Unit - (AloneInverse - 1)) * (All(n) - Old(n)) + Old(n)) > (Unit - 1) * All(n)

\* Alone the z-score and the moving average forget a steady flood, since they
\* learn from it: no more than so many checks in a row that do not rise are
\* attacks.  The history takes a share 1 / (1 + Squared) of them, and the
\* average comes within the deviation of the flood.
ForgottenAfter ==
  IF kind = "zscore" THEN (MaxHistory - 1) \div (1 + Squared) + 1
  ELSE CHOOSE n \in 1 .. AloneInverse : Forgets(n)
FloodForgotten == alarms <= ForgottenAfter
==============================================================================
