-------------------------------- MODULE Risk --------------------------------
(* Risk scoring (src/internal/risk): a canonical finding is given factors, *)
(* a score from 0 to 100 and a priority, and the findings are ranked.      *)
(* Confidences and multipliers are in hundredths. The product is rounded   *)
(* to the nearest integer, a half upwards, as math.Round does.             *)
EXTENDS Correlation

CONSTANT IdDigest(_)   \* order of identities by class and digest

ConfidenceTier(c) == CASE c >= 75 -> "HIGH" [] c >= 40 /\ c < 75 -> "MEDIUM" [] c < 40 -> "LOW"

VerificationTier(cf) ==
  IF cf.status = "CONFIRMED" THEN "VERIFIED"
  ELSE IF ConfidenceTier(cf.confidence) = "HIGH" THEN "SUSPICIOUS" ELSE "UNVERIFIED"

(* The orchestrator knows nothing of the assets: it passes no context.     *)
DeriveFactors(cf) ==
  [severity |-> cf.severity, confidence |-> ConfidenceTier(cf.confidence),
   verification |-> VerificationTier(cf), exposure |-> "UNKNOWN"]

SeverityBase(s) == <<10, 10, 20, 40, 70, 90>>[RankOfSeverity(s) + 1]
ConfidenceMultiplier == [LOW |-> 50, MEDIUM |-> 75, HIGH |-> 100]
VerificationMultiplier == [UNVERIFIED |-> 70, SUSPICIOUS |-> 85, VERIFIED |-> 100]
ExposureMultiplier == [INTERNAL |-> 60, RESTRICTED |-> 75, INTERNET_FACING |-> 100, UNKNOWN |-> 70]

Clamp(n) == Min({100, Max({0, n})})

(* The product of the doubles, left to right. Where the exact product is a *)
(* half, the doubles give that half too, but for 45 * 0.70, which comes    *)
(* out just below 31.5 and is rounded down.                                *)
Score(factors) ==
  LET base == SeverityBase(factors.severity)
      confidence == ConfidenceMultiplier[factors.confidence]
      millionths == base * confidence * VerificationMultiplier[factors.verification]
                      * ExposureMultiplier[factors.exposure]
  IN  IF base * confidence = 4500 /\ millionths = 31500000 THEN 31
      ELSE Clamp((2 * millionths + 1000000) \div 2000000)

Priority(score) ==
  CASE score >= 90 -> "CRITICAL" [] score \in 75..89 -> "HIGH"
  []   score \in 50..74 -> "MEDIUM" [] score < 50 -> "LOW"

Assess(cf) ==
  [finding |-> cf.id, severity |-> cf.severity, factors |-> DeriveFactors(cf),
   score |-> Score(DeriveFactors(cf)), priority |-> Priority(Score(DeriveFactors(cf)))]

------------------------------------------------------------------------------
ConfidenceRank == [LOW |-> 0, MEDIUM |-> 1, HIGH |-> 2]
VerificationRank == [UNVERIFIED |-> 0, SUSPICIOUS |-> 1, VERIFIED |-> 2]

(* What an assessment is ranked by, in this order.                         *)
Keys(a) ==
  <<-a.score, -RankOfSeverity(a.severity), -ConfidenceRank[a.factors.confidence],
    -VerificationRank[a.factors.verification], a.finding.host, a.finding.path,
    IdDigest(a.finding)>>

LessBy(k, l) ==
  \E i \in DOMAIN k : k[i] < l[i] /\ \A j \in 1..(i - 1) : k[j] = l[j]

RankedBefore(a, b) == LessBy(Keys(a), Keys(b))

Rank(assessments) == Sorted(assessments, RankedBefore)

------------------------------------------------------------------------------
(* A finding that is worse in one factor, and not better in another, never *)
(* scores less; no finding without an asset's context reaches CRITICAL.    *)
AllFactors ==
  [severity : {Severities[i] : i \in 1..5} \cup {"unheard of"}, confidence : DOMAIN ConfidenceRank,
   verification : DOMAIN VerificationRank, exposure : DOMAIN ExposureMultiplier]

WorseScoresMore ==
  \A f, g \in AllFactors :
     /\ RankOfSeverity(f.severity) <= RankOfSeverity(g.severity)
     /\ ConfidenceRank[f.confidence] <= ConfidenceRank[g.confidence]
     /\ VerificationRank[f.verification] <= VerificationRank[g.verification]
     /\ ExposureMultiplier[f.exposure] <= ExposureMultiplier[g.exposure]
     => Score(f) <= Score(g)
=============================================================================
