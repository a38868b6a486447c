------------------------------ MODULE FeedScore ------------------------------
(***************************************************************************)
(* computeRankingScore of the feed, in ten-thousandths.  The exponential   *)
(* is a parameter: any table that starts at 1 and never increases.         *)
(***************************************************************************)
EXTENDS Integers

CONSTANTS
    MaxAge,  \* bound: the greatest age looked at
    Recency  \* Recency[age]: e^(-DECAY_LAMBDA * age), in thousandths

Ages == 0..MaxAge

ASSUME RecencyAssumption ==
    /\ MaxAge \in Nat
    /\ Recency \in [Ages -> Nat]
    /\ \A a \in Ages : Recency[a] <= 1000
    /\ \A a, b \in Ages : a <= b => Recency[b] <= Recency[a]

EngagementCap == 50

recencyScore(age) == Recency[age]

engagementScore(helpful) == IF helpful >= EngagementCap THEN 1000
                            ELSE (1000 * helpful) \div EngagementCap

\* The parameters of a score.
ScoreParams == [age : Ages, helpful : Nat, cityMatch : BOOLEAN, categoryMatch : BOOLEAN,
                wasFlagged : BOOLEAN]

locationMatch(p) == IF p.cityMatch THEN 1000 ELSE 500
catMatch(p) == IF p.categoryMatch THEN 1000 ELSE 0
penalty(p) == IF p.wasFlagged THEN 5000 ELSE 0

Clamp(low, high, n) == IF n < low THEN low ELSE IF n > high THEN high ELSE n

computeRankingScore(p) ==
    Clamp(0, 10000,
          4 * recencyScore(p.age)
          + 3 * engagementScore(p.helpful)
          + 2 * locationMatch(p)
          + catMatch(p)
          - penalty(p))
==============================================================================
