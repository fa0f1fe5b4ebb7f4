---------------------------- MODULE MLPredictor ----------------------------
(***************************************************************************)
(* user/ml_predictor.cpp: the scores by which the scan scheduler ranks     *)
(* processes and regions, in hundredths.  A name stands for the words the  *)
(* predictor searches for in it; the reason texts are left out.            *)
(***************************************************************************)
EXTENDS Integers

\* What a feature adds to a score.
Bonus(feature, points) == IF feature THEN points ELSE 0

clampScore(value) == IF value < 0 THEN 0 ELSE IF value > 100 THEN 100 ELSE value

predictProcess(words, pageCount) ==
    clampScore(10 + Bonus("browser" \in words, 35)
                  + Bonus("electron" \in words, 30)
                  + Bonus(words \cap {"vm", "virtual"} # {}, 25)
                  + Bonus(pageCount > 64, 15)
                  - Bonus(pageCount < 16, 5))

\* Mutant: tabs earn nothing.
predictRegionNoTabs(words, pageCount) ==
    clampScore(5 + Bonus("cache" \in words, 30)
                 + Bonus(pageCount > 32, 10)
                 - Bonus(pageCount < 8, 5))

predictRegion(words, pageCount) ==
    clampScore(5 + Bonus("tab" \in words, 40)
                 + Bonus("cache" \in words, 30)
                 + Bonus(pageCount > 32, 10)
                 - Bonus(pageCount < 8, 5))
=============================================================================
