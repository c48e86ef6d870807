------------------------------ MODULE Predictions ------------------------------
(***************************************************************************)
(* Next-day predictions: which features are known, whether the trained     *)
(* models (psx-inference) or the heuristic answers, and how the ensemble   *)
(* turns three sub-model probabilities into one with a confidence.         *)
(* Probabilities are in percent.                                           *)
(***************************************************************************)
EXTENDS Fractions, Sequences, SequencesExt, FiniteSetsExt

MIN_BARS_FOR_PREDICTION == 80

\* _market_context: the two market returns are not wired in.
_market_context(kibor, fxRows) ==
    [kse100_return_pct |-> FALSE, sector_return_pct |-> FALSE,
     kibor_6m_pct |-> kibor, pkr_usd_change_pct |-> fxRows = 2]

\* Is each feature a number?  Those of the prices need up to 50 bars (windows);
\* Bollinger's %B also needs bands apart, some change among the last 20 closes (moved).
compute_features(n, moved, context) ==
    [windows |-> n >= 50, bollinger_pct_b |-> n >= 20 /\ moved] @@ context

-----------------------------------------------------------------------------
Mean(probs) == Over(Num(FoldLeft(LAMBDA a, p : a + p, 0, probs)), Len(probs))
SquaredSpread(probs) ==
    FoldLeft(LAMBDA a, p : Plus(a, Times(Minus(Num(p), Mean(probs)), Minus(Num(p), Mean(probs)))), Zero, probs)

\* Contracted toward 50 by 0.4 of the spread, and kept within 1 .. 99.
_stacked_probability(probs) ==
    LET mean == Mean(probs)
        spread == Max(Range(probs)) - Min(Range(probs))
        contracted == Minus(mean, Times(Minus(mean, Num(50)), Fraction(4 * spread, 1000)))
    IN  Larger(Num(1), Smaller(Num(99), contracted))

\* The heuristic's label: 1 - 12 * (sample variance), in hundredths of percent squared.
_confidence(probs) ==
    LET score == IF Len(probs) < 2 THEN Zero
                 ELSE Larger(Zero, Minus(Num(10000), Times(Num(12), Over(SquaredSpread(probs), Len(probs) - 1))))
    IN  [score |-> score,
         label |-> IF Less(Num(7500), score) THEN "high" ELSE IF Less(Num(4500), score) THEN "medium" ELSE "low"]

\* psx-inference's label: population variance against 0.05 and 0.15 squared.
_confidence_from_subs(probs) ==
    LET variance == Over(SquaredSpread(probs), Len(probs))
    IN  IF probs = <<>> THEN "low" ELSE IF Len(probs) = 1 THEN "medium"
        ELSE IF Less(variance, Num(25)) THEN "high" ELSE IF Less(Num(225), variance) THEN "low" ELSE "medium"

-----------------------------------------------------------------------------
(***************************************************************************)
(* psx-inference.  A bundle is its sub-models' probabilities by key, and   *)
(* the meta-model's answer or None; without a window the LSTM is skipped.  *)
(***************************************************************************)
inference_predict(bundle, window) ==
    LET subs == SelectSeq(bundle.subs, LAMBDA s : s.key # "lstm" \/ window)
        probs == [i \in DOMAIN subs |-> subs[i].prob]
    IN  IF subs = <<>> THEN [status |-> 200, disabled |-> TRUE]
        ELSE [status |-> 200, disabled |-> FALSE, probs |-> probs,
              confidence |-> _confidence_from_subs(probs),
              prob_up |-> IF bundle.meta = None THEN Mean(probs) ELSE bundle.meta]

\* load: a bundle with a missing sub-model is left out of the registry.
load(found) == found # "none" /\ found # "incomplete"

\* PredictRequest takes numbers only: a feature that is None is refused
\* before the symbol is looked up.
post_predict(features, found, bundle, window) ==
    IF \E f \in DOMAIN features : ~features[f] THEN [status |-> 422]
    ELSE IF ~load(found) THEN [status |-> 404]
    ELSE inference_predict(bundle, window)

\* No URL, unreachable, an error status: None, and the heuristic answers.
_try_remote_predict(remote, features) ==
    LET answer == IF remote.service = "up" THEN post_predict(features, remote.found, remote.bundle, FALSE)
                  ELSE [status |-> 0]
    IN  IF answer.status # 200 THEN [model |-> "none"]
        ELSE IF answer.disabled THEN [model |-> "real-v1", probability |-> Num(50), confidence |-> "low"]
        ELSE [model |-> "real-v1", probability |-> answer.prob_up, confidence |-> answer.confidence]

predict(remote, features, proxies) ==
    LET real == _try_remote_predict(remote, features)
    IN  IF real.model # "none" THEN real
        ELSE [model |-> "heuristic-v0.1.0", probability |-> _stacked_probability(proxies),
              confidence |-> _confidence(proxies).label]

\* _persist: every answer is one more row (no index makes a day's answer unique);
\* a row that is refused, its security gone since, is rolled back and not missed.
_persist(stored, answer, refused) == IF refused THEN stored ELSE Append(stored, answer)

\* PredictionService.predict for a security's bars: their number, whether every price is
\* there (float(None) raises) and whether the closes moved.
PredictionFor(security, context, remote, proxies, stored, refused) ==
    LET answer == predict(remote, compute_features(security.bars, security.moved, context), proxies)
    IN  IF ~security.known THEN [status |-> 404, stored |-> stored]
        ELSE IF security.bars < MIN_BARS_FOR_PREDICTION
             THEN [status |-> 200, model |-> "disabled", stored |-> stored]
        ELSE IF ~security.priced THEN [status |-> 500, stored |-> stored]
        ELSE [status |-> 200, model |-> answer.model, stored |-> _persist(stored, answer, refused)]

-----------------------------------------------------------------------------
(***************************************************************************)
(* The ensemble of three sub-models: the stacked probability keeps the     *)
(* side of 50 its mean is on and never falls when a sub-model rises, and   *)
(* the two services' confidence labels agree in order: psx-inference, said *)
(* to mirror the heuristic's, is never more confident of the same numbers. *)
(***************************************************************************)
EnsembleSound(probs, step) ==
    LET Level(s) == CASE s = "low" -> 0 [] s = "medium" -> 1 [] s = "high" -> 2
        stacked == _stacked_probability(probs)
    IN  /\ AtMost(Num(50), Mean(probs)) <=> AtMost(Num(50), stacked)
        /\ \A i \in DOMAIN probs :
             probs[i] + step <= 100 => AtMost(stacked, _stacked_probability([probs EXCEPT ![i] = @ + step]))
        /\ Level(_confidence_from_subs(probs)) <= Level(_confidence(probs).label)

(***************************************************************************)
(* A flaky inference service never breaks the endpoint: a service that is  *)
(* unset, down, refuses the features or has no model for the symbol gives  *)
(* the heuristic's answer, a trained one its own.  Every answer satisfies  *)
(* the checks of the table it is recorded in, and what is answered without *)
(* a model is not recorded.                                                *)
(***************************************************************************)
Bundle(probs) == [subs |-> <<[key |-> "lstm", prob |-> probs[1]], [key |-> "rf", prob |-> probs[2]]>>, meta |-> None]
Remotes(probs) ==
    [service : {"unset", "down", "up"}, found : {"none", "incomplete", "trained"}, bundle : {Bundle(probs)}]
Contexts ==
    {_market_context(kibor, fxRows) : kibor \in BOOLEAN, fxRows \in 0 .. 2}
      \cup {[kse100_return_pct |-> TRUE, sector_return_pct |-> TRUE, kibor_6m_pct |-> TRUE, pkr_usd_change_pct |-> TRUE]}
Recordable(answer) == AtMost(Zero, answer.probability) /\ AtMost(answer.probability, Num(100))

PredictionSound(probs) ==
    \A remote \in Remotes(probs), context \in Contexts, refused \in BOOLEAN,
       security \in [known : BOOLEAN, bars : {79, 80}, moved : BOOLEAN, priced : BOOLEAN] :
        LET usable == /\ remote.service = "up" /\ remote.found = "trained"
                      /\ security.moved /\ \A f \in DOMAIN context : context[f]
        IN  \A p \in {PredictionFor(security, context, remote, probs, <<>>, refused)} :
            /\ security.known /\ security.bars >= MIN_BARS_FOR_PREDICTION /\ security.priced =>
                 p.status = 200 /\ p.model = IF usable THEN "real-v1" ELSE "heuristic-v0.1.0"
            /\ \A i \in DOMAIN p.stored :
                 p.status = 200 /\ p.model # "disabled" /\ Recordable(p.stored[i])
=============================================================================
