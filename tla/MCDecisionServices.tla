-------------------------- MODULE MCDecisionServices -------------------------
(* Small instances of the four services.                                   *)
EXTENDS DecisionServices, TLC

(* Neither requests nor inquirers are told apart.                          *)
CallerSymmetry == Permutations(Requesters) \union Permutations(Inquirers)

(* Entry spans that make a service degraded or critical: of two batches    *)
(* the latency of one decides, and the errors of the other are diluted.    *)
MCEntryBatches == {[spans |-> 100, failing |-> 6, latency |-> "fine"],
                   [spans |-> 100, failing |-> 0, latency |-> "slow"]}

(* Executions on either side of an even split, and outcomes that differ by *)
(* much, by less than a unit, and in what they have no figure for.         *)
MCHashes == [t \in {"e1", "e2"} |-> IF t = "e1" THEN 2 ELSE 7]
MCTrialOutcomes ==
  LET Of(n, ok, time, scored, score) ==
        [n |-> n, ok |-> ok,
         figures |-> [m \in Figured |-> IF m \in LowerIsBetter THEN [sum |-> time, over |-> n]
                                        ELSE [sum |-> score, over |-> scored]]]
  IN  {Of(5, 5, 21, 5, 12), Of(5, 0, 20, 0, 0), Of(4, 1, 9, 1, 2)}

=============================================================================
