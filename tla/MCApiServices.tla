---------------------------- MODULE MCApiServices ----------------------------
EXTENDS ApiServices

(* A PromQL and a natural-language question that share a cache key.        *)
MCQuestions == {[route |-> "prometheus", kind |-> "PROMQL", text |-> "q", ranged |-> TRUE],
                [route |-> "query", kind |-> "NL", text |-> "q", ranged |-> TRUE]}

=============================================================================
