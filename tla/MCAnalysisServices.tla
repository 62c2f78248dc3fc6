------------------------- MODULE MCAnalysisServices -------------------------
(* Small instances of the services: each definition is what its service    *)
(* needs for its interesting cases to happen.                              *)
EXTENDS AnalysisServices

(* Bodies of _bulk, of Loki and HEC, and OTLP exports with the items that  *)
(* one transport or the other takes differently.                           *)
MCBulkBodies ==
  LET ops == {<<"index", "doc">>, <<"index", "junk">>, <<"delete">>,
              <<"update", "doc">>, <<"update", "junk">>}
  IN  ops \union {a \o b : a, b \in ops}
      \union {<<"junk", "index", "doc">>, <<"doc", "index", "doc">>, <<"index">>}
MCLineBodies == {<<"entry">>, <<"junk">>, <<"entry", "badtime">>, <<"badlevel", "entry">>,
                 <<"junk", "entry">>, <<"entry", "farend">>}
MCExports ==
  LET log == [severity |-> 9, body |-> "text", attribute |-> "text", trace |-> "lower case"]
      point == [kind |-> "gauge", value |-> 3, label |-> "integer", described |-> FALSE]
      span == [kind |-> 2, status |-> 2, parent |-> "lower case", attribute |-> "text",
               links |-> FALSE, farend |-> FALSE]
      values == {"text", "fraction", "truth", "integer", "falsy", "list", "map", "bytes"}
  IN  {[signal |-> "logs", items |-> <<item, log>>] : item \in
         {[log EXCEPT !.severity = n] : n \in {0, 9, 17, 18}}
         \union {[log EXCEPT !.attribute = v] : v \in values}
         \union {[log EXCEPT !.trace = id] : id \in {"none", "empty", "upper case"}}
         \union {[log EXCEPT !.body = "object"]}}
      \union {[signal |-> "metrics", items |-> <<item, point>>] : item \in
         {[point EXCEPT !.kind = k] : k \in {"sum", "histogram", "summary", "exponential"}}
         \union {[point EXCEPT !.label = v] : v \in values}
         \union {[point EXCEPT !.described = TRUE]}}
      \union {[signal |-> "traces", items |-> <<item, span>>] : item \in
         {[span EXCEPT !.kind = k] : k \in {0, 2}}
         \union {[span EXCEPT !.parent = id] : id \in {"none", "empty", "upper case"}}
         \union {[span EXCEPT !.attribute = v] : v \in values}
         \union {[span EXCEPT !.links = TRUE], [span EXCEPT !.farend = TRUE]}}

(* Two alert rules of one tenant next to the default one.                  *)
MCRules == {[name |-> "one", operator |-> "gt", service |-> "web"],
            [name |-> "two", operator |-> "eq", service |-> ""]}
MCDefaultRule == [name |-> "default", operator |-> "gt", service |-> ""]

(* Log lines of four lengths, one token of which is a value.               *)
MCLogs == {<<"a">>, <<"a", "b">>, <<"a", "c">>, <<"c", "b">>, <<"7", "b">>, <<"a", "b", "c">>,
           <<"a", "c", "b">>, <<"a", "a", "a", "b">>}

(* What the hosts, the clusters and the clouds report.                     *)
MCRegions == {[provider |-> "aws", region |-> "east"]}
MCLoads == {[cpu |-> 80, used |-> 95]}
Calm == [running |-> TRUE, cpu |-> 10, memory |-> 10, restarts |-> 0]
MCContents ==
  [containers |-> {{[id |-> "c1", state |-> [Calm EXCEPT !.cpu = 95]],
                    [id |-> "c2", state |-> Calm]},
                   {[id |-> "c1", state |-> [Calm EXCEPT !.memory = 85, !.restarts = 12]]}},
   pods |-> {{[id |-> "p1", state |-> [status |-> "Pending", since |-> 0, request |-> 1]]},
             {[id |-> "p1", state |-> [status |-> "CrashLoopBackOff", since |-> 0, request |-> 1]]}},
   events |-> {{[id |-> "p1", state |-> [oom |-> TRUE]]}},
   clusters |-> {{[id |-> "k1", state |-> "used"]}},
   nodes |-> {{[id |-> "n1", state |-> [pressure |-> TRUE]]}},
   resources |-> {{[id |-> "d1", state |-> "unattached"]}}]
MCCosts == {[day |-> 0, service |-> "ec2", id |-> "d1", cost |-> 2],
            [day |-> 0, service |-> "ebs", id |-> "d1", cost |-> 1],
            [day |-> 1, service |-> "ec2", id |-> "d1", cost |-> 2],
            [day |-> 1, service |-> "ebs", id |-> "d1", cost |-> 1],
            [day |-> 1, service |-> "ebs", id |-> "d2", cost |-> 1]}

(* Batches just below the threshold of two errors in a hundred lines, and  *)
(* at that of ten.                                                         *)
NoLines == [s \in Severities |-> 0]
MCBatches == {[NoLines EXCEPT !["INFO"] = 491, !["ERROR"] = 10],
              [NoLines EXCEPT !["DEBUG"] = 3, !["WARN"] = 6, !["FATAL"] = 1]}
MCSpans == {[error |-> TRUE, latency |-> "fine"], [error |-> FALSE, latency |-> "slow"]}

(* Messages that differ in what _normalize replaces, and in what it should.*)
Words == [kind |-> "text", value |-> 1]
MCMessages == {<<Words, [kind |-> "number", value |-> 1]>>, <<Words, [kind |-> "number", value |-> 2]>>,
               <<Words, [kind |-> "stamp", value |-> 1]>>, <<Words, [kind |-> "line", value |-> 1200]>>}

(* Three runs of agents: of two types on two models, one that timed out.   *)
MCAgentRuns ==
  [r1 |-> [type |-> "rca", model |-> "opus", status |-> "failed", message |-> "timed out", cost |-> 2,
           tokens |-> 9, slow |-> TRUE, many |-> 3, steps |-> <<"tool_call", "tool_result">>],
   r2 |-> [type |-> "rca", model |-> "haiku", status |-> "completed", message |-> "", cost |-> 1,
           tokens |-> 2, slow |-> FALSE, many |-> 4, steps |-> <<>>],
   r3 |-> [type |-> "query", model |-> "haiku", status |-> "completed", message |-> "", cost |-> 1,
           tokens |-> 1, slow |-> FALSE, many |-> 1, steps |-> <<"tool_call">>]]

=============================================================================
