--------------------------------- MODULE PromQL -------------------------------
(***************************************************************************)
(* services/query/promql_parser.py: the parser, from the text of an        *)
(* expression to a tree, and the translation of the tree to SQL, here to   *)
(* the columns of that SQL.  A text is a sequence of tokens, with spaces   *)
(* around words and operators as the parser wants them; a selector with    *)
(* its label matchers is one token.  A client writes an expression: `tree` *)
(* is what it means, `bare` a chain of numbers without parentheses.        *)
(***************************************************************************)
EXTENDS Integers, Sequences, SequencesExt, FiniteSets

CONSTANTS
  MaxNodes,   \* bound: nodes of an expression
  MaxChain    \* bound: numbers in a chain

ASSUME PromQLAssumption == {MaxNodes, MaxChain} \subseteq Nat

VARIABLES tree, bare

promVars == <<tree, bare>>

(* One name for each kind of function and aggregation the code treats in a *)
(* way of its own.                                                         *)
NestedFunctions == {"rate"}                       \* increase
PerMinuteFunctions == NestedFunctions \union {"avg_over_time"}   \* irate, changes, ...
ScalarFunctions == {"abs"}                        \* ceil, clamp, ...
FunctionNames == PerMinuteFunctions \union ScalarFunctions \union {"sort", "absent"}
Ranked == {"topk"}                                \* bottomk
Aggregations == {"sum"} \union Ranked             \* avg, min, max, count, ...
Clauses == {"by", "without"}
Metrics == {"m"}
Range5m == "[5m]"

(* _BINARY_OPS, in the order in which they are looked for.                 *)
BinaryOps == <<"or", "unless", "and", "==", "!=", ">=", "<=", ">", "<",
               "+", "-", "*", "/", "%", "^">>

Digit == [n \in 1..3 |-> CASE n = 1 -> "1" [] n = 2 -> "2" [] n = 3 -> "3"]
Numbers == {Digit[n] : n \in 1..3}

(* ASTNode; the labels of a clause are always <<"job">>.                   *)
Node(type, op, kids) ==
  [type |-> type, op |-> op, clause |-> "", k |-> <<>>, text |-> <<>>, kids |-> kids]
Leaf(type, text) == [Node(type, "", <<>>) EXCEPT !.text = text]

-----------------------------------------------------------------------------
PlacesOf(e, token) == {i \in DOMAIN e : e[i] = token}
MaxOf(S) == CHOOSE x \in S : \A y \in S : y <= x
MinOf(S) == CHOOSE x \in S : \A y \in S : x <= y

(* Parentheses opened before position i and still open.                    *)
DepthAt(e, i) ==
  Cardinality({j \in 1..(i - 1) : e[j] = "("}) - Cardinality({j \in 1..(i - 1) : e[j] = ")"})

(* Mutant of MatchingParen: the last parenthesis of the text.              *)
LastParen(e) == IF PlacesOf(e, ")") = {} THEN 0 ELSE MaxOf(PlacesOf(e, ")"))

(* _matching_paren(expr, 0)                                                *)
MatchingParen(e) ==
  LET closing == {i \in PlacesOf(e, ")") : DepthAt(e, i) = 1}
  IN  IF closing = {} THEN 0 ELSE MinOf(closing)

(* _split_args: at the commas outside of parentheses.                      *)
SplitArgs(e) ==
  LET commas == SetToSortSeq({i \in PlacesOf(e, ",") : DepthAt(e, i) = 0}, <)
      ends == <<0>> \o commas \o <<Len(e) + 1>>
  IN  [n \in 1..(Len(ends) - 1) |-> SubSeq(e, ends[n] + 1, ends[n + 1] - 1)]

(* The three regular expressions of _try_aggregation; only the greedy      *)
(* `.+` of each decides where the inner expression ends, not the depth.    *)
Closed(e) == Len(e) > 3 /\ e[Len(e)] = ")"
ClauseFirst(e) ==
  {p \in PlacesOf(e, ")") :
     /\ Closed(e) /\ e[1] \in Aggregations /\ e[2] \in Clauses /\ e[3] = "("
     /\ p = MinOf(PlacesOf(e, ")"))
     /\ p + 2 < Len(e) /\ e[p + 1] = "("}
ClauseLast(e) ==
  {p \in PlacesOf(e, ")") :
     /\ Closed(e) /\ e[1] \in Aggregations /\ e[2] = "("
     /\ p > 3 /\ p + 2 < Len(e) /\ e[p + 1] \in Clauses /\ e[p + 2] = "("
     /\ \A q \in (p + 3)..(Len(e) - 1) : e[q] # ")"}
IsCall(e, names) == Closed(e) /\ e[1] \in names /\ e[2] = "("

(* _find_op_outside_parens: the rightmost position at depth 0.             *)
Position(e, op) ==
  LET outside == {i \in PlacesOf(e, op) : DepthAt(e, i) = 0}
  IN  IF outside = {} THEN 0 ELSE MaxOf(outside)

(* _try_binary: the first operator of the list that has something on both  *)
(* sides; 0 if there is none.                                              *)
Split(e) ==
  LET splits == {n \in DOMAIN BinaryOps : Position(e, BinaryOps[n]) \in 2..(Len(e) - 1)}
  IN  IF splits = {} THEN 0 ELSE Position(e, BinaryOps[MinOf(splits)])

RECURSIVE ParseExpr(_)

(* _build_aggregation                                                      *)
Aggregation(op, clause, inner) ==
  LET args == SplitArgs(inner)
      node == [Node("aggregation", op, <<>>) EXCEPT !.clause = clause]
  IN  IF op \in Ranked /\ Len(args) >= 2
      THEN [node EXCEPT !.k = args[1], !.kids = <<ParseExpr(args[2])>>]
      ELSE [node EXCEPT !.kids = [i \in DOMAIN args |-> ParseExpr(args[i])]]

(* PromQLParser.parse.  What nothing else takes is the name of a metric.   *)
ParseExpr(e) ==
  CASE e = <<>> -> Leaf("error", <<>>)
    [] e # <<>> /\ e[1] = "(" /\ MatchingParen(e) = Len(e) -> ParseExpr(SubSeq(e, 2, Len(e) - 1))
    [] ClauseFirst(e) # {} ->
         Aggregation(e[1], e[2], SubSeq(e, MaxOf(ClauseFirst(e)) + 2, Len(e) - 1))
    [] ClauseFirst(e) = {} /\ ClauseLast(e) # {} ->
         LET p == MaxOf(ClauseLast(e)) IN Aggregation(e[1], e[p + 1], SubSeq(e, 3, p - 1))
    [] ClauseFirst(e) \union ClauseLast(e) = {} /\ IsCall(e, Aggregations) ->
         Aggregation(e[1], "", SubSeq(e, 3, Len(e) - 1))
    [] IsCall(e, FunctionNames) ->
         LET args == SplitArgs(SubSeq(e, 3, Len(e) - 1))
         IN  Node("function", e[1], [i \in DOMAIN args |-> ParseExpr(args[i])])
    [] OTHER ->
         IF Split(e) > 0
         THEN Node("binary", e[Split(e)], <<ParseExpr(SubSeq(e, 1, Split(e) - 1)),
                                            ParseExpr(SubSeq(e, Split(e) + 1, Len(e)))>>)
         ELSE IF Len(e) > 1 /\ e[Len(e)] = Range5m
         THEN [ParseExpr(SubSeq(e, 1, Len(e) - 1)) EXCEPT !.type = "matrix"]
         ELSE Leaf(IF Len(e) = 1 /\ e[1] \in Numbers THEN "number" ELSE "vector", e)

-----------------------------------------------------------------------------
(* What PromQLToSQL.translate makes of a tree: the columns its SELECT      *)
(* gives, {} for a bare number, and whether ClickHouse accepts it: every   *)
(* column it names is one of its subquery, or is aggregated when there is  *)
(* a GROUP BY.                                                             *)
Sql(columns, sound) == [columns |-> columns, sound |-> sound]
Yields(sql, columns) == sql.sound /\ columns \subseteq sql.columns

(* _rate_to_sql, *_over_time, changes, resets: SELECT ... AS ts, ... AS    *)
(* value FROM metrics.samples, whatever the argument is.  The HAVING of    *)
(* rate and increase aggregates `value`, which is then the alias of an     *)
(* aggregate, and ClickHouse refuses aggregates of aggregates.             *)
RateToSql(op) == Sql({"ts", "value"}, op \notin NestedFunctions)

RECURSIVE Translate(_)

(* _function_to_sql; ScalarFunctions give a column that is neither         *)
(* aggregated nor in their GROUP BY.                                       *)
FunctionToSql(node) ==
  IF node.op \in PerMinuteFunctions THEN RateToSql(node.op)
  ELSE LET inner == Translate(node.kids[1])
       IN  CASE node.op \in ScalarFunctions -> Sql({"ts", "value"}, FALSE)
             [] node.op = "sort" -> Sql(inner.columns, Yields(inner, {"value"}))
             [] node.op = "absent" -> Sql({"value"}, inner.sound /\ inner.columns # {})

(* _aggregation_to_sql; `without` does not look at the labels.             *)
AggregationToSql(node) ==
  LET inner == Translate(node.kids[1])
  IN  IF node.clause = "by"
      THEN Sql({"ts", "job", "value"}, Yields(inner, {"ts", "labels", "value"}))
      ELSE IF node.op \in Ranked THEN Sql(inner.columns, Yields(inner, {"value"}))
      ELSE Sql({"ts", "value"}, Yields(inner, {"ts", "value"}))

(* _binary_to_sql: a join on ts, a column and a number, or two numbers;    *)
(* the operator is taken over into the SQL as it is.                       *)
BinaryToSql(node) ==
  LET sides == {Translate(node.kids[1]), Translate(node.kids[2])}
      queries == {side \in sides : side.columns # {}}
  IN  Sql(IF queries = {} THEN {"value"} ELSE {"ts", "value"},
          /\ \A side \in sides : side.sound
          /\ \A side \in queries : Yields(side, {"ts", "value"})
          /\ node.op \notin {"unless", "^"})

Translate(node) ==
  CASE node.type \in {"vector", "matrix"} -> Sql({"timestamp", "value", "labels"}, TRUE)
    [] node.type = "number" -> Sql({}, TRUE)
    [] node.type = "function" -> FunctionToSql(node)
    [] node.type = "aggregation" -> AggregationToSql(node)
    [] node.type = "binary" -> BinaryToSql(node)

-----------------------------------------------------------------------------
(* External: how a client writes a tree down, with every operand of a      *)
(* binary operator in parentheses and clauses before or after.             *)
RECURSIVE Text(_, _)
Parenthesised(node, clauseFirst) ==
  IF node.type \in {"vector", "matrix", "number"} THEN Text(node, clauseFirst)
  ELSE <<"(">> \o Text(node, clauseFirst) \o <<")">>

Text(node, clauseFirst) ==
  CASE node.type \in {"vector", "number"} -> node.text
    [] node.type = "matrix" -> Append(node.text, Range5m)
    [] node.type = "function" ->
         <<node.op, "(">> \o Text(node.kids[1], clauseFirst) \o <<")">>
    [] node.type = "binary" ->
         Parenthesised(node.kids[1], clauseFirst) \o <<node.op>>
         \o Parenthesised(node.kids[2], clauseFirst)
    [] node.type = "aggregation" ->
         LET arguments == <<"(">> \o (IF node.k = <<>> THEN <<>> ELSE Append(node.k, ","))
                          \o Text(node.kids[1], clauseFirst) \o <<")">>
             labels == IF node.clause = "" THEN <<>> ELSE <<node.clause, "(", "job", ")">>
         IN  IF clauseFirst THEN <<node.op>> \o labels \o arguments
             ELSE <<node.op>> \o arguments \o labels

Leaves == {Leaf("vector", <<"m">>), Leaf("matrix", <<"m">>), Leaf("number", <<"2">>)}

Operands ==
  {Leaf("number", <<"2">>), Node("aggregation", "sum", <<Node("function", "avg_over_time", <<Leaf("matrix", <<"m">>)>>)>>)}

RECURSIVE Nodes(_)
Nodes(node) == 1 + FoldSeq(LAMBDA kid, n : Nodes(kid) + n, 0, node.kids)

PromInit == tree \in Leaves /\ bare = <<"2">>

(* External: the client puts the expression into a call, an aggregation,   *)
(* or one side of a binary operator.                                       *)
Write ==
  /\ bare = <<"2">>
  /\ Nodes(tree) < MaxNodes
  /\ \/ \E f \in FunctionNames : tree' = Node("function", f, <<tree>>)
     \/ \E clause \in Clauses \union {""}, op \in Aggregations :
          tree' = [Node("aggregation", op, <<tree>>) EXCEPT
                     !.clause = clause, !.k = IF op \in Ranked THEN <<"3">> ELSE <<>>]
     \/ \E operand \in Operands, op \in {"unless", "/"} :
          tree' \in {Node("binary", op, <<tree, operand>>), Node("binary", op, <<operand, tree>>)}
  /\ UNCHANGED bare

(* External: the client goes on with a chain.                              *)
Chain ==
  /\ tree = Leaf("number", <<"2">>)
  /\ Len(bare) < 2 * MaxChain - 1
  /\ \E op \in {"+", "-", "*"}, n \in Numbers : bare' = bare \o <<op, n>>
  /\ UNCHANGED tree

PromNext == Write \/ Chain
PromSpec == PromInit /\ [][PromNext]_promVars

-----------------------------------------------------------------------------
(* Parentheses decide: an expression whose operands are in parentheses is  *)
(* parsed as it was meant, however its calls, aggregations, clauses and    *)
(* operators are nested, although the regular expressions do not count     *)
(* parentheses (promql_parser.py 176-220).                                 *)
ParenthesesDecide ==
  bare = <<"2">> => \A clauseFirst \in BOOLEAN : ParseExpr(Text(tree, clauseFirst)) = tree

RECURSIVE Value(_)
Value(node) ==
  IF node.type = "number" THEN CHOOSE n \in 1..3 : Digit[n] = node.text[1]
  ELSE LET l == Value(node.kids[1])
           r == Value(node.kids[2])
       IN  CASE node.op = "+" -> l + r [] node.op = "-" -> l - r [] node.op = "*" -> l * r

(* Arithmetic as it is read from left to right: a sum so far, and the      *)
(* product that the next factor may still extend.                          *)
LeftToRight(e) ==
  LET number(i) == CHOOSE n \in 1..3 : Digit[n] = e[2 * i + 1]
      step(at, i) ==
        CASE e[2 * i] = "*" -> [at EXCEPT !.term = @ * number(i)]
          [] e[2 * i] = "+" -> [sum |-> at.sum + at.term, term |-> number(i)]
          [] e[2 * i] = "-" -> [sum |-> at.sum + at.term, term |-> -number(i)]
      end == FoldLeft(step, [sum |-> 0, term |-> number(0)],
                      [i \in 1..(Len(e) \div 2) |-> i])
  IN  end.sum + end.term

(* Without parentheses sums, differences and products come to the value    *)
(* they have when they are read from left to right, products first,        *)
(* although a difference may be split at its operators in another order    *)
(* (_BINARY_OPS, 88-97).                                                   *)
ArithmeticIsKept == Value(ParseExpr(bare)) = LeftToRight(bare)

(* Every selector stands in a function that counts per minute, no labels   *)
(* are asked for, and the rest is sums, rankings, sorting and arithmetic.  *)
RECURSIVE PerMinute(_)
PerMinute(node) ==
  CASE node.type \in {"vector", "matrix"} -> FALSE
    [] node.type = "number" -> FALSE
    [] node.op \in PerMinuteFunctions -> node.op \notin NestedFunctions
    [] node.type = "binary" ->
         /\ node.op # "unless"
         /\ \A i \in 1..2 : node.kids[i].type = "number" \/ PerMinute(node.kids[i])
         /\ \E i \in 1..2 : PerMinute(node.kids[i])
    [] OTHER -> node.clause # "by" /\ node.op \in Aggregations \union {"sort"} /\ PerMinute(node.kids[1])

(* What is built from averages and the like over a minute is SQL that      *)
(* ClickHouse accepts: every level finds the columns it names in the level *)
(* below (promql_parser.py 410-660); rate and increase are excepted.       *)
MinutesAreSound == PerMinute(tree) => Translate(tree).sound

(* What the parser and the translation support works: parentheses decide,  *)
(* arithmetic is kept, and counts per minute become sound SQL.             *)
SupportedExpressionsWork == ParenthesesDecide /\ ArithmeticIsKept /\ MinutesAreSound

=============================================================================
