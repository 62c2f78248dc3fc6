------------------------------ MODULE DrainParser -----------------------------
(***************************************************************************)
(* services/ai/patterns.py: the Drain parser.  A log line goes down a tree *)
(* by its length and its first tokens to a leaf, is compared with the      *)
(* patterns there, and is absorbed by the most similar one, whose template *)
(* gets wildcards, or starts a pattern of its own.  The tree is the set of *)
(* its paths: a DrainNode is the length and the tokens on the way to it.   *)
(***************************************************************************)
EXTENDS Integers, Sequences, SequencesExt, FiniteSets

CONSTANTS
  Logs,          \* preprocessed lines: non-empty sequences of tokens
  Variables,     \* tokens that _is_variable takes for a value
  Depth, MaxChildren, MaxPatterns,
  MaxParsed      \* bound: lines parsed

Wild == "<*>"

(* (No prover knows of a literal that it is a string.)                     *)
ASSUME DrainAssumption ==
  /\ \A log \in Logs : log \in Seq(STRING) /\ log # <<>>
  /\ {Depth, MaxChildren, MaxPatterns, MaxParsed} \subseteq Nat
  /\ Depth > 1 /\ MaxChildren > 0 /\ MaxPatterns > 0
  /\ Wild \in STRING

VARIABLES
  nodes,      \* the paths of the tree; the root is <<>>
  found,      \* every pattern ever stored, in the order of creation
  parsed,     \* lines parsed
  discarded,  \* lines whose pattern was returned and not stored
  resets      \* times the branch of other lengths was replaced

drainVars == <<nodes, found, parsed, discarded, resets>>

Min2(a, b) == IF a < b THEN a ELSE b
Other == 0       \* the key "*" of the root

DrainTypeOK ==
  /\ \A p \in nodes : p = <<>> \/ (Head(p) \in Nat /\ Tail(p) \in Seq(STRING))
  /\ \A i \in DOMAIN found :
       /\ found[i].id \in Seq(STRING) /\ found[i].tokens \in Seq(STRING)
       /\ found[i].attached => found[i].path \in nodes
       /\ found[i].count \in 1..parsed /\ found[i].lines \in SUBSET Logs
  /\ parsed \in 0..MaxParsed /\ discarded \in 0..parsed /\ resets \in 0..parsed

DrainInit ==
  /\ nodes = {<<>>}
  /\ found = <<>>
  /\ parsed = 0 /\ discarded = 0 /\ resets = 0

-----------------------------------------------------------------------------
Children(paths, path) == {p \in paths : Len(p) = Len(path) + 1 /\ IsPrefix(path, p)}
Full(paths, path) == Cardinality(Children(paths, path)) >= MaxChildren

(* Step 1: by length; beyond max_children lengths one branch takes them    *)
(* all, and is made anew each time a line of such a length comes.          *)
Overflows(log) == <<Len(log)>> \notin nodes /\ Full(nodes, <<>>)
LengthPath(log) == IF Overflows(log) THEN <<Other>> ELSE <<Len(log)>>
Pruned(log) == IF Overflows(log) THEN {p \in nodes : ~IsPrefix(<<Other>>, p)} ELSE nodes

(* Step 2: one token down; a variable, or a token too many, is "<*>".      *)
DownToken(at, token) ==
  LET t == IF token \in Variables THEN Wild ELSE token
      key == IF Append(at.path, t) \notin at.paths /\ Full(at.paths, at.path)
             THEN Wild ELSE t
      next == Append(at.path, key)
  IN  [path |-> next, paths |-> at.paths \union {next}]

Navigate(log) ==
  FoldLeft(DownToken,
           [path |-> LengthPath(log), paths |-> Pruned(log) \union {LengthPath(log)}],
           SubSeq(log, 1, Min2(Depth - 1, Len(log))))

(* _compute_similarity, as the number of positions that agree.             *)
Matches(log, tokens) ==
  IF Len(log) # Len(tokens) THEN 0
  ELSE Cardinality({i \in DOMAIN log : tokens[i] \in {log[i], Wild}})

(* _find_matching_pattern: at least half of the tokens, and more than any  *)
(* pattern before it in the leaf; a set of one, or of none.                *)
Best(log, path) ==
  LET here == {i \in DOMAIN found : found[i].attached /\ found[i].path = path
                                    /\ Matches(log, found[i].tokens) * 2 >= Len(log)}
      ahead(i, j) == Matches(log, found[i].tokens) > Matches(log, found[j].tokens)
  IN  {i \in here : \A j \in here \ {i} : ahead(i, j) \/ (~ahead(j, i) /\ i < j)}

(* _create_template                                                        *)
Template(log) == [i \in DOMAIN log |-> IF log[i] \in Variables THEN Wild ELSE log[i]]

(* Mutant of Widen: the template stays as it was.                          *)
WidenNothing(tokens, log) == tokens

(* _update_template                                                        *)
Widen(tokens, log) ==
  [i \in DOMAIN tokens |-> IF tokens[i] = log[i] THEN tokens[i] ELSE Wild]

Detached(log) ==
  [i \in DOMAIN found |->
     IF Overflows(log) /\ IsPrefix(<<Other>>, found[i].path)
     THEN [found[i] EXCEPT !.attached = FALSE] ELSE found[i]]

(* _patterns is keyed by the template a pattern was created with: a later  *)
(* pattern with the same one takes the place of the earlier.               *)
Ids == {found[i].id : i \in DOMAIN found}
Current(id) == CHOOSE i \in DOMAIN found :
                 found[i].id = id /\ \A j \in DOMAIN found : found[j].id = id => j <= i

(* parse(): the whole call; the empty line is answered without the tree.   *)
Parse(log) ==
  /\ parsed < MaxParsed
  /\ parsed' = parsed + 1
  /\ resets' = IF Overflows(log) /\ <<Other>> \in nodes THEN resets + 1 ELSE resets
  /\ LET at == Navigate(log)
         best == IF Overflows(log) THEN {} ELSE Best(log, at.path)
         old == Detached(log)
     IN  /\ nodes' = at.paths
         /\ \/ /\ \E i \in best :
                    found' = [old EXCEPT ![i].count = @ + 1,
                                         ![i].tokens = Widen(@, log),
                                         ![i].lines = @ \union {log}]
               /\ UNCHANGED discarded
            \/ /\ best = {}
               /\ Cardinality(Ids) < MaxPatterns
               /\ found' = Append(old, [id |-> Template(log), path |-> at.path,
                                        tokens |-> Template(log), count |-> 1,
                                        attached |-> TRUE, lines |-> {log}])
               /\ UNCHANGED discarded
            \/ /\ best = {}
               /\ Cardinality(Ids) >= MaxPatterns
               /\ found' = old
               /\ discarded' = discarded + 1

DrainNext == \E log \in Logs : Parse(log)

DrainSpec == DrainInit /\ [][DrainNext]_drainVars

-----------------------------------------------------------------------------
(* A template stands for every line its pattern absorbed, however it was   *)
(* widened since.                                                          *)
TemplatesMatch ==
  \A i \in DOMAIN found : \A log \in found[i].lines :
    /\ Len(log) = Len(found[i].tokens)
    /\ \A k \in DOMAIN log : found[i].tokens[k] \in {log[k], Wild}

(* And as long as the branch of other lengths has not been replaced, no    *)
(* pattern takes another's place, so that the counts of get_patterns()     *)
(* account for every line that found room.  (With the types of the         *)
(* variables.)                                                             *)
TemplatesStandForTheirLines ==
  /\ DrainTypeOK
  /\ TemplatesMatch
  /\ resets = 0 => MapThenSumSet(LAMBDA id : found[Current(id)].count, Ids) + discarded = parsed

=============================================================================
