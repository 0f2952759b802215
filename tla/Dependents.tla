----------------------------- MODULE Dependents -----------------------------
(***************************************************************************)
(* Graph.dependents (graph.py): the bounded breadth-first search that       *)
(* computes the blast radius of a node.  It follows dependency edges        *)
(* against their direction, keeps for each distinct node the strongest     *)
(* path found, expands a node again when a stronger path to it turns up,   *)
(* and raises when more than max_nodes distinct nodes are affected.         *)
(*                                                                         *)
(* Strengths are fractions of Unit per edge; a path of d edges has         *)
(* strength product / Unit^d, kept here as an integer of Unit^MaxDepth.    *)
(* The order in which SQLite returns the edges of a node is unspecified.   *)
(***************************************************************************)
EXTENDS Integers, Sequences, FiniteSets

CONSTANTS
    Nodes, Root,
    Pairs,        \* the (dependent, dependency) pairs that may be linked
    Weights,      \* edge weights, at most Unit
    Unit,
    MaxDepth,     \* the largest max_depth a caller passes
    Calls         \* the arguments of the calls to check; min_strength is in
                  \* units of Unit^MaxDepth

VARIABLES
    args,      \* max_depth, max_nodes and min_strength of this call
    weight,    \* the graph: the weight of each pair, 0 for no edge
    frontier,  \* the queue of paths still to expand
    current,   \* the path being expanded
    todo,      \* in_edges of its last node that are not looked at yet
    seen,      \* the strongest strength found for each node reached
    best,      \* the path that achieves it
    status

vars == <<args, weight, frontier, current, todo, seen, best, status>>

Item == [path: Seq(Nodes), strength: Nat]

Last(s) == s[Len(s)]

Depth(item) == Len(item.path) - 1

Start == [path |-> <<Root>>, strength |-> Unit ^ MaxDepth]

InEdges(n) == {m \in Nodes : <<m, n>> \in Pairs /\ weight[<<m, n>>] # 0}

Found == DOMAIN best

Init ==
    /\ args \in Calls
    /\ weight \in [Pairs -> Weights \cup {0}]
    /\ frontier = <<Start>>
    /\ current = Start
    /\ todo = {}
    /\ seen = [n \in {Root} |-> Unit ^ MaxDepth]
    /\ best = << >>
    /\ status = "running"

\* popleft; a path at the depth bound is dropped unexpanded.
Pop ==
    /\ status = "running"
    /\ todo = {}
    /\ frontier # << >>
    /\ frontier' = Tail(frontier)
    /\ current' = Head(frontier)
    /\ todo' = IF Depth(Head(frontier)) >= args.depth THEN {}
               ELSE InEdges(Last(Head(frontier).path))
    /\ UNCHANGED <<args, weight, seen, best, status>>

Through(n) ==
    (current.strength * weight[<<n, Last(current.path)>>]) \div Unit

\* Mutated: a plain visited set, which keeps the first path found.
MutImprovesVisited(n) == Through(n) >= args.min /\ n \notin DOMAIN seen

\* Mutated: nothing is ever dominated.
MutImprovesAlways(n) == Through(n) >= args.min

\* Neither too weak nor dominated by a path already known.
Improves(n) == Through(n) >= args.min /\ (n \in DOMAIN seen => seen[n] < Through(n))

NowSeen(n) == [m \in DOMAIN seen \cup {n} |-> IF m = n THEN Through(n) ELSE seen[m]]

Skip(n) ==
    /\ status = "running"
    /\ n \in todo
    /\ ~Improves(n)
    /\ todo' = todo \ {n}
    /\ UNCHANGED <<args, weight, frontier, current, seen, best, status>>

\* Mutated: a stronger path updates the strength but not the report.
MutVisitStale(n) ==
    LET item == [path |-> Append(current.path, n), strength |-> Through(n)] IN
    /\ status = "running"
    /\ n \in todo
    /\ Improves(n)
    /\ todo' = todo \ {n}
    /\ seen' = NowSeen(n)
    /\ best' = [m \in Found \cup {n} |-> IF m \in Found THEN best[m] ELSE item]
    /\ frontier' = Append(frontier, item)
    /\ UNCHANGED <<args, weight, current, status>>

\* Mutated: the budget is tested before the new node is counted.
MutVisitBudget(n) ==
    LET item == [path |-> Append(current.path, n), strength |-> Through(n)] IN
    /\ status = "running"
    /\ n \in todo
    /\ Improves(n)
    /\ todo' = todo \ {n}
    /\ seen' = NowSeen(n)
    /\ best' = [m \in Found \cup {n} |-> IF m = n THEN item ELSE best[m]]
    /\ IF Cardinality(Found) > args.nodes
       THEN status' = "budget_exceeded" /\ UNCHANGED frontier
       ELSE frontier' = Append(frontier, item) /\ UNCHANGED status
    /\ UNCHANGED <<args, weight, current>>

Visit(n) ==
    LET item == [path |-> Append(current.path, n), strength |-> Through(n)] IN
    /\ status = "running"
    /\ n \in todo
    /\ Improves(n)
    /\ todo' = todo \ {n}
    /\ seen' = NowSeen(n)
    /\ best' = [m \in Found \cup {n} |-> IF m = n THEN item ELSE best[m]]
    /\ IF Cardinality(Found \cup {n}) > args.nodes
       THEN status' = "budget_exceeded" /\ UNCHANGED frontier
       ELSE frontier' = Append(frontier, item) /\ UNCHANGED status
    /\ UNCHANGED <<args, weight, current>>

Finish ==
    /\ status = "running"
    /\ todo = {}
    /\ frontier = << >>
    /\ status' = "done"
    /\ UNCHANGED <<args, weight, frontier, current, todo, seen, best>>

Next == Pop \/ Finish \/ \E n \in Nodes : Skip(n) \/ Visit(n)

Spec == Init /\ [][Next]_vars

-----------------------------------------------------------------------------
(* Properties.                                                             *)

\* The search's variables have their types.
TypeOK ==
    /\ args \in Calls
    /\ weight \in [Pairs -> Weights \cup {0}]
    /\ frontier \in Seq(Item)
    /\ current \in Item
    /\ todo \subseteq Nodes
    /\ Found \subseteq Nodes \ {Root}
    /\ seen \in [Found \cup {Root} -> Nat]
    /\ \A n \in Found : best[n] \in Item
    /\ status \in {"running", "done", "budget_exceeded"}

\* Reference definition: the strength of a walk against the edges from Root.
Walks == UNION {[1..d -> Nodes] : d \in 2..(args.depth + 1)}

IsWalk(w) == /\ w[1] = Root
             /\ \A i \in 2..Len(w) : w[i] \in InEdges(w[i - 1])

\* Strength along a walk, one division per edge, exact by the choice of scale.
Strength(w) ==
    LET f[i \in 1..Len(w)] == IF i = 1 THEN Unit ^ MaxDepth
                              ELSE (f[i - 1] * weight[<<w[i], w[i - 1]>>]) \div Unit
    IN  f[Len(w)]

Affecting(n) == {w \in Walks : IsWalk(w) /\ Last(w) = n /\ Strength(w) >= args.min}

\* What is reported is real: a path of the graph from Root, no longer than the
\* depth bound, that never visits a node twice and has the strength reported.
PathsAreReal ==
    \A n \in Found :
        LET w == best[n].path IN
        /\ IsWalk(w) /\ Last(w) = n
        /\ Len(w) <= args.depth + 1
        /\ \A i, j \in DOMAIN w : w[i] = w[j] => i = j
        /\ best[n].strength = Strength(w)
        /\ best[n].strength = seen[n]

\* What is reported is complete: exactly the nodes some bounded walk reaches,
\* each once, with the strongest strength any such walk gives it, although the
\* search prunes every path weaker than one it already has.
StrongestPathReported ==
    status = "done" =>
        \A n \in Nodes \ {Root} :
            /\ n \in Found <=> Affecting(n) # {}
            /\ n \in Found => \A w \in Affecting(n) : Strength(w) <= best[n].strength

\* The budget counts distinct nodes: it is exceeded exactly when more than
\* max_nodes of them are affected.
BudgetCountsNodes ==
    LET affected == {n \in Nodes \ {Root} : Affecting(n) # {}} IN
    /\ status = "done" => Cardinality(affected) <= args.nodes
    /\ status = "budget_exceeded" => Cardinality(affected) > args.nodes

\* The blast radius is exact: real paths, the strongest ones, within the budget.
RadiusExact == TypeOK /\ PathsAreReal /\ StrongestPathReported /\ BudgetCountsNodes
=============================================================================
