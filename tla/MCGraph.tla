------------------------------ MODULE MCGraph ------------------------------
(***************************************************************************)
(* The graph for TLC: in each behaviour one part of it moves, the          *)
(* versioned rows, the blast radius search, the read-side walks or the     *)
(* invalidation engine.                                                    *)
(***************************************************************************)
EXTENDS Graph, MCInvalidation

CONSTANTS r, m1, m2, m3, n1, n2, s1, s2, w1, Absent, Nothing

VARIABLES part, query, answer

\* Blast radius: every graph over eight pairs of a root and three dependents, a
\* cycle through the root among them, with two weights; the whole radius, a
\* strength threshold, a tight budget, a tight depth.
Members == {m1, m2, m3}

MCNodes == Members \cup {r}

MCPairs == {<<r, m1>>, <<m1, r>>, <<m2, r>>, <<m1, m2>>, <<m2, m1>>, <<m2, m3>>, <<m3, m1>>, <<m3, m2>>}

MCRadiusCalls ==
    {[depth |-> 2, nodes |-> 3, min |-> 0], [depth |-> 2, nodes |-> 3, min |-> 40],
     [depth |-> 2, nodes |-> 1, min |-> 0], [depth |-> 1, nodes |-> 3, min |-> 0]}

\* Rows: plain versions, an end of validity, a reopening; an edge, its end and
\* an attempt from another scope.
NodeCallOf(n, s, st, from, to, again) ==
    [op |-> "node", id |-> n, scope |-> s, status |-> st, from |-> from, to |-> to,
     reopen |-> again]

MCRowCalls ==
    {NodeCallOf(n1, s1, "open", None, None, FALSE), NodeCallOf(n1, s1, None, None, 2, FALSE),
     NodeCallOf(n1, s1, "done", 3, None, TRUE), NodeCallOf(n1, s2, "open", None, None, FALSE),
     NodeCallOf(n2, s1, "open", None, None, FALSE), NodeCallOf(n2, s2, None, None, None, FALSE),
     [op |-> "edge", id |-> <<n1, n2>>, scope |-> s1, to |-> None],
     [op |-> "end", id |-> <<n1, n2>>, scope |-> s1, to |-> None]}

Walks4 == INSTANCE GraphWalks WITH N <- 4, Depths <- {2, 4}, Budgets <- {2, 4}

walkVars == <<query, answer>>

Parts == {"rows", "walks", "radius", "invalidation"}

MCInit ==
    /\ part \in Parts
    /\ Init
    /\ Rows!Init
    /\ IF part = "walks" THEN Walks4!Init ELSE query = [kind |-> "idle"] /\ answer = Absent
    /\ IF part = "radius" THEN TRUE
       ELSE args = (CHOOSE c \in RadiusCalls : TRUE) /\ weight = [p \in RadiusPairs |-> 0]
    /\ Radius!Init

\* No operation of this part reads the downgrade that the engine writes, so it is
\* cleared only while a single invalidation has been fired.
ClearedEarly ==
    downgraded /\ ~downgraded' =>
        \E i \in Invs : \A j \in Invs \ {i} : inv[j].state = "unfired"

MCNext ==
    /\ \/ part = "rows" /\ Rows!Next /\ UNCHANGED <<walkVars, radiusVars, vars>>
       \/ part = "walks" /\ Walks4!Next /\ UNCHANGED <<rowVars, radiusVars, vars>>
       \/ part = "radius" /\ Radius!Next /\ UNCHANGED <<rowVars, walkVars, vars>>
       \/ part = "invalidation" /\ Next /\ ClearedEarly /\ UNCHANGED <<rowVars, walkVars, radiusVars>>
    /\ UNCHANGED part

MCSpec == MCInit /\ [][MCNext]_<<part, rowVars, walkVars, radiusVars, vars>>

\* causal_path, provenance, _has_real_provenance: shortest paths, exact trails, and
\* no claim promoted that rests on no evidence.
WalksExact == part = "walks" => Walks4!WalksExact
=============================================================================
