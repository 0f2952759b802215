----------------------------- MODULE GraphWalks -----------------------------
(***************************************************************************)
(* The read-side walks over the current graph: Graph.causal_path and       *)
(* Graph.provenance (graph.py), and Memory._has_real_provenance            *)
(* (memory.py), the memoised depth-first search that decides whether a     *)
(* node may be distilled to L3.  Each is computed the way the code does    *)
(* and compared with its definition over every small graph.                *)
(*                                                                         *)
(* Identifiers are 1..N, in the order a sort puts them.  An edge <<m, n>>  *)
(* of causal_path leaves m; of the provenance walks it says that m cites n *)
(* (m derived_from n, or n supports m).                                    *)
(***************************************************************************)
EXTENDS Integers, Sequences, FiniteSets, SequencesExt, FiniteSetsExt

CONSTANTS
    N,          \* identifiers 1..N
    Depths,     \* values of max_depth
    Budgets,    \* values of max_nodes of _has_real_provenance
    Absent,     \* no result yet
    Nothing     \* Python's None

VARIABLES query, answer

vars == <<query, answer>>

Ids == 1..N

\* A set of ids in ascending order.
Ordered(S) == SetToSortSeq(S, LAMBDA x, y : x < y)

-----------------------------------------------------------------------------
(* causal_path: a queue of paths, each node enqueued once.                 *)

\* Mutated: the path follows edges in their direction only.
MutAround(edges, m) == Ordered({n \in Ids : <<m, n>> \in edges})

Around(edges, m) ==
    Ordered({n \in Ids : <<m, n>> \in edges})
        \o Ordered({n \in Ids : <<n, m>> \in edges})

\* The edges of the node at the head of the queue, one after the other; the
\* search returns from inside this loop when it meets the target.
RECURSIVE Scan(_, _, _, _)
Scan(steps, path, dst, st) ==
    IF steps = << >> \/ st.found # Nothing THEN st
    ELSE LET n == Head(steps) IN
         Scan(Tail(steps), path, dst,
              IF n \in st.seen THEN st
              ELSE IF n = dst
              THEN [st EXCEPT !.seen = @ \cup {n}, !.found = Append(path, n)]
              ELSE [st EXCEPT !.seen = @ \cup {n}, !.queue = Append(@, Append(path, n))])

RECURSIVE Search(_, _, _, _)
Search(edges, dst, depth, st) ==
    IF st.found # Nothing \/ st.queue = << >> THEN st.found
    ELSE LET path == Head(st.queue)
             rest == [st EXCEPT !.queue = Tail(@)]
         IN  Search(edges, dst, depth,
                    IF Len(path) - 1 >= depth THEN rest
                    ELSE Scan(Around(edges, Last(path)), path, dst, rest))

CausalPath(edges, src, dst, depth) ==
    Search(edges, dst, depth,
           [queue |-> <<(<<src>>)>>, seen |-> {src}, found |-> Nothing])

-----------------------------------------------------------------------------
(* provenance: breadth first over what each node cites, each source once.  *)

RECURSIVE Trail(_, _, _)
Trail(edges, depth, st) ==
    IF st.queue = << >> THEN st.sources
    ELSE LET m == Head(st.queue).id
             d == Head(st.queue).depth
             new == Ordered({n \in Ids : <<m, n>> \in edges} \ st.seen)
             reached == [i \in DOMAIN new |-> [id |-> new[i], depth |-> d + 1]]
         IN  Trail(edges, depth,
                   IF d >= depth THEN [st EXCEPT !.queue = Tail(@)]
                   ELSE [queue |-> Tail(st.queue) \o reached,
                         seen |-> st.seen \cup ToSet(new),
                         sources |-> st.sources \o reached])

\* Mutated: the node itself is not marked as seen.
MutProvenance(edges, src, depth) ==
    Trail(edges, depth,
          [queue |-> <<[id |-> src, depth |-> 0]>>, seen |-> {}, sources |-> << >>])

Provenance(edges, src, depth) ==
    Trail(edges, depth,
          [queue |-> <<[id |-> src, depth |-> 0]>>, seen |-> {src}, sources |-> << >>])

-----------------------------------------------------------------------------
(* _has_real_provenance: walk(candidate, visiting) with a memo shared by   *)
(* the whole search and a bound on the nodes discovered.  rooted holds the *)
(* ids that end a trust path: human decisions, passed authoritative        *)
(* verifications, recorded evidence, event-backed nodes, raw events.       *)

\* Mutated: a claim met again on its own path vouches for itself.
MutCut(m, visiting, st) == [st EXCEPT !.ok = m \in visiting]

\* A node on the current path, or one past the budget, is cut off without
\* being remembered.
Cut(m, visiting, st) == [st EXCEPT !.ok = FALSE]

RECURSIVE Walk(_, _, _, _)
RECURSIVE AnySource(_, _, _, _)

Walk(q, m, visiting, st) ==
    IF m \in DOMAIN st.memo THEN [st EXCEPT !.ok = st.memo[m]]
    ELSE IF m \in visiting \/ Cardinality(st.discovered) >= q.budget
    THEN Cut(m, visiting, st)
    ELSE LET sources == Ordered({n \in Ids \ {m} : <<m, n>> \in q.edges})
             known == [st EXCEPT !.discovered = @ \cup {m}]
             result == IF m \in q.rooted THEN [known EXCEPT !.ok = TRUE]
                       ELSE AnySource(q, sources, visiting \cup {m}, [known EXCEPT !.ok = FALSE])
         IN  [result EXCEPT !.memo = [i \in DOMAIN @ \cup {m} |->
                                         IF i = m THEN result.ok ELSE @[i]]]

\* any(...) stops at the first source that answers TRUE.
AnySource(q, sources, visiting, st) ==
    IF sources = << >> \/ st.ok THEN st
    ELSE AnySource(q, Tail(sources), visiting, Walk(q, Head(sources), visiting, st))

HasRealProvenance(q) ==
    Walk(q, q.src, {}, [memo |-> << >>, discovered |-> {}, ok |-> FALSE]).ok

-----------------------------------------------------------------------------

Graphs == SUBSET {p \in Ids \X Ids : p[1] # p[2]}

Queries ==
    [kind: {"path"}, edges: Graphs, src: {1}, dst: {N}, depth: Depths]
        \cup [kind: {"trail"}, edges: Graphs, src: {1}, depth: Depths]
        \cup [kind: {"distill"}, edges: Graphs, src: {1}, rooted: {{}, {N}, {N - 1, N}},
              budget: Budgets]

Init == query \in Queries /\ answer = Absent

Answer(q) ==
    CASE q.kind = "path" -> CausalPath(q.edges, q.src, q.dst, q.depth)
      [] q.kind = "trail" -> Provenance(q.edges, q.src, q.depth)
      [] q.kind = "distill" -> HasRealProvenance(q)

Ask == answer = Absent /\ answer' = Answer(query) /\ UNCHANGED query

Next == Ask

-----------------------------------------------------------------------------
(* Properties *)

\* Reference definitions: the nodes within d steps of one, over a relation.
Ball(edges, src, d) ==
    LET b[i \in 0..d] == IF i = 0 THEN {src}
                         ELSE b[i - 1] \cup {n \in Ids : \E m \in b[i - 1] : <<m, n>> \in edges}
    IN  b[d]

Distance(edges, src, n) ==
    CHOOSE d \in 0..N : n \in Ball(edges, src, d) /\ (d > 0 => n \notin Ball(edges, src, d - 1))

Undirected(edges) == edges \cup {<<p[2], p[1]>> : p \in edges}

\* causal_path explains with a real path: it joins the two nodes along edges
\* of the graph, none is shorter, and there is no answer only when no path of
\* at most max_depth edges exists.
PathIsShortest ==
    answer # Absent /\ query.kind = "path" =>
        LET E == Undirected(query.edges)
            near == query.dst \in Ball(E, query.src, query.depth)
        IN  /\ near <=> answer # Nothing
            /\ near => /\ answer[1] = query.src /\ Last(answer) = query.dst
                       /\ \A i \in 1..Len(answer) - 1 : <<answer[i], answer[i + 1]>> \in E
                       /\ Len(answer) - 1 = Distance(E, query.src, query.dst)

\* provenance lists every source within max_depth exactly once, at its
\* distance, although cited nodes may cite one another in cycles.
TrailIsExact ==
    answer # Absent /\ query.kind = "trail" =>
        /\ ToSet(answer) = {[id |-> n, depth |-> Distance(query.edges, query.src, n)] :
                               n \in Ball(query.edges, query.src, query.depth) \ {query.src}}
        /\ Len(answer) = Cardinality(ToSet(answer))

\* _has_real_provenance never lets unsupported claims vouch for each other:
\* TRUE needs a path to a root.  Within the node budget it is also complete,
\* although a node cut off inside a cycle is remembered as unsupported.
ProvenanceIsReal ==
    answer # Absent /\ query.kind = "distill" =>
        LET supported == Ball(query.edges, query.src, N) \cap query.rooted # {} IN
        /\ answer => supported
        /\ supported /\ query.budget >= N => answer

\* The walks answer what their definitions say, on cyclic graphs too.
WalksExact == PathIsShortest /\ TrailIsExact /\ ProvenanceIsReal
=============================================================================
