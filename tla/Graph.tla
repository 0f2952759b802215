------------------------------- MODULE Graph --------------------------------
(***************************************************************************)
(* The graph: the invalidation engine (Invalidation, extended here), the   *)
(* versioned rows, and the blast radius search.                            *)
(***************************************************************************)
EXTENDS Invalidation

CONSTANTS
    RowNodes, Direct, RowCalls, MaxVersions, MaxTime,                     \* GraphVersions
    RadiusNodes, Root, RadiusPairs, Weights, Unit, MaxDepth, RadiusCalls  \* Dependents

VARIABLES
    rows, links, clock, held, overtaken,                              \* GraphVersions
    args, weight, frontier, current, todo, seen, best, search         \* Dependents

Rows == INSTANCE GraphVersions WITH Nodes <- RowNodes, Calls <- RowCalls

Radius == INSTANCE Dependents WITH
    Nodes <- RadiusNodes, Pairs <- RadiusPairs, Calls <- RadiusCalls, status <- search

rowVars == <<rows, links, clock, held, overtaken>>
radiusVars == <<args, weight, frontier, current, todo, seen, best, search>>

ASSUME RowCallsOK == Rows!CallsOK /\ Rows!NamesOK

\* Edges carry at most the whole of a strength, and no call looks deeper than the
\* scale of the strengths reaches.
ASSUME RadiusOK ==
    /\ IsFiniteSet(RadiusNodes) /\ Root \in RadiusNodes
    /\ RadiusPairs \subseteq RadiusNodes \X RadiusNodes
    /\ Unit \in Nat \ {0} /\ Weights \subseteq 1..Unit
    /\ MaxDepth \in Nat /\ Unit ^ MaxDepth \in Nat
    /\ RadiusCalls \subseteq [depth : 0..MaxDepth, nodes : Nat, min : Nat]

\* put_node, put_edge, end_edge, as_of: one current version, one belief at each
\* transaction time unless a direct call was overtaken, no reopened validity, no
\* edge out of its scope.
VersionsExact == Rows!VersionsExact

\* dependents: real paths, the strongest ones, and a budget of distinct nodes.
RadiusExact == Radius!RadiusExact
=============================================================================
