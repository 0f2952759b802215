--------------------------- MODULE GraphVersions ---------------------------
(***************************************************************************)
(* The bi-temporal rows of graph.py: put_node, put_edge and end_edge close *)
(* the current row's transaction time and insert the next version; reads   *)
(* are the current row, the history, and the rows believed at a            *)
(* transaction time.                                                       *)
(*                                                                         *)
(* A write samples utcnow() first and takes the store's writer afterwards, *)
(* so a writer that does not already own a transaction (Direct) can be     *)
(* overtaken between the two.  A writer inside a transaction samples and   *)
(* writes under the same lock, in one step.                                *)
(***************************************************************************)
EXTENDS Integers, Sequences, FiniteSets

CONSTANTS
    Nodes,        \* node ids
    Direct,       \* writers that sample the clock before taking the lock
    Calls,        \* the calls made: operation (node, edge, end), id, scope
                  \* (tenant and project) and the arguments it takes
    MaxVersions,  \* bound: versions of one node or edge
    MaxTime,      \* bound: ticks of utcnow()
    None          \* SQL NULL, and "argument not given"

VARIABLES
    rows,         \* nodes table: versions of each node id, in order
    links,        \* edges table: versions of the one edge of each pair of nodes
    clock,        \* last utcnow() sample
    held,         \* per direct writer: its sampled call, or None
    overtaken     \* ids written by a direct call that another write overtook

vars == <<rows, links, clock, held, overtaken>>

Pairs == {p \in Nodes \X Nodes : p[1] # p[2]}

Times == Int \cup {None}

\* What the callers of put_node, put_edge and end_edge pass: a node or a pair
\* of nodes, times or nothing, and a start whenever validity is reopened.
CallsOK ==
    \A c \in Calls :
        /\ c.to \in Times
        /\ \/ /\ c.op = "node"
              /\ c.id \in Nodes
              /\ c.from \in Times
              /\ c.reopen \in BOOLEAN
              /\ c.reopen => c.from # None
           \/ /\ c.op \in {"edge", "end"}
              /\ c.id \in Pairs

\* A node is not a pair of nodes, and None is no time.
NamesOK == Nodes \cap Pairs = {} /\ None \notin Int

Init ==
    /\ rows = [n \in Nodes |-> << >>]
    /\ links = [p \in Pairs |-> << >>]
    /\ clock = 0
    /\ held = [w \in Direct |-> None]
    /\ overtaken = {}

-----------------------------------------------------------------------------
(* Rows *)

Last(s) == s[Len(s)]

Given(value, otherwise) == IF value = None THEN otherwise ELSE value

\* Mutated: the row is inserted without closing the previous one.
MutSupersede(history, row, now) == Append(history, row)

\* UPDATE ... SET tx_to = now on the current row, INSERT of the next version.
Supersede(history, row, now) ==
    Append([i \in DOMAIN history |->
               IF i = Len(history) THEN [history[i] EXCEPT !.txTo = now] ELSE history[i]],
           row)

\* Mutated: the end of validity is not carried forward.
MutNodeVersion(c, history, now) ==
    LET first == history = << >> IN
    [scope |-> c.scope,
     status |-> IF first THEN c.status ELSE Given(c.status, Last(history).status),
     from |-> Given(c.from, IF first THEN now ELSE Last(history).from),
     to |-> c.to, txFrom |-> now, txTo |-> None]

\* put_node carries every field it was not given forward, the end of validity
\* included, unless the call reopens validity with a new interval.
NodeVersion(c, history, now) ==
    LET first == history = << >> IN
    [scope |-> c.scope,
     status |-> IF first THEN c.status ELSE Given(c.status, Last(history).status),
     from |-> Given(c.from, IF first THEN now ELSE Last(history).from),
     to |-> IF first \/ c.reopen THEN c.to ELSE Given(c.to, Last(history).to),
     txFrom |-> now, txTo |-> None]

\* put_node's refusals: a reopened interval must follow a closed one, and the
\* identity of an existing node is immutable.
NodeAccepted(c, history) ==
    /\ c.reopen => history # << >> /\ Last(history).to # None /\ c.from >= Last(history).to
    /\ history # << >> => Last(history).scope = c.scope

\* Mutated: only the source endpoint is looked up.
MutEndpointsInScope(c) == rows[c.id[1]] # << >> /\ Last(rows[c.id[1]]).scope = c.scope

\* _reference_scope of both endpoints equals the edge's scope.
EndpointsInScope(c) ==
    \A n \in {c.id[1], c.id[2]} : rows[n] # << >> /\ Last(rows[n]).scope = c.scope

EdgeAccepted(c, history) ==
    /\ EndpointsInScope(c)
    /\ history # << >> => Last(history).scope = c.scope

\* put_edge does not carry validity forward: asserting an ended edge again
\* starts a new interval now.
EdgeVersion(c, now) ==
    [scope |-> c.scope, from |-> now, to |-> c.to, txFrom |-> now, txTo |-> None]

\* Mutated: end_edge ends the transaction time of the version it inserts.
MutEndVersion(c, history, now) ==
    [Last(history) EXCEPT !.to = Given(c.to, now), !.txFrom = now, !.txTo = now]

\* end_edge keeps the row's fields and ends its validity, now by default.
EndAccepted(c, history) == history # << >> /\ Last(history).scope = c.scope

EndVersion(c, history, now) ==
    [Last(history) EXCEPT !.to = Given(c.to, now), !.txFrom = now, !.txTo = None]

-----------------------------------------------------------------------------
(* Writes *)

\* One write under the writer's lock.
PutNode(c, now) ==
    /\ c.op = "node"
    /\ NodeAccepted(c, rows[c.id])
    /\ Len(rows[c.id]) < MaxVersions
    /\ rows' = [rows EXCEPT ![c.id] = Supersede(@, NodeVersion(c, @, now), now)]
    /\ UNCHANGED links

PutEdge(c, now) ==
    /\ c.op = "edge"
    /\ EdgeAccepted(c, links[c.id])
    /\ Len(links[c.id]) < MaxVersions
    /\ links' = [links EXCEPT ![c.id] = Supersede(@, EdgeVersion(c, now), now)]
    /\ UNCHANGED rows

EndEdge(c, now) ==
    /\ c.op = "end"
    /\ EndAccepted(c, links[c.id])
    /\ Len(links[c.id]) < MaxVersions
    /\ links' = [links EXCEPT ![c.id] = Supersede(@, EndVersion(c, @, now), now)]
    /\ UNCHANGED rows

Write(c, now) == PutNode(c, now) \/ PutEdge(c, now) \/ EndEdge(c, now)

\* A direct call samples utcnow() and then waits for the lock.
Sample(w, c) ==
    /\ held[w] = None
    /\ clock < MaxTime
    /\ clock' = clock + 1
    /\ held' = [held EXCEPT ![w] = [call |-> c, now |-> clock + 1]]
    /\ UNCHANGED <<rows, links, overtaken>>

\* Whether a version of the id was written with a later sample.
Newer(id, now) ==
    LET history == IF id \in Nodes THEN rows[id] ELSE links[id]
    IN  history # << >> /\ Last(history).txFrom > now

\* It gets the lock and writes with the sample it took before.
DirectWrite(w) ==
    /\ held[w] # None
    /\ Write(held[w].call, held[w].now)
    /\ overtaken' = IF Newer(held[w].call.id, held[w].now)
                    THEN overtaken \cup {held[w].call.id} ELSE overtaken
    /\ held' = [held EXCEPT ![w] = None]
    /\ UNCHANGED clock

\* The call raises, or its process dies; nothing is written.
Abandon(w) ==
    /\ held[w] # None
    /\ held' = [held EXCEPT ![w] = None]
    /\ UNCHANGED <<rows, links, clock, overtaken>>

\* A writer that owns its transaction samples and writes in one step.
InsideWrite(c) ==
    /\ clock < MaxTime
    /\ Write(c, clock + 1)
    /\ clock' = clock + 1
    /\ UNCHANGED <<held, overtaken>>

Next ==
    \/ \E w \in Direct, c \in Calls : Sample(w, c)
    \/ \E w \in Direct : DirectWrite(w)
    \/ \E w \in Direct : Abandon(w)
    \/ \E c \in Calls : InsideWrite(c)

Spec == Init /\ [][Next]_vars

-----------------------------------------------------------------------------
(* Properties *)

Histories == {rows[n] : n \in Nodes} \cup {links[p] : p \in Pairs}

\* get(as_of_tx), as_of: the versions believed at a transaction time.
AsOf(history, t) ==
    {i \in DOMAIN history :
        history[i].txFrom <= t /\ (history[i].txTo = None \/ history[i].txTo > t)}

\* put_node, put_edge, end_edge: of every id exactly the newest version is
\* current, whatever order the writers reach the lock in; no call leaves two
\* open rows, or none.
OneCurrentVersion ==
    \A h \in Histories : \A i \in DOMAIN h : (h[i].txTo = None) <=> (i = Len(h))

\* as_of: of an id no direct call was overtaken on, the graph at any
\* transaction time since its creation has exactly one version, the newest
\* one written by then.
BeliefIsUnique(history) ==
    \A t \in history[1].txFrom .. clock :
        AsOf(history, t) = {CHOOSE i \in DOMAIN history :
                               /\ history[i].txFrom <= t
                               /\ i < Len(history) => history[i + 1].txFrom > t}

AsOfExact ==
    /\ \A n \in Nodes \ overtaken : rows[n] # << >> => BeliefIsUnique(rows[n])
    /\ \A p \in Pairs \ overtaken : links[p] # << >> => BeliefIsUnique(links[p])

\* put_node: validity that ended is never silently reopened by a later version
\* (a status change, a correction); only an interval that starts at or after
\* the end may be open again.
ValidityNotReopened ==
    \A n \in Nodes : \A i \in 1 .. Len(rows[n]) - 1 :
        rows[n][i].to # None /\ rows[n][i + 1].to = None
            => rows[n][i + 1].from >= rows[n][i].to

\* put_edge: no edge joins nodes of another tenant or project, so a traversal
\* that starts in a scope stays in it.
EdgesStayInScope ==
    \A p \in Pairs : \A i \in DOMAIN links[p] : \A n \in {p[1], p[2]} :
        rows[n] # << >> /\ \A j \in DOMAIN rows[n] : rows[n][j].scope = links[p][i].scope

\* The rows of an id are one history, in its scope.
VersionsExact == OneCurrentVersion /\ AsOfExact /\ ValidityNotReopened /\ EdgesStayInScope
=============================================================================
