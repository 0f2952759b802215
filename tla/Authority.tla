----------------------------- MODULE Authority -----------------------------
(***************************************************************************)
(* Who may oblige the agent (engine.py).  Prose only proposes: an ingested *)
(* edit of a source field leaves one claim per statement, bound to that    *)
(* revision.  The owner confirms a claim, rescopes or revokes the          *)
(* confirmation, and accepts or rejects notices that contradict an         *)
(* assumption, each by a canonical decision event that names the exact     *)
(* state it was read from.  What obliges a task is derived from these      *)
(* events, never from the mutable node alone.                              *)
(*                                                                         *)
(* An event is named by its place in the log, a claim by its event and its *)
(* text, a confirmation by the decision that made it.  Payloads that       *)
(* retention cleared are in swept; recorded_at is the writer's clock, which*)
(* may step back, so a sweep may take any of them.                         *)
(***************************************************************************)
EXTENDS Naturals, Sequences, FiniteSets

CONSTANTS
    Scenarios,    \* bounds: [edits, maxEdits, maxDecisions, maxSweeps], edits being what
                  \* sources can deliver: [field, rev, states, denies, strong, poison]
    KindOf,       \* text -> "task", "requirement", "constraint", "assumption"
    Opposites,    \* sets {requirement, constraint} of texts that negate each other
    None

VARIABLES
    log,          \* the events, [edit] or [request]
    swept,        \* events whose payload retention cleared
    admitted,     \* edits whose block was projected and not quarantined
    claims,       \* claim -> [poison, by]: by is the event that withdrew it, or 0
    nodes,        \* confirmation -> its projected node
    notices,      \* <<event, confirmation>> -> [status, wording]
    within        \* the scenario of this behaviour

vars == <<log, swept, admitted, claims, nodes, notices, within>>

Global == {}
IsEdit(i) == log[i].edit # None
EditsMade == {i \in DOMAIN log : IsEdit(i)}
Decisions == DOMAIN log \ EditsMade
Strength(strong) == IF strong THEN 2 ELSE 1

-----------------------------------------------------------------------------
(* Edits.                                                                  *)

MutNewer(e, i) ==
    /\ i \in admitted
    /\ log[i].edit.field = e.field
    /\ log[i].edit.rev > e.rev + 1

\* _newer_source_blocks: a strictly newer revision of this field, admitted
\* from an author at least as strong, makes a late delivery obsolete.
Newer(e, i) ==
    /\ i \in admitted
    /\ log[i].edit.field = e.field
    /\ log[i].edit.rev # 0 /\ e.rev # 0
    /\ log[i].edit.rev > e.rev
    /\ Strength(log[i].edit.strong) >= Strength(e.strong)

Obsolete(e) == \E i \in DOMAIN log : Newer(e, i)

MutWithdraws(e, p) ==
    /\ log[p[1]].edit.field = e.field
    /\ p[2] \notin e.states

\* A block that is not quarantined withdraws a statement of its own field that
\* it no longer makes, if its author is at least as strong.
Withdraws(e, p) ==
    /\ ~e.poison
    /\ log[p[1]].edit.field = e.field
    /\ p[2] \notin e.states
    /\ Strength(e.strong) >= Strength(log[p[1]].edit.strong)

\* The claims that event i leaves behind: its own, and its withdrawals.
ClaimsAfter(e, i) ==
    [p \in DOMAIN claims \cup ({i} \X e.states) |->
        IF p \notin DOMAIN claims THEN [poison |-> e.poison, by |-> 0]
        ELSE IF ~claims[p].poison /\ claims[p].by = 0 /\ Withdraws(e, p)
             THEN [claims[p] EXCEPT !.by = i]
             ELSE claims[p]]

-----------------------------------------------------------------------------
(* What canonical history says of a confirmation.                          *)

\* _proposal_origin: the claim's source is retained and was not quarantined.
OriginHeld(p) == p[1] \notin swept /\ ~claims[p].poison

MutSupported(p) ==
    LET w == claims[p].by
    IN ~(w # 0 /\ w \notin swept /\ Withdraws(log[w].edit, p))

\* _proposal_supported: a recorded withdrawal is permanent, and one whose
\* content is gone is not taken back.
Supported(p) ==
    LET w == claims[p].by
    IN ~(w # 0 /\ (w \in swept \/ Withdraws(log[w].edit, p)))

Text(c) == log[c].request.target[2]

Confirmed(r, i) ==
    [proposal |-> r.target, scope |-> r.scope, version |-> 1, revoked |-> FALSE,
     decision |-> i]

Revised(s, r, i) ==
    [s EXCEPT !.version = @ + 1, !.decision = i, !.revoked = (r.op = "revoke"),
              !.scope = IF r.op = "revoke" THEN @ ELSE r.scope]

Revises(i, c) ==
    /\ i \in DOMAIN log /\ ~IsEdit(i)
    /\ log[i].request.op \in {"revoke", "replace_scope"}
    /\ log[i].request.target = <<c>>

\* The state a prefix of the log gives the confirmation that event c made.
StateUpTo(c, n) ==
    LET fold[i \in c..n] ==
            IF i = c THEN Confirmed(log[c].request, c)
            ELSE IF Revises(i, c) THEN Revised(fold[i - 1], log[i].request, i)
            ELSE fold[i - 1]
    IN fold[n]

State(c) == StateUpTo(c, Len(log))

\* _authority_state raises when a decision from c on, or the claim's source,
\* is gone: it might have held a revocation.
Available(c) ==
    /\ \A i \in Decisions : i >= c => i \notin swept
    /\ OriginHeld(log[c].request.target)

\* authority_is_current: the projected node agrees with canonical history.
IsCurrent(c) ==
    /\ Available(c)
    /\ ~State(c).revoked
    /\ Supported(State(c).proposal)
    /\ nodes[c].state = State(c)

Live(c) == nodes[c].status \in {"active", "uncertain"}

-----------------------------------------------------------------------------
(* _applicable_obligations, for one task or (None) for the packet.         *)

Controls == {c \in DOMAIN nodes : KindOf[Text(c)] # "task" /\ Live(c) /\ nodes[c].valid}

\* A damaged confirmation is not an empty obligation set: the read refuses.
Refuses ==
    \E c \in Controls :
        \/ ~Available(c)
        \/ nodes[c].state.scope # State(c).scope
        \/ \E k \in State(c).scope : ~Available(k)

Obligations(task) ==
    IF Refuses THEN {}
    ELSE {c \in Controls :
            /\ IsCurrent(c)
            /\ task = None \/ State(c).scope = Global \/ task \in State(c).scope}

-----------------------------------------------------------------------------
(* Conflicts.                                                              *)

\* Two confirmed controls meet when their scopes do; an exact opposite pair at
\* the owner's authority is contested, and neither wins.
Meet(s1, s2) == s1 = Global \/ s2 = Global \/ s1 \cap s2 # {}

Opposed(all, c, scope, t) ==
    {d \in DOMAIN nodes \ {c} :
        /\ {t, Text(d)} \in Opposites
        /\ all[d].status # "invalidated"
        /\ IsCurrent(d)
        /\ Meet(scope, all[d].state.scope)}

\* _detect_near_duplicate_conflict, after c was written with that scope.
Contested(all, c, scope, t) ==
    LET ds == Opposed(all, c, scope, t)
    IN [d \in DOMAIN all |->
           IF d \in ds \/ (d = c /\ ds # {}) THEN [all[d] EXCEPT !.status = "uncertain"]
           ELSE all[d]]

-----------------------------------------------------------------------------
(* Ingest.                                                                 *)

MutNoticed(e) ==
    {q \in (DOMAIN nodes) \X {d.wording : d \in e.denies} :
        /\ KindOf[Text(q[1])] = "assumption" /\ nodes[q[1]].status = "active"
        /\ IsCurrent(q[1])
        /\ [text |-> Text(q[1]), wording |-> q[2]] \in e.denies
        /\ ~\E n \in DOMAIN notices :
               n[2] = q[1] /\ notices[n].status \in {"open", "pending_confirmation"}}

\* _notice_explicit_negations: one notice per assumption that stands, unless
\* one is open or pending, or this very wording was already rejected.
Noticed(e) ==
    {q \in (DOMAIN nodes) \X {d.wording : d \in e.denies} :
        /\ KindOf[Text(q[1])] = "assumption" /\ nodes[q[1]].status = "active"
        /\ IsCurrent(q[1])
        /\ [text |-> Text(q[1]), wording |-> q[2]] \in e.denies
        /\ ~\E n \in DOMAIN notices :
               /\ n[2] = q[1]
               /\ \/ notices[n].status \in {"open", "pending_confirmation"}
                  \/ notices[n].status = "rejected" /\ notices[n].wording = q[2]}

\* _process_prepared_event and _process_text for one edited field, in the one
\* transaction that also marks the event.
Ingest(e) ==
    LET i == Len(log) + 1
        after == ClaimsAfter(e, i)
        fresh == IF e.poison \/ ~e.strong THEN {} ELSE Noticed(e)
        lost(c) == log[c].request.target \in DOMAIN claims
                   /\ claims[log[c].request.target].by # after[log[c].request.target].by
    IN /\ Cardinality(EditsMade) < within.maxEdits
       /\ log' = Append(log, [edit |-> e, request |-> None])
       /\ IF Obsolete(e) THEN UNCHANGED <<admitted, claims, nodes, notices>>
          ELSE /\ admitted' = IF e.poison THEN admitted ELSE admitted \cup {i}
               /\ claims' = after
               /\ notices' = [n \in DOMAIN notices \cup {<<i, q[1]>> : q \in fresh} |->
                     IF n \in DOMAIN notices THEN notices[n]
                     ELSE [status |-> "pending_confirmation",
                           wording |-> (CHOOSE q \in fresh : q[1] = n[2])[2]]]
               /\ nodes' = [c \in DOMAIN nodes |->
                     IF lost(c) THEN [nodes[c] EXCEPT !.status = "invalidated", !.valid = FALSE]
                     ELSE nodes[c]]
       /\ UNCHANGED <<swept, within>>

-----------------------------------------------------------------------------
(* Decisions.                                                              *)

\* authority_proposal: the exact operands of a claim that can be confirmed.
Proposable(p) == OriginHeld(p) /\ claims[p].by = 0 /\ Supported(p)

\* The requests a caller can hold: operands as it read them at some moment, the
\* state of a confirmation after any number n of events among them.
Request(id, op, target, expected, scope) ==
    [id |-> id, op |-> op, target |-> target, expected |-> expected, scope |-> scope]

Confirmations(id) ==
    {Request(id, "confirm", p, [version |-> 1], s) : p \in DOMAIN claims, s \in SUBSET DOMAIN nodes}

Revisions(id) ==
    UNION {LET read == {StateUpTo(c, n) : n \in c..Len(log)}
           IN  {Request(id, "revoke", <<c>>, x, Global) : x \in read}
               \cup {Request(id, "replace_scope", <<c>>, x, s) :
                         x \in read, s \in SUBSET DOMAIN nodes} :
           c \in DOMAIN nodes}

Rulings(id) ==
    {Request(id, op, n, [notices[n] EXCEPT !.status = "pending_confirmation"], Global) :
        op \in {"confirm_invalidation", "reject_invalidation"}, n \in DOMAIN notices}

\* A scope names tasks that are confirmed, current and live.
ScopeAllowed(r, t) ==
    /\ KindOf[t] = "task" => r.scope = Global
    /\ \A k \in r.scope : KindOf[Text(k)] = "task" /\ IsCurrent(k) /\ Live(k)

MutBinds(r) ==
    \/ r.op = "confirm" /\ Proposable(r.target) /\ ScopeAllowed(r, r.target[2])
    \/ /\ r.op \in {"revoke", "replace_scope"}
       /\ Available(r.target[1]) /\ ~State(r.target[1]).revoked
       /\ r.op = "replace_scope" => IsCurrent(r.target[1]) /\ ScopeAllowed(r, Text(r.target[1]))
    \/ r.op \in {"confirm_invalidation", "reject_invalidation"} /\ notices[r.target] = r.expected

\* _validate_authority_operands: the request binds the state it was read from.
Binds(r) ==
    \/ /\ r.op = "confirm"
       /\ Proposable(r.target)
       /\ ScopeAllowed(r, r.target[2])
    \/ /\ r.op \in {"revoke", "replace_scope"}
       /\ Available(r.target[1])
       /\ ~State(r.target[1]).revoked
       /\ r.expected = State(r.target[1])
       /\ r.op = "replace_scope" => IsCurrent(r.target[1]) /\ ScopeAllowed(r, Text(r.target[1]))
    \/ /\ r.op \in {"confirm_invalidation", "reject_invalidation"}
       /\ notices[r.target] = r.expected

MutNodesAfter(r, i) ==
    CASE r.op = "confirm" ->
           LET all == [c \in DOMAIN nodes \cup {i} |->
                         IF c = i THEN [state |-> Confirmed(r, i), status |-> "active",
                                        valid |-> TRUE]
                         ELSE nodes[c]]
           IN Contested(all, i, r.scope, r.target[2])
      [] r.op = "replace_scope" -> [nodes EXCEPT ![r.target[1]].state = Revised(@, r, i)]
      [] r.op = "revoke" ->
           [nodes EXCEPT ![r.target[1]] = [state |-> Revised(@.state, r, i),
                                        status |-> "invalidated", valid |-> FALSE]]
      [] r.op = "confirm_invalidation" ->
           [nodes EXCEPT ![r.target[2]].status = "invalidated"]
      [] OTHER -> nodes

\* _process_authority_decision for the decision that event i records.
NodesAfter(r, i) ==
    CASE r.op = "confirm" ->
           LET all == [c \in DOMAIN nodes \cup {i} |->
                         IF c = i THEN [state |-> Confirmed(r, i), status |-> "active",
                                        valid |-> TRUE]
                         ELSE nodes[c]]
           IN Contested(all, i, r.scope, r.target[2])
      [] r.op = "replace_scope" ->
           LET all == [nodes EXCEPT ![r.target[1]].state = Revised(@, r, i)]
           IN Contested(all, r.target[1], r.scope, Text(r.target[1]))
      [] r.op = "revoke" ->
           [nodes EXCEPT ![r.target[1]] = [state |-> Revised(@.state, r, i),
                                        status |-> "invalidated", valid |-> FALSE]]
      [] r.op = "confirm_invalidation" ->
           [nodes EXCEPT ![r.target[2]].status = "invalidated"]
      [] OTHER -> nodes
MutRecorded(r) == {i \in Decisions : log[i].request = r /\ i = Len(log)}

\* record_authority_decision: a recorded id answers with its own receipt, or
\* refuses other operands, and changes nothing.
Recorded(r) == {i \in Decisions : log[i].request.id = r.id}

\* Append, project, mark and audit are one transaction.
Decide(r) ==
    LET i == Len(log) + 1
    IN /\ Recorded(r) = {}
       /\ Binds(r)
       /\ log' = Append(log, [edit |-> None, request |-> r])
       /\ nodes' = NodesAfter(r, i)
       /\ notices' = IF r.op \in {"confirm_invalidation", "reject_invalidation"}
                     THEN [notices EXCEPT ![r.target].status =
                             IF r.op = "confirm_invalidation" THEN "open" ELSE "rejected"]
                     ELSE notices
       /\ UNCHANGED <<swept, admitted, claims, within>>

\* The owner resolves an accepted contradiction in the assumption's favour.
Resolve(n) ==
    /\ notices[n].status = "open"
    /\ notices' = [notices EXCEPT ![n].status = "resolved"]
    /\ nodes' = [nodes EXCEPT ![n[2]].status =
                    IF nodes[n[2]].valid THEN "active" ELSE @]
    /\ UNCHANGED <<log, swept, admitted, claims, within>>

Sweep(i) ==
    /\ Cardinality(swept) < within.maxSweeps
    /\ swept' = swept \cup {i}
    /\ UNCHANGED <<log, admitted, claims, nodes, notices, within>>

-----------------------------------------------------------------------------

Init ==
    /\ log = << >> /\ swept = {} /\ admitted = {}
    /\ claims = << >> /\ nodes = << >> /\ notices = << >>
    /\ within \in Scenarios

\* Callers choose request ids; a fresh one is as good as any other.  Decisions
\* are bounded by the scenario.
RequestIds ==
    IF Cardinality(Decisions) < within.maxDecisions THEN 1..Cardinality(Decisions) + 1 ELSE {}

Next ==
    \/ \E e \in within.edits : Ingest(e)
    \/ \E id \in RequestIds :
          \E r \in Confirmations(id) \cup Revisions(id) \cup Rulings(id) : Decide(r)
    \/ \E n \in DOMAIN notices : Resolve(n)
    \/ \E i \in DOMAIN log \ swept : Sweep(i)

Spec == Init /\ [][Next]_vars

-----------------------------------------------------------------------------
(* Properties.                                                             *)

\* Decisions in the log, read with every payload: each revision was decided on
\* the state that the decisions before it produced, and on one not revoked.
NoLostDecision ==
    \A i \in DOMAIN log, c \in DOMAIN nodes :
        Revises(i, c) => /\ log[i].request.expected = StateUpTo(c, i - 1)
                         /\ ~StateUpTo(c, i - 1).revoked

\* A request id decides once, however often and however late it is retried, so
\* a retried confirmation does not oblige twice.
OneDecisionPerRequest ==
    \A i, j \in Decisions : log[i].request.id = log[j].request.id => i = j

\* Authority that was revoked, lost its source or became unavailable is never
\* current again: not when the statement reappears, not when the payload of
\* the withdrawing edit is swept.
AuthorityNeverRevives ==
    \A c \in DOMAIN nodes : ~IsCurrent(c) => ~IsCurrent(c)'

\* A confirmation stands by the whole log: not revoked, and no admitted edit
\* since its source withdrew it.
Stands(c) ==
    LET p == log[c].request.target
    IN /\ ~\E i \in DOMAIN log : Revises(i, c) /\ log[i].request.op = "revoke"
       /\ ~\E i \in admitted : /\ i > p[1]
                                /\ log[i].edit.field = log[p[1]].edit.field
                                /\ p[2] \notin log[i].edit.states
                                /\ Strength(log[i].edit.strong) >=
                                      Strength(log[p[1]].edit.strong)

\* What a task must obey is never silently dropped or invented: the read
\* refuses, or it holds exactly the standing controls that apply.
ObligationsExact ==
    ~Refuses => \A task \in {None} \cup DOMAIN nodes :
        Obligations(task) =
            {c \in DOMAIN nodes :
                /\ KindOf[Text(c)] # "task" /\ Stands(c)
                /\ ~\E n \in DOMAIN notices : n[2] = c /\ notices[n].status = "open"
                /\ \/ task = None
                   \/ StateUpTo(c, Len(log)).scope \in {Global}
                   \/ task \in StateUpTo(c, Len(log)).scope}

\* Deliveries of one field's stamped revisions may arrive in any order: what
\* its claims still say is what the latest revision says.
LatestRevisionStands ==
    \A i \in admitted :
        LET f == log[i].edit.field
            all == {j \in DOMAIN log : IsEdit(j) /\ log[j].edit.field = f}
        IN /\ \A j \in all : log[j].edit.strong /\ ~log[j].edit.poison /\ log[j].edit.rev # 0
           /\ \A j, k \in all : log[j].edit.rev = log[k].edit.rev => log[j].edit = log[k].edit
           /\ \A j \in all : log[j].edit.rev <= log[i].edit.rev
           => {p[2] : p \in {q \in DOMAIN claims : q[1] \in all /\ claims[q].by = 0}}
                = log[i].edit.states

\* Of two opposite controls that oblige one task, neither silently wins: both
\* are marked uncertain for the owner, also after a scope is replaced.
OppositesContested ==
    \A c, d \in Obligations(None) :
        {Text(c), Text(d)} \in Opposites /\ Meet(State(c).scope, State(d).scope)
            => nodes[c].status = "uncertain" /\ nodes[d].status = "uncertain"

\* An assumption has at most one notice awaiting or under its owner's decision,
\* and a wording once rejected is not raised again.
OneNotice ==
    \A m, n \in DOMAIN notices : m # n /\ m[2] = n[2] =>
        /\ ~({notices[m].status, notices[n].status} \subseteq {"open", "pending_confirmation"})
        /\ notices[m].wording = notices[n].wording =>
              "resolved" \in {notices[m].status, notices[n].status}

\* What people decided is what binds: each decision once and on the state its
\* author saw, the obligations exact, the latest revision standing, opposites and
\* denials put before the owner.
AuthorityExact ==
    /\ NoLostDecision /\ OneDecisionPerRequest
    /\ ObligationsExact /\ LatestRevisionStands
    /\ OppositesContested /\ OneNotice
=============================================================================
