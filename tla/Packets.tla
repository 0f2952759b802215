------------------------------ MODULE Packets ------------------------------
(***************************************************************************)
(* Memory tiers and resume packets (memory.py, resume.py, engine.py).  A   *)
(* packet is composed in one transaction from the state it finds: its      *)
(* mandatory part is never trimmed and its optional sections are cut to    *)
(* the budgets.  A recorded packet leaves a watermark with the basis read  *)
(* before composing, which later decides whether the packet is stale.      *)
(*                                                                         *)
(* Nodes are numbered in the order retrieval ranks them.  Whether a node's *)
(* authority is current is Authority's matter and one flag here; files and *)
(* the clock move while a packet is composed, the database does not.       *)
(***************************************************************************)
EXTENDS Integers, FiniteSets

CONSTANTS
    N,            \* number of nodes
    Kind,         \* node -> "control", "task", "plan", "claim"
    Scope,        \* control -> the tasks it is scoped to, {} for all
    Echo,         \* node -> the nodes whose text appears in its text
    Statuses,     \* kind -> the statuses its nodes take
    Provenanced,  \* nodes whose provenance resolves
    Budgets,      \* [tokens, bytes] a caller may ask for
    MaxSteps,     \* bound: changes of the project's state
    None

Nodes == 1..N
Tasks == {n \in Nodes : Kind[n] = "task"}

\* A packet is for one task, or for the project.
Project == 0
Scopes == {Project} \cup Tasks

VARIABLES
    node,         \* [status, current, valid] of each node
    tier,         \* the tier each node's newest assignment row leaves it in
    grant,        \* an autonomy grant is active: it expires by the clock
    files,        \* version of the deliverables
    seq,          \* newest event
    pending,      \* an event without a processing marker
    work,         \* the composition under way
    scope,        \* the packet scope this behaviour follows: each has its own row
    mark,         \* its watermark row and the audit entry that commits to it
    issued,       \* the packet returned by the last step, or None
    steps

vars == <<node, tier, grant, files, seq, pending, work, scope, mark, issued, steps>>

Down == {"invalidated", "uncertain", "blocked"}
Retired == {"invalidated", "quarantined"}
Blocked == {"blocked", "uncertain"}
Quarantined == {n \in Nodes : node[n].status = "quarantined"}

-----------------------------------------------------------------------------
(* Memory.                                                                 *)

MutL0IsBinding(n) == node[n].current

\* _l0_is_binding: pinned control must also be live; a plan needs authority.
L0IsBinding(n) ==
    /\ Kind[n] # "plan" => node[n].status \notin Down
    /\ node[n].current

\* tier_members and l0: whatever route quarantined a node, it is in no tier.
L0 == {n \in Nodes : tier[n] = "L0" /\ n \notin Quarantined /\ L0IsBinding(n)}

Step == steps < MaxSteps /\ steps' = steps + 1 /\ issued' = None
Idle == work = None

Promote(n, t) ==
    /\ Idle /\ Step
    /\ n \notin Quarantined
    /\ t = "L0" => L0IsBinding(n)
    /\ t = "L3" => n \in Provenanced
    /\ tier' = [tier EXCEPT ![n] = t]
    /\ UNCHANGED <<node, grant, files, seq, pending, work, scope, mark>>

\* demote refuses to take a node out of a tier its caller did not name.
Demote(n, t) ==
    /\ Idle /\ Step
    /\ tier[n] = t /\ t # None
    /\ tier' = [tier EXCEPT ![n] = None]
    /\ UNCHANGED <<node, grant, files, seq, pending, work, scope, mark>>

\* partial.quarantine also records the demotion.
Quarantine(n) ==
    /\ Idle /\ Step
    /\ n \notin Quarantined
    /\ node' = [node EXCEPT ![n].status = "quarantined"]
    /\ tier' = [tier EXCEPT ![n] = None]
    /\ UNCHANGED <<grant, files, seq, pending, work, scope, mark>>

-----------------------------------------------------------------------------
(* Selection, and the basis a packet commits to.                           *)

\* _applicable_obligations: see Authority.
Obliges(n) ==
    /\ Kind[n] = "control"
    /\ node[n].status \notin Retired
    /\ node[n].valid /\ node[n].current

InScope(n, s) == s = Project \/ Scope[n] = {} \/ s \in Scope[n]

\* _packet_scope: a task packet is for a live confirmed task.
ScopeOpen(s) ==
    s # Project => /\ node[s].valid /\ node[s].current
                   /\ node[s].status \in {"open", "blocked"}

\* _packet_selection.
Selection(s) ==
    LET all == {n \in Nodes : Obliges(n)}
        controls == {n \in all : InScope(n, s)}
    IN [controls |-> {<<n, node[n].status>> : n \in controls},
        tasks |-> {t \in Tasks : node[t].valid /\ node[t].current},
        excluded |-> (all \ controls) \cup (IF s = Project THEN {} ELSE Tasks \ {s})]

\* _packet_control_basis and _packet_state_basis.
Basis(s) == [seq |-> seq, node |-> node, tier |-> tier, grant |-> grant, files |-> files,
             selection |-> Selection(s)]

-----------------------------------------------------------------------------
(* The composer.                                                           *)

Applies(sel, n) ==
    /\ n \notin sel.excluded
    /\ Kind[n] = "control" => <<n, node[n].status>> \in sel.controls
    /\ Kind[n] = "task" => n \in sel.tasks

First(S) == IF S = {} THEN None ELSE CHOOSE n \in S : \A m \in S : n <= m

\* _mission: the objective is the first plan pinned; live pins are control state.
Mission(l0) ==
    [objective |-> First({n \in l0 : Kind[n] = "plan"}),
     pinned |-> {n \in l0 : node[n].status \notin Retired},
     retired |-> {n \in l0 : node[n].status \in Retired}]

\* _open_work: the next safe action is the first task that is not blocked.
OpenWork(open) ==
    [tasks |-> open, next |-> First({t \in open : node[t].status \notin Blocked})]

\* compose: the sections that no budget may touch.
Mandatory(sel, basis) ==
    LET l0 == {n \in L0 : Applies(sel, n)}
        candidates == {n \in Nodes : tier[n] = "L0" /\ n \notin Quarantined}
        open == {t \in Tasks : /\ node[t].status \in {"open", "blocked"}
                               /\ node[t].current /\ Applies(sel, t)}
    IN [control |-> sel.controls,
        mission |-> Mission(l0),
        withheld |-> Cardinality(candidates) - Cardinality(l0)
                       - Cardinality(candidates \cap sel.excluded),
        work |-> OpenWork(open),
        level |-> grant,
        inputs |-> basis.files]

\* The nodes whose text the mandatory part holds.
MandatoryNodes(m) ==
    {c[1] : c \in m.control} \cup m.work.tasks \cup m.mission.pinned \cup m.mission.retired

Verified(sel) == {t \in Tasks : node[t].status = "verified" /\ Applies(sel, t)}

\* retrieve: everything not quarantined that is not pinned anyway.
Recent(sel) == {n \in Nodes \ Quarantined : n \notin L0 /\ Applies(sel, n)}

MutTainted(n) == n \in Quarantined

\* _strip_quarantined: text that a quarantined node carries leaves nowhere.
Tainted(n) == Echo[n] \cap Quarantined # {}

Size(m, recent, verified, dropped) ==
    2 * (Cardinality(m.control) + Cardinality(m.work.tasks)
         + Cardinality(recent) + Cardinality(verified)) + dropped

Lowest(S, k) == {n \in S : Cardinality({m \in S : m < n}) < k}

\* _fit_budget: recent context, then verified progress, are cut from their end
\* as far as the token budget needs.
FitTokens(m, recent, verified, budget) ==
    LET r == Lowest(recent, (budget - Size(m, {}, verified, 0)) \div 2)
    IN [recent |-> r, verified |-> Lowest(verified, (budget - Size(m, r, {}, 0)) \div 2)]

MutFitBytes(m, opt, budget) ==
    [fits |-> TRUE, recent |-> {}, verified |-> {},
     mandatory |-> IF Size(m, {}, {}, 0) <= budget THEN m ELSE [m EXCEPT !.control = {}]]

\* The response budget drops whole optional sections, each disclosed, and then
\* refuses: PacketBudgetExceeded.
FitBytes(m, opt, budget) ==
    LET a == [recent |-> opt.recent, verified |-> opt.verified, dropped |-> 0]
        b == IF a.recent = {} THEN a ELSE [a EXCEPT !.recent = {}, !.dropped = 1]
        c == IF b.verified = {} THEN b ELSE [b EXCEPT !.verified = {}, !.dropped = @ + 1]
        fits(x) == Size(m, x.recent, x.verified, x.dropped) <= budget
        best == IF fits(a) THEN a ELSE IF fits(b) THEN b ELSE c
    IN [fits |-> fits(best), recent |-> best.recent, verified |-> best.verified,
        mandatory |-> m]

\* The packet a composition produces, or None when it refuses.
Composed(sel, basis, budget) ==
    LET m == Mandatory(sel, basis)
        cut == FitTokens(m, Recent(sel), Verified(sel), budget.tokens)
        clean == [recent |-> {n \in cut.recent : ~Tainted(n)},
                  verified |-> {n \in cut.verified : ~Tainted(n)}]
        out == FitBytes(m, clean, budget.bytes)
    IN IF (\E n \in MandatoryNodes(m) : Tainted(n)) \/ ~out.fits THEN None
       ELSE [mandatory |-> out.mandatory, recent |-> out.recent, verified |-> out.verified]

-----------------------------------------------------------------------------
(* Composing, recording, asking.                                           *)

\* _resume_packet takes the writer and reads the basis.
Begin(budget) ==
    /\ Idle
    /\ ScopeOpen(scope) /\ ~pending
    /\ work' = [budget |-> budget, basis |-> Basis(scope)]
    /\ issued' = None
    /\ UNCHANGED <<node, tier, grant, files, seq, pending, scope, mark, steps>>

MutWatermark(packet) == [packet |-> packet, basis |-> Basis(scope), audit |-> packet]

\* _record_watermark: the basis read before composing, and the audit entry.
Watermark(packet) == [packet |-> packet, basis |-> work.basis, audit |-> packet]

\* It composes and, if asked to, records the watermark; or it refuses and
\* leaves nothing.
Finish(record) ==
    LET packet == Composed(work.basis.selection, work.basis, work.budget)
    IN /\ work # None
       /\ work' = None
       /\ issued' = packet
       /\ mark' = IF record /\ packet # None THEN Watermark(packet) ELSE mark
       /\ UNCHANGED <<node, tier, grant, files, seq, pending, scope, steps>>

\* packet_is_stale.
Stale ==
    \/ pending
    \/ mark = None
    \/ mark.basis # Basis(scope)
    \/ mark.audit # mark.packet

-----------------------------------------------------------------------------
(* The project moves.                                                      *)

\* Invalidation, resolution, completion: a node's status changes; any path but
\* partial.quarantine leaves the tier alone.
SetStatus(n, status) ==
    /\ Idle /\ Step
    /\ node[n].status # status
    /\ node' = [node EXCEPT ![n].status = status]
    /\ UNCHANGED <<tier, grant, files, seq, pending, work, scope, mark>>

\* The source of a confirmation is withdrawn (Authority).
LoseAuthority(n) ==
    /\ Idle /\ Step
    /\ node[n].current
    /\ node' = [node EXCEPT ![n].current = FALSE]
    /\ UNCHANGED <<tier, grant, files, seq, pending, work, scope, mark>>

\* Ingest appends, then projects and marks (Ingestion).
AppendEvent ==
    /\ Idle /\ Step
    /\ ~pending
    /\ seq' = seq + 1 /\ pending' = TRUE
    /\ UNCHANGED <<node, tier, grant, files, work, scope, mark>>

ProcessEvent ==
    /\ Idle
    /\ pending /\ pending' = FALSE
    /\ UNCHANGED <<node, tier, grant, files, seq, work, scope, mark, steps>>
    /\ issued' = None

\* The clock passes the end of a grant, or of a node's validity.
Expire ==
    /\ Step
    /\ \/ grant /\ grant' = FALSE /\ UNCHANGED node
       \/ Idle /\ UNCHANGED grant
          /\ \E n \in Nodes : node[n].valid /\ node' = [node EXCEPT ![n].valid = FALSE]
    /\ UNCHANGED <<tier, files, seq, pending, work, scope, mark>>

\* Any program writes a deliverable, also while a packet is composed.
Edit ==
    /\ Step
    /\ files' = files + 1
    /\ UNCHANGED <<node, tier, grant, seq, pending, work, scope, mark>>

-----------------------------------------------------------------------------

Init ==
    /\ node = [n \in Nodes |-> [status |-> CHOOSE x \in Statuses[Kind[n]] :
                                   x \in {"active", "open", "recorded"},
                                current |-> TRUE, valid |-> TRUE]]
    /\ tier = [n \in Nodes |-> None]
    /\ grant = TRUE /\ files = 0 /\ seq = 0 /\ pending = FALSE
    /\ work = None
    /\ scope \in Scopes
    /\ mark = None /\ issued = None
    /\ steps = 0

Next ==
    \/ \E n \in Nodes, t \in {"L0", "L3"} : Promote(n, t) \/ Demote(n, t)
    \/ \E n \in Nodes : Quarantine(n) \/ LoseAuthority(n)
    \/ \E n \in Nodes : \E status \in Statuses[Kind[n]] : SetStatus(n, status)
    \/ \E b \in Budgets : Begin(b)
    \/ \E record \in BOOLEAN : Finish(record)
    \/ AppendEvent \/ ProcessEvent \/ Expire \/ Edit

Spec == Init /\ [][Next]_vars

-----------------------------------------------------------------------------
(* Properties.                                                             *)

\* A packet that is not reported stale says what composing now would say.
CurrentMeansCurrent ==
    ScopeOpen(scope) /\ ~Stale =>
        mark.packet.mandatory = Mandatory(Selection(scope), Basis(scope))

\* However small the budgets, a packet that is returned holds every control
\* that obliges its scope and fits the response; otherwise there is none.
MandatoryComplete ==
    issued' # issued /\ issued' # None =>
        LET m == issued'.mandatory
        IN /\ {c[1] : c \in m.control} = {n \in Nodes : Obliges(n) /\ InScope(n, scope)}
           /\ 2 * Cardinality(m.control) <= work.budget.bytes

\* No packet carries a quarantined node, nor any node that echoes its text.
NothingQuarantinedLeaves ==
    issued' # issued /\ issued' # None =>
        LET p == issued'
            shown == {c[1] : c \in p.mandatory.control} \cup p.mandatory.work.tasks
                       \cup p.mandatory.mission.pinned \cup p.recent \cup p.verified
        IN \A n \in shown : n \notin Quarantined /\ Echo[n] \cap Quarantined = {}

\* The pinned list holds live control only, and what was pinned and no longer
\* binds is counted as withheld.
PinsBind ==
    issued' # issued /\ issued' # None =>
        LET m == issued'.mandatory
            pins == {n \in Nodes : tier[n] = "L0" /\ n \notin Quarantined}
        IN /\ \A n \in m.mission.pinned : node[n].current /\ node[n].status \notin Retired
           /\ \A n \in m.mission.pinned : Kind[n] = "control" => node[n].status = "active"
           /\ scope = Project => Cardinality(pins) = Cardinality(m.mission.pinned) + Cardinality(m.mission.retired)
                                                   + m.withheld

\* A packet that is returned is complete and clean, and its pins bind.
PacketsComplete == MandatoryComplete /\ NothingQuarantinedLeaves /\ PinsBind

\* Retired control state is not control state (ADR-053): the objective a packet
\* states is not one of the plans it lists as retired.
ObjectiveIsLive ==
    issued # None => issued.mandatory.mission.objective
                           \notin issued.mandatory.mission.retired
=============================================================================
