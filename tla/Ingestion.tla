----------------------------- MODULE Ingestion ------------------------------
(***************************************************************************)
(* How a delivered event becomes graph state (engine.py).  The canonical   *)
(* log commits first, in a transaction of its own; the projection and its  *)
(* ok marker commit together in a second one; a processing failure writes  *)
(* a quarantine marker in a third.  Processes interleave, and may die,     *)
(* between the three.  A redelivery finds the event in the log and heals   *)
(* it if it has no marker; retention may clear a payload at any time.      *)
(*                                                                         *)
(* EventLog shows that each of these transactions is atomic and that the   *)
(* log is append-only, so here each one is a single step.  Within one      *)
(* process the Store's RLock already makes ingestion sequential.           *)
(***************************************************************************)
EXTENDS Integers, Sequences, FiniteSets

CONSTANTS
    Procs,       \* processes that run an Engine on the same database
    Events,      \* deliveries, named by their idempotency key
    ProjectOf,   \* the project each delivery is addressed to
    KindOf,      \* what processing its payload does, see Kinds
    NoEvent

\* text    a trace or a human decision: always projects, empty once cleared
\* hook    a GitHub delivery: normalisation of a cleared payload raises
\* poison  extraction raises every time
\* flaky   extraction may raise or succeed
\* malformed  rebuilding its envelope (_re_envelope) raises every time, before
\*         the order rule is looked at: a GitHub payload whose redacted form no
\*         longer normalises, a decision that claims the authority source
Kinds == {"text", "hook", "poison", "flaky", "malformed"}

\* What no replay projects either.
Hopeless == {"poison", "malformed"}

ASSUME IngestAssumption ==
    /\ KindOf \in [Events -> Kinds]
    /\ DOMAIN ProjectOf = Events
    /\ NoEvent \notin Events

VARIABLES
    log,      \* the canonical event log
    cleared,  \* events whose payload retention has nulled
    marker,   \* the processed_events row of each event
    graph,    \* graph rows in commit order: which event wrote them, and
              \* whether it still had its payload when it did
    pc,       \* where each process is between two transactions
    cur       \* the event each process is ingesting

vars == <<log, cleared, marker, graph, pc, cur>>

-----------------------------------------------------------------------------
Logged == {log[i] : i \in DOMAIN log}

Position(e) == CHOOSE i \in DOMAIN log : log[i] = e

Before(e, f) == /\ ProjectOf[e] = ProjectOf[f]
                /\ Position(e) < Position(f)

\* Mutated: only the later marker is looked at, so a hole can be jumped.
MutDisorderedHole(e) ==
    /\ e \notin cleared
    /\ \E f \in Logged : Before(e, f) /\ marker[f] # "none"

\* Mutated: only the earlier hole is looked at, so an old retry runs late.
MutDisorderedLate(e) ==
    \E f \in Logged \ cleared : Before(f, e) /\ marker[f] = "none"

\* The canonical-order rule of _process_prepared_event (ADR-120): a retained
\* hole before e, or a payload to project behind a later marker.
Disordered(e) ==
    \/ \E f \in Logged \ cleared : Before(f, e) /\ marker[f] = "none"
    \/ /\ e \notin cleared
       /\ \E f \in Logged : Before(e, f) /\ marker[f] # "none"

\* Whether extraction can succeed, or raise, on the stored event.
CanProject(e) == \/ KindOf[e] \in {"text", "flaky"}
                 \/ KindOf[e] = "hook" /\ e \notin cleared

CanRaise(e) == \/ KindOf[e] \in Hopeless \cup {"flaky"}
               \/ KindOf[e] = "hook" /\ e \in cleared

\* The projection transaction commits graph rows and the ok marker together.
ProjectAndMark(e) ==
    /\ graph' = Append(graph, [event |-> e, full |-> e \notin cleared])
    /\ marker' = [marker EXCEPT ![e] = "ok"]

Return(p) == /\ pc' = [pc EXCEPT ![p] = "idle"]
             /\ cur' = [cur EXCEPT ![p] = NoEvent]

-----------------------------------------------------------------------------
Init ==
    /\ log = << >>
    /\ cleared = {}
    /\ marker = [e \in Events |-> "none"]
    /\ graph = << >>
    /\ pc = [p \in Procs |-> "idle"]
    /\ cur = [p \in Procs |-> NoEvent]

\* Mutated: processing starts although the append was not committed.
MutAccept(p, e) ==
    /\ pc[p] = "idle"
    /\ e \notin Logged
    /\ pc' = [pc EXCEPT ![p] = "project"]
    /\ cur' = [cur EXCEPT ![p] = e]
    /\ UNCHANGED <<log, cleared, marker, graph>>

\* _ingest, first delivery: append_event commits the event on its own.
Accept(p, e) ==
    /\ pc[p] = "idle"
    /\ e \notin Logged
    /\ log' = Append(log, e)
    /\ pc' = [pc EXCEPT ![p] = "project"]
    /\ cur' = [cur EXCEPT ![p] = e]
    /\ UNCHANGED <<cleared, marker, graph>>

\* Mutated: every redelivery is a benign duplicate, as before healing existed.
MutRedeliver(p, e) ==
    /\ pc[p] = "idle"
    /\ e \in Logged
    /\ UNCHANGED vars

\* _ingest, redelivery: DuplicateEventError, and the fast-path look at the
\* marker.  An event with any marker is a benign duplicate.
Redeliver(p, e) ==
    /\ pc[p] = "idle"
    /\ e \in Logged
    /\ marker[e] = "none"
    /\ pc' = [pc EXCEPT ![p] = "heal"]
    /\ cur' = [cur EXCEPT ![p] = e]
    /\ UNCHANGED <<log, cleared, marker, graph>>

\* Mutated: the live projection does not look for an ok marker first.
MutProject(p) ==
    LET e == cur[p] IN
    /\ pc[p] = "project"
    /\ e \notin cleared
    /\ ~Disordered(e)
    /\ CanProject(e)
    /\ ProjectAndMark(e)
    /\ Return(p)
    /\ UNCHANGED <<log, cleared>>

\* The live projection transaction succeeds, or finds the work already done.
Project(p) ==
    LET e == cur[p] IN
    /\ pc[p] = "project"
    /\ e \notin cleared
    /\ \/ /\ marker[e] = "ok"
          /\ UNCHANGED <<marker, graph>>
       \/ /\ marker[e] # "ok"
          /\ ~Disordered(e)
          /\ CanProject(e)
          /\ ProjectAndMark(e)
    /\ Return(p)
    /\ UNCHANGED <<log, cleared>>

\* It is refused without a marker: the payload was swept after the append, so
\* the supplied event is no longer the stored one, or the order rule fails.  A
\* malformed event never gets as far as the order rule.
RefuseLive(p) ==
    LET e == cur[p] IN
    /\ pc[p] = "project"
    /\ \/ e \in cleared
       \/ KindOf[e] # "malformed" /\ marker[e] # "ok" /\ Disordered(e)
    /\ Return(p)
    /\ UNCHANGED <<log, cleared, marker, graph>>

\* Extraction raises, or already the rebuilding of the envelope, which comes
\* before the marker and the order rule: the projection is rolled back,
\* quarantine comes next.
ProjectFails(p) ==
    LET e == cur[p] IN
    /\ pc[p] = "project"
    /\ e \notin cleared
    /\ \/ KindOf[e] = "malformed"
       \/ marker[e] # "ok" /\ ~Disordered(e) /\ CanRaise(e)
    /\ pc' = [pc EXCEPT ![p] = "quarantine"]
    /\ UNCHANGED <<log, cleared, marker, graph, cur>>

\* Mutated: quarantine overwrites whatever marker a competitor wrote meanwhile.
MutQuarantine(p) ==
    /\ pc[p] = "quarantine"
    /\ marker' = [marker EXCEPT ![cur[p]] = "quarantined"]
    /\ Return(p)
    /\ UNCHANGED <<log, cleared, graph>>

\* _mark_event_quarantined: only over an empty terminal state, else it refuses.
Quarantine(p) ==
    LET e == cur[p] IN
    /\ pc[p] = "quarantine"
    /\ IF marker[e] = "none" /\ \A i \in DOMAIN graph : graph[i].event # e
       THEN marker' = [marker EXCEPT ![e] = "quarantined"]
       ELSE UNCHANGED marker
    /\ Return(p)
    /\ UNCHANGED <<log, cleared, graph>>

\* process_event on the stored row, as a heal or as a direct public call.  A
\* failure raises to the caller and leaves everything as it was.
ProcessEvent(e) ==
    \/ /\ marker[e] = "ok" \/ Disordered(e) \/ CanRaise(e)
       /\ UNCHANGED <<marker, graph>>
    \/ /\ marker[e] # "ok"
       /\ ~Disordered(e)
       /\ CanProject(e)
       /\ ProjectAndMark(e)

\* The heal transaction looks at the marker again under the writer lock.
Heal(p) ==
    LET e == cur[p] IN
    /\ pc[p] = "heal"
    /\ IF marker[e] = "none" THEN ProcessEvent(e) ELSE UNCHANGED <<marker, graph>>
    /\ Return(p)
    /\ UNCHANGED <<log, cleared>>

\* Engine.process_event is public: a caller may retry any stored event.
Reprocess(p, e) ==
    /\ pc[p] = "idle"
    /\ e \in Logged
    /\ ProcessEvent(e)
    /\ UNCHANGED <<log, cleared, pc, cur>>

\* record_authority_decision: append, project, mark and audit in one
\* transaction, so a refusal leaves no event behind.
Decide(p, e) ==
    /\ pc[p] = "idle"
    /\ e \notin Logged
    /\ KindOf[e] = "text"
    /\ \A f \in Logged \ cleared : ProjectOf[f] = ProjectOf[e] => marker[f] # "none"
    /\ log' = Append(log, e)
    /\ ProjectAndMark(e)
    /\ UNCHANGED <<cleared, pc, cur>>

\* sweep_retention clears payloads whether or not they were ever projected.
Sweep(old) ==
    /\ old # {}
    /\ old \subseteq Logged \ cleared
    /\ cleared' = cleared \cup old
    /\ UNCHANGED <<log, marker, graph, pc, cur>>

\* The process dies between two of its transactions.
Crash(p) ==
    /\ pc[p] # "idle"
    /\ Return(p)
    /\ UNCHANGED <<log, cleared, marker, graph>>

Ingest(p) == Project(p) \/ RefuseLive(p) \/ ProjectFails(p) \/ Quarantine(p) \/ Heal(p)

Next ==
    \/ \E p \in Procs :
          \/ \E e \in Events : Accept(p, e) \/ Redeliver(p, e)
                               \/ Reprocess(p, e) \/ Decide(p, e)
          \/ Ingest(p)
          \/ Crash(p)
    \/ \E old \in SUBSET Events : Sweep(old)

Spec == Init /\ [][Next]_vars

-----------------------------------------------------------------------------
(* Properties.                                                             *)

\* Every variable has the shape the tables and the methods give it, and a
\* process that is ingesting is ingesting an event of the log.
TypeOK ==
    /\ log \in Seq(Events)
    /\ cleared \subseteq Logged
    /\ marker \in [Events -> {"none", "ok", "quarantined"}]
    /\ graph \in Seq([event: Events, full: BOOLEAN])
    /\ pc \in [Procs -> {"idle", "project", "quarantine", "heal"}]
    /\ cur \in [Procs -> Events \cup {NoEvent}]
    /\ \A p \in Procs : pc[p] # "idle" => cur[p] \in Logged

\* An event is logged once, and projected once exactly when its marker is ok;
\* a quarantined or unmarked event has no graph rows (ADR-114, ADR-116).
MarkerWitnessesGraph ==
    /\ \A i, j \in DOMAIN log : log[i] = log[j] => i = j
    /\ \A i, j \in DOMAIN graph : graph[i].event = graph[j].event => i = j
    /\ \A e \in Events : marker[e] = "ok" <=> \E i \in DOMAIN graph : graph[i].event = e
    /\ \A e \in Events : marker[e] # "none" => e \in Logged

\* No event of a project is marked past a retained event that is not, except
\* one whose envelope cannot be rebuilt: nothing is projected, and nothing that
\* extraction could have settled is written off, while an earlier event waits.
NoHoleJumped ==
    \A e, f \in Logged :
        /\ Before(e, f)
        /\ e \notin cleared
        /\ marker[f] # "none"
        /\ KindOf[f] # "malformed"
        => marker[e] # "none"

\* Without the exception, as ADR-120 has it, this is false: a malformed event
\* is quarantined past the hole, whose own repair the order rule then refuses.
NoHoleJumpedAtAll ==
    \A e, f \in Logged :
        Before(e, f) /\ e \notin cleared /\ marker[f] # "none" => marker[e] # "none"

\* What a project's graph learned, it learned in the order of the log, however
\* deliveries, heals, retries and crashes interleave.
ProjectedInLogOrder ==
    \A i, j \in DOMAIN graph :
        /\ i < j
        /\ graph[i].full /\ graph[j].full
        /\ ProjectOf[graph[i].event] = ProjectOf[graph[j].event]
        => Before(graph[i].event, graph[j].event)

\* rebuild_projection takes the project's events in the order of the log and
\* quarantines what raises: the events it projects.
OfProject(j) == {e \in Logged : ProjectOf[e] = j}

\* Mutated: replay does not tolerate what live ingestion quarantined.
MutReplayed(j) ==
    {e \in OfProject(j) : \A f \in Logged : Position(f) <= Position(e) => KindOf[f] \notin Hopeless}

Replayed(j) == {e \in OfProject(j) : KindOf[e] \notin Hopeless}

\* The rows that the live projection committed.
Live(j) == {i \in DOMAIN graph : ProjectOf[graph[i].event] = j}

\* With every payload retained and every event settled, replaying the log yields
\* the live projection, poison and all (CCG-006): the same events, one row each,
\* in the same order.
ReplayMatchesLive ==
    \A j \in {ProjectOf[e] : e \in Events} :
        /\ OfProject(j) \cap cleared = {}
        /\ \A e \in OfProject(j) : marker[e] # "none"
        /\ \A e \in OfProject(j) : KindOf[e] = "flaky" => marker[e] = "ok"
        => /\ {graph[i].event : i \in Live(j)} = Replayed(j)
           /\ \A i, k \in Live(j) : i < k <=> Before(graph[i].event, graph[k].event)

\* A success is final: no interleaving turns an ok marker into anything else,
\* and no graph row or log entry is ever taken back.
SuccessIsFinal ==
    [][/\ \A e \in Events : marker[e] = "ok" => marker'[e] = "ok"
       /\ \A e \in Events : marker[e] # "none" => marker'[e] # "none"
       /\ SubSeq(graph', 1, Len(graph)) = graph
       /\ SubSeq(log', 1, Len(log)) = log]_vars

-----------------------------------------------------------------------------
(* Liveness, when an operator keeps redelivering what is not yet settled   *)
(* (the repair replay_completeness and the order rule both prescribe), and  *)
(* a process is not killed at every single attempt on the same event.      *)

Fairness ==
    \A e \in Events :
        /\ SF_vars(\E p \in Procs : Redeliver(p, e))
        /\ SF_vars(\E p \in Procs : cur[p] = e /\ Ingest(p))

FairSpec == Spec /\ Fairness

\* Every event in the log is eventually settled, ok or quarantined, unless
\* retention cleared it first: redelivery is the documented repair.
EveryEventSettles ==
    \A e \in Events : e \in Logged ~> (marker[e] # "none" \/ e \in cleared)

\* The same for the events whose processing never raises, whatever else is in
\* the log: a poisoned event is quarantined and ingestion carries on (ADR-036).
SoundEventsSettle ==
    \A e \in Events : KindOf[e] = "text" =>
        (e \in Logged ~> (marker[e] # "none" \/ e \in cleared))
=============================================================================
