-------------------------- MODULE IngestionProofs ---------------------------
(***************************************************************************)
(* Ingestion's safety properties, for any number of processes, events and  *)
(* projects.                                                               *)
(*                                                                         *)
(* NoHoleJumped is not inductive on its own: a process writes a quarantine *)
(* marker in a transaction that does not look at the order rule again.  It *)
(* is safe because the rule held when processing failed, unless the event  *)
(* is malformed, and nothing since can have opened a retained hole before  *)
(* it: QuarantineReady.                                                    *)
(***************************************************************************)
EXTENDS Ingestion, SequenceTheorems, TLAPS

\* A process about to quarantine an event that failed behind the order rule has
\* no retained unmarked event before it.
QuarantineReady ==
    \A p \in Procs : pc[p] = "quarantine" /\ KindOf[cur[p]] # "malformed" =>
        \A f \in Logged \ cleared : Before(f, cur[p]) => marker[f] # "none"

\* The part of the invariant that only speaks of the tables.
TablesOK ==
    /\ log \in Seq(Events)
    /\ cleared \subseteq Logged
    /\ marker \in [Events -> {"none", "ok", "quarantined"}]
    /\ graph \in Seq([event: Events, full: BOOLEAN])
    /\ MarkerWitnessesGraph
    /\ NoHoleJumped
    /\ ProjectedInLogOrder

\* The part that ties the processes to them.
ProcessesOK ==
    /\ pc \in [Procs -> {"idle", "project", "quarantine", "heal"}]
    /\ cur \in [Procs -> Events \cup {NoEvent}]
    /\ \A p \in Procs : pc[p] # "idle" => cur[p] \in Logged
    /\ QuarantineReady

IInv == TablesOK /\ ProcessesOK

-----------------------------------------------------------------------------
\* Position finds the one place of a logged event.
LEMMA PositionIsIndex ==
    ASSUME TablesOK, NEW i \in DOMAIN log
    PROVE  Position(log[i]) = i
  <1>1. \A j \in DOMAIN log : log[j] = log[i] => j = i
    BY DEF TablesOK, MarkerWitnessesGraph
  <1> QED BY <1>1 DEF Position

\* A logged event is an event and has a position in the log.
LEMMA LoggedHasPosition ==
    ASSUME TablesOK, NEW e \in Logged
    PROVE  /\ e \in Events
           /\ Position(e) \in 1..Len(log)
           /\ log[Position(e)] = e
  <1>1. PICK i \in DOMAIN log : log[i] = e
    BY DEF Logged
  <1>2. DOMAIN log = 1..Len(log) /\ log[i] \in Events
    BY <1>1, LenProperties, ElementOfSeq DEF TablesOK
  <1> QED BY <1>1, <1>2, PositionIsIndex

\* The rows of the graph are of logged events that are marked ok.
LEMMA RowsAreLogged ==
    ASSUME TablesOK, NEW i \in DOMAIN graph
    PROVE  graph[i].event \in Logged /\ marker[graph[i].event] = "ok"
  <1>1. graph \in Seq([event: Events, full: BOOLEAN]) /\ MarkerWitnessesGraph
    BY DEF TablesOK
  <1>2. graph[i] \in [event: Events, full: BOOLEAN]
    BY <1>1, LenProperties, ElementOfSeq
  <1>3. marker[graph[i].event] = "ok"
    BY <1>1, <1>2 DEF MarkerWitnessesGraph
  <1> QED BY <1>1, <1>2, <1>3 DEF MarkerWitnessesGraph

\* What appending a fresh event does to the log.
LEMMA AppendLog ==
    ASSUME TablesOK, NEW e \in Events, e \notin Logged, log' = Append(log, e)
    PROVE  /\ log' \in Seq(Events)
           /\ Logged' = Logged \cup {e}
           /\ \A i, j \in DOMAIN log' : log'[i] = log'[j] => i = j
           /\ \A f \in Logged : Position(f)' = Position(f)
           /\ Position(e)' = Len(log) + 1
  <1> USE DEF TablesOK
  <1>1. /\ log' \in Seq(Events)
        /\ Len(log) \in Nat
        /\ DOMAIN log = 1..Len(log)
        /\ DOMAIN log' = 1..(Len(log) + 1)
        /\ \A i \in 1..Len(log) : log'[i] = log[i]
        /\ log'[Len(log) + 1] = e
    BY LenProperties, AppendProperties
  <1>2. \A i, j \in DOMAIN log' : log'[i] = log'[j] => i = j
    BY <1>1 DEF Logged, MarkerWitnessesGraph
  <1>3. Logged' = Logged \cup {e}
    BY <1>1 DEF Logged
  <1>4. \A f \in Logged : Position(f)' = Position(f)
    <2> TAKE f \in Logged
    <2>1. Position(f) \in 1..Len(log) /\ log[Position(f)] = f
      BY LoggedHasPosition
    <2>2. \A j \in DOMAIN log' : log'[j] = f => j = Position(f)
      BY <1>1, <1>2, <2>1
    <2>3. Position(f) \in DOMAIN log' /\ log'[Position(f)] = f
      BY <1>1, <2>1
    <2> QED BY <2>2, <2>3 DEF Position
  <1>5. Position(e)' = Len(log) + 1
    BY <1>1, <1>2 DEF Position
  <1> QED BY <1>1, <1>2, <1>3, <1>4, <1>5

-----------------------------------------------------------------------------
\* Projecting an event that the order rule admits keeps the tables in order.
LEMMA ProjectKeepsTables ==
    ASSUME TablesOK, NEW e \in Logged, marker[e] # "ok", ~Disordered(e),
           ProjectAndMark(e), UNCHANGED <<log, cleared>>
    PROVE  TablesOK'
  <1> DEFINE row == [event |-> e, full |-> e \notin cleared]
  <1>1. /\ e \in Events
        /\ Logged' = Logged
        /\ \A f, g : Before(f, g)' = Before(f, g)
    BY LoggedHasPosition DEF Logged, Before, Position
  <1>2. /\ graph' \in Seq([event: Events, full: BOOLEAN])
        /\ Len(graph) \in Nat
        /\ DOMAIN graph = 1..Len(graph)
        /\ DOMAIN graph' = 1..(Len(graph) + 1)
        /\ \A i \in 1..Len(graph) : graph'[i] = graph[i]
        /\ graph'[Len(graph) + 1] = row
    <2>1. row \in [event: Events, full: BOOLEAN]
      BY <1>1
    <2> QED BY <2>1, LenProperties, AppendProperties DEF TablesOK, ProjectAndMark
  <1>3. /\ marker' \in [Events -> {"none", "ok", "quarantined"}]
        /\ marker'[e] = "ok"
        /\ \A f \in Events \ {e} : marker'[f] = marker[f]
    BY <1>1 DEF TablesOK, ProjectAndMark
  <1>4. \A i \in DOMAIN graph : graph[i].event # e /\ graph[i].event \in Events
    <2> TAKE i \in DOMAIN graph
    <2> QED BY RowsAreLogged, LoggedHasPosition
  <1>5. MarkerWitnessesGraph'
    <2>1. \A i, j \in DOMAIN graph' : graph'[i].event = graph'[j].event => i = j
      <3>1. \A i, j \in DOMAIN graph : graph[i].event = graph[j].event => i = j
        BY DEF TablesOK, MarkerWitnessesGraph
      <3> QED BY <1>2, <1>4, <3>1
    <2>2. \A f \in Events : marker'[f] = "ok" <=> \E i \in DOMAIN graph' : graph'[i].event = f
      <3> TAKE f \in Events
      <3>1. CASE f = e
        BY <3>1, <1>2, <1>3
      <3>2. CASE f # e
        <4>1. marker'[f] = "ok" <=> \E i \in DOMAIN graph : graph[i].event = f
          BY <3>2, <1>3 DEF TablesOK, MarkerWitnessesGraph
        <4> QED BY <3>2, <4>1, <1>2
      <3> QED BY <3>1, <3>2
    <2>3. \A f \in Events : marker'[f] # "none" => f \in Logged'
      BY <1>1, <1>3 DEF TablesOK, MarkerWitnessesGraph
    <2> QED BY <2>1, <2>2, <2>3 DEF TablesOK, MarkerWitnessesGraph
  <1>6. NoHoleJumped'
    <2> SUFFICES ASSUME NEW f \in Logged, NEW g \in Logged,
                        Before(f, g), f \notin cleared, marker'[g] # "none",
                        KindOf[g] # "malformed"
                 PROVE  marker'[f] # "none"
      BY <1>1 DEF NoHoleJumped
    <2>1. f \in Events /\ g \in Events
      BY LoggedHasPosition
    <2>2. CASE g = e
      BY <2>1, <2>2, <1>3 DEF Disordered
    <2>3. CASE g # e
      BY <2>1, <2>3, <1>3 DEF TablesOK, NoHoleJumped
    <2> QED BY <2>2, <2>3
  <1>7. ProjectedInLogOrder'
    <2> SUFFICES ASSUME NEW i \in DOMAIN graph', NEW j \in DOMAIN graph', i < j,
                        graph'[i].full, graph'[j].full,
                        ProjectOf[graph'[i].event] = ProjectOf[graph'[j].event]
                 PROVE  Before(graph'[i].event, graph'[j].event)
      BY <1>1 DEF ProjectedInLogOrder
    <2>1. CASE j \in DOMAIN graph
      <3>1. i \in DOMAIN graph /\ graph'[i] = graph[i] /\ graph'[j] = graph[j]
        BY <2>1, <1>2
      <3> QED BY <2>1, <3>1 DEF TablesOK, ProjectedInLogOrder
    <2>2. CASE j = Len(graph) + 1
      <3>1. /\ i \in DOMAIN graph /\ graph'[i] = graph[i]
            /\ graph'[j].event = e /\ e \notin cleared
        BY <2>2, <1>2
      <3> DEFINE g == graph[i].event
      <3>2. g \in Events /\ g # e /\ marker[g] = "ok" /\ g \in Logged
        BY <3>1, <1>4 DEF TablesOK, MarkerWitnessesGraph
      <3>3. ~Before(e, g)
        BY <3>1, <3>2 DEF Disordered
      <3>4. Position(g) # Position(e) /\ Position(g) \in Int /\ Position(e) \in Int
        BY <3>2, LoggedHasPosition
      <3> QED BY <3>1, <3>3, <3>4 DEF Before
    <2> QED BY <2>1, <2>2, <1>2
  <1> QED
    BY <1>1, <1>2, <1>3, <1>5, <1>6, <1>7 DEF TablesOK

\* Appending a fresh event that has no marker keeps them in order.
LEMMA AcceptKeepsTables ==
    ASSUME TablesOK, NEW e \in Events, e \notin Logged, log' = Append(log, e),
           UNCHANGED <<cleared, marker, graph>>
    PROVE  TablesOK'
  <1>1. /\ log' \in Seq(Events)
        /\ Logged' = Logged \cup {e}
        /\ \A i, j \in DOMAIN log' : log'[i] = log'[j] => i = j
        /\ \A f \in Logged : Position(f)' = Position(f)
        /\ Position(e)' = Len(log) + 1
    BY AppendLog
  <1>2. marker[e] = "none"
    BY DEF TablesOK, MarkerWitnessesGraph
  <1>3. MarkerWitnessesGraph'
    BY <1>1 DEF TablesOK, MarkerWitnessesGraph
  <1>4. \A f, g \in Logged : Before(f, g)' = Before(f, g)
    BY <1>1 DEF Before
  <1>5. NoHoleJumped'
    <2> SUFFICES ASSUME NEW f \in Logged', NEW g \in Logged', Before(f, g)',
                        f \notin cleared, marker[g] # "none", KindOf[g] # "malformed"
                 PROVE  marker[f] # "none"
      BY DEF NoHoleJumped
    <2>1. g \in Logged
      BY <1>1, <1>2
    <2>2. CASE f = e
      <3>1. Position(g) \in 1..Len(log) /\ Len(log) \in Nat
        BY <2>1, LoggedHasPosition, LenProperties DEF TablesOK
      <3> QED BY <2>1, <2>2, <3>1, <1>1 DEF Before
    <2>3. CASE f \in Logged
      BY <2>1, <2>3, <1>4 DEF TablesOK, NoHoleJumped
    <2> QED BY <1>1, <2>2, <2>3
  <1>6. ProjectedInLogOrder'
    <2> SUFFICES ASSUME NEW i \in DOMAIN graph, NEW j \in DOMAIN graph, i < j,
                        graph[i].full, graph[j].full,
                        ProjectOf[graph[i].event] = ProjectOf[graph[j].event]
                 PROVE  Before(graph[i].event, graph[j].event)'
      BY DEF ProjectedInLogOrder, Before
    <2>1. graph[i].event \in Logged /\ graph[j].event \in Logged
      BY RowsAreLogged
    <2>2. Before(graph[i].event, graph[j].event)
      BY DEF TablesOK, ProjectedInLogOrder
    <2> QED BY <2>1, <2>2, <1>4
  <1> QED BY <1>1, <1>3, <1>5, <1>6 DEF TablesOK

\* A quarantine marker over an empty terminal state, with no retained hole
\* before the event, keeps them in order.
LEMMA QuarantineKeepsTables ==
    ASSUME TablesOK, NEW e \in Logged,
           KindOf[e] # "malformed" =>
              \A f \in Logged \ cleared : Before(f, e) => marker[f] # "none",
           marker[e] = "none", \A i \in DOMAIN graph : graph[i].event # e,
           marker' = [marker EXCEPT ![e] = "quarantined"],
           UNCHANGED <<log, cleared, graph>>
    PROVE  TablesOK'
  <1>1. /\ e \in Events
        /\ Logged' = Logged
        /\ \A f, g : Before(f, g)' = Before(f, g)
    BY LoggedHasPosition DEF Logged, Before, Position
  <1>2. /\ marker' \in [Events -> {"none", "ok", "quarantined"}]
        /\ marker'[e] = "quarantined"
        /\ \A f \in Events \ {e} : marker'[f] = marker[f]
    BY <1>1 DEF TablesOK
  <1>3. MarkerWitnessesGraph'
    <2>1. \A f \in Events : marker'[f] = "ok" <=> \E i \in DOMAIN graph : graph[i].event = f
      <3> TAKE f \in Events
      <3>1. CASE f = e
        BY <3>1, <1>2
      <3>2. CASE f # e
        BY <3>2, <1>2 DEF TablesOK, MarkerWitnessesGraph
      <3> QED BY <3>1, <3>2
    <2> QED BY <1>1, <1>2, <2>1 DEF TablesOK, MarkerWitnessesGraph
  <1>4. NoHoleJumped'
    <2> SUFFICES ASSUME NEW f \in Logged, NEW g \in Logged,
                        Before(f, g), f \notin cleared, marker'[g] # "none",
                        KindOf[g] # "malformed"
                 PROVE  marker'[f] # "none"
      BY <1>1 DEF NoHoleJumped
    <2>1. f \in Events /\ g \in Events
      BY LoggedHasPosition
    <2>2. CASE g = e
      BY <2>1, <2>2, <1>2
    <2>3. CASE g # e
      BY <2>1, <2>3, <1>2 DEF TablesOK, NoHoleJumped
    <2> QED BY <2>2, <2>3
  <1>5. ProjectedInLogOrder'
    BY <1>1 DEF TablesOK, ProjectedInLogOrder
  <1> QED BY <1>1, <1>2, <1>3, <1>4, <1>5 DEF TablesOK

\* Clearing payloads keeps them in order.
LEMMA SweepKeepsTables ==
    ASSUME TablesOK, NEW old, Sweep(old)
    PROVE  TablesOK'
  <1>1. /\ Logged' = Logged
        /\ \A f, g : Before(f, g)' = Before(f, g)
        /\ cleared \subseteq cleared' /\ cleared' \subseteq Logged
    BY DEF Sweep, TablesOK, Logged, Before, Position
  <1>2. MarkerWitnessesGraph'
    BY <1>1 DEF Sweep, TablesOK, MarkerWitnessesGraph
  <1>3. NoHoleJumped'
    BY <1>1 DEF Sweep, TablesOK, NoHoleJumped
  <1>4. ProjectedInLogOrder'
    BY <1>1 DEF Sweep, TablesOK, ProjectedInLogOrder
  <1> QED BY <1>1, <1>2, <1>3, <1>4 DEF Sweep, TablesOK

\* A step that leaves the tables alone.
LEMMA IdleKeepsTables ==
    ASSUME TablesOK, UNCHANGED <<log, cleared, marker, graph>>
    PROVE  TablesOK'
  <1>1. /\ Logged' = Logged
        /\ \A f, g : Before(f, g)' = Before(f, g)
    BY DEF Logged, Before, Position
  <1>2. MarkerWitnessesGraph'
    BY <1>1 DEF TablesOK, MarkerWitnessesGraph
  <1>3. NoHoleJumped'
    BY <1>1 DEF TablesOK, NoHoleJumped
  <1>4. ProjectedInLogOrder'
    BY <1>1 DEF TablesOK, ProjectedInLogOrder
  <1> QED BY <1>1, <1>2, <1>3, <1>4 DEF TablesOK

\* An authority decision is a fresh event projected at once: it is as if the
\* event had been accepted, and then projected.
LEMMA DecideKeepsTables ==
    ASSUME TablesOK, NEW p \in Procs, NEW e \in Events, Decide(p, e)
    PROVE  TablesOK'
  <1> DEFINE row == [event |-> e, full |-> e \notin cleared]
  <1> USE DEF Decide
  <1>1. /\ log' \in Seq(Events)
        /\ Logged' = Logged \cup {e}
        /\ \A i, j \in DOMAIN log' : log'[i] = log'[j] => i = j
        /\ \A f \in Logged : Position(f)' = Position(f)
        /\ Position(e)' = Len(log) + 1
    BY AppendLog
  <1>2. /\ graph' \in Seq([event: Events, full: BOOLEAN])
        /\ Len(graph) \in Nat
        /\ DOMAIN graph = 1..Len(graph)
        /\ DOMAIN graph' = 1..(Len(graph) + 1)
        /\ \A i \in 1..Len(graph) : graph'[i] = graph[i]
        /\ graph'[Len(graph) + 1] = row
    <2>1. row \in [event: Events, full: BOOLEAN]
      OBVIOUS
    <2> QED BY <2>1, LenProperties, AppendProperties DEF TablesOK, ProjectAndMark
  <1>3. /\ marker' \in [Events -> {"none", "ok", "quarantined"}]
        /\ marker'[e] = "ok"
        /\ \A f \in Events \ {e} : marker'[f] = marker[f]
    BY DEF TablesOK, ProjectAndMark
  <1>4. \A i \in DOMAIN graph : graph[i].event \in Logged /\ graph[i].event # e
    <2> TAKE i \in DOMAIN graph
    <2> QED BY RowsAreLogged
  <1>5. \A f, g \in Logged : Before(f, g)' = Before(f, g)
    BY <1>1 DEF Before
  <1>6. \A f \in Logged : Position(f)' < Position(e)' /\ f \in Events
    <2> TAKE f \in Logged
    <2>1. Position(f) \in 1..Len(log) /\ Len(log) \in Nat /\ f \in Events
      BY LoggedHasPosition, LenProperties DEF TablesOK
    <2> QED BY <2>1, <1>1
  <1>7. MarkerWitnessesGraph'
    <2>1. \A i, j \in DOMAIN graph' : graph'[i].event = graph'[j].event => i = j
      <3>1. \A i, j \in DOMAIN graph : graph[i].event = graph[j].event => i = j
        BY DEF TablesOK, MarkerWitnessesGraph
      <3> QED BY <1>2, <1>4, <3>1
    <2>2. \A f \in Events : marker'[f] = "ok" <=> \E i \in DOMAIN graph' : graph'[i].event = f
      <3> TAKE f \in Events
      <3>1. CASE f = e
        BY <3>1, <1>2, <1>3
      <3>2. CASE f # e
        <4>1. marker'[f] = "ok" <=> \E i \in DOMAIN graph : graph[i].event = f
          BY <3>2, <1>3 DEF TablesOK, MarkerWitnessesGraph
        <4> QED BY <3>2, <4>1, <1>2
      <3> QED BY <3>1, <3>2
    <2>3. \A f \in Events : marker'[f] # "none" => f \in Logged'
      BY <1>1, <1>3 DEF TablesOK, MarkerWitnessesGraph
    <2> QED BY <1>1, <2>1, <2>2, <2>3 DEF MarkerWitnessesGraph
  <1>8. NoHoleJumped'
    <2> SUFFICES ASSUME NEW f \in Logged', NEW g \in Logged', Before(f, g)',
                        f \notin cleared, marker'[g] # "none", KindOf[g] # "malformed"
                 PROVE  marker'[f] # "none"
      BY DEF NoHoleJumped
    <2>1. CASE f = e
      BY <2>1, <1>3
    <2>2. CASE f \in Logged /\ g = e
      BY <2>2, <1>3, <1>6 DEF Before
    <2>3. CASE f \in Logged /\ g \in Logged
      BY <2>3, <1>3, <1>5, <1>6 DEF TablesOK, NoHoleJumped
    <2> QED BY <1>1, <2>1, <2>2, <2>3
  <1>9. ProjectedInLogOrder'
    <2> SUFFICES ASSUME NEW i \in DOMAIN graph', NEW j \in DOMAIN graph', i < j,
                        graph'[i].full, graph'[j].full,
                        NEW x, x = graph'[i].event, NEW y, y = graph'[j].event,
                        ProjectOf[x] = ProjectOf[y]
                 PROVE  Before(x, y)'
      BY DEF ProjectedInLogOrder, Before
    <2>1. i \in DOMAIN graph /\ graph'[i] = graph[i] /\ x \in Logged
      BY <1>2, <1>4
    <2>2. CASE j \in DOMAIN graph
      <3>1. graph'[j] = graph[j] /\ y \in Logged
        BY <2>2, <1>2, <1>4
      <3>2. Before(x, y)
        BY <2>1, <2>2, <3>1 DEF TablesOK, ProjectedInLogOrder
      <3> QED BY <2>1, <3>1, <3>2, <1>5
    <2>3. CASE j = Len(graph) + 1
      <3>1. y = e
        BY <2>3, <1>2
      <3> QED BY <2>1, <3>1, <1>6 DEF Before
    <2> QED BY <1>2, <2>2, <2>3
  <1> QED
    BY <1>1, <1>2, <1>3, <1>7, <1>8, <1>9 DEF TablesOK

-----------------------------------------------------------------------------
\* What every step does to the tables as a process in the middle of an
\* ingestion sees them: logged events keep their place, clearing and marking
\* are never undone.
TablesAdvance ==
    /\ Logged \subseteq Logged'
    /\ \A f \in Logged : Position(f)' = Position(f)
    /\ \A f \in Logged' \ Logged : \A g \in Logged : ~Before(f, g)'
    /\ cleared \subseteq cleared'
    /\ \A f \in Events : marker[f] # "none" => marker'[f] # "none"

\* Steps that leave the log alone advance the tables.
LEMMA SameLogAdvances ==
    ASSUME UNCHANGED log, cleared \subseteq cleared',
           \A f \in Events : marker[f] # "none" => marker'[f] # "none"
    PROVE  TablesAdvance
  BY DEF TablesAdvance, Logged, Position

\* So do appends.
LEMMA AppendAdvances ==
    ASSUME TablesOK, NEW e \in Events, e \notin Logged, log' = Append(log, e),
           cleared' = cleared,
           \A f \in Events : marker[f] # "none" => marker'[f] # "none"
    PROVE  TablesAdvance
  <1>1. /\ Logged' = Logged \cup {e}
        /\ \A f \in Logged : Position(f)' = Position(f)
        /\ Position(e)' = Len(log) + 1
    BY AppendLog
  <1>2. \A g \in Logged : ~Before(e, g)'
    <2> TAKE g \in Logged
    <2>1. Position(g) \in 1..Len(log) /\ Len(log) \in Nat
      BY LoggedHasPosition, LenProperties DEF TablesOK
    <2> QED BY <2>1, <1>1 DEF Before
  <1> QED BY <1>1, <1>2 DEF TablesAdvance

\* A process that keeps its place, or goes idle, keeps its part of the
\* invariant whatever another one does to the tables meanwhile.
LEMMA ProcessesKeep ==
    ASSUME IInv, TablesAdvance,
           pc' \in [Procs -> {"idle", "project", "quarantine", "heal"}],
           cur' \in [Procs -> Events \cup {NoEvent}],
           \A p \in Procs :
              \/ pc'[p] = pc[p] /\ cur'[p] = cur[p]
              \/ pc'[p] = "idle"
              \/ pc'[p] \in {"project", "heal"} /\ cur'[p] \in Logged'
              \/ /\ pc'[p] = "quarantine" /\ cur'[p] \in Logged
                 /\ KindOf[cur'[p]] # "malformed" =>
                       \A f \in Logged \ cleared : Before(f, cur'[p]) => marker[f] # "none"
    PROVE  ProcessesOK'
  <1>1. \A p \in Procs : pc'[p] # "idle" => cur'[p] \in Logged'
    BY DEF IInv, ProcessesOK, TablesAdvance
  <1>2. QuarantineReady'
    <2> SUFFICES ASSUME NEW p \in Procs, pc'[p] = "quarantine",
                        NEW f \in Logged' \ cleared', NEW e, e = cur'[p],
                        KindOf[e] # "malformed", Before(f, e)'
                 PROVE  marker'[f] # "none"
      BY DEF QuarantineReady, Before
    <2>1. /\ e \in Logged
          /\ \A g \in Logged \ cleared : Before(g, e) => marker[g] # "none"
      BY DEF IInv, ProcessesOK, QuarantineReady
    <2>2. f \in Logged /\ f \notin cleared
      BY <2>1 DEF TablesAdvance
    <2>3. Before(f, e) /\ f \in Events
      BY <2>1, <2>2, LoggedHasPosition DEF TablesAdvance, Before, IInv
    <2> QED BY <2>1, <2>2, <2>3 DEF TablesAdvance
  <1> QED BY <1>1, <1>2 DEF ProcessesOK

\* The initial state satisfies the invariant.
LEMMA InitInv == Init => IInv
  <1> SUFFICES ASSUME Init PROVE IInv
    OBVIOUS
  <1> USE DEF Init
  <1>1. Logged = {} /\ DOMAIN log = {} /\ DOMAIN graph = {}
    BY DEF Logged
  <1>2. log \in Seq(Events) /\ graph \in Seq([event: Events, full: BOOLEAN])
    BY EmptySeq
  <1>3. MarkerWitnessesGraph /\ NoHoleJumped /\ ProjectedInLogOrder /\ QuarantineReady
    BY <1>1 DEF MarkerWitnessesGraph, NoHoleJumped, ProjectedInLogOrder, QuarantineReady
  <1> QED BY <1>1, <1>2, <1>3 DEF IInv, TablesOK, ProcessesOK

\* Marking an event leaves no marker behind.
LEMMA ProjectMarks ==
    ASSUME TablesOK, NEW e \in Events, ProjectAndMark(e)
    PROVE  \A f \in Events : marker[f] # "none" => marker'[f] # "none"
  BY DEF TablesOK, ProjectAndMark

\* Processing a stored event keeps the tables in order, whatever its outcome.
LEMMA ProcessKeeps ==
    ASSUME TablesOK, NEW e \in Logged, ProcessEvent(e), UNCHANGED <<log, cleared>>
    PROVE  TablesOK' /\ TablesAdvance
  <1>1. CASE UNCHANGED <<marker, graph>>
    BY <1>1, IdleKeepsTables, SameLogAdvances
  <1>2. CASE marker[e] # "ok" /\ ~Disordered(e) /\ ProjectAndMark(e)
    <2>1. e \in Events
      BY LoggedHasPosition
    <2>2. \A f \in Events : marker[f] # "none" => marker'[f] # "none"
      BY <1>2, <2>1, ProjectMarks
    <2> QED BY <1>2, <2>2, ProjectKeepsTables, SameLogAdvances
  <1> QED BY <1>1, <1>2 DEF ProcessEvent

\* A process that returns is idle and the others stay where they are.
LEMMA ReturnMoves ==
    ASSUME ProcessesOK, NEW p \in Procs, Return(p)
    PROVE  /\ pc' \in [Procs -> {"idle", "project", "quarantine", "heal"}]
           /\ cur' \in [Procs -> Events \cup {NoEvent}]
           /\ \A q \in Procs : \/ pc'[q] = pc[q] /\ cur'[q] = cur[q]
                               \/ pc'[q] = "idle"
  BY DEF ProcessesOK, Return

\* Every step of the specification preserves the invariant and advances the
\* tables.
LEMMA NextInv == IInv /\ [Next]_vars => IInv' /\ TablesAdvance
  <1> SUFFICES ASSUME IInv, [Next]_vars PROVE IInv' /\ TablesAdvance
    OBVIOUS
  <1> USE DEF IInv
  <1>1. ASSUME NEW p \in Procs, NEW e \in Events, Accept(p, e)
        PROVE  IInv' /\ TablesAdvance
    <2>1. TablesOK' /\ TablesAdvance
      BY <1>1, AcceptKeepsTables, AppendAdvances DEF Accept
    <2>2. e \in Logged'
      BY <1>1, AppendLog DEF Accept
    <2>3. ProcessesOK'
      BY <1>1, <2>1, <2>2, ProcessesKeep DEF Accept, ProcessesOK
    <2> QED BY <2>1, <2>3
  <1>2. ASSUME NEW p \in Procs, NEW e \in Events, Redeliver(p, e)
        PROVE  IInv' /\ TablesAdvance
    <2>1. TablesOK' /\ TablesAdvance
      BY <1>2, IdleKeepsTables, SameLogAdvances DEF Redeliver
    <2>2. e \in Logged'
      BY <1>2, <2>1 DEF Redeliver, TablesAdvance
    <2>3. ProcessesOK'
      BY <1>2, <2>1, <2>2, ProcessesKeep DEF Redeliver, ProcessesOK
    <2> QED BY <2>1, <2>3
  <1>3. ASSUME NEW p \in Procs, NEW e \in Events, Reprocess(p, e)
        PROVE  IInv' /\ TablesAdvance
    <2>1. TablesOK' /\ TablesAdvance
      BY <1>3, ProcessKeeps DEF Reprocess
    <2>2. ProcessesOK'
      BY <1>3, <2>1, ProcessesKeep DEF Reprocess, ProcessesOK
    <2> QED BY <2>1, <2>2
  <1>4. ASSUME NEW p \in Procs, NEW e \in Events, Decide(p, e)
        PROVE  IInv' /\ TablesAdvance
    <2>1. \A f \in Events : marker[f] # "none" => marker'[f] # "none"
      BY <1>4, ProjectMarks DEF Decide
    <2>2. TablesOK' /\ TablesAdvance
      BY <1>4, <2>1, DecideKeepsTables, AppendAdvances DEF Decide
    <2>3. ProcessesOK'
      BY <1>4, <2>2, ProcessesKeep DEF Decide, ProcessesOK
    <2> QED BY <2>2, <2>3
  <1>5. ASSUME NEW p \in Procs, Project(p)
        PROVE  IInv' /\ TablesAdvance
    <2>1. cur[p] \in Logged
      BY <1>5 DEF Project, ProcessesOK
    <2>2. TablesOK' /\ TablesAdvance
      BY <1>5, <2>1, ProcessKeeps DEF Project, ProcessEvent
    <2>3. ProcessesOK'
      BY <1>5, <2>2, ReturnMoves, ProcessesKeep DEF Project
    <2> QED BY <2>2, <2>3
  <1>6. ASSUME NEW p \in Procs, RefuseLive(p)
        PROVE  IInv' /\ TablesAdvance
    <2>1. TablesOK' /\ TablesAdvance
      BY <1>6, IdleKeepsTables, SameLogAdvances DEF RefuseLive
    <2>2. ProcessesOK'
      BY <1>6, <2>1, ReturnMoves, ProcessesKeep DEF RefuseLive
    <2> QED BY <2>1, <2>2
  <1>7. ASSUME NEW p \in Procs, ProjectFails(p)
        PROVE  IInv' /\ TablesAdvance
    <2>1. TablesOK' /\ TablesAdvance
      BY <1>7, IdleKeepsTables, SameLogAdvances DEF ProjectFails
    <2>2. /\ cur[p] \in Logged
          /\ KindOf[cur[p]] # "malformed" =>
                \A f \in Logged \ cleared : Before(f, cur[p]) => marker[f] # "none"
      BY <1>7 DEF ProjectFails, Disordered, ProcessesOK
    <2>3. ProcessesOK'
      BY <1>7, <2>1, <2>2, ProcessesKeep DEF ProjectFails, ProcessesOK
    <2> QED BY <2>1, <2>3
  <1>8. ASSUME NEW p \in Procs, Quarantine(p)
        PROVE  IInv' /\ TablesAdvance
    <2>1. /\ cur[p] \in Logged
          /\ KindOf[cur[p]] # "malformed" =>
                \A f \in Logged \ cleared : Before(f, cur[p]) => marker[f] # "none"
      BY <1>8 DEF Quarantine, ProcessesOK, QuarantineReady
    <2>2. TablesOK'
      BY <1>8, <2>1, QuarantineKeepsTables, IdleKeepsTables DEF Quarantine
    <2>3. TablesAdvance
      BY <1>8, SameLogAdvances DEF Quarantine, TablesOK
    <2>4. ProcessesOK'
      BY <1>8, <2>3, ReturnMoves, ProcessesKeep DEF Quarantine
    <2> QED BY <2>2, <2>3, <2>4
  <1>9. ASSUME NEW p \in Procs, Heal(p)
        PROVE  IInv' /\ TablesAdvance
    <2>1. cur[p] \in Logged
      BY <1>9 DEF Heal, ProcessesOK
    <2>2. TablesOK' /\ TablesAdvance
      BY <1>9, <2>1, ProcessKeeps, IdleKeepsTables, SameLogAdvances DEF Heal
    <2>3. ProcessesOK'
      BY <1>9, <2>2, ReturnMoves, ProcessesKeep DEF Heal
    <2> QED BY <2>2, <2>3
  <1>10. ASSUME NEW p \in Procs, Crash(p)
         PROVE  IInv' /\ TablesAdvance
    <2>1. TablesOK' /\ TablesAdvance
      BY <1>10, IdleKeepsTables, SameLogAdvances DEF Crash
    <2>2. ProcessesOK'
      BY <1>10, <2>1, ReturnMoves, ProcessesKeep DEF Crash
    <2> QED BY <2>1, <2>2
  <1>11. ASSUME NEW old \in SUBSET Events, Sweep(old)
         PROVE  IInv' /\ TablesAdvance
    <2>1. TablesOK' /\ TablesAdvance
      BY <1>11, SweepKeepsTables, SameLogAdvances DEF Sweep
    <2>2. ProcessesOK'
      BY <1>11, <2>1, ProcessesKeep DEF Sweep, ProcessesOK
    <2> QED BY <2>1, <2>2
  <1>12. CASE UNCHANGED vars
    <2>1. TablesOK' /\ TablesAdvance
      BY <1>12, IdleKeepsTables, SameLogAdvances DEF vars
    <2>2. ProcessesOK'
      BY <1>12, <2>1, ProcessesKeep DEF vars, ProcessesOK
    <2> QED BY <2>1, <2>2
  <1> QED
    BY <1>1, <1>2, <1>3, <1>4, <1>5, <1>6, <1>7, <1>8, <1>9, <1>10, <1>11, <1>12
    DEF Next, Ingest

\* The inductive invariant holds throughout every behaviour.
LEMMA Invariance == Spec => []IInv
  BY InitInv, NextInv, PTL DEF Spec

\* Every variable keeps its shape, and a process that is ingesting is ingesting
\* an event of the canonical log.
THEOREM TypeCorrect == Spec => []TypeOK
  <1>1. IInv => TypeOK
    BY DEF IInv, TablesOK, ProcessesOK, TypeOK
  <1> QED BY <1>1, Invariance, PTL

\* An event is projected once exactly when its marker is ok, however many
\* processes deliver, heal, retry and quarantine it.
THEOREM MarkersWitness == Spec => []MarkerWitnessesGraph
  <1>1. IInv => MarkerWitnessesGraph
    BY DEF IInv, TablesOK
  <1> QED BY <1>1, Invariance, PTL

\* No event is marked past a retained unmarked one, the malformed excepted: the
\* order rule of _process_prepared_event also covers the quarantine that runs
\* after it, in a transaction of its own, for whatever failed behind the rule.
THEOREM HolesHold == Spec => []NoHoleJumped
  <1>1. IInv => NoHoleJumped
    BY DEF IInv, TablesOK
  <1> QED BY <1>1, Invariance, PTL

\* Each project's graph is projected in the order of the log.
THEOREM OrderPreserved == Spec => []ProjectedInLogOrder
  <1>1. IInv => ProjectedInLogOrder
    BY DEF IInv, TablesOK
  <1> QED BY <1>1, Invariance, PTL

\* A sequence is a prefix of itself and of what an append makes of it.
LEMMA PrefixOfAppend ==
    ASSUME NEW S, NEW s \in Seq(S), NEW t, t = s \/ \E x \in S : t = Append(s, x)
    PROVE  /\ SubSeq(t, 1, Len(s)) = s
           /\ \A i \in DOMAIN s : i \in DOMAIN t /\ t[i] = s[i]
  <1>1. Len(s) \in Nat /\ DOMAIN s = 1..Len(s)
    BY LenProperties
  <1>2. /\ t \in Seq(S)
        /\ Len(t) \in Nat /\ DOMAIN t = 1..Len(t) /\ Len(s) <= Len(t)
        /\ \A i \in 1..Len(s) : t[i] = s[i]
    <2>1. CASE t = s
      BY <2>1, <1>1
    <2>2. CASE \E x \in S : t = Append(s, x)
      <3>1. PICK x \in S : t = Append(s, x)
        BY <2>2
      <3>2. /\ t \in Seq(S)
            /\ Len(t) = Len(s) + 1
            /\ \A i \in 1..Len(s) : t[i] = s[i]
        BY <3>1, AppendProperties
      <3>3. DOMAIN t = 1..Len(t)
        BY <3>2, LenProperties
      <3> QED BY <3>2, <3>3, <1>1
    <2> QED BY <2>1, <2>2
  <1>3. /\ SubSeq(t, 1, Len(s)) \in Seq(S)
        /\ Len(SubSeq(t, 1, Len(s))) = Len(s)
        /\ \A i \in 1..Len(s) : SubSeq(t, 1, Len(s))[i] = t[i]
    <2>1. \A i \in 1..Len(s) : t[i] \in S
      BY <1>2, ElementOfSeq
    <2>2. /\ SubSeq(t, 1, Len(s)) \in Seq(S)
          /\ Len(SubSeq(t, 1, Len(s))) = IF 1 <= Len(s) THEN Len(s) - 1 + 1 ELSE 0
          /\ \A i \in 1..(Len(s) - 1 + 1) : SubSeq(t, 1, Len(s))[i] = t[1 + i - 1]
      BY <1>1, <2>1, SubSeqProperties
    <2> QED BY <1>1, <2>2
  <1>4. SubSeq(t, 1, Len(s)) = s
    BY <1>2, <1>3, SeqEqual
  <1>5. ASSUME NEW i \in DOMAIN s
        PROVE  i \in DOMAIN t /\ t[i] = s[i]
    <2>1. i \in 1..Len(s)
      BY <1>1, Zenon
    <2>2. Len(s) \in Nat /\ Len(t) \in Nat /\ Len(s) <= Len(t)
      BY <1>1, <1>2, Zenon
    <2>3. i \in 1..Len(t)
      BY <2>1, <2>2
    <2> QED BY <1>2, <2>1, <2>3, Zenon
  <1> QED BY <1>4, <1>5

\* Both tables of rows only ever grow at the end.
LEMMA RowsAppend ==
    ASSUME IInv, [Next]_vars
    PROVE  /\ log' = log \/ \E e \in Events : log' = Append(log, e)
           /\ \/ graph' = graph
              \/ \E r \in [event: Events, full: BOOLEAN] : graph' = Append(graph, r)
  <1>1. \A e \in Events : ProjectAndMark(e) =>
            \E r \in [event: Events, full: BOOLEAN] : graph' = Append(graph, r)
    <2> TAKE e \in Events
    <2>1. [event |-> e, full |-> e \notin cleared] \in [event: Events, full: BOOLEAN]
      OBVIOUS
    <2> QED BY <2>1 DEF ProjectAndMark
  <1>2. Logged \subseteq Events
    BY LoggedHasPosition DEF IInv
  <1>3. \A p \in Procs : pc[p] # "idle" => cur[p] \in Events
    BY <1>2 DEF IInv, ProcessesOK
  <1> QED
    BY <1>1, <1>2, <1>3
    DEF Next, Ingest, vars, Accept, Redeliver, Reprocess, Decide, Project, RefuseLive,
        ProjectFails, Quarantine, Heal, Crash, Sweep, ProcessEvent

\* A success is final, and neither a marker, nor a graph row, nor a log entry
\* is ever taken back.
THEOREM SuccessFinal == Spec => SuccessIsFinal
  <1>1. ASSUME IInv, [Next]_vars
        PROVE  /\ \A e \in Events : marker[e] = "ok" => marker'[e] = "ok"
               /\ \A e \in Events : marker[e] # "none" => marker'[e] # "none"
               /\ SubSeq(graph', 1, Len(graph)) = graph
               /\ SubSeq(log', 1, Len(log)) = log
    <2>1. IInv' /\ TablesAdvance
      BY <1>1, NextInv
    <2>2. SubSeq(log', 1, Len(log)) = log
      BY <1>1, RowsAppend, PrefixOfAppend DEF IInv, TablesOK
    <2>3. /\ SubSeq(graph', 1, Len(graph)) = graph
          /\ \A i \in DOMAIN graph : i \in DOMAIN graph' /\ graph'[i] = graph[i]
      <3> DEFINE Rows == [event: Events, full: BOOLEAN]
      <3>1. graph \in Seq(Rows) /\ (graph' = graph \/ \E r \in Rows : graph' = Append(graph, r))
        BY <1>1, RowsAppend DEF IInv, TablesOK
      <3> HIDE DEF Rows
      <3> QED BY <3>1, PrefixOfAppend
    <2>4. \A e \in Events : marker[e] = "ok" => marker'[e] = "ok"
      BY <1>1, <2>1, <2>3 DEF IInv, TablesOK, MarkerWitnessesGraph
    <2> QED BY <2>1, <2>2, <2>3, <2>4 DEF TablesAdvance
  <1> QED BY <1>1, Invariance, PTL DEF Spec, SuccessIsFinal

-----------------------------------------------------------------------------
\* What the rows and the markers say of the kinds of events: a row lacks its
\* payload only if retention has cleared it, nothing hopeless is projected, and
\* only what may raise with its payload is, or is about to be, quarantined.
KindsOK ==
    /\ \A i \in DOMAIN graph : graph[i].event \notin cleared => graph[i].full
    /\ \A e \in Events : marker[e] = "ok" => KindOf[e] \notin Hopeless
    /\ \A e \in Events : marker[e] = "quarantined" => KindOf[e] \in Hopeless \cup {"flaky"}
    /\ \A p \in Procs : pc[p] = "quarantine" => KindOf[cur[p]] \in Hopeless \cup {"flaky"}

\* Projecting an event that can be projected keeps the kinds apart.
LEMMA ProjectKeepsKinds ==
    ASSUME TablesOK, KindsOK, NEW e \in Events, KindOf[e] \notin Hopeless, ProjectAndMark(e),
           cleared' = cleared,
           \A p \in Procs : pc'[p] = "quarantine" => pc[p] = "quarantine" /\ cur'[p] = cur[p]
    PROVE  KindsOK'
  <1> DEFINE row == [event |-> e, full |-> e \notin cleared]
  <1>1. /\ DOMAIN graph = 1..Len(graph)
        /\ DOMAIN graph' = 1..(Len(graph) + 1)
        /\ Len(graph) \in Nat
        /\ \A i \in 1..Len(graph) : graph'[i] = graph[i]
        /\ graph'[Len(graph) + 1] = row
    <2>1. row \in [event: Events, full: BOOLEAN]
      OBVIOUS
    <2> QED BY <2>1, LenProperties, AppendProperties DEF TablesOK, ProjectAndMark
  <1>2. \A i \in DOMAIN graph' : graph'[i].event \notin cleared' => graph'[i].full
    <2> TAKE i \in DOMAIN graph'
    <2>1. CASE i \in DOMAIN graph
      BY <1>1, <2>1 DEF KindsOK
    <2>2. CASE i = Len(graph) + 1
      <3>1. graph'[i].event = e /\ graph'[i].full = (e \notin cleared)
        BY <1>1, <2>2
      <3> QED BY <3>1
    <2> QED BY <1>1, <2>1, <2>2
  <1>3. \A f \in Events : marker'[f] = IF f = e THEN "ok" ELSE marker[f]
    BY DEF TablesOK, ProjectAndMark
  <1> QED BY <1>2, <1>3 DEF KindsOK

\* What leaves the markers and the rows alone, and clears payloads at most.
LEMMA IdleKeepsKinds ==
    ASSUME KindsOK, UNCHANGED <<marker, graph>>, cleared \subseteq cleared',
           \A p \in Procs : pc'[p] = "quarantine" => pc[p] = "quarantine" /\ cur'[p] = cur[p]
    PROVE  KindsOK'
  BY DEF KindsOK

\* What can be projected is not hopeless.
LEMMA ProjectsNoHopeless == \A e : CanProject(e) => KindOf[e] \notin Hopeless
  BY DEF CanProject, Hopeless

\* Every step keeps the kinds apart.
LEMMA NextKinds == IInv /\ KindsOK /\ [Next]_vars => KindsOK'
  <1> SUFFICES ASSUME IInv, KindsOK, [Next]_vars PROVE KindsOK'
    OBVIOUS
  <1>1. /\ TablesOK
        /\ Logged \subseteq Events
        /\ \A p \in Procs : pc[p] # "idle" => cur[p] \in Events
        /\ pc \in [Procs -> {"idle", "project", "quarantine", "heal"}]
        /\ cur \in [Procs -> Events \cup {NoEvent}]
    BY LoggedHasPosition DEF IInv, ProcessesOK
  <1>2. ASSUME NEW p \in Procs, Return(p)
        PROVE  \A q \in Procs : pc'[q] = "quarantine" => pc[q] = "quarantine" /\ cur'[q] = cur[q]
    BY <1>1, <1>2 DEF Return
  <1>3. ASSUME NEW e \in Events, ProcessEvent(e), cleared' = cleared,
               \A p \in Procs : pc'[p] = "quarantine" => pc[p] = "quarantine" /\ cur'[p] = cur[p]
        PROVE  KindsOK'
    BY <1>1, <1>3, ProjectsNoHopeless, ProjectKeepsKinds, IdleKeepsKinds DEF ProcessEvent
  <1>4. ASSUME NEW p \in Procs, NEW e \in Events, Accept(p, e) \/ Redeliver(p, e)
        PROVE  KindsOK'
    <2>1. \A q \in Procs : pc'[q] = "quarantine" => pc[q] = "quarantine" /\ cur'[q] = cur[q]
      BY <1>1, <1>4 DEF Accept, Redeliver
    <2> QED BY <1>4, <2>1, IdleKeepsKinds DEF Accept, Redeliver
  <1>5. ASSUME NEW p \in Procs, NEW e \in Events, Reprocess(p, e)
        PROVE  KindsOK'
    BY <1>3, <1>5 DEF Reprocess
  <1>6. ASSUME NEW p \in Procs, NEW e \in Events, Decide(p, e)
        PROVE  KindsOK'
    <2>1. KindOf[e] \notin Hopeless
      BY <1>6 DEF Decide, Hopeless
    <2> QED BY <1>1, <1>6, <2>1, ProjectKeepsKinds DEF Decide
  <1>7. ASSUME NEW p \in Procs, Project(p)
        PROVE  KindsOK'
    <2>1. cur[p] \in Events
      BY <1>1, <1>7 DEF Project
    <2>2. cleared' = cleared /\ Return(p)
      BY <1>7 DEF Project
    <2>3. ProcessEvent(cur[p])
      BY <1>7 DEF Project, ProcessEvent
    <2> QED BY <1>2, <1>3, <2>1, <2>2, <2>3
  <1>8. ASSUME NEW p \in Procs, RefuseLive(p) \/ Crash(p)
        PROVE  KindsOK'
    BY <1>2, <1>8, IdleKeepsKinds DEF RefuseLive, Crash
  <1>9. ASSUME NEW p \in Procs, ProjectFails(p)
        PROVE  KindsOK'
    <2>1. KindOf[cur[p]] \in Hopeless \cup {"flaky"}
      BY <1>9 DEF ProjectFails, CanRaise, Hopeless
    <2> QED BY <1>1, <1>9, <2>1 DEF ProjectFails, KindsOK
  <1>10. ASSUME NEW p \in Procs, Quarantine(p)
         PROVE  KindsOK'
    <2>1. cur[p] \in Events /\ KindOf[cur[p]] \in Hopeless \cup {"flaky"}
      BY <1>1, <1>10 DEF Quarantine, KindsOK
    <2>2. \A q \in Procs : pc'[q] = "quarantine" => pc[q] = "quarantine" /\ cur'[q] = cur[q]
      BY <1>2, <1>10 DEF Quarantine
    <2>3. CASE UNCHANGED marker
      BY <1>10, <2>2, <2>3, IdleKeepsKinds DEF Quarantine
    <2>4. CASE marker' = [marker EXCEPT ![cur[p]] = "quarantined"]
      <3>1. \A f \in Events : marker'[f] = IF f = cur[p] THEN "quarantined" ELSE marker[f]
        BY <1>1, <2>4 DEF TablesOK
      <3>2. UNCHANGED <<graph, cleared>>
        BY <1>10 DEF Quarantine
      <3> QED BY <2>1, <2>2, <3>1, <3>2 DEF KindsOK
    <2> QED BY <1>10, <2>3, <2>4 DEF Quarantine
  <1>11. ASSUME NEW p \in Procs, Heal(p)
         PROVE  KindsOK'
    <2>1. cur[p] \in Events /\ cleared' = cleared /\ Return(p)
      BY <1>1, <1>11 DEF Heal
    <2>2. ProcessEvent(cur[p]) \/ UNCHANGED <<marker, graph>>
      BY <1>11 DEF Heal
    <2> QED BY <1>2, <1>3, <2>1, <2>2, IdleKeepsKinds
  <1>12. ASSUME NEW old \in SUBSET Events, Sweep(old)
         PROVE  KindsOK'
    BY <1>12, IdleKeepsKinds DEF Sweep
  <1>13. CASE UNCHANGED vars
    BY <1>13, IdleKeepsKinds DEF vars
  <1> QED
    BY <1>4, <1>5, <1>6, <1>7, <1>8, <1>9, <1>10, <1>11, <1>12, <1>13 DEF Next, Ingest

\* CCG-006: once everything retained is settled, a replay of the log projects the
\* very events that the live projection holds, one row each, in the same order,
\* whatever deliveries, heals, quarantines and crashes produced the latter.
THEOREM ReplaysMatch == Spec => []ReplayMatchesLive
  <1>1. Init => KindsOK
    BY DEF Init, KindsOK
  <1>2. ASSUME IInv, KindsOK PROVE ReplayMatchesLive
    <2> SUFFICES ASSUME NEW j \in {ProjectOf[e] : e \in Events},
                        OfProject(j) \cap cleared = {},
                        \A e \in OfProject(j) : marker[e] # "none",
                        \A e \in OfProject(j) : KindOf[e] = "flaky" => marker[e] = "ok"
                 PROVE  /\ {graph[i].event : i \in Live(j)} = Replayed(j)
                        /\ \A i, k \in Live(j) : i < k <=> Before(graph[i].event, graph[k].event)
      BY DEF ReplayMatchesLive
    <2>1. TablesOK /\ Logged \subseteq Events
      BY <1>2, LoggedHasPosition DEF IInv
    <2>2. /\ DOMAIN graph \subseteq Int
          /\ \A i \in DOMAIN graph : graph[i].event \in Events
      <3>1. DOMAIN graph = 1..Len(graph) /\ Len(graph) \in Nat
        BY <2>1, LenProperties DEF TablesOK
      <3>2. \A i \in DOMAIN graph : graph[i] \in [event: Events, full: BOOLEAN]
        BY <2>1, <3>1, ElementOfSeq DEF TablesOK
      <3> QED BY <3>1, <3>2
    <2>3. \A i \in Live(j) : /\ graph[i].event \in OfProject(j)
                             /\ marker[graph[i].event] = "ok"
                             /\ graph[i].full
      BY <1>2, <2>1, <2>2 DEF Live, OfProject, TablesOK, MarkerWitnessesGraph, KindsOK
    <2>4. {graph[i].event : i \in Live(j)} \subseteq Replayed(j)
      BY <1>2, <2>1, <2>2, <2>3 DEF Replayed, KindsOK, OfProject
    <2>5. ASSUME NEW e \in Replayed(j) PROVE \E i \in Live(j) : graph[i].event = e
      <3>1. e \in Events /\ e \in OfProject(j) /\ KindOf[e] \notin Hopeless
        BY <2>1 DEF Replayed, OfProject
      <3>2. marker[e] = "ok"
        BY <1>2, <2>1, <3>1 DEF KindsOK, TablesOK
      <3> QED BY <2>1, <3>1, <3>2 DEF TablesOK, MarkerWitnessesGraph, Live, OfProject
    <2>6. ASSUME NEW i \in Live(j), NEW k \in Live(j)
          PROVE  i < k <=> Before(graph[i].event, graph[k].event)
      <3>1. /\ i \in DOMAIN graph /\ k \in DOMAIN graph /\ i \in Int /\ k \in Int
            /\ ProjectOf[graph[i].event] = ProjectOf[graph[k].event]
        BY <2>2 DEF Live
      <3>2. /\ i < k => Before(graph[i].event, graph[k].event)
            /\ k < i => Before(graph[k].event, graph[i].event)
        BY <2>1, <2>3, <3>1 DEF TablesOK, ProjectedInLogOrder
      <3>3. /\ Position(graph[i].event) \in Nat
            /\ Position(graph[k].event) \in Nat
        <4>1. Len(log) \in Nat
          BY <2>1, LenProperties DEF TablesOK
        <4>2. graph[i].event \in Logged /\ graph[k].event \in Logged
          BY <2>3 DEF OfProject
        <4> QED BY <2>1, <4>1, <4>2, LoggedHasPosition
      <3> QED BY <3>1, <3>2, <3>3 DEF Before
    <2> QED BY <2>4, <2>5, <2>6
  <1> QED BY <1>1, <1>2, NextKinds, Invariance, PTL DEF Spec
=============================================================================
