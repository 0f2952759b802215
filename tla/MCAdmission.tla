----------------------------- MODULE MCAdmission -----------------------------
(***************************************************************************)
(* Admission for TLC: the database files, the edits of sources and the     *)
(* settings of the tracked repository that its parts start from.  Openers  *)
(* are interchangeable, and so are connections.                            *)
(***************************************************************************)
EXTENDS Admission, TLC

CONSTANTS A, K, N, R, c1, c2, o1, o2

Symmetry == {p @@ q : p \in Permutations(Openers), q \in Permutations(Connections)}

(* ---------------------------- database files ---------------------------- *)

\* A new file; one with a hot journal; a partial schema; event tables of three
\* ages with rows in every state an earlier release left; spent proofs before
\* and after they were scoped by tenant.
Blank ==
    [journal |-> FALSE, tables |-> {}, layout |-> "none", unique |-> FALSE, index |-> FALSE,
     rows |-> [e \in {"e1", "e2"} |-> None], identity |-> "current", watermark |-> "none",
     scoped |-> FALSE, spent |-> {}, tasks |-> {}]

Row(payload, digest, markers, attributed) ==
    [payload |-> payload, digest |-> digest, captured |-> TRUE, markers |-> markers,
     attributed |-> attributed, node |-> attributed]

Spent(t, k) == [tenant |-> t, task |-> k, proof |-> "q1"]

AllTables == {"events", "markers", "nodes", "edges", "watermark", "spent"}

Legacy ==
    [Blank EXCEPT !.tables = AllTables \ {"spent"}, !.layout = "raw",
                  !.watermark = "legacy", !.tasks = {Spent("t1", "k1")}]

Later == [Legacy EXCEPT !.tables = AllTables, !.layout = "fresh"]

MCFiles ==
    {Blank, [Blank EXCEPT !.journal = TRUE], [Blank EXCEPT !.tables = {"nodes"}]}
    \cup {[Legacy EXCEPT !.unique = u, !.identity = id, !.rows["e1"] = Row(kept, FALSE, {}, FALSE)] :
            u \in BOOLEAN, kept \in BOOLEAN, id \in {"current", "v1"}}
    \cup {[Legacy EXCEPT !.layout = l, !.rows["e1"] = Row(TRUE, TRUE, m, a)] :
            l \in {"fresh", "addcol"}, a \in BOOLEAN,
            m \in {{}, {"ok"}, {"quarantined"}, {"older"}, {"ok", "older"}}}
    \cup {[Later EXCEPT !.spent = {Spent(None, k)}] : k \in {"k1", "k2"}}
    \cup {[Later EXCEPT !.scoped = TRUE, !.spent = {Spent("t2", "k2")},
                        !.tasks = {Spent("t1", "k1"), Spent("t2", "k2")}]}

(* ------------------------- sources and decisions ------------------------ *)

Edit(field, rev, states, denies, strong, poison) ==
    [field |-> field, rev |-> rev, states |-> states, denies |-> denies,
     strong |-> strong, poison |-> poison]

Scenario(edits, maxEdits, maxDecisions, maxSweeps) ==
    [edits |-> edits, maxEdits |-> maxEdits, maxDecisions |-> maxDecisions,
     maxSweeps |-> maxSweeps]

Denial(w) == [text |-> A, wording |-> w]

\* Revisions of one field that come in any order, one of them poisonous, beside
\* another field that says the same.
Revised ==
    Scenario({Edit("f", 1, {R}, {}, TRUE, FALSE), Edit("f", 2, {N}, {}, TRUE, FALSE),
              Edit("f", 3, {R, N}, {}, TRUE, FALSE), Edit("f", 2, {}, {}, FALSE, FALSE),
              Edit("f", 3, {}, {}, TRUE, TRUE), Edit("g", 0, {R}, {}, FALSE, FALSE)}, 3, 2, 2)

\* One source, many decisions, some scoped to a task.
Scoped == Scenario({Edit("f", 1, {R, N, K}, {}, TRUE, FALSE)}, 1, 5, 0)

\* An assumption that later texts deny in two wordings.
Denied ==
    Scenario({Edit("g", 0, {A}, {Denial(1)}, TRUE, FALSE),
              Edit("g", 0, {A}, {Denial(2)}, TRUE, FALSE),
              Edit("g", 0, {A}, {}, TRUE, FALSE)}, 3, 3, 0)

MCKind == (R :> "requirement") @@ (N :> "constraint") @@ (A :> "assumption")
          @@ (K :> "task")

MCScenarios == {Revised, Scoped, Denied}

MCOpposites == {{R, N}}

(* ------------------------- the tracked repository ----------------------- *)

\* One branch with checks and lost pushes; two branches and a dependency.
MCSettings ==
    {[refs |-> {"main"}, drifts |-> {"none"}, checks |-> 2],
     [refs |-> {"main", "rel"}, drifts |-> {"none", "cue", "named"}, checks |-> 0]}

(* ----------------------------- specification ---------------------------- *)

\* Before the first failure boundaries differ in nothing; nor do events that are not
\* stored yet, tasks that are not completed, or refs before one is tracked.
InOrder ==
    /\ failures' # << >> => failures'[1] = "x"
    /\ {e \in Events : file'.rows[e] # None} \in {{}, {"e1"}, Events}
    /\ {c.task : c \in file'.tasks} \in {{}, {"k1"}, {"k1", "k2"}, Tasks}

MCInit == AdmissionInit /\ (part = "frontier" => policy.ref = "main")

MCSpec == MCInit /\ [][AdmissionNext /\ InOrder]_all
=============================================================================
