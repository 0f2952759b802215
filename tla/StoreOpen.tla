----------------------------- MODULE StoreOpen ------------------------------
(***************************************************************************)
(* Opening a database: Engine.__init__ and Store.__init__ check that an    *)
(* existing file is one this processor may continue, install the schema    *)
(* statement by statement, and migrate what older releases left, while     *)
(* other processes open the same file, use it, or crash half way.          *)
(***************************************************************************)
EXTENDS Naturals, Sequences, FiniteSets

CONSTANTS Openers, Tenants, Events, Tasks, Proofs,
          Files,   \* database files to start from
          None

VARIABLES file, pc, tenant

vars == <<file, pc, tenant>>

(* file.tables: which CREATE TABLE statements took effect; layout: columns  *)
(* of events; unique: the old inline UNIQUE on the delivery key; index: the *)
(* scoped delivery index; rows: events; identity: how node ids were made;   *)
(* journal: a rollback journal lies beside the file; watermark, scoped: old *)
(* or new form of packet_watermark and spent_proofs; spent: spent proofs,   *)
(* tenant None in the old form; tasks: completed tasks and their proofs.    *)

Tables == {"events", "markers", "nodes", "edges", "watermark", "spent"}
Migrated == {"rebuilt", "addcol"}

DbRow ==
    [payload: BOOLEAN, digest: BOOLEAN, captured: BOOLEAN, attributed: BOOLEAN, node: BOOLEAN,
     markers: SUBSET {"ok", "quarantined", "older"}]

Completion == [tenant: Tenants \cup {None}, task: Tasks, proof: Proofs]

DbFile ==
    [journal: BOOLEAN, tables: SUBSET Tables, layout: {"none", "raw", "fresh"} \cup Migrated,
     unique: BOOLEAN, index: BOOLEAN, rows: [Events -> DbRow \cup {None}],
     identity: {"current", "v1"}, watermark: {"none", "legacy", "scoped"}, scoped: BOOLEAN,
     spent: SUBSET Completion, tasks: SUBSET Completion]

\* What releases of the program leave behind: without the table of events there is none,
\* the layout of today never had the old key, and no tenant's proof completed two tasks.
FileOK(f) ==
    /\ f \in DbFile
    /\ "events" \notin f.tables => (\A e \in Events : f.rows[e] = None) /\ ~f.unique
    /\ f.unique => f.layout # "fresh"
    /\ \A c, d \in f.tasks : c.tenant = d.tenant /\ c.proof = d.proof => c.task = d.task

Stored(e) == file.rows[e] # None

-----------------------------------------------------------------------------
(* Compatibility *)

\* _assert_no_rollback_journal.
NoJournal(f) == ~f.journal

\* _assert_statement_identity_compatible.
IdentityCompatible(f) == "nodes" \in f.tables => f.identity = "current"

\* Nothing was processed: no marker and no attributed graph row.
Unprocessed(f) ==
    \A e \in Events : f.rows[e] # None =>
        f.rows[e].markers = {} /\ f.rows[e].attributed = FALSE

\* _assert_processor_projection_compatible, first part: the tables.
TablesCompatible(f) ==
    IF "events" \notin f.tables THEN f.tables = {}
    ELSE /\ f.layout \in {"fresh", "raw"} \cup Migrated
         /\ {"markers", "nodes", "edges"} \subseteq f.tables \/ Unprocessed(f)

\* Mutated: payloads of the oldest layout are let in.
MutRowsAuthenticated(f) ==
    f.layout \in Migrated =>
        \A e \in Events : f.rows[e] # None /\ f.rows[e].payload => f.rows[e].digest

\* Retained payloads must be authenticated by a digest after the migration,
\* which the oldest layout cannot provide.
RowsAuthenticated(f) ==
    /\ f.layout = "raw" =>
          Unprocessed(f) /\ \A e \in Events : f.rows[e] # None => ~f.rows[e].payload
    /\ f.layout \in Migrated =>
          \A e \in Events : f.rows[e] # None /\ f.rows[e].payload => f.rows[e].digest

\* _assert_processor_projection_compatible, last part: of every event exactly
\* one marker of this processor with the rows it witnesses, or none and no rows;
\* unmarked payloads satisfy the current capture rules.
RowsWitnessed(f) ==
    \A e \in Events : f.rows[e] # None =>
        LET row == f.rows[e] IN
        CASE row.markers = {} -> ~row.attributed /\ (row.payload => row.captured)
          [] row.markers = {"ok"} -> row.node
          [] row.markers = {"quarantined"} -> ~row.attributed
          [] OTHER -> FALSE

ProjectionCompatible(f) ==
    TablesCompatible(f) /\ ("events" \in f.tables => RowsAuthenticated(f) /\ RowsWitnessed(f))

Compatible(f) == NoJournal(f) /\ IdentityCompatible(f) /\ ProjectionCompatible(f)

-----------------------------------------------------------------------------
(* One opener, statement by statement *)

Script == <<"identity", "projection", "connect", "events", "index", "markers", "migrate",
            "nodes", "edges", "watermark", "spent", "widen", "scope", "backfill">>

Open == Len(Script) + 1
Refused == Len(Script) + 2
At(p) == Script[pc[p]]

Step(p, name) == pc[p] \in DOMAIN Script /\ At(p) = name
Advance(p) == pc' = [pc EXCEPT ![p] = @ + 1] /\ UNCHANGED tenant
Refuse(p) == pc' = [pc EXCEPT ![p] = Refused] /\ UNCHANGED <<file, tenant>>

Begin(p) ==
    /\ pc[p] = 0
    /\ \E t \in Tenants : tenant' = [tenant EXCEPT ![p] = t]
    /\ pc' = [pc EXCEPT ![p] = 1]
    /\ UNCHANGED file

\* The preflights on a read-only connection, then all checks again on the
\* connection the Store keeps, before anything is written.
Check(p, name, ok) ==
    /\ Step(p, name)
    /\ IF ok THEN Advance(p) /\ UNCHANGED file ELSE Refuse(p)

Preflight(p) ==
    \/ Check(p, "identity", NoJournal(file) /\ IdentityCompatible(file))
    \/ Check(p, "projection", NoJournal(file) /\ ProjectionCompatible(file))

PreSchemaCheck(p) == Check(p, "connect", Compatible(file))

\* CREATE TABLE IF NOT EXISTS: each statement commits by itself.
Installed(f, table) ==
    IF table \in f.tables THEN f
    ELSE LET g == [f EXCEPT !.tables = @ \cup {table}] IN
         CASE table = "events" -> [g EXCEPT !.layout = "fresh"]
           [] table = "nodes" -> [g EXCEPT !.identity = "current"]
           [] table = "watermark" -> [g EXCEPT !.watermark = "scoped"]
           [] table = "spent" -> [g EXCEPT !.scoped = TRUE]
           [] OTHER -> g

CreateTable(p) ==
    \E table \in Tables :
        /\ Step(p, table)
        /\ file' = Installed(file, table)
        /\ Advance(p)

CreateIndex(p) == Step(p, "index") /\ file' = [file EXCEPT !.index = TRUE] /\ Advance(p)

\* Mutated: a rebuild leaves the table without the index it dropped.
MutMigratedEvents(f) ==
    IF f.unique THEN [f EXCEPT !.unique = FALSE, !.layout = "rebuilt", !.index = FALSE] ELSE f

\* Store's one migration transaction: the digest column is added, a table with
\* the global UNIQUE is rebuilt (which drops its indexes), the scoped index is
\* repaired.
MigratedEvents(f) ==
    LET widened == IF f.layout = "raw" THEN [f EXCEPT !.layout = "addcol"] ELSE f
        rebuilt == IF f.unique THEN [widened EXCEPT !.unique = FALSE, !.layout = "rebuilt"]
                   ELSE widened
    IN [rebuilt EXCEPT !.index = TRUE]

Migrate(p) == Step(p, "migrate") /\ file' = MigratedEvents(file) /\ Advance(p)

\* packet_watermark gains its columns and its scope in one transaction.
WidenWatermark(p) ==
    /\ Step(p, "widen")
    /\ file' = [file EXCEPT !.watermark = "scoped"]
    /\ Advance(p)

\* The tenants a task of the old table may belong to.
TenantsOf(task) == {d.tenant : d \in {c \in file.tasks : c.task = task}}

\* _migrate_spent_proofs_scope: every old row gets the tenant of its task; an
\* orphan refuses the whole migration.
MigrateSpentProofsScope(p) ==
    /\ Step(p, "scope")
    /\ \/ file.scoped /\ Advance(p) /\ UNCHANGED file
       \/ /\ ~file.scoped
          /\ \A s \in file.spent : Cardinality(TenantsOf(s.task)) = 1
          /\ file' = [file EXCEPT !.scoped = TRUE,
                                  !.spent = {[s EXCEPT !.tenant = CHOOSE t \in TenantsOf(s.task) : TRUE] :
                                                s \in file.spent}]
          /\ Advance(p)
       \/ /\ ~file.scoped
          /\ \E s \in file.spent : Cardinality(TenantsOf(s.task)) # 1
          /\ Refuse(p)

\* Mutated: any row in the table is taken for a finished backfill.
MutInherited(f, t) ==
    IF f.spent # {} THEN {} ELSE {c \in f.tasks : c.tenant = t}

\* _backfill_spent_proofs: this tenant's completions that no row remembers.
Inherited(f, t) ==
    {c \in f.tasks : c.tenant = t
        /\ ~\E s \in f.spent : s.tenant = t /\ s.proof = c.proof}

BackfillSpentProofs(p) ==
    /\ Step(p, "backfill")
    /\ file' = [file EXCEPT !.spent = @ \cup Inherited(file, tenant[p])]
    /\ Advance(p)

\* A crash, or close.
Leave(p) ==
    /\ pc[p] # 0
    /\ pc' = [pc EXCEPT ![p] = 0]
    /\ UNCHANGED <<file, tenant>>

-----------------------------------------------------------------------------
(* An open engine at work *)

Append1(e) ==
    /\ ~Stored(e)
    /\ file' = [file EXCEPT !.rows[e] =
                   [payload |-> TRUE, digest |-> TRUE, captured |-> TRUE, markers |-> {},
                    attributed |-> FALSE, node |-> FALSE]]

Project(e, outcome) ==
    /\ Stored(e) /\ file.rows[e].markers = {}
    /\ file' = [file EXCEPT !.rows[e] = [@ EXCEPT !.markers = {outcome},
                   !.attributed = (outcome = "ok"), !.node = (outcome = "ok")]]

SweepPayload(e) ==
    /\ Stored(e) /\ file.rows[e].payload
    /\ file' = [file EXCEPT !.rows[e].payload = FALSE]

\* complete_task: the primary key of spent_proofs is the only single-use check.
Complete(t, task, proof) ==
    /\ ~\E s \in file.spent : s.tenant = t /\ s.proof = proof
    /\ ~\E c \in file.tasks : c.task = task
    /\ LET done == [tenant |-> t, task |-> task, proof |-> proof] IN
       file' = [file EXCEPT !.spent = @ \cup {done}, !.tasks = @ \cup {done}]

Use(p) ==
    /\ pc[p] = Open
    /\ UNCHANGED <<pc, tenant>>
    /\ \/ \E e \in Events :
             Append1(e) \/ SweepPayload(e) \/ \E o \in {"ok", "quarantined"} : Project(e, o)
       \/ \E task \in Tasks, proof \in Proofs : Complete(tenant[p], task, proof)

-----------------------------------------------------------------------------

Init ==
    /\ file \in Files
    /\ pc = [p \in Openers |-> 0]
    /\ tenant = [p \in Openers |-> CHOOSE t \in Tenants : TRUE]

OpenerStep(p) ==
    \/ Begin(p) \/ Preflight(p) \/ PreSchemaCheck(p) \/ CreateTable(p) \/ CreateIndex(p)
    \/ Migrate(p) \/ WidenWatermark(p) \/ MigrateSpentProofsScope(p) \/ BackfillSpentProofs(p)
    \/ Leave(p) \/ Use(p)

Next == \E p \in Openers : OpenerStep(p)

Spec == Init /\ [][Next]_vars

-----------------------------------------------------------------------------
(* Properties *)

\* Whatever opens, crashes half way or runs, a file that an opener found fit stays
\* so: no interrupted installation, migration or use locks the owner out of the
\* database at the next open.
StillAdmitted ==
    \A p \in Openers :
        pc[p] = Open \/ (pc[p] \in 4..Len(Script)) => Compatible(file)

\* An engine that is open has the whole current schema under it, although another
\* process may have rebuilt the events table meanwhile.
OpenIsInstalled ==
    \A p \in Openers : pc[p] = Open =>
        /\ file.tables = Tables /\ file.index /\ ~file.unique
        /\ file.layout \in {"fresh"} \cup Migrated
        /\ file.watermark = "scoped" /\ file.scoped

\* Single use survives the upgrade: no proof completes two tasks of a tenant,
\* completions from before the table existed included.
NoProofSpentTwice ==
    \A c, d \in file.tasks : c.tenant = d.tenant /\ c.proof = d.proof => c.task = d.task

\* Opening is safe, however many processes do it and wherever they crash.
OpensSafely == StillAdmitted /\ OpenIsInstalled /\ NoProofSpentTwice
=============================================================================
