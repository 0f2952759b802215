# Verification of the Causal Continuity Engine

TLA+ models of the engine in `causal_continuity_engine/`, the TLC runs that check
them on small instances, and TLAPS proofs of the properties that matter most.
Every definition that models code is listed in `PROJECT.json` ("map") with the
source lines it stands for; what is hard to test, and which property is about it,
is listed there under "hazards".

## 1. The system

The engine keeps what agents and humans did to a project as an append-only event
log, projects it into a bi-temporal graph (goals, requirements, decisions,
assumptions, tasks, evidence), propagates invalidations through the graph, and
refuses completion claims that no current proof supports. Everything lives in one
SQLite file that several operating-system processes may open (CLI, HTTP API, MCP
server, connectors).

| Component | State | Operations | Hard behaviour | What makes it correct |
|---|---|---|---|---|
| event store (`store.py`) | events, `event_seq`, mismatch flags, audit log, evidence blobs | `transaction`, `append_event`, `audit`, `put_evidence`, `delete_evidence`, anchors | writer lock across processes, savepoints, crash inside a write unit | contiguous log, one event per key, intact chains, truthful replies |
| opening a database (`store.py`, `engine.py`) | the file's schema and layout | preflight, install, migrate, backfill | statements commit one by one, two openers, crash in between | an old file is refused or fully installed; no proof becomes spendable twice |
| retention (`memory.py`) | event payloads | `sweep_retention` | races redelivery, projection, authority | redeliveries still recognised, sweeps audited |
| projection (`engine.py`) | processing markers, graph rows | `ingest`, heal, `process_event`, quarantine, `rebuild_projection` | three transactions per event, concurrent healers | log order, once, replay agrees |
| graph (`graph.py`) | node and edge versions | `put_node`, `put_edge`, `end_edge`, `dependents`, `causal_path`, `provenance` | clock read before the lock, cycles, budgets | one current version, exact walks |
| authority (`engine.py`) | claims, confirmations, notices | ingest of texts, `record_authority_decision` | late revisions, retried and stale decisions | obligations are exactly what people confirmed and still hold |
| revision frontier (`engine.py`, `policy.py`) | head, policy epoch, check results | `_process_push`, `_process_check`, policy changes | lost and reordered deliveries | results count for the head they are about |
| invalidation (`invalidation.py`, `ontology.py`) | statuses, receipts | `fire`, `confirm`, `resolve`, revoke | overlapping invalidations, human gate, stale receipts | a hold lasts as long as its reason, restoration is exact |
| completion gate (`engine.py`, `proof.py`) | tasks, proofs, `spent_proofs` | `attest_action`, `complete_task` | verifiers run outside any transaction | no completion without a current proof of today's deliverable |
| artifact snapshots (`engine.py`, `evidence.py`) | none; reads the file system | `_snapshot_artifact`, `fingerprint_artifacts` | files edited between two system calls | digests that agree are of one state |
| evidence grading (`evidence.py`) | none; runs verifiers | baseline, mutation and determinism probes, grade | edits during the probes, checks that look at nothing | a grade at the floor means the check depends on the deliverable |
| proof documents (`proof.py`, `lamport.py`, `verifiers/verify_proof.py`) | envelopes, one-time keys, registry | build, sign, verify twice | altered and re-signed documents, lost registry | both verifiers agree; only what was issued is accepted |
| continuity receipts (`engine.py`) | signed receipts | `continuity_check`, `verify_continuity_receipt` | backups restored, other projects' appends | a receipt verifies exactly on its own lineage |
| capsules (`capsule.py`) | capsules, migrated sessions, downgrades | export, validate, import | the target changes between validation and import | an import never hides a warning or raises autonomy |
| policy and autonomy (`policy.py`) | configuration, grants, downgrades | `set_project_config`, `grant`, `revoke`, `downgrade`, `clear_downgrades` | stale decisions | only people raise autonomy |
| memory and packets (`memory.py`, `resume.py`, `engine.py`) | tiers, watermarks | `promote`, `demote`, `compose`, `packet_is_stale` | files and clock move while composing, budgets | nothing mandatory is dropped, nothing quarantined leaves |
| partial progress (`partial.py`) | outcomes, checkpoints | `record_outcome`, `quarantine`, `record_rollback`, `recovery_packet` | reads outside a transaction | recovery repeats nothing quarantined, from the latest safe checkpoint |
| learning (`learning.py`) | failures, evaluations, replays, skills | compost, fold, record, approve | two connections decide at once | nothing is decided twice |
| MCP server (`mcp.py`) | handshake, read-only view | requests over stdio | a writer commits, checkpoints or crashes under the view | an answer is one committed moment |
| extraction, redaction, GitHub payloads, API, CLI | none of their own | pure functions and I/O | | |

Interaction: every component writes through `Store.transaction`; ingestion calls
extraction and the graph; authority decisions and graph changes call the
invalidation engine; `complete_task` asks policy, invalidation, proof, frontier and
graph inside one transaction; packets, receipts and capsules read the whole project
and commit to what they read.

## 2. Modules

| Module | Models | Checked by |
|---|---|---|
| `CanonicalLog` | the abstract promise of the event log: atomic deliveries | refinement in `event_log`, `EventLogProofs` |
| `EventLog` | `store.py` and the retention sweep, statement by statement | `event_log`, `EventLogProofs` |
| `Ingestion` | how a logged event becomes graph state | `ingestion`, `ingestion_settles`, `ingestion_wedge`, `IngestionProofs` |
| `GraphVersions`, `GraphWalks`, `Dependents` | bi-temporal rows; path and provenance walks; the blast radius | `graph`; rows and radius in `GraphProofs` |
| `Invalidation` | fire, confirm, reject, resolve, revoke, complete, quarantine | `graph`, `stranding`, `quarantine_lost`, `InvalidationProofs` |
| `CompletionGate` | `attest_action` and `complete_task` and all that races them | `gate`, `CompletionGateProofs` |
| `StoreOpen`, `Authority`, `Frontier`, `Learning` | what is let in and by whose authority | `admission`, `AdmissionProofs` |
| `Packets`, `Recovery`, `McpSession`, `ArtifactSnapshot` | what is read while others write | `readings`, `latest_checkpoint`, `ReadingsProofs` |
| `EvidenceGrade`, `Receipts`, `ProofEnvelope`, `Capsule` | what the engine vouches for | `documents`, `DocumentsProofs` |
| `Admission`, `Graph`, `Readings`, `Documents` | the compositions of the parts in one row above | the same |

`Admission`, `Graph`, `Readings` and `Documents` put several components side by
side ("parts"), state each part's promise, and name what is assumed of its constants.
Each extends one of its components (`Learning`, `Invalidation`, `McpSession`,
`Capsule`) and instantiates the others over variables of their own. In a behaviour one
part moves, chosen in the initial state and never changed, while the others rest in an
initial state: `AdmissionSpec` and `ReadingsSpec` say so in the module itself, and
`MCGraph` and `MCDocuments` for the other two. So every behaviour of a part is one of the
composition, the reachable states are the union of those of the parts, and a property
of one part is a property of every state. The components are not coupled through these
variables: where one depends on another, its module takes the other's promise as an
input and says so.

`MC*` modules give the constants values. `MCEventLog` and `MCCompletionGate` run one
specification with several sets of constants ("scenarios"). `GraphWalks` and
`ProofEnvelope` compute with recursion and folds and are instantiated by `MCGraph` and
`MCDocuments` only. `*Proofs` modules hold theorems, each about the module it is named after.

### EventLog

`db` is what a fresh connection reads. A process that ran `BEGIN IMMEDIATE` owns
`lock` and works on `work[p]`; `saves[p]` is its savepoint stack; `pc`, `frame`
and `req` say which Store method it is in, how the method entered the write unit
(outermost transaction, savepoint, or joined) and with which arguments. `Abort`
is a crash, a failing COMMIT or an exception that leaves every frame.
`DuplicateEventError` and `PayloadMismatchError` are replies; a mismatch commits
its flag when the delivery is standalone and loses it with the savepoint when it
is joined. Standalone `put_evidence` reads before it opens a transaction, and so
has two steps. SHA-256 is collision free (a hash is the history it covers); a body
is a model value whose redacted form is `Capture[body]`; two bodies of the
instance redact alike, so a mismatch can only be told from the raw digest. `Canonical`
is the refinement mapping: the abstract log is the committed one, so a delivery takes
effect at its COMMIT, a transaction's appends and sweeps all at once.

### Ingestion

Each of the three transactions of an ingestion is one step, which `EventLog`
justifies. `marker` is `processed_events`; `graph` records which event wrote rows
and whether its payload was still there. `KindOf` says what processing does with
a payload: succeed, raise, raise once the payload is cleared, either, or raise while
its envelope is rebuilt, which `_process_prepared_event` does before it looks at the
marker and the order (`malformed`: a GitHub payload whose redacted form no longer
normalises, a decision that claims the authority source). Such an event is quarantined
wherever it stands, so `NoHoleJumped` exempts it; section 3 says what that leads to.
`Disordered` is the canonical-order rule. `Replayed` is `rebuild_projection`.

### GraphVersions, GraphWalks, Dependents

`rows` and `links` hold the versions of each node and edge. A call made inside a
transaction is one step; a direct call samples the clock in `Sample` and writes in
`DirectWrite`, since `utcnow()` is called before `write_scope()`. `AsOfExact` (one
version believed at each transaction time) exempts the ids where such a call was
overtaken: section 3 lists that as a divergence. `GraphWalks` computes
`causal_path`, `provenance` and the memoised `_has_real_provenance` the way the code
does, with its order of edges, and compares each with a definition over every graph
of four nodes. `Dependents` takes one step per queue pop and per edge, in every
order SQLite may return edges; strengths are integers scaled so that the products
are exact (floats are not modelled).

### Invalidation

`Impact` is what classification gives each dependent. `inv[i].receipts` is the
receipt list of an invalidation, `opened` the order in which
`_held_restore_status` finds the open ones: of those that name a node, the first row
decides. Confidence is `weak` or not.
Explanations, severity texts and the audit rows are left out. `Suspects` are the
nodes an operator may quarantine; the ghost variable `quarantined` remembers which
ones were, since the status alone can be overwritten.

### CompletionGate

An attestation `at[p]` is one call of `attest_action` in one process (threads of
one process are serialised by the engine's lock). `step` says which read comes
next: the graph, autonomy, policy and files parts of the control basis are read
table by table, the obligations in a snapshot, the verifier definitions, targets
and artifact digests one after the other; each verifier then runs on a copy of
the deliverable as it is at that moment. `Seal` is the one transaction: it
compares obligations and control basis again, writes the proof, retires the
unsuccessful proofs it covers and downgrades autonomy after a failure. Any
exception is `Discard`. `Complete` is the transaction of `complete_task`. `writes`
counts the commits that changed the graph: versions only grow, so it stands for the
digest of all nodes and edges.

Abstractions: required verifiers are pinned definitions, named by their digest,
and read nothing but the declared deliverable; signatures are ideal; the evidence
grade is any grade (`EvidenceGrade` says which are earned); claims differ only in the
tasks they name. `Own` are required checks that a caller brings: they run and count in
this proof (`Checks`), while supersession, the policy's comparison and completion look
at `defs`, what policy required. Left out are policy names without a pinned definition
(whose command is the caller's, so that they count like `Own`), outcomes the caller
asserts, which no status counts, and intents other than `task_complete`. One invalidation at a
time holds a task here. `Reverts = FALSE` says that an edit never restores an earlier
content; section 3 says what happens without it.

### StoreOpen

`file` is the database: which tables exist, the age of the events layout, the rows
an earlier release left, the index, the watermark columns and the spent proofs.
Each opener follows `Engine.__init__`: read-only preflights, the check on its own
connection, then every statement of the installation, which SQLite commits one by
one, the migrations and the backfill. `Leave`, a crash or a close, may come
between any two. An opener
that is through may complete tasks, which spends proofs. A census of columns and
collations is one fact about a file.

### Authority

The log holds edits of source fields and human decisions. A text leaves one claim per
statement; `Decide` is `record_authority_decision` with the request identity, the
comparison of operands and the refusals; `Binds`, `Supported` and `Obligations`
derive what obliges a task. Opposed statements and denials raise conflicts and
notices. Retention may clear any payload (its clock may step back). Ranking of a
conflict by freshness and confidence is left out: either side may win.

### Frontier

`remote` and `pushes` are what GitHub did, `flight` the deliveries on their way: a push
may be lost or overtaken, a check is reported once. `project` is the stored frontier
with the epoch it was stored in, `policy` the tracked ref and trusted producers.
`DeliverPush`, `DeliverCheck`, changes of policy and rulings on drift are actions. The ghost
variables `newest`, `shuffled`, `cued` and `ruled` say what a reader of the deliveries
would know; `HeadFollowsRef` is about deliveries in order, and what happens to late
ones is a divergence in section 3.

### Learning

`work[c]` is the decision a connection is in: it reads, and later writes under the
database's lock, or crashes. Folding a failure into the evaluation of its boundary
keeps the evaluation's sources; results and approvals are final. Classification of
texts is left out.

### Packets and Recovery

`Begin` reads the basis as `_resume_packet` does; `Finish` selects the sections, strips
quarantined text, applies both budgets and, if asked to, leaves the watermark. The database does not
move in between (one transaction), files and grants do. A token or byte is one unit
per node. Retrieval scores are a fixed order of nodes. `Recovery` has its own reads: `recovery_packet` is query by query, outside
any transaction, while nodes are written.

### McpSession

The main database file has two pages and every commit writes both, so that a torn
read is visible. Writers open, commit to the log, checkpoint page by page, close or
crash. A session opens its immutable view at the first tool call; each call checks
the source before and after (`_assert_read_only_source_unchanged`) and refuses when
it moved. Reconnecting starts a new session. JSON-RPC framing is left out.

### ArtifactSnapshot

The three readers (held descriptors, paths, copying) are followed system call by
system call with the stats they compare, against writes, renames, unlinks and
replacements by others at every step. Each runs twice, as around a command.
`EveryEntryWasThere` and `DigestOfOneMoment` are about one pass, `AgreementIsExact`
about two. A digest of a nested directory may combine two moments; the second pass
then disagrees, since an edit makes new contents. Edits never put back an earlier state,
because no comparison of two digests can see that: where a directory that is renamed in
may be empty, three edits (empty directory, file, empty directory) give two equal digests
around a command that started on the file. Hence a directory that comes holds a file.
Every change also gives the inode a new stamp. That assumes a file system whose
timestamps tell two changes apart; where they are coarser, two writes of one length in one tick leave
`_artifact_stat_key` as it was, and only a digest taken after both sees them.

### EvidenceGrade

What a check really reads is part of the world. The baseline run, the mutation of each
declared file in copies, and the determinism runs are steps, and a developer edits
the tree between them. `FloorMeansBound` is about attestations during which
nobody edited the tree (`edited = {}`). An edit of a declared file that is still there
at the end discards the attestation; one of an undeclared file between the baseline and
the copies can make an unrelated check look bound, and the code does not prevent that.

### Receipts, ProofEnvelope, Capsule

`Receipts`: one database with its two logs, a copy kept aside, and the operations append,
damage, back up, restore, change a fact, re-key, issue, verify. `ProofEnvelope`: a
document is built outcome by outcome, signed, altered, resealed and signed again, and
judged by `verify_envelope` and by `verify_proof.py`, each modelled from its own
lines. What nothing signs may be rewritten on the way: the `key_id`, the declared
fingerprint, the case of the hex digits. `VerdictsAgree` says that the independent verifier
confirms every document that the engine accepts, and that the two give one verdict on
every document but those with another `key_id` (HMAC), upper-case digits or no
fingerprint (one-time keys). `Capsule`: export in one transaction, damage in transit, validation outside a
transaction, and the import's transaction, from two importers. Digests and
signatures are the values they cover; shapes both sides refuse alike are one
condition.

## 3. Runs

Where a component makes several promises, the run checks their conjunction and the
component's module names the parts:

| Property | Parts |
|---|---|
| `HoldsExact` (`Invalidation`) | `TypeOK`, `HolderKeepsHold`, `AffectedRestoredExactly`, `WithdrawnStaysDown` |
| `RadiusExact` (`Dependents`) | `TypeOK`, `PathsAreReal`, `StrongestPathReported`, `BudgetCountsNodes` |
| `VersionsExact` (`GraphVersions`) | `OneCurrentVersion`, `AsOfExact`, `ValidityNotReopened`, `EdgesStayInScope` |
| `WalksExact` (`GraphWalks`) | `PathIsShortest`, `TrailIsExact`, `ProvenanceIsReal` |
| `OpensSafely` (`StoreOpen`) | `StillAdmitted`, `OpenIsInstalled`, `NoProofSpentTwice` |
| `AuthorityExact` (`Authority`) | `NoLostDecision`, `OneDecisionPerRequest`, `ObligationsExact`, `LatestRevisionStands`, `OppositesContested`, `OneNotice` |
| `FrontierExact` (`Frontier`) | `HeadFollowsRef`, `FailureWithdraws`, `NoticePerRevision` |
| `LearnedExactly` (`Learning`) | `DecidedOnce`, `SourcesExact` |
| `PacketsComplete` (`Packets`) | `MandatoryComplete`, `NothingQuarantinedLeaves`, `PinsBind` |
| `AnswersAreOneMoment` (`McpSession`) | `UntouchedBeforeReady`, `AnswersAreCurrent`, `OneSnapshotPerSession` |
| `SnapshotsExact` (`ArtifactSnapshot`) | `EveryEntryWasThere`, `DigestOfOneMoment`, `AgreementIsExact` |
| `GradesAreEarned` (`EvidenceGrade`) | `FloorMeansBound`, `CapsHold` |
| `ReceiptsExact` (`Receipts`) | `FlipsAreExact`, `RefusedExactlyOffLineage`, `UnrelatedAppendHarmless` |
| `VerdictsSound` (`ProofEnvelope`) | `VerdictsAgree`, `OnlyIssuedAccepted`, `FailureStands` |
| `CapsulesDescend`, `ImportsChallenged` (`Capsule`) | `SessionsDescend`, `RestoresOnce`; `UnrestrictedOnlyUnchanged`, `WarningsSurvive`, `OnlyHumansRaise` |

`PROJECT.json` has a mutant for nearly every part: the property fails when the code it
is about is changed the way a plausible bug would change it.

| Run | Instance | States | Shows |
|---|---|---|---|
| `event_log` | 2 processes, 1 key, 1 nested savepoint. Scenario log: 2 scopes, 2 bodies, 2 events, 1 audit row. Scenario anchored: the same with 1 body and 1 anchor. Scenario evidence: 1 blob, 2 metadata values, 1 event, 2 audit rows | 0.5 M | log well formed, chains intact, anchors hold, replies truthful, append-only, every deletion and sweep audited exactly, refinement of `CanonicalLog` |
| `ingestion` | 2 processes, 4 events in 2 projects: one that may raise, one whose envelope cannot be rebuilt, a text, a hook | 0.5 M | markers witness the graph, order, replay agrees, success is final |
| `ingestion_settles` | 2 processes, 3 events that do not raise | 13 k | every event settles |
| `graph` | rows: 2 nodes, 2 scopes, 3 versions, 5 ticks, 1 direct writer; walks: every graph of 4 nodes; radius: every weighted graph on 8 pairs of 4 nodes, 4 argument sets; invalidation: 2 assumptions, 1 task that may be quarantined, 3 invalidations, gated or not | 1.0 M | one current version, exact walks and radius, overlapping holds, exact restoration, supersession is final |
| `gate` | policy: 1 process, 1 task, 2 definitions, 2 contents, 3 policies, 2 policy changes, 3 graph commits, a third attestation after a failure; world: 2 tasks under one proof, 3 commits, obligations, invalidations, quarantine, pushes; held: the same with 4 commits and 2 proofs, invalidations and quarantine alone; race: 2 processes, grants and revocations; caller: 2 policies of one definition, a required check that the caller brings or not, 3 commits | 1.5 M | the signed input is what was tested, a failure is retired only by the same check, no false completion, evidence written once, no proof sealed against a downgrade |
| `admission` | open: 2 openers of 2 tenants, 2 events, every kind of file an earlier release left; authority: three scenarios (late revisions, many scoped decisions, denials); frontier: 2 commits, 3 pushes, 2 checks or 2 refs; learning: 2 connections, 2 boundaries, 3 failures | 1.0 M | installation is complete or refused, proofs stay spent, decisions take effect once, obligations exact, the head follows its ref |
| `readings` | packets: 5 nodes, 2 budgets, 3 changes; recovery: 2 nodes, 4 versions; MCP: 3 commits, 6 page writes, 3 calls; snapshots: 4 shapes, 3 readers, 2 edits | 0.8 M | current packets are current, mandatory parts complete, nothing quarantined leaves, MCP answers are one moment, agreeing digests are exact |
| `documents` | grade: 2 checks, 2 files, 1 edit; receipts: 3 log entries, 1 copy, 2 keys; capsules: 2 importers, 2 imports, 2 writes; envelopes: 2 verifiers, 2 outcomes, 1 edit, 2 one-time keys, and on those of at most one outcome another `key_id` or upper case | 1.5 M | grades are earned, receipts refuse off their lineage, imports keep warnings, both verifiers agree |

The bounds are the smallest at which the cases meet: two processes for every
race, two scopes to tell a key's namespace, two bodies for a mismatch, depth one
for a savepoint inside a transaction (deeper stacks repeat it, and the proofs
cover any depth), three events of one project for a hole with something on each
side, three invalidations for a chain of recorded statuses, two definitions that
pass on different contents so that a retry under the other one is a different
check, three commits for a failure, its retry and a completion, three pushes for
one that overtakes another and one after both, two openers so that one crashes or
migrates under the other, two edits so that one can come between the passes of each
snapshot, two importers for one capsule.

`MCGraph`, `MCCompletionGate`, `MCAdmission`, `MCReadings` and `MCDocuments` check a
specification `MCSpec`: the module's `Init` and `Next` with a few guards that leave out
behaviours that repeat others. The guards are in the MC modules, so the proofs are about
the specifications without them. There are three kinds, each named and explained
where it is defined:

- *Twins.* Of parts that nothing tells apart the first moves first: tasks under one
  proof (`FirstTask`), boundaries, stored events and completed tasks (`InOrder`),
  importers (`FirstImporter`), verifiers (`FirstVerifier`), the checks and files of a graded
  world (`MCWorlds`). `Symmetry` does the same for openers, connections, processes and
  graph nodes. No property and no action names one of the twins.
- *Nothing reads it.* A downgrade is cleared only early (`ClearedEarly`: the
  invalidation operations do not read it); one recorded packet is as good as the last of several
  (`FirstMark`: a watermark is only read by `packet_is_stale`, which sees the newest); an edit
  after the last reading is over changes nothing (`Watched`), and two edits in the
  first reading show what two edits in the second show, since both readings begin alike; a
  key replaced before it signed is the key that replaced it (`SignedFirst`).
- *Bounds.* A third attestation only after a failed one, and policy changes only to
  another policy, while the first two attestations run or after a sealed proof (`Moves`);
  two proofs in a history of holds (`FewProofs`); `key_id` and case of a signature are
  rewritten on envelopes of at most one outcome (`BlockOfShort`); one attestation at a time after a
  proof without a downgrade (`Rivals`); a recorded packet had room for everything (`Roomy`: what its mandatory
  part holds does not depend on the budget, which `PacketsComplete` checks for both).
  These are bounds like the counts in the table and leave out longer histories.

Runs other than `event_log`, `ingestion`
and `ingestion_settles` may stop (all bounds used up), so they do not check deadlock.

Four runs end in a violation and are findings (`PROJECT.json`, "findings"):
`stranding` (a target stays invalidated after its last invalidation closed),
`quarantine_lost` (an invalidation applied over a quarantine and then resolved opens
the task), `ingestion_wedge` (a poisoned event that crashed before its quarantine
blocks its project), `latest_checkpoint` (correcting an older checkpoint makes it the
one that recovery resumes from).

More divergences were met with these models and have no run of their own:

- An invalidation confirmed after its target was superseded is refused by the
  lifecycle (`ontology.py:70`), and resolving it revives the target
  (`invalidation.py:919` writes the recorded status without the transition table).
  `SupersededIsFinal` names this exception; nothing else revives the target.
- `put_evidence` (`store.py:977`) does not look at `deleted_at`: storing deleted
  bytes again answers with a digest that cannot be read.
- The recheck after the verifiers (`engine.py:4485`) compares contents only, and
  the copy a verifier ran on (`verifiers.py:717`) is compared with nothing. An edit
  undone before the recheck leaves a proof with status verified whose signed input
  was never tested (TLC: `Gate.cfg` with `Reverts = TRUE`). The probes that
  follow usually see the restored content and lower the grade, so an evidence
  floor still stops the completion.
- A push delivered late makes an older commit the trusted head (`engine.py:3610`–3617,
  3640), where `README.md:659`–662 and ADR-090 (`ADR-INDEX.md:1495`) say that the
  frontier is the ref's present state. `Frontier!HeadIsPresent` states it and fails.
- A pass ingested before its producer was trusted survives a later trusted failure,
  against the comment at `engine.py:3522`. `Frontier!FailureAnswered` states it.
- The objective of a packet may come from an invalidated plan that is pinned to L0
  (`resume.py:538`–543), against `resume.py:553`–555. `Packets!ObjectiveIsLive` states it.
- Three rewritings of what nothing signs are refused by the engine and accepted by
  `verify_proof.py`, where `SPEC.md:10`–12 says that the two cannot drift apart: an HMAC
  envelope under another `key_id` (`core.py:461`, not looked at in
  `verify_proof.py:603`–615), a Lamport envelope in upper-case hex (`lamport.py:41`, 152, 160
  against `bytes.fromhex` in `verify_proof.py:589` and 626), and one without
  `signature.fingerprint` (`lamport.py:64`, `verify_proof.py:660`).
  `ProofEnvelope!NeverDriftApart` states it and fails in each of the three ways.
- An event whose envelope cannot be rebuilt raises at `engine.py:2997`, before the order
  rule (3022) and after `capture_validated` is set (2906), and so is quarantined (2917)
  past an earlier retained event that still waits. Its marker then shuts that event out
  (3030) for as long as its payload is kept. ADR-120 (`ADR-INDEX.md:2802`–2804) has an event with an earlier retained
  unprocessed one refused. `Ingestion!NoHoleJumpedAtAll` states it and fails: two events are
  accepted, the second is malformed and processed first.
- A failure of a required check that the caller brought (`engine.py:4494`) is superseded
  by a later attestation without that check, because neither `policy_strength`
  (4304–4318) nor `claim_key` (4356) knows of it. ADR-074 (`ADR-INDEX.md:1123`–1126) wants an
  identical definition of every earlier required verifier.
  `CompletionGate!EveryFailureAnswered` states it and fails (scenario `caller`).
- An outcome without a failure mode that is quarantined after `recovery_packet` read it
  still has its failed steps repeated among the steps to retry, against the comment at
  `partial.py:292`. The reads are query by query: a task may also appear as both
  remaining and verified.
- `utcnow()` is sampled before the write scope (`graph.py:199`), so two versions may
  commit in another order than their transaction times, and a read as of a time between
  them finds both or neither (`REQUIREMENTS.md:20`, CCG-004).
- `bind_github_repository` (`engine.py:4929`) reads the project outside its
  transaction and rewrites all its data: a push processed in between is lost.

Behaviour that the models show and that is as intended: an older revision from a
stronger source that arrives late withdraws weaker newer claims (ADR-126); a decision
retried under a fresh request id is a second decision; the Lamport registry is in
memory only, so after a restart earlier fingerprints are unknown; `ingest_github`
checks the binding before `_ingest` opens its transaction.

Fairness, in `ingestion_settles` and `ingestion_wedge` only: strong fairness of
redelivering each event that is not settled, since the replay report tells the
operator to redeliver them and connectors retry, and strong fairness of a
process's step on the event it ingests, that is, not every single attempt on one
event ends in a crash.

## 4. Proofs

Each theorem holds for every value of the constants: any number of processes,
nodes, tasks, invalidations, capsules, versions, files, and any bounds. `PROJECT.json`
("theorems") lists them with the property that a run checks on a small instance. A
theorem about a part of a composition is a theorem about that component's own
specification (`Open!Spec`, `Packet!Spec`, ...), of which the composition is the
interleaving; `AdmissionSafe` and `ReadingsSafe` carry the parts over to the composition.

**`EventLogProofs`**: `TypeCorrect`, `LogStaysWellFormed`, `ChainsStayIntact`,
`AnchorsStayTrue`, `CommitsAppend`, `RepliesStayTrue`, `DeletionsStayAudited`,
`ImplementsLog`. None of the
invariants is inductive by itself, because a commit publishes a private copy. `IInv`
says that whoever is in a write unit owns the lock, that its working copy and every
savepoint on its stack is a sound database (contiguous numbers, unique keys, intact
chains; one number ahead between the bump and the INSERT) that continues the committed
one, and that the key about to be inserted is still free. The argument: writes preserve
soundness (one lemma per write), continuing is transitive, and nobody else can
commit while the lock is held (`OthersKeep`).
`ImplementsLog` is the refinement of `CanonicalLog`. Only a step that commits, and one
that answers, changes what the mapping shows; all others stutter. A commit of a
transaction appends a batch of deliveries with fresh keys and clears payloads, which
`Extends` and the soundness of the working copy give. A standalone delivery must be
decided on the log it is published to, which needs one more invariant, `PlainOK`: an
open transaction carries no flags that are not committed, and a delivery that opened
its own transaction works on the committed log.
`DeletionsStayAudited` cannot be kept by each write, since a tombstone comes before its
row: `AuditInv` says that a working copy is accounted for once the row that its running
method owes is written (`Due`), and that savepoints and the committed database owe nothing.
The sum over the sweep rows is stated as the size of a set with one pair for each unit
counted (`SweptUnits`), so that no induction over the rows is needed.

**`IngestionProofs`**: `TypeCorrect`, `MarkersWitness`, `HolesHold`, `OrderPreserved`,
`SuccessFinal`, `ReplaysMatch`. The quarantine transaction does not look at the order rule
again, so `NoHoleJumped` needs `QuarantineReady`: unless the event is malformed, the rule
held when processing failed, and no retained hole has opened before the event since. `ReplaysMatch` compares the live
graph with what a replay would build, each as a set of rows that carry their place in
the log, which together with `ProjectedInLogOrder` is equality as sequences. It needs
`KindsOK`: every event marked ok is one that processing can succeed with.

**`CompletionGateProofs`**: `TypeCorrect`, `ProofsRecordWhatWasTested`,
`FailuresAreAnswered`, `CompletionsAreTrue`, `EvidenceIsFinal`,
`SealsRespectDowngrades`. The gate's promises join moments that no transaction joins:
when the files were hashed, when each verifier ran, when autonomy was decided, when
the proof was sealed. The invariant keeps, for every running attestation, how what it
has read relates to the world as it is now. Rows of the autonomy tables are only
added, so an equal reading at the seal means that nothing moved in between
(`AutonomyOK`); contents only grow past the recorded one, so an equal digest after
the verifiers ran means that they ran on it (`ContentOK`). The second fact needs
`~Reverts`, and so do the three theorems that rest on it: with an edit that is undone
they fail (section 3). `FailuresAreAnswered` is about the definitions that policy required
of the failed proof, whatever the caller's own checks said in it or in a later one. `EvidenceIsFinal` needs that a task that is open, or would be
reopened at the end of its hold, has no evidence (`TaskOK`).

**`InvalidationProofs`**: `HoldsAreExact`, `SupersessionIsFinal`. The properties speak of
statuses; what makes them hold is what receipts remember. A receipt written while another
invalidation already holds the node gives back not the status it saw but the one the
first open row carries, so `AffectedOK` says that every receipt of a node that was only
ever affected carries one of its original statuses. `SupersessionIsFinal` assumes that
no assumption is among the nodes that may be quarantined, as in the run:
`partial.quarantine` overwrites any status.

**`GraphProofs`**: `VersionsAreExact`, `RadiusIsExact`. The first invariant says that versions meet: each
was closed at the very time the next one opened, whatever order the writers reached the
lock in; and they are in order where no direct call was overtaken. Versions that meet in
order partition time (`RowVersionsPartitionTime`), which is what a read as of a time needs.
The search of `dependents` drops a path that is no stronger than one it knows to the same
node. That this loses nothing, although the paths it keeps may be the longer ones, is
`RadiusInv`: the queue is in order of depth; no walk as short as the path being expanded
reaches further than is known (`RadiusReached`); each such walk is followed up from a path
as short and as strong, queued or expanded (`RadiusFollowed`); and the strongest path to
each node is queued or was expanded (`RadiusExpanded`). When the search ends, either the
last path was at the depth bound, and `RadiusReached` covers every walk, or all known
paths were expanded, and a shortest walk that is not covered leads to a contradiction.
That a path never visits a node twice is no test of the code's: it follows from strengths
that do not grow. The strength of a walk is recursive; what the proof needs of it, that one
more node is one more edge (`RadiusStrAppend`), is proved with least counterexamples.

**`AdmissionProofs`**: `LearningIsExact`, `OpeningSafe`, `AuthorityStaysExact`,
`AuthorityStaysLost`, `FrontierSafe`, `AdmissionSafe`.
A connection in a decision of the learning loop holds the write lock, so what it read is
still so when it commits (`WorkOK`). An opener commits statement by statement, and others
may install, migrate or crash in between; what makes it end well is that the file has
come at least as far as the opener's place in the script says (`OpenReached`), and that
no statement of anybody takes that back. The frontier's stored head belongs to the policy
epoch it names; of the present epoch it is in doubt or where the newest delivered push
left it, unless deliveries were shuffled (`FrontEpochOK`), and a pass that stands after a
trusted failure was let stand by a person (`FrontFailuresOK`).
The state of a confirmation is replayed from the log at every decision (`StateUpTo`), so
its proof needs that the replay of a prefix stays what it was (`AuthPrefixStays`) and
changes only with a decision on that confirmation (`AuthStateAfter`). With that, the stored
node agrees with the replay (`AuthStatesInv`); a node that is invalid was revoked or lost
its claim, and one that reads invalidated did, or has an open notice (`AuthNodeOK`); and
two opposite controls that are both current are both marked (`AuthOpposedInv`), because no
step brings a pair nearer to a dispute unless the code contests it in the same step. That
a field's claims say what its latest revision says rests on `AuthAdmittedInv`: of two
admitted edits of a field, the later in the log has the later revision unless its source
is the stronger one.

**`ReadingsProofs`**: `SessionsAnswerOneMoment`, `RecoveryClean`, `PacketsCurrent`,
`PacketsAreComplete`, `ReadingsSafe`. No check of an MCP session is atomic with a read. The
identity of the file only grows, so one that is still the view's says that nothing was
written since, and the pages read so far are those of one committed content. A packet's
watermark is compared by value, and a status may change and change back: the invariant
says of the basis, as a value, what it determines, with one exception, a grant
that expired while the packet was composed, and that never comes back.
`PacketsAreComplete` is an action property about every packet that is returned; it
follows from what the basis of the composition under way says of the graph.

**`DocumentsProofs`**: `CapsulesAreSpentOnce`, `ImportsAreChallenged`, `GradesEarned`,
`ReceiptsHold`. Whatever happens to a capsule on its way, its signature is of an export
(`TransitOK`), so what validates was exported; capsule numbers are not used twice
(`ExportsOK`); and a session that passes its challenge found as many sessions as its
capsule had seen (`PassedOK`), which its own creation changes, so the capsule never passes
again. The grade of an attestation is decided after many steps, so the invariant follows
the plan of mutations: what it is through with was noticed or recorded as not noticed
(`GradeNoticedOK`), and the plan covers every declared file. Receipts survive backups and
restores because an entry is written once: in all logs that exist, in the live store, the
copy and behind every receipt, an entry has one place and one past, so that logs with
equal tips are equal, and a checkpoint is a prefix exactly of its own lineage.

Assumptions of the modules (`ASSUME`, which TLC evaluates in every run): the bounds are
naturals; `NoProc`, `Absent`, `NoEvent` and `None` are not members of the sets they stand
outside of; `Capture`, `KindOf`, `ProjectOf`, `Impact` are functions on their sets. Of the
parts: `RadiusOK`, that an edge carries at most
the whole of a strength and no call looks deeper than the scale of the strengths reaches;
`RowCallsOK`, that calls are what `put_node` and `put_edge` let through (an id is a
node or a pair of nodes, times are integers or not given, a reopened interval has a
start); `FilesOK`, that a database file is one an earlier release can have left
(`FileOK` in `StoreOpen`: without the table of events it has none, today's layout never had
the global key, and no proof of a tenant completed two tasks); `SettingsOK`, the types of the bounds of the tracked repository;
`ScenariosOK`, that an edit is of a revision that is a number, and that texts which negate
one another are a requirement and a constraint;
`PacketsOK`, that a node's text is in itself, that a control is active or was taken down,
and that each kind of node has a status to start in; `TreeOK`, that a tree has finitely
many files; `ConnectionsOK` and `NoneOK`, that `None` is no connection and no number.

Only model-checked, and why:

- `EveryEventSettles` and all else under fairness: liveness is out of the prover's reach.
- `WalksExact` and `VerdictsSound` compare a recursive definition or a fold with a
  reference, for every input of a bounded set; each would need an induction over the
  input.
- `SnapshotsExact`: the two passes of three readers over a tree that others edit; its
  invariant has to relate every entry read to every past state of the disk.

## 5. Plan

In order of importance:

1. `ArtifactSnapshot` (`SnapshotsExact`): the last safety property of a state machine
   that no theorem states yet.
2. `CompletionGate` as an implementation of an abstract gate that completes a task in one
   step, with the invariant that is already proved.
3. `Autonomy`: scoped and expiring grants and the rule table of `decide`.
4. `Authority` composed with `Invalidation`, so that a revoked confirmation fires
   and its impact is followed to the obligations.

## 6. Not modelled

Text processing (extraction rules, redaction patterns, rendering, classification of
failures), cryptography and canonical JSON, the projection fingerprint, webhook
payload shapes and signatures, network and subprocess I/O, `_reconcile_open_work`
(open work is never trimmed in `Packets`), the HTTP API and the command line (they call
the engine and keep no state of their own), static tables, schemas, benchmarks and
release scripts (one-shot tools with no state that outlives a run).
`PROJECT.json` ("components") gives the reason for each part.
