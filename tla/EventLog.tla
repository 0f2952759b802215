------------------------------ MODULE EventLog ------------------------------
(***************************************************************************)
(* The SQLite store of the Causal Continuity Engine (store.py): the        *)
(* append-only event log and its hash chain, the audit chain, the payload  *)
(* mismatch flags and the content-addressed evidence blobs, as several     *)
(* operating-system processes write them through transactions, nested      *)
(* savepoints and the one cross-process writer lock of BEGIN IMMEDIATE.    *)
(*                                                                         *)
(* db is what a fresh connection reads.  The lock owner p works on its     *)
(* private copy work[p]; COMMIT publishes it, ROLLBACK or a crash drops    *)
(* it.  saves[p] is p's savepoint stack.                                   *)
(*                                                                         *)
(* SHA-256 is idealised as collision free: the hash of a chain entry is    *)
(* the very history it commits to, so Link appends and GENESIS is empty.   *)
(***************************************************************************)
EXTENDS Integers, Sequences, FiniteSets

CONSTANTS
    Procs,       \* processes that hold a connection to the database
    Scopes,      \* (tenant, project) pairs, the idempotency namespaces
    Keys,        \* idempotency keys a source may choose
    Contents,    \* raw bodies a source may send; stands for payload_digest
    Capture,     \* the stored form each raw body has after redaction
    Blobs,       \* evidence bodies, named by their digest
    Metas,       \* the (media type, sensitivity) pairs a caller may give
    NoProc, Absent,
    MaxEvents,   \* bound: events in the log
    MaxAudit,    \* bound: audit rows
    MaxDepth,    \* bound: nested savepoints
    MaxAnchors   \* bound: anchors published

ASSUME BoundsAssumption ==
    /\ MaxEvents \in Nat
    /\ MaxAudit \in Nat
    /\ MaxDepth \in Nat
    /\ MaxAnchors \in Nat

ASSUME NamesAssumption ==
    /\ NoProc \notin Procs
    /\ Absent \notin Metas
    /\ DOMAIN Capture = Contents

VARIABLES
    db,       \* the committed database
    lock,     \* the process that owns SQLite's writer lock
    work,     \* the lock owner's uncommitted database
    saves,    \* the savepoint stack of each process
    pc,       \* where each process is inside a Store method
    frame,    \* how the running method was entered, see Enter and Join
    req,      \* the arguments of the running method
    anchors,  \* anchors published outside the store
    reply     \* what each process's last call told its caller

vars == <<db, lock, work, saves, pc, frame, req, anchors, reply>>

-----------------------------------------------------------------------------
(* Rows.                                                                   *)

\* The columns of an event that the chain covers; seq also stands for event_id.
Entry == [scope: Scopes, key: Keys, digest: Contents,
          stored: {Capture[c] : c \in Contents}, seq: 1..MaxEvents]

Event == [entry: Entry, payload: BOOLEAN, prev: Seq(Entry), hash: Seq(Entry)]

\* An audit row's own content: what was done, to what, with which count.
AuditEntry == [action: {"note", "evidence.delete", "retention.sweep"},
               object: Blobs \cup {Absent}, count: 0..MaxEvents]

AuditRow == [entry: AuditEntry, prev: Seq(AuditEntry), hash: Seq(AuditEntry)]

Mismatch == [key: Keys, existing: Contents, new: Contents]

BlobRow == [meta: Metas \cup {Absent}, deleted: BOOLEAN]

Database == [events: Seq(Event), seq: 0..MaxEvents, mismatches: SUBSET Mismatch,
             audit: Seq(AuditRow), blobs: [Blobs -> BlobRow]]

GENESIS == << >>

Link(prev, entry) == Append(prev, entry)

EmptyDb == [events |-> << >>, seq |-> 0, mismatches |-> {}, audit |-> << >>,
            blobs |-> [b \in Blobs |-> [meta |-> Absent, deleted |-> FALSE]]]

\* Mutated: the tip is read through another connection, which sees only what is
\* committed and so misses the transaction's own appends.
MutEventTip(d) == IF db.events = << >> THEN GENESIS ELSE db.events[Len(db.events)].hash

\* SELECT entry_hash ... ORDER BY seq DESC LIMIT 1 on the events table.
EventTip(d) ==
    IF d.events = << >> THEN GENESIS
    ELSE LET last == CHOOSE i \in DOMAIN d.events :
                        \A j \in DOMAIN d.events :
                            d.events[j].entry.seq <= d.events[i].entry.seq
         IN  d.events[last].hash

\* The same on audit_log, whose seq is the AUTOINCREMENT row number.
AuditTip(d) ==
    IF d.audit = << >> THEN GENESIS ELSE d.audit[Len(d.audit)].hash

\* Mutated: the idempotency lookup forgets an event once its payload is cleared.
MutHolders(d, s, k) ==
    {i \in DOMAIN d.events : /\ d.events[i].entry.scope = s
                             /\ d.events[i].entry.key = k
                             /\ d.events[i].payload}

\* The rows that hold this idempotency key in this tenant and project.
Holders(d, s, k) ==
    {i \in DOMAIN d.events : d.events[i].entry.scope = s /\ d.events[i].entry.key = k}

\* Mutated: the row takes the sequence number from before the bump.
MutWithEvent(d, r) ==
    LET entry == [scope |-> r.scope, key |-> r.key, digest |-> r.content,
                  stored |-> Capture[r.content], seq |-> d.seq - 1]
    IN  [d EXCEPT !.events = Append(@,
            [entry |-> entry, payload |-> TRUE, prev |-> EventTip(d),
             hash |-> Link(EventTip(d), entry)])]

WithEvent(d, r) ==
    LET entry == [scope |-> r.scope, key |-> r.key, digest |-> r.content,
                  stored |-> Capture[r.content], seq |-> d.seq]
    IN  [d EXCEPT !.events = Append(@,
            [entry |-> entry, payload |-> TRUE, prev |-> EventTip(d),
             hash |-> Link(EventTip(d), entry)])]

WithAudit(d, a) ==
    [d EXCEPT !.audit = Append(@,
        [entry |-> a, prev |-> AuditTip(d), hash |-> Link(AuditTip(d), a)])]

-----------------------------------------------------------------------------
(* Entering and leaving a write unit.                                      *)

Idle == [scope |-> Absent, key |-> Absent, content |-> Absent, audit |-> Absent,
         blob |-> Absent, meta |-> Absent]

NoReply == [outcome |-> "none", on |-> Absent]

\* Mutated: a deferred BEGIN, which takes no writer lock.
MutAcquire(p) == /\ lock' = p
                 /\ work' = [work EXCEPT ![p] = db]

Acquire(p) == /\ lock = NoProc
              /\ lock' = p
              /\ work' = [work EXCEPT ![p] = db]

\* Store.transaction(): BEGIN IMMEDIATE when outermost, SAVEPOINT when nested.
Enter(p) ==
    \/ /\ pc[p] = "idle"
       /\ Acquire(p)
       /\ frame' = [frame EXCEPT ![p] = "outer"]
       /\ UNCHANGED saves
    \/ /\ pc[p] = "open"
       /\ Len(saves[p]) < MaxDepth
       /\ saves' = [saves EXCEPT ![p] = Append(@, work[p])]
       /\ frame' = [frame EXCEPT ![p] = "save"]
       /\ UNCHANGED <<lock, work>>

\* Store.write_scope(): commit standalone, or join the owner's transaction.
Join(p) ==
    \/ /\ pc[p] = "idle"
       /\ Acquire(p)
       /\ frame' = [frame EXCEPT ![p] = "outer"]
    \/ /\ pc[p] = "open"
       /\ frame' = [frame EXCEPT ![p] = "none"]
       /\ UNCHANGED <<lock, work>>

Front(s) == SubSeq(s, 1, Len(s) - 1)

\* COMMIT, RELEASE SAVEPOINT, or just return into the transaction joined.
Leave(p, d) ==
    /\ req' = [req EXCEPT ![p] = Idle]
    /\ frame' = [frame EXCEPT ![p] = "none"]
    /\ \/ /\ frame[p] = "outer"
          /\ db' = d
          /\ lock' = NoProc
          /\ work' = [work EXCEPT ![p] = EmptyDb]
          /\ pc' = [pc EXCEPT ![p] = "idle"]
          /\ UNCHANGED saves
       \/ /\ frame[p] = "save"
          /\ work' = [work EXCEPT ![p] = d]
          /\ saves' = [saves EXCEPT ![p] = Front(@)]
          /\ pc' = [pc EXCEPT ![p] = "open"]
          /\ UNCHANGED <<db, lock>>
       \/ /\ frame[p] = "none"
          /\ work' = [work EXCEPT ![p] = d]
          /\ pc' = [pc EXCEPT ![p] = "open"]
          /\ UNCHANGED <<db, lock, saves>>

\* An exception the transaction's owner catches: ROLLBACK TO and RELEASE.
Undo(p) ==
    /\ frame[p] = "save"
    /\ work' = [work EXCEPT ![p] = saves[p][Len(saves[p])]]
    /\ saves' = [saves EXCEPT ![p] = Front(@)]
    /\ pc' = [pc EXCEPT ![p] = "open"]
    /\ frame' = [frame EXCEPT ![p] = "none"]
    /\ req' = [req EXCEPT ![p] = Idle]
    /\ UNCHANGED <<db, lock>>

Say(p, outcome, on) == reply' = [reply EXCEPT ![p] = [outcome |-> outcome, on |-> on]]

-----------------------------------------------------------------------------
(* The transaction context manager as its own caller sees it.              *)

Begin(p) ==
    /\ pc[p] = "idle"
    /\ Enter(p)
    /\ pc' = [pc EXCEPT ![p] = "open"]
    /\ UNCHANGED <<db, req, anchors, reply>>

Nest(p) ==
    /\ pc[p] = "open"
    /\ Len(saves[p]) < MaxDepth
    /\ saves' = [saves EXCEPT ![p] = Append(@, work[p])]
    /\ UNCHANGED <<db, lock, work, pc, frame, req, anchors, reply>>

Release(p) ==
    /\ pc[p] = "open"
    /\ saves[p] # << >>
    /\ saves' = [saves EXCEPT ![p] = Front(@)]
    /\ UNCHANGED <<db, lock, work, pc, frame, req, anchors, reply>>

RollbackTo(p) ==
    /\ pc[p] = "open"
    /\ saves[p] # << >>
    /\ work' = [work EXCEPT ![p] = saves[p][Len(saves[p])]]
    /\ saves' = [saves EXCEPT ![p] = Front(@)]
    /\ UNCHANGED <<db, lock, pc, frame, req, anchors, reply>>

Commit(p) ==
    /\ pc[p] = "open"
    /\ saves[p] = << >>
    /\ db' = work[p]
    /\ lock' = NoProc
    /\ work' = [work EXCEPT ![p] = EmptyDb]
    /\ pc' = [pc EXCEPT ![p] = "idle"]
    /\ UNCHANGED <<saves, frame, req, anchors, reply>>

\* The process dies, COMMIT fails, or an exception leaves every frame: SQLite
\* drops the uncommitted copy and the lock.
Abort(p) ==
    /\ pc[p] # "idle"
    /\ lock' = IF lock = p THEN NoProc ELSE lock
    /\ work' = [work EXCEPT ![p] = EmptyDb]
    /\ saves' = [saves EXCEPT ![p] = << >>]
    /\ pc' = [pc EXCEPT ![p] = "idle"]
    /\ frame' = [frame EXCEPT ![p] = "none"]
    /\ req' = [req EXCEPT ![p] = Idle]
    /\ UNCHANGED <<db, anchors, reply>>

-----------------------------------------------------------------------------
(* append_event and _append_event_in_transaction.                          *)

Append_event(p, s, k, c) ==
    /\ Enter(p)
    /\ pc' = [pc EXCEPT ![p] = "lookup"]
    /\ req' = [req EXCEPT ![p] = [Idle EXCEPT !.scope = s, !.key = k, !.content = c]]
    /\ UNCHANGED <<db, anchors, reply>>

\* Mutated: a recognised redelivery is reported as a fresh acceptance.
MutDuplicate(p) ==
    /\ pc[p] = "lookup"
    /\ \E i \in Holders(work[p], req[p].scope, req[p].key) :
          work[p].events[i].entry.digest = req[p].content
    /\ frame[p] = "outer"
    /\ Leave(p, work[p])
    /\ Say(p, "accepted", req[p])
    /\ UNCHANGED anchors

\* Same key, same raw digest: DuplicateEventError, nothing written.
Duplicate(p) ==
    /\ pc[p] = "lookup"
    /\ \E i \in Holders(work[p], req[p].scope, req[p].key) :
          work[p].events[i].entry.digest = req[p].content
    /\ \/ /\ frame[p] = "outer"
          /\ Leave(p, work[p])
          /\ Say(p, "duplicate", req[p])
       \/ /\ Undo(p)
          /\ UNCHANGED reply
    /\ UNCHANGED anchors

\* Mutated: a standalone mismatch is rejected without its durable flag.
MutPayloadMismatch(p) ==
    /\ pc[p] = "lookup"
    /\ \E i \in Holders(work[p], req[p].scope, req[p].key) :
          work[p].events[i].entry.digest # req[p].content
    /\ frame[p] = "outer"
    /\ Leave(p, work[p])
    /\ Say(p, "mismatch", req[p])
    /\ UNCHANGED anchors

\* Same key, another raw digest: PayloadMismatchError.  A standalone delivery
\* commits the flag; the savepoint of a joined one takes it back.
PayloadMismatch(p) ==
    /\ pc[p] = "lookup"
    /\ \E i \in Holders(work[p], req[p].scope, req[p].key) :
          LET old == work[p].events[i].entry.digest IN
          /\ old # req[p].content
          /\ \/ /\ frame[p] = "outer"
                /\ Leave(p, [work[p] EXCEPT !.mismatches = @ \cup
                        {[key |-> req[p].key, existing |-> old, new |-> req[p].content]}])
                /\ Say(p, "mismatch", req[p])
             \/ /\ Undo(p)
                /\ UNCHANGED reply
    /\ UNCHANGED anchors

\* UPDATE event_seq SET n = n + 1.
BumpSeq(p) ==
    /\ pc[p] = "lookup"
    /\ Holders(work[p], req[p].scope, req[p].key) = {}
    /\ work[p].seq < MaxEvents
    /\ work' = [work EXCEPT ![p].seq = @ + 1]
    /\ pc' = [pc EXCEPT ![p] = "insert"]
    /\ UNCHANGED <<db, lock, saves, frame, req, anchors, reply>>

\* Read the tip, link, INSERT, and leave the write unit.
InsertEvent(p) ==
    /\ pc[p] = "insert"
    /\ Leave(p, WithEvent(work[p], req[p]))
    /\ \/ frame[p] = "outer" /\ Say(p, "accepted", req[p])
       \/ frame[p] = "save" /\ UNCHANGED reply
    /\ UNCHANGED anchors

\* The INSERT raises and the transaction's owner carries on.
InsertFails(p) ==
    /\ pc[p] = "insert"
    /\ Undo(p)
    /\ UNCHANGED <<anchors, reply>>

-----------------------------------------------------------------------------
(* Audit rows, and the deletions that must leave one.                      *)

\* UPDATE chain_lock takes the writer lock before the tip is read.
Audit(p) ==
    /\ Join(p)
    /\ pc' = [pc EXCEPT ![p] = "audit"]
    /\ req' = [req EXCEPT ![p] = [Idle EXCEPT !.audit =
                  [action |-> "note", object |-> Absent, count |-> 0]]]
    /\ UNCHANGED <<db, saves, anchors, reply>>

\* Read the tip, link, INSERT; also the last step of a deletion or a sweep.
InsertAudit(p) ==
    /\ pc[p] = "audit"
    /\ Len(work[p].audit) < MaxAudit
    /\ Leave(p, WithAudit(work[p], req[p].audit))
    /\ UNCHANGED <<anchors, reply>>

\* Mutated: a failed audit write releases the savepoint instead of undoing it.
MutAuditFails(p) ==
    /\ pc[p] = "audit"
    /\ frame[p] = "save"
    /\ Leave(p, work[p])
    /\ UNCHANGED <<anchors, reply>>

\* The audit write of a nested deletion raises and the owner carries on.
AuditFails(p) ==
    /\ pc[p] = "audit"
    /\ Undo(p)
    /\ UNCHANGED <<anchors, reply>>

\* delete_evidence: the tombstone, then its audit row, in one write unit.
DeleteEvidence(p, b) ==
    /\ Enter(p)
    /\ pc' = [pc EXCEPT ![p] = "delete"]
    /\ req' = [req EXCEPT ![p] = [Idle EXCEPT !.blob = b]]
    /\ UNCHANGED <<db, anchors, reply>>

Tombstone(p) ==
    LET b == req[p].blob IN
    /\ pc[p] = "delete"
    /\ work[p].blobs[b].meta # Absent
    /\ ~work[p].blobs[b].deleted
    /\ work' = [work EXCEPT ![p].blobs[b].deleted = TRUE]
    /\ pc' = [pc EXCEPT ![p] = "audit"]
    /\ req' = [req EXCEPT ![p].audit =
                  [action |-> "evidence.delete", object |-> b, count |-> 0]]
    /\ UNCHANGED <<db, lock, saves, frame, anchors, reply>>

\* The early return of delete_evidence: no such blob, or already deleted.
NothingToDelete(p) ==
    LET b == req[p].blob IN
    /\ pc[p] = "delete"
    /\ work[p].blobs[b].meta = Absent \/ work[p].blobs[b].deleted
    /\ Leave(p, work[p])
    /\ UNCHANGED <<anchors, reply>>

\* memory.sweep_retention: clear old payloads, then one audit row that counts
\* them, in one write unit.
SweepRetention(p) ==
    /\ Enter(p)
    /\ pc' = [pc EXCEPT ![p] = "sweep"]
    /\ UNCHANGED <<db, req, anchors, reply>>

\* UPDATE events SET payload = NULL, the one rewrite the triggers allow.
Cleared(d, old) ==
    [d EXCEPT !.events = [i \in DOMAIN d.events |->
        IF i \in old THEN [d.events[i] EXCEPT !.payload = FALSE] ELSE d.events[i]]]

\* Which payloads are older than the window is the clock's choice.
ClearPayloads(p, old) ==
    /\ pc[p] = "sweep"
    /\ old # {}
    /\ \A i \in old : i \in DOMAIN work[p].events /\ work[p].events[i].payload
    /\ work' = [work EXCEPT ![p] = Cleared(@, old)]
    /\ pc' = [pc EXCEPT ![p] = "audit"]
    /\ req' = [req EXCEPT ![p].audit =
                  [action |-> "retention.sweep", object |-> Absent,
                   count |-> Cardinality(old)]]
    /\ UNCHANGED <<db, lock, saves, frame, anchors, reply>>

NothingToClear(p) ==
    /\ pc[p] = "sweep"
    /\ Leave(p, work[p])
    /\ UNCHANGED <<anchors, reply>>

-----------------------------------------------------------------------------
(* Evidence blobs.                                                         *)

WithBlob(d, b, m) == [d EXCEPT !.blobs[b].meta = m]

\* put_evidence inside a transaction: SELECT and INSERT see the same copy.
JoinedPutEvidence(p, b, m) ==
    /\ pc[p] = "open"
    /\ \/ /\ work[p].blobs[b].meta = Absent
          /\ work' = [work EXCEPT ![p] = WithBlob(@, b, m)]
       \/ /\ work[p].blobs[b].meta = m
          /\ UNCHANGED work
    /\ UNCHANGED <<db, lock, saves, pc, frame, req, anchors, reply>>

\* Standalone put_evidence: the SELECT runs before any transaction is open.
PutEvidence(p, b, m) ==
    /\ pc[p] = "idle"
    /\ db.blobs[b].meta \in {Absent, m}
    /\ IF db.blobs[b].meta = m
       THEN /\ Say(p, "stored", [Idle EXCEPT !.blob = b])
            /\ UNCHANGED <<pc, req>>
       ELSE /\ pc' = [pc EXCEPT ![p] = "put"]
            /\ req' = [req EXCEPT ![p] = [Idle EXCEPT !.blob = b, !.meta = m]]
            /\ UNCHANGED reply
    /\ UNCHANGED <<db, lock, work, saves, frame, anchors>>

\* The INSERT and its COMMIT; the digest's PRIMARY KEY makes a race an error.
InsertBlob(p) ==
    /\ pc[p] = "put"
    /\ lock = NoProc
    /\ IF db.blobs[req[p].blob].meta = Absent
       THEN /\ db' = WithBlob(db, req[p].blob, req[p].meta)
            /\ Say(p, "stored", req[p])
       ELSE UNCHANGED <<db, reply>>
    /\ pc' = [pc EXCEPT ![p] = "idle"]
    /\ req' = [req EXCEPT ![p] = Idle]
    /\ UNCHANGED <<lock, work, saves, frame, anchors>>

-----------------------------------------------------------------------------
(* Tamper evidence.                                                        *)

\* verify_chain("events"): every row links to the one before and its own hash
\* covers its content.
EventChainIntact(d) ==
    \A i \in DOMAIN d.events :
        /\ d.events[i].prev = IF i = 1 THEN GENESIS ELSE d.events[i - 1].hash
        /\ d.events[i].hash = Link(d.events[i].prev, d.events[i].entry)

AuditChainIntact(d) ==
    \A i \in DOMAIN d.audit :
        /\ d.audit[i].prev = IF i = 1 THEN GENESIS ELSE d.audit[i - 1].hash
        /\ d.audit[i].hash = Link(d.audit[i].prev, d.audit[i].entry)

Anchor == [table: {"events", "audit_log"}, count: Nat,
           tip: Seq(Entry) \cup Seq(AuditEntry)]

\* Mutated: the anchor is read from a transaction that may still roll back.
MutExportAnchor(p) ==
    /\ pc[p] = "idle"
    /\ Cardinality(anchors) < MaxAnchors
    /\ \E q \in Procs :
          anchors' = anchors \cup {[table |-> "events", count |-> Len(work[q].events),
                                    tip |-> EventTip(work[q])]}
    /\ UNCHANGED <<db, lock, work, saves, pc, frame, req, reply>>

\* export_anchor: count and tip under one read snapshot, refused on a broken
\* chain.  Its caller, the CLI, runs it outside any transaction.
ExportAnchor(p) ==
    /\ pc[p] = "idle"
    /\ Cardinality(anchors) < MaxAnchors
    /\ \/ /\ EventChainIntact(db)
          /\ anchors' = anchors \cup
                {[table |-> "events", count |-> Len(db.events), tip |-> EventTip(db)]}
       \/ /\ AuditChainIntact(db)
          /\ anchors' = anchors \cup
                {[table |-> "audit_log", count |-> Len(db.audit), tip |-> AuditTip(db)]}
    /\ UNCHANGED <<db, lock, work, saves, pc, frame, req, reply>>

\* verify_against_anchor: the live chain is intact, is no shorter, and its
\* prefix of that length still ends in the published tip.
VerifyAgainstAnchor(d, a) ==
    LET rows == IF a.table = "events" THEN d.events ELSE d.audit IN
    /\ IF a.table = "events" THEN EventChainIntact(d) ELSE AuditChainIntact(d)
    /\ Len(rows) >= a.count
    /\ a.tip = IF a.count = 0 THEN GENESIS ELSE rows[a.count].hash

-----------------------------------------------------------------------------
Init ==
    /\ db = EmptyDb
    /\ lock = NoProc
    /\ work = [p \in Procs |-> EmptyDb]
    /\ saves = [p \in Procs |-> << >>]
    /\ pc = [p \in Procs |-> "idle"]
    /\ frame = [p \in Procs |-> "none"]
    /\ req = [p \in Procs |-> Idle]
    /\ anchors = {}
    /\ reply = [p \in Procs |-> NoReply]

Transact(p) ==
    Begin(p) \/ Nest(p) \/ Release(p) \/ RollbackTo(p) \/ Commit(p) \/ Abort(p)

Deliver(p) ==
    \/ \E s \in Scopes, k \in Keys, c \in Contents : Append_event(p, s, k, c)
    \/ Duplicate(p) \/ PayloadMismatch(p) \/ BumpSeq(p) \/ InsertEvent(p) \/ InsertFails(p)

Govern(p) ==
    \/ Audit(p) \/ InsertAudit(p) \/ AuditFails(p)
    \/ \E b \in Blobs : DeleteEvidence(p, b)
    \/ Tombstone(p) \/ NothingToDelete(p)
    \/ SweepRetention(p)
    \/ \E old \in SUBSET (1..MaxEvents) : ClearPayloads(p, old)
    \/ NothingToClear(p)

Retain(p) ==
    \/ \E b \in Blobs, m \in Metas : JoinedPutEvidence(p, b, m) \/ PutEvidence(p, b, m)
    \/ InsertBlob(p)
    \/ ExportAnchor(p)

Next == \E p \in Procs : Transact(p) \/ Deliver(p) \/ Govern(p) \/ Retain(p)

Spec == Init /\ [][Next]_vars

-----------------------------------------------------------------------------
(* Properties.                                                             *)

PcValues == {"idle", "open", "lookup", "insert", "audit", "delete", "sweep", "put"}

Request == [scope: Scopes \cup {Absent}, key: Keys \cup {Absent},
            content: Contents \cup {Absent}, audit: AuditEntry \cup {Absent},
            blob: Blobs \cup {Absent}, meta: Metas \cup {Absent}]

Reply == [outcome: {"none", "accepted", "duplicate", "mismatch", "stored"},
          on: Request \cup {Absent}]

\* Every variable has the shape the schema and the method signatures give it.
TypeOK ==
    /\ db \in Database
    /\ lock \in Procs \cup {NoProc}
    /\ work \in [Procs -> Database]
    /\ saves \in [Procs -> Seq(Database)]
    /\ pc \in [Procs -> PcValues]
    /\ frame \in [Procs -> {"none", "outer", "save"}]
    /\ req \in [Procs -> Request]
    /\ anchors \subseteq Anchor
    /\ reply \in [Procs -> Reply]

\* event_seq counts the events and nothing else: a bump whose INSERT was rolled
\* back is rolled back with it, so the log has no gap and no repeated number.
SeqContiguous(d) ==
    /\ d.seq = Len(d.events)
    /\ \A i \in DOMAIN d.events : d.events[i].entry.seq = i

\* One event per idempotency key in each tenant and project, however the
\* deliveries of several processes interleave.
KeysUnique(d) ==
    \A i, j \in DOMAIN d.events :
        /\ d.events[i].entry.scope = d.events[j].entry.scope
        /\ d.events[i].entry.key = d.events[j].entry.key
        => i = j

LogWellFormed == SeqContiguous(db) /\ KeysUnique(db)

\* Both hash chains verify in every committed state: no two processes ever
\* append from the same tip (ADR-046).
ChainsIntact == EventChainIntact(db) /\ AuditChainIntact(db)

\* An anchor published at any time is satisfied by the store ever after.
AnchorsHold == \A a \in anchors : VerifyAgainstAnchor(db, a)

\* A reply describes the committed log: accepted and duplicate mean the log
\* holds exactly this body under the key, mismatch that it holds another one
\* and that the flag survived the rejection (CCG-001).
RepliesTruthful ==
    \A p \in Procs :
        LET r == reply[p].on
            held == {db.events[i].entry.digest : i \in Holders(db, r.scope, r.key)} IN
        /\ reply[p].outcome \in {"accepted", "duplicate"} => held = {r.content}
        /\ reply[p].outcome = "mismatch" =>
              \E c \in Contents \ {r.content} :
                  /\ held = {c}
                  /\ [key |-> r.key, existing |-> c, new |-> r.content] \in db.mismatches

\* The evidence.delete rows of one blob.
Deletions(d, b) ==
    {i \in DOMAIN d.audit : /\ d.audit[i].entry.action = "evidence.delete"
                            /\ d.audit[i].entry.object = b}

\* One pair for each unit a retention.sweep row counts: its size is their sum.
SweptUnits(d) ==
    {u \in (DOMAIN d.audit) \X (1..MaxEvents) :
        /\ d.audit[u[1]].entry.action = "retention.sweep"
        /\ u[2] <= d.audit[u[1]].entry.count}

Gone(d) == {i \in DOMAIN d.events : ~d.events[i].payload}

Audited(d) ==
    /\ \A b \in Blobs :
          Cardinality(Deletions(d, b)) = IF d.blobs[b].deleted THEN 1 ELSE 0
    /\ Cardinality(SweptUnits(d)) = Cardinality(Gone(d))

\* What is gone is accounted for: each deleted blob has exactly one
\* evidence.delete audit row and each row names a deleted blob, and the counts
\* of the retention.sweep rows add up to the cleared payloads.
DeletionsAudited == Audited(db)

\* d2 continues d1: events and audit rows stay where they are, unchanged but for
\* a payload that may be cleared; flags, blob metadata and tombstones stay.
Extends(d1, d2) ==
    /\ Len(d1.events) <= Len(d2.events)
    /\ \A i \in DOMAIN d1.events :
          /\ d2.events[i].entry = d1.events[i].entry
          /\ d2.events[i].prev = d1.events[i].prev
          /\ d2.events[i].hash = d1.events[i].hash
          /\ d2.events[i].payload => d1.events[i].payload
    /\ Len(d1.audit) <= Len(d2.audit)
    /\ \A i \in DOMAIN d1.audit : d2.audit[i] = d1.audit[i]
    /\ d1.mismatches \subseteq d2.mismatches
    /\ \A b \in Blobs :
          /\ d1.blobs[b].meta # Absent => d2.blobs[b].meta = d1.blobs[b].meta
          /\ d1.blobs[b].deleted => d2.blobs[b].deleted

\* No commit of any process loses or rewrites what another one committed.
AppendOnly == [][Extends(db, db')]_db

-----------------------------------------------------------------------------
(* What the store promises, as CanonicalLog states it.                     *)

\* The log as its callers know it.
AbstractLog(d) ==
    [i \in DOMAIN d.events |->
        [scope |-> d.events[i].entry.scope, key |-> d.events[i].entry.key,
         content |-> d.events[i].entry.digest, retained |-> d.events[i].payload]]

Delivered(r) == r.outcome \in {"accepted", "duplicate", "mismatch"}

\* What one caller knows of its last delivery.
AbstractReply(r) ==
    IF Delivered(r)
    THEN [outcome |-> r.outcome,
          on |-> [scope |-> r.on.scope, key |-> r.on.key, content |-> r.on.content]]
    ELSE [outcome |-> "none", on |-> << >>]

Canonical == INSTANCE CanonicalLog WITH
    MaxBatch <- MaxEvents,
    log <- AbstractLog(db),
    flags <- db.mismatches,
    reply <- [p \in Procs |-> AbstractReply(reply[p])]

\* EventLog implements CanonicalLog: a delivery takes effect at its commit, a
\* transaction's appends and sweeps all at once, and a rolled back one never.
ImplementsCanonicalLog == Canonical!Spec
=============================================================================
