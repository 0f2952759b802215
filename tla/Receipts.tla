------------------------------ MODULE Receipts ------------------------------
(***************************************************************************)
(* Continuity receipts: the decision the engine signs over one coherent    *)
(* state of a project, and what a receipt is still worth later, when the   *)
(* store has grown, been damaged, been restored from a copy, or is opened  *)
(* under another key.                                                      *)
(*                                                                         *)
(* A log entry is its own name: entry hashes chain over identities and     *)
(* times that are never reused, so equal tips mean equal logs.  Digests    *)
(* are the values they cover.  The facts of the project stand for the      *)
(* graph's open invalidations, approvals, conflicts, failed proofs,        *)
(* missing verifiers and doubtful frontier (Frontier, Invalidation).       *)
(***************************************************************************)
EXTENDS Integers, FiniteSets, Sequences, SequencesExt

CONSTANTS
    Facts,       \* graph predicates that may fail in this instance
    Keys,        \* signing keys the engine may be opened with
    MaxEntries,  \* entries ever written to the two logs
    MaxIssued,   \* receipts issued
    None

VARIABLES
    store,       \* the database: logs, facts, packet watermark, damage
    copy,        \* a copy of the database kept aside, or None
    key,         \* the key the engine is opened with
    fresh,       \* entries written so far, in this or an abandoned database
    receipts     \* receipts issued

vars == <<store, copy, key, fresh, receipts>>

(* ------------------------------ the decision ---------------------------- *)

\* The project's own entries; each one carries its place in the log.
Own(log) == {e \in ToSet(log) : e.own}

PacketCurrent(s) ==
    /\ s.packet # None
    /\ s.packet.seen = Own(s.events)
    /\ s.packet.basis = s.facts
    /\ "audit_log" \notin s.damaged

\* _continuity_predicates: what holds, by name.
Predicates(s) ==
    {p \in {"critical_invalidations_empty", "human_approvals_complete",
            "authority_conflicts_empty", "active_proof_failures_empty",
            "required_verifiers_current", "revision_frontier_decidable"} : p \notin s.facts}
    \cup (IF PacketCurrent(s) THEN {"resume_packet_current"} ELSE {})
    \cup (IF s.damaged = {} THEN {"integrity_chains_intact"} ELSE {})

AllPredicates ==
    {"critical_invalidations_empty", "human_approvals_complete", "authority_conflicts_empty",
     "active_proof_failures_empty", "required_verifiers_current",
     "revision_frontier_decidable", "resume_packet_current", "integrity_chains_intact"}

\* Bug: a verifier that never ran does not fail the check.
MutContinuityConclusion(held) ==
    IF ~({"revision_frontier_decidable", "integrity_chains_intact"} \subseteq held)
    THEN "cancelled"
    ELSE IF ~({"critical_invalidations_empty", "authority_conflicts_empty",
               "human_approvals_complete"} \subseteq held)
    THEN "action_required"
    ELSE IF "active_proof_failures_empty" \notin held THEN "failure"
    ELSE IF "resume_packet_current" \in held THEN "success" ELSE "neutral"

\* continuity_conclusion, _continuity_decision
ContinuityConclusion(held) ==
    IF ~({"revision_frontier_decidable", "integrity_chains_intact"} \subseteq held)
    THEN "cancelled"
    ELSE IF ~({"critical_invalidations_empty", "authority_conflicts_empty",
               "human_approvals_complete"} \subseteq held)
    THEN "action_required"
    ELSE IF ~({"active_proof_failures_empty", "required_verifiers_current"} \subseteq held)
    THEN "failure"
    ELSE IF "resume_packet_current" \in held THEN "success" ELSE "neutral"

DecisionState(s) ==
    [facts |-> s.facts, packet |-> s.packet, damaged |-> s.damaged, held |-> Predicates(s)]

Checkpoint(log) == [count |-> Len(log), tip |-> IF log = << >> THEN None ELSE Last(log)]

\* Bug: the whole log, other projects' entries included.
MutFrontier(s) == [state |-> DecisionState(s), events |-> ToSet(s.events)]

\* The part of the basis that must still be the live one.
Frontier(s) == [state |-> DecisionState(s), events |-> Own(s.events)]

(* ------------------------------ operations ------------------------------ *)

Init ==
    /\ store = [events |-> << >>, audits |-> << >>, facts |-> {}, packet |-> None, damaged |-> {}]
    /\ copy = None /\ key \in Keys /\ fresh = 0 /\ receipts = {}

\* An event of this project, or of another one in the same store; its facts.
AppendEvent(own, facts) ==
    /\ fresh < MaxEntries
    /\ fresh' = fresh + 1
    /\ store' = [store EXCEPT !.events = Append(@, [id |-> fresh, own |-> own]), !.facts = facts]
    /\ UNCHANGED <<copy, key, receipts>>

\* A ruling or policy change that is audited and leaves no event.
Rule(facts) ==
    /\ fresh < MaxEntries
    /\ fresh' = fresh + 1
    /\ store' = [store EXCEPT !.audits = Append(@, fresh), !.facts = facts]
    /\ UNCHANGED <<copy, key, receipts>>

\* resume_packet: the packet and the audited watermark of what it was made from.
Compose ==
    /\ fresh < MaxEntries
    /\ fresh' = fresh + 1
    /\ store' = [store EXCEPT !.audits = Append(@, fresh),
                              !.packet = [id |-> fresh, basis |-> store.facts,
                                          seen |-> Own(store.events)]]
    /\ UNCHANGED <<copy, key, receipts>>

\* continuity_check: one read snapshot, signed; the store is left alone.
ContinuityCheck ==
    /\ Cardinality(receipts) < MaxIssued
    /\ receipts' = receipts \cup
        {[key |-> key, decision |-> ContinuityConclusion(Predicates(store)),
          held |-> Predicates(store), state |-> DecisionState(store), basis |-> Frontier(store),
          event_log |-> Checkpoint(store.events), audit_log |-> Checkpoint(store.audits),
          \* not in the receipt: the logs as they were
          logs |-> <<store.events, store.audits>>]}
    /\ UNCHANGED <<store, copy, key, fresh>>

Damage(log) ==
    /\ store' = [store EXCEPT !.damaged = @ \cup {log}]
    /\ UNCHANGED <<copy, key, fresh, receipts>>

CopyAside ==
    /\ copy' = store
    /\ UNCHANGED <<store, key, fresh, receipts>>

RestoreCopy ==
    /\ copy # None
    /\ store' = copy
    /\ UNCHANGED <<copy, key, fresh, receipts>>

OpenWith(k) ==
    /\ key' = k
    /\ UNCHANGED <<store, copy, fresh, receipts>>

Next ==
    \/ \E facts \in SUBSET Facts : AppendEvent(TRUE, facts) \/ Rule(facts)
    \/ AppendEvent(FALSE, store.facts)
    \/ Compose \/ ContinuityCheck \/ CopyAside \/ RestoreCopy
    \/ \E log \in {"events", "audit_log"} : Damage(log)
    \/ \E k \in Keys : OpenWith(k)

Spec == Init /\ [][Next]_vars

(* --------------------------- verifying a receipt ------------------------ *)

\* Bug: the log only has to be as long as the checkpoint says.
MutCheckpointIsPrefix(log, c) == c.count <= Len(log)

\* _chain_checkpoint_is_prefix
CheckpointIsPrefix(log, c) ==
    IF c.count = 0 THEN c.tip = None ELSE c.count <= Len(log) /\ log[c.count] = c.tip

\* _receipt_semantics_valid: decision, partition and predicates follow from the
\* receipt's own state, and its checkpoints are prefixes of the logs.
SemanticsValid(r, s) ==
    /\ r.basis.state = r.state /\ r.held = r.state.held
    /\ r.decision = ContinuityConclusion(r.held)
    /\ CheckpointIsPrefix(s.events, r.event_log)
    /\ CheckpointIsPrefix(s.audits, r.audit_log)

\* _receipt_authenticator_valid: signed with the key this engine holds.
AuthenticatorValid(r) == r.key = key

\* verify_continuity_receipt, on the database s
Verdict(r, s) ==
    IF ~(AuthenticatorValid(r) /\ SemanticsValid(r, s)) THEN "INVALID"
    ELSE IF r.basis # Frontier(s) \/ r.decision # ContinuityConclusion(Predicates(s))
    THEN "AUTHENTIC_HISTORICAL"
    ELSE "CURRENT"

(* ------------------------------ properties ------------------------------ *)

\* continuity_check's flip conditions: success is reached by fixing all of the
\* blockers of the receipt and by no fewer of them.
FlipsAreExact ==
    \A r \in receipts : \A fixed \in SUBSET (AllPredicates \ r.held) :
        (ContinuityConclusion(r.held \cup fixed) = "success")
            <=> (r.held \cup fixed = AllPredicates)

\* verify_continuity_receipt: under the key that signed it a receipt is refused
\* exactly when the logs it was issued on are not the beginning of today's logs,
\* however far a restored database has grown since.
RefusedExactlyOffLineage ==
    \A r \in receipts :
        (Verdict(r, store) # "INVALID") <=> /\ r.key = key
                                     /\ IsPrefix(r.logs[1], store.events)
                                     /\ IsPrefix(r.logs[2], store.audits)

\* continuity_check, "an unrelated project append does not stale this project's
\* decision": an event of another project would change no verdict.
UnrelatedAppendHarmless ==
    LET grown == [store EXCEPT !.events = Append(@, [id |-> fresh, own |-> FALSE])]
    IN  \A r \in receipts : Verdict(r, grown) = Verdict(r, store)

\* A receipt is worth what it was issued on.
ReceiptsExact == FlipsAreExact /\ RefusedExactlyOffLineage /\ UnrelatedAppendHarmless
=============================================================================
