--------------------------- MODULE ProofEnvelope ---------------------------
(***************************************************************************)
(* Proof envelopes as documents: the builder, the status it derives from   *)
(* recorded outcomes, signing with a shared secret or with one-time keys,  *)
(* and the two programs that read an envelope back: the engine's           *)
(* verify_envelope and the independent verifier of verifiers/.             *)
(*                                                                         *)
(* A digest or signature is the content it covers together with the key;   *)
(* a Lamport key is its own fingerprint and is minted for each signature.  *)
(* Nothing signs the signature block itself: its key_id, the fingerprint   *)
(* it declares and the spelling of its hex may change on the way.  Field   *)
(* shapes both programs refuse alike are left out.                         *)
(***************************************************************************)
EXTENDS Integers, FiniteSets, Sequences, SequencesExt

CONSTANTS
    Verifiers,    \* names of checks
    Results,      \* results an outcome may record
    Sources,      \* who observed it: "executed" or "self_asserted"
    Tasks,        \* tasks that may be linked
    MaxOutcomes,  \* outcomes in one envelope
    MaxEdits,     \* 0 or 1: edits of the body under way
    MaxKeys,      \* one-time keys ever minted
    None

VARIABLES
    outcomes,     \* verifications recorded in the draft, in order
    tasks,        \* task targets linked
    commitments,  \* tasks with an obligation commitment among the inputs
    envelope,     \* the document as it travels, or None before it is signed
    scheme,       \* the issuing engine's signer
    minted,       \* one-time keys minted so far, by the issuer or by others
    registry,     \* fingerprints the readers hold
    signed        \* what the issuer signed

vars == <<outcomes, tasks, commitments, envelope, scheme, minted, registry, signed>>

(* ------------------------------- the status ------------------------------ *)

Severity(r) ==
    CASE r = "failed" -> 0 [] r \in {"inconclusive", "stale"} -> 1
      [] r = "missing" -> 2 [] r = "skipped" -> 3 [] OTHER -> 4

Authoritative(o) == o.source = "executed"

\* Bug: the latest outcome of a verifier stands.
MutWorst(v, os) == Last(SelectSeq(os, LAMBDA o : Authoritative(o) /\ o.verifier = v)).result

\* _worst: of a verifier's authoritative outcomes the most severe stands, and of
\* equally severe ones the first.
Worst(v, os) ==
    LET mine == SelectSeq(os, LAMBDA o : Authoritative(o) /\ o.verifier = v)
        i == CHOOSE i \in DOMAIN mine :
                /\ \A j \in DOMAIN mine : Severity(mine[i].result) <= Severity(mine[j].result)
                /\ \A j \in 1..(i - 1) : Severity(mine[j].result) > Severity(mine[i].result)
    IN  mine[i].result

\* evaluate_status: the status and the summary, from the outcomes alone.
EvaluateStatus(os, required) ==
    LET ran == {v \in Verifiers : \E i \in DOMAIN os : Authoritative(os[i]) /\ os[i].verifier = v}
        claimed == {os[i].verifier : i \in {j \in DOMAIN os : ~Authoritative(os[j])}}
        of(S) == {v \in ran : Worst(v, os) \in S}
        mine(S) == IF required = {} THEN of(S) ELSE of(S) \cap required
        missing == (required \ ran) \cup (of({"missing"}) \cap required)
        skipped == of({"skipped"}) \cap required
        status == IF mine({"failed"}) # {} THEN "failed"
                  ELSE IF missing # {} \/ skipped # {} THEN "incomplete"
                  ELSE IF mine({"inconclusive", "stale"}) # {} THEN "inconclusive"
                  ELSE IF required # {} /\ required \subseteq of({"passed"}) THEN "verified"
                  ELSE IF required = {} /\ ran # {} /\ ran = of({"passed"}) THEN "verified"
                  ELSE "incomplete"
    IN  [status |-> status,
         summary |-> [unbacked |-> (required \cap claimed) \ ran, required |-> required,
                      missing |-> missing, failed |-> mine({"failed"}), skipped |-> skipped,
                      inconclusive |-> mine({"inconclusive", "stale"}),
                      passed |-> of({"passed"})]]

(* ------------------------------- the builder ----------------------------- *)

Init ==
    /\ outcomes = << >> /\ tasks = {} /\ commitments = {}
    /\ envelope = None /\ scheme \in {"hmac", "lamport"}
    /\ minted = 0 /\ registry = {} /\ signed = {}

Documents == <<envelope, scheme, minted, registry, signed>>

AddVerification(o) ==
    /\ envelope = None /\ Len(outcomes) < MaxOutcomes
    /\ outcomes' = Append(outcomes, o)
    /\ UNCHANGED <<tasks, commitments, Documents>>

\* set_continuity and add_input may come in either order.
SetContinuity(ts) ==
    /\ envelope = None /\ tasks # ts
    /\ tasks' = ts
    /\ UNCHANGED <<outcomes, commitments, Documents>>

AddInput(t) ==
    /\ envelope = None /\ t \notin commitments
    /\ commitments' = commitments \cup {t}
    /\ UNCHANGED <<outcomes, tasks, Documents>>

Body(required) ==
    [outcomes |-> outcomes, tasks |-> tasks, commitments |-> commitments,
     status |-> EvaluateStatus(outcomes, required).status,
     summary |-> EvaluateStatus(outcomes, required).summary]

\* Signer.sign, LamportSigner.sign: under the signer's own key_id, in lower-case hex.
\* A minted key is trusted where it was minted.
Signature(s, k, body) ==
    [scheme |-> s, covers |-> body, ownKeyId |-> TRUE, lowerCase |-> TRUE,
     key |-> IF s = "hmac" THEN "secret" ELSE k,
     declared |-> IF s = "hmac" THEN None ELSE k]

\* finalize: shape and exact obligation coverage are checked before signing.
Finalize(required) ==
    /\ envelope = None /\ commitments = tasks
    /\ envelope' = [body |-> Body(required), digest |-> Body(required),
                    signature |-> Signature(scheme, minted + 1, Body(required))]
    /\ signed' = {Body(required)}
    /\ minted' = IF scheme = "hmac" THEN minted ELSE minted + 1
    /\ registry' = IF scheme = "hmac" THEN registry ELSE registry \cup {minted + 1}
    /\ UNCHANGED <<outcomes, tasks, commitments, scheme>>

(* ------------------------ what may happen on the way --------------------- *)

Carried == <<outcomes, tasks, commitments, scheme, signed>>

\* Bodies somebody could make of the document.
Edits(b) ==
    {[b EXCEPT !.status = "verified"], [b EXCEPT !.outcomes = << >>],
     [b EXCEPT !.outcomes = SelectSeq(@, LAMBDA o : o.result = "passed")],
     [b EXCEPT !.tasks = {"other"}, !.commitments = {"other"}],
     [b EXCEPT !.outcomes = SelectSeq(@, LAMBDA o : o.result = "passed"),
               !.status = "verified",
               !.summary = EvaluateStatus(SelectSeq(b.outcomes, LAMBDA o : o.result = "passed"),
                                          b.summary.required).summary]}

\* The body is edited; the digest may be brought up to date with it.
Edit(b, resealed) ==
    /\ envelope # None /\ MaxEdits = 1 /\ envelope.body \in signed /\ b # envelope.body
    /\ envelope' = [envelope EXCEPT !.body = b, !.digest = IF resealed THEN b ELSE @]
    /\ UNCHANGED <<Carried, minted, registry>>

\* It is signed again with a new one-time key, under any declared fingerprint.
Resign(declared) ==
    /\ envelope # None /\ minted < MaxKeys
    /\ minted' = minted + 1
    /\ envelope' = [envelope EXCEPT
                        !.digest = envelope.body,
                        !.signature = [Signature("lamport", minted + 1, envelope.body)
                                        EXCEPT !.declared = declared]]
    /\ UNCHANGED <<Carried, registry>>

\* The declared fingerprint is dropped from the signature block.
Undeclare ==
    /\ envelope # None /\ envelope.signature.declared # None
    /\ envelope' = [envelope EXCEPT !.signature.declared = None]
    /\ UNCHANGED <<Carried, minted, registry>>

\* Another key_id is written into the signature block.
Rename ==
    /\ envelope # None /\ envelope.signature.ownKeyId
    /\ envelope' = [envelope EXCEPT !.signature.ownKeyId = FALSE]
    /\ UNCHANGED <<Carried, minted, registry>>

\* The same bytes are written in upper-case hex.
Respell ==
    /\ envelope # None /\ envelope.signature.lowerCase
    /\ envelope' = [envelope EXCEPT !.signature.lowerCase = FALSE]
    /\ UNCHANGED <<Carried, minted, registry>>

\* The process that minted the keys ends: its registry was in memory only.
Restart ==
    /\ registry # {}
    /\ registry' = {}
    /\ UNCHANGED <<Carried, envelope, minted>>

\* The operator registers the fingerprint of a key the issuer minted.
Register ==
    /\ scheme = "lamport" /\ minted > 0
    /\ registry' = registry \cup {1}
    /\ UNCHANGED <<Carried, envelope, minted>>

Next ==
    \/ \E v \in Verifiers, r \in Results, s \in Sources :
        AddVerification([verifier |-> v, result |-> r, source |-> s])
    \/ \E ts \in SUBSET Tasks : SetContinuity(ts)
    \/ \E t \in Tasks : AddInput(t)
    \/ \E required \in SUBSET Verifiers : Finalize(required)
    \/ envelope # None /\ \E b \in Edits(envelope.body), resealed \in BOOLEAN : Edit(b, resealed)
    \/ \E d \in 1..MaxKeys : Resign(d)
    \/ Undeclare \/ Rename \/ Respell \/ Restart \/ Register

Spec == Init /\ [][Next]_vars

(* ------------------------------- the engine ------------------------------ *)

\* Signer.verify: under its own key_id, the digits in lower case.
SecretMatches(e) ==
    e.signature.ownKeyId /\ e.signature.lowerCase /\ e.signature.covers = e.body

\* lamport.verify: of the blocks as they were decoded, which wants lower case.
BlocksMatch(e) == e.signature.lowerCase /\ e.signature.covers = e.body

\* Signer.verify, or LamportSigner.verify, which takes any key_id and wants a declared
\* fingerprint.
SignatureOk(e) ==
    /\ e.signature.scheme = scheme
    /\ IF scheme = "hmac" THEN SecretMatches(e)
       ELSE e.signature.declared # None /\ BlocksMatch(e)

\* Bug: the declared fingerprint is looked up, not the attached key's.
MutAuthentic(e) == scheme = "hmac" \/ e.signature.declared \in registry

\* The identity is derived from the attached key and must be registered.
Authentic(e) ==
    \/ scheme = "hmac"
    \/ /\ e.signature.declared # None => e.signature.declared = e.signature.key
       /\ e.signature.key \in registry

Sufficient(b) ==
    EvaluateStatus(b.outcomes, b.summary.required) = [status |-> b.status, summary |-> b.summary]

\* validate_envelope_shape: of the shape, one commitment for each task it names.
ShapeOk(b) == b.commitments = b.tasks

\* verify_envelope
EngineValid(e) ==
    /\ ShapeOk(e.body)
    /\ e.digest = e.body /\ SignatureOk(e) /\ Authentic(e) /\ Sufficient(e.body)

(* ------------------------- the independent verifier ---------------------- *)

\* Bug: the first outcome of a verifier stands.
MutWorstSoFar(os) ==
    [v \in Verifiers |->
        LET mine == SelectSeq(os, LAMBDA o : Authoritative(o) /\ o.verifier = v)
        IN  IF mine = << >> THEN None ELSE mine[1].result]

\* recompute_sufficiency: the worst result so far, outcome by outcome.
WorstSoFar(os) ==
    LET at[n \in 0..Len(os)] ==
            IF n = 0 THEN [v \in Verifiers |-> None]
            ELSE LET o == os[n] IN
                 IF Authoritative(o) /\ (at[n - 1][o.verifier] = None
                        \/ Severity(o.result) < Severity(at[n - 1][o.verifier]))
                 THEN [at[n - 1] EXCEPT ![o.verifier] = o.result]
                 ELSE at[n - 1]
    IN  at[Len(os)]

RecomputeSufficiency(os, required) ==
    LET worst == WorstSoFar(os)
        asserted == {os[i].verifier : i \in {j \in DOMAIN os : ~Authoritative(os[j])}}
        counts(v) == required = {} \/ v \in required
        unbacked == {v \in required : v \in asserted /\ worst[v] = None}
        missing == {v \in required : worst[v] \in {None, "missing"}}
        failed == {v \in Verifiers : worst[v] = "failed" /\ counts(v)}
        inconclusive == {v \in Verifiers : worst[v] \in {"inconclusive", "stale"} /\ counts(v)}
        skipped == {v \in required : worst[v] = "skipped"}
        passed == {v \in Verifiers : worst[v] = "passed"}
        status == CASE failed # {} -> "failed"
                    [] failed = {} /\ missing \cup skipped # {} -> "incomplete"
                    [] failed \cup missing \cup skipped = {} /\ inconclusive # {}
                        -> "inconclusive"
                    [] OTHER ->
                        IF \/ required # {} /\ \A v \in required : worst[v] = "passed"
                           \/ /\ required = {} /\ passed # {}
                              /\ \A v \in Verifiers : worst[v] \in {None, "passed"}
                        THEN "verified" ELSE "incomplete"
    IN  [status |-> status,
         summary |-> [unbacked |-> unbacked, required |-> required, missing |-> missing,
                      failed |-> failed, skipped |-> skipped, inconclusive |-> inconclusive,
                      passed |-> passed]]

\* check_signature: any key_id; bytes.fromhex takes either case where the HMAC's digits
\* are compared as text; without the secret an HMAC cannot be decided.
CheckSignature(e, secret) ==
    IF e.signature.scheme = "hmac" /\ ~secret THEN "SKIPPED"
    ELSE IF /\ e.signature.covers = e.body
            /\ e.signature.scheme = "hmac" => e.signature.lowerCase
         THEN "PASS" ELSE "FAIL"

\* check_authenticity
CheckAuthenticity(e, secret) ==
    IF CheckSignature(e, secret) # "PASS" THEN "SKIPPED"
    ELSE IF e.signature.scheme = "hmac" THEN "PASS"
    ELSE IF e.signature.declared \notin {None, e.signature.key} \/ e.signature.key \notin registry
    THEN "FAIL" ELSE "PASS"

\* check_shape
CheckShape(b) == b.commitments = b.tasks

CheckSufficiency(b) ==
    RecomputeSufficiency(b.outcomes, b.summary.required) = [status |-> b.status,
                                                           summary |-> b.summary]

\* verify, with no expected scope
StrangerVerdict(e, secret) ==
    LET c == {CheckSignature(e, secret), CheckAuthenticity(e, secret)}
    IN  IF "FAIL" \in c \/ ~CheckShape(e.body) \/ e.digest # e.body
                        \/ ~CheckSufficiency(e.body)
        THEN "INVALID"
        ELSE IF "SKIPPED" \in c THEN "UNVERIFIED"
        ELSE IF e.body.status # "verified" THEN "INCOMPLETE" ELSE "VALID"

(* -------------------------------- properties ----------------------------- *)

\* What the independent verifier has to say of an envelope the engine judged.
Expected(e) == IF ~EngineValid(e) THEN "INVALID"
               ELSE IF e.body.status = "verified" THEN "VALID" ELSE "INCOMPLETE"

\* What both programs read alike in a signature block of the issuer's scheme: nothing
\* signs these fields.
ReadAlike(signature) ==
    /\ signature.scheme = scheme
    /\ IF scheme = "hmac" THEN signature.ownKeyId
       ELSE signature.declared # None /\ signature.lowerCase

\* verify_envelope and verify_proof.verify: given the issuer's secret or the same
\* registry, the independent verifier confirms every document the engine accepts,
\* however its signature block is written; and but for a key_id that is not the
\* secret's, a fingerprint left out and one-time keys in upper case, the two programs
\* give one verdict on every document, whatever was edited or signed again.
VerdictsAgree ==
    (envelope # None /\ (EngineValid(envelope) \/ ReadAlike(envelope.signature)))
    => StrangerVerdict(envelope, TRUE) = Expected(envelope)

\* Signer.sign, verify_envelope: a document the engine accepts has the content the
\* issuer signed, whatever was edited, resealed or signed again on the way; and
\* without the secret nobody is told that an HMAC envelope is valid.
OnlyIssuedAccepted ==
    envelope # None =>
        /\ EngineValid(envelope) => envelope.body \in signed
        /\ StrangerVerdict(envelope, FALSE) \in {"VALID", "INCOMPLETE"}
            => envelope.body \in signed /\ envelope.signature.key \in registry

\* _worst: "a later green run does not retract it".  Whatever is required, no
\* outcome recorded later turns a failure into anything else.
FailureStands ==
    \A required \in SUBSET Verifiers : \A k \in DOMAIN outcomes :
        (EvaluateStatus(SubSeq(outcomes, 1, k), required).status = "failed")
            => (EvaluateStatus(outcomes, required).status = "failed")

\* A verdict is the issuer's, whoever reads it and whatever happened on the way.
VerdictsSound == VerdictsAgree /\ OnlyIssuedAccepted /\ FailureStands

\* SPEC.md:11 "so the two cannot silently drift apart": one verdict on every document
\* under the engine's scheme.  Not so when the block of an HMAC has another key_id, or
\* that of one-time keys is in upper case or declares no fingerprint: the independent
\* verifier accepts those and the engine does not.
NeverDriftApart ==
    (envelope # None /\ envelope.signature.scheme = scheme)
    => StrangerVerdict(envelope, TRUE) = Expected(envelope)
=============================================================================
