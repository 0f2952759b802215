---------------------------- MODULE MCDocuments ----------------------------
(***************************************************************************)
(* Documents for TLC, with the proof envelopes that leave the engine and   *)
(* come back.  In each behaviour one part moves and the others rest in an  *)
(* initial state; the envelopes that travel and those that record every    *)
(* combination of results share their variables.                           *)
(***************************************************************************)
EXTENDS Documents, TLC

VARIABLES part, outcomes, tasks, commitments, envelope, scheme, minted, registry, signed

envelopeVars == <<outcomes, tasks, commitments, envelope, scheme, minted, registry, signed>>

all == <<part, vars, gradeVars, receiptVars, envelopeVars>>

MCFacts == {"required_verifiers_current"}

\* Documents that are edited, resealed and signed again on their way.
Travelling == INSTANCE ProofEnvelope WITH
    Verifiers <- {"v", "w"}, Results <- {"passed", "failed"},
    Sources <- {"executed", "self_asserted"}, Tasks <- {"task"},
    MaxOutcomes <- 2, MaxEdits <- 1, MaxKeys <- 2

\* Every combination of results an envelope may record.
Recorded == INSTANCE ProofEnvelope WITH
    Verifiers <- {"v", "w"},
    Results <- {"passed", "failed", "skipped", "stale", "inconclusive", "missing"},
    Sources <- {"executed", "self_asserted"}, Tasks <- {},
    MaxOutcomes <- 2, MaxEdits <- 0, MaxKeys <- 0

(* ----------------------------- specification ---------------------------- *)

\* One world of each kind: checks, files with the same readers, and the reads of a
\* check nothing is concluded from are interchangeable.
MCWorlds ==
    {w \in Grade!Worlds :
        /\ w.declared # {"g"}
        /\ <<w.manner["d"], w.manner["c"]>>
             \notin {<<"strict", "crash">>, <<"strict", "flaky">>, <<"crash", "flaky">>}
        /\ \A c \in Checks : w.manner[c] = "flaky" => w.reads[c] = {}}

MCInit ==
    /\ part \in {"capsule", "grade", "receipt", "travelling", "recorded"}
    /\ world \in IF part = "grade" THEN MCWorlds ELSE {CHOOSE w \in MCWorlds : TRUE}
    /\ signer = "k" /\ key = "k"
    /\ part \in {"travelling", "recorded"} \/ scheme = "hmac"
    /\ Init /\ Grade!Init /\ Receipt!Init /\ Travelling!Init
    /\ part # "capsule" => live.environment

\* The importers are interchangeable, so x imports first; in two writes an assumption
\* reaches two of its three doubtful standings, which nothing tells apart.
FirstImporter ==
    /\ pending["x"] = None /\ pending["y"] = None => pending'["y"] = None
    /\ live'.assumptions["a"] # "unmeasured"

\* A key that was replaced before it signed anything is the key it was replaced by.
SignedFirst == signer' # signer => receipts # {}

\* The verifiers are interchangeable.
FirstVerifier == outcomes' # << >> => outcomes'[1].verifier = "v"

\* The signature block is rewritten on documents of at most one outcome.
BlockOfShort ==
    envelope' # None =>
        (envelope'.signature.ownKeyId /\ envelope'.signature.lowerCase) \/ Len(outcomes) <= 1

MCNext ==
    /\ \/ /\ part = "capsule" /\ Next /\ FirstImporter
          /\ UNCHANGED <<gradeVars, receiptVars, envelopeVars>>
       \/ part = "grade" /\ Grade!Next /\ UNCHANGED <<vars, receiptVars, envelopeVars>>
       \/ part = "receipt" /\ Receipt!Next /\ SignedFirst /\ UNCHANGED <<vars, gradeVars, envelopeVars>>
       \/ /\ \/ part = "travelling" /\ Travelling!Next
             \/ part = "recorded" /\ Recorded!Next
          /\ FirstVerifier /\ BlockOfShort /\ UNCHANGED <<vars, gradeVars, receiptVars>>
    /\ UNCHANGED part

MCSpec == MCInit /\ [][MCNext]_all

(* ------------------------------ properties ------------------------------ *)

\* verify_envelope, verify_proof.verify, _worst: the two verifiers agree, only what
\* the issuer signed is accepted, and a later green run retracts no failure.
VerdictsSound ==
    /\ part = "travelling" => Travelling!VerdictsSound
    /\ part = "recorded" => Recorded!VerdictsSound
=============================================================================
