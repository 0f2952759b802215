----------------------------- MODULE Documents ------------------------------
(***************************************************************************)
(* What the engine vouches for: capsules (Capsule, extended here), the     *)
(* grade of the evidence it collects, and continuity receipts.  Receipts   *)
(* are signed with any of the keys that capsules are.                      *)
(***************************************************************************)
EXTENDS Capsule

CONSTANTS
    Checks, Files, MaxEdits,      \* EvidenceGrade
    Facts, MaxEntries, MaxIssued  \* Receipts

VARIABLES
    world, tree, edited, edits, pc, attested,  \* EvidenceGrade
    store, copy, signer, fresh, receipts       \* Receipts

Grade == INSTANCE EvidenceGrade WITH a <- attested

Receipt == INSTANCE Receipts WITH key <- signer

gradeVars == <<world, tree, edited, edits, pc, attested>>
receiptVars == <<store, copy, signer, fresh, receipts>>

\* A tree has finitely many files, and no grade is a missing one.
ASSUME TreeOK == IsFiniteSet(Files) /\ None \notin {"A", "B", "C", "D", "F"}

\* grade_evidence: at the floor, evidence is bound to the deliverables, and no good
\* observation lifts a cap.
GradesAreEarned == Grade!GradesAreEarned

\* continuity_check, verify_continuity_receipt: would-flip sets are exact, a receipt
\* is refused exactly off its own lineage, unrelated appends change no verdict.
ReceiptsExact == Receipt!ReceiptsExact
=============================================================================
