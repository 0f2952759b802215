---------------------------- MODULE MCIngestion -----------------------------
(* Ingestion for TLC: three deliveries to one project, one to another.     *)
EXTENDS Ingestion, TLC

CONSTANTS p1, p2, e1, e2, e3, e4

MCProjectOf == [e \in Events |-> IF e = e4 THEN "other" ELSE "main"]

\* A raise before the order rule and one behind it, next to what projects; the
\* flaky delivery does what a poisoned one does, and may succeed as well.
MCKindOf == [e \in Events |-> IF e = e1 THEN "flaky" ELSE IF e = e2 THEN "malformed"
                              ELSE IF e = e3 THEN "text" ELSE "hook"]

\* One delivery is poisoned, the other is sound.
MCPoisonedKindOf == [e \in Events |-> IF e = e2 THEN "poison" ELSE "text"]

\* Nothing in the payload makes processing raise.
MCSoundKindOf == [e \in Events |-> IF e = e1 THEN "text" ELSE "hook"]

Symmetry == Permutations({p1, p2})
=============================================================================
