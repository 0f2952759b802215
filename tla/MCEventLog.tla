----------------------------- MODULE MCEventLog -----------------------------
(***************************************************************************)
(* EventLog for TLC, in three scenarios; a behaviour belongs to one.       *)
(*   log:      deliveries to two scopes, of two bodies that redaction      *)
(*             stores alike;                                               *)
(*   anchored: deliveries to two scopes, and anchors exported meanwhile;   *)
(*   evidence: puts of one blob race its deletion, with a second audit row *)
(*             to be lost or chained wrongly.                              *)
(***************************************************************************)
EXTENDS EventLog, TLC

CONSTANTS p1, p2, body1, body2, s1, s2

VARIABLE scenario

MCCapture == [c \in Contents |-> "redacted"]

Symmetry == Permutations({p1, p2})

Log == INSTANCE EventLog WITH Metas <- {}, MaxAudit <- 1, MaxAnchors <- 0

Anchored == INSTANCE EventLog WITH Contents <- {body1}, Metas <- {}, MaxAudit <- 1

Evidence == INSTANCE EventLog WITH
    Scopes <- {s1}, Contents <- {body1}, MaxEvents <- 1, MaxAnchors <- 0

MCInit ==
    \/ scenario = "log" /\ Log!Init
    \/ scenario = "anchored" /\ Anchored!Init
    \/ scenario = "evidence" /\ Evidence!Init

MCNext ==
    /\ \/ scenario = "log" /\ Log!Next
       \/ scenario = "anchored" /\ Anchored!Next
       \/ scenario = "evidence" /\ Evidence!Next
    /\ UNCHANGED scenario

MCSpec == MCInit /\ [][MCNext]_<<scenario, vars>>
=============================================================================
