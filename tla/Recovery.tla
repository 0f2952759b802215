------------------------------ MODULE Recovery ------------------------------
(***************************************************************************)
(* Partial progress: checkpoints, run outcomes, rollbacks and quarantine,  *)
(* and the recovery packet that says where to resume.  The packet is read  *)
(* query by query, outside any transaction, while other connections write. *)
(*                                                                         *)
(* Every write makes a new version of a node with a new row; the graph     *)
(* lists current nodes by row.  What a node says is a member of Texts, and *)
(* two nodes may say the same.  Runs that report a failure mode, and the   *)
(* packet's list of verifier gaps, are left out.                           *)
(***************************************************************************)
EXTENDS Integers, Sequences

CONSTANTS
    Texts,       \* what nodes say
    MaxNodes,    \* nodes created
    MaxWrites,   \* versions written
    None

VARIABLES
    nodes,       \* nodes in the order of their creation
    rows,        \* rows written
    reading,     \* the recovery packet being put together, or None
    packet       \* the last one issued, or None

vars == <<nodes, rows, reading, packet>>

Ids == DOMAIN nodes
Of(kind) == {n \in Ids : nodes[n].kind = kind}
Last(S) == CHOOSE n \in S : \A m \in S : nodes[m].row <= nodes[n].row

(* -------------------------------- writes -------------------------------- *)

Put(kind, status, text) ==
    /\ Len(nodes) < MaxNodes /\ rows < MaxWrites
    /\ rows' = rows + 1
    /\ nodes' = Append(nodes, [kind |-> kind, status |-> status, text |-> text,
                               row |-> rows + 1])
    /\ UNCHANGED <<reading, packet>>

Version(n, status, text) ==
    /\ rows < MaxWrites
    /\ rows' = rows + 1
    /\ nodes' = [nodes EXCEPT ![n].status = status, ![n].text = text, ![n].row = rows + 1]
    /\ UNCHANGED <<reading, packet>>

Become(n, status) == Version(n, status, nodes[n].text)

Checkpoint(verified, text) ==
    Put("checkpoint", IF verified THEN "verified" ELSE "unverified", text)

\* A run's outcome: the text is the step that failed.
RecordOutcome(failed) == Put("outcome", "failed", failed)

\* The rollback is an action of its own and leaves what it compensates alone.
RecordRollback(text) == Put("action", "rollback_completed", text)

\* A task is opened, and verified when its completion passes the gate.
Open(text) == Put("task", "open", text)
Finish(n) == nodes[n].kind = "task" /\ nodes[n].status = "open" /\ Become(n, "verified")

Quarantine(n) == nodes[n].status # "quarantined" /\ Become(n, "quarantined")

\* memory.correct: new content, the status it had.
Correct(n, text) == nodes[n].kind # "outcome" /\ Version(n, nodes[n].status, text)

\* An invalidation reaches the node, and its resolution restores it.
Strike(n) == nodes[n].status = "verified" /\ Become(n, "stale")
Restore(n) == nodes[n].status = "stale" /\ Become(n, "verified")

(* -------------------------- the recovery packet ------------------------- *)

Unwritten == UNCHANGED <<nodes, rows>>

Kept == {n \in Ids : nodes[n].status = "verified"
                     /\ nodes[n].kind \in {"task", "checkpoint", "action"}}

Remaining == {n \in Of("task") : nodes[n].status = "open"}

Telling(S) == {nodes[n].text : n \in S}

\* The last outcome, by row; a status that is no run outcome refuses the packet.
ReadOutcome ==
    /\ reading = None
    /\ LET all == Of("outcome")
           last == IF all = {} THEN {} ELSE {Last(all)}
       IN /\ \A n \in last : nodes[n].status = "failed"
          /\ reading' = [step |-> "checkpoint", checkpoint |-> None, names |-> {},
                         says |-> Telling(last)]
    /\ UNCHANGED packet /\ Unwritten

\* last_safe_checkpoint: the last verified one, by row.
LastSafeCheckpoint ==
    LET safe == {n \in Of("checkpoint") : nodes[n].status = "verified"}
    IN IF safe = {} THEN None ELSE Last(safe)

Reads(step, next, S, checkpoint) ==
    /\ reading # None /\ reading.step = step
    /\ reading' = [step |-> next, checkpoint |-> checkpoint, names |-> reading.names \cup S,
                   says |-> reading.says \cup Telling(S)]
    /\ UNCHANGED packet /\ Unwritten

ReadCheckpoint ==
    Reads("checkpoint", "tasks", {LastSafeCheckpoint} \ {None}, LastSafeCheckpoint)

ReadTasks == Reads("tasks", "verified", Remaining, reading.checkpoint)

ReadVerified == Reads("verified", "check", Kept, reading.checkpoint)

\* The content of an outcome is structured, and the check matches plain texts.
Plain(n) == nodes[n].kind # "outcome"

\* Bug: the nodes the packet names are checked, the texts it repeats are not.
MutQuarantineFree ==
    \A n \in Ids : nodes[n].status = "quarantined" => n \notin reading.names

\* _require_quarantine_free over the whole packet: no quarantined node is
\* named and no plain text of one is repeated.
QuarantineFree ==
    \A n \in Ids : nodes[n].status = "quarantined" =>
        n \notin reading.names /\ (Plain(n) => nodes[n].text \notin reading.says)

Issue ==
    /\ reading # None /\ reading.step = "check"
    /\ packet' = IF QuarantineFree
                 THEN [names |-> reading.names, says |-> reading.says, at |-> rows]
                 ELSE packet
    /\ reading' = None
    /\ Unwritten

(* ----------------------------- specification ---------------------------- *)

Init ==
    /\ nodes = <<>>
    /\ rows = 0
    /\ reading = None
    /\ packet = None

Next ==
    \/ \E verified \in BOOLEAN, text \in Texts : Checkpoint(verified, text)
    \/ \E text \in Texts : RecordOutcome(text) \/ RecordRollback(text) \/ Open(text)
    \/ \E n \in Ids : Quarantine(n) \/ Strike(n) \/ Restore(n) \/ Finish(n)
    \/ \E n \in Ids, text \in Texts : Correct(n, text)
    \/ ReadOutcome \/ ReadCheckpoint \/ ReadTasks \/ ReadVerified \/ Issue

Spec == Init /\ [][Next]_vars

(* ------------------------------ properties ------------------------------ *)

\* A recovery packet, at the moment it is issued, neither names a node that
\* is quarantined nor repeats a plain text of one, though the queries behind
\* it ran before the quarantine and the text may have come by way of another
\* node that says the same (partial.py recovery_packet).
PacketIsClean ==
    packet # None /\ packet.at = rows =>
        \A n \in Ids : nodes[n].status = "quarantined" =>
            n \notin packet.names /\ (Plain(n) => nodes[n].text \notin packet.says)

\* The checkpoint to resume from is the latest one that is safe: no safe
\* checkpoint was created after it (docs/REQUIREMENTS.md:32).
LatestSafeCheckpoint ==
    LastSafeCheckpoint # None =>
        \A n \in Of("checkpoint") : nodes[n].status = "verified" => n <= LastSafeCheckpoint
=============================================================================
