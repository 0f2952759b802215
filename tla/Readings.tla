------------------------------ MODULE Readings ------------------------------
(***************************************************************************)
(* What the engine reads while others write: the answers of an MCP session *)
(* (McpSession, extended here), the state behind a resume packet and a     *)
(* recovery packet, and the artifacts it digests and copies.  The parts    *)
(* share no state.  In a behaviour one of them moves and the others rest   *)
(* in an initial state, so that every behaviour is one of each part.       *)
(***************************************************************************)
EXTENDS McpSession

CONSTANTS
    N, Kind, Scope, Echo, Statuses, Provenanced, Budgets, MaxSteps,  \* Packets
    Texts, MaxNodes, MaxVersions,                                    \* Recovery
    Modes, Shapes, MaxEdits, MaxEntries                              \* ArtifactSnapshot

VARIABLES
    part,                                                                      \* the part that moves
    node, tier, grant, files, seq, pending, work, scope, mark, issued, steps,  \* Packets
    nodes, rows, reading, packet,                                              \* Recovery
    disk, edits, reader, round, first, held, past                              \* ArtifactSnapshot

Packet == INSTANCE Packets
Recover == INSTANCE Recovery WITH MaxWrites <- MaxVersions
Snapshot == INSTANCE ArtifactSnapshot WITH r <- reader

packetVars == <<node, tier, grant, files, seq, pending, work, scope, mark, issued, steps>>
recoverVars == <<nodes, rows, reading, packet>>
snapshotVars == <<disk, edits, reader, round, first, held, past>>

all == <<part, vars, packetVars, recoverVars, snapshotVars>>

\* A missing commit is no commit.
ASSUME NoneOK == None \notin Nat

\* A node's text is in itself; a control is active or has been taken down; every
\* node has a status to start in.
ASSUME PacketsOK ==
    /\ N \in Nat
    /\ Budgets \subseteq [tokens: Int, bytes: Int]
    /\ \A n \in Packet!Nodes : n \in Echo[n]
    /\ Statuses["control"] \subseteq {"active"} \cup Packet!Down \cup Packet!Retired
    /\ \A n \in Packet!Nodes : Statuses[Kind[n]] \cap {"active", "open", "recorded"} # {}

\* A part that does not move rests in one of its initial states.
ReadingsInit ==
    /\ part \in {"mcp", "packet", "recovery", "snapshot"}
    /\ Init /\ Packet!Init /\ Recover!Init /\ Snapshot!Init
    /\ part # "packet" => scope = Packet!Project
    /\ part # "snapshot" =>
          /\ disk = Snapshot!InitialDisk(CHOOSE s \in Shapes : TRUE)
          /\ reader = Snapshot!Starting(CHOOSE m \in Modes : TRUE)

ReadingsNext ==
    /\ \/ part = "mcp" /\ Next /\ UNCHANGED <<packetVars, recoverVars, snapshotVars>>
       \/ part = "packet" /\ Packet!Next /\ UNCHANGED <<vars, recoverVars, snapshotVars>>
       \/ part = "recovery" /\ Recover!Next /\ UNCHANGED <<vars, packetVars, snapshotVars>>
       \/ part = "snapshot" /\ Snapshot!Next /\ UNCHANGED <<vars, packetVars, recoverVars>>
    /\ UNCHANGED part

ReadingsSpec == ReadingsInit /\ [][ReadingsNext]_all

(* ------------------------------ properties ------------------------------ *)

\* packet_is_stale: a packet said to be current is what would be composed now.
CurrentMeansCurrent == Packet!CurrentMeansCurrent

\* compose, _strip_quarantined, _l0_is_binding: budgets drop nothing mandatory,
\* nothing quarantined leaves, and what is pinned binds only while it stands.
PacketsComplete == [][Packet!PacketsComplete]_packetVars

\* recovery_packet: nothing quarantined leaves, though the reads are torn.
PacketIsClean == Recover!PacketIsClean

\* _snapshot_artifact, _artifact_digests: every entry digested was there, a plain
\* artifact is of one moment, and two snapshots that agree saw one state.
SnapshotsExact == Snapshot!SnapshotsExact
=============================================================================
