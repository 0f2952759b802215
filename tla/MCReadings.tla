---------------------------- MODULE MCReadings ----------------------------
(***************************************************************************)
(* Readings for TLC.  Packets: two controls, one scoped to task 2; two     *)
(* tasks, of which 5 quotes plan 4; a budget with room for everything and  *)
(* one with room for what is mandatory.                                    *)
(***************************************************************************)
EXTENDS Readings

MCKind == <<"control", "task", "control", "plan", "task">>

MCScope == <<{}, {}, {2}, {}, {}>>

MCEcho == <<{1}, {2}, {3}, {4}, {5, 4}>>

MCStatuses ==
    [control |-> {"active", "uncertain", "invalidated"}, task |-> {"open", "verified"},
     plan |-> {"active", "invalidated"}, claim |-> {"recorded"}]

MCBudgets == {[tokens |-> 100, bytes |-> 100], [tokens |-> 6, bytes |-> 7]}

\* An edit after the reader has given its answer, or has refused, changes nothing
\* the properties of a snapshot read.  And the first reading meets one edit: what
\* two do to a reading, the second reading shows after a first left in peace.
Watched == reader.pc # Snapshot!Failed /\ ~(reader.pc = "done" /\ round = 2) /\ edits < round

\* Only packet_is_stale reads the watermark, and only the newest: the last packet
\* recorded might as well be the first, composed with the room it asked for.
FirstMark == work = None => mark = None
Roomy == work.budget.bytes = 100

MCNext ==
    /\ ReadingsNext
    /\ edits' # edits => Watched
    /\ work' # work => FirstMark
    /\ mark' # mark => Roomy

MCSpec == ReadingsInit /\ [][MCNext]_all
=============================================================================
