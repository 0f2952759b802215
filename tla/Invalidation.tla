---------------------------- MODULE Invalidation ----------------------------
(***************************************************************************)
(* Invalidation as belief revision (invalidation.py).  Firing an           *)
(* invalidation on a node lowers the status of the node and of what        *)
(* depends on it, and writes a receipt of what each status was.  Several   *)
(* invalidations may hold the same node.  Confirming opens one that waits  *)
(* for a human; resolving or rejecting one gives back the nodes that no    *)
(* other open invalidation holds.  Each operation is one Store transaction. *)
(*                                                                         *)
(* Which nodes depend on a target, and how strongly, is Dependents; here   *)
(* Impact is the class that classify gives each of them at full trigger    *)
(* confidence.                                                             *)
(***************************************************************************)
EXTENDS Integers, Sequences, FiniteSets, SequencesExt

CONSTANTS
    Nodes,
    Assumptions,   \* the nodes with a restricted lifecycle; others are tasks
    Critical,      \* nodes of criticality critical
    Impact,        \* Impact[t][n]: what invalidating t means for n
    Invs,          \* invalidation identities, each fired at most once
    Gates,         \* the requires_human values that callers give
    Suspects,      \* the nodes that somebody may quarantine
    None

Impacts == {"none", "valid", "review_required", "blocked"}

ASSUME InvalidationAssumption ==
    /\ Assumptions \subseteq Nodes
    /\ Critical \subseteq Nodes
    /\ Impact \in [Nodes -> [Nodes -> Impacts]]
    /\ \A n \in Nodes : Impact[n][n] = "none"
    /\ Gates \subseteq BOOLEAN
    /\ Suspects \subseteq Nodes
    /\ None \notin Nodes

VARIABLES
    status,      \* the current status of each node
    withdrawn,   \* nodes whose human authority was revoked: may_mandate fails
    quarantined, \* nodes that were ever quarantined; no operation reads it
    inv,         \* the invalidation nodes
    opened,      \* the open ones, in the order their current rows were written
    downgraded   \* an autonomy downgrade is in force

vars == <<status, withdrawn, quarantined, inv, opened, downgraded>>

Standing == {"active", "open", "verified"}

Statuses == Standing \cup
    {"uncertain", "blocked", "invalidated", "superseded", "resolved", "revoked",
     "quarantined"}

\* ASSUMPTION_TRANSITIONS, for the statuses that occur here.
AssumptionTransitions ==
    [s \in Statuses |->
        CASE s = "active" -> {"uncertain", "invalidated", "superseded", "resolved"}
          [] s = "uncertain" -> {"active", "invalidated", "superseded", "resolved"}
          [] s = "invalidated" -> {"resolved", "superseded"}
          [] s = "resolved" -> {"invalidated", "uncertain", "superseded"}
          [] OTHER -> {}]

\* Mutated: the lifecycle of assumptions is not consulted.
MutMayBecome(n, from, to) == TRUE

\* _transition's guard: only assumptions can refuse a change of status.
MayBecome(n, from, to) ==
    n \in Assumptions /\ from # to => to \in AssumptionTransitions[from]

\* A receipt: what the invalidation does to the node, the status the node had,
\* the one to give back, and whether it changed anything.
Receipt == [impact: Impacts \cup {"target"}, restore: Statuses \cup {None},
            applied: BOOLEAN]

NoReceipt == [impact |-> "none", restore |-> None, applied |-> FALSE]

Invalidations ==
    [state: {"unfired", "pending", "open", "resolved", "rejected"},
     target: Nodes \cup {None}, receipts: [Nodes -> Receipt], critical: BOOLEAN]

Unfired == [state |-> "unfired", target |-> None,
            receipts |-> [n \in Nodes |-> NoReceipt], critical |-> FALSE]

Init ==
    /\ status = [n \in Nodes |-> IF n \in Assumptions THEN "active" ELSE "open"]
    /\ withdrawn = {}
    /\ quarantined = {}
    /\ inv = [i \in Invs |-> Unfired]
    /\ opened = << >>
    /\ downgraded = FALSE

-----------------------------------------------------------------------------
(* Receipts.                                                               *)

\* Mutated: the receipt records whatever the status is now.
MutHeldRestore(st, n) == st[n]

\* _held_restore_status: the first open invalidation that names the node
\* carries the status to restore; without one it is the current status.
HeldRestore(st, n) ==
    LET naming == {k \in DOMAIN opened : inv[opened[k]].receipts[n].impact # "none"}
    IN  IF naming = {} THEN st[n] ELSE inv[opened[Min(naming)]].receipts[n].restore

\* classify; a weak trigger, or a human gate, never blocks.
ImpactOf(t, n, weak) ==
    IF weak /\ Impact[t][n] = "blocked" THEN "review_required" ELSE Impact[t][n]

Receipts(st, t, weak) ==
    [n \in Nodes |->
        IF n # t /\ Impact[t][n] = "none" THEN NoReceipt
        ELSE [impact |-> IF n = t THEN "target" ELSE ImpactOf(t, n, weak),
              restore |-> HeldRestore(st, n),
              applied |-> FALSE]]

\* The status an impact asks for; _apply_impact never blocks an assumption.
Asked(n, impact) ==
    CASE impact = "target" -> "invalidated"
      [] impact = "blocked" /\ n \notin Assumptions -> "blocked"
      [] OTHER -> "uncertain"

Acts(r) == r.impact \in {"target", "review_required", "blocked"}

\* The statuses after the impacts are applied, where the lifecycle allows.
Applied(st, rs) ==
    [n \in Nodes |->
        IF Acts(rs[n]) /\ MayBecome(n, st[n], Asked(n, rs[n].impact))
        THEN Asked(n, rs[n].impact) ELSE st[n]]

\* impact_applied says that the status really changed.
Witnessed(st, rs) ==
    [n \in Nodes |->
        IF Acts(rs[n]) THEN [rs[n] EXCEPT !.applied = Applied(st, rs)[n] # st[n]]
        ELSE rs[n]]

\* _severity: critical from the target, or from three blocked dependents.
IsCritical(t, rs) ==
    t \in Critical \/ Cardinality({n \in Nodes : rs[n].impact = "blocked"}) >= 3

-----------------------------------------------------------------------------
(* fire                                                                    *)

\* From statuses st.  Behind the human gate only the record is written.
FireFrom(st, i, t, human, weak) ==
    LET rs == Receipts(st, t, human \/ weak) IN
    /\ inv[i].state = "unfired"
    /\ inv' = [inv EXCEPT ![i] =
                  [state |-> IF human THEN "pending" ELSE "open", target |-> t,
                   receipts |-> IF human THEN rs ELSE Witnessed(st, rs),
                   critical |-> IsCritical(t, rs)]]
    /\ status' = IF human THEN st ELSE Applied(st, rs)
    /\ opened' = IF human THEN opened ELSE Append(opened, i)
    /\ downgraded' = (downgraded \/ IsCritical(t, rs))

Fire(i, t, human, weak) ==
    /\ FireFrom(status, i, t, human, weak)
    /\ UNCHANGED <<withdrawn, quarantined>>

\* The revoke decision: close the node and fire an expired_approval at full
\* confidence, in the same transaction.
Revoke(i, n) ==
    /\ n \notin withdrawn
    /\ n \notin Assumptions
    /\ withdrawn' = withdrawn \cup {n}
    /\ FireFrom([status EXCEPT ![n] = "revoked"], i, n, FALSE, FALSE)
    /\ UNCHANGED quarantined

-----------------------------------------------------------------------------
(* confirm                                                                 *)

Accept(i) ==
    /\ inv[i].state = "pending"
    /\ status' = Applied(status, inv[i].receipts)
    /\ inv' = [inv EXCEPT ![i].state = "open",
                          ![i].receipts = Witnessed(status, @)]
    /\ opened' = Append(opened, i)
    /\ UNCHANGED <<withdrawn, quarantined, downgraded>>

\* Mutated: another invalidation holds what it affects but not its own target.
MutHeldByOthers(i) ==
    {n \in Nodes : \E j \in Invs \ {i} : /\ inv[j].state = "open"
                                         /\ inv[j].receipts[n].impact \in {"review_required", "blocked"}}

\* _nodes_held_by_others: only open invalidations that act on the node count.
HeldByOthers(i) ==
    {n \in Nodes : \E j \in Invs \ {i} : inv[j].state = "open" /\ Acts(inv[j].receipts[n])}

\* Mutated: a released impact restores revoked authority too.
MutGiveBack(i, S) ==
    [n \in Nodes |-> IF n \in S /\ status[n] \in {"uncertain", "blocked"}
                     THEN inv[i].receipts[n].restore ELSE status[n]]

\* _restore_node: give back the recorded status, unless authority is gone.
GiveBack(i, S) ==
    [n \in Nodes |->
        IF n \in S \ withdrawn /\ status[n] \in {"uncertain", "blocked"}
        THEN inv[i].receipts[n].restore ELSE status[n]]

\* Rejecting releases what this invalidation changed and nobody else holds.
Reject(i) ==
    LET mine == {n \in Nodes : inv[i].receipts[n].applied} IN
    /\ inv[i].state = "pending"
    /\ inv' = [inv EXCEPT ![i].state = "rejected"]
    /\ status' = GiveBack(i, mine \ HeldByOthers(i))
    /\ UNCHANGED <<withdrawn, quarantined, opened, downgraded>>

-----------------------------------------------------------------------------
(* resolve                                                                 *)

Modes == {"narrowed_scope", "superseding_decision", "replacement_evidence"}

\* What becomes of the target when nothing else holds it.
TargetOutcome(i, mode) ==
    CASE mode = "superseding_decision" -> "superseded"
      [] mode = "replacement_evidence" -> "resolved"
      [] OTHER -> inv[i].receipts[inv[i].target].restore

\* Mutated: the resolved invalidation is left among the open ones.
MutResolve(i, mode) ==
    /\ inv[i].state = "open"
    /\ inv' = [inv EXCEPT ![i].state = "resolved"]
    /\ UNCHANGED <<status, opened, withdrawn, quarantined, downgraded>>

\* The row of an open invalidation among the open ones.
Row(i) == CHOOSE k \in DOMAIN opened : opened[k] = i

Resolve(i, mode) ==
    LET t == inv[i].target
        held == HeldByOthers(i)
        named == {n \in Nodes \ {t} : inv[i].receipts[n].impact # "none"}
        free == t \notin held \cup withdrawn /\ status[t] # "quarantined" IN
    /\ inv[i].state = "open"
    /\ free /\ mode # "narrowed_scope" => MayBecome(t, status[t], TargetOutcome(i, mode))
    /\ status' = [GiveBack(i, named \ held) EXCEPT
                     ![t] = IF free THEN TargetOutcome(i, mode) ELSE status[t]]
    /\ inv' = [inv EXCEPT ![i].state = "resolved"]
    /\ opened' = RemoveAt(opened, Row(i))
    /\ UNCHANGED <<withdrawn, quarantined, downgraded>>

-----------------------------------------------------------------------------
(* Completion and autonomy, as far as invalidations gate them.             *)

\* blocking_invalidations: open or pending ones that name the task or anything
\* it rests on, and every critical one.
Blocking(n) ==
    LET upstream == {n} \cup {m \in Nodes : Impact[m][n] # "none"} IN
    {i \in Invs : /\ inv[i].state \in {"open", "pending"}
                  /\ \/ inv[i].critical
                     \/ \E m \in upstream : inv[i].receipts[m].impact # "none"}

\* complete_task with a sufficient proof.
Complete(n) ==
    /\ n \in Nodes \ (Assumptions \cup withdrawn)
    /\ Blocking(n) = {}
    /\ status[n] = "open"
    /\ status' = [status EXCEPT ![n] = "verified"]
    /\ UNCHANGED <<withdrawn, quarantined, inv, opened, downgraded>>

ClearDowngrades ==
    /\ downgraded
    /\ downgraded' = FALSE
    /\ UNCHANGED <<status, withdrawn, quarantined, inv, opened>>

\* partial.quarantine: the status is overwritten, whatever it is.
Quarantine(n) ==
    /\ status' = [status EXCEPT ![n] = "quarantined"]
    /\ quarantined' = quarantined \cup {n}
    /\ UNCHANGED <<withdrawn, inv, opened, downgraded>>

Next ==
    \/ \E i \in Invs :
          \/ \E t \in Nodes, human \in Gates, weak \in BOOLEAN : Fire(i, t, human, weak)
          \/ \E n \in Nodes : Revoke(i, n)
          \/ Accept(i)
          \/ Reject(i)
          \/ \E mode \in Modes : Resolve(i, mode)
    \/ \E n \in Nodes : Complete(n)
    \/ \E n \in Suspects : Quarantine(n)
    \/ ClearDowngrades

Spec == Init /\ [][Next]_vars

-----------------------------------------------------------------------------
(* Properties.                                                             *)

\* Shapes, and opened lists exactly the open invalidations, each once.
TypeOK ==
    /\ status \in [Nodes -> Statuses]
    /\ withdrawn \subseteq Nodes
    /\ quarantined \subseteq Nodes
    /\ inv \in [Invs -> Invalidations]
    /\ opened \in Seq(Invs)
    /\ {opened[k] : k \in DOMAIN opened} = {i \in Invs : inv[i].state = "open"}
    /\ \A j, k \in DOMAIN opened : opened[j] = opened[k] => j = k
    /\ downgraded \in BOOLEAN

\* While an open invalidation acts on a node, the node does not stand: closing
\* one of several overlapping invalidations never clears another one's hold.
HolderKeepsHold ==
    \A i \in Invs, n \in Nodes :
        inv[i].state = "open" /\ Acts(inv[i].receipts[n]) => status[n] \notin Standing

Holders(n) == {i \in Invs : inv[i].state = "open" /\ Acts(inv[i].receipts[n])}

\* A node that was only ever affected, never a target, gets exactly its
\* original status back when the last invalidation that holds it closes.
AffectedRestoredExactly ==
    \A n \in Nodes :
        /\ \A i \in Invs : inv[i].target # n
        /\ Holders(n) = {}
        /\ n \notin quarantined
        => status[n] \in IF n \in Assumptions THEN {"active"} ELSE {"open", "verified"}

\* Once authority is revoked no confirmation, rejection or resolution makes the
\* node stand again.
WithdrawnStaysDown == \A n \in withdrawn : status[n] \notin Standing

\* A hold lasts as long as its reasons, no longer for a node that was only affected,
\* and for ever on what its author withdrew.
HoldsExact == TypeOK /\ HolderKeepsHold /\ AffectedRestoredExactly /\ WithdrawnStaysDown

\* Clearing a held target's status waits for the last justification to close:
\* then it is restored, so nothing stays lowered that no invalidation holds.
NothingStranded ==
    \A n \in Nodes \ withdrawn :
        Holders(n) = {} => status[n] \notin {"uncertain", "blocked", "invalidated"}

\* Quarantine is resolved, never overwritten (ADR-050): no operation here is that
\* resolution, so a node once quarantined never stands again.
QuarantineHolds == \A n \in quarantined : status[n] \notin Standing

\* A superseded assumption was genuinely replaced and changes no more, in whichever
\* order its invalidations close.  The one exception is an invalidation confirmed
\* after the supersession: the lifecycle refused it, and it is resolved all the same.
SupersededIsFinal ==
    [][\A n \in Assumptions :
          status[n] = "superseded" /\ status'[n] # "superseded" =>
              \E i \in Invs : /\ inv[i].state = "open" /\ inv'[i].state = "resolved"
                              /\ inv[i].target = n
                              /\ ~inv[i].receipts[n].applied]_vars
=============================================================================
