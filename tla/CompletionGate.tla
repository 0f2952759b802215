--------------------------- MODULE CompletionGate ---------------------------
(***************************************************************************)
(* The false-completion gate (engine.py): attest_action runs the verifiers *)
(* that policy requires, and those its caller brings, and seals a signed   *)
(* proof; complete_task promotes a task to verified on the strength of     *)
(* one.  An attestation reads control state and files step by step, with   *)
(* no transaction open, while other processes commit and other programs    *)
(* edit the deliverable; only its last step is a transaction.  Whatever    *)
(* raises before that leaves no trace.                                     *)
(*                                                                         *)
(* writes counts the commits that changed the graph.  Node versions only   *)
(* grow, so it stands for the digest of all nodes and edges, and its value *)
(* at a node's last write for that node's version.  Signatures are ideal:  *)
(* a proof that completion accepts as authentic is one that was sealed.    *)
(* Verifiers read nothing but the declared deliverable.  Every definition  *)
(* policy requires is pinned: it says what runs, and no caller replaces it.*)
(***************************************************************************)
EXTENDS Integers, Sequences, FiniteSets

CONSTANTS
    Attesters,   \* processes that attest
    Tasks,
    Defs,        \* verifier definitions, named by definition_digest
    Own,         \* those a caller may bring, required for its proof alone
    Contents,    \* what the deliverable may contain: numbers
    Passes,      \* Passes[d]: the contents on which definition d passes
    Policies,    \* the project policies an operator may set
    Claims,      \* the sets of tasks an attestation may name
    Grades,      \* evidence grades, a larger number is a better grade
    Reverts,     \* may an edit bring back an earlier content?
    Others,      \* the kinds of operation that run beside the attestations
    None,
    MaxWrites,   \* bound: commits that change the graph
    MaxConfigs,  \* bound: changes of the project policy
    MaxRows      \* bound: rows of autonomy_grants and autonomy_downgrades

Policy == [required: BOOLEAN, defs: SUBSET Defs, floor: Grades]

ASSUME GateAssumption ==
    /\ Contents \subseteq Nat
    /\ Passes \in [Defs -> SUBSET Contents]
    /\ Policies \subseteq Policy
    /\ Own \subseteq Defs
    /\ \A c \in Policies : c.defs \cap Own = {}
    /\ Claims \subseteq SUBSET Tasks
    /\ Grades \subseteq Nat
    /\ Grades # {}
    /\ Reverts \in BOOLEAN
    /\ Others \subseteq {"config", "grant", "oblige", "invalidate", "quarantine", "push"}
    /\ MaxWrites \in Nat
    /\ MaxConfigs \in Nat
    /\ MaxRows \in Nat
    /\ None \notin Contents
    /\ None \notin Nat
    /\ None \notin Grades

VARIABLES
    artifact,     \* the deliverable in the working directory
    policy,       \* project_policy.config
    configs,      \* the policy.config rows of the audit log
    autonomy,     \* the rows of the two autonomy tables
    writes,       \* commits that changed the graph
    task,         \* the task nodes
    notice,       \* the unresolved invalidation of each task
    obligations,  \* the requirements that apply to the tasks
    uncertain,    \* revision_frontier_uncertain of the project node
    proofs,       \* the sealed proofs, in commit order
    spent,        \* spent_proofs: the task each proof completed
    at            \* the running attestation of each process

vars == <<artifact, policy, configs, autonomy, writes, task, notice, obligations,
          uncertain, proofs, spent, at>>

world == <<artifact, policy, configs, autonomy, writes, task, notice, obligations,
           uncertain, proofs, spent>>

-----------------------------------------------------------------------------
(* Shapes.                                                                 *)

Stamp == 0..MaxWrites

TaskNode == [status: {"open", "verified", "blocked", "quarantined"},
             version: Stamp, evidence: Stamp \cup {None}]

\* An invalidation of the task, and the status to give back when it ends.
Notice == [state: {"none", "pending_confirmation", "open"},
           restore: {"open", "verified", "blocked", "quarantined", None}]

Obligations == [version: Stamp, conflict: BOOLEAN]

\* Rows are only added or marked revoked or cleared, so counts identify them.
Autonomy == [granted: 0..MaxRows, revoked: 0..MaxRows,
             lowered: 0..MaxRows, cleared: 0..MaxRows]

Results == {"passed", "failed", "inconclusive", "missing"}

\* _obligation_basis: the applicable obligations and the proof policy.
ObligationBasis == [obligations: Obligations, policy: Policy]

\* The signed envelope and its graph node; tested is what each verifier saw.
Proof == [covers: SUBSET Tasks, status: Results \cup {"verified", "incomplete"},
          node: Results \cup {"verified", "incomplete", "superseded"},
          decision: {"allow", "deny"}, input: Contents \cup {None},
          targets: [Tasks -> Stamp], basis: ObligationBasis,
          results: [Defs -> Results], tested: [Defs -> Contents \cup {None}],
          defs: SUBSET Defs, own: SUBSET Defs, floor: Grades, grade: Grades]

Steps == {"idle", "autonomy", "policy", "files", "obligations", "definitions",
          "targets", "inputs", "decide", "run", "probe", "seal"}

NoControl == [writes |-> 0, autonomy |-> None, policy |-> None, files |-> None]

Idle == [step |-> "idle", covers |-> {}, control |-> NoControl, basis |-> None,
         defs |-> {}, own |-> {}, floor |-> None, targets |-> None, input |-> None,
         decision |-> "deny", results |-> [d \in Defs |-> "missing"],
         tested |-> [d \in Defs |-> None], grade |-> None]

-----------------------------------------------------------------------------
(* Reading the world.                                                      *)

\* _artifact_digests: the deliverables that these definitions declare.
Files(defs) == IF defs = {} THEN None ELSE artifact

Basis == [obligations |-> obligations, policy |-> policy]

\* _packet_control_basis, when all of it is read at one moment.
Control == [writes |-> writes, autonomy |-> autonomy, policy |-> policy,
            files |-> Files(policy.defs)]

\* decide for run_verifier: a live grant, and no downgrade in force.
Allowed == /\ autonomy.granted > autonomy.revoked
           /\ autonomy.lowered = autonomy.cleared

\* What an attestation runs and its proof answers for: what policy required, and
\* what its caller brought.  A caller's spec that is not required weighs only
\* where nothing is, and then as if it were.
Checks(a) == a.defs \cup a.own

\* evaluate_status, for the definitions that are required.
EvaluateStatus(defs, results) ==
    LET got == {results[d] : d \in defs} IN
    CASE "failed" \in got -> "failed"
      [] "missing" \in got -> "incomplete"
      [] "inconclusive" \in got -> "inconclusive"
      [] defs = {} -> "incomplete"
      [] OTHER -> "verified"

\* Mutated: a retry under another set of definitions counts as comparable.
MutPolicyStrengthCovers(new, old) == new.floor >= old.floor

\* _policy_strength_covers
PolicyStrengthCovers(new, old) == old.defs \subseteq new.defs /\ new.floor >= old.floor

-----------------------------------------------------------------------------
(* attest_action, one action for each read that another process can race.  *)

Advance(p, from, to, rec) ==
    /\ at[p].step = from
    /\ at' = [at EXCEPT ![p] = [rec EXCEPT !.step = to]]
    /\ UNCHANGED world

\* The first control basis is read outside any snapshot, table by table.  A spec
\* of the caller that reuses a pinned name is displaced: the others are its own.
Attest(p, tasks, own) ==
    Advance(p, "idle", "autonomy",
        [Idle EXCEPT !.covers = tasks, !.own = own, !.control.writes = writes])

ReadAutonomy(p) ==
    Advance(p, "autonomy", "policy", [at[p] EXCEPT !.control.autonomy = autonomy])

ReadPolicy(p) ==
    Advance(p, "policy", "files", [at[p] EXCEPT !.control.policy = policy])

ReadFiles(p) ==
    Advance(p, "files", "obligations", [at[p] EXCEPT !.control.files = Files(policy.defs)])

\* One read snapshot; a task without current authority is refused.
ReadObligations(p) ==
    /\ \A t \in at[p].covers : task[t].status # "quarantined"
    /\ Advance(p, "obligations", "definitions", [at[p] EXCEPT !.basis = Basis])

ReadDefinitions(p) ==
    Advance(p, "definitions", "targets", [at[p] EXCEPT !.defs = policy.defs])

\* _continuity_state_inputs, and the evidence floor read just before it.
ReadTargets(p) ==
    /\ \A t \in at[p].covers : task[t].status # "quarantined"
    /\ Advance(p, "targets", "inputs",
          [at[p] EXCEPT !.floor = policy.floor,
                        !.targets = [t \in Tasks |-> task[t].version]])

ReadInputs(p) ==
    Advance(p, "inputs", "decide", [at[p] EXCEPT !.input = Files(Checks(at[p]))])

\* A denied attestation runs nothing, and is sealed as such.
Decide(p) ==
    \/ /\ Allowed
       /\ Advance(p, "decide", "run", [at[p] EXCEPT !.decision = "allow"])
    \/ /\ ~Allowed
       /\ \E g \in Grades :
             Advance(p, "decide", "seal", [at[p] EXCEPT !.decision = "deny", !.grade = g])

\* One verifier runs on a disposable copy of the tree as it is now; a timeout or
\* a check that cannot start is inconclusive.
Run(p, d) ==
    /\ d \in Checks(at[p])
    /\ at[p].results[d] = "missing"
    /\ \E r \in {IF artifact \in Passes[d] THEN "passed" ELSE "failed", "inconclusive"} :
          Advance(p, "run", "run", [at[p] EXCEPT !.results[d] = r, !.tested[d] = artifact])

\* Mutated: the artifacts are not looked at again.
MutUnchanged(p) == TRUE

\* The declared artifacts still have the digests recorded before the run.
Unchanged(p) == Files(Checks(at[p])) = at[p].input

RecheckRun(p) ==
    /\ \A d \in Checks(at[p]) : at[p].results[d] # "missing"
    /\ Unchanged(p)
    /\ Advance(p, "run", "probe", at[p])

\* The mutation and determinism probes decide the evidence grade; then again.
RecheckProbe(p) ==
    /\ Unchanged(p)
    /\ \E g \in Grades : Advance(p, "probe", "seal", [at[p] EXCEPT !.grade = g])

\* A refusal, a detected change, a verifier that touched its subject, or a crash:
\* an exception, and nothing was written.
Discard(p) ==
    /\ at[p].step # "idle"
    /\ at' = [at EXCEPT ![p] = Idle]
    /\ UNCHANGED world

Sealed(p) ==
    LET a == at[p]
        status == EvaluateStatus(Checks(a), a.results) IN
    [covers |-> a.covers, status |-> status, node |-> status,
     decision |-> a.decision, input |-> a.input, targets |-> a.targets,
     basis |-> a.basis, results |-> a.results, tested |-> a.tested,
     defs |-> a.defs, own |-> a.own, floor |-> a.floor, grade |-> a.grade]

\* The earlier unsuccessful proofs of the same claim that a verified one retires.
\* Neither the claim nor the policy's strength says what the caller brought.
Retired(new) ==
    {i \in DOMAIN proofs :
        /\ new.status = "verified"
        /\ proofs[i].covers = new.covers
        /\ proofs[i].node \in {"failed", "incomplete", "inconclusive"}
        /\ PolicyStrengthCovers(new, proofs[i])}

\* Mutated: only the obligations are compared before the proof is written.
MutStillTrue(p) == at[p].basis = Basis

\* The comparison inside the transaction: nothing that governs the claim moved.
StillTrue(p) == at[p].basis = Basis /\ at[p].control = Control

Seal(p) ==
    LET new == Sealed(p)
        failed == new.status = "failed" /\ new.decision = "allow" IN
    /\ at[p].step = "seal"
    /\ StillTrue(p)
    /\ writes < MaxWrites
    /\ failed => autonomy.lowered < MaxRows
    /\ proofs' = Append([i \in DOMAIN proofs |->
                    IF i \in Retired(new) THEN [proofs[i] EXCEPT !.node = "superseded"]
                    ELSE proofs[i]], new)
    /\ spent' = Append(spent, None)
    /\ writes' = writes + 1
    /\ autonomy' = [autonomy EXCEPT !.lowered = IF failed THEN @ + 1 ELSE @]
    /\ at' = [at EXCEPT ![p] = Idle]
    /\ UNCHANGED <<artifact, policy, configs, task, notice, obligations, uncertain>>

-----------------------------------------------------------------------------
(* complete_task: one transaction.  A rejection changes nothing here.      *)

\* Mutated: a verified task may be completed again.
MutCompletable(t) == task[t].status \in {"open", "verified"} /\ notice[t].state = "none"

\* Not quarantined, not verified already, and under no unresolved invalidation.
Completable(t) == task[t].status = "open" /\ notice[t].state = "none"

\* Mutated: the deliverable is not compared.
MutCurrent(i) ==
    /\ \A u \in proofs[i].covers : proofs[i].targets[u] = task[u].version
    /\ proofs[i].basis = Basis

\* _proof_currency_snapshot: every recorded commitment is recomputed and equal.
Current(i) ==
    /\ \A u \in proofs[i].covers : /\ proofs[i].targets[u] = task[u].version
                                   /\ task[u].status # "quarantined"
    /\ proofs[i].basis = Basis
    /\ proofs[i].input = Files(Checks(proofs[i]))

\* The proof is this task's, unspent elsewhere, covers today's policy and is current.
Accepts(i, t) ==
    /\ proofs[i].status = "verified"
    /\ t \in proofs[i].covers
    /\ spent[i] \in {None, t}
    /\ ~(policy.required /\ policy.defs = {})
    /\ proofs[i].decision = "allow"
    /\ \A d \in policy.defs : proofs[i].results[d] = "passed"
    /\ Current(i)
    /\ proofs[i].grade >= policy.floor

Promote(t, evidence) ==
    /\ writes < MaxWrites
    /\ writes' = writes + 1
    /\ task' = [task EXCEPT ![t] = [status |-> "verified", version |-> writes + 1,
                                    evidence |-> evidence]]
    /\ UNCHANGED <<artifact, policy, configs, autonomy, notice, obligations, uncertain, proofs, at>>

MayComplete(t) == Completable(t) /\ ~uncertain /\ ~obligations.conflict

Complete(t, i) ==
    /\ MayComplete(t)
    /\ Accepts(i, t)
    /\ spent' = [spent EXCEPT ![i] = t]
    /\ Promote(t, i)

\* Where policy asks for no proof, the agent's word is recorded as such.
CompleteUnproven(t) ==
    /\ MayComplete(t)
    /\ ~policy.required
    /\ Promote(t, None)
    /\ UNCHANGED spent

-----------------------------------------------------------------------------
(* What others do meanwhile.                                               *)

\* Another program writes the deliverable.
Edit(c) ==
    /\ c # artifact
    /\ Reverts \/ c > artifact
    /\ artifact' = c
    /\ UNCHANGED <<policy, configs, autonomy, writes, task, notice, obligations, uncertain,
                   proofs, spent, at>>

SetProjectConfig(c) ==
    /\ configs < MaxConfigs
    /\ configs' = configs + 1
    /\ policy' = c
    /\ UNCHANGED <<artifact, autonomy, writes, task, notice, obligations, uncertain,
                   proofs, spent, at>>

SetAutonomy(rows) ==
    /\ autonomy' = rows
    /\ UNCHANGED <<artifact, policy, configs, writes, task, notice, obligations, uncertain,
                   proofs, spent, at>>

Grant ==
    /\ autonomy.granted < MaxRows
    /\ SetAutonomy([autonomy EXCEPT !.granted = @ + 1])

RevokeGrant ==
    /\ autonomy.revoked < autonomy.granted
    /\ SetAutonomy([autonomy EXCEPT !.revoked = @ + 1])

ClearDowngrades ==
    /\ autonomy.cleared < autonomy.lowered
    /\ SetAutonomy([autonomy EXCEPT !.cleared = autonomy.lowered])

\* An authority decision changes a requirement, or leaves it in conflict.
Oblige(conflict) ==
    /\ writes < MaxWrites
    /\ writes' = writes + 1
    /\ obligations' = [version |-> writes + 1, conflict |-> conflict]
    /\ UNCHANGED <<artifact, policy, configs, autonomy, task, notice, uncertain, proofs, spent, at>>

\* An invalidation names the task; behind the human gate its status stays.
Fire(t, human) ==
    /\ notice[t].state = "none"
    /\ writes < MaxWrites
    /\ writes' = writes + 1
    /\ notice' = [notice EXCEPT ![t] =
                     [state |-> IF human THEN "pending_confirmation" ELSE "open",
                      restore |-> task[t].status]]
    /\ task' = IF human THEN task
               ELSE [task EXCEPT ![t].status = "blocked", ![t].version = writes + 1]
    /\ UNCHANGED <<artifact, policy, configs, autonomy, obligations, uncertain, proofs, spent, at>>

\* It is resolved or rejected: the hold ends and the status is given back.
Resolve(t) ==
    /\ notice[t].state # "none"
    /\ writes < MaxWrites
    /\ writes' = writes + 1
    /\ notice' = [notice EXCEPT ![t] = [state |-> "none", restore |-> None]]
    /\ task' = IF notice[t].state = "open" /\ task[t].status = "blocked"
               THEN [task EXCEPT ![t].status = notice[t].restore, ![t].version = writes + 1]
               ELSE task
    /\ UNCHANGED <<artifact, policy, configs, autonomy, obligations, uncertain, proofs, spent, at>>

Quarantine(t) ==
    /\ writes < MaxWrites
    /\ writes' = writes + 1
    /\ task' = [task EXCEPT ![t].status = "quarantined", ![t].version = writes + 1]
    /\ UNCHANGED <<artifact, policy, configs, autonomy, notice, obligations, uncertain, proofs, spent, at>>

\* A push that cannot be ordered marks the revision frontier uncertain; a later
\* one on the tracked ref settles it.
Push(lost) ==
    /\ writes < MaxWrites
    /\ writes' = writes + 1
    /\ uncertain' = lost
    /\ UNCHANGED <<artifact, policy, configs, autonomy, task, notice, obligations, proofs, spent, at>>

-----------------------------------------------------------------------------
Init ==
    /\ artifact \in {c \in Contents : \A b \in Contents : c <= b}
    /\ policy \in Policies
    /\ configs = 0
    /\ autonomy \in {[granted |-> g, revoked |-> 0, lowered |-> 0, cleared |-> 0] :
                        g \in {0, 1} \cap (0..MaxRows)}
    /\ writes = 0
    /\ task = [t \in Tasks |-> [status |-> "open", version |-> 0, evidence |-> None]]
    /\ notice = [t \in Tasks |-> [state |-> "none", restore |-> None]]
    /\ obligations = [version |-> 0, conflict |-> FALSE]
    /\ uncertain = FALSE
    /\ proofs = << >>
    /\ spent = << >>
    /\ at = [p \in Attesters |-> Idle]

AttestStep(p) ==
    \/ \E c \in Claims, own \in SUBSET Own : Attest(p, c, own)
    \/ ReadAutonomy(p) \/ ReadPolicy(p) \/ ReadFiles(p) \/ ReadObligations(p)
    \/ ReadDefinitions(p) \/ ReadTargets(p) \/ ReadInputs(p) \/ Decide(p)
    \/ \E d \in Defs : Run(p, d)
    \/ RecheckRun(p) \/ RecheckProbe(p) \/ Seal(p) \/ Discard(p)

CompleteStep ==
    \E t \in Tasks : CompleteUnproven(t) \/ \E i \in DOMAIN proofs : Complete(t, i)

OperatorStep ==
    \/ "config" \in Others /\ \E c \in Policies : SetProjectConfig(c)
    \/ "grant" \in Others /\ (Grant \/ RevokeGrant)
    \/ ClearDowngrades
    \/ "oblige" \in Others /\ \E conflict \in BOOLEAN : Oblige(conflict)
    \/ "invalidate" \in Others /\ \E t \in Tasks, human \in BOOLEAN : Fire(t, human)
    \/ \E t \in Tasks : Resolve(t)
    \/ "quarantine" \in Others /\ \E t \in Tasks : Quarantine(t)
    \/ "push" \in Others /\ \E lost \in BOOLEAN : Push(lost)

Next ==
    \/ \E p \in Attesters : AttestStep(p)
    \/ CompleteStep
    \/ OperatorStep
    \/ \E c \in Contents : Edit(c)

Spec == Init /\ [][Next]_vars

-----------------------------------------------------------------------------
(* Properties.                                                             *)

Attestation ==
    [step: Steps, covers: SUBSET Tasks,
     control: [writes: Stamp, autonomy: Autonomy \cup {None},
               policy: Policy \cup {None}, files: Contents \cup {None}],
     basis: ObligationBasis \cup {None}, defs: SUBSET Defs, own: SUBSET Defs,
     floor: Grades \cup {None}, targets: [Tasks -> Stamp] \cup {None},
     input: Contents \cup {None}, decision: {"allow", "deny"},
     results: [Defs -> Results], tested: [Defs -> Contents \cup {None}],
     grade: Grades \cup {None}]

\* Shapes; and every sealed proof has its row of spent_proofs, empty or not.
TypeOK ==
    /\ artifact \in Contents
    /\ policy \in Policy
    /\ configs \in 0..MaxConfigs
    /\ autonomy \in Autonomy
    /\ writes \in Stamp
    /\ task \in [Tasks -> TaskNode]
    /\ notice \in [Tasks -> Notice]
    /\ obligations \in Obligations
    /\ uncertain \in BOOLEAN
    /\ proofs \in Seq(Proof)
    /\ spent \in Seq(Tasks \cup {None})
    /\ Len(spent) = Len(proofs)
    /\ at \in [Attesters -> Attestation]

\* A sealed proof records the content its verifiers were run against, though
\* they ran on their own copies of a tree that others edit.
RecordedIsTested ==
    \A i \in DOMAIN proofs, d \in Defs :
        proofs[i].tested[d] # None => proofs[i].tested[d] = proofs[i].input

\* No false completion: where policy requires proof, a task becomes verified
\* only while every definition policy requires NOW passes on the deliverable as
\* it is NOW, whatever was edited, relaxed or reconfigured since attestation.
NoFalseCompletion ==
    [][\A t \in Tasks :
          task[t].status = "open" /\ task'[t].status = "verified" /\ policy.required =>
              /\ policy.defs # {}
              /\ \A d \in policy.defs : artifact \in Passes[d]]_vars

\* A verified completion is monotonic: the evidence of a task is written once,
\* through any sequence of invalidations, resolutions and retries.
EvidenceWrittenOnce ==
    [][\A t \in Tasks :
          task[t].evidence # None => task'[t].evidence = task[t].evidence]_vars

\* A proof that says it was allowed is never committed while a downgrade is in
\* force or the grant is gone: one process's failed proof stops the other
\* process's attestation that was allowed before it.
NoSealAgainstDowngrade ==
    [][Len(proofs') > Len(proofs) /\ proofs'[Len(proofs')].decision = "allow"
          => Allowed]_vars

\* Each of the checks that failed in a superseded proof has passed in a later
\* proof of the same claim, on the deliverable which that proof records.
Answered(i, checks) ==
    \A d \in checks : proofs[i].node = "superseded" /\ proofs[i].results[d] = "failed" =>
        \E j \in DOMAIN proofs :
            /\ i < j
            /\ proofs[j].covers = proofs[i].covers
            /\ proofs[j].results[d] = "passed"
            /\ proofs[j].input \in Passes[d]

\* A failure of what policy required is only retired by the same check, whatever
\* policy has come to require since and whatever callers bring along.
FailureAnsweredBySameCheck ==
    \A i \in DOMAIN proofs : Answered(i, proofs[i].defs)

\* ADR-074 promises the same of every required verifier.  For one that a caller
\* brought it is false: an attestation that leaves it out retires its failure.
EveryFailureAnswered ==
    \A i \in DOMAIN proofs : Answered(i, Checks(proofs[i]))
=============================================================================
