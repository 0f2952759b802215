---------------------------- MODULE EvidenceGrade ---------------------------
(***************************************************************************)
(* How hard evidence would be to fake: the probes an attestation runs and  *)
(* the grade they earn.  Every required check runs, then the mutation      *)
(* probe destroys each declared deliverable in copies of the tree and runs *)
(* the checks there, then each check runs twice more; the developer goes   *)
(* on editing the tree all the while.                                      *)
(*                                                                         *)
(* What a check really looks at is part of the world and unknown to the    *)
(* engine: "strict" checks fail when something they read is not good,      *)
(* "crash" checks do not reach a verdict then, "flaky" ones answer         *)
(* anything.  The completion gate's use of the grade is CompletionGate's.  *)
(***************************************************************************)
EXTENDS Integers, FiniteSets, Sequences, SequencesExt

CONSTANTS
    Checks,      \* required verifiers
    Files,       \* files of the tree
    MaxEdits,    \* edits during one attestation
    None

VARIABLES
    world,       \* what each check reads and how it behaves; fixed
    tree,        \* file -> "good" | "bad" | "absent"
    edited,      \* files edited since the attestation began
    edits,       \* how often
    pc,          \* where the attestation is
    a            \* what it has observed

vars == <<world, tree, edited, edits, pc, a>>

Mutations == <<"absent", "truncate">>
Results == {"passed", "failed", "inconclusive"}

\* The verdicts a run of c on a copy t of the tree may reach.
Verdicts(c, t) ==
    IF world.manner[c] = "flaky" THEN Results
    ELSE IF \A f \in world.reads[c] : t[f] = "good" THEN {"passed"}
    ELSE IF world.manner[c] = "crash" THEN {"inconclusive"} ELSE {"failed"}

(* ------------------------------ attestation ----------------------------- *)

\* The digests of the declared artifacts still are what they were.
InputsUnchanged == \A f \in world.declared : tree[f] = a.inputs[f]

Keep == UNCHANGED <<world, tree, edited, edits>>

\* Each required check runs on a snapshot of its own.
Execute(c) ==
    /\ pc = "execute"
    /\ a.outcomes[c] = None
    /\ \E r \in Verdicts(c, tree) : a' = [a EXCEPT !.outcomes[c] = r]
    /\ UNCHANGED pc /\ Keep

\* The recheck after the runs; the probe only where artifacts are declared.
Executed ==
    /\ pc = "execute"
    /\ \A c \in Checks : a.outcomes[c] # None
    /\ pc' = IF ~InputsUnchanged /\ world.declared # {} THEN "discarded"
             ELSE IF world.declared = {} THEN "repeat" ELSE "baseline"
    /\ UNCHANGED a /\ Keep

\* The unmutated copy; a check that is not green there ends the probe.
Baseline ==
    /\ pc = "baseline"
    /\ \E rs \in [Checks -> Results] :
        /\ \A c \in Checks : rs[c] \in Verdicts(c, tree)
        /\ IF \A c \in Checks : rs[c] = "passed"
           THEN /\ pc' = "mutate"
                /\ a' = [a EXCEPT !.probed = TRUE]
           ELSE /\ pc' = "repeat"
                /\ a' = [a EXCEPT !.probed = TRUE, !.inconclusive = TRUE]
    /\ Keep

\* The copy cannot be made.
Unmaterialised ==
    /\ pc \in {"baseline", "mutate"}
    /\ a' = [a EXCEPT !.probed = TRUE, !.inconclusive = TRUE, !.todo = Tail(@)]
    /\ pc' = IF pc = "baseline" \/ Len(a.todo) = 1 THEN "repeat" ELSE "mutate"
    /\ Keep

\* Bug: a check that crashed on the mutated copy noticed the mutation.
MutNoticed(rs) ==
    IF \E c \in Checks : rs[c] # "passed" THEN "detected" ELSE "undetected"

\* Only a verdict of failure is a detection.
Noticed(rs) ==
    IF \E c \in Checks : rs[c] = "failed" THEN "detected"
    ELSE IF \E c \in Checks : rs[c] = "inconclusive" THEN "inconclusive" ELSE "undetected"

\* One deliverable destroyed one way in a copy of its own.
Mutate ==
    /\ pc = "mutate"
    /\ LET f == Head(a.todo)[1]
           copy == [tree EXCEPT ![f] = IF Head(a.todo)[2] = "absent" THEN "absent" ELSE "bad"]
       IN IF tree[f] = "absent"
          THEN a' = [a EXCEPT !.undetected = TRUE, !.todo = Tail(@)]
          ELSE \E rs \in [Checks -> Results] :
                /\ \A c \in Checks : rs[c] \in Verdicts(c, copy)
                /\ a' = [a EXCEPT !.detected = @ \/ Noticed(rs) = "detected",
                                  !.undetected = @ \/ Noticed(rs) = "undetected",
                                  !.inconclusive = @ \/ Noticed(rs) = "inconclusive",
                                  !.todo = Tail(@)]
    /\ pc' = IF Len(a.todo) = 1 THEN "repeat" ELSE "mutate"
    /\ Keep

\* run_determinism_probe: stable means two passes.
Repeat(c) ==
    /\ pc = "repeat"
    /\ a.stable[c] = None
    /\ \E r1, r2 \in Verdicts(c, tree) :
        a' = [a EXCEPT !.stable[c] = r1 = "passed" /\ r2 = "passed"]
    /\ UNCHANGED pc /\ Keep

(* -------------------------------- grading ------------------------------- *)

Grades == <<"A", "B", "C", "D", "F">>
Rank(g) == CHOOSE n \in DOMAIN Grades : Grades[n] = g

Bound == a.detected /\ ~a.undetected /\ ~a.inconclusive

\* Bug: the last cap replaces the ones before it.
MutCapped(caps) == IF caps = <<>> THEN "A" ELSE Last(caps)

\* cap: a cap lowers the grade and never raises it.
Capped(caps) ==
    IF caps = <<>> THEN "A"
    ELSE CHOOSE g \in ToSet(caps) : \A h \in ToSet(caps) : Rank(h) <= Rank(g)

\* grade_evidence, in the order the caps are applied.
GradeEvidence ==
    IF \E c \in Checks : a.outcomes[c] # "passed" THEN "F"
    ELSE Capped((IF Checks \ world.pinned # {} THEN <<"D">> ELSE <<>>)
                \o (IF a.probed /\ ~Bound THEN <<"D">> ELSE <<>>)
                \o (IF \E c \in Checks : world.control[c] # "held" THEN <<"C">> ELSE <<>>)
                \o (IF ~a.probed THEN <<"B">> ELSE <<>>)
                \o (IF \E c \in Checks : a.stable[c] = FALSE THEN <<"C">> ELSE <<>>))

\* The last recheck, then the proof with its evidence context.
Mint ==
    /\ pc = "repeat"
    /\ \A c \in Checks : a.stable[c] # None
    /\ IF InputsUnchanged
       THEN pc' = "minted" /\ a' = [a EXCEPT !.grade = GradeEvidence]
       ELSE pc' = "discarded" /\ UNCHANGED a
    /\ Keep

(* ----------------------------- specification ---------------------------- *)

\* The developer edits a file, repairs it or removes it.
Edit(f, v) ==
    /\ pc \notin {"minted", "discarded"}
    /\ edits < MaxEdits
    /\ v # tree[f]
    /\ tree' = [tree EXCEPT ![f] = v]
    /\ edited' = edited \cup {f}
    /\ edits' = edits + 1
    /\ UNCHANGED <<world, pc, a>>

\* sorted(declared) x MUTATIONS.
Plan(declared) ==
    LET order == SetToSeq(declared)
    IN [n \in 1..(2 * Len(order)) |-> <<order[(n + 1) \div 2], Mutations[2 - (n % 2)]>>]

Worlds ==
    [reads : [Checks -> SUBSET Files], manner : [Checks -> {"strict", "crash", "flaky"}],
     declared : SUBSET Files, pinned : {{}, Checks},
     control : [Checks -> {"held"}] \cup {[c \in Checks |-> "unmet"]}]

Init ==
    /\ world \in Worlds
    /\ tree = [f \in Files |-> "good"]
    /\ edited = {}
    /\ edits = 0
    /\ pc = "execute"
    /\ a = [outcomes |-> [c \in Checks |-> None], inputs |-> tree, probed |-> FALSE,
            todo |-> Plan(world.declared), detected |-> FALSE, undetected |-> FALSE,
            inconclusive |-> FALSE, stable |-> [c \in Checks |-> None], grade |-> None]

Next ==
    \/ \E c \in Checks : Execute(c)
    \/ Executed
    \/ Baseline
    \/ Unmaterialised
    \/ Mutate
    \/ \E c \in Checks : Repeat(c)
    \/ Mint
    \/ \E f \in Files, v \in {"good", "bad", "absent"} : Edit(f, v)

Spec == Init /\ [][Next]_vars

(* ------------------------------ properties ------------------------------ *)

\* A check that fails when the file is destroyed, or one that fails at random.
MayNotice(f) ==
    \E c \in Checks :
        (world.manner[c] = "strict" /\ f \in world.reads[c]) \/ world.manner[c] = "flaky"

\* Evidence at the default floor or above, attested while nobody edited the
\* tree, is bound to every declared deliverable: some required check really
\* reaches a verdict of failure without it (evidence.py:676; a check that
\* only crashes there is not credited).
FloorMeansBound ==
    a.grade \in {"A", "B", "C"} /\ edited = {} =>
        \A f \in world.declared : MayNotice(f)

\* However many good observations follow, a command the claimant chose keeps
\* the evidence at D, a control that did not fail keeps it at C, and no
\* deliverable declared keeps it at B (evidence.py cap).
CapsHold ==
    a.grade # None =>
        /\ world.pinned # Checks => Rank(a.grade) >= Rank("D")
        /\ (\E c \in Checks : world.control[c] # "held") => Rank(a.grade) >= Rank("C")
        /\ world.declared = {} => Rank(a.grade) >= Rank("B")

\* A grade is earned by what the checks depend on, and capped by what they lack.
GradesAreEarned == FloorMeansBound /\ CapsHold
=============================================================================
