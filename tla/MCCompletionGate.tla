-------------------------- MODULE MCCompletionGate --------------------------
(***************************************************************************)
(* CompletionGate for TLC, in five scenarios; a behaviour belongs to one.  *)
(*   policy: policy moves between definitions and to none while the        *)
(*           deliverable is edited;                                        *)
(*   world:  two tasks share a proof while obligations change, holds come  *)
(*           and go, tasks are quarantined and pushes lose the frontier;   *)
(*   held:   longer histories of holds and quarantines alone;              *)
(*   race:   two processes attest while grants come and go;                *)
(*   caller: the attesting caller may bring a check of its own.            *)
(* Content 1 passes definition d1 alone, content 2 all others; d1 and d2   *)
(* are two definitions of one verifier, c1 is what the caller may bring.   *)
(***************************************************************************)
EXTENDS CompletionGate, TLC

CONSTANTS d1, d2, c1, p1, p2, p3, t1, t2

VARIABLE scenario

MCPasses == [d \in Defs |-> Contents \cap (IF d = d1 THEN {1} ELSE {2})]

Requires(d, floor) == [required |-> TRUE, defs |-> {d}, floor |-> floor]
Unproven == [required |-> FALSE, defs |-> {}, floor |-> 0]
Undeclared == [required |-> TRUE, defs |-> {}, floor |-> 0]

ThreePolicies == {Requires(d1, 0), Requires(d2, 1), Undeclared}
Alone == {{t1}}

World == INSTANCE CompletionGate WITH
    Policies <- {Requires(d1, 0), Unproven}, Claims <- {{t1, t2}}, Grades <- {0},
    Others <- {"oblige", "invalidate", "quarantine", "push"}, MaxWrites <- 3, MaxConfigs <- 0

Held == INSTANCE CompletionGate WITH
    Policies <- {Requires(d1, 0), Unproven}, Claims <- {{t1, t2}}, Grades <- {0},
    Others <- {"invalidate", "quarantine"}, MaxWrites <- 4, MaxConfigs <- 0

Race == INSTANCE CompletionGate WITH
    Attesters <- {p1, p2}, Policies <- {Requires(d2, 0)}, Grades <- {0},
    Others <- {"grant"}, MaxWrites <- 2, MaxConfigs <- 0

Caller == INSTANCE CompletionGate WITH
    Own <- {c1}, Policies <- {Requires(d1, 0), Requires(d2, 0)}, Grades <- {0},
    Others <- {}, MaxWrites <- 3, MaxConfigs <- 0

MCInit ==
    \/ scenario = "policy" /\ Init
    \/ scenario = "world" /\ World!Init
    \/ scenario = "held" /\ Held!Init
    \/ scenario = "race" /\ Race!Init
    \/ scenario = "caller" /\ Caller!Init

\* A third attestation runs only after a failed one.  The policy changes to another
\* one, during the first two attestations or after a proof is sealed.
Moves ==
    /\ Len(proofs) >= 2 /\ at'[p3].step # "idle" => \E i \in DOMAIN proofs : proofs[i].status = "failed"
    /\ configs' # configs =>
          /\ policy' # policy
          /\ IF at[p3].step = "idle" THEN proofs # << >> ELSE Len(proofs) < 2

\* Of two tasks that are alike, t1 is the first that changes.
FirstTask ==
    task[t1] = task[t2] /\ notice[t1] = notice[t2] =>
        task'[t2] = task[t2] /\ notice'[t2] = notice[t2]

\* A history of holds has two proofs at most.
FewProofs == Len(proofs) >= 2 => at'[p3].step = "idle"

\* After a proof that was no failure, one attestation runs at a time.
Rivals == proofs # << >> /\ autonomy.lowered = 0 => \E p \in {p1, p2} : at'[p].step = "idle"

MCNext ==
    /\ \/ scenario = "policy" /\ Next /\ Moves
       \/ scenario = "world" /\ World!Next /\ FirstTask
       \/ scenario = "held" /\ Held!Next /\ FirstTask /\ FewProofs
       \/ scenario = "race" /\ Race!Next /\ Rivals
       \/ scenario = "caller" /\ Caller!Next
    /\ UNCHANGED scenario

MCSpec == MCInit /\ [][MCNext]_<<scenario, vars>>

Symmetry == Permutations({p1, p2})
=============================================================================
