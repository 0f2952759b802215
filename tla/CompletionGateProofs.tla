------------------------ MODULE CompletionGateProofs ------------------------
(***************************************************************************)
(* The completion gate's safety properties, for any number of attesting    *)
(* processes, tasks, definitions and commits.                              *)
(*                                                                         *)
(* What the gate promises is about moments that no transaction joins: when *)
(* the files were hashed, when each verifier ran, when autonomy was        *)
(* decided, and when the proof was sealed.  The invariant therefore keeps, *)
(* for each running attestation, how what it has read so far relates to    *)
(* the world as it is now: autonomy rows only grow past those it recorded, *)
(* and (where no edit brings back an earlier content) the deliverable only *)
(* grows past the content it recorded.  An equality found later then means *)
(* that nothing moved in between.                                          *)
(***************************************************************************)
EXTENDS CompletionGate, SequenceTheorems, TLAPS

\* No row of the autonomy tables is lost between the first reading and the second.
Grown(first, second) ==
    /\ first.granted <= second.granted
    /\ first.revoked <= second.revoked
    /\ first.lowered <= second.lowered
    /\ first.cleared <= second.cleared

\* The steps of attest_action that follow a given read.
AutonomyRead == Steps \ {"idle", "autonomy"}
TargetsRead == {"inputs", "decide", "run", "probe", "seal"}
InputsRead == {"decide", "run", "probe", "seal"}
Decided == {"run", "probe", "seal"}

\* What has been read by a given step is there.
ReadsOK(a) ==
    /\ a.step \in AutonomyRead => a.control.autonomy \in Autonomy
    /\ a.step \in TargetsRead => a.targets \in [Tasks -> Stamp] /\ a.floor \in Grades
    /\ a.step = "seal" => a.grade \in Grades

\* An attestation that was allowed, and whose autonomy reading is still exact,
\* would be allowed now.
AutonomyOK(a) ==
    /\ a.step \in AutonomyRead => Grown(a.control.autonomy, autonomy)
    /\ a.decision = "allow" => a.step \in Decided
    /\ a.decision = "allow" /\ a.control.autonomy = autonomy => Allowed

\* A result is the outcome of one of the attestation's own checks.
ResultsOK(a) ==
    \A d \in Defs :
        /\ a.step \notin Decided => a.results[d] = "missing" /\ a.tested[d] = None
        /\ a.results[d] # "missing" => d \in Checks(a)
        /\ a.tested[d] # None => d \in Checks(a)
        /\ a.results[d] = "passed" => a.tested[d] \in Passes[d]

\* The recorded content is not newer than what a verifier saw, nor that than the
\* content now; once the files were compared again they are the same.
ContentOK(a) ==
    /\ a.step \in InputsRead => (a.input = None <=> Checks(a) = {})
    /\ a.step \in InputsRead /\ Checks(a) # {} => a.input <= artifact
    /\ \A d \in Defs : a.tested[d] # None =>
          /\ a.input <= a.tested[d]
          /\ a.tested[d] <= artifact
          /\ a.step \in {"probe", "seal"} => a.tested[d] = a.input

AttestationOK(a) ==
    /\ ReadsOK(a)
    /\ AutonomyOK(a)
    /\ ResultsOK(a)
    /\ ~Reverts => ContentOK(a)

\* The same facts, as a sealed proof keeps them.
ProofOK(r) ==
    \A d \in Defs :
        /\ r.results[d] # "missing" => d \in Checks(r)
        /\ r.results[d] = "passed" => r.tested[d] \in Passes[d]
        /\ ~Reverts /\ r.tested[d] # None => r.tested[d] = r.input

\* A task that is open, or that the end of its hold would reopen, has no evidence.
TaskOK(t) ==
    /\ task[t].status = "open" => task[t].evidence = None
    /\ notice[t].state # "none"
          => notice[t].restore \in {"open", "verified", "blocked", "quarantined"}
    /\ task[t].status = "blocked" /\ notice[t].state = "open" /\ notice[t].restore = "open"
          => task[t].evidence = None

\* Every proof was written by a commit of its own.
IInv ==
    /\ TypeOK
    /\ Len(proofs) <= writes
    /\ \A p \in Attesters : AttestationOK(at[p])
    /\ \A i \in DOMAIN proofs : ProofOK(proofs[i])
    /\ \A t \in Tasks : TaskOK(t)
    /\ ~Reverts => FailureAnsweredBySameCheck

-----------------------------------------------------------------------------
(* The steps of a running attestation.                                     *)

\* A step of one attestation that leaves the world alone keeps the invariant
\* when its own record is in order afterwards.
LEMMA AdvanceKeeps ==
    ASSUME IInv, NEW p \in Attesters, NEW rec, UNCHANGED world,
           at' = [at EXCEPT ![p] = rec], rec \in Attestation, AttestationOK(rec)
    PROVE  IInv'
  <1>1. /\ at' \in [Attesters -> Attestation]
        /\ at'[p] = rec
        /\ \A q \in Attesters \ {p} : at'[q] = at[q]
    BY DEF IInv, TypeOK
  <1>2. /\ artifact' = artifact /\ policy' = policy /\ configs' = configs
        /\ autonomy' = autonomy /\ writes' = writes /\ task' = task /\ notice' = notice
        /\ obligations' = obligations /\ uncertain' = uncertain /\ proofs' = proofs
        /\ spent' = spent
    BY DEF world
  <1>3. TypeOK'
    BY <1>1, <1>2 DEF IInv, TypeOK
  <1>4. \A q \in Attesters : AttestationOK(at'[q])
    BY <1>1 DEF IInv
  <1>5. (\A q \in Attesters : AttestationOK(at[q]))'
    BY <1>2, <1>4 DEF AttestationOK, ReadsOK, AutonomyOK, ResultsOK, ContentOK, Allowed
  <1>6. /\ (Len(proofs) <= writes)'
        /\ (\A i \in DOMAIN proofs : ProofOK(proofs[i]))'
        /\ (\A t \in Tasks : TaskOK(t))'
        /\ (~Reverts => FailureAnsweredBySameCheck)'
    BY <1>2 DEF IInv, ProofOK, TaskOK, FailureAnsweredBySameCheck, Answered
  <1> QED BY <1>3, <1>5, <1>6 DEF IInv

\* An attestation that is not running has read nothing.
LEMMA IdleOK == Idle \in Attestation /\ AttestationOK(Idle)
  <1>1. Idle \in Attestation
    BY GateAssumption DEF Idle, Attestation, NoControl, Steps, Stamp, Results
  <1>2. AttestationOK(Idle)
    BY GateAssumption DEF Idle, AttestationOK, ReadsOK, AutonomyOK, ResultsOK, ContentOK,
        AutonomyRead, TargetsRead, InputsRead, Decided
  <1> QED BY <1>1, <1>2

\* Reading control state or files, and the comparisons that may end in a seal:
\* each leaves the attestation's record in order.
LEMMA ReadsKeep ==
    ASSUME IInv, NEW p \in Attesters,
           \/ \E c \in Claims, own \in SUBSET Own : Attest(p, c, own)
           \/ ReadAutonomy(p) \/ ReadPolicy(p) \/ ReadFiles(p) \/ ReadObligations(p)
           \/ ReadDefinitions(p) \/ ReadTargets(p) \/ ReadInputs(p)
    PROVE  IInv'
  <1> DEFINE a == at[p]
  <1>0. /\ a \in Attestation
        /\ AttestationOK(a)
        /\ TypeOK
    BY DEF IInv, TypeOK
  <1>1. CASE \E c \in Claims, own \in SUBSET Own : Attest(p, c, own)
    <2>1. PICK c \in Claims, own \in SUBSET Own : Attest(p, c, own)
      BY <1>1
    <2> DEFINE new == [Idle EXCEPT !.covers = c, !.own = own, !.control.writes = writes, !.step = "autonomy"]
    <2>2. at' = [at EXCEPT ![p] = new] /\ UNCHANGED world
      BY <2>1 DEF Attest, Advance
    <2>3. new \in Attestation
      <3>1. c \in SUBSET Tasks /\ own \in SUBSET Defs /\ writes \in Stamp /\ "autonomy" \in Steps
        BY <1>0, GateAssumption DEF TypeOK, Steps
      <3> QED BY <3>1, IdleOK DEF Attestation
    <2>4. AttestationOK(new)
      BY GateAssumption DEF Idle, AttestationOK, ReadsOK, AutonomyOK, ResultsOK, ContentOK,
          AutonomyRead, TargetsRead, InputsRead, Decided
    <2> QED BY <2>2, <2>3, <2>4, AdvanceKeeps
  <1>2. CASE ReadAutonomy(p)
    <2> DEFINE new == [a EXCEPT !.control.autonomy = autonomy, !.step = "policy"]
    <2>1. a.step = "autonomy" /\ at' = [at EXCEPT ![p] = new] /\ UNCHANGED world
      BY <1>2 DEF ReadAutonomy, Advance
    <2>2. new \in Attestation
      <3>1. autonomy \in Autonomy /\ "policy" \in Steps
        BY <1>0 DEF TypeOK, Steps
      <3> QED BY <1>0, <3>1 DEF Attestation
    <2>3. Grown(autonomy, autonomy)
      BY <1>0 DEF Grown, TypeOK, Autonomy
    <2>4. AttestationOK(new)
      BY <1>0, <2>1, <2>3 DEF Attestation, TypeOK, AttestationOK, ReadsOK, AutonomyOK, ResultsOK,
          ContentOK, AutonomyRead, TargetsRead, InputsRead, Decided
    <2> QED BY <2>1, <2>2, <2>4, AdvanceKeeps
  <1>3. CASE ReadPolicy(p)
    <2> DEFINE new == [a EXCEPT !.control.policy = policy, !.step = "files"]
    <2>1. a.step = "policy" /\ at' = [at EXCEPT ![p] = new] /\ UNCHANGED world
      BY <1>3 DEF ReadPolicy, Advance
    <2>2. new \in Attestation
      <3>1. policy \in Policy /\ "files" \in Steps
        BY <1>0 DEF TypeOK, Steps
      <3> QED BY <1>0, <3>1 DEF Attestation
    <2>3. AttestationOK(new)
      BY <1>0, <2>1, GateAssumption DEF Attestation, TypeOK, AttestationOK, ReadsOK, AutonomyOK,
          ResultsOK, ContentOK, AutonomyRead, TargetsRead, InputsRead, Decided, Steps
    <2> QED BY <2>1, <2>2, <2>3, AdvanceKeeps
  <1>4. CASE ReadFiles(p)
    <2> DEFINE f == Files(policy.defs)
               new == [a EXCEPT !.control.files = f, !.step = "obligations"]
    <2>1. a.step = "files" /\ at' = [at EXCEPT ![p] = new] /\ UNCHANGED world
      BY <1>4 DEF ReadFiles, Advance
    <2>2. f \in Contents \cup {None}
      BY <1>0 DEF Files, TypeOK
    <2> HIDE DEF f
    <2>3. new \in Attestation
      <3>1. "obligations" \in Steps
        BY DEF Steps
      <3> QED BY <1>0, <2>2, <3>1 DEF Attestation
    <2>4. AttestationOK(new)
      BY <1>0, <2>1, GateAssumption DEF Attestation, AttestationOK, ReadsOK, AutonomyOK,
          ResultsOK, ContentOK, AutonomyRead, TargetsRead, InputsRead, Decided, Steps
    <2> QED BY <2>1, <2>3, <2>4, AdvanceKeeps
  <1>5. CASE ReadObligations(p)
    <2> DEFINE new == [a EXCEPT !.basis = Basis, !.step = "definitions"]
    <2>1. a.step = "obligations" /\ at' = [at EXCEPT ![p] = new] /\ UNCHANGED world
      BY <1>5 DEF ReadObligations, Advance
    <2>2. new \in Attestation
      BY <1>0, GateAssumption DEF Attestation, TypeOK, Steps, Basis, ObligationBasis
    <2>3. AttestationOK(new)
      BY <1>0, <2>1, GateAssumption DEF Attestation, TypeOK, AttestationOK, ReadsOK, AutonomyOK,
          ResultsOK, ContentOK, AutonomyRead, TargetsRead, InputsRead, Decided, Steps
    <2> QED BY <2>1, <2>2, <2>3, AdvanceKeeps
  <1>6. CASE ReadDefinitions(p)
    <2> DEFINE new == [a EXCEPT !.defs = policy.defs, !.step = "targets"]
    <2>1. a.step = "definitions" /\ at' = [at EXCEPT ![p] = new] /\ UNCHANGED world
      BY <1>6 DEF ReadDefinitions, Advance
    <2>2. new \in Attestation
      BY <1>0, GateAssumption DEF Attestation, TypeOK, Steps, Policy
    <2>3. AttestationOK(new)
      BY <1>0, <2>1, GateAssumption DEF Attestation, TypeOK, AttestationOK, ReadsOK, AutonomyOK,
          ResultsOK, ContentOK, AutonomyRead, TargetsRead, InputsRead, Decided, Steps
    <2> QED BY <2>1, <2>2, <2>3, AdvanceKeeps
  <1>7. CASE ReadTargets(p)
    <2> DEFINE versions == [t \in Tasks |-> task[t].version]
               new == [a EXCEPT !.floor = policy.floor, !.targets = versions, !.step = "inputs"]
    <2>1. a.step = "targets" /\ at' = [at EXCEPT ![p] = new] /\ UNCHANGED world
      BY <1>7 DEF ReadTargets, Advance
    <2>2. policy.floor \in Grades /\ versions \in [Tasks -> Stamp]
      BY <1>0 DEF TypeOK, Policy, TaskNode
    <2> HIDE DEF versions
    <2>3. new \in Attestation
      BY <1>0, <2>2 DEF Attestation, Steps
    <2>4. AttestationOK(new)
      BY <1>0, <2>1, <2>2, GateAssumption DEF Attestation, AttestationOK, ReadsOK, AutonomyOK,
          ResultsOK, ContentOK, AutonomyRead, TargetsRead, InputsRead, Decided, Steps
    <2> QED BY <2>1, <2>3, <2>4, AdvanceKeeps
  <1>8. CASE ReadInputs(p)
    <2> DEFINE new == [a EXCEPT !.input = Files(Checks(a)), !.step = "decide"]
    <2>1. a.step = "inputs" /\ at' = [at EXCEPT ![p] = new] /\ UNCHANGED world
      BY <1>8 DEF ReadInputs, Advance
    <2>2. new \in Attestation
      <3>1. Files(Checks(a)) \in Contents \cup {None} /\ "decide" \in Steps
        BY <1>0 DEF TypeOK, Steps, Files
      <3> QED BY <1>0, <3>1 DEF Attestation
    <2>3. AttestationOK(new)
      BY <1>0, <2>1, GateAssumption DEF Attestation, TypeOK, AttestationOK, ReadsOK, AutonomyOK,
          ResultsOK, ContentOK, AutonomyRead, TargetsRead, InputsRead, Decided, Steps, Files, Checks
    <2> QED BY <2>1, <2>2, <2>3, AdvanceKeeps
  <1> QED BY <1>1, <1>2, <1>3, <1>4, <1>5, <1>6, <1>7, <1>8

\* The decision, the verifier runs and the two comparisons of the files.
LEMMA RunsKeep ==
    ASSUME IInv, NEW p \in Attesters,
           Decide(p) \/ (\E d \in Defs : Run(p, d)) \/ RecheckRun(p) \/ RecheckProbe(p)
    PROVE  IInv'
  <1> DEFINE a == at[p]
  <1>0. /\ a \in Attestation
        /\ AttestationOK(a)
        /\ artifact \in Contents
    BY DEF IInv, TypeOK
  <1> USE GateAssumption DEF AutonomyRead, TargetsRead, InputsRead, Decided, Steps
  <1>1. CASE Allowed /\ Advance(p, "decide", "run", [a EXCEPT !.decision = "allow"])
    <2> DEFINE new == [a EXCEPT !.decision = "allow", !.step = "run"]
    <2>1. a.step = "decide" /\ at' = [at EXCEPT ![p] = new] /\ UNCHANGED world
      BY <1>1 DEF Advance
    <2>2. new \in Attestation
      BY <1>0 DEF Attestation
    <2>3. AttestationOK(new)
      BY <1>0, <1>1, <2>1 DEF Attestation, AttestationOK, ReadsOK, AutonomyOK, ResultsOK, ContentOK, Checks
    <2> QED BY <2>1, <2>2, <2>3, AdvanceKeeps
  <1>2. ASSUME NEW g \in Grades,
               Advance(p, "decide", "seal", [a EXCEPT !.decision = "deny", !.grade = g])
        PROVE  IInv'
    <2> DEFINE new == [a EXCEPT !.decision = "deny", !.grade = g, !.step = "seal"]
    <2>1. a.step = "decide" /\ at' = [at EXCEPT ![p] = new] /\ UNCHANGED world
      BY <1>2 DEF Advance
    <2>2. new \in Attestation
      BY <1>0 DEF Attestation
    <2>3. AttestationOK(new)
      BY <1>0, <2>1 DEF Attestation, AttestationOK, ReadsOK, AutonomyOK, ResultsOK, ContentOK, Checks
    <2> QED BY <2>1, <2>2, <2>3, AdvanceKeeps
  <1>3. CASE Decide(p)
    BY <1>1, <1>2, <1>3 DEF Decide
  <1>4. ASSUME NEW d \in Defs, Run(p, d)
        PROVE  IInv'
    <2>1. PICK r \in {IF artifact \in Passes[d] THEN "passed" ELSE "failed", "inconclusive"} :
              Advance(p, "run", "run", [a EXCEPT !.results[d] = r, !.tested[d] = artifact])
      BY <1>4 DEF Run
    <2> DEFINE new == [a EXCEPT !.results[d] = r, !.tested[d] = artifact, !.step = "run"]
    <2>2. /\ a.step = "run" /\ at' = [at EXCEPT ![p] = new] /\ UNCHANGED world
          /\ d \in Checks(a)
          /\ r \in Results
          /\ r # "missing"
          /\ r = "passed" => artifact \in Passes[d]
      BY <1>4, <2>1 DEF Run, Advance, Results
    <2>3. new \in Attestation
      BY <1>0, <2>2 DEF Attestation
    <2>4. /\ new.step = "run" /\ new.control = a.control /\ new.decision = a.decision
          /\ new.targets = a.targets /\ new.floor = a.floor
          /\ Checks(new) = Checks(a) /\ new.input = a.input
          /\ new.results[d] = r /\ new.tested[d] = artifact
          /\ \A e \in Defs \ {d} : new.results[e] = a.results[e] /\ new.tested[e] = a.tested[e]
      BY <1>0, <2>2 DEF Attestation, Checks
    <2> HIDE DEF new
    <2>5. ReadsOK(new) /\ AutonomyOK(new)
      BY <1>0, <2>2, <2>4 DEF AttestationOK, ReadsOK, AutonomyOK
    <2>6. ResultsOK(new)
      BY <1>0, <2>2, <2>4 DEF AttestationOK, ResultsOK
    <2>7. ~Reverts => ContentOK(new)
      BY <1>0, <2>2, <2>4 DEF AttestationOK, ContentOK
    <2> QED BY <2>2, <2>3, <2>5, <2>6, <2>7, AdvanceKeeps DEF AttestationOK, new
  <1>5. CASE RecheckRun(p)
    <2> DEFINE new == [a EXCEPT !.step = "probe"]
    <2>1. /\ a.step = "run" /\ at' = [at EXCEPT ![p] = new] /\ UNCHANGED world
          /\ Checks(a) # {} => a.input = artifact
      BY <1>5 DEF RecheckRun, Advance, Unchanged, Files
    <2>2. new \in Attestation
      BY <1>0 DEF Attestation
    <2>3. AttestationOK(new)
      BY <1>0, <2>1 DEF Attestation, AttestationOK, ReadsOK, AutonomyOK, ResultsOK, ContentOK, Checks
    <2> QED BY <2>1, <2>2, <2>3, AdvanceKeeps
  <1>6. CASE RecheckProbe(p)
    <2>1. PICK g \in Grades : Advance(p, "probe", "seal", [a EXCEPT !.grade = g])
      BY <1>6 DEF RecheckProbe
    <2> DEFINE new == [a EXCEPT !.grade = g, !.step = "seal"]
    <2>2. a.step = "probe" /\ at' = [at EXCEPT ![p] = new] /\ UNCHANGED world
      BY <2>1 DEF Advance
    <2>3. new \in Attestation
      BY <1>0 DEF Attestation
    <2>4. AttestationOK(new)
      BY <1>0, <2>2 DEF Attestation, AttestationOK, ReadsOK, AutonomyOK, ResultsOK, ContentOK, Checks
    <2> QED BY <2>2, <2>3, <2>4, AdvanceKeeps
  <1> QED BY <1>3, <1>4, <1>5, <1>6

\* Whatever raises before the transaction leaves no trace.
LEMMA DiscardKeeps ==
    ASSUME IInv, NEW p \in Attesters, Discard(p)
    PROVE  IInv'
  BY IdleOK, AdvanceKeeps DEF Discard

-----------------------------------------------------------------------------
(* Steps that change the world.                                            *)

\* Rows of the autonomy tables are only added: no reading recurs.
LEMMA GrownIsOrder ==
    ASSUME NEW x \in Autonomy, NEW y \in Autonomy, NEW z \in Autonomy,
           Grown(x, y), Grown(y, z)
    PROVE  Grown(x, z) /\ (x = z => y = z)
  BY DEF Grown, Autonomy

\* An attestation that does not move while autonomy rows are added, and while the
\* deliverable is edited forward, stays in order.
LEMMA WaitingKeeps ==
    ASSUME IInv, NEW q \in Attesters, at'[q] = at[q],
           autonomy' \in Autonomy, Grown(autonomy, autonomy'),
           artifact' \in Contents, Reverts \/ artifact <= artifact'
    PROVE  AttestationOK(at[q])'
  <1> DEFINE a == at[q]
  <1>1. /\ a \in Attestation /\ AttestationOK(a)
        /\ autonomy \in Autonomy /\ artifact \in Contents
    BY DEF IInv, TypeOK
  <1>2. ReadsOK(a)'
    BY <1>1 DEF AttestationOK, ReadsOK
  <1>3. AutonomyOK(a)'
    <2>1. CASE a.step \in AutonomyRead
      <3>1. a.control.autonomy \in Autonomy /\ Grown(a.control.autonomy, autonomy)
        BY <1>1, <2>1 DEF AttestationOK, ReadsOK, AutonomyOK
      <3>2. /\ Grown(a.control.autonomy, autonomy')
            /\ a.control.autonomy = autonomy' => autonomy = autonomy'
        BY <1>1, <3>1, GrownIsOrder
      <3>3. autonomy = autonomy' => Allowed' = Allowed
        BY DEF Allowed
      <3> QED BY <1>1, <3>2, <3>3 DEF AttestationOK, AutonomyOK
    <2>2. CASE a.step \notin AutonomyRead
      BY <1>1, <2>2 DEF AttestationOK, AutonomyOK, Decided, AutonomyRead, Steps
    <2> QED BY <2>1, <2>2
  <1>4. ResultsOK(a)'
    BY <1>1 DEF AttestationOK, ResultsOK
  <1>5. ~Reverts => ContentOK(a)'
    <2>1. SUFFICES ASSUME ~Reverts PROVE ContentOK(a)'
      OBVIOUS
    <2>2. /\ ContentOK(a) /\ artifact <= artifact'
          /\ artifact \in Nat /\ artifact' \in Nat
      BY <1>1, <2>1, GateAssumption DEF AttestationOK
    <2>3. a.input \in Nat \/ a.input = None
      BY <1>1, GateAssumption DEF Attestation
    <2>4. \A d \in Defs : a.tested[d] # None => a.tested[d] \in Nat
      BY <1>1, GateAssumption DEF Attestation
    <2> QED BY <2>2, <2>3, <2>4 DEF ContentOK
  <1> QED BY <1>2, <1>3, <1>4, <1>5 DEF AttestationOK

\* evaluate_status: a verdict of verified means that every definition passed.
LEMMA StatusOfResults ==
    ASSUME NEW defs \in SUBSET Defs, NEW results \in [Defs -> Results]
    PROVE  /\ EvaluateStatus(defs, results)
                  \in {"failed", "incomplete", "inconclusive", "verified"}
           /\ EvaluateStatus(defs, results) = "verified"
                  => \A d \in defs : results[d] = "passed"
  <1> DEFINE got == {results[d] : d \in defs}
  <1>1. \A d \in defs : results[d] \in got /\ results[d] \in Results
    OBVIOUS
  <1>2. EvaluateStatus(defs, results) =
            (CASE "failed" \in got -> "failed"
              [] "missing" \in got -> "incomplete"
              [] "inconclusive" \in got -> "inconclusive"
              [] defs = {} -> "incomplete"
              [] OTHER -> "verified")
    BY DEF EvaluateStatus
  <1> HIDE DEF got
  <1>3. CASE "failed" \in got
    BY <1>2, <1>3
  <1>4. CASE "failed" \notin got /\ "missing" \in got
    BY <1>2, <1>4
  <1>5. CASE "failed" \notin got /\ "missing" \notin got
    BY <1>1, <1>2, <1>5 DEF Results
  <1> QED BY <1>3, <1>4, <1>5

\* What an attestation may seal is in order as a proof.
LEMMA SealedOK ==
    ASSUME IInv, NEW p \in Attesters, at[p].step = "seal", StillTrue(p)
    PROVE  /\ Sealed(p) \in Proof
           /\ ProofOK(Sealed(p))
           /\ Sealed(p).status = "verified"
                  => \A d \in Checks(Sealed(p)) : Sealed(p).results[d] = "passed"
  <1> DEFINE a == at[p]
             status == EvaluateStatus(Checks(a), a.results)
  <1>1. a \in Attestation /\ AttestationOK(a) /\ TypeOK
    BY DEF IInv, TypeOK
  <1>2. /\ status \in {"failed", "incomplete", "inconclusive", "verified"}
        /\ status = "verified" => \A d \in Checks(a) : a.results[d] = "passed"
    BY <1>1, StatusOfResults DEF Attestation, Checks
  <1> HIDE DEF status
  <1>3. a.basis \in ObligationBasis
    BY <1>1 DEF StillTrue, Basis, ObligationBasis, TypeOK
  <1>4. a.targets \in [Tasks -> Stamp] /\ a.floor \in Grades /\ a.grade \in Grades
    BY <1>1 DEF AttestationOK, ReadsOK, TargetsRead
  <1>5. Sealed(p) = [covers |-> a.covers, status |-> status, node |-> status,
            decision |-> a.decision, input |-> a.input, targets |-> a.targets,
            basis |-> a.basis, results |-> a.results, tested |-> a.tested,
            defs |-> a.defs, own |-> a.own, floor |-> a.floor, grade |-> a.grade]
    BY DEF Sealed, status
  <1>6. Sealed(p) \in Proof
    BY <1>1, <1>2, <1>3, <1>4, <1>5 DEF Attestation, Proof, Results
  <1>7. ProofOK(Sealed(p))
    BY <1>1, <1>5 DEF AttestationOK, ResultsOK, ContentOK, ProofOK, Checks
  <1> QED BY <1>2, <1>5, <1>6, <1>7 DEF Checks

\* Marking a proof superseded changes nothing else of it.
LEMMA MarkingKeeps ==
    ASSUME NEW r \in Proof, NEW m, m = [r EXCEPT !.node = "superseded"]
    PROVE  /\ m \in Proof /\ m.node = "superseded"
           /\ m.covers = r.covers /\ m.defs = r.defs /\ m.own = r.own /\ m.results = r.results
           /\ m.tested = r.tested /\ m.input = r.input
  BY DEF Proof

\* Sealing adds one proof at the end; of the earlier ones only the graph node of
\* those it retires changes.
LEMMA SealAppends ==
    ASSUME IInv, NEW p \in Attesters, Seal(p)
    PROVE  /\ proofs' \in Seq(Proof)
           /\ Len(proofs) \in Nat
           /\ DOMAIN proofs = 1..Len(proofs)
           /\ Len(proofs') = Len(proofs) + 1
           /\ DOMAIN proofs' = 1..(Len(proofs) + 1)
           /\ proofs'[Len(proofs) + 1] = Sealed(p)
           /\ \A i \in DOMAIN proofs : proofs[i] \in Proof
           /\ \A i \in DOMAIN proofs : proofs'[i] =
                  IF i \in Retired(Sealed(p)) THEN [proofs[i] EXCEPT !.node = "superseded"]
                  ELSE proofs[i]
  <1> DEFINE marked == [i \in DOMAIN proofs |->
                           IF i \in Retired(Sealed(p))
                           THEN [proofs[i] EXCEPT !.node = "superseded"] ELSE proofs[i]]
  <1>1. proofs \in Seq(Proof) /\ Sealed(p) \in Proof
    BY SealedOK DEF IInv, TypeOK, Seal
  <1>2. /\ Len(proofs) \in Nat
        /\ DOMAIN proofs = 1..Len(proofs)
        /\ \A i \in DOMAIN proofs : proofs[i] \in Proof
    BY <1>1, LenProperties, ElementOfSeq
  <1>3. \A i \in DOMAIN proofs : marked[i] \in Proof
    BY <1>2, MarkingKeeps
  <1>4. marked \in Seq(Proof) /\ Len(marked) = Len(proofs) /\ DOMAIN marked = 1..Len(proofs)
    <2>1. marked \in [1..Len(proofs) -> Proof]
      BY <1>2, <1>3
    <2> QED BY <1>2, <2>1, IsASeq, LenProperties
  <1>5. proofs' = Append(marked, Sealed(p))
    BY DEF Seal
  <1>6. /\ proofs' \in Seq(Proof)
        /\ Len(proofs') = Len(proofs) + 1
        /\ proofs'[Len(proofs) + 1] = Sealed(p)
        /\ \A i \in 1..Len(proofs) : proofs'[i] = marked[i]
    <2> HIDE DEF marked
    <2> QED BY <1>1, <1>4, <1>5, AppendProperties
  <1> QED BY <1>2, <1>6, LenProperties

\* A verified proof answers every failure that it retires with the same check.
LEMMA SealAnswersFailures ==
    ASSUME IInv, NEW p \in Attesters, Seal(p), ~Reverts
    PROVE  FailureAnsweredBySameCheck'
  <1> DEFINE n == Len(proofs) + 1
             new == Sealed(p)
  <1>1. /\ at[p].step = "seal" /\ StillTrue(p)
        /\ FailureAnsweredBySameCheck
        /\ \A i \in DOMAIN proofs : ProofOK(proofs[i])
    BY DEF Seal, IInv
  <1>2. /\ new \in Proof
        /\ ProofOK(new)
        /\ new.status = "verified" => \A d \in Checks(new) : new.results[d] = "passed"
    BY <1>1, SealedOK
  <1>3. /\ Len(proofs) \in Nat
        /\ DOMAIN proofs = 1..Len(proofs)
        /\ DOMAIN proofs' = 1..n
        /\ proofs'[n] = new
        /\ \A i \in DOMAIN proofs : proofs[i] \in Proof
        /\ \A i \in DOMAIN proofs : proofs'[i] =
              IF i \in Retired(new) THEN [proofs[i] EXCEPT !.node = "superseded"] ELSE proofs[i]
    BY SealAppends
  <1>4. \A i \in DOMAIN proofs :
            /\ proofs'[i].covers = proofs[i].covers
            /\ proofs'[i].results = proofs[i].results
            /\ proofs'[i].defs = proofs[i].defs
            /\ proofs'[i].input = proofs[i].input
            /\ i \notin Retired(new) => proofs'[i].node = proofs[i].node
    <2> HIDE DEF new
    <2> TAKE i \in DOMAIN proofs
    <2>1. CASE i \in Retired(new)
      <3>1. proofs[i] \in Proof /\ proofs'[i] = [proofs[i] EXCEPT !.node = "superseded"]
        BY <1>3, <2>1, Zenon
      <3> QED BY <2>1, <3>1, MarkingKeeps, Zenon
    <2>2. CASE i \notin Retired(new)
      BY <1>3, <2>2
    <2> QED BY <2>1, <2>2
  <1>5. new.node # "superseded"
    <2>1. new.node \in {"failed", "incomplete", "inconclusive", "verified"}
      BY <1>1, StatusOfResults DEF IInv, TypeOK, Attestation, Sealed, Checks
    <2> QED BY <2>1
  <1> HIDE DEF new
  <1>6. SUFFICES ASSUME NEW i \in DOMAIN proofs', NEW d \in proofs'[i].defs,
                        proofs'[i].node = "superseded", proofs'[i].results[d] = "failed"
                 PROVE  \E j \in DOMAIN proofs' :
                            /\ i < j
                            /\ proofs'[j].covers = proofs'[i].covers
                            /\ proofs'[j].results[d] = "passed"
                            /\ proofs'[j].input \in Passes[d]
    BY DEF FailureAnsweredBySameCheck, Answered
  <1>7. i \in DOMAIN proofs
    BY <1>3, <1>5, <1>6
  <1>8. CASE i \in Retired(new)
    <2>1. /\ new.status = "verified"
          /\ proofs[i].covers = new.covers
          /\ proofs[i].defs \subseteq new.defs
      BY <1>8 DEF Retired, PolicyStrengthCovers
    <2>2. d \in proofs[i].defs /\ d \in Checks(new) /\ d \in Defs
      BY <1>2, <1>4, <1>7, <2>1 DEF Checks, Proof
    <2>3. new.results[d] = "passed" /\ new.tested[d] \in Passes[d]
      BY <1>2, <2>1, <2>2 DEF ProofOK
    <2>4. new.tested[d] # None
      BY <2>2, <2>3, GateAssumption
    <2>5. new.input \in Passes[d]
      BY <1>2, <2>2, <2>3, <2>4 DEF ProofOK
    <2> QED BY <1>3, <1>4, <1>7, <2>1, <2>3, <2>5
  <1>9. CASE i \notin Retired(new)
    <2>1. PICK j \in DOMAIN proofs : /\ i < j
                                     /\ proofs[j].covers = proofs[i].covers
                                     /\ proofs[j].results[d] = "passed"
                                     /\ proofs[j].input \in Passes[d]
      BY <1>1, <1>4, <1>6, <1>7, <1>9 DEF FailureAnsweredBySameCheck, Answered
    <2> QED BY <1>3, <1>4, <1>7, <2>1
  <1> QED BY <1>8, <1>9

\* Sealing a proof keeps the invariant.
LEMMA SealKeeps ==
    ASSUME IInv, NEW p \in Attesters, Seal(p)
    PROVE  IInv'
  <1> DEFINE n == Len(proofs) + 1
             new == Sealed(p)
  <1>1. /\ TypeOK /\ at[p].step = "seal" /\ StillTrue(p)
        /\ \A i \in DOMAIN proofs : ProofOK(proofs[i])
        /\ \A t \in Tasks : TaskOK(t)
    BY DEF Seal, IInv
  <1>2. /\ artifact' = artifact /\ policy' = policy /\ configs' = configs /\ task' = task
        /\ notice' = notice /\ obligations' = obligations /\ uncertain' = uncertain
        /\ at' = [at EXCEPT ![p] = Idle] /\ spent' = Append(spent, None)
        /\ writes < MaxWrites /\ writes' = writes + 1
    BY DEF Seal
  <1>3. autonomy' \in Autonomy /\ Grown(autonomy, autonomy')
    <2> DEFINE failed == new.status = "failed" /\ new.decision = "allow"
    <2>1. /\ failed => autonomy.lowered < MaxRows
          /\ autonomy' = [autonomy EXCEPT !.lowered = IF failed THEN @ + 1 ELSE @]
      BY DEF Seal
    <2> HIDE DEF failed
    <2> DEFINE k == IF failed THEN autonomy.lowered + 1 ELSE autonomy.lowered
    <2>2. autonomy \in Autonomy /\ autonomy.lowered \in 0..MaxRows
      BY <1>1 DEF TypeOK, Autonomy
    <2>3. k \in 0..MaxRows /\ autonomy.lowered <= k
      BY <2>1, <2>2, GateAssumption
    <2>4. autonomy' = [autonomy EXCEPT !.lowered = k]
      BY <2>1
    <2> HIDE DEF k
    <2> QED BY <2>2, <2>3, <2>4, GateAssumption DEF Autonomy, Grown
  <1>4. /\ proofs' \in Seq(Proof)
        /\ Len(proofs) \in Nat
        /\ DOMAIN proofs = 1..Len(proofs)
        /\ Len(proofs') = n
        /\ DOMAIN proofs' = 1..n
        /\ proofs'[n] = new
        /\ \A i \in DOMAIN proofs : proofs[i] \in Proof
        /\ \A i \in DOMAIN proofs : proofs'[i] =
              IF i \in Retired(new) THEN [proofs[i] EXCEPT !.node = "superseded"] ELSE proofs[i]
    BY SealAppends
  <1>5. spent' \in Seq(Tasks \cup {None}) /\ Len(spent') = n
    BY <1>1, <1>2, AppendProperties DEF TypeOK
  <1>6. /\ at' \in [Attesters -> Attestation]
        /\ at'[p] = Idle
        /\ \A q \in Attesters \ {p} : at'[q] = at[q]
    BY <1>1, <1>2, IdleOK DEF TypeOK
  <1>7. writes' \in Stamp
    BY <1>1, <1>2, GateAssumption DEF TypeOK, Stamp
  <1>8. TypeOK'
    BY <1>1, <1>2, <1>3, <1>4, <1>5, <1>6, <1>7 DEF TypeOK
  <1>9. ASSUME NEW q \in Attesters PROVE AttestationOK(at[q])'
    <2>1. CASE q # p
      BY <1>1, <1>2, <1>3, <1>6, <2>1, WaitingKeeps, GateAssumption DEF TypeOK
    <2>2. CASE q = p
      BY <1>6, <2>2, GateAssumption DEF Idle, AttestationOK, ReadsOK, AutonomyOK, ResultsOK,
          ContentOK, AutonomyRead, TargetsRead, InputsRead, Decided
    <2> QED BY <2>1, <2>2
  <1>10. ASSUME NEW i \in DOMAIN proofs' PROVE ProofOK(proofs'[i])
    <2> HIDE DEF new
    <2>1. CASE i \in DOMAIN proofs
      <3>1. /\ proofs'[i].results = proofs[i].results
            /\ proofs'[i].tested = proofs[i].tested
            /\ proofs'[i].defs = proofs[i].defs
            /\ proofs'[i].own = proofs[i].own
            /\ proofs'[i].input = proofs[i].input
        <4>1. CASE i \in Retired(new)
          <5>1. proofs[i] \in Proof /\ proofs'[i] = [proofs[i] EXCEPT !.node = "superseded"]
            BY <1>4, <2>1, <4>1, Zenon
          <5> QED BY <5>1, MarkingKeeps, Zenon
        <4>2. CASE i \notin Retired(new)
          BY <1>4, <2>1, <4>2
        <4> QED BY <4>1, <4>2
      <3> QED BY <1>1, <2>1, <3>1 DEF ProofOK, Checks
    <2>2. CASE i = n
      BY <1>1, <1>4, <2>2, SealedOK DEF new
    <2> QED BY <1>4, <2>1, <2>2
  <1>11. (\A t \in Tasks : TaskOK(t))'
    BY <1>1, <1>2 DEF TaskOK
  <1>12. (Len(proofs) <= writes)'
    BY <1>1, <1>2, <1>4, GateAssumption DEF IInv, TypeOK, Stamp
  <1>13. (\A i \in DOMAIN proofs : ProofOK(proofs[i]))'
    BY <1>10 DEF ProofOK
  <1> QED BY <1>8, <1>9, <1>11, <1>12, <1>13, SealAnswersFailures DEF IInv

\* A step of the world beside the attestations, none of which seals.
LEMMA BesideKeeps ==
    ASSUME IInv, TypeOK', UNCHANGED <<proofs, at>>, Grown(autonomy, autonomy'),
           Reverts \/ artifact <= artifact', writes <= writes',
           \A t \in Tasks : TaskOK(t)'
    PROVE  IInv'
  <1>1. \A q \in Attesters : AttestationOK(at[q])'
    BY WaitingKeeps DEF TypeOK
  <1>2. /\ (\A i \in DOMAIN proofs : ProofOK(proofs[i]))'
        /\ (~Reverts => FailureAnsweredBySameCheck)'
    BY DEF IInv, ProofOK, FailureAnsweredBySameCheck, Answered
  <1>3. (Len(proofs) <= writes)'
    BY LenProperties, GateAssumption DEF IInv, TypeOK, Stamp
  <1> QED BY <1>1, <1>2, <1>3 DEF IInv

\* The reflexive case of Grown, and the deliverable as it is.
LEMMA StandsStill ==
    ASSUME TypeOK
    PROVE  Grown(autonomy, autonomy) /\ artifact <= artifact
  BY GateAssumption DEF TypeOK, Autonomy, Grown

\* complete_task, with a proof or on the agent's word.
LEMMA CompleteKeeps ==
    ASSUME IInv, CompleteStep
    PROVE  IInv'
  <1>1. PICK t \in Tasks : CompleteUnproven(t) \/ \E i \in DOMAIN proofs : Complete(t, i)
    BY DEF CompleteStep
  <1>2. /\ TypeOK
        /\ \A u \in Tasks : TaskOK(u)
    BY DEF IInv
  <1>3. PICK evidence \in Stamp \cup {None} : Promote(t, evidence) /\ MayComplete(t)
    <2>1. CASE CompleteUnproven(t)
      BY <2>1 DEF CompleteUnproven
    <2>2. ASSUME NEW i \in DOMAIN proofs, Complete(t, i)
          PROVE  i \in Stamp /\ Promote(t, i) /\ MayComplete(t)
      BY <1>2, <2>2, LenProperties, GateAssumption DEF IInv, TypeOK, Stamp, Complete
    <2> QED BY <1>1, <2>1, <2>2
  <1>4. /\ artifact' = artifact /\ policy' = policy /\ configs' = configs
        /\ autonomy' = autonomy /\ notice' = notice /\ obligations' = obligations
        /\ uncertain' = uncertain /\ proofs' = proofs /\ at' = at
        /\ writes < MaxWrites /\ writes' = writes + 1
        /\ task' = [task EXCEPT ![t] = [status |-> "verified", version |-> writes + 1,
                                        evidence |-> evidence]]
    BY <1>3 DEF Promote
  <1>5. writes' \in Stamp /\ writes <= writes'
    BY <1>2, <1>4, GateAssumption DEF TypeOK, Stamp
  <1>6. spent' \in Seq(Tasks \cup {None}) /\ Len(spent') = Len(proofs)
    <2>1. CASE CompleteUnproven(t)
      BY <1>2, <2>1 DEF CompleteUnproven, TypeOK
    <2>2. ASSUME NEW i \in DOMAIN proofs, Complete(t, i)
          PROVE  spent' \in Seq(Tasks \cup {None}) /\ Len(spent') = Len(proofs)
      BY <1>2, <2>2, LenProperties, ExceptSeq DEF TypeOK, Complete
    <2> QED BY <1>1, <2>1, <2>2
  <1>7. task' \in [Tasks -> TaskNode]
    BY <1>2, <1>3, <1>4, <1>5 DEF TypeOK, TaskNode
  <1>8. TypeOK'
    BY <1>2, <1>4, <1>5, <1>6, <1>7 DEF TypeOK
  <1>9. \A u \in Tasks : TaskOK(u)'
    BY <1>2, <1>3, <1>4 DEF TaskOK, TypeOK, TaskNode, MayComplete, Completable
  <1> QED BY <1>2, <1>4, <1>5, <1>8, <1>9, StandsStill, BesideKeeps

\* Edits, policy and the autonomy tables: nothing of the graph moves.
LEMMA SettingsKeep ==
    ASSUME IInv,
           \/ \E c \in Contents : Edit(c)
           \/ \E c \in Policies : SetProjectConfig(c)
           \/ Grant \/ RevokeGrant \/ ClearDowngrades
    PROVE  IInv'
  <1>0. TypeOK /\ \A t \in Tasks : TaskOK(t)
    BY DEF IInv
  <1>1. CASE \E c \in Contents : Edit(c)
    <2>1. PICK c \in Contents : Edit(c)
      BY <1>1
    <2>2. TypeOK'
      BY <1>0, <2>1 DEF Edit, TypeOK
    <2>3. Reverts \/ artifact <= artifact'
      BY <1>0, <2>1, GateAssumption DEF Edit, TypeOK
    <2>4. \A t \in Tasks : TaskOK(t)'
      BY <1>0, <2>1 DEF Edit, TaskOK
    <2>5. UNCHANGED <<proofs, at, autonomy, writes>>
      BY <2>1 DEF Edit
    <2>6. writes <= writes'
      BY <1>0, <2>5, GateAssumption DEF TypeOK, Stamp
    <2> QED BY <1>0, <2>2, <2>3, <2>4, <2>5, <2>6, StandsStill, BesideKeeps
  <1>2. CASE \E c \in Policies : SetProjectConfig(c)
    <2>1. PICK c \in Policies : SetProjectConfig(c)
      BY <1>2
    <2>2. TypeOK'
      BY <1>0, <2>1, GateAssumption DEF SetProjectConfig, TypeOK
    <2>3. \A t \in Tasks : TaskOK(t)'
      BY <1>0, <2>1 DEF SetProjectConfig, TaskOK
    <2>4. UNCHANGED <<proofs, at, autonomy, writes, artifact>>
      BY <2>1 DEF SetProjectConfig
    <2>5. writes <= writes'
      BY <1>0, <2>4, GateAssumption DEF TypeOK, Stamp
    <2> QED BY <1>0, <2>2, <2>3, <2>4, <2>5, StandsStill, BesideKeeps
  <1>3. CASE Grant \/ RevokeGrant \/ ClearDowngrades
    <2>1. autonomy' \in Autonomy /\ Grown(autonomy, autonomy')
      <3>1. autonomy \in Autonomy
        BY <1>0 DEF TypeOK
      <3>2. CASE Grant
        BY <3>1, <3>2, GateAssumption DEF Grant, SetAutonomy, Autonomy, Grown
      <3>3. CASE RevokeGrant
        BY <3>1, <3>3, GateAssumption DEF RevokeGrant, SetAutonomy, Autonomy, Grown
      <3>4. CASE ClearDowngrades
        BY <3>1, <3>4, GateAssumption DEF ClearDowngrades, SetAutonomy, Autonomy, Grown
      <3> QED BY <1>3, <3>2, <3>3, <3>4
    <2>2. UNCHANGED <<artifact, policy, configs, writes, task, notice, obligations, uncertain,
                      proofs, spent, at>>
      BY <1>3 DEF Grant, RevokeGrant, ClearDowngrades, SetAutonomy
    <2>3. TypeOK'
      BY <1>0, <2>1, <2>2 DEF TypeOK
    <2>4. \A t \in Tasks : TaskOK(t)'
      BY <1>0, <2>2 DEF TaskOK
    <2>5. artifact <= artifact' /\ writes <= writes'
      BY <1>0, <2>2, GateAssumption DEF TypeOK, Stamp
    <2> QED BY <2>1, <2>2, <2>3, <2>4, <2>5, BesideKeeps
  <1> QED BY <1>1, <1>2, <1>3

\* Obligations, invalidations, quarantine and pushes: commits that change the graph
\* and complete nothing.
LEMMA GraphKeeps ==
    ASSUME IInv,
           \/ \E conflict \in BOOLEAN : Oblige(conflict)
           \/ \E t \in Tasks, human \in BOOLEAN : Fire(t, human)
           \/ \E t \in Tasks : Resolve(t)
           \/ \E t \in Tasks : Quarantine(t)
           \/ \E lost \in BOOLEAN : Push(lost)
    PROVE  IInv'
  <1>0. TypeOK /\ \A t \in Tasks : TaskOK(t)
    BY DEF IInv
  <1>1. /\ writes < MaxWrites /\ writes' = writes + 1
        /\ UNCHANGED <<artifact, policy, configs, autonomy, proofs, spent, at>>
    BY DEF Oblige, Fire, Resolve, Quarantine, Push
  <1>2. writes' \in Stamp /\ writes <= writes' /\ writes + 1 \in Stamp
    BY <1>0, <1>1, GateAssumption DEF TypeOK, Stamp
  <1>3. /\ task' \in [Tasks -> TaskNode]
        /\ notice' \in [Tasks -> Notice]
        /\ obligations' \in Obligations
        /\ uncertain' \in BOOLEAN
        /\ \A u \in Tasks : TaskOK(u)'
    <2>1. CASE \E conflict \in BOOLEAN : Oblige(conflict)
      BY <1>0, <1>2, <2>1 DEF Oblige, TypeOK, Obligations, TaskOK
    <2>2. ASSUME NEW t \in Tasks, NEW human \in BOOLEAN, Fire(t, human)
          PROVE  /\ task' \in [Tasks -> TaskNode]
                 /\ notice' \in [Tasks -> Notice]
                 /\ UNCHANGED <<obligations, uncertain>>
                 /\ \A u \in Tasks : TaskOK(u)'
      <3> DEFINE hold == [state |-> IF human THEN "pending_confirmation" ELSE "open",
                          restore |-> task[t].status]
      <3>1. /\ hold \in Notice
            /\ hold.restore = task[t].status
            /\ task[t] \in TaskNode
        BY <1>0 DEF TypeOK, TaskNode, Notice
      <3>2. notice' = [notice EXCEPT ![t] = hold] /\ UNCHANGED <<obligations, uncertain>>
        BY <2>2 DEF Fire
      <3>3. /\ notice' \in [Tasks -> Notice]
            /\ notice'[t] = hold
            /\ \A u \in Tasks \ {t} : notice'[u] = notice[u]
        BY <1>0, <3>1, <3>2 DEF TypeOK
      <3>4. /\ task' \in [Tasks -> TaskNode]
            /\ \A u \in Tasks \ {t} : task'[u] = task[u]
            /\ task'[t].evidence = task[t].evidence
            /\ task'[t].status \in {task[t].status, "blocked"}
        BY <1>0, <1>2, <2>2 DEF Fire, TypeOK, TaskNode
      <3>5. TaskOK(t)'
        BY <1>0, <2>2, <3>1, <3>3, <3>4 DEF TaskOK, Fire, TaskNode
      <3>6. \A u \in Tasks \ {t} : TaskOK(u)'
        BY <1>0, <3>3, <3>4 DEF TaskOK
      <3> QED BY <3>2, <3>3, <3>4, <3>5, <3>6
    <2>3. ASSUME NEW t \in Tasks, Resolve(t)
          PROVE  /\ task' \in [Tasks -> TaskNode]
                 /\ notice' \in [Tasks -> Notice]
                 /\ UNCHANGED <<obligations, uncertain>>
                 /\ \A u \in Tasks : TaskOK(u)'
      <3>1. /\ notice[t].restore \in {"open", "verified", "blocked", "quarantined"}
            /\ task[t] \in TaskNode
        BY <1>0, <2>3 DEF Resolve, TaskOK, TypeOK
      <3>2. /\ notice' \in [Tasks -> Notice]
            /\ notice'[t].state = "none"
            /\ \A u \in Tasks \ {t} : notice'[u] = notice[u]
        BY <1>0, <2>3 DEF Resolve, TypeOK, Notice
      <3>3. /\ task' \in [Tasks -> TaskNode]
            /\ \A u \in Tasks \ {t} : task'[u] = task[u]
            /\ task'[t].evidence = task[t].evidence
            /\ \/ task'[t].status = task[t].status
               \/ /\ notice[t].state = "open" /\ task[t].status = "blocked"
                  /\ task'[t].status = notice[t].restore
        BY <1>0, <1>2, <2>3, <3>1 DEF Resolve, TypeOK, TaskNode
      <3>4. TaskOK(t)'
        BY <1>0, <3>2, <3>3 DEF TaskOK
      <3>5. \A u \in Tasks \ {t} : TaskOK(u)'
        BY <1>0, <3>2, <3>3 DEF TaskOK
      <3> QED BY <2>3, <3>2, <3>3, <3>4, <3>5 DEF Resolve
    <2>4. ASSUME NEW t \in Tasks, Quarantine(t)
          PROVE  /\ task' \in [Tasks -> TaskNode]
                 /\ UNCHANGED <<notice, obligations, uncertain>>
                 /\ \A u \in Tasks : TaskOK(u)'
      <3>1. /\ task' \in [Tasks -> TaskNode]
            /\ \A u \in Tasks \ {t} : task'[u] = task[u]
            /\ task'[t].status = "quarantined"
        BY <1>0, <1>2, <2>4 DEF Quarantine, TypeOK, TaskNode
      <3>2. UNCHANGED <<notice, obligations, uncertain>>
        BY <2>4 DEF Quarantine
      <3>3. \A u \in Tasks : TaskOK(u)'
        BY <1>0, <3>1, <3>2 DEF TaskOK
      <3> QED BY <3>1, <3>2, <3>3
    <2>5. CASE \E lost \in BOOLEAN : Push(lost)
      BY <1>0, <2>5 DEF Push, TypeOK, TaskOK
    <2> QED BY <1>0, <2>1, <2>2, <2>3, <2>4, <2>5 DEF TypeOK
  <1>4. TypeOK'
    BY <1>0, <1>1, <1>2, <1>3 DEF TypeOK
  <1> QED BY <1>0, <1>1, <1>2, <1>3, <1>4, StandsStill, BesideKeeps

-----------------------------------------------------------------------------
(* The theorems.                                                           *)

\* The invariant holds of every initial state.
LEMMA InitEstablishes == Init => IInv
  <1> SUFFICES ASSUME Init PROVE IInv
    OBVIOUS
  <1>1. artifact \in Contents /\ policy \in Policy /\ configs \in 0..MaxConfigs
    BY GateAssumption DEF Init
  <1>2. autonomy \in Autonomy
    BY GateAssumption DEF Init, Autonomy
  <1>3. /\ writes = 0 /\ 0 \in Stamp
        /\ task \in [Tasks -> TaskNode]
        /\ notice \in [Tasks -> Notice]
        /\ obligations \in Obligations
        /\ uncertain \in BOOLEAN
    <2>1. 0 \in Stamp
      BY GateAssumption DEF Stamp
    <2>2. writes = 0 /\ uncertain \in BOOLEAN
      BY DEF Init
    <2>3. task \in [Tasks -> TaskNode]
      BY <2>1 DEF Init, TaskNode
    <2>4. notice \in [Tasks -> Notice]
      BY DEF Init, Notice
    <2>5. obligations \in Obligations
      BY <2>1 DEF Init, Obligations
    <2> QED BY <2>1, <2>2, <2>3, <2>4, <2>5
  <1>4. /\ proofs = << >> /\ proofs \in Seq(Proof) /\ Len(proofs) = 0 /\ DOMAIN proofs = {}
        /\ spent \in Seq(Tasks \cup {None}) /\ Len(spent) = 0
    BY DEF Init
  <1>5. at \in [Attesters -> Attestation] /\ \A p \in Attesters : AttestationOK(at[p])
    BY IdleOK DEF Init
  <1>6. \A t \in Tasks : TaskOK(t)
    BY DEF Init, TaskOK
  <1> QED BY <1>1, <1>2, <1>3, <1>4, <1>5, <1>6
          DEF IInv, TypeOK, FailureAnsweredBySameCheck, Answered

\* Every step keeps it.
LEMMA NextKeeps == IInv /\ [Next]_vars => IInv'
  <1> SUFFICES ASSUME IInv, [Next]_vars PROVE IInv'
    OBVIOUS
  <1>1. ASSUME NEW p \in Attesters, AttestStep(p) PROVE IInv'
    BY <1>1, ReadsKeep, RunsKeep, SealKeeps, DiscardKeeps DEF AttestStep
  <1>2. CASE OperatorStep
    BY <1>2, SettingsKeep, GraphKeeps DEF OperatorStep
  <1>3. CASE UNCHANGED vars
    <2>1. UNCHANGED world /\ UNCHANGED at
      BY <1>3 DEF vars, world
    <2>2. /\ TypeOK'
          /\ \A t \in Tasks : TaskOK(t)'
      BY <2>1 DEF world, IInv, TypeOK, TaskOK
    <2>3. /\ UNCHANGED <<artifact, autonomy, writes, proofs, at>>
          /\ TypeOK
          /\ writes <= writes'
      BY <2>1, GateAssumption DEF world, IInv, TypeOK, Stamp
    <2> QED BY <2>2, <2>3, StandsStill, BesideKeeps
  <1> QED BY <1>1, <1>2, <1>3, CompleteKeeps, SettingsKeep DEF Next

\* The shapes of the gate's tables hold in every reachable state.
THEOREM TypeCorrect == Spec => []TypeOK
  <1>1. IInv => TypeOK
    BY DEF IInv
  <1> QED BY <1>1, InitEstablishes, NextKeeps, PTL DEF Spec

\* Where no edit brings back an earlier content, a sealed proof records the very
\* content that each of its verifiers was run against: between hashing the files
\* and comparing them again, the copies the verifiers got cannot have differed.
THEOREM ProofsRecordWhatWasTested ==
    ASSUME ~Reverts PROVE Spec => []RecordedIsTested
  <1>1. IInv => RecordedIsTested
    BY DEF IInv, ProofOK, RecordedIsTested
  <1> QED BY <1>1, InitEstablishes, NextKeeps, PTL DEF Spec

\* Where no edit brings back an earlier content, each definition of its policy that
\* failed in a superseded proof passes in a later proof of the same claim, on what
\* that proof records: _policy_strength_covers retires no failure it cannot match.
THEOREM FailuresAreAnswered ==
    ASSUME ~Reverts PROVE Spec => []FailureAnsweredBySameCheck
  <1>1. IInv => FailureAnsweredBySameCheck
    BY DEF IInv
  <1> QED BY <1>1, InitEstablishes, NextKeeps, PTL DEF Spec

\* A completion that proof is required for finds the deliverable passing every
\* definition that policy requires at that moment.
LEMMA CompletionIsTrue ==
    ASSUME IInv, ~Reverts, NEW t \in Tasks, NEW i \in DOMAIN proofs, Complete(t, i),
           policy.required
    PROVE  policy.defs # {} /\ \A d \in policy.defs : artifact \in Passes[d]
  <1>1. /\ policy.defs # {}
        /\ policy.defs \subseteq Defs
        /\ \A d \in policy.defs : proofs[i].results[d] = "passed"
        /\ proofs[i].input = Files(Checks(proofs[i]))
    BY DEF Complete, Accepts, Current, IInv, TypeOK, Policy
  <1>2. ASSUME NEW d \in policy.defs
        PROVE  artifact \in Passes[d]
    <2>1. /\ d \in Checks(proofs[i])
          /\ proofs[i].tested[d] \in Passes[d]
          /\ proofs[i].tested[d] # None => proofs[i].tested[d] = proofs[i].input
      BY <1>1, <1>2 DEF IInv, ProofOK
    <2>2. proofs[i].tested[d] # None
      BY <1>1, <1>2, <2>1, GateAssumption
    <2> QED BY <1>1, <2>1, <2>2 DEF Files
  <1> QED BY <1>1, <1>2

\* The steps that may write a task node.
LEMMA TaskMovers ==
    ASSUME Next
    PROVE  \/ CompleteStep
           \/ \E u \in Tasks, human \in BOOLEAN : Fire(u, human)
           \/ \E u \in Tasks : Resolve(u) \/ Quarantine(u)
           \/ UNCHANGED task
  BY DEF Next, AttestStep, OperatorStep, Attest, ReadAutonomy, ReadPolicy, ReadFiles,
      ReadObligations, ReadDefinitions, ReadTargets, ReadInputs, Decide, Run, RecheckRun,
      RecheckProbe, Seal, Discard, Advance, world, SetProjectConfig, Grant, RevokeGrant,
      ClearDowngrades, SetAutonomy, Oblige, Push, Edit

\* No false completion, whatever processes attest, edit and reconfigure, where no
\* edit brings back an earlier content.
THEOREM CompletionsAreTrue ==
    ASSUME ~Reverts PROVE Spec => NoFalseCompletion
  <1> DEFINE Honest(t) ==
        task[t].status = "open" /\ task'[t].status = "verified" /\ policy.required =>
            /\ policy.defs # {}
            /\ \A d \in policy.defs : artifact \in Passes[d]
  <1>1. IInv /\ [Next]_vars => [\A t \in Tasks : Honest(t)]_vars
    <2> SUFFICES ASSUME IInv, Next, NEW t \in Tasks, task[t].status = "open",
                        task'[t].status = "verified", policy.required
                 PROVE  policy.defs # {} /\ \A d \in policy.defs : artifact \in Passes[d]
      OBVIOUS
    <2>1. TypeOK
      BY DEF IInv
    <2>2. \/ CompleteStep
          \/ \E u \in Tasks, human \in BOOLEAN : Fire(u, human)
          \/ \E u \in Tasks : Resolve(u) \/ Quarantine(u)
          \/ UNCHANGED task
      BY TaskMovers
    <2>3. ASSUME NEW u \in Tasks, NEW human \in BOOLEAN, Fire(u, human) PROVE FALSE
      BY <2>1, <2>3 DEF Fire, TypeOK, TaskNode
    <2>4. ASSUME NEW u \in Tasks, Resolve(u) PROVE FALSE
      BY <2>1, <2>4 DEF Resolve, TypeOK, TaskNode
    <2>5. ASSUME NEW u \in Tasks, Quarantine(u) PROVE FALSE
      BY <2>1, <2>5 DEF Quarantine, TypeOK, TaskNode
    <2>6. PICK u \in Tasks : CompleteUnproven(u) \/ \E i \in DOMAIN proofs : Complete(u, i)
      BY <2>2, <2>3, <2>4, <2>5 DEF CompleteStep
    <2> QED BY <2>6, CompletionIsTrue DEF CompleteUnproven
  <1> QED BY <1>1, InitEstablishes, NextKeeps, PTL DEF Spec, NoFalseCompletion

\* The evidence of a task is written once, whatever invalidations, resolutions,
\* quarantines and further attempts follow.
THEOREM EvidenceIsFinal == Spec => EvidenceWrittenOnce
  <1> DEFINE Kept(t) == task[t].evidence # None => task'[t].evidence = task[t].evidence
  <1>1. IInv /\ [Next]_vars => [\A t \in Tasks : Kept(t)]_vars
    <2> SUFFICES ASSUME IInv, Next, NEW t \in Tasks, task[t].evidence # None
                 PROVE  task'[t].evidence = task[t].evidence
      OBVIOUS
    <2>1. TypeOK /\ TaskOK(t)
      BY DEF IInv
    <2>2. \/ CompleteStep
          \/ \E u \in Tasks, human \in BOOLEAN : Fire(u, human)
          \/ \E u \in Tasks : Resolve(u) \/ Quarantine(u)
          \/ UNCHANGED task
      BY TaskMovers
    <2>3. CASE CompleteStep
      BY <2>1, <2>3 DEF CompleteStep, CompleteUnproven, Complete, Promote, MayComplete,
          Completable, TaskOK, TypeOK, TaskNode
    <2>4. CASE \E u \in Tasks, human \in BOOLEAN : Fire(u, human)
      BY <2>1, <2>4 DEF Fire, TypeOK, TaskNode
    <2>5. CASE \E u \in Tasks : Resolve(u)
      BY <2>1, <2>5 DEF Resolve, TypeOK, TaskNode
    <2>6. CASE \E u \in Tasks : Quarantine(u)
      BY <2>1, <2>6 DEF Quarantine, TypeOK, TaskNode
    <2> QED BY <2>2, <2>3, <2>4, <2>5, <2>6
  <1> QED BY <1>1, InitEstablishes, NextKeeps, PTL DEF Spec, EvidenceWrittenOnce

\* A proof that says it was allowed is never committed against a downgrade or a
\* revoked grant, although autonomy was decided long before the transaction.
THEOREM SealsRespectDowngrades == Spec => NoSealAgainstDowngrade
  <1>1. IInv /\ [Next]_vars =>
            [Len(proofs') > Len(proofs) /\ proofs'[Len(proofs')].decision = "allow"
                => Allowed]_vars
    <2> SUFFICES ASSUME IInv, Next, Len(proofs') > Len(proofs),
                        proofs'[Len(proofs')].decision = "allow"
                 PROVE  Allowed
      OBVIOUS
    <2>1. proofs' # proofs
      BY LenProperties DEF IInv, TypeOK
    <2>2. PICK p \in Attesters : Seal(p)
      BY <2>1 DEF Next, AttestStep, CompleteStep, OperatorStep, Attest, ReadAutonomy, ReadPolicy,
          ReadFiles, ReadObligations, ReadDefinitions, ReadTargets, ReadInputs, Decide, Run,
          RecheckRun, RecheckProbe, Discard, Advance, world, CompleteUnproven, Complete, Promote,
          SetProjectConfig, Grant, RevokeGrant, ClearDowngrades, SetAutonomy, Oblige, Fire,
          Resolve, Quarantine, Push, Edit
    <2>3. at[p].decision = "allow"
      <3>1. proofs'[Len(proofs')] = Sealed(p)
        BY <2>2, SealAppends
      <3>2. Sealed(p).decision = at[p].decision
        BY DEF Sealed
      <3> QED BY <3>1, <3>2
    <2>4. at[p].control.autonomy = autonomy
      BY <2>2 DEF Seal, StillTrue, Control
    <2> QED BY <2>3, <2>4 DEF IInv, AttestationOK, AutonomyOK
  <1> QED BY <1>1, InitEstablishes, NextKeeps, PTL DEF Spec, NoSealAgainstDowngrade

=============================================================================
