--------------------------- MODULE AdmissionProofs ---------------------------
(***************************************************************************)
(* What comes into the engine, proved for any number of connections,       *)
(* openers, tenants, files, refs, pushes and checks.                       *)
(*                                                                         *)
(*  - Learning: a connection in a decision holds the write lock, so what   *)
(*    the decision read is still so when it commits.                       *)
(*  - StoreOpen: as far as an opener is, the file has come at least, and   *)
(*    no statement of another opener takes anything back.                  *)
(*  - Authority: the log says what stands.  What the nodes, claims and     *)
(*    notices hold is what the decisions and edits of the log make of      *)
(*    them, and the code's conditions let each event keep it so.           *)
(*  - Frontier: the stored frontier is of this policy epoch or an earlier  *)
(*    one; of this one, it is doubted or where the newest push left it.    *)
(***************************************************************************)
EXTENDS Admission, FiniteSetTheorems, SequenceTheorems, TLAPS

(* ------------------------------- learning ------------------------------- *)

Evaluation == [version: Nat, sources: SUBSET Nat]
Replay == [status: {"replay_ready", "replay_done"}, version: Nat]
Skill == [status: {"proposed", "approved"}, version: Nat, from: SUBSET Nat]

TypeOK ==
    /\ failures \in Seq(Boundaries)
    /\ DOMAIN evals \subseteq Boundaries \X Splits
    /\ evals \in [DOMAIN evals -> Evaluation]
    /\ replays \in Seq(Replay)
    /\ skills \in Seq(Skill)
    /\ lock \in Connections \cup {None}
    /\ DOMAIN work = Connections
    /\ made \subseteq Nat \X Splits

\* Only the holder of the lock is in a decision, about something that is there,
\* and what it has read is so.
WorkOK ==
    \A c \in Connections : work[c] # None =>
        /\ lock = c
        /\ work[c] = [of |-> work[c].of, saw |-> work[c].saw]
        /\ work[c].of \in Decisions
        /\ work[c].saw # None => work[c].saw = Target(work[c].of) /\ Allowed(work[c].saw)

\* What an evaluation was made from is on record.
MadeOK ==
    /\ \A m \in made : m[1] \in DOMAIN failures /\ <<failures[m[1]], m[2]>> \in DOMAIN evals
    /\ \A k \in DOMAIN evals : evals[k].sources \subseteq DOMAIN failures

IInv == TypeOK /\ WorkOK /\ MadeOK /\ LearnedExactly

-----------------------------------------------------------------------------
\* What appending to a sequence of the database does.
LEMMA Appended ==
    ASSUME NEW S, NEW s \in Seq(S), NEW e \in S
    PROVE  /\ Append(s, e) \in Seq(S)
           /\ DOMAIN s = 1..Len(s) /\ Len(s) \in Nat
           /\ DOMAIN Append(s, e) = 1..(Len(s) + 1)
           /\ \A n \in DOMAIN s : Append(s, e)[n] = s[n]
           /\ Append(s, e)[Len(s) + 1] = e
  BY AppendProperties, LenProperties

\* Inserts wait for the lock, so nobody is in a decision.
LEMMA InsertKeeps ==
    ASSUME None \notin Connections, IInv,
           \/ \E b \in Boundaries : Compost(b)
           \/ Start
           \/ \E from \in SUBSET DOMAIN failures : Propose(from)
    PROVE  IInv'
  <1>1. TypeOK /\ WorkOK /\ MadeOK /\ DecidedOnce /\ SourcesExact
    BY DEF IInv, LearnedExactly
  <1>2. /\ UNCHANGED <<lock, work, made>>
        /\ \A c \in Connections : work[c] = None
    BY <1>1 DEF Compost, Start, Propose, Unlocked, WorkOK
  <1>3. WorkOK'
    BY <1>2 DEF WorkOK
  <1>4. ASSUME NEW b \in Boundaries, Compost(b) PROVE IInv'
    <2>1. failures' = Append(failures, b) /\ UNCHANGED <<evals, replays, skills>>
      BY <1>4 DEF Compost
    <2>2. /\ failures' \in Seq(Boundaries)
          /\ DOMAIN failures \subseteq DOMAIN failures'
          /\ \A n \in DOMAIN failures : failures'[n] = failures[n]
      BY <1>1, <2>1, Appended DEF TypeOK
    <2>3. TypeOK'
      BY <1>1, <1>2, <2>1, <2>2 DEF TypeOK
    <2>4. MadeOK' /\ DecidedOnce'
      BY <1>1, <1>2, <2>1, <2>2 DEF MadeOK, DecidedOnce
    <2>5. SourcesExact'
      BY <1>1, <1>2, <2>1, <2>2 DEF SourcesExact, MadeOK
    <2> QED BY <1>3, <2>3, <2>4, <2>5 DEF IInv, LearnedExactly
  <1>5. CASE Start
    <2> DEFINE r == [status |-> "replay_ready", version |-> 1]
    <2>1. replays' = Append(replays, r) /\ UNCHANGED <<evals, failures, skills>>
      BY <1>5 DEF Start
    <2>2. r \in Replay /\ r.status = "replay_ready" /\ r.version = 1
      BY DEF Replay
    <2> HIDE DEF r
    <2>3. /\ replays' \in Seq(Replay)
          /\ \A n \in DOMAIN replays' : (n \in DOMAIN replays /\ replays'[n] = replays[n])
                                        \/ replays'[n] = r
      BY <1>1, <2>1, <2>2, Appended DEF TypeOK
    <2>4. TypeOK'
      BY <1>1, <1>2, <2>1, <2>3 DEF TypeOK
    <2>5. MadeOK' /\ DecidedOnce' /\ SourcesExact'
      BY <1>1, <1>2, <2>1, <2>2, <2>3 DEF MadeOK, DecidedOnce, SourcesExact
    <2> QED BY <1>3, <2>4, <2>5 DEF IInv, LearnedExactly
  <1>6. ASSUME NEW from \in SUBSET DOMAIN failures, Propose(from) PROVE IInv'
    <2> DEFINE s == [status |-> "proposed", version |-> 1, from |-> from]
    <2>1. skills' = Append(skills, s) /\ UNCHANGED <<evals, failures, replays>>
      BY <1>6 DEF Propose
    <2>2. s \in Skill /\ s.status = "proposed" /\ s.version = 1
      BY <1>1, LenProperties DEF Skill, TypeOK
    <2> HIDE DEF s
    <2>3. /\ skills' \in Seq(Skill)
          /\ \A n \in DOMAIN skills' : (n \in DOMAIN skills /\ skills'[n] = skills[n])
                                       \/ skills'[n] = s
      BY <1>1, <2>1, <2>2, Appended DEF TypeOK
    <2>4. TypeOK'
      BY <1>1, <1>2, <2>1, <2>3 DEF TypeOK
    <2>5. MadeOK' /\ DecidedOnce' /\ SourcesExact'
      BY <1>1, <1>2, <2>1, <2>2, <2>3 DEF MadeOK, DecidedOnce, SourcesExact
    <2> QED BY <1>3, <2>4, <2>5 DEF IInv, LearnedExactly
  <1> QED BY <1>4, <1>5, <1>6

\* Entering a decision, reading its target, and failing change nothing on record.
LEMMA UnwrittenKeeps ==
    ASSUME None \notin Connections, IInv, NEW c \in Connections,
           (\E d \in Decisions : Begin(c, d)) \/ Read(c) \/ Fail(c)
    PROVE  IInv'
  <1>1. TypeOK /\ WorkOK /\ MadeOK /\ DecidedOnce /\ SourcesExact
    BY DEF IInv, LearnedExactly
  <1>2. UNCHANGED <<failures, evals, replays, skills, made>>
    BY DEF Begin, Read, Fail, Db
  <1>3. Decisions' = Decisions /\ \A d : Target(d)' = Target(d)
    BY <1>2 DEF Decisions, Target, Key
  <1>4. MadeOK' /\ DecidedOnce' /\ SourcesExact'
    BY <1>1, <1>2 DEF MadeOK, DecidedOnce, SourcesExact
  <1>5. ASSUME NEW d \in Decisions, Begin(c, d) PROVE IInv'
    <2> DEFINE w == [of |-> d, saw |-> None]
    <2>1. /\ lock = None /\ lock' = c /\ work' = [work EXCEPT ![c] = w]
          /\ \A e \in Connections : work[e] = None
      BY <1>1, <1>5 DEF Begin, WorkOK
    <2>2. /\ DOMAIN work' = Connections
          /\ work'[c] = w
          /\ \A e \in Connections \ {c} : work'[e] = None
      BY <1>1, <2>1 DEF TypeOK
    <2>3. WorkOK'
      BY <1>3, <2>1, <2>2 DEF WorkOK
    <2>4. TypeOK'
      BY <1>1, <1>2, <2>1, <2>2 DEF TypeOK
    <2> QED BY <1>4, <2>3, <2>4 DEF IInv, LearnedExactly
  <1>6. ASSUME work[c] # None, work' = [work EXCEPT ![c] = None],
               lock' = IF lock = c THEN None ELSE lock
        PROVE  IInv'
    <2>1. /\ DOMAIN work' = Connections
          /\ work'[c] = None
          /\ \A e \in Connections \ {c} : work'[e] = work[e]
          /\ lock = c /\ lock' = None
      BY <1>1, <1>6 DEF TypeOK, WorkOK
    <2>2. \A e \in Connections : work'[e] = None
      BY <1>1, <2>1 DEF WorkOK
    <2>3. WorkOK' /\ TypeOK'
      BY <1>1, <1>2, <2>1, <2>2 DEF WorkOK, TypeOK
    <2> QED BY <1>4, <2>3 DEF IInv, LearnedExactly
  <1>7. CASE Read(c)
    <2> DEFINE saw == Target(work[c].of)
    <2>1. CASE Allowed(saw)
      <3>1. work[c] # None /\ work' = [work EXCEPT ![c].saw = saw] /\ lock' = lock
        BY <1>7, <2>1 DEF Read
      <3>2. /\ lock = c /\ work[c] = [of |-> work[c].of, saw |-> work[c].saw]
            /\ work[c].of \in Decisions
        BY <1>1, <3>1 DEF WorkOK
      <3> HIDE DEF saw
      <3>3. /\ DOMAIN work' = Connections
            /\ work'[c] = [of |-> work[c].of, saw |-> saw]
            /\ \A e \in Connections \ {c} : work'[e] = work[e]
        BY <1>1, <3>1, <3>2 DEF TypeOK
      <3>4. \A e \in Connections \ {c} : work'[e] = None
        BY <1>1, <3>2, <3>3 DEF WorkOK
      <3>5. WorkOK'
        BY <1>3, <2>1, <3>1, <3>2, <3>3, <3>4 DEF WorkOK, Allowed, saw
      <3>6. TypeOK'
        BY <1>1, <1>2, <3>1, <3>3 DEF TypeOK
      <3> QED BY <1>4, <3>5, <3>6 DEF IInv, LearnedExactly
    <2>2. CASE ~Allowed(saw)
      BY <1>6, <1>7, <2>2 DEF Read
    <2> QED BY <2>1, <2>2
  <1>8. CASE Fail(c)
    BY <1>6, <1>8 DEF Fail
  <1> QED BY <1>5, <1>7, <1>8

\* A commit finds its target as it was read, because the lock was held throughout.
LEMMA CommitKeeps ==
    ASSUME None \notin Connections, IInv, NEW c \in Connections, Commit(c)
    PROVE  IInv'
  <1> DEFINE d == work[c].of
             saw == work[c].saw
  <1>1. TypeOK /\ WorkOK /\ MadeOK /\ DecidedOnce /\ SourcesExact
    BY DEF IInv, LearnedExactly
  <1>2. /\ work[c] # None /\ lock = c /\ lock' = None
        /\ work' = [work EXCEPT ![c] = None]
        /\ d \in Decisions /\ saw = Target(d) /\ Allowed(saw)
    BY <1>1 DEF Commit, WorkOK
  <1>3. DOMAIN work' = Connections /\ \A e \in Connections : work'[e] = None
    BY <1>1, <1>2 DEF TypeOK, WorkOK
  <1>4. WorkOK'
    BY <1>3 DEF WorkOK
  <1>5. CASE d.op = "from_failure" /\ FromFailure(d, saw)
    <2> DEFINE k == Key(d)
               e == [version |-> Versioned(saw, Held(k)), sources |-> Sourced(saw, Held(k), d.of)]
    <2>1. d.of \in DOMAIN failures /\ d.split \in Splits
      BY <1>2, <1>5 DEF Decisions
    <2>2. d.of \in Nat /\ failures[d.of] \in Boundaries
      BY <1>1, <2>1, LenProperties, ElementOfSeq DEF TypeOK
    <2>3. k = <<failures[d.of], d.split>> /\ k \in Boundaries \X Splits
      BY <2>1, <2>2 DEF Key
    <2>4. saw = IF k \in DOMAIN evals THEN "exists" ELSE "new"
      BY <1>2, <1>5 DEF Target
    <2>5. /\ evals' = [x \in DOMAIN evals \cup {k} |-> IF x = k THEN e ELSE evals[x]]
          /\ made' = made \cup {<<d.of, d.split>>}
          /\ UNCHANGED <<failures, replays, skills>>
      BY <1>5 DEF FromFailure
    <2> HIDE DEF k
    <2>6. /\ e \in Evaluation /\ e.version = 1
          /\ d.of \in e.sources
          /\ k \in DOMAIN evals => evals[k].sources \subseteq e.sources
          /\ \A f \in e.sources : f = d.of \/ (k \in DOMAIN evals /\ f \in evals[k].sources)
      <3>1. CASE k \in DOMAIN evals
        <4>1. Held(k) = evals[k] /\ evals[k] \in Evaluation /\ evals[k].version = 1
          BY <1>1, <3>1 DEF Held, TypeOK, DecidedOnce
        <4>2. e.version = evals[k].version /\ e.sources = evals[k].sources \cup {d.of}
          BY <2>4, <3>1, <4>1 DEF Versioned, Sourced
        <4>3. e \in Evaluation
          BY <2>2, <2>4, <3>1, <4>1 DEF Versioned, Sourced, Evaluation
        <4> HIDE DEF e
        <4> QED BY <3>1, <4>1, <4>2, <4>3
      <3>2. CASE k \notin DOMAIN evals
        <4>1. Held(k) = [version |-> 0, sources |-> {}] /\ saw = "new"
          BY <2>4, <3>2 DEF Held
        <4>2. e = [version |-> 1, sources |-> {d.of}]
          BY <4>1 DEF Versioned, Sourced
        <4> HIDE DEF e
        <4>3. e.version = 1 /\ e.sources = {d.of} /\ e \in Evaluation
          BY <2>2, <4>2 DEF Evaluation
        <4> QED BY <3>2, <4>3
      <3> QED BY <3>1, <3>2
    <2> HIDE DEF e
    <2>7. /\ DOMAIN evals' = DOMAIN evals \cup {k}
          /\ evals'[k] = e
          /\ \A x \in DOMAIN evals : x # k => evals'[x] = evals[x]
      BY <2>5
    <2>8. TypeOK'
      <3>1. evals' \in [DOMAIN evals' -> Evaluation]
        BY <1>1, <2>5, <2>6 DEF TypeOK
      <3>2. made' \subseteq Nat \X Splits
        BY <1>1, <2>1, <2>2, <2>5 DEF TypeOK
      <3> QED BY <1>1, <1>2, <1>3, <2>3, <2>5, <2>7, <3>1, <3>2 DEF TypeOK
    <2>9. MadeOK'
      <3>1. \A m \in made' : m[1] \in DOMAIN failures /\ <<failures[m[1]], m[2]>> \in DOMAIN evals'
        BY <1>1, <2>1, <2>3, <2>5, <2>7 DEF MadeOK
      <3>2. \A x \in DOMAIN evals' : evals'[x].sources \subseteq DOMAIN failures
        BY <1>1, <2>1, <2>6, <2>7 DEF MadeOK
      <3> QED BY <2>5, <3>1, <3>2 DEF MadeOK
    <2>10. DecidedOnce'
      BY <1>1, <2>5, <2>6, <2>7 DEF DecidedOnce
    <2>11. SourcesExact'
      <3>1. ASSUME NEW m \in made' PROVE m[1] \in evals'[<<failures[m[1]], m[2]>>].sources
        <4>1. CASE m = <<d.of, d.split>>
          BY <2>3, <2>6, <2>7, <4>1
        <4>2. CASE m \in made
          BY <1>1, <2>6, <2>7, <4>2 DEF SourcesExact, MadeOK
        <4> QED BY <2>5, <3>1, <4>1, <4>2
      <3>2. ASSUME NEW x \in DOMAIN evals', NEW f \in evals'[x].sources PROVE failures[f] = x[1]
        <4>1. CASE x = k
          BY <1>1, <2>3, <2>6, <2>7, <3>2, <4>1 DEF SourcesExact
        <4>2. CASE x # k
          BY <1>1, <2>7, <3>2, <4>2 DEF SourcesExact
        <4> QED BY <4>1, <4>2
      <3> QED BY <2>5, <3>1, <3>2 DEF SourcesExact
    <2> QED BY <1>4, <2>8, <2>9, <2>10, <2>11 DEF IInv, LearnedExactly
  <1>6. CASE d.op = "record_result" /\ RecordResult(d)
    <2> DEFINE r == [status |-> "replay_done", version |-> replays[d.of].version + 1]
    <2>1. d.of \in 1..Len(replays)
      BY <1>1, <1>2, <1>6, LenProperties DEF Decisions, TypeOK
    <2>2. replays[d.of] \in Replay /\ replays[d.of].status = "replay_ready"
      <3>1. replays[d.of] \in Replay
        BY <1>1, <2>1, ElementOfSeq DEF TypeOK
      <3>2. saw = replays[d.of].status
        BY <1>2, <1>6 DEF Target
      <3> QED BY <1>2, <3>1, <3>2 DEF Allowed, Replay
    <2>3. r \in Replay /\ r.status = "replay_done" /\ r.version = 2
      BY <1>1, <2>1, <2>2, LenProperties DEF Replay, DecidedOnce, TypeOK
    <2>4. /\ replays' = [replays EXCEPT ![d.of] = r]
          /\ UNCHANGED <<failures, evals, skills, made>>
      BY <1>6 DEF RecordResult
    <2> HIDE DEF r
    <2>5. /\ replays' \in Seq(Replay)
          /\ Len(replays') = Len(replays)
          /\ \A n \in 1..Len(replays) : replays'[n] = IF n = d.of THEN r ELSE replays[n]
      BY <1>1, <2>1, <2>3, <2>4, ExceptSeq DEF TypeOK
    <2>6. TypeOK'
      BY <1>1, <1>2, <1>3, <2>4, <2>5 DEF TypeOK
    <2>7. DecidedOnce'
      BY <1>1, <2>3, <2>4, <2>5, <2>6, LenProperties DEF DecidedOnce, TypeOK
    <2>8. MadeOK' /\ SourcesExact'
      BY <1>1, <2>4 DEF MadeOK, SourcesExact
    <2> QED BY <1>4, <2>6, <2>7, <2>8 DEF IInv, LearnedExactly
  <1>7. CASE d.op = "approve" /\ Approve(d)
    <2> DEFINE s == [skills[d.of] EXCEPT !.status = "approved", !.version = @ + 1]
    <2>1. d.of \in 1..Len(skills)
      BY <1>1, <1>2, <1>7, LenProperties DEF Decisions, TypeOK
    <2>2. skills[d.of] \in Skill /\ skills[d.of].status = "proposed"
      <3>1. skills[d.of] \in Skill
        BY <1>1, <2>1, ElementOfSeq DEF TypeOK
      <3>2. saw = skills[d.of].status
        BY <1>2, <1>7 DEF Target
      <3> QED BY <1>2, <3>1, <3>2 DEF Allowed, Skill
    <2>3. s \in Skill /\ s.status = "approved" /\ s.version = 2
      <3>1. skills[d.of].version = 1
        BY <1>1, <2>1, <2>2, LenProperties DEF DecidedOnce, TypeOK
      <3>2. \A v \in Nat :
                LET new == [skills[d.of] EXCEPT !.status = "approved", !.version = v] IN
                new \in Skill /\ new.status = "approved" /\ new.version = v
        BY <2>2 DEF Skill
      <3>3. s = [skills[d.of] EXCEPT !.status = "approved", !.version = 2]
        BY <3>1
      <3> HIDE DEF s
      <3> QED BY <3>2, <3>3
    <2>4. skills' = [skills EXCEPT ![d.of] = s] /\ UNCHANGED <<failures, evals, replays, made>>
      BY <1>1, <1>7, <2>1, LenProperties DEF Approve, TypeOK
    <2> HIDE DEF s
    <2>5. /\ skills' \in Seq(Skill)
          /\ Len(skills') = Len(skills)
          /\ \A n \in 1..Len(skills) : skills'[n] = IF n = d.of THEN s ELSE skills[n]
      BY <1>1, <2>1, <2>3, <2>4, ExceptSeq DEF TypeOK
    <2>6. TypeOK'
      BY <1>1, <1>2, <1>3, <2>4, <2>5 DEF TypeOK
    <2>7. DecidedOnce'
      BY <1>1, <2>3, <2>4, <2>5, <2>6, LenProperties DEF DecidedOnce, TypeOK
    <2>8. MadeOK' /\ SourcesExact'
      BY <1>1, <2>4 DEF MadeOK, SourcesExact
    <2> QED BY <1>4, <2>6, <2>7, <2>8 DEF IInv, LearnedExactly
  <1> QED BY <1>5, <1>6, <1>7 DEF Commit

-----------------------------------------------------------------------------
\* Nothing is decided twice and no failure folded into an evaluation is forgotten,
\* however the connections interleave and crash.
THEOREM LearningIsExact == Spec => []LearnedExactly
  <1> USE ConnectionsOK
  <1>1. Init => IInv
    <2> SUFFICES ASSUME Init PROVE IInv
      OBVIOUS
    <2>1. DOMAIN failures = {} /\ DOMAIN evals = {} /\ DOMAIN replays = {} /\ DOMAIN skills = {}
      BY DEF Init
    <2>2. TypeOK
      BY <2>1 DEF Init, TypeOK
    <2>3. WorkOK /\ MadeOK /\ LearnedExactly
      BY <2>1 DEF Init, WorkOK, MadeOK, LearnedExactly, DecidedOnce, SourcesExact
    <2> QED BY <2>2, <2>3 DEF IInv
  <1>2. IInv /\ [Next]_vars => IInv'
    <2> SUFFICES ASSUME IInv, [Next]_vars PROVE IInv'
      OBVIOUS
    <2>1. CASE Next
      BY <2>1, InsertKeeps, UnwrittenKeeps, CommitKeeps DEF Next
    <2>2. CASE UNCHANGED vars
      BY <2>2 DEF vars, IInv, TypeOK, WorkOK, MadeOK, LearnedExactly, DecidedOnce, SourcesExact,
          Decisions, Target, Key
    <2> QED BY <2>1, <2>2
  <1>3. IInv => LearnedExactly
    BY DEF IInv
  <1> QED BY <1>1, <1>2, <1>3, PTL DEF Spec

(* -------------------------- opening a database -------------------------- *)

\* How far an opener is, the file has come at least.
OpenReached(p) ==
    /\ pc[p] \in 4..15 => Open!Compatible(file)
    /\ pc[p] \in 5..15 => "events" \in file.tables
    /\ pc[p] \in 6..15 => file.index
    /\ pc[p] \in 7..15 => "markers" \in file.tables
    /\ pc[p] \in 8..15 => ~file.unique /\ file.layout \in {"fresh"} \cup Open!Migrated
    /\ pc[p] \in 9..15 => "nodes" \in file.tables
    /\ pc[p] \in 10..15 => "edges" \in file.tables
    /\ pc[p] \in 11..15 => "watermark" \in file.tables
    /\ pc[p] \in 12..15 => "spent" \in file.tables
    /\ pc[p] \in 13..15 => file.watermark = "scoped"
    /\ pc[p] \in 14..15 => file.scoped
    /\ pc[p] = 15 => \A c \in file.tasks : c.tenant = tenant[p] =>
                        \E s \in file.spent : s.tenant = c.tenant /\ s.proof = c.proof

OpenIInv ==
    /\ pc \in [Openers -> 0..16] /\ tenant \in [Openers -> Tenants]
    /\ Open!FileOK(file)
    /\ \A p \in Openers : OpenReached(p)

\* The instance counts as the module does.
LEMMA OpenCounts == \A S : Open!Cardinality(S) = Cardinality(S)
  BY DEF Open!Cardinality, Cardinality, Open!IsFiniteSet, IsFiniteSet

LEMMA OpenSteps ==
    ASSUME NEW p, pc[p] \in 0..16
    PROVE  /\ Open!Open = 15 /\ Open!Refused = 16 /\ Len(Open!Script) = 14
           /\ Open!Step(p, "identity") => pc[p] = 1
           /\ Open!Step(p, "projection") => pc[p] = 2
           /\ Open!Step(p, "connect") => pc[p] = 3
           /\ Open!Step(p, "events") => pc[p] = 4
           /\ Open!Step(p, "index") => pc[p] = 5
           /\ Open!Step(p, "markers") => pc[p] = 6
           /\ Open!Step(p, "migrate") => pc[p] = 7
           /\ Open!Step(p, "nodes") => pc[p] = 8
           /\ Open!Step(p, "edges") => pc[p] = 9
           /\ Open!Step(p, "watermark") => pc[p] = 10
           /\ Open!Step(p, "spent") => pc[p] = 11
           /\ Open!Step(p, "widen") => pc[p] = 12
           /\ Open!Step(p, "scope") => pc[p] = 13
           /\ Open!Step(p, "backfill") => pc[p] = 14
  BY DEF Open!Open, Open!Refused, Open!Script, Open!Step, Open!At

\* The file only ever gains what an opener installs.
OpenGrows(f, g) ==
    /\ f.tables \subseteq g.tables
    /\ f.index => g.index
    /\ ~f.unique /\ f.layout \in {"fresh"} \cup Open!Migrated /\ "events" \in f.tables
        => ~g.unique /\ g.layout \in {"fresh"} \cup Open!Migrated
    /\ f.watermark = "scoped" => g.watermark = "scoped"
    /\ f.scoped => g.scoped
    /\ f.scoped => \A c \in g.tasks :
        c \in f.tasks \/ \E s \in g.spent : s.tenant = c.tenant /\ s.proof = c.proof
    /\ f.scoped => f.spent \subseteq g.spent

LEMMA OpenOthersKeep ==
    ASSUME NEW q \in Openers, OpenReached(q), pc'[q] = pc[q], tenant'[q] = tenant[q],
           OpenGrows(file, file'), Open!Compatible(file) => Open!Compatible(file'), pc[q] \in 0..16
    PROVE  OpenReached(q)'
  BY DEF OpenReached, OpenGrows

\* CREATE TABLE keeps a file fit: of the tables, events comes first.
LEMMA OpenInstalledKeeps ==
    ASSUME NEW f, Open!FileOK(f), Open!Compatible(f), NEW table \in Open!Tables,
           table # "events" => "events" \in f.tables
    PROVE  /\ Open!FileOK(Open!Installed(f, table)) /\ Open!Compatible(Open!Installed(f, table))
           /\ OpenGrows(f, Open!Installed(f, table)) /\ table \in Open!Installed(f, table).tables
  <1> DEFINE g == Open!Installed(f, table)
  <1>1. f \in Open!DbFile BY DEF Open!FileOK
  <1>2. CASE table \in f.tables
    BY <1>2 DEF Open!Installed, OpenGrows
  <1>3. CASE table \notin f.tables
    <2>1. /\ g \in Open!DbFile /\ g.tables = f.tables \cup {table}
          /\ g.rows = f.rows /\ g.unique = f.unique /\ g.index = f.index /\ g.journal = f.journal
          /\ g.spent = f.spent /\ g.tasks = f.tasks
          /\ g.layout = IF table = "events" THEN "fresh" ELSE f.layout
          /\ g.identity = IF table = "nodes" THEN "current" ELSE f.identity
          /\ g.watermark = IF table = "watermark" THEN "scoped" ELSE f.watermark
          /\ g.scoped = IF table = "spent" THEN TRUE ELSE f.scoped
      <3> DEFINE h == [f EXCEPT !.tables = f.tables \cup {table}]
      <3>1. /\ h \in Open!DbFile /\ h.tables = f.tables \cup {table} /\ h.layout = f.layout
            /\ h.rows = f.rows /\ h.unique = f.unique /\ h.index = f.index
            /\ h.journal = f.journal /\ h.spent = f.spent /\ h.tasks = f.tasks
            /\ h.identity = f.identity /\ h.watermark = f.watermark /\ h.scoped = f.scoped
        BY <1>1 DEF Open!DbFile, Open!Tables
      <3>2. g = CASE table = "events" -> [h EXCEPT !.layout = "fresh"]
                  [] table = "nodes" -> [h EXCEPT !.identity = "current"]
                  [] table = "watermark" -> [h EXCEPT !.watermark = "scoped"]
                  [] table = "spent" -> [h EXCEPT !.scoped = TRUE]
                  [] OTHER -> h
        BY <1>3 DEF Open!Installed
      <3> HIDE DEF h, g
      <3>3. CASE table = "events"
        <4>1. g = [h EXCEPT !.layout = "fresh"] BY <3>2, <3>3
        <4> QED BY <3>1, <3>3, <4>1 DEF Open!DbFile
      <3>4. CASE table = "nodes"
        <4>1. g = [h EXCEPT !.identity = "current"] BY <3>2, <3>4
        <4> QED BY <3>1, <3>4, <4>1 DEF Open!DbFile
      <3>5. CASE table = "watermark"
        <4>1. g = [h EXCEPT !.watermark = "scoped"] BY <3>2, <3>5
        <4> QED BY <3>1, <3>5, <4>1 DEF Open!DbFile
      <3>6. CASE table = "spent"
        <4>1. g = [h EXCEPT !.scoped = TRUE] BY <3>2, <3>6
        <4> QED BY <3>1, <3>6, <4>1 DEF Open!DbFile
      <3>7. CASE table \in {"markers", "edges"}
        <4>1. g = h BY <3>2, <3>7
        <4> QED BY <3>1, <3>7, <4>1
      <3> QED BY <3>3, <3>4, <3>5, <3>6, <3>7 DEF Open!Tables
    <2> HIDE DEF g
    <2>2. Open!FileOK(g) BY <1>3, <2>1 DEF Open!FileOK
    <2>3. OpenGrows(f, g) BY <2>1 DEF OpenGrows
    <2>4. Open!NoJournal(g) /\ Open!IdentityCompatible(g)
      BY <2>1 DEF Open!Compatible, Open!NoJournal, Open!IdentityCompatible
    <2>5. CASE table = "events"
      <3>1. \A e \in Events : g.rows[e] = None BY <1>3, <2>1, <2>5 DEF Open!FileOK
      <3>2. "events" \in g.tables /\ g.layout = "fresh" BY <2>1, <2>5
      <3> QED BY <2>1, <2>2, <2>3, <2>4, <3>1, <3>2
              DEF Open!Compatible, Open!ProjectionCompatible, Open!TablesCompatible,
                    Open!Unprocessed,
                  Open!RowsAuthenticated, Open!RowsWitnessed, Open!Migrated, g
    <2>6. CASE table # "events"
      <3>1. /\ "events" \in f.tables /\ "events" \in g.tables /\ g.layout = f.layout
        BY <2>1, <2>6
      <3>2. Open!RowsAuthenticated(g) /\ Open!RowsWitnessed(g)
        BY <2>1, <3>1 DEF Open!Compatible, Open!ProjectionCompatible, Open!RowsAuthenticated,
              Open!RowsWitnessed, Open!Unprocessed
      <3>3. Open!TablesCompatible(g)
        BY <2>1, <3>1 DEF Open!Compatible, Open!ProjectionCompatible, Open!TablesCompatible,
              Open!Unprocessed
      <3> QED BY <2>1, <2>2, <2>3, <2>4, <3>2, <3>3 DEF Open!Compatible,
            Open!ProjectionCompatible, g
    <2> QED BY <2>5, <2>6
  <1> QED BY <1>2, <1>3

\* The migration of the events table.
LEMMA OpenMigratedKeeps ==
    ASSUME NEW f, Open!FileOK(f), Open!Compatible(f), "events" \in f.tables
    PROVE  /\ Open!FileOK(Open!MigratedEvents(f)) /\ Open!Compatible(Open!MigratedEvents(f))
           /\ OpenGrows(f, Open!MigratedEvents(f))
           /\ ~Open!MigratedEvents(f).unique /\ Open!MigratedEvents(f).index
           /\ Open!MigratedEvents(f).layout \in {"fresh"} \cup Open!Migrated
  <1> DEFINE g == Open!MigratedEvents(f)
  <1>1. f \in Open!DbFile BY DEF Open!FileOK
  <1>2. /\ g \in Open!DbFile /\ g.tables = f.tables /\ g.rows = f.rows /\ g.journal = f.journal
        /\ g.spent = f.spent /\ g.tasks = f.tasks /\ g.identity = f.identity
        /\ g.watermark = f.watermark /\ g.scoped = f.scoped
        /\ g.index = TRUE /\ g.unique = FALSE
        /\ g.layout = IF f.unique THEN "rebuilt" ELSE IF f.layout = "raw" THEN "addcol" ELSE f.layout
    BY <1>1 DEF Open!MigratedEvents, Open!DbFile, Open!Migrated
  <1>3. f.layout \in {"fresh", "raw"} \cup Open!Migrated
    BY DEF Open!Compatible, Open!ProjectionCompatible, Open!TablesCompatible
  <1> HIDE DEF g
  <1>4. g.layout \in {"fresh"} \cup Open!Migrated BY <1>2, <1>3 DEF Open!Migrated
  <1>5. Open!FileOK(g) /\ OpenGrows(f, g) BY <1>2, <1>4 DEF Open!FileOK, OpenGrows
  <1>6. Open!RowsAuthenticated(g)
    BY <1>2, <1>3, <1>4 DEF Open!FileOK, Open!Compatible, Open!ProjectionCompatible,
          Open!RowsAuthenticated, Open!Migrated
  <1>7. Open!RowsWitnessed(g) /\ Open!TablesCompatible(g)
    BY <1>2, <1>4 DEF Open!Compatible, Open!ProjectionCompatible, Open!RowsWitnessed,
          Open!TablesCompatible, Open!Unprocessed
  <1>8. Open!NoJournal(g) /\ Open!IdentityCompatible(g)
    BY <1>2 DEF Open!Compatible, Open!NoJournal, Open!IdentityCompatible
  <1> QED BY <1>2, <1>4, <1>5, <1>6, <1>7, <1>8 DEF Open!Compatible, Open!ProjectionCompatible, g

\* Changes beside the events: the index, the watermark, the spent proofs and the
\* completions are none of the compatibility checks' business.
OpenBeside(f, g) ==
    /\ g \in Open!DbFile
    /\ g.tables = f.tables /\ g.rows = f.rows /\ g.journal = f.journal /\ g.layout = f.layout
    /\ g.unique = f.unique /\ g.identity = f.identity

LEMMA OpenBesideKeeps ==
    ASSUME NEW f, NEW g, Open!FileOK(f), OpenBeside(f, g)
    PROVE  /\ Open!Compatible(f) => Open!Compatible(g)
           /\ g.tasks = f.tasks => Open!FileOK(g)
  <1>1. Open!Compatible(f) => Open!Compatible(g)
    BY DEF Open!Compatible, Open!NoJournal, Open!IdentityCompatible, Open!ProjectionCompatible,
          Open!TablesCompatible,
           Open!Unprocessed, Open!RowsAuthenticated, Open!RowsWitnessed, OpenBeside
  <1>2. g.tasks = f.tasks => Open!FileOK(g) BY DEF Open!FileOK, OpenBeside
  <1> QED BY <1>1, <1>2

\* An engine at work on an installed file writes rows that the checks accept.
LEMMA OpenRowKeeps ==
    ASSUME NEW f, NEW g, Open!FileOK(f), Open!Compatible(f), f.tables = Open!Tables,
           f.layout \in {"fresh"} \cup Open!Migrated, NEW e \in Events, NEW row \in Open!DbRow,
           g = [f EXCEPT !.rows = [f.rows EXCEPT ![e] = row]],
           f.layout \in Open!Migrated => (row.payload => row.digest),
           \/ row.markers = {} /\ ~row.attributed /\ (row.payload => row.captured)
           \/ row.markers = {"ok"} /\ row.node
           \/ row.markers = {"quarantined"} /\ ~row.attributed
    PROVE  Open!FileOK(g) /\ Open!Compatible(g) /\ OpenGrows(f, g)
  <1>1. f \in Open!DbFile BY DEF Open!FileOK
  <1>2. /\ g \in Open!DbFile /\ g.tables = f.tables /\ g.journal = f.journal /\ g.layout = f.layout
        /\ g.unique = f.unique /\ g.index = f.index
        /\ g.spent = f.spent /\ g.tasks = f.tasks /\ g.identity = f.identity
        /\ g.watermark = f.watermark /\ g.scoped = f.scoped
        /\ \A d \in Events : g.rows[d] = IF d = e THEN row ELSE f.rows[d]
    BY <1>1 DEF Open!DbFile
  <1>3. Open!FileOK(g) /\ OpenGrows(f, g)
    BY <1>2 DEF Open!FileOK, OpenGrows, Open!Tables
  <1>4. Open!RowsWitnessed(g)
    BY <1>2 DEF Open!Compatible, Open!ProjectionCompatible, Open!RowsWitnessed, Open!Tables
  <1>5. Open!RowsAuthenticated(g) /\ Open!TablesCompatible(g)
    BY <1>2 DEF Open!Compatible, Open!ProjectionCompatible, Open!RowsAuthenticated,
          Open!TablesCompatible, Open!Tables, Open!Migrated
  <1>6. Open!NoJournal(g) /\ Open!IdentityCompatible(g)
    BY <1>2 DEF Open!Compatible, Open!NoJournal, Open!IdentityCompatible
  <1> QED BY <1>3, <1>4, <1>5, <1>6 DEF Open!Compatible, Open!ProjectionCompatible

\* An opener that moves on in the file it found, or leaves.
LEMMA OpenMovesKeep ==
    ASSUME OpenIInv, NEW p \in Openers, UNCHANGED file,
           \/ Open!Begin(p) \/ Open!Preflight(p) \/ Open!PreSchemaCheck(p) \/ Open!Leave(p)
           \/ Open!Refuse(p)
    PROVE  OpenIInv'
  <1>1. pc \in [Openers -> 0..16] /\ tenant \in [Openers -> Tenants] /\ Open!FileOK(file)
        /\ \A q \in Openers : OpenReached(q)
    BY DEF OpenIInv
  <1>2. /\ pc' \in [Openers -> 0..16] /\ tenant' \in [Openers -> Tenants]
        /\ \A q \in Openers \ {p} : pc'[q] = pc[q] /\ tenant'[q] = tenant[q]
        /\ \/ pc'[p] \in {0, 1, 2, 3, 16}
           \/ pc'[p] = 4 /\ Open!Compatible(file)
    <2>1. CASE Open!Begin(p) BY <1>1, <2>1 DEF Open!Begin
    <2>2. CASE Open!Leave(p) BY <1>1, <2>2 DEF Open!Leave
    <2>3. CASE Open!Refuse(p) BY <1>1, <2>3, OpenSteps DEF Open!Refuse
    <2>4. CASE Open!Check(p, "identity", Open!NoJournal(file) /\ Open!IdentityCompatible(file))
      <3>1. pc[p] = 1 BY <1>1, <2>4, OpenSteps DEF Open!Check
      <3> QED BY <1>1, <2>4, <3>1, OpenSteps DEF Open!Check, Open!Advance, Open!Refuse
    <2>5. CASE Open!Check(p, "projection", Open!NoJournal(file) /\ Open!ProjectionCompatible(file))
      <3>1. pc[p] = 2 BY <1>1, <2>5, OpenSteps DEF Open!Check
      <3> QED BY <1>1, <2>5, <3>1, OpenSteps DEF Open!Check, Open!Advance, Open!Refuse
    <2>6. CASE Open!PreSchemaCheck(p)
      <3>1. pc[p] = 3 BY <1>1, <2>6, OpenSteps DEF Open!Check, Open!PreSchemaCheck
      <3> QED BY <1>1, <2>6, <3>1, OpenSteps DEF Open!Check, Open!PreSchemaCheck, Open!Advance,
            Open!Refuse
    <2> QED BY <2>1, <2>2, <2>3, <2>4, <2>5, <2>6 DEF Open!Preflight
  <1>3. OpenReached(p)' BY <1>2 DEF OpenReached
  <1>4. \A q \in Openers \ {p} : OpenReached(q)' BY <1>1, <1>2 DEF OpenReached
  <1> QED BY <1>1, <1>2, <1>3, <1>4 DEF OpenIInv

\* One statement of the script that changes the file.
LEMMA OpenAdvanceKeeps ==
    ASSUME OpenIInv, NEW p \in Openers, Open!Advance(p), pc[p] \in 4..14,
           Open!FileOK(file'), OpenGrows(file, file'), Open!Compatible(file')
    PROVE  /\ \A q \in Openers \ {p} : OpenReached(q)'
           /\ pc' \in [Openers -> 0..16] /\ tenant' = tenant /\ pc'[p] = pc[p] + 1
           /\ OpenReached(p)' => OpenIInv'
  <1>1. pc \in [Openers -> 0..16] /\ tenant \in [Openers -> Tenants]
        /\ \A q \in Openers : OpenReached(q)
    BY DEF OpenIInv
  <1>2. pc' = [pc EXCEPT ![p] = @ + 1] /\ tenant' = tenant BY DEF Open!Advance
  <1>3. pc' \in [Openers -> 0..16] /\ pc'[p] = pc[p] + 1
        /\ \A q \in Openers \ {p} : pc'[q] = pc[q]
    BY <1>1, <1>2
  <1>4. \A q \in Openers \ {p} : OpenReached(q)' BY <1>1, <1>2, <1>3, OpenOthersKeep
  <1> QED BY <1>1, <1>2, <1>3, <1>4 DEF OpenIInv

LEMMA OpenCreateTableKeeps ==
    ASSUME OpenIInv, NEW p \in Openers, Open!CreateTable(p)
    PROVE  OpenIInv'
  <1>1. PICK table \in Open!Tables : Open!Step(p, table) /\ file' = Open!Installed(file,
        table) /\ Open!Advance(p)
    BY DEF Open!CreateTable
  <1>2. pc[p] \in 0..16 /\ Open!FileOK(file) /\ OpenReached(p) BY DEF OpenIInv
  <1>3. pc[p] = CASE table = "events" -> 4 [] table = "markers" -> 6 [] table = "nodes" -> 8
                  [] table = "edges" -> 9 [] table = "watermark" -> 10 [] table = "spent" -> 11
    BY <1>1, <1>2, OpenSteps DEF Open!Tables
  <1>4. pc[p] \in 4..14 /\ (table # "events" => pc[p] \in 5..14) BY <1>3 DEF Open!Tables
  <1>5. Open!Compatible(file) /\ (table # "events" => "events" \in file.tables)
    BY <1>2, <1>4 DEF OpenReached
  <1>6. Open!FileOK(file') /\ Open!Compatible(file') /\ OpenGrows(file,
        file') /\ table \in file'.tables
    BY <1>1, <1>2, <1>5, OpenInstalledKeeps
  <1>7. pc'[p] = pc[p] + 1 /\ (OpenReached(p)' => OpenIInv')
    BY <1>1, <1>4, <1>6, OpenAdvanceKeeps
  <1>8. OpenReached(p)'
    BY <1>2, <1>3, <1>6, <1>7 DEF OpenReached, OpenGrows, Open!Tables
  <1> QED BY <1>7, <1>8

LEMMA OpenBesideStepsKeep ==
    ASSUME OpenIInv, NEW p \in Openers, Open!CreateIndex(p) \/ Open!WidenWatermark(p)
    PROVE  OpenIInv'
  <1>1. pc[p] \in 0..16 /\ Open!FileOK(file) /\ OpenReached(p) /\ file \in Open!DbFile BY DEF OpenIInv, Open!FileOK
  <1>2. CASE Open!CreateIndex(p)
    <2>1. pc[p] = 5 /\ file' = [file EXCEPT !.index = TRUE] /\ Open!Advance(p)
      BY <1>1, <1>2, OpenSteps DEF Open!CreateIndex
    <2>2. /\ file' \in Open!DbFile /\ file'.tables = file.tables /\ file'.rows = file.rows
          /\ file'.journal = file.journal /\ file'.layout = file.layout
          /\ file'.unique = file.unique /\ file'.identity = file.identity
          /\ file'.tasks = file.tasks /\ file'.spent = file.spent /\ file'.index
          /\ file'.watermark = file.watermark /\ file'.scoped = file.scoped
      BY <1>1, <2>1 DEF Open!DbFile
    <2>a. OpenBeside(file, file') /\ Open!Compatible(file) BY <1>1, <2>1, <2>2 DEF OpenReached,
          OpenBeside
    <2>3. Open!FileOK(file') /\ Open!Compatible(file') BY <1>1, <2>2, <2>a, OpenBesideKeeps
    <2>4. OpenGrows(file, file') BY <2>2 DEF OpenGrows
    <2>b. pc[p] \in 4..14 BY <2>1
    <2>c. pc'[p] = pc[p] + 1 /\ (OpenReached(p)' => OpenIInv') BY <2>1, <2>3, <2>4, <2>b,
          OpenAdvanceKeeps
    <2>5. pc'[p] = 6 /\ (OpenReached(p)' => OpenIInv') BY <1>2, <2>1, <2>c
    <2> QED BY <1>1, <2>1, <2>2, <2>3, <2>5 DEF OpenReached
  <1>3. CASE Open!WidenWatermark(p)
    <2>1. pc[p] = 12 /\ file' = [file EXCEPT !.watermark = "scoped"] /\ Open!Advance(p)
      BY <1>1, <1>3, OpenSteps DEF Open!WidenWatermark
    <2>2. /\ file' \in Open!DbFile /\ file'.tables = file.tables /\ file'.rows = file.rows
          /\ file'.journal = file.journal /\ file'.layout = file.layout
          /\ file'.unique = file.unique /\ file'.identity = file.identity
          /\ file'.tasks = file.tasks /\ file'.spent = file.spent /\ file'.index = file.index
          /\ file'.watermark = "scoped" /\ file'.scoped = file.scoped
      BY <1>1, <2>1 DEF Open!DbFile
    <2>a. OpenBeside(file, file') /\ Open!Compatible(file) BY <1>1, <2>1, <2>2 DEF OpenReached,
          OpenBeside
    <2>3. Open!FileOK(file') /\ Open!Compatible(file') BY <1>1, <2>2, <2>a, OpenBesideKeeps
    <2>4. OpenGrows(file, file') BY <2>2 DEF OpenGrows
    <2>b. pc[p] \in 4..14 BY <2>1
    <2>c. pc'[p] = pc[p] + 1 /\ (OpenReached(p)' => OpenIInv') BY <2>1, <2>3, <2>4, <2>b,
          OpenAdvanceKeeps
    <2>5. pc'[p] = 13 /\ (OpenReached(p)' => OpenIInv') BY <1>2, <2>1, <2>c
    <2> QED BY <1>1, <2>1, <2>2, <2>3, <2>5 DEF OpenReached
  <1> QED BY <1>2, <1>3

LEMMA OpenMigrateKeeps ==
    ASSUME OpenIInv, NEW p \in Openers, Open!Migrate(p)
    PROVE  OpenIInv'
  <1>1. pc[p] \in 0..16 /\ Open!FileOK(file) /\ OpenReached(p) BY DEF OpenIInv
  <1>2. pc[p] = 7 /\ file' = Open!MigratedEvents(file) /\ Open!Advance(p)
    BY <1>1, OpenSteps DEF Open!Migrate
  <1>3. /\ Open!FileOK(file') /\ Open!Compatible(file') /\ OpenGrows(file, file')
        /\ ~file'.unique /\ file'.index /\ file'.layout \in {"fresh"} \cup Open!Migrated
    BY <1>1, <1>2, OpenMigratedKeeps DEF OpenReached
  <1>4. pc'[p] = 8 /\ (OpenReached(p)' => OpenIInv') BY <1>2, <1>3, OpenAdvanceKeeps
  <1> QED BY <1>1, <1>2, <1>3, <1>4 DEF OpenReached, OpenGrows

LEMMA OpenScopeKeeps ==
    ASSUME OpenIInv, NEW p \in Openers, Open!MigrateSpentProofsScope(p)
    PROVE  OpenIInv'
  <1>1. pc[p] \in 0..16 /\ Open!FileOK(file) /\ OpenReached(p) /\ file \in Open!DbFile BY DEF OpenIInv, Open!FileOK
  <1>2. pc[p] = 13 BY <1>1, OpenSteps DEF Open!MigrateSpentProofsScope
  <1>3. CASE Open!Refuse(p) BY <1>3, OpenMovesKeep DEF Open!Refuse
  <1>4. CASE file.scoped /\ Open!Advance(p) /\ UNCHANGED file
    <2>1. OpenGrows(file, file') BY <1>4 DEF OpenGrows
    <2>2. Open!FileOK(file') /\ Open!Compatible(file') BY <1>1, <1>2, <1>4 DEF OpenReached
    <2>c. pc'[p] = pc[p] + 1 /\ (OpenReached(p)' => OpenIInv') BY <1>2, <1>4, <2>1, <2>2,
          OpenAdvanceKeeps
    <2>3. pc'[p] = 14 /\ (OpenReached(p)' => OpenIInv') BY <1>2, <2>1, <2>c
    <2> QED BY <1>1, <1>2, <1>4, <2>2, <2>3 DEF OpenReached
  <1>5. ASSUME ~file.scoped, Open!Advance(p),
        \A s \in file.spent : Cardinality(Open!TenantsOf(s.task)) = 1,
               file' = [file EXCEPT !.scoped = TRUE,
                                    !.spent = {[s EXCEPT !.tenant = CHOOSE t \in Open!TenantsOf(s.task) : TRUE] :
                                                s \in file.spent}]
        PROVE  OpenIInv'
    <2> DEFINE moved == {[s EXCEPT !.tenant = CHOOSE t \in Open!TenantsOf(s.task) : TRUE] :
                            s \in file.spent}
    <2>1. moved \subseteq Open!Completion
      <3>1. SUFFICES ASSUME NEW s \in file.spent
                     PROVE  [s EXCEPT !.tenant = CHOOSE t \in Open!TenantsOf(s.task) : TRUE] \in Open!Completion
        OBVIOUS
      <3>2. Open!TenantsOf(s.task) # {} BY <1>5, FS_EmptySet
      <3>3. Open!TenantsOf(s.task) \subseteq Tenants \cup {None}
        BY <1>1 DEF Open!TenantsOf, Open!DbFile, Open!Completion
      <3>4. (CHOOSE t \in Open!TenantsOf(s.task) : TRUE) \in Tenants \cup {None} BY <3>2, <3>3
      <3>5. s \in Open!Completion BY <1>1 DEF Open!DbFile
      <3> QED BY <3>4, <3>5 DEF Open!Completion
    <2>2. file' = [file EXCEPT !.scoped = TRUE, !.spent = moved] BY <1>5
    <2> HIDE DEF moved
    <2>3. /\ file' \in Open!DbFile /\ file'.tables = file.tables /\ file'.rows = file.rows
          /\ file'.journal = file.journal /\ file'.layout = file.layout
          /\ file'.unique = file.unique /\ file'.identity = file.identity
          /\ file'.tasks = file.tasks /\ file'.index = file.index
          /\ file'.watermark = file.watermark /\ file'.scoped = TRUE
      BY <1>1, <2>1, <2>2 DEF Open!DbFile
    <2>a. OpenBeside(file, file') /\ Open!Compatible(file) BY <1>1, <1>2, <2>3 DEF OpenReached,
          OpenBeside
    <2>4. Open!FileOK(file') /\ Open!Compatible(file') BY <1>1, <2>3, <2>a, OpenBesideKeeps
    <2>5. OpenGrows(file, file') BY <1>5, <2>3 DEF OpenGrows
    <2>b. pc[p] \in 4..14 BY <1>2
    <2>c. pc'[p] = pc[p] + 1 /\ (OpenReached(p)' => OpenIInv') BY <1>2, <1>5, <2>4, <2>5, <2>b,
          OpenAdvanceKeeps
    <2>6. pc'[p] = 14 /\ (OpenReached(p)' => OpenIInv') BY <1>2, <2>1, <2>c
    <2> QED BY <1>1, <1>2, <2>3, <2>4, <2>6 DEF OpenReached
  <1> QED BY <1>3, <1>4, <1>5, OpenCounts DEF Open!MigrateSpentProofsScope

LEMMA OpenBackfillKeeps ==
    ASSUME OpenIInv, NEW p \in Openers, Open!BackfillSpentProofs(p)
    PROVE  OpenIInv'
  <1>1. pc[p] \in 0..16 /\ Open!FileOK(file) /\ OpenReached(p) /\ file \in Open!DbFile BY DEF OpenIInv, Open!FileOK
  <1>2. /\ pc[p] = 14 /\ Open!Advance(p)
        /\ file' = [file EXCEPT !.spent = @ \cup Open!Inherited(file, tenant[p])]
    BY <1>1, OpenSteps DEF Open!BackfillSpentProofs
  <1>3. Open!Inherited(file, tenant[p]) \subseteq file.tasks BY DEF Open!Inherited
  <1>4. /\ file' \in Open!DbFile /\ file'.tables = file.tables /\ file'.rows = file.rows
        /\ file'.journal = file.journal /\ file'.layout = file.layout
        /\ file'.unique = file.unique /\ file'.identity = file.identity
        /\ file'.tasks = file.tasks /\ file'.index = file.index
        /\ file'.watermark = file.watermark /\ file'.scoped = file.scoped
        /\ file'.spent = file.spent \cup Open!Inherited(file, tenant[p])
    BY <1>1, <1>2, <1>3 DEF Open!DbFile
  <1>a. OpenBeside(file, file') /\ Open!Compatible(file) BY <1>1, <1>2, <1>4 DEF OpenReached,
        OpenBeside
  <1>5. Open!FileOK(file') /\ Open!Compatible(file') BY <1>1, <1>4, <1>a, OpenBesideKeeps
  <1>6. OpenGrows(file, file') BY <1>4 DEF OpenGrows
  <1>7. pc'[p] = 15 /\ tenant' = tenant /\ (OpenReached(p)' => OpenIInv')
    BY <1>2, <1>5, <1>6, OpenAdvanceKeeps
  <1>8. \A c \in file'.tasks : c.tenant = tenant'[p] =>
            \E s \in file'.spent : s.tenant = c.tenant /\ s.proof = c.proof
    BY <1>4, <1>7 DEF Open!Inherited
  <1> QED BY <1>1, <1>2, <1>4, <1>5, <1>7, <1>8 DEF OpenReached

LEMMA OpenUseKeeps ==
    ASSUME OpenIInv, NEW p \in Openers, Open!Use(p)
    PROVE  OpenIInv'
  <1>1. /\ pc \in [Openers -> 0..16] /\ Open!FileOK(file) /\ file \in Open!DbFile
        /\ tenant \in [Openers -> Tenants] /\ \A q \in Openers : OpenReached(q)
    BY DEF OpenIInv, Open!FileOK
  <1>2. pc[p] = 15 /\ UNCHANGED <<pc, tenant>> BY <1>1, OpenSteps DEF Open!Use
  <1>3. Open!Compatible(file) /\ file.layout \in {"fresh"} \cup Open!Migrated /\ file.scoped
        /\ file.tables = Open!Tables
    BY <1>1, <1>2 DEF OpenReached, Open!DbFile, Open!Tables
  <1>4. \A c \in file.tasks : c.tenant = tenant[p] =>
            \E s \in file.spent : s.tenant = c.tenant /\ s.proof = c.proof
    BY <1>1, <1>2 DEF OpenReached
  <1>5. Open!FileOK(file') /\ Open!Compatible(file') /\ OpenGrows(file, file') => OpenIInv'
    BY <1>1, <1>2, OpenOthersKeep DEF OpenIInv
  <1>6. ASSUME NEW e \in Events,
               Open!Append1(e) \/ Open!SweepPayload(e) \/ \E o \in {"ok",
                     "quarantined"} : Open!Project(e, o)
        PROVE  OpenIInv'
    <2>1. file.rows \in [Events -> Open!DbRow \cup {None}] BY <1>1 DEF Open!DbFile
    <2>2. "events" \in file.tables BY <1>3 DEF Open!Tables
    <2>3. Open!RowsAuthenticated(file) /\ Open!RowsWitnessed(file)
      BY <1>3, <2>2 DEF Open!Compatible, Open!ProjectionCompatible
    <2>4. PICK row \in Open!DbRow :
            /\ file' = [file EXCEPT !.rows = [file.rows EXCEPT ![e] = row]]
            /\ file.layout \in Open!Migrated => (row.payload => row.digest)
            /\ \/ row.markers = {} /\ ~row.attributed /\ (row.payload => row.captured)
               \/ row.markers = {"ok"} /\ row.node
               \/ row.markers = {"quarantined"} /\ ~row.attributed
      <3>1. CASE Open!Append1(e)
        <4> DEFINE row == [payload |-> TRUE, digest |-> TRUE, captured |-> TRUE, markers |-> {},
                           attributed |-> FALSE, node |-> FALSE]
        <4>1. row \in Open!DbRow BY DEF Open!DbRow
        <4>2. file' = [file EXCEPT !.rows = [file.rows EXCEPT ![e] = row]]
          BY <3>1 DEF Open!Append1
        <4> QED BY <4>1, <4>2
      <3>2. CASE Open!SweepPayload(e)
        <4> DEFINE row == [file.rows[e] EXCEPT !.payload = FALSE]
        <4>1. file.rows[e] \in Open!DbRow /\ file.rows[e] # None BY <2>1,
              <3>2 DEF Open!SweepPayload, Open!Stored
        <4>2. /\ row \in Open!DbRow /\ ~row.payload /\ row.markers = file.rows[e].markers
              /\ row.attributed = file.rows[e].attributed /\ row.node = file.rows[e].node
          BY <4>1 DEF Open!DbRow
        <4>3. file' = [file EXCEPT !.rows = [file.rows EXCEPT ![e] = row]]
          BY <3>2 DEF Open!SweepPayload
        <4>4. \/ file.rows[e].markers = {} /\ ~file.rows[e].attributed
              \/ file.rows[e].markers = {"ok"} /\ file.rows[e].node
              \/ file.rows[e].markers = {"quarantined"} /\ ~file.rows[e].attributed
          BY <4>1, <2>3 DEF Open!RowsWitnessed
        <4> HIDE DEF row
        <4> QED BY <4>2, <4>3, <4>4
      <3>3. ASSUME NEW o \in {"ok", "quarantined"}, Open!Project(e, o)
            PROVE  \E row \in Open!DbRow :
                    /\ file' = [file EXCEPT !.rows = [file.rows EXCEPT ![e] = row]]
                    /\ file.layout \in Open!Migrated => (row.payload => row.digest)
                    /\ \/ row.markers = {} /\ ~row.attributed /\ (row.payload => row.captured)
                       \/ row.markers = {"ok"} /\ row.node
                       \/ row.markers = {"quarantined"} /\ ~row.attributed
        <4> DEFINE row == [file.rows[e] EXCEPT !.markers = {o}, !.attributed = (o = "ok"),
                                               !.node = (o = "ok")]
        <4>1. file.rows[e] \in Open!DbRow /\ file.rows[e] # None BY <2>1, <3>3 DEF Open!Project,
              Open!Stored
        <4>2. /\ row \in Open!DbRow /\ row.markers = {o} /\ row.payload = file.rows[e].payload
              /\ row.digest = file.rows[e].digest
              /\ row.attributed = (o = "ok") /\ row.node = (o = "ok")
          BY <4>1 DEF Open!DbRow
        <4>3. file' = [file EXCEPT !.rows = [file.rows EXCEPT ![e] = row]]
          BY <3>3 DEF Open!Project
        <4>4. file.layout \in Open!Migrated => (file.rows[e].payload => file.rows[e].digest)
          BY <4>1, <2>3 DEF Open!RowsAuthenticated
        <4> HIDE DEF row
        <4> QED BY <4>2, <4>3, <4>4
      <3> QED BY <1>6, <3>1, <3>2, <3>3
    <2> QED BY <1>1, <1>3, <1>5, <2>4, OpenRowKeeps
  <1>7. ASSUME NEW task \in Tasks, NEW proof \in Proofs, Open!Complete(tenant[p], task, proof)
        PROVE  OpenIInv'
    <2> DEFINE done == [tenant |-> tenant[p], task |-> task, proof |-> proof]
    <2>1. done \in Open!Completion BY <1>1 DEF Open!Completion
    <2>2. done.tenant = tenant[p] /\ done.proof = proof /\ done.task = task OBVIOUS
    <2>3. file' = [file EXCEPT !.spent = @ \cup {done}, !.tasks = @ \cup {done}]
      BY <1>7 DEF Open!Complete
    <2>4. ~\E s \in file.spent : s.tenant = tenant[p] /\ s.proof = proof BY <1>7 DEF Open!Complete
    <2> HIDE DEF done
    <2>5. /\ file' \in Open!DbFile /\ file'.tables = file.tables /\ file'.rows = file.rows
          /\ file'.journal = file.journal /\ file'.layout = file.layout
          /\ file'.unique = file.unique /\ file'.identity = file.identity
          /\ file'.index = file.index
          /\ file'.watermark = file.watermark /\ file'.scoped = file.scoped
          /\ file'.spent = file.spent \cup {done} /\ file'.tasks = file.tasks \cup {done}
      BY <1>1, <2>1, <2>3 DEF Open!DbFile
    <2>a. OpenBeside(file, file') BY <2>5 DEF OpenBeside
    <2>6. Open!Compatible(file') BY <1>1, <1>3, <2>a, OpenBesideKeeps
    <2>7. Open!FileOK(file') BY <1>1, <1>4, <2>2, <2>4, <2>5 DEF Open!FileOK
    <2>8. OpenGrows(file, file') BY <2>5 DEF OpenGrows
    <2> QED BY <1>5, <2>6, <2>7, <2>8
  <1> QED BY <1>6, <1>7 DEF Open!Use

LEMMA OpenInitInv == Open!Init => OpenIInv
  <1> SUFFICES ASSUME Open!Init PROVE OpenIInv
    OBVIOUS
  <1>1. Open!FileOK(file) BY FilesOK DEF Open!Init
  <1>2. pc \in [Openers -> 0..16] /\ tenant \in [Openers -> Tenants]
    BY FilesOK DEF Open!Init
  <1>3. \A p \in Openers : OpenReached(p) BY DEF Open!Init, OpenReached
  <1> QED BY <1>1, <1>2, <1>3 DEF OpenIInv

LEMMA OpenNextInv == OpenIInv /\ [Open!Next]_(Open!vars) => OpenIInv'
  <1> SUFFICES ASSUME OpenIInv, [Open!Next]_(Open!vars) PROVE OpenIInv'
    OBVIOUS
  <1>1. CASE UNCHANGED Open!vars
    BY <1>1 DEF Open!vars, OpenIInv, OpenReached
  <1>2. ASSUME NEW p \in Openers, Open!OpenerStep(p) PROVE OpenIInv'
    <2>1. CASE Open!Begin(p) \/ Open!Leave(p) \/ Open!Refuse(p)
      BY <2>1, OpenMovesKeep DEF Open!Begin, Open!Leave, Open!Refuse
    <2>2. CASE Open!Preflight(p) \/ Open!PreSchemaCheck(p)
      <3>1. UNCHANGED file BY <2>2 DEF Open!Preflight, Open!PreSchemaCheck, Open!Check, Open!Refuse
      <3> QED BY <2>2, <3>1, OpenMovesKeep
    <2> QED BY <1>2, <2>1, <2>2, OpenCreateTableKeeps, OpenBesideStepsKeep, OpenMigrateKeeps,
          OpenScopeKeeps,
               OpenBackfillKeeps, OpenUseKeeps DEF Open!OpenerStep
  <1> QED BY <1>1, <1>2 DEF Open!Next

LEMMA OpenInvImplies == OpenIInv => Open!OpensSafely
  <1> SUFFICES ASSUME OpenIInv PROVE Open!OpensSafely
    OBVIOUS
  <1>1. Open!FileOK(file) /\ \A p \in Openers : pc[p] \in 0..16 /\ OpenReached(p)
    BY DEF OpenIInv
  <1>2. Open!Open = 15 /\ Len(Open!Script) = 14 BY DEF Open!Open, Open!Script
  <1>3. Open!StillAdmitted BY <1>1, <1>2 DEF Open!StillAdmitted, OpenReached
  <1>4. Open!OpenIsInstalled
    <2>1. file.tables \subseteq Open!Tables BY <1>1 DEF Open!FileOK, Open!DbFile
    <2> QED BY <1>1, <1>2, <2>1 DEF Open!OpenIsInstalled, OpenReached, Open!Tables
  <1>5. Open!NoProofSpentTwice BY <1>1 DEF Open!NoProofSpentTwice, Open!FileOK
  <1> QED BY <1>3, <1>4, <1>5 DEF Open!OpensSafely

\* Engine.__init__, Store.__init__: whatever processes open a file that a release
\* left, crash half way or work on it, an opener that is through finds everything
\* installed, the file stays fit to be opened, and no proof completes two tasks.
THEOREM OpeningSafe == Open!Spec => []OpensSafely
  <1>1. Open!Init => OpenIInv BY OpenInitInv
  <1>2. OpenIInv /\ [Open!Next]_(Open!vars) => OpenIInv' BY OpenNextInv
  <1>3. OpenIInv => OpensSafely BY OpenInvImplies DEF OpensSafely
  <1> QED BY <1>1, <1>2, <1>3, PTL DEF Open!Spec

(* ------------------------ the tracked repository ------------------------ *)

FrontStatuses == {"passed", "failed", "inconclusive", "stale", "invalidated"}

FrontCheckNode == [sha: Nat, app: Apps, status: FrontStatuses, authoritative: BOOLEAN]

FrontPushOK(p) == p \in Front!PushRecord /\ p.no \in 1..Len(pushes)

FrontCheckOK(d) == d.kind = "check" /\ d.sha \in Nat /\ d.app \in Apps

FrontTypeOK ==
    /\ setting \in Settings
    /\ remote \in [Refs -> Nat]
    /\ pushes \in Seq(Front!PushRecord)
    /\ \A d \in flight : FrontPushOK(d) \/ FrontCheckOK(d)
    /\ policy \in [ref: Refs \cup {None}, rev: Nat, apps: SUBSET Apps]
    /\ project \in [head: Nat \cup {None}, ref: Refs \cup {None}, rev: Nat, uncertain: BOOLEAN]
    /\ checks \in Seq(FrontCheckNode)
    /\ drift = [alive |-> drift.alive, notices |-> drift.notices]
    /\ drift.notices = [k \in DOMAIN drift.notices |-> drift.notices[k]]

\* The stored frontier is of this epoch or an earlier one; of this one, it is
\* doubted or where the newest push left the ref, as long as none that is
\* older is still on its way.
FrontEpochOK ==
    /\ project.rev <= policy.rev
    /\ newest # None => FrontPushOK(newest) /\ newest.ref = policy.ref
    /\ Front!MatchesPolicy => newest # None
    /\ newest # None /\ ~shuffled =>
        /\ \A d \in flight : d.kind = "push" /\ d.ref = policy.ref => newest.no <= d.no
        /\ Front!MatchesPolicy /\ ~project.uncertain => project.head = newest.after

\* A trusted pass that stands after a trusted failure was let stand by a person.
FrontFailuresOK ==
    \A i, j \in DOMAIN checks :
        (/\ i < j /\ checks[i].status = "passed" /\ checks[i].authoritative
         /\ checks[j].authoritative /\ checks[j].status = "failed") => i \in ruled

FrontIInv == FrontTypeOK /\ FrontEpochOK /\ FrontFailuresOK /\ Front!NoticePerRevision

\* The instance counts as the module does.
LEMMA FrontCounts == \A S : Front!Cardinality(S) = Cardinality(S)
  BY DEF Front!Cardinality, Cardinality, Front!IsFiniteSet, IsFiniteSet

LEMMA FrontCommitsCounted ==
    ASSUME FrontTypeOK
    PROVE  Front!Commits \subseteq Nat /\ Cardinality(Front!Commits) \in Nat
  <1> DEFINE A == {pushes[i].after : i \in 1..Len(pushes)}
  <1>1. pushes \in Seq(Front!PushRecord) BY DEF FrontTypeOK
  <1>2. Len(pushes) \in Nat /\ DOMAIN pushes = 1..Len(pushes)
    BY <1>1, LenProperties
  <1>3. IsFiniteSet(1..Len(pushes)) BY <1>2, FS_Interval
  <1>4. IsFiniteSet(A)
    <2> DEFINE f == [i \in 1..Len(pushes) |-> pushes[i].after]
    <2>1. f \in Surjection(1..Len(pushes), A)
      <3>1. f \in [1..Len(pushes) -> A] OBVIOUS
      <3>2. \A a \in A : \E i \in 1..Len(pushes) : f[i] = a OBVIOUS
      <3> QED BY <3>1, <3>2 DEF Surjection
    <2> HIDE DEF A, f
    <2> QED BY <2>1, <1>3, FS_Surjection
  <1>5. Front!Commits = A \ {0} BY <1>2 DEF Front!Commits
  <1>6. IsFiniteSet(Front!Commits) BY <1>4, <1>5, FS_Difference
  <1>7. \A i \in 1..Len(pushes) : pushes[i].after \in Nat
    <2>1. \A i \in 1..Len(pushes) : pushes[i] \in Front!PushRecord BY <1>1, ElementOfSeq
    <2> QED BY <2>1 DEF Front!PushRecord
  <1>8. Cardinality(Front!Commits) \in Nat BY <1>6, FS_CardinalityType
  <1> QED BY <1>5, <1>7, <1>2, <1>8

LEMMA FrontInitInv == Front!Init => FrontIInv
  <1> SUFFICES ASSUME Front!Init PROVE FrontIInv
    OBVIOUS
  <1>1. setting \in Settings /\ setting.refs \subseteq Refs
    BY SettingsOK DEF Front!Init
  <1>2. FrontTypeOK
    BY <1>1, SettingsOK DEF Front!Init, FrontTypeOK, FrontPushOK, FrontCheckOK
  <1>3. FrontEpochOK
    BY <1>1, SettingsOK DEF Front!Init, FrontEpochOK, Front!MatchesPolicy
  <1>4. FrontFailuresOK /\ Front!NoticePerRevision
    BY DEF Front!Init, FrontFailuresOK, Front!NoticePerRevision
  <1> QED BY <1>2, <1>3, <1>4 DEF FrontIInv

LEMMA FrontPushKeeps ==
    ASSUME FrontIInv, UNCHANGED setting, NEW ref \in setting.refs, Front!Push(ref)
    PROVE  FrontIInv'
  <1>1. FrontTypeOK /\ FrontEpochOK /\ FrontFailuresOK /\ Front!NoticePerRevision BY DEF FrontIInv
  <1>2. ref \in Refs /\ setting.drifts \subseteq {"none", "cue", "named"}
    BY <1>1, SettingsOK DEF FrontTypeOK
  <1>3. UNCHANGED <<policy, project, checks, drift, newest, shuffled, cued, ruled>>
    BY DEF Front!Push
  <1>4. PICK after \in Nat, forced \in BOOLEAN, hit \in {"none", "cue", "named"} :
            Front!Pushed(ref, after, forced, hit)
    <2>1. Front!Commits \subseteq Nat /\ Cardinality(Front!Commits) + 1 \in Nat /\ 0 \in Nat
      BY <1>1, FrontCommitsCounted
    <2>2. CASE \E hit \in setting.drifts : Front!Pushed(ref, Cardinality(Front!Commits) + 1,
          FALSE, hit)
      BY <2>1, <2>2, <1>2
    <2>3. CASE \E sha \in Front!Commits \ {remote[ref]} : Front!Pushed(ref, sha, TRUE, "none")
      BY <2>1, <2>3
    <2>4. CASE Front!Pushed(ref, 0, FALSE, "none")
      BY <2>1, <2>4
    <2> QED BY <2>2, <2>3, <2>4, FrontCounts DEF Front!Push
  <1>p. PICK p : p = [kind |-> "push", no |-> Len(pushes) + 1, ref |-> ref, before |-> remote[ref],
                   after |-> after, forced |-> forced, drift |-> hit]
    OBVIOUS
  <1>5. pushes \in Seq(Front!PushRecord) /\ Len(pushes) \in Nat /\ remote \in [Refs -> Nat]
    BY <1>1, LenProperties DEF FrontTypeOK
  <1>6. p \in Front!PushRecord BY <1>p, <1>2, <1>5 DEF Front!PushRecord
  <1>7. /\ pushes' = Append(pushes, p) /\ flight' = flight \cup {p}
        /\ remote' = [remote EXCEPT ![ref] = after]
    BY <1>p, <1>4 DEF Front!Pushed
  <1>8. pushes' \in Seq(Front!PushRecord) /\ Len(pushes') = Len(pushes) + 1
    BY <1>5, <1>6, <1>7, AppendProperties
  <1>9. FrontPushOK(p)' /\ p.no = Len(pushes) + 1
    <2>1. p.no = Len(pushes) + 1 BY <1>p
    <2>2. Len(pushes) + 1 \in 1..Len(pushes') BY <1>5, <1>8
    <2> QED BY <1>6, <2>1, <2>2 DEF FrontPushOK
  <1>10. \A d : FrontPushOK(d) => FrontPushOK(d)'
    BY <1>5, <1>8 DEF FrontPushOK
  <1>11. \A d : FrontCheckOK(d) => FrontCheckOK(d)' BY DEF FrontCheckOK
  <1>12. FrontTypeOK'
    <2>1. remote' \in [Refs -> Nat] BY <1>2, <1>5, <1>7
    <2>2. \A d \in flight' : FrontPushOK(d)' \/ FrontCheckOK(d)'
      <3> QED BY <1>1, <1>7, <1>9, <1>10, <1>11 DEF FrontTypeOK
    <2> QED BY <1>1, <1>3, <1>8, <2>1, <2>2 DEF FrontTypeOK
  <1>13. FrontEpochOK'
    <2>1. newest # None => newest.no <= p.no
      BY <1>1, <1>5, <1>9 DEF FrontEpochOK, FrontPushOK
    <2>2. Front!MatchesPolicy' = Front!MatchesPolicy BY <1>3 DEF Front!MatchesPolicy
    <2> QED BY <2>1, <2>2, <1>1, <1>3, <1>7, <1>10 DEF FrontEpochOK
  <1>14. FrontFailuresOK' /\ Front!NoticePerRevision'
    BY <1>1, <1>3 DEF FrontFailuresOK, Front!NoticePerRevision
  <1> QED BY <1>12, <1>13, <1>14 DEF FrontIInv

\* Reports, losses and the settings of the policy.
LEMMA FrontQuietKeeps ==
    ASSUME FrontIInv, UNCHANGED setting,
           \/ \E sha \in Front!Commits, app \in Apps, c \in {"success", "failure", "cancelled"} :
                Front!Report(sha, app, c)
           \/ \E d \in flight : Front!Lose(d)
           \/ \E ref \in setting.refs \cup {None} : Front!SetTrackedRef(ref)
           \/ \E app \in Apps : Front!SetTrusted(app)
    PROVE  FrontIInv'
  <1>1. FrontTypeOK /\ FrontEpochOK /\ FrontFailuresOK /\ Front!NoticePerRevision BY DEF FrontIInv
  <1>2. UNCHANGED <<pushes, checks, drift, cued, ruled, project, remote>>
    BY DEF Front!Report, Front!Lose, Front!SetTrackedRef, Front!SetTrusted, Front!Remotes
  <1>3. FrontFailuresOK' /\ Front!NoticePerRevision'
    BY <1>1, <1>2 DEF FrontFailuresOK, Front!NoticePerRevision
  <1>4. \A d : (FrontPushOK(d) => FrontPushOK(d)') /\ (FrontCheckOK(d) => FrontCheckOK(d)')
    BY <1>2 DEF FrontPushOK, FrontCheckOK
  <1>5. setting.refs \subseteq Refs
    BY <1>1, SettingsOK DEF FrontTypeOK
  <1>6. ASSUME NEW sha \in Front!Commits, NEW app \in Apps, NEW c, Front!Report(sha, app, c)
        PROVE  FrontTypeOK' /\ FrontEpochOK'
    <2> DEFINE d0 == [kind |-> "check", sha |-> sha, app |-> app, conclusion |-> c]
    <2>1. flight' = flight \cup {d0} /\ UNCHANGED <<policy, newest, shuffled>>
      BY <1>6 DEF Front!Report
    <2>2. FrontCheckOK(d0)' /\ d0.kind # "push"
      BY <1>1, FrontCommitsCounted DEF FrontCheckOK
    <2>3. Front!MatchesPolicy' = Front!MatchesPolicy BY <2>1, <1>2 DEF Front!MatchesPolicy
    <2> HIDE DEF d0
    <2>4. FrontTypeOK' BY <1>1, <1>2, <1>4, <2>1, <2>2 DEF FrontTypeOK
    <2>5. FrontEpochOK' BY <1>1, <1>2, <1>4, <2>1, <2>2, <2>3 DEF FrontEpochOK
    <2> QED BY <2>4, <2>5
  <1>7. ASSUME NEW d \in flight, Front!Lose(d)
        PROVE  FrontTypeOK' /\ FrontEpochOK'
    <2>1. flight' \subseteq flight /\ UNCHANGED <<policy, newest, shuffled>>
      BY <1>7 DEF Front!Lose
    <2>2. Front!MatchesPolicy' = Front!MatchesPolicy BY <2>1, <1>2 DEF Front!MatchesPolicy
    <2>3. FrontTypeOK' BY <1>1, <1>2, <1>4, <2>1 DEF FrontTypeOK
    <2>4. FrontEpochOK' BY <1>1, <1>2, <1>4, <2>1, <2>2 DEF FrontEpochOK
    <2> QED BY <2>3, <2>4
  <1>8. ASSUME NEW ref \in setting.refs \cup {None}, Front!SetTrackedRef(ref)
        PROVE  FrontTypeOK' /\ FrontEpochOK'
    <2>1. /\ policy' = [policy EXCEPT !.ref = ref, !.rev = @ + 1]
          /\ newest' = None /\ UNCHANGED flight
      BY <1>8 DEF Front!SetTrackedRef
    <2>2. /\ policy' \in [ref: Refs \cup {None}, rev: Nat, apps: SUBSET Apps]
          /\ policy'.rev = policy.rev + 1
      <3>1. /\ policy \in [ref: Refs \cup {None}, rev: Nat, apps: SUBSET Apps]
            /\ policy.rev \in Nat /\ ref \in Refs \cup {None}
        BY <1>1, <1>5 DEF FrontTypeOK
      <3>2. policy' = [ref |-> ref, rev |-> policy.rev + 1, apps |-> policy.apps]
        BY <2>1, <3>1
      <3> QED BY <3>1, <3>2
    <2>3. FrontTypeOK' BY <1>1, <1>2, <1>4, <2>1, <2>2 DEF FrontTypeOK
    <2>4. policy.rev \in Nat /\ project.rev \in Nat BY <1>1 DEF FrontTypeOK
    <2>5. FrontEpochOK'
      BY <1>1, <1>2, <2>1, <2>2, <2>4 DEF FrontEpochOK, Front!MatchesPolicy
    <2> QED BY <2>3, <2>5
  <1>9. ASSUME NEW app \in Apps, Front!SetTrusted(app)
        PROVE  FrontTypeOK' /\ FrontEpochOK'
    <2>1. /\ policy' = [policy EXCEPT !.apps = IF app \in @ THEN @ \ {app} ELSE @ \cup {app}]
          /\ UNCHANGED <<flight, newest, shuffled>>
      BY <1>9 DEF Front!SetTrusted
    <2>2. /\ policy' \in [ref: Refs \cup {None}, rev: Nat, apps: SUBSET Apps]
          /\ policy'.rev = policy.rev /\ policy'.ref = policy.ref
      BY <1>1, <2>1 DEF FrontTypeOK
    <2>3. FrontTypeOK' BY <1>1, <1>2, <1>4, <2>1, <2>2 DEF FrontTypeOK
    <2>4. Front!MatchesPolicy' = Front!MatchesPolicy BY <2>2, <1>2 DEF Front!MatchesPolicy
    <2>5. FrontEpochOK'
      BY <1>1, <1>2, <1>4, <2>1, <2>2, <2>4 DEF FrontEpochOK
    <2> QED BY <2>3, <2>5
  <1> QED BY <1>3, <1>6, <1>7, <1>8, <1>9 DEF FrontIInv

\* A push that moves the ref makes passes stale and changes nothing else of them.
LEMMA FrontStaledType ==
    ASSUME FrontTypeOK, NEW p
    PROVE  /\ Front!StaledBy(p) \in Seq(FrontCheckNode)
           /\ DOMAIN Front!StaledBy(p) = DOMAIN checks
           /\ \A i \in DOMAIN checks :
                /\ Front!StaledBy(p)[i].authoritative = checks[i].authoritative
                /\ Front!StaledBy(p)[i].status # checks[i].status => Front!StaledBy(p)[i].status = "stale"
  <1>1. checks \in Seq(FrontCheckNode) BY DEF FrontTypeOK
  <1>2. Len(checks) \in Nat /\ DOMAIN checks = 1..Len(checks)
    BY <1>1, LenProperties
  <1>3. \A i \in 1..Len(checks) : checks[i] \in FrontCheckNode BY <1>1, ElementOfSeq
  <1>4. CASE Front!OutOfOrder(p) BY <1>1, <1>4 DEF Front!StaledBy
  <1>5. CASE ~Front!OutOfOrder(p)
    <2> DEFINE c(i) == IF checks[i].status = "passed" /\ checks[i].sha # p.after
                       THEN [checks[i] EXCEPT !.status = "stale"] ELSE checks[i]
    <2>1. \A i \in 1..Len(checks) :
            /\ c(i) \in FrontCheckNode /\ c(i).authoritative = checks[i].authoritative
            /\ c(i).status # checks[i].status => c(i).status = "stale"
      BY <1>3 DEF FrontCheckNode, FrontStatuses
    <2>2. Front!StaledBy(p) = [i \in 1..Len(checks) |-> c(i)]
      BY <1>2, <1>5 DEF Front!StaledBy
    <2> HIDE DEF c
    <2>3. Front!StaledBy(p) \in [1..Len(checks) -> FrontCheckNode] BY <2>1, <2>2
    <2> QED BY <2>1, <2>2, <2>3, <1>2, SeqDef
  <1> QED BY <1>4, <1>5

\* A delivered push moves the frontier, or leaves it and has it doubted.
LEMMA FrontDeliverPushEpoch ==
    ASSUME FrontIInv, NEW p \in flight, Front!DeliverPush(p)
    PROVE  FrontEpochOK'
  <1>1. FrontTypeOK /\ FrontEpochOK BY DEF FrontIInv
  <1>2. p.kind = "push" /\ flight' = flight \ {p} /\ UNCHANGED <<policy, pushes>>
    BY DEF Front!DeliverPush, Front!Remotes
  <1>3. FrontPushOK(p) BY <1>1, <1>2 DEF FrontTypeOK, FrontCheckOK
  <1>4. \A d : FrontPushOK(d) => FrontPushOK(d)' BY <1>2 DEF FrontPushOK
  <1>5. CASE p.ref # policy.ref
    <2>1. UNCHANGED <<project, newest, shuffled>> BY <1>5 DEF Front!DeliverPush
    <2>2. Front!MatchesPolicy' = Front!MatchesPolicy BY <2>1, <1>2 DEF Front!MatchesPolicy
    <2> QED BY <1>1, <1>2, <1>4, <2>1, <2>2 DEF FrontEpochOK
  <1>6. CASE p.ref = policy.ref
    <2>1. /\ project' = Front!FrontierAfter(p)
          /\ newest' = IF newest = None \/ p.no >= newest.no THEN p ELSE newest
          /\ shuffled' = (shuffled \/ Front!Earlier(p) # {})
      BY <1>6 DEF Front!DeliverPush
    <2>2. newest' # None /\ FrontPushOK(newest)' /\ newest'.ref = policy'.ref
      <3>1. p # None
        BY <1>3, SettingsOK DEF FrontPushOK
      <3> QED BY <1>1, <1>2, <1>3, <1>4, <1>6, <2>1, <3>1 DEF FrontEpochOK
    <2>3. newest' # None /\ ~shuffled' =>
            \A d \in flight' : d.kind = "push" /\ d.ref = policy'.ref => newest'.no <= d.no
      <3> SUFFICES ASSUME ~shuffled', NEW d \in flight', d.kind = "push", d.ref = policy.ref
                   PROVE  newest'.no <= d.no
        BY <1>2
      <3>1. d \in flight /\ d \notin Front!Earlier(p) BY <1>2, <2>1
      <3>2. FrontPushOK(d) BY <1>1, <3>1 DEF FrontTypeOK, FrontCheckOK
      <3>3. d.no \in Nat /\ p.no \in Nat BY <3>2, <1>3 DEF FrontPushOK, Front!PushRecord
      <3>4. p.no <= d.no BY <3>1, <3>3, <1>6 DEF Front!Earlier
      <3>5. newest # None => newest.no <= d.no BY <1>1, <3>1, <2>1 DEF FrontEpochOK
      <3> QED BY <3>4, <3>5, <2>1
    <2>4. project'.rev <= policy'.rev
      BY <1>1, <1>2, <2>1 DEF FrontEpochOK, Front!FrontierAfter, FrontTypeOK
    <2>5. ~shuffled' /\ Front!MatchesPolicy' /\ ~project'.uncertain => project'.head = newest'.after
      <3> SUFFICES ASSUME ~shuffled', ~project'.uncertain
                   PROVE  project'.head = newest'.after
        OBVIOUS
      <3>1. ~Front!OutOfOrder(p)
        BY <1>1, <2>1 DEF Front!FrontierAfter, FrontTypeOK
      <3>2. project'.head = p.after
        BY <2>1, <3>1 DEF Front!FrontierAfter
      <3>3. newest' = p
        <4>1. newest # None => newest.no <= p.no
          BY <1>1, <1>2, <1>6, <2>1 DEF FrontEpochOK
        <4>2. p.no \in Nat /\ (newest # None => newest.no \in Nat)
          BY <1>1, <1>3 DEF FrontEpochOK, FrontPushOK, Front!PushRecord
        <4> QED BY <4>1, <4>2, <2>1
      <3> QED BY <3>2, <3>3
    <2> QED BY <2>2, <2>3, <2>4, <2>5 DEF FrontEpochOK
  <1> QED BY <1>5, <1>6

LEMMA FrontDeliverPushTypes ==
    ASSUME FrontIInv, UNCHANGED setting, NEW p \in flight, Front!DeliverPush(p)
    PROVE  FrontTypeOK'
  <1>1. FrontTypeOK BY DEF FrontIInv
  <1>2. p.kind = "push" /\ flight' = flight \ {p} /\ UNCHANGED <<policy, pushes, remote>>
    BY DEF Front!DeliverPush, Front!Remotes
  <1>3. FrontPushOK(p) BY <1>1, <1>2 DEF FrontTypeOK, FrontCheckOK
  <1>4. \A d : (FrontPushOK(d) => FrontPushOK(d)') /\ (FrontCheckOK(d) => FrontCheckOK(d)')
    BY <1>2 DEF FrontPushOK, FrontCheckOK
  <1>5. CASE p.ref # policy.ref
    <2>1. UNCHANGED <<project, checks, drift>> BY <1>5 DEF Front!DeliverPush
    <2> QED BY <1>1, <1>2, <1>4, <2>1 DEF FrontTypeOK
  <1>6. CASE p.ref = policy.ref
    <2>1. project' = Front!FrontierAfter(p) /\ checks' = Front!StaledBy(p) /\ drift' = Front!DriftAfter(p)
      BY <1>6 DEF Front!DeliverPush
    <2>2. project' \in [head: Nat \cup {None}, ref: Refs \cup {None}, rev: Nat, uncertain: BOOLEAN]
      <3>1. p.after \in Nat BY <1>3 DEF FrontPushOK, Front!PushRecord
      <3>2. CASE Front!OutOfOrder(p) BY <1>1, <2>1, <3>2 DEF Front!FrontierAfter, FrontTypeOK
      <3>3. CASE ~Front!OutOfOrder(p) BY <1>1, <2>1, <3>1, <3>3 DEF Front!FrontierAfter, FrontTypeOK
      <3> QED BY <3>2, <3>3
    <2>3. checks' \in Seq(FrontCheckNode)
      BY <1>1, <2>1, FrontStaledType
    <2>4. /\ drift' = [alive |-> drift'.alive, notices |-> drift'.notices]
          /\ drift'.notices = [k \in DOMAIN drift'.notices |-> drift'.notices[k]]
      <3>1. CASE Front!DriftAfter(p) = drift BY <1>1, <2>1, <3>1 DEF FrontTypeOK
      <3>2. CASE Front!DriftAfter(p) = [drift EXCEPT !.alive = FALSE]
        BY <1>1, <2>1, <3>2 DEF FrontTypeOK
      <3>3. CASE \E f : f = [k \in DOMAIN f |-> f[k]] /\ Front!DriftAfter(p) = [drift EXCEPT !.notices = f]
        BY <1>1, <2>1, <3>3 DEF FrontTypeOK
      <3> QED BY <3>1, <3>2, <3>3 DEF Front!DriftAfter, Front!Noticed
    <2> QED BY <1>1, <1>2, <1>4, <2>2, <2>3, <2>4 DEF FrontTypeOK
  <1> QED BY <1>5, <1>6

\* The notices only grow, and a hint that counts leaves one.
LEMMA FrontDeliverPushNotices ==
    ASSUME FrontIInv, NEW p \in flight, Front!DeliverPush(p)
    PROVE  Front!NoticePerRevision'
  <1>1. FrontTypeOK /\ Front!NoticePerRevision BY DEF FrontIInv
  <1>2. CASE p.ref # policy.ref
    BY <1>1, <1>2 DEF Front!DeliverPush, Front!NoticePerRevision
  <1>3. CASE p.ref = policy.ref
    <2>1. /\ drift' = Front!DriftAfter(p)
          /\ cued' = IF drift.alive /\ p.drift = "cue" /\ ~Front!OutOfOrder(p)
                     THEN cued \cup {Front!PushKey(p)} ELSE cued
      BY <1>3 DEF Front!DeliverPush
    <2>2. DOMAIN drift.notices \subseteq DOMAIN drift'.notices
      BY <1>1, <2>1 DEF Front!DriftAfter, Front!Noticed, FrontTypeOK
    <2>3. drift.alive /\ p.drift = "cue" /\ ~Front!OutOfOrder(p) =>
            Front!PushKey(p) \in DOMAIN drift'.notices
      BY <1>1, <2>1 DEF Front!DriftAfter, Front!Noticed, FrontTypeOK
    <2> QED BY <1>1, <2>1, <2>2, <2>3 DEF Front!NoticePerRevision
  <1> QED BY <1>2, <1>3

LEMMA FrontDeliverPushKeeps ==
    ASSUME FrontIInv, UNCHANGED setting, NEW p \in flight, Front!DeliverPush(p)
    PROVE  FrontIInv'
  <1>1. FrontTypeOK /\ FrontFailuresOK BY DEF FrontIInv
  <1>2. FrontFailuresOK'
    <2>1. checks' = checks \/ checks' = Front!StaledBy(p) BY DEF Front!DeliverPush
    <2>2. UNCHANGED ruled BY DEF Front!DeliverPush
    <2> QED BY <1>1, <2>1, <2>2, FrontStaledType DEF FrontFailuresOK
  <1> QED BY <1>2, FrontDeliverPushTypes, FrontDeliverPushEpoch,
        FrontDeliverPushNotices DEF FrontIInv

LEMMA FrontDeliverCheckKeeps ==
    ASSUME FrontIInv, UNCHANGED setting, NEW d \in flight, Front!DeliverCheck(d)
    PROVE  FrontIInv'
  <1>1. FrontTypeOK /\ FrontEpochOK /\ FrontFailuresOK /\ Front!NoticePerRevision BY DEF FrontIInv
  <1> DEFINE c(i) == IF i \in Front!Withdrawn(d) THEN [checks[i] EXCEPT !.status = "invalidated"]
                     ELSE checks[i]
             kept == [i \in DOMAIN checks |-> c(i)]
             new == [sha |-> d.sha, app |-> d.app, status |-> Front!Result(d.conclusion),
                     authoritative |-> Front!ExternalVerifierTrusted(d.app)]
  <1>2. /\ d.kind = "check" /\ flight' = flight \ {d} /\ checks' = Append(kept, new)
        /\ UNCHANGED <<remote, pushes, policy, project, drift, newest, shuffled, cued, ruled>>
    BY DEF Front!DeliverCheck, Front!Remotes
  <1>3. FrontCheckOK(d) BY <1>1, <1>2 DEF FrontTypeOK, FrontPushOK, Front!PushRecord
  <1>4. checks \in Seq(FrontCheckNode) /\ Len(checks) \in Nat /\ DOMAIN checks = 1..Len(checks)
    BY <1>1, LenProperties DEF FrontTypeOK
  <1>5. \A i \in 1..Len(checks) : checks[i] \in FrontCheckNode BY <1>4, ElementOfSeq
  <1>6. \A i \in 1..Len(checks) :
            /\ c(i) \in FrontCheckNode /\ c(i).authoritative = checks[i].authoritative
            /\ c(i).status = IF i \in Front!Withdrawn(d) THEN "invalidated" ELSE checks[i].status
    BY <1>5 DEF FrontCheckNode, FrontStatuses
  <1>7. Front!Result(d.conclusion) \in {"passed", "failed", "inconclusive"}
    BY DEF Front!Result
  <1>8. new \in FrontCheckNode /\ new.status = Front!Result(d.conclusion)
        /\ new.authoritative = Front!ExternalVerifierTrusted(d.app)
    BY <1>3, <1>7 DEF FrontCheckNode, FrontStatuses, FrontCheckOK, Front!ExternalVerifierTrusted
  <1>9. kept \in Seq(FrontCheckNode) /\ Len(kept) = Len(checks)
    <2>1. kept \in [1..Len(checks) -> FrontCheckNode] BY <1>4, <1>6
    <2>2. kept \in Seq(FrontCheckNode) BY <2>1, <1>4, SeqDef
    <2> QED BY <2>1, <2>2, <1>4, LenProperties
  <1>10. \A i \in 1..Len(checks) : kept[i] = c(i) BY <1>4
  <1> HIDE DEF c, kept, new
  <1>11. /\ checks' \in Seq(FrontCheckNode) /\ DOMAIN checks' = 1..(Len(checks) + 1)
         /\ \A i \in 1..Len(checks) : checks'[i] = c(i)
         /\ checks'[Len(checks) + 1] = new
    BY <1>2, <1>4, <1>8, <1>9, <1>10, AppendProperties
  <1>12. \A e : (FrontPushOK(e) => FrontPushOK(e)') /\ (FrontCheckOK(e) => FrontCheckOK(e)')
    BY <1>2 DEF FrontPushOK, FrontCheckOK
  <1>13. FrontTypeOK' BY <1>1, <1>2, <1>11, <1>12 DEF FrontTypeOK
  <1>14. FrontEpochOK'
    <2>1. Front!MatchesPolicy' = Front!MatchesPolicy BY <1>2 DEF Front!MatchesPolicy
    <2> QED BY <1>1, <1>2, <1>12, <2>1 DEF FrontEpochOK
  <1>15. FrontFailuresOK'
    <2> SUFFICES ASSUME NEW i \in 1..(Len(checks) + 1), NEW j \in 1..(Len(checks) + 1), i < j,
                        checks'[i].status = "passed", checks'[i].authoritative,
                        checks'[j].authoritative, checks'[j].status = "failed"
                 PROVE  i \in ruled
      BY <1>2, <1>11 DEF FrontFailuresOK
    <2>1. i \in 1..Len(checks) BY <1>4
    <2>2. checks[i].status = "passed" /\ checks[i].authoritative /\ i \notin Front!Withdrawn(d)
      BY <2>1, <1>6, <1>11
    <2>3. CASE j \in 1..Len(checks)
      <3>1. checks[j].status = "failed" /\ checks[j].authoritative
        BY <2>3, <1>6, <1>11
      <3> QED BY <1>1, <1>4, <2>1, <2>2, <2>3, <3>1 DEF FrontFailuresOK
    <2>4. CASE j = Len(checks) + 1
      <3>1. Front!Result(d.conclusion) = "failed" /\ Front!ExternalVerifierTrusted(d.app)
        BY <2>4, <1>8, <1>11
      <3> QED BY <3>1, <2>1, <2>2, <1>4 DEF Front!Withdrawn
    <2> QED BY <2>3, <2>4, <1>4
  <1>16. Front!NoticePerRevision' BY <1>1, <1>2 DEF Front!NoticePerRevision
  <1> QED BY <1>13, <1>14, <1>15, <1>16 DEF FrontIInv

\* A person's rulings, on a notice and on a withdrawn pass.
LEMMA FrontRulingKeeps ==
    ASSUME FrontIInv, UNCHANGED setting,
           \/ \E k \in DOMAIN drift.notices, accept \in BOOLEAN : Front!Rule(k, accept)
           \/ \E i \in DOMAIN checks : Front!Restore(i)
    PROVE  FrontIInv'
  <1>1. FrontTypeOK /\ FrontEpochOK /\ FrontFailuresOK /\ Front!NoticePerRevision BY DEF FrontIInv
  <1>2. UNCHANGED <<remote, pushes, flight, policy, project, newest, shuffled, cued>>
    BY DEF Front!Rule, Front!Restore, Front!Remotes
  <1>3. \A e : (FrontPushOK(e) => FrontPushOK(e)') /\ (FrontCheckOK(e) => FrontCheckOK(e)')
    BY <1>2 DEF FrontPushOK, FrontCheckOK
  <1>4. FrontEpochOK'
    <2>1. Front!MatchesPolicy' = Front!MatchesPolicy BY <1>2 DEF Front!MatchesPolicy
    <2> QED BY <1>1, <1>2, <1>3, <2>1 DEF FrontEpochOK
  <1>5. ASSUME NEW k \in DOMAIN drift.notices, NEW accept \in BOOLEAN, Front!Rule(k, accept)
        PROVE  FrontTypeOK' /\ FrontFailuresOK' /\ Front!NoticePerRevision'
    <2>1. UNCHANGED <<checks, ruled>> BY <1>5 DEF Front!Rule
    <2>2. /\ drift' = [alive |-> drift'.alive, notices |-> drift'.notices]
          /\ drift'.notices = [m \in DOMAIN drift'.notices |-> drift'.notices[m]]
          /\ DOMAIN drift'.notices = DOMAIN drift.notices
      BY <1>5 DEF Front!Rule
    <2>3. FrontTypeOK' BY <1>1, <1>2, <1>3, <2>1, <2>2 DEF FrontTypeOK
    <2>4. FrontFailuresOK' BY <1>1, <2>1 DEF FrontFailuresOK
    <2>5. Front!NoticePerRevision' BY <1>1, <1>2, <2>2 DEF Front!NoticePerRevision
    <2> QED BY <2>3, <2>4, <2>5
  <1>6. ASSUME NEW n \in DOMAIN checks, Front!Restore(n)
        PROVE  FrontTypeOK' /\ FrontFailuresOK' /\ Front!NoticePerRevision'
    <2>1. /\ checks' = [checks EXCEPT ![n].status = "passed"] /\ ruled' = ruled \cup {n}
          /\ UNCHANGED drift
      BY <1>6 DEF Front!Restore
    <2>2. checks \in Seq(FrontCheckNode) /\ Len(checks) \in Nat /\ DOMAIN checks = 1..Len(checks)
      BY <1>1, LenProperties DEF FrontTypeOK
    <2>3. checks[n] \in FrontCheckNode BY <2>2, ElementOfSeq
    <2>4. [checks[n] EXCEPT !.status = "passed"] \in FrontCheckNode
      BY <2>3 DEF FrontCheckNode, FrontStatuses
    <2>5. checks' = [checks EXCEPT ![n] = [checks[n] EXCEPT !.status = "passed"]]
      BY <2>1
    <2>6. checks' \in Seq(FrontCheckNode) /\ DOMAIN checks' = DOMAIN checks
      BY <2>2, <2>4, <2>5, ExceptSeq
    <2>7. \A i \in DOMAIN checks :
            /\ checks'[i].authoritative = checks[i].authoritative
            /\ i # n => checks'[i].status = checks[i].status
            /\ checks'[n].status = "passed"
      BY <2>2, <2>3, <2>5 DEF FrontCheckNode
    <2>8. FrontTypeOK' BY <1>1, <1>2, <1>3, <2>1, <2>6 DEF FrontTypeOK
    <2>9. FrontFailuresOK' BY <1>1, <2>1, <2>6, <2>7 DEF FrontFailuresOK
    <2>10. Front!NoticePerRevision' BY <1>1, <1>2, <2>1 DEF Front!NoticePerRevision
    <2> QED BY <2>8, <2>9, <2>10
  <1> QED BY <1>4, <1>5, <1>6 DEF FrontIInv

LEMMA FrontNextInv == FrontIInv /\ [Front!Next]_(Front!vars) => FrontIInv'
  <1> SUFFICES ASSUME FrontIInv, [Front!Next]_(Front!vars) PROVE FrontIInv'
    OBVIOUS
  <1>1. CASE Front!Next
    BY <1>1, FrontPushKeeps, FrontQuietKeeps, FrontDeliverPushKeeps, FrontDeliverCheckKeeps,
          FrontRulingKeeps DEF Front!Next
  <1>2. CASE UNCHANGED Front!vars
    BY <1>2 DEF Front!vars, FrontIInv, FrontTypeOK, FrontPushOK, FrontCheckOK, FrontEpochOK,
          Front!MatchesPolicy, FrontFailuresOK,
                Front!NoticePerRevision
  <1> QED BY <1>1, <1>2

LEMMA FrontInvImplies == FrontIInv => Front!FrontierExact
  <1> SUFFICES ASSUME FrontIInv PROVE Front!FrontierExact
    OBVIOUS
  <1>1. FrontTypeOK /\ FrontEpochOK /\ FrontFailuresOK /\ Front!NoticePerRevision BY DEF FrontIInv
  <1>2. Front!HeadFollowsRef
    BY <1>1, SettingsOK DEF Front!HeadFollowsRef, Front!Trusted, Front!TrackedRefFrontier,
          FrontEpochOK
  <1>3. Front!FailureWithdraws
    BY <1>1 DEF Front!FailureWithdraws, Front!Counted, Front!Satisfies, FrontFailuresOK
  <1> QED BY <1>1, <1>2, <1>3 DEF Front!FrontierExact

\* _process_push, _process_check: whatever is pushed, lost or delivered late, the
\* trusted head is where the newest push of the epoch left the ref, a failure has
\* withdrawn the passes before it, and every push that hints at the dependency has
\* its notice.
THEOREM FrontierSafe == Front!Spec => []FrontierExact
  <1>1. Front!Init => FrontIInv BY FrontInitInv
  <1>2. FrontIInv /\ [Front!Next]_(Front!vars) => FrontIInv' BY FrontNextInv
  <1>3. FrontIInv => FrontierExact BY FrontInvImplies DEF FrontierExact
  <1> QED BY <1>1, <1>2, <1>3, PTL DEF Front!Spec

(* ------------------------------ authority ------------------------------- *)

\* A nonempty set of naturals has a least element.
LEMMA AuthLeastNat ==
    ASSUME NEW T, T \subseteq Nat, T # {}
    PROVE  \E n \in T : \A m \in T : ~(m < n)
  <1> DEFINE R == {ss \in Nat \X Nat : ss[1] < ss[2]}
  <1>1. IsWellFoundedOn(R, Nat)
    BY NatLessThanWellFounded DEF OpToRel
  <1> HIDE DEF R
  <1>2. \E x \in T : \A y \in T : ~(<<y, x>> \in R)
    BY <1>1, WFMin
  <1>3. \A x, y \in Nat : <<y, x>> \in R <=> y < x
    BY DEF R
  <1> QED BY <1>2, <1>3

\* Induction from a, for what a set collects.
LEMMA AuthFrom ==
    ASSUME NEW T, NEW a \in Nat, a \in T, \A n \in Nat : n \in T /\ n >= a => n + 1 \in T
    PROVE  \A n \in Nat : n >= a => n \in T
  <1> DEFINE B == {n \in Nat : n >= a /\ n \notin T}
  <1> SUFFICES ASSUME B # {} PROVE FALSE
    OBVIOUS
  <1>1. PICK n \in B : \A m \in B : ~(m < n)
    <2>1. B \subseteq Nat
      OBVIOUS
    <2> HIDE DEF B
    <2> QED BY <2>1, AuthLeastNat
  <1>2. n # a /\ n - 1 \in Nat /\ n - 1 >= a /\ n - 1 < n
    BY <1>1
  <1>3. n - 1 \in T
    BY <1>1, <1>2
  <1>4. (n - 1) + 1 = n
    BY <1>1
  <1> QED BY <1>1, <1>2, <1>3, <1>4

(* ------------------------------- the fold ------------------------------- *)

\* One step of the fold of a confirmation's decisions.
AuthStep(f, c, i) ==
    IF i = c THEN Auth!Confirmed(log[c].request, c)
    ELSE IF Auth!Revises(i, c) THEN Auth!Revised(f[i - 1], log[i].request, i)
    ELSE f[i - 1]

\* The fold exists.
LEMMA AuthFoldExists ==
    ASSUME NEW c \in Nat
    PROVE  \A n \in Nat : n >= c => \E f : f = [i \in c..n |-> AuthStep(f, c, i)]
  <1> DEFINE T == {n \in Nat : \E f : f = [i \in c..n |-> AuthStep(f, c, i)]}
  <1>1. c \in T
    <2> DEFINE f == [i \in c..c |-> Auth!Confirmed(log[c].request, c)]
    <2>1. f = [i \in c..c |-> AuthStep(f, c, i)]
      BY DEF AuthStep
    <2> QED BY <2>1
  <1>2. ASSUME NEW n \in Nat, n \in T, n >= c PROVE n + 1 \in T
    <2>1. PICK f : f = [i \in c..n |-> AuthStep(f, c, i)]
      BY <1>2
    <2> DEFINE g == [i \in c..(n + 1) |-> IF i = n + 1 THEN AuthStep(f, c, n + 1) ELSE f[i]]
    <2>2. \A i \in c..n : g[i] = f[i]
      OBVIOUS
    <2>3. \A i \in c..(n + 1) : i # c => i - 1 \in c..n
      OBVIOUS
    <2>4. \A i \in c..(n + 1) : AuthStep(g, c, i) = AuthStep(f, c, i)
      BY <2>2, <2>3 DEF AuthStep
    <2>5. \A i \in c..n : f[i] = AuthStep(f, c, i)
      BY <2>1
    <2>6. \A i \in c..(n + 1) : g[i] = AuthStep(g, c, i)
      BY <2>4, <2>5
    <2>7. g = [i \in c..(n + 1) |-> AuthStep(g, c, i)]
      <3>1. g = [i \in c..(n + 1) |-> g[i]]
        OBVIOUS
      <3> HIDE DEF g
      <3> QED BY <2>6, <3>1
    <2> HIDE DEF g
    <2> QED BY <2>7
  <1> HIDE DEF T
  <1>3. \A n \in Nat : n >= c => n \in T
    BY <1>1, <1>2, AuthFrom
  <1> QED BY <1>3 DEF T

\* StateUpTo is that fold's last value, and a fold is made of such values.
LEMMA AuthFoldIs ==
    ASSUME NEW c \in Nat, NEW n \in Nat, n >= c
    PROVE  \E f : f = [i \in c..n |-> AuthStep(f, c, i)] /\ Auth!StateUpTo(c, n) = f[n]
  <1> DEFINE P(f) == f = [i \in c..n |-> AuthStep(f, c, i)]
  <1>1. Auth!StateUpTo(c, n) = (CHOOSE f : P(f))[n]
    BY DEF Auth!StateUpTo, AuthStep
  <1>2. \E f : P(f)
    BY AuthFoldExists
  <1>3. P(CHOOSE f : P(f))
    BY <1>2
  <1> QED BY <1>1, <1>3

\* A fold is determined by its steps.
LEMMA AuthFoldUnique ==
    ASSUME NEW c \in Nat, NEW n \in Nat, n >= c, NEW f, NEW g, NEW m \in Nat, m >= n,
           f = [i \in c..n |-> AuthStep(f, c, i)], g = [i \in c..m |-> AuthStep(g, c, i)]
    PROVE  f[n] = g[n]
  <1> DEFINE T == {k \in Nat : k <= n => f[k] = g[k]}
  <1>1. \A k \in c..n : f[k] = AuthStep(f, c, k)
    OBVIOUS
  <1>2. \A k \in c..m : g[k] = AuthStep(g, c, k)
    OBVIOUS
  <1>3. c \in T
    BY <1>1, <1>2 DEF AuthStep
  <1>4. ASSUME NEW k \in Nat, k \in T, k >= c PROVE k + 1 \in T
    <2> SUFFICES ASSUME k + 1 <= n PROVE f[k + 1] = g[k + 1]
      OBVIOUS
    <2>1. k + 1 \in c..n /\ k + 1 \in c..m /\ (k + 1) - 1 = k /\ k + 1 # c
      BY <1>4
    <2>2. f[k] = g[k]
      BY <1>4
    <2>3. f[k + 1] = AuthStep(f, c, k + 1) /\ g[k + 1] = AuthStep(g, c, k + 1)
      BY <1>1, <1>2, <2>1
    <2> QED BY <2>1, <2>2, <2>3 DEF AuthStep
  <1> HIDE DEF T
  <1>5. \A k \in Nat : k >= c => k \in T
    BY <1>3, <1>4, AuthFrom
  <1> QED BY <1>5 DEF T

\* What a prefix of the log gives, from what the shorter prefix gives.
AuthStateUnfolds ==
    \A c \in Nat : \A n \in Nat : n >= c =>
        Auth!StateUpTo(c, n) =
            IF n = c THEN Auth!Confirmed(log[c].request, c)
            ELSE IF Auth!Revises(n, c)
            THEN Auth!Revised(Auth!StateUpTo(c, n - 1), log[n].request, n)
            ELSE Auth!StateUpTo(c, n - 1)

\* The fold over the prefixes of the log unfolds at its last event.
LEMMA AuthUnfolding == AuthStateUnfolds
  <1> SUFFICES ASSUME NEW c \in Nat, NEW n \in Nat, n >= c
               PROVE  Auth!StateUpTo(c, n) =
                        IF n = c THEN Auth!Confirmed(log[c].request, c)
                        ELSE IF Auth!Revises(n, c)
                        THEN Auth!Revised(Auth!StateUpTo(c, n - 1), log[n].request, n)
                        ELSE Auth!StateUpTo(c, n - 1)
    BY DEF AuthStateUnfolds
  <1>1. PICK f : f = [i \in c..n |-> AuthStep(f, c, i)] /\ Auth!StateUpTo(c, n) = f[n]
    BY AuthFoldIs
  <1>2. f[n] = AuthStep(f, c, n)
    <2>1. n \in c..n
      OBVIOUS
    <2> QED BY <1>1, <2>1
  <1>3. CASE n = c
    BY <1>1, <1>2, <1>3 DEF AuthStep
  <1>4. CASE n # c
    <2>1. n - 1 \in Nat /\ n - 1 >= c /\ n >= n - 1
      BY <1>4
    <2>2. PICK g : /\ g = [i \in c..(n - 1) |-> AuthStep(g, c, i)]
                   /\ Auth!StateUpTo(c, n - 1) = g[n - 1]
      BY <2>1, AuthFoldIs
    <2>3. g[n - 1] = f[n - 1]
      BY <1>1, <2>1, <2>2, AuthFoldUnique
    <2> QED BY <1>1, <1>2, <1>4, <2>2, <2>3 DEF AuthStep
  <1> QED BY <1>3, <1>4

(* ---------------------------- the invariant ----------------------------- *)

AuthTargetOf(c) == log[c].request.target
AuthByOf(c) == claims[AuthTargetOf(c)].by
AuthRevokes(i, c) == Auth!Revises(i, c) /\ log[i].request.op = "revoke"
AuthOpenOn(n, c) == n[2] = c /\ notices[n].status = "open"
AuthAssumed(c) == KindOf[Auth!Text(c)] = "assumption"

AuthLogInv ==
    /\ log \in Seq({log[i] : i \in DOMAIN log})
    /\ within \in Scenarios
    /\ \A i \in Auth!EditsMade : log[i].edit \in within.edits
    /\ \A c \in DOMAIN nodes : c \in Auth!Decisions /\ log[c].request.op = "confirm"
    /\ \A i \in Auth!Decisions : log[i].request.op \in {"revoke", "replace_scope"} =>
          /\ log[i].request.target[1] \in DOMAIN nodes /\ log[i].request.target[1] < i
          /\ log[i].request.target = <<log[i].request.target[1]>>

AuthAdmittedInv ==
    /\ \A i \in admitted : i \in Auth!EditsMade /\ ~log[i].edit.poison
    /\ \A i \in admitted : \A t \in log[i].edit.states : <<i, t>> \in DOMAIN claims
    /\ \A i, j \in admitted :
          /\ i < j
          /\ log[i].edit.field = log[j].edit.field
          /\ log[i].edit.rev # 0 /\ log[j].edit.rev # 0
          /\ Auth!Strength(log[i].edit.strong) >= Auth!Strength(log[j].edit.strong)
          => log[i].edit.rev <= log[j].edit.rev

AuthClaimsInv ==
    \A p \in DOMAIN claims :
        /\ p = <<p[1], p[2]>> /\ p[1] \in Auth!EditsMade /\ p[2] \in log[p[1]].edit.states
        /\ claims[p] = [poison |-> claims[p].poison, by |-> claims[p].by]
        /\ claims[p].poison = log[p[1]].edit.poison
        /\ ~claims[p].poison => p[1] \in admitted
        /\ claims[p].by # 0 => /\ claims[p].by \in admitted /\ claims[p].by > p[1]
                               /\ Auth!Withdraws(log[claims[p].by].edit, p)
        /\ claims[p].by = 0 /\ ~claims[p].poison =>
              \A i \in admitted : i > p[1] => ~Auth!Withdraws(log[i].edit, p)

AuthStatesInv ==
    \A c \in DOMAIN nodes :
        LET s == nodes[c].state
        IN /\ s = [proposal |-> s.proposal, scope |-> s.scope, version |-> s.version,
                   revoked |-> s.revoked, decision |-> s.decision]
           /\ s = Auth!State(c) /\ s.proposal = AuthTargetOf(c) /\ s.revoked \in BOOLEAN
           /\ s.revoked <=> \E i \in DOMAIN log : AuthRevokes(i, c)

AuthNodeOK(c) ==
    /\ nodes[c] = [state |-> nodes[c].state, status |-> nodes[c].status,
                   valid |-> nodes[c].valid]
    /\ nodes[c].status \in {"active", "uncertain", "invalidated"}
    /\ nodes[c].valid \in BOOLEAN
    /\ AuthTargetOf(c) \in DOMAIN claims
    /\ ~nodes[c].valid => nodes[c].state.revoked \/ AuthByOf(c) # 0
    /\ nodes[c].status = "invalidated" =>
          \/ nodes[c].state.revoked \/ AuthByOf(c) # 0
          \/ \E n \in DOMAIN notices : AuthOpenOn(n, c)
    /\ (\E n \in DOMAIN notices : AuthOpenOn(n, c)) => nodes[c].status = "invalidated"

AuthNodesInv == \A c \in DOMAIN nodes : AuthNodeOK(c)

AuthNoticesInv ==
    \A n \in DOMAIN notices :
        /\ n = <<n[1], n[2]>> /\ n[1] \in Auth!EditsMade /\ n[2] \in DOMAIN nodes
        /\ AuthAssumed(n[2])
        /\ notices[n] = [status |-> notices[n].status, wording |-> notices[n].wording]
        /\ notices[n].status \in {"pending_confirmation", "open", "rejected", "resolved"}

AuthDisputed(c, d) ==
    /\ {Auth!Text(c), Auth!Text(d)} \in Opposites
    /\ Auth!IsCurrent(c) /\ Auth!IsCurrent(d)
    /\ nodes[c].status # "invalidated" /\ nodes[d].status # "invalidated"
    /\ Auth!Meet(nodes[c].state.scope, nodes[d].state.scope)

AuthOpposedInv ==
    \A c, d \in DOMAIN nodes :
        AuthDisputed(c, d) => nodes[c].status = "uncertain" /\ nodes[d].status = "uncertain"

AuthIInv ==
    /\ AuthLogInv /\ AuthAdmittedInv /\ AuthClaimsInv /\ AuthStatesInv /\ AuthNodesInv
    /\ AuthNoticesInv
    /\ AuthOpposedInv /\ Auth!NoLostDecision /\ Auth!OneDecisionPerRequest /\ Auth!OneNotice

-----------------------------------------------------------------------------
(* ------------------------ what the log determines ----------------------- *)

\* What is in the log stays as it is.
AuthLogGrows ==
    /\ DOMAIN log \subseteq DOMAIN log'
    /\ \A i \in DOMAIN log : log'[i] = log[i]

\* A log to which one event was appended.
LEMMA AuthAppended ==
    ASSUME log \in Seq({log[i] : i \in DOMAIN log}), NEW x, log' = Append(log, x)
    PROVE  /\ Len(log) \in Nat /\ DOMAIN log = 1..Len(log)
           /\ Len(log') = Len(log) + 1 /\ DOMAIN log' = 1..(Len(log) + 1)
           /\ log'[Len(log) + 1] = x
           /\ (log \in Seq({log[i] : i \in DOMAIN log}))'
           /\ AuthLogGrows
  <1> DEFINE S == {log[i] : i \in DOMAIN log}
             U == S \cup {x}
  <1>1. Len(log) \in Nat /\ DOMAIN log = 1..Len(log)
    BY LenProperties
  <1>2. log \in Seq(U)
    <2>1. \A i \in 1..Len(log) : log[i] \in U
      BY <1>1
    <2> HIDE DEF U
    <2>2. log = [i \in 1..Len(log) |-> log[i]]
      BY <1>1
    <2> QED BY <1>1, <2>1, <2>2, SeqDef
  <1> HIDE DEF U
  <1>3. x \in U
    BY DEF U
  <1>4. /\ log' \in Seq(U) /\ Len(log') = Len(log) + 1
        /\ \A i \in 1..Len(log) : log'[i] = log[i]
        /\ log'[Len(log) + 1] = x
    BY <1>2, <1>3, AppendProperties
  <1>5. DOMAIN log' = 1..(Len(log) + 1)
    BY <1>4, LenProperties
  <1>6. (log \in Seq({log[i] : i \in DOMAIN log}))'
    <2> DEFINE V == {log'[i] : i \in DOMAIN log'}
    <2>1. \A i \in 1..Len(log') : log'[i] \in V
      BY <1>4, <1>5
    <2> HIDE DEF V
    <2>2. log' = [i \in 1..Len(log') |-> log'[i]]
      BY <1>4, <1>5, LenProperties
    <2>3. Len(log') \in Nat
      BY <1>1, <1>4
    <2>4. log' \in Seq(V)
      BY <2>1, <2>2, <2>3, SeqDef
    <2> QED BY <2>4 DEF V
  <1>7. AuthLogGrows
    BY <1>1, <1>4, <1>5 DEF AuthLogGrows
  <1> QED BY <1>1, <1>4, <1>5, <1>6, <1>7

\* What an earlier event is and whom it revises stays.
LEMMA AuthEventsStay ==
    ASSUME AuthLogGrows
    PROVE  /\ Auth!EditsMade \subseteq Auth!EditsMade' /\ Auth!Decisions \subseteq Auth!Decisions'
           /\ \A i \in DOMAIN log : /\ i \in Auth!EditsMade' <=> i \in Auth!EditsMade
                                    /\ i \in Auth!Decisions' <=> i \in Auth!Decisions
                                    /\ \A c : Auth!Revises(i, c)' <=> Auth!Revises(i, c)
                                    /\ \A c : AuthRevokes(i, c)' <=> AuthRevokes(i, c)
  BY DEF AuthLogGrows, Auth!EditsMade, Auth!Decisions, Auth!IsEdit, Auth!Revises, AuthRevokes

\* What a prefix of the log gives stays.
LEMMA AuthPrefixStays ==
    ASSUME AuthLogGrows, DOMAIN log = 1..Len(log), Len(log) \in Nat, NEW c \in DOMAIN log,
           NEW n \in DOMAIN log, n >= c
    PROVE  Auth!StateUpTo(c, n)' = Auth!StateUpTo(c, n)
  <1> DEFINE T == {k \in Nat : k <= Len(log) => Auth!StateUpTo(c, k)' = Auth!StateUpTo(c, k)}
  <1>1. c \in Nat /\ n \in Nat /\ n <= Len(log) /\ c <= Len(log)
    OBVIOUS
  <1>2. AuthStateUnfolds /\ AuthStateUnfolds'
    BY AuthUnfolding, PTL
  <1>3. c \in T
    <2>1. Auth!StateUpTo(c, c) = Auth!Confirmed(log[c].request, c)
      BY <1>1, <1>2 DEF AuthStateUnfolds
    <2>2. Auth!StateUpTo(c, c)' = Auth!Confirmed(log'[c].request, c)
      BY <1>1, <1>2 DEF AuthStateUnfolds, Auth!Confirmed
    <2>3. log'[c] = log[c]
      BY DEF AuthLogGrows
    <2> QED BY <1>1, <2>1, <2>2, <2>3
  <1>4. ASSUME NEW k \in Nat, k \in T, k >= c PROVE k + 1 \in T
    <2> SUFFICES ASSUME k + 1 <= Len(log) PROVE Auth!StateUpTo(c, k + 1)' = Auth!StateUpTo(c, k + 1)
      OBVIOUS
    <2> PICK m : m = k + 1
      OBVIOUS
    <2>1. m \in DOMAIN log /\ m \in Nat /\ m - 1 = k /\ m # c /\ m >= c
      BY <1>1, <1>4
    <2>2. Auth!StateUpTo(c, m) =
            IF Auth!Revises(m, c)
            THEN Auth!Revised(Auth!StateUpTo(c, m - 1), log[m].request, m)
            ELSE Auth!StateUpTo(c, m - 1)
      BY <1>1, <1>2, <2>1 DEF AuthStateUnfolds
    <2>3. Auth!StateUpTo(c, m)' =
            IF Auth!Revises(m, c)'
            THEN Auth!Revised(Auth!StateUpTo(c, m - 1)', log'[m].request, m)
            ELSE Auth!StateUpTo(c, m - 1)'
      BY <1>1, <1>2, <2>1 DEF AuthStateUnfolds, Auth!Revised
    <2>4. Auth!StateUpTo(c, k)' = Auth!StateUpTo(c, k)
      BY <1>4
    <2>5. log'[m] = log[m] /\ (Auth!Revises(m, c)' <=> Auth!Revises(m, c))
      BY <2>1, AuthEventsStay DEF AuthLogGrows
    <2> QED BY <2>1, <2>2, <2>3, <2>4, <2>5
  <1> HIDE DEF T
  <1>5. \A k \in Nat : k >= c => k \in T
    BY <1>1, <1>3, <1>4, AuthFrom
  <1> QED BY <1>1, <1>5 DEF T

\* What the state of a confirmation becomes when one event is appended.
LEMMA AuthStateAfter ==
    ASSUME AuthLogInv, NEW x, log' = Append(log, x), NEW c \in DOMAIN nodes, NEW i, i = Len(log) + 1
    PROVE  /\ c \in DOMAIN log /\ Auth!Text(c)' = Auth!Text(c) /\ AuthTargetOf(c)' = AuthTargetOf(c)
           /\ Auth!State(c)' = IF Auth!Revises(i, c)'
                                THEN Auth!Revised(Auth!State(c), x.request, i) ELSE Auth!State(c)
           /\ Auth!State(c) = Auth!StateUpTo(c, Len(log))
  <1> PICK L : L = Len(log)
    OBVIOUS
  <1>1. /\ L \in Nat /\ DOMAIN log = 1..L
        /\ Len(log') = L + 1 /\ DOMAIN log' = 1..(L + 1) /\ log'[L + 1] = x /\ AuthLogGrows
    BY AuthAppended DEF AuthLogInv
  <1>2. c \in DOMAIN log
    BY DEF AuthLogInv, Auth!Decisions
  <1>3. log'[c] = log[c]
    BY <1>1, <1>2 DEF AuthLogGrows
  <1>4. AuthStateUnfolds'
    BY AuthUnfolding, PTL
  <1>5. c \in Nat /\ L + 1 \in Nat /\ L + 1 >= c /\ L + 1 # c /\ (L + 1) - 1 = L /\ L >= c
        /\ L \in DOMAIN log
    BY <1>1, <1>2
  <1>6. Auth!StateUpTo(c, L + 1)' =
            IF Auth!Revises(L + 1, c)'
            THEN Auth!Revised(Auth!StateUpTo(c, L)', log'[L + 1].request, L + 1)
            ELSE Auth!StateUpTo(c, L)'
    <2> PICK n : n = L + 1
      OBVIOUS
    <2>1. c \in Nat /\ n \in Nat /\ n >= c /\ n # c /\ n - 1 = L
      BY <1>5
    <2>2. Auth!StateUpTo(c, n)' =
            IF Auth!Revises(n, c)'
            THEN Auth!Revised(Auth!StateUpTo(c, n - 1)', log'[n].request, n)
            ELSE Auth!StateUpTo(c, n - 1)'
      BY <1>4, <2>1 DEF AuthStateUnfolds, Auth!Revised
    <2> QED BY <2>1, <2>2
  <1>7. Auth!StateUpTo(c, L)' = Auth!StateUpTo(c, L)
    BY <1>1, <1>2, <1>5, AuthPrefixStays
  <1>8. Auth!State(c)' = Auth!StateUpTo(c, L + 1)'
    BY <1>1 DEF Auth!State
  <1> QED BY <1>1, <1>2, <1>3, <1>6, <1>7, <1>8 DEF Auth!Text, AuthTargetOf, Auth!State

\* The state that a confirmation begins with.
LEMMA AuthStateNew ==
    ASSUME log \in Seq({log[i] : i \in DOMAIN log}), NEW x, log' = Append(log, x),
           NEW i, i = Len(log) + 1
    PROVE  Auth!State(i)' = Auth!Confirmed(x.request, i)
  <1> PICK L : L = Len(log)
    OBVIOUS
  <1>1. /\ L \in Nat /\ Len(log') = L + 1 /\ log'[L + 1] = x
    BY AuthAppended
  <1>2. AuthStateUnfolds'
    BY AuthUnfolding, PTL
  <1>3. i \in Nat /\ i = L + 1 /\ i >= i
    BY <1>1
  <1>4. Auth!StateUpTo(i, i)' = Auth!Confirmed(log'[i].request, i)
    BY <1>2, <1>3 DEF AuthStateUnfolds, Auth!Confirmed
  <1> QED BY <1>1, <1>3, <1>4 DEF Auth!State

(* ------------------------------- sources -------------------------------- *)

\* Where the log grows and no source moves, the sources stay in order.
LEMMA AuthSourcesStay ==
    ASSUME AuthAdmittedInv, AuthClaimsInv, AuthLogGrows, UNCHANGED <<admitted, claims>>
    PROVE  AuthAdmittedInv' /\ AuthClaimsInv'
  <1>1. \A i \in Auth!EditsMade : i \in Auth!EditsMade' /\ i \in DOMAIN log /\ log'[i] = log[i]
    BY AuthEventsStay DEF AuthLogGrows, Auth!EditsMade
  <1>2. AuthAdmittedInv'
    BY <1>1 DEF AuthAdmittedInv
  <1>3. ASSUME NEW p \in DOMAIN claims
        PROVE  /\ p = <<p[1], p[2]>> /\ p[1] \in Auth!EditsMade' /\ p[2] \in log'[p[1]].edit.states
               /\ claims'[p] = [poison |-> claims'[p].poison, by |-> claims'[p].by]
               /\ claims'[p].poison = log'[p[1]].edit.poison
               /\ ~claims'[p].poison => p[1] \in admitted'
               /\ claims'[p].by # 0 => /\ claims'[p].by \in admitted' /\ claims'[p].by > p[1]
                                       /\ Auth!Withdraws(log[claims[p].by].edit, p)'
               /\ claims'[p].by = 0 /\ ~claims'[p].poison =>
                     \A i \in admitted' : i > p[1] => ~Auth!Withdraws(log[i].edit, p)'
    <2>1. /\ p = <<p[1], p[2]>> /\ p[1] \in Auth!EditsMade /\ p[2] \in log[p[1]].edit.states
          /\ claims[p] = [poison |-> claims[p].poison, by |-> claims[p].by]
          /\ claims[p].poison = log[p[1]].edit.poison
          /\ ~claims[p].poison => p[1] \in admitted
          /\ claims[p].by # 0 => /\ claims[p].by \in admitted /\ claims[p].by > p[1]
                                 /\ Auth!Withdraws(log[claims[p].by].edit, p)
          /\ claims[p].by = 0 /\ ~claims[p].poison =>
                \A i \in admitted : i > p[1] => ~Auth!Withdraws(log[i].edit, p)
      BY DEF AuthClaimsInv
    <2>2. \A i \in admitted : Auth!Withdraws(log[i].edit, p)' <=> Auth!Withdraws(log[i].edit, p)
      BY <1>1, <2>1 DEF Auth!Withdraws, AuthAdmittedInv
    <2> QED BY <1>1, <2>1, <2>2
  <1>4. AuthClaimsInv'
    BY <1>3 DEF AuthClaimsInv
  <1> QED BY <1>2, <1>4

\* An edit that is admitted or poisonous keeps the sources in order.
LEMMA AuthSourcesIngested ==
    ASSUME AuthIInv, NEW e \in within.edits, Auth!Ingest(e), ~Auth!Obsolete(e)
    PROVE  AuthAdmittedInv' /\ AuthClaimsInv'
  <1> PICK i : i = Len(log) + 1
    OBVIOUS
  <1>1. /\ log' = Append(log, [edit |-> e, request |-> None])
        /\ admitted' = IF e.poison THEN admitted ELSE admitted \cup {i}
        /\ claims' = Auth!ClaimsAfter(e, i)
    BY DEF Auth!Ingest
  <1>2. /\ Len(log) \in Nat /\ DOMAIN log = 1..Len(log)
        /\ DOMAIN log' = 1..i /\ log'[i] = [edit |-> e, request |-> None] /\ AuthLogGrows
    BY <1>1, AuthAppended DEF AuthIInv, AuthLogInv
  <1>3. e # None /\ e.rev \in Nat /\ e.strong \in BOOLEAN /\ e.poison \in BOOLEAN
    BY ScenariosOK DEF AuthIInv, AuthLogInv
  <1>4. i \in Auth!EditsMade' /\ log'[i].edit = e
    BY <1>2, <1>3 DEF Auth!EditsMade, Auth!IsEdit
  <1>5. \A j \in Auth!EditsMade : /\ j \in Auth!EditsMade' /\ j \in DOMAIN log
                                  /\ j < i /\ j # i /\ log'[j] = log[j]
    BY <1>2, AuthEventsStay DEF AuthLogGrows, Auth!EditsMade
  <1>6. /\ DOMAIN claims' = DOMAIN claims \cup ({i} \X e.states)
        /\ \A p \in DOMAIN claims' :
             claims'[p] = IF p \notin DOMAIN claims THEN [poison |-> e.poison, by |-> 0]
                          ELSE IF ~claims[p].poison /\ claims[p].by = 0 /\ Auth!Withdraws(e, p)
                               THEN [claims[p] EXCEPT !.by = i]
                               ELSE claims[p]
    BY <1>1 DEF Auth!ClaimsAfter
  <1>7. \A j \in admitted : j \in Auth!EditsMade /\ ~log[j].edit.poison
    BY DEF AuthIInv, AuthAdmittedInv
  <1>8. \A j \in admitted' : j \in Auth!EditsMade' /\ ~log'[j].edit.poison
    BY <1>1, <1>4, <1>5, <1>7
  <1>9. \A j \in admitted' : \A t \in log'[j].edit.states : <<j, t>> \in DOMAIN claims'
    <2>1. \A j \in admitted : \A t \in log[j].edit.states : <<j, t>> \in DOMAIN claims
      BY DEF AuthIInv, AuthAdmittedInv
    <2> QED BY <1>1, <1>4, <1>5, <1>6, <1>7, <2>1
  <1>10. ASSUME NEW j \in admitted', NEW k \in admitted', j < k,
                log'[j].edit.field = log'[k].edit.field,
                log'[j].edit.rev # 0, log'[k].edit.rev # 0,
                Auth!Strength(log'[j].edit.strong) >= Auth!Strength(log'[k].edit.strong)
         PROVE  log'[j].edit.rev <= log'[k].edit.rev
    <2>1. j \in admitted /\ log'[j] = log[j]
      <3>1. j # i
        BY <1>1, <1>2, <1>5, <1>7, <1>10 DEF Auth!EditsMade
      <3> QED BY <1>1, <1>5, <1>7, <3>1
    <2>2. CASE k \in admitted
      <3>1. log'[k] = log[k]
        BY <1>5, <1>7, <2>2
      <3> QED BY <1>10, <2>1, <2>2, <3>1 DEF AuthIInv, AuthAdmittedInv
    <2>3. CASE k = i
      <3>1. ~Auth!Newer(e, j) /\ j \in DOMAIN log
        BY <2>1, <1>5, <1>7 DEF Auth!Obsolete
      <3>2. log[j].edit.rev \in Nat
        BY <1>7, <2>1, ScenariosOK DEF AuthIInv, AuthLogInv
      <3>3. ~(log[j].edit.rev > e.rev)
        BY <1>4, <1>10, <2>1, <2>3, <3>1 DEF Auth!Newer
      <3> QED BY <1>3, <1>4, <2>1, <2>3, <3>2, <3>3
    <2> QED BY <1>1, <2>2, <2>3
  <1>11. AuthAdmittedInv'
    BY <1>8, <1>9, <1>10 DEF AuthAdmittedInv
  <1>12. ASSUME NEW p \in DOMAIN claims'
         PROVE  /\ p = <<p[1], p[2]>> /\ p[1] \in Auth!EditsMade' /\ p[2] \in log'[p[1]].edit.states
                /\ claims'[p] = [poison |-> claims'[p].poison, by |-> claims'[p].by]
                /\ claims'[p].poison = log'[p[1]].edit.poison
                /\ ~claims'[p].poison => p[1] \in admitted'
                /\ claims'[p].by # 0 => /\ claims'[p].by \in admitted' /\ claims'[p].by > p[1]
                                        /\ Auth!Withdraws(log[claims[p].by].edit, p)'
                /\ claims'[p].by = 0 /\ ~claims'[p].poison =>
                      \A j \in admitted' : j > p[1] => ~Auth!Withdraws(log[j].edit, p)'
    <2>1. CASE p \notin DOMAIN claims
      <3>1. p \in {i} \X e.states /\ claims'[p] = [poison |-> e.poison, by |-> 0]
        BY <1>6, <2>1
      <3>2. \A j \in admitted' : ~(j > i)
        BY <1>1, <1>2, <1>5, <1>7
      <3>3. p = <<p[1], p[2]>> /\ p[1] = i /\ p[2] \in e.states
        BY <3>1
      <3> QED BY <1>1, <1>4, <3>1, <3>2, <3>3
    <2>2. CASE p \in DOMAIN claims
      <3>1. /\ p = <<p[1], p[2]>> /\ p[1] \in Auth!EditsMade /\ p[2] \in log[p[1]].edit.states
            /\ claims[p] = [poison |-> claims[p].poison, by |-> claims[p].by]
            /\ claims[p].poison = log[p[1]].edit.poison
            /\ ~claims[p].poison => p[1] \in admitted
            /\ claims[p].by # 0 => /\ claims[p].by \in admitted /\ claims[p].by > p[1]
                                   /\ Auth!Withdraws(log[claims[p].by].edit, p)
            /\ claims[p].by = 0 /\ ~claims[p].poison =>
                  \A j \in admitted : j > p[1] => ~Auth!Withdraws(log[j].edit, p)
        BY <2>2 DEF AuthIInv, AuthClaimsInv
      <3>2. \A j \in admitted : Auth!Withdraws(log[j].edit, p)' <=> Auth!Withdraws(log[j].edit, p)
        BY <1>5, <1>7, <3>1 DEF Auth!Withdraws
      <3>3. Auth!Withdraws(log[i].edit, p)' <=> Auth!Withdraws(e, p)
        BY <1>4, <1>5, <3>1 DEF Auth!Withdraws
      <3>4. /\ p[1] \in Auth!EditsMade' /\ log'[p[1]] = log[p[1]] /\ p[1] < i
            /\ admitted \subseteq admitted'
        BY <1>1, <1>5, <3>1
      <3>5. CASE ~claims[p].poison /\ claims[p].by = 0 /\ Auth!Withdraws(e, p)
        <4>1. claims'[p] = [poison |-> claims[p].poison, by |-> i]
          BY <1>6, <2>2, <3>1, <3>5
        <4>2. i \in admitted' /\ i > p[1] /\ i # 0
          BY <1>1, <1>2, <3>4, <3>5 DEF Auth!Withdraws, Auth!EditsMade
        <4>3. Auth!Withdraws(log[claims[p].by].edit, p)'
          <5>1. claims'[p].by = i
            BY <4>1
          <5> QED BY <3>3, <3>5, <5>1 DEF Auth!Withdraws
        <4> QED BY <3>1, <3>4, <4>1, <4>2, <4>3
      <3>6. CASE ~(~claims[p].poison /\ claims[p].by = 0 /\ Auth!Withdraws(e, p))
        <4>1. claims'[p] = claims[p]
          BY <1>6, <2>2, <3>6
        <4>2. claims[p].by # 0 => Auth!Withdraws(log[claims[p].by].edit, p)'
          <5> HAVE claims[p].by # 0
          <5>1. claims[p].by \in admitted /\ Auth!Withdraws(log[claims[p].by].edit, p)
            BY <3>1
          <5> QED BY <3>2, <4>1, <5>1 DEF Auth!Withdraws
        <4>3. claims[p].by = 0 /\ ~claims[p].poison =>
                \A j \in admitted' : j > p[1] => ~Auth!Withdraws(log[j].edit, p)'
          BY <1>1, <3>1, <3>2, <3>3, <3>6
        <4> QED BY <3>1, <3>4, <4>1, <4>2, <4>3
      <3> QED BY <3>5, <3>6
    <2> QED BY <2>1, <2>2
  <1>13. AuthClaimsInv'
    BY <1>12 DEF AuthClaimsInv
  <1> QED BY <1>11, <1>13

(* ------------------------------ decisions ------------------------------- *)

\* What was decided before stays decided on the state that it was decided on.
LEMMA AuthDecidedStays ==
    ASSUME AuthLogInv, Auth!NoLostDecision, AuthLogGrows
    PROVE  \A i \in DOMAIN log : \A c : Auth!Revises(i, c)' =>
               /\ c \in DOMAIN nodes /\ Auth!Revises(i, c)
               /\ log'[i].request.expected = Auth!StateUpTo(c, i - 1)'
               /\ ~Auth!StateUpTo(c, i - 1)'.revoked
  <1> SUFFICES ASSUME NEW i \in DOMAIN log, NEW c, Auth!Revises(i, c)'
               PROVE  /\ c \in DOMAIN nodes /\ Auth!Revises(i, c)
                      /\ log'[i].request.expected = Auth!StateUpTo(c, i - 1)'
                      /\ ~Auth!StateUpTo(c, i - 1)'.revoked
    OBVIOUS
  <1>1. Auth!Revises(i, c)
    BY AuthEventsStay
  <1>2. c \in DOMAIN nodes /\ c < i
    <2>1. i \in Auth!Decisions /\ log[i].request.op \in {"revoke", "replace_scope"}
          /\ log[i].request.target = <<c>>
      BY <1>1 DEF Auth!Revises, Auth!Decisions, Auth!EditsMade
    <2> QED BY <2>1 DEF AuthLogInv
  <1>3. c \in DOMAIN log /\ Len(log) \in Nat /\ DOMAIN log = 1..Len(log)
    BY <1>2, LenProperties DEF AuthLogInv, Auth!Decisions
  <1>4. PICK k : k = i - 1
    OBVIOUS
  <1>5. k \in DOMAIN log /\ k >= c
    BY <1>2, <1>3, <1>4
  <1>6. Auth!StateUpTo(c, k)' = Auth!StateUpTo(c, k)
    BY <1>3, <1>5, AuthPrefixStays
  <1>7. log[i].request.expected = Auth!StateUpTo(c, k) /\ ~Auth!StateUpTo(c, k).revoked
    BY <1>1, <1>2, <1>4 DEF Auth!NoLostDecision
  <1> QED BY <1>1, <1>2, <1>4, <1>6, <1>7 DEF AuthLogGrows

\* Where nothing is decided, the decisions and the states stay exact.
LEMMA AuthNothingDecided ==
    ASSUME AuthIInv, AuthLogGrows, Auth!Decisions' = Auth!Decisions, DOMAIN nodes' = DOMAIN nodes,
           \A c \in DOMAIN nodes : /\ nodes'[c].state = nodes[c].state
                                   /\ Auth!State(c)' = Auth!State(c)
    PROVE  AuthStatesInv' /\ Auth!NoLostDecision' /\ Auth!OneDecisionPerRequest'
  <1>1. \A i \in Auth!Decisions : i \in DOMAIN log /\ log'[i] = log[i]
    BY DEF AuthLogGrows, Auth!Decisions
  <1>2. Auth!OneDecisionPerRequest'
    BY <1>1 DEF AuthIInv, Auth!OneDecisionPerRequest
  <1>3. \A i, c : Auth!Revises(i, c)' => i \in DOMAIN log
    BY <1>1 DEF Auth!Revises, Auth!Decisions, Auth!EditsMade
  <1>4. Auth!NoLostDecision'
    BY <1>3, AuthDecidedStays DEF AuthIInv, Auth!NoLostDecision
  <1>5. \A c \in DOMAIN nodes : AuthTargetOf(c)' = AuthTargetOf(c)
    BY <1>1 DEF AuthIInv, AuthLogInv, AuthTargetOf
  <1>6. \A i, c : AuthRevokes(i, c)' <=> AuthRevokes(i, c)
    <2>1. \A i, c : Auth!Revises(i, c) => i \in DOMAIN log
      BY <1>1 DEF Auth!Revises, Auth!Decisions, Auth!EditsMade
    <2> QED BY <1>3, <2>1, AuthEventsStay DEF AuthRevokes
  <1>7. \A c \in DOMAIN nodes :
          (\E i \in DOMAIN log' : AuthRevokes(i, c)') <=> (\E i \in DOMAIN log : AuthRevokes(i, c))
    BY <1>3, <1>6 DEF AuthLogGrows, AuthRevokes
  <1>8. AuthStatesInv'
    BY <1>5, <1>7 DEF AuthIInv, AuthStatesInv
  <1> QED BY <1>2, <1>4, <1>8

(* -------------------------------- steps --------------------------------- *)

\* What no step takes back.
AuthOnward ==
    /\ AuthLogGrows
    /\ swept \subseteq swept'
    /\ DOMAIN claims \subseteq DOMAIN claims'
    /\ \A p \in DOMAIN claims : /\ claims'[p].poison = claims[p].poison
                                /\ claims[p].by # 0 => claims'[p].by # 0
    /\ DOMAIN nodes \subseteq DOMAIN nodes'
    /\ \A c \in DOMAIN nodes : nodes[c].state.revoked => nodes'[c].state.revoked

AuthBaseInv ==
    /\ AuthLogInv /\ AuthAdmittedInv /\ AuthClaimsInv /\ AuthStatesInv /\ AuthNodesInv
    /\ AuthNoticesInv
    /\ Auth!NoLostDecision /\ Auth!OneDecisionPerRequest /\ Auth!OneNotice

\* What two notices of an assumption must not be at once.
AuthApart(m, n) ==
    /\ ~({notices[m].status, notices[n].status} \subseteq {"open", "pending_confirmation"})
    /\ notices[m].wording = notices[n].wording =>
          "resolved" \in {notices[m].status, notices[n].status}

\* An edit raises at most one notice for an assumption, and none beside one
\* that is awaited or that was rejected in these words.
LEMMA AuthNoticesIngested ==
    ASSUME AuthIInv, NEW e \in within.edits, Auth!Ingest(e), ~Auth!Obsolete(e)
    PROVE  /\ AuthNoticesInv' /\ Auth!OneNotice'
           /\ DOMAIN notices \subseteq DOMAIN notices'
           /\ \A n \in DOMAIN notices' :
                 IF n \in DOMAIN notices THEN notices'[n] = notices[n]
                 ELSE notices'[n].status = "pending_confirmation"
  <1> DEFINE i == Len(log) + 1
             fresh == IF e.poison \/ ~e.strong THEN {} ELSE Auth!Noticed(e)
  <1>1. /\ log' = Append(log, [edit |-> e, request |-> None])
        /\ notices' = [n \in DOMAIN notices \cup {<<i, q[1]>> : q \in fresh} |->
                         IF n \in DOMAIN notices THEN notices[n]
                         ELSE [status |-> "pending_confirmation",
                               wording |-> (CHOOSE q \in fresh : q[1] = n[2])[2]]]
        /\ DOMAIN nodes' = DOMAIN nodes
    BY DEF Auth!Ingest
  <1> HIDE DEF i, fresh
  <1>2. /\ Len(log) \in Nat /\ DOMAIN log = 1..Len(log)
        /\ DOMAIN log' = 1..i /\ log'[i] = [edit |-> e, request |-> None] /\ AuthLogGrows
    BY <1>1, AuthAppended DEF AuthIInv, AuthLogInv, i
  <1>3. e # None
    BY ScenariosOK DEF AuthIInv, AuthLogInv
  <1>14. i \in 1..i
    BY <1>2 DEF i
  <1>4. i \in Auth!EditsMade'
    BY <1>2, <1>3, <1>14 DEF Auth!EditsMade, Auth!IsEdit
  <1>5. \A q \in fresh :
          /\ q[1] \in DOMAIN nodes /\ AuthAssumed(q[1])
          /\ \A m \in DOMAIN notices : m[2] = q[1] =>
                /\ notices[m].status \notin {"open", "pending_confirmation"}
                /\ ~(notices[m].status = "rejected" /\ notices[m].wording = q[2])
    BY DEF fresh, Auth!Noticed, AuthAssumed
  <1>6. ASSUME NEW n \in DOMAIN notices', n \notin DOMAIN notices
        PROVE  /\ n = <<i, n[2]>> /\ n[1] = i
               /\ \E q \in fresh : /\ q[1] = n[2]
                                   /\ notices'[n] = [status |-> "pending_confirmation",
                                                     wording |-> q[2]]
    <2>1. n \in {<<i, q[1]>> : q \in fresh}
      BY <1>1, <1>6
    <2>2. n = <<i, n[2]>> /\ n[1] = i /\ \E q \in fresh : q[1] = n[2]
      BY <2>1
    <2>3. notices'[n] = [status |-> "pending_confirmation",
                         wording |-> (CHOOSE q \in fresh : q[1] = n[2])[2]]
      BY <1>1, <1>6
    <2>4. PICK r : r = CHOOSE q \in fresh : q[1] = n[2]
      OBVIOUS
    <2>5. r \in fresh /\ r[1] = n[2]
      BY <2>2, <2>4
    <2> QED BY <2>2, <2>3, <2>4, <2>5
  <1>7. \A n \in DOMAIN notices : n \in DOMAIN notices' /\ notices'[n] = notices[n]
    BY <1>1
  <1>8. \A c \in DOMAIN nodes : AuthAssumed(c)' <=> AuthAssumed(c)
    <2>1. \A c \in DOMAIN nodes : log'[c] = log[c]
      BY <1>2 DEF AuthLogGrows, AuthIInv, AuthLogInv, Auth!Decisions
    <2> QED BY <2>1 DEF AuthAssumed, Auth!Text
  <1>9. \A j \in Auth!EditsMade : j \in Auth!EditsMade'
    BY <1>2, AuthEventsStay
  <1>10. ASSUME NEW n \in DOMAIN notices'
         PROVE  /\ n = <<n[1], n[2]>> /\ n[1] \in Auth!EditsMade' /\ n[2] \in DOMAIN nodes'
                /\ AuthAssumed(n[2])'
                /\ notices'[n] = [status |-> notices'[n].status, wording |-> notices'[n].wording]
                /\ notices'[n].status \in {"pending_confirmation", "open", "rejected", "resolved"}
    <2>1. CASE n \in DOMAIN notices
      <3>1. /\ n = <<n[1], n[2]>> /\ n[1] \in Auth!EditsMade /\ n[2] \in DOMAIN nodes
            /\ AuthAssumed(n[2])
            /\ notices[n] = [status |-> notices[n].status, wording |-> notices[n].wording]
            /\ notices[n].status \in {"pending_confirmation", "open", "rejected", "resolved"}
        BY <2>1 DEF AuthIInv, AuthNoticesInv
      <3> QED BY <1>1, <1>7, <1>8, <1>9, <2>1, <3>1
    <2>2. CASE n \notin DOMAIN notices
      BY <1>1, <1>4, <1>5, <1>6, <1>8, <2>2
    <2> QED BY <2>1, <2>2
  <1>11. AuthNoticesInv'
    BY <1>10 DEF AuthNoticesInv
  <1>12. ASSUME NEW m \in DOMAIN notices', NEW n \in DOMAIN notices', m # n, m[2] = n[2]
         PROVE  AuthApart(m, n)'
    <2>1. CASE m \in DOMAIN notices /\ n \in DOMAIN notices
      <3>1. AuthApart(m, n)
        BY <1>12, <2>1 DEF AuthIInv, Auth!OneNotice, AuthApart
      <3> QED BY <1>7, <2>1, <3>1 DEF AuthApart
    <2>2. ASSUME NEW a \in DOMAIN notices, NEW b \in DOMAIN notices', b \notin DOMAIN notices,
                 a[2] = b[2]
          PROVE  /\ notices'[a].status \in {"rejected", "resolved"}
                 /\ notices'[a].wording = notices'[b].wording => notices'[a].status = "resolved"
      <3>1. PICK q \in fresh : /\ q[1] = b[2]
                               /\ notices'[b] = [status |-> "pending_confirmation",
                                                 wording |-> q[2]]
        BY <1>6, <2>2
      <3>2. /\ notices[a].status \notin {"open", "pending_confirmation"}
            /\ ~(notices[a].status = "rejected" /\ notices[a].wording = q[2])
        BY <1>5, <2>2, <3>1
      <3>3. notices[a].status \in {"pending_confirmation", "open", "rejected", "resolved"}
        BY DEF AuthIInv, AuthNoticesInv
      <3> QED BY <1>7, <3>1, <3>2, <3>3
    <2>3. CASE m \in DOMAIN notices /\ n \notin DOMAIN notices
      BY <1>12, <2>2, <2>3 DEF AuthApart
    <2>4. CASE n \in DOMAIN notices /\ m \notin DOMAIN notices
      BY <1>12, <2>2, <2>4 DEF AuthApart
    <2>5. CASE m \notin DOMAIN notices /\ n \notin DOMAIN notices
      BY <1>6, <1>12, <2>5
    <2> QED BY <2>1, <2>3, <2>4, <2>5
  <1>13. Auth!OneNotice'
    BY <1>12 DEF Auth!OneNotice, AuthApart
  <1> QED BY <1>6, <1>7, <1>11, <1>13

\* What an event leaves alone.
LEMMA AuthNodesStay ==
    ASSUME AuthIInv, AuthLogGrows, UNCHANGED <<claims, nodes, notices>>
    PROVE  AuthNodesInv' /\ AuthNoticesInv' /\ Auth!OneNotice'
  <1>1. \A c \in DOMAIN nodes : log'[c] = log[c]
    BY DEF AuthLogGrows, AuthIInv, AuthLogInv, Auth!Decisions
  <1>2. \A c \in DOMAIN nodes : AuthTargetOf(c)' = AuthTargetOf(c) /\ AuthByOf(c)' = AuthByOf(c)
                                /\ (AuthAssumed(c)' <=> AuthAssumed(c))
    BY <1>1 DEF AuthTargetOf, AuthByOf, AuthAssumed, Auth!Text
  <1>3. \A n, c : AuthOpenOn(n, c)' <=> AuthOpenOn(n, c)
    BY DEF AuthOpenOn
  <1>4. AuthNodesInv'
    BY <1>2, <1>3 DEF AuthIInv, AuthNodesInv, AuthNodeOK
  <1>5. AuthNoticesInv'
    BY <1>2, AuthEventsStay DEF AuthIInv, AuthNoticesInv
  <1>6. Auth!OneNotice'
    BY DEF AuthIInv, Auth!OneNotice
  <1> QED BY <1>4, <1>5, <1>6

\* A withdrawal invalidates every confirmation of the claim, and nothing else.
LEMMA AuthNodesIngested ==
    ASSUME AuthIInv, NEW e \in within.edits, Auth!Ingest(e), ~Auth!Obsolete(e)
    PROVE  /\ AuthNodesInv' /\ DOMAIN nodes' = DOMAIN nodes
           /\ \A c \in DOMAIN nodes :
                 /\ nodes'[c].state = nodes[c].state
                 /\ nodes'[c].status \in {nodes[c].status, "invalidated"}
  <1> DEFINE i == Len(log) + 1
             after == Auth!ClaimsAfter(e, i)
             lost(c) == /\ log[c].request.target \in DOMAIN claims
                        /\ claims[log[c].request.target].by # after[log[c].request.target].by
  <1>1. /\ log' = Append(log, [edit |-> e, request |-> None])
        /\ claims' = after
        /\ nodes' = [c \in DOMAIN nodes |->
                        IF lost(c) THEN [nodes[c] EXCEPT !.status = "invalidated", !.valid = FALSE]
                        ELSE nodes[c]]
    BY DEF Auth!Ingest
  <1>2. i \in Nat /\ i # 0 /\ AuthLogGrows
    <2>1. log' = Append(log, [edit |-> e, request |-> None])
      BY <1>1
    <2>2. log \in Seq({log[j] : j \in DOMAIN log})
      BY DEF AuthIInv, AuthLogInv
    <2>3. Len(log) \in Nat /\ AuthLogGrows
      BY <2>1, <2>2, AuthAppended
    <2> QED BY <2>3
  <1> HIDE DEF i
  <1>3. \A p \in DOMAIN claims :
           /\ p \in DOMAIN after
           /\ \/ after[p] = claims[p]
              \/ after[p] = [claims[p] EXCEPT !.by = i]
    BY DEF Auth!ClaimsAfter
  <1>4. \A p \in DOMAIN claims :
           claims[p] = [poison |-> claims[p].poison, by |-> claims[p].by]
    BY DEF AuthIInv, AuthClaimsInv
  <1>5. \A p \in DOMAIN claims : after[p].by \in {claims[p].by, i}
    BY <1>3, <1>4
  <1> HIDE DEF after
  <1>6. \A c \in DOMAIN nodes : /\ log'[c] = log[c] /\ AuthTargetOf(c) \in DOMAIN claims
                                /\ AuthTargetOf(c)' = AuthTargetOf(c)
    BY <1>2 DEF AuthLogGrows, AuthIInv, AuthLogInv, AuthNodesInv, AuthNodeOK, Auth!Decisions,
          AuthTargetOf
  <1>7. ASSUME NEW c \in DOMAIN nodes
        PROVE  /\ AuthByOf(c)' = after[AuthTargetOf(c)].by
               /\ lost(c) <=> AuthByOf(c)' # AuthByOf(c)
               /\ AuthByOf(c)' \in {AuthByOf(c), i}
    BY <1>1, <1>5, <1>6 DEF AuthByOf, AuthTargetOf
  <1>8. ASSUME NEW c \in DOMAIN nodes
        PROVE  /\ nodes[c] = [state |-> nodes[c].state, status |-> nodes[c].status,
                              valid |-> nodes[c].valid]
               /\ AuthByOf(c)' = AuthByOf(c) => nodes'[c] = nodes[c]
               /\ AuthByOf(c)' # AuthByOf(c) =>
                     nodes'[c] = [state |-> nodes[c].state, status |-> "invalidated",
                                  valid |-> FALSE]
    <2>1. nodes[c] = [state |-> nodes[c].state, status |-> nodes[c].status,
                      valid |-> nodes[c].valid]
      BY DEF AuthIInv, AuthNodesInv, AuthNodeOK
    <2>2. nodes'[c] = IF lost(c)
                      THEN [nodes[c] EXCEPT !.status = "invalidated", !.valid = FALSE]
                      ELSE nodes[c]
      BY <1>1
    <2> QED BY <1>7, <2>1, <2>2
  <1>9. \A c : (\E n \in DOMAIN notices' : AuthOpenOn(n, c)')
                  <=> (\E n \in DOMAIN notices : AuthOpenOn(n, c))
    BY AuthNoticesIngested DEF AuthOpenOn
  <1>10. DOMAIN nodes' = DOMAIN nodes
    BY <1>1
  <1>11. ASSUME NEW c \in DOMAIN nodes
         PROVE  /\ nodes'[c] = [state |-> nodes'[c].state, status |-> nodes'[c].status,
                                valid |-> nodes'[c].valid]
                /\ nodes'[c].status \in {"active", "uncertain", "invalidated"}
                /\ nodes'[c].valid \in BOOLEAN
                /\ AuthTargetOf(c)' \in DOMAIN claims'
                /\ ~nodes'[c].valid => nodes'[c].state.revoked \/ AuthByOf(c)' # 0
                /\ nodes'[c].status = "invalidated" =>
                      \/ nodes'[c].state.revoked \/ AuthByOf(c)' # 0
                      \/ \E n \in DOMAIN notices' : AuthOpenOn(n, c)'
                /\ (\E n \in DOMAIN notices' : AuthOpenOn(n, c)') =>
                      nodes'[c].status = "invalidated"
    <2>1. /\ nodes[c].status \in {"active", "uncertain", "invalidated"}
          /\ nodes[c].valid \in BOOLEAN
          /\ ~nodes[c].valid => nodes[c].state.revoked \/ AuthByOf(c) # 0
          /\ nodes[c].status = "invalidated" =>
                \/ nodes[c].state.revoked \/ AuthByOf(c) # 0
                \/ \E n \in DOMAIN notices : AuthOpenOn(n, c)
          /\ (\E n \in DOMAIN notices : AuthOpenOn(n, c)) => nodes[c].status = "invalidated"
      BY DEF AuthIInv, AuthNodesInv, AuthNodeOK
    <2>2. AuthTargetOf(c)' \in DOMAIN claims'
      BY <1>1, <1>3, <1>6
    <2>3. CASE AuthByOf(c)' = AuthByOf(c)
      <3>1. nodes'[c] = nodes[c]
        BY <1>8, <2>3
      <3> QED BY <1>8, <1>9, <2>1, <2>2, <2>3, <3>1
    <2>4. CASE AuthByOf(c)' # AuthByOf(c)
      <3>1. AuthByOf(c)' # 0
        BY <1>2, <1>7, <2>4
      <3>2. nodes'[c] = [state |-> nodes[c].state, status |-> "invalidated", valid |-> FALSE]
        BY <1>8, <2>4
      <3> QED BY <2>2, <3>1, <3>2
    <2> QED BY <2>3, <2>4
  <1>12. AuthNodesInv'
    BY <1>10, <1>11 DEF AuthNodesInv, AuthNodeOK
  <1>13. \A c \in DOMAIN nodes : /\ nodes'[c].state = nodes[c].state
                                 /\ nodes'[c].status \in {nodes[c].status, "invalidated"}
    <2> TAKE c \in DOMAIN nodes
    <2>1. CASE AuthByOf(c)' = AuthByOf(c)
      BY <1>8, <2>1
    <2>2. CASE AuthByOf(c)' # AuthByOf(c)
      <3>1. nodes'[c] = [state |-> nodes[c].state, status |-> "invalidated", valid |-> FALSE]
        BY <1>8, <2>2
      <3> QED BY <3>1
    <2> QED BY <2>1, <2>2
  <1> QED BY <1>10, <1>12, <1>13

\* An edited field of a source is ingested.
LEMMA AuthIngestKeeps ==
    ASSUME AuthIInv, NEW e \in within.edits, Auth!Ingest(e)
    PROVE  /\ AuthBaseInv' /\ AuthOnward /\ DOMAIN nodes' = DOMAIN nodes
           /\ \A c \in DOMAIN nodes :
                 /\ nodes'[c].state = nodes[c].state
                 /\ nodes'[c].status \in {nodes[c].status, "invalidated"}
  <1> PICK i : i = Len(log) + 1
    OBVIOUS
  <1> PICK x : x = [edit |-> e, request |-> None]
    OBVIOUS
  <1>1. log' = Append(log, x) /\ UNCHANGED <<swept, within>>
    BY DEF Auth!Ingest
  <1>2. /\ Len(log) \in Nat /\ DOMAIN log = 1..Len(log) /\ DOMAIN log' = 1..i /\ log'[i] = x
        /\ (log \in Seq({log[j] : j \in DOMAIN log}))' /\ AuthLogGrows
    BY <1>1, AuthAppended DEF AuthIInv, AuthLogInv
  <1>3. e # None /\ within \in Scenarios
    BY ScenariosOK DEF AuthIInv, AuthLogInv
  <1>4. i \in Auth!EditsMade' /\ i \notin Auth!Decisions' /\ i \notin DOMAIN log
    BY <1>2, <1>3 DEF Auth!EditsMade, Auth!Decisions, Auth!IsEdit
  <1>5. Auth!Decisions' = Auth!Decisions
    BY <1>2, <1>4, AuthEventsStay DEF AuthLogGrows, Auth!Decisions
  <1>6. AuthAdmittedInv' /\ AuthClaimsInv'
    <2>1. CASE Auth!Obsolete(e)
      BY <1>2, <2>1, AuthSourcesStay DEF Auth!Ingest, AuthIInv
    <2> QED BY <2>1, AuthSourcesIngested
  <1>7. /\ AuthNodesInv' /\ DOMAIN nodes' = DOMAIN nodes
        /\ \A c \in DOMAIN nodes :
              /\ nodes'[c].state = nodes[c].state
              /\ nodes'[c].status \in {nodes[c].status, "invalidated"}
    <2>1. CASE Auth!Obsolete(e)
      BY <1>2, <2>1, AuthNodesStay DEF Auth!Ingest
    <2> QED BY <2>1, AuthNodesIngested
  <1>8. AuthNoticesInv' /\ Auth!OneNotice'
    <2>1. CASE Auth!Obsolete(e)
      BY <1>2, <2>1, AuthNodesStay DEF Auth!Ingest
    <2> QED BY <2>1, AuthNoticesIngested
  <1>9. \A c \in DOMAIN nodes : Auth!State(c)' = Auth!State(c)
    <2> TAKE c \in DOMAIN nodes
    <2>1. ~Auth!Revises(i, c)'
      BY <1>4 DEF Auth!Revises, Auth!Decisions, Auth!EditsMade
    <2> QED BY <1>1, <2>1, AuthStateAfter DEF AuthIInv
  <1>10. AuthStatesInv' /\ Auth!NoLostDecision' /\ Auth!OneDecisionPerRequest'
    BY <1>2, <1>5, <1>7, <1>9, AuthNothingDecided
  <1>11. AuthLogInv'
    <2>1. \A j \in Auth!EditsMade' : log'[j].edit \in within'.edits
      <3>1. \A j \in Auth!EditsMade' : j = i \/ (j \in Auth!EditsMade /\ log'[j] = log[j])
        BY <1>2, AuthEventsStay DEF AuthLogGrows, Auth!EditsMade
      <3>2. \A j \in Auth!EditsMade : log[j].edit \in within.edits
        BY DEF AuthIInv, AuthLogInv
      <3>3. x.edit = e
        OBVIOUS
      <3> QED BY <1>1, <1>2, <3>1, <3>2, <3>3
    <2>2. \A j \in Auth!Decisions : log'[j] = log[j]
      BY <1>2 DEF AuthLogGrows, Auth!Decisions
    <2>3. \A c \in DOMAIN nodes' : c \in Auth!Decisions' /\ log'[c].request.op = "confirm"
      BY <1>5, <1>7, <2>2 DEF AuthIInv, AuthLogInv
    <2>4. \A j \in Auth!Decisions' : log'[j].request.op \in {"revoke", "replace_scope"} =>
             /\ log'[j].request.target[1] \in DOMAIN nodes' /\ log'[j].request.target[1] < j
             /\ log'[j].request.target = <<log'[j].request.target[1]>>
      BY <1>5, <1>7, <2>2 DEF AuthIInv, AuthLogInv
    <2> QED BY <1>1, <1>2, <1>3, <2>1, <2>3, <2>4 DEF AuthIInv, AuthLogInv
  <1>12. /\ DOMAIN claims \subseteq DOMAIN claims'
         /\ \A p \in DOMAIN claims : /\ claims'[p].poison = claims[p].poison
                                     /\ claims[p].by # 0 => claims'[p].by # 0
    <2>1. CASE Auth!Obsolete(e)
      BY <2>1 DEF Auth!Ingest
    <2>2. CASE ~Auth!Obsolete(e)
      <3>1. claims' = Auth!ClaimsAfter(e, i)
        BY <2>2 DEF Auth!Ingest
      <3>2. \A p \in DOMAIN claims :
              /\ p \in DOMAIN claims'
              /\ claims'[p] = IF ~claims[p].poison /\ claims[p].by = 0 /\ Auth!Withdraws(e, p)
                              THEN [claims[p] EXCEPT !.by = i]
                              ELSE claims[p]
        BY <3>1 DEF Auth!ClaimsAfter
      <3>3. \A p \in DOMAIN claims :
               claims[p] = [poison |-> claims[p].poison, by |-> claims[p].by]
        BY DEF AuthIInv, AuthClaimsInv
      <3> QED BY <3>2, <3>3
    <2> QED BY <2>1, <2>2
  <1>13. AuthOnward
    BY <1>1, <1>2, <1>7, <1>12 DEF AuthOnward
  <1> QED BY <1>6, <1>7, <1>8, <1>10, <1>11, <1>13 DEF AuthBaseInv

(* ------------------------------ a decision ------------------------------ *)

AuthRevising == {"revoke", "replace_scope"}
AuthRuling == {"confirm_invalidation", "reject_invalidation"}

\* What a caller can ask for.
AuthRequested(r) ==
    \/ r.op = "confirm" /\ r.target \in DOMAIN claims
    \/ r.op \in AuthRevising /\ \E c \in DOMAIN nodes : r.target = <<c>>
    \/ /\ r.op \in AuthRuling /\ r.target \in DOMAIN notices
       /\ r.expected = [notices[r.target] EXCEPT !.status = "pending_confirmation"]

\* The requests that the model makes are of these shapes.
LEMMA AuthRequestsMade ==
    ASSUME NEW id, NEW r \in Auth!Confirmations(id) \cup Auth!Revisions(id) \cup Auth!Rulings(id)
    PROVE  AuthRequested(r)
  <1>1. CASE r \in Auth!Confirmations(id)
    BY <1>1 DEF Auth!Confirmations, Auth!Request, AuthRequested
  <1>2. CASE r \in Auth!Revisions(id)
    <2> DEFINE W(c) == LET read == {Auth!StateUpTo(c, n) : n \in c..Len(log)}
                       IN  {Auth!Request(id, "revoke", <<c>>, x, Auth!Global) : x \in read}
                           \cup {Auth!Request(id, "replace_scope", <<c>>, x, s) :
                                     x \in read, s \in SUBSET DOMAIN nodes}
    <2>3. Auth!Revisions(id) = UNION {W(c) : c \in DOMAIN nodes}
      BY DEF Auth!Revisions
    <2>1. PICK c \in DOMAIN nodes : r \in W(c)
      <3> HIDE DEF W
      <3> QED BY <1>2, <2>3
    <2> DEFINE Seen == {Auth!StateUpTo(c, n) : n \in c..Len(log)}
    <2>4. CASE r \in {Auth!Request(id, "revoke", <<c>>, x, Auth!Global) : x \in Seen}
      <3>1. PICK x \in Seen : r = Auth!Request(id, "revoke", <<c>>, x, Auth!Global)
        BY <2>4
      <3> QED BY <3>1 DEF Auth!Request, AuthRequested, AuthRevising
    <2>5. CASE r \in {Auth!Request(id, "replace_scope", <<c>>, x, s) :
                         x \in Seen, s \in SUBSET DOMAIN nodes}
      <3>1. PICK x \in Seen, s \in SUBSET DOMAIN nodes :
              r = Auth!Request(id, "replace_scope", <<c>>, x, s)
        BY <2>5
      <3> QED BY <3>1 DEF Auth!Request, AuthRequested, AuthRevising
    <2> QED BY <2>1, <2>4, <2>5
  <1>3. CASE r \in Auth!Rulings(id)
    <2>1. PICK op \in AuthRuling, n \in DOMAIN notices :
            r = Auth!Request(id, op, n,
                             [notices[n] EXCEPT !.status = "pending_confirmation"], Auth!Global)
      BY <1>3 DEF Auth!Rulings, AuthRuling
    <2> QED BY <2>1 DEF Auth!Request, AuthRequested
  <1> QED BY <1>1, <1>2, <1>3

\* A decision moves no source.
LEMMA AuthDecisionAppended ==
    ASSUME AuthIInv, NEW r, Auth!Decide(r), NEW i, i = Len(log) + 1
    PROVE  /\ AuthLogGrows /\ i \in Nat /\ Len(log) \in Nat
           /\ DOMAIN log = 1..Len(log) /\ DOMAIN log' = 1..i /\ i \notin DOMAIN log
           /\ log' = Append(log, [edit |-> None, request |-> r])
           /\ log'[i] = [edit |-> None, request |-> r]
           /\ (log \in Seq({log[j] : j \in DOMAIN log}))'
           /\ Auth!Decisions' = Auth!Decisions \cup {i} /\ Auth!EditsMade' = Auth!EditsMade
           /\ i \notin DOMAIN nodes
           /\ \A c \in DOMAIN nodes : /\ log'[c] = log[c] /\ AuthByOf(c)' = AuthByOf(c)
                                      /\ AuthTargetOf(c)' = AuthTargetOf(c)
                                      /\ Auth!Text(c)' = Auth!Text(c)
                                      /\ AuthAssumed(c)' <=> AuthAssumed(c)
           /\ AuthAdmittedInv' /\ AuthClaimsInv' /\ Auth!OneDecisionPerRequest'
           /\ UNCHANGED <<swept, admitted, claims, within>>
  <1>1. /\ log' = Append(log, [edit |-> None, request |-> r]) /\ Auth!Recorded(r) = {}
        /\ UNCHANGED <<swept, admitted, claims, within>>
    BY DEF Auth!Decide
  <1>2. log \in Seq({log[j] : j \in DOMAIN log})
    BY DEF AuthIInv, AuthLogInv
  <1>3. PICK x : x = [edit |-> None, request |-> r]
    OBVIOUS
  <1>4. /\ Len(log) \in Nat /\ DOMAIN log = 1..Len(log) /\ DOMAIN log' = 1..i /\ log'[i] = x
        /\ (log \in Seq({log[j] : j \in DOMAIN log}))' /\ AuthLogGrows
    BY <1>1, <1>2, <1>3, AuthAppended
  <1>5. i \in Nat /\ i \notin DOMAIN log /\ i \in DOMAIN log'
        /\ DOMAIN log' = DOMAIN log \cup {i}
    BY <1>4
  <1>6. i \notin Auth!EditsMade' /\ i \notin Auth!EditsMade
    BY <1>3, <1>4, <1>5 DEF Auth!EditsMade, Auth!IsEdit
  <1>7. Auth!EditsMade' = Auth!EditsMade
    BY <1>4, <1>5, <1>6, AuthEventsStay DEF Auth!EditsMade
  <1>8. Auth!Decisions' = Auth!Decisions \cup {i}
    BY <1>5, <1>6, <1>7 DEF Auth!Decisions
  <1>9. AuthAdmittedInv' /\ AuthClaimsInv'
    BY <1>1, <1>4, AuthSourcesStay DEF AuthIInv
  <1>10. Auth!OneDecisionPerRequest'
    <2>1. \A j \in Auth!Decisions : log'[j] = log[j] /\ log[j].request.id # r.id
      BY <1>1, <1>4 DEF AuthLogGrows, Auth!Decisions, Auth!Recorded
    <2>2. log'[i].request = r
      BY <1>3, <1>4
    <2> QED BY <1>8, <2>1, <2>2 DEF AuthIInv, Auth!OneDecisionPerRequest
  <1>11. \A c \in DOMAIN nodes : c \in DOMAIN log /\ log'[c] = log[c]
    BY <1>4 DEF AuthLogGrows, AuthIInv, AuthLogInv, Auth!Decisions
  <1>12. \A c \in DOMAIN nodes : /\ AuthByOf(c)' = AuthByOf(c)
                                 /\ AuthTargetOf(c)' = AuthTargetOf(c)
                                 /\ Auth!Text(c)' = Auth!Text(c)
                                 /\ AuthAssumed(c)' <=> AuthAssumed(c)
    BY <1>1, <1>11 DEF AuthByOf, AuthTargetOf, Auth!Text, AuthAssumed
  <1> QED BY <1>1, <1>3, <1>4, <1>5, <1>7, <1>8, <1>9, <1>10, <1>11, <1>12

\* A decision's effect on the states keeps them what the log gives, and each
\* revision is decided on the state before it.
LEMMA AuthDecisionKeeps ==
    ASSUME AuthIInv, NEW r, AuthRequested(r), Auth!Decide(r), NEW i, i = Len(log) + 1,
           DOMAIN nodes' = IF r.op = "confirm" THEN DOMAIN nodes \cup {i} ELSE DOMAIN nodes,
           r.op = "confirm" => nodes'[i].state = Auth!Confirmed(r, i),
           \A c \in DOMAIN nodes :
              nodes'[c].state = IF r.op \in AuthRevising /\ r.target = <<c>>
                                THEN Auth!Revised(nodes[c].state, r, i) ELSE nodes[c].state
    PROVE  AuthLogInv' /\ AuthStatesInv' /\ Auth!NoLostDecision' /\ AuthOnward
  <1>1. /\ AuthLogGrows /\ i \in Nat /\ Len(log) \in Nat
        /\ DOMAIN log = 1..Len(log) /\ DOMAIN log' = 1..i /\ i \notin DOMAIN log
        /\ log'[i] = [edit |-> None, request |-> r]
        /\ (log \in Seq({log[j] : j \in DOMAIN log}))'
        /\ Auth!Decisions' = Auth!Decisions \cup {i} /\ Auth!EditsMade' = Auth!EditsMade
        /\ i \notin DOMAIN nodes
        /\ UNCHANGED <<swept, admitted, claims, within>>
    BY AuthDecisionAppended
  <1>15. PICK x : x = [edit |-> None, request |-> r]
    OBVIOUS
  <1>2. log' = Append(log, x)
    BY <1>15, AuthDecisionAppended
  <1>3. log'[i].request = r /\ x.request = r /\ i \in DOMAIN log'
    BY <1>1, <1>15
  <1>4. \A c : Auth!Revises(i, c)' <=> r.op \in AuthRevising /\ r.target = <<c>>
    BY <1>1, <1>3 DEF Auth!Revises, Auth!IsEdit, AuthRevising
  <1>5. \A j \in DOMAIN log' : j = i \/ j \in DOMAIN log
    BY <1>1
  <1>6. \A c \in DOMAIN nodes :
          /\ c \in DOMAIN log /\ log'[c] = log[c] /\ AuthTargetOf(c)' = AuthTargetOf(c)
          /\ Auth!State(c) = Auth!StateUpTo(c, Len(log))
          /\ Auth!State(c)' = IF Auth!Revises(i, c)'
                               THEN Auth!Revised(Auth!State(c), r, i) ELSE Auth!State(c)
    BY <1>2, <1>3, AuthStateAfter, AuthDecisionAppended DEF AuthIInv
  <1>7. r.op \in AuthRevising => \E c \in DOMAIN nodes :
          /\ r.target = <<c>> /\ c < i
          /\ ~Auth!State(c).revoked /\ r.expected = Auth!State(c)
    <2> HAVE r.op \in AuthRevising
    <2>1. PICK c \in DOMAIN nodes : r.target = <<c>>
      BY DEF AuthRequested, AuthRevising, AuthRuling
    <2>2. ~Auth!State(c).revoked /\ r.expected = Auth!State(c)
      BY <2>1 DEF Auth!Decide, Auth!Binds, AuthRevising
    <2>3. c < i
      BY <1>1, <1>6
    <2> QED BY <2>1, <2>2, <2>3
  <1>8. AuthLogInv'
    <2>1. \A c \in DOMAIN nodes' : c \in Auth!Decisions' /\ log'[c].request.op = "confirm"
      BY <1>1, <1>3, <1>6 DEF AuthIInv, AuthLogInv
    <2>2. \A j \in Auth!Decisions : log'[j] = log[j]
      BY <1>1 DEF AuthLogGrows, Auth!Decisions
    <2>3. \A j \in Auth!Decisions' : log'[j].request.op \in {"revoke", "replace_scope"} =>
            /\ log'[j].request.target[1] \in DOMAIN nodes' /\ log'[j].request.target[1] < j
            /\ log'[j].request.target = <<log'[j].request.target[1]>>
      <3> TAKE j \in Auth!Decisions'
      <3>1. CASE j = i
        BY <1>3, <1>7, <3>1 DEF AuthRevising
      <3>2. CASE j \in Auth!Decisions
        BY <2>2, <3>2 DEF AuthIInv, AuthLogInv
      <3> QED BY <1>1, <3>1, <3>2
    <2>4. \A j \in Auth!EditsMade' : log'[j].edit \in within'.edits
      <3>1. \A j \in Auth!EditsMade : log[j].edit \in within.edits /\ log'[j] = log[j]
        BY <1>1 DEF AuthIInv, AuthLogInv, AuthLogGrows, Auth!EditsMade
      <3> QED BY <1>1, <3>1
    <2>5. within' \in Scenarios
      BY <1>1 DEF AuthIInv, AuthLogInv
    <2> QED BY <1>1, <2>1, <2>3, <2>4, <2>5 DEF AuthLogInv
  <1>9. Auth!NoLostDecision'
    <2> SUFFICES ASSUME NEW j \in DOMAIN log', NEW c \in DOMAIN nodes', Auth!Revises(j, c)'
                 PROVE  /\ log'[j].request.expected = Auth!StateUpTo(c, j - 1)'
                        /\ ~Auth!StateUpTo(c, j - 1)'.revoked
      BY DEF Auth!NoLostDecision
    <2>1. CASE j \in DOMAIN log
      BY <1>1, <2>1, AuthDecidedStays DEF AuthIInv
    <2>2. CASE j = i
      <3>1. c \in DOMAIN nodes /\ ~Auth!State(c).revoked /\ r.expected = Auth!State(c) /\ c < i
        BY <1>4, <1>7, <2>2
      <3>2. PICK k : k = j - 1
        OBVIOUS
      <3>3. k = Len(log) /\ k \in DOMAIN log /\ k >= c
        BY <1>1, <1>6, <2>2, <3>1, <3>2
      <3>4. Auth!StateUpTo(c, k)' = Auth!StateUpTo(c, k)
        BY <1>1, <1>6, <3>1, <3>3, AuthPrefixStays
      <3> QED BY <1>3, <1>6, <2>2, <3>1, <3>2, <3>3, <3>4
    <2> QED BY <1>5, <2>1, <2>2
  <1>10. \A c : (\E j \in DOMAIN log' : AuthRevokes(j, c)')
                  <=> \/ \E j \in DOMAIN log : AuthRevokes(j, c)
                      \/ r.op = "revoke" /\ r.target = <<c>>
    <2>1. \A c : AuthRevokes(i, c)' <=> r.op = "revoke" /\ r.target = <<c>>
      BY <1>3, <1>4 DEF AuthRevokes, AuthRevising
    <2>2. \A j \in DOMAIN log : \A c : AuthRevokes(j, c)' <=> AuthRevokes(j, c)
      BY <1>1, AuthEventsStay
    <2> QED BY <1>1, <1>3, <1>5, <2>1, <2>2 DEF AuthLogGrows
  <1>11. ASSUME NEW c \in DOMAIN nodes', NEW s, s = nodes'[c].state
         PROVE  /\ s = [proposal |-> s.proposal, scope |-> s.scope, version |-> s.version,
                        revoked |-> s.revoked, decision |-> s.decision]
                /\ s = Auth!State(c)' /\ s.proposal = AuthTargetOf(c)' /\ s.revoked \in BOOLEAN
                /\ s.revoked <=> \E j \in DOMAIN log' : AuthRevokes(j, c)'
    <2>1. CASE c = i
      <3>1. r.op = "confirm" /\ s = Auth!Confirmed(r, i)
        BY <1>1, <1>11, <2>1
      <3>2. Auth!State(i)' = Auth!Confirmed(r, i)
        BY <1>2, <1>3, AuthStateNew DEF AuthIInv, AuthLogInv
      <3>3. ~\E j \in DOMAIN log' : AuthRevokes(j, c)'
        <4>1. \A j \in DOMAIN log : ~AuthRevokes(j, i)
          <5>1. \A j \in DOMAIN log : ~Auth!Revises(j, i)'
            BY <1>1, AuthDecidedStays DEF AuthIInv
          <5> QED BY <1>1, <5>1, AuthEventsStay DEF AuthRevokes
        <4> QED BY <1>10, <2>1, <3>1, <4>1
      <3>4. AuthTargetOf(c)' = r.target
        BY <1>3, <2>1 DEF AuthTargetOf
      <3> QED BY <2>1, <3>1, <3>2, <3>3, <3>4 DEF Auth!Confirmed
    <2>2. CASE c # i
      <3> PICK z : z = nodes[c].state
        OBVIOUS
      <3>1. c \in DOMAIN nodes
        BY <2>2
      <3>2. /\ z = [proposal |-> z.proposal, scope |-> z.scope, version |-> z.version,
                    revoked |-> z.revoked, decision |-> z.decision]
            /\ z = Auth!State(c) /\ z.proposal = AuthTargetOf(c) /\ z.revoked \in BOOLEAN
            /\ z.revoked <=> \E j \in DOMAIN log : AuthRevokes(j, c)
        BY <3>1 DEF AuthIInv, AuthStatesInv
      <3>3. CASE r.op \in AuthRevising /\ r.target = <<c>>
        <4>1. s = Auth!Revised(z, r, i) /\ Auth!State(c)' = Auth!Revised(z, r, i)
          BY <1>4, <1>6, <1>11, <3>1, <3>2, <3>3
        <4>2. s = [proposal |-> z.proposal,
                   scope |-> IF r.op = "revoke" THEN z.scope ELSE r.scope,
                   version |-> z.version + 1, revoked |-> (r.op = "revoke"), decision |-> i]
          BY <3>2, <4>1 DEF Auth!Revised
        <4>3. ~z.revoked
          BY <1>7, <3>2, <3>3
        <4>4. s.revoked <=> \E j \in DOMAIN log' : AuthRevokes(j, c)'
          BY <1>10, <3>2, <3>3, <4>2, <4>3
        <4>5. s.proposal = z.proposal /\ s.revoked \in BOOLEAN
          BY <4>2
        <4>6. s = [proposal |-> s.proposal, scope |-> s.scope, version |-> s.version,
                   revoked |-> s.revoked, decision |-> s.decision]
          BY <4>2
        <4>7. s = Auth!State(c)' /\ s.proposal = AuthTargetOf(c)'
          BY <1>6, <3>1, <3>2, <4>1, <4>5
        <4> QED BY <4>4, <4>5, <4>6, <4>7
      <3>4. CASE ~(r.op \in AuthRevising /\ r.target = <<c>>)
        <4>1. s = z /\ Auth!State(c)' = z
          BY <1>4, <1>6, <1>11, <3>1, <3>2, <3>4
        <4>2. s.revoked <=> \E j \in DOMAIN log' : AuthRevokes(j, c)'
          BY <1>10, <3>2, <3>4, <4>1 DEF AuthRevising
        <4> QED BY <1>6, <3>1, <3>2, <4>1, <4>2
      <3> QED BY <3>3, <3>4
    <2> QED BY <2>1, <2>2
  <1>12. AuthStatesInv'
    BY <1>11 DEF AuthStatesInv
  <1>13. \A c \in DOMAIN nodes : nodes[c].state.revoked => nodes'[c].state.revoked
    <2>1. \A c \in DOMAIN nodes : nodes[c].state = Auth!State(c)
      BY DEF AuthIInv, AuthStatesInv
    <2> QED BY <1>7, <2>1
  <1>14. AuthOnward
    BY <1>1, <1>13 DEF AuthOnward
  <1> QED BY <1>8, <1>9, <1>12, <1>14

(* --------------------------- what is current ---------------------------- *)

\* In these terms a confirmation is current.
AuthCurrentIs ==
    \A c \in DOMAIN nodes :
        Auth!IsCurrent(c) <=> Auth!Available(c) /\ ~nodes[c].state.revoked /\ AuthByOf(c) = 0

\* What IsCurrent, which reads the whole log, says in a state of the invariant.
LEMMA AuthCurrents == AuthBaseInv => AuthCurrentIs
  <1> SUFFICES ASSUME AuthBaseInv, NEW c \in DOMAIN nodes
               PROVE  Auth!IsCurrent(c) <=>
                        Auth!Available(c) /\ ~nodes[c].state.revoked /\ AuthByOf(c) = 0
    BY DEF AuthCurrentIs
  <1>1. nodes[c].state = Auth!State(c) /\ Auth!State(c).proposal = AuthTargetOf(c)
    BY DEF AuthBaseInv, AuthStatesInv
  <1>2. AuthTargetOf(c) \in DOMAIN claims
    BY DEF AuthBaseInv, AuthNodesInv, AuthNodeOK
  <1>3. AuthByOf(c) # 0 => Auth!Withdraws(log[AuthByOf(c)].edit, AuthTargetOf(c))
    BY <1>2 DEF AuthBaseInv, AuthClaimsInv, AuthByOf
  <1>4. Auth!Supported(AuthTargetOf(c)) <=> AuthByOf(c) = 0
    BY <1>3 DEF Auth!Supported, AuthByOf
  <1> QED BY <1>1, <1>4 DEF Auth!IsCurrent

\* No step makes a confirmation current that is not.
LEMMA AuthNeverRevives ==
    ASSUME AuthBaseInv, AuthBaseInv', AuthOnward, NEW c \in DOMAIN nodes, Auth!IsCurrent(c)'
    PROVE  Auth!IsCurrent(c)
  <1>1. AuthCurrentIs /\ AuthCurrentIs'
    BY AuthCurrents, PTL
  <1>2. c \in DOMAIN nodes' /\ (nodes[c].state.revoked => nodes'[c].state.revoked)
    BY DEF AuthOnward
  <1>3. Auth!Available(c)' /\ ~nodes'[c].state.revoked /\ AuthByOf(c)' = 0
    BY <1>1, <1>2 DEF AuthCurrentIs
  <1>4. log'[c] = log[c] /\ AuthTargetOf(c)' = AuthTargetOf(c) /\ AuthTargetOf(c) \in DOMAIN claims
    BY DEF AuthOnward, AuthLogGrows, AuthBaseInv, AuthLogInv, Auth!Decisions, AuthNodesInv,
          AuthNodeOK, AuthTargetOf
  <1>5. Auth!Available(c)
    <2>1. \A i \in Auth!Decisions : i >= c => i \notin swept
      BY <1>3, AuthEventsStay DEF Auth!Available, AuthOnward
    <2>2. Auth!OriginHeld(AuthTargetOf(c))
      BY <1>3, <1>4 DEF Auth!Available, AuthOnward, Auth!OriginHeld, AuthTargetOf
    <2> QED BY <2>1, <2>2 DEF Auth!Available, AuthTargetOf
  <1>6. AuthByOf(c) = 0
    BY <1>3, <1>4 DEF AuthOnward, AuthByOf
  <1> QED BY <1>1, <1>2, <1>3, <1>5, <1>6 DEF AuthCurrentIs

\* Opposite texts differ, and neither is an assumption.
LEMMA AuthOppositesDiffer ==
    ASSUME NEW t, NEW u, {t, u} \in Opposites
    PROVE  t # u /\ KindOf[t] # "assumption" /\ KindOf[u] # "assumption"
  BY ScenariosOK

\* What a contest of c with ds does to each node.
AuthShaped(seen) ==
    \A d \in DOMAIN seen : seen[d] = [state |-> seen[d].state, status |-> seen[d].status,
                                     valid |-> seen[d].valid]

AuthMarked(after, seen, c, ds) ==
    /\ DOMAIN after = DOMAIN seen
    /\ \A d \in DOMAIN seen :
          /\ after[d].state = seen[d].state /\ after[d].valid = seen[d].valid
          /\ d \in ds \/ (d = c /\ ds # {}) => after[d].status = "uncertain"
          /\ ~(d \in ds \/ (d = c /\ ds # {})) => after[d].status = seen[d].status

\* The contest that the code makes of a confirmation marks just its opposites.
LEMMA AuthContestedIs ==
    ASSUME NEW seen, NEW c, NEW scope, NEW t, AuthShaped(seen)
    PROVE  /\ AuthShaped(Auth!Contested(seen, c, scope, t))
           /\ AuthMarked(Auth!Contested(seen, c, scope, t), seen, c,
                         Auth!Opposed(seen, c, scope, t))
  <1> DEFINE ds == Auth!Opposed(seen, c, scope, t)
             after == Auth!Contested(seen, c, scope, t)
  <1>1. after =
          [d \in DOMAIN seen |-> IF d \in ds \/ (d = c /\ ds # {})
                                THEN [seen[d] EXCEPT !.status = "uncertain"] ELSE seen[d]]
    BY DEF Auth!Contested
  <1> HIDE DEF ds, after
  <1>2. ASSUME NEW d \in DOMAIN seen
        PROVE  /\ after[d].state = seen[d].state /\ after[d].valid = seen[d].valid
               /\ after[d] = [state |-> after[d].state, status |-> after[d].status,
                              valid |-> after[d].valid]
               /\ d \in ds \/ (d = c /\ ds # {}) => after[d].status = "uncertain"
               /\ ~(d \in ds \/ (d = c /\ ds # {})) => after[d].status = seen[d].status
    <2>3. seen[d] = [state |-> seen[d].state, status |-> seen[d].status,
                     valid |-> seen[d].valid]
      BY DEF AuthShaped
    <2>1. CASE d \in ds \/ (d = c /\ ds # {})
      <3>1. after[d] = [seen[d] EXCEPT !.status = "uncertain"]
        BY <1>1, <2>1
      <3> QED BY <2>1, <2>3, <3>1
    <2>2. CASE ~(d \in ds \/ (d = c /\ ds # {}))
      <3>1. after[d] = seen[d]
        BY <1>1, <2>2
      <3> QED BY <2>2, <2>3, <3>1
    <2> QED BY <2>1, <2>2
  <1>3. DOMAIN after = DOMAIN seen
    BY <1>1
  <1>5. AuthShaped(after)
    BY <1>2, <1>3 DEF AuthShaped
  <1>6. AuthMarked(after, seen, c, ds)
    BY <1>2, <1>3 DEF AuthMarked
  <1> QED BY <1>5, <1>6 DEF ds, after

\* A node whose status stays, or turns from live to uncertain, is still in order.
LEMMA AuthNodeMoved ==
    ASSUME AuthIInv, NEW d \in DOMAIN nodes, NEW st, NEW sp, UNCHANGED <<claims, notices>>,
           AuthTargetOf(d)' = AuthTargetOf(d), AuthByOf(d)' = AuthByOf(d),
           nodes'[d] = [state |-> st, status |-> sp, valid |-> nodes[d].valid],
           nodes[d].state.revoked => st.revoked,
           sp = nodes[d].status \/ (sp = "uncertain" /\ nodes[d].status # "invalidated")
    PROVE  AuthNodeOK(d)'
  <1>1. AuthNodeOK(d)
    BY DEF AuthIInv, AuthNodesInv
  <1>2. nodes'[d].state = st /\ nodes'[d].status = sp /\ nodes'[d].valid = nodes[d].valid
    OBVIOUS
  <1>3. \A n : AuthOpenOn(n, d)' <=> AuthOpenOn(n, d)
    BY DEF AuthOpenOn
  <1> QED BY <1>1, <1>2, <1>3 DEF AuthNodeOK

\* Notices that nobody rules on stay in order.
LEMMA AuthNoticesUnruled ==
    ASSUME AuthIInv, UNCHANGED notices, Auth!EditsMade' = Auth!EditsMade,
          DOMAIN nodes \subseteq DOMAIN nodes',
           \A c \in DOMAIN nodes : AuthAssumed(c)' <=> AuthAssumed(c)
    PROVE  AuthNoticesInv' /\ Auth!OneNotice'
  <1>1. AuthNoticesInv'
    BY DEF AuthIInv, AuthNoticesInv
  <1>2. Auth!OneNotice'
    BY DEF AuthIInv, Auth!OneNotice
  <1> QED BY <1>1, <1>2

(* ------------------------------ opposites ------------------------------- *)

\* Two nodes of the pair (c, d) are both marked.
AuthPairOK(c, d) ==
    AuthDisputed(c, d) => nodes[c].status = "uncertain" /\ nodes[d].status = "uncertain"

AuthPairsSwap == \A a, b : AuthPairOK(a, b) <=> AuthPairOK(b, a)

\* A pair of opposites is one in either order.
LEMMA AuthPairSwaps == AuthPairsSwap
  <1>1. \A t, u : {t, u} = {u, t}
    OBVIOUS
  <1>2. \A c, d : AuthDisputed(c, d) <=> AuthDisputed(d, c)
    BY <1>1 DEF AuthDisputed, Auth!Meet
  <1> QED BY <1>2 DEF AuthPairsSwap, AuthPairOK

\* A node moves no nearer to a dispute.
AuthNoNearer(c) ==
    /\ nodes'[c].state.scope = nodes[c].state.scope
    /\ nodes'[c].status # "invalidated" =>
          /\ nodes[c].status # "invalidated"
          /\ nodes[c].status = "uncertain" => nodes'[c].status = "uncertain"

\* A pair neither of which comes nearer to a dispute stays marked.
LEMMA AuthPairStays ==
    ASSUME AuthIInv, AuthBaseInv', AuthOnward, NEW c \in DOMAIN nodes, NEW d \in DOMAIN nodes,
           AuthDisputed(c, d)' => AuthNoNearer(c) /\ AuthNoNearer(d)
    PROVE  AuthPairOK(c, d)'
  <1> SUFFICES ASSUME AuthDisputed(c, d)'
               PROVE  nodes'[c].status = "uncertain" /\ nodes'[d].status = "uncertain"
    BY DEF AuthPairOK
  <1>1. AuthBaseInv
    BY DEF AuthIInv, AuthBaseInv
  <1>2. Auth!IsCurrent(c) /\ Auth!IsCurrent(d)
    BY <1>1, AuthNeverRevives DEF AuthDisputed
  <1>3. Auth!Text(c)' = Auth!Text(c) /\ Auth!Text(d)' = Auth!Text(d)
    BY DEF AuthOnward, AuthLogGrows, AuthIInv, AuthLogInv, Auth!Decisions, Auth!Text
  <1>4. AuthDisputed(c, d)
    BY <1>2, <1>3 DEF AuthDisputed, AuthNoNearer
  <1>5. nodes[c].status = "uncertain" /\ nodes[d].status = "uncertain"
    BY <1>4 DEF AuthIInv, AuthOpposedInv
  <1> QED BY <1>5 DEF AuthDisputed, AuthNoNearer

\* A contest marks both sides of every dispute that it could have made.
LEMMA AuthContestMarks ==
    ASSUME AuthIInv, AuthBaseInv', AuthOnward, NEW seen, NEW c, NEW scope, NEW t,
           AuthShaped(seen), nodes' = Auth!Contested(seen, c, scope, t), t = Auth!Text(c)',
           seen[c].state.scope = scope,
           DOMAIN seen = DOMAIN nodes \cup {c},
           \A d \in DOMAIN nodes : d # c => seen[d] = nodes[d]
    PROVE  AuthOpposedInv'
  <1> DEFINE ds == Auth!Opposed(seen, c, scope, t)
  <1>1. AuthMarked(nodes', seen, c, ds)
    BY AuthContestedIs
  <1>2. AuthBaseInv
    BY DEF AuthIInv, AuthBaseInv
  <1>3. ASSUME NEW d \in DOMAIN nodes, d # c
        PROVE  /\ nodes'[d].state = nodes[d].state
               /\ nodes'[d].status # "invalidated" => nodes[d].status # "invalidated"
               /\ nodes[d].status = "uncertain" => nodes'[d].status = "uncertain"
               /\ d \in ds => nodes'[d].status = "uncertain" /\ nodes'[c].status = "uncertain"
    <2>1. d \in ds => nodes[d].status # "invalidated"
      BY <1>3 DEF Auth!Opposed
    <2> HIDE DEF ds
    <2> QED BY <1>1, <1>3, <2>1 DEF AuthMarked
  <1>4. \A d \in DOMAIN nodes : d # c => AuthNoNearer(d)
    BY <1>3 DEF AuthNoNearer
  <1>5. nodes'[c].state = seen[c].state /\ DOMAIN nodes' = DOMAIN nodes \cup {c}
    BY <1>1 DEF AuthMarked
  <1>6. ASSUME NEW d \in DOMAIN nodes, d # c PROVE AuthPairOK(c, d)'
    <2> SUFFICES ASSUME AuthDisputed(c, d)' PROVE d \in ds
      BY <1>3, <1>6 DEF AuthPairOK
    <2>1. Auth!IsCurrent(d)
      BY <1>2, AuthNeverRevives DEF AuthDisputed
    <2>2. Auth!Text(d)' = Auth!Text(d)
      BY DEF AuthOnward, AuthLogGrows, AuthIInv, AuthLogInv, Auth!Decisions, Auth!Text
    <2>3. {t, Auth!Text(d)} \in Opposites /\ nodes'[d].status # "invalidated"
          /\ Auth!Meet(scope, nodes[d].state.scope)
      BY <1>3, <1>5, <1>6, <2>2 DEF AuthDisputed, Auth!Meet
    <2> QED BY <1>3, <1>6, <2>1, <2>3 DEF Auth!Opposed
  <1>7. AuthPairOK(c, c)'
    <2>1. AuthDisputed(c, c)' => {t, t} \in Opposites
      BY DEF AuthDisputed
    <2>2. ~AuthDisputed(c, c)'
      BY <2>1, AuthOppositesDiffer
    <2> QED BY <2>2 DEF AuthPairOK
  <1>8. \A a, b : AuthPairOK(a, b)' <=> AuthPairOK(b, a)'
    <2>1. AuthPairsSwap'
      BY AuthPairSwaps, PTL
    <2> QED BY <2>1 DEF AuthPairsSwap
  <1>9. ASSUME NEW a \in DOMAIN nodes', NEW b \in DOMAIN nodes' PROVE AuthPairOK(a, b)'
    <2>1. CASE a = c /\ b = c
      BY <1>7, <2>1
    <2>2. CASE a = c /\ b # c
      BY <1>5, <1>6, <2>2
    <2>3. CASE a # c /\ b = c
      BY <1>5, <1>6, <1>8, <2>3
    <2>4. CASE a # c /\ b # c
      <3>1. a \in DOMAIN nodes /\ b \in DOMAIN nodes /\ AuthNoNearer(a) /\ AuthNoNearer(b)
        BY <1>4, <1>5, <2>4
      <3> QED BY <3>1, AuthPairStays
    <2> QED BY <2>1, <2>2, <2>3, <2>4
  <1> QED BY <1>9 DEF AuthOpposedInv, AuthPairOK

\* The nodes with a new confirmation, and with a revised one.
AuthWithConfirmed(r, i) ==
    [c \in DOMAIN nodes \cup {i} |->
        IF c = i THEN [state |-> Auth!Confirmed(r, i), status |-> "active", valid |-> TRUE]
        ELSE nodes[c]]

AuthWithRevised(r, k, i) == [nodes EXCEPT ![k].state = Auth!Revised(@, r, i)]

\* The claim of a source is confirmed.
LEMMA AuthConfirmKeeps ==
    ASSUME AuthIInv, NEW r, AuthRequested(r), Auth!Decide(r), r.op = "confirm", NEW i,
          i = Len(log) + 1,
           NEW seen, seen = AuthWithConfirmed(r, i)
    PROVE  AuthIInv' /\ AuthOnward
  <1>1. nodes' = Auth!Contested(seen, i, r.scope, r.target[2]) /\ UNCHANGED notices
    <2>1. nodes' = Auth!NodesAfter(r, i) /\ UNCHANGED notices
      BY DEF Auth!Decide
    <2>2. Auth!NodesAfter(r, i) = Auth!Contested(seen, i, r.scope, r.target[2])
      BY DEF Auth!NodesAfter, AuthWithConfirmed
    <2> QED BY <2>1, <2>2
  <1>2. /\ Auth!EditsMade' = Auth!EditsMade /\ i \notin DOMAIN nodes
        /\ \A c \in DOMAIN nodes :
              /\ AuthByOf(c)' = AuthByOf(c) /\ AuthTargetOf(c)' = AuthTargetOf(c)
              /\ AuthAssumed(c)' <=> AuthAssumed(c)
        /\ AuthAdmittedInv' /\ AuthClaimsInv' /\ Auth!OneDecisionPerRequest'
        /\ UNCHANGED claims
        /\ log'[i] = [edit |-> None, request |-> r]
    BY AuthDecisionAppended
  <1>3. \A d \in DOMAIN nodes : nodes[d] = [state |-> nodes[d].state, status |-> nodes[d].status,
                                            valid |-> nodes[d].valid]
    BY DEF AuthIInv, AuthNodesInv, AuthNodeOK
  <1>4. /\ DOMAIN seen = DOMAIN nodes \cup {i}
        /\ \A d \in DOMAIN nodes : seen[d] = nodes[d]
        /\ seen[i] = [state |-> Auth!Confirmed(r, i), status |-> "active", valid |-> TRUE]
    BY <1>2 DEF AuthWithConfirmed
  <1>5. AuthShaped(seen)
    BY <1>3, <1>4 DEF AuthShaped
  <1> PICK ds : ds = Auth!Opposed(seen, i, r.scope, r.target[2])
    OBVIOUS
  <1>6. AuthShaped(nodes') /\ AuthMarked(nodes', seen, i, ds)
    BY <1>1, <1>5, AuthContestedIs
  <1>13. /\ DOMAIN nodes' = DOMAIN nodes \cup {i}
         /\ \A d \in DOMAIN nodes :
               /\ nodes'[d].state = nodes[d].state /\ nodes'[d].valid = nodes[d].valid
               /\ d \in ds => nodes'[d].status = "uncertain"
               /\ d \notin ds => nodes'[d].status = nodes[d].status
         /\ nodes'[i].state = Auth!Confirmed(r, i) /\ nodes'[i].valid = TRUE
         /\ nodes'[i].status \in {"active", "uncertain"}
    BY <1>2, <1>4, <1>6 DEF AuthMarked
  <1>14. \A d \in DOMAIN nodes' :
            nodes'[d] = [state |-> nodes'[d].state, status |-> nodes'[d].status,
                         valid |-> nodes'[d].valid]
    BY <1>6 DEF AuthShaped
  <1>7. \A d \in ds : d \in DOMAIN nodes /\ seen[d].status # "invalidated"
    BY DEF Auth!Opposed
  <1>8. \A d \in DOMAIN nodes : AuthNodeOK(d)'
    <2> TAKE d \in DOMAIN nodes
    <2> PICK sp : sp = nodes'[d].status
      OBVIOUS
    <2>1. nodes'[d] = [state |-> nodes[d].state, status |-> sp, valid |-> nodes[d].valid]
      BY <1>13, <1>14
    <2>2. sp = nodes[d].status \/ (sp = "uncertain" /\ nodes[d].status # "invalidated")
      BY <1>4, <1>7, <1>13
    <2> QED BY <1>1, <1>2, <2>1, <2>2, AuthNodeMoved
  <1>9. AuthNodeOK(i)'
    <2>1. /\ nodes'[i].state = Auth!Confirmed(r, i) /\ nodes'[i].valid = TRUE
          /\ nodes'[i].status \in {"active", "uncertain"}
          /\ nodes'[i] = [state |-> nodes'[i].state, status |-> nodes'[i].status,
                          valid |-> nodes'[i].valid]
      BY <1>13, <1>14
    <2>2. AuthTargetOf(i)' \in DOMAIN claims'
      BY <1>2 DEF AuthTargetOf, AuthRequested, AuthRevising, AuthRuling
    <2>3. \A n \in DOMAIN notices : ~AuthOpenOn(n, i)
      BY <1>2 DEF AuthIInv, AuthNoticesInv, AuthOpenOn
    <2>4. \A n \in DOMAIN notices' : ~AuthOpenOn(n, i)'
      BY <1>1, <2>3 DEF AuthOpenOn
    <2> QED BY <2>1, <2>2, <2>4 DEF AuthNodeOK
  <1>10. AuthNodesInv'
    BY <1>8, <1>9, <1>13 DEF AuthNodesInv
  <1>11. AuthNoticesInv' /\ Auth!OneNotice'
    BY <1>1, <1>2, <1>13, AuthNoticesUnruled
  <1>12. AuthLogInv' /\ AuthStatesInv' /\ Auth!NoLostDecision' /\ AuthOnward
    <2>1. nodes'[i].state = Auth!Confirmed(r, i)
      BY <1>13, <1>14
    <2>2. \A c \in DOMAIN nodes : nodes'[c].state = nodes[c].state
      BY <1>13, <1>14
    <2>3. r.op \notin AuthRevising /\ DOMAIN nodes' = DOMAIN nodes \cup {i}
      BY <1>13 DEF AuthRevising
    <2> QED BY <2>1, <2>2, <2>3, AuthDecisionKeeps
  <1>15. AuthBaseInv'
    BY <1>2, <1>10, <1>11, <1>12 DEF AuthBaseInv
  <1>16. r.target[2] = Auth!Text(i)' /\ seen[i].state.scope = r.scope
    BY <1>2, <1>4 DEF Auth!Text, Auth!Confirmed
  <1>17. AuthOpposedInv'
    BY <1>1, <1>4, <1>5, <1>12, <1>15, <1>16, AuthContestMarks
  <1> QED BY <1>12, <1>15, <1>17 DEF AuthIInv, AuthBaseInv

\* The scope of a confirmation is replaced.
LEMMA AuthReplaceKeeps ==
    ASSUME AuthIInv, NEW r, AuthRequested(r), Auth!Decide(r), r.op = "replace_scope", NEW i,
          i = Len(log) + 1,
           NEW k, k = r.target[1],
           NEW seen, seen = AuthWithRevised(r, k, i)
    PROVE  AuthIInv' /\ AuthOnward
  <1>1. nodes' = Auth!Contested(seen, k, r.scope, Auth!Text(k)) /\ UNCHANGED notices
    <2>1. nodes' = Auth!NodesAfter(r, i) /\ UNCHANGED notices
      BY DEF Auth!Decide
    <2>2. Auth!NodesAfter(r, i) = Auth!Contested(seen, k, r.scope, Auth!Text(k))
      BY DEF Auth!NodesAfter, AuthWithRevised
    <2> QED BY <2>1, <2>2
  <1>2. /\ Auth!EditsMade' = Auth!EditsMade
        /\ \A c \in DOMAIN nodes :
              /\ AuthByOf(c)' = AuthByOf(c) /\ AuthTargetOf(c)' = AuthTargetOf(c)
              /\ AuthAssumed(c)' <=> AuthAssumed(c)
        /\ AuthAdmittedInv' /\ AuthClaimsInv' /\ Auth!OneDecisionPerRequest'
        /\ UNCHANGED claims
    BY AuthDecisionAppended
  <1>3. k \in DOMAIN nodes /\ r.target = <<k>>
    BY DEF AuthRequested, AuthRevising, AuthRuling
  <1>4. Auth!IsCurrent(k)
    BY DEF Auth!Decide, Auth!Binds
  <1>5. ~nodes[k].state.revoked /\ AuthByOf(k) = 0
    BY <1>3, <1>4, AuthCurrents DEF AuthCurrentIs, AuthBaseInv, AuthIInv
  <1>6. \A d \in DOMAIN nodes : nodes[d] = [state |-> nodes[d].state, status |-> nodes[d].status,
                                            valid |-> nodes[d].valid]
    BY DEF AuthIInv, AuthNodesInv, AuthNodeOK
  <1> PICK st : st = Auth!Revised(nodes[k].state, r, i)
    OBVIOUS
  <1>7. /\ DOMAIN seen = DOMAIN nodes
        /\ \A d \in DOMAIN nodes : d # k => seen[d] = nodes[d]
        /\ seen[k] = [state |-> st, status |-> nodes[k].status, valid |-> nodes[k].valid]
    BY <1>3, <1>6 DEF AuthWithRevised
  <1>8. AuthShaped(seen)
    BY <1>6, <1>7 DEF AuthShaped
  <1> PICK ds : ds = Auth!Opposed(seen, k, r.scope, Auth!Text(k))
    OBVIOUS
  <1>17. AuthShaped(nodes') /\ AuthMarked(nodes', seen, k, ds)
    BY <1>1, <1>8, AuthContestedIs
  <1>9. /\ DOMAIN nodes' = DOMAIN nodes
        /\ \A d \in DOMAIN nodes : d # k =>
              /\ nodes'[d].state = nodes[d].state /\ nodes'[d].valid = nodes[d].valid
              /\ d \in ds => nodes'[d].status = "uncertain"
              /\ d \notin ds => nodes'[d].status = nodes[d].status
        /\ nodes'[k].state = st /\ nodes'[k].valid = nodes[k].valid
        /\ ds # {} => nodes'[k].status = "uncertain"
        /\ ds = {} => nodes'[k].status = nodes[k].status
    BY <1>3, <1>7, <1>17 DEF AuthMarked
  <1>18. \A d \in DOMAIN nodes' :
            nodes'[d] = [state |-> nodes'[d].state, status |-> nodes'[d].status,
                         valid |-> nodes'[d].valid]
    BY <1>17 DEF AuthShaped
  <1>10. /\ \A d \in ds : d \in DOMAIN nodes /\ d # k /\ seen[d].status # "invalidated"
         /\ ds # {} => ~AuthAssumed(k)
    BY AuthOppositesDiffer DEF Auth!Opposed, AuthAssumed
  <1>11. ASSUME NEW d \in DOMAIN nodes, d # k PROVE AuthNodeOK(d)'
    <2> PICK sp : sp = nodes'[d].status
      OBVIOUS
    <2>1. nodes'[d] = [state |-> nodes[d].state, status |-> sp, valid |-> nodes[d].valid]
      BY <1>9, <1>11, <1>18
    <2>2. sp = nodes[d].status \/ (sp = "uncertain" /\ nodes[d].status # "invalidated")
      BY <1>7, <1>9, <1>10, <1>11
    <2> QED BY <1>1, <1>2, <2>1, <2>2, AuthNodeMoved
  <1>12. AuthNodeOK(k)'
    <2> PICK sp : sp = nodes'[k].status
      OBVIOUS
    <2>1. nodes'[k] = [state |-> st, status |-> sp, valid |-> nodes[k].valid]
      BY <1>3, <1>9, <1>18
    <2>2. nodes[k].status = "invalidated" => AuthAssumed(k)
      <3>1. \A n \in DOMAIN notices : AuthOpenOn(n, k) => AuthAssumed(k)
        BY DEF AuthIInv, AuthNoticesInv, AuthOpenOn
      <3> QED BY <1>3, <1>5, <3>1 DEF AuthIInv, AuthNodesInv, AuthNodeOK
    <2>4. ds # {} => nodes[k].status # "invalidated"
      BY <1>10, <2>2
    <2>3. sp = nodes[k].status \/ (sp = "uncertain" /\ nodes[k].status # "invalidated")
      BY <1>9, <2>4
    <2> QED BY <1>1, <1>2, <1>3, <1>5, <2>1, <2>3, AuthNodeMoved
  <1>13. AuthNodesInv'
    BY <1>9, <1>11, <1>12 DEF AuthNodesInv
  <1>14. AuthNoticesInv' /\ Auth!OneNotice'
    BY <1>1, <1>2, <1>9, AuthNoticesUnruled
  <1>15. AuthLogInv' /\ AuthStatesInv' /\ Auth!NoLostDecision' /\ AuthOnward
    <2>1. \A c \in DOMAIN nodes :
             nodes'[c].state = IF r.op \in AuthRevising /\ r.target = <<c>>
                               THEN Auth!Revised(nodes[c].state, r, i) ELSE nodes[c].state
      BY <1>3, <1>9 DEF AuthRevising
    <2>2. DOMAIN nodes' = DOMAIN nodes
      BY <1>9
    <2> QED BY <2>1, <2>2, AuthDecisionKeeps
  <1>16. seen[k].state.scope = r.scope
    <2> PICK z : z = nodes[k].state
      OBVIOUS
    <2>1. z = [proposal |-> z.proposal, scope |-> z.scope, version |-> z.version,
               revoked |-> z.revoked, decision |-> z.decision]
      BY <1>3 DEF AuthIInv, AuthStatesInv
    <2>2. st = [proposal |-> z.proposal, scope |-> r.scope, version |-> z.version + 1,
                revoked |-> FALSE, decision |-> i]
      BY <2>1 DEF Auth!Revised
    <2> QED BY <1>7, <2>2
  <1>19. AuthBaseInv'
    BY <1>2, <1>13, <1>14, <1>15 DEF AuthBaseInv
  <1>22. Auth!Text(k)' = Auth!Text(k)
    BY <1>3, AuthDecisionAppended
  <1>20. Auth!Text(k)' = Auth!Text(k) /\ DOMAIN seen = DOMAIN nodes \cup {k}
    BY <1>3, <1>7, <1>22
  <1>21. AuthOpposedInv'
    BY <1>1, <1>7, <1>8, <1>15, <1>16, <1>19, <1>20, AuthContestMarks
  <1> QED BY <1>15, <1>19, <1>21 DEF AuthIInv, AuthBaseInv

\* A state that was revised by a revocation is a revoked one.
LEMMA AuthRevokedIs ==
    ASSUME NEW p, NEW scope, NEW v, NEW was, NEW d, NEW r, NEW i
    PROVE  Auth!Revised([proposal |-> p, scope |-> scope, version |-> v, revoked |-> was,
                    decision |-> d], r, i).revoked <=> r.op = "revoke"
  BY DEF Auth!Revised

\* A confirmation is revoked.
LEMMA AuthRevokeKeeps ==
    ASSUME AuthIInv, NEW r, AuthRequested(r), Auth!Decide(r), r.op = "revoke", NEW i,
          i = Len(log) + 1
    PROVE  /\ AuthBaseInv' /\ AuthOnward /\ DOMAIN nodes' = DOMAIN nodes
           /\ \A c \in DOMAIN nodes : nodes'[c] = nodes[c] \/ nodes'[c].status = "invalidated"
  <1> PICK k : k = r.target[1]
    OBVIOUS
  <1>1. /\ nodes' = [nodes EXCEPT ![k] = [state |-> Auth!Revised(@.state, r, i),
                                          status |-> "invalidated", valid |-> FALSE]]
        /\ UNCHANGED notices
    BY DEF Auth!Decide, Auth!NodesAfter
  <1>2. /\ Auth!EditsMade' = Auth!EditsMade
        /\ \A c \in DOMAIN nodes :
              /\ AuthByOf(c)' = AuthByOf(c) /\ AuthTargetOf(c)' = AuthTargetOf(c)
              /\ AuthAssumed(c)' <=> AuthAssumed(c)
        /\ AuthAdmittedInv' /\ AuthClaimsInv' /\ Auth!OneDecisionPerRequest'
        /\ UNCHANGED claims
    BY AuthDecisionAppended
  <1>3. k \in DOMAIN nodes /\ r.target = <<k>>
    BY DEF AuthRequested, AuthRevising, AuthRuling
  <1>4. /\ DOMAIN nodes' = DOMAIN nodes
        /\ \A d \in DOMAIN nodes : d # k => nodes'[d] = nodes[d]
        /\ nodes'[k] = [state |-> Auth!Revised(nodes[k].state, r, i), status |-> "invalidated",
                        valid |-> FALSE]
    BY <1>1, <1>3
  <1>5. nodes'[k].state.revoked
    <2> PICK z : z = nodes[k].state
      OBVIOUS
    <2>1. z = [proposal |-> z.proposal, scope |-> z.scope, version |-> z.version,
               revoked |-> z.revoked, decision |-> z.decision]
      BY <1>3 DEF AuthIInv, AuthStatesInv
    <2>3. Auth!Revised(z, r, i).revoked
      BY <2>1, AuthRevokedIs
    <2> QED BY <1>4, <2>3
  <1>6. ASSUME NEW d \in DOMAIN nodes, d # k PROVE AuthNodeOK(d)'
    <2>1. nodes[d] = [state |-> nodes[d].state, status |-> nodes[d].status,
                      valid |-> nodes[d].valid]
      BY DEF AuthIInv, AuthNodesInv, AuthNodeOK
    <2>2. nodes'[d] = [state |-> nodes[d].state, status |-> nodes[d].status,
                       valid |-> nodes[d].valid]
      BY <1>4, <1>6, <2>1
    <2> QED BY <1>1, <1>2, <2>2, AuthNodeMoved
  <1>7. AuthNodeOK(k)'
    <2>1. AuthNodeOK(k)
      BY <1>3 DEF AuthIInv, AuthNodesInv
    <2>2. /\ nodes'[k].status = "invalidated" /\ nodes'[k].valid = FALSE
          /\ nodes'[k] = [state |-> nodes'[k].state, status |-> nodes'[k].status,
                          valid |-> nodes'[k].valid]
      BY <1>4
    <2> QED BY <1>2, <1>3, <1>5, <2>1, <2>2 DEF AuthNodeOK
  <1>8. AuthNodesInv'
    BY <1>4, <1>6, <1>7 DEF AuthNodesInv
  <1>9. AuthNoticesInv' /\ Auth!OneNotice'
    BY <1>1, <1>2, <1>4, AuthNoticesUnruled
  <1>10. AuthLogInv' /\ AuthStatesInv' /\ Auth!NoLostDecision' /\ AuthOnward
    <2>1. \A c \in DOMAIN nodes :
             nodes'[c].state = IF r.op \in AuthRevising /\ r.target = <<c>>
                               THEN Auth!Revised(nodes[c].state, r, i) ELSE nodes[c].state
      BY <1>3, <1>4 DEF AuthRevising
    <2> QED BY <1>4, <2>1, AuthDecisionKeeps
  <1>11. \A c \in DOMAIN nodes : nodes'[c] = nodes[c] \/ nodes'[c].status = "invalidated"
    BY <1>4
  <1> QED BY <1>2, <1>4, <1>8, <1>9, <1>10, <1>11 DEF AuthBaseInv

\* How a notice moves.
AuthNoticeMoves(n, to) ==
    /\ n \in DOMAIN notices
    /\ \/ notices[n].status = "pending_confirmation" /\ to \in {"open", "rejected"}
       \/ notices[n].status = "open" /\ to = "resolved"
    /\ notices' = [notices EXCEPT ![n].status = to]

\* A notice that moves stays apart from the others, and is open or is not.
LEMMA AuthNoticesRuled ==
    ASSUME AuthIInv, NEW n, NEW to, AuthNoticeMoves(n, to), Auth!EditsMade' = Auth!EditsMade,
           DOMAIN nodes' = DOMAIN nodes,
           \A c \in DOMAIN nodes : AuthAssumed(c)' <=> AuthAssumed(c)
    PROVE  /\ AuthNoticesInv' /\ Auth!OneNotice' /\ n[2] \in DOMAIN nodes /\ AuthAssumed(n[2])
           /\ DOMAIN notices' = DOMAIN notices
           /\ \A m \in DOMAIN notices : \A c : m # n => (AuthOpenOn(m, c)' <=> AuthOpenOn(m, c))
           /\ \A m \in DOMAIN notices : m # n => ~(to = "resolved" /\ AuthOpenOn(m, n[2]))
           /\ AuthOpenOn(n, n[2])' <=> to = "open"
  <1>1. notices[n] = [status |-> notices[n].status, wording |-> notices[n].wording]
        /\ n[2] \in DOMAIN nodes /\ AuthAssumed(n[2])
    BY DEF AuthNoticeMoves, AuthIInv, AuthNoticesInv
  <1>2. /\ DOMAIN notices' = DOMAIN notices
        /\ \A m \in DOMAIN notices : m # n => notices'[m] = notices[m]
        /\ notices'[n] = [status |-> to, wording |-> notices[n].wording]
    BY <1>1 DEF AuthNoticeMoves
  <1>3. AuthNoticesInv'
    <2> SUFFICES ASSUME NEW m \in DOMAIN notices
                 PROVE  /\ m = <<m[1], m[2]>> /\ m[1] \in Auth!EditsMade /\ m[2] \in DOMAIN nodes
                        /\ AuthAssumed(m[2])'
                        /\ notices'[m] = [status |-> notices'[m].status,
                                          wording |-> notices'[m].wording]
                        /\ notices'[m].status \in {"pending_confirmation", "open", "rejected",
                                                   "resolved"}
      BY <1>2 DEF AuthNoticesInv
    <2>1. /\ m = <<m[1], m[2]>> /\ m[1] \in Auth!EditsMade
          /\ m[2] \in DOMAIN nodes /\ AuthAssumed(m[2])
      BY DEF AuthIInv, AuthNoticesInv
    <2>2. CASE m = n
      BY <1>2, <2>1, <2>2 DEF AuthNoticeMoves
    <2>3. CASE m # n
      BY <1>2, <2>1, <2>3 DEF AuthIInv, AuthNoticesInv
    <2> QED BY <2>2, <2>3
  <1>4. \A m \in DOMAIN notices : m # n /\ m[2] = n[2] => AuthApart(m, n) /\ AuthApart(n, m)
    BY DEF AuthIInv, Auth!OneNotice, AuthApart, AuthNoticeMoves
  <1>5. \A m \in DOMAIN notices : m # n /\ m[2] = n[2] =>
          /\ notices[m].status \notin {"open", "pending_confirmation"}
          /\ notices[m].wording = notices[n].wording => notices[m].status = "resolved"
    BY <1>4 DEF AuthApart, AuthNoticeMoves
  <1>6. ASSUME NEW l \in DOMAIN notices, NEW m \in DOMAIN notices, l # m, l[2] = m[2]
        PROVE  AuthApart(l, m)'
    <2>1. CASE l = n
      BY <1>2, <1>5, <1>6, <2>1 DEF AuthApart
    <2>2. CASE m = n
      BY <1>2, <1>5, <1>6, <2>2 DEF AuthApart
    <2>3. CASE l # n /\ m # n
      <3>1. AuthApart(l, m)
        BY <1>6 DEF AuthIInv, Auth!OneNotice, AuthApart
      <3> QED BY <1>2, <2>3, <3>1 DEF AuthApart
    <2> QED BY <2>1, <2>2, <2>3
  <1>7. Auth!OneNotice'
    BY <1>2, <1>6 DEF Auth!OneNotice, AuthApart
  <1>8. /\ \A m \in DOMAIN notices : \A c : m # n => (AuthOpenOn(m, c)' <=> AuthOpenOn(m, c))
        /\ AuthOpenOn(n, n[2])' <=> to = "open"
    BY <1>2 DEF AuthOpenOn
  <1>9. \A m \in DOMAIN notices : m # n => ~(to = "resolved" /\ AuthOpenOn(m, n[2]))
    BY <1>5 DEF AuthOpenOn
  <1> QED BY <1>1, <1>2, <1>3, <1>7, <1>8, <1>9

\* The owner rules on a notice.
LEMMA AuthRulingKeeps ==
    ASSUME AuthIInv, NEW r, AuthRequested(r), Auth!Decide(r), r.op \in AuthRuling, NEW i,
          i = Len(log) + 1
    PROVE  /\ AuthBaseInv' /\ AuthOnward /\ DOMAIN nodes' = DOMAIN nodes
           /\ \A c \in DOMAIN nodes :
                 \/ nodes'[c] = nodes[c]
                 \/ nodes'[c].status = "invalidated" /\ nodes'[c].state = nodes[c].state
  <1> PICK n : n = r.target
    OBVIOUS
  <1> PICK to : to = IF r.op = "confirm_invalidation" THEN "open" ELSE "rejected"
    OBVIOUS
  <1>1. /\ n \in DOMAIN notices
        /\ r.expected = [notices[n] EXCEPT !.status = "pending_confirmation"]
    BY DEF AuthRequested, AuthRuling, AuthRevising
  <1>2. notices[n].status = "pending_confirmation"
    <2>1. notices[n] = r.expected
      BY DEF Auth!Decide, Auth!Binds, AuthRuling
    <2>2. notices[n] = [status |-> notices[n].status, wording |-> notices[n].wording]
      BY <1>1 DEF AuthIInv, AuthNoticesInv
    <2> QED BY <1>1, <2>1, <2>2
  <1>3. AuthNoticeMoves(n, to)
    <2>1. notices' = [notices EXCEPT ![n].status = to]
      BY DEF Auth!Decide, AuthRuling
    <2> QED BY <1>1, <1>2, <2>1 DEF AuthNoticeMoves
  <1>4. nodes' = IF to = "open" THEN [nodes EXCEPT ![n[2]].status = "invalidated"] ELSE nodes
    BY DEF Auth!Decide, Auth!NodesAfter, AuthRuling
  <1>5. /\ Auth!EditsMade' = Auth!EditsMade
        /\ \A c \in DOMAIN nodes :
              /\ AuthByOf(c)' = AuthByOf(c) /\ AuthTargetOf(c)' = AuthTargetOf(c)
              /\ AuthAssumed(c)' <=> AuthAssumed(c)
        /\ AuthAdmittedInv' /\ AuthClaimsInv' /\ Auth!OneDecisionPerRequest'
        /\ UNCHANGED claims
    BY AuthDecisionAppended
  <1>6. DOMAIN nodes' = DOMAIN nodes
    BY <1>4
  <1>7. /\ AuthNoticesInv' /\ Auth!OneNotice' /\ n[2] \in DOMAIN nodes
        /\ DOMAIN notices' = DOMAIN notices
        /\ \A m \in DOMAIN notices : \A c : m # n => (AuthOpenOn(m, c)' <=> AuthOpenOn(m, c))
        /\ AuthOpenOn(n, n[2])' <=> to = "open"
    BY <1>3, <1>5, <1>6, AuthNoticesRuled
  <1>8. ASSUME NEW d \in DOMAIN nodes
        PROVE  /\ nodes'[d].state = nodes[d].state /\ nodes'[d].valid = nodes[d].valid
               /\ nodes'[d] = [state |-> nodes'[d].state, status |-> nodes'[d].status,
                               valid |-> nodes'[d].valid]
               /\ to = "open" /\ d = n[2] => nodes'[d].status = "invalidated"
               /\ ~(to = "open" /\ d = n[2]) => nodes'[d] = nodes[d]
    <2>1. nodes[d] = [state |-> nodes[d].state, status |-> nodes[d].status,
                      valid |-> nodes[d].valid]
      BY DEF AuthIInv, AuthNodesInv, AuthNodeOK
    <2>2. CASE to = "open" /\ d = n[2]
      <3>1. nodes'[d] = [state |-> nodes[d].state, status |-> "invalidated",
                         valid |-> nodes[d].valid]
        BY <1>4, <2>1, <2>2
      <3> QED BY <2>2, <3>1
    <2>3. CASE ~(to = "open" /\ d = n[2])
      <3>1. nodes'[d] = nodes[d]
        BY <1>4, <2>3
      <3> QED BY <2>1, <2>3, <3>1
    <2> QED BY <2>2, <2>3
  <1>9. ASSUME NEW d \in DOMAIN nodes PROVE AuthNodeOK(d)'
    <2>1. AuthNodeOK(d)
      BY DEF AuthIInv, AuthNodesInv
    <2>2. CASE to = "open" /\ d = n[2]
      <3>1. AuthOpenOn(n, d)' /\ n \in DOMAIN notices'
        BY <1>1, <1>7, <2>2
      <3> QED BY <1>5, <1>8, <2>1, <2>2, <3>1 DEF AuthNodeOK
    <2>3. CASE ~(to = "open" /\ d = n[2])
      <3>1. ~AuthOpenOn(n, d) /\ ~AuthOpenOn(n, d)'
        BY <1>2, <1>7, <2>3 DEF AuthOpenOn
      <3>2. (\E m \in DOMAIN notices' : AuthOpenOn(m, d)') <=>
              (\E m \in DOMAIN notices : AuthOpenOn(m, d))
        BY <1>7, <3>1
      <3>3. nodes'[d] = nodes[d]
        BY <1>8, <2>3
      <3> QED BY <1>5, <2>1, <3>2, <3>3 DEF AuthNodeOK
    <2> QED BY <2>2, <2>3
  <1>10. AuthNodesInv'
    BY <1>6, <1>9 DEF AuthNodesInv
  <1>11. AuthLogInv' /\ AuthStatesInv' /\ Auth!NoLostDecision' /\ AuthOnward
    <2>1. r.op \notin AuthRevising /\ r.op # "confirm"
      BY DEF AuthRevising, AuthRuling
    <2> QED BY <1>6, <1>8, <2>1, AuthDecisionKeeps
  <1>12. \A c \in DOMAIN nodes :
            \/ nodes'[c] = nodes[c]
            \/ nodes'[c].status = "invalidated" /\ nodes'[c].state = nodes[c].state
    BY <1>8
  <1> QED BY <1>5, <1>6, <1>7, <1>10, <1>11, <1>12 DEF AuthBaseInv

(* ----------------------------- other steps ------------------------------ *)

\* What no event is written for reads the same log.
LEMMA AuthSameLog ==
    ASSUME AuthIInv, UNCHANGED log
    PROVE  /\ AuthLogGrows /\ Auth!EditsMade' = Auth!EditsMade /\ Auth!Decisions' = Auth!Decisions
           /\ \A c \in DOMAIN nodes :
                 /\ Auth!State(c)' = Auth!State(c) /\ AuthTargetOf(c)' = AuthTargetOf(c)
                 /\ AuthAssumed(c)' <=> AuthAssumed(c)
  <1>1. AuthLogGrows
    BY DEF AuthLogGrows
  <1>2. Auth!EditsMade' = Auth!EditsMade /\ Auth!Decisions' = Auth!Decisions
    BY DEF Auth!EditsMade, Auth!Decisions, Auth!IsEdit
  <1>3. Len(log) \in Nat /\ DOMAIN log = 1..Len(log)
    BY LenProperties DEF AuthIInv, AuthLogInv
  <1>4. ASSUME NEW c \in DOMAIN nodes
        PROVE  /\ Auth!State(c)' = Auth!State(c) /\ AuthTargetOf(c)' = AuthTargetOf(c)
               /\ AuthAssumed(c)' <=> AuthAssumed(c)
    <2>1. c \in DOMAIN log
      BY DEF AuthIInv, AuthLogInv, Auth!Decisions
    <2>2. PICK n : n = Len(log)
      OBVIOUS
    <2>3. n \in DOMAIN log /\ n >= c
      BY <1>3, <2>1, <2>2
    <2>4. Auth!StateUpTo(c, n)' = Auth!StateUpTo(c, n)
      BY <1>1, <1>3, <2>1, <2>3, AuthPrefixStays
    <2>5. Len(log') = n
      BY <2>2
    <2>6. Auth!State(c)' = Auth!State(c)
      BY <2>2, <2>4, <2>5 DEF Auth!State
    <2> QED BY <2>6 DEF AuthTargetOf, AuthAssumed, Auth!Text
  <1> QED BY <1>1, <1>2, <1>4

\* The owner resolves a notice in the assumption's favour.
LEMMA AuthResolveKeeps ==
    ASSUME AuthIInv, NEW n \in DOMAIN notices, Auth!Resolve(n)
    PROVE  /\ AuthBaseInv' /\ AuthOnward /\ DOMAIN nodes' = DOMAIN nodes
           /\ \A c \in DOMAIN nodes :
                 /\ nodes'[c].state = nodes[c].state
                 /\ ~AuthAssumed(c) => nodes'[c] = nodes[c]
  <1>1. /\ notices[n].status = "open" /\ AuthNoticeMoves(n, "resolved")
        /\ nodes' = [nodes EXCEPT ![n[2]].status = IF nodes[n[2]].valid THEN "active" ELSE @]
        /\ UNCHANGED <<log, swept, admitted, claims, within>>
    BY DEF Auth!Resolve, AuthNoticeMoves
  <1>2. /\ AuthLogGrows /\ Auth!EditsMade' = Auth!EditsMade /\ Auth!Decisions' = Auth!Decisions
        /\ \A c \in DOMAIN nodes :
              /\ Auth!State(c)' = Auth!State(c) /\ AuthTargetOf(c)' = AuthTargetOf(c)
              /\ AuthAssumed(c)' <=> AuthAssumed(c)
    BY <1>1, AuthSameLog
  <1>3. DOMAIN nodes' = DOMAIN nodes
    BY <1>1
  <1>4. /\ AuthNoticesInv' /\ Auth!OneNotice' /\ n[2] \in DOMAIN nodes /\ AuthAssumed(n[2])
        /\ DOMAIN notices' = DOMAIN notices
        /\ \A m \in DOMAIN notices : \A c : m # n => (AuthOpenOn(m, c)' <=> AuthOpenOn(m, c))
        /\ \A m \in DOMAIN notices : m # n => ~AuthOpenOn(m, n[2])
        /\ ~AuthOpenOn(n, n[2])'
    BY <1>1, <1>2, <1>3, AuthNoticesRuled
  <1>5. \A c \in DOMAIN nodes : AuthByOf(c)' = AuthByOf(c)
    BY <1>1, <1>2 DEF AuthByOf
  <1> PICK sp : sp = IF nodes[n[2]].valid THEN "active" ELSE nodes[n[2]].status
    OBVIOUS
  <1>6. ASSUME NEW d \in DOMAIN nodes
        PROVE  /\ nodes'[d].state = nodes[d].state /\ nodes'[d].valid = nodes[d].valid
               /\ nodes'[d] = [state |-> nodes'[d].state, status |-> nodes'[d].status,
                               valid |-> nodes'[d].valid]
               /\ d = n[2] => nodes'[d].status = sp
               /\ d # n[2] => nodes'[d] = nodes[d]
    <2>1. nodes[d] = [state |-> nodes[d].state, status |-> nodes[d].status,
                      valid |-> nodes[d].valid]
      BY DEF AuthIInv, AuthNodesInv, AuthNodeOK
    <2>2. CASE d = n[2]
      <3>1. nodes'[d] = [state |-> nodes[d].state, status |-> sp, valid |-> nodes[d].valid]
        BY <1>1, <2>1, <2>2
      <3> QED BY <2>2, <3>1
    <2>3. CASE d # n[2]
      <3>1. nodes'[d] = nodes[d]
        BY <1>1, <2>3
      <3> QED BY <2>1, <2>3, <3>1
    <2> QED BY <2>2, <2>3
  <1>7. ASSUME NEW d \in DOMAIN nodes PROVE AuthNodeOK(d)'
    <2>1. AuthNodeOK(d)
      BY DEF AuthIInv, AuthNodesInv
    <2>2. CASE d = n[2]
      <3>1. ~\E m \in DOMAIN notices' : AuthOpenOn(m, d)'
        BY <1>4, <2>2
      <3>2. /\ nodes[d].valid \in BOOLEAN
            /\ nodes[d].status \in {"active", "uncertain", "invalidated"}
            /\ ~nodes[d].valid => nodes[d].state.revoked \/ AuthByOf(d) # 0
            /\ AuthTargetOf(d) \in DOMAIN claims
        BY <2>1 DEF AuthNodeOK
      <3>3. nodes'[d].status = IF nodes[d].valid THEN "active" ELSE nodes[d].status
        BY <1>6, <2>2
      <3> QED BY <1>1, <1>2, <1>5, <1>6, <3>1, <3>2, <3>3 DEF AuthNodeOK
    <2>3. CASE d # n[2]
      <3>1. ~AuthOpenOn(n, d) /\ ~AuthOpenOn(n, d)'
        BY <2>3 DEF AuthOpenOn
      <3>2. (\E m \in DOMAIN notices' : AuthOpenOn(m, d)') <=>
              (\E m \in DOMAIN notices : AuthOpenOn(m, d))
        BY <1>4, <3>1
      <3>3. nodes'[d] = nodes[d]
        BY <1>6, <2>3
      <3> QED BY <1>1, <1>2, <1>5, <2>1, <3>2, <3>3 DEF AuthNodeOK
    <2> QED BY <2>2, <2>3
  <1>8. AuthNodesInv'
    BY <1>3, <1>7 DEF AuthNodesInv
  <1>9. AuthStatesInv' /\ Auth!NoLostDecision' /\ Auth!OneDecisionPerRequest'
    BY <1>2, <1>3, <1>6, AuthNothingDecided
  <1>10. AuthAdmittedInv' /\ AuthClaimsInv'
    BY <1>1, <1>2, AuthSourcesStay DEF AuthIInv
  <1>11. AuthLogInv'
    BY <1>1, <1>2, <1>3 DEF AuthIInv, AuthLogInv
  <1>12. AuthOnward
    BY <1>1, <1>2, <1>3, <1>6 DEF AuthOnward
  <1>13. \A c \in DOMAIN nodes : /\ nodes'[c].state = nodes[c].state
                                 /\ ~AuthAssumed(c) => nodes'[c] = nodes[c]
    BY <1>4, <1>6
  <1> QED BY <1>3, <1>4, <1>8, <1>9, <1>10, <1>11, <1>12, <1>13 DEF AuthBaseInv

\* A sweep, or no step at all, takes only payloads.
LEMMA AuthQuietKeeps ==
    ASSUME AuthIInv, UNCHANGED <<log, admitted, claims, nodes, notices, within>>,
          swept \subseteq swept'
    PROVE  AuthBaseInv' /\ AuthOnward
  <1>1. /\ AuthLogGrows /\ Auth!EditsMade' = Auth!EditsMade /\ Auth!Decisions' = Auth!Decisions
        /\ \A c \in DOMAIN nodes : Auth!State(c)' = Auth!State(c)
    BY AuthSameLog
  <1>2. AuthNodesInv' /\ AuthNoticesInv' /\ Auth!OneNotice'
    BY <1>1, AuthNodesStay
  <1>3. AuthStatesInv' /\ Auth!NoLostDecision' /\ Auth!OneDecisionPerRequest'
    BY <1>1, AuthNothingDecided
  <1>4. AuthAdmittedInv' /\ AuthClaimsInv'
    BY <1>1, AuthSourcesStay DEF AuthIInv
  <1>5. AuthLogInv'
    BY <1>1 DEF AuthIInv, AuthLogInv
  <1>6. AuthOnward
    BY <1>1 DEF AuthOnward
  <1> QED BY <1>2, <1>3, <1>4, <1>5, <1>6 DEF AuthBaseInv

\* Where no node comes nearer to a dispute, opposites stay marked.
LEMMA AuthOppositesStay ==
    ASSUME AuthIInv, AuthBaseInv', AuthOnward, DOMAIN nodes' = DOMAIN nodes,
           \A c \in DOMAIN nodes : nodes'[c].status # "invalidated" =>
              /\ nodes'[c].state = nodes[c].state
              /\ nodes'[c].status = nodes[c].status \/ AuthAssumed(c)
    PROVE  AuthOpposedInv'
  <1> SUFFICES ASSUME NEW c \in DOMAIN nodes, NEW d \in DOMAIN nodes PROVE AuthPairOK(c, d)'
    BY DEF AuthOpposedInv, AuthPairOK
  <1>1. AuthDisputed(c, d)' => AuthNoNearer(c) /\ AuthNoNearer(d)
    <2> HAVE AuthDisputed(c, d)'
    <2>1. Auth!Text(c)' = Auth!Text(c) /\ Auth!Text(d)' = Auth!Text(d)
      BY DEF AuthOnward, AuthLogGrows, AuthIInv, AuthLogInv, Auth!Decisions, Auth!Text
    <2>2. ~AuthAssumed(c) /\ ~AuthAssumed(d)
      BY <2>1, AuthOppositesDiffer DEF AuthDisputed, AuthAssumed
    <2> QED BY <2>2 DEF AuthDisputed, AuthNoNearer
  <1> QED BY <1>1, AuthPairStays

\* Every decision keeps the invariant.
LEMMA AuthDecideKeeps ==
    ASSUME AuthIInv, NEW r, AuthRequested(r), Auth!Decide(r)
    PROVE  AuthIInv' /\ AuthOnward
  <1> PICK i : i = Len(log) + 1
    OBVIOUS
  <1>1. CASE r.op = "confirm"
    BY <1>1, AuthConfirmKeeps
  <1>2. CASE r.op = "replace_scope"
    BY <1>2, AuthReplaceKeeps
  <1>3. CASE r.op = "revoke"
    <2>1. AuthBaseInv' /\ AuthOnward /\ AuthOpposedInv'
      BY <1>3, AuthRevokeKeeps, AuthOppositesStay
    <2> QED BY <2>1 DEF AuthIInv, AuthBaseInv
  <1>4. CASE r.op \in AuthRuling
    <2>1. AuthBaseInv' /\ AuthOnward /\ AuthOpposedInv'
      BY <1>4, AuthRulingKeeps, AuthOppositesStay
    <2> QED BY <2>1 DEF AuthIInv, AuthBaseInv
  <1> QED BY <1>1, <1>2, <1>3, <1>4 DEF AuthRequested, AuthRevising

\* The invariant holds of an empty log.
LEMMA AuthInitInv == Auth!Init => AuthIInv
  <1> SUFFICES ASSUME Auth!Init PROVE AuthIInv
    OBVIOUS
  <1>1. /\ DOMAIN log = {} /\ DOMAIN nodes = {} /\ DOMAIN claims = {} /\ DOMAIN notices = {}
        /\ admitted = {} /\ within \in Scenarios /\ log = << >>
    BY DEF Auth!Init
  <1>2. log \in Seq({log[i] : i \in DOMAIN log})
    BY <1>1
  <1>3. Auth!EditsMade = {} /\ Auth!Decisions = {}
    BY <1>1 DEF Auth!EditsMade, Auth!Decisions
  <1> QED BY <1>1, <1>2, <1>3
          DEF AuthIInv, AuthLogInv, AuthAdmittedInv, AuthClaimsInv, AuthStatesInv, AuthNodesInv,
                AuthNoticesInv, AuthOpposedInv,
              Auth!NoLostDecision, Auth!OneDecisionPerRequest, Auth!OneNotice

\* Each step of the specification keeps the invariant.
LEMMA AuthNextInv == AuthIInv /\ [Auth!Next]_(Auth!vars) => AuthIInv' /\ AuthOnward
  <1> SUFFICES ASSUME AuthIInv, [Auth!Next]_(Auth!vars) PROVE AuthIInv' /\ AuthOnward
    OBVIOUS
  <1>1. ASSUME NEW e \in within.edits, Auth!Ingest(e) PROVE AuthIInv' /\ AuthOnward
    <2>1. AuthBaseInv' /\ AuthOnward /\ AuthOpposedInv'
      BY <1>1, AuthIngestKeeps, AuthOppositesStay
    <2> QED BY <2>1 DEF AuthIInv, AuthBaseInv
  <1>2. ASSUME NEW id,
               NEW r \in Auth!Confirmations(id) \cup Auth!Revisions(id) \cup Auth!Rulings(id),
               Auth!Decide(r)
        PROVE  AuthIInv' /\ AuthOnward
    BY <1>2, AuthRequestsMade, AuthDecideKeeps
  <1>3. ASSUME NEW n \in DOMAIN notices, Auth!Resolve(n) PROVE AuthIInv' /\ AuthOnward
    <2>1. AuthBaseInv' /\ AuthOnward /\ AuthOpposedInv'
      BY <1>3, AuthResolveKeeps, AuthOppositesStay
    <2> QED BY <2>1 DEF AuthIInv, AuthBaseInv
  <1>4. ASSUME UNCHANGED <<log, admitted, claims, nodes, notices, within>>, swept \subseteq swept'
        PROVE  AuthIInv' /\ AuthOnward
    <2>1. AuthBaseInv' /\ AuthOnward /\ AuthOpposedInv'
      BY <1>4, AuthQuietKeeps, AuthOppositesStay
    <2> QED BY <2>1 DEF AuthIInv, AuthBaseInv
  <1>5. ASSUME NEW i, Auth!Sweep(i) PROVE AuthIInv' /\ AuthOnward
    BY <1>4, <1>5 DEF Auth!Sweep
  <1>6. CASE UNCHANGED Auth!vars
    BY <1>4, <1>6 DEF Auth!vars
  <1> QED BY <1>1, <1>2, <1>3, <1>5, <1>6 DEF Auth!Next

(* ------------------------- what the invariant says ---------------------- *)

\* A confirmation stands if it is not revoked and its claim not withdrawn; for
\* one whose source was not poisonous the converse holds too.
LEMMA AuthStandsIs ==
    ASSUME AuthIInv, NEW c \in DOMAIN nodes
    PROVE  /\ Auth!Stands(c) => ~nodes[c].state.revoked /\ AuthByOf(c) = 0
           /\ ~nodes[c].state.revoked /\ AuthByOf(c) = 0 /\ Auth!Available(c) => Auth!Stands(c)
  <1> PICK p : p = AuthTargetOf(c)
    OBVIOUS
  <1>1. /\ p \in DOMAIN claims /\ AuthByOf(c) = claims[p].by
    BY DEF AuthIInv, AuthNodesInv, AuthNodeOK, AuthByOf
  <1>2. /\ claims[p].by # 0 => /\ claims[p].by \in admitted /\ claims[p].by > p[1]
                               /\ Auth!Withdraws(log[claims[p].by].edit, p)
        /\ claims[p].by = 0 /\ ~claims[p].poison =>
              \A i \in admitted : i > p[1] => ~Auth!Withdraws(log[i].edit, p)
    BY <1>1 DEF AuthIInv, AuthClaimsInv
  <1>3. nodes[c].state.revoked <=>
          \E i \in DOMAIN log : Auth!Revises(i, c) /\ log[i].request.op = "revoke"
    BY DEF AuthIInv, AuthStatesInv, AuthRevokes
  <1>4. \A i \in admitted : ~log[i].edit.poison
    BY DEF AuthIInv, AuthAdmittedInv
  <1>5. Auth!Available(c) => ~claims[p].poison
    BY DEF Auth!Available, Auth!OriginHeld, AuthTargetOf
  <1>6. \A i \in admitted : Auth!Withdraws(log[i].edit, p) <=>
          /\ log[i].edit.field = log[p[1]].edit.field
          /\ p[2] \notin log[i].edit.states
          /\ Auth!Strength(log[i].edit.strong) >= Auth!Strength(log[p[1]].edit.strong)
    BY <1>4 DEF Auth!Withdraws
  <1>7. Auth!Stands(c) <=> /\ ~nodes[c].state.revoked
                      /\ ~\E i \in admitted : i > p[1] /\ Auth!Withdraws(log[i].edit, p)
    BY <1>3, <1>6 DEF Auth!Stands, AuthTargetOf
  <1> QED BY <1>1, <1>2, <1>5, <1>7

\* What obliges is what stands.
LEMMA AuthObligationsAreExact == AuthIInv => Auth!ObligationsExact
  <1> SUFFICES ASSUME AuthIInv, NEW task \in {None} \cup DOMAIN nodes, ~Auth!Refuses,
                      NEW c \in DOMAIN nodes
               PROVE  c \in Auth!Obligations(task) <=>
                        /\ KindOf[Auth!Text(c)] # "task" /\ Auth!Stands(c)
                        /\ ~\E n \in DOMAIN notices : n[2] = c /\ notices[n].status = "open"
                        /\ \/ task = None
                           \/ Auth!StateUpTo(c, Len(log)).scope \in {Auth!Global}
                           \/ task \in Auth!StateUpTo(c, Len(log)).scope
    BY DEF Auth!ObligationsExact, Auth!Obligations, Auth!Controls
  <1>1. AuthNodeOK(c)
    BY DEF AuthIInv, AuthNodesInv
  <1>2. Auth!IsCurrent(c) <=> Auth!Available(c) /\ ~nodes[c].state.revoked /\ AuthByOf(c) = 0
    BY AuthCurrents DEF AuthCurrentIs, AuthIInv, AuthBaseInv
  <1>3. (\E n \in DOMAIN notices : n[2] = c /\ notices[n].status = "open")
          <=> (\E n \in DOMAIN notices : AuthOpenOn(n, c))
    BY DEF AuthOpenOn
  <1>4. Auth!State(c) = Auth!StateUpTo(c, Len(log))
    BY DEF Auth!State
  <1>5. ASSUME c \in Auth!Obligations(task)
        PROVE  /\ KindOf[Auth!Text(c)] # "task" /\ Auth!Stands(c)
               /\ ~\E n \in DOMAIN notices : n[2] = c /\ notices[n].status = "open"
               /\ \/ task = None
                  \/ Auth!StateUpTo(c, Len(log)).scope \in {Auth!Global}
                  \/ task \in Auth!StateUpTo(c, Len(log)).scope
    <2>1. /\ KindOf[Auth!Text(c)] # "task" /\ Auth!Live(c) /\ nodes[c].valid /\ Auth!IsCurrent(c)
          /\ task = None \/ Auth!State(c).scope = Auth!Global \/ task \in Auth!State(c).scope
      BY <1>5 DEF Auth!Obligations, Auth!Controls
    <2>2. Auth!Stands(c)
      BY <1>2, <2>1, AuthStandsIs
    <2>3. ~\E n \in DOMAIN notices : AuthOpenOn(n, c)
      BY <1>1, <2>1 DEF AuthNodeOK, Auth!Live
    <2> QED BY <1>3, <1>4, <2>1, <2>2, <2>3
  <1>6. ASSUME KindOf[Auth!Text(c)] # "task", Auth!Stands(c),
               ~\E n \in DOMAIN notices : n[2] = c /\ notices[n].status = "open",
               \/ task = None
               \/ Auth!StateUpTo(c, Len(log)).scope \in {Auth!Global}
               \/ task \in Auth!StateUpTo(c, Len(log)).scope
        PROVE  c \in Auth!Obligations(task)
    <2>1. ~nodes[c].state.revoked /\ AuthByOf(c) = 0
      BY <1>6, AuthStandsIs
    <2>2. nodes[c].status # "invalidated" /\ nodes[c].valid
      BY <1>1, <1>3, <1>6, <2>1 DEF AuthNodeOK
    <2>3. Auth!Live(c)
      BY <1>1, <2>2 DEF AuthNodeOK, Auth!Live
    <2>4. c \in Auth!Controls
      BY <1>6, <2>2, <2>3 DEF Auth!Controls
    <2>5. Auth!Available(c)
      BY <2>4 DEF Auth!Refuses
    <2>6. Auth!IsCurrent(c)
      BY <1>2, <2>1, <2>5
    <2> QED BY <1>4, <1>6, <2>4, <2>6 DEF Auth!Obligations
  <1> QED BY <1>5, <1>6

\* The edits made of the field that edit i is about.
AuthMade(i) == {j \in DOMAIN log : Auth!IsEdit(j) /\ log[j].edit.field = log[i].edit.field}

\* What a field's claims still say is what its latest revision says.
LEMMA AuthLatestStands == AuthIInv => Auth!LatestRevisionStands
  <1> SUFFICES ASSUME AuthIInv, NEW i \in admitted,
                      \A j \in AuthMade(i) : /\ log[j].edit.strong /\ ~log[j].edit.poison
                                             /\ log[j].edit.rev # 0,
                      \A j, k \in AuthMade(i) :
                         log[j].edit.rev = log[k].edit.rev => log[j].edit = log[k].edit,
                      \A j \in AuthMade(i) : log[j].edit.rev <= log[i].edit.rev
               PROVE  {p[2] : p \in
                         {q \in DOMAIN claims : q[1] \in AuthMade(i) /\ claims[q].by = 0}}
                           = log[i].edit.states
    BY DEF Auth!LatestRevisionStands, AuthMade
  <1> PICK f : f = log[i].edit.field
    OBVIOUS
  <1> PICK edits : edits = AuthMade(i)
    OBVIOUS
  <1>0. \A j : j \in edits <=> j \in DOMAIN log /\ Auth!IsEdit(j) /\ log[j].edit.field = f
    BY DEF AuthMade
  <1>1. /\ \A j \in admitted : j \in Auth!EditsMade
        /\ \A t \in log[i].edit.states : <<i, t>> \in DOMAIN claims
        /\ \A j, k \in admitted :
              /\ j < k
              /\ log[j].edit.field = log[k].edit.field
              /\ log[j].edit.rev # 0 /\ log[k].edit.rev # 0
              /\ Auth!Strength(log[j].edit.strong) >= Auth!Strength(log[k].edit.strong)
              => log[j].edit.rev <= log[k].edit.rev
    BY DEF AuthIInv, AuthAdmittedInv
  <1>2. \A j \in admitted : j \in DOMAIN log /\ (log[j].edit.field = f => j \in edits)
    BY <1>0, <1>1 DEF Auth!EditsMade
  <1>3. i \in edits
    BY <1>2
  <1>4. \A j \in edits : j \in Nat /\ log[j].edit.rev \in Nat
    <2>1. \A j \in edits : j \in Auth!EditsMade
      BY <1>0 DEF Auth!EditsMade, AuthIInv, AuthLogInv
    <2>2. DOMAIN log = 1..Len(log) /\ Len(log) \in Nat
      BY LenProperties DEF AuthIInv, AuthLogInv
    <2>3. \A j \in edits : log[j].edit.rev \in Nat
      BY <2>1, ScenariosOK DEF AuthIInv, AuthLogInv
    <2> QED BY <1>0, <2>2, <2>3
  <1>5. \A j, k \in edits : Auth!Strength(log[j].edit.strong) >= Auth!Strength(log[k].edit.strong)
    BY DEF Auth!Strength
  <1>6. \A j \in admitted : j > i /\ j \in edits => log[j].edit = log[i].edit
    <2> TAKE j \in admitted
    <2> HAVE j > i /\ j \in edits
    <2>1. log[i].edit.rev <= log[j].edit.rev
      BY <1>0, <1>1, <1>3, <1>4, <1>5
    <2>2. log[i].edit.rev = log[j].edit.rev
      BY <1>3, <1>4, <2>1
    <2> QED BY <1>3, <2>2
  <1>7. ASSUME NEW q \in DOMAIN claims, q[1] \in edits, claims[q].by = 0
        PROVE  q[2] \in log[i].edit.states
    <2>1. /\ q[1] \in Auth!EditsMade /\ q[2] \in log[q[1]].edit.states
          /\ claims[q].poison = log[q[1]].edit.poison
          /\ ~claims[q].poison => q[1] \in admitted
          /\ claims[q].by = 0 /\ ~claims[q].poison =>
                \A j \in admitted : j > q[1] => ~Auth!Withdraws(log[j].edit, q)
      BY DEF AuthIInv, AuthClaimsInv
    <2>2. ~claims[q].poison /\ q[1] \in admitted
      BY <1>7, <2>1
    <2>3. CASE q[1] = i
      BY <2>1, <2>3
    <2>4. CASE q[1] < i
      <3>1. ~Auth!Withdraws(log[i].edit, q)
        BY <1>3, <1>4, <1>7, <2>1, <2>2, <2>4
      <3>2. ~log[i].edit.poison /\ log[q[1]].edit.field = log[i].edit.field
            /\ Auth!Strength(log[i].edit.strong) >= Auth!Strength(log[q[1]].edit.strong)
        BY <1>0, <1>3, <1>5, <1>7
      <3> QED BY <3>1, <3>2 DEF Auth!Withdraws
    <2>5. CASE q[1] > i
      BY <1>6, <1>7, <2>1, <2>2, <2>5
    <2> QED BY <1>3, <1>4, <1>7, <2>3, <2>4, <2>5
  <1>8. ASSUME NEW t \in log[i].edit.states
        PROVE  \E q \in DOMAIN claims : q[1] \in edits /\ claims[q].by = 0 /\ q[2] = t
    <2> PICK q : q = <<i, t>>
      OBVIOUS
    <2>1. q \in DOMAIN claims /\ q[1] = i /\ q[2] = t
      BY <1>1
    <2>2. claims[q].by # 0 => /\ claims[q].by \in admitted /\ claims[q].by > i
                              /\ Auth!Withdraws(log[claims[q].by].edit, q)
      BY <2>1 DEF AuthIInv, AuthClaimsInv
    <2>3. claims[q].by = 0
      <3> SUFFICES ASSUME claims[q].by # 0 PROVE FALSE
        OBVIOUS
      <3>1. t \notin log[claims[q].by].edit.states /\ log[claims[q].by].edit.field = f
        BY <2>1, <2>2 DEF Auth!Withdraws
      <3>2. log[claims[q].by].edit = log[i].edit
        BY <1>2, <1>6, <2>2, <3>1
      <3> QED BY <3>1, <3>2
    <2> QED BY <1>3, <2>1, <2>3
  <1> QED BY <1>7, <1>8

\* Of two opposite controls that oblige, both are marked.
LEMMA AuthOppositesAreContested == AuthIInv => Auth!OppositesContested
  <1> SUFFICES ASSUME AuthIInv, NEW c \in Auth!Obligations(None), NEW d \in Auth!Obligations(None),
                      {Auth!Text(c), Auth!Text(d)} \in Opposites,
                      Auth!Meet(Auth!State(c).scope, Auth!State(d).scope)
               PROVE  nodes[c].status = "uncertain" /\ nodes[d].status = "uncertain"
    BY DEF Auth!OppositesContested
  <1>1. \A e \in Auth!Obligations(None) : /\ e \in DOMAIN nodes /\ Auth!IsCurrent(e)
                                          /\ nodes[e].status # "invalidated"
    BY DEF Auth!Obligations, Auth!Controls, Auth!Live
  <1>2. \A e \in DOMAIN nodes : nodes[e].state = Auth!State(e)
    BY DEF AuthIInv, AuthStatesInv
  <1>3. AuthDisputed(c, d)
    BY <1>1, <1>2 DEF AuthDisputed
  <1> QED BY <1>1, <1>3 DEF AuthIInv, AuthOpposedInv

\* The invariant says what stands, exactly.
LEMMA AuthInvImplies == AuthIInv => Auth!AuthorityExact
  BY AuthObligationsAreExact, AuthLatestStands, AuthOppositesAreContested
     DEF AuthIInv, Auth!AuthorityExact

\* What binds is what people decided: each decision once, on the state that its
\* author saw, the obligations exact, contradictions put before the owner.
THEOREM AuthorityStaysExact == Auth!Spec => []AuthorityExact
  <1>1. Auth!Init => AuthIInv
    BY AuthInitInv
  <1>2. AuthIInv /\ [Auth!Next]_(Auth!vars) => AuthIInv'
    BY AuthNextInv
  <1>3. AuthIInv => AuthorityExact
    BY AuthInvImplies DEF AuthorityExact
  <1> QED BY <1>1, <1>2, <1>3, PTL DEF Auth!Spec

\* Authority that was lost never comes back by itself.
THEOREM AuthorityStaysLost == Auth!Spec => AuthorityNeverRevives
  <1>1. Auth!Init => AuthIInv
    BY AuthInitInv
  <1>2. AuthIInv /\ [Auth!Next]_(Auth!vars) => AuthIInv'
    BY AuthNextInv
  <1>3. AuthIInv /\ [Auth!Next]_(Auth!vars) => [Auth!AuthorityNeverRevives]_authVars
    <2> SUFFICES ASSUME AuthIInv, [Auth!Next]_(Auth!vars) PROVE Auth!AuthorityNeverRevives
      OBVIOUS
    <2>1. AuthBaseInv /\ AuthBaseInv' /\ AuthOnward
      BY AuthNextInv DEF AuthIInv, AuthBaseInv
    <2> QED BY <2>1, AuthNeverRevives DEF Auth!AuthorityNeverRevives
  <1> QED BY <1>1, <1>2, <1>3, PTL DEF Auth!Spec, AuthorityNeverRevives

(* ------------------------------- together ------------------------------- *)

\* A behaviour of the whole is a behaviour of each part.
LEMMA PartsKept ==
    AdmissionSpec => Spec /\ Open!Spec /\ Auth!Spec /\ Front!Spec
  <1>1. AdmissionInit => Init /\ Open!Init /\ Auth!Init /\ Front!Init
    BY DEF AdmissionInit
  <1>2. [AdmissionNext]_all =>
           /\ [Next]_vars /\ [Open!Next]_(Open!vars)
           /\ [Auth!Next]_(Auth!vars) /\ [Front!Next]_(Front!vars)
    BY DEF AdmissionNext, all, vars, openVars, authVars, frontVars, Open!vars, Auth!vars,
           Front!vars
  <1> QED BY <1>1, <1>2, PTL DEF AdmissionSpec, Spec, Open!Spec, Auth!Spec, Front!Spec

\* Whichever part moves, decisions of the learning loop are made once, databases
\* open safely and the frontier is what the deliveries said.
THEOREM AdmissionSafe ==
    AdmissionSpec =>
        /\ [](LearnedExactly /\ OpensSafely /\ AuthorityExact /\ FrontierExact)
        /\ AuthorityNeverRevives
  BY PartsKept, LearningIsExact, OpeningSafe, AuthorityStaysExact, AuthorityStaysLost,
     FrontierSafe, PTL

=============================================================================
