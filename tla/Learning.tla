------------------------------ MODULE Learning ------------------------------
(***************************************************************************)
(* The learning loop: failures are diagnosed, turned into evaluation       *)
(* cases, replayed, and answered by skill proposals that a human approves. *)
(* Several connections work on one database.  Each decision reads what it  *)
(* decides about and writes the outcome; a connection may crash between.   *)
(*                                                                         *)
(* A failure is known by its boundary (taxonomy and failing step), which   *)
(* is also what the identity of its evaluation is derived from.            *)
(***************************************************************************)
EXTENDS Integers, FiniteSets, Sequences

CONSTANTS
    Connections,   \* connections to the database
    Boundaries,    \* failure boundaries
    Splits,        \* splits an evaluation may be assigned to
    MaxFailures,   \* failures diagnosed
    MaxReplays,    \* replays started
    MaxSkills,     \* skills proposed
    None

VARIABLES
    failures,   \* boundaries of the diagnosed failures, in order
    evals,      \* boundary and split -> its node: version and sources
    replays,    \* replay nodes, in order: status and version
    skills,     \* skill nodes, in order: status, version, provenance
    lock,       \* the connection that holds the database's write lock
    work,       \* connection -> the decision it is in, or None
    made        \* evaluations returned to a caller

vars == <<failures, evals, replays, skills, lock, work, made>>

Db == <<failures, evals, replays, skills>>

(* ----------------------------- single inserts --------------------------- *)

Unlocked == lock = None /\ UNCHANGED <<lock, work, made>>

\* compost: the diagnosis and its edges in one transaction.
Compost(b) ==
    /\ Unlocked
    /\ Len(failures) < MaxFailures
    /\ failures' = Append(failures, b)
    /\ UNCHANGED <<evals, replays, skills>>

\* ReplayManager.start.
Start ==
    /\ Unlocked
    /\ Len(replays) < MaxReplays
    /\ replays' = Append(replays, [status |-> "replay_ready", version |-> 1])
    /\ UNCHANGED <<failures, evals, skills>>

\* propose: provenance must be failures of the project.
Propose(from) ==
    /\ Unlocked
    /\ Len(skills) < MaxSkills
    /\ from \subseteq DOMAIN failures
    /\ skills' = Append(skills, [status |-> "proposed", version |-> 1, from |-> from])
    /\ UNCHANGED <<failures, evals, replays>>

(* ------------------------------- decisions ------------------------------ *)

Key(w) == <<failures[w.of], w.split>>

Decisions ==
    [op : {"from_failure"}, of : DOMAIN failures, split : Splits]
    \cup [op : {"record_result"}, of : DOMAIN replays, split : {None}]
    \cup [op : {"approve"}, of : DOMAIN skills, split : {None}]

\* Bug: the target is read before the transaction is entered.
MutBegin(c, d) ==
    /\ work[c] = None
    /\ work' = [work EXCEPT ![c] = [of |-> d, saw |-> None]]
    /\ UNCHANGED <<lock, made>> /\ UNCHANGED Db

\* The transaction takes the write lock before anything is read.
Begin(c, d) ==
    /\ work[c] = None
    /\ lock = None
    /\ lock' = c
    /\ work' = [work EXCEPT ![c] = [of |-> d, saw |-> None]]
    /\ UNCHANGED made /\ UNCHANGED Db

\* The state the decision depends on.
Target(d) ==
    CASE d.op = "from_failure" ->
            IF Key(d) \in DOMAIN evals THEN "exists" ELSE "new"
      [] d.op = "record_result" -> replays[d.of].status
      [] d.op = "approve" -> skills[d.of].status

Allowed(saw) == saw \in {"exists", "new", "replay_ready", "proposed"}

\* A target in the wrong state ends the transaction.
Read(c) ==
    /\ work[c] # None /\ work[c].saw = None
    /\ LET saw == Target(work[c].of)
       IN IF Allowed(saw)
          THEN work' = [work EXCEPT ![c].saw = saw] /\ UNCHANGED lock
          ELSE /\ work' = [work EXCEPT ![c] = None]
               /\ lock' = IF lock = c THEN None ELSE lock
    /\ UNCHANGED made /\ UNCHANGED Db

\* Bug: an evaluation that is already there is returned as it is.
MutSourced(saw, e, f) == IF saw = "exists" THEN e.sources ELSE e.sources \cup {f}

\* The failure becomes a source of the evaluation it was folded into.
Sourced(saw, e, f) == e.sources \cup {f}

\* put_node: a new version of a node that is there, or its first.
Versioned(saw, e) == IF saw = "exists" THEN e.version ELSE e.version + 1

Held(k) == IF k \in DOMAIN evals THEN evals[k] ELSE [version |-> 0, sources |-> {}]

FromFailure(d, saw) ==
    LET k == Key(d)
        e == [version |-> Versioned(saw, Held(k)), sources |-> Sourced(saw, Held(k), d.of)]
    IN /\ evals' = [x \in DOMAIN evals \cup {k} |-> IF x = k THEN e ELSE evals[x]]
       /\ made' = made \cup {<<d.of, d.split>>}
       /\ UNCHANGED <<failures, replays, skills>>

RecordResult(d) ==
    /\ replays' = [replays EXCEPT ![d.of] = [status |-> "replay_done", version |-> @.version + 1]]
    /\ UNCHANGED <<failures, evals, skills, made>>

\* Approval never activates.
Approve(d) ==
    /\ skills' = [skills EXCEPT ![d.of].status = "approved", ![d.of].version = @ + 1]
    /\ UNCHANGED <<failures, evals, replays, made>>

Commit(c) ==
    /\ work[c] # None /\ work[c].saw # None
    /\ lock \in {c, None}
    /\ LET d == work[c].of
       IN \/ d.op = "from_failure" /\ FromFailure(d, work[c].saw)
          \/ d.op = "record_result" /\ RecordResult(d)
          \/ d.op = "approve" /\ Approve(d)
    /\ work' = [work EXCEPT ![c] = None]
    /\ lock' = None

\* An exception, a refused approval or a crash: nothing was written.
Fail(c) ==
    /\ work[c] # None
    /\ work' = [work EXCEPT ![c] = None]
    /\ lock' = IF lock = c THEN None ELSE lock
    /\ UNCHANGED made /\ UNCHANGED Db

(* ----------------------------- specification ---------------------------- *)

Init ==
    /\ failures = <<>>
    /\ evals = << >>
    /\ replays = <<>>
    /\ skills = <<>>
    /\ lock = None
    /\ work = [c \in Connections |-> None]
    /\ made = {}

Next ==
    \/ \E b \in Boundaries : Compost(b)
    \/ Start
    \/ \E from \in SUBSET DOMAIN failures : Propose(from)
    \/ \E c \in Connections :
        \/ \E d \in Decisions : Begin(c, d)
        \/ Read(c)
        \/ Commit(c)
        \/ Fail(c)

Spec == Init /\ [][Next]_vars

(* ------------------------------ properties ------------------------------ *)

\* Nothing is decided twice: however the connections interleave and crash,
\* an evaluation case is created once, a replay has one result and a skill
\* one approval (learning.py from_failure, record_result, approve).
DecidedOnce ==
    /\ \A k \in DOMAIN evals : evals[k].version = 1
    /\ \A n \in DOMAIN replays :
        replays[n].version = IF replays[n].status = "replay_done" THEN 2 ELSE 1
    /\ \A n \in DOMAIN skills :
        skills[n].version = IF skills[n].status = "approved" THEN 2 ELSE 1

\* Folding recurring failures into one case forgets none of them: every
\* failure an evaluation was made from stays one of its sources, and no
\* failure of another boundary is (learning.py from_failure).
SourcesExact ==
    /\ \A m \in made : m[1] \in evals[<<failures[m[1]], m[2]>>].sources
    /\ \A k \in DOMAIN evals : \A f \in evals[k].sources : failures[f] = k[1]

\* Connections that work at once leave what one connection would: nothing is
\* decided twice, and an evaluation knows every failure folded into it
\* (learning.py from_failure, record_result, approve).
LearnedExactly == DecidedOnce /\ SourcesExact
=============================================================================
