------------------------------ MODULE Frontier ------------------------------
(***************************************************************************)
(* The revision frontier of a project: pushes and check results as GitHub  *)
(* makes them, their deliveries as they reach the engine (late, lost, in   *)
(* another order), the head a project tracks under its policy epoch, and   *)
(* which external results count.                                           *)
(*                                                                         *)
(* A delivery is taken once: the event log refuses a second one with the   *)
(* same id (EventLog).  A commit is a number; 0 is the zero SHA of a ref   *)
(* that does not exist.  One check name is required, unpinned; one active  *)
(* assumption may be hit by dependency drift.                              *)
(***************************************************************************)
EXTENDS Integers, FiniteSets, Sequences

CONSTANTS
    Refs,          \* branches of the remote
    Apps,          \* GitHub apps that report the required check
    Settings,      \* bounds: [refs, drifts, checks]: refs that move, what pushes show
                   \* of the dependency ("none", "cue", "named"), checks reported
    MaxCommits,    \* commits the remote ever makes
    MaxPushes,     \* moves of the remote's refs
    MaxRevisions,  \* epochs of the tracked ref
    Losable,       \* kinds of delivery that may be lost
    None

VARIABLES
    remote,        \* the remote's refs
    pushes,        \* pushes made so far, in order
    flight,        \* deliveries on their way
    policy,        \* [ref, rev, apps]: tracked_ref, its revision, trusted apps
    project,       \* [head, ref, rev, uncertain]: the stored frontier
    checks,        \* verification nodes, in delivery order
    drift,         \* [alive, notices]: the assumption, and its notices by push
    newest,        \* the newest tracked push delivered in this epoch, or None
    shuffled,      \* a push of the tracked ref was delivered before an earlier one
    cued,          \* pushes taken in order that hinted at the live assumption
    ruled,         \* passes a person let stand again after a failure
    setting        \* the bounds of this behaviour

vars == <<remote, pushes, flight, policy, project, checks, drift, newest, shuffled, cued, ruled,
          setting>>

Remotes == <<remote, pushes>>

\* A push as GitHub reports it.
PushRecord ==
    [kind: {"push"}, no: Nat, ref: Refs, before: Nat, after: Nat, forced: BOOLEAN,
     drift: {"none", "cue", "named"}]

(* ------------------------------ the remote ------------------------------ *)

Commits == {pushes[i].after : i \in DOMAIN pushes} \ {0}

Pushed(ref, after, forced, hit) ==
    LET p == [kind |-> "push", no |-> Len(pushes) + 1, ref |-> ref, before |-> remote[ref],
              after |-> after, forced |-> forced, drift |-> hit]
    IN  /\ remote' = [remote EXCEPT ![ref] = after]
        /\ pushes' = Append(pushes, p)
        /\ flight' = flight \cup {p}

\* Somebody pushes: a new commit, a forced move to any commit, or a deletion.
Push(ref) ==
    /\ Len(pushes) < MaxPushes
    /\ \/ /\ Cardinality(Commits) < MaxCommits
          /\ \E hit \in setting.drifts : Pushed(ref, Cardinality(Commits) + 1, FALSE, hit)
       \/ remote[ref] # 0 /\ \E sha \in Commits \ {remote[ref]} : Pushed(ref, sha, TRUE, "none")
       \/ remote[ref] # 0 /\ Pushed(ref, 0, FALSE, "none")
    /\ UNCHANGED <<policy, project, checks, drift, newest, shuffled, cued, ruled>>

CheckInFlight(d) == d.kind = "check"

\* An app finishes the check on a commit.
Report(sha, app, conclusion) ==
    /\ Len(checks) + Cardinality({d \in flight : CheckInFlight(d)}) < setting.checks
    /\ flight' = flight \cup {[kind |-> "check", sha |-> sha, app |-> app,
                               conclusion |-> conclusion]}
    /\ UNCHANGED <<Remotes, policy, project, checks, drift, newest, shuffled, cued, ruled>>

Lose(d) ==
    /\ d.kind \in Losable
    /\ flight' = flight \ {d}
    /\ UNCHANGED <<Remotes, policy, project, checks, drift, newest, shuffled, cued, ruled>>

(* ------------------------------ the policy ------------------------------ *)

\* set_project_config with another tracked_ref starts a new epoch of the ref.
SetTrackedRef(ref) ==
    /\ ref # policy.ref /\ policy.rev < MaxRevisions
    /\ policy' = [policy EXCEPT !.ref = ref, !.rev = @ + 1]
    /\ newest' = None /\ shuffled' = FALSE
    /\ UNCHANGED <<Remotes, flight, project, checks, drift, cued, ruled>>

SetTrusted(app) ==
    /\ policy' = [policy EXCEPT !.apps = IF app \in @ THEN @ \ {app} ELSE @ \cup {app}]
    /\ UNCHANGED <<Remotes, flight, project, checks, drift, newest, shuffled, cued, ruled>>

\* Bug: the SHA of an earlier epoch of the same ref is taken for this one's.
MutMatchesPolicy == policy.ref # None /\ project.ref = policy.ref

\* The stored frontier was observed in the policy's present epoch.
MatchesPolicy ==
    policy.ref # None /\ project.ref = policy.ref /\ project.rev = policy.rev

\* Policy.tracked_ref_frontier: the SHA external results are held against.  The
\* project has a repository, so a frontier of another epoch is uncertain.
TrackedRefFrontier ==
    LET head == IF MatchesPolicy THEN project.head ELSE None
        uncertain == MatchesPolicy => project.uncertain
    IN  [head |-> head, uncertain |-> uncertain,
         trusted |-> IF uncertain THEN None ELSE head]

Trusted == TrackedRefFrontier.trusted

\* Policy.external_verifier_trusted
ExternalVerifierTrusted(app) == app \in policy.apps

(* ------------------------------ deliveries ------------------------------ *)

\* The head a push is compared with: only one stored in this epoch.
ComparedHead ==
    IF project.ref = policy.ref /\ project.rev = policy.rev THEN project.head ELSE None

\* Neither end of the move is the known head.
OutOfOrder(p) ==
    /\ ComparedHead # None
    /\ p.before # ComparedHead /\ p.after # ComparedHead
    /\ ~p.forced

\* The frontier after a push of the tracked ref: left alone but doubted, or moved.
FrontierAfter(p) ==
    IF OutOfOrder(p) THEN [project EXCEPT !.uncertain = TRUE]
    ELSE [head |-> IF p.after = 0 THEN None ELSE p.after, ref |-> policy.ref,
          rev |-> policy.rev, uncertain |-> p.after = 0]

\* A pass describes one revision: moving the ref stales every pass of another.
StaledBy(p) ==
    IF OutOfOrder(p) THEN checks
    ELSE [i \in DOMAIN checks |->
            IF checks[i].status = "passed" /\ checks[i].sha # p.after
            THEN [checks[i] EXCEPT !.status = "stale"] ELSE checks[i]]

PushKey(p) == <<p.ref, p.after>>

\* Bug: an answered notice stands for every later push.
MutNoticed(p) == IF DOMAIN drift.notices # {} THEN drift
                 ELSE [drift EXCEPT !.notices = [k \in {PushKey(p)} |-> "pending"]]

\* One notice for the assumption and the push: an earlier answer mutes no other.
Noticed(p) ==
    IF PushKey(p) \in DOMAIN drift.notices THEN drift
    ELSE [drift EXCEPT !.notices = [k \in DOMAIN @ \cup {PushKey(p)} |->
                                        IF k \in DOMAIN @ THEN @[k] ELSE "pending"]]

\* A changed manifest: the dependency is named, or only hinted at, or neither.
DriftAfter(p) ==
    IF OutOfOrder(p) \/ ~drift.alive \/ p.drift = "none" THEN drift
    ELSE IF p.drift = "named" THEN [drift EXCEPT !.alive = FALSE]
    ELSE Noticed(p)

Earlier(p) == {d \in flight : d.kind = "push" /\ d.ref = p.ref /\ d.no < p.no}

\* _process_push
DeliverPush(p) ==
    /\ p.kind = "push"
    /\ flight' = flight \ {p}
    /\ IF p.ref # policy.ref
       THEN UNCHANGED <<project, checks, drift, newest, shuffled, cued>>
       ELSE /\ project' = FrontierAfter(p)
            /\ checks' = StaledBy(p)
            /\ drift' = DriftAfter(p)
            /\ newest' = IF newest = None \/ p.no >= newest.no THEN p ELSE newest
            /\ shuffled' = (shuffled \/ Earlier(p) # {})
            /\ cued' = IF drift.alive /\ p.drift = "cue" /\ ~OutOfOrder(p)
                       THEN cued \cup {PushKey(p)} ELSE cued
    /\ UNCHANGED <<Remotes, policy, ruled>>

\* Result by conclusion; only these two change what counts.
Result(conclusion) ==
    CASE conclusion = "success" -> "passed"
      [] conclusion = "failure" -> "failed"
      [] OTHER -> "inconclusive"

\* Bug: only passes of the failing revision are invalidated.
MutWithdrawn(d) == {i \in DOMAIN checks : /\ checks[i].status = "passed"
                                          /\ checks[i].authoritative
                                          /\ checks[i].sha # d.sha
                                          /\ Result(d.conclusion) = "failed"
                                          /\ ExternalVerifierTrusted(d.app)}

\* A failed trusted check invalidates the trusted passes before it.
Withdrawn(d) ==
    {i \in DOMAIN checks : /\ checks[i].status = "passed" /\ checks[i].authoritative
                           /\ Result(d.conclusion) = "failed"
                           /\ ExternalVerifierTrusted(d.app)}

\* _process_check
DeliverCheck(d) ==
    /\ d.kind = "check"
    /\ flight' = flight \ {d}
    /\ checks' = Append([i \in DOMAIN checks |->
                            IF i \in Withdrawn(d)
                            THEN [checks[i] EXCEPT !.status = "invalidated"] ELSE checks[i]],
                        [sha |-> d.sha, app |-> d.app, status |-> Result(d.conclusion),
                         authoritative |-> ExternalVerifierTrusted(d.app)])
    /\ UNCHANGED <<Remotes, policy, project, drift, newest, shuffled, cued, ruled>>

(* ------------------------------ the person ------------------------------ *)

\* A notice is confirmed, which withdraws the assumption, or rejected.
Rule(k, accept) ==
    /\ k \in DOMAIN drift.notices /\ drift.notices[k] = "pending"
    /\ drift' = [alive |-> drift.alive /\ ~accept,
                 notices |-> [drift.notices EXCEPT ![k] = IF accept THEN "open" ELSE "rejected"]]
    /\ UNCHANGED <<Remotes, flight, policy, project, checks, newest, shuffled, cued, ruled>>

\* The invalidation of a withdrawn pass is resolved: the pass stands again.
Restore(i) ==
    /\ checks[i].status = "invalidated"
    /\ checks' = [checks EXCEPT ![i].status = "passed"]
    /\ ruled' = ruled \cup {i}
    /\ UNCHANGED <<Remotes, flight, policy, project, drift, newest, shuffled, cued>>

(* ----------------------------- what counts ------------------------------ *)

\* _trust.satisfies: a pass of a producer trusted now, of the trusted head.
Satisfies(c) ==
    /\ c.status = "passed"
    /\ ExternalVerifierTrusted(c.app)
    /\ Trusted # None /\ c.sha = Trusted

\* The passes that satisfy the required check.
Counted == {i \in DOMAIN checks : Satisfies(checks[i])}

(* ----------------------------- specification ---------------------------- *)

Init ==
    /\ remote = [ref \in Refs |-> 0]
    /\ pushes = << >> /\ flight = {}
    /\ setting \in Settings
    /\ policy \in [ref : setting.refs, rev : {1}, apps : {Apps, {}}]
    /\ project = [head |-> None, ref |-> None, rev |-> 0, uncertain |-> FALSE]
    /\ checks = << >>
    /\ drift = [alive |-> TRUE, notices |-> << >>]
    /\ newest = None /\ shuffled = FALSE /\ cued = {} /\ ruled = {}

Next ==
    /\ \/ \E ref \in setting.refs : Push(ref)
       \/ \E sha \in Commits, app \in Apps, c \in {"success", "failure", "cancelled"} :
            Report(sha, app, c)
       \/ \E d \in flight : Lose(d) \/ DeliverPush(d) \/ DeliverCheck(d)
       \/ \E ref \in setting.refs \cup {None} : SetTrackedRef(ref)
       \/ \E app \in Apps : SetTrusted(app)
       \/ \E k \in DOMAIN drift.notices, accept \in BOOLEAN : Rule(k, accept)
       \/ \E i \in DOMAIN checks : Restore(i)
    /\ UNCHANGED setting

Spec == Init /\ [][Next]_vars

(* ------------------------------ properties ------------------------------ *)

\* tracked_ref_frontier, _process_push: as long as pushes of the tracked ref
\* arrive in order, though some never arrive, the head that external results
\* are held against is where the newest of this policy epoch left the ref.
HeadFollowsRef ==
    (~shuffled /\ Trusted # None) => (newest # None /\ Trusted = newest.after)

\* _process_check: a pass that counts has no later failure of the check, when
\* the producers of both were trusted as they arrived, unless a person resolved
\* the invalidation that failure raised.
FailureWithdraws ==
    \A i \in Counted : \A j \in DOMAIN checks :
        (i < j /\ checks[i].authoritative /\ checks[j].authoritative
              /\ checks[j].status = "failed") => i \in ruled

\* _process_push: every revision that hinted at the dependency has a notice of
\* its own, whatever was answered to the notices of other pushes.
NoticePerRevision == cued \subseteq DOMAIN drift.notices

\* What pushes and checks leave is what their deliveries said.
FrontierExact == HeadFollowsRef /\ FailureWithdraws /\ NoticePerRevision

\* README.md:659 "An external pass is current only for the present tracked-ref
\* head", receiving pushes out of order "fails closed".  Said of the moment when
\* every push of the ref has been delivered: the trusted head is the ref's.
HeadIsPresent ==
    (Trusted # None /\ ~\E d \in flight : d.kind = "push" /\ d.ref = policy.ref)
        => Trusted = remote[policy.ref]

\* engine.py:3522 "Failed check invalidates prior passing verification of the
\* same verifier": no pass counts after a failure by a producer trusted now.
FailureAnswered ==
    \A i \in Counted : \A j \in DOMAIN checks :
        (i < j /\ checks[j].sha = checks[i].sha /\ checks[j].status = "failed"
              /\ checks[j].authoritative) => i \in ruled
=============================================================================
