----------------------------- MODULE Admission ------------------------------
(***************************************************************************)
(* What comes into the engine: failures to learn from (Learning, extended  *)
(* here), database files that are opened, source revisions and human       *)
(* decisions, pushes and checks of the tracked repository.  The parts      *)
(* share no state.  In a behaviour one of them moves and the others rest   *)
(* in an initial state, so that every behaviour is one of each part.       *)
(***************************************************************************)
EXTENDS Learning

CONSTANTS
    Openers, Tenants, Events, Tasks, Proofs, Files,                     \* StoreOpen
    Scenarios, KindOf, Opposites,                                       \* Authority
    Refs, Apps, Settings, MaxCommits, MaxPushes, MaxRevisions, Losable  \* Frontier

VARIABLES
    part,                                                   \* the part that moves
    file, pc, tenant,                                       \* StoreOpen
    log, swept, admitted, claims, nodes, notices, within,   \* Authority
    remote, pushes, flight, policy, project, checks, drift, \* Frontier
    newest, shuffled, cued, ruled, setting

Open == INSTANCE StoreOpen
Auth == INSTANCE Authority
Front == INSTANCE Frontier

openVars == <<file, pc, tenant>>
authVars == <<log, swept, admitted, claims, nodes, notices, within>>
frontVars == <<remote, pushes, flight, policy, project, checks, drift, newest, shuffled, cued,
               ruled, setting>>

all == <<part, vars, openVars, authVars, frontVars>>

ASSUME ConnectionsOK == None \notin Connections

\* The database files are what releases of the program left.
ASSUME FilesOK == Tenants # {} /\ \A f \in Files : Open!FileOK(f)

\* An edit is of some revision of its field and trusted or not; what negates one
\* another is a requirement and a constraint.
ASSUME ScenariosOK ==
    /\ \A s \in Scenarios : \A e \in s.edits :
          e # None /\ e.rev \in Nat /\ e.strong \in BOOLEAN /\ e.poison \in BOOLEAN
    /\ \A o \in Opposites : \E t, u \in o :
          o = {t, u} /\ KindOf[t] = "requirement" /\ KindOf[u] = "constraint"

\* The bounds of the tracked repository, and a value for what is missing.
ASSUME SettingsOK ==
    /\ Settings \subseteq [refs: SUBSET Refs, drifts: SUBSET {"none", "cue", "named"},
                           checks: Nat]
    /\ None \notin Refs \cup Nat
    /\ None \notin Front!PushRecord

\* A part that does not move rests in one of its initial states.
AdmissionInit ==
    /\ part \in {"learning", "open", "authority", "frontier"}
    /\ Init /\ Open!Init /\ Auth!Init /\ Front!Init
    /\ part # "open" => file = CHOOSE f \in Files : TRUE
    /\ part # "authority" => within = CHOOSE s \in Scenarios : TRUE
    /\ part # "frontier" =>
          /\ setting = CHOOSE s \in Settings : TRUE
          /\ policy = CHOOSE p \in [ref: setting.refs, rev: {1}, apps: {Apps, {}}] : TRUE

AdmissionNext ==
    /\ \/ part = "learning" /\ Next /\ UNCHANGED <<openVars, authVars, frontVars>>
       \/ part = "open" /\ Open!Next /\ UNCHANGED <<vars, authVars, frontVars>>
       \/ part = "authority" /\ Auth!Next /\ UNCHANGED <<vars, openVars, frontVars>>
       \/ part = "frontier" /\ Front!Next /\ UNCHANGED <<vars, openVars, authVars>>
    /\ UNCHANGED part

AdmissionSpec == AdmissionInit /\ [][AdmissionNext]_all

(* ------------------------------ properties ------------------------------ *)

\* Engine.__init__: an opener that is through finds everything installed, the file
\* stays one that can be opened, and no proof completes two tasks.
OpensSafely == Open!OpensSafely

\* record_authority_decision, _applicable_obligations: what binds is what people
\* decided, each decision once, and contradictions reach the owner.
AuthorityExact == Auth!AuthorityExact

\* _authority_state: withdrawn authority never comes back by itself.
AuthorityNeverRevives == [][Auth!AuthorityNeverRevives]_authVars

\* _process_push, _process_check: the trusted head follows the ref, a failure
\* withdraws the passes before it, each push has its own drift notice.
FrontierExact == Front!FrontierExact
=============================================================================
