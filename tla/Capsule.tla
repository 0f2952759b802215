------------------------------ MODULE Capsule -------------------------------
(***************************************************************************)
(* Capsules: a signed portable snapshot of a project, exported in one      *)
(* transaction, validated by the importing runtime outside any             *)
(* transaction, and then challenged against the live project in the        *)
(* transaction that creates the migrated session.  Between the export, the *)
(* validation and the import the project goes on changing, other runtimes  *)
(* import the same capsule, and the capsule may be damaged on its way.     *)
(*                                                                         *)
(* A write to the graph or to the policy makes a new version, so the state *)
(* basis of a packet (engine.py _packet_control_basis) changes with every  *)
(* write; the bytes of the deliverable are the part of it that can return  *)
(* to an earlier value.                                                    *)
(***************************************************************************)
EXTENDS Integers, FiniteSets, Sequences, SequencesExt

CONSTANTS
    Assumptions,    \* ids of assumption nodes
    Invalidations,  \* ids of invalidation nodes
    Verifiers,      \* verifiers the project's policy requires
    Importers,      \* runtimes importing capsules concurrently
    Keys,           \* signing keys the engine may be opened with
    MaxWrites,      \* writes to the project that are not imports
    MaxCapsules,    \* capsules exported
    MaxImports,     \* sessions created by imports
    MaxDamage,      \* capsules damaged on their way
    None

VARIABLES
    live,        \* the project
    downgrades,  \* its autonomy downgrades: active or cleared, in order
    sessions,    \* sessions created by imports, in order
    key,         \* the key of the importing engine's signer
    transit,     \* capsules that can be presented for import
    exported,    \* capsules as they left the exporter
    pending      \* importer -> the capsule it validated, or None

vars == <<live, downgrades, sessions, key, transit, exported, pending>>

Standing == {"absent", "solid", "low", "unmeasured", "uncertain"}
Granted == 3      \* the level the operator granted

(* ------------------------------- the project ---------------------------- *)

\* active_downgrade_ceiling and effective_level.
EffectiveLevel(d) == IF "active" \in ToSet(d) THEN 1 ELSE Granted

\* Bug: sessions are left out of the commitment as bookkeeping.
MutStateBasis == [project |-> live, downgrades |-> downgrades, sessions |-> 0]

\* _packet_state_basis: sessions are graph nodes and downgrades policy rows.
StateBasis == [project |-> live, downgrades |-> downgrades, sessions |-> Len(sessions)]

Write(change) ==
    /\ live.writes < MaxWrites
    /\ live' = [change EXCEPT !.writes = @ + 1]
    /\ UNCHANGED <<sessions, key, transit, exported, pending>>

Assume(a, s) ==
    /\ s # live.assumptions[a]
    /\ Write([live EXCEPT !.assumptions[a] = s])
    /\ UNCHANGED downgrades

\* A major invalidation also downgrades the project.
Open(i, major) ==
    /\ i \notin live.open
    /\ Write([live EXCEPT !.open = @ \cup {i}])
    /\ downgrades' = IF major THEN Append(downgrades, "active") ELSE downgrades

Close(i) ==
    /\ i \in live.open
    /\ Write([live EXCEPT !.open = @ \ {i}])
    /\ UNCHANGED downgrades

\* A required verifier passes, or its result stops counting.
Verify(v) ==
    /\ Write([live EXCEPT !.gaps = IF v \in @ THEN @ \ {v} ELSE @ \cup {v}])
    /\ UNCHANGED downgrades

Fingerprint ==
    /\ ~live.environment
    /\ Write([live EXCEPT !.environment = TRUE])
    /\ UNCHANGED downgrades

\* The deliverable is edited, or edited back; nothing is written.
EditFile ==
    /\ live' = [live EXCEPT !.file = 1 - @]
    /\ UNCHANGED <<downgrades, sessions, key, transit, exported, pending>>

ClearDowngrades ==
    /\ "active" \in ToSet(downgrades)
    /\ downgrades' = [n \in DOMAIN downgrades |-> "cleared"]
    /\ UNCHANGED <<live, sessions, key, transit, exported, pending>>

(* -------------------------------- export -------------------------------- *)

\* compose, _observable_state, digest and signature in one transaction.
Export ==
    /\ Cardinality(exported) < MaxCapsules
    /\ LET content == [id |-> Cardinality(exported) + 1,
                       assumptions |-> live.assumptions, open |-> live.open,
                       gaps |-> live.gaps, basis |-> StateBasis]
           c == [content |-> content, signature |-> [key |-> key, over |-> content]]
       IN /\ exported' = exported \cup {c}
          /\ transit' = transit \cup {c}
    /\ UNCHANGED <<live, downgrades, sessions, key, pending>>

\* On its way a capsule loses a warning it carried.
Damage ==
    /\ Cardinality(transit \ exported) < MaxDamage
    /\ \E c \in exported :
        /\ c.content.open # {} \/ c.content.gaps # {}
        /\ transit' = transit \cup {[c EXCEPT !.content.open = {}, !.content.gaps = {}]}
    /\ UNCHANGED <<live, downgrades, sessions, key, exported, pending>>

RotateKey ==
    /\ \E k \in Keys \ {key} : key' = k
    /\ exported # {}
    /\ pending = [i \in Importers |-> None]
    /\ UNCHANGED <<live, downgrades, sessions, transit, exported, pending>>

(* -------------------------------- import -------------------------------- *)

\* Bug: the digest is compared, the producer is not authenticated.
MutValidate(c, k) == c.signature.over.id = c.content.id

\* validate: the digest covers the content and the signature is the signer's.
Validate(c, k) == c.signature = [key |-> k, over |-> c.content]

Present(i) ==
    /\ pending[i] = None
    /\ Len(sessions) < MaxImports
    /\ \E c \in transit :
        /\ Validate(c, key)
        /\ pending' = [pending EXCEPT ![i] = [capsule |-> c.content, basis |-> StateBasis]]
    /\ UNCHANGED <<live, downgrades, sessions, key, transit, exported>>

\* Bug: an assumption the target no longer holds takes its warning with it.
MutMerged(c) == live.assumptions

\* The live standing wins; what only the source knows is kept.
Merged(c) ==
    [a \in Assumptions |->
        IF live.assumptions[a] # "absent" THEN live.assumptions[a] ELSE c.assumptions[a]]

Doubted(assumptions) == {a \in Assumptions : assumptions[a] \in {"low", "unmeasured", "uncertain"}}

\* challenge: everything that raises a question.
Questions(assumptions, open, gaps, environment) ==
    ({"assumption"} \X Doubted(assumptions)) \cup ({"invalidation"} \X open)
    \cup ({"gap"} \X gaps) \cup (IF environment THEN {} ELSE {<<"environment", "missing">>})

\* Bug: the target as it was when the capsule was validated.
MutDrift(p) == IF p.capsule.basis # p.basis THEN {<<"target", "drift">>} ELSE {}

\* The target as it is in the importing transaction.
Drift(p) == IF p.capsule.basis # StateBasis THEN {<<"target", "drift">>} ELSE {}

\* _challenge_against_live_target.
Challenge(p) ==
    Questions(Merged(p.capsule), p.capsule.open \cup live.open,
              p.capsule.gaps \cup live.gaps, live.environment)
    \cup Drift(p)

\* Bug: a challenge that passes lifts the downgrades standing before it.
MutDowngradesAfter(questions) ==
    IF questions = {} THEN [n \in DOMAIN downgrades |-> "cleared"]
    ELSE Append(downgrades, "active")

DowngradesAfter(questions) ==
    IF questions = {} THEN downgrades ELSE Append(downgrades, "active")

\* import_capsule: challenge, session, downgrade and audit in one transaction.
Import(i) ==
    /\ pending[i] # None
    /\ Len(sessions) < MaxImports
    /\ LET q == Challenge(pending[i])
       IN /\ sessions' = Append(sessions, [capsule |-> pending[i].capsule, questions |-> q])
          /\ downgrades' = DowngradesAfter(q)
    /\ pending' = [pending EXCEPT ![i] = None]
    /\ UNCHANGED <<live, key, transit, exported>>

(* ----------------------------- specification ---------------------------- *)

Init ==
    /\ \E environment \in BOOLEAN :
        live = [assumptions |-> [a \in Assumptions |-> "solid"], open |-> {}, gaps |-> {},
                environment |-> environment, file |-> 0, writes |-> 0]
    /\ downgrades = <<>>
    /\ sessions = <<>>
    /\ key \in Keys
    /\ transit = {}
    /\ exported = {}
    /\ pending = [i \in Importers |-> None]

Next ==
    \/ \E a \in Assumptions, s \in Standing : Assume(a, s)
    \/ \E i \in Invalidations, major \in BOOLEAN : Open(i, major)
    \/ \E i \in Invalidations : Close(i)
    \/ \E v \in Verifiers : Verify(v)
    \/ Fingerprint
    \/ EditFile
    \/ ClearDowngrades
    \/ Export
    \/ Damage
    \/ RotateKey
    \/ \E i \in Importers : Present(i)
    \/ \E i \in Importers : Import(i)

Spec == Init /\ [][Next]_vars

(* ------------------------------ properties ------------------------------ *)

Passed(s) == s.questions = {}

\* Nothing in the project asks for a human's attention.
Quiet(p) ==
    /\ p.open = {} /\ p.gaps = {} /\ p.environment
    /\ \A a \in Assumptions : p.assumptions[a] \in {"absent", "solid"}

\* A capsule that changed on its way, or another key's, never becomes a
\* session: every migrated session descends from an export
\* (capsule.py validate before import_capsule).
SessionsDescend ==
    \A n \in DOMAIN sessions : \E c \in exported : c.content = sessions[n].capsule

\* A capsule restores autonomy at most once, whoever imports it and however
\* often: the session the first import creates is itself a change of the
\* target (capsule.py import_capsule, two concurrent imports included).
RestoresOnce ==
    \A m, n \in DOMAIN sessions :
        Passed(sessions[m]) /\ Passed(sessions[n])
            /\ sessions[m].capsule.id = sessions[n].capsule.id => m = n

\* A session starts unrestricted only in a project that is, at that very
\* step, what was exported, with nothing open, missing or doubted; a change
\* between validation and import is seen (capsule.py:1060).
UnrestrictedOnlyUnchanged ==
    Len(sessions') > Len(sessions) /\ Passed(Last(sessions')) =>
        /\ Quiet(live)
        /\ \E c \in exported :
            /\ c.content.id = Last(sessions').capsule.id
            /\ c.content.basis.project = live
            /\ c.content.basis.downgrades = downgrades

\* Migration erases no warning: what was open, missing or doubted at the
\* export is asked about, unless the live project vouches for the
\* assumption, and so is everything open, missing or doubted now.
WarningsSurvive ==
    Len(sessions') > Len(sessions) =>
        LET s == Last(sessions')
            source == s.capsule.basis.project
        IN /\ {"invalidation"} \X (source.open \cup live.open) \subseteq s.questions
           /\ {"gap"} \X (source.gaps \cup live.gaps) \subseteq s.questions
           /\ \A a \in Doubted(source.assumptions) :
                live.assumptions[a] = "solid" \/ <<"assumption", a>> \in s.questions
           /\ {"assumption"} \X Doubted(live.assumptions) \subseteq s.questions

\* The autonomy level rises only when a human clears the downgrades: no
\* import, passing or not, lifts the restriction another event imposed.
OnlyHumansRaise ==
    EffectiveLevel(downgrades') > EffectiveLevel(downgrades) => sessions' = sessions /\ live' = live

\* Every migrated session has its capsule, and a capsule restores once
\* (capsule.py import_capsule).
CapsulesDescend == SessionsDescend /\ RestoresOnce

Challenged == UnrestrictedOnlyUnchanged /\ WarningsSurvive /\ OnlyHumansRaise

\* An import is challenged by the project as it is, and lifts no restriction:
\* unrestricted only when nothing moved since the export, no warning is lost on
\* the way, and only people raise autonomy (import_capsule, downgrade).
ImportsChallenged == [][Challenged]_vars
=============================================================================
