-------------------------- MODULE DocumentsProofs ---------------------------
(***************************************************************************)
(* What the engine vouches for, proved for any project, and any number of  *)
(* capsules, importers, keys, writes, checks, files, log entries and       *)
(* receipts.                                                               *)
(*                                                                         *)
(*  - Capsules: a session that passes its challenge was challenged against *)
(*    the state its capsule commits to, the number of sessions included;   *)
(*    creating the session changes that number, so the same capsule never  *)
(*    passes again.                                                        *)
(*  - Grades: while nobody edits the tree, every file that the plan of     *)
(*    mutations is through with was destroyed in front of a check that may *)
(*    notice it, or the probe has recorded that nobody noticed.            *)
(*  - Receipts: an entry is written once, so in whatever backups, restored *)
(*    stores and receipts two logs live on, an entry they share has the    *)
(*    same place and the same entries before it: equal tips, equal logs.   *)
(***************************************************************************)
EXTENDS Documents, FiniteSetTheorems, SequenceTheorems, TLAPS

(* ------------------------------- capsules ------------------------------- *)

Project == [assumptions: [Assumptions -> Standing], open: SUBSET Invalidations,
            gaps: SUBSET Verifiers, environment: BOOLEAN, file: {0, 1}, writes: Nat]
Levels == Seq({"active", "cleared"})
Content == [id: Nat, assumptions: [Assumptions -> Standing], open: SUBSET Invalidations,
            gaps: SUBSET Verifiers,
            basis: [project: Project, downgrades: Levels, sessions: Nat]]
Questioned == {"assumption", "invalidation", "gap", "environment", "target"}
                  \X (Assumptions \cup Invalidations \cup Verifiers \cup {"missing", "drift"})

TypeOK ==
    /\ live \in Project
    /\ downgrades \in Levels
    /\ sessions \in Seq([capsule: Content, questions: SUBSET Questioned])
    /\ DOMAIN pending = Importers

\* What leaves the exporter is signed as it is, numbered, and says of the
\* project what its commitment says.
ExportOK(c) ==
    /\ c = [content |-> c.content, signature |-> c.signature]
    /\ c.content \in Content
    /\ c.content.id <= Cardinality(exported)
    /\ c.signature.over = c.content
    /\ c.content.assumptions = c.content.basis.project.assumptions
    /\ c.content.open = c.content.basis.project.open
    /\ c.content.gaps = c.content.basis.project.gaps

\* Capsule numbers are not used twice.
ExportsOK ==
    /\ IsFiniteSet(exported)
    /\ \A c \in exported : ExportOK(c)
    /\ \A c, d \in exported : c.content.id = d.content.id => c = d

\* Whatever happens to a capsule on its way, its signature is of an export.
TransitOK == \A c \in transit : \E d \in exported : c.signature = d.signature

\* An importer that validated a capsule holds what was exported.
PendingOK ==
    \A i \in Importers : pending[i] # None =>
        \E c \in exported : c.content = pending[i].capsule

\* A session that passed found as many sessions as its capsule had seen.
PassedOK ==
    \A n \in DOMAIN sessions :
        Passed(sessions[n]) => sessions[n].capsule.basis.sessions = n - 1

IInv == TypeOK /\ ExportsOK /\ TransitOK /\ PendingOK /\ SessionsDescend /\ PassedOK

-----------------------------------------------------------------------------
\* What appending to a sequence of the database does.
LEMMA Appended ==
    ASSUME NEW S, NEW s \in Seq(S), NEW e \in S
    PROVE  /\ Append(s, e) \in Seq(S)
           /\ DOMAIN s = 1..Len(s) /\ Len(s) \in Nat
           /\ DOMAIN Append(s, e) = 1..(Len(s) + 1)
           /\ Len(Append(s, e)) = Len(s) + 1
           /\ \A n \in DOMAIN s : Append(s, e)[n] = s[n]
           /\ Append(s, e)[Len(s) + 1] = e
  BY AppendProperties, LenProperties

LEMMA InitInv == Init => IInv
  <1> SUFFICES ASSUME Init PROVE IInv
    OBVIOUS
  <1>1. live \in Project /\ downgrades \in Levels /\ DOMAIN pending = Importers
    BY DEF Init, Project, Levels, Standing
  <1>2. sessions \in Seq([capsule: Content, questions: SUBSET Questioned])
        /\ DOMAIN sessions = {}
    BY DEF Init
  <1>3. ExportsOK /\ TransitOK /\ PendingOK
    BY FS_EmptySet DEF Init, ExportsOK, TransitOK, PendingOK
  <1> QED BY <1>1, <1>2, <1>3 DEF IInv, TypeOK, SessionsDescend, PassedOK

-----------------------------------------------------------------------------
(* Steps that neither export nor import.                                   *)

\* The steps that change the project or its downgrades.
ProjectStep ==
    \/ \E a \in Assumptions, s \in Standing : Assume(a, s)
    \/ \E i \in Invalidations, major \in BOOLEAN : Open(i, major)
    \/ \E i \in Invalidations : Close(i)
    \/ \E v \in Verifiers : Verify(v)
    \/ Fingerprint
    \/ EditFile
    \/ ClearDowngrades

\* A project that a step has changed is a project.
LEMMA ProjectStays ==
    ASSUME TypeOK, ProjectStep
    PROVE  live' \in Project /\ downgrades' \in Levels
  <1> USE DEF TypeOK
  <1>1. ASSUME NEW change \in Project, Write(change) PROVE live' \in Project
    BY <1>1 DEF Write, Project
  <1>2. Append(downgrades, "active") \in Levels
    BY Appended DEF Levels
  <1>3. [n \in DOMAIN downgrades |-> "cleared"] \in Levels
    BY DEF Levels
  <1>4. CASE \E a \in Assumptions, s \in Standing : Assume(a, s)
    <2>1. PICK a \in Assumptions, s \in Standing : Assume(a, s)
      BY <1>4
    <2>2. [live EXCEPT !.assumptions[a] = s] \in Project
      BY DEF Project
    <2> QED BY <2>1, <2>2, <1>1 DEF Assume
  <1>5. CASE \E i \in Invalidations, major \in BOOLEAN : Open(i, major)
    <2>1. PICK i \in Invalidations, major \in BOOLEAN : Open(i, major)
      BY <1>5
    <2>2. [live EXCEPT !.open = @ \cup {i}] \in Project
      BY DEF Project
    <2> QED BY <2>1, <2>2, <1>1, <1>2 DEF Open
  <1>6. CASE \E i \in Invalidations : Close(i)
    <2>1. PICK i \in Invalidations : Close(i)
      BY <1>6
    <2>2. [live EXCEPT !.open = @ \ {i}] \in Project
      BY DEF Project
    <2> QED BY <2>1, <2>2, <1>1 DEF Close
  <1>7. CASE \E v \in Verifiers : Verify(v)
    <2>1. PICK v \in Verifiers : Verify(v)
      BY <1>7
    <2>2. [live EXCEPT !.gaps = IF v \in @ THEN @ \ {v} ELSE @ \cup {v}] \in Project
      BY DEF Project
    <2> QED BY <2>1, <2>2, <1>1 DEF Verify
  <1>8. CASE Fingerprint
    <2>1. [live EXCEPT !.environment = TRUE] \in Project
      BY DEF Project
    <2> QED BY <1>8, <2>1, <1>1 DEF Fingerprint
  <1>9. CASE EditFile
    BY <1>9 DEF EditFile, Project
  <1>10. CASE ClearDowngrades
    BY <1>10, <1>3 DEF ClearDowngrades
  <1> QED BY <1>4, <1>5, <1>6, <1>7, <1>8, <1>9, <1>10 DEF ProjectStep

\* None of them touches a capsule or a session.
LEMMA ProjectStepKeepsRest ==
    ASSUME ProjectStep
    PROVE  UNCHANGED <<sessions, key, transit, exported, pending>>
  BY DEF ProjectStep, Assume, Open, Close, Verify, Fingerprint, EditFile, ClearDowngrades, Write

\* What was exported stays exported, and what refers to it stays true.
LEMMA KeepsCapsules ==
    ASSUME IInv, live' \in Project, downgrades' \in Levels,
           UNCHANGED <<sessions, exported>>, TransitOK', PendingOK', DOMAIN pending' = Importers
    PROVE  IInv'
  <1>1. TypeOK'
    BY DEF IInv, TypeOK
  <1>2. ExportsOK' /\ SessionsDescend' /\ PassedOK'
    BY DEF IInv, ExportsOK, ExportOK, SessionsDescend, PassedOK, Passed
  <1> QED BY <1>1, <1>2 DEF IInv

LEMMA ProjectStepKeeps ==
    ASSUME IInv, ProjectStep
    PROVE  IInv'
  <1>1. live' \in Project /\ downgrades' \in Levels
    BY ProjectStays DEF IInv
  <1>2. UNCHANGED <<sessions, key, transit, exported, pending>>
    BY ProjectStepKeepsRest
  <1>3. TransitOK' /\ PendingOK' /\ DOMAIN pending' = Importers
    BY <1>2 DEF IInv, TypeOK, TransitOK, PendingOK
  <1> QED BY <1>1, <1>2, <1>3, KeepsCapsules

\* A capsule that loses its warnings keeps its signature.
LEMMA DamageKeeps ==
    ASSUME IInv, Damage
    PROVE  IInv'
  <1>1. TransitOK'
    <2>1. PICK c \in exported :
              transit' = transit \cup {[c EXCEPT !.content.open = {}, !.content.gaps = {}]}
      BY DEF Damage
    <2>2. c = [content |-> c.content, signature |-> c.signature]
      BY DEF IInv, ExportsOK, ExportOK
    <2>3. [c EXCEPT !.content.open = {}, !.content.gaps = {}].signature = c.signature
      BY <2>2
    <2> QED BY <2>1, <2>3 DEF IInv, TransitOK, Damage
  <1>2. UNCHANGED <<live, downgrades, sessions, exported, pending>>
    BY DEF Damage
  <1>3. PendingOK' /\ DOMAIN pending' = Importers /\ live' \in Project /\ downgrades' \in Levels
    BY <1>2 DEF IInv, TypeOK, PendingOK
  <1> QED BY <1>1, <1>2, <1>3, KeepsCapsules

LEMMA RotateKeyKeeps ==
    ASSUME IInv, RotateKey
    PROVE  IInv'
  <1>1. UNCHANGED <<live, downgrades, sessions, transit, exported, pending>>
    BY DEF RotateKey
  <1>2. TransitOK' /\ PendingOK' /\ DOMAIN pending' = Importers
        /\ live' \in Project /\ downgrades' \in Levels
    BY <1>1 DEF IInv, TypeOK, TransitOK, PendingOK
  <1> QED BY <1>1, <1>2, KeepsCapsules

\* What is validated is what an exporter signed, so it is what was exported.
LEMMA PresentKeeps ==
    ASSUME IInv, NEW i \in Importers, Present(i)
    PROVE  IInv'
  <1>1. PICK c \in transit :
            /\ Validate(c, key)
            /\ pending' = [pending EXCEPT ![i] = [capsule |-> c.content, basis |-> StateBasis]]
    BY DEF Present
  <1>2. PICK d \in exported : c.signature = d.signature
    BY DEF IInv, TransitOK
  <1>3. d.content = c.content
    BY <1>1, <1>2 DEF Validate, IInv, ExportsOK, ExportOK
  <1>4. UNCHANGED <<live, downgrades, sessions, transit, exported>>
    BY DEF Present
  <1>5. PendingOK' /\ DOMAIN pending' = Importers
    BY <1>1, <1>3, <1>4 DEF IInv, TypeOK, PendingOK
  <1>6. TransitOK' /\ live' \in Project /\ downgrades' \in Levels
    BY <1>4 DEF IInv, TypeOK, TransitOK
  <1> QED BY <1>4, <1>5, <1>6, KeepsCapsules

-----------------------------------------------------------------------------
(* Export.                                                                 *)

LEMMA ExportKeeps ==
    ASSUME IInv, Export
    PROVE  IInv'
  <1>1. PICK c :
            /\ c.content = [id |-> Cardinality(exported) + 1,
                            assumptions |-> live.assumptions, open |-> live.open,
                            gaps |-> live.gaps, basis |-> StateBasis]
            /\ c = [content |-> c.content, signature |-> [key |-> key, over |-> c.content]]
            /\ exported' = exported \cup {c} /\ transit' = transit \cup {c}
            /\ UNCHANGED <<live, downgrades, sessions, key, pending>>
    <2> DEFINE content == [id |-> Cardinality(exported) + 1,
                           assumptions |-> live.assumptions, open |-> live.open,
                           gaps |-> live.gaps, basis |-> StateBasis]
               made == [content |-> content, signature |-> [key |-> key, over |-> content]]
    <2>1. /\ exported' = exported \cup {made} /\ transit' = transit \cup {made}
          /\ UNCHANGED <<live, downgrades, sessions, key, pending>>
      BY DEF Export
    <2>2. made.content = content
      OBVIOUS
    <2> HIDE DEF content
    <2>3. made = [content |-> made.content, signature |-> [key |-> key, over |-> made.content]]
      OBVIOUS
    <2> QED BY <2>1, <2>2, <2>3 DEF content
  <1>2. Cardinality(exported) \in Nat /\ IsFiniteSet(exported)
    BY FS_CardinalityType DEF IInv, ExportsOK
  <1>3. c.content \in Content
    <2>1. Len(sessions) \in Nat
      BY DEF IInv, TypeOK
    <2> QED BY <1>1, <1>2, <2>1 DEF IInv, TypeOK, Content, Project, StateBasis
  <1>4. c \notin exported
    BY <1>1, <1>2 DEF IInv, ExportsOK, ExportOK
  <1>5. IsFiniteSet(exported') /\ Cardinality(exported') = Cardinality(exported) + 1
    BY <1>1, <1>2, <1>4, FS_AddElement
  <1>6. ExportOK(c)'
    BY <1>1, <1>2, <1>3, <1>5 DEF ExportOK, StateBasis
  <1>7. \A d \in exported : ExportOK(d)' /\ d.content.id # c.content.id
    <2> SUFFICES ASSUME NEW d \in exported PROVE ExportOK(d)' /\ d.content.id # c.content.id
      OBVIOUS
    <2>1. ExportOK(d) /\ d.content.id \in Nat
      BY DEF IInv, ExportsOK, ExportOK, Content
    <2> QED BY <2>1, <1>1, <1>2, <1>5 DEF ExportOK
  <1>8. ExportsOK'
    BY <1>1, <1>5, <1>6, <1>7 DEF IInv, ExportsOK
  <1>9. TypeOK' /\ TransitOK' /\ PendingOK'
    BY <1>1 DEF IInv, TypeOK, TransitOK, PendingOK
  <1>10. SessionsDescend' /\ PassedOK'
    BY <1>1 DEF IInv, SessionsDescend, PassedOK, Passed
  <1> QED BY <1>8, <1>9, <1>10 DEF IInv

-----------------------------------------------------------------------------
(* Import.                                                                 *)

\* A challenge asks about what the capsule and the live project warn of.
LEMMA ChallengeAsks ==
    ASSUME TypeOK, NEW p, NEW c \in exported, ExportOK(c), p.capsule = c.content
    PROVE  /\ Challenge(p) \subseteq Questioned
           /\ {"invalidation"} \X (c.content.open \cup live.open) \subseteq Challenge(p)
           /\ {"gap"} \X (c.content.gaps \cup live.gaps) \subseteq Challenge(p)
           /\ {"assumption"} \X Doubted(Merged(c.content)) \subseteq Challenge(p)
           /\ ~live.environment => <<"environment", "missing">> \in Challenge(p)
           /\ c.content.basis # StateBasis => <<"target", "drift">> \in Challenge(p)
  <1> DEFINE open == c.content.open \cup live.open
             gaps == c.content.gaps \cup live.gaps
             doubted == Doubted(Merged(c.content))
             missing == IF live.environment THEN {} ELSE {<<"environment", "missing">>}
             drift == IF c.content.basis # StateBasis THEN {<<"target", "drift">>} ELSE {}
  <1>1. Challenge(p) = (({"assumption"} \X doubted) \cup ({"invalidation"} \X open)
                        \cup ({"gap"} \X gaps) \cup missing) \cup drift
    BY DEF Challenge, Questions, Drift
  <1>2. open \subseteq Invalidations /\ gaps \subseteq Verifiers /\ doubted \subseteq Assumptions
    BY DEF TypeOK, Project, ExportOK, Content, Doubted
  <1>3. ({"assumption"} \X doubted) \subseteq Questioned
    BY <1>2 DEF Questioned
  <1>4. ({"invalidation"} \X open) \subseteq Questioned /\ ({"gap"} \X gaps) \subseteq Questioned
    BY <1>2 DEF Questioned
  <1>5. missing \subseteq Questioned /\ drift \subseteq Questioned
    BY DEF Questioned
  <1> HIDE DEF open, gaps, doubted
  <1>6. Challenge(p) \subseteq Questioned
    BY <1>1, <1>3, <1>4, <1>5
  <1>7. ({"invalidation"} \X open) \subseteq Challenge(p) /\ ({"gap"} \X gaps) \subseteq Challenge(p)
        /\ ({"assumption"} \X doubted) \subseteq Challenge(p)
    BY <1>1
  <1>8. /\ ~live.environment => <<"environment", "missing">> \in Challenge(p)
        /\ c.content.basis # StateBasis => <<"target", "drift">> \in Challenge(p)
    BY <1>1
  <1> QED BY <1>6, <1>7, <1>8 DEF open, gaps, doubted

\* What an import appends.
LEMMA ImportAppends ==
    ASSUME IInv, NEW i \in Importers, Import(i)
    PROVE  \E c \in exported :
              LET q == Challenge(pending[i]) IN
              /\ ExportOK(c) /\ pending[i].capsule = c.content
              /\ sessions' = Append(sessions, [capsule |-> c.content, questions |-> q])
              /\ [capsule |-> c.content, questions |-> q]
                     \in [capsule: Content, questions: SUBSET Questioned]
              /\ downgrades' = DowngradesAfter(q)
              /\ q = {} => c.content.basis = StateBasis
  <1>1. PICK c \in exported : c.content = pending[i].capsule
    BY DEF Import, IInv, PendingOK
  <1>2. ExportOK(c) /\ TypeOK
    BY DEF IInv, ExportsOK
  <1> DEFINE q == Challenge(pending[i])
  <1>3. /\ q \subseteq Questioned
        /\ c.content.basis # StateBasis => <<"target", "drift">> \in q
    BY <1>1, <1>2, ChallengeAsks
  <1>4. /\ sessions' = Append(sessions, [capsule |-> c.content, questions |-> q])
        /\ downgrades' = DowngradesAfter(q)
    BY <1>1 DEF Import
  <1>5. c.content \in Content
    BY <1>2 DEF ExportOK
  <1> HIDE DEF q
  <1>6. [capsule |-> c.content, questions |-> q] \in [capsule: Content, questions: SUBSET Questioned]
    BY <1>3, <1>5
  <1>7. q = {} => c.content.basis = StateBasis
    BY <1>3
  <1> QED BY <1>1, <1>2, <1>4, <1>6, <1>7 DEF q

LEMMA ImportKeeps ==
    ASSUME IInv, NEW i \in Importers, Import(i)
    PROVE  IInv'
  <1> DEFINE Session == [capsule: Content, questions: SUBSET Questioned]
  <1>1. PICK c, q :
            /\ c \in exported /\ ExportOK(c)
            /\ sessions' = Append(sessions, [capsule |-> c.content, questions |-> q])
            /\ [capsule |-> c.content, questions |-> q] \in Session
            /\ downgrades' = DowngradesAfter(q)
            /\ q = {} => c.content.basis = StateBasis
    BY ImportAppends
  <1>2. sessions \in Seq(Session) /\ downgrades \in Levels /\ live \in Project
        /\ DOMAIN pending = Importers
    BY DEF IInv, TypeOK
  <1>3. UNCHANGED <<live, key, transit, exported>> /\ pending' = [pending EXCEPT ![i] = None]
    BY DEF Import
  <1> DEFINE s == [capsule |-> c.content, questions |-> q]
  <1>4. /\ sessions' \in Seq(Session) /\ Len(sessions) \in Nat
        /\ DOMAIN sessions = 1..Len(sessions) /\ DOMAIN sessions' = 1..(Len(sessions) + 1)
        /\ \A n \in DOMAIN sessions : sessions'[n] = sessions[n]
        /\ sessions'[Len(sessions) + 1] = s
    <2>1. s \in Session /\ sessions' = Append(sessions, s) /\ sessions \in Seq(Session)
      BY <1>1, <1>2
    <2> HIDE DEF s, Session
    <2> QED BY <2>1, Appended
  <1>5. downgrades' \in Levels
    <2>1. Append(downgrades, "active") \in Levels
      BY <1>2, Appended DEF Levels
    <2> QED BY <2>1, <1>1, <1>2 DEF DowngradesAfter
  <1>6. TypeOK'
    BY <1>2, <1>3, <1>4, <1>5 DEF TypeOK
  <1>7. ExportsOK' /\ TransitOK' /\ PendingOK'
    BY <1>2, <1>3 DEF IInv, ExportsOK, ExportOK, TransitOK, PendingOK
  <1>8. SessionsDescend'
    <2> SUFFICES ASSUME NEW n \in DOMAIN sessions'
                 PROVE  \E d \in exported : d.content = sessions'[n].capsule
      BY <1>3 DEF SessionsDescend
    <2>1. CASE n \in DOMAIN sessions
      BY <2>1, <1>4 DEF IInv, SessionsDescend
    <2>2. CASE n = Len(sessions) + 1
      BY <2>2, <1>1, <1>4
    <2> QED BY <2>1, <2>2, <1>4
  <1>9. PassedOK'
    <2> SUFFICES ASSUME NEW n \in DOMAIN sessions', sessions'[n].questions = {}
                 PROVE  sessions'[n].capsule.basis.sessions = n - 1
      BY DEF PassedOK, Passed
    <2>1. CASE n \in DOMAIN sessions
      BY <2>1, <1>4 DEF IInv, PassedOK, Passed
    <2>2. CASE n = Len(sessions) + 1
      BY <2>2, <1>1, <1>4 DEF StateBasis
    <2> QED BY <2>1, <2>2, <1>4
  <1> QED BY <1>6, <1>7, <1>8, <1>9 DEF IInv

-----------------------------------------------------------------------------
\* One case per action.
LEMMA NextCases ==
    ASSUME Next
    PROVE  \/ ProjectStep \/ Export \/ Damage \/ RotateKey
           \/ \E i \in Importers : Present(i)
           \/ \E i \in Importers : Import(i)
  BY DEF Next, ProjectStep

LEMMA NextInv == IInv /\ [Next]_vars => IInv'
  <1> SUFFICES ASSUME IInv, [Next]_vars PROVE IInv'
    OBVIOUS
  <1>1. CASE UNCHANGED vars
    <2>1. UNCHANGED <<live, downgrades, sessions, transit, exported, pending>>
      BY <1>1 DEF vars
    <2>2. TransitOK' /\ PendingOK' /\ DOMAIN pending' = Importers
          /\ live' \in Project /\ downgrades' \in Levels
      BY <2>1 DEF IInv, TypeOK, TransitOK, PendingOK
    <2> QED BY <2>1, <2>2, KeepsCapsules
  <1>2. CASE Next
    BY <1>2, NextCases, ProjectStepKeeps, ExportKeeps, DamageKeeps, RotateKeyKeeps,
       PresentKeeps, ImportKeeps
  <1> QED BY <1>1, <1>2

LEMMA Invariance == Spec => []IInv
  BY InitInv, NextInv, PTL DEF Spec

\* Every migrated session descends from a capsule as it was exported, and no
\* capsule restores autonomy twice, however many runtimes import it at once
\* (capsule.py validate, import_capsule).
THEOREM CapsulesAreSpentOnce == Spec => []CapsulesDescend
  <1>1. IInv => CapsulesDescend
    <2> SUFFICES ASSUME IInv PROVE RestoresOnce
      BY DEF CapsulesDescend, IInv
    <2> SUFFICES ASSUME NEW m \in DOMAIN sessions, NEW n \in DOMAIN sessions,
                        Passed(sessions[m]), Passed(sessions[n]),
                        sessions[m].capsule.id = sessions[n].capsule.id
                 PROVE  m = n
      BY DEF RestoresOnce
    <2>1. PICK c \in exported : c.content = sessions[m].capsule
      BY DEF IInv, SessionsDescend
    <2>2. PICK d \in exported : d.content = sessions[n].capsule
      BY DEF IInv, SessionsDescend
    <2>3. c = d
      BY <2>1, <2>2 DEF IInv, ExportsOK
    <2>4. m - 1 = n - 1
      BY <2>1, <2>2, <2>3 DEF IInv, PassedOK
    <2>5. m \in Nat /\ n \in Nat
      BY DEF IInv, TypeOK
    <2> QED BY <2>4, <2>5
  <1> QED BY <1>1, Invariance, PTL

-----------------------------------------------------------------------------
(* What an import may do.                                                  *)

\* Only an import creates a session.
LEMMA OnlyImportsCreate ==
    ASSUME IInv, Next, Len(sessions') > Len(sessions)
    PROVE  \E i \in Importers : Import(i)
  <1>1. sessions' # sessions
    BY DEF IInv, TypeOK
  <1>2. ProjectStep \/ Export \/ Damage \/ RotateKey \/ (\E i \in Importers : Present(i))
            => sessions' = sessions
    BY ProjectStepKeepsRest DEF Export, Damage, RotateKey, Present
  <1> QED BY <1>1, <1>2, NextCases

\* The session that an import creates, and what it was challenged with.
LEMMA ImportedSession ==
    ASSUME IInv, NEW i \in Importers, Import(i)
    PROVE  \E c \in exported :
              LET q == Challenge(pending[i]) IN
              /\ ExportOK(c) /\ pending[i].capsule = c.content
              /\ Last(sessions').capsule = c.content /\ Last(sessions').questions = q
              /\ downgrades' = DowngradesAfter(q)
  <1> DEFINE q == Challenge(pending[i])
             Session == [capsule: Content, questions: SUBSET Questioned]
  <1>1. PICK c \in exported :
            /\ ExportOK(c) /\ pending[i].capsule = c.content
            /\ sessions' = Append(sessions, [capsule |-> c.content, questions |-> q])
            /\ [capsule |-> c.content, questions |-> q] \in Session
            /\ downgrades' = DowngradesAfter(q)
    BY ImportAppends
  <1> DEFINE s == [capsule |-> c.content, questions |-> q]
  <1>2. s \in Session /\ sessions' = Append(sessions, s) /\ sessions \in Seq(Session)
    BY <1>1 DEF IInv, TypeOK
  <1>3. Last(sessions') = s
    <2> HIDE DEF s, Session
    <2> QED BY <1>2, Appended DEF Last
  <1> HIDE DEF q
  <1>4. Last(sessions').capsule = c.content /\ Last(sessions').questions = q
    BY <1>3
  <1> QED BY <1>1, <1>4 DEF q

LEMMA ImportChallenged ==
    ASSUME IInv, NEW i \in Importers, Import(i)
    PROVE  UnrestrictedOnlyUnchanged /\ WarningsSurvive
  <1> DEFINE q == Challenge(pending[i])
  <1>1. PICK c \in exported :
            /\ ExportOK(c) /\ pending[i].capsule = c.content
            /\ Last(sessions').capsule = c.content /\ Last(sessions').questions = q
    BY ImportedSession
  <1>2. /\ {"invalidation"} \X (c.content.open \cup live.open) \subseteq q
        /\ {"gap"} \X (c.content.gaps \cup live.gaps) \subseteq q
        /\ {"assumption"} \X Doubted(Merged(c.content)) \subseteq q
        /\ ~live.environment => <<"environment", "missing">> \in q
        /\ c.content.basis # StateBasis => <<"target", "drift">> \in q
    BY <1>1, ChallengeAsks DEF IInv
  <1> HIDE DEF q
  <1>3. live \in Project
    BY DEF IInv, TypeOK
  \* A doubt about a standing assumption of the project, or one that only the
  \* source holds, is a doubt about the merged assumptions.
  <1>4. ASSUME NEW a \in Assumptions
        PROVE  /\ live.assumptions[a] \in {"low", "unmeasured", "uncertain"} => <<"assumption", a>> \in q
               /\ c.content.assumptions[a] \in {"low", "unmeasured", "uncertain"}
                    => live.assumptions[a] = "solid" \/ <<"assumption", a>> \in q
    <2>1. a \in Doubted(Merged(c.content)) => <<"assumption", a>> \in q
      BY <1>2
    <2>2. live.assumptions[a] \in Standing
      BY <1>3 DEF Project
    <2> QED BY <2>1, <2>2 DEF Doubted, Merged, Standing
  <1>5. UnrestrictedOnlyUnchanged
    <2> SUFFICES ASSUME q = {}
                 PROVE  /\ Quiet(live)
                        /\ c.content.id = Last(sessions').capsule.id
                        /\ c.content.basis.project = live
                        /\ c.content.basis.downgrades = downgrades
      BY <1>1 DEF UnrestrictedOnlyUnchanged, Passed
    <2>1. c.content.basis = StateBasis /\ live.environment
      BY <1>2
    <2>2. live.open = {} /\ live.gaps = {}
      <3>1. ASSUME NEW x \in live.open PROVE <<"invalidation", x>> \in q
        <4>1. <<"invalidation", x>> \in {"invalidation"} \X (c.content.open \cup live.open)
          OBVIOUS
        <4> QED BY <4>1, <1>2
      <3>2. ASSUME NEW x \in live.gaps PROVE <<"gap", x>> \in q
        <4>1. <<"gap", x>> \in {"gap"} \X (c.content.gaps \cup live.gaps)
          OBVIOUS
        <4> QED BY <4>1, <1>2
      <3> QED BY <3>1, <3>2
    <2>3. \A a \in Assumptions : live.assumptions[a] \in {"absent", "solid"}
      BY <1>3, <1>4 DEF Project, Standing
    <2>4. Quiet(live)
      BY <2>1, <2>2, <2>3 DEF Quiet
    <2> QED BY <1>1, <2>1, <2>4 DEF StateBasis
  <1>6. WarningsSurvive
    <2>1. /\ c.content.assumptions = c.content.basis.project.assumptions
          /\ c.content.open = c.content.basis.project.open
          /\ c.content.gaps = c.content.basis.project.gaps
      BY <1>1 DEF ExportOK
    <2>2. \A a \in Doubted(c.content.assumptions) :
              live.assumptions[a] = "solid" \/ <<"assumption", a>> \in q
      BY <1>4 DEF Doubted
    <2>3. {"assumption"} \X Doubted(live.assumptions) \subseteq q
      BY <1>4 DEF Doubted
    <2> QED BY <1>1, <1>2, <2>1, <2>2, <2>3 DEF WarningsSurvive
  <1> QED BY <1>5, <1>6

\* A downgrade that stands keeps standing when another one is added.
LEMMA AppendKeepsLevel ==
    ASSUME downgrades \in Levels
    PROVE  ~ (EffectiveLevel(Append(downgrades, "active")) > EffectiveLevel(downgrades))
  <1>1. \A n \in DOMAIN downgrades :
            n \in DOMAIN Append(downgrades, "active") /\ Append(downgrades, "active")[n] = downgrades[n]
    BY Appended DEF Levels
  <1>2. "active" \in ToSet(downgrades) => "active" \in ToSet(Append(downgrades, "active"))
    BY <1>1 DEF ToSet
  <1>3. "active" \in ToSet(Append(downgrades, "active"))
    <2>1. Len(downgrades) + 1 \in DOMAIN Append(downgrades, "active")
          /\ Append(downgrades, "active")[Len(downgrades) + 1] = "active"
      BY Appended DEF Levels
    <2> QED BY <2>1 DEF ToSet
  <1> QED BY <1>2, <1>3 DEF EffectiveLevel, Granted

LEMMA LevelRises ==
    ASSUME IInv, [Next]_vars PROVE OnlyHumansRaise
  <1> SUFFICES ASSUME EffectiveLevel(downgrades') > EffectiveLevel(downgrades)
               PROVE  sessions' = sessions /\ live' = live
    BY DEF OnlyHumansRaise
  <1>1. downgrades \in Levels
    BY DEF IInv, TypeOK
  <1>2. EffectiveLevel(downgrades) \in Nat
    BY DEF EffectiveLevel, Granted
  <1>3. downgrades' # downgrades /\ downgrades' # Append(downgrades, "active")
    <2>1. ASSUME downgrades' = downgrades PROVE FALSE
      <3>1. EffectiveLevel(downgrades') = EffectiveLevel(downgrades)
        BY <2>1, Zenon
      <3> QED BY <3>1, <1>2
    <2>2. ASSUME downgrades' = Append(downgrades, "active") PROVE FALSE
      <3>1. EffectiveLevel(downgrades') = EffectiveLevel(Append(downgrades, "active"))
        BY <2>2, Zenon
      <3> QED BY <3>1, <1>1, AppendKeepsLevel
    <2> QED BY <2>1, <2>2
  <1>4. CASE ProjectStep
    <2>1. ClearDowngrades
      BY <1>3, <1>4 DEF ProjectStep, Assume, Open, Close, Verify, Fingerprint, EditFile
    <2> QED BY <2>1 DEF ClearDowngrades
  <1>5. CASE \E i \in Importers : Import(i)
    BY <1>3, <1>5 DEF Import, DowngradesAfter
  <1>6. CASE Export \/ Damage \/ RotateKey \/ (\E i \in Importers : Present(i)) \/ UNCHANGED vars
    BY <1>3, <1>6 DEF Export, Damage, RotateKey, Present, vars
  <1> QED BY <1>4, <1>5, <1>6, NextCases

\* A migrated session starts unrestricted only in the very state its capsule was
\* exported from, no warning of either side is lost, and no import lifts a
\* restriction, whatever changes between validation and import
\* (capsule.py import_capsule, _challenge_against_live_target).
THEOREM ImportsAreChallenged == Spec => ImportsChallenged
  <1>1. IInv /\ [Next]_vars => [Challenged]_vars
    <2> SUFFICES ASSUME IInv, Next PROVE Challenged
      OBVIOUS
    <2>1. OnlyHumansRaise
      BY LevelRises
    <2>2. CASE Len(sessions') > Len(sessions)
      BY <2>1, <2>2, OnlyImportsCreate, ImportChallenged DEF Challenged
    <2>3. CASE ~ (Len(sessions') > Len(sessions))
      BY <2>1, <2>3 DEF Challenged, UnrestrictedOnlyUnchanged, WarningsSurvive
    <2> QED BY <2>2, <2>3
  <1> QED BY <1>1, Invariance, PTL DEF Spec, ImportsChallenged

(* --------------------------- evidence grades ---------------------------- *)


GradeProbes == Files \X {"absent", "truncate"}
GradeAllGrades == {"A", "B", "C", "D", "F"}
GradeValues == {"good", "bad", "absent"}

GradeTypeOK ==
    /\ world \in Grade!Worlds
    /\ tree \in [Files -> GradeValues]
    /\ edited \subseteq Files
    /\ pc \in {"execute", "baseline", "mutate", "repeat", "minted", "discarded"}
    /\ attested \in [outcomes: [Checks -> Grade!Results \cup {None}],
          inputs: [Files -> GradeValues],
              probed: BOOLEAN, todo: Seq(GradeProbes), detected: BOOLEAN, undetected: BOOLEAN,
              inconclusive: BOOLEAN, stable: [Checks -> BOOLEAN \cup {None}],
              grade: GradeAllGrades \cup {None}]

\* The probe still is to destroy f.
GradePlanned(f) == \E i \in DOMAIN attested.todo : attested.todo[i][1] = f

\* Where the attestation is, the probe has got.
GradeProbeOK ==
    /\ pc \in {"execute", "baseline"} => attested.todo = Grade!Plan(world.declared)
    /\ pc \in {"baseline", "mutate"} => world.declared # {} /\ attested.todo # << >>
    /\ pc = "mutate" => attested.probed
    /\ attested.probed => world.declared # {}
    /\ pc = "repeat" /\ world.declared # {} =>
          attested.probed /\ (attested.inconclusive \/ attested.todo = << >>)

\* While nobody edits the tree, a probe that so far was noticed at every step was
\* noticed for each file that it is not still to destroy.
GradeNoticedOK ==
    edited = {} =>
        /\ \A f \in Files : tree[f] = "good"
        /\ ~attested.undetected /\ ~attested.inconclusive =>
              \A f \in world.declared : Grade!MayNotice(f) \/ GradePlanned(f)

GradeGradedOK == (pc # "minted" => attested.grade = None) /\ Grade!GradesAreEarned

GradeGInv == GradeTypeOK /\ GradeProbeOK /\ GradeNoticedOK /\ GradeGradedOK

-----------------------------------------------------------------------------
\* The counting of a part is the counting of the whole.
LEMMA GradeCounts == \A S : Grade!Cardinality(S) = Cardinality(S)
  BY DEF Grade!Cardinality, Cardinality, Grade!IsFiniteSet, IsFiniteSet

\* SetToSeq lists every member of a finite set.
LEMMA GradeSetToSeqCovers ==
    ASSUME NEW S, IsFiniteSet(S)
    PROVE  /\ Grade!SetToSeq(S) \in Seq(S)
           /\ \A x \in S : \E i \in 1..Len(Grade!SetToSeq(S)) : Grade!SetToSeq(S)[i] = x
  <1> DEFINE n == Cardinality(S)
             s == Grade!SetToSeq(S)
  <1>1. n \in Nat /\ ExistsBijection(1..n, S)
    BY FS_CardinalityType
  <1>2. \E f \in [1..n -> S] : Grade!IsInjective(f)
    BY <1>1 DEF ExistsBijection, Bijection, Injection, IsInjective, Grade!IsInjective
  <1>3. s \in [1..n -> S] /\ Grade!IsInjective(s)
    BY <1>2, GradeCounts DEF Grade!SetToSeq
  <1>4. s \in Seq(S) /\ Len(s) = n
    <2>1. s \in Seq(S)
      BY <1>1, <1>3, SeqDef
    <2>2. DOMAIN s = 1..n /\ DOMAIN s = 1..Len(s) /\ Len(s) \in Nat
      BY <1>3, <2>1, LenProperties
    <2> QED BY <1>1, <2>1, <2>2
  <1>5. s \in Surjection(1..n, S)
    <2>1. s \in Injection(1..n, S)
      BY <1>3 DEF Injection, IsInjective, Grade!IsInjective
    <2>2. Cardinality(1..n) = n
      BY <1>1, FS_Interval
    <2> QED BY <2>1, <2>2, FS_Injection
  <1> QED BY <1>4, <1>5 DEF Surjection

\* The plan destroys every declared file, and nothing else.
LEMMA GradePlanCovers ==
    ASSUME NEW declared \in SUBSET Files
    PROVE  /\ Grade!Plan(declared) \in Seq(GradeProbes)
           /\ \A f \in declared : \E i \in DOMAIN Grade!Plan(declared) : Grade!Plan(declared)[i][1] = f
           /\ declared # {} => Grade!Plan(declared) # << >>
  <1> DEFINE order == Grade!SetToSeq(declared)
             k == Len(order)
             at(n) == <<order[(n + 1) \div 2], Grade!Mutations[2 - (n % 2)]>>
  <1>1. /\ order \in Seq(declared) /\ k \in Nat
        /\ \A f \in declared : \E i \in 1..k : order[i] = f
    BY FS_Subset, TreeOK, GradeSetToSeqCovers, LenProperties
  <1>2. Grade!Plan(declared) = [n \in 1..(2 * k) |-> at(n)]
    BY DEF Grade!Plan
  <1>3. \A n \in 1..(2 * k) : at(n) \in GradeProbes
    <2> TAKE n \in 1..(2 * k)
    <2>1. (n + 1) \div 2 \in 1..k
      BY <1>1
    <2>2. order[(n + 1) \div 2] \in Files
      BY <1>1, <2>1, ElementOfSeq
    <2>3. n % 2 = 0 \/ n % 2 = 1
      BY <1>1
    <2>4. Grade!Mutations[2 - (n % 2)] \in {"absent", "truncate"}
      BY <2>3 DEF Grade!Mutations
    <2> QED BY <2>2, <2>4 DEF GradeProbes
  <1>4. Grade!Plan(declared) \in Seq(GradeProbes) /\ DOMAIN Grade!Plan(declared) = 1..(2 * k)
    <2>1. Grade!Plan(declared) \in [1..(2 * k) -> GradeProbes]
      BY <1>2, <1>3
    <2>2. 2 * k \in Nat
      BY <1>1
    <2> HIDE DEF k
    <2> QED BY <2>1, <2>2, SeqDef
  <1>5. ASSUME NEW f \in declared
        PROVE  \E i \in DOMAIN Grade!Plan(declared) : Grade!Plan(declared)[i][1] = f
    <2>1. PICK i \in 1..k : order[i] = f
      BY <1>1
    <2>2. 2 * i \in 1..(2 * k) /\ (2 * i + 1) \div 2 = i
      BY <1>1, <2>1
    <2>3. Grade!Plan(declared)[2 * i][1] = order[i]
      BY <1>2, <2>2
    <2> QED BY <1>4, <2>1, <2>2, <2>3
  <1>6. declared # {} => Grade!Plan(declared) # << >>
    BY <1>4, <1>5
  <1> QED BY <1>4, <1>5, <1>6

\* The grades in their order.
LEMMA GradeRanks ==
    /\ Grade!Rank("A") = 1 /\ Grade!Rank("B") = 2 /\ Grade!Rank("C") = 3
    /\ Grade!Rank("D") = 4 /\ Grade!Rank("F") = 5
  BY DEF Grade!Rank, Grade!Grades

\* A cap holds against any that come before or after it: what a list of caps
\* leaves is one of them, and no better than any of them.
LEMMA GradeCapsLower ==
    ASSUME NEW caps, Grade!ToSet(caps) \subseteq {"B", "C", "D"}, caps = << >> => Grade!ToSet(caps) = {},
           Grade!ToSet(caps) = {} => caps = << >>
    PROVE  /\ Grade!Capped(caps) \in {"A", "B", "C", "D"}
           /\ \A g \in Grade!ToSet(caps) : Grade!Rank(g) <= Grade!Rank(Grade!Capped(caps))
  <1>1. CASE caps = << >>
    BY <1>1 DEF Grade!Capped
  <1>2. CASE caps # << >>
    <2> DEFINE S == Grade!ToSet(caps)
    <2>1. S \subseteq {"B", "C", "D"} /\ S # {}
      BY <1>2
    <2> HIDE DEF S
    <2>2. \E g \in S : \A h \in S : Grade!Rank(h) <= Grade!Rank(g)
      <3>1. CASE "D" \in S
        <4>1. \A h \in S : Grade!Rank(h) <= Grade!Rank("D")
          BY <2>1, GradeRanks
        <4> QED BY <3>1, <4>1
      <3>2. CASE "D" \notin S /\ "C" \in S
        <4>1. \A h \in S : Grade!Rank(h) <= Grade!Rank("C")
          BY <2>1, <3>2, GradeRanks
        <4> QED BY <3>2, <4>1
      <3>3. CASE "D" \notin S /\ "C" \notin S
        <4>1. S = {"B"}
          BY <2>1, <3>3
        <4> QED BY <4>1, GradeRanks
      <3> QED BY <3>1, <3>2, <3>3
    <2>3. Grade!Capped(caps) = CHOOSE g \in Grade!ToSet(caps) : \A h \in Grade!ToSet(caps) : Grade!Rank(h) <= Grade!Rank(g)
      BY <1>2, Zenon DEF Grade!Capped
    <2>4. Grade!Capped(caps) \in S /\ \A h \in S : Grade!Rank(h) <= Grade!Rank(Grade!Capped(caps))
      BY <2>2, <2>3, Zenon DEF S
    <2> QED BY <2>1, <2>4, Zenon DEF S
  <1> QED BY <1>1, <1>2

\* What two lists hold together.
LEMMA GradeToSetConcat ==
    ASSUME NEW S, NEW s \in Seq(S), NEW t \in Seq(S)
    PROVE  s \o t \in Seq(S) /\ Grade!ToSet(s \o t) = Grade!ToSet(s) \cup Grade!ToSet(t)
  <1>1. /\ s \o t \in Seq(S)
        /\ Len(s) \in Nat /\ Len(t) \in Nat
        /\ DOMAIN s = 1..Len(s) /\ DOMAIN t = 1..Len(t)
        /\ DOMAIN (s \o t) = 1..(Len(s) + Len(t))
        /\ \A i \in 1..(Len(s) + Len(t)) :
              (s \o t)[i] = IF i <= Len(s) THEN s[i] ELSE t[i - Len(s)]
    BY ConcatProperties, LenProperties
  <1>2. \A x : x \in Grade!ToSet(s \o t) => x \in Grade!ToSet(s) \cup Grade!ToSet(t)
    <2> TAKE x
    <2> HAVE x \in Grade!ToSet(s \o t)
    <2>1. PICK i \in 1..(Len(s) + Len(t)) : (s \o t)[i] = x
      BY <1>1 DEF Grade!ToSet
    <2>2. CASE i <= Len(s)
      BY <1>1, <2>1, <2>2 DEF Grade!ToSet
    <2>3. CASE i > Len(s)
      <3>1. i - Len(s) \in 1..Len(t) /\ t[i - Len(s)] = x
        BY <1>1, <2>1, <2>3
      <3> QED BY <1>1, <3>1 DEF Grade!ToSet
    <2> QED BY <1>1, <2>2, <2>3
  <1>3. \A x \in Grade!ToSet(s) : x \in Grade!ToSet(s \o t)
    BY <1>1 DEF Grade!ToSet
  <1>4. \A x \in Grade!ToSet(t) : x \in Grade!ToSet(s \o t)
    <2> TAKE x \in Grade!ToSet(t)
    <2>1. PICK i \in 1..Len(t) : t[i] = x
      BY <1>1 DEF Grade!ToSet
    <2>2. Len(s) + i \in 1..(Len(s) + Len(t)) /\ (s \o t)[Len(s) + i] = x
      BY <1>1, <2>1
    <2> QED BY <1>1, <2>2 DEF Grade!ToSet
  <1> QED BY <1>1, <1>2, <1>3, <1>4

\* No good observation lifts a cap.
LEMMA GradeGradesCapped ==
    LET g == Grade!GradeEvidence IN
    /\ g \in GradeAllGrades
    /\ Checks \ world.pinned # {} => Grade!Rank(g) >= 4
    /\ attested.probed /\ ~Grade!Bound => Grade!Rank(g) >= 4
    /\ (\E c \in Checks : world.control[c] # "held") => Grade!Rank(g) >= 3
    /\ ~attested.probed => Grade!Rank(g) >= 2
  <1> DEFINE only(P, g) == IF P THEN <<g>> ELSE << >>
             p1 == only(Checks \ world.pinned # {}, "D")
             p2 == only(attested.probed /\ ~Grade!Bound, "D")
             p3 == only(\E c \in Checks : world.control[c] # "held", "C")
             p4 == only(~attested.probed, "B")
             p5 == only(\E c \in Checks : attested.stable[c] = FALSE, "C")
             caps == p1 \o p2 \o p3 \o p4 \o p5
             S == {"B", "C", "D"}
  <1>1. CASE \E c \in Checks : attested.outcomes[c] # "passed"
    BY <1>1, GradeRanks DEF Grade!GradeEvidence, GradeAllGrades
  <1>2. CASE ~ \E c \in Checks : attested.outcomes[c] # "passed"
    <2>1. Grade!GradeEvidence = Grade!Capped(caps)
      BY <1>2 DEF Grade!GradeEvidence
    <2>2. ASSUME NEW P \in BOOLEAN, NEW g \in S
          PROVE  /\ only(P, g) \in Seq(S)
                 /\ Grade!ToSet(only(P, g)) = IF P THEN {g} ELSE {}
      <3>1. CASE P
        <4>1. <<g>> \in Seq(S) /\ Len(<<g>>) = 1 /\ <<g>>[1] = g
          OBVIOUS
        <4>2. DOMAIN <<g>> = 1..1
          BY <4>1, LenProperties
        <4>3. Grade!ToSet(<<g>>) = {g}
          BY <4>1, <4>2 DEF Grade!ToSet
        <4> QED BY <3>1, <4>1, <4>3
      <3>2. CASE ~P
        <4>1. << >> \in Seq(S) /\ DOMAIN << >> = {}
          BY EmptySeq
        <4> QED BY <3>2, <4>1 DEF Grade!ToSet
      <3> QED BY <3>1, <3>2
    <2>3. /\ p1 \in Seq(S) /\ Grade!ToSet(p1) = IF Checks \ world.pinned # {} THEN {"D"} ELSE {}
          /\ p2 \in Seq(S) /\ Grade!ToSet(p2) = IF attested.probed /\ ~Grade!Bound THEN {"D"} ELSE {}
          /\ p3 \in Seq(S)
          /\ Grade!ToSet(p3) = IF \E c \in Checks : world.control[c] # "held" THEN {"C"} ELSE {}
          /\ p4 \in Seq(S) /\ Grade!ToSet(p4) = IF ~attested.probed THEN {"B"} ELSE {}
          /\ p5 \in Seq(S)
      <3> HIDE DEF only
      <3> QED BY <2>2
    <2> HIDE DEF p1, p2, p3, p4, p5, S
    <2>4. /\ caps \in Seq(S)
          /\ Grade!ToSet(caps) = Grade!ToSet(p1) \cup Grade!ToSet(p2) \cup Grade!ToSet(p3) \cup Grade!ToSet(p4) \cup Grade!ToSet(p5)
      <3>0. /\ p1 \in Seq(S) /\ p2 \in Seq(S) /\ p3 \in Seq(S)
            /\ p4 \in Seq(S) /\ p5 \in Seq(S)
        BY <2>3, Zenon
      <3> DEFINE q2 == p1 \o p2
                 q3 == q2 \o p3
                 q4 == q3 \o p4
      <3>1. q2 \in Seq(S) /\ Grade!ToSet(q2) = Grade!ToSet(p1) \cup Grade!ToSet(p2)
        BY <3>0, GradeToSetConcat
      <3> HIDE DEF q2
      <3>2. q3 \in Seq(S) /\ Grade!ToSet(q3) = Grade!ToSet(q2) \cup Grade!ToSet(p3)
        BY <3>0, <3>1, GradeToSetConcat
      <3> HIDE DEF q3
      <3>3. q4 \in Seq(S) /\ Grade!ToSet(q4) = Grade!ToSet(q3) \cup Grade!ToSet(p4)
        BY <3>0, <3>2, GradeToSetConcat
      <3> HIDE DEF q4
      <3>4. q4 \o p5 \in Seq(S) /\ Grade!ToSet(q4 \o p5) = Grade!ToSet(q4) \cup Grade!ToSet(p5)
        BY <3>0, <3>3, GradeToSetConcat
      <3>5. caps = q4 \o p5
        BY Zenon DEF q2, q3, q4
      <3> QED BY <3>1, <3>2, <3>3, <3>4, <3>5
    <2> HIDE DEF caps
    <2>5. /\ Grade!ToSet(caps) \subseteq S
          /\ caps = << >> => Grade!ToSet(caps) = {}
          /\ Grade!ToSet(caps) = {} => caps = << >>
      <3>1. DOMAIN caps = 1..Len(caps) /\ Len(caps) \in Nat
        BY <2>4, LenProperties
      <3>2. \A i \in 1..Len(caps) : caps[i] \in S
        BY <2>4, ElementOfSeq
      <3>3. caps = << >> => Len(caps) = 0
        BY EmptySeq
      <3>4. Len(caps) = 0 => caps = << >>
        BY <2>4, EmptySeq
      <3> QED BY <3>1, <3>2, <3>3, <3>4 DEF Grade!ToSet
    <2>6. /\ Grade!Capped(caps) \in {"A", "B", "C", "D"}
          /\ \A g \in Grade!ToSet(caps) : Grade!Rank(g) <= Grade!Rank(Grade!Capped(caps))
      BY <2>5, GradeCapsLower DEF S
    <2> DEFINE g == Grade!Capped(caps)
    <2>7. Grade!Rank(g) \in 1..4
      BY <2>6, GradeRanks
    <2>8. /\ Checks \ world.pinned # {} => Grade!Rank("D") <= Grade!Rank(g)
          /\ attested.probed /\ ~Grade!Bound => Grade!Rank("D") <= Grade!Rank(g)
          /\ (\E c \in Checks : world.control[c] # "held") => Grade!Rank("C") <= Grade!Rank(g)
          /\ ~attested.probed => Grade!Rank("B") <= Grade!Rank(g)
      BY <2>3, <2>4, <2>6
    <2> QED BY <2>1, <2>6, <2>7, <2>8, GradeRanks DEF GradeAllGrades
  <1> QED BY <1>1, <1>2

-----------------------------------------------------------------------------
\* The shape of the attestation.
LEMMA GradeInitGrade == Grade!Init => GradeGInv
  <1> SUFFICES ASSUME Grade!Init PROVE GradeGInv
    OBVIOUS
  <1> USE DEF Grade!Init
  <1>1. world.declared \subseteq Files
    BY DEF Grade!Worlds
  <1>2. /\ Grade!Plan(world.declared) \in Seq(GradeProbes)
        /\ \A f \in world.declared :
              \E i \in DOMAIN Grade!Plan(world.declared) : Grade!Plan(world.declared)[i][1] = f
    BY <1>1, GradePlanCovers
  <1>3. attested.todo = Grade!Plan(world.declared)
    OBVIOUS
  <1>4. GradeTypeOK
    BY <1>2 DEF GradeTypeOK, GradeValues
  <1>5. GradeProbeOK
    BY DEF GradeProbeOK
  <1>6. GradeNoticedOK
    BY <1>2, <1>3 DEF GradeNoticedOK, GradePlanned
  <1>7. GradeGradedOK
    BY TreeOK DEF GradeGradedOK, Grade!GradesAreEarned, Grade!FloorMeansBound,
          Grade!CapsHold
  <1> QED BY <1>4, <1>5, <1>6, <1>7 DEF GradeGInv

\* What a step leaves of the plan and the grade when it touches neither.
LEMMA GradeGradeUntouched ==
    ASSUME GradeGInv, world' = world, edited' = edited, tree' = tree,
          attested'.todo = attested.todo,
           attested'.grade = attested.grade, pc' # "minted" => attested.grade = None,
           attested.undetected => attested'.undetected,
                 attested.inconclusive => attested'.inconclusive
    PROVE  GradeNoticedOK' /\ GradeGradedOK'
  <1>1. \A f : GradePlanned(f)' = GradePlanned(f) /\ Grade!MayNotice(f)' = Grade!MayNotice(f)
    BY DEF GradePlanned, Grade!MayNotice
  <1>2. GradeNoticedOK'
    BY <1>1 DEF GradeGInv, GradeNoticedOK
  <1>3. GradeGradedOK'
    BY <1>1 DEF GradeGInv, GradeGradedOK, Grade!GradesAreEarned, Grade!FloorMeansBound,
          Grade!CapsHold
  <1> QED BY <1>2, <1>3

\* A verdict of failure on a copy where only f is destroyed is a check's that may
\* notice it.
LEMMA GradeFailureNotices ==
    ASSUME GradeTypeOK, NEW f \in Files, \A g \in Files : tree[g] = "good",
           NEW c \in Checks, NEW v, "failed" \in Grade!Verdicts(c, [tree EXCEPT ![f] = v])
    PROVE  Grade!MayNotice(f)
  <1>1. world.manner[c] \in {"strict", "crash", "flaky"} /\ world.reads[c] \subseteq Files
    BY DEF GradeTypeOK, Grade!Worlds
  <1>2. CASE world.manner[c] = "flaky"
    BY <1>2 DEF Grade!MayNotice
  <1>3. CASE world.manner[c] # "flaky"
    <2>1. /\ world.manner[c] # "crash"
          /\ ~ \A g \in world.reads[c] : [tree EXCEPT ![f] = v][g] = "good"
      BY <1>3 DEF Grade!Verdicts
    <2>2. f \in world.reads[c]
      BY <1>1, <2>1 DEF GradeTypeOK, GradeValues
    <2> QED BY <1>1, <1>3, <2>1, <2>2 DEF Grade!MayNotice
  <1> QED BY <1>2, <1>3

\* The rest of the plan is a plan.
LEMMA GradePlanShrinks ==
    ASSUME GradeTypeOK, attested.todo # << >>, attested'.todo = Tail(attested.todo)
    PROVE  /\ Head(attested.todo) \in GradeProbes
           /\ attested'.todo \in Seq(GradeProbes)
           /\ Len(attested.todo) = 1 => attested'.todo = << >>
           /\ Len(attested.todo) # 1 => attested'.todo # << >>
           /\ \A f : GradePlanned(f) => GradePlanned(f)' \/ f = Head(attested.todo)[1]
  <1> DEFINE s == attested.todo
             t == attested'.todo
  <1>1. /\ s \in Seq(GradeProbes) /\ t \in Seq(GradeProbes) /\ Head(s) \in GradeProbes
        /\ Len(t) = Len(s) - 1
        /\ \A i \in 1..Len(t) : t[i] = s[i + 1]
        /\ DOMAIN s = 1..Len(s) /\ Len(s) \in Nat /\ DOMAIN t = 1..Len(t) /\ Len(t) \in Nat
        /\ Head(s) = s[1]
    <2>1. s \in Seq(GradeProbes)
      BY DEF GradeTypeOK, GradeValues
    <2>2. Head(s) = s[1]
      OBVIOUS
    <2> HIDE DEF s
    <2> QED BY <2>1, <2>2, HeadTailProperties, LenProperties DEF s
  <1>2. t = << >> <=> Len(t) = 0
    BY <1>1, EmptySeq
  <1>3. ASSUME NEW f, GradePlanned(f), f # Head(s)[1]
        PROVE  GradePlanned(f)'
    <2>1. PICK i \in 1..Len(s) : s[i][1] = f
      BY <1>1, <1>3 DEF GradePlanned
    <2>2. i # 1
      BY <1>1, <1>3, <2>1
    <2>3. i - 1 \in 1..Len(t) /\ t[i - 1] = s[i]
      BY <1>1, <2>1, <2>2
    <2> QED BY <1>1, <2>1, <2>3 DEF GradePlanned
  <1> QED BY <1>1, <1>2, <1>3

\* An attestation has these fields, whatever is in them.
LEMMA GradeFields ==
    GradeTypeOK => DOMAIN attested = {"outcomes", "inputs", "probed", "todo", "detected",
          "undetected",
                          "inconclusive", "stable", "grade"}
  BY DEF GradeTypeOK

\* A mutation that is destroyed unnoticed, or by a check that may notice it.
LEMMA GradeMutateNotices ==
    ASSUME GradeGInv, Grade!Mutate
    PROVE  GradeNoticedOK'
  <1> DEFINE f == Head(attested.todo)[1]
             mutated == [tree EXCEPT ![f] = IF Head(attested.todo)[2] = "absent" THEN "absent" ELSE "bad"]
  <1> USE DEF GradeGInv
  <1>1. /\ attested.todo # << >> /\ attested'.todo = Tail(attested.todo)
        /\ world' = world /\ edited' = edited /\ tree' = tree
        /\ attested.undetected => attested'.undetected
        /\ attested.inconclusive => attested'.inconclusive
    BY GradeFields DEF Grade!Mutate, GradeProbeOK, Grade!Keep
  <1>2. f \in Files /\ \A g : GradePlanned(g) => GradePlanned(g)' \/ g = f
    BY <1>1, GradePlanShrinks DEF GradeProbes
  <1>3. \A g : Grade!MayNotice(g)' = Grade!MayNotice(g)
    BY <1>1 DEF Grade!MayNotice
  <1>4. ASSUME edited = {}, ~attested'.undetected, ~attested'.inconclusive
        PROVE  Grade!MayNotice(f)
    <2>1. \A g \in Files : tree[g] = "good"
      BY <1>4 DEF GradeNoticedOK
    <2>2. PICK rs \in [Checks -> Grade!Results] :
             /\ \A c \in Checks : rs[c] \in Grade!Verdicts(c, mutated)
             /\ attested' = [attested EXCEPT !.detected = @ \/ Grade!Noticed(rs) = "detected",
                               !.undetected = @ \/ Grade!Noticed(rs) = "undetected",
                               !.inconclusive = @ \/ Grade!Noticed(rs) = "inconclusive",
                               !.todo = Tail(@)]
      BY <1>2, <2>1 DEF Grade!Mutate
    <2>3. Grade!Noticed(rs) # "undetected" /\ Grade!Noticed(rs) # "inconclusive"
      BY <1>4, <2>2 DEF GradeTypeOK, GradeValues
    <2>4. \E c \in Checks : rs[c] = "failed"
      BY <2>3 DEF Grade!Noticed
    <2>5. PICK c \in Checks : "failed" \in Grade!Verdicts(c, mutated)
      BY <2>2, <2>4
    <2> HIDE DEF f
    <2> QED BY <1>2, <2>1, <2>5, GradeFailureNotices
  <1> HIDE DEF f
  <1>5. GradeNoticedOK'
    BY <1>1, <1>2, <1>3, <1>4 DEF GradeNoticedOK
  <1> QED BY <1>5

\* Every step keeps the shape of the attestation.
LEMMA GradeNextTypes == GradeGInv /\ [Grade!Next]_(Grade!vars) => GradeTypeOK'
  <1> SUFFICES ASSUME GradeGInv, [Grade!Next]_(Grade!vars) PROVE GradeTypeOK'
    OBVIOUS
  <1> USE DEF GradeGInv, GradeTypeOK, GradeValues
  <1>1. \A c \in Checks, t \in [Files -> {"good", "bad", "absent"}] : Grade!Verdicts(c,
        t) \subseteq Grade!Results
    BY DEF Grade!Verdicts, Grade!Results
  <1>2. ASSUME NEW c \in Checks, Grade!Execute(c) PROVE GradeTypeOK'
    <2>1. PICK r \in Grade!Verdicts(c, tree) : attested' = [attested EXCEPT !.outcomes[c] = r]
      BY <1>2 DEF Grade!Execute
    <2>2. r \in Grade!Results
      BY <1>1
    <2>3. /\ attested'.outcomes = [attested.outcomes EXCEPT ![c] = r] /\ attested'.inputs = attested.inputs
          /\ attested'.probed = attested.probed /\ attested'.todo = attested.todo /\ attested'.detected = attested.detected
          /\ attested'.undetected = attested.undetected /\ attested'.inconclusive = attested.inconclusive
          /\ attested'.stable = attested.stable /\ attested'.grade = attested.grade
          /\ attested' = [outcomes |-> attested'.outcomes, inputs |-> attested'.inputs,
                probed |-> attested'.probed,
                   todo |-> attested'.todo, detected |-> attested'.detected,
                         undetected |-> attested'.undetected,
                   inconclusive |-> attested'.inconclusive, stable |-> attested'.stable,
                         grade |-> attested'.grade]
      BY <2>1
    <2>4. attested'.outcomes \in [Checks -> Grade!Results \cup {None}]
      BY <2>2, <2>3
    <2>5. UNCHANGED <<world, tree, edited, pc>>
      BY <1>2 DEF Grade!Execute, Grade!Keep
    <2>6. attested' \in [outcomes: [Checks -> Grade!Results \cup {None}],
          inputs: [Files -> GradeValues],
                  probed: BOOLEAN, todo: Seq(GradeProbes), detected: BOOLEAN, undetected: BOOLEAN,
                  inconclusive: BOOLEAN, stable: [Checks -> BOOLEAN \cup {None}],
                  grade: GradeAllGrades \cup {None}]
      <3>1. GradeTypeOK
        OBVIOUS
      <3> HIDE DEF GradeGInv
      <3> QED BY <2>3, <2>4, <3>1
    <2> QED BY <2>5, <2>6
  <1>3. CASE Grade!Executed
    BY <1>3 DEF Grade!Executed, Grade!Keep
  <1>4. CASE Grade!Baseline
    <2>1. UNCHANGED <<world, tree, edited>> /\ pc' \in {"repeat", "mutate"}
      BY <1>4 DEF Grade!Baseline, Grade!Keep
    <2>2. CASE attested' = [attested EXCEPT !.probed = TRUE]
      BY <2>1, <2>2
    <2>3. CASE attested' = [attested EXCEPT !.probed = TRUE, !.inconclusive = TRUE]
      BY <2>1, <2>3
    <2> QED BY <1>4, <2>2, <2>3 DEF Grade!Baseline
  <1>5. ASSUME attested.todo # << >>,
        attested'.todo = Tail(attested.todo) PROVE attested'.todo \in Seq(GradeProbes)
    BY <1>5, GradePlanShrinks
  <1>6. CASE Grade!Unmaterialised
    <2>1. attested.todo # << >> /\ Tail(attested.todo) \in Seq(GradeProbes)
      BY <1>5, <1>6 DEF Grade!Unmaterialised, GradeProbeOK
    <2> QED BY <1>6, <2>1 DEF Grade!Unmaterialised, Grade!Keep
  <1>7. CASE Grade!Mutate
    <2>1. attested.todo # << >> /\ Tail(attested.todo) \in Seq(GradeProbes)
      BY <1>5, <1>7 DEF Grade!Mutate, GradeProbeOK
    <2>2. \E x, y, z \in BOOLEAN :
             attested' = [attested EXCEPT !.detected = x, !.undetected = y, !.inconclusive = z,
                   !.todo = Tail(@)]
      <3>1. CASE attested' = [attested EXCEPT !.undetected = TRUE, !.todo = Tail(@)]
        <4>1. attested' = [attested EXCEPT !.detected = attested.detected, !.undetected = TRUE,
                             !.inconclusive = attested.inconclusive, !.todo = Tail(@)]
          BY <3>1
        <4> QED BY <4>1
      <3>2. ASSUME NEW rs,
                   attested' = [attested EXCEPT !.detected = @ \/ Grade!Noticed(rs) = "detected",
                                  !.undetected = @ \/ Grade!Noticed(rs) = "undetected",
                                  !.inconclusive = @ \/ Grade!Noticed(rs) = "inconclusive",
                                  !.todo = Tail(@)]
            PROVE  \E x, y, z \in BOOLEAN :
                      attested' = [attested EXCEPT !.detected = x, !.undetected = y,
                            !.inconclusive = z,
                                     !.todo = Tail(@)]
        <4> DEFINE x == attested.detected \/ Grade!Noticed(rs) = "detected"
                   y == attested.undetected \/ Grade!Noticed(rs) = "undetected"
                   z == attested.inconclusive \/ Grade!Noticed(rs) = "inconclusive"
        <4>1. attested' = [attested EXCEPT !.detected = x, !.undetected = y, !.inconclusive = z,
                             !.todo = Tail(@)]
          BY <3>2
        <4>2. x \in BOOLEAN /\ y \in BOOLEAN /\ z \in BOOLEAN
          OBVIOUS
        <4> QED BY <4>1, <4>2
      <3> QED BY <1>7, <3>1, <3>2 DEF Grade!Mutate
    <2>3. UNCHANGED <<world, tree, edited>> /\ pc' \in {"repeat", "mutate"}
      BY <1>7 DEF Grade!Mutate, Grade!Keep
    <2>4. PICK x, y, z \in BOOLEAN :
             attested' = [attested EXCEPT !.detected = x, !.undetected = y, !.inconclusive = z,
                   !.todo = Tail(@)]
      BY <2>2
    <2>5. /\ attested'.outcomes = attested.outcomes /\ attested'.inputs = attested.inputs /\ attested'.probed = attested.probed
          /\ attested'.detected = x /\ attested'.undetected = y /\ attested'.inconclusive = z
          /\ attested'.todo = Tail(attested.todo) /\ attested'.stable = attested.stable /\ attested'.grade = attested.grade
          /\ attested' = [outcomes |-> attested'.outcomes, inputs |-> attested'.inputs,
                probed |-> attested'.probed,
                   todo |-> attested'.todo, detected |-> attested'.detected,
                         undetected |-> attested'.undetected,
                   inconclusive |-> attested'.inconclusive, stable |-> attested'.stable,
                         grade |-> attested'.grade]
      BY <2>4
    <2> QED BY <2>1, <2>3, <2>5
  <1>8. ASSUME NEW c \in Checks, Grade!Repeat(c) PROVE GradeTypeOK'
    <2>1. PICK b \in BOOLEAN : attested' = [attested EXCEPT !.stable[c] = b]
      <3>1. PICK r1, r2 \in Grade!Verdicts(c, tree) :
               attested' = [attested EXCEPT !.stable[c] = r1 = "passed" /\ r2 = "passed"]
        BY <1>8 DEF Grade!Repeat
      <3> DEFINE b == r1 = "passed" /\ r2 = "passed"
      <3>2. b \in BOOLEAN /\ attested' = [attested EXCEPT !.stable[c] = b]
        BY <3>1
      <3> QED BY <3>2
    <2>2. attested'.stable \in [Checks -> BOOLEAN \cup {None}]
      BY <2>1
    <2> QED BY <1>8, <2>1, <2>2 DEF Grade!Repeat, Grade!Keep
  <1>9. CASE Grade!Mint
    <2>1. Grade!GradeEvidence \in GradeAllGrades
      BY GradeGradesCapped
    <2> QED BY <1>9, <2>1 DEF Grade!Mint, Grade!Keep
  <1>10. ASSUME NEW f \in Files, NEW v \in {"good", "bad", "absent"}, Grade!Edit(f, v)
         PROVE  GradeTypeOK'
    BY <1>10 DEF Grade!Edit
  <1>11. CASE UNCHANGED Grade!vars
    BY <1>11 DEF Grade!vars
  <1> QED
    BY <1>2, <1>3, <1>4, <1>6, <1>7, <1>8, <1>9, <1>10, <1>11 DEF Grade!Next

\* Every step keeps its place in the plan.
LEMMA GradeNextPlan == GradeGInv /\ [Grade!Next]_(Grade!vars) => GradeProbeOK'
  <1> SUFFICES ASSUME GradeGInv, [Grade!Next]_(Grade!vars) PROVE GradeProbeOK'
    OBVIOUS
  <1> USE DEF GradeGInv, GradeProbeOK
  <1>0. /\ world.declared \subseteq Files
        /\ world.declared # {} => Grade!Plan(world.declared) # << >>
    BY GradePlanCovers DEF GradeTypeOK, Grade!Worlds
  <1>1. ASSUME attested.todo # << >>, attested'.todo = Tail(attested.todo)
        PROVE  /\ Len(attested.todo) = 1 => attested'.todo = << >>
               /\ Len(attested.todo) # 1 => attested'.todo # << >>
    BY <1>1, GradePlanShrinks
  <1>2. ASSUME NEW c \in Checks, Grade!Execute(c) PROVE GradeProbeOK'
    BY <1>2, GradeFields DEF Grade!Execute, Grade!Keep
  <1>3. CASE Grade!Executed
    BY <1>0, <1>3 DEF Grade!Executed, Grade!Keep
  <1>4. CASE Grade!Baseline
    <2>1. attested'.todo = attested.todo /\ world' = world /\ attested'.probed
      BY <1>4, GradeFields DEF Grade!Baseline, Grade!Keep
    <2>2. pc = "baseline" /\ (pc' = "mutate" \/ (pc' = "repeat" /\ attested'.inconclusive))
      BY <1>4 DEF Grade!Baseline, GradeTypeOK, GradeValues
    <2> QED BY <2>1, <2>2
  <1>5. CASE Grade!Unmaterialised
    <2>1. attested'.todo = Tail(attested.todo) /\ world' = world /\ attested'.probed /\ attested'.inconclusive
      BY <1>5, GradeFields DEF Grade!Unmaterialised, Grade!Keep
    <2>2. /\ pc \in {"baseline", "mutate"}
          /\ pc' = IF pc = "baseline" \/ Len(attested.todo) = 1 THEN "repeat" ELSE "mutate"
      BY <1>5 DEF Grade!Unmaterialised
    <2> QED BY <1>1, <2>1, <2>2
  <1>6. CASE Grade!Mutate
    <2>1. attested'.todo = Tail(attested.todo) /\ world' = world /\ attested'.probed = attested.probed
      BY <1>6, GradeFields DEF Grade!Mutate, Grade!Keep
    <2>2. pc = "mutate" /\ pc' = IF Len(attested.todo) = 1 THEN "repeat" ELSE "mutate"
      BY <1>6 DEF Grade!Mutate
    <2> QED BY <1>1, <2>1, <2>2
  <1>7. ASSUME NEW c \in Checks, Grade!Repeat(c) PROVE GradeProbeOK'
    BY <1>7, GradeFields DEF Grade!Repeat, Grade!Keep
  <1>8. CASE Grade!Mint
    BY <1>8, GradeFields DEF Grade!Mint, Grade!Keep
  <1>9. ASSUME NEW f \in Files, NEW v \in {"good", "bad", "absent"}, Grade!Edit(f, v)
        PROVE  GradeProbeOK'
    BY <1>9 DEF Grade!Edit
  <1>10. CASE UNCHANGED Grade!vars
    BY <1>10 DEF Grade!vars
  <1> QED
    BY <1>2, <1>3, <1>4, <1>5, <1>6, <1>7, <1>8, <1>9, <1>10 DEF Grade!Next

\* What is minted is earned.
LEMMA GradeMintEarned ==
    ASSUME GradeGInv, Grade!Mint
    PROVE  GradeNoticedOK' /\ GradeGradedOK'
  <1> USE DEF GradeGInv
  <1>1. CASE ~Grade!InputsUnchanged
    <2>1. /\ attested' = attested /\ pc' = "discarded" /\ world' = world /\ edited' = edited /\ tree' = tree
          /\ attested.grade = None
      BY <1>1 DEF Grade!Mint, Grade!Keep, GradeGradedOK
    <2> QED BY <2>1, GradeGradeUntouched
  <1>2. CASE Grade!InputsUnchanged
    <2>1. /\ pc = "repeat" /\ pc' = "minted" /\ attested' = [attested EXCEPT !.grade = Grade!GradeEvidence]
          /\ world' = world /\ edited' = edited /\ tree' = tree
      BY <1>2 DEF Grade!Mint, Grade!Keep
    <2>2. /\ \A f : GradePlanned(f)' = GradePlanned(f) /\ Grade!MayNotice(f)' = Grade!MayNotice(f)
          /\ attested'.grade = Grade!GradeEvidence
          /\ attested'.undetected = attested.undetected /\ attested'.inconclusive = attested.inconclusive
      BY <2>1 DEF GradePlanned, Grade!MayNotice, GradeTypeOK, GradeValues
    <2>3. GradeNoticedOK'
      BY <2>1, <2>2 DEF GradeNoticedOK
    <2> DEFINE g == Grade!GradeEvidence
    <2>4. /\ Checks \ world.pinned # {} => Grade!Rank(g) >= 4
          /\ attested.probed /\ ~Grade!Bound => Grade!Rank(g) >= 4
          /\ (\E c \in Checks : world.control[c] # "held") => Grade!Rank(g) >= 3
          /\ ~attested.probed => Grade!Rank(g) >= 2
      BY GradeGradesCapped
    <2> HIDE DEF g
    <2>5. Grade!CapsHold'
      <3>1. world.pinned # Checks => Checks \ world.pinned # {}
        BY DEF GradeTypeOK, Grade!Worlds
      <3>2. world.declared = {} => ~attested.probed
        BY DEF GradeProbeOK
      <3> QED BY <2>1, <2>2, <2>4, <3>1, <3>2, GradeRanks DEF Grade!CapsHold, g
    <2>6. Grade!FloorMeansBound'
      <3> SUFFICES ASSUME g \in {"A", "B", "C"}, edited = {}, NEW f \in world.declared
                   PROVE  Grade!MayNotice(f)
        BY <2>1, <2>2 DEF Grade!FloorMeansBound, g
      <3>1. ~(Grade!Rank(g) >= 4)
        BY GradeRanks
      <3>2. attested.probed /\ (attested.inconclusive \/ attested.todo = << >>)
        BY <2>1 DEF GradeProbeOK
      <3>3. ~attested.undetected /\ ~attested.inconclusive
        BY <2>4, <3>1, <3>2 DEF Grade!Bound
      <3>4. DOMAIN attested.todo = {}
        BY <3>2, <3>3, EmptySeq
      <3> QED BY <3>3, <3>4 DEF GradeNoticedOK, GradePlanned
    <2> QED BY <2>1, <2>3, <2>5, <2>6 DEF GradeGradedOK, Grade!GradesAreEarned
  <1> QED BY <1>1, <1>2

\* Every step keeps what was noticed, and grades only what is earned.
LEMMA GradeNextGrade == GradeGInv /\ [Grade!Next]_(Grade!vars) => GradeNoticedOK' /\ GradeGradedOK'
  <1> SUFFICES ASSUME GradeGInv, [Grade!Next]_(Grade!vars) PROVE GradeNoticedOK' /\ GradeGradedOK'
    OBVIOUS
  <1> USE DEF GradeGInv
  <1>0. pc # "minted" => attested.grade = None
    BY DEF GradeGradedOK
  <1>1. ASSUME NEW c \in Checks,
        Grade!Execute(c) \/ Grade!Repeat(c) PROVE GradeNoticedOK' /\ GradeGradedOK'
    <2>1. /\ attested'.todo = attested.todo /\ attested'.grade = attested.grade /\ attested'.undetected = attested.undetected
          /\ attested'.inconclusive = attested.inconclusive /\ pc # "minted"
          /\ world' = world /\ edited' = edited /\ tree' = tree
      BY <1>1, GradeFields DEF Grade!Execute, Grade!Repeat, Grade!Keep
    <2> QED BY <1>0, <2>1, GradeGradeUntouched
  <1>2. CASE Grade!Executed \/ Grade!Baseline
    <2>1. /\ attested'.todo = attested.todo /\ attested'.grade = attested.grade /\ attested'.undetected = attested.undetected
          /\ attested.inconclusive => attested'.inconclusive
          /\ pc # "minted"
          /\ world' = world /\ edited' = edited /\ tree' = tree
      BY <1>2, GradeFields DEF Grade!Executed, Grade!Baseline, Grade!Keep
    <2> QED BY <1>0, <2>1, GradeGradeUntouched
  <1>3. CASE Grade!Unmaterialised
    <2>1. /\ attested'.inconclusive /\ attested'.grade = attested.grade /\ pc # "minted" /\ pc' # "minted"
          /\ world' = world /\ edited' = edited /\ tree' = tree
      BY <1>3, GradeFields DEF Grade!Unmaterialised, Grade!Keep
    <2>2. GradeNoticedOK'
      BY <2>1 DEF GradeNoticedOK
    <2>3. GradeGradedOK'
      BY <1>0, <2>1, TreeOK DEF GradeGradedOK, Grade!GradesAreEarned,
            Grade!FloorMeansBound, Grade!CapsHold
    <2> QED BY <2>2, <2>3
  <1>4. CASE Grade!Mutate
    <2>1. attested'.grade = attested.grade /\ pc # "minted" /\ pc' # "minted"
      <3>1. pc = "mutate" /\ pc' \in {"repeat", "mutate"}
        BY <1>4 DEF Grade!Mutate
      <3>2. DOMAIN attested = {"outcomes", "inputs", "probed", "todo", "detected", "undetected",
                        "inconclusive", "stable", "grade"}
        BY DEF GradeTypeOK
      <3>3. CASE attested' = [attested EXCEPT !.undetected = TRUE, !.todo = Tail(@)]
        BY <3>1, <3>2, <3>3
      <3>4. ASSUME NEW rs,
                   attested' = [attested EXCEPT !.detected = @ \/ Grade!Noticed(rs) = "detected",
                                  !.undetected = @ \/ Grade!Noticed(rs) = "undetected",
                                  !.inconclusive = @ \/ Grade!Noticed(rs) = "inconclusive",
                                  !.todo = Tail(@)]
            PROVE  attested'.grade = attested.grade
        BY <3>2, <3>4
      <3> QED BY <1>4, <3>1, <3>3, <3>4 DEF Grade!Mutate
    <2>2. GradeNoticedOK'
      BY <1>4, GradeMutateNotices
    <2>3. GradeGradedOK'
      BY <1>0, <2>1, TreeOK DEF GradeGradedOK, Grade!GradesAreEarned,
            Grade!FloorMeansBound, Grade!CapsHold
    <2> QED BY <2>2, <2>3
  <1>5. CASE Grade!Mint
    BY <1>5, GradeMintEarned
  <1>6. ASSUME NEW f \in Files, NEW v \in {"good", "bad", "absent"}, Grade!Edit(f, v)
        PROVE  GradeNoticedOK' /\ GradeGradedOK'
    <2>1. attested' = attested /\ pc' = pc /\ pc # "minted" /\ edited' # {}
      BY <1>6 DEF Grade!Edit
    <2>2. GradeNoticedOK'
      BY <2>1 DEF GradeNoticedOK
    <2>3. GradeGradedOK'
      BY <1>0, <2>1, TreeOK DEF GradeGradedOK, Grade!GradesAreEarned,
            Grade!FloorMeansBound, Grade!CapsHold
    <2> QED BY <2>2, <2>3
  <1>7. CASE UNCHANGED Grade!vars
    <2>1. /\ attested' = attested /\ pc' = pc /\ world' = world /\ edited' = edited /\ tree' = tree
      BY <1>7 DEF Grade!vars
    <2> QED BY <1>0, <2>1, GradeGradeUntouched
  <1> QED
    BY <1>1, <1>2, <1>3, <1>4, <1>5, <1>6, <1>7 DEF Grade!Next

\* grade_evidence, run_mutation_probe: evidence at the floor or above, attested while
\* nobody edited the tree, is bound to every declared deliverable, and no good
\* observation lifts a cap.
THEOREM GradesEarned == Grade!Spec => []GradesAreEarned
  <1>1. GradeGInv /\ [Grade!Next]_(Grade!vars) => GradeGInv'
    BY GradeNextTypes, GradeNextPlan, GradeNextGrade DEF GradeGInv
  <1>2. GradeGInv => GradesAreEarned
    BY DEF GradeGInv, GradeGradedOK, GradesAreEarned
  <1> QED BY GradeInitGrade, <1>1, <1>2, PTL DEF Grade!Spec

(* -------------------------------- receipts ------------------------------- *)

ReceiptEntries == [id: Nat, own: BOOLEAN]

\* The logs of a kind that are still to be met: the store's, the copy's and those
\* that receipts were issued on.
ReceiptEventLogs ==
    {store.events} \cup {c.events : c \in {copy} \ {None}} \cup {r.logs[1] : r \in receipts}

ReceiptAuditLogs ==
    {store.audits} \cup {c.audits : c \in {copy} \ {None}} \cup {r.logs[2] : r \in receipts}

\* Logs that have an entry in common have it at the same place, and agree on
\* everything before it.
ReceiptLineage(logs) ==
    \A s, t \in logs : \A i \in DOMAIN s, j \in DOMAIN t :
        s[i] = t[j] => i = j /\ \A k \in 1..i : s[k] = t[k]

ReceiptStoreShape(s) ==
    s = [events |-> s.events, audits |-> s.audits, facts |-> s.facts, packet |-> s.packet,
         damaged |-> s.damaged]

\* A receipt says what follows from the state it was issued on.
ReceiptReceiptShape(r) ==
    /\ r.basis.state = r.state /\ r.held = r.state.held
    /\ r.held \subseteq Receipt!AllPredicates
    /\ r.decision = Receipt!ContinuityConclusion(r.held)
    /\ r.event_log = Receipt!Checkpoint(r.logs[1]) /\ r.audit_log = Receipt!Checkpoint(r.logs[2])

ReceiptRInv ==
    /\ fresh \in Nat
    /\ ReceiptStoreShape(store) /\ (copy # None => ReceiptStoreShape(copy))
    /\ ReceiptEventLogs \subseteq Seq(ReceiptEntries) /\ ReceiptAuditLogs \subseteq Seq(Nat)
    /\ \A l \in ReceiptEventLogs : \A i \in DOMAIN l : l[i].id < fresh
    /\ \A l \in ReceiptAuditLogs : \A i \in DOMAIN l : l[i] < fresh
    /\ ReceiptLineage(ReceiptEventLogs) /\ ReceiptLineage(ReceiptAuditLogs)
    /\ \A r \in receipts : ReceiptReceiptShape(r)

-----------------------------------------------------------------------------
\* Some of the logs of one lineage are of one lineage.
LEMMA ReceiptLineageOfFewer ==
    ASSUME NEW S, NEW T \in SUBSET S, ReceiptLineage(S)
    PROVE  ReceiptLineage(T)
  BY DEF ReceiptLineage

\* An entry that no log has yet may be appended to any of them.
LEMMA ReceiptLineageGrows ==
    ASSUME NEW E, NEW S, S \subseteq Seq(E), ReceiptLineage(S), NEW s \in S, NEW e \in E,
           \A t \in S : \A i \in DOMAIN t : t[i] # e
    PROVE  ReceiptLineage(S \cup {Append(s, e)})
  <1> DEFINE new == Append(s, e)
  <1>1. /\ Len(s) \in Nat /\ DOMAIN s = 1..Len(s)
        /\ new \in Seq(E)
        /\ DOMAIN new = 1..(Len(s) + 1)
        /\ \A i \in 1..Len(s) : new[i] = s[i]
        /\ new[Len(s) + 1] = e
    BY AppendProperties, LenProperties
  <1>2. ASSUME NEW t \in S, NEW i \in DOMAIN t, NEW j \in DOMAIN new, t[i] = new[j]
        PROVE  i = j /\ \A k \in 1..i : t[k] = new[k]
    <2>1. j \in DOMAIN s /\ t[i] = s[j]
      BY <1>1, <1>2
    <2>2. i = j /\ \A k \in 1..i : t[k] = s[k]
      BY <2>1 DEF ReceiptLineage
    <2> QED BY <1>1, <2>1, <2>2
  <1>3. ASSUME NEW i \in DOMAIN new, NEW j \in DOMAIN new, new[i] = new[j]
        PROVE  i = j
    <2>1. CASE i = Len(s) + 1
      BY <1>1, <1>3, <2>1
    <2>2. CASE j = Len(s) + 1
      BY <1>1, <1>3, <2>2
    <2>3. CASE i \in DOMAIN s /\ j \in DOMAIN s
      BY <1>1, <1>3, <2>3 DEF ReceiptLineage
    <2> QED BY <1>1, <2>1, <2>2, <2>3
  <1> HIDE DEF new
  <1>4. ASSUME NEW u \in S \cup {new}, NEW v \in S \cup {new}, NEW i \in DOMAIN u,
               NEW j \in DOMAIN v, u[i] = v[j]
        PROVE  i = j /\ \A k \in 1..i : u[k] = v[k]
    <2>1. CASE u \in S /\ v \in S
      BY <1>4, <2>1 DEF ReceiptLineage
    <2>2. CASE u \in S /\ v = new
      BY <1>2, <1>4, <2>2
    <2>3. CASE u = new /\ v \in S
      <3>1. i = j /\ \A k \in 1..j : v[k] = u[k]
        BY <1>2, <1>4, <2>3
      <3> QED BY <3>1
    <2>4. CASE u = new /\ v = new
      BY <1>3, <1>4, <2>4
    <2> QED BY <2>1, <2>2, <2>3, <2>4
  <1> QED BY <1>4 DEF ReceiptLineage, new

\* Within one lineage a checkpoint is met exactly by the logs that begin with the
\* log it was taken of.
LEMMA ReceiptCheckpointIsLog ==
    ASSUME NEW E, NEW S, S \subseteq Seq(E), ReceiptLineage(S), NEW s \in S, NEW t \in S
    PROVE  Receipt!CheckpointIsPrefix(t, Receipt!Checkpoint(s)) <=> Receipt!IsPrefix(s, t)
  <1>1. /\ s \in Seq(E) /\ t \in Seq(E)
        /\ Len(s) \in Nat /\ DOMAIN s = 1..Len(s)
        /\ Len(t) \in Nat /\ DOMAIN t = 1..Len(t)
    BY LenProperties
  <1>2. CASE s = << >>
    <2>1. Len(s) = 0
      BY <1>2, EmptySeq
    <2>2. SubSeq(s, 1, 0) = << >> /\ SubSeq(t, 1, 0) = << >>
      BY SubSeqEmpty
    <2> QED BY <1>1, <1>2, <2>1, <2>2 DEF Receipt!CheckpointIsPrefix, Receipt!Checkpoint, Receipt!IsPrefix
  <1>3. CASE s # << >>
    <2>1. Len(s) # 0
      BY <1>1, <1>3, EmptySeq
    <2>2. Receipt!CheckpointIsPrefix(t,
          Receipt!Checkpoint(s)) <=> Len(s) <= Len(t) /\ t[Len(s)] = s[Len(s)]
      BY <1>1, <1>3, <2>1 DEF Receipt!CheckpointIsPrefix, Receipt!Checkpoint, Receipt!Last
    <2>3. ASSUME Len(s) <= Len(t)
          PROVE  (t[Len(s)] = s[Len(s)]) <=> SubSeq(s, 1, Len(s)) = SubSeq(t, 1, Len(s))
      <3>1. \A i \in 1..Len(s) : s[i] \in E /\ t[i] \in E
        BY <1>1, <2>3, ElementOfSeq
      <3>2. /\ SubSeq(s, 1, Len(s)) \in Seq(E) /\ Len(SubSeq(s, 1, Len(s))) = Len(s)
            /\ SubSeq(t, 1, Len(s)) \in Seq(E) /\ Len(SubSeq(t, 1, Len(s))) = Len(s)
            /\ \A i \in 1..Len(s) : /\ SubSeq(s, 1, Len(s))[i] = s[i]
                                    /\ SubSeq(t, 1, Len(s))[i] = t[i]
        BY <1>1, <2>1, <3>1, SubSeqProperties
      <3>3. ASSUME t[Len(s)] = s[Len(s)]
            PROVE  SubSeq(s, 1, Len(s)) = SubSeq(t, 1, Len(s))
        <4>1. Len(s) \in DOMAIN s /\ Len(s) \in DOMAIN t
          BY <1>1, <2>1, <2>3
        <4>2. \A k \in 1..Len(s) : s[k] = t[k]
          BY <3>3, <4>1 DEF ReceiptLineage
        <4> QED BY <3>2, <4>2, SeqEqual
      <3>4. ASSUME SubSeq(s, 1, Len(s)) = SubSeq(t, 1, Len(s))
            PROVE  t[Len(s)] = s[Len(s)]
        <4>1. Len(s) \in 1..Len(s)
          BY <1>1, <2>1
        <4> QED BY <3>2, <3>4, <4>1
      <3> QED BY <3>3, <3>4
    <2> QED BY <2>2, <2>3 DEF Receipt!IsPrefix
  <1> QED BY <1>2, <1>3

\* Nothing is there at first.
LEMMA ReceiptInitReceipts == Receipt!Init => ReceiptRInv
  <1> SUFFICES ASSUME Receipt!Init PROVE ReceiptRInv
    OBVIOUS
  <1>1. ReceiptEventLogs = {<< >>} /\ ReceiptAuditLogs = {<< >>}
    BY DEF Receipt!Init, ReceiptEventLogs, ReceiptAuditLogs
  <1>2. << >> \in Seq(ReceiptEntries) /\ << >> \in Seq(Nat) /\ DOMAIN << >> = {}
    BY EmptySeq
  <1>3. ReceiptStoreShape(store)
    BY DEF Receipt!Init, ReceiptStoreShape
  <1> QED BY <1>1, <1>2, <1>3 DEF Receipt!Init, ReceiptRInv, ReceiptLineage

\* What appends nothing keeps the logs in one lineage.
LEMMA ReceiptLogsKept ==
    ASSUME ReceiptRInv, fresh' = fresh, ReceiptEventLogs' \subseteq ReceiptEventLogs,
          ReceiptAuditLogs' \subseteq ReceiptAuditLogs,
           ReceiptStoreShape(store)', copy' # None => ReceiptStoreShape(copy)',
           \A r \in receipts' : ReceiptReceiptShape(r)
    PROVE  ReceiptRInv'
  <1>1. ReceiptLineage(ReceiptEventLogs') /\ ReceiptLineage(ReceiptAuditLogs')
    BY ReceiptLineageOfFewer DEF ReceiptRInv
  <1> QED BY <1>1 DEF ReceiptRInv, ReceiptLineage, ReceiptReceiptShape, Receipt!Checkpoint,
        Receipt!ContinuityConclusion

\* A new entry of the event log, or of the audit log, keeps them in one.
LEMMA ReceiptLogsGrow ==
    ASSUME ReceiptRInv, fresh' = fresh + 1, ReceiptStoreShape(store)', UNCHANGED <<copy, receipts>>,
           \/ /\ \E own \in BOOLEAN : store'.events = Append(store.events, [id |-> fresh,
                 own |-> own])
              /\ store'.audits = store.audits
           \/ store'.audits = Append(store.audits, fresh) /\ store'.events = store.events
    PROVE  ReceiptRInv'
  <1> USE DEF ReceiptRInv
  <1>1. store.events \in ReceiptEventLogs /\ store.audits \in ReceiptAuditLogs
    BY DEF ReceiptEventLogs, ReceiptAuditLogs
  <1>2. (copy' # None => ReceiptStoreShape(copy)') /\ \A r \in receipts' : ReceiptReceiptShape(r)'
    BY DEF ReceiptStoreShape, ReceiptReceiptShape, Receipt!Checkpoint, Receipt!ContinuityConclusion
  <1>3. CASE store'.audits = Append(store.audits, fresh) /\ store'.events = store.events
    <2> DEFINE new == Append(store.audits, fresh)
    <2>1. ReceiptAuditLogs' \subseteq ReceiptAuditLogs \cup {new} /\ ReceiptEventLogs' = ReceiptEventLogs
      BY <1>3 DEF ReceiptAuditLogs, ReceiptEventLogs
    <2>2. ReceiptLineage(ReceiptAuditLogs \cup {new})
      <3>1. \A l \in ReceiptAuditLogs : \A i \in DOMAIN l : l[i] # fresh
        <4> SUFFICES ASSUME NEW l \in ReceiptAuditLogs, NEW i \in DOMAIN l PROVE l[i] # fresh
          OBVIOUS
        <4>1. l[i] \in Nat /\ l[i] < fresh
          BY LenProperties, ElementOfSeq
        <4> QED BY <4>1
      <3> QED BY <1>1, <3>1, ReceiptLineageGrows
    <2>3. new \in Seq(Nat) /\ \A i \in DOMAIN new : new[i] < fresh'
      <3>1. /\ store.audits \in Seq(Nat)
            /\ \A i \in DOMAIN store.audits : store.audits[i] < fresh
        BY <1>1
      <3>2. /\ new \in Seq(Nat)
            /\ DOMAIN store.audits = 1..Len(store.audits) /\ Len(store.audits) \in Nat
            /\ DOMAIN new = 1..(Len(store.audits) + 1)
            /\ \A i \in 1..Len(store.audits) : new[i] = store.audits[i]
            /\ new[Len(store.audits) + 1] = fresh
        BY <3>1, AppendProperties, LenProperties
      <3>3. \A i \in 1..Len(store.audits) : store.audits[i] \in Nat
        BY <3>1, <3>2, ElementOfSeq
      <3> QED BY <3>1, <3>2, <3>3
    <2> HIDE DEF new
    <2>4. \A l \in ReceiptAuditLogs' : \A i \in DOMAIN l : l[i] < fresh'
      <3> SUFFICES ASSUME NEW l \in ReceiptAuditLogs, NEW i \in DOMAIN l PROVE l[i] < fresh'
        BY <2>1, <2>3
      <3>1. l[i] \in Nat
        BY LenProperties, ElementOfSeq
      <3> QED BY <3>1
    <2>5. \A l \in ReceiptEventLogs' : \A i \in DOMAIN l : l[i].id < fresh'
      <3> SUFFICES ASSUME NEW l \in ReceiptEventLogs, NEW i \in DOMAIN l PROVE l[i].id < fresh'
        BY <2>1
      <3>1. l[i] \in ReceiptEntries
        BY LenProperties, ElementOfSeq
      <3> QED BY <3>1 DEF ReceiptEntries
    <2>6. ReceiptLineage(ReceiptAuditLogs') /\ ReceiptLineage(ReceiptEventLogs')
      BY <2>1, <2>2, ReceiptLineageOfFewer
    <2> QED BY <1>2, <2>1, <2>3, <2>4, <2>5, <2>6 DEF ReceiptLineage
  <1>4. ASSUME NEW own \in BOOLEAN,
               store'.events = Append(store.events, [id |-> fresh, own |-> own]),
               store'.audits = store.audits
        PROVE  ReceiptRInv'
    <2> DEFINE e == [id |-> fresh, own |-> own]
               new == Append(store.events, e)
    <2>1. ReceiptEventLogs' \subseteq ReceiptEventLogs \cup {new} /\ ReceiptAuditLogs' = ReceiptAuditLogs
      BY <1>4 DEF ReceiptAuditLogs, ReceiptEventLogs
    <2>0. e \in ReceiptEntries /\ e.id = fresh
      BY DEF ReceiptEntries
    <2> HIDE DEF e
    <2>2. ReceiptLineage(ReceiptEventLogs \cup {new})
      <3>1. \A l \in ReceiptEventLogs : \A i \in DOMAIN l : l[i] # e
        <4> SUFFICES ASSUME NEW l \in ReceiptEventLogs, NEW i \in DOMAIN l PROVE l[i] # e
          OBVIOUS
        <4>1. l[i] \in ReceiptEntries /\ l[i].id < fresh
          BY LenProperties, ElementOfSeq
        <4>2. l[i].id \in Nat
          BY <4>1 DEF ReceiptEntries
        <4> QED BY <2>0, <4>1, <4>2
      <3> QED BY <1>1, <2>0, <3>1, ReceiptLineageGrows
    <2>3. new \in Seq(ReceiptEntries) /\ \A i \in DOMAIN new : new[i].id < fresh'
      <3>1. /\ store.events \in Seq(ReceiptEntries)
            /\ \A i \in DOMAIN store.events : store.events[i].id < fresh
        BY <1>1
      <3>2. /\ new \in Seq(ReceiptEntries)
            /\ DOMAIN store.events = 1..Len(store.events) /\ Len(store.events) \in Nat
            /\ DOMAIN new = 1..(Len(store.events) + 1)
            /\ \A i \in 1..Len(store.events) : new[i] = store.events[i]
            /\ new[Len(store.events) + 1] = e
        BY <2>0, <3>1, AppendProperties, LenProperties
      <3>3. \A i \in 1..Len(store.events) : store.events[i].id \in Nat
        <4>1. \A i \in 1..Len(store.events) : store.events[i] \in ReceiptEntries
          BY <3>1, ElementOfSeq
        <4> QED BY <4>1 DEF ReceiptEntries
      <3> QED BY <2>0, <3>1, <3>2, <3>3
    <2> HIDE DEF new
    <2>4. \A l \in ReceiptEventLogs' : \A i \in DOMAIN l : l[i].id < fresh'
      <3> SUFFICES ASSUME NEW l \in ReceiptEventLogs, NEW i \in DOMAIN l PROVE l[i].id < fresh'
        BY <2>1, <2>3
      <3>1. l[i] \in ReceiptEntries
        BY LenProperties, ElementOfSeq
      <3> QED BY <3>1 DEF ReceiptEntries
    <2>5. \A l \in ReceiptAuditLogs' : \A i \in DOMAIN l : l[i] < fresh'
      <3> SUFFICES ASSUME NEW l \in ReceiptAuditLogs, NEW i \in DOMAIN l PROVE l[i] < fresh'
        BY <2>1
      <3>1. l[i] \in Nat
        BY LenProperties, ElementOfSeq
      <3> QED BY <3>1
    <2>6. ReceiptLineage(ReceiptAuditLogs') /\ ReceiptLineage(ReceiptEventLogs')
      BY <2>1, <2>2, ReceiptLineageOfFewer
    <2> QED BY <1>2, <2>1, <2>3, <2>4, <2>5, <2>6 DEF ReceiptLineage
  <1> QED BY <1>3, <1>4

\* Every step keeps the logs in one lineage and the receipts what they say.
LEMMA ReceiptNextReceipts == ReceiptRInv /\ [Receipt!Next]_(Receipt!vars) => ReceiptRInv'
  <1> SUFFICES ASSUME ReceiptRInv, [Receipt!Next]_(Receipt!vars) PROVE ReceiptRInv'
    OBVIOUS
  <1>0. ReceiptStoreShape(store) /\ (copy # None => ReceiptStoreShape(copy)) /\ \A r \in receipts : ReceiptReceiptShape(r)
    BY DEF ReceiptRInv
  <1>1. ASSUME NEW own \in BOOLEAN, NEW facts, Receipt!AppendEvent(own, facts) PROVE ReceiptRInv'
    <2>1. /\ ReceiptStoreShape(store)' /\ store'.audits = store.audits
          /\ store'.events = Append(store.events, [id |-> fresh, own |-> own])
      BY <1>0, <1>1 DEF Receipt!AppendEvent, ReceiptStoreShape
    <2> QED BY <1>1, <2>1, ReceiptLogsGrow DEF Receipt!AppendEvent
  <1>2. ASSUME NEW facts, Receipt!Rule(facts) PROVE ReceiptRInv'
    <2>1. /\ ReceiptStoreShape(store)' /\ store'.audits = Append(store.audits, fresh)
          /\ store'.events = store.events
      BY <1>0, <1>2 DEF Receipt!Rule, ReceiptStoreShape
    <2> QED BY <1>2, <2>1, ReceiptLogsGrow DEF Receipt!Rule
  <1>3. CASE Receipt!Compose
    <2>1. /\ ReceiptStoreShape(store)' /\ store'.audits = Append(store.audits, fresh)
          /\ store'.events = store.events
      BY <1>0, <1>3 DEF Receipt!Compose, ReceiptStoreShape
    <2> QED BY <1>3, <2>1, ReceiptLogsGrow DEF Receipt!Compose
  <1>4. CASE Receipt!ContinuityCheck
    <2> DEFINE r == [key |-> signer,
          decision |-> Receipt!ContinuityConclusion(Receipt!Predicates(store)),
                     held |-> Receipt!Predicates(store), state |-> Receipt!DecisionState(store),
                     basis |-> Receipt!Frontier(store),
                     event_log |-> Receipt!Checkpoint(store.events),
                     audit_log |-> Receipt!Checkpoint(store.audits),
                     logs |-> <<store.events, store.audits>>]
    <2>1. receipts' = receipts \cup {r} /\ UNCHANGED <<store, copy, fresh>>
      BY <1>4 DEF Receipt!ContinuityCheck
    <2>2. Receipt!Predicates(store) \subseteq Receipt!AllPredicates
      BY DEF Receipt!Predicates, Receipt!AllPredicates
    <2>3. /\ r.held = Receipt!Predicates(store) /\ r.state = Receipt!DecisionState(store)
          /\ r.basis = Receipt!Frontier(store) /\ r.decision = Receipt!ContinuityConclusion(Receipt!Predicates(store))
          /\ r.event_log = Receipt!Checkpoint(store.events) /\ r.audit_log = Receipt!Checkpoint(store.audits)
          /\ r.logs[1] = store.events /\ r.logs[2] = store.audits
      OBVIOUS
    <2>4. Receipt!Frontier(store).state = Receipt!DecisionState(store) /\ Receipt!DecisionState(store).held = Receipt!Predicates(store)
      BY DEF Receipt!Frontier, Receipt!DecisionState
    <2> HIDE DEF r
    <2>5. ReceiptReceiptShape(r)
      BY <2>2, <2>3, <2>4 DEF ReceiptReceiptShape
    <2>6. ReceiptEventLogs' \subseteq ReceiptEventLogs /\ ReceiptAuditLogs' \subseteq ReceiptAuditLogs
      BY <2>1, <2>3 DEF ReceiptEventLogs, ReceiptAuditLogs
    <2>7. ReceiptStoreShape(store)' /\ (copy' # None => ReceiptStoreShape(copy)')
      BY <1>0, <2>1 DEF ReceiptStoreShape
    <2> QED BY <1>0, <2>1, <2>5, <2>6, <2>7, ReceiptLogsKept
  <1>5. ASSUME NEW log, Receipt!Damage(log) PROVE ReceiptRInv'
    <2>1. /\ ReceiptStoreShape(store)' /\ store'.audits = store.audits /\ store'.events = store.events
          /\ UNCHANGED <<copy, fresh, receipts>>
      BY <1>0, <1>5 DEF Receipt!Damage, ReceiptStoreShape
    <2>2. ReceiptEventLogs' \subseteq ReceiptEventLogs /\ ReceiptAuditLogs' \subseteq ReceiptAuditLogs
      BY <2>1 DEF ReceiptEventLogs, ReceiptAuditLogs
    <2>3. copy' # None => ReceiptStoreShape(copy)'
      BY <1>0, <2>1 DEF ReceiptStoreShape
    <2> QED BY <1>0, <2>1, <2>2, <2>3, ReceiptLogsKept
  <1>6. CASE Receipt!CopyAside
    <2>1. copy' = store /\ UNCHANGED <<store, fresh, receipts>>
      BY <1>6 DEF Receipt!CopyAside
    <2>2. ReceiptEventLogs' \subseteq ReceiptEventLogs /\ ReceiptAuditLogs' \subseteq ReceiptAuditLogs
      BY <2>1 DEF ReceiptEventLogs, ReceiptAuditLogs
    <2>3. ReceiptStoreShape(store)' /\ (copy' # None => ReceiptStoreShape(copy)')
      BY <1>0, <2>1 DEF ReceiptStoreShape
    <2> QED BY <1>0, <2>1, <2>2, <2>3, ReceiptLogsKept
  <1>7. CASE Receipt!RestoreCopy
    <2>1. copy # None /\ store' = copy /\ UNCHANGED <<copy, fresh, receipts>>
      BY <1>7 DEF Receipt!RestoreCopy
    <2>2. ReceiptEventLogs' \subseteq ReceiptEventLogs /\ ReceiptAuditLogs' \subseteq ReceiptAuditLogs
      BY <2>1 DEF ReceiptEventLogs, ReceiptAuditLogs
    <2>3. ReceiptStoreShape(store)' /\ (copy' # None => ReceiptStoreShape(copy)')
      BY <1>0, <2>1 DEF ReceiptStoreShape
    <2> QED BY <1>0, <2>1, <2>2, <2>3, ReceiptLogsKept
  <1>8. ASSUME UNCHANGED <<store, copy, fresh, receipts>> PROVE ReceiptRInv'
    <2>1. ReceiptEventLogs' \subseteq ReceiptEventLogs /\ ReceiptAuditLogs' \subseteq ReceiptAuditLogs
      BY <1>8 DEF ReceiptEventLogs, ReceiptAuditLogs
    <2>2. ReceiptStoreShape(store)' /\ (copy' # None => ReceiptStoreShape(copy)')
      BY <1>0, <1>8 DEF ReceiptStoreShape
    <2> QED BY <1>0, <1>8, <2>1, <2>2, ReceiptLogsKept
  <1>9. \A k : Receipt!OpenWith(k) => UNCHANGED <<store, copy, fresh, receipts>>
    BY DEF Receipt!OpenWith
  <1>10. UNCHANGED Receipt!vars => UNCHANGED <<store, copy, fresh, receipts>>
    BY DEF Receipt!vars
  <1> QED
    BY <1>1, <1>2, <1>3, <1>4, <1>5, <1>6, <1>7, <1>8, <1>9, <1>10 DEF Receipt!Next

\* The conclusion is success when all predicates hold, and never otherwise.
LEMMA ReceiptSuccessNeedsAll ==
    ASSUME NEW held \in SUBSET Receipt!AllPredicates
    PROVE  Receipt!ContinuityConclusion(held) = "success" <=> held = Receipt!AllPredicates
  BY DEF Receipt!ContinuityConclusion, Receipt!AllPredicates

\* Under its own key a receipt is refused exactly off its lineage.
LEMMA ReceiptVerdictIsLineage ==
    ASSUME ReceiptRInv, NEW r \in receipts
    PROVE  /\ Receipt!SemanticsValid(r, store) <=> /\ Receipt!IsPrefix(r.logs[1], store.events)
                                           /\ Receipt!IsPrefix(r.logs[2], store.audits)
           /\ (Receipt!Verdict(r,
                 store) # "INVALID") <=> r.key = signer /\ Receipt!SemanticsValid(r, store)
  <1>1. /\ r.logs[1] \in ReceiptEventLogs /\ store.events \in ReceiptEventLogs
        /\ r.logs[2] \in ReceiptAuditLogs /\ store.audits \in ReceiptAuditLogs
    BY DEF ReceiptEventLogs, ReceiptAuditLogs
  <1>2. /\ Receipt!CheckpointIsPrefix(store.events, Receipt!Checkpoint(r.logs[1]))
              <=> Receipt!IsPrefix(r.logs[1], store.events)
        /\ Receipt!CheckpointIsPrefix(store.audits, Receipt!Checkpoint(r.logs[2]))
              <=> Receipt!IsPrefix(r.logs[2], store.audits)
    BY <1>1, ReceiptCheckpointIsLog DEF ReceiptRInv
  <1>3. ReceiptReceiptShape(r)
    BY DEF ReceiptRInv
  <1>4. Receipt!SemanticsValid(r, store) <=> /\ Receipt!IsPrefix(r.logs[1], store.events)
                                     /\ Receipt!IsPrefix(r.logs[2], store.audits)
    BY <1>2, <1>3 DEF Receipt!SemanticsValid, ReceiptReceiptShape
  <1> QED BY <1>4 DEF Receipt!Verdict, Receipt!AuthenticatorValid

\* What an entry of another project leaves of the verdicts.
LEMMA ReceiptAppendHarmless == ReceiptRInv => Receipt!UnrelatedAppendHarmless
  <1> SUFFICES ASSUME ReceiptRInv, NEW r \in receipts
               PROVE  Receipt!Verdict(r, [store EXCEPT !.events = Append(@, [id |-> fresh,
                     own |-> FALSE])])
                          = Receipt!Verdict(r, store)
    BY DEF Receipt!UnrelatedAppendHarmless
  <1> DEFINE e == [id |-> fresh, own |-> FALSE]
             new == Append(store.events, e)
             grown == [store EXCEPT !.events = new]
  <1>1. /\ store.events \in ReceiptEventLogs /\ store.events \in Seq(ReceiptEntries)
        /\ r.logs[1] \in ReceiptEventLogs /\ r.logs[1] \in Seq(ReceiptEntries)
        /\ \A i \in DOMAIN r.logs[1] : r.logs[1][i].id < fresh
        /\ e \in ReceiptEntries /\ fresh \in Nat
    BY DEF ReceiptRInv, ReceiptEventLogs, ReceiptEntries
  <1>2. /\ grown.events = new /\ grown.audits = store.audits /\ grown.facts = store.facts
        /\ grown.packet = store.packet /\ grown.damaged = store.damaged
    BY DEF ReceiptRInv, ReceiptStoreShape
  <1>3. /\ Len(store.events) \in Nat /\ DOMAIN store.events = 1..Len(store.events)
        /\ new \in Seq(ReceiptEntries) /\ Len(new) = Len(store.events) + 1
        /\ DOMAIN new = 1..(Len(store.events) + 1)
        /\ \A i \in 1..Len(store.events) : new[i] = store.events[i]
        /\ new[Len(store.events) + 1] = e
        /\ e.id = fresh /\ e.own = FALSE
    BY <1>1, AppendProperties, LenProperties
  <1> HIDE DEF e, new, grown
  <1>4. Receipt!Own(new) = Receipt!Own(store.events)
    BY <1>3 DEF Receipt!Own, Receipt!ToSet
  <1>5. Receipt!Predicates(grown) = Receipt!Predicates(store) /\ Receipt!DecisionState(grown) = Receipt!DecisionState(store)
    <2>1. Receipt!PacketCurrent(grown) = Receipt!PacketCurrent(store)
      BY <1>2, <1>4, Zenon DEF Receipt!PacketCurrent
    <2>2. Receipt!Predicates(grown) = Receipt!Predicates(store)
      BY <1>2, <2>1, Zenon DEF Receipt!Predicates
    <2> QED BY <1>2, <2>2, Zenon DEF Receipt!DecisionState
  <1>6. Receipt!Frontier(grown) = Receipt!Frontier(store)
    BY <1>2, <1>4, <1>5, Zenon DEF Receipt!Frontier
  <1>7. Receipt!CheckpointIsPrefix(new, r.event_log) <=> Receipt!CheckpointIsPrefix(store.events,
        r.event_log)
    <2> DEFINE l == r.logs[1]
    <2>1. r.event_log = Receipt!Checkpoint(l)
      BY DEF ReceiptRInv, ReceiptReceiptShape
    <2>2. Len(l) \in Nat /\ DOMAIN l = 1..Len(l)
      BY <1>1, LenProperties
    <2>3. /\ r.event_log.count = Len(l)
          /\ Len(l) # 0 => r.event_log.tip = l[Len(l)]
      <3>1. Len(l) # 0 => l # << >>
        BY EmptySeq
      <3> QED BY <2>1, <3>1 DEF Receipt!Checkpoint, Receipt!Last
    <2>4. CASE Len(l) = 0
      BY <2>3, <2>4 DEF Receipt!CheckpointIsPrefix
    <2>5. CASE Len(l) # 0 /\ Len(l) <= Len(store.events)
      BY <1>3, <2>2, <2>3, <2>5 DEF Receipt!CheckpointIsPrefix
    <2>6. CASE Len(l) # 0 /\ Len(l) > Len(store.events)
      <3>1. l[Len(l)].id < fresh
        BY <1>1, <2>2, <2>6
      <3>2. l[Len(l)] # e
        BY <1>1, <1>3, <3>1
      <3> HIDE DEF l
      <3> QED BY <1>3, <2>2, <2>3, <2>6, <3>2 DEF Receipt!CheckpointIsPrefix
    <2> QED BY <1>3, <2>2, <2>4, <2>5, <2>6
  <1>8. Receipt!SemanticsValid(r, grown) <=> Receipt!SemanticsValid(r, store)
    BY <1>2, <1>7 DEF Receipt!SemanticsValid
  <1>9. Receipt!Verdict(r, grown) = Receipt!Verdict(r, store)
    BY <1>5, <1>6, <1>8, Zenon DEF Receipt!Verdict
  <1> QED BY <1>9 DEF e, new, grown

\* continuity_check, verify_continuity_receipt: what would flip a decision is exact,
\* a receipt is refused exactly when the logs it was issued on are not the beginning
\* of today's, however far a restored database has grown since, and an event of
\* another project changes no verdict.
THEOREM ReceiptsHold == Receipt!Spec => []ReceiptsExact
  <1>1. ASSUME ReceiptRInv PROVE ReceiptsExact
    <2>1. Receipt!FlipsAreExact
      BY <1>1, ReceiptSuccessNeedsAll DEF Receipt!FlipsAreExact, ReceiptRInv, ReceiptReceiptShape
    <2>2. Receipt!RefusedExactlyOffLineage
      BY <1>1, ReceiptVerdictIsLineage DEF Receipt!RefusedExactlyOffLineage
    <2> QED BY <1>1, <2>1, <2>2, ReceiptAppendHarmless DEF ReceiptsExact, Receipt!ReceiptsExact
  <1> QED BY ReceiptInitReceipts, ReceiptNextReceipts, <1>1, PTL DEF Receipt!Spec
=============================================================================
