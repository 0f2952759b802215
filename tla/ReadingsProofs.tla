--------------------------- MODULE ReadingsProofs ---------------------------
(***************************************************************************)
(* What the engine reads while others write, proved for any number of      *)
(* commits, calls, nodes, budgets and steps.                               *)
(*                                                                         *)
(*  - McpSession: no check of the session is atomic with a read, but the   *)
(*    identity of the file only grows: if it is still the one that the     *)
(*    view was opened at, nothing was written to the main file since, so   *)
(*    the pages read so far are those of the file; and while no log lay    *)
(*    beside it, those pages were the committed content.                   *)
(*  - Recovery: the last check and the issue are one step.                 *)
(*  - Packets: a watermark holds what its own basis says to compose, which *)
(*    the invariant states about the basis as a value: a status may change *)
(*    and change back, and the basis is then the same again.  The one      *)
(*    exception is a grant that expired while the packet was composed, and *)
(*    that never comes back.                                               *)
(***************************************************************************)
EXTENDS Readings, FiniteSetTheorems, SequenceTheorems, TLAPS

(* ----------------------------- MCP answers ------------------------------ *)

Pages == [1..2 -> Nat]

Reply == [pages: Seq(Nat), lived: SUBSET Nat]

Call == [step: {"sidecars", "identity", "opening", "settling", "before", "quiet", "read",
                "after", "answer"},
         pages: Seq(Nat), lived: SUBSET Nat]

TypeOK ==
    /\ file \in [main: Pages, identity: Nat, log: Nat \cup {None}, sidecars: BOOLEAN]
    /\ writer \in {"none", "open", "checkpointing"}
    /\ session \in [state: {"new", "initializing", "ready"}, view: Nat \cup {None}]
    /\ call # None => call \in Call
    /\ replies \in Seq(Reply \cup {None})

\* Without a log the main file is whole; a log lies beside it under its sidecars;
\* a checkpoint in progress has copied the first page.
FileOK ==
    /\ file.log = None => file.main[1] = file.main[2]
    /\ file.log # None => file.sidecars
    /\ writer # "none" => file.sidecars
    /\ writer = "checkpointing" => file.log # None /\ file.main[1] = file.log

\* The main file has not been written since the view was opened.
Same == file.identity = session.view

\* These pages are the file's.
Shown(pages) == Len(pages) = 2 /\ pages[1] = file.main[1] /\ pages[2] = file.main[2]

\* What the view has shown is still what the file holds, unless it moved on.
ViewOK ==
    /\ session.view # None => session.state = "ready" /\ session.view <= file.identity
    /\ session.view = None => Answers = {}
    /\ Same => \A r \in Answers : Shown(r.pages)

\* Likewise what the call in progress has read.
CallOK ==
    call # None =>
        /\ session.state = "ready"
        /\ Content \in call.lived
        /\ call.step \in {"sidecars", "identity", "opening", "settling"} <=> session.view = None
        /\ call.step \in {"opening", "settling"} =>
              Len(call.pages) = 1 /\ call.pages[1] <= file.identity
        /\ call.step \in {"before", "quiet"} => call.pages = << >>
        /\ call.step = "read" => Len(call.pages) \in {0, 1}
        /\ call.step \in {"after", "answer"} => Len(call.pages) = 2
        /\ call.step \in {"read", "after"} /\ Same =>
              /\ file.main[1] = file.main[2]
              /\ file.main[1] \in call.lived
              /\ \A k \in 1..Len(call.pages) : call.pages[k] = file.main[k]
        /\ call.step = "answer" =>
              /\ call.pages[1] = call.pages[2]
              /\ call.pages[1] \in call.lived
              /\ Same => Shown(call.pages)
              /\ \A r \in Answers : r.pages = call.pages

IInv == TypeOK /\ FileOK /\ ViewOK /\ CallOK /\ AnswersAreOneMoment

-----------------------------------------------------------------------------
\* The answers among the replies; a refusal adds none, and an answer one.
LEMMA AppendReply ==
    ASSUME replies \in Seq(Reply \cup {None}), NEW r \in Reply \cup {None},
           replies' = Append(replies, r)
    PROVE  /\ replies' \in Seq(Reply \cup {None})
           /\ Answers' = Answers \cup ({r} \ {None})
           /\ Answers \subseteq Reply
  <1>1. /\ Len(replies) \in Nat
        /\ DOMAIN replies = 1..Len(replies)
        /\ \A i \in DOMAIN replies : replies[i] \in Reply \cup {None}
    BY LenProperties, ElementOfSeq
  <1>2. /\ replies' \in Seq(Reply \cup {None})
        /\ DOMAIN replies' = 1..(Len(replies) + 1)
        /\ replies'[Len(replies) + 1] = r
        /\ \A i \in 1..Len(replies) : replies'[i] = replies[i]
    BY AppendProperties, LenProperties
  <1>3. ToSet(replies') = ToSet(replies) \cup {r}
    BY <1>1, <1>2 DEF ToSet
  <1> QED BY <1>1, <1>2, <1>3 DEF Answers, ToSet

\* Two pages that are the file's are the same pages.
LEMMA ShownOnce ==
    ASSUME NEW x \in Seq(Nat), NEW y \in Seq(Nat), Shown(x), Shown(y)
    PROVE  x = y
  <1>1. Len(x) = Len(y) /\ \A i \in 1..Len(x) : x[i] = y[i]
    BY DEF Shown
  <1> QED BY <1>1, SeqEqual

\* A step of the writers, as the session sees it: the identity grows with every
\* write to the main file, and the call in progress lives through the content.
LEMMA FileStepKeeps ==
    ASSUME None \notin Nat, IInv, UNCHANGED <<session, replies>>,
           file' \in [main: Pages, identity: Nat, log: Nat \cup {None}, sidecars: BOOLEAN],
           writer' \in {"none", "open", "checkpointing"}, FileOK',
           \/ file'.identity > file.identity
           \/ file'.identity = file.identity /\ file'.main = file.main,
           call = None => call' = None,
           call' # None => /\ call' \in Call
                           /\ call'.step = call.step /\ call'.pages = call.pages
                           /\ call.lived \subseteq call'.lived
                           /\ Content' \in call'.lived
    PROVE  IInv'
  <1>1. TypeOK /\ FileOK /\ ViewOK /\ CallOK /\ AnswersAreOneMoment
    BY DEF IInv
  <1>2. TypeOK'
    BY <1>1 DEF TypeOK
  <1>3. /\ Answers' = Answers
        /\ session.view \in Nat \cup {None} /\ file.identity \in Nat
    BY <1>1 DEF Answers, TypeOK
  <1>4. /\ session.view # None => session.view <= file'.identity
        /\ Same' => Same /\ file'.main = file.main
    <2>1. session.view # None => session.view <= file.identity
      BY <1>1 DEF ViewOK
    <2> QED BY <1>3, <2>1 DEF Same
  <1>5. ViewOK'
    BY <1>1, <1>3, <1>4 DEF ViewOK, Shown
  <1>6. CallOK'
    <2> SUFFICES ASSUME call' # None PROVE CallOK'
      BY DEF CallOK
    <2>1. /\ call \in Call /\ call # None
          /\ call'.step = call.step /\ call'.pages = call.pages
          /\ call.lived \subseteq call'.lived
          /\ Content' \in call'.lived
      BY <1>1 DEF TypeOK
    <2>2. call.step \in {"opening", "settling"} =>
              Len(call.pages) = 1 /\ call.pages[1] <= file'.identity
      <3> SUFFICES ASSUME call.step \in {"opening", "settling"}
                   PROVE  Len(call.pages) = 1 /\ call.pages[1] <= file'.identity
        OBVIOUS
      <3>1. Len(call.pages) = 1 /\ call.pages[1] <= file.identity
        BY <1>1, <2>1 DEF CallOK
      <3>2. call.pages[1] \in Nat
        BY <2>1, <3>1, ElementOfSeq DEF Call
      <3> QED BY <1>3, <3>1, <3>2
    <2>3. call.step \in {"read", "after"} /\ Same' =>
              /\ file'.main[1] = file'.main[2]
              /\ file'.main[1] \in call'.lived
              /\ \A k \in 1..Len(call.pages) : call.pages[k] = file'.main[k]
      BY <1>1, <1>4, <2>1 DEF CallOK
    <2>4. call.step = "answer" =>
              /\ call.pages[1] = call.pages[2]
              /\ call.pages[1] \in call'.lived
              /\ Same' => Shown(call.pages)'
              /\ \A r \in Answers : r.pages = call.pages
      BY <1>1, <1>4, <2>1 DEF CallOK, Shown
    <2> QED BY <1>1, <1>3, <2>1, <2>2, <2>3, <2>4 DEF CallOK
  <1>7. AnswersAreOneMoment'
    BY <1>1, <1>3 DEF AnswersAreOneMoment, UntouchedBeforeReady, AnswersAreCurrent,
        OneSnapshotPerSession
  <1> QED BY <1>2, <1>5, <1>6, <1>7 DEF IInv

\* Writers that open, commit, checkpoint page by page, close or crash.
LEMMA WriterKeeps ==
    ASSUME None \notin Nat, IInv,
           \/ WriterOpens \/ WriterCommits \/ WriterCloses \/ WriterCrashes
           \/ \E page \in {1, 2} : Checkpoint(page)
    PROVE  IInv'
  <1>1. /\ TypeOK /\ FileOK
        /\ call # None => call \in Call /\ Content \in call.lived
        /\ Content \in Nat
    BY DEF IInv, CallOK, TypeOK, FileOK, Content, Pages
  <1>2. CASE WriterOpens
    BY <1>1, <1>2, FileStepKeeps DEF WriterOpens, Reader, TypeOK, FileOK, Content
  <1>3. CASE WriterCommits
    <2> DEFINE v == Content + 1
    <2>1. /\ file' = [file EXCEPT !.log = v] /\ v \in Nat /\ writer = "open"
          /\ UNCHANGED <<writer, session, replies>> /\ Lived(v)
      BY <1>1, <1>3 DEF WriterCommits
    <2> HIDE DEF v
    <2>2. /\ file' \in [main: Pages, identity: Nat, log: Nat \cup {None}, sidecars: BOOLEAN]
          /\ file'.identity = file.identity /\ file'.main = file.main
          /\ file'.log = v /\ file'.sidecars = file.sidecars
      BY <1>1, <2>1 DEF TypeOK
    <2>3. FileOK' /\ Content' = v
      BY <1>1, <2>1, <2>2 DEF FileOK, Content
    <2>4. /\ call = None => call' = None
          /\ call' # None => /\ call' \in Call
                             /\ call'.step = call.step /\ call'.pages = call.pages
                             /\ call.lived \subseteq call'.lived
                             /\ v \in call'.lived
      BY <1>1, <2>1 DEF Lived, Call
    <2> QED BY <1>1, <2>1, <2>2, <2>3, <2>4, FileStepKeeps DEF TypeOK
  <1>4. CASE WriterCloses
    BY <1>1, <1>4, FileStepKeeps DEF WriterCloses, Reader, TypeOK, FileOK, Content
  <1>5. CASE WriterCrashes
    BY <1>1, <1>5, FileStepKeeps DEF WriterCrashes, Reader, TypeOK, FileOK, Content
  <1>6. ASSUME NEW page \in {1, 2}, Checkpoint(page) PROVE IInv'
    <2>1. /\ file' = [file EXCEPT !.main[page] = file.log, !.identity = @ + 1,
                                  !.log = IF page = 2 THEN None ELSE @]
          /\ writer = IF page = 1 THEN "open" ELSE "checkpointing"
          /\ writer' = IF page = 1 THEN "checkpointing" ELSE "open"
          /\ file.log \in Nat
          /\ UNCHANGED <<session, call, replies>>
      BY <1>1, <1>6 DEF Checkpoint, Reader, TypeOK
    <2>2. /\ file' \in [main: Pages, identity: Nat, log: Nat \cup {None}, sidecars: BOOLEAN]
          /\ file'.identity = file.identity + 1
          /\ file'.main[page] = file.log
          /\ page = 2 => file'.main[1] = file.main[1] /\ file'.log = None
          /\ page = 1 => file'.log = file.log
          /\ file'.sidecars = file.sidecars
      <3> DEFINE m == [file.main EXCEPT ![page] = file.log]
                 l == IF page = 2 THEN None ELSE file.log
      <3>1. /\ file \in [main: Pages, identity: Nat, log: Nat \cup {None}, sidecars: BOOLEAN]
            /\ m \in Pages
            /\ m[page] = file.log
            /\ page = 2 => m[1] = file.main[1]
        BY <1>1, <2>1 DEF TypeOK, Pages
      <3>2. file' = [file EXCEPT !.main = m, !.identity = @ + 1, !.log = l]
        BY <2>1, <3>1
      <3>3. l \in Nat \cup {None} /\ (page = 2 => l = None) /\ (page = 1 => l = file.log)
        BY <2>1
      <3> HIDE DEF m, l
      <3>4. /\ file'.main = m /\ file'.identity = file.identity + 1 /\ file'.log = l
            /\ file'.sidecars = file.sidecars
        BY <3>1, <3>2
      <3>5. file' \in [main: Pages, identity: Nat, log: Nat \cup {None}, sidecars: BOOLEAN]
        <4>1. file.identity + 1 \in Nat
          BY <3>1
        <4>2. \A x \in Pages, y \in Nat, z \in Nat \cup {None} :
                  [file EXCEPT !.main = x, !.identity = y, !.log = z]
                      \in [main: Pages, identity: Nat, log: Nat \cup {None}, sidecars: BOOLEAN]
          BY <3>1
        <4> QED BY <3>1, <3>2, <3>3, <4>1, <4>2
      <3> QED BY <3>1, <3>3, <3>4, <3>5
    <2>3. FileOK' /\ Content' = Content
      BY <1>1, <2>1, <2>2 DEF FileOK, Content
    <2> QED BY <1>1, <2>1, <2>2, <2>3, FileStepKeeps DEF TypeOK
  <1> QED BY <1>2, <1>3, <1>4, <1>5, <1>6

-----------------------------------------------------------------------------
\* A refusal is a reply that shows nothing.
LEMMA RefuseKeeps ==
    ASSUME IInv, Refuse, UNCHANGED World
    PROVE  IInv'
  <1>1. TypeOK /\ FileOK /\ ViewOK /\ AnswersAreOneMoment
    BY DEF IInv
  <1>2. call' = None /\ UNCHANGED <<session, file, writer>>
    BY DEF Refuse, World
  <1>3. replies' \in Seq(Reply \cup {None}) /\ Answers' = Answers
    BY <1>1, AppendReply DEF Refuse, TypeOK
  <1>4. TypeOK' /\ FileOK' /\ CallOK'
    BY <1>1, <1>2, <1>3 DEF TypeOK, FileOK, CallOK
  <1>5. ViewOK'
    BY <1>1, <1>2, <1>3 DEF ViewOK, Same, Shown
  <1>6. AnswersAreOneMoment'
    BY <1>1, <1>2, <1>3 DEF AnswersAreOneMoment, UntouchedBeforeReady, AnswersAreCurrent,
        OneSnapshotPerSession
  <1> QED BY <1>4, <1>5, <1>6 DEF IInv

\* A step of the call in progress that replies nothing and keeps the view.
LEMMA CallStepKeeps ==
    ASSUME IInv, call # None, UNCHANGED <<session, replies>>, UNCHANGED World,
           call' \in Call, CallOK'
    PROVE  IInv'
  <1>1. TypeOK /\ FileOK /\ ViewOK /\ CallOK /\ AnswersAreOneMoment
    BY DEF IInv
  <1>2. UNCHANGED <<file, writer>> /\ Answers' = Answers
    BY DEF World, Answers
  <1>3. TypeOK' /\ FileOK'
    BY <1>1, <1>2 DEF TypeOK, FileOK
  <1>4. ViewOK'
    BY <1>1, <1>2 DEF ViewOK, Same, Shown
  <1>5. session.state = "ready"
    BY <1>1 DEF CallOK
  <1>6. AnswersAreOneMoment'
    BY <1>1, <1>2, <1>5 DEF AnswersAreOneMoment, UntouchedBeforeReady, AnswersAreCurrent,
        OneSnapshotPerSession
  <1> QED BY <1>3, <1>4, <1>6 DEF IInv

\* The handshake, a tool call's arrival and a reconnect.
LEMMA HandshakeKeeps ==
    ASSUME None \notin Nat, IInv, Initialize \/ Initialized \/ Receive \/ Reconnect
    PROVE  IInv'
  <1>1. TypeOK /\ FileOK /\ ViewOK /\ CallOK /\ AnswersAreOneMoment
    BY DEF IInv
  <1>2. UNCHANGED <<file, writer>>
    BY DEF Initialize, Initialized, Receive, Reconnect, World
  <1>3. FileOK'
    BY <1>1, <1>2 DEF FileOK
  <1>4. CASE Initialize \/ Initialized
    <2>1. /\ UNCHANGED <<call, replies>> /\ call = None /\ Answers' = Answers
          /\ session.view = None /\ Answers = {}
      BY <1>1, <1>4 DEF Initialize, Initialized, AnswersAreOneMoment, UntouchedBeforeReady,
          Answers
    <2>2. session' \in [state: {"new", "initializing", "ready"}, view: Nat \cup {None}]
              /\ session'.view = None
      BY <1>1, <1>4, <2>1 DEF Initialize, Initialized, TypeOK
    <2>3. TypeOK' /\ CallOK'
      BY <1>1, <1>2, <2>1, <2>2 DEF TypeOK, CallOK
    <2>4. ViewOK' /\ AnswersAreOneMoment'
      BY <1>1, <1>2, <2>1, <2>2 DEF ViewOK, AnswersAreOneMoment, UntouchedBeforeReady,
          AnswersAreCurrent, OneSnapshotPerSession
    <2> QED BY <1>3, <2>3, <2>4 DEF IInv
  <1>5. CASE Receive /\ ~Admitted
    <2>1. call = None /\ Refuse /\ UNCHANGED World
      BY <1>5 DEF Receive, Refuse
    <2> QED BY <2>1, RefuseKeeps
  <1>6. CASE Receive /\ Admitted
    <2>1. /\ session.state = "ready" /\ UNCHANGED <<session, replies>> /\ Answers' = Answers
          /\ call' = [step |-> IF session.view = None THEN "sidecars" ELSE "before",
                      pages |-> <<>>, lived |-> {Content}]
      BY <1>6 DEF Receive, Admitted, Answers
    <2>2. Content' = Content /\ Content \in Nat
      BY <1>1, <1>2 DEF Content, TypeOK, Pages
    <2>3. call' \in Call
      BY <2>1, <2>2 DEF Call
    <2>4. TypeOK'
      BY <1>1, <1>2, <2>1, <2>3 DEF TypeOK
    <2>5. ViewOK' /\ AnswersAreOneMoment'
      BY <1>1, <1>2, <2>1 DEF ViewOK, Same, Shown, AnswersAreOneMoment, UntouchedBeforeReady,
          AnswersAreCurrent, OneSnapshotPerSession
    <2>6. CallOK'
      BY <1>1, <1>2, <2>1, <2>2 DEF CallOK
    <2> QED BY <1>3, <2>4, <2>5, <2>6 DEF IInv
  <1>7. CASE Reconnect
    <2>1. /\ UNCHANGED call /\ call = None /\ replies' = <<>>
          /\ session' = [state |-> "new", view |-> None]
      BY <1>7 DEF Reconnect
    <2>2. Answers' = {}
      BY <2>1 DEF Answers, ToSet
    <2>3. TypeOK' /\ CallOK'
      BY <1>1, <1>2, <2>1 DEF TypeOK, CallOK
    <2>4. ViewOK' /\ AnswersAreOneMoment'
      BY <2>1, <2>2 DEF ViewOK, AnswersAreOneMoment, UntouchedBeforeReady, AnswersAreCurrent,
          OneSnapshotPerSession
    <2> QED BY <1>3, <2>3, <2>4 DEF IInv
  <1> QED BY <1>4, <1>5, <1>6, <1>7

\* Opening the view: no sidecars, the identity, and both again.
LEMMA OpenKeeps ==
    ASSUME None \notin Nat, IInv,
           OpenChecksSidecars \/ OpenTakesIdentity \/ OpenLooksAgain \/ OpenSettles
    PROVE  IInv'
  <1>1. TypeOK /\ FileOK /\ ViewOK /\ CallOK /\ AnswersAreOneMoment
    BY DEF IInv
  <1>2. call # None /\ call \in Call /\ UNCHANGED World /\ UNCHANGED <<file, writer>>
    BY <1>1 DEF OpenChecksSidecars, OpenTakesIdentity, OpenLooksAgain, OpenSettles, TypeOK, World
  <1>3. /\ session.state = "ready" /\ session.view = None
        /\ Content \in call.lived /\ Content' = Content
        /\ file.identity \in Nat
    BY <1>1, <1>2 DEF OpenChecksSidecars, OpenTakesIdentity, OpenLooksAgain, OpenSettles, CallOK,
        TypeOK, Content
  <1>4. CASE Refuse
    BY <1>2, <1>4, RefuseKeeps
  <1>5. CASE OpenChecksSidecars /\ To("identity")
    <2>1. call' = [call EXCEPT !.step = "identity"] /\ UNCHANGED <<session, replies>>
      BY <1>5 DEF To
    <2>2. call' \in Call /\ call'.step = "identity" /\ call'.lived = call.lived
      BY <1>2, <2>1 DEF Call
    <2>3. CallOK'
      BY <1>3, <2>1, <2>2 DEF CallOK
    <2> QED BY <1>2, <2>1, <2>2, <2>3, CallStepKeeps
  <1>6. CASE OpenTakesIdentity
    <2>1. /\ call' = [call EXCEPT !.step = "opening", !.pages = <<file.identity>>]
          /\ UNCHANGED <<session, replies>>
      BY <1>6 DEF OpenTakesIdentity
    <2>2. <<file.identity>> \in Seq(Nat) /\ Len(<<file.identity>>) = 1
              /\ <<file.identity>>[1] = file.identity
      BY <1>3
    <2>3. /\ call' \in Call /\ call'.step = "opening" /\ call'.lived = call.lived
          /\ Len(call'.pages) = 1 /\ call'.pages[1] = file.identity
      BY <1>2, <2>1, <2>2 DEF Call
    <2>4. CallOK'
      BY <1>2, <1>3, <2>1, <2>3 DEF CallOK
    <2> QED BY <1>2, <2>1, <2>3, <2>4, CallStepKeeps
  <1>7. CASE OpenLooksAgain /\ To("settling")
    <2>1. call' = [call EXCEPT !.step = "settling"] /\ UNCHANGED <<session, replies>>
      BY <1>7 DEF To
    <2>2. /\ call' \in Call /\ call'.step = "settling" /\ call'.lived = call.lived
          /\ call'.pages = call.pages
      BY <1>2, <2>1 DEF Call
    <2>3. Len(call.pages) = 1 /\ call.pages[1] <= file.identity
      BY <1>1, <1>2, <1>7 DEF OpenLooksAgain, CallOK
    <2>4. CallOK'
      BY <1>2, <1>3, <2>1, <2>2, <2>3 DEF CallOK
    <2> QED BY <1>2, <2>1, <2>2, <2>4, CallStepKeeps
  <1>8. CASE OpenSettles /\ ~file.sidecars
    <2>1. /\ session' = [session EXCEPT !.view = call.pages[1]]
          /\ call' = [call EXCEPT !.step = "before", !.pages = <<>>]
          /\ UNCHANGED replies /\ Answers' = Answers
      BY <1>8 DEF OpenSettles, Answers
    <2>2. Len(call.pages) = 1 /\ call.pages[1] <= file.identity
      BY <1>1, <1>2, <1>8 DEF OpenSettles, CallOK
    <2>3. call.pages[1] \in Nat
      BY <1>2, <2>2, ElementOfSeq DEF Call
    <2>4. /\ session' \in [state: {"new", "initializing", "ready"}, view: Nat \cup {None}]
          /\ session'.state = "ready" /\ session'.view = call.pages[1]
      BY <1>1, <1>3, <2>1, <2>3 DEF TypeOK
    <2>5. /\ call' \in Call /\ call'.step = "before" /\ call'.lived = call.lived
          /\ call'.pages = << >>
      <3>1. \A q \in Seq(Nat) :
                LET new == [call EXCEPT !.step = "before", !.pages = q] IN
                new \in Call /\ new.step = "before" /\ new.lived = call.lived /\ new.pages = q
        BY <1>2 DEF Call
      <3>2. << >> \in Seq(Nat)
        OBVIOUS
      <3> QED BY <2>1, <3>1, <3>2
    <2>6. Answers = {}
      BY <1>1, <1>3 DEF ViewOK
    <2>7. TypeOK' /\ FileOK'
      BY <1>1, <1>2, <2>1, <2>4, <2>5 DEF TypeOK, FileOK
    <2>8. ViewOK'
      BY <1>2, <2>1, <2>2, <2>3, <2>4, <2>6 DEF ViewOK
    <2>9. CallOK'
      BY <1>3, <2>3, <2>4, <2>5 DEF CallOK
    <2>10. AnswersAreOneMoment'
      BY <2>1, <2>4, <2>6 DEF AnswersAreOneMoment, UntouchedBeforeReady, AnswersAreCurrent,
          OneSnapshotPerSession
    <2> QED BY <2>7, <2>8, <2>9, <2>10 DEF IInv
  <1> QED BY <1>4, <1>5, <1>6, <1>7, <1>8
          DEF OpenChecksSidecars, OpenLooksAgain, OpenSettles

\* The assertions around the read, and the read page by page.
LEMMA LookKeeps ==
    ASSUME None \notin Nat, IInv, Before \/ Quiet \/ After
    PROVE  IInv'
  <1>1. TypeOK /\ FileOK /\ ViewOK /\ CallOK
    BY DEF IInv
  <1>2. /\ call # None /\ call \in Call /\ UNCHANGED World /\ UNCHANGED <<file, writer>>
        /\ call.step \in {"before", "quiet", "after"}
    BY <1>1 DEF Before, Quiet, After, Look, TypeOK, World
  <1>3. /\ session.state = "ready" /\ session.view # None
        /\ Content \in call.lived /\ Content' = Content
    BY <1>1, <1>2 DEF CallOK, Content
  <1>4. CASE Refuse
    BY <1>2, <1>4, RefuseKeeps
  <1>5. ASSUME NEW step \in {"quiet", "read", "answer"}, To(step)
        PROVE  /\ call' \in Call /\ call'.step = step
               /\ call'.pages = call.pages /\ call'.lived = call.lived
               /\ UNCHANGED <<session, replies>> /\ Answers' = Answers
    BY <1>2, <1>5 DEF To, Call, Answers
  <1>6. CASE Before /\ To("quiet")
    <2>1. CallOK'
      BY <1>1, <1>2, <1>3, <1>5, <1>6 DEF Before, Look, CallOK
    <2> QED BY <1>2, <1>5, <1>6, <2>1, CallStepKeeps
  <1>7. CASE Quiet /\ ~LogBeside /\ To("read")
    <2>1. file.main[1] = file.main[2] /\ file.main[1] \in call.lived
      BY <1>1, <1>3, <1>7 DEF LogBeside, FileOK, Content
    <2>2. call.pages = << >> /\ Len(call.pages) = 0
      BY <1>1, <1>2, <1>7 DEF Quiet, CallOK
    <2>3. CallOK'
      BY <1>2, <1>3, <1>5, <1>7, <2>1, <2>2 DEF CallOK
    <2> QED BY <1>2, <1>5, <1>7, <2>3, CallStepKeeps
  <1>8. CASE After /\ ~SourceChanged /\ To("answer")
    <2>1. Same /\ call.step = "after"
      BY <1>8 DEF After, Look, SourceChanged, Same
    <2>2. /\ file.main[1] = file.main[2] /\ file.main[1] \in call.lived
          /\ Len(call.pages) = 2
          /\ \A k \in 1..Len(call.pages) : call.pages[k] = file.main[k]
      BY <1>1, <1>2, <2>1 DEF CallOK
    <2>3. Shown(call.pages)
      BY <2>2 DEF Shown
    <2>4. \A r \in Answers : r.pages = call.pages
      <3>1. \A r \in Answers : r.pages \in Seq(Nat)
        BY <1>1, ElementOfSeq DEF Answers, ToSet, TypeOK, Reply
      <3> QED BY <1>1, <1>2, <2>1, <2>3, <3>1, ShownOnce DEF ViewOK, Call
    <2>5. call.pages[1] = call.pages[2] /\ call.pages[1] \in call.lived
      BY <2>2, <2>3 DEF Shown
    <2>6. CallOK'
      BY <1>2, <1>3, <1>5, <1>8, <2>2, <2>3, <2>4, <2>5 DEF CallOK, Shown
    <2> QED BY <1>2, <1>5, <1>8, <2>6, CallStepKeeps
  <1> QED BY <1>4, <1>6, <1>7, <1>8 DEF Before, Quiet, After, Look

\* The read itself, page by page, beside whatever the writers do.
LEMMA ReadKeeps ==
    ASSUME None \notin Nat, IInv, ReadPage
    PROVE  IInv'
  <1>1. TypeOK /\ CallOK
    BY DEF IInv
  <1> DEFINE n == Len(call.pages)
             pages == Append(call.pages, file.main[n + 1])
             step == IF n = 1 THEN "after" ELSE "read"
  <1>2. /\ call # None /\ call \in Call /\ call.step = "read"
        /\ call' = [call EXCEPT !.pages = pages, !.step = step]
        /\ UNCHANGED World /\ UNCHANGED <<file, writer, session, replies>>
    BY <1>1 DEF ReadPage, TypeOK, World
  <1>3. n \in {0, 1} /\ file.main \in Pages /\ call.pages \in Seq(Nat)
    BY <1>1, <1>2 DEF CallOK, TypeOK, Call
  <1>4. file.main[n + 1] \in Nat
    <2>1. file.main[1] \in Nat /\ file.main[2] \in Nat
      BY <1>3 DEF Pages
    <2>2. n = 0 \/ n = 1
      BY <1>3
    <2> HIDE DEF n
    <2> QED BY <2>1, <2>2
  <1>5. /\ pages \in Seq(Nat) /\ Len(pages) = n + 1
        /\ pages[n + 1] = file.main[n + 1]
        /\ \A k \in 1..n : pages[k] = call.pages[k]
    BY <1>3, <1>4, AppendProperties
  <1> HIDE DEF pages
  <1>6. /\ call' \in Call /\ call'.step = step /\ call'.pages = pages
        /\ call'.lived = call.lived
    BY <1>2, <1>5 DEF Call
  <1>7. Same => \A k \in 1..(n + 1) : pages[k] = file.main[k]
    <2>1. Same => \A k \in 1..n : call.pages[k] = file.main[k]
      BY <1>1, <1>2 DEF CallOK
    <2>2. \A k \in 1..(n + 1) : k \in 1..n \/ k = n + 1
      BY <1>3
    <2> HIDE DEF n
    <2> QED BY <1>5, <2>1, <2>2
  <1>8. Content' = Content /\ Same' = Same
    BY <1>2 DEF Content, Same
  <1>9. /\ session.state = "ready" /\ Content \in call.lived /\ session.view # None
        /\ Same => file.main[1] = file.main[2] /\ file.main[1] \in call.lived
    BY <1>1, <1>2 DEF CallOK
  <1>10. /\ step \in {"read", "after"}
         /\ step = "read" => Len(pages) \in {0, 1}
         /\ step = "after" => Len(pages) = 2
         /\ Same => \A k \in 1..Len(pages) : pages[k] = file.main[k]
    <2>1. n = 0 \/ n = 1
      BY <1>3
    <2> HIDE DEF n
    <2> QED BY <1>5, <1>7, <2>1
  <1> HIDE DEF n, step
  <1>11. CallOK'
    BY <1>2, <1>6, <1>8, <1>9, <1>10 DEF CallOK
  <1> QED BY <1>2, <1>6, <1>11, CallStepKeeps

\* The answer is handed out, when no log has appeared beside the file.
LEMMA AnswerKeeps ==
    ASSUME None \notin Nat, IInv, Answer
    PROVE  IInv'
  <1>1. TypeOK /\ FileOK /\ ViewOK /\ CallOK /\ AnswersAreOneMoment
    BY DEF IInv
  <1>2. CASE Refuse
    BY <1>2, RefuseKeeps DEF Answer
  <1>3. CASE ~LogBeside
    <2> DEFINE r == [pages |-> call.pages, lived |-> call.lived]
    <2>1. /\ call # None /\ call \in Call /\ call.step = "answer" /\ call' = None
          /\ replies' = Append(replies, r) /\ UNCHANGED <<session, file, writer>>
      BY <1>1, <1>3 DEF Answer, TypeOK, World
    <2>2. r \in Reply /\ r.pages = call.pages /\ r.lived = call.lived
      BY <2>1 DEF Call, Reply
    <2> HIDE DEF r
    <2>3. /\ replies' \in Seq(Reply \cup {None})
          /\ Answers' \subseteq Answers \cup {r}
      BY <1>1, <2>1, <2>2, AppendReply DEF TypeOK
    <2>4. /\ session.state = "ready" /\ session.view # None
          /\ call.pages[1] = call.pages[2] /\ call.pages[1] \in call.lived
          /\ Same => Shown(call.pages)
          /\ \A s \in Answers : s.pages = call.pages
      BY <1>1, <2>1 DEF CallOK
    <2>5. TypeOK' /\ FileOK' /\ CallOK'
      BY <1>1, <2>1, <2>3 DEF TypeOK, FileOK, CallOK
    <2>6. ViewOK'
      BY <1>1, <2>1, <2>2, <2>3, <2>4 DEF ViewOK, Same, Shown
    <2>7. AnswersAreOneMoment'
      BY <1>1, <2>1, <2>2, <2>3, <2>4 DEF AnswersAreOneMoment, UntouchedBeforeReady,
          AnswersAreCurrent, OneSnapshotPerSession
    <2> QED BY <2>5, <2>6, <2>7 DEF IInv
  <1> QED BY <1>2, <1>3 DEF Answer

-----------------------------------------------------------------------------
\* The database is untouched before the handshake, every answer is the content
\* committed at one moment of its call, and all answers of a session are one
\* snapshot, whatever writers commit, checkpoint or crash beside it.
THEOREM SessionsAnswerOneMoment ==
    Spec => []AnswersAreOneMoment
  <1> USE NoneOK
  <1>1. Init => IInv
    <2> SUFFICES ASSUME Init PROVE IInv
      OBVIOUS
    <2>1. Answers = {}
      BY DEF Init, Answers, ToSet
    <2>2. TypeOK
      BY DEF Init, TypeOK, Pages
    <2>3. FileOK /\ ViewOK /\ CallOK
      BY <2>1 DEF Init, FileOK, ViewOK, CallOK
    <2>4. AnswersAreOneMoment
      BY <2>1 DEF Init, AnswersAreOneMoment, UntouchedBeforeReady, AnswersAreCurrent,
          OneSnapshotPerSession
    <2> QED BY <2>2, <2>3, <2>4 DEF IInv
  <1>2. IInv /\ [Next]_vars => IInv'
    <2> SUFFICES ASSUME IInv, [Next]_vars PROVE IInv'
      OBVIOUS
    <2>1. CASE Next
      BY <2>1, WriterKeeps, HandshakeKeeps, OpenKeeps, LookKeeps, ReadKeeps, AnswerKeeps DEF Next
    <2>2. CASE UNCHANGED vars
      BY <2>2 DEF vars, IInv, TypeOK, FileOK, ViewOK, CallOK, Same, Shown, Content, Answers,
          AnswersAreOneMoment, UntouchedBeforeReady, AnswersAreCurrent, OneSnapshotPerSession
    <2> QED BY <2>1, <2>2
  <1>3. IInv => AnswersAreOneMoment
    BY DEF IInv
  <1> QED BY <1>1, <1>2, <1>3, PTL DEF Spec

(* --------------------------- recovery packets --------------------------- *)

\* The last packet is of some moment so far, and clean if it is of this one.
RecoverIInv ==
    /\ rows \in Nat
    /\ packet # None => packet.at \in 0..rows
    /\ Recover!PacketIsClean

\* A write makes a new row, which the last packet is not of.
LEMMA RecoverWriteKeeps ==
    ASSUME RecoverIInv, rows' = rows + 1, UNCHANGED packet
    PROVE  RecoverIInv'
  BY DEF RecoverIInv, Recover!PacketIsClean

LEMMA RecoverNextInv == RecoverIInv /\ [Recover!Next]_(Recover!vars) => RecoverIInv'
  <1> SUFFICES ASSUME RecoverIInv, [Recover!Next]_(Recover!vars) PROVE RecoverIInv'
    OBVIOUS
  <1>1. CASE rows' = rows + 1 /\ UNCHANGED packet BY <1>1, RecoverWriteKeeps
  <1>2. CASE UNCHANGED <<nodes, rows, packet>>
    BY <1>2 DEF RecoverIInv, Recover!PacketIsClean, Recover!Ids, Recover!Plain
  <1>3. CASE Recover!Issue
    <2>1. UNCHANGED <<nodes, rows>> BY <1>3 DEF Recover!Issue, Recover!Unwritten
    <2>2. CASE ~Recover!QuarantineFree
      <3>1. UNCHANGED packet BY <1>3, <2>2 DEF Recover!Issue
      <3> QED BY <1>2, <2>1, <3>1
    <2>3. CASE Recover!QuarantineFree
      <3>1. packet' = [names |-> reading.names, says |-> reading.says, at |-> rows]
        BY <1>3, <2>3 DEF Recover!Issue
      <3>2. packet'.names = reading.names /\ packet'.says = reading.says /\ packet'.at = rows
        BY <3>1
      <3> QED BY <2>1, <2>3, <3>2 DEF RecoverIInv, Recover!PacketIsClean, Recover!QuarantineFree,
            Recover!Ids, Recover!Plain
    <2> QED BY <2>2, <2>3
  <1>4. CASE \/ \E verified \in BOOLEAN, text \in Texts : Recover!Checkpoint(verified, text)
             \/ \E text \in Texts : Recover!RecordOutcome(text) \/ Recover!RecordRollback(text) \/ Recover!Open(text)
             \/ \E n \in Recover!Ids : Recover!Quarantine(n) \/ Recover!Strike(n) \/ Recover!Restore(n) \/ Recover!Finish(n)
             \/ \E n \in Recover!Ids, text \in Texts : Recover!Correct(n, text)
    BY <1>1, <1>4 DEF Recover!Checkpoint, Recover!RecordOutcome, Recover!RecordRollback,
          Recover!Open, Recover!Quarantine, Recover!Strike, Recover!Restore,
                 Recover!Finish, Recover!Correct, Recover!Become, Recover!Put, Recover!Version
  <1>5. CASE Recover!ReadOutcome \/ Recover!ReadCheckpoint \/ Recover!ReadTasks \/ Recover!ReadVerified
    BY <1>2, <1>5 DEF Recover!ReadOutcome, Recover!ReadCheckpoint, Recover!ReadTasks,
          Recover!ReadVerified, Recover!Reads, Recover!Unwritten
  <1>6. CASE UNCHANGED Recover!vars BY <1>2, <1>6 DEF Recover!vars
  <1> QED BY <1>3, <1>4, <1>5, <1>6 DEF Recover!Next

\* recovery_packet: whatever is written between its reads, a packet that is issued
\* names and quotes nothing that is quarantined at that moment.
THEOREM RecoveryClean == Recover!Spec => []PacketIsClean
  <1>1. Recover!Init => RecoverIInv BY DEF Recover!Init, RecoverIInv, Recover!PacketIsClean
  <1>2. RecoverIInv /\ [Recover!Next]_(Recover!vars) => RecoverIInv' BY RecoverNextInv
  <1>3. RecoverIInv => PacketIsClean BY DEF RecoverIInv, PacketIsClean
  <1> QED BY <1>1, <1>2, <1>3, PTL DEF Recover!Spec

(* ---------------------------- resume packets ---------------------------- *)

\* The project as it was when a basis was read.
Was(b) == INSTANCE Packets WITH node <- b.node, tier <- b.tier, grant <- b.grant

PacketMandatoryAt(b) == Was(b)!Mandatory(b.selection, b)

PacketNodeStatuses(n) == Statuses[Kind[n]] \cup {"quarantined"}

PacketAnyNode == [status: UNION {PacketNodeStatuses(n) : n \in Packet!Nodes}, current: BOOLEAN,
      valid: BOOLEAN]

PacketNodeOK ==
    /\ node \in [Packet!Nodes -> PacketAnyNode]
    /\ \A n \in Packet!Nodes : node[n].status \in PacketNodeStatuses(n)

\* While a packet is composed only the clock and the files move.
PacketWorkOK ==
    work # None =>
        /\ work.budget \in Budgets
        /\ work.basis.node = node /\ work.basis.tier = tier /\ work.basis.seq = seq
        /\ work.basis.selection = Packet!Selection(scope)
        /\ work.basis.grant \in BOOLEAN /\ (grant => work.basis.grant)

\* What a watermark vouches for was composed from its basis, or a grant has
\* expired since the basis was read.
PacketMarkOK ==
    mark # None =>
        \/ mark.packet.mandatory = PacketMandatoryAt(mark.basis)
        \/ mark.basis.grant /\ ~grant

PacketIInv == PacketNodeOK /\ grant \in BOOLEAN /\ PacketWorkOK /\ PacketMarkOK

-----------------------------------------------------------------------------

\* The instance counts as the module does.
LEMMA PacketCounts == \A S : Packet!Cardinality(S) = Cardinality(S)
  BY DEF Packet!Cardinality, Cardinality, Packet!IsFiniteSet, IsFiniteSet

\* The mandatory part is a function of what the basis holds.
LEMMA PacketWasSame ==
    ASSUME NEW b, b.node = node, b.tier = tier, b.grant = grant, NEW s
    PROVE  Was(b)!Mandatory(s, b) = Packet!Mandatory(s, b)
  <1>1. \A S : Was(b)!Cardinality(S) = Cardinality(S)
    BY DEF Was!Cardinality, Cardinality, Was!IsFiniteSet, IsFiniteSet
  <1>2. Was(b)!Nodes = Packet!Nodes /\ Was(b)!Tasks = Packet!Tasks /\ Was(b)!Retired = Packet!Retired
        /\ Was(b)!Blocked = Packet!Blocked /\ Was(b)!Down = Packet!Down
    BY DEF Was!Nodes, Packet!Nodes, Was!Tasks, Packet!Tasks, Was!Retired, Packet!Retired,
          Was!Blocked, Packet!Blocked,
           Was!Down, Packet!Down
  <1>3. Was(b)!Quarantined = Packet!Quarantined
    BY <1>2 DEF Was!Quarantined, Packet!Quarantined
  <1>4. \A n : Was(b)!L0IsBinding(n) <=> Packet!L0IsBinding(n)
    BY <1>2 DEF Was!L0IsBinding, Packet!L0IsBinding
  <1>5. Was(b)!L0 = Packet!L0
    BY <1>2, <1>3, <1>4 DEF Was!L0, Packet!L0
  <1>6. \A n : Was(b)!Applies(s, n) <=> Packet!Applies(s, n)
    BY DEF Was!Applies, Packet!Applies
  <1>7. \A S : Was(b)!First(S) = Packet!First(S)
    BY DEF Was!First, Packet!First
  <1>8. ASSUME NEW l0 PROVE Was(b)!Mission(l0) = Packet!Mission(l0)
    <2>1. Was(b)!First({n \in l0 : Kind[n] = "plan"}) = Packet!First({n \in l0 : Kind[n] = "plan"})
      BY <1>7
    <2> QED BY <1>2, <2>1 DEF Was!Mission, Packet!Mission
  <1>9. ASSUME NEW open PROVE Was(b)!OpenWork(open) = Packet!OpenWork(open)
    <2>1. Was(b)!First({t \in open : node[t].status \notin Packet!Blocked})
             = Packet!First({t \in open : node[t].status \notin Packet!Blocked})
      BY <1>7
    <2> QED BY <1>2, <2>1 DEF Was!OpenWork, Packet!OpenWork
  <1> DEFINE l0 == {n \in Packet!L0 : Packet!Applies(s, n)}
             candidates == {n \in Packet!Nodes : tier[n] = "L0" /\ n \notin Packet!Quarantined}
             open == {t \in Packet!Tasks : /\ node[t].status \in {"open", "blocked"}
                                    /\ node[t].current /\ Packet!Applies(s, t)}
  <1>10. /\ {n \in Was(b)!L0 : Was(b)!Applies(s, n)} = l0
         /\ {n \in Was(b)!Nodes : b.tier[n] = "L0" /\ n \notin Was(b)!Quarantined} = candidates
         /\ {t \in Was(b)!Tasks : /\ b.node[t].status \in {"open", "blocked"}
                                  /\ b.node[t].current /\ Was(b)!Applies(s, t)} = open
    BY <1>2, <1>3, <1>5, <1>6
  <1>11. Was(b)!Mandatory(s, b) =
            [control |-> s.controls, mission |-> Was(b)!Mission(l0),
             withheld |-> Was(b)!Cardinality(candidates) - Was(b)!Cardinality(l0)
                            - Was(b)!Cardinality(candidates \cap s.excluded),
             work |-> Was(b)!OpenWork(open), level |-> b.grant, inputs |-> b.files]
    BY <1>10 DEF Was!Mandatory
  <1>12. Packet!Mandatory(s, b) =
            [control |-> s.controls, mission |-> Packet!Mission(l0),
             withheld |-> Cardinality(candidates) - Cardinality(l0)
                            - Cardinality(candidates \cap s.excluded),
             work |-> Packet!OpenWork(open), level |-> grant, inputs |-> b.files]
    BY PacketCounts DEF Packet!Mandatory
  <1>13. Was(b)!Mission(l0) = Packet!Mission(l0) /\ Was(b)!OpenWork(open) = Packet!OpenWork(open)
    BY <1>8, <1>9
  <1>14. /\ Was(b)!Cardinality(candidates) = Cardinality(candidates)
         /\ Was(b)!Cardinality(l0) = Cardinality(l0)
         /\ Was(b)!Cardinality(candidates \cap s.excluded) = Cardinality(candidates \cap s.excluded)
    BY <1>1
  <1> HIDE DEF l0, candidates, open
  <1> QED BY <1>11, <1>12, <1>13, <1>14

\* The mandatory part of a packet is what no budget touched.
LEMMA PacketComposedMandatory ==
    ASSUME NEW sel, NEW basis, NEW budget, Packet!Composed(sel, basis, budget) # None
    PROVE  Packet!Composed(sel, basis, budget).mandatory = Packet!Mandatory(sel, basis)
  BY DEF Packet!Composed, Packet!FitBytes

LEMMA PacketFinishMarks ==
    ASSUME PacketIInv, NEW record \in BOOLEAN, Packet!Finish(record)
    PROVE  PacketMarkOK'
  <1>1. work # None /\ grant' = grant /\ PacketWorkOK /\ PacketMarkOK /\ grant \in BOOLEAN
    BY DEF PacketIInv, Packet!Finish
  <1> DEFINE b == work.basis
             new == Packet!Composed(b.selection, b, work.budget)
  <1>2. CASE mark' = mark
    BY <1>1, <1>2 DEF PacketMarkOK, PacketMandatoryAt
  <1>3. CASE mark' # mark
    <2>1. new # None /\ mark' = [packet |-> new, basis |-> b, audit |-> new]
      BY <1>3 DEF Packet!Finish, Packet!Watermark
    <2>2. new.mandatory = Packet!Mandatory(b.selection, b)
      BY <2>1, PacketComposedMandatory
    <2>3. CASE b.grant = grant
      <3>1. b.node = node /\ b.tier = tier BY <1>1 DEF PacketWorkOK
      <3>2. new.mandatory = PacketMandatoryAt(b)
        BY <2>2, <2>3, <3>1, PacketWasSame DEF PacketMandatoryAt
      <3> HIDE DEF b, new
      <3> QED BY <2>1, <3>2 DEF PacketMarkOK, PacketMandatoryAt
    <2> QED BY <1>1, <2>1, <2>3 DEF PacketWorkOK, PacketMarkOK
  <1> QED BY <1>2, <1>3

\* The other steps leave the watermark alone and bring no grant back.
LEMMA PacketOthersKeepMark ==
    ASSUME PacketIInv, mark' = mark, grant' => grant
    PROVE  PacketMarkOK'
  BY DEF PacketIInv, PacketMarkOK, PacketMandatoryAt

LEMMA PacketInitInv == Packet!Init => PacketIInv
  <1> SUFFICES ASSUME Packet!Init PROVE PacketIInv
    OBVIOUS
  <1>1. PacketNodeOK
    <2> DEFINE st(n) == CHOOSE x \in Statuses[Kind[n]] : x \in {"active", "open", "recorded"}
    <2>1. \A n \in Packet!Nodes : st(n) \in Statuses[Kind[n]]
      BY PacketsOK
    <2>2. node = [n \in Packet!Nodes |-> [status |-> st(n), current |-> TRUE, valid |-> TRUE]]
      BY DEF Packet!Init
    <2> HIDE DEF st
    <2>3. \A n \in Packet!Nodes : st(n) \in PacketNodeStatuses(n)
      BY <2>1 DEF PacketNodeStatuses
    <2> QED BY <2>2, <2>3 DEF PacketNodeOK, PacketAnyNode
  <1> QED BY <1>1 DEF Packet!Init, PacketIInv, PacketWorkOK, PacketMarkOK

LEMMA PacketNodeKept ==
    ASSUME PacketNodeOK, node' = node PROVE PacketNodeOK'
  BY DEF PacketNodeOK

\* A step that gives a node another version of one of its statuses.
LEMMA PacketNodeMoved ==
    ASSUME PacketNodeOK, NEW n \in Packet!Nodes, NEW v \in PacketAnyNode,
          v.status \in PacketNodeStatuses(n),
           node' = [node EXCEPT ![n] = v]
    PROVE  PacketNodeOK'
  BY DEF PacketNodeOK

LEMMA PacketNodeShape ==
    ASSUME PacketNodeOK, NEW n \in Packet!Nodes
    PROVE  /\ node[n] \in PacketAnyNode /\ node[n].status \in PacketNodeStatuses(n)
           /\ [node[n] EXCEPT !.valid = FALSE] \in PacketAnyNode
           /\ [node[n] EXCEPT !.valid = FALSE].status = node[n].status
           /\ [node[n] EXCEPT !.current = FALSE] \in PacketAnyNode
           /\ [node[n] EXCEPT !.current = FALSE].status = node[n].status
           /\ \A st \in PacketNodeStatuses(n) : /\ [node[n] EXCEPT !.status = st] \in PacketAnyNode
                                          /\ [node[n] EXCEPT !.status = st].status = st
  BY DEF PacketNodeOK, PacketAnyNode

LEMMA PacketNextInv == PacketIInv /\ [Packet!Next]_(Packet!vars) => PacketIInv'
  <1> SUFFICES ASSUME PacketIInv, [Packet!Next]_(Packet!vars) PROVE PacketIInv'
    OBVIOUS
  <1>0. PacketNodeOK /\ grant \in BOOLEAN /\ PacketWorkOK /\ PacketMarkOK
    BY DEF PacketIInv
  <1>1. CASE UNCHANGED Packet!vars
    BY <1>1, <1>0, PacketNodeKept, PacketOthersKeepMark
       DEF Packet!vars, PacketIInv, PacketWorkOK, Packet!Selection, Packet!Obliges, Packet!InScope
  <1>2. ASSUME NEW n \in Packet!Nodes, NEW t \in {"L0", "L3"}, Packet!Promote(n,
        t) \/ Packet!Demote(n, t) PROVE PacketIInv'
    <2>1. work = None /\ work' = work /\ UNCHANGED <<node, grant, mark>>
      BY <1>2 DEF Packet!Promote, Packet!Demote, Packet!Idle
    <2> QED BY <2>1, <1>0, PacketNodeKept, PacketOthersKeepMark DEF PacketIInv, PacketWorkOK
  <1>3. ASSUME NEW n \in Packet!Nodes,
        Packet!Quarantine(n) \/ Packet!LoseAuthority(n) PROVE PacketIInv'
    <2>1. work = None /\ work' = work /\ UNCHANGED <<grant, mark>>
      BY <1>3 DEF Packet!Quarantine, Packet!LoseAuthority, Packet!Idle
    <2>2. "quarantined" \in PacketNodeStatuses(n) BY DEF PacketNodeStatuses
    <2>3. \/ node' = [node EXCEPT ![n] = [node[n] EXCEPT !.status = "quarantined"]]
          \/ node' = [node EXCEPT ![n] = [node[n] EXCEPT !.current = FALSE]]
      BY <1>3 DEF Packet!Quarantine, Packet!LoseAuthority
    <2>4. PacketNodeOK'
      BY <1>0, <2>2, <2>3, PacketNodeShape, PacketNodeMoved
    <2> QED BY <2>1, <2>4, <1>0, PacketOthersKeepMark DEF PacketIInv, PacketWorkOK
  <1>4. ASSUME NEW n \in Packet!Nodes, NEW st \in Statuses[Kind[n]], Packet!SetStatus(n,
        st) PROVE PacketIInv'
    <2>1. work = None /\ work' = work /\ UNCHANGED <<grant, mark>>
      BY <1>4 DEF Packet!SetStatus, Packet!Idle
    <2>2. st \in PacketNodeStatuses(n) BY DEF PacketNodeStatuses
    <2>3. node' = [node EXCEPT ![n] = [node[n] EXCEPT !.status = st]]
      BY <1>4 DEF Packet!SetStatus
    <2>4. PacketNodeOK'
      BY <1>0, <2>2, <2>3, PacketNodeShape, PacketNodeMoved
    <2> QED BY <2>1, <2>4, <1>0, PacketOthersKeepMark DEF PacketIInv, PacketWorkOK
  <1>5. ASSUME NEW b \in Budgets, Packet!Begin(b) PROVE PacketIInv'
    <2>1. UNCHANGED <<node, tier, grant, seq, scope, mark>> BY <1>5 DEF Packet!Begin
    <2>2. work' = [budget |-> b, basis |-> Packet!Basis(scope)] BY <1>5 DEF Packet!Begin
    <2>3. PacketWorkOK'
      <3>1. /\ work'.budget \in Budgets /\ work'.basis.node = node /\ work'.basis.tier = tier
            /\ work'.basis.seq = seq /\ work'.basis.selection = Packet!Selection(scope)
            /\ work'.basis.grant = grant
        BY <2>2 DEF Packet!Basis
      <3>2. Packet!Selection(scope)' = Packet!Selection(scope)
        BY <2>1 DEF Packet!Selection, Packet!Obliges, Packet!InScope
      <3> QED BY <2>1, <3>1, <3>2, <1>0 DEF PacketWorkOK
    <2> QED BY <2>1, <2>3, <1>0, PacketNodeKept, PacketOthersKeepMark DEF PacketIInv
  <1>6. ASSUME NEW record \in BOOLEAN, Packet!Finish(record) PROVE PacketIInv'
    <2>1. UNCHANGED <<node, grant>> /\ work' = None BY <1>6 DEF Packet!Finish
    <2> QED BY <2>1, <1>0, <1>6, PacketNodeKept, PacketFinishMarks DEF PacketIInv, PacketWorkOK
  <1>7. CASE Packet!AppendEvent \/ Packet!ProcessEvent
    <2>1. work = None /\ work' = work /\ UNCHANGED <<node, grant, mark>>
      BY <1>7 DEF Packet!AppendEvent, Packet!ProcessEvent, Packet!Idle
    <2> QED BY <2>1, <1>0, PacketNodeKept, PacketOthersKeepMark DEF PacketIInv, PacketWorkOK
  <1>8. CASE Packet!Expire
    <2>1. UNCHANGED <<tier, seq, work, scope, mark>> BY <1>8 DEF Packet!Expire
    <2>2. CASE grant /\ grant' = FALSE /\ UNCHANGED node
      <3>1. PacketWorkOK'
        BY <1>0, <2>1, <2>2 DEF PacketWorkOK, Packet!Selection, Packet!Obliges, Packet!InScope
      <3> QED BY <2>1, <2>2, <3>1, <1>0, PacketNodeKept, PacketOthersKeepMark DEF PacketIInv
    <2>3. CASE Packet!Idle /\ UNCHANGED grant
                 /\ \E n \in Packet!Nodes : node[n].valid /\ node' = [node EXCEPT ![n].valid = FALSE]
      <3>0. PICK n \in Packet!Nodes : node' = [node EXCEPT ![n] = [node[n] EXCEPT !.valid = FALSE]]
        BY <2>3
      <3>1. PacketNodeOK'
        BY <1>0, <3>0, PacketNodeShape, PacketNodeMoved
      <3> QED BY <2>1, <2>3, <3>1, <1>0, PacketOthersKeepMark DEF PacketIInv, PacketWorkOK,
            Packet!Idle
    <2> QED BY <1>8, <2>2, <2>3 DEF Packet!Expire
  <1>9. CASE Packet!Edit
    <2>1. UNCHANGED <<node, tier, grant, seq, work, scope, mark>> BY <1>9 DEF Packet!Edit
    <2>2. PacketWorkOK'
      BY <1>0, <2>1 DEF PacketWorkOK, Packet!Selection, Packet!Obliges, Packet!InScope
    <2> QED BY <2>1, <2>2, <1>0, PacketNodeKept, PacketOthersKeepMark DEF PacketIInv
  <1> QED BY <1>1, <1>2, <1>3, <1>4, <1>5, <1>6, <1>7, <1>8, <1>9 DEF Packet!Next

\* packet_is_stale: whatever moved since the basis was read, and moved back, a
\* packet that is not reported stale says what composing now would say.
THEOREM PacketsCurrent == Packet!Spec => []CurrentMeansCurrent
  <1>1. PacketIInv => Packet!CurrentMeansCurrent
    <2> SUFFICES ASSUME PacketIInv, Packet!ScopeOpen(scope), ~Packet!Stale
                 PROVE  mark.packet.mandatory = Packet!Mandatory(Packet!Selection(scope),
                       Packet!Basis(scope))
      BY DEF Packet!CurrentMeansCurrent
    <2>1. mark # None /\ mark.basis = Packet!Basis(scope) BY DEF Packet!Stale
    <2> DEFINE b == Packet!Basis(scope)
    <2>2. /\ b.node = node /\ b.tier = tier /\ b.grant = grant
          /\ b.selection = Packet!Selection(scope)
      BY DEF Packet!Basis
    <2>3. mark.packet.mandatory = PacketMandatoryAt(b)
      <3> HIDE DEF b
      <3> QED BY <2>1, <2>2 DEF PacketIInv, PacketMarkOK, b
    <2> HIDE DEF b
    <2>4. Was(b)!Mandatory(b.selection, b) = Packet!Mandatory(b.selection, b)
      BY <2>2, PacketWasSame
    <2> QED BY <2>2, <2>3, <2>4 DEF PacketMandatoryAt, b
  <1>2. PacketIInv => CurrentMeansCurrent BY <1>1 DEF CurrentMeansCurrent
  <1> QED BY <1>2, PacketInitInv, PacketNextInv, PTL DEF Packet!Spec

-----------------------------------------------------------------------------
\* What the two budgets leave of the optional sections, and what must fit.
LEMMA PacketFitsBytes ==
    ASSUME NEW m, NEW opt, NEW budget
    PROVE  LET out == Packet!FitBytes(m, opt, budget) IN
           /\ out.mandatory = m
           /\ out.recent \in {opt.recent, {}} /\ out.verified \in {opt.verified, {}}
           /\ out.fits => \E d \in {0, 1, 2} : Packet!Size(m, out.recent, out.verified, d) <= budget
  <1> DEFINE a == [recent |-> opt.recent, verified |-> opt.verified, dropped |-> 0]
             b == IF a.recent = {} THEN a ELSE [a EXCEPT !.recent = {}, !.dropped = 1]
             c == IF b.verified = {} THEN b ELSE [b EXCEPT !.verified = {}, !.dropped = @ + 1]
             fits(x) == Packet!Size(m, x.recent, x.verified, x.dropped) <= budget
             best == IF fits(a) THEN a ELSE IF fits(b) THEN b ELSE c
  <1>1. a.recent = opt.recent /\ a.verified = opt.verified /\ a.dropped = 0
    OBVIOUS
  <1>2. b.recent = {} /\ b.verified = opt.verified /\ b.dropped \in {0, 1}
    BY <1>1
  <1>3. c.recent = {} /\ c.verified = {} /\ c.dropped \in {0, 1, 2}
    BY <1>2
  <1>4. Packet!FitBytes(m, opt, budget) =
           [fits |-> fits(best), recent |-> best.recent, verified |-> best.verified,
            mandatory |-> m]
    BY DEF Packet!FitBytes
  <1>5. best \in {a, b, c}
    OBVIOUS
  <1> HIDE DEF a, b, c, best
  <1>6. /\ best.recent \in {opt.recent, {}} /\ best.verified \in {opt.verified, {}}
        /\ best.dropped \in {0, 1, 2}
    BY <1>1, <1>2, <1>3, <1>5
  <1>7. fits(best) => \E d \in {0, 1, 2} : Packet!Size(m, best.recent, best.verified, d) <= budget
    BY <1>6
  <1> HIDE DEF fits
  <1>8. /\ Packet!FitBytes(m, opt, budget).mandatory = m
        /\ Packet!FitBytes(m, opt, budget).recent = best.recent
        /\ Packet!FitBytes(m, opt, budget).verified = best.verified
        /\ Packet!FitBytes(m, opt, budget).fits = fits(best)
    BY <1>4
  <1> QED BY <1>6, <1>7, <1>8

LEMMA PacketFitsTokens ==
    ASSUME NEW m, NEW recent, NEW verified, NEW budget
    PROVE  /\ Packet!FitTokens(m, recent, verified, budget).recent \subseteq recent
           /\ Packet!FitTokens(m, recent, verified, budget).verified \subseteq verified
  BY DEF Packet!FitTokens, Packet!Lowest

\* A packet that is composed is clean, and its mandatory part fits.
LEMMA PacketComposedIsClean ==
    ASSUME NEW sel, NEW basis, NEW budget, NEW p, p = Packet!Composed(sel, basis, budget), p # None
    PROVE  /\ p.mandatory = Packet!Mandatory(sel, basis)
           /\ p.recent \subseteq Packet!Nodes /\ p.verified \subseteq Packet!Nodes
           /\ \A n \in Packet!MandatoryNodes(p.mandatory) \cup p.recent \cup p.verified : ~Packet!Tainted(n)
           /\ \E d \in {0, 1, 2} :
                 Packet!Size(p.mandatory, p.recent, p.verified, d) <= budget.bytes
  <1> DEFINE m == Packet!Mandatory(sel, basis)
             cut == Packet!FitTokens(m, Packet!Recent(sel), Packet!Verified(sel), budget.tokens)
             clean == [recent |-> {n \in cut.recent : ~Packet!Tainted(n)},
                       verified |-> {n \in cut.verified : ~Packet!Tainted(n)}]
             out == Packet!FitBytes(m, clean, budget.bytes)
  <1>1. /\ ~\E n \in Packet!MandatoryNodes(m) : Packet!Tainted(n)
        /\ out.fits
        /\ p = [mandatory |-> out.mandatory, recent |-> out.recent, verified |-> out.verified]
    BY DEF Packet!Composed
  <1>2. /\ out.mandatory = m
        /\ out.recent \in {clean.recent, {}} /\ out.verified \in {clean.verified, {}}
        /\ \E d \in {0, 1, 2} : Packet!Size(m, out.recent, out.verified, d) <= budget.bytes
    <2> HIDE DEF m, clean
    <2> QED BY <1>1, PacketFitsBytes
  <1>3. cut.recent \subseteq Packet!Recent(sel) /\ cut.verified \subseteq Packet!Verified(sel)
    <2> HIDE DEF m
    <2> QED BY PacketFitsTokens
  <1>4. Packet!Recent(sel) \subseteq Packet!Nodes /\ Packet!Verified(sel) \subseteq Packet!Nodes
    BY DEF Packet!Recent, Packet!Verified, Packet!Tasks
  <1>5. /\ clean.recent \subseteq Packet!Nodes /\ \A n \in clean.recent : ~Packet!Tainted(n)
        /\ clean.verified \subseteq Packet!Nodes /\ \A n \in clean.verified : ~Packet!Tainted(n)
    BY <1>3, <1>4
  <1> HIDE DEF m, cut, clean, out
  <1>6. /\ p.mandatory = m /\ p.recent = out.recent /\ p.verified = out.verified
    BY <1>1, <1>2
  <1> QED BY <1>1, <1>2, <1>5, <1>6 DEF m

LEMMA PacketNodesFinite ==
    ASSUME NEW S, S \subseteq Packet!Nodes
    PROVE  IsFiniteSet(S) /\ Cardinality(S) \in Nat
  <1>1. IsFiniteSet(Packet!Nodes) BY PacketsOK, FS_Interval DEF Packet!Nodes
  <1> QED BY <1>1, FS_Subset, FS_CardinalityType

\* The controls of a selection, and which nodes they are.
LEMMA PacketControlsOf ==
    ASSUME NEW s
    PROVE  LET cs == Packet!Selection(s).controls IN
           /\ {c[1] : c \in cs} = {n \in Packet!Nodes : Packet!Obliges(n) /\ Packet!InScope(n, s)}
           /\ Cardinality(cs) \in Nat
  <1> DEFINE S == {n \in Packet!Nodes : Packet!Obliges(n) /\ Packet!InScope(n, s)}
             f == [n \in S |-> <<n, node[n].status>>]
             cs == {<<n, node[n].status>> : n \in S}
  <1>1. Packet!Selection(s).controls = cs
    BY DEF Packet!Selection
  <1>2. {c[1] : c \in cs} = S
    <2>1. \A n \in S : <<n, node[n].status>> \in cs /\ <<n, node[n].status>>[1] = n
      OBVIOUS
    <2>2. \A c \in cs : \E n \in S : c = <<n, node[n].status>>
      OBVIOUS
    <2> DEFINE T == {c[1] : c \in cs}
    <2>3. \A n : n \in T <=> \E c \in cs : n = c[1]
      OBVIOUS
    <2> HIDE DEF S, cs, T
    <2>4. \A n \in S : n \in T
      BY <2>1, <2>3
    <2>5. \A n \in T : n \in S
      BY <2>2, <2>3
    <2> QED BY <2>4, <2>5 DEF T
  <1>3. IsFiniteSet(S) BY PacketNodesFinite
  <1>4. f \in Surjection(S, cs)
    BY DEF Surjection
  <1> HIDE DEF f, cs, S
  <1>5. IsFiniteSet(cs) BY <1>3, <1>4, FS_Surjection
  <1> QED BY <1>1, <1>2, <1>5, FS_CardinalityType DEF S

LEMMA PacketFinishIsComplete ==
    ASSUME PacketIInv, NEW record \in BOOLEAN, Packet!Finish(record), issued' # None
    PROVE  Packet!PacketsComplete
  <1> DEFINE b == work.basis
             p == issued'
             m == p.mandatory
             sel == Packet!Selection(scope)
  <1>1. /\ work # None /\ PacketWorkOK /\ PacketNodeOK
    BY DEF PacketIInv, Packet!Finish
  <1>2. p = Packet!Composed(sel, b, work.budget) /\ work.budget \in Budgets
    BY <1>1 DEF PacketWorkOK, Packet!Finish
  <1>3. /\ m = Packet!Mandatory(sel, b)
        /\ p.recent \subseteq Packet!Nodes /\ p.verified \subseteq Packet!Nodes
        /\ \A n \in Packet!MandatoryNodes(m) \cup p.recent \cup p.verified : ~Packet!Tainted(n)
        /\ \E d \in {0, 1, 2} : Packet!Size(m, p.recent, p.verified, d) <= work.budget.bytes
    BY <1>2, PacketComposedIsClean
  <1> DEFINE l0 == {n \in Packet!L0 : Packet!Applies(sel, n)}
             pins == {n \in Packet!Nodes : tier[n] = "L0" /\ n \notin Packet!Quarantined}
             open == {t \in Packet!Tasks : /\ node[t].status \in {"open", "blocked"}
                                    /\ node[t].current /\ Packet!Applies(sel, t)}
  <1>4. /\ m.control = sel.controls
        /\ m.mission = Packet!Mission(l0)
        /\ m.withheld = Cardinality(pins) - Cardinality(l0) - Cardinality(pins \cap sel.excluded)
        /\ m.work.tasks = open
    BY <1>3, PacketCounts DEF Packet!Mandatory, Packet!OpenWork
  <1>5. l0 \subseteq pins /\ l0 \subseteq Packet!Nodes /\ open \subseteq Packet!Nodes
    BY DEF Packet!L0, Packet!Tasks
  <1>6. Packet!MandatoryComplete
    <2>1. /\ {c[1] : c \in m.control} = {n \in Packet!Nodes : Packet!Obliges(n) /\ Packet!InScope(n, scope)}
          /\ Cardinality(m.control) \in Nat
      BY <1>4, PacketControlsOf
    <2>2. /\ Cardinality(m.work.tasks) \in Nat /\ Cardinality(p.recent) \in Nat
          /\ Cardinality(p.verified) \in Nat
      BY <1>3, <1>4, <1>5, PacketNodesFinite
    <2>3. work.budget.bytes \in Int BY <1>2, PacketsOK
    <2>4. 2 * Cardinality(m.control) <= work.budget.bytes
      <3> HIDE DEF p, m
      <3> QED BY <2>1, <2>2, <2>3, <1>3, PacketCounts DEF Packet!Size
    <2> QED BY <2>1, <2>4, PacketCounts DEF Packet!MandatoryComplete
  <1>7. Packet!NothingQuarantinedLeaves
    <2>1. /\ {c[1] : c \in m.control} \subseteq Packet!Nodes /\ m.mission.pinned \subseteq Packet!Nodes
          /\ m.work.tasks \subseteq Packet!Nodes
      <3>1. m.mission.pinned \subseteq l0 BY <1>4 DEF Packet!Mission
      <3>2. {c[1] : c \in m.control} = {n \in Packet!Nodes : Packet!Obliges(n) /\ Packet!InScope(n, scope)}
        BY <1>4, PacketControlsOf
      <3> QED BY <1>4, <1>5, <3>1, <3>2
    <2>2. \A n \in Packet!Nodes : ~Packet!Tainted(n) => n \notin Packet!Quarantined /\ Echo[n] \cap Packet!Quarantined = {}
      BY PacketsOK DEF Packet!Tainted
    <2> HIDE DEF p
    <2> QED BY <1>3, <2>1, <2>2 DEF Packet!NothingQuarantinedLeaves, Packet!MandatoryNodes, p
  <1>8. Packet!PinsBind
    <2>1. /\ m.mission.pinned = {n \in l0 : node[n].status \notin Packet!Retired}
          /\ m.mission.retired = {n \in l0 : node[n].status \in Packet!Retired}
      BY <1>4 DEF Packet!Mission
    <2>2. \A n \in l0 : node[n].current /\ n \notin Packet!Quarantined
                          /\ (Kind[n] # "plan" => node[n].status \notin Packet!Down)
      BY DEF Packet!L0, Packet!L0IsBinding
    <2>3. \A n \in m.mission.pinned : Kind[n] = "control" => node[n].status = "active"
      <3> SUFFICES ASSUME NEW n \in m.mission.pinned, Kind[n] = "control"
                   PROVE  node[n].status = "active"
        OBVIOUS
      <3>1. n \in Packet!Nodes /\ n \in l0 BY <2>1, <1>5
      <3>2. node[n].status \in Statuses["control"] \cup {"quarantined"}
        BY <3>1, <1>1 DEF PacketNodeOK, PacketNodeStatuses
      <3>3. node[n].status # "quarantined"
        BY <3>1, <2>2 DEF Packet!Quarantined
      <3>4. node[n].status \notin Packet!Down /\ node[n].status \notin Packet!Retired
        BY <3>1, <2>1, <2>2
      <3> QED BY <3>2, <3>3, <3>4, PacketsOK
    <2>4. ASSUME scope = Packet!Project
          PROVE  Cardinality(pins) = Cardinality(m.mission.pinned) + Cardinality(m.mission.retired)
                                       + m.withheld
      <3>1. sel.excluded = {} BY <2>4 DEF Packet!Selection, Packet!InScope
      <3>2. Cardinality(pins \cap sel.excluded) = 0 BY <3>1, FS_EmptySet
      <3> DEFINE P == m.mission.pinned
                 R == m.mission.retired
      <3>3. P \cup R = l0 /\ P \cap R = {} BY <2>1
      <3>4. IsFiniteSet(P) /\ IsFiniteSet(R) /\ Cardinality(P) \in Nat /\ Cardinality(R) \in Nat
            /\ Cardinality(pins) \in Nat
        BY <2>1, <1>5, PacketNodesFinite
      <3>5. Cardinality(l0) = Cardinality(P) + Cardinality(R)
        <4> HIDE DEF P, R, l0
        <4>1. Cardinality(P \cup R) = Cardinality(P) + Cardinality(R) - Cardinality(P \cap R)
          BY <3>4, FS_Union
        <4>2. Cardinality(P \cap R) = 0 BY <3>3, FS_EmptySet
        <4>3. Cardinality(P \cup R) = Cardinality(l0) BY <3>3
        <4>4. Cardinality(P \cup R) = Cardinality(P) + Cardinality(R) - 0 BY <4>1, <4>2
        <4> QED BY <4>3, <4>4, <3>4
      <3> HIDE DEF P, R, l0, pins, m
      <3> QED BY <1>4, <3>2, <3>4, <3>5 DEF P, R
    <2> QED BY <2>1, <2>2, <2>3, <2>4, PacketCounts DEF Packet!PinsBind
  <1> QED BY <1>6, <1>7, <1>8 DEF Packet!PacketsComplete

\* compose: however small the budgets and whatever was quarantined by then, a packet
\* that is returned holds every control that obliges its scope, shows nothing that is
\* quarantined or quotes it, and pins only what binds.
THEOREM PacketsAreComplete == Packet!Spec => PacketsComplete
  <1>1. PacketIInv /\ [Packet!Next]_(Packet!vars) => [Packet!PacketsComplete]_(Packet!vars)
    <2> SUFFICES ASSUME PacketIInv,
          [Packet!Next]_(Packet!vars) PROVE Packet!PacketsComplete \/ UNCHANGED Packet!vars
      OBVIOUS
    <2>1. CASE issued' = issued \/ issued' = None
      BY <2>1 DEF Packet!PacketsComplete, Packet!MandatoryComplete,
            Packet!NothingQuarantinedLeaves, Packet!PinsBind
    <2>2. CASE \E record \in BOOLEAN : Packet!Finish(record) /\ issued' # None
      BY <2>2, PacketFinishIsComplete
    <2>3. \/ issued' = issued \/ issued' = None
          \/ \E record \in BOOLEAN : Packet!Finish(record)
      BY DEF Packet!Next, Packet!vars, Packet!Promote, Packet!Demote, Packet!Quarantine,
            Packet!LoseAuthority, Packet!SetStatus, Packet!Begin,
             Packet!AppendEvent, Packet!ProcessEvent, Packet!Expire, Packet!Edit, Packet!Step
    <2> QED BY <2>1, <2>2, <2>3
  <1>2. PacketIInv /\ [Packet!Next]_(Packet!vars) => [Packet!PacketsComplete]_packetVars
    BY <1>1 DEF packetVars, Packet!vars
  <1> QED BY <1>2, PacketInitInv, PacketNextInv, PTL DEF Packet!Spec, PacketsComplete

(* ------------------------------- together ------------------------------- *)

\* A behaviour of the whole is a behaviour of each part.
LEMMA PartsKept ==
    ReadingsSpec => Spec /\ Packet!Spec /\ Recover!Spec /\ Snapshot!Spec
  <1>1. ReadingsInit => Init /\ Packet!Init /\ Recover!Init /\ Snapshot!Init
    BY DEF ReadingsInit
  <1>2. [ReadingsNext]_all =>
           /\ [Next]_vars /\ [Packet!Next]_(Packet!vars)
           /\ [Recover!Next]_(Recover!vars) /\ [Snapshot!Next]_(Snapshot!vars)
    BY DEF ReadingsNext, all, vars, packetVars, recoverVars, snapshotVars, Packet!vars,
           Recover!vars, Snapshot!vars
  <1> QED BY <1>1, <1>2, PTL DEF ReadingsSpec, Spec, Packet!Spec, Recover!Spec, Snapshot!Spec

\* Whichever part moves, answers are of one moment, a packet said to be current is,
\* and packets of both kinds are clean.
THEOREM ReadingsSafe ==
    ReadingsSpec => [](AnswersAreOneMoment /\ CurrentMeansCurrent /\ PacketIsClean)
                      /\ PacketsComplete
  BY PartsKept, SessionsAnswerOneMoment, PacketsCurrent, RecoveryClean, PacketsAreComplete, PTL
=============================================================================
