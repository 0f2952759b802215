----------------------------- MODULE McpSession -----------------------------
(***************************************************************************)
(* The MCP server: a stdio session that must complete its handshake, opens *)
(* the project's database read-only at the first tool call, and answers    *)
(* from that immutable view, while writers in other processes open the     *)
(* database, commit to its write-ahead log, checkpoint, close or crash.    *)
(*                                                                         *)
(* The database has two pages and every commit writes both, so a torn read *)
(* shows.  An immutable connection reads the main file only.  The file's   *)
(* identity (inode, size, times) changes with every write to it.           *)
(***************************************************************************)
EXTENDS Integers, FiniteSets, Sequences, SequencesExt

CONSTANTS
    MaxCommits,   \* commits of the writers
    MaxWrites,    \* page writes to the main file
    MaxCalls,     \* tool calls of one session
    None

VARIABLES
    file,      \* main pages, identity, log (None: no frames), sidecars present
    writer,    \* the writing process: "none", "open", or closing page by page
    session,   \* handshake state and the identity the view was opened at
    call,      \* the call in progress, or None
    replies    \* replies to tool calls, in order; cleared by a reconnect

vars == <<file, writer, session, call, replies>>

\* What a connection that honours the log would read.
Content == IF file.log # None THEN file.log ELSE file.main[1]

(* ------------------------------- the writers ---------------------------- *)

Reader == <<session, call, replies>>

\* Opening for writing makes the sidecars; what a crash left is recovered.
WriterOpens ==
    /\ writer = "none"
    /\ writer' = "open"
    /\ file' = [file EXCEPT !.sidecars = TRUE]
    /\ UNCHANGED Reader

\* A call in progress is told of the contents it has lived through.
Lived(v) == IF call = None THEN call' = None ELSE call' = [call EXCEPT !.lived = @ \cup {v}]

WriterCommits ==
    /\ writer = "open"
    /\ Content < MaxCommits
    /\ file' = [file EXCEPT !.log = Content + 1]
    /\ Lived(Content + 1)
    /\ UNCHANGED <<writer, session, replies>>

\* A checkpoint copies the log into the main file, page by page.
Checkpoint(page) ==
    /\ writer = IF page = 1 THEN "open" ELSE "checkpointing"
    /\ file.log # None
    /\ file.identity < MaxWrites
    /\ file' = [file EXCEPT !.main[page] = file.log, !.identity = @ + 1,
                            !.log = IF page = 2 THEN None ELSE @]
    /\ writer' = IF page = 1 THEN "checkpointing" ELSE "open"
    /\ UNCHANGED Reader

\* The last connection closes only with an empty log, and takes the sidecars.
WriterCloses ==
    /\ writer = "open"
    /\ file.log = None
    /\ file' = [file EXCEPT !.sidecars = FALSE]
    /\ writer' = "none"
    /\ UNCHANGED Reader

WriterCrashes ==
    /\ writer # "none"
    /\ writer' = "none"
    /\ UNCHANGED file /\ UNCHANGED Reader

(* ------------------------------- the session ---------------------------- *)

World == <<file, writer>>

Initialize ==
    /\ session.state = "new"
    /\ session' = [session EXCEPT !.state = "initializing"]
    /\ UNCHANGED <<call, replies>> /\ UNCHANGED World

\* A notification is one-way and completes the handshake only in its turn.
Initialized ==
    /\ session.state = "initializing"
    /\ call = None
    /\ session' = [session EXCEPT !.state = "ready"]
    /\ UNCHANGED <<call, replies>> /\ UNCHANGED World

\* Bug: a call is served as soon as the client has asked to initialize.
MutAdmitted == session.state # "new"

\* Everything but ping and initialize waits for the handshake.
Admitted == session.state = "ready"

\* A tool call arrives; it is refused before the handshake.
Receive ==
    /\ call = None
    /\ Len(replies) < MaxCalls
    /\ IF Admitted
       THEN /\ call' = [step |-> IF session.view = None THEN "sidecars" ELSE "before",
                        pages |-> <<>>, lived |-> {Content}]
            /\ UNCHANGED replies
       ELSE /\ replies' = Append(replies, None)
            /\ UNCHANGED call
    /\ UNCHANGED session /\ UNCHANGED World

\* Bug: a refusal drops the view, and the next call opens the file anew.
MutRefuse ==
    /\ call' = None
    /\ replies' = Append(replies, None)
    /\ session' = [session EXCEPT !.view = None]

\* A failure is a reply; the view stays as it was opened.
Refuse ==
    /\ call' = None
    /\ replies' = Append(replies, None)
    /\ UNCHANGED session

To(step) == call' = [call EXCEPT !.step = step] /\ UNCHANGED <<session, replies>>

\* Store.__init__: no sidecars, then the identity, then the connection.
OpenChecksSidecars ==
    /\ call # None /\ call.step = "sidecars"
    /\ IF file.sidecars THEN Refuse ELSE To("identity")
    /\ UNCHANGED World

OpenTakesIdentity ==
    /\ call # None /\ call.step = "identity"
    /\ call' = [call EXCEPT !.step = "opening", !.pages = <<file.identity>>]
    /\ UNCHANGED <<session, replies>> /\ UNCHANGED World

\* _assert_read_only_source_unchanged at the end of the open; the view is
\* kept only when it holds.
OpenLooksAgain ==
    /\ call # None /\ call.step = "opening"
    /\ IF file.identity # call.pages[1] THEN Refuse ELSE To("settling")
    /\ UNCHANGED World

OpenSettles ==
    /\ call # None /\ call.step = "settling"
    /\ IF file.sidecars THEN Refuse
       ELSE /\ session' = [session EXCEPT !.view = call.pages[1]]
            /\ call' = [call EXCEPT !.step = "before", !.pages = <<>>]
            /\ UNCHANGED replies
    /\ UNCHANGED World

\* Bug: only the file is compared; a log beside it is not looked for.
MutLogBeside == FALSE

\* The second half of each assertion.
LogBeside == file.sidecars

\* The first half: the file is the one that was opened.
SourceChanged == file.identity # session.view

Look(step, next) ==
    /\ call # None /\ call.step = step
    /\ IF SourceChanged THEN Refuse ELSE To(next)
    /\ UNCHANGED World

Before == Look("before", "quiet")

Quiet ==
    /\ call # None /\ call.step = "quiet"
    /\ IF LogBeside THEN Refuse ELSE To("read")
    /\ UNCHANGED World

ReadPage ==
    /\ call # None /\ call.step = "read"
    /\ call' = [call EXCEPT !.pages = Append(@, file.main[Len(@) + 1]),
                            !.step = IF Len(call.pages) = 1 THEN "after" ELSE "read"]
    /\ UNCHANGED <<session, replies>> /\ UNCHANGED World

After == Look("after", "answer")

Answer ==
    /\ call # None /\ call.step = "answer"
    /\ IF LogBeside THEN Refuse
       ELSE /\ replies' = Append(replies, [pages |-> call.pages, lived |-> call.lived])
            /\ call' = None
            /\ UNCHANGED session
    /\ UNCHANGED World

\* The client closes the session and connects again.
Reconnect ==
    /\ call = None
    /\ session.state # "new"
    /\ session' = [state |-> "new", view |-> None]
    /\ replies' = <<>>
    /\ UNCHANGED call /\ UNCHANGED World

(* ----------------------------- specification ---------------------------- *)

Init ==
    /\ file = [main |-> <<0, 0>>, identity |-> 0, log |-> None, sidecars |-> FALSE]
    /\ writer = "none"
    /\ session = [state |-> "new", view |-> None]
    /\ call = None
    /\ replies = <<>>

Next ==
    \/ WriterOpens \/ WriterCommits \/ WriterCloses \/ WriterCrashes
    \/ \E page \in {1, 2} : Checkpoint(page)
    \/ Initialize \/ Initialized \/ Receive
    \/ OpenChecksSidecars \/ OpenTakesIdentity \/ OpenLooksAgain \/ OpenSettles
    \/ Before \/ Quiet \/ ReadPage \/ After \/ Answer
    \/ Reconnect

Spec == Init /\ [][Next]_vars

(* ------------------------------ properties ------------------------------ *)

Answers == {r \in ToSet(replies) : r # None}

\* The database is not opened, and nothing is answered, for a client that
\* has not completed the handshake (mcp.py _handle).
UntouchedBeforeReady ==
    session.state # "ready" => session.view = None /\ call = None /\ Answers = {}

\* An answer is the database as it was committed at one moment of the call:
\* neither torn by a checkpoint that ran beside it nor behind a commit that
\* was there before the call, although the view ignores the log
\* (store.py _assert_read_only_source_unchanged before and after the read).
AnswersAreCurrent ==
    \A r \in Answers : r.pages[1] = r.pages[2] /\ r.pages[1] \in r.lived

\* All answers of one session are one snapshot: a session never moves on to
\* what a writer committed meanwhile (docs/MCP.md:293).
OneSnapshotPerSession == \A r, s \in Answers : r.pages = s.pages

\* A session answers after its handshake only, from one committed moment
\* (mcp.py _handle, store.py _assert_read_only_source_unchanged).
AnswersAreOneMoment == UntouchedBeforeReady /\ AnswersAreCurrent /\ OneSnapshotPerSession
=============================================================================
