---------------------------- MODULE CanonicalLog ----------------------------
(***************************************************************************)
(* What the event log promises its callers, with no SQLite in sight: every *)
(* delivery takes effect in one indivisible step, an idempotency key is    *)
(* given to one body for ever, a changed redelivery is flagged, and the    *)
(* only thing that is ever taken away is a payload.                        *)
(***************************************************************************)
EXTENDS Integers, Sequences

CONSTANTS Procs, Scopes, Keys, Contents, MaxBatch

VARIABLES
    log,     \* the accepted events, in order
    flags,   \* changed redeliveries on record
    reply    \* what each process was last told: an outcome and the delivery

Item == [scope: Scopes, key: Keys, content: Contents, retained: BOOLEAN]

Delivery == [scope: Scopes, key: Keys, content: Contents]

NoReply == [outcome |-> "none", on |-> << >>]

Init == /\ log = << >>
        /\ flags = {}
        /\ reply = [p \in Procs |-> NoReply]

Holds(l, d) == \E i \in DOMAIN l : l[i].scope = d.scope /\ l[i].key = d.key

Told(p, outcome, d) == reply' = [reply EXCEPT ![p] = [outcome |-> outcome, on |-> d]]

\* The first body to arrive under its key.
Accept(p, d) ==
    /\ ~Holds(log, d)
    /\ log' = Append(log, [scope |-> d.scope, key |-> d.key,
                           content |-> d.content, retained |-> TRUE])
    /\ Told(p, "accepted", d)
    /\ UNCHANGED flags

\* The same body again.
Recognise(p, d) ==
    /\ \E i \in DOMAIN log : /\ log[i].scope = d.scope
                             /\ log[i].key = d.key
                             /\ log[i].content = d.content
    /\ Told(p, "duplicate", d)
    /\ UNCHANGED <<log, flags>>

\* Another body under a key already given away.
Flag(p, d) ==
    \E i \in DOMAIN log :
        /\ log[i].scope = d.scope
        /\ log[i].key = d.key
        /\ log[i].content # d.content
        /\ flags' = flags \cup {[key |-> d.key, existing |-> log[i].content,
                                 new |-> d.content]}
        /\ Told(p, "mismatch", d)
        /\ UNCHANGED log

\* A transaction's whole effect at its commit: some payloads cleared and some
\* events accepted, each under a key that was free.
Decide ==
    /\ log' \in Seq(Item)
    /\ Len(log') \in Len(log)..(Len(log) + MaxBatch)
    /\ \A i \in DOMAIN log : log'[i] \in {log[i], [log[i] EXCEPT !.retained = FALSE]}
    /\ \A i \in DOMAIN log' \ DOMAIN log : ~Holds(SubSeq(log', 1, i - 1), log'[i])
    /\ UNCHANGED <<flags, reply>>

\* A process turns to something that is no delivery, and is told of that.
TurnAway(p) ==
    /\ reply' = [reply EXCEPT ![p] = NoReply]
    /\ UNCHANGED <<log, flags>>

Next ==
    \/ \E p \in Procs, d \in Delivery : Accept(p, d) \/ Recognise(p, d) \/ Flag(p, d)
    \/ Decide
    \/ \E p \in Procs : TurnAway(p)

Spec == Init /\ [][Next]_<<log, flags, reply>>
=============================================================================
