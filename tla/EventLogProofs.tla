--------------------------- MODULE EventLogProofs ---------------------------
(***************************************************************************)
(* The event store's safety properties, for any number of processes, keys, *)
(* bodies, blobs and nested savepoints.                                    *)
(*                                                                         *)
(* What is committed is sound because of what is not committed yet: the    *)
(* lock owner's working copy, and every savepoint it may roll back to, is  *)
(* itself a sound database that continues the committed one.  Only the     *)
(* writer lock makes that stable while other processes run.                *)
(***************************************************************************)
EXTENDS EventLog, SequenceTheorems, FiniteSetTheorems, TLAPS

\* A database in order, whose event_seq is n ahead of its events: n is 1
\* between the bump and the INSERT of _append_event, and 0 otherwise.
Sound(d, n) ==
    /\ d \in Database
    /\ d.seq = Len(d.events) + n
    /\ \A i \in DOMAIN d.events : d.events[i].entry.seq = i
    /\ KeysUnique(d)
    /\ EventChainIntact(d)
    /\ AuditChainIntact(d)

-----------------------------------------------------------------------------
(* Facts about databases.                                                  *)

\* The fields of a database have their types.
LEMMA DatabaseFields ==
    ASSUME NEW d \in Database
    PROVE  /\ d.events \in Seq(Event)
           /\ Len(d.events) \in Nat
           /\ DOMAIN d.events = 1..Len(d.events)
           /\ d.seq \in 0..MaxEvents
           /\ d.mismatches \subseteq Mismatch
           /\ d.audit \in Seq(AuditRow)
           /\ Len(d.audit) \in Nat
           /\ DOMAIN d.audit = 1..Len(d.audit)
           /\ d.blobs \in [Blobs -> BlobRow]
  <1>1. /\ d.events \in Seq(Event) /\ d.audit \in Seq(AuditRow)
        /\ d.seq \in 0..MaxEvents /\ d.mismatches \subseteq Mismatch
        /\ d.blobs \in [Blobs -> BlobRow]
    BY DEF Database
  <1> QED BY <1>1, LenProperties

\* The rows of a database have their types.
LEMMA DatabaseRows ==
    ASSUME NEW d \in Database
    PROVE  /\ \A i \in DOMAIN d.events :
                 /\ d.events[i] \in Event
                 /\ d.events[i].entry \in Entry
                 /\ d.events[i].payload \in BOOLEAN
                 /\ d.events[i].prev \in Seq(Entry)
                 /\ d.events[i].hash \in Seq(Entry)
           /\ \A i \in DOMAIN d.audit :
                 /\ d.audit[i] \in AuditRow
                 /\ d.audit[i].hash \in Seq(AuditEntry)
  <1>1. \A i \in DOMAIN d.events : d.events[i] \in Event
    BY DatabaseFields, ElementOfSeq
  <1>2. \A i \in DOMAIN d.audit : d.audit[i] \in AuditRow
    BY DatabaseFields, ElementOfSeq
  <1> QED BY <1>1, <1>2 DEF Event, AuditRow

\* Continuing is reflexive and transitive.
LEMMA ExtendsReflexive ==
    ASSUME NEW d \in Database
    PROVE  Extends(d, d)
  BY DatabaseFields DEF Extends

\* A continuation of a continuation is a continuation.
LEMMA ExtendsTransitive ==
    ASSUME NEW d1 \in Database, NEW d2 \in Database, NEW d3 \in Database,
           Extends(d1, d2), Extends(d2, d3)
    PROVE  Extends(d1, d3)
  <1>1. /\ Len(d1.events) <= Len(d3.events)
        /\ \A i \in DOMAIN d1.events : i \in DOMAIN d2.events
        /\ Len(d1.audit) <= Len(d3.audit)
        /\ \A i \in DOMAIN d1.audit : i \in DOMAIN d2.audit
    BY DatabaseFields DEF Extends
  <1>2. \A i \in DOMAIN d1.events :
          /\ d3.events[i].entry = d1.events[i].entry
          /\ d3.events[i].prev = d1.events[i].prev
          /\ d3.events[i].hash = d1.events[i].hash
          /\ d3.events[i].payload => d1.events[i].payload
    BY <1>1, Zenon DEF Extends
  <1>3. \A i \in DOMAIN d1.audit : d3.audit[i] = d1.audit[i]
    BY <1>1, Zenon DEF Extends
  <1>4. d1.mismatches \subseteq d3.mismatches
    BY DEF Extends
  <1>5. \A b \in Blobs :
          /\ d1.blobs[b].meta # Absent => d3.blobs[b].meta = d1.blobs[b].meta
          /\ d1.blobs[b].deleted => d3.blobs[b].deleted
    BY Zenon DEF Extends
  <1> QED BY <1>1, <1>2, <1>3, <1>4, <1>5 DEF Extends

\* The empty database is sound.
LEMMA EmptyDbSound == Sound(EmptyDb, 0)
  <1>1. EmptyDb \in Database
    <2>1. << >> \in Seq(Event) /\ << >> \in Seq(AuditRow) /\ 0 \in 0..MaxEvents
      BY EmptySeq, BoundsAssumption
    <2>2. [b \in Blobs |-> [meta |-> Absent, deleted |-> FALSE]] \in [Blobs -> BlobRow]
      BY DEF BlobRow
    <2> QED BY <2>1, <2>2 DEF EmptyDb, Database
  <1>2. EmptyDb.events = << >> /\ EmptyDb.audit = << >> /\ EmptyDb.seq = 0
    BY DEF EmptyDb
  <1> QED BY <1>1, <1>2, EmptySeq DEF Sound, KeysUnique, EventChainIntact, AuditChainIntact

\* In a sound database ORDER BY seq DESC LIMIT 1 finds the last event's hash.
LEMMA EventTipIsLast ==
    ASSUME NEW d, NEW n, Sound(d, n)
    PROVE  /\ EventTip(d) \in Seq(Entry)
           /\ d.events = << >> => EventTip(d) = GENESIS
           /\ d.events # << >> => EventTip(d) = d.events[Len(d.events)].hash
  <1>1. CASE d.events = << >>
    BY <1>1, EmptySeq DEF EventTip, GENESIS
  <1>2. CASE d.events # << >>
    <2> DEFINE IsLast(i) == \A j \in DOMAIN d.events :
                              d.events[j].entry.seq <= d.events[i].entry.seq
    <2>1. Len(d.events) \in DOMAIN d.events /\ DOMAIN d.events = 1..Len(d.events)
      BY <1>2, DatabaseFields, EmptySeq DEF Sound
    <2>2. Len(d.events) \in Nat /\ \A i \in DOMAIN d.events : d.events[i].entry.seq = i
      BY DatabaseFields DEF Sound
    <2>3. \A i \in DOMAIN d.events : IsLast(i) <=> i = Len(d.events)
      BY <2>1, <2>2
    <2>4. (CHOOSE i \in DOMAIN d.events : IsLast(i)) = Len(d.events)
      BY <2>1, <2>3
    <2>5. EventTip(d) = d.events[Len(d.events)].hash
      BY <1>2, <2>4 DEF EventTip
    <2> QED BY <1>2, <2>1, <2>5, DatabaseRows DEF Sound
  <1> QED BY <1>1, <1>2

-----------------------------------------------------------------------------
(* What each write does to a sound database.                               *)

\* The arguments of a delivery.
IsDelivery(r) == r.scope \in Scopes /\ r.key \in Keys /\ r.content \in Contents

\* The INSERT of a fresh key extends the log by one well-linked row.
LEMMA InsertEventSound ==
    ASSUME NEW d, Sound(d, 1), NEW r, IsDelivery(r), Holders(d, r.scope, r.key) = {}
    PROVE  Sound(WithEvent(d, r), 0) /\ Extends(d, WithEvent(d, r))
  <1> DEFINE entry == [scope |-> r.scope, key |-> r.key, digest |-> r.content,
                       stored |-> Capture[r.content], seq |-> d.seq]
             row == [entry |-> entry, payload |-> TRUE, prev |-> EventTip(d),
                     hash |-> Link(EventTip(d), entry)]
             d2 == WithEvent(d, r)
             n == Len(d.events)
  <1>1. d \in Database
    BY DEF Sound
  <1>2. /\ d.events \in Seq(Event) /\ n \in Nat /\ DOMAIN d.events = 1..n
        /\ d.seq = n + 1 /\ d.seq \in 0..MaxEvents
    BY <1>1, DatabaseFields DEF Sound
  <1>3. entry \in Entry
    BY <1>2, NamesAssumption, BoundsAssumption DEF Entry, IsDelivery
  <1>4. row \in Event
    <2>1. EventTip(d) \in Seq(Entry)
      BY EventTipIsLast
    <2>2. Link(EventTip(d), entry) \in Seq(Entry)
      BY <1>3, <2>1, AppendProperties DEF Link
    <2> QED BY <1>3, <2>1, <2>2 DEF Event
  <1> HIDE DEF entry, row
  <1>5. d2 = [d EXCEPT !.events = Append(@, row)]
    BY DEF WithEvent, row, entry
  <1>6. /\ d2.events = Append(d.events, row)
        /\ d2.seq = d.seq /\ d2.mismatches = d.mismatches
        /\ d2.audit = d.audit /\ d2.blobs = d.blobs
    BY <1>1, <1>5 DEF Database
  <1>7. d2 \in Database
    <2>1. Append(d.events, row) \in Seq(Event)
      BY <1>2, <1>4, AppendProperties
    <2> QED BY <1>1, <1>5, <2>1 DEF Database
  <1>8. /\ Len(d2.events) = n + 1
        /\ DOMAIN d2.events = 1..(n + 1)
        /\ \A i \in 1..n : d2.events[i] = d.events[i]
        /\ d2.events[n + 1] = row
    BY <1>2, <1>4, <1>6, <1>7, AppendProperties, DatabaseFields
  <1> HIDE DEF d2
  <1>9. row.entry = entry /\ row.prev = EventTip(d) /\ row.hash = Link(EventTip(d), entry)
    BY DEF row
  <1>10. entry.seq = n + 1 /\ entry.scope = r.scope /\ entry.key = r.key
    BY <1>2 DEF entry
  <1>11. \A i \in DOMAIN d2.events : d2.events[i].entry.seq = i
    BY <1>2, <1>8, <1>9, <1>10 DEF Sound
  <1>12. KeysUnique(d2)
    <2>1. \A i \in 1..n : ~(/\ d.events[i].entry.scope = r.scope
                            /\ d.events[i].entry.key = r.key)
      BY <1>2 DEF Holders
    <2>2. \A i, j \in 1..n : /\ d.events[i].entry.scope = d.events[j].entry.scope
                             /\ d.events[i].entry.key = d.events[j].entry.key
                             => i = j
      BY <1>2 DEF Sound, KeysUnique
    <2> SUFFICES ASSUME NEW i \in 1..(n + 1), NEW j \in 1..(n + 1),
                        d2.events[i].entry.scope = d2.events[j].entry.scope,
                        d2.events[i].entry.key = d2.events[j].entry.key
                 PROVE  i = j
      BY <1>8 DEF KeysUnique
    <2>3. CASE i \in 1..n /\ j \in 1..n
      BY <1>8, <2>2, <2>3
    <2>4. CASE i = n + 1 /\ j \in 1..n
      BY <1>8, <1>9, <1>10, <2>1, <2>4
    <2>5. CASE i \in 1..n /\ j = n + 1
      BY <1>8, <1>9, <1>10, <2>1, <2>5
    <2> QED BY <1>2, <2>3, <2>4, <2>5
  <1>13. EventChainIntact(d2)
    <2> SUFFICES ASSUME NEW i \in 1..(n + 1)
                 PROVE  /\ d2.events[i].prev = IF i = 1 THEN GENESIS ELSE d2.events[i - 1].hash
                        /\ d2.events[i].hash = Link(d2.events[i].prev, d2.events[i].entry)
      BY <1>8 DEF EventChainIntact
    <2>1. CASE i \in 1..n
      <3>1. /\ d.events[i].prev = IF i = 1 THEN GENESIS ELSE d.events[i - 1].hash
            /\ d.events[i].hash = Link(d.events[i].prev, d.events[i].entry)
        BY <1>2, <2>1 DEF Sound, EventChainIntact
      <3>2. i # 1 => i - 1 \in 1..n
        BY <1>2, <2>1
      <3> QED BY <1>8, <2>1, <3>1, <3>2
    <2>2. CASE i = n + 1
      <3>1. CASE n = 0
        <4>1. d.events = << >>
          BY <1>2, <3>1, EmptySeq
        <4> QED BY <1>8, <1>9, <2>2, <3>1, <4>1, EventTipIsLast
      <3>2. CASE n # 0
        <4>1. d.events # << >> /\ n \in 1..n /\ i # 1 /\ i - 1 = n
          BY <1>2, <2>2, <3>2, EmptySeq
        <4>2. EventTip(d) = d.events[n].hash
          BY <4>1, EventTipIsLast
        <4> QED BY <1>8, <1>9, <2>2, <4>1, <4>2
      <3> QED BY <3>1, <3>2
    <2> QED BY <1>2, <2>1, <2>2
  <1>14. AuditChainIntact(d2)
    BY <1>6 DEF Sound, AuditChainIntact
  <1>15. Extends(d, d2)
    <2>1. /\ Len(d.audit) \in Nat /\ d2.audit = d.audit
          /\ d.mismatches = d2.mismatches /\ d2.blobs = d.blobs
      BY <1>1, <1>6, DatabaseFields
    <2>2. Len(d.events) <= Len(d2.events) /\ \A i \in DOMAIN d.events : d2.events[i] = d.events[i]
      BY <1>2, <1>8
    <2> QED BY <2>1, <2>2 DEF Extends
  <1>16. d2.seq = Len(d2.events) + 0
    BY <1>2, <1>6, <1>8
  <1> QED BY <1>7, <1>11, <1>12, <1>13, <1>14, <1>15, <1>16 DEF Sound, d2

\* The bump alone leaves a sound database with one number to spare.
LEMMA BumpSound ==
    ASSUME NEW d, Sound(d, 0), d.seq < MaxEvents
    PROVE  /\ Sound([d EXCEPT !.seq = @ + 1], 1)
           /\ Extends(d, [d EXCEPT !.seq = @ + 1])
           /\ \A s, k : Holders([d EXCEPT !.seq = @ + 1], s, k) = Holders(d, s, k)
  <1> DEFINE d2 == [d EXCEPT !.seq = @ + 1]
  <1>1. d \in Database /\ d.seq \in 0..MaxEvents
    BY DatabaseFields DEF Sound
  <1>2. /\ d2.events = d.events /\ d2.seq = d.seq + 1 /\ d2.mismatches = d.mismatches
        /\ d2.audit = d.audit /\ d2.blobs = d.blobs
    BY <1>1 DEF Database
  <1>3. d2 \in Database
    <2>1. d.seq + 1 \in 0..MaxEvents
      BY <1>1, BoundsAssumption
    <2> QED BY <1>1, <2>1 DEF Database
  <1> HIDE DEF d2
  <1>4. d2.seq = Len(d2.events) + 1
    BY <1>1, <1>2, DatabaseFields DEF Sound
  <1>5. Sound(d2, 1)
    BY <1>2, <1>3, <1>4 DEF Sound, KeysUnique, EventChainIntact, AuditChainIntact
  <1>6. Extends(d, d2)
    BY <1>1, <1>2, DatabaseFields DEF Extends
  <1>7. \A s, k : Holders(d2, s, k) = Holders(d, s, k)
    BY <1>2 DEF Holders
  <1> QED BY <1>5, <1>6, <1>7 DEF d2

\* A flag on record changes nothing else.
LEMMA FlagSound ==
    ASSUME NEW d, Sound(d, 0), NEW x \in Mismatch
    PROVE  /\ Sound([d EXCEPT !.mismatches = @ \cup {x}], 0)
           /\ Extends(d, [d EXCEPT !.mismatches = @ \cup {x}])
  <1> DEFINE d2 == [d EXCEPT !.mismatches = @ \cup {x}]
  <1>1. d \in Database
    BY DEF Sound
  <1>2. /\ d2.events = d.events /\ d2.seq = d.seq /\ d2.mismatches = d.mismatches \cup {x}
        /\ d2.audit = d.audit /\ d2.blobs = d.blobs
    BY <1>1 DEF Database
  <1>3. d2 \in Database
    BY <1>1 DEF Database
  <1> HIDE DEF d2
  <1>4. Sound(d2, 0)
    BY <1>2, <1>3 DEF Sound, KeysUnique, EventChainIntact, AuditChainIntact
  <1>5. Extends(d, d2)
    BY <1>1, <1>2, DatabaseFields DEF Extends
  <1> QED BY <1>4, <1>5 DEF d2

\* An audit row is linked to the last one.
LEMMA InsertAuditSound ==
    ASSUME NEW d, Sound(d, 0), NEW a \in AuditEntry
    PROVE  Sound(WithAudit(d, a), 0) /\ Extends(d, WithAudit(d, a))
  <1> DEFINE row == [entry |-> a, prev |-> AuditTip(d), hash |-> Link(AuditTip(d), a)]
             d2 == WithAudit(d, a)
             n == Len(d.audit)
  <1>1. d \in Database
    BY DEF Sound
  <1>2. d.audit \in Seq(AuditRow) /\ n \in Nat /\ DOMAIN d.audit = 1..n
    BY <1>1, DatabaseFields
  <1>3. /\ AuditTip(d) \in Seq(AuditEntry)
        /\ n = 0 => AuditTip(d) = GENESIS
        /\ n # 0 => AuditTip(d) = d.audit[n].hash
    <2>1. CASE d.audit = << >>
      BY <2>1, EmptySeq DEF AuditTip, GENESIS
    <2>2. CASE d.audit # << >>
      <3>1. n \in DOMAIN d.audit /\ n # 0
        BY <1>2, <2>2, EmptySeq
      <3> QED BY <1>1, <2>2, <3>1, DatabaseRows DEF AuditTip
    <2> QED BY <2>1, <2>2
  <1>4. row \in AuditRow
    <2>1. Link(AuditTip(d), a) \in Seq(AuditEntry)
      BY <1>3, AppendProperties DEF Link
    <2> QED BY <1>3, <2>1 DEF AuditRow
  <1> HIDE DEF row
  <1>5. d2 = [d EXCEPT !.audit = Append(@, row)]
    BY DEF WithAudit, row
  <1>6. /\ d2.audit = Append(d.audit, row)
        /\ d2.seq = d.seq /\ d2.mismatches = d.mismatches
        /\ d2.events = d.events /\ d2.blobs = d.blobs
    BY <1>1, <1>5 DEF Database
  <1>7. d2 \in Database
    <2>1. Append(d.audit, row) \in Seq(AuditRow)
      BY <1>2, <1>4, AppendProperties
    <2> QED BY <1>1, <1>5, <2>1 DEF Database
  <1>8. /\ Len(d2.audit) = n + 1
        /\ DOMAIN d2.audit = 1..(n + 1)
        /\ \A i \in 1..n : d2.audit[i] = d.audit[i]
        /\ d2.audit[n + 1] = row
    BY <1>2, <1>4, <1>6, <1>7, AppendProperties, DatabaseFields
  <1> HIDE DEF d2
  <1>9. row.entry = a /\ row.prev = AuditTip(d) /\ row.hash = Link(AuditTip(d), a)
    BY DEF row
  <1>10. AuditChainIntact(d2)
    <2> SUFFICES ASSUME NEW i \in 1..(n + 1)
                 PROVE  /\ d2.audit[i].prev = IF i = 1 THEN GENESIS ELSE d2.audit[i - 1].hash
                        /\ d2.audit[i].hash = Link(d2.audit[i].prev, d2.audit[i].entry)
      BY <1>8 DEF AuditChainIntact
    <2>1. CASE i \in 1..n
      <3>1. /\ d.audit[i].prev = IF i = 1 THEN GENESIS ELSE d.audit[i - 1].hash
            /\ d.audit[i].hash = Link(d.audit[i].prev, d.audit[i].entry)
        BY <1>2, <2>1 DEF Sound, AuditChainIntact
      <3>2. i # 1 => i - 1 \in 1..n
        BY <1>2, <2>1
      <3> QED BY <1>8, <2>1, <3>1, <3>2
    <2>2. CASE i = n + 1
      <3>1. CASE n = 0
        BY <1>3, <1>8, <1>9, <2>2, <3>1
      <3>2. CASE n # 0
        <4>1. n \in 1..n /\ i # 1 /\ i - 1 = n
          BY <1>2, <2>2, <3>2
        <4> QED BY <1>3, <1>8, <1>9, <2>2, <3>2, <4>1
      <3> QED BY <3>1, <3>2
    <2> QED BY <1>2, <2>1, <2>2
  <1>11. Sound(d2, 0)
    BY <1>6, <1>7, <1>10 DEF Sound, KeysUnique, EventChainIntact
  <1>12. Extends(d, d2)
    BY <1>1, <1>2, <1>6, <1>8, DatabaseFields DEF Extends
  <1> QED BY <1>11, <1>12 DEF d2

\* Clearing payloads touches nothing that a key, a number or a hash covers.
LEMMA ClearSound ==
    ASSUME NEW d, Sound(d, 0), NEW old
    PROVE  Sound(Cleared(d, old), 0) /\ Extends(d, Cleared(d, old))
  <1> DEFINE d2 == Cleared(d, old)
             rows == [i \in DOMAIN d.events |->
                         IF i \in old THEN [d.events[i] EXCEPT !.payload = FALSE] ELSE d.events[i]]
  <1>1. /\ d \in Database /\ d.events \in Seq(Event)
        /\ Len(d.events) \in Nat /\ DOMAIN d.events = 1..Len(d.events)
    BY DatabaseFields DEF Sound
  <1>2. \A i \in DOMAIN d.events :
          /\ rows[i] \in Event
          /\ rows[i].entry = d.events[i].entry
          /\ rows[i].prev = d.events[i].prev
          /\ rows[i].hash = d.events[i].hash
          /\ rows[i].payload => d.events[i].payload
    <2> TAKE i \in DOMAIN d.events
    <2>1. d.events[i] \in Event
      BY <1>1, DatabaseRows
    <2> QED BY <2>1 DEF Event
  <1>3. rows \in Seq(Event) /\ DOMAIN rows = DOMAIN d.events /\ Len(rows) = Len(d.events)
    <2>1. rows \in [1..Len(d.events) -> Event]
      BY <1>1, <1>2
    <2>2. rows \in Seq(Event)
      BY <1>1, <2>1, SeqDef
    <2> QED BY <1>1, <2>2, LenProperties
  <1> HIDE DEF rows
  <1>4. d2 = [d EXCEPT !.events = rows]
    BY DEF Cleared, rows
  <1>5. /\ d2.events = rows /\ d2.seq = d.seq /\ d2.mismatches = d.mismatches
        /\ d2.audit = d.audit /\ d2.blobs = d.blobs
    BY <1>1, <1>4 DEF Database
  <1>6. d2 \in Database
    BY <1>1, <1>3, <1>4 DEF Database
  <1> HIDE DEF d2
  <1>7. KeysUnique(d2)
    BY <1>2, <1>3, <1>5 DEF Sound, KeysUnique
  <1>8. EventChainIntact(d2)
    <2> SUFFICES ASSUME NEW i \in 1..Len(d.events)
                 PROVE  /\ rows[i].prev = IF i = 1 THEN GENESIS ELSE rows[i - 1].hash
                        /\ rows[i].hash = Link(rows[i].prev, rows[i].entry)
      BY <1>1, <1>3, <1>5 DEF EventChainIntact
    <2>1. /\ d.events[i].prev = IF i = 1 THEN GENESIS ELSE d.events[i - 1].hash
          /\ d.events[i].hash = Link(d.events[i].prev, d.events[i].entry)
      BY <1>1 DEF Sound, EventChainIntact
    <2>2. i # 1 => i - 1 \in 1..Len(d.events)
      BY <1>1
    <2> QED BY <1>1, <1>2, <2>1, <2>2
  <1>9. Sound(d2, 0)
    <2>1. \A i \in DOMAIN d2.events : d2.events[i].entry.seq = i
      BY <1>2, <1>3, <1>5 DEF Sound
    <2>2. d2.seq = Len(d2.events) + 0
      BY <1>3, <1>5 DEF Sound
    <2> QED BY <1>5, <1>6, <1>7, <1>8, <2>1, <2>2 DEF Sound, AuditChainIntact
  <1>10. Extends(d, d2)
    <2>1. Len(d.events) <= Len(d2.events) /\ Len(d.audit) <= Len(d2.audit)
      BY <1>1, <1>3, <1>5, DatabaseFields
    <2> QED BY <1>2, <1>5, <2>1 DEF Extends
  <1> QED BY <1>9, <1>10 DEF d2

\* Rewriting the blob table alone, so that metadata and tombstones stay.
LEMMA BlobsSound ==
    ASSUME NEW d, Sound(d, 0), NEW bs \in [Blobs -> BlobRow],
           \A b \in Blobs : /\ d.blobs[b].meta # Absent => bs[b].meta = d.blobs[b].meta
                            /\ d.blobs[b].deleted => bs[b].deleted
    PROVE  Sound([d EXCEPT !.blobs = bs], 0) /\ Extends(d, [d EXCEPT !.blobs = bs])
  <1> DEFINE d2 == [d EXCEPT !.blobs = bs]
  <1>1. d \in Database
    BY DEF Sound
  <1>2. /\ d2.events = d.events /\ d2.seq = d.seq /\ d2.mismatches = d.mismatches
        /\ d2.audit = d.audit /\ d2.blobs = bs
    BY <1>1 DEF Database
  <1>3. d2 \in Database
    BY <1>1 DEF Database
  <1> HIDE DEF d2
  <1>4. Sound(d2, 0)
    BY <1>2, <1>3 DEF Sound, KeysUnique, EventChainIntact, AuditChainIntact
  <1>5. Extends(d, d2)
    BY <1>1, <1>2, DatabaseFields DEF Extends
  <1> QED BY <1>4, <1>5 DEF d2

\* A first INSERT of a blob.
LEMMA InsertBlobSound ==
    ASSUME NEW d, Sound(d, 0), NEW b \in Blobs, NEW m \in Metas, d.blobs[b].meta = Absent
    PROVE  Sound(WithBlob(d, b, m), 0) /\ Extends(d, WithBlob(d, b, m))
  <1> DEFINE bs == [d.blobs EXCEPT ![b].meta = m]
  <1>1. d \in Database /\ d.blobs \in [Blobs -> BlobRow]
    BY DatabaseFields DEF Sound
  <1>2. bs \in [Blobs -> BlobRow]
    BY <1>1 DEF BlobRow
  <1>3. \A c \in Blobs : /\ d.blobs[c].meta # Absent => bs[c].meta = d.blobs[c].meta
                         /\ d.blobs[c].deleted => bs[c].deleted
    BY <1>1 DEF BlobRow
  <1>4. WithBlob(d, b, m) = [d EXCEPT !.blobs = bs]
    BY <1>1 DEF WithBlob, Database
  <1> HIDE DEF bs
  <1> QED BY <1>2, <1>3, <1>4, BlobsSound

\* A tombstone over a live blob.
LEMMA TombstoneSound ==
    ASSUME NEW d, Sound(d, 0), NEW b \in Blobs
    PROVE  /\ Sound([d EXCEPT !.blobs[b].deleted = TRUE], 0)
           /\ Extends(d, [d EXCEPT !.blobs[b].deleted = TRUE])
  <1> DEFINE bs == [d.blobs EXCEPT ![b].deleted = TRUE]
  <1>1. d \in Database /\ d.blobs \in [Blobs -> BlobRow]
    BY DatabaseFields DEF Sound
  <1>2. bs \in [Blobs -> BlobRow]
    BY <1>1 DEF BlobRow
  <1>3. \A c \in Blobs : /\ d.blobs[c].meta # Absent => bs[c].meta = d.blobs[c].meta
                         /\ d.blobs[c].deleted => bs[c].deleted
    BY <1>1 DEF BlobRow
  <1>4. [d EXCEPT !.blobs[b].deleted = TRUE] = [d EXCEPT !.blobs = bs]
    BY <1>1 DEF Database
  <1> QED BY <1>2, <1>3, <1>4, BlobsSound

-----------------------------------------------------------------------------
(* The invariant.                                                          *)

Holding(p) == pc[p] \notin {"idle", "put"}

InMethod(p) == pc[p] \in {"lookup", "insert", "audit", "delete", "sweep"}

Pending(p) == IF pc[p] = "insert" THEN 1 ELSE 0

\* A process inside a write unit owns the writer lock.
Exclusive(p) == Holding(p) => lock = p

\* Its working copy is a sound continuation of the committed database.
WorkSound(p) == Holding(p) => /\ Sound(work[p], Pending(p))
                              /\ Extends(db, work[p])

\* So is everything it may still roll back to.
SavesSound(p) ==
    /\ saves[p] \in Seq(Database)
    /\ \A k \in DOMAIN saves[p] : Sound(saves[p][k], 0) /\ Extends(db, saves[p][k])
    /\ ~Holding(p) => saves[p] = << >>

\* How a running method was entered agrees with the savepoint stack.
FrameOK(p) ==
    InMethod(p) => /\ frame[p] = "outer" => saves[p] = << >>
                   /\ frame[p] = "save" => saves[p] # << >>

\* The arguments of the running method are of the kind it takes, and the key
\* that an INSERT is about to use is still free.
RequestOK(p) ==
    /\ pc[p] \in {"lookup", "insert"} => IsDelivery(req[p])
    /\ pc[p] = "insert" => Holders(work[p], req[p].scope, req[p].key) = {}
    /\ pc[p] = "audit" => req[p].audit \in AuditEntry
    /\ pc[p] = "delete" => req[p].blob \in Blobs
    /\ pc[p] = "put" => req[p].blob \in Blobs /\ req[p].meta \in Metas

ProcessOK(p) ==
    Exclusive(p) /\ WorkSound(p) /\ SavesSound(p) /\ FrameOK(p) /\ RequestOK(p)

\* What was published stays provable.
IInv ==
    /\ TypeOK
    /\ Sound(db, 0)
    /\ \A p \in Procs : ProcessOK(p)
    /\ AnchorsHold

-----------------------------------------------------------------------------
\* A process that does not move keeps its part, whatever the one that moved
\* did with the lock and with the committed database.
LEMMA OthersKeep ==
    ASSUME IInv, NEW p \in Procs, NEW q \in Procs, q # p,
           UNCHANGED <<work[q], saves[q], pc[q], frame[q], req[q]>>,
           <<db, lock>>' = <<db, lock>> \/ lock \in {p, NoProc}
    PROVE  ProcessOK(q)'
  <1>1. ProcessOK(q)
    BY DEF IInv
  <1>2. CASE <<db, lock>>' = <<db, lock>>
    BY <1>1, <1>2 DEF ProcessOK, Exclusive, WorkSound, SavesSound, FrameOK, RequestOK,
                      Holding, InMethod, Pending
  <1>3. CASE lock \in {p, NoProc}
    <2>1. ~Holding(q) /\ saves[q] = << >>
      BY <1>1, <1>3, NamesAssumption DEF ProcessOK, Exclusive, SavesSound
    <2>2. ~Holding(q)' /\ saves'[q] = << >> /\ ~InMethod(q)'
      BY <2>1 DEF Holding, InMethod
    <2>3. DOMAIN saves'[q] = {} /\ saves'[q] \in Seq(Database)
      BY <2>2, EmptySeq
    <2>4. SavesSound(q)'
      BY <2>2, <2>3 DEF SavesSound
    <2>5. RequestOK(q)'
      BY <1>1, <2>1 DEF ProcessOK, RequestOK, Holding
    <2> QED BY <2>2, <2>4, <2>5 DEF ProcessOK, Exclusive, WorkSound, FrameOK
  <1> QED BY <1>2, <1>3

\* An anchor that holds keeps holding in every sound continuation.
LEMMA AnchorPersists ==
    ASSUME NEW d1, NEW d2, Sound(d1, 0), Sound(d2, 0), Extends(d1, d2),
           NEW a \in Anchor, VerifyAgainstAnchor(d1, a)
    PROVE  VerifyAgainstAnchor(d2, a)
  <1>1. /\ Len(d1.events) \in Nat /\ DOMAIN d1.events = 1..Len(d1.events)
        /\ Len(d1.audit) \in Nat /\ DOMAIN d1.audit = 1..Len(d1.audit)
        /\ Len(d2.events) \in Nat /\ Len(d2.audit) \in Nat
    BY DatabaseFields DEF Sound
  <1>2. a.count \in Nat /\ a.table \in {"events", "audit_log"}
    BY DEF Anchor
  <1>3. CASE a.table = "events"
    <2>1. /\ Len(d1.events) >= a.count
          /\ a.tip = IF a.count = 0 THEN GENESIS ELSE d1.events[a.count].hash
      BY <1>3 DEF VerifyAgainstAnchor
    <2>2. a.count # 0 => d2.events[a.count].hash = d1.events[a.count].hash
      BY <1>1, <1>2, <2>1 DEF Extends
    <2>3. Len(d2.events) >= a.count
      BY <1>1, <1>2, <2>1 DEF Extends
    <2> QED BY <1>3, <2>1, <2>2, <2>3 DEF VerifyAgainstAnchor, Sound
  <1>4. CASE a.table = "audit_log"
    <2>1. /\ Len(d1.audit) >= a.count
          /\ a.tip = IF a.count = 0 THEN GENESIS ELSE d1.audit[a.count].hash
      BY <1>4 DEF VerifyAgainstAnchor
    <2>2. a.count # 0 => d2.audit[a.count].hash = d1.audit[a.count].hash
      BY <1>1, <1>2, <2>1 DEF Extends
    <2>3. Len(d2.audit) >= a.count
      BY <1>1, <1>2, <2>1 DEF Extends
    <2> QED BY <1>4, <2>1, <2>2, <2>3 DEF VerifyAgainstAnchor, Sound
  <1> QED BY <1>2, <1>3, <1>4

\* A step that publishes nothing and commits a sound continuation keeps the
\* anchors.
LEMMA AnchorsKeep ==
    ASSUME IInv, UNCHANGED anchors, Sound(db', 0), Extends(db, db')
    PROVE  AnchorsHold'
  BY AnchorPersists DEF IInv, TypeOK, AnchorsHold

-----------------------------------------------------------------------------
(* Entering and leaving a write unit.                                      *)

\* Dropping the innermost savepoint leaves the outer ones.
LEMMA FrontOK ==
    ASSUME NEW s \in Seq(Database), s # << >>
    PROVE  /\ Len(s) \in DOMAIN s
           /\ Front(s) \in Seq(Database)
           /\ \A k \in DOMAIN Front(s) : k \in DOMAIN s /\ Front(s)[k] = s[k]
  <1>1. Len(s) \in Nat \ {0} /\ DOMAIN s = 1..Len(s)
    BY EmptySeq, LenProperties
  <1>2. \A i \in 1..(Len(s) - 1) : s[i] \in Database
    BY <1>1, ElementOfSeq
  <1>3. /\ Front(s) \in Seq(Database)
        /\ Len(Front(s)) = IF 1 <= Len(s) - 1 THEN (Len(s) - 1) - 1 + 1 ELSE 0
        /\ \A i \in 1..((Len(s) - 1) - 1 + 1) : Front(s)[i] = s[1 + i - 1]
    BY <1>1, <1>2, SubSeqProperties DEF Front
  <1>4. DOMAIN Front(s) = 1..Len(Front(s))
    BY <1>3, LenProperties
  <1>5. Len(Front(s)) = Len(s) - 1 /\ Len(s) \in DOMAIN s
    <2>1. Len(Front(s)) = IF 1 <= Len(s) - 1 THEN (Len(s) - 1) - 1 + 1 ELSE 0
      BY <1>3, Zenon
    <2>2. Len(s) \in Nat \ {0} /\ DOMAIN s = 1..Len(s)
      BY <1>1, Zenon
    <2>3. Len(s) \in 1..Len(s)
      BY <2>2
    <2>4. \A n \in Nat \ {0} : (IF 1 <= n - 1 THEN (n - 1) - 1 + 1 ELSE 0) = n - 1
      OBVIOUS
    <2>5. Len(Front(s)) = Len(s) - 1
      BY <2>1, <2>2, <2>4, Zenon
    <2> QED BY <2>2, <2>3, <2>5, Zenon
  <1>6. ASSUME NEW k \in DOMAIN Front(s)
        PROVE  k \in DOMAIN s /\ Front(s)[k] = s[k]
    <2>1. k \in 1..(Len(s) - 1)
      BY <1>4, <1>5
    <2>2. k \in 1..Len(s) /\ k \in 1..((Len(s) - 1) - 1 + 1) /\ 1 + k - 1 = k
      BY <1>1, <2>1
    <2>3. k \in DOMAIN s
      BY <1>1, <2>2
    <2>4. Front(s)[k] = s[1 + k - 1]
      BY <1>3, <2>2
    <2> QED BY <2>2, <2>3, <2>4
  <1> QED BY <1>3, <1>5, <1>6, Zenon

\* Pushing a savepoint keeps the stack sound.
LEMMA PushOK ==
    ASSUME IInv, NEW p \in Procs, pc[p] = "open"
    PROVE  /\ Append(saves[p], work[p]) \in Seq(Database)
           /\ Append(saves[p], work[p]) # << >>
           /\ \A k \in DOMAIN Append(saves[p], work[p]) :
                 /\ Sound(Append(saves[p], work[p])[k], 0)
                 /\ Extends(db, Append(saves[p], work[p])[k])
  <1> DEFINE t == Append(saves[p], work[p])
  <1>1. Sound(work[p], 0) /\ Extends(db, work[p]) /\ work[p] \in Database
    BY DEF IInv, TypeOK, ProcessOK, WorkSound, Holding, Pending
  <1>2. /\ saves[p] \in Seq(Database)
        /\ \A k \in DOMAIN saves[p] : Sound(saves[p][k], 0) /\ Extends(db, saves[p][k])
    BY DEF IInv, ProcessOK, SavesSound
  <1>3. /\ t \in Seq(Database) /\ t # << >>
        /\ Len(t) = Len(saves[p]) + 1
        /\ \A i \in 1..Len(saves[p]) : t[i] = saves[p][i]
        /\ t[Len(saves[p]) + 1] = work[p]
    BY <1>1, <1>2, AppendProperties
  <1>4. DOMAIN t = 1..Len(t) /\ DOMAIN saves[p] = 1..Len(saves[p]) /\ Len(saves[p]) \in Nat
    BY <1>2, <1>3, LenProperties
  <1>5. ASSUME NEW k \in DOMAIN t
        PROVE  Sound(t[k], 0) /\ Extends(db, t[k])
    <2>1. CASE k \in 1..Len(saves[p])
      BY <1>2, <1>3, <1>4, <2>1
    <2>2. CASE k = Len(saves[p]) + 1
      BY <1>1, <1>3, <2>2
    <2> QED BY <1>3, <1>4, <2>1, <2>2
  <1> QED BY <1>3, <1>5

\* Every process but p stays where it is.
OnlyMoves(p) ==
    \A q \in Procs \ {p} :
        /\ work'[q] = work[q] /\ saves'[q] = saves[q] /\ pc'[q] = pc[q]
        /\ frame'[q] = frame[q] /\ req'[q] = req[q]

\* The shape of every variable after a step of p that keeps anchors' type.
Typed ==
    /\ lock' \in Procs \cup {NoProc}
    /\ work' \in [Procs -> Database]
    /\ saves' \in [Procs -> Seq(Database)]
    /\ pc' \in [Procs -> PcValues]
    /\ frame' \in [Procs -> {"none", "outer", "save"}]
    /\ req' \in [Procs -> Request]
    /\ reply' \in [Procs -> Reply]

\* What a step of p has to establish for the invariant to survive it.
LEMMA StepKeeps ==
    ASSUME IInv, NEW p \in Procs, Typed, OnlyMoves(p), ProcessOK(p)',
           Sound(db', 0), Extends(db, db'), UNCHANGED anchors,
           <<db, lock>>' = <<db, lock>> \/ lock \in {p, NoProc}
    PROVE  IInv' /\ Extends(db, db')
  <1>1. \A q \in Procs : ProcessOK(q)'
    <2> TAKE q \in Procs
    <2>1. CASE q = p
      BY <2>1
    <2>2. CASE q # p
      <3>1. UNCHANGED <<work[q], saves[q], pc[q], frame[q], req[q]>>
        BY <2>2 DEF OnlyMoves
      <3> QED BY <2>2, <3>1, OthersKeep
    <2> QED BY <2>1, <2>2
  <1>2. AnchorsHold'
    BY AnchorsKeep
  <1>3. TypeOK'
    BY DEF IInv, TypeOK, Typed, Sound
  <1> QED BY <1>1, <1>2, <1>3 DEF IInv

\* Leaving a write unit whose copy has become d, in any of the three ways.
LEMMA LeaveKeeps ==
    ASSUME IInv, NEW p \in Procs, InMethod(p), NEW d, Leave(p, d),
           Sound(d, 0), Extends(work[p], d), UNCHANGED anchors,
           reply' \in [Procs -> Reply]
    PROVE  IInv' /\ Extends(db, db')
  <1>1. /\ ProcessOK(p) /\ TypeOK /\ Sound(db, 0)
        /\ lock = p /\ Holding(p) /\ work[p] \in Database /\ db \in Database /\ d \in Database
    BY DEF IInv, TypeOK, ProcessOK, Exclusive, Holding, InMethod, Sound
  <1>2. Extends(db, d)
    BY <1>1, ExtendsTransitive DEF ProcessOK, WorkSound
  <1>3. Idle \in Request
    BY DEF Idle, Request
  <1>4. EmptyDb \in Database
    BY EmptyDbSound DEF Sound
  <1>5. CASE frame[p] = "outer"
    <2>1. /\ db' = d /\ lock' = NoProc /\ saves' = saves
          /\ work' = [work EXCEPT ![p] = EmptyDb] /\ pc' = [pc EXCEPT ![p] = "idle"]
          /\ frame' = [frame EXCEPT ![p] = "none"] /\ req' = [req EXCEPT ![p] = Idle]
      BY <1>5 DEF Leave
    <2>2. Typed /\ OnlyMoves(p)
      BY <1>1, <1>3, <1>4, <2>1 DEF TypeOK, Typed, OnlyMoves, PcValues
    <2>3. saves[p] = << >>
      BY <1>1, <1>5 DEF ProcessOK, FrameOK
    <2>4. pc'[p] = "idle" /\ saves'[p] = << >>
      BY <1>1, <2>1, <2>3 DEF TypeOK
    <2>5. DOMAIN saves'[p] = {} /\ saves'[p] \in Seq(Database)
      BY <2>4, EmptySeq
    <2>6. ProcessOK(p)'
      BY <2>4, <2>5 DEF ProcessOK, Exclusive, WorkSound, SavesSound, FrameOK, RequestOK,
                        Holding, InMethod
    <2> QED BY <1>1, <1>2, <2>1, <2>2, <2>6, StepKeeps
  <1>6. CASE frame[p] = "save"
    <2>1. /\ db' = db /\ lock' = lock /\ saves' = [saves EXCEPT ![p] = Front(@)]
          /\ work' = [work EXCEPT ![p] = d] /\ pc' = [pc EXCEPT ![p] = "open"]
          /\ frame' = [frame EXCEPT ![p] = "none"] /\ req' = [req EXCEPT ![p] = Idle]
      BY <1>6 DEF Leave
    <2>2. saves[p] # << >> /\ saves[p] \in Seq(Database)
      BY <1>1, <1>6 DEF ProcessOK, FrameOK, SavesSound
    <2>3. /\ Front(saves[p]) \in Seq(Database)
          /\ \A k \in DOMAIN Front(saves[p]) :
                k \in DOMAIN saves[p] /\ Front(saves[p])[k] = saves[p][k]
      BY <2>2, FrontOK
    <2>4. Typed /\ OnlyMoves(p)
      BY <1>1, <1>3, <2>1, <2>3 DEF TypeOK, Typed, OnlyMoves, PcValues
    <2>5. pc'[p] = "open" /\ saves'[p] = Front(saves[p]) /\ work'[p] = d
      BY <1>1, <2>1 DEF TypeOK
    <2>6. SavesSound(p)'
      BY <1>1, <2>1, <2>3, <2>5 DEF ProcessOK, SavesSound, Holding
    <2>7. ProcessOK(p)'
      BY <1>1, <1>2, <2>1, <2>5, <2>6 DEF ProcessOK, Exclusive, WorkSound, FrameOK,
                                          RequestOK, Holding, InMethod, Pending
    <2> QED BY <1>1, <2>1, <2>4, <2>7, StepKeeps, ExtendsReflexive
  <1>7. CASE frame[p] = "none"
    <2>1. /\ db' = db /\ lock' = lock /\ saves' = saves
          /\ work' = [work EXCEPT ![p] = d] /\ pc' = [pc EXCEPT ![p] = "open"]
          /\ frame' = [frame EXCEPT ![p] = "none"] /\ req' = [req EXCEPT ![p] = Idle]
      BY <1>7 DEF Leave
    <2>2. Typed /\ OnlyMoves(p)
      BY <1>1, <1>3, <2>1 DEF TypeOK, Typed, OnlyMoves, PcValues
    <2>3. pc'[p] = "open" /\ work'[p] = d
      BY <1>1, <2>1 DEF TypeOK
    <2>4. SavesSound(p)'
      BY <1>1, <2>1, <2>3 DEF ProcessOK, SavesSound, Holding
    <2>5. ProcessOK(p)'
      BY <1>1, <1>2, <2>1, <2>3, <2>4 DEF ProcessOK, Exclusive, WorkSound, FrameOK,
                                          RequestOK, Holding, InMethod, Pending
    <2> QED BY <1>1, <2>1, <2>2, <2>5, StepKeeps, ExtendsReflexive
  <1> QED BY <1>1, <1>5, <1>6, <1>7 DEF TypeOK

\* Rolling back to the innermost savepoint of a running method.
LEMMA UndoKeeps ==
    ASSUME IInv, NEW p \in Procs, InMethod(p), Undo(p), UNCHANGED <<anchors, reply>>
    PROVE  IInv' /\ Extends(db, db')
  <1>1. /\ ProcessOK(p) /\ TypeOK /\ Sound(db, 0) /\ db \in Database
        /\ lock = p /\ Holding(p)
    BY DEF IInv, ProcessOK, Exclusive, Holding, InMethod, Sound
  <1>2. saves[p] # << >> /\ saves[p] \in Seq(Database)
    BY <1>1 DEF Undo, ProcessOK, FrameOK, SavesSound
  <1>3. /\ Front(saves[p]) \in Seq(Database)
        /\ \A k \in DOMAIN Front(saves[p]) :
              k \in DOMAIN saves[p] /\ Front(saves[p])[k] = saves[p][k]
        /\ Len(saves[p]) \in DOMAIN saves[p]
    BY <1>2, FrontOK
  <1> DEFINE d == saves[p][Len(saves[p])]
  <1>4. Sound(d, 0) /\ Extends(db, d) /\ d \in Database
    BY <1>1, <1>3 DEF ProcessOK, SavesSound, Sound
  <1> HIDE DEF d
  <1>5. /\ db' = db /\ lock' = lock /\ saves' = [saves EXCEPT ![p] = Front(@)]
        /\ work' = [work EXCEPT ![p] = d] /\ pc' = [pc EXCEPT ![p] = "open"]
        /\ frame' = [frame EXCEPT ![p] = "none"] /\ req' = [req EXCEPT ![p] = Idle]
    BY DEF Undo, d
  <1>6. Idle \in Request
    BY DEF Idle, Request
  <1>7. Typed /\ OnlyMoves(p)
    BY <1>1, <1>3, <1>4, <1>5, <1>6 DEF TypeOK, Typed, OnlyMoves, PcValues
  <1>8. pc'[p] = "open" /\ saves'[p] = Front(saves[p]) /\ work'[p] = d
    BY <1>1, <1>5 DEF TypeOK
  <1>9. SavesSound(p)'
    BY <1>1, <1>3, <1>5, <1>8 DEF ProcessOK, SavesSound, Holding
  <1>10. ProcessOK(p)'
    BY <1>1, <1>4, <1>5, <1>8, <1>9 DEF ProcessOK, Exclusive, WorkSound, FrameOK,
                                        RequestOK, Holding, InMethod, Pending
  <1> QED BY <1>1, <1>5, <1>7, <1>10, StepKeeps, ExtendsReflexive

\* After p enters a write unit through transaction() it owns the lock and its
\* copy and savepoints are sound; only its place and its request are open.
LEMMA EnterOK ==
    ASSUME IInv, NEW p \in Procs, Enter(p), UNCHANGED db
    PROVE  /\ lock' = p /\ lock \in {p, NoProc}
           /\ work' \in [Procs -> Database]
           /\ saves' \in [Procs -> Seq(Database)]
           /\ frame' \in [Procs -> {"none", "outer", "save"}]
           /\ \A q \in Procs \ {p} :
                 work'[q] = work[q] /\ saves'[q] = saves[q] /\ frame'[q] = frame[q]
           /\ Sound(work'[p], 0) /\ Extends(db, work'[p])
           /\ saves'[p] \in Seq(Database)
           /\ \A k \in DOMAIN saves'[p] : Sound(saves'[p][k], 0) /\ Extends(db, saves'[p][k])
           /\ frame'[p] = "outer" => saves'[p] = << >>
           /\ frame'[p] = "save" => saves'[p] # << >>
  <1>1. ProcessOK(p) /\ TypeOK /\ Sound(db, 0) /\ db \in Database
    BY DEF IInv, Sound
  <1>2. CASE pc[p] = "idle"
    <2>1. /\ lock = NoProc /\ lock' = p /\ work' = [work EXCEPT ![p] = db]
          /\ frame' = [frame EXCEPT ![p] = "outer"] /\ saves' = saves
      BY <1>2 DEF Enter, Acquire
    <2>2. saves[p] = << >>
      BY <1>1, <1>2 DEF ProcessOK, SavesSound, Holding
    <2>3. /\ work'[p] = db /\ saves'[p] = << >> /\ frame'[p] = "outer"
          /\ work' \in [Procs -> Database] /\ frame' \in [Procs -> {"none", "outer", "save"}]
          /\ \A q \in Procs \ {p} :
                work'[q] = work[q] /\ saves'[q] = saves[q] /\ frame'[q] = frame[q]
      BY <1>1, <2>1, <2>2 DEF TypeOK
    <2>4. saves'[p] \in Seq(Database) /\ DOMAIN saves'[p] = {}
      BY <2>3, EmptySeq
    <2>5. saves' \in [Procs -> Seq(Database)]
      BY <1>1, <2>1 DEF TypeOK
    <2> QED BY <1>1, <2>1, <2>3, <2>4, <2>5, ExtendsReflexive
  <1>3. CASE pc[p] = "open"
    <2> DEFINE t == Append(saves[p], work[p])
    <2>1. /\ lock' = lock /\ work' = work
          /\ frame' = [frame EXCEPT ![p] = "save"] /\ saves' = [saves EXCEPT ![p] = t]
      BY <1>3 DEF Enter
    <2>2. /\ t \in Seq(Database) /\ t # << >>
          /\ \A k \in DOMAIN t : Sound(t[k], 0) /\ Extends(db, t[k])
      BY <1>3, PushOK
    <2> HIDE DEF t
    <2>3. lock = p /\ Sound(work[p], 0) /\ Extends(db, work[p])
      BY <1>1, <1>3 DEF ProcessOK, Exclusive, WorkSound, Holding, Pending
    <2>4. /\ saves'[p] = t /\ frame'[p] = "save"
          /\ saves' \in [Procs -> Seq(Database)]
          /\ frame' \in [Procs -> {"none", "outer", "save"}]
          /\ \A q \in Procs \ {p} :
                work'[q] = work[q] /\ saves'[q] = saves[q] /\ frame'[q] = frame[q]
      BY <1>1, <2>1, <2>2 DEF TypeOK
    <2>5. work' \in [Procs -> Database]
      BY <1>1, <2>1 DEF TypeOK
    <2> QED BY <2>1, <2>2, <2>3, <2>4, <2>5
  <1> QED BY <1>2, <1>3 DEF Enter

\* The first step of a method that enters through transaction().
LEMMA EnterKeeps ==
    ASSUME IInv, NEW p \in Procs, Enter(p), NEW w \in PcValues \ {"idle", "put", "insert"},
           pc' = [pc EXCEPT ![p] = w], NEW r \in Request,
           req' = [req EXCEPT ![p] = r], UNCHANGED <<db, anchors, reply>>,
           w = "lookup" => IsDelivery(r),
           w = "audit" => r.audit \in AuditEntry,
           w = "delete" => r.blob \in Blobs
    PROVE  IInv' /\ Extends(db, db')
  <1>1. TypeOK /\ Sound(db, 0) /\ db \in Database
    BY DEF IInv, Sound
  <1>2. pc'[p] = w /\ req'[p] = r /\ pc' \in [Procs -> PcValues] /\ req' \in [Procs -> Request]
    BY <1>1 DEF TypeOK
  <1>3. Typed
    BY <1>1, <1>2, EnterOK DEF Typed, TypeOK
  <1>4. OnlyMoves(p)
    BY <1>1, EnterOK DEF OnlyMoves, TypeOK
  <1>5. SavesSound(p)'
    BY <1>2, EnterOK DEF SavesSound, Holding
  <1>6. WorkSound(p)' /\ Exclusive(p)'
    BY <1>2, EnterOK DEF WorkSound, Exclusive, Holding, Pending
  <1>7. FrameOK(p)'
    BY EnterOK DEF FrameOK
  <1>8. RequestOK(p)'
    BY <1>2 DEF RequestOK
  <1>9. ProcessOK(p)'
    BY <1>5, <1>6, <1>7, <1>8 DEF ProcessOK
  <1>10. lock \in {p, NoProc}
    BY EnterOK
  <1> QED BY <1>1, <1>3, <1>4, <1>9, <1>10, StepKeeps, ExtendsReflexive

-----------------------------------------------------------------------------
(* Steps inside a write unit.                                              *)

\* A step that rewrites p's copy and moves on inside the same method.
LEMMA WorkKeeps ==
    ASSUME IInv, NEW p \in Procs, InMethod(p), NEW d, NEW w \in {"insert", "audit"},
           Sound(d, IF w = "insert" THEN 1 ELSE 0), Extends(work[p], d),
           work' = [work EXCEPT ![p] = d], pc' = [pc EXCEPT ![p] = w],
           NEW r \in Request, req' = [req EXCEPT ![p] = r],
           w = "insert" => IsDelivery(r) /\ Holders(d, r.scope, r.key) = {},
           w = "audit" => r.audit \in AuditEntry,
           UNCHANGED <<db, lock, saves, frame, anchors, reply>>
    PROVE  IInv' /\ Extends(db, db')
  <1>1. /\ ProcessOK(p) /\ TypeOK /\ Sound(db, 0) /\ db \in Database /\ d \in Database
        /\ lock = p /\ Holding(p) /\ work[p] \in Database
    BY DEF IInv, ProcessOK, Exclusive, Holding, InMethod, Sound, TypeOK
  <1>2. Extends(db, d)
    BY <1>1, ExtendsTransitive DEF ProcessOK, WorkSound
  <1>3. Typed /\ OnlyMoves(p)
    BY <1>1 DEF TypeOK, Typed, OnlyMoves, PcValues
  <1>4. pc'[p] = w /\ work'[p] = d /\ req'[p] = r
    BY <1>1 DEF TypeOK
  <1>5. SavesSound(p)'
    BY <1>1, <1>4 DEF ProcessOK, SavesSound, Holding
  <1>6. FrameOK(p)'
    BY <1>1 DEF ProcessOK, FrameOK
  <1>7. Exclusive(p)' /\ WorkSound(p)'
    BY <1>1, <1>2, <1>4 DEF Exclusive, WorkSound, Holding, Pending
  <1>8. RequestOK(p)'
    BY <1>4 DEF RequestOK
  <1>9. ProcessOK(p)'
    BY <1>5, <1>6, <1>7, <1>8 DEF ProcessOK
  <1> QED BY <1>1, <1>3, <1>9, StepKeeps, ExtendsReflexive

\* A step of a process whose transaction is open, between two methods.
LEMMA OpenKeeps ==
    ASSUME IInv, NEW p \in Procs, pc[p] = "open", NEW d, Sound(d, 0), Extends(db, d),
           NEW t \in Seq(Database), \A k \in DOMAIN t : Sound(t[k], 0) /\ Extends(db, t[k]),
           work' = [work EXCEPT ![p] = d], saves' = [saves EXCEPT ![p] = t],
           UNCHANGED <<db, lock, pc, frame, req, anchors, reply>>
    PROVE  IInv' /\ Extends(db, db')
  <1>1. /\ ProcessOK(p) /\ TypeOK /\ Sound(db, 0) /\ db \in Database /\ d \in Database
        /\ lock = p
    BY DEF IInv, ProcessOK, Exclusive, Holding, Sound
  <1>2. Typed /\ OnlyMoves(p)
    BY <1>1 DEF TypeOK, Typed, OnlyMoves
  <1>3. pc'[p] = "open" /\ work'[p] = d /\ saves'[p] = t
    BY <1>1 DEF TypeOK
  <1>4. ProcessOK(p)'
    BY <1>1, <1>3 DEF ProcessOK, Exclusive, WorkSound, SavesSound, FrameOK, RequestOK,
                      Holding, InMethod, Pending
  <1> QED BY <1>1, <1>2, <1>4, StepKeeps, ExtendsReflexive

\* A process outside any write unit that stays outside.
LEMMA OutsideKeeps ==
    ASSUME IInv, NEW p \in Procs, ~Holding(p), NEW w \in {"idle", "put"},
           pc' = [pc EXCEPT ![p] = w], NEW r \in Request, req' = [req EXCEPT ![p] = r],
           w = "put" => r.blob \in Blobs /\ r.meta \in Metas,
           reply' \in [Procs -> Reply], Sound(db', 0), Extends(db, db'),
           db' = db \/ lock = NoProc, UNCHANGED <<lock, work, saves, frame, anchors>>
    PROVE  IInv' /\ Extends(db, db')
  <1>1. ProcessOK(p) /\ TypeOK
    BY DEF IInv
  <1>2. Typed /\ OnlyMoves(p)
    BY <1>1 DEF TypeOK, Typed, OnlyMoves, PcValues
  <1>3. pc'[p] = w /\ req'[p] = r /\ saves'[p] = << >>
    BY <1>1 DEF TypeOK, ProcessOK, SavesSound
  <1>4. saves'[p] \in Seq(Database) /\ DOMAIN saves'[p] = {}
    BY <1>3, EmptySeq
  <1>5. ProcessOK(p)'
    BY <1>3, <1>4 DEF ProcessOK, Exclusive, WorkSound, SavesSound, FrameOK, RequestOK,
                      Holding, InMethod
  <1> QED BY <1>2, <1>5, StepKeeps

\* The facts about p that most steps start from.
LEMMA OwnFacts ==
    ASSUME IInv, NEW p \in Procs
    PROVE  /\ Sound(db, 0) /\ db \in Database /\ Extends(db, db)
           /\ work[p] \in Database /\ Extends(work[p], work[p])
           /\ req[p] \in Request
           /\ pc[p] \in {"open", "lookup", "audit", "delete", "sweep"} =>
                 Sound(work[p], 0) /\ Extends(db, work[p])
           /\ pc[p] = "insert" => Sound(work[p], 1)
           /\ saves[p] \in Seq(Database)
           /\ \A k \in DOMAIN saves[p] : Sound(saves[p][k], 0) /\ Extends(db, saves[p][k])
           /\ RequestOK(p)
           /\ \A o \in {"none", "accepted", "duplicate", "mismatch", "stored"}, r \in Request :
                 Say(p, o, r) => reply' \in [Procs -> Reply]
           /\ reply \in [Procs -> Reply]
           /\ Idle \in Request
  <1>1. ProcessOK(p) /\ TypeOK /\ Sound(db, 0) /\ db \in Database
    BY DEF IInv, Sound
  <1>2. \A o \in {"none", "accepted", "duplicate", "mismatch", "stored"}, r \in Request :
          Say(p, o, r) => reply' \in [Procs -> Reply]
    BY <1>1 DEF TypeOK, Say, Reply
  <1>3. Idle \in Request
    BY DEF Idle, Request
  <1>4. work[p] \in Database /\ req[p] \in Request /\ reply \in [Procs -> Reply]
    BY <1>1 DEF TypeOK
  <1> QED
    BY <1>1, <1>2, <1>3, <1>4, ExtendsReflexive
    DEF ProcessOK, WorkSound, SavesSound, Holding, Pending
-----------------------------------------------------------------------------
(* The steps that no lemma above covers.                                   *)

\* audit() enters through write_scope(), which pushes no savepoint.
LEMMA AuditKeeps ==
    ASSUME IInv, NEW p \in Procs, Audit(p)
    PROVE  IInv' /\ Extends(db, db')
  <1> DEFINE a == [action |-> "note", object |-> Absent, count |-> 0]
             r == [Idle EXCEPT !.audit = a]
  <1>1. /\ ProcessOK(p) /\ TypeOK /\ Sound(db, 0) /\ db \in Database
        /\ UNCHANGED <<db, saves, anchors, reply>>
        /\ pc' = [pc EXCEPT ![p] = "audit"] /\ req' = [req EXCEPT ![p] = r]
    BY DEF IInv, Sound, Audit
  <1>2. a \in AuditEntry
    BY BoundsAssumption DEF AuditEntry
  <1>3. r \in Request /\ r.audit = a
    BY <1>2 DEF Idle, Request
  <1> HIDE DEF a, r
  <1>4. /\ lock \in {p, NoProc} /\ lock' = p /\ work' \in [Procs -> Database]
        /\ frame' \in [Procs -> {"none", "outer", "save"}]
        /\ Sound(work'[p], 0) /\ Extends(db, work'[p])
        /\ frame'[p] = "outer" => saves[p] = << >>
        /\ frame'[p] # "save"
        /\ \A q \in Procs \ {p} : work'[q] = work[q] /\ frame'[q] = frame[q]
    <2>1. CASE pc[p] = "idle"
      <3>1. /\ lock = NoProc /\ lock' = p /\ work' = [work EXCEPT ![p] = db]
            /\ frame' = [frame EXCEPT ![p] = "outer"]
        BY <2>1 DEF Audit, Join, Acquire
      <3>2. saves[p] = << >>
        BY <1>1, <2>1 DEF ProcessOK, SavesSound, Holding
      <3> QED BY <1>1, <3>1, <3>2, ExtendsReflexive DEF TypeOK
    <2>2. CASE pc[p] = "open"
      <3>1. lock' = lock /\ work' = work /\ frame' = [frame EXCEPT ![p] = "none"]
        BY <2>2 DEF Audit, Join
      <3>2. lock = p /\ Sound(work[p], 0) /\ Extends(db, work[p])
        BY <1>1, <2>2 DEF ProcessOK, Exclusive, WorkSound, Holding, Pending
      <3> QED BY <1>1, <3>1, <3>2 DEF TypeOK
    <2> QED BY <2>1, <2>2 DEF Audit, Join
  <1>5. pc'[p] = "audit" /\ req'[p] = r /\ saves'[p] = saves[p]
    BY <1>1 DEF TypeOK
  <1>6. Typed /\ OnlyMoves(p)
    BY <1>1, <1>3, <1>4 DEF TypeOK, Typed, OnlyMoves, PcValues
  <1>7. SavesSound(p)'
    BY <1>1, <1>5 DEF ProcessOK, SavesSound, Holding
  <1>8. FrameOK(p)'
    BY <1>4, <1>5 DEF FrameOK
  <1>9. Exclusive(p)' /\ WorkSound(p)' /\ RequestOK(p)'
    BY <1>1, <1>2, <1>3, <1>4, <1>5 DEF Exclusive, WorkSound, RequestOK, Holding, Pending
  <1>10. ProcessOK(p)'
    BY <1>7, <1>8, <1>9 DEF ProcessOK
  <1> QED BY <1>1, <1>4, <1>6, <1>10, StepKeeps, ExtendsReflexive

\* COMMIT publishes the working copy.
LEMMA CommitKeeps ==
    ASSUME IInv, NEW p \in Procs, Commit(p)
    PROVE  IInv' /\ Extends(db, db')
  <1>1. /\ ProcessOK(p) /\ TypeOK /\ EmptyDb \in Database
        /\ lock = p /\ Sound(work[p], 0) /\ Extends(db, work[p])
    BY EmptyDbSound
    DEF IInv, Sound, Commit, ProcessOK, Exclusive, WorkSound, Holding, Pending
  <1>2. /\ db' = work[p] /\ lock' = NoProc /\ work' = [work EXCEPT ![p] = EmptyDb]
        /\ pc' = [pc EXCEPT ![p] = "idle"] /\ saves[p] = << >>
        /\ UNCHANGED <<saves, frame, req, anchors, reply>>
    BY DEF Commit
  <1>3. Typed /\ OnlyMoves(p)
    BY <1>1, <1>2 DEF TypeOK, Typed, OnlyMoves, PcValues
  <1>4. pc'[p] = "idle" /\ saves'[p] = << >>
    BY <1>1, <1>2 DEF TypeOK
  <1>5. DOMAIN saves'[p] = {} /\ saves'[p] \in Seq(Database)
    BY <1>4, EmptySeq
  <1>6. ProcessOK(p)'
    BY <1>4, <1>5 DEF ProcessOK, Exclusive, WorkSound, SavesSound, FrameOK, RequestOK,
                      Holding, InMethod
  <1> QED BY <1>1, <1>2, <1>3, <1>6, StepKeeps

\* A crash or a ROLLBACK drops the working copy and the stack.
LEMMA AbortKeeps ==
    ASSUME IInv, NEW p \in Procs, Abort(p)
    PROVE  IInv' /\ Extends(db, db')
  <1>1. TypeOK /\ EmptyDb \in Database /\ Sound(db, 0) /\ db \in Database /\ Idle \in Request
    BY EmptyDbSound, OwnFacts DEF IInv, Sound
  <1>2. /\ db' = db /\ lock' = (IF lock = p THEN NoProc ELSE lock)
        /\ work' = [work EXCEPT ![p] = EmptyDb] /\ saves' = [saves EXCEPT ![p] = << >>]
        /\ pc' = [pc EXCEPT ![p] = "idle"] /\ frame' = [frame EXCEPT ![p] = "none"]
        /\ req' = [req EXCEPT ![p] = Idle] /\ UNCHANGED <<anchors, reply>>
    BY DEF Abort
  <1>3. Typed /\ OnlyMoves(p)
    BY <1>1, <1>2, EmptySeq DEF TypeOK, Typed, OnlyMoves, PcValues
  <1>4. pc'[p] = "idle" /\ saves'[p] = << >>
    BY <1>1, <1>2 DEF TypeOK
  <1>5. DOMAIN saves'[p] = {} /\ saves'[p] \in Seq(Database)
    BY <1>4, EmptySeq
  <1>6. ProcessOK(p)'
    BY <1>4, <1>5 DEF ProcessOK, Exclusive, WorkSound, SavesSound, FrameOK, RequestOK,
                      Holding, InMethod
  <1>7. <<db, lock>>' = <<db, lock>> \/ lock \in {p, NoProc}
    BY <1>2
  <1> QED BY <1>1, <1>2, <1>3, <1>6, <1>7, StepKeeps, ExtendsReflexive

\* The anchors that export_anchor may publish verify against the store they
\* were read from.
LEMMA FreshAnchors ==
    ASSUME NEW d, Sound(d, 0)
    PROVE  LET e == [table |-> "events", count |-> Len(d.events), tip |-> EventTip(d)]
               a == [table |-> "audit_log", count |-> Len(d.audit), tip |-> AuditTip(d)]
           IN  /\ e \in Anchor /\ VerifyAgainstAnchor(d, e)
               /\ a \in Anchor /\ VerifyAgainstAnchor(d, a)
  <1> DEFINE e == [table |-> "events", count |-> Len(d.events), tip |-> EventTip(d)]
             a == [table |-> "audit_log", count |-> Len(d.audit), tip |-> AuditTip(d)]
  <1>1. d \in Database /\ EventChainIntact(d) /\ AuditChainIntact(d)
    BY DEF Sound
  <1>2. /\ d.events \in Seq(Event) /\ Len(d.events) \in Nat
        /\ d.audit \in Seq(AuditRow) /\ Len(d.audit) \in Nat /\ DOMAIN d.audit = 1..Len(d.audit)
    BY <1>1, DatabaseFields
  <1>3. EventTip(d) = IF Len(d.events) = 0 THEN GENESIS ELSE d.events[Len(d.events)].hash
    BY <1>2, EventTipIsLast, EmptySeq
  <1>4. AuditTip(d) = IF Len(d.audit) = 0 THEN GENESIS ELSE d.audit[Len(d.audit)].hash
    BY <1>2, EmptySeq DEF AuditTip
  <1>5. AuditTip(d) \in Seq(AuditEntry)
    <2>1. CASE Len(d.audit) = 0
      BY <1>4, <2>1, EmptySeq DEF GENESIS
    <2>2. CASE Len(d.audit) # 0
      <3>1. Len(d.audit) \in DOMAIN d.audit
        BY <1>2, <2>2
      <3> QED BY <1>1, <1>4, <2>2, <3>1, DatabaseRows
    <2> QED BY <2>1, <2>2
  <1>6. e \in Anchor /\ a \in Anchor
    BY <1>2, <1>5, EventTipIsLast DEF Anchor
  <1>7. VerifyAgainstAnchor(d, e)
    BY <1>1, <1>2, <1>3 DEF VerifyAgainstAnchor
  <1>8. VerifyAgainstAnchor(d, a)
    BY <1>1, <1>2, <1>4 DEF VerifyAgainstAnchor
  <1> QED BY <1>6, <1>7, <1>8

\* Publishing an anchor changes nothing in the store.
LEMMA ExportKeeps ==
    ASSUME IInv, NEW p \in Procs, ExportAnchor(p)
    PROVE  IInv' /\ Extends(db, db')
  <1> DEFINE e == [table |-> "events", count |-> Len(db.events), tip |-> EventTip(db)]
             a == [table |-> "audit_log", count |-> Len(db.audit), tip |-> AuditTip(db)]
  <1>1. Sound(db, 0) /\ Extends(db, db)
    BY OwnFacts
  <1>2. e \in Anchor /\ VerifyAgainstAnchor(db, e) /\ a \in Anchor /\ VerifyAgainstAnchor(db, a)
    BY <1>1, FreshAnchors
  <1>3. anchors' = anchors \cup {e} \/ anchors' = anchors \cup {a}
    BY DEF ExportAnchor
  <1>4. UNCHANGED <<db, lock, work, saves, pc, frame, req, reply>>
    BY DEF ExportAnchor
  <1> HIDE DEF e, a
  <1>5. AnchorsHold' /\ anchors' \subseteq Anchor
    BY <1>2, <1>3, <1>4 DEF IInv, TypeOK, AnchorsHold
  <1>6. \A q \in Procs : ProcessOK(q)'
    BY <1>4 DEF IInv, ProcessOK, Exclusive, WorkSound, SavesSound, FrameOK, RequestOK,
                Holding, InMethod, Pending
  <1>7. TypeOK'
    BY <1>4, <1>5 DEF IInv, TypeOK
  <1> QED BY <1>1, <1>4, <1>5, <1>6, <1>7 DEF IInv
-----------------------------------------------------------------------------
(* One lemma per group of actions, one step per action.                    *)

\* The initial database is empty and everyone is idle.
LEMMA InitInv == Init => IInv
  <1> SUFFICES ASSUME Init PROVE IInv
    OBVIOUS
  <1>1. EmptyDb \in Database /\ Idle \in Request /\ NoReply \in Reply
    BY EmptyDbSound DEF Sound, Idle, Request, NoReply, Reply
  <1>2. << >> \in Seq(Database) /\ DOMAIN << >> = {}
    BY EmptySeq
  <1>3. TypeOK
    BY <1>1, <1>2 DEF Init, TypeOK, PcValues
  <1>4. ASSUME NEW p \in Procs PROVE ProcessOK(p)
    BY <1>2 DEF Init, ProcessOK, Exclusive, WorkSound, SavesSound, FrameOK, RequestOK,
                Holding, InMethod
  <1>5. AnchorsHold
    BY DEF Init, AnchorsHold
  <1> QED BY <1>3, <1>4, <1>5, EmptyDbSound DEF Init, IInv

\* The transaction context manager.
LEMMA TransactKeeps ==
    ASSUME IInv, NEW p \in Procs, Transact(p)
    PROVE  IInv' /\ Extends(db, db')
  <1> TypeOK
    BY DEF IInv
  <1>1. CASE Begin(p)
    <2>1. req' = [req EXCEPT ![p] = req[p]] /\ req[p] \in Request
      BY <1>1 DEF Begin, TypeOK
    <2>2. Enter(p) /\ pc' = [pc EXCEPT ![p] = "open"] /\ UNCHANGED <<db, anchors, reply>>
      BY <1>1 DEF Begin
    <2>3. /\ "open" \in PcValues \ {"idle", "put", "insert"}
          /\ "open" # "lookup" /\ "open" # "audit" /\ "open" # "delete"
      BY DEF PcValues
    <2> QED BY <2>1, <2>2, <2>3, EnterKeeps
  <1>2. CASE Nest(p)
    <2>1. work' = [work EXCEPT ![p] = work[p]]
      BY <1>2 DEF Nest, TypeOK
    <2>2. pc[p] = "open" /\ Sound(work[p], 0) /\ Extends(db, work[p])
      BY <1>2, OwnFacts DEF Nest
    <2>3. /\ saves' = [saves EXCEPT ![p] = Append(saves[p], work[p])]
          /\ UNCHANGED <<db, lock, pc, frame, req, anchors, reply>>
      BY <1>2 DEF Nest
    <2> QED BY <2>1, <2>2, <2>3, PushOK, OpenKeeps
  <1>3. CASE Release(p)
    <2>1. work' = [work EXCEPT ![p] = work[p]]
      BY <1>3 DEF Release, TypeOK
    <2>2. pc[p] = "open" /\ Sound(work[p], 0) /\ Extends(db, work[p]) /\ saves[p] # << >>
      BY <1>3, OwnFacts DEF Release
    <2>3. /\ Front(saves[p]) \in Seq(Database)
          /\ \A k \in DOMAIN Front(saves[p]) :
                Sound(Front(saves[p])[k], 0) /\ Extends(db, Front(saves[p])[k])
      BY <2>2, OwnFacts, FrontOK
    <2>4. /\ saves' = [saves EXCEPT ![p] = Front(saves[p])]
          /\ UNCHANGED <<db, lock, pc, frame, req, anchors, reply>>
      BY <1>3 DEF Release
    <2> QED BY <2>1, <2>2, <2>3, <2>4, OpenKeeps
  <1>4. CASE RollbackTo(p)
    <2>1. pc[p] = "open" /\ saves[p] # << >>
      BY <1>4 DEF RollbackTo
    <2>2. /\ Front(saves[p]) \in Seq(Database)
          /\ \A k \in DOMAIN Front(saves[p]) :
                Sound(Front(saves[p])[k], 0) /\ Extends(db, Front(saves[p])[k])
          /\ Sound(saves[p][Len(saves[p])], 0) /\ Extends(db, saves[p][Len(saves[p])])
      BY <2>1, OwnFacts, FrontOK
    <2>3. /\ saves' = [saves EXCEPT ![p] = Front(saves[p])]
          /\ work' = [work EXCEPT ![p] = saves[p][Len(saves[p])]]
          /\ UNCHANGED <<db, lock, pc, frame, req, anchors, reply>>
      BY <1>4 DEF RollbackTo
    <2> QED BY <2>1, <2>2, <2>3, OpenKeeps
  <1> QED BY <1>1, <1>2, <1>3, <1>4, CommitKeeps, AbortKeeps DEF Transact

\* append_event.
LEMMA DeliverKeeps ==
    ASSUME IInv, NEW p \in Procs, Deliver(p)
    PROVE  IInv' /\ Extends(db, db')
  <1> TypeOK
    BY DEF IInv
  <1>1. ASSUME NEW s \in Scopes, NEW k \in Keys, NEW c \in Contents, Append_event(p, s, k, c)
        PROVE  IInv' /\ Extends(db, db')
    <2> DEFINE r == [Idle EXCEPT !.scope = s, !.key = k, !.content = c]
    <2>1. r \in Request /\ IsDelivery(r)
      BY DEF Idle, Request, IsDelivery
    <2> HIDE DEF r
    <2>2. /\ Enter(p) /\ pc' = [pc EXCEPT ![p] = "lookup"] /\ req' = [req EXCEPT ![p] = r]
          /\ UNCHANGED <<db, anchors, reply>>
      BY <1>1 DEF Append_event, r
    <2>3. /\ "lookup" \in PcValues \ {"idle", "put", "insert"}
          /\ "lookup" # "audit" /\ "lookup" # "delete"
      BY DEF PcValues
    <2> QED BY <2>1, <2>2, <2>3, EnterKeeps
  <1>2. CASE Duplicate(p)
    <2>1. pc[p] = "lookup" /\ InMethod(p) /\ UNCHANGED anchors
      BY <1>2 DEF Duplicate, InMethod
    <2>2. CASE Leave(p, work[p]) /\ Say(p, "duplicate", req[p])
      BY <2>1, <2>2, OwnFacts, LeaveKeeps
    <2>3. CASE Undo(p) /\ UNCHANGED reply
      BY <2>1, <2>3, UndoKeeps
    <2> QED BY <1>2, <2>2, <2>3 DEF Duplicate
  <1>3. CASE PayloadMismatch(p)
    <2>1. pc[p] = "lookup" /\ InMethod(p) /\ UNCHANGED anchors
      BY <1>3 DEF PayloadMismatch, InMethod
    <2>2. PICK i \in Holders(work[p], req[p].scope, req[p].key) :
            LET x == [key |-> req[p].key, existing |-> work[p].events[i].entry.digest,
                      new |-> req[p].content] IN
            \/ /\ Leave(p, [work[p] EXCEPT !.mismatches = @ \cup {x}])
               /\ Say(p, "mismatch", req[p])
            \/ Undo(p) /\ UNCHANGED reply
      BY <1>3 DEF PayloadMismatch
    <2> DEFINE x == [key |-> req[p].key, existing |-> work[p].events[i].entry.digest,
                     new |-> req[p].content]
    <2>3. x \in Mismatch
      <3>1. i \in DOMAIN work[p].events /\ work[p] \in Database
        BY OwnFacts DEF Holders
      <3>2. work[p].events[i].entry.digest \in Contents
        BY <3>1, DatabaseRows DEF Entry
      <3>3. req[p].key \in Keys /\ req[p].content \in Contents
        BY <2>1, OwnFacts DEF RequestOK, IsDelivery
      <3> QED BY <3>2, <3>3 DEF Mismatch
    <2> HIDE DEF x
    <2>4. CASE Leave(p, [work[p] EXCEPT !.mismatches = @ \cup {x}]) /\ Say(p, "mismatch", req[p])
      <3>1. /\ Sound([work[p] EXCEPT !.mismatches = @ \cup {x}], 0)
            /\ Extends(work[p], [work[p] EXCEPT !.mismatches = @ \cup {x}])
        BY <2>1, <2>3, OwnFacts, FlagSound
      <3> QED BY <2>1, <2>4, <3>1, OwnFacts, LeaveKeeps
    <2>5. CASE Undo(p) /\ UNCHANGED reply
      BY <2>1, <2>5, UndoKeeps
    <2> QED BY <2>2, <2>4, <2>5 DEF x
  <1>4. CASE BumpSeq(p)
    <2> DEFINE d == [work[p] EXCEPT !.seq = @ + 1]
    <2>1. /\ pc[p] = "lookup" /\ InMethod(p) /\ work[p].seq < MaxEvents
          /\ Holders(work[p], req[p].scope, req[p].key) = {}
          /\ work' = [work EXCEPT ![p] = d] /\ pc' = [pc EXCEPT ![p] = "insert"]
          /\ UNCHANGED <<db, lock, saves, frame, req, anchors, reply>>
      BY <1>4 DEF BumpSeq, InMethod, TypeOK
    <2>2. /\ Sound(d, 1) /\ Extends(work[p], d)
          /\ Holders(d, req[p].scope, req[p].key) = {}
      BY <2>1, OwnFacts, BumpSound
    <2>3. req' = [req EXCEPT ![p] = req[p]] /\ req[p] \in Request /\ IsDelivery(req[p])
      BY <2>1, OwnFacts DEF TypeOK, RequestOK
    <2> HIDE DEF d
    <2> QED BY <2>1, <2>2, <2>3, WorkKeeps
  <1>5. CASE InsertEvent(p)
    <2>1. /\ pc[p] = "insert" /\ InMethod(p) /\ UNCHANGED anchors
          /\ Leave(p, WithEvent(work[p], req[p]))
      BY <1>5 DEF InsertEvent, InMethod
    <2>2. /\ Sound(WithEvent(work[p], req[p]), 0)
          /\ Extends(work[p], WithEvent(work[p], req[p]))
      BY <2>1, OwnFacts, InsertEventSound DEF RequestOK
    <2>3. reply' \in [Procs -> Reply]
      BY <1>5, OwnFacts DEF InsertEvent
    <2> QED BY <2>1, <2>2, <2>3, LeaveKeeps
  <1>6. CASE InsertFails(p)
    BY <1>6, UndoKeeps DEF InsertFails, InMethod
  <1> QED BY <1>1, <1>2, <1>3, <1>4, <1>5, <1>6 DEF Deliver

\* Audit rows, deletions and sweeps.
LEMMA GovernKeeps ==
    ASSUME IInv, NEW p \in Procs, Govern(p)
    PROVE  IInv' /\ Extends(db, db')
  <1> TypeOK
    BY DEF IInv
  <1>1. CASE InsertAudit(p)
    <2>1. /\ pc[p] = "audit" /\ InMethod(p) /\ UNCHANGED <<anchors, reply>>
          /\ Leave(p, WithAudit(work[p], req[p].audit))
      BY <1>1 DEF InsertAudit, InMethod
    <2>2. /\ Sound(WithAudit(work[p], req[p].audit), 0)
          /\ Extends(work[p], WithAudit(work[p], req[p].audit))
      BY <2>1, OwnFacts, InsertAuditSound DEF RequestOK
    <2> QED BY <2>1, <2>2, OwnFacts, LeaveKeeps
  <1>2. CASE AuditFails(p)
    BY <1>2, UndoKeeps DEF AuditFails, InMethod
  <1>3. ASSUME NEW b \in Blobs, DeleteEvidence(p, b)
        PROVE  IInv' /\ Extends(db, db')
    <2> DEFINE r == [Idle EXCEPT !.blob = b]
    <2>1. r \in Request /\ r.blob \in Blobs
      BY DEF Idle, Request
    <2> HIDE DEF r
    <2>2. /\ Enter(p) /\ pc' = [pc EXCEPT ![p] = "delete"] /\ req' = [req EXCEPT ![p] = r]
          /\ UNCHANGED <<db, anchors, reply>>
      BY <1>3 DEF DeleteEvidence, r
    <2>3. /\ "delete" \in PcValues \ {"idle", "put", "insert"}
          /\ "delete" # "lookup" /\ "delete" # "audit"
      BY DEF PcValues
    <2> QED BY <2>1, <2>2, <2>3, EnterKeeps
  <1>4. CASE Tombstone(p)
    <2> DEFINE b == req[p].blob
               a == [action |-> "evidence.delete", object |-> b, count |-> 0]
               d == [work[p] EXCEPT !.blobs[b].deleted = TRUE]
               r == [req[p] EXCEPT !.audit = a]
    <2>1. /\ pc[p] = "delete" /\ InMethod(p)
          /\ work' = [work EXCEPT ![p] = d] /\ pc' = [pc EXCEPT ![p] = "audit"]
          /\ req' = [req EXCEPT ![p] = r]
          /\ UNCHANGED <<db, lock, saves, frame, anchors, reply>>
      BY <1>4 DEF Tombstone, InMethod, TypeOK
    <2>2. b \in Blobs
      BY <2>1, OwnFacts DEF RequestOK
    <2>3. Sound(d, 0) /\ Extends(work[p], d)
      BY <2>1, <2>2, OwnFacts, TombstoneSound
    <2>4. a \in AuditEntry
      BY <2>2, BoundsAssumption DEF AuditEntry
    <2>5. r \in Request /\ r.audit \in AuditEntry
      BY <2>4, OwnFacts DEF Request
    <2> HIDE DEF d, r, a
    <2> QED BY <2>1, <2>3, <2>5, WorkKeeps
  <1>5. CASE NothingToDelete(p)
    <2>1. /\ pc[p] = "delete" /\ InMethod(p) /\ UNCHANGED <<anchors, reply>>
          /\ Leave(p, work[p])
      BY <1>5 DEF NothingToDelete, InMethod
    <2> QED BY <2>1, OwnFacts, LeaveKeeps
  <1>6. CASE SweepRetention(p)
    <2>1. req' = [req EXCEPT ![p] = req[p]] /\ req[p] \in Request
      BY <1>6 DEF SweepRetention, TypeOK
    <2>2. Enter(p) /\ pc' = [pc EXCEPT ![p] = "sweep"] /\ UNCHANGED <<db, anchors, reply>>
      BY <1>6 DEF SweepRetention
    <2>3. /\ "sweep" \in PcValues \ {"idle", "put", "insert"}
          /\ "sweep" # "lookup" /\ "sweep" # "audit" /\ "sweep" # "delete"
      BY DEF PcValues
    <2> QED BY <2>1, <2>2, <2>3, EnterKeeps
  <1>7. ASSUME NEW old \in SUBSET (1..MaxEvents), ClearPayloads(p, old)
        PROVE  IInv' /\ Extends(db, db')
    <2> DEFINE a == [action |-> "retention.sweep", object |-> Absent,
                     count |-> Cardinality(old)]
               d == Cleared(work[p], old)
               r == [req[p] EXCEPT !.audit = a]
    <2>1. /\ pc[p] = "sweep" /\ InMethod(p)
          /\ work' = [work EXCEPT ![p] = d] /\ pc' = [pc EXCEPT ![p] = "audit"]
          /\ req' = [req EXCEPT ![p] = r]
          /\ UNCHANGED <<db, lock, saves, frame, anchors, reply>>
      BY <1>7 DEF ClearPayloads, InMethod, TypeOK
    <2>2. Sound(d, 0) /\ Extends(work[p], d)
      BY <2>1, OwnFacts, ClearSound
    <2>3. Cardinality(old) \in 0..MaxEvents
      <3>1. IsFiniteSet(1..MaxEvents) /\ Cardinality(1..MaxEvents) = MaxEvents
        BY BoundsAssumption, FS_Interval
      <3>2. IsFiniteSet(old) /\ Cardinality(old) <= MaxEvents
        BY <3>1, FS_Subset
      <3> QED BY <3>2, FS_CardinalityType, BoundsAssumption
    <2>4. a \in AuditEntry
      BY <2>3 DEF AuditEntry
    <2>5. r \in Request /\ r.audit \in AuditEntry
      BY <2>4, OwnFacts DEF Request
    <2> HIDE DEF d, r, a
    <2> QED BY <2>1, <2>2, <2>5, WorkKeeps
  <1>8. CASE NothingToClear(p)
    <2>1. /\ pc[p] = "sweep" /\ InMethod(p) /\ UNCHANGED <<anchors, reply>>
          /\ Leave(p, work[p])
      BY <1>8 DEF NothingToClear, InMethod
    <2> QED BY <2>1, OwnFacts, LeaveKeeps
  <1> QED BY <1>1, <1>2, <1>3, <1>4, <1>5, <1>6, <1>7, <1>8, AuditKeeps DEF Govern

\* Evidence blobs and anchors.
LEMMA RetainKeeps ==
    ASSUME IInv, NEW p \in Procs, Retain(p)
    PROVE  IInv' /\ Extends(db, db')
  <1> TypeOK
    BY DEF IInv
  <1>1. ASSUME NEW b \in Blobs, NEW m \in Metas, JoinedPutEvidence(p, b, m)
        PROVE  IInv' /\ Extends(db, db')
    <2>1. /\ pc[p] = "open" /\ saves' = [saves EXCEPT ![p] = saves[p]]
          /\ UNCHANGED <<db, lock, pc, frame, req, anchors, reply>>
      BY <1>1 DEF JoinedPutEvidence, TypeOK
    <2>2. CASE /\ work[p].blobs[b].meta = Absent
               /\ work' = [work EXCEPT ![p] = WithBlob(work[p], b, m)]
      <3>1. Sound(WithBlob(work[p], b, m), 0) /\ Extends(work[p], WithBlob(work[p], b, m))
        BY <2>1, <2>2, OwnFacts, InsertBlobSound
      <3>2. Extends(db, WithBlob(work[p], b, m))
        BY <2>1, <3>1, OwnFacts, ExtendsTransitive DEF Sound
      <3> QED BY <2>1, <2>2, <3>1, <3>2, OwnFacts, OpenKeeps
    <2>3. CASE UNCHANGED work
      <3>1. work' = [work EXCEPT ![p] = work[p]]
        BY <2>3 DEF TypeOK
      <3> QED BY <2>1, <3>1, OwnFacts, OpenKeeps
    <2> QED BY <1>1, <2>2, <2>3 DEF JoinedPutEvidence
  <1>2. ASSUME NEW b \in Blobs, NEW m \in Metas, PutEvidence(p, b, m)
        PROVE  IInv' /\ Extends(db, db')
    <2> DEFINE r == [Idle EXCEPT !.blob = b, !.meta = m]
               s == [Idle EXCEPT !.blob = b]
    <2>1. r \in Request /\ r.blob \in Blobs /\ r.meta \in Metas /\ s \in Request
      BY DEF Idle, Request
    <2> HIDE DEF r, s
    <2>2. /\ pc[p] = "idle" /\ ~Holding(p) /\ UNCHANGED <<db, lock, work, saves, frame, anchors>>
          /\ \/ Say(p, "stored", s) /\ UNCHANGED <<pc, req>>
             \/ /\ pc' = [pc EXCEPT ![p] = "put"] /\ req' = [req EXCEPT ![p] = r]
                /\ UNCHANGED reply
      BY <1>2 DEF PutEvidence, Holding, r, s
    <2>3. CASE Say(p, "stored", s) /\ UNCHANGED <<pc, req>>
      <3>1. pc' = [pc EXCEPT ![p] = "idle"] /\ req' = [req EXCEPT ![p] = req[p]]
        BY <2>2, <2>3 DEF TypeOK
      <3>2. reply' \in [Procs -> Reply]
        BY <2>1, <2>3, OwnFacts
      <3> QED BY <2>2, <3>1, <3>2, OwnFacts, OutsideKeeps
    <2>4. CASE pc' = [pc EXCEPT ![p] = "put"] /\ req' = [req EXCEPT ![p] = r] /\ UNCHANGED reply
      BY <2>1, <2>2, <2>4, OwnFacts, OutsideKeeps
    <2> QED BY <2>2, <2>3, <2>4
  <1>3. CASE InsertBlob(p)
    <2>1. /\ pc[p] = "put" /\ ~Holding(p) /\ lock = NoProc
          /\ pc' = [pc EXCEPT ![p] = "idle"] /\ req' = [req EXCEPT ![p] = Idle]
          /\ UNCHANGED <<lock, work, saves, frame, anchors>>
      BY <1>3 DEF InsertBlob, Holding
    <2>2. Sound(db', 0) /\ Extends(db, db') /\ reply' \in [Procs -> Reply]
      <3>1. req[p].blob \in Blobs /\ req[p].meta \in Metas /\ req[p] \in Request
        BY <2>1, OwnFacts DEF RequestOK
      <3>2. CASE /\ db.blobs[req[p].blob].meta = Absent
                 /\ db' = WithBlob(db, req[p].blob, req[p].meta)
                 /\ Say(p, "stored", req[p])
        BY <3>1, <3>2, OwnFacts, InsertBlobSound
      <3>3. CASE UNCHANGED <<db, reply>>
        BY <3>3, OwnFacts
      <3> QED BY <1>3, <3>2, <3>3 DEF InsertBlob
    <2> QED BY <2>1, <2>2, OwnFacts, OutsideKeeps
  <1> QED BY <1>1, <1>2, <1>3, ExportKeeps DEF Retain

\* Every step of the store keeps the invariant and continues the database.
LEMMA NextInv ==
    ASSUME IInv, [Next]_vars
    PROVE  IInv' /\ Extends(db, db')
  <1>1. CASE Next
    <2>1. PICK p \in Procs : Transact(p) \/ Deliver(p) \/ Govern(p) \/ Retain(p)
      BY <1>1 DEF Next
    <2> QED BY <2>1, TransactKeeps, DeliverKeeps, GovernKeeps, RetainKeeps
  <1>2. CASE UNCHANGED vars
    <2>1. IInv'
      BY <1>2 DEF vars, IInv, TypeOK, AnchorsHold, ProcessOK, Exclusive, WorkSound,
                  SavesSound, FrameOK, RequestOK, Holding, InMethod, Pending
    <2>2. db' = db /\ db \in Database
      BY <1>2 DEF vars, IInv, TypeOK
    <2> QED BY <2>1, <2>2, ExtendsReflexive
  <1> QED BY <1>1, <1>2

-----------------------------------------------------------------------------
(* The theorems.                                                           *)

\* The inductive invariant holds in every reachable state.
THEOREM Invariance == Spec => []IInv
  <1>1. IInv /\ [Next]_vars => IInv'
    BY NextInv
  <1> QED BY <1>1, InitInv, PTL DEF Spec

\* Type correctness of the store, its transactions and its anchors.
THEOREM TypeCorrect == Spec => []TypeOK
  <1>1. IInv => TypeOK
    BY DEF IInv
  <1> QED BY <1>1, Invariance, PTL

\* store.py's event_seq never leaves a gap or repeats a number, and no
\* idempotency key is ever used twice, for any number of processes.
THEOREM LogStaysWellFormed == Spec => []LogWellFormed
  <1>1. IInv => LogWellFormed
    <2> SUFFICES ASSUME IInv PROVE LogWellFormed
      OBVIOUS
    <2>1. Sound(db, 0) /\ Len(db.events) \in Nat
      BY DatabaseFields DEF IInv, Sound
    <2> QED BY <2>1 DEF Sound, LogWellFormed, SeqContiguous
  <1> QED BY <1>1, Invariance, PTL

\* verify_chain succeeds on both tables in every committed state.
THEOREM ChainsStayIntact == Spec => []ChainsIntact
  <1>1. IInv => ChainsIntact
    BY DEF IInv, Sound, ChainsIntact
  <1> QED BY <1>1, Invariance, PTL

\* verify_against_anchor succeeds for ever on everything export_anchor issued.
THEOREM AnchorsStayTrue == Spec => []AnchorsHold
  <1>1. IInv => AnchorsHold
    BY DEF IInv
  <1> QED BY <1>1, Invariance, PTL

\* No commit rewrites or drops what was committed before it.
THEOREM CommitsAppend == Spec => AppendOnly
  <1>1. IInv /\ [Next]_vars => [Extends(db, db')]_db
    BY NextInv
  <1> QED BY <1>1, Invariance, PTL DEF Spec, AppendOnly

-----------------------------------------------------------------------------
(* Replies.                                                                *)

\* The bodies that a database holds under the key of a delivery.
Held(d, r) == {d.events[i].entry.digest : i \in Holders(d, r.scope, r.key)}

\* Exactly one, and it is c.
HoldsOnly(d, r, c) == Held(d, r) = {c}

\* What p was last told is so.
Truthful(p) ==
    /\ reply[p].outcome \in {"accepted", "duplicate"} =>
          HoldsOnly(db, reply[p].on, reply[p].on.content)
    /\ reply[p].outcome = "mismatch" =>
          \E c \in Contents \ {reply[p].on.content} :
              /\ HoldsOnly(db, reply[p].on, c)
              /\ [key |-> reply[p].on.key, existing |-> c, new |-> reply[p].on.content]
                     \in db.mismatches

\* A sound database holds at most one body under a key.
LEMMA HeldIs ==
    ASSUME NEW d, NEW n, Sound(d, n), NEW r, NEW i \in Holders(d, r.scope, r.key)
    PROVE  HoldsOnly(d, r, d.events[i].entry.digest)
  <1>1. \A j \in Holders(d, r.scope, r.key) : j = i
    BY DEF Sound, KeysUnique, Holders
  <1> QED BY <1>1 DEF Held, HoldsOnly

\* And goes on holding it.
LEMMA HeldKept ==
    ASSUME NEW d1, NEW d2, Sound(d1, 0), Sound(d2, 0), Extends(d1, d2),
           NEW r, NEW c, HoldsOnly(d1, r, c)
    PROVE  HoldsOnly(d2, r, c)
  <1>1. PICK i \in Holders(d1, r.scope, r.key) : d1.events[i].entry.digest = c
    BY DEF Held, HoldsOnly
  <1>2. i \in DOMAIN d1.events
    BY DEF Holders
  <1>3. i \in DOMAIN d2.events
    BY <1>2, DatabaseFields DEF Sound, Extends
  <1>4. d2.events[i].entry = d1.events[i].entry
    BY <1>2 DEF Extends
  <1>5. i \in Holders(d2, r.scope, r.key)
    BY <1>3, <1>4 DEF Holders
  <1> QED BY <1>1, <1>4, <1>5, HeldIs

\* What was told stays true as others commit.
LEMMA TruthKept ==
    ASSUME IInv, IInv', Extends(db, db'), NEW p \in Procs, Truthful(p), reply'[p] = reply[p]
    PROVE  Truthful(p)'
  <1>1. Sound(db, 0) /\ Sound(db', 0)
    BY DEF IInv
  <1>2. ASSUME NEW c, HoldsOnly(db, reply[p].on, c) PROVE HoldsOnly(db', reply[p].on, c)
    <2> DEFINE r == reply[p].on
    <2> HIDE DEF r
    <2>1. HoldsOnly(db, r, c)
      BY <1>2 DEF r
    <2>2. HoldsOnly(db', r, c)
      BY <1>1, <2>1, HeldKept
    <2> QED BY <2>2 DEF r
  <1>3. db.mismatches \subseteq db'.mismatches
    BY DEF Extends
  <1> QED BY <1>2, <1>3 DEF Truthful

\* Replies are given by the commit of a delivery that began the write unit, and
\* about blobs.
LEMMA RepliesGiven ==
    ASSUME NEW p \in Procs, Transact(p) \/ Deliver(p) \/ Govern(p) \/ Retain(p)
    PROVE  \/ UNCHANGED reply
           \/ Duplicate(p) /\ frame[p] = "outer" /\ Say(p, "duplicate", req[p])
           \/ PayloadMismatch(p) /\ frame[p] = "outer" /\ Say(p, "mismatch", req[p])
           \/ InsertEvent(p) /\ frame[p] = "outer" /\ Say(p, "accepted", req[p])
           \/ \E r : Say(p, "stored", r)
  <1>1. CASE Transact(p)
    BY <1>1 DEF Transact, Begin, Nest, Release, RollbackTo, Commit, Abort
  <1>2. CASE Deliver(p)
    BY <1>2 DEF Deliver, Append_event, Duplicate, PayloadMismatch, BumpSeq, InsertEvent, InsertFails
  <1>3. CASE Govern(p)
    BY <1>3 DEF Govern, Audit, InsertAudit, AuditFails, DeleteEvidence, Tombstone, NothingToDelete,
        SweepRetention, ClearPayloads, NothingToClear
  <1>4. CASE Retain(p)
    BY <1>4 DEF Retain, JoinedPutEvidence, PutEvidence, InsertBlob, ExportAnchor
  <1> QED BY <1>1, <1>2, <1>3, <1>4

\* The three replies of append_event are true when they are given.
LEMMA TruthGiven ==
    ASSUME IInv, NEW p \in Procs, frame[p] = "outer",
           \/ Duplicate(p) /\ Say(p, "duplicate", req[p])
           \/ PayloadMismatch(p) /\ Say(p, "mismatch", req[p])
           \/ InsertEvent(p) /\ Say(p, "accepted", req[p])
    PROVE  Truthful(p)'
  <1> DEFINE r == req[p]
  <1>1. ASSUME NEW o, Say(p, o, r) PROVE reply'[p].outcome = o /\ reply'[p].on = r
    <2>1. reply \in [Procs -> Reply] /\ reply' = [reply EXCEPT ![p] = [outcome |-> o, on |-> r]]
      BY <1>1 DEF Say, IInv, TypeOK
    <2>2. reply'[p] = [outcome |-> o, on |-> r]
      BY <2>1
    <2> QED BY <2>2
  <1>2. CASE Duplicate(p) /\ Say(p, "duplicate", r)
    <2>1. pc[p] = "lookup" /\ db' = work[p]
      BY <1>2 DEF Duplicate, Leave, Undo
    <2>2. PICK i \in Holders(work[p], r.scope, r.key) : work[p].events[i].entry.digest = r.content
      BY <1>2 DEF Duplicate
    <2>3. HoldsOnly(db', r, r.content)
      BY <2>1, <2>2, OwnFacts, HeldIs
    <2>4. reply'[p].outcome = "duplicate" /\ reply'[p].on = r
      BY <1>1, <1>2
    <2> QED BY <2>3, <2>4 DEF Truthful
  <1>3. CASE PayloadMismatch(p) /\ Say(p, "mismatch", r)
    <2>1. pc[p] = "lookup"
      BY <1>3 DEF PayloadMismatch
    <2>2. PICK i \in Holders(work[p], r.scope, r.key) :
            LET old == work[p].events[i].entry.digest IN
            /\ old # r.content
            /\ db' = [work[p] EXCEPT !.mismatches = @ \cup
                        {[key |-> r.key, existing |-> old, new |-> r.content]}]
      BY <1>3 DEF PayloadMismatch, Leave, Undo
    <2> DEFINE old == work[p].events[i].entry.digest
               x == [key |-> r.key, existing |-> old, new |-> r.content]
    <2>3. work[p] \in Database /\ Sound(work[p], 0)
      BY <2>1, OwnFacts
    <2>4. old \in Contents
      BY <2>3, DatabaseRows DEF Holders, Entry
    <2>5. db'.events = work[p].events /\ x \in db'.mismatches
      BY <2>2, <2>3 DEF Database
    <2>6. HoldsOnly(db', r, old)
      <3>1. HoldsOnly(work[p], r, old)
        BY <2>3, HeldIs
      <3>2. Held(db', r) = Held(work[p], r)
        BY <2>5 DEF Held, Holders
      <3> QED BY <3>1, <3>2 DEF HoldsOnly
    <2>7. reply'[p].outcome = "mismatch" /\ reply'[p].on = r
      BY <1>1, <1>3
    <2> HIDE DEF r
    <2> QED BY <2>2, <2>4, <2>5, <2>6, <2>7 DEF Truthful
  <1>4. CASE InsertEvent(p) /\ Say(p, "accepted", r)
    <2>1. pc[p] = "insert" /\ db' = WithEvent(work[p], r)
      BY <1>4 DEF InsertEvent, Leave
    <2>2. Sound(work[p], 1) /\ IsDelivery(r) /\ Holders(work[p], r.scope, r.key) = {}
      BY <2>1, OwnFacts DEF RequestOK
    <2>3. Sound(db', 0)
      BY <2>1, <2>2, InsertEventSound
    <2> DEFINE e == [scope |-> r.scope, key |-> r.key, digest |-> r.content,
                     stored |-> Capture[r.content], seq |-> work[p].seq]
               row == [entry |-> e, payload |-> TRUE, prev |-> EventTip(work[p]),
                       hash |-> Link(EventTip(work[p]), e)]
               n == Len(work[p].events) + 1
    <2>4. db'.events = Append(work[p].events, row)
      BY <2>1, <2>2 DEF WithEvent, Sound, Database
    <2>5. row.entry.scope = r.scope /\ row.entry.key = r.key /\ row.entry.digest = r.content
      OBVIOUS
    <2> HIDE DEF row, r
    <2>6. n \in DOMAIN db'.events /\ db'.events[n] = row
      <3>1. Len(work[p].events) \in Nat
        BY <2>2, DatabaseFields DEF Sound
      <3>2. DOMAIN Append(work[p].events, row) = 1..(Len(work[p].events) + 1)
            /\ Append(work[p].events, row)[Len(work[p].events) + 1] = row
        <4>1. work[p].events \in Seq(Event)
          BY <2>2, DatabaseFields DEF Sound
        <4>2. work[p].events \in Seq(Event \cup {row}) /\ row \in Event \cup {row}
          BY <4>1
        <4> QED BY <4>2, AppendProperties, LenProperties
      <3> QED BY <2>4, <3>1, <3>2
    <2>7. n \in Holders(db', r.scope, r.key)
      BY <2>5, <2>6 DEF Holders
    <2>8. HoldsOnly(db', r, r.content)
      <3>1. HoldsOnly(db', r, db'.events[n].entry.digest)
        BY <2>3, <2>7, HeldIs
      <3> QED BY <2>5, <2>6, <3>1
    <2>9. reply'[p].outcome = "accepted" /\ reply'[p].on = r
      BY <1>1, <1>4
    <2> QED BY <2>8, <2>9 DEF Truthful
  <1> QED BY <1>2, <1>3, <1>4

\* What append_event told its caller, a later commit of any process leaves true:
\* accepted and duplicate name the body the log holds, mismatch another one and a
\* flag that survived.
THEOREM RepliesStayTrue == Spec => []RepliesTruthful
  <1> DEFINE AllTruthful == \A p \in Procs : Truthful(p)
  <1>1. Init => AllTruthful
    BY DEF Init, NoReply, Truthful
  <1>2. IInv /\ AllTruthful /\ [Next]_vars => AllTruthful'
    <2> SUFFICES ASSUME IInv, AllTruthful, [Next]_vars, NEW q \in Procs PROVE Truthful(q)'
      OBVIOUS
    <2>1. IInv' /\ Extends(db, db')
      BY NextInv
    <2>2. CASE reply'[q] = reply[q]
      BY <2>1, <2>2, TruthKept
    <2>3. CASE reply'[q] # reply[q]
      <3>1. PICK p \in Procs : Transact(p) \/ Deliver(p) \/ Govern(p) \/ Retain(p)
        BY <2>3 DEF Next, vars
      <3>2. ASSUME NEW o, NEW x, Say(p, o, x) PROVE q = p /\ reply'[q].outcome = o
        <4>1. reply \in [Procs -> Reply] /\ reply' = [reply EXCEPT ![p] = [outcome |-> o, on |-> x]]
          BY <3>2 DEF Say, IInv, TypeOK
        <4>2. q = p /\ reply'[q] = [outcome |-> o, on |-> x]
          BY <2>3, <4>1
        <4> QED BY <4>2
      <3>3. CASE \E x : Say(p, "stored", x)
        <4>1. reply'[q].outcome = "stored"
          BY <3>2, <3>3
        <4> QED BY <4>1 DEF Truthful
      <3>4. CASE \/ Duplicate(p) /\ frame[p] = "outer" /\ Say(p, "duplicate", req[p])
                 \/ PayloadMismatch(p) /\ frame[p] = "outer" /\ Say(p, "mismatch", req[p])
                 \/ InsertEvent(p) /\ frame[p] = "outer" /\ Say(p, "accepted", req[p])
        BY <3>2, <3>4, TruthGiven
      <3> QED BY <2>3, <3>1, <3>3, <3>4, RepliesGiven
    <2> QED BY <2>2, <2>3
  <1>3. AllTruthful => RepliesTruthful
    BY DEF RepliesTruthful, Truthful, HoldsOnly, Held
  <1> QED BY <1>1, <1>2, <1>3, Invariance, PTL DEF Spec

-----------------------------------------------------------------------------
(* The store implements CanonicalLog.                                      *)

\* A flag is written by the very step that commits it, so an open transaction
\* carries none, and neither does anything it may roll back to.
FlagsOK(p) ==
    Holding(p) => /\ work[p].mismatches = db.mismatches
                  /\ \A k \in DOMAIN saves[p] : saves[p][k].mismatches = db.mismatches

\* A delivery that began its write unit decides on the committed log.
OuterOK(p) ==
    pc[p] \in {"lookup", "insert"} /\ frame[p] = "outer" => work[p].events = db.events

PlainOK(p) == FlagsOK(p) /\ OuterOK(p)

\* One process moves, and it owns the lock or nobody does if it commits.
LEMMA OneMoves ==
    ASSUME IInv, NEW p \in Procs, Transact(p) \/ Deliver(p) \/ Govern(p) \/ Retain(p)
    PROVE  /\ OnlyMoves(p)
           /\ db' = db \/ lock \in {p, NoProc}
  <1>1. TypeOK /\ ProcessOK(p)
    BY DEF IInv
  <1>2. Holding(p) => lock = p
    BY <1>1 DEF ProcessOK, Exclusive
  <1>3. ASSUME Enter(p), NEW a, pc' = [pc EXCEPT ![p] = a],
               (\E b : req' = [req EXCEPT ![p] = b]) \/ UNCHANGED req, UNCHANGED db
        PROVE  OnlyMoves(p)
    BY <1>1, <1>3 DEF Enter, Acquire, OnlyMoves, TypeOK
  <1>4. ASSUME NEW d, Leave(p, d) PROVE OnlyMoves(p)
    BY <1>1, <1>4 DEF Leave, OnlyMoves, TypeOK
  <1>5. ASSUME Undo(p) PROVE OnlyMoves(p) /\ db' = db
    BY <1>1, <1>5 DEF Undo, OnlyMoves, TypeOK
  <1>6. ASSUME NEW d, Leave(p, d), InMethod(p) PROVE lock \in {p, NoProc}
    BY <1>2, <1>6 DEF Holding, InMethod
  <1>7. CASE Transact(p)
    <2>1. CASE Begin(p)
      BY <1>3, <2>1 DEF Begin
    <2>2. CASE Nest(p) \/ Release(p) \/ RollbackTo(p) \/ Abort(p)
      BY <1>1, <2>2 DEF Nest, Release, RollbackTo, Abort, OnlyMoves, TypeOK
    <2>3. CASE Commit(p)
      BY <1>1, <1>2, <2>3 DEF Commit, Holding, OnlyMoves, TypeOK
    <2> QED BY <1>7, <2>1, <2>2, <2>3 DEF Transact
  <1>8. CASE Deliver(p)
    <2>1. ASSUME NEW s \in Scopes, NEW k \in Keys, NEW c \in Contents, Append_event(p, s, k, c)
          PROVE  OnlyMoves(p) /\ db' = db
      BY <1>3, <2>1 DEF Append_event
    <2>2. CASE Duplicate(p) \/ PayloadMismatch(p) \/ InsertEvent(p) \/ InsertFails(p)
      BY <1>4, <1>5, <1>6, <2>2 DEF Duplicate, PayloadMismatch, InsertEvent, InsertFails, InMethod
    <2>3. CASE BumpSeq(p)
      BY <1>1, <2>3 DEF BumpSeq, OnlyMoves, TypeOK
    <2> QED BY <1>8, <2>1, <2>2, <2>3 DEF Deliver
  <1>9. CASE Govern(p)
    <2>1. CASE Audit(p)
      BY <1>1, <2>1 DEF Audit, Join, Acquire, OnlyMoves, TypeOK
    <2>2. CASE InsertAudit(p) \/ AuditFails(p) \/ NothingToDelete(p) \/ NothingToClear(p)
      BY <1>4, <1>5, <1>6, <2>2
         DEF InsertAudit, AuditFails, NothingToDelete, NothingToClear, InMethod
    <2>3. CASE (\E b \in Blobs : DeleteEvidence(p, b)) \/ SweepRetention(p)
      BY <1>3, <2>3 DEF DeleteEvidence, SweepRetention
    <2>4. CASE Tombstone(p) \/ \E old \in SUBSET (1..MaxEvents) : ClearPayloads(p, old)
      BY <1>1, <2>4 DEF Tombstone, ClearPayloads, OnlyMoves, TypeOK
    <2> QED BY <1>9, <2>1, <2>2, <2>3, <2>4 DEF Govern
  <1>10. CASE Retain(p)
    BY <1>1, <1>10 DEF Retain, JoinedPutEvidence, PutEvidence, InsertBlob, ExportAnchor, OnlyMoves, TypeOK
  <1> QED BY <1>7, <1>8, <1>9, <1>10

\* A process that does not move keeps its part.
LEMMA OthersPlain ==
    ASSUME IInv, NEW p \in Procs, NEW q \in Procs, q # p, OnlyMoves(p),
           db' = db \/ lock \in {p, NoProc}, PlainOK(q)
    PROVE  PlainOK(q)'
  <1>1. /\ work'[q] = work[q] /\ saves'[q] = saves[q] /\ pc'[q] = pc[q] /\ frame'[q] = frame[q]
    BY DEF OnlyMoves
  <1>2. CASE db' = db
    BY <1>1, <1>2 DEF PlainOK, FlagsOK, OuterOK, Holding
  <1>3. CASE lock \in {p, NoProc}
    <2>1. ~Holding(q)
      BY <1>3, NamesAssumption DEF IInv, ProcessOK, Exclusive
    <2> QED BY <1>1, <2>1 DEF PlainOK, FlagsOK, OuterOK, Holding
  <1> QED BY <1>2, <1>3

\* Entering a write unit copies the committed database or saves the working copy.
LEMMA EnterPlain ==
    ASSUME IInv, NEW p \in Procs, PlainOK(p), Enter(p), UNCHANGED db,
           NEW a, pc' = [pc EXCEPT ![p] = a]
    PROVE  PlainOK(p)'
  <1>1. TypeOK /\ ProcessOK(p) /\ saves[p] \in Seq(Database)
    BY DEF IInv, ProcessOK, SavesSound
  <1>2. CASE pc[p] = "idle"
    <2>1. work'[p] = db /\ saves'[p] = saves[p]
      BY <1>1, <1>2 DEF Enter, Acquire, TypeOK
    <2>2. saves[p] = << >>
      BY <1>1, <1>2 DEF ProcessOK, SavesSound, Holding
    <2> QED BY <2>1, <2>2, EmptySeq DEF PlainOK, FlagsOK, OuterOK
  <1>3. CASE pc[p] = "open"
    <2>1. /\ work'[p] = work[p] /\ saves'[p] = Append(saves[p], work[p]) /\ frame'[p] = "save"
      BY <1>1, <1>3 DEF Enter, TypeOK
    <2>2. \A k \in DOMAIN saves'[p] :
              (k \in DOMAIN saves[p] /\ saves'[p][k] = saves[p][k]) \/ saves'[p][k] = work[p]
      <3>1. work[p] \in Database
        BY <1>1 DEF TypeOK
      <3> QED BY <1>1, <2>1, <3>1, AppendProperties, LenProperties
    <2>3. Holding(p)
      BY <1>3 DEF Holding
    <2> QED BY <2>1, <2>2, <2>3 DEF PlainOK, FlagsOK, OuterOK
  <1> QED BY <1>2, <1>3 DEF Enter

\* Leaving one with a copy that carries no flag, or at its commit.
LEMMA LeavePlain ==
    ASSUME IInv, NEW p \in Procs, PlainOK(p), InMethod(p), NEW d, Leave(p, d),
           frame[p] = "outer" \/ d.mismatches = work[p].mismatches
    PROVE  PlainOK(p)'
  <1>1. TypeOK /\ ProcessOK(p) /\ saves[p] \in Seq(Database) /\ Holding(p)
    BY DEF IInv, ProcessOK, SavesSound, InMethod, Holding
  <1>2. CASE frame[p] = "outer"
    <2>1. pc'[p] = "idle"
      BY <1>1, <1>2 DEF Leave, TypeOK
    <2> QED BY <2>1 DEF PlainOK, FlagsOK, OuterOK, Holding
  <1>3. CASE frame[p] = "save"
    <2>1. pc'[p] = "open" /\ db' = db /\ work'[p] = d /\ saves'[p] = Front(saves[p])
      BY <1>1, <1>3 DEF Leave, TypeOK
    <2>2. saves[p] # << >>
      BY <1>1, <1>3 DEF ProcessOK, FrameOK
    <2>3. \A k \in DOMAIN Front(saves[p]) :
              k \in DOMAIN saves[p] /\ Front(saves[p])[k] = saves[p][k]
      BY <1>1, <2>2, FrontOK
    <2>4. d.mismatches = work[p].mismatches
      BY <1>3
    <2> QED BY <1>1, <2>1, <2>3, <2>4 DEF PlainOK, FlagsOK, OuterOK
  <1>4. CASE frame[p] = "none"
    <2>1. pc'[p] = "open" /\ db' = db /\ work'[p] = d /\ saves'[p] = saves[p]
      BY <1>1, <1>4 DEF Leave, TypeOK
    <2>2. d.mismatches = work[p].mismatches
      BY <1>4
    <2> QED BY <1>1, <2>1, <2>2 DEF PlainOK, FlagsOK, OuterOK
  <1> QED BY <1>1, <1>2, <1>3, <1>4 DEF TypeOK

LEMMA UndoPlain ==
    ASSUME IInv, NEW p \in Procs, PlainOK(p), InMethod(p), Undo(p)
    PROVE  PlainOK(p)'
  <1>1. TypeOK /\ ProcessOK(p) /\ saves[p] \in Seq(Database) /\ Holding(p)
    BY DEF IInv, ProcessOK, SavesSound, InMethod, Holding
  <1>2. saves[p] # << >>
    BY <1>1 DEF Undo, ProcessOK, FrameOK
  <1>3. /\ Len(saves[p]) \in DOMAIN saves[p]
        /\ \A k \in DOMAIN Front(saves[p]) :
              k \in DOMAIN saves[p] /\ Front(saves[p])[k] = saves[p][k]
    BY <1>1, <1>2, FrontOK
  <1>4. /\ pc'[p] = "open" /\ db' = db /\ work'[p] = saves[p][Len(saves[p])]
        /\ saves'[p] = Front(saves[p])
    BY <1>1 DEF Undo, TypeOK
  <1> QED BY <1>1, <1>3, <1>4 DEF PlainOK, FlagsOK, OuterOK

\* A write inside the unit that touches no flag, and no event before the INSERT.
LEMMA WritePlain ==
    ASSUME IInv, NEW p \in Procs, PlainOK(p), Holding(p), UNCHANGED <<db, saves, frame>>,
           work'[p].mismatches = work[p].mismatches,
           pc'[p] \in {"lookup", "insert"} =>
               pc[p] \in {"lookup", "insert"} /\ work'[p].events = work[p].events
    PROVE  PlainOK(p)'
  BY DEF PlainOK, FlagsOK, OuterOK

LEMMA MoverPlain ==
    ASSUME IInv, NEW p \in Procs, PlainOK(p), Transact(p) \/ Deliver(p) \/ Govern(p) \/ Retain(p)
    PROVE  PlainOK(p)'
  <1>1. TypeOK /\ ProcessOK(p) /\ saves[p] \in Seq(Database) /\ work[p] \in Database
    BY DEF IInv, ProcessOK, SavesSound, TypeOK
  <1>2. CASE Transact(p)
    <2>1. CASE Begin(p)
      BY <2>1, EnterPlain DEF Begin
    <2>2. CASE Nest(p)
      <3>1. /\ pc'[p] = "open" /\ db' = db /\ work'[p] = work[p] /\ pc[p] = "open"
            /\ saves'[p] = Append(saves[p], work[p])
        BY <1>1, <2>2 DEF Nest, TypeOK
      <3>2. \A k \in DOMAIN saves'[p] :
              (k \in DOMAIN saves[p] /\ saves'[p][k] = saves[p][k]) \/ saves'[p][k] = work[p]
        BY <1>1, <3>1, AppendProperties, LenProperties
      <3> QED BY <3>1, <3>2 DEF PlainOK, FlagsOK, OuterOK, Holding
    <2>3. CASE Release(p) \/ RollbackTo(p)
      <3>1. /\ Len(saves[p]) \in DOMAIN saves[p]
            /\ \A k \in DOMAIN Front(saves[p]) :
                  k \in DOMAIN saves[p] /\ Front(saves[p])[k] = saves[p][k]
        BY <1>1, <2>3, FrontOK DEF Release, RollbackTo
      <3>2. /\ pc'[p] = "open" /\ pc[p] = "open" /\ db' = db
            /\ work'[p] = work[p] \/ work'[p] = saves[p][Len(saves[p])]
            /\ saves'[p] = Front(saves[p])
        BY <1>1, <2>3 DEF Release, RollbackTo, TypeOK
      <3> QED BY <3>1, <3>2 DEF PlainOK, FlagsOK, OuterOK, Holding
    <2>4. CASE Commit(p) \/ Abort(p)
      <3>1. pc'[p] = "idle"
        BY <1>1, <2>4 DEF Commit, Abort, TypeOK
      <3> QED BY <3>1 DEF PlainOK, FlagsOK, OuterOK, Holding
    <2> QED BY <1>2, <2>1, <2>2, <2>3, <2>4 DEF Transact
  <1>3. CASE Deliver(p)
    <2>1. ASSUME NEW s \in Scopes, NEW k \in Keys, NEW c \in Contents, Append_event(p, s, k, c)
          PROVE  PlainOK(p)'
      BY <2>1, EnterPlain DEF Append_event
    <2>2. CASE Duplicate(p)
      BY <2>2, LeavePlain, UndoPlain DEF Duplicate, InMethod
    <2>3. CASE PayloadMismatch(p)
      BY <2>3, LeavePlain, UndoPlain DEF PayloadMismatch, InMethod
    <2>4. CASE InsertEvent(p)
      <3>1. WithEvent(work[p], req[p]).mismatches = work[p].mismatches
        BY <1>1 DEF WithEvent, Database
      <3> QED BY <2>4, <3>1, LeavePlain DEF InsertEvent, InMethod
    <2>5. CASE InsertFails(p)
      BY <2>5, UndoPlain DEF InsertFails, InMethod
    <2>6. CASE BumpSeq(p)
      <3>1. /\ work'[p] = [work[p] EXCEPT !.seq = @ + 1]
            /\ pc[p] = "lookup" /\ UNCHANGED <<db, saves, frame>>
        BY <1>1, <2>6 DEF BumpSeq, TypeOK
      <3>2. work'[p].mismatches = work[p].mismatches /\ work'[p].events = work[p].events
        BY <1>1, <3>1 DEF Database
      <3> QED BY <3>1, <3>2, WritePlain DEF Holding
    <2> QED BY <1>3, <2>1, <2>2, <2>3, <2>4, <2>5, <2>6 DEF Deliver
  <1>4. CASE Govern(p)
    <2>1. CASE Audit(p)
      <3>1. pc'[p] = "audit" /\ db' = db /\ saves' = saves
        BY <1>1, <2>1 DEF Audit, TypeOK
      <3>2. CASE pc[p] = "idle"
        <4>1. work'[p] = db /\ saves[p] = << >>
          BY <1>1, <2>1, <3>2 DEF Audit, Join, Acquire, TypeOK, ProcessOK, SavesSound, Holding
        <4> QED BY <3>1, <4>1, EmptySeq DEF PlainOK, FlagsOK, OuterOK
      <3>3. CASE pc[p] = "open"
        <4>1. work'[p] = work[p] /\ Holding(p)
          BY <2>1, <3>3 DEF Audit, Join, Holding
        <4> QED BY <3>1, <4>1 DEF PlainOK, FlagsOK, OuterOK
      <3> QED BY <2>1, <3>2, <3>3 DEF Audit, Join
    <2>2. CASE InsertAudit(p)
      <3>1. WithAudit(work[p], req[p].audit).mismatches = work[p].mismatches
        BY <1>1 DEF WithAudit, Database
      <3> QED BY <2>2, <3>1, LeavePlain DEF InsertAudit, InMethod
    <2>3. CASE AuditFails(p)
      BY <2>3, UndoPlain DEF AuditFails, InMethod
    <2>4. CASE (\E b \in Blobs : DeleteEvidence(p, b)) \/ SweepRetention(p)
      BY <2>4, EnterPlain DEF DeleteEvidence, SweepRetention
    <2>5. CASE NothingToDelete(p) \/ NothingToClear(p)
      BY <2>5, LeavePlain DEF NothingToDelete, NothingToClear, InMethod
    <2>6. CASE Tombstone(p)
      <3>1. /\ work'[p] = [work[p] EXCEPT !.blobs[req[p].blob].deleted = TRUE]
            /\ pc'[p] = "audit" /\ pc[p] = "delete" /\ UNCHANGED <<db, saves, frame>>
        BY <1>1, <2>6 DEF Tombstone, TypeOK
      <3>2. work'[p].mismatches = work[p].mismatches
        BY <1>1, <3>1 DEF Database
      <3> QED BY <3>1, <3>2, WritePlain DEF Holding
    <2>7. ASSUME NEW old, ClearPayloads(p, old) PROVE PlainOK(p)'
      <3>1. /\ work'[p] = Cleared(work[p], old)
            /\ pc'[p] = "audit" /\ pc[p] = "sweep" /\ UNCHANGED <<db, saves, frame>>
        BY <1>1, <2>7 DEF ClearPayloads, TypeOK
      <3>2. work'[p].mismatches = work[p].mismatches
        BY <1>1, <3>1 DEF Cleared, Database
      <3> QED BY <3>1, <3>2, WritePlain DEF Holding
    <2> QED BY <1>4, <2>1, <2>2, <2>3, <2>4, <2>5, <2>6, <2>7 DEF Govern
  <1>5. CASE Retain(p)
    <2>1. ASSUME NEW b \in Blobs, NEW m \in Metas, JoinedPutEvidence(p, b, m) PROVE PlainOK(p)'
      <3>1. /\ work'[p] = work[p] \/ work'[p] = WithBlob(work[p], b, m)
            /\ pc[p] = "open" /\ UNCHANGED <<db, saves, frame, pc>>
        BY <1>1, <2>1 DEF JoinedPutEvidence, TypeOK
      <3>2. work'[p].mismatches = work[p].mismatches
        BY <1>1, <3>1 DEF WithBlob, Database
      <3> QED BY <3>1, <3>2, WritePlain DEF Holding
    <2>2. CASE (\E b \in Blobs, m \in Metas : PutEvidence(p, b, m)) \/ InsertBlob(p) \/ ExportAnchor(p)
      <3>1. pc'[p] \in {"idle", "put"}
        BY <1>1, <2>2 DEF PutEvidence, InsertBlob, ExportAnchor, TypeOK
      <3> QED BY <3>1 DEF PlainOK, FlagsOK, OuterOK, Holding
    <2> QED BY <1>5, <2>1, <2>2 DEF Retain
  <1> QED BY <1>2, <1>3, <1>4, <1>5

\* What a step may do to the committed database and to the replies.
LEMMA StepKinds ==
    ASSUME IInv, NEW p \in Procs, PlainOK(p), Transact(p) \/ Deliver(p) \/ Govern(p) \/ Retain(p)
    PROVE  \/ Duplicate(p) /\ frame[p] = "outer" /\ Say(p, "duplicate", req[p])
           \/ PayloadMismatch(p) /\ frame[p] = "outer" /\ Say(p, "mismatch", req[p])
           \/ InsertEvent(p) /\ frame[p] = "outer" /\ Say(p, "accepted", req[p])
           \/ /\ \E r : Say(p, "stored", r)
              /\ db'.events = db.events /\ db'.mismatches = db.mismatches
           \/ UNCHANGED reply /\ db'.mismatches = db.mismatches
  <1>1. TypeOK /\ work[p] \in Database /\ db \in Database
    BY DEF IInv, TypeOK
  <1>2. Holding(p) => work[p].mismatches = db.mismatches
    BY DEF PlainOK, FlagsOK
  <1>3. ASSUME NEW d, Leave(p, d), InMethod(p), d.mismatches = work[p].mismatches
        PROVE  db'.mismatches = db.mismatches
    BY <1>2, <1>3 DEF Leave, Holding, InMethod
  <1>4. CASE Transact(p)
    BY <1>2, <1>4 DEF Transact, Begin, Nest, Release, RollbackTo, Commit, Abort, Holding
  <1>5. CASE Deliver(p)
    <2>1. CASE InsertEvent(p)
      <3>1. WithEvent(work[p], req[p]).mismatches = work[p].mismatches
        BY <1>1 DEF WithEvent, Database
      <3> QED BY <1>3, <2>1, <3>1 DEF InsertEvent, InMethod
    <2>2. CASE ~InsertEvent(p)
      BY <1>5, <2>2 DEF Deliver, Append_event, Duplicate, PayloadMismatch, BumpSeq, InsertFails, Undo
    <2> QED BY <2>1, <2>2
  <1>6. CASE Govern(p)
    <2>1. CASE InsertAudit(p)
      <3>1. WithAudit(work[p], req[p].audit).mismatches = work[p].mismatches
        BY <1>1 DEF WithAudit, Database
      <3> QED BY <1>3, <2>1, <3>1 DEF InsertAudit, InMethod
    <2>2. CASE NothingToDelete(p) \/ NothingToClear(p)
      BY <1>3, <2>2 DEF NothingToDelete, NothingToClear, InMethod
    <2>3. CASE ~(InsertAudit(p) \/ NothingToDelete(p) \/ NothingToClear(p))
      BY <1>6, <2>3 DEF Govern, Audit, AuditFails, DeleteEvidence, Tombstone, SweepRetention,
          ClearPayloads, Undo
    <2> QED BY <2>1, <2>2, <2>3
  <1>7. CASE Retain(p)
    <2>1. \A b, m : WithBlob(db, b, m).events = db.events /\ WithBlob(db, b, m).mismatches = db.mismatches
      BY <1>1 DEF WithBlob, Database
    <2>2. ASSUME NEW b \in Blobs, NEW m \in Metas, PutEvidence(p, b, m)
          PROVE  db' = db /\ (UNCHANGED reply \/ \E r : Say(p, "stored", r))
      BY <2>2 DEF PutEvidence
    <2>3. CASE InsertBlob(p)
      BY <2>1, <2>3 DEF InsertBlob
    <2>4. CASE ExportAnchor(p) \/ \E b \in Blobs, m \in Metas : JoinedPutEvidence(p, b, m)
      BY <2>4 DEF ExportAnchor, JoinedPutEvidence
    <2> QED BY <1>7, <2>2, <2>3, <2>4 DEF Retain
  <1> QED BY <1>4, <1>5, <1>6, <1>7

\* The abstract log row by row.
LEMMA AbstractLogIs ==
    ASSUME NEW d \in Database
    PROVE  LET l == AbstractLog(d) IN
           /\ l \in Seq(Canonical!Item)
           /\ Len(l) = Len(d.events) /\ Len(l) \in Nat
           /\ DOMAIN l = 1..Len(l) /\ DOMAIN d.events = DOMAIN l
           /\ \A i \in DOMAIN l : /\ l[i].scope = d.events[i].entry.scope
                                  /\ l[i].key = d.events[i].entry.key
                                  /\ l[i].content = d.events[i].entry.digest
                                  /\ l[i].retained = d.events[i].payload
                                  /\ l[i] \in Canonical!Item
  <1> DEFINE l == AbstractLog(d)
             row(i) == [scope |-> d.events[i].entry.scope, key |-> d.events[i].entry.key,
                        content |-> d.events[i].entry.digest, retained |-> d.events[i].payload]
  <1>1. DOMAIN d.events = 1..Len(d.events) /\ Len(d.events) \in Nat
    BY DatabaseFields
  <1>2. \A i \in DOMAIN d.events : row(i) \in Canonical!Item
    BY DatabaseRows DEF Canonical!Item, Entry
  <1>3. l = [i \in DOMAIN d.events |-> row(i)]
    BY DEF AbstractLog
  <1>4. \A i \in DOMAIN d.events :
            /\ row(i).scope = d.events[i].entry.scope
            /\ row(i).key = d.events[i].entry.key
            /\ row(i).content = d.events[i].entry.digest
            /\ row(i).retained = d.events[i].payload
    OBVIOUS
  <1> HIDE DEF l, row
  <1>5. l \in [1..Len(d.events) -> Canonical!Item]
    BY <1>1, <1>2, <1>3
  <1>6. l \in Seq(Canonical!Item)
    BY <1>1, <1>5, SeqDef
  <1>7. DOMAIN l = 1..Len(d.events)
    BY <1>5
  <1>8. Len(l) = Len(d.events)
    BY <1>1, <1>6, <1>7, LenProperties
  <1>9. \A i \in DOMAIN l : l[i] = row(i)
    BY <1>1, <1>3, <1>7
  <1> QED BY <1>1, <1>2, <1>4, <1>6, <1>7, <1>8, <1>9 DEF l

\* The abstract replies after one was given.
LEMMA AbstractReplies ==
    ASSUME TypeOK, NEW p \in Procs, NEW o, NEW r, Say(p, o, r)
    PROVE  LET old == [q \in Procs |-> AbstractReply(reply[q])]
               new == [q \in Procs |-> AbstractReply(reply[q])]'
           IN  /\ o \in {"accepted", "duplicate", "mismatch"} =>
                    new = [old EXCEPT ![p] = [outcome |-> o,
                             on |-> [scope |-> r.scope, key |-> r.key, content |-> r.content]]]
               /\ o = "stored" => new = [old EXCEPT ![p] = Canonical!NoReply]
  <1> DEFINE told == [outcome |-> o, on |-> r]
  <1>1. reply' = [reply EXCEPT ![p] = told] /\ reply \in [Procs -> Reply]
    BY DEF Say, TypeOK
  <1>2. told.outcome = o /\ told.on = r
    OBVIOUS
  <1> HIDE DEF told
  <1>3. /\ o \in {"accepted", "duplicate", "mismatch"} =>
             AbstractReply(told) = [outcome |-> o,
                             on |-> [scope |-> r.scope, key |-> r.key, content |-> r.content]]
        /\ o = "stored" => AbstractReply(told) = Canonical!NoReply
    BY <1>2 DEF AbstractReply, Delivered, Canonical!NoReply
  <1>4. [q \in Procs |-> AbstractReply(reply'[q])]
            = [[q \in Procs |-> AbstractReply(reply[q])] EXCEPT ![p] = AbstractReply(told)]
    BY <1>1
  <1> QED BY <1>3, <1>4

\* Any commit that gives no reply is one decision about the log.
LEMMA DecideStep ==
    ASSUME Sound(db, 0), Sound(db', 0), Extends(db, db'),
           db'.mismatches = db.mismatches, UNCHANGED reply
    PROVE  Canonical!Decide
  <1> DEFINE l == AbstractLog(db)
             m == AbstractLog(db')
  <1>1. /\ l \in Seq(Canonical!Item) /\ m \in Seq(Canonical!Item)
        /\ Len(l) = Len(db.events) /\ Len(m) = Len(db'.events)
        /\ Len(l) \in Nat /\ Len(m) \in Nat
        /\ DOMAIN l = 1..Len(l) /\ DOMAIN m = 1..Len(m)
        /\ DOMAIN db.events = DOMAIN l /\ DOMAIN db'.events = DOMAIN m
    BY AbstractLogIs DEF Sound
  <1>2. \A i \in DOMAIN l : /\ l[i].scope = db.events[i].entry.scope
                            /\ l[i].key = db.events[i].entry.key
                            /\ l[i].content = db.events[i].entry.digest
                            /\ l[i].retained = db.events[i].payload
                            /\ l[i] \in Canonical!Item
    BY AbstractLogIs DEF Sound
  <1>3. \A i \in DOMAIN m : /\ m[i].scope = db'.events[i].entry.scope
                            /\ m[i].key = db'.events[i].entry.key
                            /\ m[i].content = db'.events[i].entry.digest
                            /\ m[i].retained = db'.events[i].payload
                            /\ m[i] \in Canonical!Item
    BY AbstractLogIs DEF Sound
  <1> HIDE DEF l, m
  <1>4. Len(m) \in Len(l)..(Len(l) + MaxEvents)
    <2>1. db'.seq = Len(db'.events) /\ db'.seq \in 0..MaxEvents
      BY <1>1, DatabaseFields DEF Sound
    <2> QED BY <1>1, <2>1, BoundsAssumption DEF Extends
  <1>5. ASSUME NEW i \in DOMAIN l PROVE m[i] \in {l[i], [l[i] EXCEPT !.retained = FALSE]}
    <2>1. i \in DOMAIN m
      BY <1>1, <1>4, <1>5, BoundsAssumption
    <2>2. /\ m[i].scope = l[i].scope /\ m[i].key = l[i].key /\ m[i].content = l[i].content
          /\ m[i].retained => l[i].retained
          /\ m[i] \in Canonical!Item /\ l[i] \in Canonical!Item
      BY <1>1, <1>2, <1>3, <2>1 DEF Extends
    <2>3. \A x, y \in Canonical!Item :
            (y.scope = x.scope /\ y.key = x.key /\ y.content = x.content) =>
               /\ (y.retained <=> x.retained) => y = x
               /\ ~y.retained => y = [x EXCEPT !.retained = FALSE]
      BY DEF Canonical!Item
    <2> QED BY <2>2, <2>3
  <1>6. ASSUME NEW i \in DOMAIN m \ DOMAIN l PROVE ~Canonical!Holds(SubSeq(m, 1, i - 1), m[i])
    <2> DEFINE s == SubSeq(m, 1, i - 1)
    <2>1. i \in Nat /\ i >= 1 /\ i <= Len(m)
      BY <1>1
    <2>2. \A j \in 1..(i - 1) : j \in DOMAIN m /\ m[j] \in Canonical!Item
      BY <1>1, <1>3, <2>1
    <2>3. /\ s \in Seq(Canonical!Item)
          /\ Len(s) = IF 1 <= i - 1 THEN (i - 1) - 1 + 1 ELSE 0
          /\ \A j \in 1..((i - 1) - 1 + 1) : s[j] = m[1 + j - 1]
      BY <2>1, <2>2, SubSeqProperties
    <2>4. DOMAIN s = 1..Len(s) /\ Len(s) = i - 1
      BY <2>1, <2>3, LenProperties
    <2> HIDE DEF s
    <2>5. \A j \in DOMAIN s : j \in DOMAIN m /\ j # i /\ s[j] = m[j]
      BY <2>1, <2>2, <2>3, <2>4
    <2>6. \A j \in DOMAIN m : m[j].scope = m[i].scope /\ m[j].key = m[i].key => j = i
      <3>1. KeysUnique(db')
        BY DEF Sound
      <3> QED BY <1>1, <1>3, <1>6, <3>1 DEF KeysUnique
    <2>7. ~Canonical!Holds(s, m[i])
      BY <2>5, <2>6 DEF Canonical!Holds
    <2> QED BY <2>7 DEF s
  <1>7. l' = m
    BY DEF l, m
  <1> QED BY <1>1, <1>4, <1>5, <1>6 DEF Canonical!Decide, l, m

\* A standalone delivery of a fresh key is accepted at its commit.
LEMMA AcceptStep ==
    ASSUME IInv, NEW p \in Procs, PlainOK(p), InsertEvent(p), frame[p] = "outer",
           Say(p, "accepted", req[p]), Sound(db', 0)
    PROVE  \E d \in Canonical!Delivery : Canonical!Accept(p, d)
  <1> DEFINE r == req[p]
             d == [scope |-> r.scope, key |-> r.key, content |-> r.content]
             item == [scope |-> d.scope, key |-> d.key, content |-> d.content, retained |-> TRUE]
             e == [scope |-> r.scope, key |-> r.key, digest |-> r.content,
                   stored |-> Capture[r.content], seq |-> work[p].seq]
             row == [entry |-> e, payload |-> TRUE, prev |-> EventTip(work[p]),
                     hash |-> Link(EventTip(work[p]), e)]
             n == Len(db.events)
  <1>1. /\ pc[p] = "insert" /\ db' = WithEvent(work[p], r)
        /\ work[p].events = db.events /\ work[p].mismatches = db.mismatches
        /\ work[p] \in Database /\ db \in Database /\ db' \in Database /\ TypeOK
    BY DEF InsertEvent, Leave, PlainOK, FlagsOK, OuterOK, Holding, IInv, TypeOK, Sound
  <1>2. IsDelivery(r) /\ Holders(db, r.scope, r.key) = {}
    BY <1>1, OwnFacts DEF RequestOK, Holders
  <1>3. d \in Canonical!Delivery /\ item \in Canonical!Item
    BY <1>2 DEF IsDelivery, Canonical!Delivery, Canonical!Item
  <1>4. /\ db'.events = Append(db.events, row) /\ db'.mismatches = db.mismatches
    BY <1>1 DEF WithEvent, Database
  <1>5. /\ row.entry.scope = d.scope /\ row.entry.key = d.key /\ row.entry.digest = d.content
        /\ row.payload = TRUE
        /\ d.scope = r.scope /\ d.key = r.key /\ d.content = r.content
    OBVIOUS
  <1>6. /\ item.scope = d.scope /\ item.key = d.key /\ item.content = d.content
        /\ item.retained = TRUE
    OBVIOUS
  <1>7. /\ n \in Nat /\ Len(db'.events) = n + 1 /\ db'.events[n + 1] = row
        /\ \A i \in 1..n : db'.events[i] = db.events[i]
    <2> HIDE DEF row
    <2>1. db.events \in Seq(Event \cup {row}) /\ row \in Event \cup {row}
      BY <1>1, DatabaseFields
    <2> QED BY <1>4, <2>1, AppendProperties, LenProperties
  <1>8. ~Canonical!Holds(AbstractLog(db), d)
    <2> HIDE DEF d, r
    <2>1. \A i \in DOMAIN AbstractLog(db) :
            /\ i \in DOMAIN db.events
            /\ AbstractLog(db)[i].scope = db.events[i].entry.scope
            /\ AbstractLog(db)[i].key = db.events[i].entry.key
      BY <1>1, AbstractLogIs
    <2> QED BY <1>2, <1>5, <2>1 DEF Canonical!Holds, Holders
  <1>9. AbstractLog(db') = Append(AbstractLog(db), item)
    <2> DEFINE l == AbstractLog(db)
               m == AbstractLog(db')
    <2>1. /\ l \in Seq(Canonical!Item) /\ m \in Seq(Canonical!Item)
          /\ Len(l) = n /\ Len(m) = n + 1
          /\ \A i \in 1..n : l[i] \in Canonical!Item /\ l[i].scope = db.events[i].entry.scope
                /\ l[i].key = db.events[i].entry.key /\ l[i].content = db.events[i].entry.digest
                /\ l[i].retained = db.events[i].payload
          /\ \A i \in 1..(n + 1) : m[i] \in Canonical!Item /\ m[i].scope = db'.events[i].entry.scope
                /\ m[i].key = db'.events[i].entry.key /\ m[i].content = db'.events[i].entry.digest
                /\ m[i].retained = db'.events[i].payload
      BY <1>1, <1>7, AbstractLogIs
    <2> HIDE DEF l, m, row, item, d, n
    <2>2. \A x, y \in Canonical!Item :
            (y.scope = x.scope /\ y.key = x.key /\ y.content = x.content
               /\ y.retained = x.retained) => y = x
      BY DEF Canonical!Item
    <2>3. /\ Append(l, item) \in Seq(Canonical!Item) /\ Len(Append(l, item)) = n + 1
          /\ \A i \in 1..n : Append(l, item)[i] = l[i]
          /\ Append(l, item)[n + 1] = item
      BY <1>3, <2>1, AppendProperties
    <2>4. ASSUME NEW i \in 1..n PROVE m[i] = l[i]
      <3>1. i \in 1..(n + 1)
        BY <1>7
      <3>2. /\ m[i] \in Canonical!Item /\ l[i] \in Canonical!Item
            /\ m[i].scope = l[i].scope /\ m[i].key = l[i].key
            /\ m[i].content = l[i].content /\ m[i].retained = l[i].retained
        <4>1. db'.events[i] = db.events[i]
          BY <1>7
        <4>2. /\ l[i] \in Canonical!Item /\ l[i].scope = db.events[i].entry.scope
              /\ l[i].key = db.events[i].entry.key /\ l[i].content = db.events[i].entry.digest
              /\ l[i].retained = db.events[i].payload
          BY <2>1, Zenon
        <4>3. /\ m[i] \in Canonical!Item /\ m[i].scope = db'.events[i].entry.scope
              /\ m[i].key = db'.events[i].entry.key /\ m[i].content = db'.events[i].entry.digest
              /\ m[i].retained = db'.events[i].payload
          BY <2>1, <3>1, Zenon
        <4> QED BY <4>1, <4>2, <4>3, Zenon
      <3> QED BY <2>2, <3>2
    <2>5. m[n + 1] = item
      <3>1. n + 1 \in 1..(n + 1)
        BY <1>7
      <3>2. /\ m[n + 1] \in Canonical!Item /\ item \in Canonical!Item
            /\ m[n + 1].scope = item.scope /\ m[n + 1].key = item.key
            /\ m[n + 1].content = item.content /\ m[n + 1].retained = item.retained
        BY <1>3, <1>5, <1>6, <1>7, <2>1, <3>1
      <3> QED BY <2>2, <3>2
    <2>6. \A i \in 1..(n + 1) : m[i] = Append(l, item)[i]
      BY <1>7, <2>3, <2>4, <2>5
    <2>7. m = Append(l, item)
      BY <2>1, <2>3, <2>6, SeqEqual
    <2> QED BY <2>7 DEF l, m
  <1>10. [q \in Procs |-> AbstractReply(reply[q])]'
            = [[q \in Procs |-> AbstractReply(reply[q])] EXCEPT ![p] = [outcome |-> "accepted", on |-> d]]
    BY <1>1, AbstractReplies
  <1>11. Canonical!Accept(p, d)
    <2> HIDE DEF d
    <2> QED BY <1>4, <1>8, <1>9, <1>10 DEF Canonical!Accept, Canonical!Told
  <1> QED BY <1>3, <1>11

\* A row that holds the key of a delivery, seen in the abstract log.
LEMMA HolderSeen ==
    ASSUME NEW d \in Database, NEW r, NEW i \in Holders(d, r.scope, r.key)
    PROVE  /\ i \in DOMAIN AbstractLog(d)
           /\ AbstractLog(d)[i].scope = r.scope
           /\ AbstractLog(d)[i].key = r.key
           /\ AbstractLog(d)[i].content = d.events[i].entry.digest
  <1>1. /\ i \in DOMAIN d.events /\ d.events[i].entry.scope = r.scope
        /\ d.events[i].entry.key = r.key
    BY DEF Holders
  <1>2. i \in DOMAIN AbstractLog(d)
    BY <1>1, AbstractLogIs
  <1>3. /\ AbstractLog(d)[i].scope = d.events[i].entry.scope
        /\ AbstractLog(d)[i].key = d.events[i].entry.key
        /\ AbstractLog(d)[i].content = d.events[i].entry.digest
    BY <1>2, AbstractLogIs
  <1> QED BY <1>1, <1>2, <1>3

\* A standalone redelivery of the same body is recognised at its commit.
LEMMA RecogniseStep ==
    ASSUME IInv, NEW p \in Procs, PlainOK(p), Duplicate(p), frame[p] = "outer",
           Say(p, "duplicate", req[p])
    PROVE  \E d \in Canonical!Delivery : Canonical!Recognise(p, d)
  <1> DEFINE r == req[p]
             d == [scope |-> r.scope, key |-> r.key, content |-> r.content]
  <1>1. /\ pc[p] = "lookup" /\ db' = work[p]
        /\ work[p].events = db.events /\ work[p].mismatches = db.mismatches
        /\ db \in Database /\ TypeOK
    BY DEF Duplicate, Leave, Undo, PlainOK, FlagsOK, OuterOK, Holding, IInv, TypeOK
  <1>2. IsDelivery(r)
    BY <1>1, OwnFacts DEF RequestOK
  <1>3. d \in Canonical!Delivery /\ d.scope = r.scope /\ d.key = r.key /\ d.content = r.content
    BY <1>2 DEF IsDelivery, Canonical!Delivery
  <1>4. PICK i \in Holders(db, r.scope, r.key) : db.events[i].entry.digest = r.content
    BY <1>1 DEF Duplicate, Holders
  <1>5. AbstractLog(db') = AbstractLog(db)
    BY <1>1 DEF AbstractLog
  <1>6. [q \in Procs |-> AbstractReply(reply[q])]'
            = [[q \in Procs |-> AbstractReply(reply[q])] EXCEPT ![p] = [outcome |-> "duplicate", on |-> d]]
    BY <1>1, AbstractReplies
  <1> HIDE DEF d, r
  <1>7. /\ i \in DOMAIN AbstractLog(db) /\ AbstractLog(db)[i].scope = d.scope
        /\ AbstractLog(db)[i].key = d.key /\ AbstractLog(db)[i].content = d.content
    BY <1>1, <1>3, <1>4, HolderSeen
  <1>8. Canonical!Recognise(p, d)
    BY <1>1, <1>5, <1>6, <1>7 DEF Canonical!Recognise, Canonical!Told
  <1> QED BY <1>3, <1>8

\* A standalone redelivery of another body is flagged at its commit.
LEMMA FlagStep ==
    ASSUME IInv, NEW p \in Procs, PlainOK(p), PayloadMismatch(p), frame[p] = "outer",
           Say(p, "mismatch", req[p])
    PROVE  \E d \in Canonical!Delivery : Canonical!Flag(p, d)
  <1> DEFINE r == req[p]
             d == [scope |-> r.scope, key |-> r.key, content |-> r.content]
  <1>1. /\ pc[p] = "lookup"
        /\ work[p].events = db.events /\ work[p].mismatches = db.mismatches
        /\ db \in Database /\ work[p] \in Database /\ TypeOK
    BY DEF PayloadMismatch, PlainOK, FlagsOK, OuterOK, Holding, IInv, TypeOK
  <1>2. IsDelivery(r)
    BY <1>1, OwnFacts DEF RequestOK
  <1>3. d \in Canonical!Delivery /\ d.scope = r.scope /\ d.key = r.key /\ d.content = r.content
    BY <1>2 DEF IsDelivery, Canonical!Delivery
  <1>4. PICK i \in Holders(work[p], r.scope, r.key) :
          LET old == work[p].events[i].entry.digest IN
          /\ old # r.content
          /\ db' = [work[p] EXCEPT !.mismatches = @ \cup
                      {[key |-> r.key, existing |-> old, new |-> r.content]}]
    BY DEF PayloadMismatch, Leave, Undo
  <1>5. i \in Holders(db, r.scope, r.key)
    BY <1>1 DEF Holders
  <1> DEFINE old == db.events[i].entry.digest
             x == [key |-> d.key, existing |-> old, new |-> d.content]
  <1>6. /\ old # d.content
        /\ db'.events = db.events /\ db'.mismatches = db.mismatches \cup {x}
    BY <1>1, <1>3, <1>4 DEF Database
  <1>7. AbstractLog(db') = AbstractLog(db)
    BY <1>6 DEF AbstractLog
  <1>8. [q \in Procs |-> AbstractReply(reply[q])]'
            = [[q \in Procs |-> AbstractReply(reply[q])] EXCEPT ![p] = [outcome |-> "mismatch", on |-> d]]
    BY <1>1, AbstractReplies
  <1> HIDE DEF d, r
  <1>9. /\ i \in DOMAIN AbstractLog(db) /\ AbstractLog(db)[i].scope = d.scope
        /\ AbstractLog(db)[i].key = d.key /\ AbstractLog(db)[i].content = old
    BY <1>1, <1>3, <1>5, HolderSeen
  <1> HIDE DEF old
  <1>10. Canonical!Flag(p, d)
    BY <1>6, <1>7, <1>8, <1>9 DEF Canonical!Flag, Canonical!Told
  <1> QED BY <1>3, <1>10

\* The store implements what CanonicalLog promises, for any number of processes and
\* any nesting: a delivery is accepted, recognised or flagged in the one step that
\* commits it, a transaction's effect appears at once or never, and no reply is
\* given about anything that could still be rolled back.
THEOREM ImplementsLog == Spec => ImplementsCanonicalLog
  <1> DEFINE AllPlain == \A p \in Procs : PlainOK(p)
             cvars == <<AbstractLog(db), db.mismatches, [p \in Procs |-> AbstractReply(reply[p])]>>
  <1>1. Init => AllPlain /\ Canonical!Init
    <2> SUFFICES ASSUME Init PROVE AllPlain /\ Canonical!Init
      OBVIOUS
    <2>1. AllPlain
      BY DEF Init, PlainOK, FlagsOK, OuterOK, Holding
    <2>2. db.events = << >> /\ db.mismatches = {}
      BY DEF Init, EmptyDb
    <2>3. AbstractLog(db) = << >>
      BY <2>2, EmptySeq DEF AbstractLog
    <2>4. \A p \in Procs : AbstractReply(reply[p]) = Canonical!NoReply
      BY DEF Init, NoReply, AbstractReply, Delivered, Canonical!NoReply
    <2> QED BY <2>1, <2>2, <2>3, <2>4 DEF Canonical!Init
  <1>2. ASSUME IInv, AllPlain, [Next]_vars PROVE AllPlain' /\ [Canonical!Next]_cvars
    <2>1. IInv' /\ Extends(db, db') /\ Sound(db, 0) /\ Sound(db', 0) /\ TypeOK
      BY <1>2, NextInv DEF IInv
    <2>2. CASE UNCHANGED vars
      BY <1>2, <2>2 DEF vars, PlainOK, FlagsOK, OuterOK, Holding, AbstractLog
    <2>3. CASE Next
      <3>1. PICK p \in Procs : Transact(p) \/ Deliver(p) \/ Govern(p) \/ Retain(p)
        BY <2>3 DEF Next
      <3>2. PlainOK(p) /\ OnlyMoves(p) /\ (db' = db \/ lock \in {p, NoProc})
        BY <1>2, <3>1, OneMoves
      <3>3. AllPlain'
        <4>1. ASSUME NEW q \in Procs PROVE PlainOK(q)'
          <5>1. CASE q = p
            BY <1>2, <3>1, <3>2, <5>1, MoverPlain
          <5>2. CASE q # p
            BY <1>2, <3>2, <5>2, OthersPlain
          <5> QED BY <5>1, <5>2
        <4> QED BY <4>1
      <3>4. Canonical!Next
        <4>1. CASE Duplicate(p) /\ frame[p] = "outer" /\ Say(p, "duplicate", req[p])
          BY <1>2, <3>2, <4>1, RecogniseStep DEF Canonical!Next
        <4>2. CASE PayloadMismatch(p) /\ frame[p] = "outer" /\ Say(p, "mismatch", req[p])
          BY <1>2, <3>2, <4>2, FlagStep DEF Canonical!Next
        <4>3. CASE InsertEvent(p) /\ frame[p] = "outer" /\ Say(p, "accepted", req[p])
          BY <1>2, <2>1, <3>2, <4>3, AcceptStep DEF Canonical!Next
        <4>4. CASE /\ \E r : Say(p, "stored", r)
                   /\ db'.events = db.events /\ db'.mismatches = db.mismatches
          <5>1. AbstractLog(db') = AbstractLog(db)
            BY <4>4 DEF AbstractLog
          <5>2. [q \in Procs |-> AbstractReply(reply[q])]'
                  = [[q \in Procs |-> AbstractReply(reply[q])] EXCEPT ![p] = Canonical!NoReply]
            BY <2>1, <4>4, AbstractReplies
          <5>3. Canonical!TurnAway(p)
            BY <4>4, <5>1, <5>2 DEF Canonical!TurnAway
          <5> QED BY <5>3 DEF Canonical!Next
        <4>5. CASE UNCHANGED reply /\ db'.mismatches = db.mismatches
          BY <2>1, <4>5, DecideStep DEF Canonical!Next
        <4> QED BY <1>2, <3>1, <3>2, <4>1, <4>2, <4>3, <4>4, <4>5, StepKinds
      <3> QED BY <3>3, <3>4
    <2> QED BY <1>2, <2>2, <2>3
  <1> HIDE DEF AllPlain
  <1> QED BY <1>1, <1>2, Invariance, PTL DEF Spec, ImplementsCanonicalLog, Canonical!Spec

-----------------------------------------------------------------------------
(* Deletions and their audit rows.                                         *)

\* What p's copy will be worth once the audit row it owes is written.
Due(p) == IF pc[p] = "audit" THEN WithAudit(work[p], req[p].audit) ELSE work[p]

\* A deletion inside a write unit is accounted for up to the row it owes, and
\* whatever the unit may roll back to is accounted for as it stands.
DueOK(p) ==
    /\ Holding(p) => Audited(Due(p))
    /\ \A k \in DOMAIN saves[p] : Audited(saves[p][k])

AuditInv == Audited(db) /\ \A p \in Procs : DueOK(p)

\* The counted sets are finite.
LEMMA CountsFinite ==
    ASSUME NEW d \in Database
    PROVE  /\ \A b : IsFiniteSet(Deletions(d, b))
           /\ IsFiniteSet(SweptUnits(d))
           /\ IsFiniteSet(Gone(d))
  <1>1. IsFiniteSet(DOMAIN d.events) /\ IsFiniteSet(DOMAIN d.audit) /\ IsFiniteSet(1..MaxEvents)
    <2>1. /\ Len(d.events) \in Nat /\ DOMAIN d.events = 1..Len(d.events)
          /\ Len(d.audit) \in Nat /\ DOMAIN d.audit = 1..Len(d.audit)
      BY DatabaseFields
    <2>2. \A n \in Nat : IsFiniteSet(1..n)
      BY FS_Interval
    <2> QED BY <2>1, <2>2, BoundsAssumption
  <1>2. IsFiniteSet((DOMAIN d.audit) \X (1..MaxEvents))
    BY <1>1, FS_Product
  <1>3. \A b : Deletions(d, b) \in SUBSET (DOMAIN d.audit)
    BY DEF Deletions
  <1>4. SweptUnits(d) \in SUBSET ((DOMAIN d.audit) \X (1..MaxEvents))
    BY DEF SweptUnits
  <1>5. Gone(d) \in SUBSET (DOMAIN d.events)
    BY DEF Gone
  <1> QED BY <1>1, <1>2, <1>3, <1>4, <1>5, FS_Subset

\* A database that agrees on the counted columns is accounted for as well.
LEMMA AuditedSame ==
    ASSUME NEW d, NEW d2, Audited(d), d2.audit = d.audit, Gone(d2) = Gone(d),
           \A b \in Blobs : d2.blobs[b].deleted = d.blobs[b].deleted
    PROVE  Audited(d2)
  <1>1. SweptUnits(d2) = SweptUnits(d) /\ \A b : Deletions(d2, b) = Deletions(d, b)
    BY DEF SweptUnits, Deletions
  <1> QED BY <1>1 DEF Audited

\* A further row of the audit log adds itself and nothing else.
LEMMA AuditGrows ==
    ASSUME NEW d \in Database, NEW a \in AuditEntry
    PROVE  LET d2 == WithAudit(d, a)
               n == Len(d.audit) + 1
           IN  /\ n \notin DOMAIN d.audit
               /\ d2.blobs = d.blobs /\ d2.events = d.events
               /\ \A b : Deletions(d2, b) =
                     IF a.action = "evidence.delete" /\ a.object = b
                     THEN Deletions(d, b) \cup {n} ELSE Deletions(d, b)
               /\ SweptUnits(d2) =
                     IF a.action = "retention.sweep"
                     THEN SweptUnits(d) \cup ({n} \X (1..a.count)) ELSE SweptUnits(d)
  <1> DEFINE row == [entry |-> a, prev |-> AuditTip(d), hash |-> Link(AuditTip(d), a)]
             d2 == WithAudit(d, a)
             n == Len(d.audit) + 1
  <1>1. d.audit \in Seq(AuditRow) /\ Len(d.audit) \in Nat /\ DOMAIN d.audit = 1..Len(d.audit)
    BY DatabaseFields
  <1>2. row.entry = a
    OBVIOUS
  <1> HIDE DEF row
  <1>3. d2.audit = Append(d.audit, row) /\ d2.events = d.events /\ d2.blobs = d.blobs
    BY DEF WithAudit, row, Database
  <1> HIDE DEF d2
  <1>4. /\ DOMAIN d2.audit = 1..n
        /\ \A i \in 1..Len(d.audit) : d2.audit[i] = d.audit[i]
        /\ d2.audit[n] = row
    <2>1. d.audit \in Seq(AuditRow \cup {row})
      BY <1>1, SeqDef
    <2> QED BY <1>3, <2>1, AppendProperties, LenProperties
  <1>5. n \notin DOMAIN d.audit /\ DOMAIN d2.audit = (DOMAIN d.audit) \cup {n}
    BY <1>1, <1>4
  <1>6. \A i \in DOMAIN d.audit : d2.audit[i].entry = d.audit[i].entry
    BY <1>1, <1>4
  <1>7. d2.audit[n].entry = a
    BY <1>2, <1>4
  <1> HIDE DEF n
  <1>8. \A b : Deletions(d2, b) =
            IF a.action = "evidence.delete" /\ a.object = b
            THEN Deletions(d, b) \cup {n} ELSE Deletions(d, b)
    BY <1>5, <1>6, <1>7 DEF Deletions
  <1>9. SweptUnits(d2) = IF a.action = "retention.sweep"
                         THEN SweptUnits(d) \cup ({n} \X (1..a.count)) ELSE SweptUnits(d)
    <2>1. a.count \in 0..MaxEvents
      BY DEF AuditEntry
    <2>2. \A m \in 1..MaxEvents : m <= a.count <=> m \in 1..a.count
      BY <2>1, BoundsAssumption
    <2>3. 1..a.count \subseteq 1..MaxEvents
      BY <2>1, BoundsAssumption
    <2>4. ASSUME NEW i, NEW m
          PROVE  <<i, m>> \in SweptUnits(d2) <=>
                   \/ <<i, m>> \in SweptUnits(d)
                   \/ a.action = "retention.sweep" /\ i = n /\ m \in 1..a.count
      BY <1>5, <1>6, <1>7, <2>2, <2>3 DEF SweptUnits
    <2>5. /\ \A u \in SweptUnits(d2) : u = <<u[1], u[2]>>
          /\ \A u \in SweptUnits(d) : u = <<u[1], u[2]>>
          /\ \A u \in {n} \X (1..a.count) : u = <<u[1], u[2]>> /\ u[1] = n /\ u[2] \in 1..a.count
      BY DEF SweptUnits
    <2> QED BY <2>4, <2>5
  <1> QED BY <1>3, <1>5, <1>8, <1>9 DEF d2, n

\* A note owes nothing: writing it keeps the accounts.
LEMMA NoteAudited ==
    ASSUME NEW d \in Database, Audited(d), NEW a \in AuditEntry, a.action = "note"
    PROVE  Audited(WithAudit(d, a))
  <1> DEFINE d2 == WithAudit(d, a)
  <1>1. /\ d2.blobs = d.blobs /\ d2.events = d.events
        /\ SweptUnits(d2) = SweptUnits(d) /\ \A b : Deletions(d2, b) = Deletions(d, b)
    BY AuditGrows
  <1> HIDE DEF d2
  <1>2. Gone(d2) = Gone(d)
    BY <1>1 DEF Gone
  <1>3. Audited(d2)
    BY <1>1, <1>2 DEF Audited
  <1> QED BY <1>3 DEF d2

\* A tombstone and its row together keep the accounts.
LEMMA TombstoneAudited ==
    ASSUME NEW d \in Database, Sound(d, 0), Audited(d), NEW b \in Blobs, ~d.blobs[b].deleted,
           NEW a \in AuditEntry, a.action = "evidence.delete", a.object = b
    PROVE  Audited(WithAudit([d EXCEPT !.blobs[b].deleted = TRUE], a))
  <1> DEFINE d1 == [d EXCEPT !.blobs[b].deleted = TRUE]
             d2 == WithAudit(d1, a)
             n == Len(d1.audit) + 1
  <1>1. d1 \in Database
    BY TombstoneSound DEF Sound
  <1>2. /\ d1.audit = d.audit /\ d1.events = d.events /\ d1.blobs[b].deleted
        /\ \A c \in Blobs \ {b} : d1.blobs[c].deleted = d.blobs[c].deleted
    <2>1. d.blobs \in [Blobs -> BlobRow]
      BY DatabaseFields
    <2>2. d1.audit = d.audit /\ d1.events = d.events
      BY DEF Database
    <2>3. d1.blobs = [d.blobs EXCEPT ![b].deleted = TRUE]
      BY DEF Database
    <2>4. d1.blobs[b].deleted /\ \A c \in Blobs \ {b} : d1.blobs[c] = d.blobs[c]
      BY <2>1, <2>3 DEF BlobRow
    <2> QED BY <2>2, <2>4
  <1> HIDE DEF d1
  <1>3. /\ n \notin DOMAIN d1.audit /\ d2.blobs = d1.blobs /\ d2.events = d1.events
        /\ Deletions(d2, b) = Deletions(d1, b) \cup {n}
        /\ \A c : c # b => Deletions(d2, c) = Deletions(d1, c)
        /\ SweptUnits(d2) = SweptUnits(d1)
    BY <1>1, AuditGrows
  <1> HIDE DEF d2, n
  <1>4. /\ Gone(d2) = Gone(d) /\ SweptUnits(d1) = SweptUnits(d)
        /\ \A c : Deletions(d1, c) = Deletions(d, c)
    BY <1>2, <1>3 DEF Gone, SweptUnits, Deletions
  <1>5. Cardinality(Deletions(d2, b)) = 1
    <2>1. n \notin Deletions(d1, b)
      BY <1>3 DEF Deletions
    <2>2. IsFiniteSet(Deletions(d1, b))
      BY <1>1, CountsFinite
    <2>3. Cardinality(Deletions(d1, b)) = 0
      BY <1>4 DEF Audited
    <2>4. Cardinality(Deletions(d1, b) \cup {n}) = 0 + 1
      BY <2>1, <2>2, <2>3, FS_AddElement
    <2> QED BY <1>3, <2>4
  <1>6. Audited(d2)
    <2>1. Cardinality(SweptUnits(d2)) = Cardinality(Gone(d2))
      BY <1>3, <1>4 DEF Audited
    <2>2. ASSUME NEW c \in Blobs
          PROVE  Cardinality(Deletions(d2, c)) = IF d2.blobs[c].deleted THEN 1 ELSE 0
      <3>1. CASE c = b
        BY <1>2, <1>3, <1>5, <3>1
      <3>2. CASE c # b
        <4>1. Deletions(d2, c) = Deletions(d, c) /\ d2.blobs[c].deleted = d.blobs[c].deleted
          BY <1>2, <1>3, <1>4, <3>2
        <4> QED BY <4>1 DEF Audited
      <3> QED BY <3>1, <3>2
    <2> QED BY <2>1, <2>2 DEF Audited
  <1> QED BY <1>6 DEF d1, d2

\* A row that counts k has k units.
LEMMA UnitsCount ==
    ASSUME NEW n, NEW k \in Nat
    PROVE  IsFiniteSet({n} \X (1..k)) /\ Cardinality({n} \X (1..k)) = k
  <1> DEFINE S == {n}
             T == 1..k
  <1>1. IsFiniteSet(S) /\ Cardinality(S) = 1
    BY FS_Singleton
  <1>2. IsFiniteSet(T) /\ Cardinality(T) = k
    BY FS_Interval
  <1> HIDE DEF S, T
  <1>3. IsFiniteSet(S \X T) /\ Cardinality(S \X T) = Cardinality(S) * Cardinality(T)
    BY <1>1, <1>2, FS_Product
  <1>4. Cardinality(S \X T) = k
    BY <1>1, <1>2, <1>3
  <1> QED BY <1>3, <1>4 DEF S, T

\* A sweep and the row that counts it together keep the accounts.
LEMMA SweepAudited ==
    ASSUME NEW d \in Database, Sound(d, 0), Audited(d), NEW old,
           \A i \in old : i \in DOMAIN d.events /\ d.events[i].payload,
           NEW a \in AuditEntry, a.action = "retention.sweep", a.count = Cardinality(old)
    PROVE  Audited(WithAudit(Cleared(d, old), a))
  <1> DEFINE d1 == Cleared(d, old)
             d2 == WithAudit(d1, a)
             n == Len(d1.audit) + 1
             units == {n} \X (1..a.count)
  <1>1. d1 \in Database
    BY ClearSound DEF Sound
  <1>2. /\ d1.audit = d.audit /\ d1.blobs = d.blobs
        /\ DOMAIN d1.events = DOMAIN d.events
        /\ \A i \in DOMAIN d.events : d1.events[i].payload <=> d.events[i].payload /\ i \notin old
    <2>1. d1.events = [i \in DOMAIN d.events |->
              IF i \in old THEN [d.events[i] EXCEPT !.payload = FALSE] ELSE d.events[i]]
      BY DEF Cleared, Database
    <2>2. \A i \in DOMAIN d.events : [d.events[i] EXCEPT !.payload = FALSE].payload = FALSE
      <3> TAKE i \in DOMAIN d.events
      <3>1. d.events[i] \in Event
        BY DatabaseRows
      <3> QED BY <3>1 DEF Event
    <2>3. d1.audit = d.audit /\ d1.blobs = d.blobs
      BY DEF Cleared, Database
    <2> QED BY <2>1, <2>2, <2>3
  <1> HIDE DEF d1
  <1>3. /\ n \notin DOMAIN d1.audit /\ d2.blobs = d1.blobs /\ d2.events = d1.events
        /\ \A c : Deletions(d2, c) = Deletions(d1, c)
        /\ SweptUnits(d2) = SweptUnits(d1) \cup units
    BY <1>1, AuditGrows
  <1> HIDE DEF d2, n
  <1>4. /\ Gone(d2) = Gone(d) \cup old /\ Gone(d) \cap old = {}
        /\ SweptUnits(d1) = SweptUnits(d)
        /\ \A c : Deletions(d1, c) = Deletions(d, c)
    BY <1>2, <1>3 DEF Gone, SweptUnits, Deletions
  <1>5. IsFiniteSet(old) /\ Cardinality(old) \in Nat
    <2>1. old \in SUBSET Gone(d2)
      BY <1>4
    <2>2. IsFiniteSet(Gone(d2))
      BY <1>1, <1>3, CountsFinite DEF Gone
    <2> QED BY <2>1, <2>2, FS_Subset, FS_CardinalityType
  <1>6. IsFiniteSet(units) /\ Cardinality(units) = a.count /\ SweptUnits(d1) \cap units = {}
    <2>1. IsFiniteSet(units) /\ Cardinality(units) = a.count
      BY <1>5, UnitsCount
    <2>2. \A u \in SweptUnits(d1) : u[1] \in DOMAIN d1.audit
      BY DEF SweptUnits
    <2>3. \A u \in units : u[1] = n
      OBVIOUS
    <2> QED BY <1>3, <2>1, <2>2, <2>3
  <1> HIDE DEF units
  <1>7. Cardinality(SweptUnits(d2)) = Cardinality(SweptUnits(d)) + a.count
    <2>1. IsFiniteSet(SweptUnits(d1)) /\ Cardinality(SweptUnits(d1)) \in Nat
      BY <1>1, CountsFinite, FS_CardinalityType
    <2>2. Cardinality({}) = 0
      BY FS_EmptySet
    <2>3. Cardinality(SweptUnits(d1) \cup units) =
              Cardinality(SweptUnits(d1)) + Cardinality(units)
                  - Cardinality(SweptUnits(d1) \cap units)
      BY <1>6, <2>1, FS_Union
    <2>4. \A x, y \in Nat : x + y - 0 = x + y
      OBVIOUS
    <2>5. a.count \in Nat
      BY <1>5
    <2>6. SweptUnits(d2) = SweptUnits(d1) \cup units /\ SweptUnits(d1) = SweptUnits(d)
      BY <1>3, <1>4
    <2>7. Cardinality(SweptUnits(d2)) = Cardinality(SweptUnits(d)) + a.count - 0
      BY <1>6, <2>2, <2>3, <2>6, Zenon
    <2> QED BY <2>1, <2>4, <2>5, <2>6, <2>7
  <1>8. Cardinality(Gone(d2)) = Cardinality(Gone(d)) + a.count
    <2>1. IsFiniteSet(Gone(d)) /\ Cardinality(Gone(d)) \in Nat
      BY CountsFinite, FS_CardinalityType
    <2>2. Cardinality({}) = 0
      BY FS_EmptySet
    <2>3. Cardinality(Gone(d) \cup old) =
              Cardinality(Gone(d)) + Cardinality(old) - Cardinality(Gone(d) \cap old)
      BY <1>5, <2>1, FS_Union
    <2>4. \A x, y \in Nat : x + y - 0 = x + y
      OBVIOUS
    <2>5. Gone(d2) = Gone(d) \cup old /\ Gone(d) \cap old = {}
      BY <1>4
    <2>6. Cardinality(Gone(d2)) = Cardinality(Gone(d)) + Cardinality(old) - 0
      BY <2>2, <2>3, <2>5, Zenon
    <2> QED BY <1>5, <2>1, <2>4, <2>6
  <1>9. Audited(d2)
    BY <1>2, <1>3, <1>4, <1>7, <1>8 DEF Audited
  <1> QED BY <1>9 DEF d1, d2

\* What else a method writes leaves the accounts alone.
LEMMA WritesAudited ==
    ASSUME NEW d \in Database, Audited(d)
    PROVE  /\ \A r : Audited(WithEvent(d, r))
           /\ Audited([d EXCEPT !.seq = @ + 1])
           /\ \A x : Audited([d EXCEPT !.mismatches = @ \cup {x}])
           /\ \A b \in Blobs : \A m : Audited(WithBlob(d, b, m))
  <1>1. ASSUME NEW r PROVE Audited(WithEvent(d, r))
    <2> DEFINE entry == [scope |-> r.scope, key |-> r.key, digest |-> r.content,
                         stored |-> Capture[r.content], seq |-> d.seq]
               row == [entry |-> entry, payload |-> TRUE, prev |-> EventTip(d),
                       hash |-> Link(EventTip(d), entry)]
               d2 == WithEvent(d, r)
    <2>1. row.payload = TRUE
      OBVIOUS
    <2> HIDE DEF row, entry
    <2>2. d2.events = Append(d.events, row) /\ d2.audit = d.audit /\ d2.blobs = d.blobs
      BY DEF WithEvent, Database, row, entry
    <2> HIDE DEF d2
    <2>3. /\ d.events \in Seq(Event) /\ Len(d.events) \in Nat
          /\ DOMAIN d.events = 1..Len(d.events)
      BY DatabaseFields
    <2>4. /\ DOMAIN d2.events = 1..(Len(d.events) + 1)
          /\ \A i \in 1..Len(d.events) : d2.events[i] = d.events[i]
          /\ d2.events[Len(d.events) + 1] = row
      <3>1. d.events \in Seq(Event \cup {row})
        BY <2>3, SeqDef
      <3> QED BY <2>2, <3>1, AppendProperties, LenProperties
    <2>5. Gone(d2) = Gone(d)
      BY <2>1, <2>3, <2>4 DEF Gone
    <2>6. Audited(d2)
      BY <2>2, <2>5, AuditedSame
    <2> QED BY <2>6 DEF d2
  <1>2. Audited([d EXCEPT !.seq = @ + 1])
    <2> DEFINE d2 == [d EXCEPT !.seq = @ + 1]
    <2>1. d2.events = d.events /\ d2.audit = d.audit /\ d2.blobs = d.blobs
      BY DEF Database
    <2> HIDE DEF d2
    <2>2. Audited(d2)
      BY <2>1, AuditedSame DEF Gone
    <2> QED BY <2>2 DEF d2
  <1>3. ASSUME NEW x PROVE Audited([d EXCEPT !.mismatches = @ \cup {x}])
    <2> DEFINE d2 == [d EXCEPT !.mismatches = @ \cup {x}]
    <2>1. d2.events = d.events /\ d2.audit = d.audit /\ d2.blobs = d.blobs
      BY DEF Database
    <2> HIDE DEF d2
    <2>2. Audited(d2)
      BY <2>1, AuditedSame DEF Gone
    <2> QED BY <2>2 DEF d2
  <1>4. ASSUME NEW b \in Blobs, NEW m PROVE Audited(WithBlob(d, b, m))
    <2> DEFINE d2 == WithBlob(d, b, m)
    <2>1. /\ d2.events = d.events /\ d2.audit = d.audit
          /\ \A c \in Blobs : d2.blobs[c].deleted = d.blobs[c].deleted
      BY DEF WithBlob, Database, BlobRow
    <2> HIDE DEF d2
    <2>2. Audited(d2)
      BY <2>1, AuditedSame DEF Gone
    <2> QED BY <2>2 DEF d2
  <1> QED BY <1>1, <1>2, <1>3, <1>4

\* Entering a write unit copies the committed database or saves the working copy.
LEMMA EnterDue ==
    ASSUME IInv, Audited(db), NEW p \in Procs, DueOK(p), Enter(p), NEW w,
           w # "audit", pc' = [pc EXCEPT ![p] = w]
    PROVE  DueOK(p)'
  <1>1. TypeOK /\ ProcessOK(p) /\ saves[p] \in Seq(Database)
    BY DEF IInv, ProcessOK, SavesSound
  <1>2. pc'[p] = w /\ Due(p)' = work'[p]
    BY <1>1 DEF TypeOK, Due
  <1>3. CASE pc[p] = "idle"
    <2>1. work'[p] = db /\ saves'[p] = saves[p]
      BY <1>1, <1>3 DEF Enter, Acquire, TypeOK
    <2> QED BY <1>2, <2>1 DEF DueOK
  <1>4. CASE pc[p] = "open"
    <2>1. work'[p] = work[p] /\ saves'[p] = Append(saves[p], work[p])
      BY <1>1, <1>4 DEF Enter, TypeOK
    <2>2. \A k \in DOMAIN saves'[p] :
              (k \in DOMAIN saves[p] /\ saves'[p][k] = saves[p][k]) \/ saves'[p][k] = work[p]
      <3>1. work[p] \in Database
        BY <1>1 DEF TypeOK
      <3> QED BY <1>1, <2>1, <3>1, AppendProperties, LenProperties
    <2>3. Holding(p) /\ Due(p) = work[p]
      BY <1>4 DEF Holding, Due
    <2> QED BY <1>2, <2>1, <2>2, <2>3 DEF DueOK
  <1> QED BY <1>3, <1>4 DEF Enter

\* Leaving one with a copy that is accounted for, which a commit publishes.
LEMMA LeaveDue ==
    ASSUME IInv, Audited(db), NEW p \in Procs, DueOK(p), InMethod(p), NEW d, Leave(p, d),
           Audited(d)
    PROVE  Audited(db)' /\ DueOK(p)'
  <1>1. TypeOK /\ ProcessOK(p) /\ saves[p] \in Seq(Database)
    BY DEF IInv, ProcessOK, SavesSound
  <1>2. CASE frame[p] = "outer"
    <2>1. pc'[p] = "idle" /\ db' = d /\ saves'[p] = saves[p]
      BY <1>1, <1>2 DEF Leave, TypeOK
    <2> QED BY <2>1 DEF DueOK, Holding
  <1>3. CASE frame[p] = "save"
    <2>1. pc'[p] = "open" /\ db' = db /\ work'[p] = d /\ saves'[p] = Front(saves[p])
      BY <1>1, <1>3 DEF Leave, TypeOK
    <2>2. saves[p] # << >>
      BY <1>1, <1>3 DEF ProcessOK, FrameOK
    <2>3. \A k \in DOMAIN Front(saves[p]) :
              k \in DOMAIN saves[p] /\ Front(saves[p])[k] = saves[p][k]
      BY <1>1, <2>2, FrontOK
    <2> QED BY <2>1, <2>3 DEF DueOK, Due
  <1>4. CASE frame[p] = "none"
    <2>1. pc'[p] = "open" /\ db' = db /\ work'[p] = d /\ saves'[p] = saves[p]
      BY <1>1, <1>4 DEF Leave, TypeOK
    <2> QED BY <2>1 DEF DueOK, Due
  <1> QED BY <1>1, <1>2, <1>3, <1>4 DEF TypeOK

\* Rolling back a method that owed a row drops the deletion with it.
LEMMA UndoDue ==
    ASSUME IInv, Audited(db), NEW p \in Procs, DueOK(p), InMethod(p), Undo(p)
    PROVE  Audited(db)' /\ DueOK(p)'
  <1>1. TypeOK /\ ProcessOK(p) /\ saves[p] \in Seq(Database)
    BY DEF IInv, ProcessOK, SavesSound
  <1>2. saves[p] # << >>
    BY <1>1 DEF Undo, ProcessOK, FrameOK
  <1>3. /\ Len(saves[p]) \in DOMAIN saves[p]
        /\ \A k \in DOMAIN Front(saves[p]) :
              k \in DOMAIN saves[p] /\ Front(saves[p])[k] = saves[p][k]
    BY <1>1, <1>2, FrontOK
  <1>4. /\ pc'[p] = "open" /\ db' = db /\ work'[p] = saves[p][Len(saves[p])]
        /\ saves'[p] = Front(saves[p])
    BY <1>1 DEF Undo, TypeOK
  <1> QED BY <1>3, <1>4 DEF DueOK, Due

\* A write inside the unit that is accounted for up to the row it will owe.
LEMMA WriteDue ==
    ASSUME Audited(db), NEW p \in Procs, DueOK(p), UNCHANGED <<db, saves>>, Audited(Due(p)')
    PROVE  Audited(db)' /\ DueOK(p)'
  BY DEF DueOK

\* Between two methods nothing is owed, so whatever is committed is accounted for.
LEMMA TransactDue ==
    ASSUME IInv, Audited(db), NEW p \in Procs, DueOK(p), Transact(p)
    PROVE  Audited(db)' /\ DueOK(p)'
  <1>1. TypeOK /\ ProcessOK(p) /\ saves[p] \in Seq(Database) /\ work[p] \in Database
    BY DEF IInv, ProcessOK, SavesSound, TypeOK
  <1>2. pc[p] = "open" => Audited(work[p])
    BY DEF DueOK, Holding, Due
  <1>3. CASE Begin(p)
    BY <1>3, EnterDue DEF Begin
  <1>4. CASE Nest(p)
    <2>1. /\ pc'[p] = "open" /\ db' = db /\ work'[p] = work[p] /\ pc[p] = "open"
          /\ saves'[p] = Append(saves[p], work[p])
      BY <1>1, <1>4 DEF Nest, TypeOK
    <2>2. \A k \in DOMAIN saves'[p] :
              (k \in DOMAIN saves[p] /\ saves'[p][k] = saves[p][k]) \/ saves'[p][k] = work[p]
      BY <1>1, <2>1, AppendProperties, LenProperties
    <2> QED BY <1>2, <2>1, <2>2 DEF DueOK, Due
  <1>5. CASE Release(p) \/ RollbackTo(p)
    <2>1. /\ Len(saves[p]) \in DOMAIN saves[p]
          /\ \A k \in DOMAIN Front(saves[p]) :
                k \in DOMAIN saves[p] /\ Front(saves[p])[k] = saves[p][k]
      BY <1>1, <1>5, FrontOK DEF Release, RollbackTo
    <2>2. /\ pc'[p] = "open" /\ pc[p] = "open" /\ db' = db
          /\ work'[p] = work[p] \/ work'[p] = saves[p][Len(saves[p])]
          /\ saves'[p] = Front(saves[p])
      BY <1>1, <1>5 DEF Release, RollbackTo, TypeOK
    <2> QED BY <1>2, <2>1, <2>2 DEF DueOK, Due
  <1>6. CASE Commit(p)
    <2>1. pc[p] = "open" /\ pc'[p] = "idle" /\ db' = work[p] /\ saves'[p] = saves[p]
      BY <1>1, <1>6 DEF Commit, TypeOK
    <2> QED BY <1>2, <2>1 DEF DueOK, Holding
  <1>7. CASE Abort(p)
    <2>1. pc'[p] = "idle" /\ db' = db /\ saves'[p] = << >>
      BY <1>1, <1>7 DEF Abort, TypeOK
    <2>2. DOMAIN saves'[p] = {}
      BY <2>1, EmptySeq
    <2> QED BY <2>1, <2>2 DEF DueOK, Holding
  <1> QED BY <1>3, <1>4, <1>5, <1>6, <1>7, UndoDue DEF Transact, Begin

\* A delivery deletes nothing.
LEMMA DeliverDue ==
    ASSUME IInv, Audited(db), NEW p \in Procs, DueOK(p), Deliver(p)
    PROVE  Audited(db)' /\ DueOK(p)'
  <1>1. TypeOK /\ work[p] \in Database
    BY DEF IInv, TypeOK
  <1>2. pc[p] \in {"lookup", "insert"} => Audited(work[p])
    BY DEF DueOK, Holding, Due
  <1>3. ASSUME NEW s \in Scopes, NEW k \in Keys, NEW c \in Contents, Append_event(p, s, k, c)
        PROVE  Audited(db)' /\ DueOK(p)'
    BY <1>3, EnterDue DEF Append_event
  <1>4. CASE Duplicate(p)
    BY <1>2, <1>4, LeaveDue, UndoDue DEF Duplicate, InMethod
  <1>5. CASE PayloadMismatch(p)
    <2>1. \A x : Audited([work[p] EXCEPT !.mismatches = @ \cup {x}])
      BY <1>1, <1>2, <1>5, WritesAudited DEF PayloadMismatch
    <2>2. pc[p] = "lookup" /\ InMethod(p)
      BY <1>5 DEF PayloadMismatch, InMethod
    <2>3. \/ Undo(p)
          \/ \E x : Leave(p, [work[p] EXCEPT !.mismatches = @ \cup {x}])
      BY <1>5 DEF PayloadMismatch
    <2> QED BY <2>1, <2>2, <2>3, LeaveDue, UndoDue
  <1>6. CASE InsertEvent(p)
    <2>1. Audited(WithEvent(work[p], req[p]))
      BY <1>1, <1>2, <1>6, WritesAudited DEF InsertEvent
    <2> QED BY <1>6, <2>1, LeaveDue DEF InsertEvent, InMethod
  <1>7. CASE InsertFails(p)
    BY <1>7, UndoDue DEF InsertFails, InMethod
  <1>8. CASE BumpSeq(p)
    <2>1. /\ work'[p] = [work[p] EXCEPT !.seq = @ + 1] /\ pc'[p] = "insert"
          /\ pc[p] = "lookup" /\ UNCHANGED <<db, saves>>
      BY <1>1, <1>8 DEF BumpSeq, TypeOK
    <2>2. Audited(Due(p)')
      BY <1>1, <1>2, <2>1, WritesAudited DEF Due
    <2> QED BY <2>1, <2>2, WriteDue
  <1> QED BY <1>3, <1>4, <1>5, <1>6, <1>7, <1>8 DEF Deliver

\* A deletion or a sweep owes its row from the write on; InsertAudit pays it.
LEMMA GovernDue ==
    ASSUME IInv, Audited(db), NEW p \in Procs, DueOK(p), Govern(p)
    PROVE  Audited(db)' /\ DueOK(p)'
  <1>1. TypeOK /\ ProcessOK(p) /\ work[p] \in Database /\ db \in Database /\ req[p] \in Request
    BY DEF IInv, TypeOK
  <1>2. /\ pc[p] \in {"open", "delete", "sweep"} => Audited(work[p])
        /\ pc[p] = "audit" => Audited(WithAudit(work[p], req[p].audit))
    BY DEF DueOK, Holding, Due
  <1>3. CASE Audit(p)
    <2> DEFINE a == [action |-> "note", object |-> Absent, count |-> 0]
    <2>1. pc'[p] = "audit" /\ UNCHANGED <<db, saves>> /\ req'[p].audit = a
      BY <1>1, <1>3 DEF Audit, TypeOK, Idle
    <2>2. a \in AuditEntry /\ a.action = "note"
      BY BoundsAssumption DEF AuditEntry
    <2> HIDE DEF a
    <2>3. work'[p] \in Database /\ Audited(work'[p])
      BY <1>1, <1>2, <1>3 DEF Audit, Join, Acquire, TypeOK
    <2>4. Audited(WithAudit(work'[p], req'[p].audit))
      BY <2>1, <2>2, <2>3, NoteAudited
    <2>5. Audited(Due(p)')
      <3>1. Due(p)' = WithAudit(work[p], req[p].audit)'
        BY <2>1 DEF Due
      <3>2. WithAudit(work[p], req[p].audit)' = WithAudit(work'[p], req'[p].audit)
        BY DEF WithAudit, AuditTip, Link
      <3> QED BY <2>4, <3>1, <3>2
    <2> QED BY <2>1, <2>5, WriteDue
  <1>4. CASE InsertAudit(p)
    BY <1>2, <1>4, LeaveDue DEF InsertAudit, InMethod
  <1>5. CASE AuditFails(p)
    BY <1>5, UndoDue DEF AuditFails, InMethod
  <1>6. CASE (\E b \in Blobs : DeleteEvidence(p, b)) \/ SweepRetention(p)
    BY <1>6, EnterDue DEF DeleteEvidence, SweepRetention
  <1>7. CASE NothingToDelete(p) \/ NothingToClear(p)
    BY <1>2, <1>7, LeaveDue DEF NothingToDelete, NothingToClear, InMethod
  <1>8. CASE Tombstone(p)
    <2> DEFINE b == req[p].blob
               a == [action |-> "evidence.delete", object |-> b, count |-> 0]
    <2>1. /\ pc[p] = "delete" /\ ~work[p].blobs[b].deleted
          /\ work'[p] = [work[p] EXCEPT !.blobs[b].deleted = TRUE]
          /\ pc'[p] = "audit" /\ req'[p].audit = a /\ UNCHANGED <<db, saves>>
      BY <1>1, <1>8 DEF Tombstone, TypeOK, Request
    <2>2. b \in Blobs
      BY <1>1, <2>1 DEF ProcessOK, RequestOK
    <2>3. a \in AuditEntry /\ a.action = "evidence.delete" /\ a.object = b
      BY <2>2, BoundsAssumption DEF AuditEntry
    <2> HIDE DEF a, b
    <2>4. Sound(work[p], 0)
      BY <2>1, OwnFacts
    <2>5. Audited(WithAudit(work'[p], a))
      BY <1>1, <1>2, <2>1, <2>2, <2>3, <2>4, TombstoneAudited
    <2>6. Due(p)' = WithAudit(work'[p], req'[p].audit)
      BY <2>1 DEF Due
    <2> QED BY <2>1, <2>5, <2>6, WriteDue
  <1>9. ASSUME NEW old \in SUBSET (1..MaxEvents), ClearPayloads(p, old)
        PROVE  Audited(db)' /\ DueOK(p)'
    <2> DEFINE a == [action |-> "retention.sweep", object |-> Absent,
                     count |-> Cardinality(old)]
    <2>1. /\ pc[p] = "sweep" /\ work'[p] = Cleared(work[p], old)
          /\ \A i \in old : i \in DOMAIN work[p].events /\ work[p].events[i].payload
          /\ pc'[p] = "audit" /\ req'[p].audit = a /\ UNCHANGED <<db, saves>>
      BY <1>1, <1>9 DEF ClearPayloads, TypeOK, Request
    <2>2. a \in AuditEntry
      <3>1. IsFiniteSet(1..MaxEvents) /\ Cardinality(1..MaxEvents) = MaxEvents
        BY BoundsAssumption, FS_Interval
      <3>2. IsFiniteSet(old) /\ Cardinality(old) <= MaxEvents
        BY <3>1, FS_Subset
      <3>3. Cardinality(old) \in 0..MaxEvents
        BY <3>2, FS_CardinalityType, BoundsAssumption
      <3> QED BY <3>3 DEF AuditEntry
    <2>3. a.action = "retention.sweep" /\ a.count = Cardinality(old)
      OBVIOUS
    <2> HIDE DEF a
    <2>4. Sound(work[p], 0)
      BY <2>1, OwnFacts
    <2>5. Audited(WithAudit(work'[p], a))
      BY <1>1, <1>2, <2>1, <2>2, <2>3, <2>4, SweepAudited
    <2>6. Due(p)' = WithAudit(work'[p], req'[p].audit)
      BY <2>1 DEF Due
    <2> QED BY <2>1, <2>5, <2>6, WriteDue
  <1> QED BY <1>3, <1>4, <1>5, <1>6, <1>7, <1>8, <1>9 DEF Govern, DeleteEvidence, SweepRetention

\* A put never touches a tombstone.
LEMMA RetainDue ==
    ASSUME IInv, Audited(db), NEW p \in Procs, DueOK(p), Retain(p)
    PROVE  Audited(db)' /\ DueOK(p)'
  <1>1. TypeOK /\ ProcessOK(p) /\ work[p] \in Database /\ db \in Database
    BY DEF IInv, TypeOK
  <1>2. ASSUME NEW b \in Blobs, NEW m \in Metas, JoinedPutEvidence(p, b, m)
        PROVE  Audited(db)' /\ DueOK(p)'
    <2>1. /\ work'[p] = work[p] \/ work'[p] = WithBlob(work[p], b, m)
          /\ pc[p] = "open" /\ pc'[p] = "open" /\ UNCHANGED <<db, saves>>
      BY <1>1, <1>2 DEF JoinedPutEvidence, TypeOK
    <2>2. Audited(work[p])
      BY <2>1 DEF DueOK, Holding, Due
    <2>3. Audited(Due(p)')
      BY <1>1, <2>1, <2>2, WritesAudited DEF Due
    <2> QED BY <2>1, <2>3, WriteDue
  <1>3. CASE (\E b \in Blobs, m \in Metas : PutEvidence(p, b, m)) \/ InsertBlob(p) \/ ExportAnchor(p)
    <2>1. pc'[p] \in {"idle", "put"} /\ saves' = saves
      BY <1>1, <1>3 DEF PutEvidence, InsertBlob, ExportAnchor, TypeOK
    <2>2. Audited(db')
      <3>1. CASE InsertBlob(p)
        <4>1. pc[p] = "put" /\ req[p].blob \in Blobs
          BY <1>1, <3>1 DEF InsertBlob, ProcessOK, RequestOK
        <4> QED BY <1>1, <3>1, <4>1, WritesAudited DEF InsertBlob
      <3>2. CASE db' = db
        BY <3>2
      <3> QED BY <1>3, <3>1, <3>2 DEF PutEvidence, ExportAnchor
    <2> QED BY <2>1, <2>2 DEF DueOK, Holding
  <1> QED BY <1>2, <1>3 DEF Retain

\* store.delete_evidence and memory.sweep_retention never leave a deletion
\* without its row or a row without its deletion, however their write units
\* nest, fail or are rolled back, for any number of processes and blobs.
THEOREM DeletionsStayAudited == Spec => []DeletionsAudited
  <1>1. Init => AuditInv
    <2> SUFFICES ASSUME Init PROVE AuditInv
      OBVIOUS
    <2>1. EmptyDb \in Database
      BY EmptyDbSound DEF Sound
    <2>2. Audited(EmptyDb)
      <3>1. /\ EmptyDb.events = << >> /\ EmptyDb.audit = << >>
            /\ \A b \in Blobs : EmptyDb.blobs[b].deleted = FALSE
        BY DEF EmptyDb
      <3>2. /\ Gone(EmptyDb) = {} /\ SweptUnits(EmptyDb) = {}
            /\ \A b : Deletions(EmptyDb, b) = {}
        BY <3>1, EmptySeq DEF Gone, SweptUnits, Deletions
      <3> QED BY <3>1, <3>2, FS_EmptySet DEF Audited
    <2>3. \A p \in Procs : DueOK(p)
      BY EmptySeq DEF Init, DueOK, Holding
    <2> QED BY <2>2, <2>3 DEF Init, AuditInv
  <1>2. IInv /\ AuditInv /\ [Next]_vars => AuditInv'
    <2> SUFFICES ASSUME IInv, AuditInv, [Next]_vars PROVE AuditInv'
      OBVIOUS
    <2>1. CASE UNCHANGED vars
      BY <2>1 DEF vars, AuditInv, DueOK, Due, Holding
    <2>2. CASE Next
      <3>1. PICK p \in Procs : Transact(p) \/ Deliver(p) \/ Govern(p) \/ Retain(p)
        BY <2>2 DEF Next
      <3>2. Audited(db)' /\ DueOK(p)'
        BY <3>1, TransactDue, DeliverDue, GovernDue, RetainDue DEF AuditInv
      <3>3. ASSUME NEW q \in Procs, q # p PROVE DueOK(q)'
        <4>1. /\ work'[q] = work[q] /\ saves'[q] = saves[q] /\ pc'[q] = pc[q] /\ req'[q] = req[q]
          BY <3>1, <3>3, OneMoves DEF OnlyMoves
        <4>2. DueOK(q)
          BY DEF AuditInv
        <4> QED BY <4>1, <4>2 DEF DueOK, Due, Holding
      <3> QED BY <3>2, <3>3 DEF AuditInv
    <2> QED BY <2>1, <2>2
  <1>3. AuditInv => DeletionsAudited
    BY DEF AuditInv, DeletionsAudited
  <1> QED BY <1>1, <1>2, <1>3, Invariance, PTL DEF Spec
=============================================================================
