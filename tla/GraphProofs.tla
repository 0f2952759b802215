---------------------------- MODULE GraphProofs -----------------------------
(***************************************************************************)
(* The bi-temporal rows of the graph are exact for any nodes, scopes,      *)
(* writers and calls, and any number of versions and ticks, and the blast  *)
(* radius is exact for any graph, weights and call.                        *)
(*                                                                         *)
(* What a reader at a transaction time finds follows from how neighbouring *)
(* versions meet: each was closed at the very time the next one opened, so *)
(* where these times are in order the versions partition time.             *)
(*                                                                         *)
(* The search prunes a path that is no stronger than one known to its end, *)
(* which is sound because the known one is no longer: no walk as short as  *)
(* the path being expanded reaches further than is known, and each such    *)
(* walk is followed up from a path as short and as strong.                 *)
(***************************************************************************)
EXTENDS Graph, FiniteSetTheorems, SequenceTheorems, WellFoundedInduction, TLAPS

RowScopes == {c.scope : c \in RowCalls}

RowNodeRow == [scope: RowScopes, status: {c.status : c \in RowCalls}, from: Int, to: Rows!Times,
            txFrom: Nat, txTo: Nat \cup {None}]

RowLinkRow == [scope: RowScopes, from: Int, to: Rows!Times, txFrom: Nat, txTo: Nat \cup {None}]

RowTypeOK ==
    /\ rows \in [RowNodes -> Seq(RowNodeRow)]
    /\ links \in [Rows!Pairs -> Seq(RowLinkRow)]
    /\ clock \in Nat
    /\ DOMAIN held = Direct

\* A direct call that waits for the lock has sampled the clock.
RowHeldOK ==
    \A w \in Direct : held[w] # None =>
        held[w].call \in RowCalls /\ held[w].now \in Nat /\ held[w].now <= clock

\* Versions meet: each is closed when the next one opens, the last is open.
RowMeet(history, time) ==
    \A i \in DOMAIN history :
        /\ history[i].txFrom <= time
        /\ history[i].txTo = IF i = Len(history) THEN None ELSE history[i + 1].txFrom

RowInOrder(history) ==
    \A i, j \in DOMAIN history : i <= j => history[i].txFrom <= history[j].txFrom

RowRowsOK ==
    \A n \in RowNodes : RowMeet(rows[n], clock) /\ (n \notin overtaken => RowInOrder(rows[n]))

RowLinksOK ==
    \A p \in Rows!Pairs : RowMeet(links[p], clock) /\ (p \notin overtaken => RowInOrder(links[p]))

\* A node stays in the scope it was created in.
RowOneScope ==
    \A n \in RowNodes : \A i, j \in DOMAIN rows[n] : rows[n][i].scope = rows[n][j].scope

RowTables == RowRowsOK /\ RowLinksOK /\ RowOneScope /\ Rows!ValidityNotReopened /\ Rows!EdgesStayInScope

RowIInv == RowTypeOK /\ RowHeldOK /\ RowTables

-----------------------------------------------------------------------------
(* Rows.                                                                   *)

\* The row that UPDATE ... SET tx_to leaves.
RowClosed(r, now) == [r EXCEPT !.txTo = now]

\* Closing a row keeps everything else about it.
LEMMA RowClosedRow ==
    ASSUME NEW now \in Nat
    PROVE  /\ \A r \in RowNodeRow : LET q == RowClosed(r, now) IN
                 /\ q \in RowNodeRow /\ q.txTo = now /\ q.txFrom = r.txFrom
                 /\ q.scope = r.scope /\ q.from = r.from /\ q.to = r.to
           /\ \A r \in RowLinkRow : LET q == RowClosed(r, now) IN
                 /\ q \in RowLinkRow /\ q.txTo = now /\ q.txFrom = r.txFrom
                 /\ q.scope = r.scope /\ q.from = r.from /\ q.to = r.to
  BY DEF RowNodeRow, RowLinkRow, RowClosed

\* A new version comes last, and closes the one before it.
LEMMA RowSupersedeIs ==
    ASSUME NEW S, NEW h \in Seq(S), NEW row \in S, NEW now, NEW g,
           \A r \in S : RowClosed(r, now) \in S,
           g = Rows!Supersede(h, row, now)
    PROVE  /\ g \in Seq(S) /\ Len(h) \in Nat /\ Len(g) = Len(h) + 1
           /\ DOMAIN h = 1..Len(h) /\ DOMAIN g = 1..(Len(h) + 1)
           /\ g[Len(h) + 1] = row
           /\ \A i \in 1..Len(h) :
                 g[i] = IF i = Len(h) THEN RowClosed(h[i], now) ELSE h[i]
  <1> DEFINE closed == [i \in DOMAIN h |->
                          IF i = Len(h) THEN RowClosed(h[i], now) ELSE h[i]]
  <1>1. Len(h) \in Nat /\ DOMAIN h = 1..Len(h)
    BY LenProperties
  <1>2. \A i \in DOMAIN h : h[i] \in S
    BY ElementOfSeq, <1>1
  <1>3. closed \in [1..Len(h) -> S]
    BY <1>1, <1>2
  <1>4. closed \in Seq(S) /\ Len(closed) = Len(h)
    BY <1>1, <1>3, IsASeq
  <1>5. \A i \in 1..Len(h) :
            closed[i] = IF i = Len(h) THEN RowClosed(h[i], now) ELSE h[i]
    BY <1>1
  <1> HIDE DEF closed
  <1>6. /\ Append(closed, row) \in Seq(S)
        /\ Len(Append(closed, row)) = Len(closed) + 1
        /\ \A i \in 1..Len(closed) : Append(closed, row)[i] = closed[i]
        /\ Append(closed, row)[Len(closed) + 1] = row
    BY <1>4, AppendProperties
  <1>7. DOMAIN Append(closed, row) = 1..(Len(closed) + 1)
    BY <1>6, LenProperties
  <1> QED BY <1>1, <1>4, <1>5, <1>6, <1>7 DEF Rows!Supersede, closed, RowClosed

\* Versions that meet still do, and stay in order unless the new one is late.
LEMMA RowSupersedeMeets ==
    ASSUME NEW S, NEW h \in Seq(S), NEW row \in S, NEW now \in Nat, NEW g,
           g = Rows!Supersede(h, row, now), NEW before \in Nat, NEW after \in Nat,
           before <= after, now <= after,
           \A r \in S : r.txFrom \in Nat,
           \A r \in S : LET q == RowClosed(r, now) IN
                            q \in S /\ q.txTo = now /\ q.txFrom = r.txFrom,
           RowMeet(h, before), row.txFrom = now, row.txTo = None
    PROVE  /\ RowMeet(g, after)
           /\ RowInOrder(h) /\ (h = << >> \/ h[Len(h)].txFrom <= now) => RowInOrder(g)
  <1>1. PICK L \in Nat :
            /\ L = Len(h) /\ Len(g) = L + 1 /\ DOMAIN h = 1..L /\ DOMAIN g = 1..(L + 1)
            /\ g[L + 1] = row
            /\ \A i \in 1..L : g[i] = IF i = L THEN RowClosed(h[i], now) ELSE h[i]
    <2>1. \A r \in S : RowClosed(r, now) \in S
      OBVIOUS
    <2>2. /\ Len(h) \in Nat /\ Len(g) = Len(h) + 1
          /\ DOMAIN h = 1..Len(h) /\ DOMAIN g = 1..(Len(h) + 1)
          /\ g[Len(h) + 1] = row
          /\ \A i \in 1..Len(h) : g[i] = IF i = Len(h) THEN RowClosed(h[i], now) ELSE h[i]
      BY <2>1, RowSupersedeIs
    <2> QED BY <2>2
  <1>2. ASSUME NEW i \in 1..L
        PROVE  /\ h[i].txFrom \in Nat /\ g[i].txFrom = h[i].txFrom
               /\ g[i].txTo = IF i = L THEN now ELSE h[i].txTo
               /\ h[i].txFrom <= before
               /\ h[i].txTo = IF i = L THEN None ELSE h[i + 1].txFrom
    <2>1. h[i] \in S
      BY <1>1, ElementOfSeq
    <2>2. h[i].txFrom <= before /\ h[i].txTo = IF i = L THEN None ELSE h[i + 1].txFrom
      BY <1>1 DEF RowMeet
    <2> QED BY <2>1, <2>2, <1>1
  <1>3. g[L + 1].txFrom = now /\ g[L + 1].txTo = None
    BY <1>1
  <1>4. RowMeet(g, after)
    <2> SUFFICES ASSUME NEW i \in 1..(L + 1)
                 PROVE  /\ g[i].txFrom <= after
                        /\ g[i].txTo = IF i = L + 1 THEN None ELSE g[i + 1].txFrom
      <3>1. Len(g) = L + 1 /\ DOMAIN g = 1..(L + 1)
        BY <1>1
      <3> QED BY <3>1 DEF RowMeet
    <2>1. CASE i = L + 1
      BY <2>1, <1>3
    <2>2. CASE i = L
      BY <2>2, <1>2, <1>3
    <2>3. CASE i \in 1..L /\ i # L
      <3>1. i + 1 \in 1..L /\ i # L + 1
        BY <2>3
      <3>2. g[i + 1].txFrom = h[i + 1].txFrom
        BY <3>1, <1>2
      <3>3. /\ h[i].txFrom \in Nat /\ g[i].txFrom = h[i].txFrom /\ h[i].txFrom <= before
            /\ g[i].txTo = h[i].txTo /\ h[i].txTo = h[i + 1].txFrom
        BY <2>3, <1>2
      <3>4. g[i].txFrom <= after
        BY <3>3
      <3> QED BY <3>1, <3>2, <3>3, <3>4
    <2> QED BY <2>1, <2>2, <2>3
  <1>5. ASSUME RowInOrder(h), h = << >> \/ h[Len(h)].txFrom <= now PROVE RowInOrder(g)
    <2>1. \A i, j \in 1..L : i <= j => h[i].txFrom <= h[j].txFrom
      BY <1>1, <1>5 DEF RowInOrder
    <2>2. \A i \in 1..L : h[i].txFrom <= now
      <3> TAKE i \in 1..L
      <3>1. L \in 1..L /\ i <= L
        OBVIOUS
      <3>2. h # << >>
        BY <1>1, <3>1
      <3>3. h[L].txFrom <= now /\ h[i].txFrom <= h[L].txFrom
        BY <2>1, <3>1, <3>2, <1>1, <1>5
      <3> QED BY <3>1, <3>3, <1>2
    <2> SUFFICES ASSUME NEW i \in 1..(L + 1), NEW j \in 1..(L + 1), i <= j
                 PROVE  g[i].txFrom <= g[j].txFrom
      BY <1>1 DEF RowInOrder
    <2>3. CASE j \in 1..L
      BY <2>1, <2>3, <1>2
    <2>4. CASE j = L + 1 /\ i \in 1..L
      BY <2>2, <2>4, <1>2, <1>3
    <2>5. CASE j = L + 1 /\ i = j
      BY <2>5, <1>3
    <2> QED BY <2>3, <2>4, <2>5
  <1> QED BY <1>4, <1>5

\* Of times in order, exactly one is the last not after t.
LEMMA RowNewestByThen ==
    ASSUME NEW L \in Nat \ {0}, NEW f \in [1..L -> Nat], NEW t \in Int, f[1] <= t,
           \A i, j \in 1..L : i <= j => f[i] <= f[j]
    PROVE  \E k \in 1..L : \A i \in 1..L : (f[i] <= t /\ (i < L => f[i + 1] > t)) <=> i = k
  <1> DEFINE T == {i \in 1..L : i < L => f[i + 1] > t}
             R == {ss \in Nat \X Nat : ss[1] < ss[2]}
  <1>1. IsWellFoundedOn(R, Nat)
    BY NatLessThanWellFounded, Zenon DEF OpToRel
  <1>2. \A x, y \in Nat : y < x => <<y, x>> \in R
    OBVIOUS
  <1>3. T \subseteq Nat /\ T # {}
    <2>1. L \in T
      OBVIOUS
    <2>2. T \subseteq Nat
      OBVIOUS
    <2> HIDE DEF T
    <2> QED BY <2>1, <2>2
  <1> HIDE DEF R, T
  <1>4. PICK k \in T : \A y \in T : ~ (<<y, k>> \in R)
    BY <1>1, <1>3, WFMin
  <1>5. \A y \in T : k <= y
    <2> TAKE y \in T
    <2>1. k \in Nat /\ y \in Nat
      BY <1>3
    <2>2. ~(y < k)
      BY <1>2, <1>4, <2>1, Zenon
    <2> QED BY <2>1, <2>2
  <1>6. k \in 1..L /\ (k < L => f[k + 1] > t)
    BY DEF T
  <1>7. f[k] <= t
    <2>1. CASE k # 1
      <3>1. k - 1 \in 1..L /\ k - 1 < L /\ (k - 1) + 1 = k
        BY <2>1, <1>6
      <3>2. k - 1 \notin T
        BY <1>5, <1>6
      <3> QED BY <3>1, <3>2, <1>6 DEF T
    <2> QED BY <2>1
  <1>8. ASSUME NEW i \in 1..L, f[i] <= t, i < L => f[i + 1] > t PROVE i = k
    <2>1. k <= i
      BY <1>5, <1>8 DEF T
    <2>2. CASE k < i
      <3>1. k + 1 \in 1..L /\ k + 1 <= i /\ f[k + 1] > t
        BY <2>2, <1>6
      <3> QED BY <3>1, <1>8
    <2> QED BY <2>1, <2>2, <1>6
  <1> QED BY <1>6, <1>7, <1>8

\* Versions that meet and are in order partition time: at any time since the
\* first there is exactly one, the newest written by then.
LEMMA RowVersionsPartitionTime ==
    ASSUME NEW S, \A r \in S : r.txFrom \in Nat, NEW h \in Seq(S), h # << >>,
           None \notin Int, RowMeet(h, clock), RowInOrder(h), clock \in Nat
    PROVE  Rows!BeliefIsUnique(h)
  <1>1. PICK L \in Nat \ {0} : L = Len(h) /\ DOMAIN h = 1..L
    BY LenProperties, EmptySeq
  <1>2. \A i \in 1..L : h[i].txFrom \in Nat
    BY <1>1, ElementOfSeq
  <1> SUFFICES ASSUME NEW t \in h[1].txFrom .. clock
               PROVE  Rows!AsOf(h, t) = {CHOOSE i \in DOMAIN h :
                                       /\ h[i].txFrom <= t
                                       /\ i < Len(h) => h[i + 1].txFrom > t}
    BY DEF Rows!BeliefIsUnique
  <1> DEFINE f == [i \in 1..L |-> h[i].txFrom]
             Believed(i) == h[i].txFrom <= t /\ (i < L => h[i + 1].txFrom > t)
  <1>3. t \in Int /\ h[1].txFrom <= t
    BY <1>1, <1>2
  <1>4. f \in [1..L -> Nat] /\ f[1] <= t /\ \A i, j \in 1..L : i <= j => f[i] <= f[j]
    <2>1. f \in [1..L -> Nat] /\ f[1] <= t
      BY <1>2, <1>3
    <2>2. \A i, j \in 1..L : i <= j => h[i].txFrom <= h[j].txFrom
      BY <1>1 DEF RowInOrder
    <2> QED BY <2>1, <2>2
  <1>5. ASSUME NEW i \in 1..L
        PROVE  Believed(i) <=> f[i] <= t /\ (i < L => f[i + 1] > t)
    <2>1. i < L => i + 1 \in 1..L
      OBVIOUS
    <2> QED BY <2>1
  <1>6. \E k \in 1..L : \A i \in 1..L : (f[i] <= t /\ (i < L => f[i + 1] > t)) <=> i = k
    <2> HIDE DEF f
    <2> QED BY <1>3, <1>4, RowNewestByThen
  <1>7. PICK k \in 1..L : \A i \in 1..L : Believed(i) <=> i = k
    <2> HIDE DEF f, Believed
    <2> QED BY <1>5, <1>6
  <1>8. ASSUME NEW i \in 1..L PROVE i \in Rows!AsOf(h, t) <=> Believed(i)
    <2>1. h[i].txTo = IF i = L THEN None ELSE h[i + 1].txFrom
      BY <1>1 DEF RowMeet
    <2>2. i # L => i < L /\ i + 1 \in 1..L
      OBVIOUS
    <2>3. i # L => h[i].txTo # None
      BY <2>1, <2>2, <1>2
    <2>4. i \in Rows!AsOf(h, t) <=> h[i].txFrom <= t /\ (h[i].txTo = None \/ h[i].txTo > t)
      BY <1>1 DEF Rows!AsOf
    <2>5. CASE i = L
      BY <2>1, <2>4, <2>5
    <2>6. CASE i # L
      BY <2>1, <2>2, <2>3, <2>4, <2>6
    <2> QED BY <2>5, <2>6
  <1> HIDE DEF Believed
  <1>9. Rows!AsOf(h, t) = {k}
    <2>1. Rows!AsOf(h, t) \subseteq 1..L
      BY <1>1 DEF Rows!AsOf
    <2> QED BY <2>1, <1>7, <1>8
  <1>10. (CHOOSE i \in 1..L : Believed(i)) = k
    BY <1>7
  <1> QED BY <1>1, <1>9, <1>10 DEF Believed

\* A history that goes on with one more row keeps what the others say.
RowFollows(h, g, row) ==
    \E L \in Nat :
        /\ L = Len(h) /\ Len(g) = L + 1 /\ DOMAIN h = 1..L /\ DOMAIN g = 1..(L + 1)
        /\ g[L + 1] = row /\ (h = << >> <=> L = 0) /\ g # << >>
        /\ \A i \in 1..L :
              g[i].scope = h[i].scope /\ g[i].from = h[i].from /\ g[i].to = h[i].to

\* What a new version leaves of the rows before it, and of the order of time.
LEMMA RowNextVersion ==
    ASSUME NEW S \in {RowNodeRow, RowLinkRow}, NEW h \in Seq(S), NEW row \in S, NEW now \in Nat,
           NEW g, g = Rows!Supersede(h, row, now), NEW before \in Nat, NEW after \in Nat,
           before <= after, now <= after, RowMeet(h, before), row.txFrom = now, row.txTo = None
    PROVE  /\ g \in Seq(S)
           /\ RowFollows(h, g, row)
           /\ RowMeet(g, after)
           /\ RowInOrder(h) /\ (h = << >> \/ h[Len(h)].txFrom <= now) => RowInOrder(g)
  <1>1. \A r \in S :
            /\ r.txFrom \in Nat
            /\ LET q == RowClosed(r, now) IN
               /\ q \in S /\ q.txTo = now /\ q.txFrom = r.txFrom
               /\ q.scope = r.scope /\ q.from = r.from /\ q.to = r.to
    <2>1. \A r \in RowNodeRow : r.txFrom \in Nat
      BY DEF RowNodeRow
    <2>2. \A r \in RowLinkRow : r.txFrom \in Nat
      BY DEF RowLinkRow
    <2>3. CASE S = RowNodeRow
      BY <2>1, <2>3, RowClosedRow
    <2>4. CASE S = RowLinkRow
      BY <2>2, <2>4, RowClosedRow
    <2> QED BY <2>3, <2>4
  <1>2. \A r \in S : RowClosed(r, now) \in S
    BY <1>1
  <1>3. /\ g \in Seq(S) /\ Len(h) \in Nat /\ Len(g) = Len(h) + 1
        /\ DOMAIN h = 1..Len(h) /\ DOMAIN g = 1..(Len(h) + 1)
        /\ g[Len(h) + 1] = row
        /\ \A i \in 1..Len(h) : g[i] = IF i = Len(h) THEN RowClosed(h[i], now) ELSE h[i]
    BY <1>2, RowSupersedeIs
  <1>4. /\ RowMeet(g, after)
        /\ RowInOrder(h) /\ (h = << >> \/ h[Len(h)].txFrom <= now) => RowInOrder(g)
    <2>1. \A r \in S : r.txFrom \in Nat
      BY <1>1
    <2>2. \A r \in S : LET q == RowClosed(r, now) IN
                           q \in S /\ q.txTo = now /\ q.txFrom = r.txFrom
      BY <1>1
    <2> QED BY <2>1, <2>2, RowSupersedeMeets
  <1>5. h = << >> <=> Len(h) = 0
    BY EmptySeq, LenProperties
  <1>6. g # << >>
    <2>1. \A n \in Nat : n + 1 # 0
      OBVIOUS
    <2>2. Len(g) # 0
      BY <2>1, <1>3, Zenon
    <2> QED BY <2>2, EmptySeq
  <1>7. ASSUME NEW i \in 1..Len(h)
        PROVE  g[i].scope = h[i].scope /\ g[i].from = h[i].from /\ g[i].to = h[i].to
    <2>1. h[i] \in S
      BY <1>3, ElementOfSeq
    <2>2. g[i] = RowClosed(h[i], now) \/ g[i] = h[i]
      BY <1>3
    <2> QED BY <2>1, <2>2, <1>1
  <1> QED BY <1>3, <1>4, <1>5, <1>6, <1>7 DEF RowFollows

-----------------------------------------------------------------------------
(* Writes.                                                                 *)

\* A version of a node is a row, and reopens validity only where the call does.
LEMMA RowNodeVersionIs ==
    ASSUME Rows!CallsOK, Rows!NamesOK, NEW c \in RowCalls, c.op = "node", NEW now \in Nat,
           NEW h \in Seq(RowNodeRow), h = << >> \/ Rows!Last(h) \in RowNodeRow,
           Rows!NodeAccepted(c, h), NEW row, row = Rows!NodeVersion(c, h, now)
    PROVE  /\ row \in RowNodeRow /\ row.txFrom = now /\ row.txTo = None /\ row.scope = c.scope
           /\ h # << >> /\ Rows!Last(h).to # None /\ row.to = None => row.from >= Rows!Last(h).to
           /\ h # << >> => Rows!Last(h).scope = c.scope
  <1>1. /\ c.id \in RowNodes /\ c.from \in Rows!Times /\ c.to \in Rows!Times
        /\ c.reopen \in BOOLEAN /\ (c.reopen => c.from # None)
    BY DEF Rows!CallsOK
  <1>2. h # << >> => /\ Rows!Last(h).status \in {d.status : d \in RowCalls} /\ Rows!Last(h).from \in Int
                     /\ Rows!Last(h).to \in Rows!Times
    BY DEF RowNodeRow
  <1> DEFINE first == h = << >>
  <1>3. (IF first THEN c.status ELSE Rows!Given(c.status,
        Rows!Last(h).status)) \in {d.status : d \in RowCalls}
    BY <1>2 DEF Rows!Given
  <1>4. Rows!Given(c.from, IF first THEN now ELSE Rows!Last(h).from) \in Int
    BY <1>1, <1>2 DEF Rows!Given, Rows!Times
  <1>5. (IF first \/ c.reopen THEN c.to ELSE Rows!Given(c.to, Rows!Last(h).to)) \in Rows!Times
    BY <1>1, <1>2 DEF Rows!Given
  <1>6. row = [scope |-> c.scope,
               status |-> IF first THEN c.status ELSE Rows!Given(c.status, Rows!Last(h).status),
               from |-> Rows!Given(c.from, IF first THEN now ELSE Rows!Last(h).from),
               to |-> IF first \/ c.reopen THEN c.to ELSE Rows!Given(c.to, Rows!Last(h).to),
               txFrom |-> now, txTo |-> None]
    BY DEF Rows!NodeVersion
  <1>7. row \in RowNodeRow
    BY <1>3, <1>4, <1>5, <1>6 DEF RowNodeRow, RowScopes
  <1>8. h # << >> /\ Rows!Last(h).to # None /\ row.to = None => row.from >= Rows!Last(h).to
    <2> SUFFICES ASSUME h # << >>, Rows!Last(h).to # None, row.to = None
                 PROVE  row.from >= Rows!Last(h).to
      OBVIOUS
    <2>1. c.reopen
      BY <1>6 DEF Rows!Given
    <2>2. row.from = c.from
      BY <2>1, <1>1, <1>6 DEF Rows!Given
    <2> QED BY <2>1, <2>2 DEF Rows!NodeAccepted
  <1> QED BY <1>6, <1>7, <1>8 DEF Rows!NodeAccepted

\* The row that a version supersedes is the last one of its history.
LEMMA RowLastRow ==
    ASSUME NEW S, NEW h \in Seq(S)
    PROVE  h = << >> \/ (Rows!Last(h) \in S /\ Len(h) \in DOMAIN h /\ Rows!Last(h) = h[Len(h)])
  <1>1. Len(h) \in Nat /\ DOMAIN h = 1..Len(h) /\ (Len(h) = 0 => h = << >>)
    BY LenProperties, EmptySeq
  <1>2. Len(h) # 0 => Len(h) \in 1..Len(h)
    BY <1>1
  <1> QED BY <1>1, <1>2, ElementOfSeq DEF Rows!Last

\* Versions that meet still do as time passes.
LEMMA RowMeetsLater ==
    ASSUME NEW S \in {RowNodeRow, RowLinkRow}, NEW h \in Seq(S), NEW before \in Nat,
           NEW after \in Nat, before <= after, RowMeet(h, before)
    PROVE  RowMeet(h, after)
  <1>1. \A r \in RowNodeRow \cup RowLinkRow : r.txFrom \in Nat
    BY DEF RowNodeRow, RowLinkRow
  <1>2. ASSUME NEW i \in DOMAIN h PROVE h[i].txFrom \in Nat
    <2>1. h[i] \in S
      BY LenProperties, ElementOfSeq
    <2> QED BY <2>1, <1>1
  <1> QED BY <1>2 DEF RowMeet

LEMMA RowPutNodeKeeps ==
    ASSUME Rows!CallsOK, Rows!NamesOK, RowTypeOK, RowTables, NEW c \in RowCalls, NEW now \in Nat,
          Rows!PutNode(c, now),
           clock' \in Nat, clock <= clock', now <= clock', overtaken \subseteq overtaken',
           Rows!Newer(c.id, now) => c.id \in overtaken'
    PROVE  rows' \in [RowNodes -> Seq(RowNodeRow)] /\ links' \in [Rows!Pairs -> Seq(RowLinkRow)] /\ RowTables'
  <1>1. PICK n \in RowNodes : n = c.id
    BY DEF Rows!PutNode, Rows!CallsOK
  <1>2. PICK h \in Seq(RowNodeRow) : h = rows[n]
    BY DEF RowTypeOK
  <1>3. PICK row : row = Rows!NodeVersion(c, h, now)
    OBVIOUS
  <1>4. PICK g : g = Rows!Supersede(h, row, now)
    OBVIOUS
  <1>5. rows' = [rows EXCEPT ![n] = g] /\ links' = links /\ Rows!NodeAccepted(c, h) /\ c.op = "node"
    BY <1>1, <1>2, <1>3, <1>4 DEF Rows!PutNode
  <1>6. h = << >> \/ (Rows!Last(h) \in RowNodeRow /\ Len(h) \in DOMAIN h /\ Rows!Last(h) = h[Len(h)])
    BY RowLastRow
  <1>7. /\ row \in RowNodeRow /\ row.txFrom = now /\ row.txTo = None /\ row.scope = c.scope
        /\ h # << >> /\ Rows!Last(h).to # None /\ row.to = None => row.from >= Rows!Last(h).to
        /\ h # << >> => Rows!Last(h).scope = c.scope
    BY <1>3, <1>5, <1>6, RowNodeVersionIs
  <1>8. RowMeet(h, clock) /\ (n \notin overtaken => RowInOrder(h))
    BY <1>2 DEF RowTables, RowRowsOK
  <1>9. /\ g \in Seq(RowNodeRow) /\ RowFollows(h, g, row) /\ RowMeet(g, clock')
        /\ RowInOrder(h) /\ (h = << >> \/ h[Len(h)].txFrom <= now) => RowInOrder(g)
    <2>1. RowNodeRow \in {RowNodeRow, RowLinkRow} /\ clock \in Nat
      BY DEF RowTypeOK
    <2> QED BY <2>1, <1>4, <1>7, <1>8, RowNextVersion
  <1>10. PICK L \in Nat :
             /\ L = Len(h) /\ Len(g) = L + 1 /\ DOMAIN h = 1..L /\ DOMAIN g = 1..(L + 1)
             /\ g[L + 1] = row /\ (h = << >> <=> L = 0) /\ g # << >>
             /\ \A i \in 1..L :
                   g[i].scope = h[i].scope /\ g[i].from = h[i].from /\ g[i].to = h[i].to
    BY <1>9 DEF RowFollows
  <1>11. rows' \in [RowNodes -> Seq(RowNodeRow)] /\ links' \in [Rows!Pairs -> Seq(RowLinkRow)]
    BY <1>5, <1>9 DEF RowTypeOK
  <1>12. n \notin overtaken' => RowInOrder(g)
    <2> SUFFICES ASSUME n \notin overtaken' PROVE RowInOrder(g)
      OBVIOUS
    <2>1. RowInOrder(h) /\ ~ Rows!Newer(n, now)
      BY <1>1, <1>8
    <2>2. h = << >> \/ ~ (h[Len(h)].txFrom > now)
      BY <2>1, <1>2 DEF Rows!Newer, Rows!Last
    <2>3. h = << >> \/ h[Len(h)].txFrom \in Nat
      BY <1>6 DEF RowNodeRow
    <2> QED BY <2>1, <2>2, <2>3, <1>9
  <1>13. RowRowsOK'
    <2> SUFFICES ASSUME NEW m \in RowNodes
                 PROVE  RowMeet(rows'[m], clock') /\ (m \notin overtaken' => RowInOrder(rows'[m]))
      BY DEF RowRowsOK, RowMeet, RowInOrder
    <2>1. CASE m = n
      BY <2>1, <1>5, <1>9, <1>12 DEF RowTypeOK
    <2>2. CASE m # n
      <3>1. rows'[m] = rows[m] /\ rows[m] \in Seq(RowNodeRow)
        BY <2>2, <1>5 DEF RowTypeOK
      <3>2. RowMeet(rows[m], clock) /\ (m \notin overtaken => RowInOrder(rows[m]))
        BY DEF RowTables, RowRowsOK
      <3>3. RowMeet(rows[m], clock')
        BY <3>1, <3>2, RowMeetsLater DEF RowTypeOK
      <3> QED BY <3>1, <3>2, <3>3
    <2> QED BY <2>1, <2>2
  <1>14. RowLinksOK'
    <2> SUFFICES ASSUME NEW p \in Rows!Pairs
                 PROVE  RowMeet(links[p], clock') /\ (p \notin overtaken' => RowInOrder(links[p]))
      BY <1>5 DEF RowLinksOK, RowMeet, RowInOrder
    <2>1. links[p] \in Seq(RowLinkRow) /\ clock \in Nat
      BY DEF RowTypeOK
    <2>2. RowMeet(links[p], clock) /\ (p \notin overtaken => RowInOrder(links[p]))
      BY DEF RowTables, RowLinksOK
    <2> QED BY <2>1, <2>2, RowMeetsLater
  <1>15. \A i \in 1..L : h[i].scope = c.scope
    <2> TAKE i \in 1..L
    <2>1. h # << >> /\ L \in 1..L
      BY <1>10
    <2>2. h[i].scope = h[L].scope
      BY <2>1, <1>2, <1>10 DEF RowTables, RowOneScope
    <2> QED BY <2>1, <2>2, <1>6, <1>7, <1>10
  <1>16. \A i \in 1..(L + 1) : g[i].scope = c.scope
    <2> TAKE i \in 1..(L + 1)
    <2>1. i \in 1..L \/ i = L + 1
      OBVIOUS
    <2> QED BY <2>1, <1>7, <1>10, <1>15
  <1>17. RowOneScope'
    BY <1>5, <1>10, <1>16 DEF RowTables, RowOneScope, RowTypeOK
  <1>18. Rows!ValidityNotReopened'
    <2> SUFFICES ASSUME NEW m \in RowNodes, NEW i \in 1 .. Len(rows'[m]) - 1,
                        rows'[m][i].to # None, rows'[m][i + 1].to = None
                 PROVE  rows'[m][i + 1].from >= rows'[m][i].to
      BY DEF Rows!ValidityNotReopened
    <2>1. CASE m # n
      BY <2>1, <1>5 DEF RowTables, Rows!ValidityNotReopened, RowTypeOK
    <2>2. CASE m = n
      <3>1. rows'[m] = g /\ i \in 1..L
        BY <2>2, <1>5, <1>10 DEF RowTypeOK
      <3>2. CASE i = L
        <4>1. h # << >> /\ Rows!Last(h).to = h[L].to
          BY <3>1, <1>6, <1>10
        <4> QED BY <3>1, <3>2, <4>1, <1>7, <1>10
      <3>3. CASE i # L
        <4>1. i + 1 \in 1..L /\ i \in 1..(L - 1)
          BY <3>1, <3>3
        <4>2. /\ g[i].to = h[i].to /\ g[i + 1].to = h[i + 1].to
              /\ g[i + 1].from = h[i + 1].from
          BY <3>1, <4>1, <1>10
        <4>3. h[i].to # None /\ h[i + 1].to = None => h[i + 1].from >= h[i].to
          BY <4>1, <1>2, <1>10 DEF RowTables, Rows!ValidityNotReopened
        <4> QED BY <3>1, <4>2, <4>3
      <3> QED BY <3>2, <3>3
    <2> QED BY <2>1, <2>2
  <1>19. Rows!EdgesStayInScope'
    <2> SUFFICES ASSUME NEW p \in Rows!Pairs, NEW i \in DOMAIN links'[p], NEW m \in {p[1], p[2]}
                 PROVE  rows'[m] # << >>
                        /\ \A j \in DOMAIN rows'[m] : rows'[m][j].scope = links'[p][i].scope
      BY Zenon DEF Rows!EdgesStayInScope
    <2> USE <1>5
    <2>1. rows[m] # << >> /\ \A j \in DOMAIN rows[m] : rows[m][j].scope = links[p][i].scope
      BY DEF RowTables, Rows!EdgesStayInScope
    <2>2. m \in RowNodes
      BY DEF Rows!Pairs
    <2>3. CASE m # n
      BY <2>1, <2>2, <2>3, <1>5 DEF RowTypeOK
    <2>4. CASE m = n
      <3>1. h # << >> /\ L \in 1..L
        BY <2>1, <2>4, <1>2, <1>10
      <3>2. h[L].scope = links[p][i].scope
        BY <2>1, <2>4, <3>1, <1>2, <1>10
      <3>3. c.scope = links[p][i].scope
        BY <3>1, <3>2, <1>15
      <3> QED BY <2>4, <3>3, <1>5, <1>10, <1>16 DEF RowTypeOK
    <2> QED BY <2>3, <2>4
  <1> QED BY <1>11, <1>13, <1>14, <1>17, <1>18, <1>19 DEF RowTables

\* A new version of an edge whose endpoints are in its scope.
LEMMA RowLinkWriteKeeps ==
    ASSUME Rows!NamesOK, RowTypeOK, RowTables, NEW p \in Rows!Pairs, NEW row \in RowLinkRow,
          NEW now \in Nat,
           row.txFrom = now, row.txTo = None, rows' = rows,
           links' = [links EXCEPT ![p] = Rows!Supersede(links[p], row, now)],
           \A n \in {p[1], p[2]} :
               rows[n] # << >> /\ \A j \in DOMAIN rows[n] : rows[n][j].scope = row.scope,
           clock' \in Nat, clock <= clock', now <= clock', overtaken \subseteq overtaken',
           Rows!Newer(p, now) => p \in overtaken'
    PROVE  rows' \in [RowNodes -> Seq(RowNodeRow)] /\ links' \in [Rows!Pairs -> Seq(RowLinkRow)] /\ RowTables'
  <1>1. PICK h \in Seq(RowLinkRow) : h = links[p]
    BY DEF RowTypeOK
  <1>2. PICK g : g = Rows!Supersede(h, row, now)
    OBVIOUS
  <1>3. links' = [links EXCEPT ![p] = g]
    BY <1>1, <1>2
  <1>4. RowMeet(h, clock) /\ (p \notin overtaken => RowInOrder(h))
    BY <1>1 DEF RowTables, RowLinksOK
  <1>5. /\ g \in Seq(RowLinkRow) /\ RowFollows(h, g, row) /\ RowMeet(g, clock')
        /\ RowInOrder(h) /\ (h = << >> \/ h[Len(h)].txFrom <= now) => RowInOrder(g)
    <2>1. RowLinkRow \in {RowNodeRow, RowLinkRow} /\ clock \in Nat
      BY DEF RowTypeOK
    <2> QED BY <2>1, <1>2, <1>4, RowNextVersion
  <1>6. PICK L \in Nat :
            /\ L = Len(h) /\ Len(g) = L + 1 /\ DOMAIN h = 1..L /\ DOMAIN g = 1..(L + 1)
            /\ g[L + 1] = row
            /\ \A i \in 1..L : g[i].scope = h[i].scope
    BY <1>5 DEF RowFollows
  <1>7. p \notin overtaken' => RowInOrder(g)
    <2> SUFFICES ASSUME p \notin overtaken' PROVE RowInOrder(g)
      OBVIOUS
    <2>1. RowInOrder(h) /\ ~ Rows!Newer(p, now) /\ p \notin RowNodes
      BY <1>4 DEF Rows!NamesOK
    <2>2. h = << >> \/ ~ (h[Len(h)].txFrom > now)
      BY <2>1, <1>1 DEF Rows!Newer, Rows!Last
    <2>3. h = << >> \/ h[Len(h)].txFrom \in Nat
      <3>1. h = << >> \/ h[Len(h)] \in RowLinkRow
        BY RowLastRow
      <3> QED BY <3>1 DEF RowLinkRow
    <2> QED BY <2>1, <2>2, <2>3, <1>5
  <1>8. rows' \in [RowNodes -> Seq(RowNodeRow)] /\ links' \in [Rows!Pairs -> Seq(RowLinkRow)]
    BY <1>3, <1>5 DEF RowTypeOK
  <1>9. RowLinksOK'
    <2> SUFFICES ASSUME NEW o \in Rows!Pairs
                 PROVE  RowMeet(links'[o], clock') /\ (o \notin overtaken' => RowInOrder(links'[o]))
      BY DEF RowLinksOK, RowMeet, RowInOrder
    <2>1. CASE o = p
      BY <2>1, <1>3, <1>5, <1>7 DEF RowTypeOK
    <2>2. CASE o # p
      <3>1. links'[o] = links[o] /\ links[o] \in Seq(RowLinkRow)
        BY <2>2, <1>3 DEF RowTypeOK
      <3>2. RowMeet(links[o], clock) /\ (o \notin overtaken => RowInOrder(links[o]))
        BY DEF RowTables, RowLinksOK
      <3>3. RowMeet(links[o], clock')
        BY <3>1, <3>2, RowMeetsLater DEF RowTypeOK
      <3> QED BY <3>1, <3>2, <3>3
    <2> QED BY <2>1, <2>2
  <1>10. RowRowsOK'
    <2> SUFFICES ASSUME NEW m \in RowNodes
                 PROVE  RowMeet(rows[m], clock') /\ (m \notin overtaken' => RowInOrder(rows[m]))
      BY DEF RowRowsOK, RowMeet, RowInOrder
    <2>1. rows[m] \in Seq(RowNodeRow) /\ clock \in Nat
      BY DEF RowTypeOK
    <2>2. RowMeet(rows[m], clock) /\ (m \notin overtaken => RowInOrder(rows[m]))
      BY DEF RowTables, RowRowsOK
    <2> QED BY <2>1, <2>2, RowMeetsLater
  <1>11. RowOneScope' /\ Rows!ValidityNotReopened'
    BY DEF RowTables, RowOneScope, Rows!ValidityNotReopened
  <1>12. Rows!EdgesStayInScope'
    <2> SUFFICES ASSUME NEW o \in Rows!Pairs, NEW i \in DOMAIN links'[o], NEW m \in {o[1], o[2]}
                 PROVE  rows'[m] # << >>
                        /\ \A j \in DOMAIN rows'[m] : rows'[m][j].scope = links'[o][i].scope
      BY Zenon DEF Rows!EdgesStayInScope
    <2>1. CASE o # p
      <3>1. links'[o] = links[o]
        BY <2>1, <1>3 DEF RowTypeOK
      <3>2. i \in DOMAIN links[o] /\ Rows!EdgesStayInScope
        BY <3>1 DEF RowTables
      <3>3. /\ rows[m] # << >>
            /\ \A j \in DOMAIN rows[m] : rows[m][j].scope = links[o][i].scope
        BY <3>2, Zenon DEF Rows!EdgesStayInScope
      <3> QED BY <3>1, <3>3
    <2>2. CASE o = p
      <3>1. links'[o] = g
        BY <2>2, <1>3 DEF RowTypeOK
      <3>2. CASE i = L + 1
        BY <2>2, <3>1, <3>2, <1>6
      <3>3. CASE i # L + 1
        <4>1. i \in 1..L
          BY <3>1, <3>3, <1>6
        <4>2. g[i].scope = links[p][i].scope /\ i \in DOMAIN links[p]
          BY <4>1, <1>1, <1>6
        <4> QED BY <2>2, <3>1, <4>2 DEF RowTables, Rows!EdgesStayInScope
      <3> QED BY <3>2, <3>3
    <2> QED BY <2>1, <2>2
  <1> QED BY <1>8, <1>9, <1>10, <1>11, <1>12 DEF RowTables

LEMMA RowPutEdgeKeeps ==
    ASSUME Rows!CallsOK, Rows!NamesOK, RowTypeOK, RowTables, NEW c \in RowCalls, NEW now \in Nat,
          Rows!PutEdge(c, now),
           clock' \in Nat, clock <= clock', now <= clock', overtaken \subseteq overtaken',
           Rows!Newer(c.id, now) => c.id \in overtaken'
    PROVE  rows' \in [RowNodes -> Seq(RowNodeRow)] /\ links' \in [Rows!Pairs -> Seq(RowLinkRow)] /\ RowTables'
  <1>1. PICK p \in Rows!Pairs : p = c.id /\ c.to \in Rows!Times
    BY DEF Rows!PutEdge, Rows!CallsOK
  <1>2. PICK row : row = Rows!EdgeVersion(c, now)
    OBVIOUS
  <1>3. /\ rows' = rows /\ Rows!EndpointsInScope(c)
        /\ links' = [links EXCEPT ![p] = Rows!Supersede(links[p], row, now)]
    BY <1>1, <1>2 DEF Rows!PutEdge, Rows!EdgeAccepted
  <1>4. row \in RowLinkRow /\ row.txFrom = now /\ row.txTo = None /\ row.scope = c.scope
    BY <1>1, <1>2 DEF Rows!EdgeVersion, RowLinkRow, RowScopes
  <1>5. ASSUME NEW n \in {p[1], p[2]}
        PROVE  rows[n] # << >> /\ \A j \in DOMAIN rows[n] : rows[n][j].scope = row.scope
    <2>1. n \in RowNodes /\ rows[n] \in Seq(RowNodeRow)
      BY DEF Rows!Pairs, RowTypeOK
    <2>2. rows[n] # << >> /\ Rows!Last(rows[n]).scope = c.scope
      BY <1>1, <1>3 DEF Rows!EndpointsInScope
    <2>3. Len(rows[n]) \in DOMAIN rows[n] /\ Rows!Last(rows[n]) = rows[n][Len(rows[n])]
      BY <2>1, <2>2, RowLastRow
    <2> QED BY <2>1, <2>2, <2>3, <1>4 DEF RowTables, RowOneScope
  <1> QED BY <1>1, <1>3, <1>4, <1>5, RowLinkWriteKeeps

LEMMA RowEndEdgeKeeps ==
    ASSUME Rows!CallsOK, Rows!NamesOK, RowTypeOK, RowTables, NEW c \in RowCalls, NEW now \in Nat,
          Rows!EndEdge(c, now),
           clock' \in Nat, clock <= clock', now <= clock', overtaken \subseteq overtaken',
           Rows!Newer(c.id, now) => c.id \in overtaken'
    PROVE  rows' \in [RowNodes -> Seq(RowNodeRow)] /\ links' \in [Rows!Pairs -> Seq(RowLinkRow)] /\ RowTables'
  <1>1. PICK p \in Rows!Pairs : p = c.id /\ c.to \in Rows!Times
    BY DEF Rows!EndEdge, Rows!CallsOK
  <1>2. PICK row : row = Rows!EndVersion(c, links[p], now)
    OBVIOUS
  <1>3. /\ rows' = rows /\ links[p] # << >>
        /\ links' = [links EXCEPT ![p] = Rows!Supersede(links[p], row, now)]
    BY <1>1, <1>2 DEF Rows!EndEdge, Rows!EndAccepted
  <1>4. PICK last \in RowLinkRow :
            /\ last = Rows!Last(links[p]) /\ last = links[p][Len(links[p])]
            /\ Len(links[p]) \in DOMAIN links[p]
    BY <1>3, RowLastRow DEF RowTypeOK
  <1>5. row \in RowLinkRow /\ row.txFrom = now /\ row.txTo = None /\ row.scope = last.scope
    <2>1. Rows!Given(c.to, now) \in Rows!Times
      BY <1>1 DEF Rows!Given, Rows!Times
    <2>2. row = [last EXCEPT !.to = Rows!Given(c.to, now), !.txFrom = now, !.txTo = None]
      BY <1>2, <1>4 DEF Rows!EndVersion
    <2> QED BY <2>1, <2>2 DEF RowLinkRow
  <1>6. \A n \in {p[1], p[2]} :
            rows[n] # << >> /\ \A j \in DOMAIN rows[n] : rows[n][j].scope = row.scope
    BY <1>4, <1>5 DEF RowTables, Rows!EdgesStayInScope
  <1> QED BY <1>1, <1>3, <1>5, <1>6, RowLinkWriteKeeps

LEMMA RowWriteKeeps ==
    ASSUME Rows!CallsOK, Rows!NamesOK, RowTypeOK, RowTables, NEW c \in RowCalls, NEW now \in Nat,
          Rows!Write(c, now),
           clock' \in Nat, clock <= clock', now <= clock', overtaken \subseteq overtaken',
           Rows!Newer(c.id, now) => c.id \in overtaken'
    PROVE  rows' \in [RowNodes -> Seq(RowNodeRow)] /\ links' \in [Rows!Pairs -> Seq(RowLinkRow)] /\ RowTables'
  <1>1. CASE Rows!PutNode(c, now)
    BY <1>1, RowPutNodeKeeps
  <1>2. CASE Rows!PutEdge(c, now)
    BY <1>2, RowPutEdgeKeeps
  <1>3. CASE Rows!EndEdge(c, now)
    BY <1>3, RowEndEdgeKeeps
  <1> QED BY <1>1, <1>2, <1>3 DEF Rows!Write

\* No version was written with a sample later than the clock.
LEMMA RowNothingIsNewer ==
    ASSUME RowTypeOK, RowTables, Rows!CallsOK, NEW c \in RowCalls PROVE ~ Rows!Newer(c.id,
          clock + 1)
  <1>1. c.id \in RowNodes \/ c.id \in Rows!Pairs
    BY DEF Rows!CallsOK
  <1>2. ASSUME NEW S \in {RowNodeRow, RowLinkRow}, NEW h \in Seq(S), RowMeet(h, clock), h # << >>
        PROVE  ~ (Rows!Last(h).txFrom > clock + 1)
    <2>1. Rows!Last(h) \in S /\ Len(h) \in DOMAIN h /\ Rows!Last(h) = h[Len(h)]
      BY <1>2, RowLastRow
    <2>2. Rows!Last(h).txFrom <= clock
      BY <2>1, <1>2 DEF RowMeet
    <2>3. Rows!Last(h) \in RowNodeRow \cup RowLinkRow
      BY <2>1
    <2>4. Rows!Last(h).txFrom \in Nat
      BY <2>3 DEF RowNodeRow, RowLinkRow
    <2> QED BY <2>2, <2>4 DEF RowTypeOK
  <1>3. CASE c.id \in RowNodes
    <2>1. rows[c.id] \in Seq(RowNodeRow) /\ RowMeet(rows[c.id], clock)
      BY <1>3 DEF RowTypeOK, RowTables, RowRowsOK
    <2> QED BY <2>1, <1>2, <1>3 DEF Rows!Newer
  <1>4. CASE c.id \in Rows!Pairs /\ c.id \notin RowNodes
    <2>1. links[c.id] \in Seq(RowLinkRow) /\ RowMeet(links[c.id], clock)
      BY <1>4 DEF RowTypeOK, RowTables, RowLinksOK
    <2> QED BY <2>1, <1>2, <1>4 DEF Rows!Newer
  <1> QED BY <1>1, <1>3, <1>4

\* The tables do not change when only time passes.
LEMMA RowTablesLater ==
    ASSUME RowTypeOK, RowTables, UNCHANGED <<rows, links, overtaken>>, clock' \in Nat,
          clock <= clock'
    PROVE  RowTables'
  <1>1. RowRowsOK'
    <2> SUFFICES ASSUME NEW m \in RowNodes
                 PROVE  RowMeet(rows[m], clock') /\ (m \notin overtaken => RowInOrder(rows[m]))
      BY DEF RowRowsOK, RowMeet, RowInOrder
    <2>1. rows[m] \in Seq(RowNodeRow) /\ clock \in Nat
      BY DEF RowTypeOK
    <2>2. RowMeet(rows[m], clock) /\ (m \notin overtaken => RowInOrder(rows[m]))
      BY DEF RowTables, RowRowsOK
    <2> QED BY <2>1, <2>2, RowMeetsLater
  <1>2. RowLinksOK'
    <2> SUFFICES ASSUME NEW p \in Rows!Pairs
                 PROVE  RowMeet(links[p], clock') /\ (p \notin overtaken => RowInOrder(links[p]))
      BY DEF RowLinksOK, RowMeet, RowInOrder
    <2>1. links[p] \in Seq(RowLinkRow) /\ clock \in Nat
      BY DEF RowTypeOK
    <2>2. RowMeet(links[p], clock) /\ (p \notin overtaken => RowInOrder(links[p]))
      BY DEF RowTables, RowLinksOK
    <2> QED BY <2>1, <2>2, RowMeetsLater
  <1>3. RowOneScope' /\ Rows!ValidityNotReopened' /\ Rows!EdgesStayInScope'
    BY DEF RowTables, RowOneScope, Rows!ValidityNotReopened, Rows!EdgesStayInScope
  <1> QED BY <1>1, <1>2, <1>3 DEF RowTables

-----------------------------------------------------------------------------
LEMMA RowInitInv == Rows!Init => RowIInv
  <1> SUFFICES ASSUME Rows!Init PROVE RowIInv
    OBVIOUS
  <1>1. \A n \in RowNodes : rows[n] = << >> /\ DOMAIN rows[n] = {} /\ Len(rows[n]) = 0
    BY DEF Rows!Init
  <1>2. \A p \in Rows!Pairs : links[p] = << >> /\ DOMAIN links[p] = {}
    BY DEF Rows!Init
  <1>3. RowTypeOK /\ RowHeldOK
    BY DEF Rows!Init, RowTypeOK, RowHeldOK
  <1>4. RowRowsOK /\ RowLinksOK /\ RowOneScope
    BY <1>1, <1>2 DEF RowRowsOK, RowLinksOK, RowOneScope, RowMeet, RowInOrder
  <1>5. Rows!ValidityNotReopened /\ Rows!EdgesStayInScope
    BY <1>1, <1>2 DEF Rows!ValidityNotReopened, Rows!EdgesStayInScope
  <1> QED BY <1>3, <1>4, <1>5 DEF RowIInv, RowTables

LEMMA RowNextInv ==
    ASSUME Rows!CallsOK, Rows!NamesOK PROVE RowIInv /\ [Rows!Next]_(Rows!vars) => RowIInv'
  <1> SUFFICES ASSUME RowIInv, [Rows!Next]_(Rows!vars) PROVE RowIInv'
    OBVIOUS
  <1>0. RowTypeOK /\ RowHeldOK /\ RowTables
    BY DEF RowIInv
  <1>1. ASSUME NEW w \in Direct, NEW c \in RowCalls, Rows!Sample(w, c) PROVE RowIInv'
    <2>1. RowTypeOK' /\ clock' = clock + 1 /\ clock <= clock'
      BY <1>0, <1>1 DEF Rows!Sample, RowTypeOK
    <2>2. RowHeldOK'
      BY <1>0, <1>1, <2>1 DEF Rows!Sample, RowTypeOK, RowHeldOK
    <2>3. RowTables'
      BY <1>0, <1>1, <2>1, RowTablesLater DEF Rows!Sample, RowTypeOK
    <2> QED BY <2>1, <2>2, <2>3 DEF RowIInv
  <1>2. ASSUME NEW w \in Direct, Rows!DirectWrite(w) PROVE RowIInv'
    <2>1. PICK c \in RowCalls, now \in Nat : c = held[w].call /\ now = held[w].now /\ now <= clock
      BY <1>0, <1>2 DEF Rows!DirectWrite, RowHeldOK
    <2>2. /\ Rows!Write(c, now) /\ clock' = clock /\ held' = [held EXCEPT ![w] = None]
          /\ overtaken' = IF Rows!Newer(c.id, now) THEN overtaken \cup {c.id} ELSE overtaken
      BY <1>2, <2>1 DEF Rows!DirectWrite
    <2>3. clock' \in Nat /\ clock <= clock' /\ now <= clock' /\ overtaken \subseteq overtaken'
          /\ (Rows!Newer(c.id, now) => c.id \in overtaken')
      BY <1>0, <2>1, <2>2 DEF RowTypeOK
    <2>4. rows' \in [RowNodes -> Seq(RowNodeRow)] /\ links' \in [Rows!Pairs -> Seq(RowLinkRow)] /\ RowTables'
      BY <1>0, <2>2, <2>3, RowWriteKeeps
    <2>5. RowTypeOK' /\ RowHeldOK'
      BY <1>0, <2>2, <2>3, <2>4 DEF RowTypeOK, RowHeldOK
    <2> QED BY <2>4, <2>5 DEF RowIInv
  <1>3. ASSUME NEW w \in Direct, Rows!Abandon(w) PROVE RowIInv'
    <2>1. RowTypeOK' /\ RowHeldOK'
      BY <1>0, <1>3 DEF Rows!Abandon, RowTypeOK, RowHeldOK
    <2>2. RowTables'
      BY <1>0, <1>3, RowTablesLater DEF Rows!Abandon, RowTypeOK
    <2> QED BY <2>1, <2>2 DEF RowIInv
  <1>4. ASSUME NEW c \in RowCalls, Rows!InsideWrite(c) PROVE RowIInv'
    <2>1. clock \in Nat /\ clock' = clock + 1 /\ clock + 1 \in Nat /\ Rows!Write(c, clock + 1)
          /\ UNCHANGED <<held, overtaken>>
      BY <1>0, <1>4 DEF Rows!InsideWrite, RowTypeOK
    <2>2. ~ Rows!Newer(c.id, clock + 1)
      BY <1>0, RowNothingIsNewer
    <2>3. clock' \in Nat /\ clock <= clock' /\ clock + 1 <= clock' /\ overtaken \subseteq overtaken'
      BY <2>1
    <2>4. rows' \in [RowNodes -> Seq(RowNodeRow)] /\ links' \in [Rows!Pairs -> Seq(RowLinkRow)] /\ RowTables'
      BY <1>0, <2>1, <2>2, <2>3, RowWriteKeeps
    <2>5. RowTypeOK' /\ RowHeldOK'
      BY <1>0, <2>1, <2>3, <2>4 DEF RowTypeOK, RowHeldOK
    <2> QED BY <2>4, <2>5 DEF RowIInv
  <1>5. CASE UNCHANGED Rows!vars
    <2>1. RowTypeOK' /\ RowHeldOK'
      BY <1>0, <1>5 DEF Rows!vars, RowTypeOK, RowHeldOK
    <2>2. RowTables'
      BY <1>0, <1>5, RowTablesLater DEF Rows!vars, RowTypeOK
    <2> QED BY <2>1, <2>2 DEF RowIInv
  <1> QED BY <1>1, <1>2, <1>3, <1>4, <1>5 DEF Rows!Next

\* put_node, put_edge and end_edge leave of every id one history: exactly the
\* newest version is current, a read as of a transaction time finds one version
\* where no direct call was overtaken, ended validity is not silently reopened,
\* and no edge leaves its tenant and project.
THEOREM VersionsAreExact == Rows!Spec => []VersionsExact
  <1> USE RowCallsOK
  <1>1. RowIInv => Rows!VersionsExact
    <2> SUFFICES ASSUME RowIInv PROVE Rows!VersionsExact
      OBVIOUS
    <2>1. RowTypeOK /\ RowTables
      BY DEF RowIInv
    <2>2. ASSUME NEW S \in {RowNodeRow, RowLinkRow}, NEW h \in Seq(S), RowMeet(h, clock)
          PROVE  \A i \in DOMAIN h : (h[i].txTo = None) <=> (i = Len(h))
      <3>1. PICK L \in Nat : L = Len(h) /\ DOMAIN h = 1..L
        BY LenProperties
      <3> SUFFICES ASSUME NEW i \in 1..L, i # L PROVE h[i].txTo # None
        BY <3>1, <2>2 DEF RowMeet
      <3>2. i + 1 \in 1..L
        OBVIOUS
      <3>3. h[i + 1] \in RowNodeRow \cup RowLinkRow
        BY <3>1, <3>2, ElementOfSeq
      <3>4. h[i + 1].txFrom \in Int
        BY <3>3 DEF RowNodeRow, RowLinkRow
      <3> QED BY <3>1, <3>4, <2>2 DEF RowMeet, Rows!NamesOK
    <2>3. Rows!OneCurrentVersion
      <3>1. \A n \in RowNodes : \A i \in DOMAIN rows[n] :
                (rows[n][i].txTo = None) <=> (i = Len(rows[n]))
        BY <2>1, <2>2 DEF RowTypeOK, RowTables, RowRowsOK
      <3>2. \A p \in Rows!Pairs : \A i \in DOMAIN links[p] :
                (links[p][i].txTo = None) <=> (i = Len(links[p]))
        BY <2>1, <2>2 DEF RowTypeOK, RowTables, RowLinksOK
      <3> QED BY <3>1, <3>2 DEF Rows!OneCurrentVersion, Rows!Histories
    <2>4. Rows!AsOfExact
      <3>1. (\A r \in RowNodeRow : r.txFrom \in Nat) /\ (\A r \in RowLinkRow : r.txFrom \in Nat)
        BY DEF RowNodeRow, RowLinkRow
      <3>2. \A n \in RowNodes \ overtaken : rows[n] # << >> => Rows!BeliefIsUnique(rows[n])
        BY <2>1, <3>1, RowVersionsPartitionTime DEF RowTypeOK, RowTables, RowRowsOK, Rows!NamesOK
      <3>3. \A p \in Rows!Pairs \ overtaken : links[p] # << >> => Rows!BeliefIsUnique(links[p])
        BY <2>1, <3>1, RowVersionsPartitionTime DEF RowTypeOK, RowTables, RowLinksOK, Rows!NamesOK
      <3> QED BY <3>2, <3>3 DEF Rows!AsOfExact
    <2> QED BY <2>1, <2>3, <2>4 DEF Rows!VersionsExact, RowTables
  <1>2. RowIInv /\ [Rows!Next]_(Rows!vars) => RowIInv'
    BY RowNextInv
  <1>3. RowIInv => VersionsExact
    BY <1>1 DEF VersionsExact
  <1> QED BY <1>2, <1>3, RowInitInv, PTL DEF Rows!Spec

-----------------------------------------------------------------------------
(* The strength of a walk, edge by edge.                                   *)

RadiusWhole == Unit ^ MaxDepth

\* The weights of the pairs.
RadiusWeightOK(wt) == wt \in [RadiusPairs -> Weights \cup {0}]

\* n depends on m.
RadiusEdgeOf(wt, n, m) == n \in RadiusNodes /\ <<n, m>> \in RadiusPairs /\ wt[<<n, m>>] # 0

\* A strength carried over one edge.
RadiusOver(wt, s, n, m) == (s * wt[<<n, m>>]) \div Unit

\* f lists the strengths along the first k nodes of w.
RadiusRun(wt, w, k, f) ==
    f = [i \in 1..k |-> IF i = 1 THEN RadiusWhole
                        ELSE (f[i - 1] * wt[<<w[i], w[i - 1]>>]) \div Unit]

\* The strength of a walk.
RadiusStr(wt, w) == (CHOOSE f : RadiusRun(wt, w, Len(w), f))[Len(w)]

\* A walk against the edges from Root, of any length.
RadiusGood(wt, w) ==
    /\ w \in Seq(RadiusNodes) /\ w # << >> /\ w[1] = Root
    /\ \A i \in 2..Len(w) : RadiusEdgeOf(wt, w[i], w[i - 1])

\* The search counts its nodes as the rest of the graph does.
LEMMA RadiusCounts == \A S : Radius!Cardinality(S) = Cardinality(S)
  BY DEF Radius!Cardinality, Cardinality, Radius!IsFiniteSet, IsFiniteSet

\* The strength the properties speak of is that of the walk in the graph.
LEMMA RadiusStrengthIs ==
    ASSUME NEW w
    PROVE  Radius!Strength(w) = RadiusStr(weight, w) /\ Radius!Strength(w)' = RadiusStr(weight', w)
  <1>1. Radius!Strength(w) = RadiusStr(weight, w)
    BY DEF Radius!Strength, RadiusStr, RadiusRun, RadiusWhole
  <1>2. Radius!Strength(w)' = RadiusStr(weight', w)
    BY DEF Radius!Strength, RadiusStr, RadiusRun, RadiusWhole
  <1> QED BY <1>1, <1>2

\* A set of numbers has a least one.
LEMMA RadiusLeastOf ==
    ASSUME NEW T, T \subseteq Nat, T # {}
    PROVE  \E k \in T : \A y \in T : k <= y
  <1> DEFINE R == {ss \in Nat \X Nat : ss[1] < ss[2]}
  <1>1. IsWellFoundedOn(R, Nat)
    BY NatLessThanWellFounded, Zenon DEF OpToRel
  <1>2. \A x, y \in Nat : y < x => <<y, x>> \in R
    OBVIOUS
  <1> HIDE DEF R
  <1>3. PICK k \in T : \A y \in T : ~ (<<y, k>> \in R)
    BY <1>1, WFMin
  <1>4. \A y \in T : k <= y
    <2> TAKE y \in T
    <2>1. k \in Nat /\ y \in Nat
      OBVIOUS
    <2>2. ~(y < k)
      BY <1>2, <1>3, <2>1, Zenon
    <2> QED BY <2>1, <2>2
  <1> QED BY <1>4

\* The strengths of a walk exist, and those of its start are its own.
LEMMA RadiusRunExists ==
    ASSUME NEW wt, NEW w, NEW k \in Nat
    PROVE  \E f : RadiusRun(wt, w, k, f)
  <1> DEFINE T == {j \in Nat : ~ \E f : RadiusRun(wt, w, j, f)}
  <1> SUFFICES ASSUME k \in T PROVE FALSE
    OBVIOUS
  <1>1. PICK j \in T : \A y \in T : j <= y
    <2> HIDE DEF T
    <2>1. T \subseteq Nat
      BY DEF T
    <2> QED BY <2>1, RadiusLeastOf
  <1>2. j # 0
    <2> SUFFICES RadiusRun(wt, w, 0, << >>)
      BY <1>1
    <2>1. 1..0 = {}
      OBVIOUS
    <2> QED BY <2>1 DEF RadiusRun
  <1>3. j - 1 \in Nat /\ j - 1 \notin T
    BY <1>1, <1>2
  <1>4. PICK f : RadiusRun(wt, w, j - 1, f)
    BY <1>3
  <1> DEFINE step(x, i) == IF i = 1 THEN RadiusWhole ELSE (x * wt[<<w[i], w[i - 1]>>]) \div Unit
             g == [i \in 1..j |-> IF i = j THEN step(f[j - 1], j) ELSE f[i]]
  <1>5. \A i \in 1..j : g[i] = step(g[i - 1], i)
    <2> TAKE i \in 1..j
    <2>1. CASE i = 1 /\ j = 1
      BY <2>1
    <2>2. CASE i = 1 /\ j # 1
      <3>1. 1 \in 1..(j - 1)
        BY <2>2, <1>1
      <3> QED BY <2>2, <3>1, <1>4 DEF RadiusRun
    <2>3. CASE i # 1
      <3>1. i - 1 \in 1..(j - 1) /\ i - 1 \in 1..j /\ i - 1 # j
        BY <2>3, <1>1
      <3>2. g[i - 1] = f[i - 1]
        BY <3>1
      <3>3. CASE i = j
        BY <3>2, <3>3
      <3>4. CASE i # j
        <4>1. i \in 1..(j - 1)
          BY <3>4, <1>1
        <4>2. f[i] = step(f[i - 1], i)
          BY <4>1, <1>4 DEF RadiusRun
        <4>3. g[i] = f[i]
          BY <3>4
        <4> QED BY <3>2, <4>2, <4>3
      <3> QED BY <3>3, <3>4
    <2> QED BY <2>1, <2>2, <2>3
  <1>6. g = [i \in 1..j |-> step(g[i - 1], i)]
    <2>1. g = [i \in 1..j |-> g[i]]
      OBVIOUS
    <2> HIDE DEF g
    <2> QED BY <2>1, <1>5
  <1>7. RadiusRun(wt, w, j, g)
    <2> HIDE DEF g
    <2> QED BY <1>6 DEF RadiusRun
  <1> QED BY <1>1, <1>7

\* Walks that begin alike are equally strong that far.
LEMMA RadiusRunAgrees ==
    ASSUME NEW wt, NEW v, NEW w, NEW j \in Nat, NEW k \in Nat, j <= k,
           \A i \in 1..j : v[i] = w[i], NEW f, NEW g, RadiusRun(wt, v, j, f), RadiusRun(wt, w, k, g)
    PROVE  \A i \in 1..j : f[i] = g[i]
  <1> DEFINE T == {i \in 1..j : f[i] # g[i]}
  <1> SUFFICES ASSUME T # {} PROVE FALSE
    OBVIOUS
  <1>1. PICK i \in T : \A y \in T : i <= y
    <2>1. T \subseteq Nat
      OBVIOUS
    <2> HIDE DEF T
    <2> QED BY <2>1, RadiusLeastOf
  <1>2. i \in 1..j /\ i \in 1..k
    BY <1>1
  <1>3. f[i] = IF i = 1 THEN RadiusWhole ELSE (f[i - 1] * wt[<<v[i], v[i - 1]>>]) \div Unit
    BY <1>2 DEF RadiusRun
  <1>4. g[i] = IF i = 1 THEN RadiusWhole ELSE (g[i - 1] * wt[<<w[i], w[i - 1]>>]) \div Unit
    BY <1>2 DEF RadiusRun
  <1>5. i # 1
    BY <1>1, <1>3, <1>4
  <1>6. i - 1 \in 1..j /\ i - 1 \notin T
    BY <1>1, <1>2, <1>5
  <1>7. f[i - 1] = g[i - 1] /\ v[i] = w[i] /\ v[i - 1] = w[i - 1]
    BY <1>2, <1>6
  <1> QED BY <1>1, <1>3, <1>4, <1>5, <1>7

\* The last strength along a walk is its strength.
LEMMA RadiusStrIs ==
    ASSUME NEW wt, NEW w, Len(w) \in Nat \ {0}
    PROVE  \E f : RadiusRun(wt, w, Len(w), f) /\ RadiusStr(wt, w) = f[Len(w)]
  <1>1. \E f : RadiusRun(wt, w, Len(w), f)
    BY RadiusRunExists
  <1> DEFINE f == CHOOSE f : RadiusRun(wt, w, Len(w), f)
  <1>2. RadiusRun(wt, w, Len(w), f)
    BY <1>1
  <1>3. RadiusStr(wt, w) = f[Len(w)]
    BY DEF RadiusStr
  <1> QED BY <1>2, <1>3

\* The start has the whole strength.
LEMMA RadiusStrOne ==
    ASSUME NEW wt
    PROVE  RadiusStr(wt, <<Root>>) = RadiusWhole
  <1> DEFINE w == <<Root>>
  <1>1. Len(w) = 1
    OBVIOUS
  <1> HIDE DEF w
  <1>2. PICK f : RadiusRun(wt, w, 1, f) /\ RadiusStr(wt, w) = f[1]
    <2>1. 1 \in Nat \ {0}
      OBVIOUS
    <2> QED BY <1>1, <2>1, RadiusStrIs
  <1>3. RadiusStr(wt, w) = RadiusWhole
    BY <1>2 DEF RadiusRun
  <1> QED BY <1>3 DEF w

\* One more node on a walk carries its strength over one more edge.
LEMMA RadiusStrAppend ==
    ASSUME NEW wt, NEW w \in Seq(RadiusNodes), w # << >>, NEW n \in RadiusNodes
    PROVE  RadiusStr(wt, Append(w, n)) = RadiusOver(wt, RadiusStr(wt, w), n, Radius!Last(w))
  <1> DEFINE v == Append(w, n)  L == Len(w)
  <1>1. /\ L \in Nat \ {0} /\ Len(v) = L + 1 /\ v[L + 1] = n
        /\ \A i \in 1..L : w[i] = v[i]
    BY AppendProperties, LenProperties, EmptySeq
  <1> HIDE DEF v, L
  <1>2. Len(v) \in Nat \ {0} /\ L + 1 \in 1..(L + 1) /\ L + 1 # 1 /\ (L + 1) - 1 = L /\ L \in 1..L
    BY <1>1
  <1>3. PICK f : RadiusRun(wt, w, L, f) /\ RadiusStr(wt, w) = f[L]
    BY <1>1, RadiusStrIs DEF L
  <1>4. PICK g : RadiusRun(wt, v, L + 1, g) /\ RadiusStr(wt, v) = g[L + 1]
    BY <1>1, <1>2, RadiusStrIs
  <1>5. f[L] = g[L]
    <2>1. L \in Nat /\ L + 1 \in Nat /\ L <= L + 1
      BY <1>1
    <2>2. \A i \in 1..L : f[i] = g[i]
      BY <2>1, <1>1, <1>3, <1>4, RadiusRunAgrees
    <2> QED BY <1>2, <2>2
  <1>6. g[L + 1] = (g[L] * wt[<<v[L + 1], v[L]>>]) \div Unit
    BY <1>2, <1>4 DEF RadiusRun
  <1> QED BY <1>1, <1>2, <1>3, <1>4, <1>5, <1>6 DEF RadiusOver, Radius!Last, v, L

\* Over an edge a strength stays a number, does not grow, and keeps its order.
LEMMA RadiusOverIs ==
    ASSUME NEW wt, RadiusWeightOK(wt), NEW n, NEW m, RadiusEdgeOf(wt, n, m), NEW s \in Nat
    PROVE  /\ RadiusOver(wt, s, n, m) \in Nat /\ RadiusOver(wt, s, n, m) <= s
           /\ \A t \in Nat : t <= s => RadiusOver(wt, t, n, m) <= RadiusOver(wt, s, n, m)
  <1> DEFINE e == wt[<<n, m>>]
  <1>1. e \in 1..Unit /\ Unit \in Nat \ {0}
    BY RadiusOK DEF RadiusWeightOK, RadiusEdgeOf
  <1> HIDE DEF e
  <1>2. \A a, b \in Nat : a <= b => (a * e) \div Unit <= (b * e) \div Unit
    <2> TAKE a, b \in Nat
    <2> HAVE a <= b
    <2>1. e \in Nat
      BY <1>1
    <2>2. a * e \in Nat /\ b * e \in Nat /\ a * e <= b * e
      BY <2>1
    <2> DEFINE x == a * e  y == b * e
    <2> HIDE DEF x, y
    <2>3. x \in Nat /\ y \in Nat /\ x <= y
      BY <2>2 DEF x, y
    <2>4. x \div Unit <= y \div Unit
      BY <1>1, <2>3
    <2> QED BY <2>4 DEF x, y
  <1>3. (s * e) \div Unit \in Nat /\ (s * e) \div Unit <= s
    <2>1. s * e \in Nat /\ s * e <= s * Unit /\ s * Unit \in Nat
      BY <1>1
    <2> DEFINE x == s * e  y == s * Unit
    <2>2. y \div Unit = s
      BY <1>1
    <2> HIDE DEF x, y
    <2>3. x \in Nat /\ y \in Nat /\ x <= y
      BY <2>1 DEF x, y
    <2>4. x \div Unit <= y \div Unit /\ x \div Unit \in Nat
      BY <1>1, <2>3
    <2> QED BY <2>2, <2>4 DEF x, y
  <1> QED BY <1>2, <1>3 DEF RadiusOver, e

\* A walk goes on over any edge into its last node.
LEMMA RadiusGoodAppend ==
    ASSUME NEW wt, NEW w, RadiusGood(wt, w), NEW n, RadiusEdgeOf(wt, n, Radius!Last(w))
    PROVE  /\ RadiusGood(wt, Append(w, n))
           /\ Len(w) \in Nat \ {0} /\ Len(Append(w, n)) = Len(w) + 1
           /\ Radius!Last(Append(w, n)) = n
           /\ \A i \in 1..Len(w) : Append(w, n)[i] = w[i]
  <1> DEFINE v == Append(w, n)  L == Len(w)
  <1>1. w \in Seq(RadiusNodes) /\ n \in RadiusNodes
    BY DEF RadiusGood, RadiusEdgeOf
  <1>2. /\ L \in Nat \ {0} /\ Len(v) = L + 1 /\ v[L + 1] = n /\ v \in Seq(RadiusNodes) /\ v # << >>
        /\ \A i \in 1..L : v[i] = w[i]
    BY <1>1, AppendProperties, LenProperties, EmptySeq DEF RadiusGood
  <1> HIDE DEF v, L
  <1>3. v[1] = Root
    BY <1>2 DEF RadiusGood
  <1>4. ASSUME NEW i \in 2..Len(v) PROVE RadiusEdgeOf(wt, v[i], v[i - 1])
    <2>1. i - 1 \in 1..L
      BY <1>2
    <2>2. CASE i = L + 1
      <3>1. v[i - 1] = Radius!Last(w)
        BY <1>2, <2>1, <2>2 DEF Radius!Last, L
      <3> QED BY <3>1, <1>2, <2>2
    <2>3. CASE i # L + 1
      <3>1. i \in 1..L /\ i \in 2..L
        BY <1>2, <2>3
      <3> QED BY <3>1, <2>1, <1>2 DEF RadiusGood, L
    <2> QED BY <2>2, <2>3
  <1> QED BY <1>2, <1>3, <1>4 DEF RadiusGood, v, L, Radius!Last

\* A walk of several nodes goes on from a shorter walk.
LEMMA RadiusGoodFront ==
    ASSUME NEW wt, NEW w, RadiusGood(wt, w), Len(w) > 1
    PROVE  \E v, n : /\ w = Append(v, n) /\ RadiusGood(wt, v) /\ RadiusEdgeOf(wt, n, Radius!Last(v))
                     /\ Len(v) = Len(w) - 1 /\ Radius!Last(w) = n
  <1> DEFINE L == Len(w)  v == [i \in 1..(L - 1) |-> w[i]]  n == w[L]
  <1>1. w \in Seq(RadiusNodes) /\ L \in Nat /\ L > 1 /\ \A i \in 1..L : w[i] \in RadiusNodes
    BY ElementOfSeq, LenProperties DEF RadiusGood
  <1>2. v \in Seq(RadiusNodes) /\ Len(v) = L - 1 /\ \A i \in 1..(L - 1) : v[i] = w[i]
    <2>1. L - 1 \in Nat /\ v \in [1..(L - 1) -> RadiusNodes]
      BY <1>1
    <2> HIDE DEF v
    <2>2. v \in Seq(RadiusNodes) /\ DOMAIN v = 1..(L - 1)
      BY <2>1, SeqDef
    <2>3. Len(v) = L - 1
      BY <2>1, <2>2, LenProperties
    <2> QED BY <2>2, <2>3 DEF v
  <1>3. w = Append(v, n)
    <2> HIDE DEF v, L
    <2>1. n \in RadiusNodes
      BY <1>1
    <2>2. /\ Append(v, n) \in Seq(RadiusNodes) /\ Len(Append(v, n)) = L
          /\ Append(v, n)[L] = n /\ \A i \in 1..(L - 1) : Append(v, n)[i] = w[i]
      BY <2>1, <1>1, <1>2, AppendProperties
    <2>3. \A i \in 1..L : Append(v, n)[i] = w[i]
      <3> TAKE i \in 1..L
      <3>1. i = L \/ i \in 1..(L - 1)
        BY <1>1
      <3> QED BY <3>1, <2>2
    <2> QED BY <2>2, <2>3, <1>1, SeqEqual DEF L
  <1>4. RadiusGood(wt, v)
    <2> HIDE DEF v
    <2>1. 1 \in 1..(L - 1) /\ v # << >>
      BY <1>1, <1>2
    <2>2. \A i \in 2..(L - 1) : i \in 2..L /\ i \in 1..(L - 1) /\ i - 1 \in 1..(L - 1)
      BY <1>1
    <2> QED BY <1>1, <1>2, <2>1, <2>2 DEF RadiusGood
  <1>5. RadiusEdgeOf(wt, n, Radius!Last(v))
    <2>1. L \in 2..L /\ L - 1 \in 1..(L - 1)
      BY <1>1
    <2>2. Radius!Last(v) = w[L - 1]
      BY <1>2, <2>1 DEF Radius!Last
    <2> QED BY <2>1, <2>2 DEF RadiusGood
  <1> HIDE DEF v
  <1> QED BY <1>2, <1>3, <1>4, <1>5 DEF Radius!Last

\* What holds of the shortest walk, and passes over each edge, holds of all.
LEMMA RadiusStrNat ==
    ASSUME NEW wt, RadiusWeightOK(wt), NEW w, RadiusGood(wt, w)
    PROVE  RadiusStr(wt, w) \in Nat
  <1> DEFINE T == {k \in Nat :
                    \E v : RadiusGood(wt, v) /\ Len(v) = k /\ RadiusStr(wt, v) \notin Nat}
  <1> SUFFICES ASSUME RadiusStr(wt, w) \notin Nat PROVE FALSE
    OBVIOUS
  <1>1. Len(w) \in T
    BY LenProperties DEF RadiusGood
  <1>2. PICK k \in T : \A y \in T : k <= y
    <2>1. T \subseteq Nat
      OBVIOUS
    <2> HIDE DEF T
    <2> QED BY <2>1, <1>1, RadiusLeastOf
  <1>3. PICK v : RadiusGood(wt, v) /\ Len(v) = k /\ RadiusStr(wt, v) \notin Nat
    BY <1>2
  <1>4. k \in Nat \ {0}
    BY <1>3, LenProperties, EmptySeq DEF RadiusGood
  <1>5. CASE k = 1
    <2>1. v = <<Root>>
      <3>1. v \in Seq(RadiusNodes) /\ v[1] = Root /\ Len(v) = 1
        BY <1>3, <1>5 DEF RadiusGood
      <3> QED BY <3>1
    <2>2. RadiusStr(wt, v) = RadiusWhole
      BY <2>1, RadiusStrOne
    <2> QED BY <1>3, <2>2, RadiusOK DEF RadiusWhole
  <1>6. CASE k # 1
    <2>1. PICK u, n : /\ v = Append(u, n) /\ RadiusGood(wt, u)
                      /\ RadiusEdgeOf(wt, n, Radius!Last(u))
                      /\ Len(u) = k - 1
      <3>1. Len(v) > 1
        BY <1>3, <1>4, <1>6
      <3> QED BY <3>1, <1>3, RadiusGoodFront
    <2>2. RadiusStr(wt, u) \in Nat
      <3>1. k - 1 \in Nat /\ k - 1 \notin T
        BY <1>2, <1>4
      <3> QED BY <3>1, <2>1
    <2>3. RadiusStr(wt, v) = RadiusOver(wt, RadiusStr(wt, u), n, Radius!Last(u))
      <3>1. u \in Seq(RadiusNodes) /\ u # << >> /\ n \in RadiusNodes
        BY <2>1 DEF RadiusGood, RadiusEdgeOf
      <3> QED BY <2>1, <3>1, RadiusStrAppend
    <2> QED BY <1>3, <2>1, <2>2, <2>3, RadiusOverIs
  <1> QED BY <1>5, <1>6

-----------------------------------------------------------------------------
(* The invariant of the search.                                            *)

\* A queued path is a simple walk of its strength, and each node on it is
\* known to be reached at least as strongly.
RadiusItemOK(wt, ar, sn, it) ==
    /\ it \in Radius!Item /\ RadiusGood(wt, it.path) /\ it.strength = RadiusStr(wt, it.path)
    /\ Len(it.path) <= ar.depth + 1
    /\ \A i, j \in 1..Len(it.path) : it.path[i] = it.path[j] => i = j
    /\ \A i \in 1..Len(it.path) :
          it.path[i] \in DOMAIN sn /\ it.strength <= sn[it.path[i]]

\* What is known of the nodes only gets stronger.
RadiusGrows(sn, tn) ==
    /\ DOMAIN sn \subseteq DOMAIN tn
    /\ \A n \in DOMAIN sn : sn[n] \in Nat /\ tn[n] \in Nat /\ sn[n] <= tn[n]

\* Every edge into x carries strength s no further than is known, or is still
\* to be looked at.
RadiusOpened(wt, least, sn, td, cur, x, s) ==
    \A m \in RadiusNodes :
        RadiusEdgeOf(wt, m, x) /\ least <= RadiusOver(wt, s, m, x) =>
            \/ m \in DOMAIN sn /\ RadiusOver(wt, s, m, x) <= sn[m]
            \/ m \in td /\ x = Radius!Last(cur.path) /\ s <= cur.strength

\* The strongest path known to a node.
RadiusKnown(bs, n) == IF n = Root THEN Radius!Start ELSE bs[n]

\* Queued and reported paths are such paths, and the reported are the strongest known.
RadiusItems ==
    /\ RadiusItemOK(weight, args, seen, current)
    /\ \A i \in 1..Len(frontier) : RadiusItemOK(weight, args, seen, frontier[i])
    /\ \A n \in Radius!Found :
          /\ RadiusItemOK(weight, args, seen, best[n]) /\ Radius!Last(best[n].path) = n
          /\ best[n].strength = seen[n] /\ args.min <= seen[n]
    /\ seen[Root] = RadiusWhole

\* Breadth first: the queue is in order of depth, at most one beyond the current one.
RadiusQueue ==
    /\ \A i \in 1..Len(frontier) :
          Radius!Depth(frontier[i]) \in {Radius!Depth(current), Radius!Depth(current) + 1}
    /\ \A i, j \in 1..Len(frontier) : i <= j =>
          Radius!Depth(frontier[i]) <= Radius!Depth(frontier[j])
    /\ \A n \in Radius!Found : Radius!Depth(best[n]) <= Radius!Depth(current) + 1

\* What is still to look at are edges into the end of the current path.
RadiusEdges ==
    /\ \A m \in todo : RadiusEdgeOf(weight, m, Radius!Last(current.path))
    /\ todo # {} => Radius!Depth(current) < args.depth

\* The budget and the nodes found.
RadiusCount ==
    IF search = "budget_exceeded" THEN Cardinality(Radius!Found) > args.nodes
    ELSE Cardinality(Radius!Found) <= args.nodes

\* The strongest path to a node is queued, or it was expanded.
RadiusExpanded(fr, cur, td, sn, bs) ==
    \A n \in DOMAIN sn :
        \/ \E i \in 1..Len(fr) : fr[i] = RadiusKnown(bs, n)
        \/ /\ Radius!Depth(RadiusKnown(bs, n)) <= Radius!Depth(cur)
           /\ \/ args.depth <= Radius!Depth(RadiusKnown(bs, n))
              \/ RadiusOpened(weight, args.min, sn, td, cur, n, RadiusKnown(bs, n).strength)

\* No walk as short as the path being expanded reaches further than is known.
RadiusReached(cur, sn) ==
    \A w :
        RadiusGood(weight, w) /\ Len(w) - 1 <= Radius!Depth(cur)
            /\ args.min <= RadiusStr(weight, w) =>
        Radius!Last(w) \in DOMAIN sn /\ RadiusStr(weight, w) <= sn[Radius!Last(w)]

\* Each such walk is followed up, from a path as short and as strong.
RadiusFollowed(fr, cur, td, sn) ==
    \A w :
        RadiusGood(weight, w) /\ Len(w) - 1 <= Radius!Depth(cur) /\ Len(w) - 1 < args.depth
            /\ args.min <= RadiusStr(weight, w) =>
        \/ \E i \in 1..Len(fr) :
              /\ Radius!Last(fr[i].path) = Radius!Last(w) /\ RadiusStr(weight, w) <= fr[i].strength
              /\ Radius!Depth(fr[i]) <= Radius!Depth(cur) /\ Radius!Depth(fr[i]) < args.depth
        \/ RadiusOpened(weight, args.min, sn, td, cur, Radius!Last(w), RadiusStr(weight, w))

RadiusEnded == search = "done" => todo = {} /\ frontier = << >>

RadiusInv ==
    /\ Radius!TypeOK /\ RadiusItems /\ RadiusQueue /\ RadiusEdges /\ RadiusCount /\ RadiusEnded
    /\ search # "budget_exceeded" =>
          /\ RadiusExpanded(frontier, current, todo, seen, best)
          /\ RadiusReached(current, seen)
          /\ RadiusFollowed(frontier, current, todo, seen)

\* The nodes of a walk.
LEMMA RadiusGoodIs ==
    ASSUME NEW wt, NEW w, RadiusGood(wt, w)
    PROVE  /\ w \in Seq(RadiusNodes) /\ Len(w) \in Nat \ {0} /\ w[1] = Root
           /\ Radius!Last(w) \in RadiusNodes
           /\ \A i \in 1..Len(w) : w[i] \in RadiusNodes
           /\ Radius!Last(w) = w[Len(w)] /\ DOMAIN w = 1..Len(w)
  <1>1. w \in Seq(RadiusNodes) /\ Len(w) \in Nat \ {0} /\ DOMAIN w = 1..Len(w)
    BY LenProperties, EmptySeq DEF RadiusGood
  <1>2. \A i \in 1..Len(w) : w[i] \in RadiusNodes
    BY <1>1, ElementOfSeq
  <1> QED BY <1>1, <1>2 DEF RadiusGood, Radius!Last

\* The parts of a queued path and of a call.
LEMMA RadiusItemIs ==
    ASSUME NEW wt, NEW ar, ar \in RadiusCalls, NEW sn, NEW it, RadiusItemOK(wt, ar, sn, it)
    PROVE  /\ it.strength \in Nat /\ Radius!Depth(it) \in Nat /\ Radius!Depth(it) <= ar.depth
           /\ Len(it.path) \in Nat \ {0} /\ Radius!Depth(it) = Len(it.path) - 1
           /\ it.path \in Seq(RadiusNodes) /\ it.path[1] = Root
           /\ ar.depth \in Nat /\ ar.nodes \in Nat /\ ar.min \in Nat
           /\ it = [path |-> it.path, strength |-> it.strength]
  <1>1. ar.depth \in Nat /\ ar.nodes \in Nat /\ ar.min \in Nat
    BY RadiusOK
  <1>2. it.strength \in Nat /\ it = [path |-> it.path, strength |-> it.strength]
    BY DEF RadiusItemOK, Radius!Item
  <1>3. /\ Len(it.path) \in Nat \ {0} /\ it.path[1] = Root /\ it.path \in Seq(RadiusNodes)
        /\ Len(it.path) <= ar.depth + 1
    BY RadiusGoodIs DEF RadiusItemOK
  <1> QED BY <1>1, <1>2, <1>3 DEF Radius!Depth

\* A queued path stays one while what is known gets stronger.
LEMMA RadiusItemGrows ==
    ASSUME NEW wt, NEW ar, NEW sn, NEW tn, RadiusGrows(sn, tn), NEW it, RadiusItemOK(wt, ar, sn, it)
    PROVE  RadiusItemOK(wt, ar, tn, it)
  <1>1. it.strength \in Nat
    BY DEF RadiusItemOK, Radius!Item
  <1>2. ASSUME NEW i \in 1..Len(it.path)
        PROVE  it.path[i] \in DOMAIN tn /\ it.strength <= tn[it.path[i]]
    <2>1. it.path[i] \in DOMAIN sn /\ it.strength <= sn[it.path[i]]
      BY DEF RadiusItemOK
    <2>2. it.path[i] \in DOMAIN tn /\ sn[it.path[i]] \in Nat /\ tn[it.path[i]] \in Nat
          /\ sn[it.path[i]] <= tn[it.path[i]]
      BY <2>1 DEF RadiusGrows
    <2> QED BY <1>1, <2>1, <2>2
  <1> QED BY <1>2 DEF RadiusItemOK

\* it is carried over the edge from n, at strength s: tn is what is then known.
RadiusCarries(wt, ar, sn, it, n, s, tn, new) ==
    /\ RadiusWeightOK(wt) /\ ar \in RadiusCalls /\ sn \in [DOMAIN sn -> Nat]
    /\ RadiusItemOK(wt, ar, sn, it)
    /\ Radius!Depth(it) < ar.depth /\ RadiusEdgeOf(wt, n, Radius!Last(it.path))
    /\ s = RadiusOver(wt, it.strength, n, Radius!Last(it.path)) /\ (n \in DOMAIN sn => sn[n] < s)
    /\ DOMAIN tn = DOMAIN sn \cup {n} /\ tn[n] = s
    /\ \A m \in DOMAIN sn : m # n => tn[m] = sn[m]
    /\ new \in Radius!Item /\ new.path = Append(it.path, n) /\ new.strength = s

\* A path that improves on what is known of its end never visits it before.
LEMMA RadiusItemNew ==
    ASSUME NEW wt, NEW ar, NEW sn, NEW it, NEW n, NEW s, NEW tn, NEW new,
           RadiusCarries(wt, ar, sn, it, n, s, tn, new)
    PROVE  /\ RadiusGrows(sn, tn) /\ s \in Nat
           /\ RadiusItemOK(wt, ar, tn, new) /\ n # Root /\ n \in RadiusNodes
           /\ Radius!Depth(new) = Radius!Depth(it) + 1 /\ Radius!Last(new.path) = n
  <1>0. /\ RadiusWeightOK(wt) /\ ar \in RadiusCalls /\ sn \in [DOMAIN sn -> Nat]
        /\ RadiusItemOK(wt, ar, sn, it)
        /\ Radius!Depth(it) < ar.depth /\ RadiusEdgeOf(wt, n, Radius!Last(it.path))
        /\ s = RadiusOver(wt, it.strength, n, Radius!Last(it.path))
        /\ (n \in DOMAIN sn => sn[n] < s)
        /\ DOMAIN tn = DOMAIN sn \cup {n} /\ tn[n] = s
        /\ \A m \in DOMAIN sn : m # n => tn[m] = sn[m]
        /\ new \in Radius!Item /\ new.path = Append(it.path, n) /\ new.strength = s
    BY DEF RadiusCarries
  <1> DEFINE p == it.path  v == Append(p, n)  L == Len(p)
  <1>1. /\ it.strength \in Nat /\ Radius!Depth(it) \in Nat /\ L \in Nat \ {0}
        /\ p \in Seq(RadiusNodes)
        /\ Radius!Depth(it) = L - 1 /\ ar.depth \in Nat /\ p[1] = Root
    BY <1>0, RadiusItemIs
  <1>2. RadiusGood(wt, p) /\ p # << >> /\ n \in RadiusNodes
    BY <1>0 DEF RadiusItemOK, RadiusGood, RadiusEdgeOf
  <1>3. s \in Nat /\ s <= it.strength
    BY <1>0, <1>1, RadiusOverIs
  <1>4. /\ RadiusGood(wt, v) /\ Len(v) = L + 1 /\ Radius!Last(v) = n /\ v[L + 1] = n
        /\ \A i \in 1..L : v[i] = p[i]
    <2>1. /\ RadiusGood(wt, v) /\ Len(v) = L + 1 /\ Radius!Last(v) = n
          /\ \A i \in 1..L : v[i] = p[i]
      BY <1>0, <1>2, RadiusGoodAppend
    <2> QED BY <2>1 DEF Radius!Last
  <1>5. s = RadiusStr(wt, v)
    <2>1. it.strength = RadiusStr(wt, p)
      BY <1>0 DEF RadiusItemOK
    <2> QED BY <1>0, <1>1, <1>2, <2>1, RadiusStrAppend
  <1>6. RadiusGrows(sn, tn)
    BY <1>0, <1>3 DEF RadiusGrows
  <1>7. \A i \in 1..L : p[i] \in DOMAIN sn /\ it.strength <= sn[p[i]] /\ p[i] # n
    <2> TAKE i \in 1..L
    <2>1. p[i] \in DOMAIN sn /\ it.strength <= sn[p[i]]
      BY <1>0 DEF RadiusItemOK
    <2>2. sn[p[i]] \in Nat
      BY <1>0, <2>1
    <2> QED BY <1>0, <1>1, <1>3, <2>1, <2>2
  <1>8. n # Root
    BY <1>1, <1>7
  <1>9. RadiusItemOK(wt, ar, tn, new)
    <2> HIDE DEF v, p
    <2>1. new \in Radius!Item
      BY <1>0
    <2>2. new.path = v /\ new.strength = s
      BY <1>0 DEF v, p
    <2>3. ASSUME NEW i \in 1..(L + 1), NEW j \in 1..(L + 1), v[i] = v[j] PROVE i = j
      <3>1. \A k \in 1..(L + 1) : k = L + 1 \/ k \in 1..L
        BY <1>1
      <3>2. \A k, l \in 1..L : p[k] = p[l] => k = l
        BY <1>0 DEF RadiusItemOK, p
      <3> QED BY <1>4, <1>7, <2>3, <3>1, <3>2
    <2>4. ASSUME NEW i \in 1..(L + 1) PROVE v[i] \in DOMAIN tn /\ s <= tn[v[i]]
      <3>1. CASE i = L + 1
        BY <1>0, <1>3, <1>4, <3>1
      <3>2. CASE i # L + 1
        <4>1. i \in 1..L
          BY <1>1, <3>2
        <4>2. v[i] = p[i] /\ p[i] \in DOMAIN sn /\ it.strength <= sn[p[i]] /\ p[i] # n
          BY <4>1, <1>4, <1>7
        <4>3. tn[v[i]] = sn[p[i]] /\ sn[p[i]] \in Nat /\ v[i] \in DOMAIN tn
          BY <1>0, <4>2
        <4> QED BY <4>2, <4>3, <1>1, <1>3
      <3> QED BY <3>1, <3>2
    <2>5. L + 1 <= ar.depth + 1
      BY <1>0, <1>1
    <2> QED BY <2>1, <2>2, <2>3, <2>4, <2>5, <1>4, <1>5 DEF RadiusItemOK
  <1>10. Radius!Depth(new) = Radius!Depth(it) + 1
    BY <1>0, <1>1, <1>4 DEF Radius!Depth
  <1> QED BY <1>0, <1>2, <1>3, <1>4, <1>6, <1>8, <1>9, <1>10 DEF RadiusItemOK

\* Looking at one edge leaves every other one to look at, and this one done.
LEMMA RadiusOpenedStep ==
    ASSUME NEW wt, RadiusWeightOK(wt), NEW least \in Nat, NEW sn, NEW tn, RadiusGrows(sn, tn),
           NEW td, NEW cur, cur.strength \in Nat, NEW n, RadiusEdgeOf(wt, n, Radius!Last(cur.path)),
           LET t == RadiusOver(wt, cur.strength, n, Radius!Last(cur.path)) IN
           least <= t => n \in DOMAIN tn /\ tn[n] \in Nat /\ t <= tn[n],
           NEW x, NEW s \in Nat, RadiusOpened(wt, least, sn, td, cur, x, s)
    PROVE  RadiusOpened(wt, least, tn, td \ {n}, cur, x, s)
  <1> SUFFICES ASSUME NEW m \in RadiusNodes, RadiusEdgeOf(wt, m, x), least <= RadiusOver(wt, s, m,
        x),
                      m = n => ~(x = Radius!Last(cur.path) /\ s <= cur.strength)
               PROVE  \/ m \in DOMAIN tn /\ RadiusOver(wt, s, m, x) <= tn[m]
                      \/ m \in td \ {n} /\ x = Radius!Last(cur.path) /\ s <= cur.strength
    <2>1. ASSUME NEW m \in RadiusNodes, RadiusEdgeOf(wt, m, x), least <= RadiusOver(wt, s, m, x),
                 m = n, x = Radius!Last(cur.path), s <= cur.strength
          PROVE  m \in DOMAIN tn /\ RadiusOver(wt, s, m, x) <= tn[m]
      <3> DEFINE t == RadiusOver(wt, cur.strength, n, x)  o == RadiusOver(wt, s, n, x)
      <3>1. t \in Nat /\ o \in Nat /\ o <= t
        BY <2>1, RadiusOverIs
      <3>2. least <= t => n \in DOMAIN tn /\ tn[n] \in Nat /\ t <= tn[n]
        BY <2>1
      <3>3. least <= o
        BY <2>1
      <3> HIDE DEF t, o
      <3>4. n \in DOMAIN tn /\ o <= tn[n]
        BY <3>1, <3>2, <3>3
      <3> QED BY <3>4, <2>1 DEF o
    <2> QED BY <2>1 DEF RadiusOpened
  <1>1. \/ m \in DOMAIN sn /\ RadiusOver(wt, s, m, x) <= sn[m]
        \/ m \in td /\ x = Radius!Last(cur.path) /\ s <= cur.strength
    BY DEF RadiusOpened
  <1>2. CASE m \in DOMAIN sn /\ RadiusOver(wt, s, m, x) <= sn[m]
    <2>1. RadiusOver(wt, s, m, x) \in Nat
      BY RadiusOverIs
    <2>2. m \in DOMAIN tn /\ sn[m] \in Nat /\ tn[m] \in Nat /\ sn[m] <= tn[m]
      BY <1>2 DEF RadiusGrows
    <2> QED BY <1>2, <2>1, <2>2
  <1> QED BY <1>1, <1>2

\* A weaker strength is opened with a stronger one.
LEMMA RadiusOpenedWeaker ==
    ASSUME NEW wt, RadiusWeightOK(wt), NEW least \in Nat, NEW sn, sn \in [DOMAIN sn -> Nat],
           NEW td, NEW cur, cur.strength \in Nat, NEW x, NEW s \in Nat, NEW t \in Nat, t <= s,
           RadiusOpened(wt, least, sn, td, cur, x, s)
    PROVE  RadiusOpened(wt, least, sn, td, cur, x, t)
  <1> SUFFICES ASSUME NEW m \in RadiusNodes, RadiusEdgeOf(wt, m, x), least <= RadiusOver(wt, t, m,
        x)
               PROVE  \/ m \in DOMAIN sn /\ RadiusOver(wt, t, m, x) <= sn[m]
                      \/ m \in td /\ x = Radius!Last(cur.path) /\ t <= cur.strength
    BY DEF RadiusOpened
  <1> DEFINE a == RadiusOver(wt, t, m, x)  b == RadiusOver(wt, s, m, x)
  <1>1. a \in Nat /\ b \in Nat /\ a <= b
    BY RadiusOverIs
  <1>2. least <= a
    OBVIOUS
  <1>3. least <= b =>
          \/ m \in DOMAIN sn /\ b <= sn[m]
          \/ m \in td /\ x = Radius!Last(cur.path) /\ s <= cur.strength
    BY DEF RadiusOpened
  <1> HIDE DEF a, b
  <1>4. \/ m \in DOMAIN sn /\ a <= sn[m]
        \/ m \in td /\ x = Radius!Last(cur.path) /\ t <= cur.strength
    <2>1. least <= b
      BY <1>1, <1>2
    <2>2. CASE m \in DOMAIN sn /\ b <= sn[m]
      <3>1. sn[m] \in Nat
        BY <2>2
      <3> QED BY <2>2, <3>1, <1>1
    <2> QED BY <1>3, <2>1, <2>2
  <1> QED BY <1>4 DEF a

-----------------------------------------------------------------------------
(* Every step keeps the invariant.                                         *)

\* The path of Root alone.
LEMMA RadiusStartIs ==
    ASSUME NEW wt, NEW ar, ar \in RadiusCalls, NEW sn, Root \in DOMAIN sn, sn[Root] = RadiusWhole
    PROVE  /\ RadiusItemOK(wt, ar, sn, Radius!Start) /\ Radius!Depth(Radius!Start) = 0
           /\ Radius!Last(Radius!Start.path) = Root
           /\ Radius!Start.strength = RadiusWhole /\ RadiusWhole \in Nat
           /\ Radius!Start \in Radius!Item
  <1>1. ar.depth \in Nat /\ RadiusWhole \in Nat /\ Root \in RadiusNodes
    BY RadiusOK DEF RadiusWhole
  <1>2. Radius!Start = [path |-> <<Root>>, strength |-> RadiusWhole] /\ Len(<<Root>>) = 1
    BY DEF Radius!Start, RadiusWhole
  <1>3. RadiusGood(wt, <<Root>>)
    <2>1. 2..1 = {}
      OBVIOUS
    <2> QED BY <1>1, <2>1 DEF RadiusGood
  <1>4. RadiusStr(wt, <<Root>>) = RadiusWhole
    BY RadiusStrOne
  <1>5. Radius!Start \in Radius!Item
    BY <1>1, <1>2 DEF Radius!Item
  <1>6. \A i \in 1..1 : <<Root>>[i] \in DOMAIN sn /\ RadiusWhole <= sn[<<Root>>[i]]
    BY <1>1
  <1>7. \A i, j \in 1..1 : i = j
    OBVIOUS
  <1> QED BY <1>1, <1>2, <1>3, <1>4, <1>5, <1>6, <1>7 DEF RadiusItemOK, Radius!Depth, Radius!Last

\* What the invariant gives every step.
LEMMA RadiusInvIs ==
    ASSUME RadiusInv
    PROVE  /\ args \in RadiusCalls /\ RadiusWeightOK(weight)
           /\ args.depth \in Nat /\ args.nodes \in Nat /\ args.min \in Nat
           /\ seen \in [DOMAIN seen -> Nat] /\ DOMAIN seen = Radius!Found \cup {Root}
           /\ RadiusItemOK(weight, args, seen, current) /\ current.strength \in Nat
           /\ Radius!Depth(current) \in Nat /\ Radius!Depth(current) <= args.depth
           /\ Len(frontier) \in Nat /\ DOMAIN frontier = 1..Len(frontier)
           /\ \A i \in 1..Len(frontier) : frontier[i] \in Radius!Item
           /\ IsFiniteSet(Radius!Found) /\ Cardinality(Radius!Found) \in Nat
           /\ \A n \in DOMAIN seen :
                 /\ RadiusItemOK(weight, args, seen, RadiusKnown(best, n))
                 /\ RadiusKnown(best, n).strength = seen[n]
                 /\ Radius!Last(RadiusKnown(best, n).path) = n
                 /\ Radius!Depth(RadiusKnown(best, n)) \in Nat
                 /\ Radius!Depth(RadiusKnown(best, n)) <= Radius!Depth(current) + 1
  <1>1. args \in RadiusCalls /\ RadiusWeightOK(weight) /\ seen \in [Radius!Found \cup {Root} -> Nat]
    BY DEF RadiusInv, Radius!TypeOK, RadiusWeightOK
  <1>2. RadiusItemOK(weight, args, seen, current) /\ seen[Root] = RadiusWhole
    BY DEF RadiusInv, RadiusItems
  <1>3. /\ current.strength \in Nat /\ Radius!Depth(current) \in Nat
        /\ Radius!Depth(current) <= args.depth
        /\ args.depth \in Nat /\ args.nodes \in Nat /\ args.min \in Nat
    BY <1>1, <1>2, RadiusItemIs
  <1>4. /\ Len(frontier) \in Nat /\ DOMAIN frontier = 1..Len(frontier)
        /\ \A i \in 1..Len(frontier) : frontier[i] \in Radius!Item
    BY LenProperties, ElementOfSeq DEF RadiusInv, Radius!TypeOK
  <1>5. IsFiniteSet(Radius!Found) /\ Cardinality(Radius!Found) \in Nat
    BY RadiusOK, FS_Subset, FS_CardinalityType DEF RadiusInv, Radius!TypeOK
  <1>6. ASSUME NEW n \in Radius!Found \cup {Root}
        PROVE  /\ RadiusItemOK(weight, args, seen, RadiusKnown(best, n))
               /\ RadiusKnown(best, n).strength = seen[n]
               /\ Radius!Last(RadiusKnown(best, n).path) = n
               /\ Radius!Depth(RadiusKnown(best, n)) \in Nat
               /\ Radius!Depth(RadiusKnown(best, n)) <= Radius!Depth(current) + 1
    <2>1. CASE n = Root
      <3>1. RadiusKnown(best, n) = Radius!Start
        BY <2>1 DEF RadiusKnown
      <3>2. /\ RadiusItemOK(weight, args, seen, Radius!Start)
            /\ Radius!Depth(Radius!Start) = 0 /\ Radius!Last(Radius!Start.path) = Root
            /\ Radius!Start.strength = RadiusWhole
        BY <1>1, <1>2, RadiusStartIs
      <3> QED BY <2>1, <3>1, <3>2, <1>2, <1>3
    <2>2. CASE n # Root
      <3>1. n \in Radius!Found /\ RadiusKnown(best, n) = best[n]
        BY <2>2 DEF RadiusKnown
      <3>2. RadiusItemOK(weight, args, seen, best[n]) /\ Radius!Last(best[n].path) = n
            /\ best[n].strength = seen[n] /\ Radius!Depth(best[n]) <= Radius!Depth(current) + 1
        BY <3>1 DEF RadiusInv, RadiusItems, RadiusQueue
      <3>3. Radius!Depth(best[n]) \in Nat
        BY <1>1, <3>2, RadiusItemIs
      <3> QED BY <3>1, <3>2, <3>3
    <2> QED BY <2>1, <2>2
  <1> QED BY <1>1, <1>2, <1>3, <1>4, <1>5, <1>6

\* The search starts with Root queued and known.
LEMMA RadiusInitInv == Radius!Init => RadiusInv
  <1> SUFFICES ASSUME Radius!Init PROVE RadiusInv
    OBVIOUS
  <1>1. /\ args \in RadiusCalls /\ weight \in [RadiusPairs -> Weights \cup {0}]
        /\ frontier = <<Radius!Start>>
        /\ current = Radius!Start /\ todo = {} /\ seen = [n \in {Root} |-> RadiusWhole]
        /\ Radius!Found = {} /\ search = "running"
    BY DEF Radius!Init, Radius!Found, RadiusWhole
  <1>2. args.depth \in Nat /\ args.nodes \in Nat /\ args.min \in Nat
    BY <1>1, RadiusOK
  <1>3. /\ RadiusItemOK(weight, args, seen, Radius!Start) /\ Radius!Depth(Radius!Start) = 0
        /\ Radius!Last(Radius!Start.path) = Root
        /\ Radius!Start.strength = RadiusWhole /\ RadiusWhole \in Nat
        /\ Radius!Start \in Radius!Item
    BY <1>1, RadiusStartIs
  <1>4. /\ Len(frontier) = 1 /\ frontier[1] = Radius!Start /\ \A i \in 1..1 : i = 1
        /\ frontier \in Seq(Radius!Item) /\ 1 \in 1..1
    BY <1>1, <1>3
  <1>5. Radius!TypeOK
    BY <1>1, <1>3, <1>4 DEF Radius!TypeOK
  <1>6. RadiusItems
    BY <1>1, <1>3, <1>4 DEF RadiusItems
  <1>7. RadiusQueue /\ RadiusEdges /\ RadiusEnded
    BY <1>1, <1>3, <1>4 DEF RadiusQueue, RadiusEdges, RadiusEnded
  <1>8. RadiusCount
    BY <1>1, <1>2, FS_EmptySet DEF RadiusCount
  <1>9. RadiusExpanded(frontier, current, todo, seen, best)
    BY <1>1, <1>4 DEF RadiusExpanded, RadiusKnown
  <1>10. ASSUME NEW w, RadiusGood(weight, w), Len(w) - 1 <= Radius!Depth(current)
         PROVE  w = <<Root>> /\ RadiusStr(weight, w) = RadiusWhole /\ Radius!Last(w) = Root
    <2>1. Len(w) = 1 /\ w \in Seq(RadiusNodes) /\ w[1] = Root
      BY <1>1, <1>3, <1>10, RadiusGoodIs
    <2>2. w = <<Root>>
      BY <2>1
    <2> QED BY <2>1, <2>2, RadiusStrOne DEF Radius!Last
  <1>11. RadiusReached(current, seen)
    BY <1>1, <1>3, <1>10 DEF RadiusReached
  <1>12. RadiusFollowed(frontier, current, todo, seen)
    <2> SUFFICES ASSUME NEW w, RadiusGood(weight, w), Len(w) - 1 <= Radius!Depth(current),
                        Len(w) - 1 < args.depth
                 PROVE  /\ Radius!Last(frontier[1].path) = Radius!Last(w)
                        /\ RadiusStr(weight, w) <= frontier[1].strength
                        /\ Radius!Depth(frontier[1]) <= Radius!Depth(current)
                        /\ Radius!Depth(frontier[1]) < args.depth
      BY <1>4 DEF RadiusFollowed
    <2>1. Len(w) = 1
      BY <1>1, <1>3, RadiusGoodIs
    <2>2. 0 < args.depth
      BY <2>1
    <2> QED BY <1>1, <1>3, <1>4, <1>10, <2>2
  <1> QED BY <1>5, <1>6, <1>7, <1>8, <1>9, <1>11, <1>12 DEF RadiusInv

\* What is known is as strong as itself.
LEMMA RadiusGrowsSame ==
    ASSUME NEW sn, sn \in [DOMAIN sn -> Nat]
    PROVE  RadiusGrows(sn, sn)
  BY DEF RadiusGrows

\* An edge that brings nothing new is passed over.
LEMMA RadiusSkipInv == \A n \in RadiusNodes : RadiusInv /\ Radius!Skip(n) => RadiusInv'
  <1> SUFFICES ASSUME NEW n \in RadiusNodes, RadiusInv, Radius!Skip(n) PROVE RadiusInv'
    OBVIOUS
  <1>1. /\ search = "running" /\ n \in todo /\ ~Radius!Improves(n) /\ todo' = todo \ {n}
        /\ UNCHANGED <<args, weight, frontier, current, seen, best, search>>
    BY DEF Radius!Skip
  <1>2. Radius!TypeOK'
    BY <1>1 DEF RadiusInv, Radius!TypeOK, Radius!Found
  <1>3. RadiusItems' /\ RadiusQueue' /\ RadiusCount'
    BY <1>1 DEF RadiusInv, RadiusItems, RadiusQueue, RadiusCount, Radius!Found
  <1>4. RadiusEdges' /\ RadiusEnded'
    BY <1>1 DEF RadiusInv, RadiusEdges, RadiusEnded
  <1>5. ASSUME NEW x, NEW s \in Nat, RadiusOpened(weight, args.min, seen, todo, current, x, s)
        PROVE  RadiusOpened(weight, args.min, seen, todo \ {n}, current, x, s)
    <2> DEFINE t == RadiusOver(weight, current.strength, n, Radius!Last(current.path))
    <2>1. RadiusEdgeOf(weight, n, Radius!Last(current.path))
      BY <1>1 DEF RadiusInv, RadiusEdges
    <2>2. t \in Nat
      BY <2>1, RadiusInvIs, RadiusOverIs
    <2>3. args.min <= t => n \in DOMAIN seen /\ seen[n] \in Nat /\ t <= seen[n]
      <3> HAVE args.min <= t
      <3>1. Radius!Through(n) = t
        BY DEF Radius!Through, RadiusOver
      <3>2. n \in DOMAIN seen /\ ~(seen[n] < t)
        BY <1>1, <2>2, <3>1, RadiusInvIs DEF Radius!Improves
      <3>3. seen[n] \in Nat
        BY <3>2, RadiusInvIs
      <3> QED BY <2>2, <3>2, <3>3
    <2>4. RadiusGrows(seen, seen)
      BY RadiusInvIs, RadiusGrowsSame
    <2> QED BY <2>1, <2>3, <2>4, <1>5, RadiusInvIs, RadiusOpenedStep
  <1>6. /\ RadiusExpanded(frontier, current, todo, seen, best)
        /\ RadiusReached(current, seen) /\ RadiusFollowed(frontier, current, todo, seen)
    BY <1>1 DEF RadiusInv
  <1>7. RadiusExpanded(frontier, current, todo, seen, best)'
    <2> SUFFICES ASSUME NEW m \in DOMAIN seen
                 PROVE  \/ \E i \in 1..Len(frontier) : frontier[i] = RadiusKnown(best, m)
                        \/ /\ Radius!Depth(RadiusKnown(best, m)) <= Radius!Depth(current)
                           /\ \/ args.depth <= Radius!Depth(RadiusKnown(best, m))
                              \/ RadiusOpened(weight, args.min, seen, todo \ {n}, current, m,
                                        RadiusKnown(best, m).strength)
      BY <1>1 DEF RadiusExpanded, RadiusKnown, Radius!Start, Radius!Depth, RadiusOpened,
            RadiusEdgeOf, RadiusOver
    <2>1. RadiusKnown(best, m).strength \in Nat
      BY RadiusInvIs
    <2> QED BY <1>5, <1>6, <2>1 DEF RadiusExpanded
  <1>8. RadiusReached(current, seen)'
    BY <1>1, <1>6 DEF RadiusReached
  <1>9. RadiusFollowed(frontier, current, todo, seen)'
    <2> SUFFICES ASSUME NEW w, RadiusGood(weight, w), Len(w) - 1 <= Radius!Depth(current),
                        Len(w) - 1 < args.depth, args.min <= RadiusStr(weight, w)
                 PROVE  \/ \E i \in 1..Len(frontier) :
                             /\ Radius!Last(frontier[i].path) = Radius!Last(w)
                             /\ RadiusStr(weight, w) <= frontier[i].strength
                             /\ Radius!Depth(frontier[i]) <= Radius!Depth(current)
                             /\ Radius!Depth(frontier[i]) < args.depth
                        \/ RadiusOpened(weight, args.min, seen, todo \ {n}, current, Radius!Last(w),
                                  RadiusStr(weight, w))
      BY <1>1 DEF RadiusFollowed
    <2>1. RadiusStr(weight, w) \in Nat
      BY RadiusInvIs, RadiusStrNat
    <2> QED BY <1>5, <1>6, <2>1 DEF RadiusFollowed
  <1> QED BY <1>2, <1>3, <1>4, <1>7, <1>8, <1>9 DEF RadiusInv

\* The search ends.
LEMMA RadiusFinishInv == RadiusInv /\ Radius!Finish => RadiusInv'
  <1> SUFFICES ASSUME RadiusInv, Radius!Finish PROVE RadiusInv'
    OBVIOUS
  <1>1. /\ search = "running" /\ todo = {} /\ frontier = << >> /\ search' = "done"
        /\ UNCHANGED <<args, weight, frontier, current, todo, seen, best>>
    BY DEF Radius!Finish
  <1>2. Radius!TypeOK'
    BY <1>1 DEF RadiusInv, Radius!TypeOK, Radius!Found
  <1>3. RadiusItems' /\ RadiusQueue' /\ RadiusCount' /\ RadiusEdges' /\ RadiusEnded'
    BY <1>1 DEF RadiusInv, RadiusItems, RadiusQueue, RadiusCount, Radius!Found, RadiusEdges,
          RadiusEnded
  <1>4. RadiusExpanded(frontier, current, todo, seen, best)'
    BY <1>1 DEF RadiusInv, RadiusExpanded, RadiusKnown, Radius!Start, Radius!Depth
  <1>5. RadiusReached(current, seen)' /\ RadiusFollowed(frontier, current, todo, seen)'
    BY <1>1 DEF RadiusInv, RadiusReached, RadiusFollowed
  <1> QED BY <1>2, <1>3, <1>4, <1>5 DEF RadiusInv

\* A stronger path is known, reported and queued, or the budget is exceeded.
LEMMA RadiusVisitInv == \A n \in RadiusNodes : RadiusInv /\ Radius!Visit(n) => RadiusInv'
  <1> SUFFICES ASSUME NEW n \in RadiusNodes, RadiusInv, Radius!Visit(n) PROVE RadiusInv'
    OBVIOUS
  <1> DEFINE s == Radius!Through(n)
             new == [path |-> Append(current.path, n), strength |-> s]
             tn == Radius!NowSeen(n)
             over == Cardinality(Radius!Found \cup {n}) > args.nodes
  <1>1. /\ search = "running" /\ n \in todo /\ Radius!Improves(n) /\ todo' = todo \ {n}
        /\ seen' = tn /\ best' = [m \in Radius!Found \cup {n} |-> IF m = n THEN new ELSE best[m]]
        /\ UNCHANGED <<args, weight, current>>
        /\ over => search' = "budget_exceeded" /\ frontier' = frontier
        /\ ~over => search' = search /\ frontier' = Append(frontier, new)
    BY RadiusCounts DEF Radius!Visit
  <1>2. RadiusEdgeOf(weight, n, Radius!Last(current.path)) /\ Radius!Depth(current) < args.depth
    BY <1>1 DEF RadiusInv, RadiusEdges
  <1>3. s = RadiusOver(weight, current.strength, n, Radius!Last(current.path))
    BY DEF Radius!Through, RadiusOver
  <1>4. args.min <= s /\ (n \in DOMAIN seen => seen[n] < s)
    <2>1. (n \in DOMAIN seen => seen[n] < s) /\ s >= args.min
      BY <1>1 DEF Radius!Improves
    <2>2. s \in Nat
      BY <1>2, <1>3, RadiusInvIs, RadiusOverIs
    <2> HIDE DEF s
    <2> QED BY <2>1, <2>2, RadiusInvIs
  <1>5. tn = [m \in DOMAIN seen \cup {n} |-> IF m = n THEN s ELSE seen[m]]
    BY DEF Radius!NowSeen
  <1> HIDE DEF s, tn, over
  <1>6. /\ RadiusGrows(seen, tn) /\ s \in Nat /\ tn \in [DOMAIN seen \cup {n} -> Nat]
        /\ RadiusItemOK(weight, args, tn, new) /\ n # Root /\ n \in RadiusNodes
        /\ Radius!Depth(new) = Radius!Depth(current) + 1 /\ Radius!Last(new.path) = n
        /\ new \in Radius!Item
    <2>1. /\ RadiusWeightOK(weight) /\ args \in RadiusCalls /\ seen \in [DOMAIN seen -> Nat]
          /\ RadiusItemOK(weight, args, seen, current)
      BY RadiusInvIs
    <2>2. new \in Radius!Item /\ new.path = Append(current.path, n) /\ new.strength = s
      <3>1. Append(current.path, n) \in Seq(RadiusNodes)
        BY <2>1, RadiusGoodIs, AppendProperties DEF RadiusItemOK
      <3>2. s \in Nat
        BY <1>2, <1>3, RadiusInvIs, RadiusOverIs
      <3> QED BY <3>1, <3>2 DEF Radius!Item
    <2> HIDE DEF new
    <2>3. n \in DOMAIN seen => seen[n] < s
      BY <1>4
    <2>4. /\ DOMAIN tn = DOMAIN seen \cup {n} /\ tn[n] = s
          /\ \A m \in DOMAIN seen : m # n => tn[m] = seen[m]
      BY <1>5
    <2>5. /\ RadiusGrows(seen, tn) /\ s \in Nat
          /\ RadiusItemOK(weight, args, tn, new) /\ n # Root /\ n \in RadiusNodes
          /\ Radius!Depth(new) = Radius!Depth(current) + 1 /\ Radius!Last(new.path) = n
      <3>1. RadiusCarries(weight, args, seen, current, n, s, tn, new)
        BY <1>2, <1>3, <2>1, <2>2, <2>3, <2>4 DEF RadiusCarries
      <3> QED BY <3>1, RadiusItemNew
    <2>6. tn \in [DOMAIN seen \cup {n} -> Nat]
      BY <1>5, <2>1, <2>5
    <2> QED BY <2>2, <2>5, <2>6
  <1> DEFINE bs == [m \in Radius!Found \cup {n} |-> IF m = n THEN new ELSE best[m]]
             L == Len(frontier)
  <1>7. /\ DOMAIN bs = Radius!Found \cup {n} /\ bs[n] = new
        /\ \A m \in Radius!Found \ {n} : bs[m] = best[m]
        /\ best' = bs /\ Radius!Found' = Radius!Found \cup {n}
    BY <1>1 DEF Radius!Found
  <1>8. new.path = Append(current.path, n) /\ new.strength = s
    OBVIOUS
  <1> HIDE DEF new, bs
  <1>9. /\ tn[n] = s /\ DOMAIN tn = DOMAIN seen \cup {n}
        /\ \A m \in DOMAIN seen \ {n} : tn[m] = seen[m]
    BY <1>5, RadiusInvIs
  <1>10. /\ frontier' \in Seq(Radius!Item) /\ Len(frontier') \in Nat
         /\ L \in Nat /\ L <= Len(frontier')
         /\ \A i \in 1..L : frontier'[i] = frontier[i]
         /\ \A i \in 1..Len(frontier') : i \in 1..L \/ (i = L + 1 /\ frontier'[i] = new /\ ~over)
         /\ ~over => L + 1 \in 1..Len(frontier') /\ frontier'[L + 1] = new
    <2>1. frontier \in Seq(Radius!Item) /\ L \in Nat
      BY RadiusInvIs DEF RadiusInv, Radius!TypeOK
    <2>2. CASE over
      BY <1>1, <2>1, <2>2
    <2>3. CASE ~over
      <3>1. /\ Append(frontier, new) \in Seq(Radius!Item) /\ Len(Append(frontier, new)) = L + 1
            /\ Append(frontier, new)[L + 1] = new
            /\ \A i \in 1..L : Append(frontier, new)[i] = frontier[i]
        BY <1>6, <2>1, AppendProperties
      <3> QED BY <1>1, <2>1, <2>3, <3>1
    <2> QED BY <2>2, <2>3
  <1>11. Radius!TypeOK'
    <2>1. Radius!Found \subseteq RadiusNodes \ {Root}
            /\ \A m \in Radius!Found : best[m] \in Radius!Item
      BY DEF RadiusInv, Radius!TypeOK
    <2>2. args \in RadiusCalls /\ weight \in [RadiusPairs -> Weights \cup {0}]
            /\ current \in Radius!Item
          /\ todo \subseteq RadiusNodes
      BY DEF RadiusInv, Radius!TypeOK
    <2>3. Radius!Found' \subseteq RadiusNodes \ {Root}
      BY <1>6, <1>7, <2>1
    <2>4. \A m \in Radius!Found' : best'[m] \in Radius!Item
      BY <1>6, <1>7, <2>1
    <2>5. seen' \in [Radius!Found' \cup {Root} -> Nat]
      <3>1. DOMAIN seen \cup {n} = Radius!Found' \cup {Root}
        BY <1>7, RadiusInvIs
      <3> QED BY <3>1, <1>1, <1>6
    <2>6. search' \in {"running", "done", "budget_exceeded"}
      BY <1>1
    <2> QED BY <1>1, <1>10, <2>2, <2>3, <2>4, <2>5, <2>6 DEF Radius!TypeOK
  <1>12. RadiusItems'
    <2>1. RadiusItemOK(weight, args, tn, current)
      BY <1>6, RadiusInvIs, RadiusItemGrows
    <2>2. ASSUME NEW i \in 1..Len(frontier') PROVE RadiusItemOK(weight, args, tn, frontier'[i])
      <3>1. CASE i \in 1..L
        <4>1. RadiusItemOK(weight, args, seen, frontier[i])
          BY <3>1 DEF RadiusInv, RadiusItems
        <4> QED BY <1>6, <1>10, <3>1, <4>1, RadiusItemGrows
      <3>2. CASE i = L + 1 /\ frontier'[i] = new
        BY <3>2, <1>6
      <3> QED BY <3>1, <3>2, <1>10
    <2>3. ASSUME NEW m \in Radius!Found \cup {n}
          PROVE  /\ RadiusItemOK(weight, args, tn, bs[m]) /\ Radius!Last(bs[m].path) = m
                 /\ bs[m].strength = tn[m] /\ args.min <= tn[m]
      <3>1. CASE m = n
        BY <3>1, <1>4, <1>6, <1>7, <1>8, <1>9
      <3>2. CASE m # n
        <4>1. m \in Radius!Found /\ bs[m] = best[m] /\ m \in DOMAIN seen
          BY <3>2, <1>7, RadiusInvIs
        <4>2. /\ RadiusItemOK(weight, args, seen, best[m]) /\ Radius!Last(best[m].path) = m
              /\ best[m].strength = seen[m] /\ args.min <= seen[m]
          BY <4>1 DEF RadiusInv, RadiusItems
        <4>3. RadiusItemOK(weight, args, tn, best[m])
          BY <4>2, <1>6, RadiusItemGrows
        <4> QED BY <4>1, <4>2, <4>3, <3>2, <1>9
      <3> QED BY <3>1, <3>2
    <2>4. tn[Root] = RadiusWhole
      <3>1. seen[Root] = RadiusWhole /\ Root \in DOMAIN seen
        BY RadiusInvIs DEF RadiusInv, RadiusItems
      <3> QED BY <3>1, <1>6, <1>9
    <2> QED BY <2>1, <2>2, <2>3, <2>4, <1>1, <1>7 DEF RadiusItems
  <1>13. RadiusQueue'
    <2> DEFINE d == Radius!Depth(current)
    <2>1. /\ \A i \in 1..L : Radius!Depth(frontier[i]) \in {d, d + 1}
          /\ \A i, j \in 1..L : i <= j => Radius!Depth(frontier[i]) <= Radius!Depth(frontier[j])
          /\ \A m \in Radius!Found : Radius!Depth(best[m]) <= d + 1
          /\ d \in Nat
      BY RadiusInvIs DEF RadiusInv, RadiusQueue
    <2>2. Radius!Depth(new) = d + 1
      BY <1>6
    <2> HIDE DEF d, L
    <2>3. \A i \in 1..Len(frontier') : Radius!Depth(frontier'[i]) \in {d, d + 1}
      BY <1>10, <2>1, <2>2
    <2>4. ASSUME NEW i \in 1..Len(frontier'), NEW j \in 1..Len(frontier'), i <= j
          PROVE  Radius!Depth(frontier'[i]) <= Radius!Depth(frontier'[j])
      <3>1. CASE j \in 1..L
        <4>1. i \in 1..L
          BY <3>1, <2>4, <1>10
        <4> QED BY <3>1, <4>1, <2>1, <2>4, <1>10
      <3>2. CASE frontier'[j] = new
        <4>1. Radius!Depth(frontier'[i]) \in {d, d + 1}
          BY <2>3
        <4> QED BY <4>1, <3>2, <2>1, <2>2
      <3> QED BY <3>1, <3>2, <1>10
    <2>5. \A m \in Radius!Found \cup {n} : Radius!Depth(bs[m]) <= d + 1
      <3> TAKE m \in Radius!Found \cup {n}
      <3>1. CASE m = n
        BY <3>1, <1>7, <2>1, <2>2
      <3>2. CASE m # n
        BY <3>2, <1>7, <2>1
      <3> QED BY <3>1, <3>2
    <2>6. /\ Radius!Depth(current)' = d
          /\ \A m \in Radius!Found' : Radius!Depth(best[m])' = Radius!Depth(bs[m])
      BY <1>1, <1>7 DEF Radius!Depth, d
    <2>7. \A i \in 1..Len(frontier') : Radius!Depth(frontier[i])' = Radius!Depth(frontier'[i])
      BY DEF Radius!Depth
    <2> QED BY <2>3, <2>4, <2>5, <2>6, <2>7, <1>7 DEF RadiusQueue
  <1>14. RadiusEdges'
    <2>1. /\ \A m \in todo : RadiusEdgeOf(weight, m, Radius!Last(current.path))
      BY DEF RadiusInv, RadiusEdges
    <2> QED BY <2>1, <1>1, <1>2 DEF RadiusEdges, Radius!Depth
  <1>15. RadiusCount'
    <2>1. CASE over
      BY <2>1, <1>1, <1>7 DEF RadiusCount, over
    <2>2. CASE ~over
      <3>1. IsFiniteSet(Radius!Found \cup {n}) /\ Cardinality(Radius!Found \cup {n}) \in Nat
        BY RadiusInvIs, FS_AddElement, FS_CardinalityType
      <3>2. Cardinality(Radius!Found \cup {n}) <= args.nodes
        BY <2>2, <3>1, RadiusInvIs DEF over
      <3>3. search' # "budget_exceeded" /\ args' = args
        BY <2>2, <1>1
      <3> QED BY <3>2, <3>3, <1>7 DEF RadiusCount
    <2> QED BY <2>1, <2>2
  <1>16. RadiusEnded'
    BY <1>1 DEF RadiusEnded
  <1>17. ASSUME ~over
         PROVE  /\ RadiusExpanded(frontier, current, todo, seen, best)'
                /\ RadiusReached(current, seen)' /\ RadiusFollowed(frontier, current, todo, seen)'
    <2>1. /\ RadiusExpanded(frontier, current, todo, seen, best)
          /\ RadiusReached(current, seen) /\ RadiusFollowed(frontier, current, todo, seen)
      BY <1>1 DEF RadiusInv
    <2>2. ASSUME NEW x, NEW t \in Nat, RadiusOpened(weight, args.min, seen, todo, current, x, t)
          PROVE  RadiusOpened(weight, args.min, tn, todo \ {n}, current, x, t)
      <3>1. n \in DOMAIN tn /\ tn[n] \in Nat /\ s <= tn[n]
        BY <1>6, <1>9
      <3> QED BY <1>2, <1>3, <1>6, <2>2, <3>1, RadiusInvIs, RadiusOpenedStep
    <2>3. RadiusExpanded(frontier', current, todo \ {n}, tn, bs)
      <3> SUFFICES ASSUME NEW m \in DOMAIN tn
                   PROVE  \/ \E i \in 1..Len(frontier') : frontier'[i] = RadiusKnown(bs, m)
                          \/ /\ Radius!Depth(RadiusKnown(bs, m)) <= Radius!Depth(current)
                             /\ \/ args.depth <= Radius!Depth(RadiusKnown(bs, m))
                                \/ RadiusOpened(weight, args.min, tn, todo \ {n}, current, m,
                                          RadiusKnown(bs, m).strength)
        BY DEF RadiusExpanded
      <3>1. CASE m = n
        <4>1. RadiusKnown(bs, m) = new
          BY <3>1, <1>6, <1>7 DEF RadiusKnown
        <4> QED BY <4>1, <1>10, <1>17
      <3>2. CASE m # n
        <4>1. m \in DOMAIN seen /\ RadiusKnown(bs, m) = RadiusKnown(best, m)
          BY <3>2, <1>7, <1>9, RadiusInvIs DEF RadiusKnown
        <4>2. RadiusKnown(best, m).strength \in Nat
          BY <4>1, RadiusInvIs
        <4>3. CASE \E i \in 1..L : frontier[i] = RadiusKnown(best, m)
          BY <4>1, <4>3, <1>10
        <4>4. CASE /\ Radius!Depth(RadiusKnown(best, m)) <= Radius!Depth(current)
                   /\ \/ args.depth <= Radius!Depth(RadiusKnown(best, m))
                      \/ RadiusOpened(weight, args.min, seen, todo, current, m,
                                RadiusKnown(best, m).strength)
          BY <4>1, <4>2, <4>4, <2>2
        <4> QED BY <4>1, <4>3, <4>4, <2>1 DEF RadiusExpanded
      <3> QED BY <3>1, <3>2
    <2>4. RadiusReached(current, tn)
      <3> SUFFICES ASSUME NEW w, RadiusGood(weight, w), Len(w) - 1 <= Radius!Depth(current),
                          args.min <= RadiusStr(weight, w)
                   PROVE  Radius!Last(w) \in DOMAIN tn /\ RadiusStr(weight, w) <= tn[Radius!Last(w)]
        BY DEF RadiusReached
      <3>1. Radius!Last(w) \in DOMAIN seen /\ RadiusStr(weight, w) <= seen[Radius!Last(w)]
        BY <2>1 DEF RadiusReached
      <3>2. RadiusStr(weight, w) \in Nat
        BY RadiusInvIs, RadiusStrNat
      <3>3. /\ Radius!Last(w) \in DOMAIN tn /\ seen[Radius!Last(w)] \in Nat
            /\ tn[Radius!Last(w)] \in Nat
            /\ seen[Radius!Last(w)] <= tn[Radius!Last(w)]
        BY <3>1, <1>6 DEF RadiusGrows
      <3> QED BY <3>1, <3>2, <3>3
    <2>5. RadiusFollowed(frontier', current, todo \ {n}, tn)
      <3> SUFFICES ASSUME NEW w, RadiusGood(weight, w), Len(w) - 1 <= Radius!Depth(current),
                          Len(w) - 1 < args.depth, args.min <= RadiusStr(weight, w)
                   PROVE  \/ \E i \in 1..Len(frontier') :
                               /\ Radius!Last(frontier'[i].path) = Radius!Last(w)
                               /\ RadiusStr(weight, w) <= frontier'[i].strength
                               /\ Radius!Depth(frontier'[i]) <= Radius!Depth(current)
                               /\ Radius!Depth(frontier'[i]) < args.depth
                          \/ RadiusOpened(weight, args.min, tn, todo \ {n}, current, Radius!Last(w),
                                    RadiusStr(weight, w))
        BY DEF RadiusFollowed
      <3>1. RadiusStr(weight, w) \in Nat
        BY RadiusInvIs, RadiusStrNat
      <3>2. CASE RadiusOpened(weight, args.min, seen, todo, current, Radius!Last(w),
            RadiusStr(weight, w))
        BY <3>1, <3>2, <2>2
      <3>3. CASE \E i \in 1..L :
                    /\ Radius!Last(frontier[i].path) = Radius!Last(w)
                    /\ RadiusStr(weight, w) <= frontier[i].strength
                    /\ Radius!Depth(frontier[i]) <= Radius!Depth(current)
                    /\ Radius!Depth(frontier[i]) < args.depth
        <4>1. PICK i \in 1..L : /\ Radius!Last(frontier[i].path) = Radius!Last(w)
                                /\ RadiusStr(weight, w) <= frontier[i].strength
                                /\ Radius!Depth(frontier[i]) <= Radius!Depth(current)
                                /\ Radius!Depth(frontier[i]) < args.depth
          BY <3>3
        <4>2. i \in 1..Len(frontier') /\ frontier'[i] = frontier[i]
          BY <1>10
        <4> QED BY <4>1, <4>2
      <3> QED BY <3>2, <3>3, <2>1 DEF RadiusFollowed
    <2>6. RadiusExpanded(frontier, current, todo, seen, best)'
      BY <1>1, <1>7, <2>3 DEF RadiusExpanded, RadiusKnown, Radius!Start, Radius!Depth
    <2>7. RadiusReached(current, seen)'
      BY <1>1, <2>4 DEF RadiusReached, Radius!Depth
    <2>8. RadiusFollowed(frontier, current, todo, seen)'
      BY <1>1, <2>5 DEF RadiusFollowed, Radius!Depth
    <2> QED BY <2>6, <2>7, <2>8
  <1>18. over => search' = "budget_exceeded"
    BY <1>1
  <1> QED BY <1>11, <1>12, <1>13, <1>14, <1>15, <1>16, <1>17, <1>18 DEF RadiusInv

\* With no edge left to look at, what is opened is done, whatever comes next.
LEMMA RadiusOpenedDone ==
    ASSUME NEW wt, NEW least, NEW sn, NEW cur, NEW x, NEW s, RadiusOpened(wt, least, sn, {}, cur,
          x, s)
    PROVE  /\ \A td, next : RadiusOpened(wt, least, sn, td, next, x, s)
           /\ \A m \in RadiusNodes : RadiusEdgeOf(wt, m, x) /\ least <= RadiusOver(wt, s, m, x) =>
                 m \in DOMAIN sn /\ RadiusOver(wt, s, m, x) <= sn[m]
  BY DEF RadiusOpened

\* A walk of one more edge is no stronger than the walk it extends.
LEMMA RadiusStrFront ==
    ASSUME NEW wt, RadiusWeightOK(wt), NEW w, RadiusGood(wt, w), Len(w) > 1
    PROVE  \E v : /\ RadiusGood(wt, v) /\ Len(v) = Len(w) - 1
                  /\ RadiusEdgeOf(wt, Radius!Last(w), Radius!Last(v))
                  /\ RadiusStr(wt, w) = RadiusOver(wt, RadiusStr(wt, v), Radius!Last(w),
                        Radius!Last(v))
                  /\ RadiusStr(wt, v) \in Nat /\ RadiusStr(wt, w) \in Nat
                  /\ RadiusStr(wt, w) <= RadiusStr(wt, v)
                  /\ Radius!Last(w) \in RadiusNodes
  <1>1. PICK v, n : /\ w = Append(v, n) /\ RadiusGood(wt, v) /\ RadiusEdgeOf(wt, n, Radius!Last(v))
                    /\ Len(v) = Len(w) - 1 /\ Radius!Last(w) = n
    BY RadiusGoodFront
  <1>2. v \in Seq(RadiusNodes) /\ v # << >> /\ n \in RadiusNodes
    BY <1>1 DEF RadiusGood, RadiusEdgeOf
  <1>3. RadiusStr(wt, w) = RadiusOver(wt, RadiusStr(wt, v), n, Radius!Last(v))
    BY <1>1, <1>2, RadiusStrAppend
  <1>4. RadiusStr(wt, v) \in Nat
    BY <1>1, RadiusStrNat
  <1> QED BY <1>1, <1>2, <1>3, <1>4, RadiusOverIs

\* The next path is expanded.  When it is longer than the one before, every
\* shorter walk was followed up, so walks of its length reach no further than is
\* known, and the path known to the end of each is still queued or was expanded.
LEMMA RadiusPopInv == RadiusInv /\ Radius!Pop => RadiusInv'
  <1> SUFFICES ASSUME RadiusInv, Radius!Pop PROVE RadiusInv'
    OBVIOUS
  <1> DEFINE h == frontier[1]  L == Len(frontier)  d == Radius!Depth(current)
             td == IF Radius!Depth(h) >= args.depth THEN {} ELSE Radius!InEdges(Radius!Last(h.path))
  <1>1. /\ search = "running" /\ todo = {} /\ frontier # << >>
        /\ frontier' = Tail(frontier) /\ current' = h /\ todo' = td
        /\ UNCHANGED <<args, weight, seen, best, search>>
    BY DEF Radius!Pop
  <1>2. /\ frontier \in Seq(Radius!Item) /\ L \in Nat \ {0} /\ 1 \in 1..L
        /\ Tail(frontier) \in Seq(Radius!Item) /\ Len(Tail(frontier)) = L - 1
        /\ \A i \in 1..(L - 1) : Tail(frontier)[i] = frontier[i + 1] /\ i + 1 \in 1..L
        /\ \A i \in 1..L : i = 1 \/ (i - 1 \in 1..(L - 1) /\ Tail(frontier)[i - 1] = frontier[i])
    <2>1. frontier \in Seq(Radius!Item) /\ frontier # << >>
      BY <1>1 DEF RadiusInv, Radius!TypeOK
    <2>2. L \in Nat \ {0}
      BY <2>1, LenProperties, EmptySeq
    <2>3. /\ Tail(frontier) \in Seq(Radius!Item) /\ Len(Tail(frontier)) = L - 1
          /\ \A i \in 1..(L - 1) : Tail(frontier)[i] = frontier[i + 1]
      BY <2>1, HeadTailProperties
    <2>4. \A i \in 1..L : i = 1 \/ (i - 1 \in 1..(L - 1) /\ (i - 1) + 1 = i)
      BY <2>2
    <2>5. \A i \in 1..(L - 1) : i + 1 \in 1..L
      BY <2>2
    <2>6. 1 \in 1..L
      BY <2>2
    <2> HIDE DEF L
    <2> QED BY <2>1, <2>2, <2>3, <2>4, <2>5, <2>6
  <1>3. /\ RadiusItemOK(weight, args, seen, h) /\ h \in Radius!Item
        /\ \A i \in 1..L : RadiusItemOK(weight, args, seen, frontier[i])
    BY <1>2 DEF RadiusInv, RadiusItems, RadiusItemOK
  <1>4. h.strength \in Nat /\ Radius!Depth(h) \in Nat /\ Radius!Depth(h) <= args.depth
    BY <1>3, RadiusInvIs, RadiusItemIs
  <1>5. /\ d \in Nat /\ Radius!Depth(h) \in {d, d + 1}
        /\ \A i \in 1..L : Radius!Depth(frontier[i]) \in {d, d + 1}
              /\ Radius!Depth(h) <= Radius!Depth(frontier[i])
    <2>1. \A i \in 1..L : 1 <= i
      BY <1>2
    <2> QED BY <1>2, <2>1, RadiusInvIs DEF RadiusInv, RadiusQueue
  <1>6. /\ Radius!Depth(h) < args.depth => td = Radius!InEdges(Radius!Last(h.path))
        /\ \A m \in RadiusNodes : m \in Radius!InEdges(Radius!Last(h.path)) <=>
              RadiusEdgeOf(weight, m, Radius!Last(h.path))
        /\ \A m \in td : m \in RadiusNodes /\ RadiusEdgeOf(weight, m, Radius!Last(h.path))
        /\ td # {} => Radius!Depth(h) < args.depth
    <2>1. args.depth \in Nat /\ Radius!Depth(h) \in Nat
      BY <1>4, RadiusInvIs
    <2>2. IF Radius!Depth(h) >= args.depth THEN td = {}
          ELSE td = Radius!InEdges(Radius!Last(h.path))
      OBVIOUS
    <2>3. \A m \in RadiusNodes : m \in Radius!InEdges(Radius!Last(h.path)) <=>
            RadiusEdgeOf(weight, m, Radius!Last(h.path))
      BY DEF Radius!InEdges, RadiusEdgeOf
    <2>4. Radius!InEdges(Radius!Last(h.path)) \subseteq RadiusNodes
      BY DEF Radius!InEdges
    <2> HIDE DEF td, h
    <2>5. (Radius!Depth(h) >= args.depth /\ ~(Radius!Depth(h) < args.depth))
            \/ (~(Radius!Depth(h) >= args.depth) /\ Radius!Depth(h) < args.depth)
      BY <2>1
    <2> QED BY <2>2, <2>3, <2>4, <2>5
  <1> DEFINE fr == Tail(frontier)
  <1> HIDE DEF td, h, L, fr
  <1>7. /\ fr \in Seq(Radius!Item) /\ Len(fr) = L - 1 /\ frontier' = fr
        /\ \A i \in 1..Len(fr) : fr[i] = frontier[i + 1] /\ i + 1 \in 1..L
        /\ \A i \in 1..L : i = 1 \/ (i - 1 \in 1..Len(fr) /\ fr[i - 1] = frontier[i])
    BY <1>1, <1>2 DEF fr
  <1>8. Radius!TypeOK'
    <2>1. td \subseteq RadiusNodes
      BY <1>6
    <2> QED BY <1>1, <1>3, <1>7, <2>1 DEF RadiusInv, Radius!TypeOK, Radius!Found
  <1>9. RadiusItems'
    <2>1. \A i \in 1..Len(fr) : RadiusItemOK(weight, args, seen, fr[i])
      BY <1>3, <1>7
    <2> QED BY <1>1, <1>3, <1>7, <2>1 DEF RadiusInv, RadiusItems, Radius!Found
  <1>10. RadiusQueue'
    <2>1. /\ \A i, j \in 1..L : i <= j => Radius!Depth(frontier[i]) <= Radius!Depth(frontier[j])
          /\ \A m \in Radius!Found : Radius!Depth(best[m]) <= d + 1
          /\ \A m \in Radius!Found : Radius!Depth(best[m]) \in Nat
      <3>1. \A m \in Radius!Found : RadiusItemOK(weight, args, seen, best[m])
        BY DEF RadiusInv, RadiusItems
      <3>2. \A m \in Radius!Found : Radius!Depth(best[m]) \in Nat
        BY <3>1, RadiusInvIs, RadiusItemIs
      <3> QED BY <3>2 DEF RadiusInv, RadiusQueue, L
    <2>2. \A i \in 1..Len(fr) : Radius!Depth(fr[i]) \in {Radius!Depth(h), Radius!Depth(h) + 1}
      <3> TAKE i \in 1..Len(fr)
      <3>1. Radius!Depth(fr[i]) \in {d, d + 1} /\ Radius!Depth(h) <= Radius!Depth(fr[i])
        BY <1>5, <1>7
      <3> QED BY <3>1, <1>5
    <2>3. \A i, j \in 1..Len(fr) : i <= j => Radius!Depth(fr[i]) <= Radius!Depth(fr[j])
      <3> TAKE i, j \in 1..Len(fr)
      <3>1. i + 1 \in 1..L /\ j + 1 \in 1..L /\ fr[i] = frontier[i + 1] /\ fr[j] = frontier[j + 1]
        BY <1>7
      <3>2. i <= j => i + 1 <= j + 1
        BY <1>2, <1>7
      <3> QED BY <3>1, <3>2, <2>1
    <2>4. \A m \in Radius!Found : Radius!Depth(best[m]) <= Radius!Depth(h) + 1
      BY <1>5, <2>1
    <2>5. /\ \A i \in 1..Len(fr) : Radius!Depth(frontier[i])' = Radius!Depth(fr[i])
          /\ Radius!Depth(current)' = Radius!Depth(h) /\ Radius!Found' = Radius!Found
          /\ \A m \in Radius!Found : Radius!Depth(best[m])' = Radius!Depth(best[m])
      BY <1>1, <1>7 DEF Radius!Depth, Radius!Found
    <2> QED BY <1>7, <2>2, <2>3, <2>4, <2>5 DEF RadiusQueue
  <1>11. RadiusEdges'
    BY <1>1, <1>6 DEF RadiusEdges, Radius!Depth
  <1>12. RadiusCount' /\ RadiusEnded'
    BY <1>1 DEF RadiusInv, RadiusCount, RadiusEnded, Radius!Found
  <1>13. /\ RadiusExpanded(frontier, current, {}, seen, best)
         /\ RadiusReached(current, seen) /\ RadiusFollowed(frontier, current, {}, seen)
    BY <1>1 DEF RadiusInv
  <1>14. ASSUME Radius!Depth(h) < args.depth, NEW s
         PROVE  s <= h.strength =>
                  RadiusOpened(weight, args.min, seen, td, h, Radius!Last(h.path), s)
    BY <1>6, <1>14 DEF RadiusOpened
  <1>15. RadiusExpanded(fr, h, td, seen, best)
    <2> SUFFICES ASSUME NEW m \in DOMAIN seen
                 PROVE  \/ \E i \in 1..Len(fr) : fr[i] = RadiusKnown(best, m)
                        \/ /\ Radius!Depth(RadiusKnown(best, m)) <= Radius!Depth(h)
                           /\ \/ args.depth <= Radius!Depth(RadiusKnown(best, m))
                              \/ RadiusOpened(weight, args.min, seen, td, h, m,
                                        RadiusKnown(best, m).strength)
      BY DEF RadiusExpanded
    <2>1. CASE \E i \in 1..L : frontier[i] = RadiusKnown(best, m)
      <3>1. PICK i \in 1..L : frontier[i] = RadiusKnown(best, m)
        BY <2>1
      <3>2. CASE i = 1
        <4>1. h = RadiusKnown(best, m)
          BY <3>1, <3>2 DEF h
        <4>2. Radius!Last(h.path) = m /\ h.strength <= h.strength
          BY <4>1, <1>4, RadiusInvIs
        <4>3. CASE Radius!Depth(h) < args.depth
          BY <4>1, <4>2, <4>3, <1>4, <1>14
        <4>4. CASE args.depth <= Radius!Depth(h)
          BY <4>1, <4>4, <1>4
        <4> QED BY <4>3, <4>4, <1>4, RadiusInvIs
      <3>3. CASE i # 1
        <4>1. i - 1 \in 1..Len(fr) /\ fr[i - 1] = frontier[i]
          BY <3>3, <1>7
        <4> QED BY <4>1, <3>1
      <3> QED BY <3>2, <3>3
    <2>2. CASE /\ Radius!Depth(RadiusKnown(best, m)) <= d
               /\ \/ args.depth <= Radius!Depth(RadiusKnown(best, m))
                  \/ RadiusOpened(weight, args.min, seen, {}, current, m, RadiusKnown(best,
                        m).strength)
      <3>1. Radius!Depth(RadiusKnown(best, m)) <= Radius!Depth(h)
        <4>1. Radius!Depth(RadiusKnown(best, m)) \in Nat
          BY RadiusInvIs
        <4> QED BY <4>1, <2>2, <1>5
      <3> QED BY <3>1, <2>2, RadiusOpenedDone
    <2> QED BY <2>1, <2>2, <1>13 DEF RadiusExpanded, L
  <1>16. ASSUME Radius!Depth(h) = d + 1, NEW w, RadiusGood(weight, w), Len(w) - 1 <= d,
                args.min <= RadiusStr(weight, w)
         PROVE  RadiusOpened(weight, args.min, seen, {}, current, Radius!Last(w),
               RadiusStr(weight, w))
    <2>1. Len(w) \in Nat
      BY <1>16, RadiusGoodIs
    <2>2. d < args.depth
      BY <1>4, <1>5, <1>16, RadiusInvIs
    <2>3. Len(w) - 1 < args.depth
      BY <2>1, <2>2, <1>5, <1>16, RadiusInvIs
    <2>4. ~ \E i \in 1..L : Radius!Depth(frontier[i]) <= d
      BY <1>5, <1>16
    <2> QED BY <2>3, <2>4, <1>13, <1>16 DEF RadiusFollowed, L
  <1>17. RadiusReached(h, seen)
    <2> SUFFICES ASSUME NEW w, RadiusGood(weight, w), Len(w) - 1 <= Radius!Depth(h),
                        args.min <= RadiusStr(weight, w)
                 PROVE  Radius!Last(w) \in DOMAIN seen
                          /\ RadiusStr(weight, w) <= seen[Radius!Last(w)]
      BY DEF RadiusReached
    <2>1. Len(w) \in Nat
      BY RadiusGoodIs
    <2>2. CASE Len(w) - 1 <= d
      BY <2>2, <1>13 DEF RadiusReached
    <2>3. CASE Radius!Depth(h) = d + 1 /\ Len(w) - 1 = d + 1
      <3>1. Len(w) > 1
        BY <2>1, <2>3, <1>5
      <3>2. PICK v : /\ RadiusGood(weight, v) /\ Len(v) = Len(w) - 1
                     /\ RadiusEdgeOf(weight, Radius!Last(w), Radius!Last(v))
                     /\ RadiusStr(weight, w) = RadiusOver(weight, RadiusStr(weight, v),
                           Radius!Last(w), Radius!Last(v))
                     /\ RadiusStr(weight, v) \in Nat /\ RadiusStr(weight, w) \in Nat
                     /\ RadiusStr(weight, w) <= RadiusStr(weight, v)
                     /\ Radius!Last(w) \in RadiusNodes
        BY <3>1, RadiusInvIs, RadiusStrFront
      <3>3. Len(v) - 1 <= d /\ args.min <= RadiusStr(weight, v)
        BY <3>2, <2>1, <2>3, <1>5, RadiusInvIs
      <3>4. RadiusOpened(weight, args.min, seen, {}, current, Radius!Last(v), RadiusStr(weight, v))
        BY <3>2, <3>3, <2>3, <1>16
      <3> QED BY <3>2, <3>4, RadiusOpenedDone
    <2> QED BY <2>1, <2>2, <2>3, <1>5
  <1>18. RadiusFollowed(fr, h, td, seen)
    <2> SUFFICES ASSUME NEW w, RadiusGood(weight, w), Len(w) - 1 <= Radius!Depth(h),
                        Len(w) - 1 < args.depth, args.min <= RadiusStr(weight, w)
                 PROVE  \/ \E i \in 1..Len(fr) :
                             /\ Radius!Last(fr[i].path) = Radius!Last(w)
                             /\ RadiusStr(weight, w) <= fr[i].strength
                             /\ Radius!Depth(fr[i]) <= Radius!Depth(h)
                             /\ Radius!Depth(fr[i]) < args.depth
                        \/ RadiusOpened(weight, args.min, seen, td, h, Radius!Last(w),
                              RadiusStr(weight, w))
      BY DEF RadiusFollowed
    <2>1. Len(w) \in Nat /\ RadiusStr(weight, w) \in Nat
      BY RadiusGoodIs, RadiusInvIs, RadiusStrNat
    <2>2. CASE RadiusOpened(weight, args.min, seen, {}, current, Radius!Last(w), RadiusStr(weight,
          w))
      BY <2>2, RadiusOpenedDone
    <2>3. CASE Radius!Depth(h) = d
      <3>1. CASE \E i \in 1..L :
                    /\ Radius!Last(frontier[i].path) = Radius!Last(w)
                    /\ RadiusStr(weight, w) <= frontier[i].strength
                    /\ Radius!Depth(frontier[i]) <= d /\ Radius!Depth(frontier[i]) < args.depth
        <4>1. PICK i \in 1..L : /\ Radius!Last(frontier[i].path) = Radius!Last(w)
                                /\ RadiusStr(weight, w) <= frontier[i].strength
                                /\ Radius!Depth(frontier[i]) <= d
                                /\ Radius!Depth(frontier[i]) < args.depth
          BY <3>1
        <4>2. CASE i = 1
          <5>1. frontier[i] = h
            BY <4>2 DEF h
          <5> QED BY <4>1, <5>1, <1>14
        <4>3. CASE i # 1
          <5>1. i - 1 \in 1..Len(fr) /\ fr[i - 1] = frontier[i]
            BY <4>3, <1>7
          <5> QED BY <4>1, <5>1, <2>3
        <4> QED BY <4>2, <4>3
      <3>2. Len(w) - 1 <= d
        BY <2>3
      <3> QED BY <2>2, <3>1, <3>2, <1>13 DEF RadiusFollowed, L
    <2>4. CASE Radius!Depth(h) = d + 1 /\ Len(w) - 1 <= d
      BY <2>2, <2>4, <1>16
    <2>5. CASE Radius!Depth(h) = d + 1 /\ Len(w) - 1 = d + 1
      <3> DEFINE m == Radius!Last(w)  k == RadiusKnown(best, m)
      <3>1. m \in DOMAIN seen /\ RadiusStr(weight, w) <= seen[m]
        BY <1>17 DEF RadiusReached
      <3>2. /\ RadiusItemOK(weight, args, seen, k) /\ k.strength = seen[m]
            /\ Radius!Last(k.path) = m
            /\ Radius!Depth(k) \in Nat /\ Radius!Depth(k) <= d + 1 /\ seen[m] \in Nat
        BY <3>1, RadiusInvIs
      <3>3. Radius!Depth(k) < args.depth
        BY <3>2, <2>1, <2>5, <1>5, RadiusInvIs
      <3> HIDE DEF k
      <3>4. CASE \E i \in 1..Len(fr) : fr[i] = k
        BY <3>1, <3>2, <3>3, <3>4, <2>5
      <3>5. CASE RadiusOpened(weight, args.min, seen, td, h, m, k.strength)
        <4>1. RadiusOpened(weight, args.min, seen, td, h, m, RadiusStr(weight, w))
          BY <3>1, <3>2, <3>5, <2>1, <1>4, RadiusInvIs, RadiusOpenedWeaker
        <4> QED BY <4>1
      <3>6. ~(args.depth <= Radius!Depth(k))
        BY <3>2, <3>3, RadiusInvIs
      <3> QED BY <3>1, <3>4, <3>5, <3>6, <1>15 DEF RadiusExpanded, k
    <2> QED BY <2>1, <2>3, <2>4, <2>5, <1>5
  <1>19. /\ RadiusExpanded(frontier, current, todo, seen, best)'
         /\ RadiusReached(current, seen)' /\ RadiusFollowed(frontier, current, todo, seen)'
    <2>1. RadiusExpanded(frontier, current, todo, seen, best)'
      BY <1>1, <1>7, <1>15 DEF RadiusExpanded, RadiusKnown, Radius!Start, Radius!Depth
    <2>2. RadiusReached(current, seen)'
      BY <1>1, <1>17 DEF RadiusReached, Radius!Depth
    <2>3. RadiusFollowed(frontier, current, todo, seen)'
      BY <1>1, <1>7, <1>18 DEF RadiusFollowed, Radius!Depth
    <2> QED BY <2>1, <2>2, <2>3
  <1> QED BY <1>8, <1>9, <1>10, <1>11, <1>12, <1>19 DEF RadiusInv

\* Every step keeps the invariant.
LEMMA RadiusNextInv == RadiusInv /\ [Radius!Next]_(Radius!vars) => RadiusInv'
  <1> SUFFICES ASSUME RadiusInv, [Radius!Next]_(Radius!vars) PROVE RadiusInv'
    OBVIOUS
  <1>1. CASE Radius!Pop
    BY <1>1, RadiusPopInv
  <1>2. CASE Radius!Finish
    BY <1>2, RadiusFinishInv
  <1>3. ASSUME NEW n \in RadiusNodes, Radius!Skip(n) PROVE RadiusInv'
    BY <1>3, RadiusSkipInv
  <1>4. ASSUME NEW n \in RadiusNodes, Radius!Visit(n) PROVE RadiusInv'
    BY <1>4, RadiusVisitInv
  <1>5. CASE UNCHANGED Radius!vars
    <2>1. UNCHANGED <<args, weight, frontier, current, todo, seen, best, search>>
      BY <1>5 DEF Radius!vars
    <2>2. Radius!TypeOK' /\ RadiusItems' /\ RadiusQueue' /\ RadiusEdges' /\ RadiusCount'
            /\ RadiusEnded'
      BY <2>1 DEF RadiusInv, Radius!TypeOK, RadiusItems, RadiusQueue, RadiusEdges, RadiusCount,
            RadiusEnded, Radius!Found
    <2>3. search # "budget_exceeded" =>
            /\ RadiusExpanded(frontier, current, todo, seen, best)'
            /\ RadiusReached(current, seen)' /\ RadiusFollowed(frontier, current, todo, seen)'
      BY <2>1 DEF RadiusInv, RadiusExpanded, RadiusReached, RadiusFollowed
    <2> QED BY <2>1, <2>2, <2>3 DEF RadiusInv
  <1> QED BY <1>1, <1>2, <1>3, <1>4, <1>5 DEF Radius!Next

-----------------------------------------------------------------------------
(* What the invariant says of the answer.                                  *)

\* The walks of the properties are the bounded ones.
LEMMA RadiusWalkIs ==
    ASSUME NEW w, args.depth \in Nat
    PROVE  w \in Radius!Walks /\ Radius!IsWalk(w) <=>
              RadiusGood(weight, w) /\ Len(w) > 1 /\ Len(w) <= args.depth + 1
  <1>1. ASSUME w \in Radius!Walks, Radius!IsWalk(w)
        PROVE  RadiusGood(weight, w) /\ Len(w) > 1 /\ Len(w) <= args.depth + 1
    <2>1. PICK k \in 2..(args.depth + 1) : w \in [1..k -> RadiusNodes]
      BY <1>1 DEF Radius!Walks
    <2>2. k \in Nat /\ w \in Seq(RadiusNodes) /\ DOMAIN w = 1..k
      BY <2>1, SeqDef
    <2>3. Len(w) = k
      BY <2>2, LenProperties
    <2>4. w # << >>
      BY <2>1, <2>2, <2>3, EmptySeq
    <2>5. w[1] = Root /\ \A i \in 2..k : RadiusEdgeOf(weight, w[i], w[i - 1])
      BY <1>1, <2>3 DEF Radius!IsWalk, Radius!InEdges, RadiusEdgeOf
    <2> QED BY <2>1, <2>2, <2>3, <2>4, <2>5 DEF RadiusGood
  <1>2. ASSUME RadiusGood(weight, w), Len(w) > 1, Len(w) <= args.depth + 1
        PROVE  w \in Radius!Walks /\ Radius!IsWalk(w)
    <2>1. w \in Seq(RadiusNodes) /\ Len(w) \in 2..(args.depth + 1)
      BY <1>2, RadiusGoodIs
    <2>2. w \in [1..Len(w) -> RadiusNodes]
      BY <2>1, LenProperties
    <2>3. Radius!IsWalk(w)
      BY <1>2 DEF Radius!IsWalk, Radius!InEdges, RadiusEdgeOf, RadiusGood
    <2> QED BY <2>1, <2>2, <2>3 DEF Radius!Walks
  <1> QED BY <1>1, <1>2

\* What is reported is a walk that affects its node.
LEMMA RadiusFoundAffects ==
    ASSUME RadiusInv, NEW n \in Radius!Found
    PROVE  best[n].path \in Radius!Affecting(n) /\ n \in RadiusNodes /\ n # Root
             /\ Radius!PathsAreReal
  <1>1. ASSUME NEW m \in Radius!Found
        PROVE  LET w == best[m].path IN
               /\ w \in Radius!Affecting(m) /\ Radius!IsWalk(w) /\ Radius!Last(w) = m
               /\ Len(w) <= args.depth + 1
               /\ \A i, j \in DOMAIN w : w[i] = w[j] => i = j
               /\ best[m].strength = Radius!Strength(w) /\ best[m].strength = seen[m]
    <2> DEFINE w == best[m].path
    <2>1. /\ RadiusItemOK(weight, args, seen, best[m]) /\ Radius!Last(w) = m
          /\ best[m].strength = seen[m]
          /\ args.min <= seen[m]
      BY DEF RadiusInv, RadiusItems
    <2>2. m \in RadiusNodes /\ m # Root
      BY DEF RadiusInv, Radius!TypeOK
    <2>3. /\ RadiusGood(weight, w) /\ best[m].strength = RadiusStr(weight, w)
          /\ Len(w) <= args.depth + 1
          /\ \A i, j \in 1..Len(w) : w[i] = w[j] => i = j
      BY <2>1 DEF RadiusItemOK
    <2> HIDE DEF w
    <2>4. /\ Len(w) \in Nat \ {0} /\ w[1] = Root /\ Radius!Last(w) = w[Len(w)]
          /\ DOMAIN w = 1..Len(w)
      BY <2>3, RadiusGoodIs
    <2>5. Len(w) > 1
      <3>1. Len(w) # 1
        BY <2>1, <2>2, <2>4
      <3> QED BY <2>4, <3>1
    <2>6. w \in Radius!Walks /\ Radius!IsWalk(w)
      BY <2>3, <2>5, RadiusInvIs, RadiusWalkIs
    <2>7. Radius!Strength(w) = RadiusStr(weight, w)
      BY RadiusStrengthIs
    <2>8. Radius!Strength(w) >= args.min
      <3>1. seen[m] \in Nat
        BY RadiusInvIs
      <3> QED BY <3>1, <2>1, <2>3, <2>7, RadiusInvIs
    <2>9. w \in Radius!Affecting(m)
      BY <2>1, <2>6, <2>8 DEF Radius!Affecting
    <2> QED BY <2>1, <2>3, <2>4, <2>6, <2>7, <2>9 DEF w
  <1>2. Radius!PathsAreReal
    BY <1>1 DEF Radius!PathsAreReal
  <1> QED BY <1>1, <1>2 DEF RadiusInv, Radius!TypeOK

\* When the search is done no bounded walk reaches further than is known: each
\* is as short as the path expanded last, or every known path was expanded.
LEMMA RadiusDoneReaches ==
    ASSUME RadiusInv, search = "done", NEW w, RadiusGood(weight, w), Len(w) <= args.depth + 1,
           args.min <= RadiusStr(weight, w)
    PROVE  Radius!Last(w) \in DOMAIN seen /\ RadiusStr(weight, w) <= seen[Radius!Last(w)]
  <1> DEFINE d == Radius!Depth(current)
  <1>1. /\ todo = {} /\ frontier = << >> /\ d \in Nat /\ d <= args.depth /\ args.depth \in Nat
        /\ RadiusExpanded(frontier, current, {}, seen, best) /\ RadiusReached(current, seen)
    BY RadiusInvIs DEF RadiusInv, RadiusEnded
  <1>2. CASE d = args.depth
    <2>1. Len(w) - 1 <= d
      BY <1>1, <1>2, RadiusGoodIs
    <2> QED BY <2>1, <1>1 DEF RadiusReached
  <1>3. CASE d < args.depth
    <2> DEFINE Bad(v) == /\ RadiusGood(weight, v) /\ args.min <= RadiusStr(weight, v)
                         /\ ~(/\ Radius!Last(v) \in DOMAIN seen
                              /\ RadiusStr(weight, v) <= seen[Radius!Last(v)])
               T == {k \in Nat : \E v : Bad(v) /\ Len(v) = k}
    <2> SUFFICES ASSUME Bad(w) PROVE FALSE
      OBVIOUS
    <2>1. Len(w) \in T
      BY RadiusGoodIs
    <2>2. PICK k \in T : \A y \in T : k <= y
      <3>1. T \subseteq Nat
        OBVIOUS
      <3> HIDE DEF T
      <3> QED BY <2>1, <3>1, RadiusLeastOf
    <2>3. PICK v : Bad(v) /\ Len(v) = k
      BY <2>2
    <2>4. k \in Nat \ {0}
      BY <2>3, RadiusGoodIs
    <2>5. k # 1
      <3>1. ~(Len(v) - 1 <= d)
        BY <2>3, <1>1 DEF RadiusReached
      <3> QED BY <3>1, <2>3, <2>4, <1>1
    <2>6. PICK u : /\ RadiusGood(weight, u) /\ Len(u) = k - 1
                   /\ RadiusEdgeOf(weight, Radius!Last(v), Radius!Last(u))
                   /\ RadiusStr(weight, v) = RadiusOver(weight, RadiusStr(weight, u),
                         Radius!Last(v), Radius!Last(u))
                   /\ RadiusStr(weight, u) \in Nat /\ RadiusStr(weight, v) \in Nat
                   /\ RadiusStr(weight, v) <= RadiusStr(weight, u) /\ Radius!Last(v) \in RadiusNodes
      <3>1. Len(v) > 1
        BY <2>3, <2>4, <2>5
      <3> QED BY <3>1, <2>3, RadiusInvIs, RadiusStrFront
    <2>7. ~Bad(u)
      <3>1. k - 1 \in Nat /\ k - 1 \notin T
        BY <2>2, <2>4
      <3> HIDE DEF Bad
      <3> QED BY <3>1, <2>6
    <2> DEFINE x == Radius!Last(u)  s == RadiusKnown(best, x).strength
    <2>8. x \in DOMAIN seen /\ RadiusStr(weight, u) <= seen[x]
      <3>1. args.min <= RadiusStr(weight, u)
        BY <2>3, <2>6, RadiusInvIs
      <3> QED BY <3>1, <2>6, <2>7
    <2>9. s = seen[x] /\ s \in Nat /\ Radius!Depth(RadiusKnown(best, x)) \in Nat
      BY <2>8, RadiusInvIs
    <2>10. RadiusOpened(weight, args.min, seen, {}, current, x, s)
      <3>1. ~ \E i \in 1..Len(frontier) : frontier[i] = RadiusKnown(best, x)
        <4>1. 1..Len(frontier) = {}
          BY <1>1
        <4> QED BY <4>1
      <3>2. /\ Radius!Depth(RadiusKnown(best, x)) <= d
            /\ args.depth <= Radius!Depth(RadiusKnown(best, x)) \/ RadiusOpened(weight, args.min,
                  seen, {}, current, x, s)
        BY <3>1, <2>8, <1>1 DEF RadiusExpanded
      <3> QED BY <3>2, <2>9, <1>1, <1>3
    <2>11. RadiusOpened(weight, args.min, seen, {}, current, x, RadiusStr(weight, u))
      BY <2>6, <2>8, <2>9, <2>10, RadiusInvIs, RadiusOpenedWeaker
    <2>12. Radius!Last(v) \in DOMAIN seen /\ RadiusStr(weight, v) <= seen[Radius!Last(v)]
      BY <2>3, <2>6, <2>11, RadiusOpenedDone
    <2> QED BY <2>3, <2>12
  <1> QED BY <1>1, <1>2, <1>3

\* The invariant gives what the search promises.
LEMMA RadiusInvExact == RadiusInv => Radius!RadiusExact
  <1> SUFFICES ASSUME RadiusInv PROVE Radius!RadiusExact
    OBVIOUS
  <1>1. Radius!TypeOK
    BY DEF RadiusInv
  <1>2. Radius!PathsAreReal
    <2>1. CASE Radius!Found = {}
      BY <2>1 DEF Radius!PathsAreReal
    <2> QED BY <2>1, RadiusFoundAffects
  <1>3. ASSUME search = "done", NEW n \in RadiusNodes \ {Root}, NEW w \in Radius!Affecting(n)
        PROVE  n \in Radius!Found /\ Radius!Strength(w) <= best[n].strength
    <2>1. w \in Radius!Walks /\ Radius!IsWalk(w) /\ Radius!Last(w) = n
            /\ Radius!Strength(w) >= args.min
      BY DEF Radius!Affecting
    <2>2. RadiusGood(weight, w) /\ Len(w) <= args.depth + 1
      BY <2>1, RadiusInvIs, RadiusWalkIs
    <2>3. Radius!Strength(w) = RadiusStr(weight, w) /\ RadiusStr(weight, w) \in Nat
      BY <2>2, RadiusInvIs, RadiusStrengthIs, RadiusStrNat
    <2>4. args.min <= RadiusStr(weight, w)
      BY <2>1, <2>3, RadiusInvIs
    <2>5. n \in DOMAIN seen /\ RadiusStr(weight, w) <= seen[n]
      BY <1>3, <2>1, <2>2, <2>4, RadiusDoneReaches
    <2>6. n \in Radius!Found
      BY <2>5, RadiusInvIs
    <2>7. best[n].strength = seen[n]
      BY <2>6 DEF RadiusInv, RadiusItems
    <2> QED BY <2>3, <2>5, <2>6, <2>7
  <1>4. Radius!StrongestPathReported
    BY <1>3, RadiusFoundAffects DEF Radius!StrongestPathReported
  <1>5. Radius!BudgetCountsNodes
    <2> DEFINE affected == {n \in RadiusNodes \ {Root} : Radius!Affecting(n) # {}}
    <2>1. Radius!Found \subseteq affected
      BY RadiusFoundAffects
    <2>2. search = "done" => affected \subseteq Radius!Found
      BY <1>3
    <2>3. affected \subseteq RadiusNodes
      OBVIOUS
    <2> HIDE DEF affected
    <2>4. IsFiniteSet(affected) /\ Cardinality(affected) \in Nat
      BY <2>3, RadiusOK, FS_Subset, FS_CardinalityType
    <2>5. Cardinality(Radius!Found) <= Cardinality(affected)
      BY <2>1, <2>4, FS_Subset
    <2>6. search = "done" => Cardinality(affected) <= Cardinality(Radius!Found)
      BY <2>2, RadiusInvIs, FS_Subset
    <2>7. search = "done" => Cardinality(affected) <= args.nodes
      <3> HAVE search = "done"
      <3>1. Cardinality(Radius!Found) <= args.nodes
        BY DEF RadiusInv, RadiusCount
      <3> QED BY <3>1, <2>4, <2>6, RadiusInvIs
    <2>8. search = "budget_exceeded" => Cardinality(affected) > args.nodes
      <3> HAVE search = "budget_exceeded"
      <3>1. Cardinality(Radius!Found) > args.nodes
        BY DEF RadiusInv, RadiusCount
      <3> QED BY <3>1, <2>4, <2>5, RadiusInvIs
    <2> QED BY <2>7, <2>8, RadiusCounts DEF Radius!BudgetCountsNodes, affected
  <1> QED BY <1>1, <1>2, <1>4, <1>5 DEF Radius!RadiusExact

\* The blast radius is exact, whatever the graph, the order of its edges and the
\* call: the paths reported are real and simple, the nodes are those some bounded
\* walk reaches at the least strength asked for, each with the strongest such
\* walk, and the budget is exceeded exactly when there are too many of them.
THEOREM RadiusIsExact == Radius!Spec => []RadiusExact
  <1>1. RadiusInv => RadiusExact
    BY RadiusInvExact DEF RadiusExact
  <1> QED BY <1>1, RadiusInitInv, RadiusNextInv, PTL DEF Radius!Spec

=============================================================================
