------------------------- MODULE InvalidationProofs -------------------------
(***************************************************************************)
(* Invalidations hold what they hold for as long as their reasons last,    *)
(* for any graph, any number of invalidations and any order of closing.    *)
(*                                                                         *)
(* The properties speak of the status a node has; what makes them hold is  *)
(* what the receipts remember.  A receipt may be written while another     *)
(* invalidation already holds the node, so the status it gives back is not *)
(* the status it saw but the one carried by the earlier receipt: the       *)
(* invariant says that every receipt of a node that was only ever affected *)
(* carries one of its original statuses.                                   *)
(***************************************************************************)
EXTENDS Invalidation, SequenceTheorems, WellFoundedInduction, TLAPS

\* The statuses an assumption can be in.
AssumptionStatuses ==
    {"active", "uncertain", "invalidated", "superseded", "resolved", "quarantined"}

\* The statuses of a node that nothing ever acted on.
Original(n) == IF n \in Assumptions THEN {"active"} ELSE {"open", "verified"}

\* Never a target, never quarantined.
OnlyAffected(n) == n \notin quarantined /\ \A i \in Invs : inv[i].target # n

\* Receipts are written when an invalidation is fired and witnessed when it opens.
ReceiptsOK ==
    \A i \in Invs :
        /\ inv[i].state = "unfired" => inv[i].target = None
        /\ inv[i].state # "unfired" => /\ inv[i].target \in Nodes
                                       /\ inv[i].receipts[inv[i].target].impact = "target"
        /\ \A n \in Nodes :
              LET r == inv[i].receipts[n] IN
              /\ inv[i].state = "unfired" => r = NoReceipt
              /\ inv[i].state = "pending" \/ r.impact = "none" => ~r.applied
              /\ r.impact = "target" => inv[i].target = n
              /\ r.impact # "none" =>
                    r.restore \in IF n \in Assumptions THEN AssumptionStatuses ELSE Statuses

\* What a node that was only ever affected carries in its receipts and its status.
AffectedOK ==
    \A n \in Nodes : OnlyAffected(n) =>
        /\ n \notin withdrawn
        /\ \A i \in Invs :
              inv[i].receipts[n].impact # "none" => inv[i].receipts[n].restore \in Original(n)
        /\ Holders(n) = {} => status[n] \in Original(n)
        /\ Holders(n) # {} => status[n] \in {"uncertain", "blocked"}

LifecycleOK ==
    \A n \in Assumptions : status[n] \in AssumptionStatuses /\ n \notin withdrawn

\* An invalidation that opened on a superseded assumption changed nothing.
SupersededOK ==
    \A i \in Invs, n \in Assumptions :
        inv[i].state = "open" /\ status[n] = "superseded" /\ Acts(inv[i].receipts[n])
            => ~inv[i].receipts[n].applied

IInv ==
    /\ TypeOK
    /\ HolderKeepsHold
    /\ WithdrawnStaysDown
    /\ LifecycleOK
    /\ ReceiptsOK
    /\ AffectedOK
    /\ SupersededOK

-----------------------------------------------------------------------------
\* A non-empty set of positions has a least one.
LEMMA LeastExists ==
    ASSUME NEW T \in SUBSET Nat, T # {}
    PROVE  Min(T) \in T
  <1> DEFINE R == {ss \in Nat \X Nat : ss[1] < ss[2]}
  <1>1. IsWellFoundedOn(R, Nat)
    BY NatLessThanWellFounded, Zenon DEF OpToRel
  <1>2. \A x, y \in Nat : y < x => <<y, x>> \in R
    OBVIOUS
  <1> HIDE DEF R
  <1>3. PICK x \in T : \A y \in T : ~ (<<y, x>> \in R)
    BY <1>1, WFMin
  <1>4. \A y \in T : x <= y
    <2> TAKE y \in T
    <2>1. x \in Nat /\ y \in Nat
      OBVIOUS
    <2>2. ~(y < x)
      BY <1>2, <1>3, <2>1, Zenon
    <2> QED BY <2>1, <2>2
  <1> QED BY <1>4 DEF Min

\* The status to restore is the current one only when no open invalidation names
\* the node; otherwise it is the one such an invalidation carries.
LEMMA HeldRestoreIs ==
    ASSUME TypeOK, NEW st, NEW n \in Nodes
    PROVE  \/ /\ HeldRestore(st, n) = st[n]
              /\ \A j \in Invs : inv[j].state = "open" => inv[j].receipts[n].impact = "none"
           \/ \E j \in Invs : /\ inv[j].state = "open"
                              /\ inv[j].receipts[n].impact # "none"
                              /\ HeldRestore(st, n) = inv[j].receipts[n].restore
  <1> DEFINE naming == {k \in DOMAIN opened : inv[opened[k]].receipts[n].impact # "none"}
  <1>1. /\ {opened[k] : k \in DOMAIN opened} = {i \in Invs : inv[i].state = "open"}
        /\ DOMAIN opened \subseteq Nat
    BY LenProperties DEF TypeOK
  <1>2. CASE naming = {}
    <2>1. HeldRestore(st, n) = st[n]
      BY <1>2 DEF HeldRestore
    <2>2. ASSUME NEW j \in Invs, inv[j].state = "open" PROVE inv[j].receipts[n].impact = "none"
      <3>1. PICK k \in DOMAIN opened : opened[k] = j
        BY <1>1, <2>2
      <3> QED BY <1>2, <3>1
    <2> QED BY <2>1, <2>2
  <1>3. CASE naming # {}
    <2>1. Min(naming) \in naming
      BY <1>1, <1>3, LeastExists
    <2>2. HeldRestore(st, n) = inv[opened[Min(naming)]].receipts[n].restore
      BY <1>3 DEF HeldRestore
    <2> QED BY <1>1, <2>1, <2>2
  <1> QED BY <1>2, <1>3

\* Closing an invalidation takes exactly its row out of the open ones.
LEMMA RowRemoved ==
    ASSUME TypeOK, NEW i \in Invs, inv[i].state = "open"
    PROVE  LET o == RemoveAt(opened, Row(i)) IN
           /\ o \in Seq(Invs)
           /\ {o[k] : k \in DOMAIN o} = {opened[k] : k \in DOMAIN opened} \ {i}
           /\ \A j, k \in DOMAIN o : o[j] = o[k] => j = k
  <1> DEFINE r == Row(i)
             a == SubSeq(opened, 1, r - 1)
             b == SubSeq(opened, r + 1, Len(opened))
             o == RemoveAt(opened, r)
  <1>1. /\ opened \in Seq(Invs) /\ Len(opened) \in Nat
        /\ DOMAIN opened = 1..Len(opened)
        /\ \A j, k \in DOMAIN opened : opened[j] = opened[k] => j = k
        /\ i \in {opened[k] : k \in DOMAIN opened}
    BY LenProperties DEF TypeOK
  <1>2. r \in 1..Len(opened) /\ opened[r] = i
    BY <1>1 DEF Row
  <1>3. o = a \o b
    BY DEF RemoveAt
  <1> HIDE DEF r, o
  <1>4. /\ a \in Seq(Invs) /\ Len(a) = r - 1
        /\ \A k \in 1..(r - 1) : a[k] = opened[k]
    BY <1>1, <1>2, SubSeqProperties
  <1>5. /\ b \in Seq(Invs) /\ Len(b) = Len(opened) - r
        /\ \A k \in 1..(Len(opened) - r) : b[k] = opened[r + k]
    <2>1. r + 1 \in Int /\ Len(opened) \in Int /\ \A k \in (r + 1)..Len(opened) : opened[k] \in Invs
      BY <1>1, <1>2, LenProperties
    <2>2. /\ b \in Seq(Invs)
          /\ Len(b) = IF r + 1 <= Len(opened) THEN Len(opened) - (r + 1) + 1 ELSE 0
          /\ \A k \in 1..(Len(opened) - (r + 1) + 1) : b[k] = opened[r + 1 + k - 1]
      BY <2>1, SubSeqProperties
    <2> HIDE DEF b
    <2>3. Len(b) = Len(opened) - r
      <3>1. Len(opened) \in Nat /\ r \in Nat /\ r <= Len(opened)
        BY <1>1, <1>2
      <3>2. CASE r + 1 <= Len(opened)
        BY <1>1, <2>2, <3>1, <3>2
      <3>3. CASE r = Len(opened)
        <4>1. ~(r + 1 <= Len(opened)) /\ Len(opened) - r = 0
          BY <1>1, <3>1, <3>3
        <4>2. Len(b) = 0
          BY <2>2, <4>1, Zenon
        <4> QED BY <4>1, <4>2
      <3>4. r + 1 <= Len(opened) \/ r = Len(opened)
        BY <3>1
      <3> QED BY <3>2, <3>3, <3>4, Zenon
    <2>4. ASSUME NEW k \in 1..(Len(opened) - r) PROVE b[k] = opened[r + k]
      <3>1. k \in 1..(Len(opened) - (r + 1) + 1) /\ r + 1 + k - 1 = r + k
        BY <1>1, <1>2
      <3> QED BY <2>2, <3>1
    <2> QED BY <2>2, <2>3, <2>4
  <1> HIDE DEF a, b
  <1>6. /\ o \in Seq(Invs) /\ Len(o) = Len(opened) - 1 /\ DOMAIN o = 1..(Len(opened) - 1)
        /\ \A k \in 1..(Len(opened) - 1) :
              o[k] = IF k < r THEN opened[k] ELSE opened[k + 1]
    <2>1. /\ o \in Seq(Invs)
          /\ Len(o) = Len(a) + Len(b)
          /\ \A k \in 1..(Len(a) + Len(b)) : o[k] = IF k <= Len(a) THEN a[k] ELSE b[k - Len(a)]
      BY <1>3, <1>4, <1>5, ConcatProperties
    <2>2. Len(a) + Len(b) = Len(opened) - 1 /\ Len(a) = r - 1
      BY <1>1, <1>2, <1>4, <1>5
    <2>3. DOMAIN o = 1..(Len(opened) - 1)
      BY <2>1, <2>2, LenProperties
    <2>4. ASSUME NEW k \in 1..(Len(opened) - 1)
          PROVE  o[k] = IF k < r THEN opened[k] ELSE opened[k + 1]
      <3>1. CASE k < r
        BY <1>1, <1>2, <1>4, <2>1, <2>2, <3>1
      <3>2. CASE k >= r
        <4>1. k - (r - 1) \in 1..(Len(opened) - r) /\ r + (k - (r - 1)) = k + 1
          BY <1>1, <1>2, <3>2
        <4>2. o[k] = b[k - (r - 1)]
          <5>1. k \in 1..(Len(a) + Len(b)) /\ ~(k <= Len(a))
            BY <1>1, <1>2, <2>2, <3>2
          <5> QED BY <2>1, <2>2, <5>1
        <4>3. b[k - (r - 1)] = opened[k + 1]
          BY <1>5, <4>1
        <4>4. ~(k < r)
          BY <1>1, <1>2, <3>2
        <4> QED BY <4>2, <4>3, <4>4
      <3> QED BY <1>1, <1>2, <3>1, <3>2
    <2> QED BY <2>1, <2>2, <2>3, <2>4
  <1>7. \A j, k \in DOMAIN o : o[j] = o[k] => j = k
    <2> DEFINE Old(k) == IF k < r THEN k ELSE k + 1
    <2>1. ASSUME NEW k \in DOMAIN o PROVE Old(k) \in DOMAIN opened /\ o[k] = opened[Old(k)]
      <3>1. k \in 1..(Len(opened) - 1)
        BY <1>6
      <3>2. k \in 1..Len(opened) /\ k + 1 \in 1..Len(opened)
        BY <1>1, <3>1
      <3> QED BY <1>1, <1>6, <3>1, <3>2
    <2>2. ASSUME NEW j \in DOMAIN o, NEW k \in DOMAIN o, Old(j) = Old(k) PROVE j = k
      <3>1. j \in Int /\ k \in Int /\ r \in Int
        BY <1>1, <1>2, <1>6
      <3> QED BY <2>2, <3>1
    <2> HIDE DEF Old
    <2> SUFFICES ASSUME NEW j \in DOMAIN o, NEW k \in DOMAIN o, o[j] = o[k] PROVE j = k
      OBVIOUS
    <2>3. Old(j) = Old(k)
      BY <1>1, <2>1
    <2> QED BY <2>2, <2>3
  <1>8. ASSUME NEW k \in DOMAIN o
        PROVE  o[k] \in {opened[l] : l \in DOMAIN opened} \ {i}
    <2>1. k \in DOMAIN opened /\ k + 1 \in DOMAIN opened
      BY <1>1, <1>6
    <2>2. CASE k < r
      BY <1>1, <1>2, <1>6, <2>1, <2>2
    <2>3. CASE ~(k < r)
      BY <1>1, <1>2, <1>6, <2>1, <2>3
    <2> QED BY <2>2, <2>3
  <1>9. ASSUME NEW l \in DOMAIN opened, opened[l] # i
        PROVE  \E k \in DOMAIN o : o[k] = opened[l]
    <2>1. CASE l < r
      BY <1>1, <1>2, <1>6, <2>1
    <2>2. CASE l > r
      <3>1. l - 1 \in DOMAIN o /\ o[l - 1] = opened[l]
        BY <1>1, <1>2, <1>6, <2>2
      <3> QED BY <3>1
    <2> QED BY <1>1, <1>2, <1>9, <2>1, <2>2
  <1>10. {o[k] : k \in DOMAIN o} = {opened[k] : k \in DOMAIN opened} \ {i}
    BY <1>8, <1>9
  <1> QED BY <1>6, <1>7, <1>10 DEF o, r

-----------------------------------------------------------------------------
(* What an impact does to a status.                                        *)

\* Statuses from which impacts are applied: an assumption is in its lifecycle.
StatusesFit(st) ==
    st \in [Nodes -> Statuses] /\ \A n \in Assumptions : st[n] \in AssumptionStatuses

\* The lifecycle: an assumption that stands can always be lowered, and one that was
\* superseded cannot.
LEMMA Lifecycle ==
    /\ AssumptionTransitions["active"] = {"uncertain", "invalidated", "superseded", "resolved"}
    /\ AssumptionTransitions["superseded"] = {}
  <1>1. "active" \in Statuses /\ "superseded" \in Statuses
    BY DEF Statuses, Standing
  <1> QED BY <1>1 DEF AssumptionTransitions

LEMMA AppliedIs ==
    ASSUME NEW st, StatusesFit(st), NEW rs \in [Nodes -> Receipt], NEW n \in Nodes
    PROVE  LET a == Applied(st, rs)[n] IN
           /\ a \in Statuses
           /\ n \in Assumptions => a \in AssumptionStatuses
           /\ ~Acts(rs[n]) => a = st[n]
           /\ Acts(rs[n]) => a \notin Standing
           /\ st[n] \notin Standing => a \notin Standing
           /\ (Acts(rs[n]) /\ rs[n].impact # "target"
                 /\ st[n] \in Original(n) \cup {"uncertain", "blocked"})
                 => a \in {"uncertain", "blocked"}
           /\ n \in Assumptions => (a = "superseded" <=> st[n] = "superseded")
  <1> DEFINE a == Applied(st, rs)[n]
             w == Asked(n, rs[n].impact)
  <1>1. a = IF Acts(rs[n]) /\ MayBecome(n, st[n], w) THEN w ELSE st[n]
    BY DEF Applied
  <1>2. /\ w \in {"invalidated", "blocked", "uncertain"}
        /\ n \in Assumptions => w # "blocked"
        /\ rs[n].impact # "target" => w # "invalidated"
    BY DEF Asked
  <1>3. /\ n \notin Assumptions => MayBecome(n, st[n], w)
        /\ n \in Assumptions => (MayBecome(n, st[n], w)
                                   <=> (st[n] = w \/ w \in AssumptionTransitions[st[n]]))
    BY DEF MayBecome
  <1>4. st[n] \in Statuses /\ (n \in Assumptions => st[n] \in AssumptionStatuses)
    BY DEF StatusesFit
  <1> HIDE DEF a, w
  <1>5. CASE n \notin Assumptions
    BY <1>1, <1>2, <1>3, <1>4, <1>5 DEF Statuses, Standing, a
  <1>6. CASE n \in Assumptions /\ st[n] = "active"
    BY <1>1, <1>2, <1>3, <1>4, <1>6, Lifecycle DEF Statuses, Standing, AssumptionStatuses, a
  <1>7. CASE n \in Assumptions /\ st[n] = "superseded"
    BY <1>1, <1>2, <1>3, <1>4, <1>7, Lifecycle DEF Statuses, Standing, AssumptionStatuses, Original, a
  <1>8. CASE n \in Assumptions /\ st[n] \notin {"active", "superseded"}
    BY <1>1, <1>2, <1>3, <1>4, <1>8 DEF Statuses, Standing, AssumptionStatuses, Original, a
  <1> QED BY <1>5, <1>6, <1>7, <1>8

LEMMA WitnessedIs ==
    ASSUME NEW st, NEW rs \in [Nodes -> Receipt], NEW n \in Nodes
    PROVE  LET r == Witnessed(st, rs)[n] IN
           /\ r \in Receipt
           /\ r.impact = rs[n].impact
           /\ r.restore = rs[n].restore
           /\ Acts(rs[n]) => (r.applied <=> Applied(st, rs)[n] # st[n])
           /\ ~Acts(rs[n]) => r.applied = rs[n].applied
  <1> DEFINE b == Applied(st, rs)[n] # st[n]
             r == Witnessed(st, rs)[n]
  <1>1. r = IF Acts(rs[n]) THEN [rs[n] EXCEPT !.applied = b] ELSE rs[n]
    BY DEF Witnessed
  <1>2. b \in BOOLEAN
    OBVIOUS
  <1>3. \A v \in BOOLEAN : LET x == [rs[n] EXCEPT !.applied = v] IN
            x \in Receipt /\ x.impact = rs[n].impact /\ x.restore = rs[n].restore /\ x.applied = v
    BY DEF Receipt
  <1>4. rs[n] \in Receipt
    OBVIOUS
  <1> HIDE DEF b, r
  <1>5. CASE Acts(rs[n])
    BY <1>1, <1>2, <1>3, <1>5 DEF b, r
  <1>6. CASE ~Acts(rs[n])
    BY <1>1, <1>4, <1>6 DEF r
  <1> QED BY <1>5, <1>6

\* Receipts that an invalidation of t may carry.
ReceiptsFit(rs, t) ==
    /\ rs \in [Nodes -> Receipt]
    /\ rs[t].impact = "target"
    /\ \A n \in Nodes :
          /\ ~rs[n].applied
          /\ rs[n].impact = "target" => n = t
          /\ rs[n].impact # "none" =>
                rs[n].restore \in IF n \in Assumptions THEN AssumptionStatuses ELSE Statuses
          /\ n # t /\ OnlyAffected(n) /\ rs[n].impact # "none" => rs[n].restore \in Original(n)

\* fire writes such receipts: what it reads through an earlier receipt is as good as
\* what it reads from the node.
LEMMA ReceiptsAre ==
    ASSUME IInv, NEW st, StatusesFit(st), NEW t \in Nodes, NEW weak \in BOOLEAN,
           \A n \in Nodes \ {t} : st[n] = status[n]
    PROVE  ReceiptsFit(Receipts(st, t, weak), t)
  <1> DEFINE rs == Receipts(st, t, weak)
  <1>1. ASSUME NEW n \in Nodes
        PROVE  /\ rs[n] \in Receipt
               /\ n = t => rs[n].impact = "target"
               /\ ~rs[n].applied
               /\ rs[n].impact = "target" => n = t
               /\ rs[n].impact # "none" =>
                    rs[n].restore \in IF n \in Assumptions THEN AssumptionStatuses ELSE Statuses
               /\ n # t /\ OnlyAffected(n) /\ rs[n].impact # "none" => rs[n].restore \in Original(n)
    <2>1. ImpactOf(t, n, weak) \in Impacts /\ ImpactOf(t, n, weak) # "target"
      BY InvalidationAssumption DEF ImpactOf, Impacts
    <2> DEFINE m == IF n = t THEN "target" ELSE ImpactOf(t, n, weak)
               h == HeldRestore(st, n)
    <2>2. m \in Impacts \cup {"target"} /\ (m = "target" <=> n = t)
      BY <2>1
    <2>3. rs[n] = IF n # t /\ Impact[t][n] = "none" THEN NoReceipt
                  ELSE [impact |-> m, restore |-> h, applied |-> FALSE]
      BY DEF Receipts
    <2>4. /\ h \in IF n \in Assumptions THEN AssumptionStatuses ELSE Statuses
          /\ h \in Statuses
          /\ n # t /\ OnlyAffected(n) => h \in Original(n)
      <3>1. CASE /\ h = st[n]
                 /\ \A j \in Invs : inv[j].state = "open" => inv[j].receipts[n].impact = "none"
        <4>1. Holders(n) = {}
          BY <3>1 DEF Holders, Acts
        <4>2. n # t /\ OnlyAffected(n) => h \in Original(n)
          BY <3>1, <4>1 DEF IInv, AffectedOK
        <4>3. st[n] \in Statuses /\ (n \in Assumptions => st[n] \in AssumptionStatuses)
          BY DEF StatusesFit
        <4> QED BY <3>1, <4>2, <4>3
      <3>2. ASSUME NEW j \in Invs, inv[j].receipts[n].impact # "none",
                   h = inv[j].receipts[n].restore
            PROVE  /\ h \in IF n \in Assumptions THEN AssumptionStatuses ELSE Statuses
                   /\ h \in Statuses
                   /\ n # t /\ OnlyAffected(n) => h \in Original(n)
        BY <3>2 DEF IInv, ReceiptsOK, AffectedOK, AssumptionStatuses, Statuses, Standing
      <3>3. TypeOK
        BY DEF IInv
      <3> QED BY <3>1, <3>2, <3>3, HeldRestoreIs
    <2> HIDE DEF m, h, rs
    <2>5. CASE n # t /\ Impact[t][n] = "none"
      BY <2>3, <2>5 DEF NoReceipt, Receipt, Impacts
    <2>6. CASE ~(n # t /\ Impact[t][n] = "none")
      <3>1. rs[n] = [impact |-> m, restore |-> h, applied |-> FALSE]
        BY <2>3, <2>6
      <3>2. rs[n].impact = m /\ rs[n].restore = h /\ rs[n].applied = FALSE /\ rs[n] \in Receipt
        BY <2>2, <2>4, <3>1 DEF Receipt
      <3> QED BY <2>2, <2>4, <3>2
    <2> QED BY <2>5, <2>6
  <1>2. rs \in [Nodes -> Receipt]
    <2>1. rs = [n \in Nodes |-> rs[n]]
      BY DEF Receipts
    <2> HIDE DEF rs
    <2> QED BY <1>1, <2>1
  <1> HIDE DEF rs
  <1>3. ReceiptsFit(rs, t)
    BY <1>1, <1>2 DEF ReceiptsFit
  <1> QED BY <1>3 DEF rs

-----------------------------------------------------------------------------
(* One lemma per kind of step.                                             *)

\* An invalidation of t opens, with receipts rs, on statuses st.
Opens(i, t, st, rs, c) ==
    /\ inv[i].state \in {"unfired", "pending"}
    /\ inv[i].target \in {None, t}
    /\ inv' = [inv EXCEPT ![i] = [state |-> "open", target |-> t,
                                  receipts |-> Witnessed(st, rs), critical |-> c]]
    /\ status' = Applied(st, rs)
    /\ opened' = Append(opened, i)

LEMMA OpenKeeps ==
    ASSUME IInv, NEW i \in Invs, NEW t \in Nodes, NEW st, NEW rs, NEW c \in BOOLEAN,
           StatusesFit(st), ReceiptsFit(rs, t), Opens(i, t, st, rs, c),
           \A n \in Nodes \ {t} : st[n] = status[n],
           st[t] = status[t] \/ st[t] = "revoked",
           withdrawn' = withdrawn \/ (withdrawn' = withdrawn \cup {t} /\ t \notin Assumptions),
           quarantined' = quarantined, downgraded' \in BOOLEAN
    PROVE  IInv'
  <1> DEFINE ws == Witnessed(st, rs)
             new == [state |-> "open", target |-> t, receipts |-> ws, critical |-> c]
  <1>1. /\ TypeOK /\ HolderKeepsHold /\ WithdrawnStaysDown /\ LifecycleOK
        /\ ReceiptsOK /\ AffectedOK /\ SupersededOK
    BY DEF IInv
  <1>2. rs \in [Nodes -> Receipt]
    BY DEF ReceiptsFit
  <1>3. /\ ws \in [Nodes -> Receipt]
        /\ \A n \in Nodes :
              /\ ws[n].impact = rs[n].impact
              /\ ws[n].restore = rs[n].restore
              /\ Acts(ws[n]) <=> Acts(rs[n])
              /\ Acts(rs[n]) => (ws[n].applied <=> status'[n] # st[n])
              /\ ~Acts(rs[n]) => ws[n].applied = rs[n].applied
    <2>1. ws = [n \in Nodes |-> ws[n]] /\ status' = Applied(st, rs)
      BY DEF Witnessed, Opens
    <2> HIDE DEF ws
    <2>2. \A n \in Nodes : ws[n] \in Receipt
      BY <1>2, WitnessedIs DEF ws
    <2>3. \A n \in Nodes :
              /\ ws[n].impact = rs[n].impact
              /\ ws[n].restore = rs[n].restore
              /\ Acts(rs[n]) => (ws[n].applied <=> status'[n] # st[n])
              /\ ~Acts(rs[n]) => ws[n].applied = rs[n].applied
      BY <1>2, <2>1, WitnessedIs DEF ws
    <2> QED BY <2>1, <2>2, <2>3 DEF Acts
  <1> HIDE DEF ws
  <1>4. /\ new \in Invalidations
        /\ new.state = "open" /\ new.target = t /\ new.receipts = ws
    BY <1>3 DEF Invalidations
  <1>5. /\ inv' \in [Invs -> Invalidations]
        /\ inv'[i] = new
        /\ \A j \in Invs : j # i => inv'[j] = inv[j]
    <2>1. inv' = [inv EXCEPT ![i] = new]
      BY DEF Opens, ws
    <2> HIDE DEF new
    <2> QED BY <1>1, <1>4, <2>1 DEF TypeOK
  <1> HIDE DEF new
  <1>6. \A n \in Nodes :
           /\ status'[n] \in Statuses
           /\ n \in Assumptions => status'[n] \in AssumptionStatuses
           /\ ~Acts(rs[n]) => status'[n] = st[n]
           /\ Acts(rs[n]) => status'[n] \notin Standing
           /\ st[n] \notin Standing => status'[n] \notin Standing
           /\ (Acts(rs[n]) /\ rs[n].impact # "target"
                 /\ st[n] \in Original(n) \cup {"uncertain", "blocked"})
                 => status'[n] \in {"uncertain", "blocked"}
           /\ n \in Assumptions => (status'[n] = "superseded" <=> st[n] = "superseded")
    BY <1>2, AppliedIs DEF Opens
  <1>7. inv[i].state # "open"
    BY DEF Opens
  <1>8. \A n \in Nodes : status[n] \notin Standing => st[n] \notin Standing
    BY DEF Standing
  <1>9. TypeOK'
    <2>1. status' \in [Nodes -> Statuses]
      <3>1. status' = [n \in Nodes |-> status'[n]]
        BY DEF Opens, Applied
      <3> QED BY <1>6, <3>1
    <2>2. /\ opened' \in Seq(Invs)
          /\ DOMAIN opened = 1..Len(opened) /\ Len(opened) \in Nat
          /\ DOMAIN opened' = 1..(Len(opened) + 1)
          /\ \A k \in 1..Len(opened) : opened'[k] = opened[k]
          /\ opened'[Len(opened) + 1] = i
      BY <1>1, AppendProperties, LenProperties DEF Opens, TypeOK
    <2>3. i \notin {opened[k] : k \in DOMAIN opened}
      BY <1>1, <1>7 DEF TypeOK
    <2>4. DOMAIN opened' = DOMAIN opened \cup {Len(opened) + 1}
      BY <2>2
    <2>5. {opened'[k] : k \in DOMAIN opened'} = {opened[k] : k \in DOMAIN opened} \cup {i}
      BY <2>2, <2>4
    <2>6. {j \in Invs : inv'[j].state = "open"} = {j \in Invs : inv[j].state = "open"} \cup {i}
      BY <1>4, <1>5
    <2>7. {opened'[k] : k \in DOMAIN opened'} = {j \in Invs : inv'[j].state = "open"}
      BY <1>1, <2>5, <2>6 DEF TypeOK
    <2>8. \A j, k \in DOMAIN opened' : opened'[j] = opened'[k] => j = k
      BY <1>1, <2>2, <2>3, <2>4 DEF TypeOK
    <2>9. withdrawn' \subseteq Nodes /\ quarantined' \subseteq Nodes /\ downgraded' \in BOOLEAN
      BY <1>1 DEF TypeOK
    <2> QED BY <1>5, <2>1, <2>2, <2>7, <2>8, <2>9 DEF TypeOK
  <1>10. HolderKeepsHold'
    <2>1. ASSUME NEW j \in Invs, NEW n \in Nodes, inv'[j].state = "open", Acts(inv'[j].receipts[n])
          PROVE  status'[n] \notin Standing
      <3>1. CASE j = i
        BY <1>3, <1>4, <1>5, <1>6, <2>1, <3>1
      <3>2. CASE j # i
        <4>1. status[n] \notin Standing
          BY <1>1, <1>5, <2>1, <3>2 DEF HolderKeepsHold
        <4> QED BY <1>6, <1>8, <4>1
      <3> QED BY <3>1, <3>2
    <2> QED BY <2>1 DEF HolderKeepsHold, Acts
  <1>11. WithdrawnStaysDown'
    <2>1. Acts(rs[t])
      BY DEF ReceiptsFit, Acts
    <2>2. withdrawn \subseteq Nodes
      BY <1>1 DEF TypeOK
    <2> QED BY <1>1, <1>6, <1>8, <2>1, <2>2 DEF WithdrawnStaysDown
  <1>12. LifecycleOK'
    BY <1>1, <1>6, InvalidationAssumption DEF LifecycleOK
  <1>13. ReceiptsOK'
    <2>1. ASSUME NEW n \in Nodes
          PROVE  /\ ws[n].impact = "none" => ~ws[n].applied
                 /\ ws[n].impact = "target" => n = t
                 /\ ws[n].impact # "none" =>
                      ws[n].restore \in IF n \in Assumptions THEN AssumptionStatuses ELSE Statuses
      BY <1>3 DEF ReceiptsFit, Acts
    <2>2. ws[t].impact = "target"
      BY <1>3 DEF ReceiptsFit
    <2>3. ASSUME NEW j \in Invs
          PROVE  /\ inv'[j].state = "unfired" => inv'[j].target = None
                 /\ inv'[j].state # "unfired" =>
                      inv'[j].target \in Nodes /\ inv'[j].receipts[inv'[j].target].impact = "target"
      <3>1. CASE j = i
        BY <1>4, <1>5, <2>2, <3>1
      <3>2. CASE j # i
        BY <1>1, <1>5, <3>2 DEF ReceiptsOK
      <3> QED BY <3>1, <3>2
    <2>4. ASSUME NEW j \in Invs, NEW n \in Nodes
          PROVE  LET r == inv'[j].receipts[n] IN
                 /\ inv'[j].state = "unfired" => r = NoReceipt
                 /\ inv'[j].state = "pending" \/ r.impact = "none" => ~r.applied
                 /\ r.impact = "target" => inv'[j].target = n
                 /\ r.impact # "none" =>
                      r.restore \in IF n \in Assumptions THEN AssumptionStatuses ELSE Statuses
      <3>1. CASE j = i
        BY <1>4, <1>5, <2>1, <3>1
      <3>2. CASE j # i
        BY <1>1, <1>5, <3>2 DEF ReceiptsOK
      <3> QED BY <3>1, <3>2
    <2> QED BY <2>3, <2>4 DEF ReceiptsOK
  <1>14. AffectedOK'
    <2> SUFFICES ASSUME NEW n \in Nodes, OnlyAffected(n)'
                 PROVE  /\ n \notin withdrawn'
                        /\ \A j \in Invs : inv'[j].receipts[n].impact # "none"
                                             => inv'[j].receipts[n].restore \in Original(n)
                        /\ Holders(n)' = {} => status'[n] \in Original(n)
                        /\ Holders(n)' # {} => status'[n] \in {"uncertain", "blocked"}
      BY DEF AffectedOK, Original
    <2>1. /\ n \notin quarantined /\ n # t
          /\ \A j \in Invs : j # i => inv[j].target # n
      BY <1>4, <1>5 DEF OnlyAffected
    <2>2. OnlyAffected(n)
      BY <2>1, InvalidationAssumption DEF OnlyAffected, Opens
    <2>3. n \notin withdrawn'
      BY <1>1, <2>1, <2>2 DEF AffectedOK
    <2>4. ASSUME NEW j \in Invs, inv'[j].receipts[n].impact # "none"
          PROVE  inv'[j].receipts[n].restore \in Original(n)
      <3>1. CASE j = i
        BY <1>3, <1>4, <1>5, <2>1, <2>2, <2>4, <3>1 DEF ReceiptsFit
      <3>2. CASE j # i
        BY <1>1, <1>5, <2>2, <2>4, <3>2 DEF AffectedOK
      <3> QED BY <3>1, <3>2
    <2>5. /\ Holders(n) \subseteq Holders(n)'
          /\ Acts(rs[n]) => i \in Holders(n)'
          /\ ~Acts(rs[n]) => Holders(n)' = Holders(n)
      <3>1. Acts(inv'[i].receipts[n]) <=> Acts(rs[n])
        BY <1>3, <1>4, <1>5
      <3>2. \A j \in Invs : j \in Holders(n)' <=> inv'[j].state = "open" /\ Acts(inv'[j].receipts[n])
        BY DEF Holders, Acts
      <3>3. \A j \in Invs : j # i => (j \in Holders(n)' <=> j \in Holders(n))
        BY <1>5, <3>2 DEF Holders
      <3>4. i \notin Holders(n) /\ Holders(n) \subseteq Invs /\ Holders(n)' \subseteq Invs
        BY <1>7 DEF Holders
      <3> QED BY <1>4, <1>5, <3>1, <3>2, <3>3, <3>4
    <2>6. /\ Holders(n) = {} => status[n] \in Original(n)
          /\ Holders(n) # {} => status[n] \in {"uncertain", "blocked"}
      BY <1>1, <2>2 DEF AffectedOK
    <2>7. st[n] = status[n] /\ rs[n].impact # "target"
      BY <2>1 DEF ReceiptsFit
    <2>8. CASE Acts(rs[n])
      BY <1>6, <2>3, <2>4, <2>5, <2>6, <2>7, <2>8
    <2>9. CASE ~Acts(rs[n])
      BY <1>6, <2>3, <2>4, <2>5, <2>6, <2>7, <2>9
    <2> QED BY <2>8, <2>9
  <1>15. SupersededOK'
    <2>1. ASSUME NEW j \in Invs, NEW n \in Assumptions, inv'[j].state = "open",
                 status'[n] = "superseded", Acts(inv'[j].receipts[n])
          PROVE  ~inv'[j].receipts[n].applied
      <3>1. n \in Nodes
        BY InvalidationAssumption
      <3>2. st[n] = "superseded" /\ status[n] = "superseded"
        BY <1>6, <2>1, <3>1
      <3>3. CASE j = i
        BY <1>3, <1>4, <1>5, <2>1, <3>1, <3>2, <3>3
      <3>4. CASE j # i
        BY <1>1, <1>5, <2>1, <3>2, <3>4 DEF SupersededOK
      <3> QED BY <3>3, <3>4
    <2> QED BY <2>1 DEF SupersededOK, Acts
  <1> QED BY <1>9, <1>10, <1>11, <1>12, <1>13, <1>14, <1>15 DEF IInv

\* Behind the human gate only the record is written.
LEMMA PendingKeeps ==
    ASSUME IInv, NEW i \in Invs, NEW t \in Nodes, NEW rs, NEW c \in BOOLEAN,
           ReceiptsFit(rs, t), inv[i].state = "unfired",
           inv' = [inv EXCEPT ![i] = [state |-> "pending", target |-> t,
                                      receipts |-> rs, critical |-> c]],
           UNCHANGED <<status, opened, withdrawn, quarantined>>, downgraded' \in BOOLEAN
    PROVE  IInv'
  <1> DEFINE new == [state |-> "pending", target |-> t, receipts |-> rs, critical |-> c]
  <1>1. /\ TypeOK /\ HolderKeepsHold /\ WithdrawnStaysDown /\ LifecycleOK
        /\ ReceiptsOK /\ AffectedOK /\ SupersededOK
    BY DEF IInv
  <1>2. /\ new \in Invalidations
        /\ new.state = "pending" /\ new.target = t /\ new.receipts = rs
    BY DEF Invalidations, ReceiptsFit
  <1> HIDE DEF new
  <1>3. inv' = [inv EXCEPT ![i] = new]
    BY DEF new
  <1>4. /\ inv' \in [Invs -> Invalidations]
        /\ inv'[i] = new
        /\ \A j \in Invs : j # i => inv'[j] = inv[j]
    BY <1>1, <1>2, <1>3 DEF TypeOK
  <1>5. \A j \in Invs : inv'[j].state = "open" <=> inv[j].state = "open"
    BY <1>2, <1>4
  <1>6. \A j \in Invs : inv'[j].state = "open" => inv'[j] = inv[j]
    BY <1>2, <1>4
  <1>7. TypeOK'
    <2>1. {j \in Invs : inv'[j].state = "open"} = {j \in Invs : inv[j].state = "open"}
      BY <1>5
    <2> QED BY <1>1, <1>4, <2>1 DEF TypeOK
  <1>8. HolderKeepsHold' /\ WithdrawnStaysDown' /\ LifecycleOK' /\ SupersededOK'
    BY <1>1, <1>6 DEF HolderKeepsHold, WithdrawnStaysDown, LifecycleOK, SupersededOK, Acts
  <1>9. ReceiptsOK'
    <2>1. ASSUME NEW j \in Invs
          PROVE  /\ inv'[j].state = "unfired" => inv'[j].target = None
                 /\ inv'[j].state # "unfired" =>
                      inv'[j].target \in Nodes /\ inv'[j].receipts[inv'[j].target].impact = "target"
      <3>1. CASE j = i
        BY <1>2, <1>4, <3>1 DEF ReceiptsFit
      <3>2. CASE j # i
        BY <1>1, <1>4, <3>2 DEF ReceiptsOK
      <3> QED BY <3>1, <3>2
    <2>2. ASSUME NEW j \in Invs, NEW n \in Nodes
          PROVE  LET r == inv'[j].receipts[n] IN
                 /\ inv'[j].state = "unfired" => r = NoReceipt
                 /\ inv'[j].state = "pending" \/ r.impact = "none" => ~r.applied
                 /\ r.impact = "target" => inv'[j].target = n
                 /\ r.impact # "none" =>
                      r.restore \in IF n \in Assumptions THEN AssumptionStatuses ELSE Statuses
      <3>1. CASE j = i
        BY <1>2, <1>4, <3>1 DEF ReceiptsFit
      <3>2. CASE j # i
        BY <1>1, <1>4, <3>2 DEF ReceiptsOK
      <3> QED BY <3>1, <3>2
    <2> QED BY <2>1, <2>2 DEF ReceiptsOK
  <1>10. AffectedOK'
    <2> SUFFICES ASSUME NEW n \in Nodes, OnlyAffected(n)'
                 PROVE  /\ n \notin withdrawn'
                        /\ \A j \in Invs : inv'[j].receipts[n].impact # "none"
                                             => inv'[j].receipts[n].restore \in Original(n)
                        /\ Holders(n)' = {} => status'[n] \in Original(n)
                        /\ Holders(n)' # {} => status'[n] \in {"uncertain", "blocked"}
      BY DEF AffectedOK, Original
    <2>1. n \notin quarantined /\ n # t /\ \A j \in Invs : j # i => inv[j].target # n
      BY <1>2, <1>4 DEF OnlyAffected
    <2>2. OnlyAffected(n)
      BY <1>1, <2>1, InvalidationAssumption DEF OnlyAffected, ReceiptsOK
    <2>3. Holders(n)' = Holders(n)
      BY <1>5, <1>6 DEF Holders, Acts
    <2>4. ASSUME NEW j \in Invs, inv'[j].receipts[n].impact # "none"
          PROVE  inv'[j].receipts[n].restore \in Original(n)
      <3>1. CASE j = i
        BY <1>2, <1>4, <2>1, <2>2, <2>4, <3>1 DEF ReceiptsFit
      <3>2. CASE j # i
        BY <1>1, <1>4, <2>2, <2>4, <3>2 DEF AffectedOK
      <3> QED BY <3>1, <3>2
    <2> QED BY <1>1, <2>2, <2>3, <2>4 DEF AffectedOK
  <1> QED BY <1>7, <1>8, <1>9, <1>10 DEF IInv

\* An invalidation that stops waiting or stops being open keeps its record.
LEMMA CloseKeeps ==
    ASSUME IInv, NEW i \in Invs, NEW s,
           (inv[i].state = "open" /\ s = "resolved") \/ (inv[i].state = "pending" /\ s = "rejected"),
           inv' = [inv EXCEPT ![i].state = s]
    PROVE  /\ inv' \in [Invs -> Invalidations]
           /\ inv'[i].state = s
           /\ \A j \in Invs : /\ inv'[j].target = inv[j].target
                              /\ inv'[j].receipts = inv[j].receipts
                              /\ j # i => inv'[j].state = inv[j].state
           /\ ReceiptsOK'
  <1> DEFINE new == [inv[i] EXCEPT !.state = s]
  <1>1. inv \in [Invs -> Invalidations] /\ ReceiptsOK
    BY DEF IInv, TypeOK
  <1>2. \A x \in {"resolved", "rejected"} :
            LET y == [inv[i] EXCEPT !.state = x] IN
            /\ y \in Invalidations /\ y.state = x
            /\ y.target = inv[i].target /\ y.receipts = inv[i].receipts
    BY <1>1 DEF Invalidations
  <1>3. /\ new \in Invalidations /\ new.state = s
        /\ new.target = inv[i].target /\ new.receipts = inv[i].receipts
    BY <1>2
  <1>4. inv' = [inv EXCEPT ![i] = new]
    BY <1>1
  <1> HIDE DEF new
  <1>5. /\ inv' \in [Invs -> Invalidations] /\ inv'[i] = new
        /\ \A j \in Invs : j # i => inv'[j] = inv[j]
    BY <1>1, <1>3, <1>4
  <1>6. /\ inv'[i].state = s
        /\ \A j \in Invs : /\ inv'[j].target = inv[j].target
                           /\ inv'[j].receipts = inv[j].receipts
                           /\ j # i => inv'[j].state = inv[j].state
    BY <1>3, <1>5
  <1>7. s \notin {"unfired", "pending"} /\ inv[i].state # "unfired"
    OBVIOUS
  <1>8. ReceiptsOK'
    <2>1. ASSUME NEW j \in Invs
          PROVE  /\ inv'[j].state = "unfired" => inv'[j].target = None
                 /\ inv'[j].state # "unfired" =>
                      inv'[j].target \in Nodes /\ inv'[j].receipts[inv'[j].target].impact = "target"
      BY <1>1, <1>6, <1>7 DEF ReceiptsOK
    <2>2. ASSUME NEW j \in Invs, NEW n \in Nodes
          PROVE  LET r == inv'[j].receipts[n] IN
                 /\ inv'[j].state = "unfired" => r = NoReceipt
                 /\ inv'[j].state = "pending" \/ r.impact = "none" => ~r.applied
                 /\ r.impact = "target" => inv'[j].target = n
                 /\ r.impact # "none" =>
                      r.restore \in IF n \in Assumptions THEN AssumptionStatuses ELSE Statuses
      BY <1>1, <1>6, <1>7 DEF ReceiptsOK
    <2> QED BY <2>1, <2>2 DEF ReceiptsOK
  <1> QED BY <1>5, <1>6, <1>8

\* What waits for confirmation changed nothing, so rejecting it gives nothing back.
LEMMA RejectKeeps ==
    ASSUME IInv, NEW i \in Invs, Reject(i)
    PROVE  IInv' /\ status' = status
  <1>1. /\ TypeOK /\ HolderKeepsHold /\ WithdrawnStaysDown /\ LifecycleOK
        /\ ReceiptsOK /\ AffectedOK /\ SupersededOK
    BY DEF IInv
  <1>2. /\ inv[i].state = "pending" /\ inv' = [inv EXCEPT ![i].state = "rejected"]
        /\ UNCHANGED <<withdrawn, quarantined, opened, downgraded>>
    BY DEF Reject
  <1>3. /\ inv' \in [Invs -> Invalidations]
        /\ inv'[i].state = "rejected"
        /\ \A j \in Invs : /\ inv'[j].target = inv[j].target
                           /\ inv'[j].receipts = inv[j].receipts
                           /\ j # i => inv'[j].state = inv[j].state
        /\ ReceiptsOK'
    BY <1>2, CloseKeeps
  <1>4. status' = status
    <2>1. {n \in Nodes : inv[i].receipts[n].applied} = {}
      BY <1>1, <1>2 DEF ReceiptsOK
    <2>2. status' = [n \in Nodes |-> status[n]]
      BY <2>1 DEF Reject, GiveBack
    <2> QED BY <1>1, <2>2 DEF TypeOK
  <1>5. \A j \in Invs : inv'[j].state = "open" <=> inv[j].state = "open"
    BY <1>2, <1>3
  <1>6. TypeOK'
    <2>1. {j \in Invs : inv'[j].state = "open"} = {j \in Invs : inv[j].state = "open"}
      BY <1>5
    <2> QED BY <1>1, <1>2, <1>3, <1>4, <2>1 DEF TypeOK
  <1>7. HolderKeepsHold' /\ WithdrawnStaysDown' /\ LifecycleOK' /\ SupersededOK'
    BY <1>1, <1>2, <1>3, <1>4, <1>5
       DEF HolderKeepsHold, WithdrawnStaysDown, LifecycleOK, SupersededOK, Acts
  <1>8. AffectedOK'
    <2> SUFFICES ASSUME NEW n \in Nodes, OnlyAffected(n)'
                 PROVE  /\ n \notin withdrawn'
                        /\ \A j \in Invs : inv'[j].receipts[n].impact # "none"
                                             => inv'[j].receipts[n].restore \in Original(n)
                        /\ Holders(n)' = {} => status'[n] \in Original(n)
                        /\ Holders(n)' # {} => status'[n] \in {"uncertain", "blocked"}
      BY DEF AffectedOK, Original
    <2>1. OnlyAffected(n)
      BY <1>2, <1>3 DEF OnlyAffected
    <2>2. Holders(n)' = Holders(n)
      BY <1>3, <1>5 DEF Holders, Acts
    <2> QED BY <1>1, <1>2, <1>3, <1>4, <2>1, <2>2 DEF AffectedOK
  <1> QED BY <1>3, <1>4, <1>6, <1>7, <1>8 DEF IInv

\* What resolve leaves of each status: only what nobody else holds moves, the target
\* to the outcome and an affected node back to what the receipt remembers.
LEMMA ResolveStatus ==
    ASSUME IInv, NEW i \in Invs, NEW mode \in Modes, Resolve(i, mode), NEW n \in Nodes
    PROVE  /\ inv[i].target \in Nodes
           /\ n \in HeldByOthers(i) \cup withdrawn => status'[n] = status[n]
           /\ n # inv[i].target => 
                 status'[n] = IF /\ inv[i].receipts[n].impact # "none"
                                 /\ n \notin HeldByOthers(i) \cup withdrawn
                                 /\ status[n] \in {"uncertain", "blocked"}
                              THEN inv[i].receipts[n].restore ELSE status[n]
           /\ n = inv[i].target =>
                 \/ status'[n] = status[n]
                 \/ status'[n] = TargetOutcome(i, mode)
                    /\ (mode # "narrowed_scope" => MayBecome(n, status[n], TargetOutcome(i, mode)))
           /\ status' = [m \in Nodes |-> status'[m]]
  <1> DEFINE t == inv[i].target
             held == HeldByOthers(i)
             named == {m \in Nodes \ {t} : inv[i].receipts[m].impact # "none"}
             free == t \notin held \cup withdrawn /\ status[t] # "quarantined"
             back == GiveBack(i, named \ held)
             out == IF free THEN TargetOutcome(i, mode) ELSE status[t]
  <1>1. /\ inv[i].state = "open"
        /\ free /\ mode # "narrowed_scope" => MayBecome(t, status[t], TargetOutcome(i, mode))
        /\ status' = [back EXCEPT ![t] = out]
    BY DEF Resolve
  <1>2. t \in Nodes
    BY <1>1 DEF IInv, ReceiptsOK
  <1>3. /\ back = [m \in Nodes |-> back[m]]
        /\ back[n] = IF n \in (named \ held) \ withdrawn /\ status[n] \in {"uncertain", "blocked"}
                     THEN inv[i].receipts[n].restore ELSE status[n]
    BY DEF GiveBack
  <1> HIDE DEF back
  <1>4. status' = [m \in Nodes |-> status'[m]]
    <2> HIDE DEF out, t
    <2> QED BY <1>1, <1>3
  <1>5. CASE n = t
    <2>1. status'[n] = out
      BY <1>1, <1>2, <1>3, <1>5
    <2> QED BY <1>1, <1>2, <1>4, <1>5, <2>1
  <1>6. CASE n # t
    <2>1. status'[n] = back[n]
      <3> HIDE DEF out
      <3> QED BY <1>1, <1>3, <1>6
    <2> QED BY <1>2, <1>3, <1>4, <1>6, <2>1
  <1> QED BY <1>5, <1>6

LEMMA ResolveKeeps ==
    ASSUME IInv, NEW i \in Invs, NEW mode \in Modes, Resolve(i, mode)
    PROVE  IInv'
  <1> DEFINE t == inv[i].target
  <1>1. /\ TypeOK /\ HolderKeepsHold /\ WithdrawnStaysDown /\ LifecycleOK
        /\ ReceiptsOK /\ AffectedOK /\ SupersededOK
    BY DEF IInv
  <1>2. /\ inv[i].state = "open" /\ inv' = [inv EXCEPT ![i].state = "resolved"]
        /\ opened' = RemoveAt(opened, Row(i))
        /\ UNCHANGED <<withdrawn, quarantined, downgraded>>
    BY DEF Resolve
  <1>3. /\ inv' \in [Invs -> Invalidations]
        /\ inv'[i].state = "resolved"
        /\ \A j \in Invs : /\ inv'[j].target = inv[j].target
                           /\ inv'[j].receipts = inv[j].receipts
                           /\ j # i => inv'[j].state = inv[j].state
        /\ ReceiptsOK'
    BY <1>2, CloseKeeps
  <1>4. \A j \in Invs : inv'[j].state = "open" <=> j # i /\ inv[j].state = "open"
    BY <1>2, <1>3
  <1>5. t \in Nodes /\ inv[i].receipts[t].impact = "target"
    BY <1>1, <1>2 DEF ReceiptsOK
  <1>6. ASSUME NEW n \in Nodes, status'[n] # status[n]
        PROVE  /\ n \notin HeldByOthers(i) \cup withdrawn
               /\ status'[n] \in Statuses
               /\ n \in Assumptions => status'[n] \in AssumptionStatuses
    <2>1. n \notin HeldByOthers(i) \cup withdrawn
      BY <1>6, ResolveStatus
    <2>2. status'[n] \in {"superseded", "resolved"}
            \/ (status'[n] = inv[i].receipts[n].restore /\ inv[i].receipts[n].impact # "none")
      BY <1>5, <1>6, ResolveStatus DEF TargetOutcome
    <2>3. inv[i].receipts[n].impact # "none" =>
            inv[i].receipts[n].restore \in IF n \in Assumptions THEN AssumptionStatuses ELSE Statuses
      BY <1>1 DEF ReceiptsOK
    <2> QED BY <2>1, <2>2, <2>3 DEF Statuses, Standing, AssumptionStatuses
  <1>7. ASSUME NEW n \in Nodes, NEW j \in Invs, inv'[j].state = "open", Acts(inv[j].receipts[n])
        PROVE  status'[n] = status[n]
    BY <1>4, <1>6, <1>7 DEF HeldByOthers
  <1>8. TypeOK'
    <2>1. status' \in [Nodes -> Statuses]
      <3>1. \A n \in Nodes : status'[n] \in Statuses
        BY <1>1, <1>6 DEF TypeOK
      <3>2. status' = [n \in Nodes |-> status'[n]]
        BY <1>5, ResolveStatus
      <3> QED BY <3>1, <3>2
    <2>2. /\ opened' \in Seq(Invs)
          /\ {opened'[k] : k \in DOMAIN opened'} = {opened[k] : k \in DOMAIN opened} \ {i}
          /\ \A j, k \in DOMAIN opened' : opened'[j] = opened'[k] => j = k
      <3> DEFINE o == RemoveAt(opened, Row(i))
      <3>1. /\ o \in Seq(Invs)
            /\ {o[k] : k \in DOMAIN o} = {opened[k] : k \in DOMAIN opened} \ {i}
            /\ \A j, k \in DOMAIN o : o[j] = o[k] => j = k
        BY <1>1, <1>2, RowRemoved, Zenon
      <3>2. opened' = o
        BY <1>2
      <3> HIDE DEF o
      <3> QED BY <3>1, <3>2
    <2>3. {j \in Invs : inv'[j].state = "open"} = {j \in Invs : inv[j].state = "open"} \ {i}
      BY <1>4
    <2>4. {opened'[k] : k \in DOMAIN opened'} = {j \in Invs : inv'[j].state = "open"}
      BY <1>1, <2>2, <2>3 DEF TypeOK
    <2> QED BY <1>1, <1>2, <1>3, <2>1, <2>2, <2>4 DEF TypeOK
  <1>9. HolderKeepsHold'
    <2>1. ASSUME NEW j \in Invs, NEW n \in Nodes, inv'[j].state = "open", Acts(inv'[j].receipts[n])
          PROVE  status'[n] \notin Standing
      BY <1>1, <1>3, <1>4, <1>7, <2>1 DEF HolderKeepsHold
    <2> QED BY <2>1 DEF HolderKeepsHold, Acts
  <1>10. WithdrawnStaysDown' /\ LifecycleOK'
    <2>1. withdrawn \subseteq Nodes /\ Assumptions \subseteq Nodes
      BY <1>1, InvalidationAssumption DEF TypeOK
    <2> QED BY <1>1, <1>2, <1>6, <2>1 DEF WithdrawnStaysDown, LifecycleOK
  <1>11. SupersededOK'
    <2>1. ASSUME NEW j \in Invs, NEW n \in Assumptions, inv'[j].state = "open",
                 status'[n] = "superseded", Acts(inv'[j].receipts[n])
          PROVE  ~inv'[j].receipts[n].applied
      <3>1. n \in Nodes
        BY InvalidationAssumption
      <3> QED BY <1>1, <1>3, <1>4, <1>7, <2>1, <3>1 DEF SupersededOK
    <2> QED BY <2>1 DEF SupersededOK, Acts
  <1>12. AffectedOK'
    <2> SUFFICES ASSUME NEW n \in Nodes, OnlyAffected(n)'
                 PROVE  /\ n \notin withdrawn'
                        /\ \A j \in Invs : inv'[j].receipts[n].impact # "none"
                                             => inv'[j].receipts[n].restore \in Original(n)
                        /\ Holders(n)' = {} => status'[n] \in Original(n)
                        /\ Holders(n)' # {} => status'[n] \in {"uncertain", "blocked"}
      BY DEF AffectedOK, Original
    <2>1. OnlyAffected(n) /\ n # t
      BY <1>2, <1>3 DEF OnlyAffected
    <2>2. /\ n \notin withdrawn
          /\ \A j \in Invs :
                inv[j].receipts[n].impact # "none" => inv[j].receipts[n].restore \in Original(n)
          /\ Holders(n) = {} => status[n] \in Original(n)
          /\ Holders(n) # {} => status[n] \in {"uncertain", "blocked"}
      BY <1>1, <2>1 DEF AffectedOK
    <2>3. Holders(n)' = Holders(n) \ {i} /\ (n \in HeldByOthers(i) <=> Holders(n)' # {})
      BY <1>3, <1>4 DEF Holders, HeldByOthers, Acts
    <2>4. status'[n] = IF /\ inv[i].receipts[n].impact # "none"
                          /\ n \notin HeldByOthers(i) \cup withdrawn
                          /\ status[n] \in {"uncertain", "blocked"}
                       THEN inv[i].receipts[n].restore ELSE status[n]
      BY <2>1, ResolveStatus
    <2>5. Holders(n)' # {} => status'[n] \in {"uncertain", "blocked"}
      BY <2>2, <2>3, <2>4
    <2>6. CASE Holders(n)' = {} /\ i \in Holders(n)
      <3>1. inv[i].receipts[n].impact # "none"
        BY <2>6 DEF Holders, Acts
      <3>2. status'[n] \in Original(n)
        BY <2>2, <2>3, <2>4, <2>6, <3>1
      <3> QED BY <1>2, <1>3, <2>2, <2>6, <3>2
    <2>7. CASE Holders(n)' = {} /\ i \notin Holders(n)
      <3>1. status[n] \in Original(n) /\ Original(n) \cap {"uncertain", "blocked"} = {}
        BY <2>2, <2>3, <2>7 DEF Original
      <3>2. status'[n] \in Original(n)
        BY <2>4, <3>1
      <3> QED BY <1>2, <1>3, <2>2, <2>7, <3>2
    <2> QED BY <1>2, <1>3, <2>2, <2>5, <2>6, <2>7
  <1> QED BY <1>3, <1>8, <1>9, <1>10, <1>11, <1>12 DEF IInv

\* Completion, quarantine and the end of a downgrade touch no invalidation.
LEMMA StatusKeeps ==
    ASSUME IInv, (\E n \in Nodes : Complete(n)) \/ (\E n \in Suspects : Quarantine(n)) \/ ClearDowngrades
    PROVE  IInv'
  <1>1. /\ TypeOK /\ HolderKeepsHold /\ WithdrawnStaysDown /\ LifecycleOK
        /\ ReceiptsOK /\ AffectedOK /\ SupersededOK
    BY DEF IInv
  <1>2. UNCHANGED <<inv, opened, withdrawn>> /\ ReceiptsOK' /\ \A n : Holders(n)' = Holders(n)
    BY <1>1 DEF Complete, Quarantine, ClearDowngrades, ReceiptsOK, Holders, Acts
  <1>3. ASSUME NEW n \in Nodes, Complete(n) PROVE IInv'
    <2>1. /\ n \notin Assumptions /\ n \notin withdrawn /\ Blocking(n) = {} /\ status[n] = "open"
          /\ status' = [status EXCEPT ![n] = "verified"]
          /\ UNCHANGED <<quarantined, downgraded>>
      BY <1>3 DEF Complete
    <2>2. /\ \A m \in Nodes : status'[m] = IF m = n THEN "verified" ELSE status[m]
          /\ status' \in [Nodes -> Statuses]
      BY <1>1, <2>1 DEF TypeOK, Statuses, Standing
    <2>3. Holders(n) = {}
      BY <2>1 DEF Blocking, Holders, Acts
    <2>4. TypeOK'
      BY <1>1, <1>2, <2>1, <2>2 DEF TypeOK
    <2>5. HolderKeepsHold'
      <3>1. ASSUME NEW j \in Invs, NEW m \in Nodes, inv[j].state = "open", Acts(inv[j].receipts[m])
            PROVE  status'[m] \notin Standing
        BY <1>1, <2>2, <2>3, <3>1 DEF HolderKeepsHold, Holders
      <3> QED BY <1>2, <3>1 DEF HolderKeepsHold, Acts
    <2>6. WithdrawnStaysDown' /\ LifecycleOK' /\ SupersededOK'
      BY <1>1, <1>2, <2>1, <2>2, InvalidationAssumption
         DEF WithdrawnStaysDown, LifecycleOK, SupersededOK, TypeOK, Acts
    <2>7. AffectedOK'
      <3> SUFFICES ASSUME NEW m \in Nodes, OnlyAffected(m)'
                   PROVE  /\ m \notin withdrawn'
                          /\ \A j \in Invs : inv'[j].receipts[m].impact # "none"
                                               => inv'[j].receipts[m].restore \in Original(m)
                          /\ Holders(m)' = {} => status'[m] \in Original(m)
                          /\ Holders(m)' # {} => status'[m] \in {"uncertain", "blocked"}
        BY DEF AffectedOK, Original
      <3>1. OnlyAffected(m)
        BY <1>2, <2>1 DEF OnlyAffected
      <3>2. CASE m = n
        BY <1>1, <1>2, <2>1, <2>2, <2>3, <3>1, <3>2 DEF AffectedOK, Original
      <3>3. CASE m # n
        BY <1>1, <1>2, <2>2, <3>1, <3>3 DEF AffectedOK
      <3> QED BY <3>2, <3>3
    <2> QED BY <1>2, <2>4, <2>5, <2>6, <2>7 DEF IInv
  <1>4. ASSUME NEW n \in Suspects, Quarantine(n) PROVE IInv'
    <2>1. /\ n \in Nodes /\ status' = [status EXCEPT ![n] = "quarantined"]
          /\ quarantined' = quarantined \cup {n} /\ UNCHANGED downgraded
      BY <1>4, InvalidationAssumption DEF Quarantine
    <2>2. /\ \A m \in Nodes : status'[m] = IF m = n THEN "quarantined" ELSE status[m]
          /\ status' \in [Nodes -> Statuses]
      BY <1>1, <2>1 DEF TypeOK, Statuses, Standing
    <2>3. TypeOK'
      BY <1>1, <1>2, <2>1, <2>2 DEF TypeOK
    <2>4. HolderKeepsHold'
      BY <1>1, <1>2, <2>2 DEF HolderKeepsHold, Acts, Standing
    <2>5. WithdrawnStaysDown' /\ LifecycleOK' /\ SupersededOK'
      BY <1>1, <1>2, <2>1, <2>2, InvalidationAssumption
         DEF WithdrawnStaysDown, LifecycleOK, SupersededOK, TypeOK, Acts, Standing, AssumptionStatuses
    <2>6. AffectedOK'
      <3> SUFFICES ASSUME NEW m \in Nodes, OnlyAffected(m)'
                   PROVE  /\ m \notin withdrawn'
                          /\ \A j \in Invs : inv'[j].receipts[m].impact # "none"
                                               => inv'[j].receipts[m].restore \in Original(m)
                          /\ Holders(m)' = {} => status'[m] \in Original(m)
                          /\ Holders(m)' # {} => status'[m] \in {"uncertain", "blocked"}
        BY DEF AffectedOK, Original
      <3>1. OnlyAffected(m) /\ m # n
        BY <1>2, <2>1 DEF OnlyAffected
      <3> QED BY <1>1, <1>2, <2>2, <3>1 DEF AffectedOK
    <2> QED BY <1>2, <2>3, <2>4, <2>5, <2>6 DEF IInv
  <1>5. CASE ClearDowngrades
    <2>1. UNCHANGED <<status, quarantined>> /\ downgraded' \in BOOLEAN
      BY <1>5 DEF ClearDowngrades
    <2>2. HolderKeepsHold' /\ WithdrawnStaysDown' /\ LifecycleOK' /\ SupersededOK' /\ TypeOK'
      BY <1>1, <1>2, <2>1
         DEF HolderKeepsHold, WithdrawnStaysDown, LifecycleOK, SupersededOK, TypeOK, Acts
    <2>3. AffectedOK'
      <3> SUFFICES ASSUME NEW m \in Nodes, OnlyAffected(m)'
                   PROVE  /\ m \notin withdrawn'
                          /\ \A j \in Invs : inv'[j].receipts[m].impact # "none"
                                               => inv'[j].receipts[m].restore \in Original(m)
                          /\ Holders(m)' = {} => status'[m] \in Original(m)
                          /\ Holders(m)' # {} => status'[m] \in {"uncertain", "blocked"}
        BY DEF AffectedOK, Original
      <3>1. OnlyAffected(m)
        BY <1>2, <2>1 DEF OnlyAffected
      <3> QED BY <1>1, <1>2, <2>1, <3>1 DEF AffectedOK
    <2> QED BY <1>2, <2>2, <2>3 DEF IInv
  <1> QED BY <1>3, <1>4, <1>5

\* Firing, gated or not, from the node's own status or from "revoked".
LEMMA FireKeeps ==
    ASSUME IInv, NEW i \in Invs, NEW t \in Nodes, NEW human \in BOOLEAN, NEW weak \in BOOLEAN,
           NEW st, StatusesFit(st), FireFrom(st, i, t, human, weak),
           \A n \in Nodes \ {t} : st[n] = status[n],
           st[t] = status[t] \/ st[t] = "revoked",
           withdrawn' = withdrawn \/ (withdrawn' = withdrawn \cup {t} /\ t \notin Assumptions),
           human => st = status /\ withdrawn' = withdrawn,
           quarantined' = quarantined
    PROVE  /\ IInv'
           /\ \A n \in Assumptions : status[n] = "superseded" => status'[n] = "superseded"
  <1> DEFINE rs == Receipts(st, t, human \/ weak)
             c == IsCritical(t, rs)
  <1>1. ReceiptsFit(rs, t)
    <2>1. (human \/ weak) \in BOOLEAN
      OBVIOUS
    <2> QED BY <2>1, ReceiptsAre
  <1>2. c \in BOOLEAN
    BY DEF IsCritical
  <1>3. /\ inv[i].state = "unfired"
        /\ inv' = [inv EXCEPT ![i] = [state |-> IF human THEN "pending" ELSE "open", target |-> t,
                                      receipts |-> IF human THEN rs ELSE Witnessed(st, rs),
                                      critical |-> c]]
        /\ status' = IF human THEN st ELSE Applied(st, rs)
        /\ opened' = IF human THEN opened ELSE Append(opened, i)
        /\ downgraded' = (downgraded \/ c)
    BY DEF FireFrom
  <1> HIDE DEF rs, c
  <1>4. downgraded' \in BOOLEAN
    BY <1>3
  <1>5. CASE human
    BY <1>1, <1>2, <1>3, <1>4, <1>5, PendingKeeps
  <1>6. CASE ~human
    <2>1. inv[i].target = None
      BY <1>3 DEF IInv, ReceiptsOK
    <2>2. Opens(i, t, st, rs, c)
      BY <1>3, <1>6, <2>1 DEF Opens
    <2>3. IInv'
      BY <1>1, <1>2, <1>4, <2>2, OpenKeeps
    <2>4. ASSUME NEW n \in Assumptions, status[n] = "superseded" PROVE status'[n] = "superseded"
      <3>1. n \in Nodes
        BY InvalidationAssumption
      <3>2. st[n] = "superseded"
        BY <2>4, <3>1 DEF StatusesFit, AssumptionStatuses
      <3>3. rs \in [Nodes -> Receipt]
        BY <1>1 DEF ReceiptsFit
      <3> QED BY <1>3, <1>6, <3>1, <3>2, <3>3, AppliedIs
    <2> QED BY <2>3, <2>4
  <1> QED BY <1>5, <1>6

\* A confirmed invalidation opens with the receipts written when it was fired.
LEMMA AcceptKeeps ==
    ASSUME IInv, NEW i \in Invs, Accept(i)
    PROVE  /\ IInv'
           /\ \A n \in Assumptions : status[n] = "superseded" => status'[n] = "superseded"
  <1> DEFINE rs == inv[i].receipts
             t == inv[i].target
             ws == Witnessed(status, rs)
  <1>1. /\ inv[i].state = "pending"
        /\ status' = Applied(status, rs)
        /\ inv' = [inv EXCEPT ![i].state = "open", ![i].receipts = Witnessed(status, @)]
        /\ opened' = Append(opened, i)
        /\ UNCHANGED <<withdrawn, quarantined, downgraded>>
    BY DEF Accept
  <1>2. inv[i] \in Invalidations /\ inv \in [Invs -> Invalidations] /\ downgraded \in BOOLEAN
    BY DEF IInv, TypeOK
  <1>3. t \in Nodes
    BY <1>1 DEF IInv, ReceiptsOK
  <1>4. ReceiptsFit(rs, t)
    <2>1. rs \in [Nodes -> Receipt]
      BY <1>2 DEF Invalidations
    <2>2. rs[t].impact = "target"
      BY <1>1 DEF IInv, ReceiptsOK
    <2>3. \A n \in Nodes :
              /\ ~rs[n].applied
              /\ rs[n].impact = "target" => n = t
              /\ rs[n].impact # "none" =>
                    rs[n].restore \in IF n \in Assumptions THEN AssumptionStatuses ELSE Statuses
      BY <1>1 DEF IInv, ReceiptsOK
    <2>4. \A n \in Nodes : OnlyAffected(n) /\ rs[n].impact # "none" => rs[n].restore \in Original(n)
      BY DEF IInv, AffectedOK
    <2> HIDE DEF rs, t
    <2> QED BY <2>1, <2>2, <2>3, <2>4 DEF ReceiptsFit
  <1>5. StatusesFit(status)
    BY DEF IInv, TypeOK, LifecycleOK, StatusesFit
  <1>6. inv' = [inv EXCEPT ![i] = [state |-> "open", target |-> t, receipts |-> ws,
                                   critical |-> inv[i].critical]]
    <2>1. inv[i] = [state |-> inv[i].state, target |-> t, receipts |-> rs,
                    critical |-> inv[i].critical]
      BY <1>2 DEF Invalidations
    <2>2. inv' = [inv EXCEPT ![i] = [inv[i] EXCEPT !.state = "open", !.receipts = ws]]
      <3>1. inv' = [inv EXCEPT ![i] = [inv[i] EXCEPT !.state = "open",
                                                     !.receipts = Witnessed(status, rs)]]
        BY <1>1, <1>2
      <3> QED BY <3>1
    <2> HIDE DEF rs, t, ws
    <2>3. [inv[i] EXCEPT !.state = "open", !.receipts = ws]
            = [state |-> "open", target |-> t, receipts |-> ws, critical |-> inv[i].critical]
      <3> DEFINE y == [inv[i] EXCEPT !.state = "open", !.receipts = ws]
      <3>1. ws \in [Nodes -> Receipt]
        <4>1. rs \in [Nodes -> Receipt]
          BY <1>4 DEF ReceiptsFit
        <4>2. ws = [n \in Nodes |-> ws[n]]
          BY DEF ws, Witnessed
        <4>3. \A n \in Nodes : ws[n] \in Receipt
          BY <4>1, WitnessedIs DEF ws
        <4> QED BY <4>2, <4>3
      <3>2. /\ y \in Invalidations /\ y.state = "open" /\ y.receipts = ws
            /\ y.target = t /\ y.critical = inv[i].critical
        BY <1>2, <3>1 DEF Invalidations, t
      <3> HIDE DEF y
      <3>3. y = [state |-> y.state, target |-> y.target, receipts |-> y.receipts,
                 critical |-> y.critical]
        BY <3>2 DEF Invalidations
      <3>4. y = [state |-> "open", target |-> t, receipts |-> ws, critical |-> inv[i].critical]
        BY <3>2, <3>3
      <3> QED BY <3>4 DEF y
    <2> QED BY <2>2, <2>3
  <1>7. Opens(i, t, status, rs, inv[i].critical) /\ inv[i].critical \in BOOLEAN
    BY <1>1, <1>2, <1>6 DEF Opens, Invalidations
  <1> HIDE DEF rs, t
  <1>8. IInv'
    BY <1>1, <1>2, <1>3, <1>4, <1>5, <1>7, OpenKeeps
  <1>9. ASSUME NEW n \in Assumptions, status[n] = "superseded" PROVE status'[n] = "superseded"
    <2>1. n \in Nodes /\ rs \in [Nodes -> Receipt]
      BY <1>4, InvalidationAssumption DEF ReceiptsFit
    <2> QED BY <1>1, <1>5, <1>9, <2>1, AppliedIs
  <1> QED BY <1>8, <1>9

LEMMA RevokeKeeps ==
    ASSUME IInv, NEW i \in Invs, NEW t \in Nodes, Revoke(i, t)
    PROVE  /\ IInv'
           /\ \A n \in Assumptions : status[n] = "superseded" => status'[n] = "superseded"
  <1> DEFINE st == [status EXCEPT ![t] = "revoked"]
  <1>1. /\ t \notin Assumptions /\ withdrawn' = withdrawn \cup {t}
        /\ FireFrom(st, i, t, FALSE, FALSE) /\ quarantined' = quarantined
    BY DEF Revoke
  <1>2. /\ st \in [Nodes -> Statuses] /\ st[t] = "revoked"
        /\ \A n \in Nodes \ {t} : st[n] = status[n]
    BY DEF IInv, TypeOK, Statuses
  <1> HIDE DEF st
  <1>3. StatusesFit(st)
    BY <1>1, <1>2, InvalidationAssumption DEF StatusesFit, IInv, LifecycleOK
  <1> QED BY <1>1, <1>2, <1>3, FireKeeps

-----------------------------------------------------------------------------
LEMMA InvHolds == Spec => []IInv
  <1>1. Init => IInv
    <2> SUFFICES ASSUME Init PROVE IInv
      OBVIOUS
    <2>1. /\ \A i \in Invs : inv[i] = Unfired
          /\ inv \in [Invs -> Invalidations]
      <3>1. Unfired \in Invalidations
        <4>1. NoReceipt \in Receipt
          BY DEF NoReceipt, Receipt, Impacts
        <4> QED BY <4>1 DEF Unfired, Invalidations
      <3> QED BY <3>1 DEF Init
    <2>2. /\ Unfired.state = "unfired" /\ Unfired.target = None
          /\ \A n \in Nodes : Unfired.receipts[n] = NoReceipt
      BY DEF Unfired
    <2>3. NoReceipt.impact = "none" /\ NoReceipt.applied = FALSE
      BY DEF NoReceipt
    <2>4. \A n \in Nodes : Holders(n) = {} /\ status[n] \in Original(n)
      BY <2>1, <2>2 DEF Holders, Original, Init
    <2>5. DOMAIN opened = {} /\ opened \in Seq(Invs)
      BY DEF Init
    <2>6. {i \in Invs : inv[i].state = "open"} = {}
      BY <2>1, <2>2
    <2>7. TypeOK
      <3>1. status \in [Nodes -> Statuses]
        BY DEF Init, Statuses, Standing
      <3> QED BY <2>1, <2>5, <2>6, <3>1 DEF TypeOK, Init
    <2>8. HolderKeepsHold /\ WithdrawnStaysDown /\ SupersededOK
      BY <2>1, <2>2 DEF HolderKeepsHold, WithdrawnStaysDown, SupersededOK, Init
    <2>9. LifecycleOK
      BY InvalidationAssumption DEF LifecycleOK, Init, AssumptionStatuses
    <2>10. ReceiptsOK
      BY <2>1, <2>2, <2>3 DEF ReceiptsOK
    <2>11. AffectedOK
      BY <2>1, <2>2, <2>3, <2>4 DEF AffectedOK, Init
    <2> QED BY <2>7, <2>8, <2>9, <2>10, <2>11 DEF IInv
  <1>2. IInv /\ [Next]_vars => IInv'
    <2> SUFFICES ASSUME IInv, [Next]_vars PROVE IInv'
      OBVIOUS
    <2>1. ASSUME NEW i \in Invs, NEW t \in Nodes, NEW human \in Gates, NEW weak \in BOOLEAN,
                 Fire(i, t, human, weak)
          PROVE  IInv'
      <3>1. FireFrom(status, i, t, human, weak) /\ UNCHANGED <<withdrawn, quarantined>>
        BY <2>1 DEF Fire
      <3>2. StatusesFit(status) /\ human \in BOOLEAN
        BY InvalidationAssumption DEF IInv, TypeOK, LifecycleOK, StatusesFit
      <3> QED BY <3>1, <3>2, FireKeeps
    <2>2. CASE UNCHANGED vars
      BY <2>2 DEF vars, IInv, TypeOK, HolderKeepsHold, WithdrawnStaysDown, LifecycleOK, ReceiptsOK,
          AffectedOK, SupersededOK, OnlyAffected, Holders, Original, Acts
    <2> QED BY <2>1, <2>2, RevokeKeeps, AcceptKeeps, RejectKeeps, ResolveKeeps, StatusKeeps DEF Next
  <1> QED BY <1>1, <1>2, PTL DEF Spec

\* However invalidations overlap and in whichever order they are confirmed, rejected
\* and resolved: a node does not stand while one of them holds it, one that was only
\* ever affected gets exactly its own status back when the last one closes, and one
\* whose authority was withdrawn never stands again.
THEOREM HoldsAreExact == Spec => []HoldsExact
  <1>1. IInv => HoldsExact
    <2> SUFFICES ASSUME IInv PROVE HoldsExact
      OBVIOUS
    <2>1. AffectedRestoredExactly
      BY DEF IInv, AffectedOK, AffectedRestoredExactly, OnlyAffected, Original
    <2> QED BY <2>1 DEF IInv, HoldsExact
  <1> QED BY <1>1, InvHolds, PTL

\* A superseded assumption that nobody may quarantine changes no more, except by
\* resolving an invalidation that the lifecycle had refused.
THEOREM SupersessionIsFinal ==
    ASSUME Suspects \cap Assumptions = {} PROVE Spec => SupersededIsFinal
  <1> DEFINE Final ==
        \A n \in Assumptions :
          status[n] = "superseded" /\ status'[n] # "superseded" =>
              \E i \in Invs : /\ inv[i].state = "open" /\ inv'[i].state = "resolved"
                              /\ inv[i].target = n
                              /\ ~inv[i].receipts[n].applied
  <1>1. ASSUME IInv, Next PROVE Final
    <2> SUFFICES ASSUME NEW n \in Assumptions, status[n] = "superseded", status'[n] # "superseded"
                 PROVE  \E i \in Invs : /\ inv[i].state = "open" /\ inv'[i].state = "resolved"
                                        /\ inv[i].target = n
                                        /\ ~inv[i].receipts[n].applied
      OBVIOUS
    <2>1. n \in Nodes /\ TypeOK /\ ReceiptsOK
      BY <1>1, InvalidationAssumption DEF IInv
    <2>2. ASSUME NEW i \in Invs, NEW t \in Nodes, NEW human \in Gates, NEW weak \in BOOLEAN,
                 Fire(i, t, human, weak)
          PROVE  FALSE
      <3>1. FireFrom(status, i, t, human, weak) /\ UNCHANGED <<withdrawn, quarantined>>
        BY <2>2 DEF Fire
      <3>2. StatusesFit(status) /\ human \in BOOLEAN
        BY <1>1, InvalidationAssumption DEF IInv, TypeOK, LifecycleOK, StatusesFit
      <3> QED BY <1>1, <3>1, <3>2, FireKeeps
    <2>3. ASSUME NEW i \in Invs,
                 (\E t \in Nodes : Revoke(i, t)) \/ Accept(i) \/ Reject(i)
          PROVE  FALSE
      BY <1>1, <2>3, RevokeKeeps, AcceptKeeps, RejectKeeps
    <2>4. ASSUME NEW i \in Invs, NEW mode \in Modes, Resolve(i, mode)
          PROVE  /\ inv[i].state = "open" /\ inv'[i].state = "resolved"
                 /\ inv[i].target = n
                 /\ ~inv[i].receipts[n].applied
      <3>1. inv[i].state = "open" /\ inv' = [inv EXCEPT ![i].state = "resolved"]
        BY <2>4 DEF Resolve
      <3>2. inv'[i].state = "resolved"
        BY <1>1, <3>1, CloseKeeps
      <3>3. inv[i].target = n
        BY <1>1, <2>1, <2>4, ResolveStatus
      <3>4. Acts(inv[i].receipts[n])
        BY <2>1, <3>1, <3>3 DEF ReceiptsOK, Acts
      <3>5. ~inv[i].receipts[n].applied
        BY <1>1, <3>1, <3>4 DEF IInv, SupersededOK
      <3> QED BY <3>1, <3>2, <3>3, <3>5
    <2>5. ~ \/ \E m \in Nodes : Complete(m)
            \/ \E m \in Suspects : Quarantine(m)
            \/ ClearDowngrades
      BY <2>1 DEF Complete, Quarantine, ClearDowngrades, TypeOK
    <2> QED BY <1>1, <2>2, <2>3, <2>4, <2>5 DEF Next
  <1>2. IInv /\ [Next]_vars => [Final]_vars
    BY <1>1
  <1> QED BY <1>2, InvHolds, PTL DEF Spec, SupersededIsFinal
=============================================================================
