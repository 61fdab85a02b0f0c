----------------------------- MODULE MoneyProofs -----------------------------
(***************************************************************************)
(* Proofs about money: what is collected on a contract's installments and  *)
(* invoices (Collections), for every number of requests, installments and  *)
(* invoices; and the guard of client money held in trust (TrustGuard), for *)
(* every number of payments, landlords and movements and every amount.     *)
(***************************************************************************)
EXTENDS Collections, TrustGuard, SumLemmas, SequenceTheorems

-----------------------------------------------------------------------------
(* Collections: the invariant.                                             *)

\* The sums of a state of the collections.
Receipts == [Payees -> [Docs \cup {None} -> Nat]]

Paid(tk, p) == Total(Docs \cup {None}, tk[p])

OnDoc(tk, d) == [p \in Payees |-> tk[p][d]]

Billed(tk, d) == Total(Payees, OnDoc(tk, d))

\* No two transactions hold a lock in common.
LocksApart == \A s, t \in Tills : s # t => deal[s].locks \cap deal[t].locks = {}

\* Two transactions have rows on one installment only where their kinds overlapped.
OneCollector ==
    \A p \in Installments \ raced, s, t \in Tills : s # t => deal[s].got[p] = 0 \/ deal[t].got[p] = 0

\* What is on no invoice was collected under the installment's lock; an invoice not
\* made yet has nothing.
BooksBound ==
    /\ \A p \in Installments : taken[p][None] <= Due
    /\ \A d \in Docs : doc[d] = "none" => \A p \in Payees : taken[p][d] = 0

\* Where a transaction is.
DealBegun(f) ==
    /\ f.at = "idle" => f = NoDeal
    /\ f.at # "idle" => f.kind # "none"
    /\ f.at = "lines" => f.kind = "invoice"
    /\ f.at = "row" => f.queue # <<>>
    /\ f.kind # "invoice" => f.doc = None /\ f.got[None] = 0

\* Its rows, committed now, would fit: those of an invoice with what it may still
\* place, those of an installment beside what is on no invoice, and any beside
\* everything, for an installment no kinds overlapped on.
DealFits(f, overlapped) ==
    /\ f.kind = "invoice" =>
          /\ f.doc \in Docs /\ f.locks = {f.doc} /\ doc[f.doc] = "confirmed"
          /\ Billed(taken, f.doc) + Total(Payees, f.got) + f.left <= Net(f.doc)
    /\ \A p \in Installments :
          /\ f.kind # "invoice" /\ f.got[p] > 0 => p \in f.locks
          /\ f.kind # "invoice" /\ p \in f.locks => taken[p][None] + f.got[p] <= Due
          /\ f.got[p] > 0 /\ p \notin overlapped => Paid(taken, p) + f.got[p] <= Due

\* What it overwrites a status with is what its rows make of the installment, and a
\* row has its status before the commit.
DealWrites(f, overlapped) ==
    \A p \in Installments :
       /\ f.got[p] > 0 => \/ f.set[p] # "keep"
                          \/ f.at = "row" /\ p \in Range(f.queue) /\ (f.kind # "end" => p = Head(f.queue))
       /\ f.set[p] = "paid" => Paid(taken, p) + f.got[p] >= Due
       /\ f.set[p] = "partially_paid" => f.got[p] > 0
       /\ f.set[p] = "partially_paid" /\ p \notin overlapped => Paid(taken, p) + f.got[p] < Due
       /\ f.kind = "end" /\ f.got[p] > 0 => Paid(taken, p) + f.got[p] >= Due
       /\ f.kind # "end" /\ f.at = "row" /\ p = Head(f.queue) =>
             /\ f.got[p] > 0 /\ f.before <= Paid(taken, p)
             /\ p \notin overlapped => f.before = Paid(taken, p)
       /\ f.kind = "invoice" /\ f.at \in {"lines", "row"} /\ f.left > 0 /\ f.got[p] > 0 =>
             Paid(taken, p) + f.got[p] >= Due

CollectionsInv ==
    /\ CollectionsTypeOK /\ LocksApart /\ OneCollector /\ BooksBound
    /\ CollectedWithinDue /\ StatusMatchesMoney
    /\ \A s \in Tills : DealBegun(deal[s]) /\ DealFits(deal[s], raced) /\ DealWrites(deal[s], raced)

-----------------------------------------------------------------------------
(* Collections: sums of money.                                             *)

LEMMA ConstantsFit ==
    /\ IsFiniteSet(Installments) /\ IsFiniteSet(Payees) /\ IsFiniteSet(Docs \cup {None})
    /\ None \notin Installments /\ None \notin Docs /\ Installments \subseteq Payees /\ None \in Payees
    /\ Due \in Nat /\ Due > 0
<1>1. IsFiniteSet(Payees) /\ IsFiniteSet(Docs \cup {None})
  BY CollectionsAssumption, FS_AddElement DEF Payees
<1> QED  BY <1>1, CollectionsAssumption DEF Payees

LEMMA SumsAreTotals ==
    /\ \A p \in Payees : OnInstallment(p) = Paid(taken, p) /\ OnInstallment(p)' = Paid(taken', p)
    /\ \A d \in Docs : OnInvoice(d) = Billed(taken, d) /\ OnInvoice(d)' = Billed(taken', d)
  BY DEF OnInstallment, OnInvoice, Paid, Billed, OnDoc, Total, FoldSet, MapThenFoldSet

LEMMA SumsAreNat ==
    ASSUME NEW tk \in Receipts
    PROVE  /\ \A p \in Payees : /\ Paid(tk, p) \in Nat
                                /\ \A d \in Docs \cup {None} : tk[p][d] \in Nat /\ tk[p][d] <= Paid(tk, p)
           /\ \A d \in Docs : Billed(tk, d) \in Nat
<1>1. ASSUME NEW p \in Payees
      PROVE  Paid(tk, p) \in Nat /\ \A d \in Docs \cup {None} : tk[p][d] \in Nat /\ tk[p][d] <= Paid(tk, p)
  <2>1. \A d \in Docs \cup {None} : tk[p][d] \in Nat  BY DEF Receipts
  <2> QED  BY <2>1, ConstantsFit, TotalIsNat DEF Paid
<1>2. ASSUME NEW d \in Docs PROVE Billed(tk, d) \in Nat
  <2>1. \A p \in Payees : OnDoc(tk, d)[p] \in Nat  BY DEF Receipts, OnDoc
  <2> QED  BY <2>1, ConstantsFit, TotalIsNat DEF Billed
<1> QED  BY <1>1, <1>2

\* What the sums of a state are.
LEMMA MoneyIsNat ==
    ASSUME CollectionsTypeOK
    PROVE  /\ \A p \in Payees : /\ OnInstallment(p) \in Nat
                                /\ \A d \in Docs \cup {None} : taken[p][d] \in Nat /\ taken[p][d] <= OnInstallment(p)
           /\ \A d \in Docs : OnInvoice(d) \in Nat /\ Net(d) \in Nat
<1>1. taken \in Receipts  BY DEF CollectionsTypeOK, Receipts
<1>2. \A d \in Docs : Net(d) \in Nat
  <2> SUFFICES ASSUME NEW d \in Docs PROVE Net(d) \in Nat  OBVIOUS
  <2>1. Len(Covers[d]) \in Nat /\ Notes[d] \in Nat  BY CollectionsAssumption
  <2>2. Due * Len(Covers[d]) \in Nat
    <3>1. \A m, n \in Nat : m * n \in Nat  OBVIOUS
    <3> QED  BY <2>1, <3>1, ConstantsFit
  <2> QED  BY <2>1, <2>2 DEF Net
<1> QED  BY <1>1, <1>2, SumsAreTotals, SumsAreNat

LEMMA GotIsNat ==
    ASSUME NEW got \in [Payees -> Nat]
    PROVE  Total(Payees, got) \in Nat
  BY ConstantsFit, TotalIsNat

\* What is collected on an installment moves with one invoice's part.
LEMMA PaidMoves ==
    ASSUME NEW v, NEW w, NEW d \in Docs \cup {None},
           \A e \in Docs \cup {None} : v[e] \in Int /\ w[e] \in Int,
           \A e \in Docs \cup {None} : e # d => w[e] = v[e]
    PROVE  Total(Docs \cup {None}, w) = Total(Docs \cup {None}, v) - v[d] + w[d]
<1> DEFINE D == Docs \cup {None}
<1>1. /\ IsFiniteSet(D) /\ d \in D /\ \A e \in D : v[e] \in Int /\ w[e] \in Int
      /\ \A e \in D \ {d} : w[e] = v[e]
  BY ConstantsFit
<1> HIDE DEF D
<1>2. Total(D, w) = Total(D, v) - v[d] + w[d]  BY <1>1, TotalChanges
<1> QED  BY <1>2 DEF D

\* When an invoice takes over what was on none.
LEMMA PaidStays ==
    ASSUME NEW v, NEW d \in Docs, NEW r,
           \A e \in Docs \cup {None} : v[e] \in Int,
           r[None] = 0, r[d] = v[d] + v[None], \A e \in Docs \ {d} : r[e] = v[e]
    PROVE  Total(Docs \cup {None}, r) = Total(Docs \cup {None}, v)
<1> DEFINE m == v[None]
           w == [e \in Docs \cup {None} |-> IF e = d THEN v[e] + m ELSE v[e]]
<1>1. d # None /\ m \in Int /\ v[d] \in Int  BY ConstantsFit
<1>2. /\ \A e \in Docs \cup {None} : w[e] = IF e = d THEN v[e] + m ELSE v[e]
      /\ \A e \in Docs \cup {None} : w[e] \in Int
  BY <1>1
<1>3. /\ \A e \in Docs \cup {None} : r[e] \in Int
      /\ \A e \in Docs \cup {None} : e # None => r[e] = w[e]
  BY <1>1, <1>2
<1>7. w[d] = v[d] + m /\ w[None] = m  BY <1>1
<1> HIDE DEF w, m
<1>4. Total(Docs \cup {None}, w) = Total(Docs \cup {None}, v) - v[d] + w[d]
  <2>1. \A e \in Docs \cup {None} : e # d => w[e] = v[e]  BY <1>2
  <2>2. \A e \in Docs \cup {None} : v[e] \in Int /\ w[e] \in Int  BY <1>2
  <2>3. d \in Docs \cup {None}  OBVIOUS
  <2> QED  BY <2>1, <2>2, <2>3, PaidMoves, Zenon
<1>5. Total(Docs \cup {None}, r) = Total(Docs \cup {None}, w) - w[None] + r[None]
  <2>1. \A e \in Docs \cup {None} : w[e] \in Int /\ r[e] \in Int  BY <1>2, <1>3
  <2>2. None \in Docs \cup {None} /\ \A e \in Docs \cup {None} : e # None => r[e] = w[e]  BY <1>3
  <2> QED  BY <2>1, <2>2, PaidMoves
<1>6. Total(Docs \cup {None}, v) \in Int
  <2> DEFINE D == Docs \cup {None}
  <2>1. IsFiniteSet(D) /\ \A e \in D : v[e] \in Int  BY ConstantsFit
  <2> HIDE DEF D
  <2>2. Total(D, v) \in Int  BY <2>1, TotalIsInt
  <2> QED  BY <2>2 DEF D
<1> QED  BY <1>1, <1>4, <1>5, <1>6, <1>7

\* A commit adds its rows.
LEMMA CollectedMore ==
    ASSUME NEW tk \in Receipts, NEW d \in Docs \cup {None}, NEW got \in [Payees -> Nat], NEW nk \in Receipts,
           \A p \in Payees, e \in Docs \cup {None} : nk[p][e] = IF e = d THEN tk[p][e] + got[p] ELSE tk[p][e]
    PROVE  /\ \A p \in Payees : Paid(nk, p) = Paid(tk, p) + got[p]
           /\ d \in Docs => Billed(nk, d) = Billed(tk, d) + Total(Payees, got)
           /\ \A e \in Docs \ {d} : Billed(nk, e) = Billed(tk, e)
<1>1. ASSUME NEW p \in Payees PROVE Paid(nk, p) = Paid(tk, p) + got[p]
  <2>1. got[p] \in Int /\ \A e \in Docs \cup {None} : tk[p][e] \in Int /\ nk[p][e] \in Int  BY DEF Receipts
  <2>2. nk[p][d] = tk[p][d] + got[p] /\ \A e \in Docs \cup {None} : e # d => nk[p][e] = tk[p][e]  OBVIOUS
  <2>3. Paid(nk, p) = Paid(tk, p) - tk[p][d] + nk[p][d]  BY <2>1, <2>2, PaidMoves DEF Paid
  <2>4. Paid(tk, p) \in Nat /\ tk[p][d] \in Int  BY <2>1, SumsAreNat
  <2> QED  BY <2>1, <2>2, <2>3, <2>4
<1>2. ASSUME d \in Docs PROVE Billed(nk, d) = Billed(tk, d) + Total(Payees, got)
  <2> DEFINE v == OnDoc(tk, d)
             u == OnDoc(nk, d)
  <2>1. \A p \in Payees : v[p] \in Int /\ got[p] \in Int /\ u[p] = v[p] + got[p]
    BY <1>2 DEF OnDoc, Receipts
  <2> HIDE DEF v, u
  <2>2. Total(Payees, u) = Total(Payees, v) + Total(Payees, got)  BY <2>1, ConstantsFit, TotalAdds
  <2> QED  BY <2>2 DEF Billed, v, u
<1>3. ASSUME NEW e \in Docs \ {d} PROVE Billed(nk, e) = Billed(tk, e)
  <2>1. \A p \in Payees : OnDoc(nk, e)[p] = OnDoc(tk, e)[p]  BY DEF OnDoc, Receipts
  <2> QED  BY <2>1, ConstantsFit, TotalAgrees DEF Billed
<1> QED  BY <1>1, <1>2, <1>3

\* An invoice names no more installments than it has entries.
LEMMA CoversCounted ==
    ASSUME NEW d \in Docs
    PROVE  /\ Range(Covers[d]) \subseteq Installments /\ IsFiniteSet(Range(Covers[d]))
           /\ Due * Cardinality(Range(Covers[d])) <= Net(d)
<1> DEFINE R == Range(Covers[d])
           n == Len(Covers[d])
<1>1. Covers[d] \in [1..n -> Installments] /\ n \in Nat /\ Notes[d] \in Nat  BY CollectionsAssumption
<1>2. R \subseteq Installments  BY <1>1 DEF Range
<1>3. IsFiniteSet(R)  BY <1>2, ConstantsFit, FS_Subset
<1>4. Cardinality(R) <= n
  <2>1. IsFiniteSet(1..n) /\ Cardinality(1..n) = n
    <3>1. \A m \in Nat : IsFiniteSet(1..m) /\ Cardinality(1..m) = m  BY FS_Interval
    <3> HIDE DEF n
    <3> QED  BY <1>1, <3>1
  <2>2. Covers[d] \in Surjection(1..n, R)  BY <1>1 DEF Surjection, Range
  <2> QED  BY <2>1, <2>2, FS_Surjection
<1>5. Cardinality(R) \in Nat  BY <1>3, FS_CardinalityType
<1>6. Due * Cardinality(R) <= Due * n /\ Due * Cardinality(R) \in Nat /\ Due * n \in Nat
  <2>1. \A a, b, c \in Nat : b <= c => a * b <= a * c /\ a * b \in Nat /\ a * c \in Nat  OBVIOUS
  <2> HIDE DEF R, n
  <2> QED  BY <1>1, <1>4, <1>5, <2>1, ConstantsFit
<1>7. Net(d) = Due * n + Notes[d]  BY DEF Net
<1> HIDE DEF n
<1>8. Due * Cardinality(R) <= Net(d)
  <2> HIDE DEF R
  <2> QED  BY <1>1, <1>6, <1>7
<1> QED  BY <1>2, <1>3, <1>8

\* A new invoice takes what was on none.
LEMMA TakenOver ==
    ASSUME NEW tk \in Receipts, NEW d \in Docs, NEW R \in SUBSET Installments, NEW nk \in Receipts,
           \A p \in R : /\ nk[p][None] = 0 /\ nk[p][d] = tk[p][d] + tk[p][None]
                        /\ \A e \in Docs \ {d} : nk[p][e] = tk[p][e],
           \A p \in Payees \ R : nk[p] = tk[p],
           \A p \in Payees : tk[p][d] = 0,
           \A p \in Installments : tk[p][None] <= Due
    PROVE  /\ \A p \in Payees : Paid(nk, p) = Paid(tk, p) /\ nk[p][None] <= tk[p][None]
           /\ \A e \in Docs \ {d} : Billed(nk, e) = Billed(tk, e) /\ \A p \in Payees : nk[p][e] = tk[p][e]
           /\ Billed(nk, d) <= Due * Cardinality(R)
<1>0. d # None  BY ConstantsFit
<1>2. ASSUME NEW p \in Payees PROVE Paid(nk, p) = Paid(tk, p) /\ nk[p][None] <= tk[p][None]
  <2>1. \A e \in Docs \cup {None} : tk[p][e] \in Nat  BY DEF Receipts
  <2>2. CASE p \notin R
    <3>1. nk[p] = tk[p]  BY <2>2
    <3>2. tk[p][None] <= tk[p][None]  BY <2>1
    <3> QED  BY <3>1, <3>2 DEF Paid
  <2>3. CASE p \in R
    <3>1. \A e \in Docs \cup {None} : tk[p][e] \in Int  BY <2>1
    <3>2. Paid(nk, p) = Paid(tk, p)
      <4> DEFINE v == tk[p]
                 r == nk[p]
      <4>1. \A e \in Docs \cup {None} : v[e] \in Int  BY <3>1
      <4>2. r[None] = 0 /\ r[d] = v[d] + v[None] /\ \A e \in Docs \ {d} : r[e] = v[e]  BY <2>3
      <4> HIDE DEF v, r
      <4>3. Total(Docs \cup {None}, r) = Total(Docs \cup {None}, v)  BY <4>1, <4>2, PaidStays
      <4> QED  BY <4>3 DEF Paid, v, r
    <3>3. nk[p][None] = 0 /\ tk[p][None] \in Nat  BY <2>1, <2>3
    <3> QED  BY <3>2, <3>3
  <2> QED  BY <2>2, <2>3
<1>3. ASSUME NEW e \in Docs \ {d} PROVE Billed(nk, e) = Billed(tk, e) /\ \A p \in Payees : nk[p][e] = tk[p][e]
  <2>1. e # None  BY ConstantsFit
  <2>2. \A p \in Payees : nk[p][e] = tk[p][e]  OBVIOUS
  <2>3. \A p \in Payees : OnDoc(nk, e)[p] = OnDoc(tk, e)[p]  BY <2>2 DEF OnDoc
  <2> QED  BY <2>2, <2>3, ConstantsFit, TotalAgrees DEF Billed
<1>4. Billed(nk, d) <= Due * Cardinality(R)
  <2> DEFINE v == OnDoc(nk, d)
  <2>1. \A p \in Payees : v[p] = IF p \in R THEN tk[p][None] ELSE 0
    <3> SUFFICES ASSUME NEW p \in Payees PROVE v[p] = IF p \in R THEN tk[p][None] ELSE 0  OBVIOUS
    <3>1. v[p] = nk[p][d]  BY DEF OnDoc
    <3>2. tk[p][d] = 0 /\ tk[p][None] \in Nat  BY DEF Receipts
    <3> HIDE DEF v
    <3>3. CASE p \in R  BY <3>1, <3>2, <3>3
    <3>4. CASE p \notin R  BY <3>1, <3>2, <3>4
    <3> QED  BY <3>3, <3>4
  <2>2. \A p \in Payees : tk[p][None] \in Nat  BY DEF Receipts
  <2> HIDE DEF v
  <2>3. R \subseteq Payees /\ R \subseteq Installments  BY ConstantsFit
  <2>4. \A p \in Payees : v[p] \in Int  BY <2>1, <2>2
  <2>5. Total(Payees, v) = Total(R, v)
    <3>1. \A p \in Payees \ R : v[p] = 0  BY <2>1
    <3> QED  BY <2>3, <2>4, <3>1, ConstantsFit, TotalOfPart
  <2>6. Total(R, v) <= Due * Cardinality(R)
    <3>1. IsFiniteSet(R)  BY <2>3, ConstantsFit, FS_Subset
    <3>2. \A p \in R : v[p] \in Int /\ v[p] <= Due  BY <2>1, <2>3, <2>4
    <3> QED  BY <3>1, <3>2, ConstantsFit, TotalAtMost
  <2> QED  BY <2>5, <2>6 DEF Billed, v
<1> QED  BY <1>2, <1>3, <1>4

LEMMA GotMoves ==
    ASSUME NEW got \in [Payees -> Nat], NEW new \in [Payees -> Nat], NEW p \in Payees,
           \A q \in Payees : q # p => new[q] = got[q]
    PROVE  Total(Payees, new) = Total(Payees, got) - got[p] + new[p]
<1>1. \A q \in Payees : got[q] \in Int /\ new[q] \in Int  OBVIOUS
<1>2. \A q \in Payees \ {p} : new[q] = got[q]  OBVIOUS
<1> QED  BY <1>1, <1>2, ConstantsFit, TotalChanges

LEMMA NothingGot == NoMoney \in [Payees -> Nat] /\ Total(Payees, NoMoney) = 0
<1>1. NoMoney \in [Payees -> Nat] /\ \A p \in Payees : NoMoney[p] = 0  BY DEF NoMoney
<1> QED  BY <1>1, ConstantsFit, TotalOfZeros

LEMMA OfTwo ==
    ASSUME NEW a \in Int, NEW b \in Int
    PROVE  /\ Min({a, b}) \in {a, b} /\ Min({a, b}) <= a /\ Min({a, b}) <= b
           /\ Max({a, b}) \in {a, b} /\ Max({a, b}) >= a /\ Max({a, b}) >= b
<1>1. \E x \in {a, b} : \A y \in {a, b} : x <= y
  <2>1. CASE a <= b  BY <2>1
  <2>2. CASE b <= a  BY <2>2
  <2> QED  BY <2>1, <2>2
<1>2. \E x \in {a, b} : \A y \in {a, b} : x >= y
  <2>1. CASE a <= b  BY <2>1
  <2>2. CASE b <= a  BY <2>2
  <2> QED  BY <2>1, <2>2
<1>3. Min({a, b}) \in {a, b} /\ \A y \in {a, b} : Min({a, b}) <= y  BY <1>1, Zenon DEF Min
<1>4. Max({a, b}) \in {a, b} /\ \A y \in {a, b} : Max({a, b}) >= y  BY <1>2, Zenon DEF Max
<1> QED  BY <1>3, <1>4

LEMMA StatusIs ==
    ASSUME NEW a \in Int, NEW b \in Int
    PROVE  /\ StatusFor(a, b) \in {"paid", "partially_paid"}
           /\ StatusFor(a, b) = "paid" <=> a + b >= Due
  BY DEF StatusFor

\* The sequence of a set of installments has them all.
LEMMA InSomeOrder ==
    ASSUME NEW S \in SUBSET Installments, S # {}
    PROVE  SetToSeq(S) \in Seq(Installments) /\ Range(SetToSeq(S)) = S /\ SetToSeq(S) # <<>>
<1> DEFINE n == Cardinality(S)
           q == SetToSeq(S)
<1>1. IsFiniteSet(S)  BY ConstantsFit, FS_Subset
<1>2. n \in Nat /\ n > 0  BY <1>1, FS_CardinalityType, FS_EmptySet
<1>3. \E f \in [1..n -> S] : IsInjective(f)
  <2>1. ExistsBijection(1..n, S)  BY <1>1, FS_CardinalityType
  <2> QED  BY <2>1 DEF ExistsBijection, Bijection, Injection, IsInjective
<1>4. q \in [1..n -> S] /\ IsInjective(q)  BY <1>3, Zenon DEF SetToSeq
<1> HIDE DEF q
<1>5. q \in Injection(1..n, S)  BY <1>4 DEF Injection
<1>6. q \in Surjection(1..n, S)
  <2>1. IsFiniteSet(1..n) /\ Cardinality(1..n) = n
    <3>1. \A m \in Nat : IsFiniteSet(1..m) /\ Cardinality(1..m) = m  BY FS_Interval
    <3> HIDE DEF n
    <3> QED  BY <1>2, <3>1
  <2> QED  BY <1>1, <1>5, <2>1, FS_Injection
<1>7. Range(q) = S  BY <1>6 DEF Surjection, Range
<1>8. q \in Seq(S) /\ Len(q) = n
  <2> HIDE DEF n
  <2> QED  BY <1>2, <1>4
<1>9. q \in Seq(Installments) /\ q # <<>>
  <2> HIDE DEF n
  <2> QED  BY <1>2, <1>4, <1>8
<1> QED  BY <1>7, <1>9 DEF q

LEMMA HeadFirst ==
    ASSUME NEW q \in Seq(Installments), q # <<>>
    PROVE  /\ Head(q) \in Installments /\ Head(q) \in Range(q) /\ Tail(q) \in Seq(Installments)
           /\ \A x \in Range(q) : x = Head(q) \/ (x \in Range(Tail(q)) /\ Tail(q) # <<>>)
<1>1. /\ Head(q) = q[1] /\ Tail(q) \in Seq(Installments) /\ Len(q) \in Nat /\ Len(q) >= 1
      /\ Len(Tail(q)) = Len(q) - 1 /\ \A i \in 1..Len(q)-1 : Tail(q)[i] = q[i+1]
      /\ DOMAIN q = 1..Len(q) /\ DOMAIN Tail(q) = 1..Len(q)-1
  BY HeadTailProperties
<1>2. ASSUME NEW x \in Range(q), x # Head(q) PROVE x \in Range(Tail(q)) /\ Tail(q) # <<>>
  <2>1. PICK i \in 1..Len(q) : x = q[i]  BY <1>1 DEF Range
  <2>2. i # 1  BY <1>1, <1>2, <2>1
  <2>3. i - 1 \in 1..Len(q)-1 /\ Tail(q)[i-1] = q[i]  BY <1>1, <2>1, <2>2
  <2>4. x \in Range(Tail(q))  BY <1>1, <2>1, <2>3 DEF Range
  <2>5. Len(Tail(q)) # 0  BY <1>1, <2>3
  <2>6. Tail(q) # <<>>
    <3>1. Len(<<>>) = 0  OBVIOUS
    <3> QED  BY <2>5, <3>1, Zenon
  <2> QED  BY <2>4, <2>6
<1>3. q[1] \in Range(q)  BY <1>1 DEF Range
<1>4. q[1] \in Installments  BY <1>1
<1>5. Head(q) \in Range(q) /\ Head(q) \in Installments /\ Tail(q) \in Seq(Installments)  BY <1>1, <1>3, <1>4
<1>6. \A x \in Range(q) : x = Head(q) \/ (x \in Range(Tail(q)) /\ Tail(q) # <<>>)  BY <1>2
<1> QED  BY <1>5, <1>6

-----------------------------------------------------------------------------
(* Collections: a step of a transaction that commits nothing.              *)

LEMMA InvFacts ==
    ASSUME CollectionsInv
    PROVE  /\ taken \in Receipts /\ raced \subseteq Installments
           /\ \A p \in Payees : /\ OnInstallment(p) = Paid(taken, p) /\ Paid(taken, p) \in Nat
                                /\ \A d \in Docs \cup {None} : taken[p][d] \in Nat /\ taken[p][d] <= Paid(taken, p)
           /\ \A d \in Docs : OnInvoice(d) = Billed(taken, d) /\ Billed(taken, d) \in Nat /\ Net(d) \in Nat
           /\ \A s \in Tills :
                 /\ deal[s] \in Deals /\ DealBegun(deal[s])
                 /\ DealFits(deal[s], raced) /\ DealWrites(deal[s], raced)
<1>1. taken \in Receipts /\ raced \subseteq Installments /\ \A s \in Tills : deal[s] \in Deals
  BY DEF CollectionsInv, CollectionsTypeOK, Receipts
<1>2. CollectionsTypeOK  BY DEF CollectionsInv
<1> QED  BY <1>1, <1>2, SumsAreTotals, SumsAreNat, MoneyIsNat DEF CollectionsInv

LEMMA NoDealFits ==
    ASSUME NEW overlapped
    PROVE  /\ NoDeal \in Deals /\ DealBegun(NoDeal) /\ DealFits(NoDeal, overlapped)
           /\ DealWrites(NoDeal, overlapped)
           /\ NoDeal.locks = {} /\ \A p \in Payees : NoDeal.got[p] = 0
           /\ \A p \in Installments : NoDeal.set[p] = "keep"
<1>1. /\ NoDeal.at = "idle" /\ NoDeal.kind = "none" /\ NoDeal.doc = None /\ NoDeal.locks = {}
      /\ NoDeal.got = NoMoney /\ NoDeal.set = Unchanged
  BY DEF NoDeal
<1>2. (\A p \in Payees : NoMoney[p] = 0) /\ \A p \in Installments : Unchanged[p] = "keep"
  BY DEF NoMoney, Unchanged
<1>3. NoDeal \in Deals  BY DEF NoDeal, Deals, NoMoney, Unchanged
<1>4. DealBegun(NoDeal)  BY <1>1, <1>2, ConstantsFit DEF DealBegun
<1>5. DealFits(NoDeal, overlapped)  BY <1>1, <1>2, ConstantsFit DEF DealFits
<1>6. DealWrites(NoDeal, overlapped)  BY <1>1, <1>2, ConstantsFit DEF DealWrites
<1> QED  BY <1>1, <1>2, <1>3, <1>4, <1>5, <1>6

\* More overlaps ask less.
LEMMA OverlapsAskLess ==
    ASSUME NEW f, NEW less, NEW more, less \subseteq more
    PROVE  /\ DealFits(f, less) => DealFits(f, more)
           /\ DealWrites(f, less) => DealWrites(f, more)
<1>1. \A p : p \notin more => p \notin less  OBVIOUS
<1>2. ASSUME DealFits(f, less) PROVE DealFits(f, more)  BY <1>1, <1>2 DEF DealFits
<1>3. ASSUME DealWrites(f, less) PROVE DealWrites(f, more)
  <2> SUFFICES ASSUME NEW p \in Installments
               PROVE  /\ f.set[p] = "partially_paid" /\ p \notin more => Paid(taken, p) + f.got[p] < Due
                      /\ f.kind # "end" /\ f.at = "row" /\ p = Head(f.queue) =>
                            (p \notin more => f.before = Paid(taken, p))
    BY <1>3 DEF DealWrites
  <2> QED  BY <1>1, <1>3 DEF DealWrites
<1> QED  BY <1>2, <1>3

LEMMA OwnStep ==
    ASSUME CollectionsInv, NEW s \in Tills, NEW g \in Deals,
           deal' = [deal EXCEPT ![s] = g], UNCHANGED <<taken, status, doc, stamped>>,
           raced \subseteq raced', raced' \subseteq Installments,
           \A t \in Tills \ {s} : g.locks \cap deal[t].locks = {},
           \A p \in Installments \ raced', t \in Tills \ {s} : g.got[p] = 0 \/ deal[t].got[p] = 0,
           DealBegun(g), DealFits(g, raced'), DealWrites(g, raced')
    PROVE  CollectionsInv'
<1>1. /\ deal \in [Tills -> Deals] /\ deal' \in [Tills -> Deals]
      /\ deal'[s] = g /\ \A t \in Tills \ {s} : deal'[t] = deal[t]
  BY DEF CollectionsInv, CollectionsTypeOK
<1>2. CollectionsTypeOK'  BY <1>1 DEF CollectionsInv, CollectionsTypeOK
<1>3. LocksApart'
  <2> SUFFICES ASSUME NEW t \in Tills, NEW u \in Tills, t # u PROVE deal'[t].locks \cap deal'[u].locks = {}
    BY DEF LocksApart
  <2>1. CASE t = s  BY <1>1, <2>1
  <2>2. CASE u = s  BY <1>1, <2>2
  <2>3. CASE t # s /\ u # s  BY <1>1, <2>3 DEF CollectionsInv, LocksApart
  <2> QED  BY <2>1, <2>2, <2>3
<1>4. OneCollector'
  <2> SUFFICES ASSUME NEW p \in Installments \ raced', NEW t \in Tills, NEW u \in Tills, t # u
               PROVE  deal'[t].got[p] = 0 \/ deal'[u].got[p] = 0
    BY DEF OneCollector
  <2>1. CASE t = s  BY <1>1, <2>1
  <2>2. CASE u = s  BY <1>1, <2>2
  <2>3. CASE t # s /\ u # s
    <3>1. p \in Installments \ raced  OBVIOUS
    <3> QED  BY <1>1, <2>3, <3>1 DEF CollectionsInv, OneCollector
  <2> QED  BY <2>1, <2>2, <2>3
<1>5. BooksBound'  BY DEF CollectionsInv, BooksBound
<1>6. /\ \A p \in Payees : OnInstallment(p)' = OnInstallment(p)
      /\ \A d \in Docs : OnInvoice(d)' = OnInvoice(d)
  BY SumsAreTotals
<1>7. CollectedWithinDue'
  <2>1. \A p \in Installments : OnInstallment(p)' <= Due \/ p \in raced'
    BY <1>6, ConstantsFit DEF CollectionsInv, CollectedWithinDue
  <2>2. \A d \in Docs : OnInvoice(d)' <= Net(d)  BY <1>6 DEF CollectionsInv, CollectedWithinDue
  <2> QED  BY <2>1, <2>2 DEF CollectedWithinDue, Net
<1>8. StatusMatchesMoney'
  <2>1. \A p \in Installments :
           /\ status'[p] = "paid" => OnInstallment(p)' >= Due
           /\ OnInstallment(p)' >= Due => status'[p] \in {"paid", "cancelled"} \/ p \in raced'
           /\ status'[p] = "partially_paid" => OnInstallment(p)' > 0
    BY <1>6, ConstantsFit DEF CollectionsInv, StatusMatchesMoney
  <2> QED  BY <2>1 DEF StatusMatchesMoney
<1>9. ASSUME NEW t \in Tills
      PROVE  DealBegun(deal[t])' /\ DealFits(deal[t], raced)' /\ DealWrites(deal[t], raced)'
  <2> DEFINE f == deal'[t]
  <2>1. DealBegun(f) /\ DealFits(f, raced') /\ DealWrites(f, raced')
    <3>1. CASE t = s  BY <1>1, <3>1
    <3>2. CASE t # s
      <4>1. f = deal[t]  BY <1>1, <3>2
      <4> HIDE DEF f
      <4> QED  BY <4>1, InvFacts, OverlapsAskLess
    <3> QED  BY <3>1, <3>2
  <2>2. DealBegun(deal[t])'  BY <2>1 DEF DealBegun
  <2>3. DealFits(deal[t], raced)'
    <3> HIDE DEF f
    <3>1. taken' = taken /\ doc' = doc  OBVIOUS
    <3> QED  BY <2>1, <3>1 DEF DealFits, f, Net
  <2>4. DealWrites(deal[t], raced)'
    <3>1. taken' = taken  OBVIOUS
    <3> QED  BY <2>1, <3>1 DEF DealWrites
  <2> QED  BY <2>2, <2>3, <2>4
<1> QED  BY <1>2, <1>3, <1>4, <1>5, <1>7, <1>8, <1>9 DEF CollectionsInv

\* Where no kinds overlap nobody else has rows.
LEMMA Uncontested ==
    ASSUME CollectionsTypeOK, NEW s \in Tills, NEW keys, NEW ps, NEW p \in ps, p \in Installments,
           \A t \in Tills \ {s} : deal[t].locks \cap keys = {},
           p \notin Races(s, keys, ps)
    PROVE  \A t \in Tills \ {s} : deal[t].got[p] = 0
<1> SUFFICES ASSUME NEW t \in Tills \ {s} PROVE deal[t].got[p] = 0  OBVIOUS
<1>1. deal[t].got \in [Payees -> Nat]  BY DEF CollectionsTypeOK, Deals
<1>2. p \in Payees  BY DEF Payees
<1>3. deal[t].got[p] \in Nat  BY <1>1, <1>2
<1>4. ~(deal[t].got[p] > 0)  BY DEF Races
<1> QED  BY <1>3, <1>4

LEMMA CollectInstallmentKeeps ==
    ASSUME CollectionsInv, NEW s \in Tills, NEW p \in Installments, NEW amount \in 1..Due,
           CollectInstallment(s, p, amount)
    PROVE  CollectionsInv'
<1> DEFINE got == [NoMoney EXCEPT ![p] = amount]
           g == [NoDeal EXCEPT !.at = "row", !.kind = "installment", !.locks = {p}, !.queue = <<p>>,
                               !.before = OnInstallment(p), !.got[p] = amount]
<1>1. /\ deal[s].at = "idle" /\ ~Locked(s, {p}) /\ OnInstallment(p) + amount <= Due
      /\ deal' = [deal EXCEPT ![s] = g] /\ raced' = raced \cup Races(s, {p}, {p})
      /\ UNCHANGED <<taken, status, doc, stamped>>
  BY DEF CollectInstallment, Deal
<1>2. p \in Payees /\ p # None /\ Due \in Nat /\ amount \in Nat /\ amount > 0  BY ConstantsFit
<1>3. /\ OnInstallment(p) = Paid(taken, p) /\ Paid(taken, p) \in Nat
      /\ taken[p][None] \in Nat /\ taken[p][None] <= Paid(taken, p)
  BY <1>2, InvFacts
<1>4. got \in [Payees -> Nat] /\ got[p] = amount /\ \A q \in Payees : q # p => got[q] = 0
  BY <1>2 DEF NoMoney
<1>5. /\ g.at = "row" /\ g.kind = "installment" /\ g.doc = None /\ g.locks = {p} /\ g.left = 0
      /\ g.queue = <<p>> /\ g.before = Paid(taken, p) /\ g.got = got /\ g.set = Unchanged
  BY <1>3 DEF NoDeal
<1>6. g \in Deals
  <2>1. g = [NoDeal EXCEPT !.at = "row", !.kind = "installment", !.locks = {p}, !.queue = <<p>>,
                           !.before = Paid(taken, p), !.got = got]
    BY <1>3 DEF NoDeal
  <2>2. <<p>> \in Seq(Installments)  OBVIOUS
  <2> HIDE DEF g, got
  <2> QED  BY <1>2, <1>3, <1>4, <2>1, <2>2, NoDealFits DEF Deals
<1>7. \A t \in Tills \ {s} : deal[t].locks \cap {p} = {}  BY <1>1 DEF Locked
<1>8. raced \subseteq raced' /\ raced' \subseteq Installments
  <2>1. raced \subseteq Installments  BY InvFacts
  <2> QED  BY <1>1, <2>1 DEF Races
<1> HIDE DEF g, got
<1>9. \A t \in Tills \ {s} : g.locks \cap deal[t].locks = {}  BY <1>5, <1>7
<1>10. \A q \in Installments \ raced', t \in Tills \ {s} : g.got[q] = 0 \/ deal[t].got[q] = 0
  <2> SUFFICES ASSUME NEW q \in Installments \ raced', NEW t \in Tills \ {s}
               PROVE  g.got[q] = 0 \/ deal[t].got[q] = 0
    OBVIOUS
  <2>1. CASE q # p  BY <1>4, <1>5, <2>1, ConstantsFit
  <2>2. CASE q = p
    <3>1. p \notin Races(s, {p}, {p})  BY <1>1, <2>2
    <3>2. CollectionsTypeOK  BY DEF CollectionsInv
    <3>3. deal[t].got[p] = 0  BY <1>7, <3>1, <3>2, Uncontested
    <3> QED  BY <2>2, <3>3
  <2> QED  BY <2>1, <2>2
<1>11. DealBegun(g)  BY <1>2, <1>4, <1>5, ConstantsFit DEF DealBegun
<1>12. DealFits(g, raced')
  <2>1. ASSUME NEW q \in Installments
        PROVE  /\ got[q] > 0 => q \in {p}
               /\ q \in {p} => taken[q][None] + got[q] <= Due
               /\ got[q] > 0 => Paid(taken, q) + got[q] <= Due
    <3>1. CASE q = p  BY <1>1, <1>2, <1>3, <1>4, <3>1
    <3>2. CASE q # p  BY <1>4, <3>2, ConstantsFit
    <3> QED  BY <3>1, <3>2
  <2> QED  BY <1>5, <2>1 DEF DealFits
<1>13. DealWrites(g, raced')
  <2>1. \A q \in Installments : Unchanged[q] = "keep"  BY DEF Unchanged
  <2>2. Head(<<p>>) = p /\ Range(<<p>>) = {p}  BY DEF Range
  <2>3. \A q \in Installments : got[q] > 0 => q = p  BY <1>4, ConstantsFit
  <2> QED  BY <1>2, <1>3, <1>4, <1>5, <2>1, <2>2, <2>3 DEF DealWrites
<1> QED  BY <1>1, <1>6, <1>8, <1>9, <1>10, <1>11, <1>12, <1>13, OwnStep

LEMMA CollectInvoiceKeeps ==
    ASSUME CollectionsInv, NEW s \in Tills, NEW d \in Docs, NEW amount \in Amounts, CollectInvoice(s, d, amount)
    PROVE  CollectionsInv'
<1> DEFINE g == [NoDeal EXCEPT !.at = "lines", !.kind = "invoice", !.doc = d, !.locks = {d},
                               !.left = amount, !.queue = Covers[d]]
<1>1. /\ deal[s].at = "idle" /\ ~Locked(s, {d}) /\ doc[d] = "confirmed" /\ OnInvoice(d) + amount <= Net(d)
      /\ deal' = [deal EXCEPT ![s] = g] /\ UNCHANGED <<taken, status, doc, stamped, raced>>
  BY DEF CollectInvoice, Deal
<1>2. amount \in Nat /\ Covers[d] \in Seq(Installments)  BY CollectionsAssumption DEF Amounts
<1>3. OnInvoice(d) = Billed(taken, d) /\ Billed(taken, d) \in Nat  BY InvFacts
<1>5. /\ g.at = "lines" /\ g.kind = "invoice" /\ g.doc = d /\ g.locks = {d} /\ g.left = amount
      /\ g.queue = Covers[d] /\ g.got = NoMoney /\ g.set = Unchanged
  BY DEF NoDeal
<1>6. g \in Deals  BY <1>2, NoDealFits DEF NoDeal, Deals, Unchanged, NoMoney
<1> HIDE DEF g
<1>7. \A t \in Tills \ {s} : g.locks \cap deal[t].locks = {}  BY <1>1, <1>5 DEF Locked
<1>8. \A q \in Payees : g.got[q] = 0  BY <1>5 DEF NoMoney
<1>9. \A q \in Installments \ raced', t \in Tills \ {s} : g.got[q] = 0 \/ deal[t].got[q] = 0
  BY <1>8, ConstantsFit
<1>10. DealBegun(g)  BY <1>5 DEF DealBegun
<1>11. DealFits(g, raced')
  <2>1. Billed(taken, d) + Total(Payees, NoMoney) + amount <= Net(d)  BY <1>1, <1>2, <1>3, NothingGot
  <2> QED  BY <1>1, <1>5, <1>8, <2>1, ConstantsFit DEF DealFits
<1>12. DealWrites(g, raced')
  <2>1. \A q \in Installments : Unchanged[q] = "keep"  BY DEF Unchanged
  <2> QED  BY <1>5, <1>8, <2>1, ConstantsFit DEF DealWrites
<1>13. raced \subseteq raced' /\ raced' \subseteq Installments  BY <1>1, InvFacts
<1> QED  BY <1>1, <1>6, <1>7, <1>9, <1>10, <1>11, <1>12, <1>13, OwnStep

LEMMA RollbackKeeps ==
    ASSUME CollectionsInv, NEW s \in Tills, deal' = [deal EXCEPT ![s] = NoDeal],
           UNCHANGED <<taken, status, doc, stamped, raced>>
    PROVE  CollectionsInv'
<1>1. /\ NoDeal \in Deals /\ DealBegun(NoDeal) /\ DealFits(NoDeal, raced') /\ DealWrites(NoDeal, raced')
      /\ NoDeal.locks = {} /\ \A p \in Installments : NoDeal.got[p] = 0
  BY NoDealFits, ConstantsFit
<1>2. raced \subseteq raced' /\ raced' \subseteq Installments  BY InvFacts
<1>3. \A t \in Tills \ {s} : NoDeal.locks \cap deal[t].locks = {}  BY <1>1
<1>4. \A p \in Installments \ raced', t \in Tills \ {s} : NoDeal.got[p] = 0 \/ deal[t].got[p] = 0  BY <1>1
<1> QED  BY <1>1, <1>2, <1>3, <1>4, OwnStep

LEMMA CollectAtEndKeeps ==
    ASSUME CollectionsInv, NEW s \in Tills, NEW collected \in SUBSET Installments, CollectAtEnd(s, collected)
    PROVE  CollectionsInv'
<1> DEFINE open == {p \in Installments : status[p] \in {"pending", "partially_paid"} /\ OnInstallment(p) < Due}
           got == [p \in Payees |-> IF p \in collected THEN Due - OnInstallment(p) ELSE 0]
           g == [NoDeal EXCEPT !.at = "row", !.kind = "end", !.locks = Installments,
                               !.queue = SetToSeq(open), !.got = got]
<1>1. /\ deal[s].at = "idle" /\ ~Locked(s, Installments) /\ open # {} /\ collected \subseteq open
      /\ deal' = [deal EXCEPT ![s] = g] /\ raced' = raced \cup Races(s, Installments, collected)
      /\ UNCHANGED <<taken, status, doc, stamped>>
  BY DEF CollectAtEnd, Deal
<1>2. \A p \in Payees : /\ OnInstallment(p) = Paid(taken, p) /\ Paid(taken, p) \in Nat
                        /\ taken[p][None] \in Nat /\ taken[p][None] <= Paid(taken, p)
  BY InvFacts
<1>3. \A p \in collected : p \in Installments /\ p \in Payees /\ Paid(taken, p) < Due
  BY <1>1, <1>2, ConstantsFit
<1>4. /\ got \in [Payees -> Nat]
      /\ \A p \in Payees : got[p] = IF p \in collected THEN Due - Paid(taken, p) ELSE 0
  <2>1. ASSUME NEW p \in Payees
        PROVE  got[p] \in Nat /\ got[p] = IF p \in collected THEN Due - Paid(taken, p) ELSE 0
    <3>1. got[p] = IF p \in collected THEN Due - Paid(taken, p) ELSE 0  BY <1>2
    <3> HIDE DEF got
    <3>2. CASE p \in collected  BY <1>2, <1>3, <3>1, <3>2, ConstantsFit
    <3>3. CASE p \notin collected  BY <3>1, <3>3
    <3> QED  BY <3>2, <3>3
  <2> QED  BY <2>1
<1>5. SetToSeq(open) \in Seq(Installments) /\ Range(SetToSeq(open)) = open /\ SetToSeq(open) # <<>>
  <2>1. open \in SUBSET Installments  OBVIOUS
  <2> HIDE DEF open
  <2> QED  BY <1>1, <2>1, InSomeOrder
<1> HIDE DEF open, got
<1>6. /\ g.at = "row" /\ g.kind = "end" /\ g.doc = None /\ g.locks = Installments /\ g.left = 0
      /\ g.queue = SetToSeq(open) /\ g.got = got /\ g.set = Unchanged
  BY DEF NoDeal
<1>7. g \in Deals  BY <1>4, <1>5 DEF NoDeal, Deals, Unchanged
<1> HIDE DEF g
<1>8. \A t \in Tills \ {s} : deal[t].locks \cap Installments = {}  BY <1>1 DEF Locked
<1>9. raced \subseteq raced' /\ raced' \subseteq Installments
  <2>1. raced \subseteq Installments  BY InvFacts
  <2> QED  BY <1>1, <2>1 DEF Races
<1>10. \A t \in Tills \ {s} : g.locks \cap deal[t].locks = {}  BY <1>6, <1>8
<1>11. \A q \in Installments \ raced', t \in Tills \ {s} : g.got[q] = 0 \/ deal[t].got[q] = 0
  <2> SUFFICES ASSUME NEW q \in Installments \ raced', NEW t \in Tills \ {s}
               PROVE  g.got[q] = 0 \/ deal[t].got[q] = 0
    OBVIOUS
  <2>1. CASE q \notin collected  BY <1>4, <1>6, <2>1, ConstantsFit
  <2>2. CASE q \in collected
    <3>1. q \notin Races(s, Installments, collected)  BY <1>1
    <3>2. CollectionsTypeOK  BY DEF CollectionsInv
    <3> QED  BY <1>8, <2>2, <3>1, <3>2, Uncontested
  <2> QED  BY <2>1, <2>2
<1>12. DealBegun(g)
  <2>1. got[None] = 0  BY <1>3, <1>4, ConstantsFit
  <2> QED  BY <1>5, <1>6, <2>1 DEF DealBegun
<1>13. DealFits(g, raced')
  <2>1. ASSUME NEW q \in Installments
        PROVE  taken[q][None] + got[q] <= Due /\ (got[q] > 0 => Paid(taken, q) + got[q] <= Due)
    <3>1. q \in Payees /\ Due \in Nat /\ taken[q][None] <= Due  BY ConstantsFit DEF CollectionsInv, BooksBound
    <3>2. CASE q \in collected  BY <1>2, <1>4, <3>1, <3>2
    <3>3. CASE q \notin collected  BY <1>2, <1>4, <3>1, <3>3
    <3> QED  BY <3>2, <3>3
  <2> QED  BY <1>6, <2>1 DEF DealFits
<1>14. DealWrites(g, raced')
  <2>1. \A q \in Installments : Unchanged[q] = "keep"  BY DEF Unchanged
  <2>2. ASSUME NEW q \in Installments, got[q] > 0 PROVE q \in Range(g.queue) /\ Paid(taken, q) + got[q] >= Due
    <3>1. q \in Payees /\ Due \in Nat  BY ConstantsFit
    <3>2. q \in collected  BY <1>4, <2>2, <3>1
    <3>3. got[q] = Due - Paid(taken, q)  BY <1>4, <3>1, <3>2
    <3> QED  BY <1>1, <1>2, <1>5, <1>6, <3>1, <3>2, <3>3
  <2> QED  BY <1>6, <2>1, <2>2 DEF DealWrites
<1> QED  BY <1>1, <1>7, <1>9, <1>10, <1>11, <1>12, <1>13, <1>14, OwnStep

\* The fields of a transaction.
LEMMA DealFields ==
    ASSUME NEW f \in Deals
    PROVE  /\ f.left \in Nat /\ f.before \in Nat /\ f.queue \in Seq(Installments)
           /\ f.got \in [Payees -> Nat] /\ \A p \in Payees : f.got[p] \in Nat
           /\ f.set \in [Installments -> {"keep", "paid", "partially_paid", "cancelled"}]
  BY DEF Deals

LEMMA NextLineKeeps ==
    ASSUME CollectionsInv, NEW s \in Tills, NextLine(s)
    PROVE  CollectionsInv'
<1> DEFINE f == deal[s]
           p == Head(f.queue)
           room == Due - OnInstallment(p) - f.got[p]
           amount == Min({room, f.left})
           skips == [f EXCEPT !.queue = Tail(@)]
           takes == [f EXCEPT !.at = "row", !.before = OnInstallment(p), !.got[p] = @ + amount, !.left = @ - amount]
<1>1. /\ f.at = "lines" /\ f.left > 0 /\ f.queue # <<>> /\ UNCHANGED <<taken, status, doc, stamped>>
      /\ IF status[p] = "cancelled" \/ room <= 0
           THEN deal' = [deal EXCEPT ![s] = skips] /\ raced' = raced
           ELSE /\ deal' = [deal EXCEPT ![s] = takes]
                /\ raced' = raced \cup Races(s, f.locks, {p})
  BY DEF NextLine, Deal
<1>2. f \in Deals /\ DealBegun(f) /\ DealFits(f, raced) /\ DealWrites(f, raced)  BY InvFacts
<1>3. /\ f.left \in Nat /\ f.before \in Nat /\ f.queue \in Seq(Installments)
      /\ f.got \in [Payees -> Nat] /\ \A q \in Payees : f.got[q] \in Nat
      /\ f.set \in [Installments -> {"keep", "paid", "partially_paid", "cancelled"}]
  <2> HIDE DEF f
  <2> QED  BY <1>2, DealFields
<1>4. p \in Installments /\ p \in Payees /\ p # None /\ Tail(f.queue) \in Seq(Installments) /\ p \in Range(f.queue)
  <2> HIDE DEF f
  <2> QED  BY <1>1, <1>3, HeadFirst, ConstantsFit
<1>5. OnInstallment(p) = Paid(taken, p) /\ Paid(taken, p) \in Nat /\ Due \in Nat
  <2> HIDE DEF p
  <2> QED  BY <1>4, InvFacts, ConstantsFit
<1>6. f.kind = "invoice" /\ f.at # "idle"  BY <1>1, <1>2 DEF DealBegun
<1>7. \A t \in Tills \ {s} : f.locks \cap deal[t].locks = {} /\ deal[t].locks \cap f.locks = {}
  BY DEF CollectionsInv, LocksApart
<1>8. \A q \in Installments, t \in Tills \ {s} : q \notin raced => f.got[q] = 0 \/ deal[t].got[q] = 0
  BY DEF CollectionsInv, OneCollector
<1>9. CASE status[p] = "cancelled" \/ room <= 0
  <2> DEFINE g == skips
  <2>1. deal' = [deal EXCEPT ![s] = g] /\ raced' = raced  BY <1>1, <1>9
  <2>2. /\ g.at = "lines" /\ g.kind = f.kind /\ g.doc = f.doc /\ g.locks = f.locks /\ g.left = f.left
        /\ g.queue = Tail(f.queue) /\ g.before = f.before /\ g.got = f.got /\ g.set = f.set
    BY <1>1, <1>2 DEF Deals
  <2>3. g \in Deals  BY <1>2, <1>4 DEF Deals
  <2> HIDE DEF f, skips, p
  <2>4. DealBegun(g)  BY <1>1, <1>6, <2>2 DEF DealBegun
  <2>5. DealFits(g, raced')  BY <1>2, <1>6, <2>1, <2>2 DEF DealFits
  <2>6. DealWrites(g, raced')  BY <1>1, <1>2, <1>6, <2>1, <2>2 DEF DealWrites
  <2>7. \A t \in Tills \ {s} : g.locks \cap deal[t].locks = {}  BY <1>7, <2>2
  <2>8. \A q \in Installments \ raced', t \in Tills \ {s} : g.got[q] = 0 \/ deal[t].got[q] = 0
    BY <1>8, <2>1, <2>2
  <2>9. raced \subseteq raced' /\ raced' \subseteq Installments  BY <2>1, InvFacts
  <2> QED  BY <1>1, <2>1, <2>3, <2>4, <2>5, <2>6, <2>7, <2>8, <2>9, OwnStep
<1>10. CASE ~(status[p] = "cancelled" \/ room <= 0)
  <2> DEFINE got == [f.got EXCEPT ![p] = @ + amount]
             g == takes
  <2>1. deal' = [deal EXCEPT ![s] = g] /\ raced' = raced \cup Races(s, f.locks, {p})  BY <1>1, <1>10
  <2>2. room \in Int /\ room = Due - Paid(taken, p) - f.got[p] /\ room > 0 /\ f.got[p] \in Nat
    <3> HIDE DEF f, p
    <3> QED  BY <1>3, <1>4, <1>5, <1>10
  <2>3. amount \in Nat /\ amount > 0 /\ amount <= room /\ amount <= f.left /\ (amount = room \/ amount = f.left)
    <3>1. room \in Int /\ f.left \in Int /\ f.left > 0  BY <1>1, <1>3, <2>2
    <3> HIDE DEF room, f
    <3>2. amount \in {room, f.left} /\ amount <= room /\ amount <= f.left  BY <3>1, OfTwo
    <3> HIDE DEF amount
    <3> QED  BY <2>2, <3>1, <3>2
  <2> HIDE DEF amount, room
  <2>4. f.got[p] = 0
    <3>1. f.kind = "invoice" /\ f.at \in {"lines", "row"} /\ f.left > 0 /\ f.got[p] > 0 =>
             Paid(taken, p) + f.got[p] >= Due
      <4> HIDE DEF f, p
      <4> QED  BY <1>2, <1>4 DEF DealWrites
    <3> HIDE DEF f, p
    <3> QED  BY <1>1, <1>5, <1>6, <2>2, <3>1
  <2>5. got \in [Payees -> Nat] /\ got[p] = amount /\ \A q \in Payees : q # p => got[q] = f.got[q]
    <3> HIDE DEF f, p
    <3>1. f.got[p] + amount = amount  BY <2>3, <2>4
    <3> QED  BY <1>3, <1>4, <2>3, <2>4, <3>1
  <2>6. /\ g.at = "row" /\ g.kind = f.kind /\ g.doc = f.doc /\ g.locks = f.locks /\ g.left = f.left - amount
        /\ g.queue = f.queue /\ g.before = Paid(taken, p) /\ g.got = got /\ g.set = f.set
    BY <1>2, <1>5 DEF Deals
  <2>7. g \in Deals
    <3>1. f.left - amount \in Nat
      <4> HIDE DEF f
      <4> QED  BY <1>3, <2>3
    <3>2. g = [f EXCEPT !.at = "row", !.before = Paid(taken, p), !.got = got, !.left = f.left - amount]
      BY <1>2, <1>5 DEF Deals
    <3> HIDE DEF g, got, p
    <3> QED  BY <1>2, <1>5, <2>5, <3>1, <3>2 DEF Deals
  <2> HIDE DEF f, p, got, takes
  <2>8. Total(Payees, got) = Total(Payees, f.got) + amount /\ Total(Payees, f.got) \in Nat
    <3>1. Total(Payees, got) = Total(Payees, f.got) - f.got[p] + got[p]  BY <1>3, <1>4, <2>5, GotMoves
    <3>2. Total(Payees, f.got) \in Nat  BY <1>3, GotIsNat
    <3> QED  BY <2>3, <2>4, <2>5, <3>1, <3>2
  <2>9. raced \subseteq raced' /\ raced' \subseteq Installments
    <3>1. raced \subseteq Installments  BY InvFacts
    <3> QED  BY <1>4, <2>1, <3>1 DEF Races
  <2>10. \A q \in Installments \ raced', t \in Tills \ {s} : g.got[q] = 0 \/ deal[t].got[q] = 0
    <3> SUFFICES ASSUME NEW q \in Installments \ raced', NEW t \in Tills \ {s}
                 PROVE  g.got[q] = 0 \/ deal[t].got[q] = 0
      OBVIOUS
    <3>1. CASE q # p
      <4>1. g.got[q] = f.got[q] /\ q \notin raced  BY <2>5, <2>6, <2>9, <3>1, ConstantsFit
      <4> QED  BY <1>8, <4>1
    <3>2. CASE q = p
      <4>1. p \notin Races(s, f.locks, {p})  BY <2>1, <3>2
      <4>2. CollectionsTypeOK  BY DEF CollectionsInv
      <4>3. \A u \in Tills \ {s} : deal[u].locks \cap f.locks = {}  BY <1>7
      <4>4. deal[t].got[p] = 0  BY <1>4, <4>1, <4>2, <4>3, Uncontested
      <4> QED  BY <3>2, <4>4
    <3> QED  BY <3>1, <3>2
  <2>11. DealBegun(g)  BY <1>1, <1>6, <2>6 DEF DealBegun
  <2>12. DealFits(g, raced')
    <3>1. /\ f.doc \in Docs /\ f.locks = {f.doc} /\ doc[f.doc] = "confirmed"
          /\ Billed(taken, f.doc) + Total(Payees, f.got) + f.left <= Net(f.doc)
      BY <1>2, <1>6 DEF DealFits
    <3>2. Billed(taken, f.doc) \in Nat /\ Net(f.doc) \in Nat  BY <3>1, InvFacts
    <3>3. Billed(taken, f.doc) + Total(Payees, got) + (f.left - amount) <= Net(f.doc)
      BY <1>3, <2>3, <2>8, <3>1, <3>2
    <3>4. ASSUME NEW q \in Installments, got[q] > 0, q \notin raced' PROVE Paid(taken, q) + got[q] <= Due
      <4>1. CASE q = p  BY <1>5, <2>2, <2>3, <2>4, <2>5, <4>1
      <4>2. CASE q # p
        <5>1. got[q] = f.got[q] /\ q \notin raced  BY <2>5, <2>9, <3>4, <4>2, ConstantsFit
        <5> QED  BY <1>2, <3>4, <5>1 DEF DealFits
      <4> QED  BY <4>1, <4>2
    <3> QED  BY <1>6, <2>6, <3>1, <3>3, <3>4 DEF DealFits
  <2>13. DealWrites(g, raced')
    <3>1. DealWrites(f, raced')  BY <1>2, <2>9, OverlapsAskLess
    <3> SUFFICES ASSUME NEW q \in Installments
                 PROVE  /\ got[q] > 0 => f.set[q] # "keep" \/ (q \in Range(f.queue) /\ q = p)
                        /\ f.set[q] = "paid" => Paid(taken, q) + got[q] >= Due
                        /\ f.set[q] = "partially_paid" => got[q] > 0
                        /\ f.set[q] = "partially_paid" /\ q \notin raced' => Paid(taken, q) + got[q] < Due
                        /\ q = p => got[q] > 0 /\ Paid(taken, p) <= Paid(taken, q) /\ Paid(taken, p) = Paid(taken, q)
                        /\ f.left - amount > 0 /\ got[q] > 0 => Paid(taken, q) + got[q] >= Due
      BY <1>6, <2>6 DEF DealWrites, p
    <3>2. CASE q = p
      <4>1. f.set[p] # "partially_paid" /\ f.set[p] # "paid"
        <5>1. f.set[p] = "partially_paid" => f.got[p] > 0  BY <1>4, <3>1 DEF DealWrites
        <5>2. f.set[p] = "paid" => Paid(taken, p) + f.got[p] >= Due  BY <1>4, <3>1 DEF DealWrites
        <5> QED  BY <1>5, <2>2, <2>4, <5>1, <5>2
      <4>2. f.left - amount > 0 => Paid(taken, p) + got[p] >= Due
        BY <1>3, <1>5, <2>2, <2>3, <2>4, <2>5
      <4> QED  BY <1>4, <1>5, <2>3, <2>5, <3>2, <4>1, <4>2
    <3>3. CASE q # p
      <4>1. got[q] = f.got[q] /\ q \in Payees  BY <2>5, <3>3, ConstantsFit
      <4> QED  BY <1>1, <1>6, <3>1, <3>3, <4>1 DEF DealWrites
    <3> QED  BY <3>2, <3>3
  <2>14. \A t \in Tills \ {s} : g.locks \cap deal[t].locks = {}  BY <1>7, <2>6
  <2> QED  BY <1>1, <2>1, <2>7, <2>9, <2>10, <2>11, <2>12, <2>13, <2>14, OwnStep
<1> QED  BY <1>9, <1>10

LEMMA EndOfLinesKeeps ==
    ASSUME CollectionsInv, NEW s \in Tills, EndOfLines(s)
    PROVE  CollectionsInv'
<1> DEFINE f == deal[s]
           d == f.doc
           room == Max({0, Notes[d] - taken[None][d]})
           extra == Min({room, f.left})
           got == [f.got EXCEPT ![None] = extra]
           g == [f EXCEPT !.at = "commit", !.left = 0, !.got = got]
<1>1. /\ f.at = "lines" /\ UNCHANGED <<taken, status, doc, stamped, raced>>
      /\ deal' = [deal EXCEPT ![s] = IF got = NoMoney THEN NoDeal ELSE g]
  BY DEF EndOfLines, Deal
<1>2. f \in Deals /\ DealBegun(f) /\ DealFits(f, raced) /\ DealWrites(f, raced)  BY InvFacts
<1>3. /\ f.left \in Nat /\ f.got \in [Payees -> Nat] /\ \A q \in Payees : f.got[q] \in Nat
  <2> HIDE DEF f
  <2> QED  BY <1>2, DealFields
<1>4. f.kind = "invoice"  BY <1>1, <1>2 DEF DealBegun
<1>5. /\ d \in Docs /\ Billed(taken, d) \in Nat /\ Net(d) \in Nat
      /\ Billed(taken, d) + Total(Payees, f.got) + f.left <= Net(d)
  <2>1. d \in Docs /\ Billed(taken, d) + Total(Payees, f.got) + f.left <= Net(d)
    <3> HIDE DEF f
    <3> QED  BY <1>2, <1>4 DEF DealFits
  <2> HIDE DEF d
  <2> QED  BY <2>1, InvFacts
<1>6. extra \in Nat /\ extra <= f.left
  <2>1. Notes[d] - taken[None][d] \in Int
    <3>1. taken[None][d] \in Nat /\ Notes[d] \in Nat
      <4> HIDE DEF d
      <4> QED  BY <1>5, InvFacts, ConstantsFit, CollectionsAssumption
    <3> HIDE DEF d
    <3> QED  BY <3>1
  <2>2. room \in Int /\ room >= 0
    <3> DEFINE x == Notes[d] - taken[None][d]
    <3> HIDE DEF x
    <3>1. x \in Int  BY <2>1 DEF x
    <3>2. Max({0, x}) \in {0, x} /\ Max({0, x}) >= 0  BY <3>1, OfTwo
    <3>3. room = Max({0, x})  BY DEF x
    <3> HIDE DEF room
    <3> QED  BY <3>1, <3>2, <3>3
  <2> HIDE DEF room, f
  <2>3. f.left \in Int /\ f.left >= 0  BY <1>3
  <2>4. extra \in {room, f.left} /\ extra <= f.left  BY <2>2, <2>3, OfTwo
  <2> HIDE DEF extra
  <2> QED  BY <2>2, <2>3, <2>4
<1> HIDE DEF extra
<1>7. got \in [Payees -> Nat] /\ got[None] = extra /\ \A q \in Payees : q # None => got[q] = f.got[q]
  <2> HIDE DEF f
  <2> QED  BY <1>3, <1>6, ConstantsFit
<1>8. CASE got = NoMoney
  <2>1. deal' = [deal EXCEPT ![s] = NoDeal]  BY <1>1, <1>8
  <2> QED  BY <1>1, <2>1, RollbackKeeps
<1>9. CASE got # NoMoney
  <2>1. deal' = [deal EXCEPT ![s] = g]  BY <1>1, <1>9
  <2> HIDE DEF got
  <2>2. /\ g.at = "commit" /\ g.kind = f.kind /\ g.doc = f.doc /\ g.locks = f.locks /\ g.left = 0
        /\ g.got = got /\ g.set = f.set
    BY <1>2 DEF Deals
  <2>3. g \in Deals  BY <1>2, <1>7 DEF Deals
  <2> HIDE DEF f, g
  <2>4. Total(Payees, got) <= Total(Payees, f.got) + f.left /\ Total(Payees, got) \in Nat
    <3>1. Total(Payees, got) = Total(Payees, f.got) - f.got[None] + got[None]
      BY <1>3, <1>7, GotMoves, ConstantsFit
    <3>2. Total(Payees, f.got) \in Nat /\ Total(Payees, got) \in Nat  BY <1>3, <1>7, GotIsNat
    <3>3. f.got[None] \in Nat  BY <1>3, ConstantsFit
    <3> QED  BY <1>3, <1>6, <1>7, <3>1, <3>2, <3>3
  <2>5. \A q \in Installments : got[q] = f.got[q]  BY <1>7, ConstantsFit
  <2>6. DealBegun(g)  BY <1>4, <2>2 DEF DealBegun
  <2>7. DealFits(g, raced')
    <3>1. Total(Payees, f.got) \in Nat  BY <1>3, GotIsNat
    <3>2. Billed(taken, d) + Total(Payees, got) + 0 <= Net(d)
      <4> HIDE DEF d
      <4> QED  BY <1>3, <1>5, <2>4, <3>1
    <3> QED  BY <1>1, <1>2, <1>4, <2>2, <2>5, <3>2 DEF DealFits
  <2>8. DealWrites(g, raced')  BY <1>1, <1>2, <1>4, <2>2, <2>5 DEF DealWrites
  <2>9. \A t \in Tills \ {s} : g.locks \cap deal[t].locks = {}
    BY <2>2 DEF CollectionsInv, LocksApart, f
  <2>10. \A q \in Installments \ raced', t \in Tills \ {s} : g.got[q] = 0 \/ deal[t].got[q] = 0
    BY <1>1, <2>2, <2>5 DEF CollectionsInv, OneCollector, f
  <2>11. raced \subseteq raced' /\ raced' \subseteq Installments  BY <1>1, InvFacts
  <2> QED  BY <1>1, <2>1, <2>3, <2>6, <2>7, <2>8, <2>9, <2>10, <2>11, OwnStep
<1> QED  BY <1>8, <1>9

LEMMA WriteStatusKeeps ==
    ASSUME CollectionsInv, NEW s \in Tills, WriteStatus(s)
    PROVE  CollectionsInv'
<1> DEFINE f == deal[s]
           p == Head(f.queue)
           rest == Tail(f.queue)
           at == CASE f.kind = "invoice" -> "lines"
                   [] f.kind = "end" /\ rest # <<>> -> "row"
                   [] OTHER -> "commit"
           g == [f EXCEPT !.queue = rest, !.set[p] = NewStatus(s, p), !.at = at]
<1>1. /\ f.at = "row" /\ deal' = [deal EXCEPT ![s] = g] /\ UNCHANGED <<taken, status, doc, stamped, raced>>
  BY DEF WriteStatus, Deal
<1>2. f \in Deals /\ DealBegun(f) /\ DealFits(f, raced) /\ DealWrites(f, raced)  BY InvFacts
<1>3. /\ f.left \in Nat /\ f.before \in Nat /\ f.queue \in Seq(Installments)
      /\ f.got \in [Payees -> Nat] /\ \A q \in Payees : f.got[q] \in Nat
      /\ f.set \in [Installments -> {"keep", "paid", "partially_paid", "cancelled"}]
  <2> HIDE DEF f
  <2> QED  BY <1>2, DealFields
<1>4. f.queue # <<>> /\ f.kind # "none"  BY <1>1, <1>2 DEF DealBegun
<1>5. /\ p \in Installments /\ rest \in Seq(Installments)
      /\ \A q \in Range(f.queue) : q = p \/ (q \in Range(rest) /\ rest # <<>>)
  <2> HIDE DEF f
  <2> QED  BY <1>3, <1>4, HeadFirst
<1>6. Paid(taken, p) \in Nat /\ Due \in Nat /\ f.got[p] \in Nat
  <2> HIDE DEF p, f
  <2> QED  BY <1>3, <1>5, InvFacts, ConstantsFit
<1>7. /\ f.kind # "end" => NewStatus(s, p) = StatusFor(f.before, f.got[p])
      /\ f.kind = "end" => NewStatus(s, p) = IF f.got[p] > 0 THEN "paid" ELSE "cancelled"
  BY DEF NewStatus
<1>8. NewStatus(s, p) \in {"paid", "partially_paid", "cancelled"}
  <2> HIDE DEF p, f
  <2>1. CASE f.kind # "end"  BY <1>3, <1>6, <1>7, <2>1, StatusIs
  <2>2. CASE f.kind = "end"  BY <1>7, <2>2
  <2> QED  BY <2>1, <2>2
<1> DEFINE set == [f.set EXCEPT ![p] = NewStatus(s, p)]
<1>9. /\ set \in [Installments -> {"keep", "paid", "partially_paid", "cancelled"}]
      /\ set[p] = NewStatus(s, p) /\ \A q \in Installments : q # p => set[q] = f.set[q]
  <2> HIDE DEF f, p
  <2> QED  BY <1>3, <1>5, <1>8
<1>10. /\ at \in {"lines", "row", "commit"}
       /\ at = "lines" => f.kind = "invoice"
       /\ f.kind = "invoice" => at = "lines"
       /\ at = "row" <=> f.kind = "end" /\ rest # <<>>
  <2> HIDE DEF rest, f
  <2> QED  OBVIOUS
<1>11. /\ g.at = at /\ g.kind = f.kind /\ g.doc = f.doc /\ g.locks = f.locks /\ g.left = f.left
       /\ g.queue = rest /\ g.before = f.before /\ g.got = f.got /\ g.set = set
  BY <1>2 DEF Deals
<1>12. g \in Deals
  <2>1. g = [f EXCEPT !.queue = rest, !.set = set, !.at = at]  BY <1>2 DEF Deals
  <2>2. at \in {"idle", "lines", "row", "commit"}  BY <1>10
  <2> HIDE DEF set, g, at, rest
  <2> QED  BY <1>2, <1>5, <1>9, <2>1, <2>2 DEF Deals
<1> HIDE DEF f, p, rest, at, g, set
<1>13. DealBegun(g)  BY <1>2, <1>4, <1>10, <1>11 DEF DealBegun
<1>14. DealFits(g, raced')  BY <1>1, <1>2, <1>11 DEF DealFits
<1>15. DealWrites(g, raced')
  <2> SUFFICES ASSUME NEW q \in Installments
               PROVE  /\ f.got[q] > 0 => set[q] # "keep" \/ (at = "row" /\ q \in Range(rest))
                      /\ set[q] = "paid" => Paid(taken, q) + f.got[q] >= Due
                      /\ set[q] = "partially_paid" => f.got[q] > 0
                      /\ set[q] = "partially_paid" /\ q \notin raced => Paid(taken, q) + f.got[q] < Due
                      /\ f.kind = "end" /\ f.got[q] > 0 => Paid(taken, q) + f.got[q] >= Due
                      /\ f.kind = "invoice" /\ f.left > 0 /\ f.got[q] > 0 => Paid(taken, q) + f.got[q] >= Due
    BY <1>1, <1>10, <1>11 DEF DealWrites
  <2>1. /\ f.kind = "end" /\ f.got[q] > 0 => Paid(taken, q) + f.got[q] >= Due
        /\ f.kind = "invoice" /\ f.left > 0 /\ f.got[q] > 0 => Paid(taken, q) + f.got[q] >= Due
    BY <1>1, <1>2 DEF DealWrites, f
  <2>2. CASE q # p
    <3>1. set[q] = f.set[q]  BY <1>9, <2>2
    <3>2. f.got[q] > 0 => \/ f.set[q] # "keep"
                          \/ q \in Range(f.queue) /\ (f.kind # "end" => q = p)
      BY <1>2 DEF DealWrites, p
    <3>3. f.got[q] > 0 => set[q] # "keep" \/ (at = "row" /\ q \in Range(rest))
      BY <1>5, <1>10, <2>2, <3>1, <3>2
    <3>4. /\ f.set[q] = "paid" => Paid(taken, q) + f.got[q] >= Due
          /\ f.set[q] = "partially_paid" => f.got[q] > 0
          /\ f.set[q] = "partially_paid" /\ q \notin raced => Paid(taken, q) + f.got[q] < Due
      BY <1>2 DEF DealWrites
    <3> QED  BY <2>1, <3>1, <3>3, <3>4
  <2>3. CASE q = p
    <3>1. set[p] = NewStatus(s, p) /\ set[p] # "keep"  BY <1>8, <1>9
    <3>2. CASE f.kind = "end"  BY <1>7, <2>1, <2>3, <3>1, <3>2
    <3>3. CASE f.kind # "end"
      <4>1. /\ f.got[p] > 0 /\ f.before <= Paid(taken, p)
            /\ p \notin raced => f.before = Paid(taken, p)
        BY <1>1, <1>2, <1>5, <3>3 DEF DealWrites, p, f
      <4>2. /\ set[p] \in {"paid", "partially_paid"}
            /\ set[p] = "paid" <=> f.before + f.got[p] >= Due
        BY <1>3, <1>6, <1>7, <3>1, <3>3, StatusIs
      <4>3. set[p] = "paid" => Paid(taken, p) + f.got[p] >= Due  BY <1>3, <1>6, <4>1, <4>2
      <4>4. set[p] = "partially_paid" /\ p \notin raced => Paid(taken, p) + f.got[p] < Due
        BY <1>3, <1>6, <4>1, <4>2
      <4> QED  BY <2>1, <2>3, <3>1, <4>1, <4>3, <4>4
    <3> QED  BY <3>2, <3>3
  <2> QED  BY <2>2, <2>3
<1>16. \A t \in Tills \ {s} : g.locks \cap deal[t].locks = {}
  BY <1>11 DEF CollectionsInv, LocksApart, f
<1>17. \A q \in Installments \ raced', t \in Tills \ {s} : g.got[q] = 0 \/ deal[t].got[q] = 0
  BY <1>1, <1>11 DEF CollectionsInv, OneCollector, f
<1>18. raced \subseteq raced' /\ raced' \subseteq Installments  BY <1>1, InvFacts
<1>19. deal' = [deal EXCEPT ![s] = g] /\ UNCHANGED <<taken, status, doc, stamped>>  BY <1>1
<1> QED  BY <1>12, <1>13, <1>14, <1>15, <1>16, <1>17, <1>18, <1>19, OwnStep

-----------------------------------------------------------------------------
(* Collections: the commit.                                                *)

LEMMA Settled ==
    ASSUME CollectionsInv, NEW s \in Tills, Settle(s)
    PROVE  /\ deal[s].doc \in Docs \cup {None} /\ deal[s].got \in [Payees -> Nat] /\ taken' \in Receipts
           /\ \A p \in Payees, e \in Docs \cup {None} :
                 taken'[p][e] = IF e = deal[s].doc THEN taken[p][e] + deal[s].got[p] ELSE taken[p][e]
           /\ \A p \in Payees : Paid(taken', p) = Paid(taken, p) + deal[s].got[p]
           /\ deal[s].doc \in Docs =>
                 Billed(taken', deal[s].doc) = Billed(taken, deal[s].doc) + Total(Payees, deal[s].got)
           /\ \A e \in Docs \ {deal[s].doc} : Billed(taken', e) = Billed(taken, e)
<1> DEFINE d == deal[s].doc
           got == deal[s].got
<1>1. d \in Docs \cup {None} /\ got \in [Payees -> Nat]  BY InvFacts DEF Deals
<1>2. taken' = [p \in Payees |-> [taken[p] EXCEPT ![d] = @ + got[p]]]  BY DEF Settle
<1> HIDE DEF d, got
<1>3. taken \in Receipts  BY InvFacts
<1>4. \A p \in Payees : /\ taken'[p] = [taken[p] EXCEPT ![d] = @ + got[p]]
                        /\ taken[p] \in [Docs \cup {None} -> Nat] /\ got[p] \in Nat
  BY <1>1, <1>2, <1>3 DEF Receipts
<1>5. \A p \in Payees, e \in Docs \cup {None} :
         taken'[p][e] = IF e = d THEN taken[p][e] + got[p] ELSE taken[p][e]
  BY <1>1, <1>4
<1>6. \A p \in Payees : taken'[p] \in [Docs \cup {None} -> Nat]
  <2> SUFFICES ASSUME NEW p \in Payees PROVE taken'[p] \in [Docs \cup {None} -> Nat]  OBVIOUS
  <2> DEFINE v == taken[p]
             m == got[p]
  <2>1. v \in [Docs \cup {None} -> Nat] /\ m \in Nat /\ taken'[p] = [v EXCEPT ![d] = @ + m]  BY <1>4
  <2> HIDE DEF v, m
  <2> QED  BY <1>1, <2>1
<1>7. taken' \in Receipts  BY <1>2, <1>6 DEF Receipts
<1>8. /\ \A p \in Payees : Paid(taken', p) = Paid(taken, p) + got[p]
      /\ d \in Docs => Billed(taken', d) = Billed(taken, d) + Total(Payees, got)
      /\ \A e \in Docs \ {d} : Billed(taken', e) = Billed(taken, e)
  <2> DEFINE nk == taken'
  <2>1. nk \in Receipts /\ \A p \in Payees, e \in Docs \cup {None} :
           nk[p][e] = IF e = d THEN taken[p][e] + got[p] ELSE taken[p][e]
    BY <1>5, <1>7
  <2> HIDE DEF nk
  <2>2. /\ \A p \in Payees : Paid(nk, p) = Paid(taken, p) + got[p]
        /\ d \in Docs => Billed(nk, d) = Billed(taken, d) + Total(Payees, got)
        /\ \A e \in Docs \ {d} : Billed(nk, e) = Billed(taken, e)
    BY <1>1, <1>3, <2>1, CollectedMore
  <2> QED  BY <2>2 DEF nk
<1> QED  BY <1>1, <1>5, <1>7, <1>8 DEF d, got

\* Nobody else is on the invoice, nor on an installment no kinds overlapped on, nor
\* has another the lock of an installment whose rows are on no invoice.
LEMMA OthersApart ==
    ASSUME CollectionsInv, NEW s \in Tills, NEW t \in Tills \ {s}
    PROVE  /\ deal[t].kind = "invoice" => deal[t].doc \in Docs \ {deal[s].doc}
           /\ \A p \in Installments :
                 /\ p \notin raced /\ deal[t].got[p] > 0 => deal[s].got[p] = 0
                 /\ deal[s].kind # "invoice" /\ p \in deal[t].locks => deal[s].got[p] = 0
<1>1. deal[s].locks \cap deal[t].locks = {}  BY DEF CollectionsInv, LocksApart
<1>2. /\ DealBegun(deal[s]) /\ DealFits(deal[s], raced) /\ DealFits(deal[t], raced)
      /\ deal[s].got \in [Payees -> Nat] /\ deal[t].got \in [Payees -> Nat]
  BY InvFacts DEF Deals
<1>3. ASSUME deal[t].kind = "invoice" PROVE deal[t].doc \in Docs \ {deal[s].doc}
  <2>1. deal[t].doc \in Docs /\ deal[t].locks = {deal[t].doc}  BY <1>2, <1>3 DEF DealFits
  <2>2. CASE deal[s].kind = "invoice"
    <3>1. deal[s].locks = {deal[s].doc}  BY <1>2, <2>2 DEF DealFits
    <3> QED  BY <1>1, <2>1, <3>1
  <2>3. CASE deal[s].kind # "invoice"
    <3>1. deal[s].doc = None  BY <1>2, <2>3 DEF DealBegun
    <3> QED  BY <2>1, <3>1, ConstantsFit
  <2> QED  BY <2>2, <2>3
<1>4. ASSUME NEW p \in Installments, p \notin raced, deal[t].got[p] > 0 PROVE deal[s].got[p] = 0
  <2>1. deal[s].got[p] = 0 \/ deal[t].got[p] = 0  BY <1>4 DEF CollectionsInv, OneCollector
  <2> QED  BY <1>4, <2>1
<1>5. ASSUME NEW p \in Installments, deal[s].kind # "invoice", p \in deal[t].locks PROVE deal[s].got[p] = 0
  <2>1. ~(deal[s].got[p] > 0)  BY <1>1, <1>2, <1>5 DEF DealFits
  <2>2. deal[s].got[p] \in Nat  BY <1>2, ConstantsFit
  <2> QED  BY <2>1, <2>2
<1> QED  BY <1>3, <1>4, <1>5

LEMMA SettleKeeps ==
    ASSUME CollectionsInv, NEW s \in Tills, Settle(s)
    PROVE  CollectionsInv'
<1> DEFINE f == deal[s]
           d == f.doc
<1>1. /\ f.at = "commit" /\ deal' = [deal EXCEPT ![s] = NoDeal] /\ doc' = doc /\ raced' = raced
      /\ status' = [p \in Installments |-> IF f.set[p] = "keep" THEN status[p] ELSE f.set[p]]
      /\ stamped' \subseteq stamped \cup Docs
  BY DEF Settle, Deal
<1>2. f \in Deals /\ DealBegun(f) /\ DealFits(f, raced) /\ DealWrites(f, raced)  BY InvFacts
<1>3. /\ d \in Docs \cup {None} /\ taken' \in Receipts /\ f.got \in [Payees -> Nat]
      /\ \A p \in Payees, e \in Docs \cup {None} :
            taken'[p][e] = IF e = d THEN taken[p][e] + f.got[p] ELSE taken[p][e]
      /\ \A p \in Payees : Paid(taken', p) = Paid(taken, p) + f.got[p]
      /\ d \in Docs => Billed(taken', d) = Billed(taken, d) + Total(Payees, f.got)
      /\ \A e \in Docs \ {d} : Billed(taken', e) = Billed(taken, e)
  BY Settled
<1>4. /\ f.left \in Nat /\ f.set \in [Installments -> {"keep", "paid", "partially_paid", "cancelled"}]
      /\ \A p \in Payees : f.got[p] \in Nat
  <2> HIDE DEF f
  <2> QED  BY <1>2, DealFields
<1>5. /\ deal \in [Tills -> Deals] /\ deal' \in [Tills -> Deals]
      /\ deal'[s] = NoDeal /\ \A t \in Tills \ {s} : deal'[t] = deal[t]
  BY <1>1, NoDealFits DEF CollectionsInv, CollectionsTypeOK
<1>6. /\ f.kind = "invoice" => d \in Docs
      /\ f.kind # "invoice" => d = None
      /\ d \in Docs => /\ f.kind = "invoice" /\ doc[d] = "confirmed"
                       /\ Billed(taken, d) + Total(Payees, f.got) + f.left <= Net(d)
  <2> HIDE DEF f
  <2> QED  BY <1>2, ConstantsFit DEF DealBegun, DealFits
<1>7. \A p \in Installments :
         /\ f.set[p] = "keep" => f.got[p] = 0
         /\ f.set[p] = "paid" => Paid(taken, p) + f.got[p] >= Due
         /\ f.set[p] = "partially_paid" => f.got[p] > 0
         /\ f.set[p] = "partially_paid" /\ p \notin raced => Paid(taken, p) + f.got[p] < Due
  <2> SUFFICES ASSUME NEW p \in Installments
               PROVE  /\ f.set[p] = "keep" => f.got[p] = 0
                      /\ f.set[p] = "paid" => Paid(taken, p) + f.got[p] >= Due
                      /\ f.set[p] = "partially_paid" => f.got[p] > 0
                      /\ f.set[p] = "partially_paid" /\ p \notin raced => Paid(taken, p) + f.got[p] < Due
    OBVIOUS
  <2>1. f.got[p] \in Nat  BY <1>4, ConstantsFit
  <2> HIDE DEF f
  <2>2. f.got[p] > 0 => f.set[p] # "keep"  BY <1>1, <1>2 DEF DealWrites
  <2>3. f.set[p] = "keep" => f.got[p] = 0  BY <2>1, <2>2
  <2> QED  BY <1>2, <2>3 DEF DealWrites
<1> HIDE DEF f, d
<1>8. CollectionsTypeOK'
  <2>1. status' \in [Installments -> {"pending", "partially_paid", "paid", "cancelled"}]
    BY <1>1, <1>4 DEF CollectionsInv, CollectionsTypeOK
  <2> QED  BY <1>1, <1>3, <1>5, <2>1 DEF CollectionsInv, CollectionsTypeOK, Receipts
<1>9. LocksApart'
  <2>1. NoDeal.locks = {}  BY NoDealFits
  <2> SUFFICES ASSUME NEW t \in Tills, NEW u \in Tills, t # u PROVE deal'[t].locks \cap deal'[u].locks = {}
    BY DEF LocksApart
  <2>2. CASE t = s  BY <1>5, <2>1, <2>2
  <2>3. CASE u = s  BY <1>5, <2>1, <2>3
  <2>4. CASE t # s /\ u # s  BY <1>5, <2>4 DEF CollectionsInv, LocksApart
  <2> QED  BY <2>2, <2>3, <2>4
<1>10. OneCollector'
  <2> SUFFICES ASSUME NEW p \in Installments \ raced, NEW t \in Tills, NEW u \in Tills, t # u
               PROVE  deal'[t].got[p] = 0 \/ deal'[u].got[p] = 0
    BY <1>1 DEF OneCollector
  <2>1. NoDeal.got[p] = 0  BY NoDealFits, ConstantsFit
  <2>2. CASE t = s  BY <1>5, <2>1, <2>2
  <2>3. CASE u = s  BY <1>5, <2>1, <2>3
  <2>4. CASE t # s /\ u # s  BY <1>5, <2>4 DEF CollectionsInv, OneCollector
  <2> QED  BY <2>2, <2>3, <2>4
<1>11. BooksBound'
  <2>1. ASSUME NEW p \in Installments PROVE taken'[p][None] <= Due
    <3>1. p \in Payees /\ taken[p][None] \in Nat /\ f.got[p] \in Nat /\ taken[p][None] <= Due
      BY <1>4, ConstantsFit, InvFacts DEF CollectionsInv, BooksBound
    <3>2. CASE d # None  BY <1>3, <3>1, <3>2
    <3>3. CASE d = None
      <4>1. taken'[p][None] = taken[p][None] + f.got[p]  BY <1>3, <3>1, <3>3
      <4>2. f.kind # "invoice"  BY <1>6, <3>3, ConstantsFit
      <4>3. f.got[p] > 0 => taken[p][None] + f.got[p] <= Due  BY <1>2, <4>2 DEF DealFits
      <4> QED  BY <3>1, <4>1, <4>3, ConstantsFit
    <3> QED  BY <3>2, <3>3
  <2>2. ASSUME NEW e \in Docs, doc[e] = "none", NEW p \in Payees PROVE taken'[p][e] = 0
    <3>1. e # d  BY <1>6, <2>2
    <3> QED  BY <1>3, <2>2, <3>1 DEF CollectionsInv, BooksBound
  <2> QED  BY <1>1, <2>1, <2>2 DEF BooksBound
<1>12. /\ \A p \in Payees : OnInstallment(p)' = Paid(taken', p)
       /\ \A e \in Docs : OnInvoice(e)' = Billed(taken', e)
  BY SumsAreTotals
<1>13. CollectedWithinDue'
  <2>1. ASSUME NEW p \in Installments, p \notin raced PROVE Paid(taken', p) <= Due
    <3>1. p \in Payees /\ Paid(taken', p) = Paid(taken, p) + f.got[p] /\ Paid(taken, p) \in Nat /\ f.got[p] \in Nat
      BY <1>3, <1>4, InvFacts, ConstantsFit
    <3>2. Paid(taken, p) <= Due  BY <2>1, <3>1, InvFacts DEF CollectionsInv, CollectedWithinDue
    <3>3. f.got[p] > 0 => Paid(taken, p) + f.got[p] <= Due  BY <1>2, <2>1 DEF DealFits
    <3> QED  BY <3>1, <3>2, <3>3, ConstantsFit
  <2>2. ASSUME NEW e \in Docs PROVE Billed(taken', e) <= Net(e)
    <3>1. Billed(taken, e) \in Nat /\ Net(e) \in Nat /\ Billed(taken, e) <= Net(e)
      BY InvFacts DEF CollectionsInv, CollectedWithinDue
    <3>2. CASE e # d  BY <1>3, <3>1, <3>2
    <3>3. CASE e = d
      <4>1. Billed(taken', d) = Billed(taken, d) + Total(Payees, f.got)  BY <1>3, <3>3
      <4>2. Billed(taken, d) + Total(Payees, f.got) + f.left <= Net(d)  BY <1>6, <3>3
      <4>3. Total(Payees, f.got) \in Nat  BY <1>3, GotIsNat
      <4> QED  BY <1>4, <3>1, <3>3, <4>1, <4>2, <4>3
    <3> QED  BY <3>2, <3>3
  <2> QED  BY <1>1, <1>12, <2>1, <2>2, ConstantsFit DEF CollectedWithinDue, Net
<1>14. StatusMatchesMoney'
  <2> SUFFICES ASSUME NEW p \in Installments
               PROVE  /\ status'[p] = "paid" => Paid(taken', p) >= Due
                      /\ Paid(taken', p) >= Due => status'[p] \in {"paid", "cancelled"} \/ p \in raced
                      /\ status'[p] = "partially_paid" => Paid(taken', p) > 0
    BY <1>1, <1>12, ConstantsFit DEF StatusMatchesMoney
  <2>1. p \in Payees /\ Paid(taken', p) = Paid(taken, p) + f.got[p] /\ Paid(taken, p) \in Nat /\ f.got[p] \in Nat
    BY <1>3, <1>4, InvFacts, ConstantsFit
  <2>2. status'[p] = IF f.set[p] = "keep" THEN status[p] ELSE f.set[p]  BY <1>1
  <2>3. CASE f.set[p] = "keep"
    <3>1. Paid(taken', p) = Paid(taken, p) /\ status'[p] = status[p]  BY <1>7, <2>1, <2>2, <2>3
    <3> QED  BY <2>1, <3>1, InvFacts DEF CollectionsInv, StatusMatchesMoney
  <2>4. CASE f.set[p] # "keep"
    <3>1. status'[p] = f.set[p] /\ f.set[p] \in {"paid", "partially_paid", "cancelled"}  BY <1>4, <2>2, <2>4
    <3>2. f.set[p] = "paid" => Paid(taken', p) >= Due  BY <1>7, <2>1
    <3>3. f.set[p] = "partially_paid" /\ p \notin raced => ~(Paid(taken', p) >= Due)
      BY <1>7, <2>1, ConstantsFit
    <3>4. f.set[p] = "partially_paid" => Paid(taken', p) > 0  BY <1>7, <2>1
    <3> QED  BY <3>1, <3>2, <3>3, <3>4
  <2> QED  BY <2>3, <2>4
<1>15. ASSUME NEW t \in Tills
       PROVE  DealBegun(deal[t])' /\ DealFits(deal[t], raced)' /\ DealWrites(deal[t], raced)'
  <2> DEFINE h == deal'[t]
  <2>1. CASE t = s
    <3>1. h = NoDeal  BY <1>5, <2>1
    <3>2. /\ NoDeal.at = "idle" /\ NoDeal.kind = "none" /\ NoDeal.doc = None /\ NoDeal.locks = {}
          /\ NoDeal.got[None] = 0
          /\ \A p \in Installments : NoDeal.got[p] = 0 /\ NoDeal.set[p] = "keep"
      BY NoDealFits, ConstantsFit DEF NoDeal
    <3> HIDE DEF h
    <3>3. /\ h = NoDeal /\ h.at = "idle" /\ h.kind = "none" /\ h.doc = None /\ h.locks = {} /\ h.got[None] = 0
          /\ \A p \in Installments : h.got[p] = 0 /\ h.set[p] = "keep"
      BY <3>1, <3>2
    <3>4. DealBegun(deal[t])'  BY <3>3 DEF DealBegun, h
    <3>5. DealFits(deal[t], raced)'  BY <3>3 DEF DealFits, h
    <3>6. DealWrites(deal[t], raced)'  BY <3>3 DEF DealWrites, h
    <3> QED  BY <3>4, <3>5, <3>6
  <2>2. CASE t # s
    <3>1. h = deal[t]  BY <1>5, <2>2
    <3> HIDE DEF h
    <3>2. h \in Deals /\ DealBegun(h) /\ DealFits(h, raced) /\ DealWrites(h, raced)  BY <3>1, InvFacts
    <3>3. /\ h.before \in Nat /\ h.got \in [Payees -> Nat]
          /\ \A p \in Payees : h.got[p] \in Nat
      BY <3>2, DealFields
    <3>4. /\ h.kind = "invoice" => h.doc \in Docs \ {d}
          /\ \A p \in Installments :
                /\ p \notin raced /\ h.got[p] > 0 => f.got[p] = 0
                /\ f.kind # "invoice" /\ p \in h.locks => f.got[p] = 0
      BY <2>2, <3>1, OthersApart DEF f, d
    <3>5. \A p \in Installments :
             /\ p \in Payees /\ Paid(taken, p) \in Nat /\ h.got[p] \in Nat /\ f.got[p] \in Nat
             /\ Paid(taken', p) \in Nat /\ Paid(taken', p) = Paid(taken, p) + f.got[p]
             /\ p \notin raced /\ h.got[p] > 0 => Paid(taken', p) = Paid(taken, p)
      <4> SUFFICES ASSUME NEW p \in Installments
                   PROVE  /\ p \in Payees /\ Paid(taken, p) \in Nat /\ h.got[p] \in Nat /\ f.got[p] \in Nat
                          /\ Paid(taken', p) \in Nat /\ Paid(taken', p) = Paid(taken, p) + f.got[p]
                          /\ p \notin raced /\ h.got[p] > 0 => Paid(taken', p) = Paid(taken, p)
        OBVIOUS
      <4>1. p \in Payees /\ Paid(taken, p) \in Nat /\ h.got[p] \in Nat /\ f.got[p] \in Nat
        BY <1>4, <3>3, InvFacts, ConstantsFit
      <4>2. Paid(taken', p) = Paid(taken, p) + f.got[p]  BY <1>3, <4>1
      <4>3. p \notin raced /\ h.got[p] > 0 => f.got[p] = 0  BY <3>4
      <4> QED  BY <4>1, <4>2, <4>3
    <3>6. DealBegun(deal[t])'  BY <3>2 DEF DealBegun, h
    <3>7. DealFits(deal[t], raced)'
      <4>1. ASSUME h.kind = "invoice"
            PROVE  /\ h.doc \in Docs /\ h.locks = {h.doc} /\ doc[h.doc] = "confirmed"
                   /\ Billed(taken', h.doc) + Total(Payees, h.got) + h.left <= Net(h.doc)
        <5>1. Billed(taken', h.doc) = Billed(taken, h.doc)  BY <1>3, <3>4, <4>1
        <5> QED  BY <3>2, <4>1, <5>1 DEF DealFits
      <4>2. ASSUME NEW p \in Installments, h.kind # "invoice", p \in h.locks
            PROVE  taken'[p][None] + h.got[p] <= Due
        <5>1. taken'[p][None] = taken[p][None]
          <6>1. p \in Payees /\ taken[p][None] \in Nat  BY ConstantsFit, InvFacts
          <6>2. CASE d # None  BY <1>3, <6>1, <6>2
          <6>3. CASE d = None
            <7>1. f.got[p] = 0  BY <1>6, <3>4, <4>2, <6>3, ConstantsFit
            <7>2. taken'[p][None] = taken[p][None] + f.got[p]  BY <1>3, <6>1, <6>3
            <7> QED  BY <6>1, <7>1, <7>2
          <6> QED  BY <6>2, <6>3
        <5> QED  BY <3>2, <4>2, <5>1 DEF DealFits
      <4>3. ASSUME NEW p \in Installments, h.got[p] > 0, p \notin raced
            PROVE  Paid(taken', p) + h.got[p] <= Due
        <5>1. Paid(taken', p) = Paid(taken, p)  BY <3>5, <4>3
        <5> QED  BY <3>2, <4>3, <5>1 DEF DealFits
      <4>4. \A p \in Installments : h.kind # "invoice" /\ h.got[p] > 0 => p \in h.locks
        BY <3>2 DEF DealFits
      <4> QED  BY <1>1, <4>1, <4>2, <4>3, <4>4 DEF DealFits, Net, h
    <3>8. DealWrites(deal[t], raced)'
      <4> SUFFICES ASSUME NEW p \in Installments
                   PROVE  /\ h.got[p] > 0 =>
                                \/ h.set[p] # "keep"
                                \/ h.at = "row" /\ p \in Range(h.queue) /\ (h.kind # "end" => p = Head(h.queue))
                          /\ h.set[p] = "paid" => Paid(taken', p) + h.got[p] >= Due
                          /\ h.set[p] = "partially_paid" => h.got[p] > 0
                          /\ h.set[p] = "partially_paid" /\ p \notin raced => Paid(taken', p) + h.got[p] < Due
                          /\ h.kind = "end" /\ h.got[p] > 0 => Paid(taken', p) + h.got[p] >= Due
                          /\ h.kind # "end" /\ h.at = "row" /\ p = Head(h.queue) =>
                                /\ h.got[p] > 0 /\ h.before <= Paid(taken', p)
                                /\ p \notin raced => h.before = Paid(taken', p)
                          /\ h.kind = "invoice" /\ h.at \in {"lines", "row"} /\ h.left > 0 /\ h.got[p] > 0 =>
                                Paid(taken', p) + h.got[p] >= Due
        BY <1>1 DEF DealWrites, h
      <4>1. /\ Paid(taken, p) \in Nat /\ h.got[p] \in Nat /\ f.got[p] \in Nat /\ h.before \in Nat
            /\ Paid(taken', p) = Paid(taken, p) + f.got[p] /\ Due \in Nat
            /\ p \notin raced /\ h.got[p] > 0 => Paid(taken', p) = Paid(taken, p)
        BY <3>3, <3>5, ConstantsFit
      <4>2. /\ Paid(taken, p) + h.got[p] >= Due => Paid(taken', p) + h.got[p] >= Due
            /\ h.before <= Paid(taken, p) => h.before <= Paid(taken', p)
        BY <4>1
      <4> QED  BY <3>2, <4>1, <4>2 DEF DealWrites
    <3> QED  BY <3>6, <3>7, <3>8
  <2> QED  BY <2>1, <2>2
<1> QED  BY <1>8, <1>9, <1>10, <1>11, <1>13, <1>14, <1>15 DEF CollectionsInv

-----------------------------------------------------------------------------
(* Collections: invoices and installments otherwise.                       *)

\* What a transaction's part of the invariant asks of the sums alone.
LEMMA SameSumsKeep ==
    ASSUME CollectionsInv, NEW t \in Tills, UNCHANGED <<deal, raced>>,
           \A p \in Payees : /\ Paid(taken', p) = Paid(taken, p)
                             /\ taken'[p][None] \in Nat /\ taken'[p][None] <= taken[p][None],
           deal[t].kind = "invoice" =>
              /\ doc'[deal[t].doc] = doc[deal[t].doc]
              /\ Billed(taken', deal[t].doc) = Billed(taken, deal[t].doc)
    PROVE  DealBegun(deal[t])' /\ DealFits(deal[t], raced)' /\ DealWrites(deal[t], raced)'
<1> DEFINE h == deal'[t]
<1>1. h = deal[t] /\ raced' = raced  OBVIOUS
<1>2. h.kind = "invoice" => /\ doc'[h.doc] = doc[h.doc] /\ Billed(taken', h.doc) = Billed(taken, h.doc)
  OBVIOUS
<1> HIDE DEF h
<1>3. h \in Deals /\ DealBegun(h) /\ DealFits(h, raced) /\ DealWrites(h, raced)  BY <1>1, InvFacts
<1>4. h.got \in [Payees -> Nat]  BY <1>3, DealFields
<1>5. DealBegun(deal[t])'  BY <1>3 DEF DealBegun, h
<1>6. DealFits(deal[t], raced)'
  <2>1. ASSUME NEW p \in Installments, h.kind # "invoice", p \in h.locks
        PROVE  taken'[p][None] + h.got[p] <= Due
    <3>1. /\ taken'[p][None] \in Nat /\ taken[p][None] \in Nat /\ taken'[p][None] <= taken[p][None]
          /\ h.got[p] \in Nat
      BY <1>4, ConstantsFit, InvFacts
    <3>2. taken[p][None] + h.got[p] <= Due  BY <1>3, <2>1 DEF DealFits
    <3> QED  BY <3>1, <3>2, ConstantsFit
  <2>2. ASSUME NEW p \in Installments, h.got[p] > 0, p \notin raced
        PROVE  Paid(taken', p) + h.got[p] <= Due
    <3>1. Paid(taken', p) = Paid(taken, p)  BY ConstantsFit
    <3> QED  BY <1>3, <2>2, <3>1 DEF DealFits
  <2>3. ASSUME h.kind = "invoice"
        PROVE  /\ h.doc \in Docs /\ h.locks = {h.doc} /\ doc'[h.doc] = "confirmed"
               /\ Billed(taken', h.doc) + Total(Payees, h.got) + h.left <= Net(h.doc)
    BY <1>2, <1>3, <2>3 DEF DealFits
  <2>4. \A p \in Installments : h.kind # "invoice" /\ h.got[p] > 0 => p \in h.locks
    BY <1>3 DEF DealFits
  <2> QED  BY <1>1, <2>1, <2>2, <2>3, <2>4 DEF DealFits, Net, h
<1>7. DealWrites(deal[t], raced)'
  <2>1. \A p \in Installments : Paid(taken', p) = Paid(taken, p)  BY ConstantsFit
  <2> QED  BY <1>1, <1>3, <2>1 DEF DealWrites, h
<1> QED  BY <1>5, <1>6, <1>7

LEMMA CreateInvoiceKeeps ==
    ASSUME CollectionsInv, NEW d \in Docs, CreateInvoice(d)
    PROVE  CollectionsInv'
<1> DEFINE R == Range(Covers[d])
<1>1. /\ doc[d] = "none" /\ doc' = [doc EXCEPT ![d] = "draft"] /\ UNCHANGED <<status, stamped, deal, raced>>
      /\ taken' = [p \in Payees |->
            IF p \in R THEN [taken[p] EXCEPT ![d] = @ + taken[p][None], ![None] = 0] ELSE taken[p]]
  BY DEF CreateInvoice
<1>2. /\ R \in SUBSET Installments /\ Due * Cardinality(R) <= Net(d) /\ R \subseteq Payees
      /\ Due * Cardinality(R) \in Nat
  <2>1. R \subseteq Installments /\ IsFiniteSet(R) /\ Due * Cardinality(R) <= Net(d)  BY CoversCounted
  <2>2. Cardinality(R) \in Nat  BY <2>1, FS_CardinalityType
  <2>3. \A m, n \in Nat : m * n \in Nat  OBVIOUS
  <2> HIDE DEF R
  <2> QED  BY <2>1, <2>2, <2>3, ConstantsFit
<1> HIDE DEF R
<1>3. taken \in Receipts /\ d # None  BY InvFacts, ConstantsFit
<1>4. \A p \in Payees \ R : taken'[p] = taken[p]  BY <1>1
<1>5. ASSUME NEW p \in R
      PROVE  /\ taken'[p] \in [Docs \cup {None} -> Nat]
             /\ taken'[p][None] = 0 /\ taken'[p][d] = taken[p][d] + taken[p][None]
             /\ \A e \in Docs \ {d} : taken'[p][e] = taken[p][e]
  <2> DEFINE v == taken[p]
             w == taken'[p]
  <2>1. p \in Payees /\ v \in [Docs \cup {None} -> Nat]  BY <1>2, <1>3 DEF Receipts
  <2>2. w = [v EXCEPT ![d] = @ + v[None], ![None] = 0]  BY <1>1, <2>1
  <2> HIDE DEF v, w
  <2>3. w \in [Docs \cup {None} -> Nat] /\ w[None] = 0 /\ w[d] = v[d] + v[None]
    BY <1>3, <2>1, <2>2
  <2>4. \A e \in Docs \ {d} : w[e] = v[e]  BY <1>3, <2>1, <2>2, ConstantsFit
  <2> QED  BY <2>3, <2>4 DEF v, w
<1>6. taken' \in Receipts
  <2>1. \A p \in Payees : taken'[p] \in [Docs \cup {None} -> Nat]  BY <1>3, <1>4, <1>5 DEF Receipts
  <2> QED  BY <1>1, <2>1 DEF Receipts
<1>7. /\ \A p \in Payees : Paid(taken', p) = Paid(taken, p) /\ taken'[p][None] <= taken[p][None]
      /\ \A e \in Docs \ {d} : Billed(taken', e) = Billed(taken, e) /\ \A p \in Payees : taken'[p][e] = taken[p][e]
      /\ Billed(taken', d) <= Due * Cardinality(R)
  <2> DEFINE nk == taken'
  <2>1. nk \in Receipts /\ \A p \in Payees \ R : nk[p] = taken[p]  BY <1>4, <1>6
  <2>2. \A p \in R : /\ nk[p][None] = 0 /\ nk[p][d] = taken[p][d] + taken[p][None]
                     /\ \A e \in Docs \ {d} : nk[p][e] = taken[p][e]
    BY <1>5
  <2>3. (\A p \in Payees : taken[p][d] = 0) /\ \A p \in Installments : taken[p][None] <= Due
    BY <1>1 DEF CollectionsInv, BooksBound
  <2> HIDE DEF nk
  <2>4. /\ \A p \in Payees : Paid(nk, p) = Paid(taken, p) /\ nk[p][None] <= taken[p][None]
        /\ \A e \in Docs \ {d} : Billed(nk, e) = Billed(taken, e) /\ \A p \in Payees : nk[p][e] = taken[p][e]
        /\ Billed(nk, d) <= Due * Cardinality(R)
    BY <1>2, <1>3, <2>1, <2>2, <2>3, TakenOver
  <2> QED  BY <2>4 DEF nk
<1>8. \A p \in Payees : taken'[p][None] \in Nat /\ taken[p][None] \in Nat  BY <1>3, <1>6 DEF Receipts
<1>9. /\ \A p \in Payees : OnInstallment(p)' = OnInstallment(p)
      /\ \A e \in Docs : OnInvoice(e)' = Billed(taken', e) /\ OnInvoice(e) = Billed(taken, e)
  BY <1>7, SumsAreTotals
<1>10. CollectionsTypeOK'  BY <1>1, <1>6 DEF CollectionsInv, CollectionsTypeOK, Receipts
<1>11. LocksApart' /\ OneCollector'  BY <1>1 DEF CollectionsInv, LocksApart, OneCollector
<1>12. BooksBound'
  <2>1. ASSUME NEW p \in Installments PROVE taken'[p][None] <= Due
    <3>1. taken'[p][None] <= taken[p][None] /\ taken'[p][None] \in Nat /\ taken[p][None] \in Nat
      BY <1>7, <1>8, ConstantsFit
    <3>2. taken[p][None] <= Due  BY DEF CollectionsInv, BooksBound
    <3> QED  BY <3>1, <3>2, ConstantsFit
  <2>2. ASSUME NEW e \in Docs, doc'[e] = "none", NEW p \in Payees PROVE taken'[p][e] = 0
    <3>1. doc \in [Docs -> {"none", "draft", "confirmed"}]  BY DEF CollectionsInv, CollectionsTypeOK
    <3>2. e # d /\ doc[e] = "none"  BY <1>1, <2>2, <3>1
    <3> QED  BY <1>7, <3>2 DEF CollectionsInv, BooksBound
  <2> QED  BY <2>1, <2>2 DEF BooksBound
<1>13. CollectedWithinDue'
  <2>1. \A p \in Installments : OnInstallment(p)' <= Due \/ p \in raced'
    BY <1>1, <1>9, ConstantsFit DEF CollectionsInv, CollectedWithinDue
  <2>2. ASSUME NEW e \in Docs PROVE OnInvoice(e)' <= Net(e)
    <3>1. CASE e # d  BY <1>7, <1>9, <3>1 DEF CollectionsInv, CollectedWithinDue
    <3>2. CASE e = d
      <4>1. Billed(taken', d) \in Nat /\ Net(d) \in Nat  BY <1>6, SumsAreNat, InvFacts
      <4> QED  BY <1>2, <1>7, <1>9, <3>2, <4>1
    <3> QED  BY <3>1, <3>2
  <2> QED  BY <2>1, <2>2 DEF CollectedWithinDue, Net
<1>14. StatusMatchesMoney'
  BY <1>1, <1>9, ConstantsFit DEF CollectionsInv, StatusMatchesMoney
<1>15. ASSUME NEW t \in Tills
       PROVE  DealBegun(deal[t])' /\ DealFits(deal[t], raced)' /\ DealWrites(deal[t], raced)'
  <2>1. deal[t].kind = "invoice" =>
           /\ doc'[deal[t].doc] = doc[deal[t].doc]
           /\ Billed(taken', deal[t].doc) = Billed(taken, deal[t].doc)
    <3> SUFFICES ASSUME deal[t].kind = "invoice"
                 PROVE  /\ doc'[deal[t].doc] = doc[deal[t].doc]
                        /\ Billed(taken', deal[t].doc) = Billed(taken, deal[t].doc)
      OBVIOUS
    <3>1. deal[t].doc \in Docs /\ doc[deal[t].doc] = "confirmed"  BY InvFacts DEF DealFits
    <3>2. deal[t].doc # d  BY <1>1, <3>1
    <3>3. doc \in [Docs -> {"none", "draft", "confirmed"}]  BY DEF CollectionsInv, CollectionsTypeOK
    <3> QED  BY <1>1, <1>7, <3>1, <3>2, <3>3
  <2> QED  BY <1>1, <1>7, <1>8, <2>1, SameSumsKeep
<1> QED  BY <1>10, <1>11, <1>12, <1>13, <1>14, <1>15 DEF CollectionsInv

LEMMA ApproveInvoiceKeeps ==
    ASSUME CollectionsInv, NEW d \in Docs, ApproveInvoice(d)
    PROVE  CollectionsInv'
<1>1. /\ doc[d] = "draft" /\ doc' = [doc EXCEPT ![d] = "confirmed"]
      /\ UNCHANGED <<taken, status, stamped, deal, raced>>
  BY DEF ApproveInvoice
<1>2. doc \in [Docs -> {"none", "draft", "confirmed"}]  BY DEF CollectionsInv, CollectionsTypeOK
<1>3. /\ \A p \in Payees : OnInstallment(p)' = OnInstallment(p) /\ Paid(taken', p) = Paid(taken, p)
      /\ \A e \in Docs : OnInvoice(e)' = OnInvoice(e) /\ Billed(taken', e) = Billed(taken, e)
  BY <1>1, SumsAreTotals
<1>4. CollectionsTypeOK'  BY <1>1, <1>2 DEF CollectionsInv, CollectionsTypeOK
<1>5. LocksApart' /\ OneCollector'  BY <1>1 DEF CollectionsInv, LocksApart, OneCollector
<1>6. BooksBound'
  <2>1. \A e \in Docs : doc'[e] = "none" => doc[e] = "none"  BY <1>1, <1>2
  <2> QED  BY <1>1, <2>1 DEF CollectionsInv, BooksBound
<1>7. CollectedWithinDue'  BY <1>1, <1>3, ConstantsFit DEF CollectionsInv, CollectedWithinDue, Net
<1>8. StatusMatchesMoney'  BY <1>1, <1>3, ConstantsFit DEF CollectionsInv, StatusMatchesMoney
<1>9. ASSUME NEW t \in Tills
      PROVE  DealBegun(deal[t])' /\ DealFits(deal[t], raced)' /\ DealWrites(deal[t], raced)'
  <2>1. \A p \in Payees : taken'[p][None] \in Nat /\ taken'[p][None] <= taken[p][None]
    <3>1. \A p \in Payees : taken[p][None] \in Nat  BY InvFacts
    <3> QED  BY <1>1, <3>1
  <2>2. deal[t].kind = "invoice" =>
           /\ doc'[deal[t].doc] = doc[deal[t].doc]
           /\ Billed(taken', deal[t].doc) = Billed(taken, deal[t].doc)
    <3> SUFFICES ASSUME deal[t].kind = "invoice"
                 PROVE  /\ doc'[deal[t].doc] = doc[deal[t].doc]
                        /\ Billed(taken', deal[t].doc) = Billed(taken, deal[t].doc)
      OBVIOUS
    <3>1. deal[t].doc \in Docs /\ doc[deal[t].doc] = "confirmed"  BY InvFacts DEF DealFits
    <3> QED  BY <1>1, <1>2, <1>3, <3>1
  <2> QED  BY <1>1, <1>3, <2>1, <2>2, SameSumsKeep
<1> QED  BY <1>4, <1>5, <1>6, <1>7, <1>8, <1>9 DEF CollectionsInv

LEMMA CancelInstallmentKeeps ==
    ASSUME CollectionsInv, NEW q \in Installments, CancelInstallment(q)
    PROVE  CollectionsInv'
<1>1. /\ status' = [status EXCEPT ![q] = "cancelled"] /\ UNCHANGED <<taken, doc, stamped, deal, raced>>
  BY DEF CancelInstallment
<1>2. status \in [Installments -> {"pending", "partially_paid", "paid", "cancelled"}]
  BY DEF CollectionsInv, CollectionsTypeOK
<1>3. /\ \A p \in Payees : OnInstallment(p)' = OnInstallment(p)
      /\ \A e \in Docs : OnInvoice(e)' = OnInvoice(e)
  BY <1>1, SumsAreTotals
<1>4. CollectionsTypeOK'  BY <1>1, <1>2 DEF CollectionsInv, CollectionsTypeOK
<1>5. LocksApart' /\ OneCollector' /\ BooksBound'
  BY <1>1 DEF CollectionsInv, LocksApart, OneCollector, BooksBound
<1>6. CollectedWithinDue'  BY <1>1, <1>3, ConstantsFit DEF CollectionsInv, CollectedWithinDue, Net
<1>7. StatusMatchesMoney'
  <2> SUFFICES ASSUME NEW p \in Installments
               PROVE  /\ status'[p] = "paid" => OnInstallment(p) >= Due
                      /\ OnInstallment(p) >= Due => status'[p] \in {"paid", "cancelled"} \/ p \in raced
                      /\ status'[p] = "partially_paid" => OnInstallment(p) > 0
    BY <1>1, <1>3, ConstantsFit DEF StatusMatchesMoney
  <2>1. CASE p = q  BY <1>1, <1>2, <2>1
  <2>2. CASE p # q
    <3>1. status'[p] = status[p]  BY <1>1, <1>2, <2>2
    <3> QED  BY <3>1 DEF CollectionsInv, StatusMatchesMoney
  <2> QED  BY <2>1, <2>2
<1>8. ASSUME NEW t \in Tills
      PROVE  DealBegun(deal[t])' /\ DealFits(deal[t], raced)' /\ DealWrites(deal[t], raced)'
  <2>1. \A p \in Payees : taken[p][None] \in Nat  BY InvFacts
  <2>2. \A p \in Payees : /\ Paid(taken', p) = Paid(taken, p)
                          /\ taken'[p][None] \in Nat /\ taken'[p][None] <= taken[p][None]
    BY <1>1, <2>1
  <2> QED  BY <1>1, <2>2, SameSumsKeep
<1> QED  BY <1>4, <1>5, <1>6, <1>7, <1>8 DEF CollectionsInv

-----------------------------------------------------------------------------
(* Collections: the theorems.                                              *)

LEMMA CollectionsInitInv == CollectionsInit => CollectionsInv
<1> SUFFICES ASSUME CollectionsInit PROVE CollectionsInv  OBVIOUS
<1>1. /\ taken = [p \in Payees |-> [d \in Docs \cup {None} |-> 0]]
      /\ status = [p \in Installments |-> "pending"] /\ doc = [d \in Docs |-> "none"]
      /\ stamped = {} /\ deal = [s \in Tills |-> NoDeal] /\ raced = {}
  BY DEF CollectionsInit
<1>2. \A p \in Payees : /\ taken[p] \in [Docs \cup {None} -> Nat]
                        /\ \A d \in Docs \cup {None} : taken[p][d] = 0
  BY <1>1
<1>3. \A s \in Tills : deal[s] = NoDeal  BY <1>1
<1>4. CollectionsTypeOK
  <2>1. taken \in [Payees -> [Docs \cup {None} -> Nat]]  BY <1>1, <1>2
  <2>2. deal \in [Tills -> Deals]  BY <1>1, NoDealFits
  <2> QED  BY <1>1, <2>1, <2>2 DEF CollectionsTypeOK
<1>5. LocksApart  BY <1>3, NoDealFits DEF LocksApart
<1>6. OneCollector  BY <1>3, NoDealFits, ConstantsFit DEF OneCollector
<1>7. BooksBound
  <2>1. \A p \in Installments : taken[p][None] = 0  BY <1>2, ConstantsFit
  <2>2. \A d \in Docs, p \in Payees : taken[p][d] = 0  BY <1>2
  <2> QED  BY <2>1, <2>2, ConstantsFit DEF BooksBound
<1>8. /\ \A p \in Payees : OnInstallment(p) = 0
      /\ \A d \in Docs : OnInvoice(d) = 0 /\ Net(d) \in Nat
  <2>1. ASSUME NEW p \in Payees PROVE Paid(taken, p) = 0
    <3>1. \A d \in Docs \cup {None} : taken[p][d] = 0  BY <1>2
    <3> QED  BY <3>1, ConstantsFit, TotalOfZeros DEF Paid
  <2>2. ASSUME NEW d \in Docs PROVE Billed(taken, d) = 0
    <3>1. \A p \in Payees : OnDoc(taken, d)[p] = 0  BY <1>2 DEF OnDoc
    <3> QED  BY <3>1, ConstantsFit, TotalOfZeros DEF Billed
  <2> QED  BY <1>4, <2>1, <2>2, SumsAreTotals, MoneyIsNat
<1>9. CollectedWithinDue  BY <1>8, ConstantsFit DEF CollectedWithinDue
<1>10. StatusMatchesMoney
  <2>1. \A p \in Installments : status[p] = "pending" /\ OnInstallment(p) = 0  BY <1>1, <1>8, ConstantsFit
  <2> QED  BY <2>1, ConstantsFit DEF StatusMatchesMoney
<1>11. \A s \in Tills : DealBegun(deal[s]) /\ DealFits(deal[s], raced) /\ DealWrites(deal[s], raced)
  BY <1>3, NoDealFits
<1> QED  BY <1>4, <1>5, <1>6, <1>7, <1>9, <1>10, <1>11 DEF CollectionsInv

LEMMA CollectionsStepInv ==
    CollectionsInv /\ [CollectionsNext]_collectionVars => CollectionsInv'
<1> SUFFICES ASSUME CollectionsInv, [CollectionsNext]_collectionVars PROVE CollectionsInv'  OBVIOUS
<1>1. CASE UNCHANGED collectionVars
  <2> USE <1>1 DEF collectionVars
  <2>1. \A p \in Payees : OnInstallment(p)' = OnInstallment(p)  BY SumsAreTotals
  <2>2. \A e \in Docs : OnInvoice(e)' = OnInvoice(e)  BY SumsAreTotals
  <2>3. CollectionsTypeOK' /\ LocksApart' /\ OneCollector' /\ BooksBound'
    BY DEF CollectionsInv, CollectionsTypeOK, LocksApart, OneCollector, BooksBound
  <2>4. CollectedWithinDue'  BY <2>1, <2>2, ConstantsFit DEF CollectionsInv, CollectedWithinDue, Net
  <2>5. StatusMatchesMoney'  BY <2>1, ConstantsFit DEF CollectionsInv, StatusMatchesMoney
  <2>6. ASSUME NEW t \in Tills
        PROVE  DealBegun(deal[t])' /\ DealFits(deal[t], raced)' /\ DealWrites(deal[t], raced)'
    <3>1. \A p \in Payees : taken[p][None] \in Nat  BY InvFacts
    <3>2. \A p \in Payees : /\ Paid(taken', p) = Paid(taken, p)
                            /\ taken'[p][None] \in Nat /\ taken'[p][None] <= taken[p][None]
      BY <3>1
    <3> QED  BY <3>2, SameSumsKeep
  <2> QED  BY <2>3, <2>4, <2>5, <2>6 DEF CollectionsInv
<1>2. ASSUME NEW s \in Tills, NEW p \in Installments, NEW amount \in 1..Due, CollectInstallment(s, p, amount)
      PROVE  CollectionsInv'
  BY <1>2, CollectInstallmentKeeps
<1>3. ASSUME NEW s \in Tills, NEW d \in Docs, NEW amount \in Amounts, CollectInvoice(s, d, amount)
      PROVE  CollectionsInv'
  BY <1>3, CollectInvoiceKeeps
<1>4. ASSUME NEW s \in Tills, NEW collected \in SUBSET Installments, CollectAtEnd(s, collected)
      PROVE  CollectionsInv'
  BY <1>4, CollectAtEndKeeps
<1>5. ASSUME NEW s \in Tills, NextLine(s) PROVE CollectionsInv'  BY <1>5, NextLineKeeps
<1>6. ASSUME NEW s \in Tills, EndOfLines(s) PROVE CollectionsInv'  BY <1>6, EndOfLinesKeeps
<1>7. ASSUME NEW s \in Tills, WriteStatus(s) PROVE CollectionsInv'  BY <1>7, WriteStatusKeeps
<1>8. ASSUME NEW s \in Tills, Settle(s) PROVE CollectionsInv'  BY <1>8, SettleKeeps
<1>9. ASSUME NEW s \in Tills, Rollback(s) PROVE CollectionsInv'  BY <1>9, RollbackKeeps DEF Rollback, Deal
<1>10. ASSUME NEW d \in Docs, CreateInvoice(d) \/ ApproveInvoice(d) PROVE CollectionsInv'
  BY <1>10, CreateInvoiceKeeps, ApproveInvoiceKeeps
<1>11. ASSUME NEW p \in Installments, CancelInstallment(p) PROVE CollectionsInv'
  BY <1>11, CancelInstallmentKeeps
<1> QED
  BY <1>1, <1>2, <1>3, <1>4, <1>5, <1>6, <1>7, <1>8, <1>9, <1>10, <1>11 DEF CollectionsNext

\* The whole invariant: the books, the locks, and every open transaction against them.
THEOREM CollectionsInvariant == CollectionsSpec => []CollectionsInv
  BY CollectionsInitInv, CollectionsStepInv, PTL DEF CollectionsSpec

\* The sums, the statuses, the invoices and the transactions are what they should be.
THEOREM CollectionsTypes == CollectionsSpec => []CollectionsTypeOK
<1>1. CollectionsInv => CollectionsTypeOK  BY DEF CollectionsInv
<1> QED  BY <1>1, CollectionsInvariant, PTL

\* However the collections of an installment, an invoice and a contract's end
\* interleave, an invoice never collects more than its net total, and an installment
\* more than is due only where two that share no lock overlapped on it.
THEOREM CollectedWithin == CollectionsSpec => []CollectedWithinDue
<1>1. CollectionsInv => CollectedWithinDue  BY DEF CollectionsInv
<1> QED  BY <1>1, CollectionsInvariant, PTL

\* However they interleave, an installment called paid is covered, one called partly
\* paid has money on it, and a covered one is called paid or cancelled unless such an
\* overlap wrote over it.
THEOREM StatusIsTrue == CollectionsSpec => []StatusMatchesMoney
<1>1. CollectionsInv => StatusMatchesMoney  BY DEF CollectionsInv
<1> QED  BY <1>1, CollectionsInvariant, PTL

-----------------------------------------------------------------------------
(* Trust: the invariant.                                                    *)

\* What a movement leaves in trust once everything recorded is posted; what it takes,
\* or its reversal gives back.
Worth(r) == [n \in DOMAIN r |-> IF r[n].undo = "no" THEN r[n].amt ELSE 0]

Moved(r) == [n \in DOMAIN r |-> r[n].amt]

TakenOut(r) == [n \in DOMAIN r |-> Min({0, r[n].amt})]

Returns(r) == [n \in DOMAIN r |-> IF r[n].st = "posted" /\ r[n].undo # "posted" THEN -r[n].amt ELSE 0]

Costs(r) == [n \in DOMAIN r |-> Min({0, Returns(r)[n]})]

Balance(r) == Total(DOMAIN r, Worth(r))

\* What the rows a request has listed will change, and what it would leave.
Expected(r, f) ==
    Total(f.sure, Moved(r)) + Total(f.late, TakenOut(r))
    + Total(f.undoSure, Returns(r)) + Total(f.undoLate, Costs(r))

Leaving(r, f) == Balance(r) - f.amt - (IF f.on = 0 THEN 0 ELSE r[f.on].amt)

\* An edited expense is still there; a request that has its snapshot counts no more
\* than what it would leave, unless it was overtaken; one that passed the first check
\* leaves something.
RequestFits(r, f) ==
    /\ f.on # 0 => f.on \in DOMAIN r /\ r[f.on].amt < 0 /\ r[f.on].undo = "no"
    /\ f.at = "need" =>
          f.on # 0 /\ (f.need = f.amt \/ (f.need = f.amt + r[f.on].amt /\ r[f.on].st = "posted"))
    /\ f.at = "effects" =>
          /\ f.sure \subseteq DOMAIN r /\ f.late \subseteq DOMAIN r
          /\ f.undoSure \subseteq DOMAIN r /\ f.undoLate \subseteq DOMAIN r
          /\ \A n \in f.undoSure \cup f.undoLate : r[n].st = "posted"
          /\ f.overtaken \/ Leaving(r, f) >= f.base + Expected(r, f) - f.need
    /\ f.at \in {"position", "cap"} => f.overtaken \/ Leaving(r, f) >= 0

\* One request is under the lock, and no two edit one expense.
GuardsApart ==
    \A s, t \in UnderWay : s # t =>
       /\ ~Guarded(s) \/ ~Guarded(t)
       /\ out[s].on = 0 \/ out[s].on # out[t].on

TrustInv ==
    /\ TrustTypeOK /\ TrustIsCovered /\ GuardsApart
    /\ \A s \in UnderWay : RequestFits(rec, out[s])

-----------------------------------------------------------------------------
(* Trust: the sums.                                                         *)

LEMMA OfZeroAnd ==
    ASSUME NEW a \in Int
    PROVE  /\ Min({0, a}) \in Int /\ Min({0, a}) <= a /\ Min({0, a}) <= 0
           /\ Max({0, a}) \in Nat /\ Max({0, a}) >= a
<1>1. \E x \in {0, a} : \A y \in {0, a} : x <= y
  <2>1. CASE a <= 0  BY <2>1
  <2>2. CASE 0 <= a  BY <2>2
  <2> QED  BY <2>1, <2>2
<1>2. \E x \in {0, a} : \A y \in {0, a} : x >= y
  <2>1. CASE a <= 0  BY <2>1
  <2>2. CASE 0 <= a  BY <2>2
  <2> QED  BY <2>1, <2>2
<1>3. Min({0, a}) \in {0, a} /\ \A y \in {0, a} : Min({0, a}) <= y  BY <1>1, Zenon DEF Min
<1>4. Max({0, a}) \in {0, a} /\ \A y \in {0, a} : Max({0, a}) >= y  BY <1>2, Zenon DEF Max
<1> QED  BY <1>3, <1>4

LEMMA RowsAreFinite ==
    ASSUME NEW r \in Seq(Movements)
    PROVE  /\ IsFiniteSet(DOMAIN r) /\ DOMAIN r \subseteq Nat \ {0} /\ DOMAIN r = 1..Len(r) /\ Len(r) \in Nat
           /\ \A n \in DOMAIN r : r[n] \in Movements
<1>1. DOMAIN r = 1..Len(r) /\ Len(r) \in Nat /\ \A n \in 1..Len(r) : r[n] \in Movements  OBVIOUS
<1>2. IsFiniteSet(1..Len(r))
  <2>1. \A m \in Nat : IsFiniteSet(1..m)  BY FS_Interval
  <2> QED  BY <1>1, <2>1
<1> QED  BY <1>1, <1>2

LEMMA WorthIsInt ==
    ASSUME NEW r \in Seq(Movements)
    PROVE  /\ \A n \in DOMAIN r : /\ r[n].amt \in Int /\ Worth(r)[n] \in Int /\ Moved(r)[n] \in Int
                                  /\ TakenOut(r)[n] \in Int /\ Returns(r)[n] \in Int /\ Costs(r)[n] \in Int
                                  /\ TakenOut(r)[n] <= r[n].amt /\ Costs(r)[n] <= Returns(r)[n]
           /\ Balance(r) \in Int
<1>1. ASSUME NEW n \in DOMAIN r
      PROVE  r[n].amt \in Int /\ Worth(r)[n] \in Int /\ Moved(r)[n] \in Int /\ Returns(r)[n] \in Int
  <2>1. r[n].amt \in Int /\ -r[n].amt \in Int
    <3>1. r[n] \in Movements  BY RowsAreFinite
    <3> QED  BY <3>1 DEF Movements
  <2>2. Worth(r)[n] \in {r[n].amt, 0} /\ Moved(r)[n] = r[n].amt /\ Returns(r)[n] \in {-r[n].amt, 0}
    BY DEF Worth, Moved, Returns
  <2> QED  BY <2>1, <2>2
<1>2. \A n \in DOMAIN r : TakenOut(r)[n] = Min({0, r[n].amt}) /\ Costs(r)[n] = Min({0, Returns(r)[n]})
  BY DEF TakenOut, Costs
<1>3. Balance(r) \in Int  BY <1>1, RowsAreFinite, TotalIsInt DEF Balance
<1> QED  BY <1>1, <1>2, <1>3, OfZeroAnd

\* A sum over some of the movements, as one over them all.
LEMMA TotalOfSome ==
    ASSUME NEW r \in Seq(Movements), NEW S \in SUBSET DOMAIN r, NEW v, NEW w,
           \A n \in DOMAIN r : w[n] = (IF n \in S THEN v[n] ELSE 0), \A n \in S : v[n] \in Int
    PROVE  Total(S, v) = Total(DOMAIN r, w) /\ Total(S, v) \in Int
<1>1. IsFiniteSet(DOMAIN r) /\ IsFiniteSet(S)  BY RowsAreFinite, FS_Subset
<1>2. \A n \in DOMAIN r : w[n] \in Int  OBVIOUS
<1>3. \A n \in DOMAIN r \ S : w[n] = 0  OBVIOUS
<1>4. Total(DOMAIN r, w) = Total(S, w)  BY <1>1, <1>2, <1>3, TotalOfPart
<1>5. \A n \in S : v[n] = w[n]  OBVIOUS
<1>6. Total(S, v) = Total(S, w)  BY <1>1, <1>5, TotalAgrees
<1>7. Total(S, v) \in Int  BY <1>1, TotalIsInt
<1> QED  BY <1>4, <1>6, <1>7

LEMMA AddedIsTotal == \A S, v : Added(S, v) = Total(S, v)
  BY DEF Added, Total, FoldSet, MapThenFoldSet

LEMMA RowsHeld ==
    /\ rec \in Seq(Movements) => Held = Balance(rec)
    /\ rec' \in Seq(Movements) => Held' = Balance(rec')
<1>1. ASSUME NEW r \in Seq(Movements)
      PROVE  Total({n \in DOMAIN r : r[n].undo = "no"}, Moved(r)) = Balance(r)
  <2> DEFINE S == {n \in DOMAIN r : r[n].undo = "no"}
  <2>1. S \in SUBSET DOMAIN r  OBVIOUS
  <2>2. \A n \in DOMAIN r : Worth(r)[n] = (IF n \in S THEN Moved(r)[n] ELSE 0)  BY DEF Worth, Moved
  <2>3. \A n \in S : Moved(r)[n] \in Int  BY WorthIsInt
  <2> HIDE DEF S
  <2>4. Total(S, Moved(r)) = Total(DOMAIN r, Worth(r))  BY <2>1, <2>2, <2>3, TotalOfSome
  <2> QED  BY <2>4 DEF Balance, S
<1>2. Held = Total({n \in DOMAIN rec : rec[n].undo = "no"}, Moved(rec))
  BY AddedIsTotal DEF Held, Amount, Records, Moved
<1>3. Held' = Total({n \in DOMAIN rec' : rec'[n].undo = "no"}, Moved(rec'))
  BY DEF Held, Added, Amount, Records, Moved, Total, FoldSet, MapThenFoldSet
<1> QED  BY <1>1, <1>2, <1>3

\* A movement that changes changes the balance by what it was worth.
LEMMA BalanceMoves ==
    ASSUME NEW r \in Seq(Movements), NEW q \in Seq(Movements), NEW n
    PROVE  n \in DOMAIN r /\ DOMAIN q = DOMAIN r /\ (\A m \in DOMAIN r \ {n} : q[m] = r[m])
           => Balance(q) = Balance(r) - Worth(r)[n] + Worth(q)[n]
<1>1. SUFFICES ASSUME n \in DOMAIN r, DOMAIN q = DOMAIN r, \A m \in DOMAIN r \ {n} : q[m] = r[m]
               PROVE  Balance(q) = Balance(r) - Worth(r)[n] + Worth(q)[n]
  OBVIOUS
<1>2. \A m \in DOMAIN r : Worth(r)[m] \in Int /\ Worth(q)[m] \in Int  BY <1>1, WorthIsInt
<1>3. \A m \in DOMAIN r \ {n} : Worth(q)[m] = Worth(r)[m]  BY <1>1 DEF Worth
<1>4. Total(DOMAIN r, Worth(q)) = Total(DOMAIN r, Worth(r)) - Worth(r)[n] + Worth(q)[n]
  <2> DEFINE D == DOMAIN r
             v == Worth(r)
             w == Worth(q)
  <2>1. IsFiniteSet(D) /\ n \in D /\ \A m \in D : v[m] \in Int /\ w[m] \in Int
    BY <1>1, <1>2, RowsAreFinite
  <2>2. \A m \in D \ {n} : w[m] = v[m]  BY <1>3
  <2> HIDE DEF D, v, w
  <2>3. Total(D, w) = Total(D, v) - v[n] + w[n]  BY <2>1, <2>2, TotalChanges
  <2> QED  BY <2>3 DEF D, v, w
<1> QED  BY <1>1, <1>4 DEF Balance

\* A new movement adds what it moves.
LEMMA BalanceGrows ==
    ASSUME NEW r \in Seq(Movements), NEW m \in Movements, m.undo = "no"
    PROVE  /\ Append(r, m) \in Seq(Movements) /\ Balance(Append(r, m)) = Balance(r) + m.amt
           /\ DOMAIN r \subseteq DOMAIN Append(r, m) /\ \A n \in DOMAIN r : Append(r, m)[n] = r[n]
<1> DEFINE q == Append(r, m)
           k == Len(r) + 1
<1>1. /\ q \in Seq(Movements) /\ DOMAIN q = DOMAIN r \cup {k} /\ k \notin DOMAIN r
      /\ q[k] = m /\ \A n \in DOMAIN r : q[n] = r[n]
  BY AppendProperties, RowsAreFinite
<1> HIDE DEF q, k
<1>2. \A n \in DOMAIN r \cup {k} : Worth(q)[n] \in Int  BY <1>1, WorthIsInt
<1>3. Total(DOMAIN r \cup {k}, Worth(q)) = Total(DOMAIN r, Worth(q)) + Worth(q)[k]
  <2> DEFINE v == Worth(q)
             D == DOMAIN r
  <2>1. IsFiniteSet(D) /\ k \notin D /\ \A n \in D \cup {k} : v[n] \in Int  BY <1>1, <1>2, RowsAreFinite
  <2> HIDE DEF v, D
  <2>2. Total(D \cup {k}, v) = Total(D, v) + v[k]  BY <2>1, TotalWith
  <2> QED  BY <2>2 DEF v, D
<1>4. Total(DOMAIN r, Worth(q)) = Total(DOMAIN r, Worth(r))
  <2>1. \A n \in DOMAIN r : Worth(q)[n] = Worth(r)[n]  BY <1>1 DEF Worth
  <2> QED  BY <2>1, RowsAreFinite, TotalAgrees
<1>5. Worth(q)[k] = m.amt  BY <1>1 DEF Worth
<1>6. Balance(q) = Balance(r) + m.amt  BY <1>1, <1>3, <1>4, <1>5 DEF Balance
<1> QED  BY <1>1, <1>6 DEF q

LEMMA PendingIsExpected == \A f : Pending(f) = Expected(rec, f)
<1>1. Amount = Moved(rec) /\ Outgoing = TakenOut(rec)  BY DEF Amount, Outgoing, Records, Moved, TakenOut
<1>2. GivenBack = Returns(rec)  BY DEF GivenBack, InBooks, Records, Returns
<1>3. TakenBack = Costs(rec)  BY <1>2 DEF TakenBack, Records, Costs
<1> QED  BY <1>1, <1>2, <1>3, AddedIsTotal DEF Pending, Expected

LEMMA ExpectedIsInt ==
    ASSUME NEW r \in Seq(Movements), NEW f, f.sure \subseteq DOMAIN r, f.late \subseteq DOMAIN r,
           f.undoSure \subseteq DOMAIN r, f.undoLate \subseteq DOMAIN r
    PROVE  Expected(r, f) \in Int
<1>1. ASSUME NEW S \in SUBSET DOMAIN r
      PROVE  /\ Total(S, Moved(r)) \in Int /\ Total(S, TakenOut(r)) \in Int
             /\ Total(S, Returns(r)) \in Int /\ Total(S, Costs(r)) \in Int
  <2>1. IsFiniteSet(S)  BY RowsAreFinite, FS_Subset
  <2>2. \A n \in S : /\ Moved(r)[n] \in Int /\ TakenOut(r)[n] \in Int
                     /\ Returns(r)[n] \in Int /\ Costs(r)[n] \in Int
    BY WorthIsInt
  <2> QED  BY <2>1, <2>2, TotalIsInt
<1>2. /\ Total(f.sure, Moved(r)) \in Int /\ Total(f.late, TakenOut(r)) \in Int
      /\ Total(f.undoSure, Returns(r)) \in Int /\ Total(f.undoLate, Costs(r)) \in Int
  <2>1. f.sure \in SUBSET DOMAIN r /\ f.late \in SUBSET DOMAIN r /\ f.undoSure \in SUBSET DOMAIN r /\ f.undoLate \in SUBSET DOMAIN r
    OBVIOUS
  <2> QED  BY <1>1, <2>1, Zenon
<1> QED  BY <1>2 DEF Expected

\* While no reversal gives back more than it did, a request's listed rows change no more.
LEMMA ExpectsNoMore ==
    ASSUME NEW r \in Seq(Movements), NEW q \in Seq(Movements), NEW f,
           DOMAIN r \subseteq DOMAIN q, \A n \in DOMAIN r : q[n].amt = r[n].amt,
           f.sure \subseteq DOMAIN r, f.late \subseteq DOMAIN r,
           f.undoSure \subseteq DOMAIN r, f.undoLate \subseteq DOMAIN r,
           \A n \in f.undoSure \cup f.undoLate : Returns(q)[n] <= Returns(r)[n]
    PROVE  Expected(q, f) <= Expected(r, f)
<1>1. Total(f.sure, Moved(q)) = Total(f.sure, Moved(r)) /\ Total(f.late, TakenOut(q)) = Total(f.late, TakenOut(r))
  <2>1. IsFiniteSet(f.sure) /\ IsFiniteSet(f.late)  BY RowsAreFinite, FS_Subset
  <2>2. \A n \in DOMAIN r : Moved(q)[n] = Moved(r)[n] /\ TakenOut(q)[n] = TakenOut(r)[n]  BY DEF Moved, TakenOut
  <2>3. Total(f.sure, Moved(q)) = Total(f.sure, Moved(r))
    <3>1. \A n \in f.sure : Moved(q)[n] = Moved(r)[n]  BY <2>2
    <3> QED  BY <2>1, <3>1, TotalAgrees
  <2>4. Total(f.late, TakenOut(q)) = Total(f.late, TakenOut(r))
    <3>1. \A n \in f.late : TakenOut(q)[n] = TakenOut(r)[n]  BY <2>2
    <3> QED  BY <2>1, <3>1, TotalAgrees
  <2> QED  BY <2>3, <2>4
<1>2. Total(f.undoSure, Returns(q)) <= Total(f.undoSure, Returns(r))
  <2>1. IsFiniteSet(f.undoSure)  BY RowsAreFinite, FS_Subset
  <2>2. \A n \in f.undoSure : Returns(q)[n] \in Int /\ Returns(r)[n] \in Int  BY WorthIsInt
  <2> QED  BY <2>1, <2>2, TotalGrows
<1>3. Total(f.undoLate, Costs(q)) <= Total(f.undoLate, Costs(r))
  <2>1. IsFiniteSet(f.undoLate)  BY RowsAreFinite, FS_Subset
  <2>2. \A n \in f.undoLate : Costs(q)[n] \in Int /\ Costs(r)[n] \in Int /\ Costs(q)[n] <= Costs(r)[n]
    <3> SUFFICES ASSUME NEW n \in f.undoLate
                 PROVE  Costs(q)[n] \in Int /\ Costs(r)[n] \in Int /\ Costs(q)[n] <= Costs(r)[n]
      OBVIOUS
    <3>1. /\ Returns(q)[n] \in Int /\ Returns(r)[n] \in Int /\ Costs(q)[n] \in Int /\ Costs(r)[n] \in Int
          /\ Returns(q)[n] <= Returns(r)[n]
      BY WorthIsInt
    <3>2. Costs(q)[n] = Min({0, Returns(q)[n]}) /\ Costs(r)[n] = Min({0, Returns(r)[n]})  BY DEF Costs
    <3>3. \A a, b \in Int : a <= b => Min({0, a}) <= Min({0, b})
      <4> SUFFICES ASSUME NEW a \in Int, NEW b \in Int, a <= b PROVE Min({0, a}) <= Min({0, b})  OBVIOUS
      <4>1. \E x \in {0, b} : \A y \in {0, b} : x <= y
        <5>1. CASE b <= 0  BY <5>1
        <5>2. CASE 0 <= b  BY <5>2
        <5> QED  BY <5>1, <5>2
      <4>2. Min({0, b}) \in {0, b}  BY <4>1, Zenon DEF Min
      <4> QED  BY <4>2, OfZeroAnd
    <3> QED  BY <3>1, <3>2, <3>3
  <2> QED  BY <2>1, <2>2, TotalGrows
<1>4. /\ Total(f.sure, Moved(r)) \in Int /\ Total(f.late, TakenOut(r)) \in Int
      /\ Total(f.undoSure, Returns(r)) \in Int /\ Total(f.undoLate, Costs(r)) \in Int
      /\ Total(f.undoSure, Returns(q)) \in Int /\ Total(f.undoLate, Costs(q)) \in Int
  <2>1. /\ IsFiniteSet(f.sure) /\ IsFiniteSet(f.late) /\ IsFiniteSet(f.undoSure) /\ IsFiniteSet(f.undoLate)
    BY RowsAreFinite, FS_Subset
  <2>2. \A n \in DOMAIN r : /\ Moved(r)[n] \in Int /\ TakenOut(r)[n] \in Int
                            /\ Returns(r)[n] \in Int /\ Costs(r)[n] \in Int
                            /\ Returns(q)[n] \in Int /\ Costs(q)[n] \in Int
    BY WorthIsInt
  <2>3. Total(f.sure, Moved(r)) \in Int /\ Total(f.late, TakenOut(r)) \in Int
    <3>1. (\A n \in f.sure : Moved(r)[n] \in Int) /\ \A n \in f.late : TakenOut(r)[n] \in Int  BY <2>2
    <3> QED  BY <2>1, <3>1, TotalIsInt
  <2>4. Total(f.undoSure, Returns(r)) \in Int /\ Total(f.undoSure, Returns(q)) \in Int
    <3>1. \A n \in f.undoSure : Returns(r)[n] \in Int /\ Returns(q)[n] \in Int  BY <2>2
    <3> QED  BY <2>1, <3>1, TotalIsInt
  <2>5. Total(f.undoLate, Costs(r)) \in Int /\ Total(f.undoLate, Costs(q)) \in Int
    <3>1. \A n \in f.undoLate : Costs(r)[n] \in Int /\ Costs(q)[n] \in Int  BY <2>2
    <3> QED  BY <2>1, <3>1, TotalIsInt
  <2> QED  BY <2>3, <2>4, <2>5
<1> QED  BY <1>1, <1>2, <1>3, <1>4 DEF Expected

\* Six sums that together are nowhere more than a seventh.
LEMMA SixAtMost ==
    ASSUME NEW S, IsFiniteSet(S), NEW a, NEW b, NEW c, NEW d, NEW e, NEW g, NEW u,
           \A x \in S : /\ a[x] \in Int /\ b[x] \in Int /\ c[x] \in Int
                        /\ d[x] \in Int /\ e[x] \in Int /\ g[x] \in Int /\ u[x] \in Int
                        /\ a[x] + b[x] + c[x] + d[x] + e[x] + g[x] <= u[x]
    PROVE  Total(S, a) + Total(S, b) + Total(S, c) + Total(S, d) + Total(S, e) + Total(S, g) <= Total(S, u)
<1> DEFINE ab == [x \in S |-> a[x] + b[x]]
           cd == [x \in S |-> c[x] + d[x]]
           eg == [x \in S |-> e[x] + g[x]]
           abcd == [x \in S |-> ab[x] + cd[x]]
           all == [x \in S |-> abcd[x] + eg[x]]
<1>1. \A x \in S : /\ ab[x] \in Int /\ ab[x] = a[x] + b[x] /\ cd[x] \in Int /\ cd[x] = c[x] + d[x]
                   /\ eg[x] \in Int /\ eg[x] = e[x] + g[x]
  OBVIOUS
<1>2. \A x \in S : abcd[x] = ab[x] + cd[x] /\ all[x] = abcd[x] + eg[x]  OBVIOUS
<1> HIDE DEF ab, cd, eg, abcd, all
<1>3. \A x \in S : abcd[x] \in Int /\ all[x] \in Int /\ all[x] <= u[x]  BY <1>1, <1>2
<1>4. Total(S, ab) = Total(S, a) + Total(S, b)  BY <1>1, TotalAdds
<1>5. Total(S, cd) = Total(S, c) + Total(S, d)  BY <1>1, TotalAdds
<1>6. Total(S, eg) = Total(S, e) + Total(S, g)  BY <1>1, TotalAdds
<1>7. Total(S, abcd) = Total(S, ab) + Total(S, cd)
  <2>1. \A x \in S : ab[x] \in Int /\ cd[x] \in Int /\ abcd[x] = ab[x] + cd[x]  BY <1>1, <1>2
  <2> QED  BY <2>1, TotalAdds
<1>8. Total(S, all) = Total(S, abcd) + Total(S, eg)  BY <1>1, <1>2, <1>3, TotalAdds
<1>9. Total(S, all) <= Total(S, u)  BY <1>3, TotalGrows
<1>10. /\ Total(S, a) \in Int /\ Total(S, b) \in Int /\ Total(S, c) \in Int
       /\ Total(S, d) \in Int /\ Total(S, e) \in Int /\ Total(S, g) \in Int
  BY TotalIsInt
<1> QED  BY <1>4, <1>5, <1>6, <1>7, <1>8, <1>9, <1>10

\* The posted balance, with what the listed rows will change and an edited expense not
\* yet posted, is no more than the balance of everything recorded.
LEMMA ListedIsAtMost ==
    ASSUME NEW r \in Seq(Movements), NEW on, NEW B, NEW S, NEW L, NEW U, NEW V, NEW W
    PROVE  /\ on # 0 => on \in DOMAIN r /\ r[on].undo = "no"
           /\ B = {n \in DOMAIN r : r[n].st = "posted" /\ r[n].undo # "posted"}
           /\ S = {n \in DOMAIN r \ {on} : r[n].st = "fresh" /\ r[n].undo = "no"}
           /\ L = {n \in DOMAIN r \ {on} : r[n].st = "late" /\ r[n].undo = "no"}
           /\ U = {n \in DOMAIN r \ {on} : r[n].st = "posted" /\ r[n].undo = "fresh"}
           /\ V = {n \in DOMAIN r \ {on} : r[n].st = "posted" /\ r[n].undo = "late"}
           /\ W = {n \in DOMAIN r : n = on /\ r[n].st # "posted"}
           => Total(B, Moved(r)) + Total(S, Moved(r)) + Total(L, TakenOut(r)) + Total(U, Returns(r))
              + Total(V, Costs(r)) + Total(W, Moved(r)) <= Balance(r)
<1>0. SUFFICES ASSUME on # 0 => on \in DOMAIN r /\ r[on].undo = "no",
                      B = {n \in DOMAIN r : r[n].st = "posted" /\ r[n].undo # "posted"},
                      S = {n \in DOMAIN r \ {on} : r[n].st = "fresh" /\ r[n].undo = "no"},
                      L = {n \in DOMAIN r \ {on} : r[n].st = "late" /\ r[n].undo = "no"},
                      U = {n \in DOMAIN r \ {on} : r[n].st = "posted" /\ r[n].undo = "fresh"},
                      V = {n \in DOMAIN r \ {on} : r[n].st = "posted" /\ r[n].undo = "late"},
                      W = {n \in DOMAIN r : n = on /\ r[n].st # "posted"}
               PROVE  Total(B, Moved(r)) + Total(S, Moved(r)) + Total(L, TakenOut(r)) + Total(U, Returns(r))
                      + Total(V, Costs(r)) + Total(W, Moved(r)) <= Balance(r)
  BY Zenon
<1> DEFINE D == DOMAIN r
           b == [n \in D |-> IF n \in B THEN Moved(r)[n] ELSE 0]
           s == [n \in D |-> IF n \in S THEN Moved(r)[n] ELSE 0]
           l == [n \in D |-> IF n \in L THEN TakenOut(r)[n] ELSE 0]
           u == [n \in D |-> IF n \in U THEN Returns(r)[n] ELSE 0]
           v == [n \in D |-> IF n \in V THEN Costs(r)[n] ELSE 0]
           w == [n \in D |-> IF n \in W THEN Moved(r)[n] ELSE 0]
<1>1. /\ B \in SUBSET D /\ S \in SUBSET D /\ L \in SUBSET D
      /\ U \in SUBSET D /\ V \in SUBSET D /\ W \in SUBSET D
  BY <1>0
<1>2. \A n \in D : /\ b[n] = (IF n \in B THEN Moved(r)[n] ELSE 0) /\ s[n] = (IF n \in S THEN Moved(r)[n] ELSE 0)
                   /\ l[n] = (IF n \in L THEN TakenOut(r)[n] ELSE 0) /\ u[n] = (IF n \in U THEN Returns(r)[n] ELSE 0)
                   /\ v[n] = (IF n \in V THEN Costs(r)[n] ELSE 0) /\ w[n] = (IF n \in W THEN Moved(r)[n] ELSE 0)
  OBVIOUS
<1>3. \A n \in D : /\ r[n].amt \in Int /\ Worth(r)[n] \in Int /\ Moved(r)[n] \in Int
                   /\ TakenOut(r)[n] \in Int /\ Returns(r)[n] \in Int /\ Costs(r)[n] \in Int
                   /\ TakenOut(r)[n] <= r[n].amt /\ Costs(r)[n] <= Returns(r)[n]
  BY WorthIsInt
<1>4. ASSUME NEW n \in D
      PROVE  /\ b[n] \in Int /\ s[n] \in Int /\ l[n] \in Int
             /\ u[n] \in Int /\ v[n] \in Int /\ w[n] \in Int
             /\ b[n] + s[n] + l[n] + u[n] + v[n] + w[n] <= Worth(r)[n]
  <2>1. /\ Worth(r)[n] = (IF r[n].undo = "no" THEN r[n].amt ELSE 0) /\ Moved(r)[n] = r[n].amt
        /\ Returns(r)[n] = (IF r[n].st = "posted" /\ r[n].undo # "posted" THEN -r[n].amt ELSE 0)
    BY DEF Worth, Moved, Returns
  <2>2. r[n].st \in {"fresh", "late", "posted"} /\ r[n].undo \in {"no", "fresh", "late", "posted"}
    BY RowsAreFinite DEF Movements
  <2>3. r[n].amt \in Int /\ TakenOut(r)[n] \in Int /\ Costs(r)[n] \in Int
        /\ TakenOut(r)[n] <= r[n].amt /\ Costs(r)[n] <= Returns(r)[n]
    BY <1>3
  <2>4. /\ b[n] = (IF r[n].st = "posted" /\ r[n].undo # "posted" THEN r[n].amt ELSE 0)
        /\ s[n] = (IF n # on /\ r[n].st = "fresh" /\ r[n].undo = "no" THEN r[n].amt ELSE 0)
        /\ l[n] = (IF n # on /\ r[n].st = "late" /\ r[n].undo = "no" THEN TakenOut(r)[n] ELSE 0)
        /\ u[n] = (IF n # on /\ r[n].st = "posted" /\ r[n].undo = "fresh" THEN Returns(r)[n] ELSE 0)
        /\ v[n] = (IF n # on /\ r[n].st = "posted" /\ r[n].undo = "late" THEN Costs(r)[n] ELSE 0)
        /\ w[n] = (IF n = on /\ r[n].st # "posted" THEN r[n].amt ELSE 0)
    BY <1>0, <1>2, <2>1
  <2>5. n = on => r[n].undo = "no"
    <3>1. n # 0  BY RowsAreFinite
    <3> QED  BY <1>0, <3>1
  <2> HIDE DEF b, s, l, u, v, w, D
  <2>6. CASE r[n].undo = "no"   BY <2>1, <2>2, <2>3, <2>4, <2>6
  <2>7. CASE r[n].undo # "no"   BY <2>1, <2>2, <2>3, <2>4, <2>5, <2>7
  <2> QED  BY <2>6, <2>7
<1> HIDE DEF b, s, l, u, v, w, D
<1>5. /\ IsFiniteSet(D) /\ \A n \in D : Worth(r)[n] \in Int  BY <1>3, RowsAreFinite DEF D
<1>6. Total(D, b) + Total(D, s) + Total(D, l) + Total(D, u) + Total(D, v) + Total(D, w) <= Total(D, Worth(r))
  BY <1>4, <1>5, SixAtMost
<1>7. Total(B, Moved(r)) = Total(D, b)
  <2>1. B \in SUBSET D /\ (\A n \in D : b[n] = (IF n \in B THEN Moved(r)[n] ELSE 0)) /\ \A n \in B : Moved(r)[n] \in Int
    BY <1>1, <1>2, <1>3
  <2> QED  BY <2>1, TotalOfSome DEF D
<1>8. Total(S, Moved(r)) = Total(D, s)
  <2>1. S \in SUBSET D /\ (\A n \in D : s[n] = (IF n \in S THEN Moved(r)[n] ELSE 0)) /\ \A n \in S : Moved(r)[n] \in Int
    BY <1>1, <1>2, <1>3
  <2> QED  BY <2>1, TotalOfSome DEF D
<1>9. Total(L, TakenOut(r)) = Total(D, l)
  <2>1. L \in SUBSET D /\ (\A n \in D : l[n] = (IF n \in L THEN TakenOut(r)[n] ELSE 0)) /\ \A n \in L : TakenOut(r)[n] \in Int
    BY <1>1, <1>2, <1>3
  <2> QED  BY <2>1, TotalOfSome DEF D
<1>10. Total(U, Returns(r)) = Total(D, u)
  <2>1. U \in SUBSET D /\ (\A n \in D : u[n] = (IF n \in U THEN Returns(r)[n] ELSE 0)) /\ \A n \in U : Returns(r)[n] \in Int
    BY <1>1, <1>2, <1>3
  <2> QED  BY <2>1, TotalOfSome DEF D
<1>11. Total(V, Costs(r)) = Total(D, v)
  <2>1. V \in SUBSET D /\ (\A n \in D : v[n] = (IF n \in V THEN Costs(r)[n] ELSE 0)) /\ \A n \in V : Costs(r)[n] \in Int
    BY <1>1, <1>2, <1>3
  <2> QED  BY <2>1, TotalOfSome DEF D
<1>12. Total(W, Moved(r)) = Total(D, w)
  <2>1. W \in SUBSET D /\ (\A n \in D : w[n] = (IF n \in W THEN Moved(r)[n] ELSE 0)) /\ \A n \in W : Moved(r)[n] \in Int
    BY <1>1, <1>2, <1>3
  <2> QED  BY <2>1, TotalOfSome DEF D
<1> QED  BY <1>6, <1>7, <1>8, <1>9, <1>10, <1>11, <1>12 DEF Balance, D

LEMMA TotalOfOne ==
    ASSUME NEW v, NEW x, v[x] \in Int
    PROVE  Total({x}, v) = v[x]
<1>1. IsFiniteSet({}) /\ Total({}, v) = 0  BY FS_EmptySet, TotalOfNone
<1>2. x \notin {} /\ \A y \in {} \cup {x} : v[y] \in Int  OBVIOUS
<1>3. Total({} \cup {x}, v) = Total({}, v) + v[x]  BY <1>1, <1>2, TotalWith
<1>4. {} \cup {x} = {x}  OBVIOUS
<1> QED  BY <1>1, <1>3, <1>4

-----------------------------------------------------------------------------
(* Trust: the snapshot.                                                     *)

\* The request once it has its snapshot.
Listed(f) ==
    [f EXCEPT !.at = "effects", !.base = Posted,
         !.sure = {n \in Records \ {f.on} : rec[n].st = "fresh" /\ rec[n].undo = "no"},
         !.late = {n \in Records \ {f.on} : rec[n].st = "late" /\ rec[n].undo = "no"},
         !.undoSure = {n \in Records \ {f.on} : rec[n].st = "posted" /\ rec[n].undo = "fresh"},
         !.undoLate = {n \in Records \ {f.on} : rec[n].st = "posted" /\ rec[n].undo = "late"}]

\* What a request must be to take its snapshot.
Ready(f) ==
    /\ f.on # 0 => f.on \in Records /\ rec[f.on].amt < 0 /\ rec[f.on].undo = "no"
    /\ \/ f.need = f.amt
       \/ f.on # 0 /\ f.need = f.amt + rec[f.on].amt /\ rec[f.on].st = "posted"

LEMMA PostedIsInt == TrustTypeOK => Posted \in Int /\ \A o : PostedOf(o) \in Int
<1> SUFFICES ASSUME TrustTypeOK PROVE Posted \in Int /\ \A o : PostedOf(o) \in Int
  OBVIOUS
<1>1. rec \in Seq(Movements)  BY DEF TrustTypeOK
<1>2. ASSUME NEW S \in SUBSET DOMAIN rec PROVE Total(S, Moved(rec)) \in Int
  <2>1. IsFiniteSet(S)  BY <1>1, RowsAreFinite, FS_Subset
  <2>2. \A n \in S : Moved(rec)[n] \in Int  BY <1>1, WorthIsInt
  <2> QED  BY <2>1, <2>2, TotalIsInt
<1>3. Amount = Moved(rec)  BY DEF Amount, Records, Moved
<1> QED  BY <1>2, <1>3, AddedIsTotal DEF Posted, PostedOf, Records

LEMMA Snapped ==
    ASSUME TrustTypeOK, NEW f \in Requests, Ready(f)
    PROVE  Listed(f) \in Requests /\ RequestFits(rec, Listed(f))
<1> DEFINE g == Listed(f)
           B == {n \in DOMAIN rec : rec[n].st = "posted" /\ rec[n].undo # "posted"}
           W == {n \in DOMAIN rec : n = f.on /\ rec[n].st # "posted"}
<1>1. rec \in Seq(Movements) /\ DOMAIN rec \subseteq Nat \ {0}  BY RowsAreFinite DEF TrustTypeOK
<1>2. /\ f.on \in Nat /\ f.amt \in Nat /\ f.need \in Int  BY DEF Requests
<1>3. /\ g.at = "effects" /\ g.on = f.on /\ g.amt = f.amt /\ g.need = f.need /\ g.base = Posted
      /\ g.sure = {n \in DOMAIN rec \ {f.on} : rec[n].st = "fresh" /\ rec[n].undo = "no"}
      /\ g.late = {n \in DOMAIN rec \ {f.on} : rec[n].st = "late" /\ rec[n].undo = "no"}
      /\ g.undoSure = {n \in DOMAIN rec \ {f.on} : rec[n].st = "posted" /\ rec[n].undo = "fresh"}
      /\ g.undoLate = {n \in DOMAIN rec \ {f.on} : rec[n].st = "posted" /\ rec[n].undo = "late"}
  BY DEF Listed, Requests, Records
<1>4. g \in Requests
  <2>1. Posted \in Int  BY PostedIsInt
  <2> QED  BY <1>1, <2>1 DEF Listed, Requests, Records
<1>5. Posted = Total(B, Moved(rec))
  <2>1. Amount = Moved(rec)  BY DEF Amount, Records, Moved
  <2> QED  BY <2>1, AddedIsTotal DEF Posted, InBooks, Records
<1>6. Posted + Expected(rec, g) + Total(W, Moved(rec)) <= Balance(rec)
  <2>1. f.on # 0 => f.on \in DOMAIN rec /\ rec[f.on].undo = "no"  BY DEF Ready, Records
  <2>2. B = {n \in DOMAIN rec : rec[n].st = "posted" /\ rec[n].undo # "posted"}
        /\ W = {n \in DOMAIN rec : n = f.on /\ rec[n].st # "posted"}
    OBVIOUS
  <2>3. Total(B, Moved(rec)) + Total(g.sure, Moved(rec)) + Total(g.late, TakenOut(rec)) + Total(g.undoSure, Returns(rec))
           + Total(g.undoLate, Costs(rec)) + Total(W, Moved(rec)) <= Balance(rec)
    <3> DEFINE on == f.on
               S == g.sure
               L == g.late
               U == g.undoSure
               V == g.undoLate
               r == rec
    <3>1. /\ r \in Seq(Movements) /\ (on # 0 => on \in DOMAIN r /\ r[on].undo = "no")
          /\ B = {n \in DOMAIN r : r[n].st = "posted" /\ r[n].undo # "posted"}
          /\ S = {n \in DOMAIN r \ {on} : r[n].st = "fresh" /\ r[n].undo = "no"}
          /\ L = {n \in DOMAIN r \ {on} : r[n].st = "late" /\ r[n].undo = "no"}
          /\ U = {n \in DOMAIN r \ {on} : r[n].st = "posted" /\ r[n].undo = "fresh"}
          /\ V = {n \in DOMAIN r \ {on} : r[n].st = "posted" /\ r[n].undo = "late"}
          /\ W = {n \in DOMAIN r : n = on /\ r[n].st # "posted"}
      BY <1>1, <1>3, <2>1, <2>2
    <3> HIDE DEF B, W, S, L, U, V, on, r
    <3>2. Total(B, Moved(r)) + Total(S, Moved(r)) + Total(L, TakenOut(r)) + Total(U, Returns(r))
              + Total(V, Costs(r)) + Total(W, Moved(r)) <= Balance(r)
      BY <3>1, ListedIsAtMost, Zenon
    <3> QED  BY <3>2 DEF S, L, U, V, r
  <2>4. \A S \in SUBSET DOMAIN rec : /\ Total(S, Moved(rec)) \in Int /\ Total(S, TakenOut(rec)) \in Int
                                     /\ Total(S, Returns(rec)) \in Int /\ Total(S, Costs(rec)) \in Int
    <3> SUFFICES ASSUME NEW S \in SUBSET DOMAIN rec
                 PROVE  /\ Total(S, Moved(rec)) \in Int /\ Total(S, TakenOut(rec)) \in Int
                        /\ Total(S, Returns(rec)) \in Int /\ Total(S, Costs(rec)) \in Int
      OBVIOUS
    <3>1. IsFiniteSet(S)  BY <1>1, RowsAreFinite, FS_Subset
    <3>2. \A n \in S : /\ Moved(rec)[n] \in Int /\ TakenOut(rec)[n] \in Int
                       /\ Returns(rec)[n] \in Int /\ Costs(rec)[n] \in Int
      BY <1>1, WorthIsInt
    <3> QED  BY <3>1, <3>2, TotalIsInt
  <2>5. /\ B \in SUBSET DOMAIN rec /\ W \in SUBSET DOMAIN rec /\ g.sure \in SUBSET DOMAIN rec
        /\ g.late \in SUBSET DOMAIN rec /\ g.undoSure \in SUBSET DOMAIN rec /\ g.undoLate \in SUBSET DOMAIN rec
    BY <1>3
  <2>6. /\ Total(B, Moved(rec)) \in Int /\ Total(g.sure, Moved(rec)) \in Int /\ Total(g.late, TakenOut(rec)) \in Int
        /\ Total(g.undoSure, Returns(rec)) \in Int /\ Total(g.undoLate, Costs(rec)) \in Int
        /\ Total(W, Moved(rec)) \in Int /\ Balance(rec) \in Int
    <3> HIDE DEF B, W, g
    <3> QED  BY <1>1, <2>4, <2>5, WorthIsInt
  <2> HIDE DEF B, W, g
  <2> QED  BY <1>5, <2>3, <2>6 DEF Expected
<1>7. Total(W, Moved(rec)) = (IF f.on # 0 /\ rec[f.on].st # "posted" THEN rec[f.on].amt ELSE 0)
  <2>1. CASE f.on # 0 /\ rec[f.on].st # "posted"
    <3>1. W = {f.on} /\ f.on \in DOMAIN rec  BY <2>1 DEF Ready, Records
    <3>2. Moved(rec)[f.on] = rec[f.on].amt /\ Moved(rec)[f.on] \in Int  BY <1>1, <3>1, WorthIsInt DEF Moved
    <3> QED  BY <2>1, <3>1, <3>2, TotalOfOne
  <2>2. CASE ~(f.on # 0 /\ rec[f.on].st # "posted")
    <3>1. W = {}  BY <1>1, <2>2
    <3> QED  BY <2>2, <3>1, TotalOfNone
  <2> QED  BY <2>1, <2>2
<1>8. Leaving(rec, g) >= g.base + Expected(rec, g) - g.need
  <2>1. Posted \in Int /\ Balance(rec) \in Int /\ (f.on # 0 => rec[f.on].amt \in Int)
    BY <1>1, PostedIsInt, WorthIsInt DEF Ready, Records
  <2>2. Expected(rec, g) \in Int  BY <1>1, <1>3, ExpectedIsInt
  <2>3. Leaving(rec, g) = Balance(rec) - f.amt - (IF f.on = 0 THEN 0 ELSE rec[f.on].amt)
    <3> HIDE DEF g
    <3> QED  BY <1>3 DEF Leaving
  <2> HIDE DEF g, W
  <2>4. CASE f.on = 0
    <3>1. f.need = f.amt  BY <2>4 DEF Ready
    <3> QED  BY <1>2, <1>3, <1>6, <1>7, <2>1, <2>2, <2>3, <2>4, <3>1
  <2>5. CASE f.on # 0
    <3>1. rec[f.on].amt < 0 /\ (f.need = f.amt \/ (f.need = f.amt + rec[f.on].amt /\ rec[f.on].st = "posted"))
      BY <2>5 DEF Ready
    <3> QED  BY <1>2, <1>3, <1>6, <1>7, <2>1, <2>2, <2>3, <2>5, <3>1
  <2> QED  BY <2>4, <2>5
<1>9. /\ g.on # 0 => g.on \in DOMAIN rec /\ rec[g.on].amt < 0 /\ rec[g.on].undo = "no"
      /\ g.sure \subseteq DOMAIN rec /\ g.late \subseteq DOMAIN rec
      /\ g.undoSure \subseteq DOMAIN rec /\ g.undoLate \subseteq DOMAIN rec
      /\ \A n \in g.undoSure \cup g.undoLate : rec[n].st = "posted"
  BY <1>3 DEF Ready, Records
<1> HIDE DEF g
<1>10. RequestFits(rec, g)  BY <1>3, <1>8, <1>9 DEF RequestFits
<1> QED  BY <1>4, <1>10 DEF g

-----------------------------------------------------------------------------
(* Trust: what keeps the invariant.                                         *)

AreRows(r) == r \in Seq(Movements)

\* The movements of r are in q, what was posted still is.
StillThere(r, q) ==
    \A n \in DOMAIN r : /\ n \in DOMAIN q /\ q[n].amt = r[n].amt
                        /\ r[n].st = "posted" => q[n].st = "posted"

\* g is the request f, overtaken or not.
SameRequest(f, g) == \E b \in BOOLEAN : g = [f EXCEPT !.overtaken = b] /\ (f.overtaken => b)

\* What request f was measured by has not become less.
NoLess(r, q, f) ==
    /\ Balance(q) >= Balance(r)
    /\ f.at = "effects" => \A n \in f.undoSure \cup f.undoLate : Returns(q)[n] <= Returns(r)[n]

\* A request that is not asked anew stays within its bounds while the balance it was
\* measured by is no smaller, or it is marked as overtaken.
LEMMA RequestKept ==
    ASSUME NEW r, NEW q, AreRows(r), AreRows(q), NEW f \in Requests, NEW g \in Requests,
           SameRequest(f, g), RequestFits(r, f), StillThere(r, q), f.on # 0 => q[f.on].undo = "no",
           f.at \in {"effects", "position", "cap"} => g.overtaken \/ NoLess(r, q, f)
    PROVE  RequestFits(q, g)
<1>0. r \in Seq(Movements) /\ q \in Seq(Movements)  BY DEF AreRows
<1>1. /\ g.at = f.at /\ g.on = f.on /\ g.amt = f.amt /\ g.need = f.need /\ g.base = f.base
      /\ g.sure = f.sure /\ g.late = f.late /\ g.undoSure = f.undoSure /\ g.undoLate = f.undoLate
      /\ f.overtaken => g.overtaken
  BY DEF Requests, SameRequest
<1>2. f.on # 0 => f.on \in DOMAIN r /\ f.on \in DOMAIN q /\ q[f.on].amt = r[f.on].amt /\ q[f.on].amt < 0
  BY DEF RequestFits, StillThere
<1>3. Expected(q, g) = Expected(q, f)
  BY <1>1 DEF Expected
<1>4. Leaving(q, g) = Balance(q) - f.amt - (IF f.on = 0 THEN 0 ELSE r[f.on].amt)
  BY <1>1, <1>2 DEF Leaving
<1>5. Leaving(r, f) = Balance(r) - f.amt - (IF f.on = 0 THEN 0 ELSE r[f.on].amt)
  BY DEF Leaving
<1>6. /\ Balance(r) \in Int /\ Balance(q) \in Int /\ f.amt \in Int /\ f.need \in Int /\ f.base \in Int
      /\ f.on # 0 => r[f.on].amt \in Int
  BY <1>0, <1>2, WorthIsInt DEF Requests
<1>7. CASE f.at = "effects"
  <2>1. /\ f.sure \subseteq DOMAIN r /\ f.late \subseteq DOMAIN r
        /\ f.undoSure \subseteq DOMAIN r /\ f.undoLate \subseteq DOMAIN r
        /\ \A n \in f.undoSure \cup f.undoLate : r[n].st = "posted"
        /\ f.overtaken \/ Leaving(r, f) >= f.base + Expected(r, f) - f.need
    BY <1>7 DEF RequestFits
  <2>2. /\ g.sure \subseteq DOMAIN q /\ g.late \subseteq DOMAIN q
        /\ g.undoSure \subseteq DOMAIN q /\ g.undoLate \subseteq DOMAIN q
        /\ \A n \in g.undoSure \cup g.undoLate : q[n].st = "posted"
    BY <1>1, <2>1 DEF StillThere
  <2>3. g.overtaken \/ Leaving(q, g) >= g.base + Expected(q, g) - g.need
    <3>1. SUFFICES ASSUME ~g.overtaken PROVE Leaving(q, g) >= g.base + Expected(q, g) - g.need
      OBVIOUS
    <3>2. Balance(q) >= Balance(r) /\ \A n \in f.undoSure \cup f.undoLate : Returns(q)[n] <= Returns(r)[n]
      BY <1>7, <3>1 DEF NoLess
    <3>3. Leaving(r, f) >= f.base + Expected(r, f) - f.need  BY <1>1, <2>1, <3>1
    <3>4. Expected(q, f) <= Expected(r, f)
      <4>1. DOMAIN r \subseteq DOMAIN q /\ \A n \in DOMAIN r : q[n].amt = r[n].amt  BY DEF StillThere
      <4> QED  BY <1>0, <2>1, <3>2, <4>1, ExpectsNoMore
    <3>5. Expected(r, f) \in Int /\ Expected(q, f) \in Int
      <4>1. /\ f.sure \subseteq DOMAIN q /\ f.late \subseteq DOMAIN q
            /\ f.undoSure \subseteq DOMAIN q /\ f.undoLate \subseteq DOMAIN q
        BY <1>1, <2>2
      <4> QED  BY <1>0, <2>1, <4>1, ExpectedIsInt
    <3> QED  BY <1>1, <1>3, <1>4, <1>5, <1>6, <3>2, <3>3, <3>4, <3>5
  <2> QED  BY <1>1, <1>2, <1>7, <2>2, <2>3 DEF RequestFits
<1>8. CASE f.at \in {"position", "cap"}
  <2>1. g.overtaken \/ Leaving(q, g) >= 0
    <3>1. SUFFICES ASSUME ~g.overtaken PROVE Leaving(q, g) >= 0  OBVIOUS
    <3>2. Balance(q) >= Balance(r) /\ Leaving(r, f) >= 0  BY <1>1, <1>8, <3>1 DEF RequestFits, NoLess
    <3> QED  BY <1>4, <1>5, <1>6, <3>2
  <2> QED  BY <1>1, <1>2, <1>8, <2>1 DEF RequestFits
<1>9. CASE f.at = "need"
  <2>1. f.on # 0 /\ (f.need = f.amt \/ (f.need = f.amt + r[f.on].amt /\ r[f.on].st = "posted"))
    BY <1>9 DEF RequestFits
  <2>2. r[f.on].st = "posted" => q[f.on].st = "posted"  BY <1>2, <2>1 DEF StillThere
  <2> QED  BY <1>1, <1>2, <1>9, <2>1, <2>2 DEF RequestFits
<1>10. CASE f.at = "write"  BY <1>1, <1>2, <1>10 DEF RequestFits
<1> QED  BY <1>7, <1>8, <1>9, <1>10 DEF Requests

\* Steps that ask nothing anew.
LEMMA OthersKeep ==
    ASSUME TrustInv, TrustTypeOK', TrustIsCovered', UnderWay' \subseteq UnderWay,
           \A t \in UnderWay' :
              /\ SameRequest(out[t], out'[t])
              /\ out[t].on # 0 => rec'[out[t].on].undo = "no"
              /\ Guarded(t) => out'[t].overtaken \/ NoLess(rec, rec', out[t]),
           StillThere(rec, rec')
    PROVE  TrustInv'
<1>1. /\ rec \in Seq(Movements) /\ rec' \in Seq(Movements)
      /\ \A t \in UnderWay : out[t] \in Requests /\ RequestFits(rec, out[t])
      /\ \A t \in UnderWay' : out'[t] \in Requests
  BY DEF TrustInv, TrustTypeOK, UnderWay
<1>2. \A t \in UnderWay' : out'[t].at = out[t].at /\ out'[t].on = out[t].on
  BY <1>1 DEF Requests, SameRequest
<1>3. GuardsApart'
  BY <1>2 DEF TrustInv, GuardsApart, Guarded
<1>4. ASSUME NEW t \in UnderWay' PROVE RequestFits(rec', out'[t])
  <2>1. out[t] \in Requests /\ out'[t] \in Requests /\ RequestFits(rec, out[t])  BY <1>1
  <2> DEFINE f == out[t]
             g == out'[t]
             r == rec
             q == rec'
  <2>2. f.at \in {"effects", "position", "cap"} => g.overtaken \/ NoLess(r, q, f)
    BY DEF Guarded
  <2>3. SameRequest(f, g) /\ (f.on # 0 => q[f.on].undo = "no")
    OBVIOUS
  <2>4. StillThere(r, q)
    OBVIOUS
  <2>5. AreRows(r) /\ AreRows(q) /\ f \in Requests /\ g \in Requests /\ RequestFits(r, f)
    BY <1>1, <2>1 DEF AreRows
  <2> HIDE DEF f, g, r, q
  <2>6. RequestFits(q, g)  BY <2>2, <2>3, <2>4, <2>5, RequestKept
  <2> QED  BY <2>6 DEF q, g
<1> QED  BY <1>3, <1>4 DEF TrustInv

\* A step outside the guard answers for what it leaves.
LEMMA UnguardedCovers ==
    ASSUME TrustTypeOK, rec' \in Seq(Movements), Unguarded
    PROVE  short' \in Nat /\ TrustIsCovered'
<1> DEFINE h == Balance(rec')
           m == short'
<1>1. short \in Nat /\ h \in Int
  <2>1. ASSUME NEW r \in Seq(Movements) PROVE Balance(r) \in Int  BY <2>1, WorthIsInt
  <2> QED  BY <2>1 DEF TrustTypeOK
<1>2. \A a, b \in Int : Max({a, b}) \in {a, b} /\ Max({a, b}) >= a /\ Max({a, b}) >= b
  <2> SUFFICES ASSUME NEW a \in Int, NEW b \in Int
               PROVE  Max({a, b}) \in {a, b} /\ Max({a, b}) >= a /\ Max({a, b}) >= b
    OBVIOUS
  <2>1. \E x \in {a, b} : \A y \in {a, b} : x >= y
    <3>1. CASE a <= b  BY <3>1
    <3>2. CASE b <= a  BY <3>2
    <3> QED  BY <3>1, <3>2
  <2>2. Max({a, b}) \in {a, b} /\ \A y \in {a, b} : Max({a, b}) >= y  BY <2>1, Zenon DEF Max
  <2> QED  BY <2>2
<1>3. Held' = h  BY RowsHeld
<1>4. m = Max({short, -h})
  <2>1. m = Max({short, -Held'})  BY DEF Unguarded
  <2> QED  BY <1>3, <2>1
<1> HIDE DEF h, m
<1>5. m >= short /\ m >= -h /\ m \in Int
  <2> DEFINE k == -h
  <2>1. k \in Int /\ short \in Int /\ m = Max({short, k})  BY <1>1, <1>4
  <2>2. k = -h  OBVIOUS
  <2> HIDE DEF k
  <2>3. m \in {short, k} /\ m >= short /\ m >= k  BY <1>2, <2>1
  <2> QED  BY <2>1, <2>2, <2>3
<1>6. m \in Nat /\ h + m >= 0  BY <1>1, <1>5
<1> QED  BY <1>3, <1>6 DEF TrustIsCovered, m

LEMMA StaysCovered ==
    ASSUME TrustTypeOK, TrustIsCovered, rec' \in Seq(Movements), Balance(rec') >= Balance(rec), short' = short
    PROVE  TrustIsCovered'
<1> DEFINE b == Balance(rec')
           c == Balance(rec)
<1>1. rec \in Seq(Movements) /\ short \in Nat  BY DEF TrustTypeOK
<1>2. Held = c /\ Held' = b  BY <1>1, RowsHeld
<1>3. \A r \in Seq(Movements) : Balance(r) \in Int  BY WorthIsInt
<1>4. b \in Int /\ c \in Int /\ b >= c /\ c + short >= 0  BY <1>1, <1>2, <1>3 DEF TrustIsCovered
<1> HIDE DEF b, c
<1>5. b + short >= 0  BY <1>1, <1>4
<1> QED  BY <1>2, <1>5 DEF TrustIsCovered

-----------------------------------------------------------------------------
(* Trust: the rows a step writes.                                           *)

\* q has e for the movement n of r, and the balance that follows.
ChangedTo(r, n, e, q) ==
    /\ q \in Seq(Movements) /\ DOMAIN q = DOMAIN r /\ StillThere(r, q)
    /\ q[n] = e /\ \A m \in DOMAIN r \ {n} : q[m] = r[m] /\ Returns(q)[m] = Returns(r)[m]
    /\ Balance(q) = Balance(r) + (IF r[n].undo = "no" THEN 0 ELSE e.amt) - (IF e.undo = "no" THEN 0 ELSE e.amt)

\* One movement changes, its amount does not.
LEMMA RowChanged ==
    ASSUME NEW r \in Seq(Movements), NEW n \in DOMAIN r, NEW e \in Movements,
           e.amt = r[n].amt, r[n].st = "posted" => e.st = "posted"
    PROVE  ChangedTo(r, n, e, [r EXCEPT ![n] = e])
<1> DEFINE q == [r EXCEPT ![n] = e]
<1>1. q \in Seq(Movements)
  <2>1. n \in 1..Len(r)  BY RowsAreFinite
  <2> QED  BY <2>1, ExceptSeq
<1>2. DOMAIN q = DOMAIN r /\ q[n] = e /\ \A m \in DOMAIN r \ {n} : q[m] = r[m]  OBVIOUS
<1> HIDE DEF q
<1>3. StillThere(r, q)  BY <1>2 DEF StillThere
<1>4. \A m \in DOMAIN r \ {n} : Returns(q)[m] = Returns(r)[m]  BY <1>2 DEF Returns
<1>5. Balance(q) = Balance(r) - Worth(r)[n] + Worth(q)[n]  BY <1>1, <1>2, BalanceMoves, Zenon
<1>6. /\ Worth(r)[n] = (IF r[n].undo = "no" THEN e.amt ELSE 0)
      /\ Worth(q)[n] = (IF e.undo = "no" THEN e.amt ELSE 0)
  BY <1>2 DEF Worth
<1>7. Balance(r) \in Int /\ e.amt \in Int  BY WorthIsInt DEF Movements
<1>8. Balance(q) = Balance(r) + (IF r[n].undo = "no" THEN 0 ELSE e.amt) - (IF e.undo = "no" THEN 0 ELSE e.amt)
  BY <1>5, <1>6, <1>7
<1> QED  BY <1>1, <1>2, <1>3, <1>4, <1>8 DEF q, ChangedTo

\* The rows a request writes leave what it said they would.
LEMMA WrittenLeaves ==
    ASSUME rec \in Seq(Movements), NEW f \in Requests,
           f.on # 0 => f.on \in DOMAIN rec /\ rec[f.on].undo = "no"
    PROVE  /\ Written(f) \in Seq(Movements) /\ StillThere(rec, Written(f))
           /\ Balance(Written(f)) = Leaving(rec, f)
           /\ \A n \in DOMAIN rec : /\ Returns(Written(f))[n] = Returns(rec)[n]
                                    /\ n # f.on => Written(f)[n].undo = rec[n].undo
<1> DEFINE q == IF f.on = 0 THEN rec ELSE [rec EXCEPT ![f.on].undo = "fresh"]
           m == Row(f, IF f.kind = "direct" THEN "posted" ELSE "fresh")
           w == Append(q, m)
<1>1. m \in Movements /\ m.undo = "no" /\ m.amt = -f.amt /\ f.amt \in Int
  BY DEF Row, Movements, Requests
<1>2. /\ q \in Seq(Movements) /\ DOMAIN q = DOMAIN rec /\ StillThere(rec, q)
      /\ Balance(q) = Balance(rec) - (IF f.on = 0 THEN 0 ELSE rec[f.on].amt)
      /\ \A n \in DOMAIN rec : Returns(q)[n] = Returns(rec)[n] /\ (n # f.on => q[n].undo = rec[n].undo)
  <2>1. CASE f.on = 0
    <3>1. q = rec /\ Balance(rec) \in Int  BY <2>1, WorthIsInt
    <3> QED  BY <2>1, <3>1 DEF StillThere
  <2>2. CASE f.on # 0
    <3> DEFINE n == f.on
               e == [rec[n] EXCEPT !.undo = "fresh"]
    <3>1. n \in DOMAIN rec /\ rec[n].undo = "no" /\ rec[n] \in Movements  BY <2>2, RowsAreFinite
    <3>2. e \in Movements /\ e.amt = rec[n].amt /\ e.st = rec[n].st /\ e.undo = "fresh"  BY <3>1 DEF Movements
    <3>3. q = [rec EXCEPT ![n] = e]  BY <2>2
    <3> HIDE DEF q, e, n
    <3>4. ChangedTo(rec, n, e, q)
      <4>1. rec[n].st = "posted" => e.st = "posted"  BY <3>2
      <4>2. ChangedTo(rec, n, e, [rec EXCEPT ![n] = e])  BY <3>1, <3>2, <4>1, RowChanged, Zenon
      <4> QED  BY <3>3, <4>2, Zenon
    <3>5. Returns(q)[n] = Returns(rec)[n]  BY <3>1, <3>2, <3>4 DEF Returns, ChangedTo
    <3>6. Balance(rec) \in Int /\ rec[n].amt \in Int  BY <3>1, WorthIsInt DEF Movements
    <3>7. Balance(q) = Balance(rec) - rec[n].amt  BY <3>1, <3>2, <3>4, <3>6 DEF ChangedTo
    <3> QED  BY <2>2, <3>4, <3>5, <3>7 DEF n, ChangedTo
  <2> QED  BY <2>1, <2>2
<1> HIDE DEF q, m
<1>3. /\ w \in Seq(Movements) /\ Balance(w) = Balance(q) + m.amt
      /\ DOMAIN q \subseteq DOMAIN w /\ \A n \in DOMAIN q : w[n] = q[n]
  BY <1>1, <1>2, BalanceGrows
<1> HIDE DEF w
<1>4. Balance(w) = Leaving(rec, f)
  <2>1. Balance(rec) \in Int /\ (f.on # 0 => rec[f.on].amt \in Int)  BY WorthIsInt
  <2> QED  BY <1>1, <1>2, <1>3, <2>1 DEF Leaving
<1>5. StillThere(rec, w)  BY <1>2, <1>3 DEF StillThere
<1>6. \A n \in DOMAIN rec : Returns(w)[n] = Returns(rec)[n] /\ (n # f.on => w[n].undo = rec[n].undo)
  <2>1. \A n \in DOMAIN rec : Returns(w)[n] = Returns(q)[n] /\ w[n] = q[n]  BY <1>2, <1>3 DEF Returns
  <2> QED  BY <1>2, <2>1
<1>7. w = Written(f)  BY DEF w, q, m, Written
<1> QED  BY <1>3, <1>4, <1>5, <1>6, <1>7

-----------------------------------------------------------------------------
(* Trust: the steps.                                                        *)

LEMMA TrustNow ==
    ASSUME TrustInv
    PROVE  /\ rec \in Seq(Movements) /\ AreRows(rec) /\ short \in Nat /\ UnderWay \subseteq Payers
           /\ DOMAIN rec \subseteq Nat \ {0} /\ \A n \in DOMAIN rec : rec[n] \in Movements
           /\ \A t \in UnderWay : out[t] \in Requests /\ RequestFits(rec, out[t]) /\ SameRequest(out[t], out[t])
<1>1. rec \in Seq(Movements) /\ short \in Nat /\ UnderWay \subseteq Payers /\ \A t \in UnderWay : out[t] \in Requests
  BY DEF TrustInv, TrustTypeOK, UnderWay
<1>2. ASSUME NEW f \in Requests PROVE SameRequest(f, f)
  <2>1. f.overtaken \in BOOLEAN /\ f = [f EXCEPT !.overtaken = f.overtaken]  BY DEF Requests
  <2> QED  BY <2>1 DEF SameRequest
<1> QED  BY <1>1, <1>2, RowsAreFinite DEF TrustInv, AreRows

\* What a request was measured by is no less while its reversals return the same.
LEMMA SameReturns ==
    ASSUME NEW r, NEW q, AreRows(r), NEW f, RequestFits(r, f), Balance(q) >= Balance(r),
           f.at = "effects" => \A n \in f.undoSure \cup f.undoLate : Returns(q)[n] = Returns(r)[n]
    PROVE  NoLess(r, q, f)
<1>1. r \in Seq(Movements)  BY DEF AreRows
<1>2. CASE f.at = "effects"
  <2>1. \A n \in f.undoSure \cup f.undoLate : n \in DOMAIN r  BY <1>2 DEF RequestFits
  <2>2. \A n \in f.undoSure \cup f.undoLate : Returns(r)[n] \in Int  BY <1>1, <2>1, WorthIsInt
  <2>3. \A n \in f.undoSure \cup f.undoLate : Returns(q)[n] <= Returns(r)[n]  BY <1>2, <2>2
  <2> QED  BY <2>3 DEF NoLess
<1>3. CASE f.at # "effects"  BY <1>3 DEF NoLess
<1> QED  BY <1>2, <1>3

LEMMA LeavesKeeps ==
    ASSUME TrustInv, NEW s, Leaves(s), UNCHANGED <<rec, short>>
    PROVE  TrustInv'
<1>1. UnderWay' = UnderWay \ {s} /\ \A t \in UnderWay' : out'[t] = out[t]  BY DEF Leaves, UnderWay, Restrict
<1>2. TrustTypeOK'  BY <1>1, TrustNow DEF TrustTypeOK, UnderWay
<1>3. TrustIsCovered'
  <2>1. Held' = Balance(rec') /\ Held = Balance(rec)  BY TrustNow, RowsHeld
  <2>2. Held' = Held  BY <2>1
  <2> QED  BY <2>2 DEF TrustInv, TrustIsCovered
<1>4. GuardsApart'  BY <1>1 DEF TrustInv, GuardsApart, Guarded
<1>5. (\A t \in UnderWay : RequestFits(rec, out[t]))'  BY <1>1 DEF TrustInv
<1> QED  BY <1>2, <1>3, <1>4, <1>5 DEF TrustInv

\* One request goes a step on, the movements stay.
LEMMA GoesKeeps ==
    ASSUME TrustInv, NEW s \in Payers, NEW f \in Requests, RequestFits(rec, f), Goes(s, f), UNCHANGED <<rec, short>>,
           f.at \in {"effects", "position", "cap"} => LockFree(s),
           \A t \in UnderWay \ {s} : f.on = 0 \/ f.on # out[t].on
    PROVE  TrustInv'
<1>1. UnderWay' = UnderWay \cup {s} /\ out'[s] = f /\ \A t \in UnderWay \ {s} : out'[t] = out[t]
  BY DEF Goes, UnderWay
<1>2. TrustTypeOK'  BY <1>1, TrustNow DEF TrustTypeOK, UnderWay
<1>3. TrustIsCovered'
  <2>1. Held' = Balance(rec') /\ Held = Balance(rec)  BY TrustNow, RowsHeld
  <2>2. Held' = Held  BY <2>1
  <2> QED  BY <2>2 DEF TrustInv, TrustIsCovered
<1>4. GuardsApart'
  <2> SUFFICES ASSUME NEW t \in UnderWay', NEW u \in UnderWay', t # u
               PROVE  /\ ~Guarded(t)' \/ ~Guarded(u)'
                      /\ out'[t].on = 0 \/ out'[t].on # out'[u].on
    BY DEF GuardsApart
  <2>1. CASE t = s  BY <1>1, <2>1 DEF LockFree, Guarded
  <2>2. CASE u = s  BY <1>1, <2>2 DEF LockFree, Guarded
  <2>3. CASE t # s /\ u # s  BY <1>1, <2>3 DEF TrustInv, GuardsApart, Guarded
  <2> QED  BY <2>1, <2>2, <2>3
<1>5. (\A t \in UnderWay : RequestFits(rec, out[t]))'  BY <1>1 DEF TrustInv
<1> QED  BY <1>2, <1>3, <1>4, <1>5 DEF TrustInv

\* One request writes its rows and ends.
LEMMA WriterKeeps ==
    ASSUME TrustInv, NEW s \in UnderWay, rec' = Written(out[s]), UnderWay' = UnderWay \ {s},
           \A t \in UnderWay' : /\ SameRequest(out[t], out'[t])
                                /\ Guarded(t) => out'[t].overtaken \/ Balance(rec') >= Balance(rec),
           TrustTypeOK', TrustIsCovered'
    PROVE  TrustInv'
<1>1. out[s] \in Requests /\ (out[s].on # 0 => out[s].on \in DOMAIN rec /\ rec[out[s].on].undo = "no")
      /\ rec \in Seq(Movements) /\ \A t \in UnderWay : RequestFits(rec, out[t])
  BY TrustNow DEF RequestFits
<1>2. /\ StillThere(rec, rec')
      /\ \A n \in DOMAIN rec : /\ Returns(rec')[n] = Returns(rec)[n]
                               /\ n # out[s].on => rec'[n].undo = rec[n].undo
  <2> DEFINE f == out[s]
  <2>1. f \in Requests /\ (f.on # 0 => f.on \in DOMAIN rec /\ rec[f.on].undo = "no")  BY <1>1
  <2> HIDE DEF f
  <2>2. /\ StillThere(rec, Written(f))
        /\ \A n \in DOMAIN rec : /\ Returns(Written(f))[n] = Returns(rec)[n]
                                 /\ n # f.on => Written(f)[n].undo = rec[n].undo
    BY <1>1, <2>1, WrittenLeaves
  <2>3. rec' = Written(f)  BY DEF f
  <2>4. /\ StillThere(rec, rec')
        /\ \A n \in DOMAIN rec : /\ Returns(rec')[n] = Returns(rec)[n]
                                 /\ n # f.on => rec'[n].undo = rec[n].undo
    BY <2>2, <2>3
  <2> QED  BY <2>4 DEF f
<1>3. ASSUME NEW t \in UnderWay'
      PROVE  /\ out[t].on # 0 => rec'[out[t].on].undo = "no"
             /\ Guarded(t) => out'[t].overtaken \/ NoLess(rec, rec', out[t])
  <2>1. t \in UnderWay /\ t # s /\ RequestFits(rec, out[t])  BY <1>1
  <2>2. out[t].on # 0 => rec'[out[t].on].undo = "no"
    <3>1. out[t].on = 0 \/ out[t].on # out[s].on  BY <2>1 DEF TrustInv, GuardsApart
    <3> QED  BY <1>2, <2>1, <3>1 DEF RequestFits
  <2>3. Guarded(t) /\ Balance(rec') >= Balance(rec) => NoLess(rec, rec', out[t])
    <3>1. out[t].at = "effects" => \A n \in out[t].undoSure \cup out[t].undoLate : Returns(rec')[n] = Returns(rec)[n]
      BY <1>2, <2>1 DEF RequestFits
    <3>2. AreRows(rec)  BY <1>1 DEF AreRows
    <3> QED  BY <2>1, <3>1, <3>2, SameReturns
  <2> QED  BY <2>2, <2>3
<1>4. UnderWay' \subseteq UnderWay  OBVIOUS
<1> QED  BY <1>2, <1>3, <1>4, OthersKeep

LEMMA SnapshotKeeps ==
    ASSUME TrustInv, NEW s \in Payers, NEW f \in Requests, Ready(f), Snapshot(s, f),
           \A t \in UnderWay \ {s} : f.on = 0 \/ f.on # out[t].on
    PROVE  TrustInv'
<1>1. Listed(f) \in Requests /\ RequestFits(rec, Listed(f))  BY Snapped DEF TrustInv
<1>2. LockFree(s) /\ Goes(s, Listed(f)) /\ UNCHANGED <<rec, short>>  BY DEF Snapshot, Listed
<1>3. Listed(f).on = f.on  BY DEF Listed, Requests
<1> QED  BY <1>1, <1>2, <1>3, GoesKeeps

LEMMA PayOutKeeps ==
    ASSUME TrustInv, NEW s \in Payers, NEW kind \in {"queued", "direct", "end"}, NEW o \in Owners, NEW amt \in Sums,
           PayOut(s, kind, o, amt)
    PROVE  TrustInv'
<1> DEFINE f == Asks(kind, o, amt, 0, amt)
<1>1. amt \in Nat  BY TrustAssumption
<1>2. f \in Requests /\ f.on = 0 /\ f.need = f.amt  BY <1>1 DEF Asks, Requests
<1>3. Snapshot(s, f)  BY DEF PayOut
<1> HIDE DEF f
<1>4. Ready(f)  BY <1>2 DEF Ready
<1> QED  BY <1>2, <1>3, <1>4, SnapshotKeeps

LEMMA EditGuardedKeeps ==
    ASSUME TrustInv, NEW s \in Payers, EditGuarded(s)
    PROVE  TrustInv'
<1>1. s \in UnderWay /\ out[s].at = "need" /\ Snapshot(s, out[s])  BY DEF EditGuarded, At
<1>2. out[s] \in Requests /\ RequestFits(rec, out[s])  BY <1>1, TrustNow
<1>3. Ready(out[s])  BY <1>1, <1>2 DEF RequestFits, Ready, Records
<1>4. \A t \in UnderWay \ {s} : out[s].on = 0 \/ out[s].on # out[t].on  BY <1>1 DEF TrustInv, GuardsApart
<1> QED  BY <1>1, <1>2, <1>3, <1>4, SnapshotKeeps

LEMMA EditExpenseKeeps ==
    ASSUME TrustInv, NEW s \in Payers, NEW n \in Records, NEW amt \in Sums, EditExpense(s, n, amt)
    PROVE  TrustInv'
<1> DEFINE f == Asks("edit", rec[n].of, amt, n, EditNeed(n, amt))
<1>1. /\ rec[n].amt < 0 /\ rec[n].undo = "no" /\ \A t \in UnderWay : out[t].on # n
      /\ Goes(s, f) /\ UNCHANGED <<rec, short>>
  BY DEF EditExpense
<1>2. n \in DOMAIN rec /\ n \in Nat \ {0} /\ rec[n].amt \in Int /\ rec[n].of \in Owners /\ amt \in Nat
  BY TrustNow, TrustAssumption DEF Records, Movements
<1>3. /\ EditNeed(n, amt) \in Int
      /\ EditNeed(n, amt) = amt \/ (EditNeed(n, amt) = amt + rec[n].amt /\ rec[n].st = "posted")
  BY <1>2 DEF EditNeed
<1>4. f \in Requests /\ f.on = n /\ f.at = "need" /\ f.amt = amt /\ f.need = EditNeed(n, amt)
  BY <1>2, <1>3 DEF Asks, Requests
<1> HIDE DEF f
<1>5. RequestFits(rec, f)  BY <1>1, <1>2, <1>3, <1>4 DEF RequestFits
<1>6. \A t \in UnderWay \ {s} : f.on = 0 \/ f.on # out[t].on  BY <1>1, <1>4
<1> QED  BY <1>1, <1>4, <1>5, <1>6, GoesKeeps

\* What a request becomes when its sums fit.
AfterEffects(f) ==
    CASE f.kind = "end" -> [Asks(f.kind, f.of, f.amt, 0, 0) EXCEPT !.at = "write"]
      [] f.of # Nobody -> [f EXCEPT !.at = "position", !.need = 0, !.base = 0]
      [] OTHER -> Compared(f)

LEMMA AfterEffectsIs ==
    ASSUME NEW f \in Requests
    PROVE  LET g == AfterEffects(f) IN
           /\ g \in Requests /\ g.at \in {"write", "position", "cap"}
           /\ g.at = "write" => g.on = 0
           /\ g.at # "write" => g.on = f.on /\ g.amt = f.amt /\ g.overtaken = f.overtaken
<1> DEFINE g == AfterEffects(f)
           z == 0
           e == [Asks(f.kind, f.of, f.amt, z, z) EXCEPT !.at = "write"]
           h == [f EXCEPT !.at = "position", !.need = z, !.base = z]
           c == [Asks(f.kind, f.of, f.amt, f.on, z) EXCEPT !.at = "cap", !.overtaken = f.overtaken]
<1>1. /\ f.kind \in {"queued", "direct", "edit", "end"} /\ f.of \in Owners /\ f.amt \in Nat /\ f.on \in Nat
      /\ f.overtaken \in BOOLEAN
  BY DEF Requests
<1>2. z \in Nat /\ z \in Int /\ z = 0  OBVIOUS
<1>3. g = e \/ g = h \/ g = c
  <2> HIDE DEF e, h, c
  <2>1. g = (CASE f.kind = "end" -> e [] f.of # Nobody -> h [] OTHER -> c)  BY DEF AfterEffects, Compared, e, h, c
  <2> HIDE DEF g
  <2> QED  BY <2>1
<1> HIDE DEF z, g
<1>4. e \in Requests /\ e.at = "write" /\ e.on = 0
  <2>1. Asks(f.kind, f.of, f.amt, z, z) \in Requests  BY <1>1, <1>2 DEF Asks, Requests
  <2>2. e \in Requests  BY <2>1 DEF Requests
  <2>3. e.at = "write" /\ e.on = z  BY DEF Asks
  <2> QED  BY <1>2, <2>2, <2>3
<1>5. h \in Requests /\ h.at = "position" /\ h.on = f.on /\ h.amt = f.amt /\ h.overtaken = f.overtaken
  <2>1. h \in Requests  BY <1>2 DEF Requests
  <2>2. h.at = "position" /\ h.on = f.on /\ h.amt = f.amt /\ h.overtaken = f.overtaken  BY DEF Requests
  <2> QED  BY <2>1, <2>2
<1>6. c \in Requests /\ c.at = "cap" /\ c.on = f.on /\ c.amt = f.amt /\ c.overtaken = f.overtaken
  <2>1. Asks(f.kind, f.of, f.amt, f.on, z) \in Requests  BY <1>1, <1>2 DEF Asks, Requests
  <2>2. c \in Requests  BY <1>1, <2>1 DEF Requests
  <2>3. c.at = "cap" /\ c.on = f.on /\ c.amt = f.amt /\ c.overtaken = f.overtaken  BY DEF Asks
  <2> QED  BY <2>2, <2>3
<1> HIDE DEF e, h, c
<1>7. /\ g \in Requests /\ g.at \in {"write", "position", "cap"}
      /\ g.at = "write" => g.on = 0
      /\ g.at # "write" => g.on = f.on /\ g.amt = f.amt /\ g.overtaken = f.overtaken
  BY <1>3, <1>4, <1>5, <1>6
<1> QED  BY <1>7 DEF g

LEMMA EffectsKeeps ==
    ASSUME TrustInv, NEW s \in Payers, Effects(s)
    PROVE  TrustInv'
<1> DEFINE f == out[s]
<1>1. s \in UnderWay /\ f.at = "effects" /\ UNCHANGED <<rec, short>>  BY DEF Effects, At
<1>2. f \in Requests /\ RequestFits(rec, f) /\ rec \in Seq(Movements)  BY <1>1, TrustNow
<1>3. LockFree(s) /\ \A t \in UnderWay \ {s} : f.on = 0 \/ f.on # out[t].on
  BY <1>1 DEF LockFree, TrustInv, GuardsApart, Guarded
<1>4. CASE f.need > f.base + Pending(f)
  <2>1. Leaves(s)  BY <1>4 DEF Effects
  <2> QED  BY <1>1, <2>1, LeavesKeeps
<1>5. CASE ~(f.need > f.base + Pending(f))
  <2>1. f.overtaken \/ Leaving(rec, f) >= 0
    <3>1. Pending(f) = Expected(rec, f) /\ Expected(rec, f) \in Int
      BY <1>1, <1>2, PendingIsExpected, ExpectedIsInt DEF RequestFits
    <3>2. f.overtaken \/ Leaving(rec, f) >= f.base + Expected(rec, f) - f.need  BY <1>1, <1>2 DEF RequestFits
    <3>3. f.base \in Int /\ f.need \in Int /\ Leaving(rec, f) \in Int
      <4>1. f.on # 0 => f.on \in DOMAIN rec  BY <1>2 DEF RequestFits
      <4>2. Balance(rec) \in Int /\ (f.on # 0 => rec[f.on].amt \in Int)  BY <1>2, <4>1, WorthIsInt
      <4> QED  BY <1>2, <4>2 DEF Requests, Leaving
    <3> HIDE DEF f
    <3> QED  BY <1>5, <3>1, <3>2, <3>3
  <2> DEFINE g == AfterEffects(f)
  <2>2. Goes(s, g)  BY <1>5 DEF Effects, AfterEffects
  <2>3. /\ g \in Requests /\ g.at \in {"write", "position", "cap"}
        /\ g.at = "write" => g.on = 0
        /\ g.at # "write" => g.on = f.on /\ g.amt = f.amt /\ g.overtaken = f.overtaken
    <3> HIDE DEF f
    <3> QED  BY <1>2, AfterEffectsIs
  <2> HIDE DEF g
  <2>4. RequestFits(rec, g)
    <3>1. CASE g.at = "write"  BY <2>3, <3>1 DEF RequestFits
    <3>2. CASE g.at # "write"
      <4>1. g.overtaken \/ Leaving(rec, g) >= 0  BY <2>1, <2>3, <3>2 DEF Leaving
      <4> QED  BY <1>2, <2>3, <3>2, <4>1 DEF RequestFits
    <3> QED  BY <3>1, <3>2
  <2>5. \A t \in UnderWay \ {s} : g.on = 0 \/ g.on # out[t].on  BY <1>3, <2>3
  <2> QED  BY <1>1, <1>3, <2>2, <2>3, <2>4, <2>5, GoesKeeps
<1> QED  BY <1>4, <1>5

LEMMA PositionKeeps ==
    ASSUME TrustInv, NEW s \in Payers, Position(s)
    PROVE  TrustInv'
<1> DEFINE f == out[s]
           g == [f EXCEPT !.at = "cap", !.had = Max({0, PostedOf(f.of)})]
<1>1. s \in UnderWay /\ f.at = "position" /\ UNCHANGED <<rec, short>> /\ Goes(s, g)  BY DEF Position, At
<1>2. f \in Requests /\ RequestFits(rec, f)  BY <1>1, TrustNow
<1>3. LockFree(s) /\ \A t \in UnderWay \ {s} : f.on = 0 \/ f.on # out[t].on
  BY <1>1 DEF LockFree, TrustInv, GuardsApart, Guarded
<1>4. Max({0, PostedOf(f.of)}) \in Nat
  <2>1. PostedOf(f.of) \in Int  BY PostedIsInt DEF TrustInv
  <2> QED  BY <2>1, OfZeroAnd
<1>5. /\ g \in Requests /\ g.at = "cap" /\ g.on = f.on /\ g.amt = f.amt /\ g.overtaken = f.overtaken
  BY <1>2, <1>4 DEF Requests
<1> HIDE DEF g
<1>6. RequestFits(rec, g)
  <2>1. g.overtaken \/ Leaving(rec, g) >= 0  BY <1>1, <1>2, <1>5 DEF Leaving, RequestFits
  <2> QED  BY <1>2, <1>5, <2>1 DEF RequestFits
<1> QED  BY <1>1, <1>3, <1>5, <1>6, GoesKeeps

LEMMA WrittenNow ==
    ASSUME TrustInv, NEW s \in UnderWay, rec' = Written(out[s])
    PROVE  /\ rec' \in Seq(Movements) /\ Held' = Balance(rec') /\ Held = Balance(rec)
           /\ Balance(rec') = Leaving(rec, out[s]) /\ Balance(rec) \in Int /\ Leaving(rec, out[s]) \in Int
<1>1. out[s] \in Requests /\ rec \in Seq(Movements) /\ (out[s].on # 0 => out[s].on \in DOMAIN rec /\ rec[out[s].on].undo = "no")
  BY TrustNow DEF RequestFits
<1>2. Written(out[s]) \in Seq(Movements) /\ Balance(Written(out[s])) = Leaving(rec, out[s])
  <2> DEFINE f == out[s]
  <2>1. f \in Requests /\ (f.on # 0 => f.on \in DOMAIN rec /\ rec[f.on].undo = "no")  BY <1>1
  <2> HIDE DEF f
  <2>2. Written(f) \in Seq(Movements) /\ Balance(Written(f)) = Leaving(rec, f)  BY <1>1, <2>1, WrittenLeaves
  <2> QED  BY <2>2 DEF f
<1>3. Balance(rec) \in Int  BY <1>1, WorthIsInt
<1>4. Leaving(rec, out[s]) \in Int
  <2>1. out[s].amt \in Int /\ (out[s].on # 0 => rec[out[s].on].amt \in Int)  BY <1>1, WorthIsInt DEF Requests
  <2> QED  BY <1>3, <2>1 DEF Leaving
<1>5. Held = Balance(rec) /\ (rec' \in Seq(Movements) => Held' = Balance(rec'))  BY <1>1, RowsHeld
<1>6. rec' \in Seq(Movements) /\ Balance(rec') = Leaving(rec, out[s])  BY <1>2
<1> QED  BY <1>3, <1>4, <1>5, <1>6

LEMMA LeftBehind ==
    ASSUME TrustInv, NEW s, Leaves(s)
    PROVE  /\ UnderWay' = UnderWay \ {s}
           /\ \A t \in UnderWay' : out'[t] = out[t] /\ SameRequest(out[t], out'[t]) /\ out'[t] \in Requests
<1>1. UnderWay' = UnderWay \ {s} /\ \A t \in UnderWay' : out'[t] = out[t]  BY DEF Leaves, UnderWay, Restrict
<1> QED  BY <1>1, TrustNow

LEMMA CapRefusesKeeps ==
    ASSUME TrustInv, NEW s \in Payers, CapRefuses(s)
    PROVE  TrustInv'
<1>1. Leaves(s) /\ UNCHANGED <<rec, short>>  BY DEF CapRefuses, Refuse
<1> QED  BY <1>1, LeavesKeeps

LEMMA EditDownKeeps ==
    ASSUME TrustInv, NEW s \in Payers, EditDown(s)
    PROVE  TrustInv'
<1>1. /\ s \in UnderWay /\ out[s].at = "need" /\ out[s].need <= 0
      /\ rec' = Written(out[s]) /\ Leaves(s) /\ short' = short
  BY DEF EditDown, At
<1>2. /\ rec' \in Seq(Movements) /\ Held' = Balance(rec') /\ Held = Balance(rec)
      /\ Balance(rec') = Leaving(rec, out[s]) /\ Balance(rec) \in Int /\ Leaving(rec, out[s]) \in Int
  BY <1>1, WrittenNow
<1>3. Balance(rec') >= Balance(rec)
  <2> DEFINE f == out[s]
  <2>1. f \in Requests /\ RequestFits(rec, f) /\ rec \in Seq(Movements)  BY <1>1, TrustNow
  <2>2. /\ f.on # 0 /\ f.on \in DOMAIN rec /\ rec[f.on].amt < 0
        /\ f.need = f.amt \/ f.need = f.amt + rec[f.on].amt
    BY <1>1, <2>1 DEF RequestFits
  <2>3. rec[f.on].amt \in Int /\ f.amt \in Nat  BY <2>1, <2>2, WorthIsInt DEF Requests
  <2>4. Leaving(rec, f) = Balance(rec) - f.amt - rec[f.on].amt  BY <2>2 DEF Leaving
  <2>5. f.need <= 0  BY <1>1
  <2> DEFINE b == Balance(rec')
  <2>6. b = Leaving(rec, f)  BY <1>2
  <2> HIDE DEF f, b
  <2>7. b >= Balance(rec)  BY <1>2, <2>2, <2>3, <2>4, <2>5, <2>6
  <2> QED  BY <2>7 DEF b
<1>4. TrustIsCovered'  BY <1>1, <1>2, <1>3, StaysCovered DEF TrustInv
<1>5. UnderWay' = UnderWay \ {s} /\ \A t \in UnderWay' : out'[t] \in Requests /\ SameRequest(out[t], out'[t])
  BY <1>1, LeftBehind
<1>6. TrustTypeOK'  BY <1>1, <1>2, <1>5, TrustNow DEF TrustTypeOK, UnderWay
<1> QED  BY <1>1, <1>3, <1>4, <1>5, <1>6, WriterKeeps

LEMMA PayKeeps ==
    ASSUME TrustInv, NEW s \in Payers, Pay(s)
    PROVE  TrustInv'
<1>1. /\ s \in UnderWay /\ out[s].at = "cap" /\ rec' = Written(out[s]) /\ Leaves(s)
      /\ IF out[s].overtaken THEN Unguarded ELSE UNCHANGED short
  BY DEF Pay, At
<1>2. /\ rec' \in Seq(Movements) /\ Held' = Balance(rec') /\ Held = Balance(rec)
      /\ Balance(rec') = Leaving(rec, out[s]) /\ Leaving(rec, out[s]) \in Int
  BY <1>1, WrittenNow
<1>3. TrustIsCovered' /\ short' \in Nat
  <2>1. CASE out[s].overtaken
    <3>1. Unguarded  BY <1>1, <2>1
    <3> QED  BY <1>2, <3>1, UnguardedCovers DEF TrustInv
  <2>2. CASE ~out[s].overtaken
    <3>1. short' = short /\ short \in Nat  BY <1>1, <2>2, TrustNow
    <3>2. Leaving(rec, out[s]) >= 0  BY <1>1, <2>2, TrustNow DEF RequestFits
    <3> DEFINE l == Leaving(rec, out[s])
    <3>3. Held' = l /\ l \in Int /\ l >= 0  BY <1>2, <3>2
    <3> HIDE DEF l
    <3>4. l + short >= 0  BY <3>1, <3>3
    <3> QED  BY <3>1, <3>3, <3>4 DEF TrustIsCovered
  <2> QED  BY <2>1, <2>2
<1>4. UnderWay' = UnderWay \ {s} /\ \A t \in UnderWay' : out'[t] \in Requests /\ SameRequest(out[t], out'[t])
  BY <1>1, LeftBehind
<1>5. TrustTypeOK'  BY <1>2, <1>3, <1>4, TrustNow DEF TrustTypeOK, UnderWay
<1>6. \A t \in UnderWay' : ~Guarded(t)  BY <1>1, <1>4 DEF TrustInv, GuardsApart, Guarded
<1> QED  BY <1>1, <1>3, <1>4, <1>5, <1>6, WriterKeeps

\* A request that may be marked as overtaken.
LEMMA Marked ==
    ASSUME NEW f \in Requests, NEW b \in BOOLEAN
    PROVE  LET g == [f EXCEPT !.overtaken = @ \/ b] IN
           g \in Requests /\ SameRequest(f, g) /\ g.overtaken = (f.overtaken \/ b)
<1> DEFINE c == f.overtaken \/ b
           g == [f EXCEPT !.overtaken = c]
<1>1. c \in BOOLEAN /\ (f.overtaken => c) /\ c = (f.overtaken \/ b)  BY DEF Requests
<1> HIDE DEF c
<1>2. g \in Requests /\ g.overtaken = c  BY <1>1 DEF Requests
<1>3. SameRequest(f, g)  BY <1>1 DEF SameRequest
<1> QED  BY <1>1, <1>2, <1>3 DEF c

LEMMA TerminateKeeps ==
    ASSUME TrustInv, NEW s \in Payers, Terminate(s)
    PROVE  TrustInv'
<1>1. /\ s \in UnderWay /\ rec' = Written(out[s]) /\ out' = Overtaken(UnderWay \ {s}) /\ Unguarded
  BY DEF Terminate, At
<1>2. rec' \in Seq(Movements)  BY <1>1, WrittenNow
<1>3. TrustIsCovered' /\ short' \in Nat  BY <1>1, <1>2, UnguardedCovers DEF TrustInv
<1>4. UnderWay' = UnderWay \ {s}  BY <1>1 DEF UnderWay, Overtaken
<1>5. ASSUME NEW t \in UnderWay'
      PROVE  /\ out'[t] \in Requests /\ SameRequest(out[t], out'[t])
             /\ Guarded(t) => out'[t].overtaken
  <2>1. out'[t] = [out[t] EXCEPT !.overtaken = @ \/ Guarded(t)]  BY <1>1, <1>4 DEF Overtaken
  <2>2. out[t] \in Requests /\ Guarded(t) \in BOOLEAN  BY <1>4, TrustNow DEF Guarded
  <2> QED  BY <2>1, <2>2, Marked
<1>6. TrustTypeOK'  BY <1>2, <1>3, <1>4, <1>5, TrustNow DEF TrustTypeOK, UnderWay
<1> QED  BY <1>1, <1>3, <1>4, <1>5, <1>6, WriterKeeps

LEMMA ReceiveKeeps ==
    ASSUME TrustInv, NEW o \in Owners, NEW amt \in Sums, Receive(o, amt)
    PROVE  TrustInv'
<1> DEFINE m == [amt |-> amt, of |-> o, st |-> "fresh", undo |-> "no"]
<1>1. rec' = Append(rec, m) /\ UNCHANGED <<out, short>>  BY DEF Receive
<1>2. amt \in Nat  BY TrustAssumption
<1>3. m \in Movements /\ m.undo = "no" /\ m.amt = amt  BY <1>2 DEF Movements
<1> HIDE DEF m
<1>4. /\ rec' \in Seq(Movements) /\ Balance(rec') = Balance(rec) + amt
      /\ DOMAIN rec \subseteq DOMAIN rec' /\ \A n \in DOMAIN rec : rec'[n] = rec[n]
  BY <1>1, <1>3, TrustNow, BalanceGrows
<1>5. StillThere(rec, rec') /\ \A n \in DOMAIN rec : Returns(rec')[n] = Returns(rec)[n]
  BY <1>4 DEF StillThere, Returns
<1>6. Balance(rec') >= Balance(rec) /\ Balance(rec) \in Int /\ Balance(rec') \in Int
  <2>1. Balance(rec) \in Int  BY TrustNow, WorthIsInt
  <2> QED  BY <1>2, <1>4, <2>1
<1>7. UnderWay' = UnderWay /\ out' = out /\ short' = short  BY <1>1 DEF UnderWay
<1>8. TrustIsCovered'  BY <1>4, <1>6, <1>7, StaysCovered DEF TrustInv
<1>9. TrustTypeOK'  BY <1>1, <1>4, TrustNow DEF TrustInv, TrustTypeOK, UnderWay
<1>10. ASSUME NEW t \in UnderWay'
       PROVE  /\ SameRequest(out[t], out'[t])
              /\ out[t].on # 0 => rec'[out[t].on].undo = "no"
              /\ Guarded(t) => out'[t].overtaken \/ NoLess(rec, rec', out[t])
  <2>1. t \in UnderWay /\ RequestFits(rec, out[t]) /\ SameRequest(out[t], out[t]) /\ AreRows(rec)  BY <1>7, TrustNow
  <2>2. out[t].on # 0 => rec'[out[t].on].undo = "no"  BY <1>4, <2>1 DEF RequestFits
  <2>3. out[t].at = "effects" => \A n \in out[t].undoSure \cup out[t].undoLate : Returns(rec')[n] = Returns(rec)[n]
    BY <1>5, <2>1 DEF RequestFits
  <2>4. NoLess(rec, rec', out[t])  BY <1>6, <2>1, <2>3, SameReturns
  <2> QED  BY <1>7, <2>1, <2>2, <2>4
<1> QED  BY <1>5, <1>7, <1>8, <1>9, <1>10, OthersKeep

\* A movement changes and the requests under way stay as they are, or are marked.
LEMMA ChangeKeeps ==
    ASSUME TrustInv, NEW n, n \in DOMAIN rec, NEW e, ChangedTo(rec, n, e, rec'), UnderWay' = UnderWay,
           \A t \in UnderWay : /\ out'[t] \in Requests /\ SameRequest(out[t], out'[t])
                               /\ out[t].on = n => e.undo = "no"
                               /\ Guarded(t) => out'[t].overtaken \/ NoLess(rec, rec', out[t]),
           short' \in Nat, TrustIsCovered'
    PROVE  TrustInv'
<1>1. /\ rec' \in Seq(Movements) /\ StillThere(rec, rec')
      /\ rec'[n] = e /\ \A m \in DOMAIN rec \ {n} : rec'[m] = rec[m]
  BY DEF ChangedTo
<1>2. TrustTypeOK'  BY <1>1, TrustNow DEF TrustTypeOK, UnderWay
<1>3. ASSUME NEW t \in UnderWay' PROVE out[t].on # 0 => rec'[out[t].on].undo = "no"
  <2>1. out[t].on # 0 => out[t].on \in DOMAIN rec /\ rec[out[t].on].undo = "no"  BY TrustNow DEF RequestFits
  <2>2. out[t].on # 0 /\ out[t].on # n => rec'[out[t].on].undo = "no"  BY <1>1, <2>1
  <2> QED  BY <1>1, <2>2
<1> QED  BY <1>1, <1>2, <1>3, OthersKeep

\* No row a request has listed returns more, and the balance stays or grows.
LEMMA QuietChangeKeeps ==
    ASSUME TrustInv, NEW n, n \in DOMAIN rec, NEW e, e \in Movements, rec' = [rec EXCEPT ![n] = e],
           e.amt = rec[n].amt, rec[n].st = "posted" => e.st = "posted",
           rec[n].undo # "no" \/ e.undo = "no" \/ rec[n].amt < 0, e.undo = "no" => rec[n].undo = "no",
           (e.st = "posted" /\ e.undo # "posted") = (rec[n].st = "posted" /\ rec[n].undo # "posted") \/ rec[n].st # "posted",
           \A t \in UnderWay : out[t].on = n => e.undo = "no",
           UNCHANGED <<out, short>>
    PROVE  TrustInv'
<1>1. ChangedTo(rec, n, e, [rec EXCEPT ![n] = e])
  <2>1. n \in DOMAIN rec /\ e \in Movements /\ e.amt = rec[n].amt /\ (rec[n].st = "posted" => e.st = "posted")  OBVIOUS
  <2> QED  BY <2>1, TrustNow, RowChanged, Zenon
<1>2. ChangedTo(rec, n, e, rec')  BY <1>1, Zenon
<1>3. rec' \in Seq(Movements) /\ DOMAIN rec' = DOMAIN rec /\ rec'[n] = e
      /\ Balance(rec') = Balance(rec) + (IF rec[n].undo = "no" THEN 0 ELSE e.amt) - (IF e.undo = "no" THEN 0 ELSE e.amt)
      /\ \A m \in DOMAIN rec \ {n} : Returns(rec')[m] = Returns(rec)[m]
  BY <1>2 DEF ChangedTo
<1>4. Balance(rec') >= Balance(rec)
  <2>1. Balance(rec) \in Int /\ e.amt \in Int  BY TrustNow, WorthIsInt DEF Movements
  <2> QED  BY <1>3, <2>1
<1>5. UnderWay' = UnderWay /\ out' = out /\ short' = short /\ short' \in Nat  BY TrustNow DEF UnderWay
<1>6. TrustIsCovered'  BY <1>3, <1>4, <1>5, StaysCovered DEF TrustInv
<1>7. ASSUME NEW t \in UnderWay PROVE NoLess(rec, rec', out[t])
  <2>1. RequestFits(rec, out[t]) /\ AreRows(rec)  BY TrustNow
  <2>2. rec[n].st = "posted" => Returns(rec')[n] = Returns(rec)[n]  BY <1>3 DEF Returns
  <2>3. out[t].at = "effects" => \A m \in out[t].undoSure \cup out[t].undoLate : Returns(rec')[m] = Returns(rec)[m]
    BY <1>3, <2>1, <2>2 DEF RequestFits
  <2> QED  BY <1>4, <2>1, <2>3, SameReturns
<1>8. \A t \in UnderWay : /\ out'[t] \in Requests /\ SameRequest(out[t], out'[t])
                          /\ out[t].on = n => e.undo = "no"
                          /\ Guarded(t) => out'[t].overtaken \/ NoLess(rec, rec', out[t])
  BY <1>5, <1>7, TrustNow
<1> QED  BY <1>2, <1>5, <1>6, <1>8, ChangeKeeps

LEMMA VoidPaymentKeeps ==
    ASSUME TrustInv, NEW n \in Records, VoidPayment(n)
    PROVE  TrustInv'
<1> DEFINE e == [rec[n] EXCEPT !.undo = "fresh"]
<1>1. /\ rec[n].amt < 0 /\ rec[n].undo = "no" /\ (\A t \in UnderWay : out[t].on # n)
      /\ rec' = [rec EXCEPT ![n] = e] /\ UNCHANGED <<out, short>>
  BY DEF VoidPayment
<1>2. n \in DOMAIN rec /\ rec[n] \in Movements  BY TrustNow DEF Records
<1>3. e \in Movements /\ e.amt = rec[n].amt /\ e.st = rec[n].st /\ e.undo = "fresh"  BY <1>2 DEF Movements
<1> HIDE DEF e
<1> QED  BY <1>1, <1>2, <1>3, QuietChangeKeeps

LEMMA RowPostsKeeps ==
    ASSUME TrustInv, NEW n \in Records, RowPosts(n)
    PROVE  TrustInv'
<1> DEFINE e == [rec[n] EXCEPT !.st = "posted"]
<1>1. rec[n].st # "posted" /\ rec' = [rec EXCEPT ![n] = e] /\ UNCHANGED <<out, short>>  BY DEF RowPosts
<1>2. n \in DOMAIN rec /\ rec[n] \in Movements  BY TrustNow DEF Records
<1>3. e \in Movements /\ e.amt = rec[n].amt /\ e.st = "posted" /\ e.undo = rec[n].undo  BY <1>2 DEF Movements
<1>4. \A t \in UnderWay : out[t].on = n => e.undo = "no"  BY <1>2, <1>3, TrustNow DEF RequestFits
<1> HIDE DEF e
<1> QED  BY <1>1, <1>2, <1>3, <1>4, QuietChangeKeeps

LEMMA RowFailsKeeps ==
    ASSUME TrustInv, NEW n \in Records, RowFails(n)
    PROVE  TrustInv'
<1> DEFINE e == [rec[n] EXCEPT !.st = "late"]
<1>1. rec[n].st = "fresh" /\ rec' = [rec EXCEPT ![n] = e] /\ UNCHANGED <<out, short>>  BY DEF RowFails
<1>2. n \in DOMAIN rec /\ rec[n] \in Movements  BY TrustNow DEF Records
<1>3. e \in Movements /\ e.amt = rec[n].amt /\ e.undo = rec[n].undo  BY <1>2 DEF Movements
<1>4. \A t \in UnderWay : out[t].on = n => e.undo = "no"  BY <1>2, <1>3, TrustNow DEF RequestFits
<1> HIDE DEF e
<1> QED  BY <1>1, <1>2, <1>3, <1>4, QuietChangeKeeps

LEMMA UndoFailsKeeps ==
    ASSUME TrustInv, NEW n \in Records, UndoFails(n)
    PROVE  TrustInv'
<1> DEFINE e == [rec[n] EXCEPT !.undo = "late"]
<1>1. rec[n].undo = "fresh" /\ rec' = [rec EXCEPT ![n] = e] /\ UNCHANGED <<out, short>>  BY DEF UndoFails
<1>2. n \in DOMAIN rec /\ rec[n] \in Movements  BY TrustNow DEF Records
<1>3. e \in Movements /\ e.amt = rec[n].amt /\ e.st = rec[n].st /\ e.undo = "late"  BY <1>2 DEF Movements
<1>4. \A t \in UnderWay : out[t].on = n => e.undo = "no"  BY <1>1, <1>2, TrustNow DEF RequestFits
<1> HIDE DEF e
<1> QED  BY <1>1, <1>2, <1>3, <1>4, QuietChangeKeeps

LEMMA UndoReceiptKeeps ==
    ASSUME TrustInv, NEW n \in Records, UndoReceipt(n)
    PROVE  TrustInv'
<1> DEFINE e == [rec[n] EXCEPT !.undo = "fresh"]
<1>1. /\ rec[n].amt > 0 /\ rec[n].undo = "no" /\ rec' = [rec EXCEPT ![n] = e]
      /\ out' = Overtaken(UnderWay) /\ Unguarded
  BY DEF UndoReceipt
<1>2. n \in DOMAIN rec /\ rec[n] \in Movements /\ rec[n].amt \in Int  BY TrustNow DEF Records, Movements
<1>3. e \in Movements /\ e.amt = rec[n].amt /\ e.st = rec[n].st /\ e.undo = "fresh"  BY <1>2 DEF Movements
<1> HIDE DEF e
<1>4. ChangedTo(rec, n, e, rec')
  <2>1. rec[n].st = "posted" => e.st = "posted"  BY <1>3
  <2>2. ChangedTo(rec, n, e, [rec EXCEPT ![n] = e])  BY <1>2, <1>3, <2>1, TrustNow, RowChanged, Zenon
  <2> QED  BY <1>1, <2>2, Zenon
<1>5. rec' \in Seq(Movements)  BY <1>4 DEF ChangedTo
<1>6. short' \in Nat /\ TrustIsCovered'  BY <1>1, <1>5, UnguardedCovers DEF TrustInv
<1>7. UnderWay' = UnderWay  BY <1>1 DEF UnderWay, Overtaken
<1>8. ASSUME NEW t \in UnderWay
      PROVE  /\ out'[t] \in Requests /\ SameRequest(out[t], out'[t])
             /\ out[t].on # n
             /\ Guarded(t) => out'[t].overtaken
  <2>1. out'[t] = [out[t] EXCEPT !.overtaken = @ \/ Guarded(t)]  BY <1>1 DEF Overtaken
  <2>2. out[t] \in Requests /\ RequestFits(rec, out[t]) /\ Guarded(t) \in BOOLEAN  BY TrustNow DEF Guarded
  <2>3. out[t].on # n
    <3>1. n # 0  BY <1>2, TrustNow
    <3> QED  BY <1>1, <1>2, <2>2, <3>1 DEF RequestFits
  <2>4. out'[t] \in Requests /\ SameRequest(out[t], out'[t]) /\ (Guarded(t) => out'[t].overtaken)
    BY <2>1, <2>2, Marked
  <2> QED  BY <2>3, <2>4
<1>9. \A t \in UnderWay : /\ out'[t] \in Requests /\ SameRequest(out[t], out'[t])
                          /\ out[t].on = n => e.undo = "no"
                          /\ Guarded(t) => out'[t].overtaken \/ NoLess(rec, rec', out[t])
  BY <1>8
<1> QED  BY <1>2, <1>4, <1>6, <1>7, <1>9, ChangeKeeps

LEMMA UndoPostsKeeps ==
    ASSUME TrustInv, NEW n \in Records, UndoPosts(n)
    PROVE  TrustInv'
<1> DEFINE e == [rec[n] EXCEPT !.undo = "posted"]
           read(t) == out[t].at = "effects" /\ rec[n].amt > 0 /\ n \in out[t].undoSure \cup out[t].undoLate
<1>1. /\ rec[n].st = "posted" /\ rec[n].undo \in {"fresh", "late"} /\ rec' = [rec EXCEPT ![n] = e]
      /\ out' = [t \in UnderWay |-> [out[t] EXCEPT !.overtaken = @ \/ read(t)]] /\ short' = short
  BY DEF UndoPosts
<1>2. n \in DOMAIN rec /\ rec[n] \in Movements /\ rec[n].amt \in Int  BY TrustNow DEF Records, Movements
<1>3. e \in Movements /\ e.amt = rec[n].amt /\ e.st = rec[n].st /\ e.undo = "posted"  BY <1>2 DEF Movements
<1> HIDE DEF e
<1>4. ChangedTo(rec, n, e, rec')
  <2>1. rec[n].st = "posted" => e.st = "posted"  BY <1>3
  <2>2. ChangedTo(rec, n, e, [rec EXCEPT ![n] = e])  BY <1>2, <1>3, <2>1, TrustNow, RowChanged, Zenon
  <2> QED  BY <1>1, <2>2, Zenon
<1>5. rec' \in Seq(Movements) /\ DOMAIN rec' = DOMAIN rec /\ rec'[n] = e
      /\ Balance(rec') = Balance(rec) + (IF rec[n].undo = "no" THEN 0 ELSE e.amt) - (IF e.undo = "no" THEN 0 ELSE e.amt)
      /\ \A m \in DOMAIN rec \ {n} : Returns(rec')[m] = Returns(rec)[m]
  BY <1>4 DEF ChangedTo
<1>6. Balance(rec') >= Balance(rec)
  <2>1. Balance(rec) \in Int  BY TrustNow, WorthIsInt
  <2> QED  BY <1>1, <1>2, <1>3, <1>5, <2>1
<1>7. short' \in Nat /\ TrustIsCovered'  BY <1>1, <1>5, <1>6, TrustNow, StaysCovered DEF TrustInv
<1>8. UnderWay' = UnderWay  BY <1>1 DEF UnderWay
<1>9. ASSUME NEW t \in UnderWay
      PROVE  /\ out'[t] \in Requests /\ SameRequest(out[t], out'[t]) /\ out[t].on # n
             /\ Guarded(t) => out'[t].overtaken \/ NoLess(rec, rec', out[t])
  <2> DEFINE b == read(t)
  <2>1. out'[t] = [out[t] EXCEPT !.overtaken = @ \/ b] /\ b \in BOOLEAN  BY <1>1
  <2>2. out[t] \in Requests /\ RequestFits(rec, out[t])  BY TrustNow
  <2>3. out[t].on # n
    <3>1. n # 0  BY <1>2, TrustNow
    <3> QED  BY <1>1, <2>2, <3>1 DEF RequestFits
  <2>4. out'[t] \in Requests /\ SameRequest(out[t], out'[t]) /\ (b => out'[t].overtaken)
    <3> HIDE DEF b
    <3> QED  BY <2>1, <2>2, Marked
  <2>5. ~b => NoLess(rec, rec', out[t])
    <3>1. SUFFICES ASSUME ~b PROVE NoLess(rec, rec', out[t])  OBVIOUS
    <3>2. CASE out[t].at # "effects"  BY <1>6, <3>2 DEF NoLess
    <3>3. CASE out[t].at = "effects"
      <4>1. \A m \in out[t].undoSure \cup out[t].undoLate : m \in DOMAIN rec /\ Returns(rec)[m] \in Int
        BY <2>2, <3>3, TrustNow, WorthIsInt DEF RequestFits
      <4>2. n \in out[t].undoSure \cup out[t].undoLate => Returns(rec')[n] <= Returns(rec)[n]
        <5>1. n \in out[t].undoSure \cup out[t].undoLate => rec[n].amt <= 0  BY <1>2, <3>1, <3>3
        <5>2. Returns(rec')[n] = 0 /\ Returns(rec)[n] = -rec[n].amt  BY <1>1, <1>2, <1>3, <1>5 DEF Returns
        <5> QED  BY <1>2, <5>1, <5>2
      <4>3. \A m \in out[t].undoSure \cup out[t].undoLate : Returns(rec')[m] <= Returns(rec)[m]
        BY <1>5, <4>1, <4>2
      <4> QED  BY <1>6, <4>3 DEF NoLess
    <3> QED  BY <3>2, <3>3
  <2> QED  BY <2>3, <2>4, <2>5
<1>10. \A t \in UnderWay : /\ out'[t] \in Requests /\ SameRequest(out[t], out'[t])
                           /\ out[t].on = n => e.undo = "no"
                           /\ Guarded(t) => out'[t].overtaken \/ NoLess(rec, rec', out[t])
  BY <1>9
<1> QED  BY <1>2, <1>4, <1>7, <1>8, <1>10, ChangeKeeps

-----------------------------------------------------------------------------
(* Trust: the theorems.                                                     *)

LEMMA TrustStarts == TrustInit => TrustInv
<1> SUFFICES ASSUME TrustInit PROVE TrustInv  OBVIOUS
<1>1. rec = <<>> /\ out = <<>> /\ short = 0  BY DEF TrustInit
<1>2. DOMAIN rec = {} /\ UnderWay = {} /\ rec \in Seq(Movements)  BY <1>1 DEF UnderWay
<1>3. TrustTypeOK  BY <1>1, <1>2 DEF TrustTypeOK, UnderWay
<1>4. TrustIsCovered
  <2>1. Balance(rec) = 0  BY <1>2, TotalOfNone DEF Balance
  <2>2. Held = 0  BY <1>2, <2>1, RowsHeld
  <2> QED  BY <1>1, <2>2 DEF TrustIsCovered
<1> QED  BY <1>2, <1>3, <1>4 DEF TrustInv, GuardsApart

LEMMA TrustStep == TrustInv /\ [TrustNext]_trustVars => TrustInv'
<1> SUFFICES ASSUME TrustInv, [TrustNext]_trustVars PROVE TrustInv'  OBVIOUS
<1>1. ASSUME NEW s \in Payers, NEW kind \in {"queued", "direct", "end"}, NEW o \in Owners, NEW amt \in Sums,
             PayOut(s, kind, o, amt)
      PROVE  TrustInv'
  BY <1>1, PayOutKeeps
<1>2. ASSUME NEW s \in Payers, NEW n \in Records, NEW amt \in Sums, EditExpense(s, n, amt) PROVE TrustInv'
  BY <1>2, EditExpenseKeeps
<1>3. ASSUME NEW s \in Payers, EditGuarded(s) PROVE TrustInv'  BY <1>3, EditGuardedKeeps
<1>4. ASSUME NEW s \in Payers, EditDown(s) PROVE TrustInv'  BY <1>4, EditDownKeeps
<1>5. ASSUME NEW s \in Payers, Effects(s) PROVE TrustInv'  BY <1>5, EffectsKeeps
<1>6. ASSUME NEW s \in Payers, Position(s) PROVE TrustInv'  BY <1>6, PositionKeeps
<1>7. ASSUME NEW s \in Payers, Pay(s) PROVE TrustInv'  BY <1>7, PayKeeps
<1>8. ASSUME NEW s \in Payers, CapRefuses(s) PROVE TrustInv'  BY <1>8, CapRefusesKeeps
<1>9. ASSUME NEW s \in Payers, Terminate(s) PROVE TrustInv'  BY <1>9, TerminateKeeps
<1>10. ASSUME NEW o \in Owners, NEW amt \in Sums, Receive(o, amt) PROVE TrustInv'  BY <1>10, ReceiveKeeps
<1>11. ASSUME NEW n \in Records, UndoReceipt(n) PROVE TrustInv'  BY <1>11, UndoReceiptKeeps
<1>12. ASSUME NEW n \in Records, VoidPayment(n) PROVE TrustInv'  BY <1>12, VoidPaymentKeeps
<1>13. ASSUME NEW n \in Records, RowPosts(n) PROVE TrustInv'  BY <1>13, RowPostsKeeps
<1>14. ASSUME NEW n \in Records, RowFails(n) PROVE TrustInv'  BY <1>14, RowFailsKeeps
<1>15. ASSUME NEW n \in Records, UndoPosts(n) PROVE TrustInv'  BY <1>15, UndoPostsKeeps
<1>16. ASSUME NEW n \in Records, UndoFails(n) PROVE TrustInv'  BY <1>16, UndoFailsKeeps
<1>17. CASE UNCHANGED trustVars
  <2>1. UNCHANGED <<rec, out, short>>  BY <1>17 DEF trustVars
  <2>2. TrustTypeOK'  BY <2>1 DEF TrustInv, TrustTypeOK
  <2>3. Held' = Held
    <3>1. Held = Balance(rec) /\ Held' = Balance(rec')  BY <2>1, TrustNow, RowsHeld
    <3> QED  BY <2>1, <3>1
  <2>4. TrustIsCovered'  BY <2>1, <2>3 DEF TrustInv, TrustIsCovered
  <2>5. GuardsApart'  BY <2>1 DEF TrustInv, GuardsApart, Guarded, UnderWay
  <2>6. (\A s \in UnderWay : RequestFits(rec, out[s]))'  BY <2>1 DEF TrustInv, UnderWay
  <2> QED  BY <2>2, <2>4, <2>5, <2>6 DEF TrustInv
<1>18. CASE TrustNext
  <2>1. CASE \E s \in Payers :
          \/ \E kind \in {"queued", "direct", "end"}, o \in Owners, amt \in Sums : PayOut(s, kind, o, amt)
          \/ \E n \in Records, amt \in Sums : EditExpense(s, n, amt)
          \/ EditGuarded(s) \/ EditDown(s) \/ Effects(s) \/ Position(s) \/ Pay(s) \/ CapRefuses(s) \/ Terminate(s)
    BY <2>1, <1>1, <1>2, <1>3, <1>4, <1>5, <1>6, <1>7, <1>8, <1>9, Zenon
  <2>2. CASE \E o \in Owners, amt \in Sums : Receive(o, amt)  BY <2>2, <1>10, Zenon
  <2>3. CASE \E n \in Records : \/ UndoReceipt(n) \/ VoidPayment(n)
                                 \/ RowPosts(n) \/ RowFails(n) \/ UndoPosts(n) \/ UndoFails(n)
    BY <2>3, <1>11, <1>12, <1>13, <1>14, <1>15, <1>16, Zenon
  <2> QED  BY <1>18, <2>1, <2>2, <2>3, Zenon DEF TrustNext
<1> QED  BY <1>17, <1>18

\* The guard serialises the payments out of trust, and each request under way still
\* counts no more than what is there, however rows post, fail and are reversed
\* meanwhile, unless a step outside the guard overtook it.
THEOREM TrustInvariant == TrustSpec => []TrustInv
  BY TrustStarts, TrustStep, PTL DEF TrustSpec

\* The trust account's records, requests and counters always have their types.
THEOREM TrustTypes == TrustSpec => []TrustTypeOK
<1>1. TrustInv => TrustTypeOK  BY DEF TrustInv
<1> QED  BY <1>1, TrustInvariant, PTL

\* Whatever happens between a payment's checks and its commit, the account falls
\* short only by what was taken from it outside the guard.
THEOREM TrustCovered == TrustSpec => []TrustIsCovered
<1>1. TrustInv => TrustIsCovered  BY DEF TrustInv
<1> QED  BY <1>1, TrustInvariant, PTL

\* A step that ends a request at the second check and changes the movements is the
\* request's own payment.
LEMMA EndsByPaying ==
    ASSUME TrustInv, TrustNext, NEW s \in UnderWay, At(s, "cap"), rec' # rec, s \notin UnderWay'
    PROVE  Pay(s)
<1>1. UnderWay \subseteq Payers  BY TrustNow
<1>2. \A t, f : Goes(t, f) => s \in UnderWay'  BY DEF Goes, UnderWay
<1>3. \A t : Leaves(t) => t = s
  <2> SUFFICES ASSUME NEW t, Leaves(t), t # s PROVE FALSE  OBVIOUS
  <2>1. UnderWay' = UnderWay \ {t}  BY DEF Leaves, UnderWay, Restrict
  <2> QED  BY <2>1
<1>4. out[s].at = "cap"  BY DEF At
<1>5. \A t : ~(At(t, "write") /\ out' = Overtaken(UnderWay \ {t}))
  <2> SUFFICES ASSUME NEW t, At(t, "write"), out' = Overtaken(UnderWay \ {t}) PROVE FALSE  OBVIOUS
  <2>1. t # s  BY <1>4 DEF At
  <2>2. UnderWay' = UnderWay \ {t}  BY DEF Overtaken, UnderWay
  <2> QED  BY <2>1, <2>2
<1>6. out' # out /\ out' # Overtaken(UnderWay)  BY DEF UnderWay, Overtaken
<1>7. ASSUME NEW t \in Payers, NEW kind, NEW o, NEW amt, PayOut(t, kind, o, amt) PROVE FALSE
  BY <1>7, <1>2 DEF PayOut, Snapshot
<1>8. ASSUME NEW t \in Payers, NEW n, NEW amt, EditExpense(t, n, amt) PROVE FALSE  BY <1>8, <1>2 DEF EditExpense
<1>9. ASSUME NEW t \in Payers, EditGuarded(t) PROVE FALSE  BY <1>9, <1>2 DEF EditGuarded, Snapshot
<1>10. ASSUME NEW t \in Payers, EditDown(t) PROVE FALSE  BY <1>10, <1>3, <1>4 DEF EditDown, At
<1>11. ASSUME NEW t \in Payers, Effects(t) \/ Position(t) \/ CapRefuses(t) PROVE FALSE
  BY <1>11 DEF Effects, Position, CapRefuses, Refuse
<1>12. ASSUME NEW t \in Payers, Terminate(t) PROVE FALSE  BY <1>12, <1>5 DEF Terminate
<1>13. ASSUME NEW t \in Payers, Pay(t) PROVE Pay(s)
  <2>1. t = s  BY <1>13, <1>3 DEF Pay
  <2> QED  BY <1>13, <2>1
<1>14. ASSUME NEW o, NEW amt, Receive(o, amt) PROVE FALSE  BY <1>14, <1>6 DEF Receive
<1>15. ASSUME NEW n \in Records, UndoReceipt(n) PROVE FALSE  BY <1>15, <1>6 DEF UndoReceipt
<1>16. ASSUME NEW n \in Records, VoidPayment(n) \/ RowPosts(n) \/ RowFails(n) \/ UndoFails(n) PROVE FALSE
  BY <1>16, <1>6 DEF VoidPayment, RowPosts, RowFails, UndoFails
<1>17. ASSUME NEW n \in Records, UndoPosts(n) PROVE FALSE
  <2>1. UnderWay' = UnderWay  BY <1>17 DEF UndoPosts, UnderWay
  <2> QED  BY <2>1
<1>18. CASE \E t \in Payers :
          \/ \E kind \in {"queued", "direct", "end"}, o \in Owners, amt \in Sums : PayOut(t, kind, o, amt)
          \/ \E n \in Records, amt \in Sums : EditExpense(t, n, amt)
          \/ EditGuarded(t) \/ EditDown(t) \/ Effects(t) \/ Position(t) \/ Pay(t) \/ CapRefuses(t) \/ Terminate(t)
  BY <1>18, <1>7, <1>8, <1>9, <1>10, <1>11, <1>12, <1>13, Zenon
<1>19. CASE \E o \in Owners, amt \in Sums : Receive(o, amt)  BY <1>19, <1>14, Zenon
<1>20. CASE \E n \in Records : \/ UndoReceipt(n) \/ VoidPayment(n)
                                \/ RowPosts(n) \/ RowFails(n) \/ UndoPosts(n) \/ UndoFails(n)
  BY <1>20, <1>15, <1>16, <1>17, Zenon
<1> QED  BY <1>18, <1>19, <1>20, Zenon DEF TrustNext

\* The guard never lets a payment through that leaves the account short, however the
\* account stood before: only a request that a step outside the guard overtook can.
THEOREM NeverPaysShort == TrustSpec => PaysWhatIsThere
<1> DEFINE Paying == \A s \in UnderWay :
              At(s, "cap") /\ ~out[s].overtaken /\ rec' # rec /\ s \notin UnderWay' => Held' >= 0
<1>1. TrustInv /\ TrustNext => Paying
  <2> SUFFICES ASSUME TrustInv, TrustNext, NEW s \in UnderWay,
                      At(s, "cap"), ~out[s].overtaken, rec' # rec, s \notin UnderWay'
               PROVE  Held' >= 0
    OBVIOUS
  <2>1. rec' = Written(out[s]) /\ out[s].at = "cap"  BY EndsByPaying DEF Pay, At
  <2>2. Held' = Balance(rec') /\ Balance(rec') = Leaving(rec, out[s]) /\ Leaving(rec, out[s]) \in Int
    BY <2>1, WrittenNow
  <2>3. Leaving(rec, out[s]) >= 0  BY <2>1, TrustNow DEF RequestFits
  <2> QED  BY <2>2, <2>3
<1>2. TrustInv /\ [TrustNext]_trustVars => [Paying]_trustVars  BY <1>1
<1>3. TrustSpec => [][Paying]_trustVars  BY <1>2, TrustInvariant, PTL DEF TrustSpec
<1> QED  BY <1>3 DEF PaysWhatIsThere

=============================================================================
