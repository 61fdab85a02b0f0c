------------------------ MODULE FiscalPeriodsProofs ------------------------
(***************************************************************************)
(* Proofs about FiscalPeriods, for every number of sessions, months and    *)
(* postings and every VAT return.                                          *)
(***************************************************************************)
EXTENDS FiscalPeriods, SequenceTheorems, TLAPS

\* Where a posting, or the entry of a VAT return, has its number.
NumberedSteps == {"numbered", "checked", "inserted", "booked", "vat_numbered", "vat_checked"}

DraftSteps == {"vat_read", "vat_numbered", "vat_checked", "vat_posted"}

YearSteps == {"year_checked", "year_read", "year_posted"}

-----------------------------------------------------------------------------
(* The inductive invariant.                                                 *)

\* What a transaction has read still fits the books: a number it holds is the
\* next one, sums it read were and remain bounds, and the residual it carries
\* is exact.
TxFits(f) ==
    /\ f.at \in NumberedSteps => f.no # 0
    /\ f.no # 0 => f.at \in NumberedSteps \cup {"year_posted", "vat_posted"}
    /\ f.no # 0 => f.no = Len(numbers[Year(f.month)]) + 1
    /\ f.at \in YearSteps => f.month = YearEnd
    /\ f.at \in DraftSteps \cup {"vat_due"} => f.month = ReturnTo
    /\ f.at \in {"year_read", "year_posted"} => f.sum <= result
    /\ f.at = "year_posted" => IF f.no = 0 THEN f.sum = 0 ELSE ~closing
    /\ f.at = "booked" => f.sum = IF closing /\ f.month <= YearEnd THEN Residual ELSE 0
    /\ f.at \in DraftSteps => ~filed /\ f.sum <= output

TxsFit == \A s \in Sessions : TxFits(tx[s])

\* One session at a time holds the number lock, and one the return's draft.
Alone ==
    \A s, t \in Sessions : s # t => /\ ~(HoldsNumber(s) /\ HoldsNumber(t))
                                    /\ ~(HoldsDraft(s) /\ HoldsDraft(t))

NothingAhead == (~closing => carried = 0) /\ (~filed => settled = 0)

BooksFit == EntryNumbersRun /\ NothingClosedTwice /\ NothingAhead

PeriodsInv == TypeOK /\ TxsFit /\ Alone /\ BooksFit

-----------------------------------------------------------------------------
(* Constants and numbers.                                                   *)

LEMMA MonthFacts ==
    /\ YearEnd \in Months /\ 1 \in Months /\ ReturnTo \in Months
    /\ \A m \in Months : m \in Nat /\ Year(m) \in {ThisYear, 2} /\ (Year(m) = ThisYear <=> m <= YearEnd)
BY PeriodsAssumption DEF Months, Year, ThisYear

\* max + 1 over numbers that run 1, 2, 3 ... is their count and one more.
LEMMA NumberIsNext ==
    ASSUME TypeOK, EntryNumbersRun, NEW y \in {ThisYear, 2}
    PROVE  NextNumber(y) = Len(numbers[y]) + 1
<1> DEFINE n == Len(numbers[y])
           S == {0} \cup {numbers[y][i] : i \in DOMAIN numbers[y]}
<1>1. n \in Nat /\ DOMAIN numbers[y] = 1..n /\ DOMAIN numbers = {ThisYear, 2}  BY DEF TypeOK
<1>2. \A i \in 1..n : numbers[y][i] = i  BY <1>1 DEF EntryNumbersRun
<1>4. n \in S /\ \A x \in S : x \in Nat /\ n >= x
  <2>1. n \in S
    <3>1. CASE n = 0  BY <3>1
    <3>2. CASE n # 0  BY <3>2, <1>1, <1>2
    <3> QED  BY <3>1, <3>2
  <2>2. ASSUME NEW x \in S PROVE x \in Nat /\ n >= x
    <3>1. CASE x = 0  BY <3>1, <1>1
    <3>2. CASE x # 0
      <4>1. PICK i \in 1..n : x = numbers[y][i]  BY <3>2, <1>1, <2>2
      <4> QED  BY <4>1, <1>1, <1>2
    <3> QED  BY <3>1, <3>2
  <2> QED  BY <2>1, <2>2
<1>5. Max(S) = n
  <2> HIDE DEF n, S
  <2>1. \A x \in S : (\A z \in S : x >= z) => x = n  BY <1>4
  <2> QED  BY <1>4, <2>1 DEF Max
<1> QED  BY <1>5 DEF NextNumber

\* Only its own session's statement changes a transaction.
LEMMA StepOf ==
    ASSUME TypeOK, NEW s \in Sessions, NEW f \in Transactions, NEW step \in Steps, Goto(s, step, f)
    PROVE  /\ tx'[s] = [f EXCEPT !.at = step] /\ tx'[s] \in Transactions
           /\ tx'[s].at = step /\ tx'[s].op = f.op /\ tx'[s].month = f.month
           /\ tx'[s].no = f.no /\ tx'[s].sum = f.sum
           /\ \A t \in Sessions \ {s} : tx'[t] = tx[t]
           /\ tx' \in [Sessions -> Transactions]
BY DEF Goto, TypeOK, Transactions

LEMMA IdleType == Idle \in Transactions /\ Idle.no = 0 /\ Idle.at = "idle" /\ Idle.sum = 0 /\ Idle.month \in Months
BY MonthFacts DEF Idle, Transactions, Steps

LEMMA InitPeriods == Init => PeriodsInv
<1> SUFFICES ASSUME Init PROVE PeriodsInv  OBVIOUS
<1>1. TypeOK
  <2>1. numbers \in [{ThisYear, 2} -> Seq(Nat \ {0})]  BY DEF Init
  <2>2. tx \in [Sessions -> Transactions] /\ status \in [Months -> {"open", "closed", "locked"}]
    BY IdleType DEF Init
  <2> QED  BY <2>1, <2>2 DEF Init, TypeOK
<1>2. TxsFit  BY IdleType DEF Init, TxsFit, TxFits, NumberedSteps, YearSteps, DraftSteps
<1>3. Alone  BY IdleType DEF Init, Alone, HoldsNumber, HoldsDraft
<1>4. BooksFit  BY DEF Init, BooksFit, EntryNumbersRun, NothingClosedTwice, NothingAhead, ThisYear
<1> QED  BY <1>1, <1>2, <1>3, <1>4 DEF PeriodsInv

-----------------------------------------------------------------------------
(* Steps that change a transaction and perhaps a period, not the books.     *)

LEMMA Aside ==
    ASSUME PeriodsInv, NEW s \in Sessions, UNCHANGED <<filed, books>>,
           status' \in [Months -> {"open", "closed", "locked"}],
           tx' \in [Sessions -> Transactions], \A t \in Sessions \ {s} : tx'[t] = tx[t],
           TxFits(tx'[s]),
           tx'[s].no # 0 => HoldsNumber(s) \/ NumberFree(s),
           tx'[s].at \in DraftSteps => HoldsDraft(s) \/ \A t \in Sessions : ~HoldsDraft(t)
    PROVE  PeriodsInv'
<1>1. TypeOK'  BY DEF PeriodsInv, TypeOK, books
<1>3. TxsFit'
  <2> SUFFICES ASSUME NEW t \in Sessions PROVE TxFits(tx[t])'  BY DEF TxsFit
  <2>1. TxFits(tx'[t])  BY DEF PeriodsInv, TxsFit
  <2> QED  BY <2>1 DEF TxFits, books, Residual, Year
<1>4. Alone'
  BY DEF PeriodsInv, Alone, HoldsNumber, HoldsDraft, NumberFree, DraftSteps
<1>5. BooksFit'
  BY DEF PeriodsInv, BooksFit, EntryNumbersRun, NothingClosedTwice, NothingAhead, books
<1> QED  BY <1>1, <1>3, <1>4, <1>5 DEF PeriodsInv

\* The facts of the invariant that the steps use.
LEMMA Facts ==
    ASSUME PeriodsInv, NEW s \in Sessions
    PROVE  /\ tx[s] \in Transactions /\ TxFits(tx[s])
           /\ tx[s].month \in Months /\ tx[s].no \in Nat /\ tx[s].sum \in Nat
           /\ \A y \in {ThisYear, 2} : NextNumber(y) = Len(numbers[y]) + 1 /\ Len(numbers[y]) \in Nat
           /\ status \in [Months -> {"open", "closed", "locked"}]
           /\ result \in Nat /\ carried \in Nat /\ output \in Nat /\ settled \in Nat
           /\ carried <= result /\ settled <= output
           /\ numbers \in [{ThisYear, 2} -> Seq(Nat \ {0})]
<1>1. TypeOK /\ EntryNumbersRun /\ NothingClosedTwice /\ TxsFit  BY DEF PeriodsInv, BooksFit
<1>2. tx[s] \in Transactions /\ tx[s].month \in Months /\ tx[s].no \in Nat /\ tx[s].sum \in Nat
  BY <1>1 DEF TypeOK, Transactions
<1>3. TxFits(tx[s])  BY <1>1 DEF TxsFit
<1>4. ASSUME NEW y \in {ThisYear, 2}
      PROVE  NextNumber(y) = Len(numbers[y]) + 1 /\ Len(numbers[y]) \in Nat
  <2>1. numbers[y] \in Seq(Nat \ {0})  BY <1>1 DEF TypeOK
  <2> QED  BY <1>1, <2>1, NumberIsNext
<1> QED  BY <1>1, <1>2, <1>3, <1>4 DEF TypeOK, NothingClosedTwice

\* A transaction that starts, or that goes on without a number or a draft it
\* did not have.
LEMMA GoesOn ==
    ASSUME PeriodsInv, NEW s \in Sessions, UNCHANGED <<filed, books>>,
           status' \in [Months -> {"open", "closed", "locked"}],
           NEW f \in Transactions, NEW step \in Steps, Goto(s, step, f),
           TxFits([f EXCEPT !.at = step]),
           f.no # 0 => HoldsNumber(s) \/ NumberFree(s),
           step \in DraftSteps => HoldsDraft(s) \/ \A t \in Sessions : ~HoldsDraft(t)
    PROVE  PeriodsInv'
<1>1. TypeOK  BY DEF PeriodsInv
<1> QED  BY <1>1, StepOf, Aside

LEMMA Ends ==
    ASSUME PeriodsInv, NEW s \in Sessions, UNCHANGED <<filed, books>>,
           status' \in [Months -> {"open", "closed", "locked"}], End(s)
    PROVE  PeriodsInv'
<1>1. /\ tx' \in [Sessions -> Transactions] /\ tx'[s] = Idle
      /\ \A t \in Sessions \ {s} : tx'[t] = tx[t]
  BY IdleType DEF End, PeriodsInv, TypeOK
<1>2. TxFits(Idle) /\ Idle.at \notin DraftSteps
  BY IdleType DEF TxFits, NumberedSteps, YearSteps, DraftSteps
<1> QED  BY <1>1, <1>2, IdleType, Aside

LEMMA PostingKeeps ==
    ASSUME PeriodsInv, NEW s \in Sessions, Posting(s), ~CommitPosting(s)
    PROVE  PeriodsInv'
<1> USE Facts
<1>1. ASSUME NEW due \in Months, NEW vat \in BOOLEAN, RouteEvent(s, due, vat) PROVE PeriodsInv'
  <2>1. PICK m \in Months : Goto(s, "routed", [Idle EXCEPT !.op = "auto", !.due = due, !.month = m, !.vat = vat])
    BY <1>1 DEF RouteEvent, Routed
  <2> DEFINE f == [Idle EXCEPT !.op = "auto", !.due = due, !.month = m, !.vat = vat]
  <2>2. f \in Transactions /\ f.no = 0  BY IdleType DEF Transactions, Idle
  <2>3. TxFits([f EXCEPT !.at = "routed"])
    BY DEF TxFits, NumberedSteps, YearSteps, DraftSteps, Idle
  <2>4. "routed" \in Steps /\ "routed" \notin DraftSteps  BY DEF Steps, DraftSteps
  <2> HIDE DEF f
  <2> QED  BY <1>1, <2>1, <2>2, <2>3, <2>4, GoesOn DEF RouteEvent, f
<1>2. ASSUME NEW m \in Months, ApproveManual(s, m) PROVE PeriodsInv'
  <2> DEFINE f == [Idle EXCEPT !.op = "manual", !.due = m, !.month = m]
  <2>1. f \in Transactions /\ f.no = 0  BY IdleType DEF Transactions, Idle
  <2>2. TxFits([f EXCEPT !.at = "routed"])
    BY DEF TxFits, NumberedSteps, YearSteps, DraftSteps, Idle
  <2>3. "routed" \in Steps /\ "routed" \notin DraftSteps  BY DEF Steps, DraftSteps
  <2>4. Goto(s, "routed", f)  BY <1>2 DEF ApproveManual
  <2> HIDE DEF f
  <2> QED  BY <1>2, <2>1, <2>2, <2>3, <2>4, GoesOn DEF ApproveManual
<1>3. CASE TakeNumber(s)
  <2> DEFINE f == [tx[s] EXCEPT !.no = NextNumber(Year(tx[s].month))]
  <2>1. Year(tx[s].month) \in {ThisYear, 2}  BY MonthFacts
  <2> DEFINE n == NextNumber(Year(tx[s].month))
  <2>2. n = Len(numbers[Year(tx[s].month)]) + 1 /\ n \in Nat /\ n # 0  BY <2>1
  <2>3. f \in Transactions /\ f.no = Len(numbers[Year(f.month)]) + 1 /\ f.no # 0
    <3> HIDE DEF n
    <3>1. f.no = n /\ f.month = tx[s].month /\ f \in Transactions  BY <2>2 DEF Transactions, n
    <3> QED  BY <3>1, <2>2
  <2>4. TxFits([f EXCEPT !.at = "numbered"])
    BY <2>3 DEF TxFits, NumberedSteps, YearSteps, DraftSteps
  <2>5. "numbered" \in Steps /\ "numbered" \notin DraftSteps  BY DEF Steps, DraftSteps
  <2>6. Goto(s, "numbered", f)  BY <1>3 DEF TakeNumber
  <2> HIDE DEF f
  <2> QED  BY <1>3, <2>3, <2>4, <2>5, <2>6, GoesOn DEF TakeNumber
<1>4. CASE InsertEntry(s)
  <2>1. TxFits([tx[s] EXCEPT !.at = "checked"])
    BY <1>4 DEF InsertEntry, At, TxFits, NumberedSteps, YearSteps, DraftSteps, Transactions
  <2>2. "checked" \in Steps /\ "checked" \notin DraftSteps  BY DEF Steps, DraftSteps
  <2> QED  BY <1>4, <2>1, <2>2, GoesOn DEF InsertEntry, HoldsNumber
<1>5. CASE ReferencePeriod(s)
  <2>1. TxFits([tx[s] EXCEPT !.at = "inserted"])
    BY <1>5 DEF ReferencePeriod, At, TxFits, NumberedSteps, YearSteps, DraftSteps, Transactions
  <2>2. "inserted" \in Steps /\ "inserted" \notin DraftSteps  BY DEF Steps, DraftSteps
  <2> QED  BY <1>5, <2>1, <2>2, GoesOn DEF ReferencePeriod, HoldsNumber
<1>6. CASE InsertLines(s)
  <2> DEFINE f == [tx[s] EXCEPT !.sum = IF closing /\ tx[s].month <= YearEnd THEN Residual ELSE 0]
  <2>1. Residual \in Nat  BY DEF Residual
  <2>2. f \in Transactions /\ f.no = tx[s].no  BY <2>1 DEF Transactions
  <2>3. TxFits([f EXCEPT !.at = "booked"])
    BY <1>6 DEF InsertLines, At, TxFits, NumberedSteps, YearSteps, DraftSteps, Transactions
  <2>4. "booked" \in Steps /\ "booked" \notin DraftSteps  BY DEF Steps, DraftSteps
  <2>5. Goto(s, "booked", f)  BY <1>6 DEF InsertLines
  <2> HIDE DEF f
  <2> QED  BY <1>6, <2>2, <2>3, <2>4, <2>5, GoesOn DEF InsertLines, HoldsNumber
<1> QED  BY <1>1, <1>2, <1>3, <1>4, <1>5, <1>6 DEF Posting

LEMMA ClosingKeeps ==
    ASSUME PeriodsInv, NEW s \in Sessions, Closing(s), ~YearCommit(s)
    PROVE  PeriodsInv'
<1> USE Facts, MonthFacts
<1>1. ASSUME NEW m \in Months, NEW step \in {"close_checked", "reopen_locked", "lock_locked"},
             UNCHANGED <<status, filed, books>>, Goto(s, step, [Idle EXCEPT !.month = m])
      PROVE  PeriodsInv'
  <2> DEFINE f == [Idle EXCEPT !.month = m]
  <2>1. f \in Transactions /\ f.no = 0  BY IdleType DEF Transactions, Idle
  <2>2. TxFits([f EXCEPT !.at = step])
    BY DEF TxFits, NumberedSteps, YearSteps, DraftSteps, Idle
  <2>3. step \in Steps /\ step \notin DraftSteps  BY DEF Steps, DraftSteps
  <2>4. Goto(s, step, f)  BY <1>1
  <2> HIDE DEF f
  <2> QED  BY <1>1, <2>1, <2>2, <2>3, <2>4, GoesOn
<1>2. ASSUME NEW m \in Months, CloseChecks(s, m) \/ ReopenLoad(s, m) \/ LockLoad(s, m)
      PROVE  PeriodsInv'
  BY <1>1, <1>2 DEF CloseChecks, ReopenLoad, LockLoad
<1>3. CASE CloseLoad(s)
  <2>1. TxFits([tx[s] EXCEPT !.at = "close_locked"])
    BY <1>3 DEF CloseLoad, At, TxFits, NumberedSteps, YearSteps, DraftSteps, Transactions
  <2>2. "close_locked" \in Steps /\ "close_locked" \notin DraftSteps  BY DEF Steps, DraftSteps
  <2> QED  BY <1>3, <2>1, <2>2, GoesOn DEF CloseLoad, HoldsNumber
<1>4. CASE CloseCommit(s) \/ ReopenCommit(s) \/ LockCommit(s)
  <2>1. status' \in [Months -> {"open", "closed", "locked"}]
    BY <1>4 DEF CloseCommit, ReopenCommit, LockCommit
  <2> QED  BY <1>4, <2>1, Ends DEF CloseCommit, ReopenCommit, LockCommit
<1>5. CASE YearChecks(s)
  <2> DEFINE f == [Idle EXCEPT !.month = YearEnd]
  <2>1. f \in Transactions /\ f.no = 0  BY IdleType DEF Transactions, Idle
  <2>2. TxFits([f EXCEPT !.at = "year_checked"])
    BY DEF TxFits, NumberedSteps, YearSteps, DraftSteps, Idle
  <2>3. "year_checked" \in Steps /\ "year_checked" \notin DraftSteps  BY DEF Steps, DraftSteps
  <2>4. Goto(s, "year_checked", f)  BY <1>5 DEF YearChecks
  <2> HIDE DEF f
  <2> QED  BY <1>5, <2>1, <2>2, <2>3, <2>4, GoesOn DEF YearChecks
<1>6. CASE YearRead(s)
  <2> DEFINE f == [tx[s] EXCEPT !.sum = result]
  <2>1. f \in Transactions /\ f.no = 0 /\ f.month = YearEnd /\ f.sum = result
    BY <1>6 DEF YearRead, At, TxFits, NumberedSteps, YearSteps, Transactions
  <2>2. TxFits([f EXCEPT !.at = "year_read"])
    <3> HIDE DEF f
    <3> QED  BY <2>1 DEF TxFits, NumberedSteps, YearSteps, DraftSteps, Transactions
  <2>3. "year_read" \in Steps /\ "year_read" \notin DraftSteps  BY DEF Steps, DraftSteps
  <2>4. Goto(s, "year_read", f)  BY <1>6 DEF YearRead
  <2> HIDE DEF f
  <2> QED  BY <1>6, <2>1, <2>2, <2>3, <2>4, GoesOn DEF YearRead, HoldsNumber
<1>7. CASE YearPost(s)
  <2>1. tx[s].no = 0 /\ tx[s].month = YearEnd /\ tx[s].sum <= result
    BY <1>7 DEF YearPost, At, TxFits, NumberedSteps, YearSteps
  <2>2. "year_posted" \in Steps /\ "year_posted" \notin DraftSteps  BY DEF Steps, DraftSteps
  <2>3. UNCHANGED <<status, filed, books>>  BY <1>7 DEF YearPost
  <2>4. CASE tx[s].sum = 0 \/ closing
    <3> DEFINE f == [tx[s] EXCEPT !.sum = 0]
    <3>1. f \in Transactions /\ f.no = 0  BY <2>1 DEF Transactions
    <3>2. TxFits([f EXCEPT !.at = "year_posted"])
      BY <2>1 DEF TxFits, NumberedSteps, YearSteps, DraftSteps, Transactions
    <3>3. Goto(s, "year_posted", f)  BY <1>7, <2>4 DEF YearPost
    <3> HIDE DEF f
    <3> QED  BY <2>2, <2>3, <3>1, <3>2, <3>3, GoesOn
  <2>5. CASE ~(tx[s].sum = 0 \/ closing)
    <3> DEFINE n == NextNumber(ThisYear)
               f == [tx[s] EXCEPT !.no = n]
    <3>1. n = Len(numbers[Year(YearEnd)]) + 1 /\ n \in Nat /\ n # 0  OBVIOUS
    <3> HIDE DEF n
    <3>2. f \in Transactions /\ f.no = n /\ f.month = YearEnd /\ f.sum = tx[s].sum
      BY ZenonT(40), <2>1, <3>1 DEF Transactions
    <3>3. TxFits([f EXCEPT !.at = "year_posted"])
      BY <2>1, <2>5, <3>1, <3>2 DEF TxFits, NumberedSteps, YearSteps, DraftSteps, Transactions
    <3>4. Goto(s, "year_posted", f) /\ NumberFree(s)  BY <1>7, <2>5 DEF YearPost, n
    <3> HIDE DEF f
    <3> QED  BY <2>2, <2>3, <3>2, <3>3, <3>4, GoesOn
  <2> QED  BY <2>4, <2>5
<1> QED  BY <1>2, <1>3, <1>4, <1>5, <1>6, <1>7 DEF Closing

LEMMA FilingKeeps ==
    ASSUME PeriodsInv, NEW s \in Sessions, Filing(s), ~VatCommit(s)
    PROVE  PeriodsInv'
<1> USE Facts, MonthFacts
<1>1. CASE VatDue(s)
  <2> DEFINE f == [Idle EXCEPT !.month = ReturnTo]
  <2>1. f \in Transactions /\ f.no = 0  BY IdleType DEF Transactions, Idle
  <2>2. TxFits([f EXCEPT !.at = "vat_due"])
    BY DEF TxFits, NumberedSteps, YearSteps, DraftSteps, Idle
  <2>3. "vat_due" \in Steps /\ "vat_due" \notin DraftSteps  BY DEF Steps, DraftSteps
  <2>4. Goto(s, "vat_due", f)  BY <1>1 DEF VatDue
  <2> HIDE DEF f
  <2> QED  BY <1>1, <2>1, <2>2, <2>3, <2>4, GoesOn DEF VatDue
<1>2. CASE VatRead(s)
  <2> DEFINE f == [tx[s] EXCEPT !.sum = output]
  <2>1. f \in Transactions /\ f.no = 0 /\ f.month = ReturnTo /\ f.sum = output
    BY <1>2 DEF VatRead, At, TxFits, NumberedSteps, Transactions
  <2>2. TxFits([f EXCEPT !.at = "vat_read"])
    <3>1. ~filed  BY <1>2 DEF VatRead
    <3> HIDE DEF f
    <3> QED  BY <2>1, <3>1 DEF TxFits, NumberedSteps, YearSteps, DraftSteps, Transactions
  <2>3. "vat_read" \in Steps  BY DEF Steps
  <2>4. Goto(s, "vat_read", f) /\ \A t \in Sessions : ~HoldsDraft(t)  BY <1>2 DEF VatRead
  <2> HIDE DEF f
  <2> QED  BY <1>2, <2>1, <2>2, <2>3, <2>4, GoesOn DEF VatRead, HoldsNumber
<1>3. CASE VatNumber(s)
  <2>1. /\ tx[s].no = 0 /\ tx[s].month = ReturnTo /\ tx[s].sum <= output /\ ~filed /\ HoldsDraft(s)
    BY <1>3 DEF VatNumber, At, TxFits, NumberedSteps, DraftSteps, HoldsDraft
  <2>2. {"vat_posted", "vat_numbered"} \subseteq Steps  BY DEF Steps
  <2>3. UNCHANGED <<status, filed, books>>  BY <1>3 DEF VatNumber
  <2>4. CASE tx[s].sum = 0
    <3>1. TxFits([tx[s] EXCEPT !.at = "vat_posted"])
      BY <2>1 DEF TxFits, NumberedSteps, YearSteps, DraftSteps, Transactions
    <3>2. Goto(s, "vat_posted", tx[s])  BY <1>3, <2>4 DEF VatNumber
    <3> QED  BY <2>1, <2>2, <2>3, <3>1, <3>2, GoesOn
  <2>5. CASE tx[s].sum # 0
    <3> DEFINE n == NextNumber(Year(ReturnTo))
               f == [tx[s] EXCEPT !.no = n]
    <3>1. n = Len(numbers[Year(ReturnTo)]) + 1 /\ n \in Nat /\ n # 0
      <4>1. Year(ReturnTo) \in {ThisYear, 2}  OBVIOUS
      <4> QED  BY <4>1
    <3> HIDE DEF n
    <3>2. f \in Transactions /\ f.no = n /\ f.month = ReturnTo /\ f.sum = tx[s].sum
      BY ZenonT(40), <2>1, <3>1 DEF Transactions
    <3>3. TxFits([f EXCEPT !.at = "vat_numbered"])
      BY <2>1, <3>1, <3>2 DEF TxFits, NumberedSteps, YearSteps, DraftSteps, Transactions
    <3>4. Goto(s, "vat_numbered", f) /\ NumberFree(s)  BY <1>3, <2>5 DEF VatNumber, n
    <3> HIDE DEF f
    <3> QED  BY <2>1, <2>2, <2>3, <3>2, <3>3, <3>4, GoesOn
  <2> QED  BY <2>4, <2>5
<1>4. CASE VatInsert(s)
  <2>1. TxFits([tx[s] EXCEPT !.at = "vat_checked"])
    BY <1>4 DEF VatInsert, At, TxFits, NumberedSteps, YearSteps, DraftSteps, Transactions
  <2>2. "vat_checked" \in Steps /\ HoldsDraft(s)  BY <1>4 DEF VatInsert, At, Steps, HoldsDraft
  <2> QED  BY <1>4, <2>1, <2>2, GoesOn DEF VatInsert, HoldsNumber
<1>5. CASE VatReferencePeriod(s)
  <2>1. TxFits([tx[s] EXCEPT !.at = "vat_posted"])
    BY <1>5 DEF VatReferencePeriod, At, TxFits, NumberedSteps, YearSteps, DraftSteps, Transactions
  <2>2. "vat_posted" \in Steps /\ HoldsDraft(s)  BY <1>5 DEF VatReferencePeriod, At, Steps, HoldsDraft
  <2> QED  BY <1>5, <2>1, <2>2, GoesOn DEF VatReferencePeriod, HoldsNumber
<1> QED  BY <1>1, <1>2, <1>3, <1>4, <1>5 DEF Filing

-----------------------------------------------------------------------------
(* Commits.                                                                 *)

\* Numbers that run 1, 2, 3 ... go on with the next ones.
LEMMA NumbersGoOn ==
    ASSUME NEW q \in Seq(Nat \ {0}), \A i \in DOMAIN q : q[i] = i,
           NEW nos \in Seq(Nat \ {0}), \A i \in 1..Len(nos) : nos[i] = Len(q) + i
    PROVE  q \o nos \in Seq(Nat \ {0}) /\ \A i \in DOMAIN (q \o nos) : (q \o nos)[i] = i
<1> DEFINE r == q \o nos
<1>1. /\ r \in Seq(Nat \ {0}) /\ Len(r) = Len(q) + Len(nos)
      /\ \A i \in 1..Len(r) : r[i] = IF i <= Len(q) THEN q[i] ELSE nos[i - Len(q)]
  BY ConcatProperties
<1> HIDE DEF r
<1>2. Len(q) \in Nat /\ Len(nos) \in Nat /\ DOMAIN q = 1..Len(q) /\ DOMAIN r = 1..Len(r)  BY <1>1
<1>3. ASSUME NEW i \in 1..Len(r) PROVE r[i] = i
  <2> DEFINE k == Len(q)
             j == i - k
  <2>1. k \in Nat /\ i \in Nat /\ i >= 1 /\ i <= k + Len(nos)  BY <1>1, <1>2
  <2>2. CASE i <= k
    <3>1. i \in DOMAIN q  BY <2>1, <2>2, <1>2
    <3>2. q[i] = i  BY <3>1
    <3> QED  BY <2>2, <3>2, <1>1
  <2>3. CASE ~(i <= k)
    <3>1. j \in 1..Len(nos) /\ k + j = i  BY <2>1, <2>3, <1>2
    <3>2. nos[j] = k + j  BY <3>1
    <3>3. r[i] = nos[j]  BY <2>3, <1>1
    <3> QED  BY <3>1, <3>2, <3>3
  <2> QED  BY <2>2, <2>3
<1> QED  BY <1>1, <1>2, <1>3 DEF r

\* The numbers of a posting, without or with a refresh of the closed year.
LEMMA NewNumbers ==
    ASSUME NEW n \in Nat, NEW nos \in {<<n + 1>>, <<n + 1, n + 2>>}
    PROVE  nos \in Seq(Nat \ {0}) /\ \A i \in 1..Len(nos) : nos[i] = n + i
<1>1. CASE nos = <<n + 1>>
  <2>1. n + 1 \in Nat \ {0}  OBVIOUS
  <2>2. <<n + 1>> \in Seq(Nat \ {0}) /\ Len(<<n + 1>>) = 1 /\ <<n + 1>>[1] = n + 1  BY <2>1
  <2> QED  BY <1>1, <2>2
<1>2. CASE nos = <<n + 1, n + 2>>
  <2>1. n + 1 \in Nat \ {0} /\ n + 2 \in Nat \ {0}  OBVIOUS
  <2>2. /\ <<n + 1, n + 2>> \in Seq(Nat \ {0}) /\ Len(<<n + 1, n + 2>>) = 2
        /\ <<n + 1, n + 2>>[1] = n + 1 /\ <<n + 1, n + 2>>[2] = n + 2
    BY <2>1
  <2> QED  BY <1>2, <2>2
<1> QED  BY <1>1, <1>2

LEMMA NumbersAppended ==
    ASSUME PeriodsInv, NEW y \in {ThisYear, 2}, NEW n, n = Len(numbers[y]) + 1,
           NEW nos \in {<<n>>, <<n, n + 1>>}, numbers' = [numbers EXCEPT ![y] = @ \o nos]
    PROVE  numbers' \in [{ThisYear, 2} -> Seq(Nat \ {0})] /\ EntryNumbersRun'
<1>1. /\ numbers \in [{ThisYear, 2} -> Seq(Nat \ {0})]
      /\ \A i \in DOMAIN numbers[y] : numbers[y][i] = i
  BY DEF PeriodsInv, TypeOK, BooksFit, EntryNumbersRun
<1>2. /\ numbers[y] \o nos \in Seq(Nat \ {0})
      /\ \A i \in DOMAIN (numbers[y] \o nos) : (numbers[y] \o nos)[i] = i
  <2> DEFINE l == Len(numbers[y])
  <2>1. numbers[y] \in Seq(Nat \ {0}) /\ l \in Nat /\ n = l + 1 /\ n + 1 = l + 2  BY <1>1
  <2>2. nos \in Seq(Nat \ {0}) /\ \A i \in 1..Len(nos) : nos[i] = l + i
    <3> HIDE DEF l
    <3>1. <<n>> = <<l + 1>> /\ <<n, n + 1>> = <<l + 1, l + 2>>  BY <2>1
    <3>2. nos \in {<<l + 1>>, <<l + 1, l + 2>>}  BY <3>1
    <3> QED  BY <2>1, <3>2, NewNumbers
  <2> QED  BY <1>1, <2>1, <2>2, NumbersGoOn
<1>3. /\ numbers'[y] = numbers[y] \o nos /\ DOMAIN numbers' = {ThisYear, 2}
      /\ \A z \in {ThisYear, 2} \ {y} : numbers'[z] = numbers[z]
  BY <1>1
<1>4. EntryNumbersRun'
  <2> SUFFICES ASSUME NEW z \in {ThisYear, 2}, NEW i \in DOMAIN numbers'[z] PROVE numbers'[z][i] = i
    BY <1>3 DEF EntryNumbersRun
  <2>1. CASE z = y  BY <2>1, <1>2, <1>3
  <2>2. CASE z # y  BY <2>2, <1>1, <1>3 DEF PeriodsInv, BooksFit, EntryNumbersRun
  <2> QED  BY <2>1, <2>2
<1> QED  BY <1>1, <1>2, <1>4

\* The transaction that ends leaves the others as they are.
LEMMA EndOf ==
    ASSUME PeriodsInv, NEW s \in Sessions, End(s)
    PROVE  /\ tx' \in [Sessions -> Transactions] /\ tx'[s] = Idle
           /\ \A t \in Sessions \ {s} : tx'[t] = tx[t]
           /\ TxFits(tx[s])'
           /\ Alone'
<1>1. /\ tx' \in [Sessions -> Transactions] /\ tx'[s] = Idle
      /\ \A t \in Sessions \ {s} : tx'[t] = tx[t]
  BY IdleType DEF End, PeriodsInv, TypeOK
<1>2. TxFits(tx[s])'
  BY <1>1, IdleType DEF TxFits, NumberedSteps, YearSteps, DraftSteps
<1>3. Alone'
  BY <1>1, IdleType DEF PeriodsInv, Alone, HoldsNumber, HoldsDraft
<1> QED  BY <1>1, <1>2, <1>3

LEMMA CommitPostingKeeps ==
    ASSUME PeriodsInv, NEW s \in Sessions, CommitPosting(s)
    PROVE  /\ PeriodsInv'
           /\ closing /\ result' # result => carried' = result'
<1> USE Facts, MonthFacts
<1> DEFINE m == tx[s].month
           no == tx[s].no
<1>1. /\ no # 0 /\ no = Len(numbers[Year(m)]) + 1 /\ m \in Months
      /\ tx[s].sum = IF closing /\ m <= YearEnd THEN Residual ELSE 0
  BY DEF CommitPosting, At, TxFits, NumberedSteps
<1>2. \A t \in Sessions \ {s} : tx[t].no = 0
  BY <1>1 DEF PeriodsInv, Alone, HoldsNumber
<1>3. numbers' \in [{ThisYear, 2} -> Seq(Nat \ {0})] /\ EntryNumbersRun'
  <2>1. PICK nos \in {<<no>>, <<no, no + 1>>} : numbers' = [numbers EXCEPT ![Year(m)] = @ \o nos]
    BY DEF CommitPosting
  <2>2. Year(m) \in {ThisYear, 2}  BY <1>1
  <2> QED  BY <1>1, <2>1, <2>2, NumbersAppended
<1>4. /\ result' \in Nat /\ result' >= result /\ output' \in Nat /\ output' >= output
      /\ carried' = carried + tx[s].sum
      /\ result' = IF m <= YearEnd THEN result + 1 ELSE result
  <2>1. output' \in {output, output + 1}  BY DEF CommitPosting
  <2>2. result' = IF m <= YearEnd THEN result + 1 ELSE result  BY DEF CommitPosting
  <2>3. carried' = carried + tx[s].sum  BY DEF CommitPosting
  <2>4. result \in Nat /\ output \in Nat  OBVIOUS
  <2> HIDE DEF m
  <2> QED  BY <2>1, <2>2, <2>3, <2>4 
<1>5. /\ carried' \in Nat /\ carried' <= result' /\ (~closing => carried' = carried)
      /\ closing /\ result' # result => carried' = result'
  <2>1. CASE closing /\ m <= YearEnd
    <3>1. carried' = carried + (result + 1 - carried)  BY <2>1, <1>1, <1>4 DEF Residual
    <3> QED  BY SMTT(30), <2>1, <3>1, <1>4
  <2>2. CASE ~(closing /\ m <= YearEnd)
    <3>1. carried' = carried  BY <2>2, <1>1, <1>4
    <3> QED  BY SMTT(30), <2>2, <3>1, <1>4
  <2> QED  BY <2>1, <2>2
<1>6. TypeOK'
  BY <1>3, <1>4, <1>5, EndOf DEF CommitPosting, PeriodsInv, TypeOK
<1>7. TxsFit'
  <2> SUFFICES ASSUME NEW t \in Sessions, t # s PROVE TxFits(tx[t])'
    BY EndOf DEF TxsFit, CommitPosting
  <2>1. /\ tx'[t] = tx[t] /\ tx[t].no = 0 /\ tx[t].sum \in Nat /\ TxFits(tx[t])
        /\ filed' = filed /\ closing' = closing
    BY <1>2, EndOf DEF CommitPosting
  <2>2. tx[t].at \notin NumberedSteps /\ tx[t].at # "booked"  BY <2>1 DEF TxFits, NumberedSteps
  <2>3. result \in Nat /\ output \in Nat  OBVIOUS
  <2>4. tx[t].at \in {"year_read", "year_posted"} => tx[t].sum <= result'
    BY SMTT(30), <2>1, <2>3, <1>4 DEF TxFits
  <2>5. tx[t].at \in DraftSteps => ~filed' /\ tx[t].sum <= output'
    BY SMTT(30), <2>1, <2>3, <1>4 DEF TxFits
  <2>6. tx[t].at = "year_posted" => tx[t].sum = 0  BY <2>1 DEF TxFits
  <2> QED  BY <2>1, <2>2, <2>4, <2>5, <2>6 DEF TxFits
<1>8. BooksFit'
  BY <1>3, <1>4, <1>5 DEF CommitPosting, PeriodsInv, BooksFit, NothingClosedTwice, NothingAhead
<1> QED  BY <1>5, <1>6, <1>7, <1>8, EndOf DEF CommitPosting, PeriodsInv

\* Sequences of numbers are appended to or concatenated alike.
LEMMA AppendedIsJoined ==
    ASSUME NEW q \in Seq(Nat \ {0}), NEW x \in Nat \ {0}
    PROVE  Append(q, x) = q \o <<x>>
OBVIOUS

\* A transaction that goes on over books of which only what it does not depend on
\* has changed still fits them.
LEMMA FitsOn ==
    ASSUME NEW t \in Sessions, TxFits(tx[t]), tx'[t] = tx[t], UNCHANGED <<result, output>>,
           \/ UNCHANGED <<numbers, carried, closing>>
           \/ tx[t].no = 0 /\ tx[t].at # "booked",
           filed' = filed \/ tx[t].at \notin DraftSteps
    PROVE  TxFits(tx[t])'
<1> DEFINE f == tx[t]
<1>1. f' = f /\ result' = result /\ output' = output  OBVIOUS
<1> HIDE DEF f
<1>2. TxFits(f)  BY DEF f
<1>3. f'.at \in DraftSteps => ~filed' /\ f'.sum <= output'  BY <1>1, <1>2 DEF TxFits, f
<1>4. CASE UNCHANGED <<numbers, carried, closing>>
  <2>1. Residual' = Residual  BY <1>1, <1>4 DEF Residual
  <2> QED  BY <1>1, <1>2, <1>3, <1>4, <2>1 DEF TxFits, f
<1>5. CASE f.no = 0 /\ f.at # "booked"
  BY <1>1, <1>2, <1>3, <1>5 DEF TxFits, f
<1> QED  BY <1>4, <1>5 DEF f

LEMMA YearCommitKeeps ==
    ASSUME PeriodsInv, NEW s \in Sessions, YearCommit(s)
    PROVE  PeriodsInv'
<1> USE Facts, MonthFacts
<1> DEFINE no == tx[s].no
<1>1. /\ no # 0 => no = Len(numbers[ThisYear]) + 1 /\ ~closing
      /\ no = 0 => tx[s].sum = 0
      /\ tx[s].sum <= result
  <2>1. TxFits(tx[s]) /\ tx[s].at = "year_posted"  BY DEF YearCommit, At
  <2>2. tx[s].month = YearEnd  BY <2>1 DEF TxFits, YearSteps
  <2>3. Year(YearEnd) = ThisYear  OBVIOUS
  <2> QED  BY <2>1, <2>2, <2>3 DEF TxFits
<1>2. /\ status' \in [Months -> {"open", "closed", "locked"}] /\ closing' = (closing \/ no # 0)
      /\ carried' = carried + tx[s].sum /\ UNCHANGED <<filed, result, output, settled>>
  BY DEF YearCommit, HoldsNumber
<1>3. carried' \in Nat /\ carried' <= result /\ (~closing' => carried' = 0)
  <2> DEFINE sum == tx[s].sum
  <2>1. carried \in Nat /\ result \in Nat /\ sum \in Nat /\ carried <= result /\ (~closing => carried = 0)
    BY DEF PeriodsInv, TypeOK, BooksFit, NothingClosedTwice, NothingAhead
  <2>2. CASE no = 0
    <3>1. carried' = carried + 0 /\ (closing' <=> closing)  BY <2>2, <1>1, <1>2
    <3>2. carried' = carried  BY <3>1, <2>1
    <3> QED  BY <3>1, <3>2, <2>1
  <2>3. CASE no # 0
    <3>1. carried = 0 /\ closing'  BY <2>1, <2>3, <1>1, <1>2
    <3>2. carried' = 0 + sum /\ sum <= result  BY <3>1, <1>1, <1>2
    <3> HIDE DEF sum
    <3> QED  BY <3>1, <3>2, <2>1
  <2> QED  BY <2>2, <2>3
<1>4. numbers' \in [{ThisYear, 2} -> Seq(Nat \ {0})] /\ EntryNumbersRun'
  <2>1. CASE no = 0
    <3>1. numbers' = numbers  BY <2>1 DEF YearCommit, HoldsNumber
    <3> QED  BY <3>1 DEF PeriodsInv, TypeOK, BooksFit, EntryNumbersRun
  <2>2. CASE no # 0
    <3>1. numbers' = [numbers EXCEPT ![ThisYear] = Append(@, no)]  BY <2>2 DEF YearCommit, HoldsNumber
    <3>2. Append(numbers[ThisYear], no) = numbers[ThisYear] \o <<no>>
      <4>1. numbers[ThisYear] \in Seq(Nat \ {0}) /\ no \in Nat \ {0}  BY <2>2
      <4> HIDE DEF no
      <4> QED  BY <4>1, AppendedIsJoined
    <3>3. numbers' = [numbers EXCEPT ![ThisYear] = @ \o <<no>>]  BY <3>1, <3>2
    <3> QED  BY <3>3, <2>2, <1>1, NumbersAppended
  <2> QED  BY <2>1, <2>2
<1>5. TypeOK'
  BY <1>2, <1>3, <1>4, EndOf DEF YearCommit, PeriodsInv, TypeOK
<1>6. TxsFit'
  <2> SUFFICES ASSUME NEW t \in Sessions, t # s PROVE TxFits(tx[t])'
    BY EndOf DEF TxsFit, YearCommit
  <2>1. tx'[t] = tx[t] /\ TxFits(tx[t])  BY EndOf DEF YearCommit
  <2>2. CASE no = 0
    <3>1. numbers' = numbers  BY <2>2 DEF YearCommit, HoldsNumber
    <3>2. carried' = carried
      <4>1. carried' = carried + 0 /\ carried \in Nat  BY <2>2, <1>1, <1>2 DEF PeriodsInv, TypeOK
      <4> QED  BY <4>1
    <3>3. closing' = closing  BY <2>2, <1>2 DEF PeriodsInv, TypeOK
    <3> QED  BY <2>1, <3>1, <3>2, <3>3, <1>2, FitsOn
  <2>3. CASE no # 0
    <3>1. tx[t].no = 0
      BY <2>1, <2>3 DEF PeriodsInv, Alone, HoldsNumber
    <3>2. tx[t].at # "booked"  BY <2>1, <3>1 DEF TxFits, NumberedSteps
    <3> QED  BY <2>1, <3>1, <3>2, <1>2, FitsOn
  <2> QED  BY <2>2, <2>3
<1>7. BooksFit'
  BY <1>2, <1>3, <1>4 DEF PeriodsInv, BooksFit, NothingClosedTwice, NothingAhead
<1> QED  BY <1>5, <1>6, <1>7, EndOf DEF YearCommit, PeriodsInv

LEMMA VatCommitKeeps ==
    ASSUME PeriodsInv, NEW s \in Sessions, VatCommit(s)
    PROVE  PeriodsInv'
<1> USE Facts, MonthFacts
<1> DEFINE no == tx[s].no
<1>1. /\ no # 0 => no = Len(numbers[Year(ReturnTo)]) + 1
      /\ tx[s].sum <= output /\ ~filed /\ HoldsDraft(s)
  BY DEF VatCommit, At, TxFits, DraftSteps, HoldsDraft
<1>2. /\ UNCHANGED <<status, result, carried, closing, output>> /\ filed' = TRUE
      /\ settled' = settled + tx[s].sum
  BY DEF VatCommit
<1>3. settled' \in Nat /\ settled' <= output
  <2>1. settled = 0  BY <1>1 DEF PeriodsInv, BooksFit, NothingAhead
  <2> QED  BY <2>1, <1>1, <1>2
<1>4. numbers' \in [{ThisYear, 2} -> Seq(Nat \ {0})] /\ EntryNumbersRun'
  <2>1. CASE no = 0
    <3>1. numbers' = numbers  BY <2>1 DEF VatCommit, HoldsNumber
    <3> QED  BY <3>1 DEF PeriodsInv, TypeOK, BooksFit, EntryNumbersRun
  <2>2. CASE no # 0
    <3> DEFINE y == Year(ReturnTo)
    <3>1. y \in {ThisYear, 2}  OBVIOUS
    <3>2. numbers' = [numbers EXCEPT ![y] = Append(@, no)]  BY <2>2 DEF VatCommit, HoldsNumber
    <3>3. Append(numbers[y], no) = numbers[y] \o <<no>>
      <4>1. numbers[y] \in Seq(Nat \ {0}) /\ no \in Nat \ {0}  BY <2>2, <3>1
      <4> HIDE DEF no, y
      <4> QED  BY <4>1, AppendedIsJoined
    <3>4. numbers' = [numbers EXCEPT ![y] = @ \o <<no>>]  BY <3>2, <3>3
    <3> QED  BY <3>1, <3>4, <2>2, <1>1, NumbersAppended
  <2> QED  BY <2>1, <2>2
<1>5. TypeOK'
  BY <1>2, <1>3, <1>4, EndOf DEF VatCommit, PeriodsInv, TypeOK
<1>6. TxsFit'
  <2> SUFFICES ASSUME NEW t \in Sessions, t # s PROVE TxFits(tx[t])'
    BY EndOf DEF TxsFit, VatCommit
  <2>1. tx'[t] = tx[t] /\ TxFits(tx[t])  BY EndOf DEF VatCommit
  <2>2. tx[t].at \notin DraftSteps  BY <1>1 DEF PeriodsInv, Alone, HoldsDraft, DraftSteps
  <2>3. CASE no = 0
    <3>1. numbers' = numbers  BY <2>3 DEF VatCommit, HoldsNumber
    <3> QED  BY <2>1, <2>2, <3>1, <1>2, FitsOn
  <2>4. CASE no # 0
    <3>1. tx[t].no = 0 /\ tx[t].at # "booked"
      BY <2>1, <2>4 DEF PeriodsInv, Alone, HoldsNumber, TxFits, NumberedSteps
    <3> QED  BY <2>1, <2>2, <3>1, <1>2, FitsOn
  <2> QED  BY <2>3, <2>4
<1>7. BooksFit'
  BY <1>2, <1>3, <1>4 DEF PeriodsInv, BooksFit, NothingClosedTwice, NothingAhead
<1> QED  BY <1>5, <1>6, <1>7, EndOf DEF VatCommit, PeriodsInv

LEMMA NextPeriods ==
    PeriodsInv /\ [Next]_vars => PeriodsInv' /\ (closing /\ result' # result => carried' = result')
<1> SUFFICES ASSUME PeriodsInv, [Next]_vars
             PROVE  PeriodsInv' /\ (closing /\ result' # result => carried' = result')
  OBVIOUS
<1>1. CASE UNCHANGED vars
  <2>1. PeriodsInv' <=> PeriodsInv
    BY <1>1 DEF vars, books, PeriodsInv, TypeOK, TxsFit, TxFits, Residual, Year, Alone, HoldsNumber, HoldsDraft,
                BooksFit, EntryNumbersRun, NothingClosedTwice, NothingAhead
  <2> QED  BY <1>1, <2>1 DEF vars, books
<1>2. ASSUME NEW s \in Sessions, Posting(s) \/ Closing(s) \/ Filing(s) \/ Rollback(s)
      PROVE  PeriodsInv' /\ (closing /\ result' # result => carried' = result')
  <2>1. CASE CommitPosting(s)  BY <2>1, CommitPostingKeeps
  <2>2. CASE ~CommitPosting(s)
    <3>1. result' = result
      BY <1>2, <2>2 DEF Posting, Closing, Filing, Rollback, RouteEvent, ApproveManual, TakeNumber, InsertEntry,
         ReferencePeriod, InsertLines, CloseChecks, CloseLoad, CloseCommit, ReopenLoad, ReopenCommit, LockLoad,
         LockCommit, YearChecks, YearRead, YearPost, YearCommit, VatDue, VatRead, VatNumber, VatInsert,
         VatReferencePeriod, VatCommit, books
    <3>2. CASE Posting(s)  BY <3>2, <2>2, PostingKeeps, <3>1
    <3>3. CASE Closing(s)  BY <3>3, ClosingKeeps, YearCommitKeeps, <3>1
    <3>4. CASE Filing(s)  BY <3>4, FilingKeeps, VatCommitKeeps, <3>1
    <3>5. CASE Rollback(s)
      <4>1. status' \in [Months -> {"open", "closed", "locked"}]
        BY <3>5 DEF Rollback, PeriodsInv, TypeOK
      <4> QED  BY <3>5, <4>1, Ends, <3>1 DEF Rollback
    <3> QED  BY <1>2, <3>2, <3>3, <3>4, <3>5
  <2> QED  BY <2>1, <2>2
<1> QED  BY <1>1, <1>2 DEF Next

-----------------------------------------------------------------------------
(* Row locks.                                                               *)

UpdateSteps == {"close_locked", "reopen_locked", "lock_locked", "year_read", "year_posted"}

ShareSteps == {"inserted", "booked", "vat_posted"}

\* A period locked FOR UPDATE is locked by nobody else.
LocksExclude ==
    \A s, t \in Sessions : s # t =>
        \A m \in Months : ~(ForUpdate(s, m) /\ (ForUpdate(t, m) \/ KeyShare(t, m)))

LEMMA LocksKept ==
    ASSUME LocksExclude, NEW s \in Sessions, \A t \in Sessions \ {s} : tx'[t] = tx[t],
           \A m \in Months : ForUpdate(s, m)' => ForUpdate(s, m) \/ Lockable(s, m),
           \A m \in Months : KeyShare(s, m)' => KeyShare(s, m) \/ Shareable(s, m)
    PROVE  LocksExclude'
<1> SUFFICES ASSUME NEW t \in Sessions, NEW u \in Sessions, t # u, NEW m \in Months,
                    ForUpdate(t, m)', ForUpdate(u, m)' \/ KeyShare(u, m)'
             PROVE  FALSE
  BY DEF LocksExclude
<1>1. \A v \in Sessions \ {s} : (ForUpdate(v, m)' <=> ForUpdate(v, m)) /\ (KeyShare(v, m)' <=> KeyShare(v, m))
  BY DEF ForUpdate, KeyShare, HoldsNumber, At
<1>2. CASE t = s  BY <1>1, <1>2 DEF LocksExclude, Lockable
<1>3. CASE u = s
  <2>1. t \in Sessions \ {s} /\ ForUpdate(t, m)  BY <1>1, <1>3
  <2>2. ~Shareable(s, m) /\ ~Lockable(s, m)  BY <2>1 DEF Shareable, Lockable
  <2>3. ForUpdate(s, m) \/ KeyShare(s, m)  BY <1>3, <2>2
  <2> QED  BY <2>1, <2>3 DEF LocksExclude
<1>4. CASE t # s /\ u # s  BY <1>1, <1>4 DEF LocksExclude
<1> QED  BY <1>2, <1>3, <1>4

\* A statement that takes what lock its step holds keeps the locks apart.
LEMMA LockStep ==
    ASSUME PeriodsInv, LocksExclude, NEW s \in Sessions, NEW f, NEW step, Goto(s, step, f),
           {"at", "month", "no", "sum"} \subseteq DOMAIN f,
           step \in UpdateSteps => Lockable(s, f.month) \/ ForUpdate(s, f.month),
           step \in ShareSteps /\ f.no # 0 => Shareable(s, f.month) \/ KeyShare(s, f.month),
           step = "booked" /\ f.sum # 0 => Shareable(s, YearEnd)
    PROVE  LocksExclude'
<1>1. tx' = [tx EXCEPT ![s] = [f EXCEPT !.at = step]] /\ s \in DOMAIN tx
  BY DEF Goto, PeriodsInv, TypeOK
<1>2. /\ tx'[s].at = step /\ tx'[s].month = f.month /\ tx'[s].no = f.no /\ tx'[s].sum = f.sum
      /\ \A t \in Sessions \ {s} : tx'[t] = tx[t]
  BY <1>1
<1>3. ASSUME NEW m \in Months, ForUpdate(s, m)' PROVE ForUpdate(s, m) \/ Lockable(s, m)
  <2>1. step \in UpdateSteps /\ f.month = m  BY <1>2, <1>3 DEF ForUpdate, UpdateSteps
  <2> QED  BY <2>1
<1>4. ASSUME NEW m \in Months, KeyShare(s, m)' PROVE KeyShare(s, m) \/ Shareable(s, m)
  <2>1. \/ f.month = m /\ f.no # 0 /\ step \in ShareSteps
        \/ YearEnd = m /\ step = "booked" /\ f.sum # 0
    BY <1>2, <1>4 DEF KeyShare, HoldsNumber, At, ShareSteps
  <2> QED  BY <2>1
<1> QED  BY <1>2, <1>3, <1>4, LocksKept

LEMMA LocksOfPosting ==
    ASSUME PeriodsInv, LocksExclude, NEW s \in Sessions, Posting(s), ~CommitPosting(s)
    PROVE  LocksExclude'
<1> USE DEF UpdateSteps, ShareSteps
<1>1. {"at", "month", "no", "sum"} \subseteq DOMAIN tx[s] /\ {"at", "month", "no", "sum"} \subseteq DOMAIN Idle
  BY Facts DEF Transactions, Idle
<1>2. ASSUME NEW due \in Months, NEW vat \in BOOLEAN, RouteEvent(s, due, vat) PROVE LocksExclude'
  BY <1>1, <1>2, LockStep DEF RouteEvent
<1>3. ASSUME NEW m \in Months, ApproveManual(s, m) PROVE LocksExclude'
  BY <1>1, <1>3, LockStep DEF ApproveManual
<1>4. CASE TakeNumber(s)  BY <1>1, <1>4, LockStep DEF TakeNumber
<1>5. CASE InsertEntry(s)  BY <1>1, <1>5, LockStep DEF InsertEntry
<1>6. CASE ReferencePeriod(s)  BY <1>1, <1>6, LockStep DEF ReferencePeriod
<1>7. CASE InsertLines(s)
  <2> DEFINE carry == IF closing /\ tx[s].month <= YearEnd THEN Residual ELSE 0
             f == [tx[s] EXCEPT !.sum = carry]
  <2>1. Goto(s, "booked", f) /\ (carry # 0 => Shareable(s, YearEnd))  BY <1>7 DEF InsertLines
  <2>2. f.no = tx[s].no /\ f.month = tx[s].month /\ f.sum = carry /\ DOMAIN f = DOMAIN tx[s]  BY <1>1
  <2>3. f.no # 0 => KeyShare(s, f.month)  BY <1>7, <2>2 DEF InsertLines, At, KeyShare, HoldsNumber
  <2> HIDE DEF f, carry
  <2> QED  BY <1>1, <2>1, <2>2, <2>3, LockStep
<1> QED  BY <1>2, <1>3, <1>4, <1>5, <1>6, <1>7 DEF Posting

LEMMA LocksOfClosing ==
    ASSUME PeriodsInv, LocksExclude, NEW s \in Sessions, Closing(s),
           ~(CloseCommit(s) \/ ReopenCommit(s) \/ LockCommit(s) \/ YearCommit(s))
    PROVE  LocksExclude'
<1> USE DEF UpdateSteps, ShareSteps
<1>1. /\ {"at", "month", "no", "sum"} \subseteq DOMAIN tx[s]
      /\ {"at", "month", "no", "sum"} \subseteq DOMAIN Idle
      /\ TxFits(tx[s])
  BY Facts DEF Transactions, Idle
<1>2. ASSUME NEW m \in Months, CloseChecks(s, m) PROVE LocksExclude'
  BY <1>1, <1>2, LockStep DEF CloseChecks
<1>3. ASSUME NEW m \in Months, ReopenLoad(s, m) \/ LockLoad(s, m) PROVE LocksExclude'
  <2> DEFINE f == [Idle EXCEPT !.month = m]
  <2>1. PICK step \in {"reopen_locked", "lock_locked"} : Goto(s, step, f) /\ Lockable(s, m)
    BY <1>3 DEF ReopenLoad, LockLoad
  <2>2. f.month = m /\ DOMAIN f = DOMAIN Idle  BY <1>1
  <2> HIDE DEF f
  <2> QED  BY <1>1, <2>1, <2>2, LockStep
<1>4. CASE CloseLoad(s)  BY <1>1, <1>4, LockStep DEF CloseLoad
<1>5. CASE YearChecks(s)  BY <1>1, <1>5, LockStep DEF YearChecks
<1>6. CASE YearRead(s)
  <2> DEFINE f == [tx[s] EXCEPT !.sum = result]
  <2>1. Goto(s, "year_read", f) /\ Lockable(s, YearEnd) /\ tx[s].month = YearEnd
    BY <1>1, <1>6 DEF YearRead, At, TxFits, YearSteps
  <2>2. f.month = tx[s].month /\ DOMAIN f = DOMAIN tx[s]  BY <1>1
  <2> HIDE DEF f
  <2> QED  BY <1>1, <2>1, <2>2, LockStep
<1>7. CASE YearPost(s)
  <2>1. PICK f : Goto(s, "year_posted", f) /\ DOMAIN f = DOMAIN tx[s] /\ f.month = tx[s].month
    <3>1. CASE tx[s].sum = 0 \/ closing
      <4> DEFINE f == [tx[s] EXCEPT !.sum = 0]
      <4>1. Goto(s, "year_posted", f) /\ DOMAIN f = DOMAIN tx[s] /\ f.month = tx[s].month
        BY <1>1, <1>7, <3>1 DEF YearPost
      <4> QED  BY <4>1
    <3>2. CASE ~(tx[s].sum = 0 \/ closing)
      <4> DEFINE f == [tx[s] EXCEPT !.no = NextNumber(ThisYear)]
      <4>1. Goto(s, "year_posted", f) /\ DOMAIN f = DOMAIN tx[s] /\ f.month = tx[s].month
        BY <1>1, <1>7, <3>2 DEF YearPost
      <4> QED  BY <4>1
    <3> QED  BY <3>1, <3>2
  <2>2. ForUpdate(s, tx[s].month)  BY <1>7 DEF YearPost, At, ForUpdate
  <2> QED  BY <1>1, <2>1, <2>2, LockStep
<1> QED  BY <1>2, <1>3, <1>4, <1>5, <1>6, <1>7 DEF Closing

LEMMA LocksOfFiling ==
    ASSUME PeriodsInv, LocksExclude, NEW s \in Sessions, Filing(s), ~VatCommit(s)
    PROVE  LocksExclude'
<1> USE DEF UpdateSteps, ShareSteps
<1>1. /\ {"at", "month", "no", "sum"} \subseteq DOMAIN tx[s]
      /\ {"at", "month", "no", "sum"} \subseteq DOMAIN Idle
      /\ TxFits(tx[s])
  BY Facts DEF Transactions, Idle
<1>2. CASE VatDue(s)  BY <1>1, <1>2, LockStep DEF VatDue
<1>3. CASE VatRead(s)  BY <1>1, <1>3, LockStep DEF VatRead
<1>4. CASE VatNumber(s)
  <2>1. CASE tx[s].sum = 0
    <3>1. tx[s].no = 0  BY <1>1, <1>4 DEF VatNumber, At, TxFits, NumberedSteps
    <3> QED  BY <1>1, <1>4, <2>1, <3>1, LockStep DEF VatNumber
  <2>2. CASE tx[s].sum # 0  BY <1>1, <1>4, <2>2, LockStep DEF VatNumber
  <2> QED  BY <2>1, <2>2
<1>5. CASE VatInsert(s)  BY <1>1, <1>5, LockStep DEF VatInsert
<1>6. CASE VatReferencePeriod(s)
  <2>1. tx[s].month = ReturnTo  BY <1>1, <1>6 DEF VatReferencePeriod, At, TxFits, DraftSteps
  <2> QED  BY <1>1, <1>6, <2>1, LockStep DEF VatReferencePeriod
<1> QED  BY <1>2, <1>3, <1>4, <1>5, <1>6 DEF Filing

\* The transaction that ends gives its locks up.
LEMMA LocksOfEnd ==
    ASSUME PeriodsInv, LocksExclude, NEW s \in Sessions, End(s)
    PROVE  LocksExclude'
<1>1. tx'[s] = Idle /\ \A t \in Sessions \ {s} : tx'[t] = tx[t]  BY EndOf
<1>2. \A m \in Months : ~ForUpdate(s, m)' /\ ~KeyShare(s, m)'
  BY <1>1, IdleType DEF ForUpdate, KeyShare, HoldsNumber, At
<1> QED  BY <1>1, <1>2, LocksKept

LEMMA NextLocks == PeriodsInv /\ LocksExclude /\ [Next]_vars => LocksExclude'
<1> SUFFICES ASSUME PeriodsInv, LocksExclude, [Next]_vars PROVE LocksExclude'  OBVIOUS
<1>1. CASE UNCHANGED vars
  BY <1>1 DEF vars, LocksExclude, ForUpdate, KeyShare, HoldsNumber, At
<1>2. ASSUME NEW s \in Sessions, Posting(s) \/ Closing(s) \/ Filing(s) \/ Rollback(s)
      PROVE  LocksExclude'
  <2>1. CASE End(s)  BY <2>1, LocksOfEnd
  <2>2. CASE ~End(s)
    BY <1>2, <2>2, LocksOfPosting, LocksOfClosing, LocksOfFiling
    DEF CommitPosting, CloseCommit, ReopenCommit, LockCommit, YearCommit, VatCommit, Rollback
  <2> QED  BY <2>1, <2>2
<1> QED  BY <1>1, <1>2 DEF Next

\* The statement that closes or locks a month holds its row FOR UPDATE.
LEMMA CloserHoldsTheMonth ==
    ASSUME PeriodsInv, [Next]_vars, NEW m \in Months, status'[m] # status[m]
    PROVE  \E s \in Sessions : ForUpdate(s, m)
<1>1. PICK s \in Sessions : Posting(s) \/ Closing(s) \/ Filing(s) \/ Rollback(s)  BY DEF Next, vars
<1>2. PICK n, st : status' = [status EXCEPT ![n] = st] /\ ForUpdate(s, n)
  <2>1. CASE CloseCommit(s)  BY <2>1 DEF CloseCommit, ForUpdate, At
  <2>2. CASE ReopenCommit(s)  BY <2>2 DEF ReopenCommit, ForUpdate, At
  <2>3. CASE LockCommit(s)  BY <2>3 DEF LockCommit, ForUpdate, At
  <2>4. CASE YearCommit(s)
    <3>1. tx[s].month = YearEnd  BY <2>4, Facts DEF YearCommit, At, TxFits, YearSteps
    <3> QED  BY <2>4, <3>1 DEF YearCommit, ForUpdate, At
  <2>5. CASE ~(CloseCommit(s) \/ ReopenCommit(s) \/ LockCommit(s) \/ YearCommit(s))
    <3>1. status' = status
      BY <1>1, <2>5
      DEF Posting, Closing, Filing, Rollback, RouteEvent, ApproveManual, TakeNumber, InsertEntry,
          ReferencePeriod, InsertLines, CommitPosting, CloseChecks, CloseLoad, ReopenLoad, LockLoad,
          YearChecks, YearRead, YearPost, VatDue, VatRead, VatNumber, VatInsert, VatReferencePeriod, VatCommit
    <3> QED  BY <3>1
  <2> QED  BY <2>1, <2>2, <2>3, <2>4, <2>5
<1>3. n = m  BY <1>2, Facts
<1> QED  BY <1>2, <1>3

-----------------------------------------------------------------------------
(* Theorems.                                                                *)

\* The inductive invariant of the periods: types, what the transactions under
\* way have read, the holders of the number and the draft, and the books.
THEOREM PeriodsInvariant == Spec => []PeriodsInv
<1>1. PeriodsInv /\ [Next]_vars => PeriodsInv'  BY NextPeriods
<1> QED  BY <1>1, InitPeriods, PTL DEF Spec

\* Every month, number, sum and transaction keeps its type; in particular the
\* residual a refresh carries is never negative.
THEOREM PeriodsTypeCorrect == Spec => []TypeOK
<1>1. PeriodsInv => TypeOK  BY DEF PeriodsInv
<1> QED  BY <1>1, PeriodsInvariant, PTL

\* The entry numbers of a fiscal year run without gap or repetition, however
\* many sessions post, close and file and whichever of them roll back
\* (journal.repository.ts, max + 1 under the advisory lock).
THEOREM NumbersCorrect == Spec => []EntryNumbersRun
<1>1. PeriodsInv => EntryNumbersRun  BY DEF PeriodsInv, BooksFit
<1> QED  BY <1>1, PeriodsInvariant, PTL

\* Neither the year end nor its refreshes carry revenue twice, and no VAT is
\* settled twice.
THEOREM ClosedOnceCorrect == Spec => []NothingClosedTwice
<1>1. PeriodsInv => NothingClosedTwice  BY DEF PeriodsInv, BooksFit
<1> QED  BY <1>1, PeriodsInvariant, PTL

\* An entry in a closed year leaves it with nothing to carry, whatever the
\* closing entry had overlooked (refreshYearClose).
THEOREM RefreshCorrect == Spec => RefreshCarriesTheYear
<1>1. PeriodsInv /\ [Next]_vars => [closing /\ result' # result => carried' = result']_vars
  BY NextPeriods
<1> QED  BY <1>1, PeriodsInvariant, PTL DEF Spec, RefreshCarriesTheYear

\* No entry inserted in a month is still to commit when the month closes: the
\* foreign key's FOR KEY SHARE and the close's FOR UPDATE exclude each other.
THEOREM CloseSeesAllCorrect == Spec => CloseSeesAllEntries
<1>1. Init => LocksExclude
  BY IdleType DEF Init, LocksExclude, ForUpdate
<1>2. PeriodsInv /\ LocksExclude /\ [Next]_vars =>
        [\A m \in Months : status[m] = "open" /\ status'[m] # "open" =>
            \A s \in Sessions : tx[s].at \in {"inserted", "booked"} => tx[s].month # m]_vars
  <2> SUFFICES ASSUME PeriodsInv, LocksExclude, [Next]_vars, NEW m \in Months, status'[m] # status[m],
                      NEW s \in Sessions, tx[s].at \in {"inserted", "booked"}, tx[s].month = m
               PROVE  FALSE
    OBVIOUS
  <2>1. PICK t \in Sessions : ForUpdate(t, m)  BY CloserHoldsTheMonth
  <2>2. KeyShare(s, m)  BY Facts DEF TxFits, NumberedSteps, KeyShare, HoldsNumber
  <2>3. s # t  BY <2>1 DEF ForUpdate
  <2> QED  BY <2>1, <2>2, <2>3 DEF LocksExclude
<1> QED  BY <1>1, <1>2, NextLocks, PeriodsInvariant, PTL DEF Spec, CloseSeesAllEntries

=============================================================================
