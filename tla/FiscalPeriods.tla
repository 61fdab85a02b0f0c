--------------------------- MODULE FiscalPeriods ---------------------------
(***************************************************************************)
(* Fiscal periods against concurrent postings: monthly close, reopen and   *)
(* lock, the year-end close, the lock of a VAT return, and the postings    *)
(* that are routed to, numbered for and inserted into a month meanwhile.   *)
(* Every request and every posted event is one database transaction at     *)
(* READ COMMITTED; a step of the model is one of its statements, and a     *)
(* statement sees what other transactions have committed.                  *)
(*                                                                         *)
(*   status    fiscal_periods.status of the months 1 .. LastMonth, the     *)
(*             last of which is still running                              *)
(*   filed     the VAT return of the months Return is locked               *)
(*   numbers   the entry numbers committed in each fiscal year, in the     *)
(*             order of their commits                                      *)
(*   result    revenue booked in the year that ends with YearEnd           *)
(*   carried   what its closing entries have moved to retained earnings    *)
(*   closing   its closing entry is in the journal                         *)
(*   output    VAT booked in the months of the return                      *)
(*   settled   what the return's settlement entry (E37) has cleared        *)
(*   tx        the transaction under way in each database session          *)
(*                                                                         *)
(* Every posting books one unit of revenue, and one of VAT if it bears     *)
(* VAT.  Locks are read off tx: the entry-number advisory lock is held     *)
(* from the number's choice to the end of the transaction; load(.., true)  *)
(* takes a period's row FOR UPDATE; the foreign key of an inserted entry   *)
(* takes it FOR KEY SHARE, which waits for FOR UPDATE and which FOR UPDATE *)
(* waits for.                                                              *)
(***************************************************************************)
EXTENDS Naturals, Sequences, FiniteSets, FiniteSetsExt

CONSTANTS
    Sessions,      \* database sessions: workers and requests
    LastMonth,     \* the running month
    YearEnd,       \* period 12 of the fiscal year
    ReturnFrom,    \* the months of the VAT return
    ReturnTo,
    MaxEntries     \* bound: postings

ASSUME PeriodsAssumption ==
    /\ LastMonth \in Nat /\ YearEnd \in 1..(LastMonth - 1)
    /\ ReturnTo \in 1..(LastMonth - 1) /\ ReturnFrom \in 1..ReturnTo
    /\ MaxEntries \in Nat

VARIABLES status, filed, numbers, result, carried, closing, output, settled, tx

books == <<numbers, result, carried, closing, output, settled>>

vars == <<status, filed, books, tx>>

Months == 1..LastMonth

Return == ReturnFrom..ReturnTo

ThisYear == 1

\* The fiscal year of a month, as entry numbers count it (JV-<year>-...).
Year(m) == IF m <= YearEnd THEN ThisYear ELSE 2

Idle == [at |-> "idle", op |-> "none", due |-> 1, month |-> 1, vat |-> FALSE, no |-> 0, sum |-> 0]

Steps == {"idle", "routed", "numbered", "checked", "inserted", "booked",
          "close_checked", "close_locked", "reopen_locked", "lock_locked",
          "year_checked", "year_read", "year_posted",
          "vat_due", "vat_read", "vat_numbered", "vat_checked", "vat_posted"}

Transactions == [at : Steps, op : {"none", "auto", "manual"}, due : Months, month : Months,
                 vat : BOOLEAN, no : Nat, sum : Nat]

TypeOK ==
    /\ status \in [Months -> {"open", "closed", "locked"}]
    /\ filed \in BOOLEAN /\ closing \in BOOLEAN
    /\ numbers \in [{ThisYear, 2} -> Seq(Nat \ {0})]
    /\ result \in Nat /\ carried \in Nat /\ output \in Nat /\ settled \in Nat
    /\ tx \in [Sessions -> Transactions]

Init ==
    /\ status = [m \in Months |-> "open"]
    /\ filed = FALSE /\ closing = FALSE
    /\ numbers = [y \in {ThisYear, 2} |-> <<>>]
    /\ result = 0 /\ carried = 0 /\ output = 0 /\ settled = 0
    /\ tx = [s \in Sessions |-> Idle]

-----------------------------------------------------------------------------
At(s, step) == tx[s].at = step

\* s goes on with the fields f of its transaction changed.
Goto(s, step, f) == tx' = [tx EXCEPT ![s] = [f EXCEPT !.at = step]]

End(s) == tx' = [tx EXCEPT ![s] = Idle]

HoldsNumber(s) == tx[s].no # 0

ForUpdate(s, m) ==
    /\ tx[s].month = m
    /\ tx[s].at \in {"close_locked", "reopen_locked", "lock_locked", "year_read", "year_posted"}

KeyShare(s, m) ==
    \/ tx[s].month = m /\ HoldsNumber(s) /\ tx[s].at \in {"inserted", "booked", "vat_posted"}
    \/ YearEnd = m /\ At(s, "booked") /\ tx[s].sum # 0

\* FOR KEY SHARE is granted.
Shareable(s, m) == \A t \in Sessions \ {s} : ~ForUpdate(t, m)

\* (mutant of Lockable: transactions under way in the month are not waited for)
LockableAtOnce(s, m) == Shareable(s, m)

\* FOR UPDATE is granted.
Lockable(s, m) == \A t \in Sessions \ {s} : ~ForUpdate(t, m) /\ ~KeyShare(t, m)

NumberFree(s) == \A t \in Sessions \ {s} : ~HoldsNumber(t)

\* max + 1 over what is committed.
NextNumber(y) == Max({0} \cup {numbers[y][i] : i \in DOMAIN numbers[y]}) + 1

VatLocked(m) == filed /\ m \in Return

\* No event dated in the months ms is pending, no journal dated there awaits its
\* approval: a posting under way still has its row in that state.
NoneDated(ops, ms) == \A t \in Sessions : tx[t].op \in ops => tx[t].due \notin ms

-----------------------------------------------------------------------------
(* A posting: routing, entry number, insert, lines, commit.                 *)

Room == Cardinality({s \in Sessions : tx[s].op # "none"}) + result + Len(numbers[2]) < MaxEntries

\* The month an automatic entry is dated in: its own, or the first open one
\* after it that takes VAT if it bears VAT.
Routed(due, vat) ==
    LET ok(m) == status[m] = "open" /\ ~(vat /\ VatLocked(m)) IN
    {m \in Months : m >= due /\ ok(m) /\ \A n \in due..(m - 1) : ~ok(n)}

RouteEvent(s, due, vat) ==
    /\ At(s, "idle") /\ Room
    /\ \E m \in Routed(due, vat) :
          Goto(s, "routed", [Idle EXCEPT !.op = "auto", !.due = due, !.month = m, !.vat = vat])
    /\ UNCHANGED <<status, filed, books>>

\* A manual journal is never moved; its approver holds the settings capability.
ApproveManual(s, m) ==
    /\ At(s, "idle") /\ Room
    /\ status[m] # "locked"
    /\ Goto(s, "routed", [Idle EXCEPT !.op = "manual", !.due = m, !.month = m])
    /\ UNCHANGED <<status, filed, books>>

\* (mutant of TakeNumber: the advisory lock is not taken)
TakeNumberUnlocked(s) ==
    /\ At(s, "routed")
    /\ Goto(s, "numbered", [tx[s] EXCEPT !.no = NextNumber(Year(tx[s].month))])
    /\ UNCHANGED <<status, filed, books>>

TakeNumber(s) ==
    /\ At(s, "routed") /\ NumberFree(s)
    /\ Goto(s, "numbered", [tx[s] EXCEPT !.no = NextNumber(Year(tx[s].month))])
    /\ UNCHANGED <<status, filed, books>>

\* journal_entries_period_open, before the insert.
PeriodOpen(origin, m) ==
    \/ status[m] = "open"
    \/ status[m] = "closed" /\ origin = "manual"

InsertEntry(s) ==
    /\ At(s, "numbered")
    /\ PeriodOpen(tx[s].op, tx[s].month)
    /\ Goto(s, "checked", tx[s])
    /\ UNCHANGED <<status, filed, books>>

\* The foreign key's check, at the end of the same statement.
ReferencePeriod(s) ==
    /\ At(s, "checked")
    /\ Shareable(s, tx[s].month)
    /\ Goto(s, "inserted", tx[s])
    /\ UNCHANGED <<status, filed, books>>

\* (mutant of Residual: the revenue that is already there is not summed)
OwnLessCarried == 1 - carried

\* (mutant of Residual: only the entry's own revenue is carried)
OwnOnly == 1

\* The year's revenue not carried yet, with the posting's own.
Residual == result + 1 - carried

\* The lines, where journal_lines_vat_lock refuses VAT, and the refresh of a
\* closed year by an adjusting closing entry in its last month.
InsertLines(s) ==
    LET refresh == closing /\ tx[s].month <= YearEnd IN
    /\ At(s, "inserted")
    /\ ~(tx[s].vat /\ VatLocked(tx[s].month))
    /\ refresh => (status[YearEnd] # "locked" /\ Shareable(s, YearEnd))
    /\ Goto(s, "booked", [tx[s] EXCEPT !.sum = IF refresh THEN Residual ELSE 0])
    /\ UNCHANGED <<status, filed, books>>

CommitPosting(s) ==
    LET m == tx[s].month
        nos == IF tx[s].sum # 0 THEN <<tx[s].no, tx[s].no + 1>> ELSE <<tx[s].no>>
    IN
    /\ At(s, "booked")
    /\ numbers' = [numbers EXCEPT ![Year(m)] = @ \o nos]
    /\ result' = IF m <= YearEnd THEN result + 1 ELSE result
    /\ carried' = carried + tx[s].sum
    /\ output' = IF tx[s].vat /\ m \in Return THEN output + 1 ELSE output
    /\ End(s)
    /\ UNCHANGED <<status, filed, closing, settled>>

\* An error, a refusal by a trigger, a deadlock's victim or a dead connection.
Rollback(s) ==
    /\ ~At(s, "idle")
    /\ End(s)
    /\ UNCHANGED <<status, filed, books>>

-----------------------------------------------------------------------------
(* POST /periods/:id/close: the checks run before the transaction opens.    *)

EarlierClosed(m) == \A n \in 1..(m - 1) : status[n] # "open"

CloseChecks(s, m) ==
    /\ At(s, "idle")
    /\ m # YearEnd /\ m < LastMonth
    /\ status[m] = "open" /\ EarlierClosed(m) /\ NoneDated({"auto", "manual"}, {m})
    /\ Goto(s, "close_checked", [Idle EXCEPT !.month = m])
    /\ UNCHANGED <<status, filed, books>>

CloseLoad(s) ==
    /\ At(s, "close_checked")
    /\ Lockable(s, tx[s].month)
    /\ status[tx[s].month] = "open"
    /\ Goto(s, "close_locked", tx[s])
    /\ UNCHANGED <<status, filed, books>>

\* Also the trial balance whose hash the close records.
CloseCommit(s) ==
    /\ At(s, "close_locked")
    /\ status' = [status EXCEPT ![tx[s].month] = "closed"]
    /\ End(s)
    /\ UNCHANGED <<filed, books>>

(* POST /periods/:id/reopen and /lock                                       *)

ReopenLoad(s, m) ==
    /\ At(s, "idle")
    /\ Lockable(s, m)
    /\ status[m] = "closed"
    /\ \A n \in (m + 1)..LastMonth : status[n] = "open"
    /\ ~(closing /\ m <= YearEnd)
    /\ Goto(s, "reopen_locked", [Idle EXCEPT !.month = m])
    /\ UNCHANGED <<status, filed, books>>

ReopenCommit(s) ==
    /\ At(s, "reopen_locked")
    /\ status' = [status EXCEPT ![tx[s].month] = "open"]
    /\ End(s)
    /\ UNCHANGED <<filed, books>>

LockLoad(s, m) ==
    /\ At(s, "idle")
    /\ Lockable(s, m)
    /\ status[m] = "closed"
    /\ Goto(s, "lock_locked", [Idle EXCEPT !.month = m])
    /\ UNCHANGED <<status, filed, books>>

LockCommit(s) ==
    /\ At(s, "lock_locked")
    /\ status' = [status EXCEPT ![tx[s].month] = "locked"]
    /\ End(s)
    /\ UNCHANGED <<filed, books>>

-----------------------------------------------------------------------------
(* POST /periods/close-year                                                 *)

YearChecks(s) ==
    /\ At(s, "idle")
    /\ EarlierClosed(YearEnd) /\ ~closing
    /\ status[YearEnd] # "locked" /\ NoneDated({"auto", "manual"}, {YearEnd})
    /\ Goto(s, "year_checked", [Idle EXCEPT !.month = YearEnd])
    /\ UNCHANGED <<status, filed, books>>

\* Period 12 is locked, then the year's balances are summed without the
\* closing entries.
YearRead(s) ==
    /\ At(s, "year_checked")
    /\ Lockable(s, YearEnd)
    /\ status[YearEnd] # "locked"
    /\ Goto(s, "year_read", [tx[s] EXCEPT !.sum = result])
    /\ UNCHANGED <<status, filed, books>>

\* (mutant of YearPost: an existing closing entry is not looked for)
YearPostAgain(s) ==
    /\ At(s, "year_read")
    /\ IF tx[s].sum = 0
       THEN Goto(s, "year_posted", tx[s])
       ELSE NumberFree(s) /\ Goto(s, "year_posted", [tx[s] EXCEPT !.no = NextNumber(ThisYear)])
    /\ UNCHANGED <<status, filed, books>>

\* A closing entry that exists by now is returned instead of a second one.
YearPost(s) ==
    /\ At(s, "year_read")
    /\ IF tx[s].sum = 0 \/ closing
       THEN Goto(s, "year_posted", [tx[s] EXCEPT !.sum = 0])
       ELSE NumberFree(s) /\ Goto(s, "year_posted", [tx[s] EXCEPT !.no = NextNumber(ThisYear)])
    /\ UNCHANGED <<status, filed, books>>

YearCommit(s) ==
    /\ At(s, "year_posted")
    /\ numbers' = [numbers EXCEPT ![ThisYear] = IF HoldsNumber(s) THEN Append(@, tx[s].no) ELSE @]
    /\ carried' = carried + tx[s].sum
    /\ closing' = (closing \/ HoldsNumber(s))
    /\ status' = [status EXCEPT ![YearEnd] = "closed"]
    /\ End(s)
    /\ UNCHANGED <<filed, result, output, settled>>

-----------------------------------------------------------------------------
(* PUT /vat-returns/:period with lock, for the account's own return.        *)

VatDue(s) ==
    /\ At(s, "idle")
    /\ ~filed /\ NoneDated({"auto"}, Return)
    /\ Goto(s, "vat_due", [Idle EXCEPT !.month = ReturnTo])
    /\ UNCHANGED <<status, filed, books>>

\* The draft's row is locked to the end of the transaction.
HoldsDraft(s) == tx[s].at \in {"vat_read", "vat_numbered", "vat_checked", "vat_posted"}

\* The VAT of the months is summed, and settled unless another request did.
VatRead(s) ==
    /\ At(s, "vat_due")
    /\ ~filed /\ \A t \in Sessions : ~HoldsDraft(t)
    /\ \A m \in Return : status[m] # "locked"
    /\ Goto(s, "vat_read", [tx[s] EXCEPT !.sum = output])
    /\ UNCHANGED <<status, filed, books>>

\* The settlement entry, a manual one without VAT lines; none for no VAT.
VatNumber(s) ==
    /\ At(s, "vat_read")
    /\ IF tx[s].sum = 0
       THEN Goto(s, "vat_posted", tx[s])
       ELSE NumberFree(s) /\ Goto(s, "vat_numbered", [tx[s] EXCEPT !.no = NextNumber(Year(ReturnTo))])
    /\ UNCHANGED <<status, filed, books>>

VatInsert(s) ==
    /\ At(s, "vat_numbered")
    /\ PeriodOpen("manual", ReturnTo)
    /\ Goto(s, "vat_checked", tx[s])
    /\ UNCHANGED <<status, filed, books>>

VatReferencePeriod(s) ==
    /\ At(s, "vat_checked")
    /\ Shareable(s, ReturnTo)
    /\ Goto(s, "vat_posted", tx[s])
    /\ UNCHANGED <<status, filed, books>>

\* The update of vat_locked_at is compatible with FOR KEY SHARE.
VatCommit(s) ==
    /\ At(s, "vat_posted")
    /\ \A m \in Return : Shareable(s, m)
    /\ filed' = TRUE
    /\ settled' = settled + tx[s].sum
    /\ numbers' = [numbers EXCEPT ![Year(ReturnTo)] = IF HoldsNumber(s) THEN Append(@, tx[s].no) ELSE @]
    /\ End(s)
    /\ UNCHANGED <<status, result, carried, closing, output>>

-----------------------------------------------------------------------------
Posting(s) ==
    \/ \E due \in Months, vat \in BOOLEAN : RouteEvent(s, due, vat)
    \/ \E m \in Months : ApproveManual(s, m)
    \/ TakeNumber(s) \/ InsertEntry(s) \/ ReferencePeriod(s) \/ InsertLines(s) \/ CommitPosting(s)

Closing(s) ==
    \/ \E m \in Months : CloseChecks(s, m) \/ ReopenLoad(s, m) \/ LockLoad(s, m)
    \/ CloseLoad(s) \/ CloseCommit(s) \/ ReopenCommit(s) \/ LockCommit(s)
    \/ YearChecks(s) \/ YearRead(s) \/ YearPost(s) \/ YearCommit(s)

Filing(s) == VatDue(s) \/ VatRead(s) \/ VatNumber(s) \/ VatInsert(s) \/ VatReferencePeriod(s) \/ VatCommit(s)

Next == \E s \in Sessions : Posting(s) \/ Closing(s) \/ Filing(s) \/ Rollback(s)

Spec == Init /\ [][Next]_vars

-----------------------------------------------------------------------------
\* The entry numbers of a fiscal year run 1, 2, 3, ... in the order of the
\* commits, without a gap or a repetition, whoever posts, closes, files or
\* rolls back: max + 1 is chosen under a lock held to the end.
EntryNumbersRun == \A y \in DOMAIN numbers : \A i \in DOMAIN numbers[y] : numbers[y][i] = i

\* No revenue is carried to retained earnings twice and no VAT is settled
\* twice, by two year-end closes, by a close and the adjustments refreshing
\* it, or by two filings of the return.
NothingClosedTwice == carried <= result /\ settled <= output

\* Once the closing entry is in the journal, an entry that adds revenue to
\* the year carries in its own transaction all that the year has left, also
\* what an earlier transaction overlooked.
RefreshCarriesTheYear == [][closing /\ result' # result => carried' = result']_vars

\* When a month closes, no entry inserted in it is still to commit: the trial
\* balance the close records contains all there is.
CloseSeesAllEntries ==
    [][\A m \in Months : status[m] = "open" /\ status'[m] # "open" =>
          \A s \in Sessions : tx[s].at \in {"inserted", "booked"} => tx[s].month # m]_vars

-----------------------------------------------------------------------------
(* What the design says and the interleavings above refute.                 *)

Quiet == \A s \in Sessions : At(s, "idle")

\* E37 settles "Dr 2151 box 6 VAT" (DESIGN.md:932): the VAT of a locked return's
\* months is the VAT its settlement entry cleared.
FiledVatIsSettled == Quiet /\ filed => settled = output

=============================================================================
