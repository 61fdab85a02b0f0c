---------------------------- MODULE Collections ----------------------------
(***************************************************************************)
(* Money collected on installments and invoices.  An installment is        *)
(* collected on under the installment's advisory lock, an invoice under    *)
(* the invoice's, and the end of a contract under those of all its         *)
(* installments: the two keys name the same money and do not exclude each  *)
(* other.  Each collection is one transaction at READ COMMITTED that reads *)
(* a sum, inserts a row and overwrites the installment's status.           *)
(*                                                                         *)
(*   taken    payment_collections: the sum of the rows with a payment      *)
(*            (or none) and an invoice (or none)                           *)
(*   status   payments.status                                              *)
(*   doc      the invoice: none, draft or confirmed                        *)
(*   stamped  the invoice carries a paid date                              *)
(*   deal     the transaction of each session                              *)
(*   raced    history: installments whose sum was read while another       *)
(*            kind of collection had an uncommitted row on them            *)
(***************************************************************************)
EXTENDS Integers, Sequences, FiniteSets, FiniteSetsExt, SequencesExt

CONSTANTS
    Tills,          \* database sessions
    Installments,   \* of one contract
    Docs,           \* its invoices
    Covers,         \* the installments of an invoice, in order; one without is left out
    Due,            \* of each installment
    Notes,          \* what confirmed debit notes add to an invoice
    None            \* no payment, or no invoice

ASSUME CollectionsAssumption ==
    /\ IsFiniteSet(Installments) /\ IsFiniteSet(Docs)
    /\ Covers \in [Docs -> Seq(Installments)] /\ \A d \in Docs : Covers[d] # <<>>
    /\ Due \in Nat \ {0} /\ Notes \in [Docs -> Nat]
    /\ None \notin Installments \cup Docs

VARIABLES taken, status, doc, stamped, deal, raced

collectionVars == <<taken, status, doc, stamped, deal, raced>>

Payees == Installments \cup {None}

NoMoney == [p \in Payees |-> 0]

Unchanged == [p \in Installments |-> "keep"]

NoDeal == [at |-> "idle", kind |-> "none", doc |-> None, locks |-> {}, left |-> 0, queue |-> <<>>,
           before |-> 0, got |-> NoMoney, set |-> Unchanged]

Deals == [at : {"idle", "lines", "row", "commit"}, kind : {"none", "installment", "invoice", "end"},
          doc : Docs \cup {None}, locks : SUBSET (Installments \cup Docs), left : Nat, queue : Seq(Installments),
          before : Nat, got : [Payees -> Nat],
          set : [Installments -> {"keep", "paid", "partially_paid", "cancelled"}]]

CollectionsTypeOK ==
    /\ taken \in [Payees -> [Docs \cup {None} -> Nat]]
    /\ status \in [Installments -> {"pending", "partially_paid", "paid", "cancelled"}]
    /\ doc \in [Docs -> {"none", "draft", "confirmed"}]
    /\ stamped \subseteq Docs
    /\ deal \in [Tills -> Deals]
    /\ raced \subseteq Installments

CollectionsInit ==
    /\ taken = [p \in Payees |-> [d \in Docs \cup {None} |-> 0]]
    /\ status = [p \in Installments |-> "pending"]
    /\ doc = [d \in Docs |-> "none"]
    /\ stamped = {}
    /\ deal = [s \in Tills |-> NoDeal]
    /\ raced = {}

-----------------------------------------------------------------------------
(* Sums, as a statement sees them; locks.                                   *)

\* Collected on an installment, on an invoice, on the invoice alone.
OnInstallment(p) == FoldSet(LAMBDA d, n : taken[p][d] + n, 0, Docs \cup {None})

OnInvoice(d) ==
    LET on == [p \in Payees |-> taken[p][d]] IN FoldSet(LAMBDA p, n : on[p] + n, 0, Payees)

Net(d) == Due * Len(Covers[d]) + Notes[d]

\* (mutant of Locked: every collection is let in at once)
NeverLocked(s, keys) == FALSE

\* Another transaction holds one of the advisory locks.
Locked(s, keys) == \E t \in Tills \ {s} : deal[t].locks \cap keys # {}

\* Its update of the installment's row has not committed.
RowHeld(s, p) == \E t \in Tills \ {s} : deal[t].set[p] # "keep"

\* s reads the sums of the installments ps while somebody's rows on them are not
\* committed, and the two are not excluded by a common lock.
Races(s, keys, ps) ==
    {p \in ps : \E t \in Tills \ {s} : deal[t].got[p] > 0 /\ deal[t].locks \cap keys = {}}

Deal(s, f) == deal' = [deal EXCEPT ![s] = f]

\* (mutant of StatusFor: exactly covered is not yet paid)
StatusPast(before, amount) == IF before + amount > Due THEN "paid" ELSE "partially_paid"

StatusFor(before, amount) == IF before + amount >= Due THEN "paid" ELSE "partially_paid"

-----------------------------------------------------------------------------
(* Collecting on an installment.                                            *)

CollectInstallment(s, p, amount) ==
    /\ deal[s].at = "idle" /\ ~Locked(s, {p})
    /\ status[p] \notin {"paid", "cancelled"}
    /\ OnInstallment(p) + amount <= Due
    /\ Deal(s, [NoDeal EXCEPT !.at = "row", !.kind = "installment", !.locks = {p}, !.queue = <<p>>,
                              !.before = OnInstallment(p), !.got[p] = amount])
    /\ raced' = raced \cup Races(s, {p}, {p})
    /\ UNCHANGED <<taken, status, doc, stamped>>

-----------------------------------------------------------------------------
(* Collecting on an invoice: its installments in order, then its notes.     *)

CollectInvoice(s, d, amount) ==
    /\ deal[s].at = "idle" /\ ~Locked(s, {d})
    /\ doc[d] = "confirmed"
    /\ OnInvoice(d) + amount <= Net(d)
    /\ Deal(s, [NoDeal EXCEPT !.at = "lines", !.kind = "invoice", !.doc = d, !.locks = {d},
                              !.left = amount, !.queue = Covers[d]])
    /\ UNCHANGED <<taken, status, doc, stamped, raced>>

\* The next installment takes what it still can; a cancelled or settled one
\* nothing, nor one the invoice names again.
NextLine(s) ==
    /\ deal[s].at = "lines" /\ deal[s].left > 0 /\ deal[s].queue # <<>>
    /\ LET p == Head(deal[s].queue)
           before == OnInstallment(p)
           room == Due - before - deal[s].got[p]
           amount == Min({room, deal[s].left}) IN
       IF status[p] = "cancelled" \/ room <= 0
         THEN /\ Deal(s, [deal[s] EXCEPT !.queue = Tail(@)])
              /\ UNCHANGED raced
         ELSE /\ Deal(s, [deal[s] EXCEPT !.at = "row", !.before = before, !.got[p] = @ + amount, !.left = @ - amount])
              /\ raced' = raced \cup Races(s, deal[s].locks, {p})
    /\ UNCHANGED <<taken, status, doc, stamped>>

\* What is left goes on the invoice alone, up to its notes.  Nothing placed at all
\* is refused.
EndOfLines(s) ==
    /\ deal[s].at = "lines" /\ (deal[s].left = 0 \/ deal[s].queue = <<>>)
    /\ LET d == deal[s].doc
           room == Max({0, Notes[d] - taken[None][d]})
           extra == Min({room, deal[s].left})
           got == [deal[s].got EXCEPT ![None] = extra] IN
       Deal(s, IF got = NoMoney THEN NoDeal ELSE [deal[s] EXCEPT !.at = "commit", !.left = 0, !.got = got])
    /\ UNCHANGED <<taken, status, doc, stamped, raced>>

-----------------------------------------------------------------------------
(* The end of a contract: every open installment is collected in full, or   *)
(* cancelled or written off.                                                *)

CollectAtEnd(s, collected) ==
    /\ deal[s].at = "idle" /\ ~Locked(s, Installments)
    /\ LET open == {p \in Installments : status[p] \in {"pending", "partially_paid"} /\ OnInstallment(p) < Due} IN
          /\ open # {} /\ collected \subseteq open
          /\ Deal(s, [NoDeal EXCEPT
                !.at = "row", !.kind = "end", !.locks = Installments, !.queue = SetToSeq(open),
                !.got = [p \in Payees |-> IF p \in collected THEN Due - OnInstallment(p) ELSE 0]])
          /\ raced' = raced \cup Races(s, Installments, collected)
    /\ UNCHANGED <<taken, status, doc, stamped>>

-----------------------------------------------------------------------------
(* Every kind overwrites the row, then commits.                             *)

NewStatus(s, p) ==
    IF deal[s].kind # "end" THEN StatusFor(deal[s].before, deal[s].got[p])
    ELSE IF deal[s].got[p] > 0 THEN "paid" ELSE "cancelled"

\* The row lock is waited for; nothing about the row is tested again.
WriteStatus(s) ==
    /\ deal[s].at = "row"
    /\ LET p == Head(deal[s].queue)
           rest == Tail(deal[s].queue) IN
          /\ ~RowHeld(s, p)
          /\ Deal(s, [deal[s] EXCEPT !.queue = rest, !.set[p] = NewStatus(s, p),
                 !.at = CASE deal[s].kind = "invoice" -> "lines"
                          [] deal[s].kind = "end" /\ rest # <<>> -> "row"
                          [] OTHER -> "commit"])
    /\ UNCHANGED <<taken, status, doc, stamped, raced>>

\* The commit; an invoice whose net total is covered is stamped paid.
Settle(s) ==
    /\ deal[s].at = "commit"
    /\ taken' = [p \in Payees |-> [taken[p] EXCEPT ![deal[s].doc] = @ + deal[s].got[p]]]
    /\ status' = [p \in Installments |-> IF deal[s].set[p] = "keep" THEN status[p] ELSE deal[s].set[p]]
    /\ stamped' = stamped \cup
          {d \in Docs \cap {deal[s].doc} : OnInvoice(d) + FoldSet(LAMBDA p, n : deal[s].got[p] + n, 0, Payees) >= Net(d)}
    /\ Deal(s, NoDeal)
    /\ UNCHANGED <<doc, raced>>

\* An error, a deadlock's victim, a crash.
Rollback(s) ==
    /\ deal[s].at # "idle"
    /\ Deal(s, NoDeal)
    /\ UNCHANGED <<taken, status, doc, stamped, raced>>

-----------------------------------------------------------------------------
(* Invoices and installments otherwise.                                     *)

\* A new invoice takes over what was collected on its installments before.
CreateInvoice(d) ==
    /\ doc[d] = "none"
    /\ doc' = [doc EXCEPT ![d] = "draft"]
    /\ taken' = [p \in Payees |->
          IF p \in Range(Covers[d]) THEN [taken[p] EXCEPT ![d] = @ + taken[p][None], ![None] = 0] ELSE taken[p]]
    /\ UNCHANGED <<status, stamped, deal, raced>>

ApproveInvoice(d) ==
    /\ doc[d] = "draft"
    /\ doc' = [doc EXCEPT ![d] = "confirmed"]
    /\ UNCHANGED <<taken, status, stamped, deal, raced>>

\* PATCH :paymentId writes the status it is given.
CancelInstallment(p) ==
    /\ status[p] # "cancelled"
    /\ \A t \in Tills : deal[t].set[p] = "keep"
    /\ status' = [status EXCEPT ![p] = "cancelled"]
    /\ UNCHANGED <<taken, doc, stamped, deal, raced>>

Amounts == 1..(Due * Cardinality(Installments) + Due)

CollectionsNext ==
    \/ \E s \in Tills :
          \/ \E p \in Installments, amount \in 1..Due : CollectInstallment(s, p, amount)
          \/ \E d \in Docs, amount \in Amounts : CollectInvoice(s, d, amount)
          \/ \E collected \in SUBSET Installments : CollectAtEnd(s, collected)
          \/ NextLine(s) \/ EndOfLines(s) \/ WriteStatus(s) \/ Settle(s) \/ Rollback(s)
    \/ \E d \in Docs : CreateInvoice(d) \/ ApproveInvoice(d)
    \/ \E p \in Installments : CancelInstallment(p)

CollectionsSpec == CollectionsInit /\ [][CollectionsNext]_collectionVars

-----------------------------------------------------------------------------
\* No more is collected on an installment than is due, unless collections under
\* two different locks, one of an invoice and one of the installment, of the
\* contract's end or of another invoice, overlapped on it; an invoice never
\* collects more than its net total, whatever overlaps.
CollectedWithinDue ==
    /\ \A p \in Installments : OnInstallment(p) <= Due \/ p \in raced
    /\ \A d \in Docs : OnInvoice(d) <= Net(d)

\* What the status says is what the collections say: a paid installment is covered,
\* and a covered one is paid or cancelled, unless overlapping collections
\* overwrote each other's status.
StatusMatchesMoney ==
    \A p \in Installments :
       /\ status[p] = "paid" => OnInstallment(p) >= Due
       /\ OnInstallment(p) >= Due => status[p] \in {"paid", "cancelled"} \/ p \in raced
       /\ status[p] = "partially_paid" => OnInstallment(p) > 0

=============================================================================
