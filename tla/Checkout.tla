------------------------------ MODULE Checkout ------------------------------
(***************************************************************************)
(* Paying for a plan or an add-on: the pay endpoints of both, sync,        *)
(* Moyasar's webhook, the admin who offers or cancels the add-on and the   *)
(* sweep of stale offers all read a payment row and its hosted invoice and *)
(* then, in later statements, claim the row and apply what it bought, or   *)
(* close it and open another.  Only the claim is conditional.              *)
(*                                                                         *)
(*   row      subscription_payments.status; rows of add-ons are negative   *)
(*   invoice  the row's invoice at Moyasar                                 *)
(*   addon    account_limit_addons.status of the one add-on                *)
(*   named    its payment_id; 0 while it has none                          *)
(*   lapsed   its offer_expires_at has passed                              *)
(*   ends     users.subscription_ends_at, in periods bought                *)
(*   job      what each process is doing                                   *)
(*                                                                         *)
(* History, for the properties only:                                       *)
(*   applied  times a row's purchase was applied                           *)
(*   reopened times a paid row was overwritten                             *)
(*   overlapped  two activations have read the same end                    *)
(*   dropped  rows whose activation was lost after the claim               *)
(*   revoked  the add-on was active when it was cancelled                  *)
(*   demoted  the add-on was active when pay wrote that it awaits payment  *)
(*                                                                         *)
(* Payments arrive before the window has run out: each adds one period to  *)
(* the end it finds (renewalPeriodStart).                                  *)
(***************************************************************************)
EXTENDS Integers, FiniteSets, FiniteSetsExt

CONSTANTS
    Users,         \* requests of the account's owner
    Hooks,         \* deliveries of Moyasar's webhook
    Offices,       \* admins, and the hourly sweep of stale offers
    MaxPlanRows,   \* bound: plan payments
    MaxAddonRows,  \* bound: payments of the add-on
    MaxPayments    \* bound: payments of both kinds together

ASSUME CheckoutAssumption ==
    /\ MaxPlanRows \in Nat /\ MaxAddonRows \in Nat /\ MaxPayments \in Nat
    /\ IsFiniteSet(Users \cup Hooks \cup Offices)

VARIABLES row, invoice, addon, named, lapsed, ends, job, applied, reopened, overlapped, dropped, revoked, demoted

checkoutHistory == <<applied, reopened, overlapped, dropped, revoked, demoted>>

\* The add-on's record.
addonRecord == <<addon, named, lapsed>>

checkoutVars == <<row, invoice, addonRecord, ends, job, checkoutHistory>>

PlanRows == 1..MaxPlanRows

AddonRows == (-MaxAddonRows)..(-1)

PayRows == AddonRows \cup PlanRows

Processes == Users \cup Hooks \cup Offices

NoJob == [at |-> "idle", op |-> "none", todo |-> {}, on |-> 0, reuse |-> FALSE, offered |-> FALSE, end |-> 0]

Jobs == [at : {"idle", "walk", "void", "close", "create", "look", "new_row", "new_invoice", "name",
               "claim", "read", "write", "activate", "cancel_addon", "cancel_invoice", "cancel_row"},
         op : {"none", "pay", "sync", "hook", "sweep", "offer", "addon"},
         todo : SUBSET PayRows, on : PayRows \cup {0}, reuse : BOOLEAN, offered : BOOLEAN, end : Nat]

CheckoutTypeOK ==
    /\ row \in [PayRows -> {"none", "pending", "paid", "cancelled"}]
    /\ invoice \in [PayRows -> {"none", "open", "paid", "void"}]
    /\ addon \in {"none", "offered", "pending", "active", "cancelled"}
    /\ named \in AddonRows \cup {0} /\ lapsed \in BOOLEAN
    /\ ends \in Nat
    /\ job \in [Processes -> Jobs]
    /\ applied \in [PayRows -> Nat] /\ reopened \in [PayRows -> Nat]
    /\ overlapped \in BOOLEAN /\ dropped \subseteq PayRows /\ revoked \in BOOLEAN /\ demoted \in BOOLEAN

CheckoutInit ==
    /\ row = [p \in PayRows |-> "none"]
    /\ invoice = [p \in PayRows |-> "none"]
    /\ addon = "none" /\ named = 0 /\ lapsed = FALSE /\ ends = 0
    /\ job = [a \in Processes |-> NoJob]
    /\ applied = [p \in PayRows |-> 0] /\ reopened = [p \in PayRows |-> 0]
    /\ overlapped = FALSE /\ dropped = {} /\ revoked = FALSE /\ demoted = FALSE

-----------------------------------------------------------------------------
Does(a, step) == job[a].at = step

Step(a, step, j) == job' = [job EXCEPT ![a] = [j EXCEPT !.at = step]]

Finish(a) == job' = [job EXCEPT ![a] = NoJob]

PendingPlans == {p \in PlanRows : row[p] = "pending"}

\* The newest of its kind; rows of the two kinds come in any order.
Newest(a) == {p \in job[a].todo : \A q \in job[a].todo : IF p \in PlanRows THEN q <= p ELSE p <= q \/ q \in PlanRows}

\* The next row of a kind, while the bounds leave room for one.
NextRow(kind) ==
    {p \in kind : /\ row[p] = "none" /\ \A q \in kind : q * q < p * p => row[q] # "none"
                  /\ Cardinality({q \in PayRows : row[q] # "none"}) < MaxPayments}

\* Steps between the claim of a row and the end of its activation.
Applying == {"read", "write", "activate"}

\* The processes applying what p bought.
Appliers(p) == {a \in Processes : job[a].at \in Applying /\ job[a].on = p}

\* The job with p taken off the list.
Taking(a, p) == [job[a] EXCEPT !.todo = @ \ {p}, !.on = p]

\* Its open invoice is voided at Moyasar, which refuses one that is paid.
Voided(p) == [invoice EXCEPT ![p] = IF @ = "open" THEN "void" ELSE @]

-----------------------------------------------------------------------------
(* POST pay: walk the pending rows, reuse one or close it, open a new one.  *)

PayList(a) ==
    /\ Does(a, "idle")
    /\ Step(a, "walk", [NoJob EXCEPT !.op = "pay", !.todo = PendingPlans])
    /\ UNCHANGED <<row, invoice, addonRecord, ends, checkoutHistory>>

\* One row's invoice is fetched; the fetch may fail and show nothing.  The first
\* open one is handed back if it is for the plan and cycle now asked for (either).
PayFetch(a) ==
    /\ Does(a, "walk") /\ job[a].op = "pay" /\ job[a].todo # {}
    /\ \E p \in Newest(a) : \E shown \in {invoice[p], "none"} :
          \/ shown = "paid" /\ Step(a, "claim", Taking(a, p))
          \/ shown = "open" /\ ~job[a].reuse /\ Step(a, "walk", [Taking(a, p) EXCEPT !.reuse = TRUE])
          \/ shown # "paid" /\ Step(a, "void", Taking(a, p))
    /\ UNCHANGED <<row, invoice, addonRecord, ends, checkoutHistory>>

\* Best effort.
PayVoid(a) ==
    /\ Does(a, "void")
    /\ invoice' \in {invoice, Voided(job[a].on)}
    /\ Step(a, "close", job[a])
    /\ UNCHANGED <<row, addonRecord, ends, checkoutHistory>>

\* The row is closed whatever it has become since it was read.
PayClose(a) ==
    /\ Does(a, "close")
    /\ LET p == job[a].on IN
          /\ row' = [row EXCEPT ![p] = "cancelled"]
          /\ reopened' = [reopened EXCEPT ![p] = @ + IF row[p] = "paid" THEN 1 ELSE 0]
    /\ Step(a, "walk", job[a])
    /\ UNCHANGED <<invoice, addonRecord, ends, applied, overlapped, dropped, revoked, demoted>>

\* A fresh row, unless an open invoice is handed back.
PayInsert(a) ==
    /\ Does(a, "walk") /\ job[a].op = "pay" /\ job[a].todo = {}
    /\ IF job[a].reuse THEN Finish(a) /\ UNCHANGED row
       ELSE \E p \in NextRow(PlanRows) :
               /\ row' = [row EXCEPT ![p] = "pending"]
               /\ Step(a, "create", [job[a] EXCEPT !.on = p])
    /\ UNCHANGED <<invoice, addonRecord, ends, checkoutHistory>>

\* Its invoice; if Moyasar fails the row stays without one.
PayInvoice(a) ==
    /\ Does(a, "create")
    /\ invoice' \in {invoice, [invoice EXCEPT ![job[a].on] = "open"]}
    /\ Finish(a)
    /\ UNCHANGED <<row, addonRecord, ends, checkoutHistory>>

-----------------------------------------------------------------------------
(* The customer, the webhook, sync.                                         *)

\* The link to the invoice comes with the answer of the request that opened it.
CustomerPays(p) ==
    /\ invoice[p] = "open" /\ ~\E a \in Processes : Does(a, "name") /\ job[a].on = p
    /\ invoice' = [invoice EXCEPT ![p] = "paid"]
    /\ UNCHANGED <<row, addonRecord, ends, job, checkoutHistory>>

\* (mutant of Deliver: only a pending row is activated)
DeliverPending(h, p) ==
    /\ Does(h, "idle")
    /\ invoice[p] = "paid" /\ row[p] = "pending"
    /\ Step(h, "claim", [NoJob EXCEPT !.op = "hook", !.on = p])
    /\ UNCHANGED <<row, invoice, addonRecord, ends, checkoutHistory>>

\* A delivery for an invoice that is paid at Moyasar: any row but a paid one.
Deliver(h, p) ==
    /\ Does(h, "idle")
    /\ invoice[p] = "paid" /\ row[p] # "paid"
    /\ Step(h, "claim", [NoJob EXCEPT !.op = "hook", !.on = p])
    /\ UNCHANGED <<row, invoice, addonRecord, ends, checkoutHistory>>

\* POST sync reads the pending rows once, then each one's invoice.
SyncList(a) ==
    /\ Does(a, "idle")
    /\ Step(a, "walk", [NoJob EXCEPT !.op = "sync", !.todo = {p \in PayRows : row[p] = "pending" /\ invoice[p] # "none"}])
    /\ UNCHANGED <<row, invoice, addonRecord, ends, checkoutHistory>>

SyncFetch(a) ==
    /\ Does(a, "walk") /\ job[a].op = "sync"
    /\ \/ job[a].todo = {} /\ Finish(a)
       \/ \E p \in Newest(a) : \E shown \in {invoice[p], "none"} :
             Step(a, IF shown = "paid" THEN "claim" ELSE "walk", Taking(a, p))
    /\ UNCHANGED <<row, invoice, addonRecord, ends, checkoutHistory>>

-----------------------------------------------------------------------------
(* Activation.                                                              *)

\* sync goes on after an add-on, and stops at the first plan.
Proceed(a) == IF job[a].op = "sync" /\ job[a].on \in AddonRows THEN Step(a, "walk", job[a]) ELSE Finish(a)

\* (mutant of Claim: the status is not tested again)
ClaimAlways(a) ==
    /\ Does(a, "claim")
    /\ row' = [row EXCEPT ![job[a].on] = "paid"]
    /\ Step(a, IF job[a].on \in AddonRows THEN "activate" ELSE "read", job[a])
    /\ UNCHANGED <<invoice, addonRecord, ends, checkoutHistory>>

\* UPDATE ... WHERE status <> 'paid': one caller wins.
Claim(a) ==
    /\ Does(a, "claim")
    /\ LET p == job[a].on IN
          IF row[p] = "paid" THEN Proceed(a) /\ UNCHANGED row
          ELSE /\ row' = [row EXCEPT ![p] = "paid"]
               /\ Step(a, IF p \in AddonRows THEN "activate" ELSE "read", job[a])
    /\ UNCHANGED <<invoice, addonRecord, ends, checkoutHistory>>

\* The account's end is read in one statement and written in another.
ReadWindow(a) ==
    /\ Does(a, "read")
    /\ overlapped' = (overlapped \/ \E b \in Processes \ {a} : Does(b, "write"))
    /\ Step(a, "write", [job[a] EXCEPT !.end = ends])
    /\ UNCHANGED <<row, invoice, addonRecord, ends, applied, reopened, dropped, revoked, demoted>>

\* (mutant of WriteWindow: the period starts at the payment)
WriteFresh(a) ==
    /\ Does(a, "write")
    /\ ends' = 1
    /\ applied' = [applied EXCEPT ![job[a].on] = @ + 1]
    /\ Finish(a)
    /\ UNCHANGED <<row, invoice, addonRecord, reopened, overlapped, dropped, revoked, demoted>>

\* (mutant of WriteWindow: the period is taken off the end)
WriteBack(a) ==
    /\ Does(a, "write")
    /\ ends' = job[a].end - 1
    /\ applied' = [applied EXCEPT ![job[a].on] = @ + 1]
    /\ Finish(a)
    /\ UNCHANGED <<row, invoice, addonRecord, reopened, overlapped, dropped, revoked, demoted>>

WriteWindow(a) ==
    /\ Does(a, "write")
    /\ ends' = job[a].end + 1
    /\ applied' = [applied EXCEPT ![job[a].on] = @ + 1]
    /\ Finish(a)
    /\ UNCHANGED <<row, invoice, addonRecord, reopened, overlapped, dropped, revoked, demoted>>

\* (mutant of ActivateAddon: only an offer that still stands is activated)
ActivateOffered(a) ==
    /\ Does(a, "activate")
    /\ IF addon = "offered" THEN addon' = "active" /\ named' = job[a].on ELSE UNCHANGED <<addon, named>>
    /\ applied' = [applied EXCEPT ![job[a].on] = @ + 1]
    /\ Proceed(a)
    /\ UNCHANGED <<row, invoice, lapsed, ends, reopened, overlapped, dropped, revoked, demoted>>

\* One transaction under the account's row lock; cancelled or not, the add-on
\* becomes active, by this payment.
ActivateAddon(a) ==
    /\ Does(a, "activate")
    /\ IF addon = "active" THEN UNCHANGED <<addon, named>> ELSE addon' = "active" /\ named' = job[a].on
    /\ applied' = [applied EXCEPT ![job[a].on] = @ + 1]
    /\ Proceed(a)
    /\ UNCHANGED <<row, invoice, lapsed, ends, reopened, overlapped, dropped, revoked, demoted>>

\* The process dies, or a statement fails, after the claim: nothing repeats the
\* activation of a row that says paid.
LoseActivation(a) ==
    /\ job[a].at \in Applying
    /\ dropped' = dropped \cup {job[a].on}
    /\ Finish(a)
    /\ UNCHANGED <<row, invoice, addonRecord, ends, applied, reopened, overlapped, revoked, demoted>>

\* Or anywhere else.
Die(a) ==
    /\ job[a].at \notin {"idle"} \cup Applying
    /\ Finish(a)
    /\ UNCHANGED <<row, invoice, addonRecord, ends, checkoutHistory>>

-----------------------------------------------------------------------------
(* Add-ons: an offer, its payment, its expiry, its cancellation.            *)

\* createAddon inserts the offer; its payment is opened in later statements.
Offer(o) ==
    /\ Does(o, "idle") /\ addon = "none"
    /\ addon' = "offered"
    /\ Step(o, "new_row", [NoJob EXCEPT !.op = "offer"])
    /\ UNCHANGED <<row, invoice, named, lapsed, ends, checkoutHistory>>

\* createAddonPayment: a row ...
NewRow(a) ==
    /\ Does(a, "new_row")
    /\ \E p \in NextRow(AddonRows) :
          /\ row' = [row EXCEPT ![p] = "pending"]
          /\ Step(a, "new_invoice", [job[a] EXCEPT !.on = p])
    /\ UNCHANGED <<invoice, addonRecord, ends, checkoutHistory>>

\* ... and its invoice; without one the row is closed again.
NewInvoice(a) ==
    /\ Does(a, "new_invoice")
    /\ \/ /\ invoice' = [invoice EXCEPT ![job[a].on] = "open"]
          /\ Step(a, "name", job[a])
          /\ UNCHANGED row
       \/ /\ row' = [row EXCEPT ![job[a].on] = "cancelled"]
          /\ Finish(a)
          /\ UNCHANGED invoice
    /\ UNCHANGED <<addonRecord, ends, checkoutHistory>>

\* Its caller writes the payment into the add-on; the customer's pay also writes
\* that an add-on it had read as offered awaits payment, whatever it is by now.
Name(a) ==
    /\ Does(a, "name")
    /\ named' = job[a].on
    /\ addon' = IF job[a].offered THEN "pending" ELSE addon
    /\ demoted' = (demoted \/ (job[a].offered /\ addon = "active"))
    /\ Finish(a)
    /\ UNCHANGED <<row, invoice, lapsed, ends, applied, reopened, overlapped, dropped, revoked>>

OfferLapses ==
    /\ addon \in {"offered", "pending"} /\ ~lapsed
    /\ lapsed' = TRUE
    /\ UNCHANGED <<row, invoice, addon, named, ends, job, checkoutHistory>>

\* The customer pays an add-on: its record is read ...
AddonPay(a) ==
    /\ Does(a, "idle") /\ addon \in {"offered", "pending"} /\ ~lapsed
    /\ Step(a, IF named = 0 THEN "new_row" ELSE "look",
            [NoJob EXCEPT !.op = "addon", !.on = named, !.offered = (addon = "offered")])
    /\ UNCHANGED <<row, invoice, addonRecord, ends, checkoutHistory>>

\* ... then its payment and what Moyasar shows of it, if the fetch succeeds: paid,
\* applied; open, handed back; otherwise closed and replaced.
AddonLook(a) ==
    /\ Does(a, "look")
    /\ LET p == job[a].on IN
       \E shown \in {IF row[p] = "pending" THEN invoice[p] ELSE "none", "none"} :
          \/ row[p] = "paid" /\ Finish(a) /\ UNCHANGED addon
          \/ shown = "paid" /\ Step(a, "claim", job[a]) /\ UNCHANGED addon
          \/ /\ shown = "open" /\ Finish(a)
             /\ addon' = IF job[a].offered /\ addon = "offered" THEN "pending" ELSE addon
          \/ /\ row[p] # "paid" /\ shown \in {"none", "void"}
             /\ Step(a, "cancel_invoice", job[a])
             /\ UNCHANGED addon
    /\ UNCHANGED <<row, invoice, named, lapsed, ends, checkoutHistory>>

\* A stale offer: seen to be paid meanwhile, its webhook missed, or to be cancelled.
SweepOffer(o) ==
    /\ Does(o, "idle") /\ addon \in {"offered", "pending"} /\ lapsed
    /\ \/ Step(o, "cancel_addon", [NoJob EXCEPT !.op = "sweep"])
       \/ /\ named # 0 /\ row[named] = "pending" /\ invoice[named] = "paid"
          /\ Step(o, "claim", [NoJob EXCEPT !.op = "sweep", !.on = named])
    /\ UNCHANGED <<row, invoice, addonRecord, ends, checkoutHistory>>

\* cancelAddon, by the sweep or an admin: it looks again under the account's lock,
\* and takes an active add-on too.
CancelAddon(o) ==
    /\ Does(o, "cancel_addon") \/ (Does(o, "idle") /\ addon # "none")
    /\ IF addon = "cancelled" THEN Finish(o) /\ UNCHANGED <<addon, revoked>>
       ELSE /\ addon' = "cancelled"
            /\ revoked' = (revoked \/ addon = "active")
            /\ IF addon = "active" \/ named = 0 THEN Finish(o)
               ELSE Step(o, "cancel_invoice", [NoJob EXCEPT !.op = "sweep", !.on = named])
    /\ UNCHANGED <<row, invoice, named, lapsed, ends, applied, reopened, overlapped, dropped, demoted>>

\* After cancelAddonPayment a pay goes on to a fresh row.
Closed(a) == IF job[a].op = "addon" THEN Step(a, "new_row", job[a]) ELSE Finish(a)

\* cancelAddonPayment: a row that is not pending is left; so is one whose invoice
\* could not be voided and is seen to be paid.
CancelInvoice(a) ==
    /\ Does(a, "cancel_invoice")
    /\ LET p == job[a].on IN
          IF row[p] # "pending" THEN Closed(a) /\ UNCHANGED invoice
          ELSE /\ invoice' \in {invoice, Voided(p)}
               /\ \/ invoice[p] = "paid" /\ Closed(a)
                  \/ Step(a, "cancel_row", job[a])
    /\ UNCHANGED <<row, addonRecord, ends, checkoutHistory>>

CancelRow(a) ==
    /\ Does(a, "cancel_row")
    /\ row' = [row EXCEPT ![job[a].on] = IF @ = "pending" THEN "cancelled" ELSE @]
    /\ Closed(a)
    /\ UNCHANGED <<invoice, addonRecord, ends, checkoutHistory>>

-----------------------------------------------------------------------------
Working(a) ==
    \/ PayFetch(a) \/ PayVoid(a) \/ PayClose(a) \/ PayInsert(a) \/ PayInvoice(a) \/ SyncFetch(a)
    \/ NewRow(a) \/ NewInvoice(a) \/ Name(a) \/ AddonLook(a) \/ CancelInvoice(a) \/ CancelRow(a)
    \/ Claim(a) \/ ReadWindow(a) \/ WriteWindow(a) \/ ActivateAddon(a)

CheckoutNext ==
    \/ \E a \in Users : PayList(a) \/ SyncList(a) \/ AddonPay(a)
    \/ \E h \in Hooks, p \in PayRows : Deliver(h, p)
    \/ \E o \in Offices : Offer(o) \/ SweepOffer(o) \/ CancelAddon(o)
    \/ \E a \in Processes : Working(a) \/ LoseActivation(a) \/ Die(a)
    \/ \E p \in PayRows : CustomerPays(p)
    \/ OfferLapses

\* Moyasar repeats a delivery until it is answered; the process is not killed in
\* every one of them; a request that was taken up runs to its end.
CheckoutFairness ==
    /\ \A h \in Hooks, p \in PayRows : WF_checkoutVars(Deliver(h, p))
    /\ \A h \in Hooks : SF_checkoutVars(Working(h))
    /\ \A a \in Users \cup Offices : WF_checkoutVars(Working(a))

CheckoutSpec == CheckoutInit /\ [][CheckoutNext]_checkoutVars /\ CheckoutFairness

-----------------------------------------------------------------------------
PeriodsApplied == FoldSet(LAMBDA p, n : applied[p] + n, 0, PlanRows)

\* A purchase is applied only once its invoice is paid, and applied again only
\* if a paid row was overwritten by pay's closing of the rows it had read as
\* pending, which hands it back to the webhook: between the callers of
\* activateFromPaidRow exactly one wins.
AppliedOnce ==
    \A p \in PayRows : applied[p] <= 1 + reopened[p] /\ (applied[p] > 0 => invoice[p] = "paid")

\* The account never gets a period it did not pay for, and loses one only if two
\* activations read the same end (renewalPeriodStart is fed by a separate SELECT).
WindowsArePaidFor == ends <= PeriodsApplied /\ (~overlapped => ends = PeriodsApplied)

\* The add-on is active, or the activation of the paid row p is under way or lost.
ActiveBy(p) ==
    addon = "active" \/ p \in dropped \/ \E a \in Processes : Does(a, "activate") /\ job[a].on = p

\* What a customer paid for an add-on is delivered, even if the offer was
\* cancelled meanwhile: the row says paid only while the add-on is being
\* activated, or is active, unless the activation failed, the office cancelled
\* an active add-on, or a pay that had read the offer overwrote it.
PaidAddonIsDelivered == \A p \in AddonRows : row[p] = "paid" => ActiveBy(p) \/ revoked \/ demoted

Due ==
    [p \in PayRows |-> IF row[p] = "paid" THEN "claimed" ELSE IF invoice[p] = "paid" THEN "paid" ELSE "unpaid"]

Giving == [p \in PayRows |-> Cardinality(Appliers(p))]

AddonIsOn == addon = "active"

\* Rows, invoices and processes implement PurchasePromise: whoever claims a purchase
\* has seen it paid and nobody else is claiming it; what it bought is given by that
\* claim alone and in one step with its count; the end of the window and the add-on
\* change by nothing else but the add-on's cancellation and pay's overwriting.
Promise ==
    INSTANCE PurchasePromise WITH
        Plans <- PlanRows, Addons <- AddonRows, due <- Due, giving <- Giving, given <- applied,
        window <- ends, on <- AddonIsOn, torn <- overlapped

GivesWhatWasPaid == Promise!Spec

\* An invoice paid at Moyasar is applied in the end, whatever pay did to its row,
\* unless the activation was lost after its claim.
PaidIsApplied == \A p \in PayRows : invoice[p] = "paid" ~> applied[p] > 0 \/ p \in dropped

=============================================================================
