----------------------------- MODULE LedgerKeys -----------------------------
(***************************************************************************)
(* The vocabulary of the finance-v2 ledger: the sources an event can come  *)
(* from (installments and billing documents), the idempotency key          *)
(* (source, event) under which an event is queued and posted, and what the *)
(* payload of an event says about the installments it touches.             *)
(*                                                                         *)
(* The user id of the key is left out: the queue, the journal and the      *)
(* worker's lock are all per account, so one account is one copy of the    *)
(* model.  Amounts are abstracted to "zero" or "positive".                 *)
(***************************************************************************)
EXTENDS Naturals, FiniteSets

CONSTANTS
    Payments,      \* installments (rows of `payments`)
    Docs,          \* charge documents (invoices that post E01 / E08)
    Covers,        \* the installments a document charges
    ZeroAmount,    \* the installments whose gross amount is 0
    MaxGen         \* bound: charge generations of one installment

ASSUME SourcesAssumption ==
    /\ Payments \cap Docs = {}
    /\ Covers \in [Docs -> SUBSET Payments]
    /\ ZeroAmount \subseteq Payments

ASSUME MaxGenAssumption == MaxGen \in Nat \ {0}

Key(source, event, gen, isReversal) ==
    [src |-> source, event |-> event, gen |-> gen, rev |-> isReversal]

\* E02: `charge` is generation 1, `charge:g<n>` generation n.
ChargeKey(p, g)  == Key(p, "charge", g, FALSE)
\* E05
CancelKey(p)     == Key(p, "charge_cancelled", 1, FALSE)
\* E33
SettleKey(p)     == Key(p, "settled_external", 1, FALSE)
\* E01 / E08
ConfirmKey(d)    == Key(d, "confirmed", 1, FALSE)

ChargeKeys(p) == {ChargeKey(p, g) : g \in 1..MaxGen}

PaymentKeys(p) == ChargeKeys(p) \cup {CancelKey(p), SettleKey(p)}

BaseKeys == (UNION {PaymentKeys(p) : p \in Payments}) \cup {ConfirmKey(d) : d \in Docs}

\* `reversal:<event>` and the event it undoes.
Reversal(k) == Key(k.src, k.event, k.gen, TRUE)
Original(k) == Key(k.src, k.event, k.gen, FALSE)

ReversalKeys == {Reversal(k) : k \in BaseKeys}

Keys == BaseKeys \cup ReversalKeys

NoKey == Key("none", "none", 0, FALSE)

\* The entries that can charge an installment.
ChargeEntries == {k \in BaseKeys : k.event \in {"charge", "confirmed"}}

\* payload.paymentIds: a reversal's payload carries none.
PaymentIds(k) ==
    IF k.rev THEN {}
    ELSE IF k.event = "confirmed" THEN Covers[k.src]
    ELSE {k.src}

=============================================================================
