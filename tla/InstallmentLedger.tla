-------------------------- MODULE InstallmentLedger --------------------------
(***************************************************************************)
(* The posting engine together with the sources that queue its events: the *)
(* installments and documents of one contract, the requests that change    *)
(* them and the hooks that run after the change, the nightly recognizer    *)
(* and the nightly catch-up sweep.                                         *)
(*                                                                         *)
(*   status    payments.status (a row deleted by a rebuild is "deleted")   *)
(*   dstat     the documents' status; none: there is no such document      *)
(*   contract  contracts.status; "rebuilt" once the installments of the    *)
(*             model have been destroyed and replaced by others            *)
(*   calls     the requests in flight, at the statement they stopped after *)
(*   decided   the events some handler has read the facts of and has not   *)
(*             inserted yet, as the sequence it inserts in one transaction *)
(*   rebuild   the rebuild transaction: whether it runs, and the reversals *)
(*             it has found it must queue                                  *)
(*   lost      the events whose insert failed, or whose process died       *)
(*             between the write they follow from and the insert           *)
(*                                                                         *)
(* Every statement is a transaction of its own except where the code opens *)
(* one (rebuild, sweep), so between the read of a fact and the insert of   *)
(* the event it justifies anything may happen.  All installments are past  *)
(* due and uncollected; the contract counts external settlements.          *)
(***************************************************************************)
EXTENDS PostingEngine

CONSTANTS
    LateDocs,      \* the documents dated after the due dates they cover
    MaxInFlight,   \* bound: requests and decided events under way at once
    MaxLosses      \* bound: events whose insert fails

ASSUME SourcesOfEventsAssumption ==
    LateDocs \subseteq Docs /\ MaxLosses \in Nat /\ MaxInFlight \in Nat

VARIABLES status, dstat, contract, calls, decided, rebuild, lost

sources == <<status, dstat, contract, calls, decided, rebuild, lost>>

ledgerVars == <<vars, sources>>

\* Where a request stopped.
Call(at, source) == [at |-> at, of |-> source]

TheContract == "contract"

NoRebuild == [on |-> FALSE, plan |-> <<>>]

CallTypes ==
    {Call(at, p) : at \in {"settle_guarded", "settle_checked", "settle_written", "revert_written"}, p \in Payments}
    \cup {Call("confirm_written", d) : d \in Docs}
    \cup {Call(at, TheContract) : at \in {"disposed", "ended", "cancel_written"}}

LedgerTypeOK ==
    /\ TypeOK
    /\ status \in [Payments -> {"pending", "settled_external", "cancelled", "deleted"}]
    /\ dstat \in [Docs -> {"none", "draft", "confirmed"}]
    /\ contract \in {"active", "ended", "rebuilt"}
    /\ calls \subseteq CallTypes
    /\ \A ks \in decided : ks \in Seq(Keys)
    /\ rebuild.on \in BOOLEAN /\ rebuild.plan \in Seq(Keys)
    /\ lost \subseteq Keys

LedgerInit ==
    /\ Init
    /\ status = [p \in Payments |-> "pending"]
    /\ \E made \in SUBSET Docs : dstat = [d \in Docs |-> IF d \in made THEN "draft" ELSE "none"]
    /\ contract = "active"
    /\ calls = {}
    /\ decided = {}
    /\ rebuild = NoRebuild
    /\ lost = {}

-----------------------------------------------------------------------------
ChargeEvents(p) == {k \in ChargeKeys(p) : InQueue(k)}

\* (mutant of IsCharged: the queued charge events are not looked at)
IsMarked(p) == Charged(p)

\* An active marker, or a charge event still queued (hooks.service.ts).
IsCharged(p) == Charged(p) \/ \E k \in ChargeEvents(p) : Open(k)

ConfirmedDocs(p) == {d \in Docs : p \in Covers[d] /\ dstat[d] = "confirmed"}

\* Keys already in the queue would be refused by the insert: leave them out.
Decide(seqs) == decided' = decided \cup {ks \in seqs : \E k \in Range(ks) : ~InQueue(k)}

Goto(from, to) == /\ from \in calls
                  /\ calls' = (calls \ {from}) \cup to

Keep == UNCHANGED <<vars, rebuild, lost>>

\* Something new may start.
Slot == Cardinality(calls) + Cardinality(decided) + (IF rebuild.on THEN 1 ELSE 0) < MaxInFlight

-----------------------------------------------------------------------------
(* POST /payments/:id/settle-external                                       *)

SettleGuard(p) ==
    /\ Slot
    /\ ~InQueue(SettleKey(p))
    /\ Call("settle_guarded", p) \notin calls
    /\ calls' = calls \cup {Call("settle_guarded", p)}
    /\ UNCHANGED <<status, dstat, contract, decided>> /\ Keep

\* Refused when the installment is settled, cancelled or gone.
SettleCheck(p) ==
    /\ Goto(Call("settle_guarded", p),
            IF status[p] = "pending" THEN {Call("settle_checked", p)} ELSE {})
    /\ UNCHANGED <<status, dstat, contract, decided>> /\ Keep

\* The update does not test the status that was checked.
SettleWrite(p) ==
    /\ Goto(Call("settle_checked", p), {Call("settle_written", p)})
    /\ status' = [status EXCEPT ![p] = IF @ = "deleted" THEN @ ELSE "settled_external"]
    /\ UNCHANGED <<dstat, contract, decided>> /\ Keep

SettleHook(p) ==
    /\ Goto(Call("settle_written", p), {})
    /\ IF status[p] = "settled_external" /\ IsCharged(p)
       THEN Decide({<<SettleKey(p)>>}) ELSE UNCHANGED decided
    /\ UNCHANGED <<status, dstat, contract>> /\ Keep

(* POST /payments/:id/revert-external                                       *)

RevertWrite(p) ==
    /\ Slot
    /\ status[p] = "settled_external"
    /\ status' = [status EXCEPT ![p] = "pending"]
    /\ calls' = calls \cup {Call("revert_written", p)}
    /\ UNCHANGED <<dstat, contract, decided>> /\ Keep

\* (mutant of RevertHook: the settlement's event is not looked for)
RevertHookAlways(p) ==
    /\ Goto(Call("revert_written", p), {})
    /\ Decide({<<Reversal(SettleKey(p))>>})
    /\ UNCHANGED <<status, dstat, contract>> /\ Keep

RevertHook(p) ==
    /\ Goto(Call("revert_written", p), {})
    /\ IF InQueue(SettleKey(p)) THEN Decide({<<Reversal(SettleKey(p))>>}) ELSE UNCHANGED decided
    /\ UNCHANGED <<status, dstat, contract>> /\ Keep

(* POST /simple-invoices/:id/approve                                        *)

ConfirmDocument(d) ==
    /\ Slot
    /\ dstat[d] = "draft"
    /\ dstat' = [dstat EXCEPT ![d] = "confirmed"]
    /\ calls' = calls \cup {Call("confirm_written", d)}
    /\ UNCHANGED <<status, contract, decided>> /\ Keep

ConfirmHook(d) ==
    /\ Goto(Call("confirm_written", d), {})
    /\ Decide({<<ConfirmKey(d)>>})
    /\ UNCHANGED <<status, dstat, contract>> /\ Keep

(* The end of a contract with mode "cancelled": DELETE /contracts/:id from   *)
(* its first write, POST /contracts/:id/terminate after its dispositions.   *)

EndContract ==
    /\ Slot
    /\ contract = "active" /\ ~rebuild.on /\ Call("disposed", TheContract) \notin calls
    /\ contract' = "ended"
    /\ calls' = calls \cup {Call("ended", TheContract)}
    /\ UNCHANGED <<status, dstat, decided>> /\ Keep

\* Still to be paid (openInstallments leaves zero amounts out).
OpenInstallments == {p \in Payments \ ZeroAmount : status[p] = "pending"}

\* One transaction; every open installment is cancelled, which is refused for
\* one on a confirmed document.
ApplyDispositions ==
    /\ Slot
    /\ contract = "active" /\ ~rebuild.on /\ Call("disposed", TheContract) \notin calls
    /\ \A p \in OpenInstallments : ConfirmedDocs(p) = {}
    /\ status' = [p \in Payments |-> IF p \in OpenInstallments THEN "cancelled" ELSE status[p]]
    /\ calls' = calls \cup {Call("disposed", TheContract)}
    /\ UNCHANGED <<dstat, contract, decided>> /\ Keep

Terminate ==
    /\ ~rebuild.on
    /\ Goto(Call("disposed", TheContract), {Call("ended", TheContract)})
    /\ contract' = "ended"
    /\ UNCHANGED <<status, dstat, decided>> /\ Keep

\* (mutant of CancelUnpaid: the contract's status is written)
EndUnpaid ==
    /\ Goto(Call("ended", TheContract), {Call("cancel_written", TheContract)})
    /\ status' = [p \in Payments |-> IF status[p] = "pending" THEN contract ELSE status[p]]
    /\ UNCHANGED <<dstat, contract, decided>> /\ Keep

CancelUnpaid ==
    /\ Goto(Call("ended", TheContract), {Call("cancel_written", TheContract)})
    /\ status' = [p \in Payments |-> IF status[p] = "pending" THEN "cancelled" ELSE status[p]]
    /\ UNCHANGED <<dstat, contract, decided>> /\ Keep

CancelHook ==
    /\ Goto(Call("cancel_written", TheContract), {})
    /\ Decide({<<CancelKey(p)>> : p \in {q \in Payments : status[q] = "cancelled"}})
    /\ UNCHANGED <<status, dstat, contract>> /\ Keep

(* PUT /contracts/:id, the rebuild: one transaction, refused while the      *)
(* contract has documents; it holds the contract's row from the read on.    *)

\* The events whose reversal the rebuild has to queue.
Unreversed == {k \in UNION {PaymentKeys(p) : p \in Payments} :
                  outbox[k].st \in {"pending", "posted", "failed"} /\ ~InQueue(Reversal(k))}

\* order by id: the i-th of S.
InOrder(i, S) == CHOOSE k \in S : Cardinality({j \in S : outbox[j].id < outbox[k].id}) = i - 1

RebuildRead ==
    /\ Slot
    /\ contract = "active" /\ ~rebuild.on
    /\ \A d \in Docs : dstat[d] = "none"
    /\ rebuild' = [on |-> TRUE, plan |-> [i \in 1..Cardinality(Unreversed) |-> Reversal(InOrder(i, Unreversed))]]
    /\ UNCHANGED <<vars, status, dstat, contract, calls, decided, lost>>

\* The reversals it queues become visible with the deletes.
RebuildCommit ==
    /\ rebuild.on
    /\ Room(rebuild.plan) /\ Emit(rebuild.plan)
    /\ status' = [p \in Payments |-> "deleted"]
    /\ contract' = "rebuilt"
    /\ rebuild' = NoRebuild
    /\ UNCHANGED <<dstat, calls, decided, lost>>

\* The hook's savepoint rolls back, the rebuild goes on: the hook never throws.
RebuildUnreversed ==
    /\ rebuild.on /\ rebuild.plan # <<>>
    /\ lost' = lost \cup Range(rebuild.plan)
    /\ status' = [p \in Payments |-> "deleted"]
    /\ contract' = "rebuilt"
    /\ rebuild' = NoRebuild
    /\ UNCHANGED <<vars, dstat, calls, decided>>

-----------------------------------------------------------------------------
(* The nightly recognizer: each list is read once, its events are inserted  *)
(* one by one afterwards.                                                   *)

RecognizeCharge(p) ==
    LET gen == Cardinality(ChargeEvents(p)) + 1 IN
    /\ Slot
    /\ status[p] \notin {"cancelled", "deleted"}
    /\ ~IsCharged(p) /\ ConfirmedDocs(p) = {}
    /\ gen <= MaxGen
    /\ Decide({<<ChargeKey(p, gen)>>})
    /\ UNCHANGED <<status, dstat, contract, calls>> /\ Keep

RecognizeSettlement(p) ==
    /\ Slot
    /\ status[p] = "settled_external"
    /\ Charged(p) /\ ~InQueue(SettleKey(p))
    /\ Decide({<<SettleKey(p)>>})
    /\ UNCHANGED <<status, dstat, contract, calls>> /\ Keep

(* The nightly catch-up sweep: what it extracts from the sources, and       *)
(* inserts where the key has no row.  A cancelled installment without       *)
(* collections nets to nothing in its reading ("cancelled_history").        *)

SweptInstallment(p) ==
    LET charge == IF ChargeEvents(p) = {} /\ ConfirmedDocs(p) \ LateDocs = {} THEN <<ChargeKey(p, 1)>> ELSE <<>>
        settle == IF status[p] = "settled_external" /\ ~InQueue(SettleKey(p)) THEN <<SettleKey(p)>> ELSE <<>>
    IN IF status[p] \in {"cancelled", "deleted"} THEN <<>> ELSE charge \o settle

SweptDocument(d) ==
    IF dstat[d] = "confirmed" /\ ~InQueue(ConfirmKey(d)) THEN <<ConfirmKey(d)>> ELSE <<>>

Swept == {SweptInstallment(p) : p \in Payments} \cup {SweptDocument(d) : d \in Docs}

Sweep(ks) ==
    /\ Slot
    /\ ks \in Swept \ {<<>>}
    /\ Decide({ks})
    /\ UNCHANGED <<status, dstat, contract, calls>> /\ Keep

-----------------------------------------------------------------------------
\* The insert of events whose facts were read earlier.
Enqueue(ks) ==
    /\ ks \in decided
    /\ Room(ks) /\ Emit(ks)
    /\ decided' = decided \ {ks}
    /\ UNCHANGED <<status, dstat, contract, calls, rebuild, lost>>

\* The insert fails: it is logged and the caller goes on.
EnqueueFails(ks) ==
    /\ ks \in decided /\ Cardinality(lost) < MaxLosses
    /\ lost' = lost \cup {k \in Range(ks) : ~InQueue(k)}
    /\ decided' = decided \ {ks}
    /\ UNCHANGED <<vars, status, dstat, contract, calls, rebuild>>

-----------------------------------------------------------------------------
Requests ==
    \/ \E p \in Payments : \/ SettleGuard(p) \/ SettleCheck(p) \/ SettleWrite(p) \/ SettleHook(p)
                           \/ RevertWrite(p) \/ RevertHook(p)
    \/ \E d \in Docs : ConfirmDocument(d) \/ ConfirmHook(d)
    \/ EndContract \/ ApplyDispositions \/ Terminate \/ CancelUnpaid \/ CancelHook
    \/ RebuildRead \/ RebuildCommit \/ RebuildUnreversed

Nightly ==
    \/ \E p \in Payments : RecognizeCharge(p) \/ RecognizeSettlement(p)
    \/ \E ks \in Swept : Sweep(ks)

EngineStep == EngineNext /\ UNCHANGED sources

LedgerNext ==
    \/ EngineStep
    \/ Requests
    \/ Nightly
    \/ \E ks \in decided : Enqueue(ks) \/ EnqueueFails(ks)

LedgerSpec == LedgerInit /\ [][LedgerNext]_ledgerVars

-----------------------------------------------------------------------------
(* What the sources guarantee the engine.                                   *)

\* Every event that enters the queue is one the engine's own specification
\* lets its environment queue: a reversal after its original, a generation of
\* the charge after the one before, each key once, by whichever of the hooks,
\* the recognizer, the sweep or the rebuild, from facts however stale.
SourcesFeedTheEngine ==
    [][\A k \in Keys : ~InQueue(k) /\ outbox'[k].st # "absent" =>
          /\ k.rev => InQueue(Original(k))
          /\ (~k.rev /\ k.event = "charge" /\ k.gen > 1) => InQueue(ChargeKey(k.src, k.gen - 1))]_ledgerVars

\* However often and however late the recognizer and the sweep decide to
\* charge an installment, at most one of its charges awaits posting, and none
\* does while a due-date charge is active: the generation in the key makes the
\* second decision a no-op.
OneChargeAtATime ==
    \A p \in Payments :
        /\ Cardinality({k \in ChargeEvents(p) : Open(k)}) <= 1
        /\ DueCharges(p) # {} => \A k \in ChargeEvents(p) : ~Open(k)

-----------------------------------------------------------------------------
(* What the emitter's comment says of an event that was lost.               *)

\* What still asks for event k.
Warranted(k) ==
    \/ k.event = "confirmed" /\ ~k.rev
    \/ k.event = "settled_external" /\ ~k.rev /\ status[k.src] = "settled_external"
    \/ k.event = "settled_external" /\ k.rev /\ status[k.src] = "pending" /\ journal[Original(k)] = "posted"
    \/ k.event = "charge_cancelled" /\ status[k.src] = "cancelled" /\ DueCharges(k.src) # {}

\* "on an insert failure it logs ... and the nightly catch-up sweep fills the
\* gap" (ledger-emitter.service.ts): the sweep would queue what was lost.
SweepFillsTheGap ==
    \A k \in lost : ~InQueue(k) /\ Warranted(k) => \E ks \in Swept \cup decided : k \in Range(ks)

=============================================================================
