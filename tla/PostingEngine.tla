---------------------------- MODULE PostingEngine ----------------------------
(***************************************************************************)
(* The posting half of the finance-v2 ledger (posting.engine.ts,           *)
(* posting-worker.service.ts, posting-errors.service.ts and the parts of   *)
(* journal.repository.ts they call), for one account.                      *)
(*                                                                         *)
(*   outbox   the rows of ledger_outbox, one per key                       *)
(*   nextId   the bigserial the next row gets                              *)
(*   journal  the entries of journal_entries, by their key                 *)
(*   charges  finance_installment_charges: for an installment and the      *)
(*            entry that charged it, whether the charge is active and, if  *)
(*            it is not, its reversed_reason                               *)
(*   lock     the holder of the account's session advisory lock            *)
(*   worker   what each worker process is doing                            *)
(*                                                                         *)
(* A row is processed in ONE database transaction, which locks the row and *)
(* is the only writer of the journal, of the markers and of the row while  *)
(* the account lock is held: each outcome of processInTx is one atomic     *)
(* action.  The failure of a transaction and the record made of it are two *)
(* steps, because recordFailure runs outside the transaction.              *)
(*                                                                         *)
(* This module leaves the sources open: Emit may queue any event, in any   *)
(* order, that some hook, the recognizer or the repair sweep could queue.  *)
(***************************************************************************)
EXTENDS LedgerKeys, Sequences, Functions

CONSTANTS
    Workers,       \* processes that run the posting worker
    NoWorker,
    MaxAttempts,   \* MAX_ATTEMPTS
    BatchLimit,    \* rows of one batch
    Feed,          \* bound: what the open environment may queue, each in one transaction
    MaxRows,       \* bound: rows ever queued
    MaxRetries,    \* bound: presses of Retry
    MaxCrashes     \* bound: worker processes killed in a batch

ASSUME EngineAssumption ==
    /\ NoWorker \notin Workers
    /\ MaxAttempts \in Nat \ {0}
    /\ BatchLimit \in Nat \ {0}
    /\ Feed \subseteq Seq(Keys)
    /\ MaxRows \in Nat
    /\ MaxRetries \in Nat
    /\ MaxCrashes \in Nat

VARIABLES outbox, nextId, journal, charges, lock, worker, retries, crashes

vars == <<outbox, nextId, journal, charges, lock, worker, retries, crashes>>

Statuses == {"absent", "pending", "posted", "skipped", "failed", "dismissed"}

ChargeStates == {"none", "active", "cancelled", "replaced_by_document",
                 "reversed", "document_reversed"}

Row == [st : Statuses, id : Nat, att : Nat, due : BOOLEAN, blk : Keys \cup {NoKey}]

\* err: the row whose failure is still to be recorded.
WorkerState == [pc : {"idle", "run"}, todo : SUBSET Keys, err : {NoKey}]
               \cup [pc : {"failing"}, todo : SUBSET Keys, err : Keys]

TypeOK ==
    /\ outbox \in [Keys -> Row]
    /\ nextId \in Nat \ {0}
    /\ journal \in [Keys -> {"none", "posted", "reversed"}]
    /\ charges \in [Payments -> [ChargeEntries -> ChargeStates]]
    /\ lock \in Workers \cup {NoWorker}
    /\ worker \in [Workers -> WorkerState]
    /\ retries \in Nat
    /\ crashes \in Nat

Absent == [st |-> "absent", id |-> 0, att |-> 0, due |-> FALSE, blk |-> NoKey]

Idle == [pc |-> "idle", todo |-> {}, err |-> NoKey]

Init ==
    /\ outbox = [k \in Keys |-> Absent]
    /\ nextId = 1
    /\ journal = [k \in Keys |-> "none"]
    /\ charges = [p \in Payments |-> [k \in ChargeEntries |-> "none"]]
    /\ lock = NoWorker
    /\ worker = [w \in Workers |-> Idle]
    /\ retries = 0
    /\ crashes = 0

-----------------------------------------------------------------------------
(* What a row's transaction reads.                                          *)

InQueue(k)  == outbox[k].st # "absent"
Pending(k)  == outbox[k].st = "pending"
Open(k)     == outbox[k].st \in {"pending", "failed"}
HasEntry(k) == journal[k] # "none"

Active(p)     == {k \in ChargeEntries : charges[p][k] = "active"}
\* (mutant of Charged: the document's marker is not looked at)
ChargedByDueDate(p) == \E k \in Active(p) : k.event = "charge"

Charged(p)    == Active(p) # {}
ByDocument(p) == \E k \in Active(p) : k.event = "confirmed"
\* (mutant of DueCharges: a later generation is not recognised as a charge)
FirstDueCharge(p) == {k \in Active(p) : k.event = "charge" /\ k.gen = 1}

DueCharges(p) == {k \in Active(p) : k.event = "charge"}

\* The active due-date charges the document takes over.
Replaced(d) == UNION {DueCharges(p) : p \in {q \in Covers[d] : ~ByDocument(q)}}

\* (mutant of Blockers: a failed row does not hold up the later ones)
PendingBlockers(k) ==
    {j \in Keys : /\ Pending(j)
                  /\ outbox[j].id < outbox[k].id
                  /\ PaymentIds(j) \cap PaymentIds(k) # {}}

\* (mutant of Blockers: any other open row of the installment blocks)
BlockersInAnyOrder(k) ==
    {j \in Keys \ {k} : Open(j) /\ PaymentIds(j) \cap PaymentIds(k) # {}}

\* Earlier open rows that share an installment with this one.
Blockers(k) ==
    {j \in Keys : /\ Open(j)
                  /\ outbox[j].id < outbox[k].id
                  /\ PaymentIds(j) \cap PaymentIds(k) # {}}

\* (mutant of BlockerStuck: a row once blocked is never selected again)
EverBlocked(k) == outbox[k].blk # NoKey

\* A row already found blocked is left out while its blocker cannot post.
BlockerStuck(k) ==
    /\ outbox[k].blk # NoKey
    /\ LET b == outbox[outbox[k].blk]
       IN b.st = "failed" \/ (b.st = "pending" /\ ~b.due)

Selectable == {k \in Keys : Pending(k) /\ outbox[k].due /\ ~BlockerStuck(k)}

First(n, S) == {k \in S : Cardinality({j \in S : outbox[j].id < outbox[k].id}) < n}

-----------------------------------------------------------------------------
(* The worker.                                                              *)

\* (mutant of StartBatch: the account's lock is not tried)
StartUnlocked(w) ==
    /\ worker[w].pc = "idle"
    /\ Selectable # {}
    /\ lock' = w
    /\ worker' = [worker EXCEPT ![w] = [pc |-> "run", todo |-> First(BatchLimit, Selectable), err |-> NoKey]]
    /\ UNCHANGED <<outbox, nextId, journal, charges, retries, crashes>>

StartBatch(w) ==
    /\ worker[w].pc = "idle"
    /\ lock = NoWorker
    /\ Selectable # {}
    /\ lock' = w
    /\ worker' = [worker EXCEPT ![w] = [pc |-> "run", todo |-> First(BatchLimit, Selectable), err |-> NoKey]]
    /\ UNCHANGED <<outbox, nextId, journal, charges, retries, crashes>>

FinishBatch(w) ==
    /\ worker[w].pc = "run"
    /\ worker[w].todo = {}
    /\ lock' = NoWorker
    /\ worker' = [worker EXCEPT ![w] = Idle]
    /\ UNCHANGED <<outbox, nextId, journal, charges, retries, crashes>>

\* The process dies: an open transaction is rolled back and the session lock
\* released with its connection; a failure not yet recorded is never recorded.
Crash(w) ==
    /\ worker[w].pc # "idle"
    /\ crashes < MaxCrashes
    /\ crashes' = crashes + 1
    /\ lock' = NoWorker
    /\ worker' = [worker EXCEPT ![w] = Idle]
    /\ UNCHANGED <<outbox, nextId, journal, charges, retries>>

\* Row k is the next one of w's batch.
Turn(w, k) ==
    /\ worker[w].pc = "run"
    /\ k \in worker[w].todo
    /\ \A j \in worker[w].todo : outbox[k].id <= outbox[j].id

Done(w, k) == worker' = [worker EXCEPT ![w].todo = @ \ {k}]

MarkPosted(k) == outbox' = [outbox EXCEPT ![k].st = "posted", ![k].blk = NoKey]

MarkSkipped(k) == outbox' = [outbox EXCEPT ![k].st = "skipped", ![k].blk = NoKey]

Block(k, b) == outbox' = [outbox EXCEPT ![k].blk = b]

Aside == <<nextId, lock, retries, crashes>>

\* The row left `pending` since the batch was selected.
ProcessNoop(w, k) ==
    /\ Turn(w, k) /\ ~Pending(k)
    /\ Done(w, k)
    /\ UNCHANGED <<outbox, journal, charges, Aside>>

\* The key is in the journal already: a reversal made by reverse-and-replace.
ProcessExisting(w, k) ==
    /\ Turn(w, k) /\ Pending(k) /\ HasEntry(k)
    /\ MarkPosted(k)
    /\ Done(w, k)
    /\ UNCHANGED <<journal, charges, Aside>>

\* Row k runs its rule now.
Ready(w, k) ==
    /\ Turn(w, k) /\ Pending(k) /\ ~HasEntry(k)
    /\ ~k.rev /\ Blockers(k) = {}

BlockOnEarlier(w, k) ==
    /\ Turn(w, k) /\ Pending(k) /\ ~HasEntry(k) /\ ~k.rev
    /\ \E b \in Blockers(k) : /\ \A j \in Blockers(k) : outbox[b].id <= outbox[j].id
                              /\ Block(k, b)
    /\ Done(w, k)
    /\ UNCHANGED <<journal, charges, Aside>>

\* E02
DueCharge(w, k) ==
    /\ Ready(w, k) /\ k.event = "charge"
    /\ IF Charged(k.src) \/ k.src \in ZeroAmount
       THEN MarkSkipped(k) /\ UNCHANGED <<journal, charges>>
       ELSE /\ MarkPosted(k)
            /\ journal' = [journal EXCEPT ![k] = "posted"]
            /\ charges' = [charges EXCEPT ![k.src][k] = "active"]
    /\ Done(w, k)
    /\ UNCHANGED Aside

\* E05
ChargeCancelled(w, k) ==
    /\ Ready(w, k) /\ k.event = "charge_cancelled"
    /\ IF ~Charged(k.src) \/ ByDocument(k.src)
       THEN MarkSkipped(k) /\ UNCHANGED <<journal, charges>>
       ELSE /\ MarkPosted(k)
            /\ journal' = [journal EXCEPT ![k] = "posted"]
            /\ charges' = [charges EXCEPT ![k.src] =
                    [c \in ChargeEntries |-> IF @[c] = "active" THEN "cancelled" ELSE @[c]]]
    /\ Done(w, k)
    /\ UNCHANGED Aside

\* E33: NOT_CHARGED is a failed attempt (Fail), not an outcome.
SettledExternal(w, k) ==
    /\ Ready(w, k) /\ k.event = "settled_external"
    /\ Charged(k.src)
    /\ MarkPosted(k)
    /\ journal' = [journal EXCEPT ![k] = "posted"]
    /\ Done(w, k)
    /\ UNCHANGED <<charges, Aside>>

\* E01 / E08: the document reverses and replaces the active due-date charges
\* of the installments it covers; one a document already charged keeps its marker.
ChargeDocument(w, k) ==
    /\ Ready(w, k) /\ k.event = "confirmed"
    /\ \A c \in Replaced(k.src) : journal[c] = "posted"
    /\ MarkPosted(k)
    /\ journal' = [j \in Keys |->
            IF j = k \/ (j.rev /\ Original(j) \in Replaced(k.src)) THEN "posted"
            ELSE IF j \in Replaced(k.src) THEN "reversed"
            ELSE journal[j]]
    /\ charges' = [p \in Payments |->
            IF p \notin Covers[k.src] \/ ByDocument(p) THEN charges[p]
            ELSE [c \in ChargeEntries |->
                    IF c = k THEN "active"
                    ELSE IF charges[p][c] = "active" THEN "replaced_by_document"
                    ELSE charges[p][c]]]
    /\ Done(w, k)
    /\ UNCHANGED Aside

\* (mutant of ReverseUnposted: only a pending original is waited for)
ReverseNotPending(w, k) ==
    /\ Turn(w, k) /\ Pending(k) /\ ~HasEntry(k) /\ k.rev
    /\ ~HasEntry(Original(k))
    /\ IF Pending(Original(k)) THEN Block(k, Original(k)) ELSE MarkSkipped(k)
    /\ Done(w, k)
    /\ UNCHANGED <<journal, charges, Aside>>

\* `reversal:<event>`, the original not posted yet: wait for it, or nothing to
\* reverse.  (An original already reversed has its mirror in the journal, which
\* ProcessExisting finds first.)
ReverseUnposted(w, k) ==
    /\ Turn(w, k) /\ Pending(k) /\ ~HasEntry(k) /\ k.rev
    /\ ~HasEntry(Original(k))
    /\ IF Open(Original(k)) THEN Block(k, Original(k)) ELSE MarkSkipped(k)
    /\ Done(w, k)
    /\ UNCHANGED <<journal, charges, Aside>>

\* (mutant of ReversedReason: the event's name is stored)
EventAsReason(o) == o.event

\* The reason a reversal of entry o leaves on the active charge it had made.
ReversedReason(o) == IF o.event = "charge" THEN "reversed" ELSE "document_reversed"

\* (mutant of PostReversal: the original is not marked reversed)
PostMirrorOnly(w, k) ==
    /\ Turn(w, k) /\ Pending(k) /\ ~HasEntry(k) /\ k.rev
    /\ journal[Original(k)] = "posted"
    /\ MarkPosted(k)
    /\ journal' = [journal EXCEPT ![k] = "posted"]
    /\ Done(w, k)
    /\ UNCHANGED <<charges, Aside>>

\* (mutant of PostReversal: every active charge of the installment is closed)
PostReversalOfAnyCharge(w, k) ==
    LET o == Original(k) IN
    /\ Turn(w, k) /\ Pending(k) /\ ~HasEntry(k) /\ k.rev
    /\ journal[o] = "posted"
    /\ MarkPosted(k)
    /\ journal' = [journal EXCEPT ![k] = "posted", ![o] = "reversed"]
    /\ charges' = [p \in Payments |-> [c \in ChargeEntries |->
            IF p \in PaymentIds(o) /\ charges[p][c] = "active" THEN ReversedReason(o) ELSE charges[p][c]]]
    /\ Done(w, k)
    /\ UNCHANGED Aside

PostReversal(w, k) ==
    LET o == Original(k) IN
    /\ Turn(w, k) /\ Pending(k) /\ ~HasEntry(k) /\ k.rev
    /\ journal[o] = "posted"
    /\ MarkPosted(k)
    /\ journal' = [journal EXCEPT ![k] = "posted", ![o] = "reversed"]
    /\ charges' = [p \in Payments |-> [c \in ChargeEntries |->
            IF c = o /\ charges[p][c] = "active" THEN ReversedReason(o) ELSE charges[p][c]]]
    /\ Done(w, k)
    /\ UNCHANGED Aside

\* The row's transaction rolls back: a rule that throws, or any error of the
\* database or of the chart.
Fail(w, k) ==
    /\ Turn(w, k) /\ Pending(k)
    /\ worker' = [worker EXCEPT ![w] = [pc |-> "failing", todo |-> @.todo \ {k}, err |-> k]]
    /\ UNCHANGED <<outbox, journal, charges, Aside>>

\* (mutant of RecordFailure: the row's status is not tested again)
RecordAnyFailure(w, permanent) ==
    LET k == worker[w].err IN
    /\ worker[w].pc = "failing"
    /\ outbox' = [outbox EXCEPT ![k].att = @ + 1, ![k].st = IF permanent THEN "failed" ELSE "pending", ![k].due = FALSE]
    /\ worker' = [worker EXCEPT ![w].pc = "run", ![w].err = NoKey]
    /\ UNCHANGED <<journal, charges, Aside>>

\* A permanent error (a missing fact, a closed period) fails the row at once.
RecordFailure(w, permanent) ==
    LET k == worker[w].err IN
    /\ worker[w].pc = "failing"
    /\ IF Pending(k)
       THEN outbox' = [outbox EXCEPT
                ![k].att = @ + 1,
                ![k].st = IF permanent \/ outbox[k].att + 1 >= MaxAttempts THEN "failed" ELSE "pending",
                ![k].due = FALSE]
       ELSE UNCHANGED outbox
    /\ worker' = [worker EXCEPT ![w].pc = "run", ![w].err = NoKey]
    /\ UNCHANGED <<journal, charges, Aside>>

\* next_attempt_at passes.
BackoffExpires(k) ==
    /\ Pending(k) /\ ~outbox[k].due
    /\ outbox' = [outbox EXCEPT ![k].due = TRUE]
    /\ UNCHANGED <<nextId, journal, charges, lock, worker, retries, crashes>>

-----------------------------------------------------------------------------
(* The posting-errors screen.                                               *)

Retry(k) ==
    /\ Open(k)
    /\ retries < MaxRetries
    /\ retries' = retries + 1
    /\ outbox' = [outbox EXCEPT ![k] = [@ EXCEPT !.st = "pending", !.att = 0, !.due = TRUE]]
    /\ UNCHANGED <<nextId, journal, charges, lock, worker, crashes>>

\* (mutant of Dismiss: the row's status is not tested)
DismissAny(k) ==
    /\ InQueue(k)
    /\ outbox' = [outbox EXCEPT ![k].st = "dismissed"]
    /\ UNCHANGED <<nextId, journal, charges, lock, worker, retries, crashes>>

Dismiss(k) ==
    /\ Open(k)
    /\ outbox' = [outbox EXCEPT ![k].st = "dismissed"]
    /\ UNCHANGED <<nextId, journal, charges, lock, worker, retries, crashes>>

-----------------------------------------------------------------------------
(* The sources.                                                             *)

NewRow(id) == [st |-> "pending", id |-> id, att |-> 0, due |-> TRUE, blk |-> NoKey]

\* The id of k when the keys of ks are inserted in their order.
IdIn(ks, k) == nextId + (CHOOSE i \in DOMAIN ks : ks[i] = k) - 1

\* LedgerEmitter.emit for the keys of one transaction, in order: on conflict
\* (the key is queued already) do nothing.  Ids are only ever compared.
Emit(ks) ==
    /\ outbox' = [k \in Keys |->
            IF InQueue(k) \/ k \notin Range(ks) THEN outbox[k]
            ELSE NewRow(IdIn(ks, k))]
    /\ nextId' = IF \A k \in Range(ks) : InQueue(k) THEN nextId ELSE nextId + Len(ks)
    /\ UNCHANGED <<journal, charges, lock, worker, retries, crashes>>

\* (mutant of Emittable: a reversal is queued for an event that is not)
EmittableEarly(k) == ~InQueue(k)

\* A reversal is queued only for an event that is (hooks.service.ts); the
\* recognizer numbers a charge by the charge events queued before it.
Emittable(k) ==
    /\ ~InQueue(k)
    /\ k.rev => InQueue(Original(k))
    /\ (~k.rev /\ k.event = "charge" /\ k.gen > 1) => InQueue(ChargeKey(k.src, k.gen - 1))

Room(ks) == nextId + Len(ks) <= MaxRows + 1

EmitAny == \E ks \in Feed : /\ Room(ks)
                            /\ \A k \in Range(ks) : Emittable(k)
                            /\ Emit(ks)

-----------------------------------------------------------------------------
ProcessRow(w, k) ==
    \/ ProcessNoop(w, k)
    \/ ProcessExisting(w, k)
    \/ BlockOnEarlier(w, k)
    \/ DueCharge(w, k)
    \/ ChargeCancelled(w, k)
    \/ SettledExternal(w, k)
    \/ ChargeDocument(w, k)
    \/ ReverseUnposted(w, k)
    \/ PostReversal(w, k)
    \/ Fail(w, k)

WorkerStep(w) ==
    \/ StartBatch(w)
    \/ FinishBatch(w)
    \/ \E k \in Keys : ProcessRow(w, k)
    \/ \E permanent \in BOOLEAN : RecordFailure(w, permanent)

\* The workers, their clock and the screen.
EngineNext ==
    \/ \E w \in Workers : WorkerStep(w) \/ Crash(w)
    \/ \E k \in Keys : BackoffExpires(k) \/ Retry(k) \/ Dismiss(k)

Next == EngineNext \/ EmitAny

Spec == Init /\ [][Next]_vars

\* Some process keeps ticking (posting-worker.service.ts:64) and a back-off
\* ends; nothing obliges a user to press Retry or Dismiss, a source to queue
\* an event, or a process to die.
FairSpec ==
    /\ Spec
    /\ WF_vars(\E w \in Workers : WorkerStep(w))
    /\ WF_vars(\E k \in Keys : BackoffExpires(k))

-----------------------------------------------------------------------------
(* What must hold.                                                          *)

\* Only one process posts the account at a time, and it is the lock's holder
\* (posting-worker.service.ts:19-23): the atomic row actions rest on it.
OneBatchAtATime == \A w \in Workers : worker[w].pc # "idle" <=> lock = w

\* An event is posted exactly when its entry is in the journal, so a replay, a
\* crash or a retry never books it twice and never loses the booking; the
\* mirror of a reversal row that says `posted` is there too, whoever wrote it.
PostedOnce ==
    /\ \A k \in BaseKeys : outbox[k].st = "posted" <=> HasEntry(k)
    /\ \A k \in ReversalKeys : outbox[k].st = "posted" => HasEntry(k)

\* An entry is marked reversed exactly when its mirror is in the journal, and a
\* mirror is never itself reversed: the two ways to reverse a charge (a
\* `reversal:` event, reverse-and-replace by a document) never both happen, and
\* a reversal row never meets an entry `already_reversed` whose mirror is missing.
ReversalPairing ==
    \A k \in BaseKeys : /\ journal[k] = "reversed" <=> HasEntry(Reversal(k))
                        /\ journal[Reversal(k)] # "reversed"

MarkerFits(p, k) ==
    LET m == charges[p][k] IN
    /\ m # "none" => HasEntry(k) /\ p \in PaymentIds(k)
    /\ m = "active" => journal[k] = "posted"
    /\ m \in {"reversed", "replaced_by_document", "document_reversed"} => journal[k] = "reversed"
    /\ m = "cancelled" => HasEntry(CancelKey(p)) /\ k.event = "charge"

\* The charge markers agree with the journal they summarise: a marker exists
\* only for an entry that charges the installment and at most one is active; an
\* active one has a live entry, one closed by a reversal or by a document has a
\* reversed entry, and one closed as cancelled is a due-date charge with the
\* cancellation's entry beside it.
MarkersAgree ==
    \A p \in Payments : /\ \A j, k \in Active(p) : j = k
                        /\ \A k \in ChargeEntries : MarkerFits(p, k)

\* An entry that charges an installment and was not reversed has its marker: it
\* is active, or cancelled, unless another document covers the installment too.
EntriesAreMarked ==
    \A p \in Payments : \A k \in ChargeEntries :
        journal[k] = "posted" /\ p \in PaymentIds(k) =>
            \/ charges[p][k] \in {"active", "cancelled"}
            \/ k.event = "confirmed" /\ \E d \in Docs \ {k.src} : p \in Covers[d]

\* The live entries that bill an installment and were not cancelled.
Billing(p) == {k \in ChargeEntries :
                 journal[k] = "posted" /\ p \in PaymentIds(k) /\ charges[p][k] # "cancelled"}

\* A tenant is billed at most once for an installment: generations of the
\* due-date charge and the document that invoices it never stand together.
\* Two documents over one installment are the user's (already_document_charged).
BilledOnce ==
    \A p \in Payments :
        (\A d, e \in Docs : p \in Covers[d] \cap Covers[e] => d = e)
            => \A j, k \in Billing(p) : j = k

\* Once an event has been acted on, no earlier event of the same installment
\* can still post: neither a failed one that is retried nor one that was
\* blocked, so a cancellation skipped as `not_charged` stays right about every
\* charge queued before it (DESIGN.md, order after failure).
InstallmentOrder ==
    \A j, k \in BaseKeys :
        /\ outbox[k].st \in {"posted", "skipped"} /\ InQueue(j)
        /\ outbox[j].id < outbox[k].id
        /\ PaymentIds(j) \cap PaymentIds(k) # {}
        => ~Open(j)

\* A reversal skipped because there was nothing to reverse stays right: its
\* original is not in force and can never post afterwards (DESIGN.md section
\* 5.4).
SkippedReversalIsFinal ==
    \A k \in BaseKeys :
        outbox[Reversal(k)].st = "skipped" => ~Open(k) /\ journal[k] # "posted"

\* Ids follow the order of queueing, and a reversal is queued after the event
\* it undoes: what the blocking by id rests on.
QueueOrder ==
    \A k \in Keys :
        /\ outbox[k].id \in IF InQueue(k) THEN 1..(nextId - 1) ELSE {0}
        /\ InQueue(k) /\ k.rev => InQueue(Original(k)) /\ outbox[Original(k)].id < outbox[k].id

\* A row only ever waits for an earlier one, so waits never form a cycle.
WaitsForEarlier ==
    \A k \in Keys :
        outbox[k].blk # NoKey => outbox[outbox[k].blk].id \in 1..(outbox[k].id - 1)

\* A row that was posted, skipped or dismissed is final and a journal entry is
\* only ever added or marked reversed, whatever the screens and the crashed or
\* concurrent workers do.
NothingIsRewritten ==
    [][/\ \A k \in Keys : outbox[k].st \in {"posted", "skipped", "dismissed"} => outbox'[k] = outbox[k]
       /\ \A k \in Keys : journal'[k] # journal[k] =>
             \/ journal[k] = "none" /\ journal'[k] = "posted"
             \/ journal[k] = "posted" /\ journal'[k] = "reversed"]_vars

\* The rows a failed one holds up, directly or through rows it holds up.
InTheWay(k) == Blockers(k) \cup (IF k.rev /\ Open(Original(k)) THEN {Original(k)} ELSE {})

HeldUp ==
    LET Queue == {k \in Keys : Open(k)}
        Behind(S) == S \cup {k \in Queue : InTheWay(k) \cap S # {}}
    IN  FoldFunction(LAMBDA n, S : Behind(S), {k \in Queue : outbox[k].st = "failed"},
                     [n \in 1..Cardinality(Queue) |-> n])

\* Every queued event is eventually posted, skipped or dismissed, unless a
\* failed one (which waits for a user) holds it up.
EventuallySettled ==
    \A k \in UNION {Range(ks) : ks \in Feed} : Pending(k) ~> (~Pending(k) \/ k \in HeldUp)

-----------------------------------------------------------------------------
(* The engine keeps the ledger's promise.                                   *)

FateOf(k) ==
    IF ~InQueue(k) THEN "new"
    ELSE IF Open(k) THEN "queued"
    ELSE IF journal[k] = "posted" THEN "booked"
    ELSE IF journal[k] = "reversed" THEN "undone"
    ELSE "dropped"

Promise == INSTANCE LedgerPromise WITH
    fate <- [k \in BaseKeys |-> FateOf(k)],
    billed <- [p \in Payments |-> Active(p)]

\* Every step of the queue, the workers and the screens is a step of the
\* promise or invisible to it: what is retried, blocked, replayed or crashed
\* books, undoes or drops each event once, and bills an installment by one
\* event at a time.
KeepsThePromise == Promise!Spec

=============================================================================
