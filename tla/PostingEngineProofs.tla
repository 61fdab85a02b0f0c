------------------------- MODULE PostingEngineProofs -------------------------
(***************************************************************************)
(* Proofs about PostingEngine, for every set of installments, documents    *)
(* and workers and every bound.                                            *)
(***************************************************************************)
EXTENDS PostingEngine, TLAPS

-----------------------------------------------------------------------------
(* Keys.                                                                    *)

Events == {"charge", "charge_cancelled", "settled_external", "confirmed"}

\* What the constructors of a key put in it.
LEMMA KeyFields ==
    ASSUME NEW k \in BaseKeys
    PROVE  /\ k \in [src : Payments \cup Docs, event : Events, gen : Nat, rev : {FALSE}]
           /\ \/ k.event = "charge" /\ k.src \in Payments
              \/ k.event = "charge_cancelled" /\ k.src \in Payments /\ k = CancelKey(k.src)
              \/ k.event = "settled_external" /\ k.src \in Payments
              \/ k.event = "confirmed" /\ k.src \in Docs /\ k = ConfirmKey(k.src)
<1>1. ASSUME NEW p \in Payments, NEW g \in 1..MaxGen, k = ChargeKey(p, g)
      PROVE  k \in [src : Payments \cup Docs, event : Events, gen : Nat, rev : {FALSE}]
             /\ k.event = "charge" /\ k.src \in Payments
  <2>1. g \in Nat  BY MaxGenAssumption
  <2> QED  BY <1>1, <2>1 DEF ChargeKey, Key, Events
<1>2. ASSUME NEW p \in Payments, k = CancelKey(p)
      PROVE  k \in [src : Payments \cup Docs, event : Events, gen : Nat, rev : {FALSE}]
             /\ k.event = "charge_cancelled" /\ k.src \in Payments /\ k = CancelKey(k.src)
  BY <1>2 DEF CancelKey, Key, Events
<1>3. ASSUME NEW p \in Payments, k = SettleKey(p)
      PROVE  k \in [src : Payments \cup Docs, event : Events, gen : Nat, rev : {FALSE}]
             /\ k.event = "settled_external" /\ k.src \in Payments
  BY <1>3 DEF SettleKey, Key, Events
<1>4. ASSUME NEW d \in Docs, k = ConfirmKey(d)
      PROVE  k \in [src : Payments \cup Docs, event : Events, gen : Nat, rev : {FALSE}]
             /\ k.event = "confirmed" /\ k.src \in Docs /\ k = ConfirmKey(k.src)
  BY <1>4 DEF ConfirmKey, Key, Events
<1> QED  BY <1>1, <1>2, <1>3, <1>4 DEF BaseKeys, PaymentKeys, ChargeKeys

\* `reversal:` is undone by taking the original, and the other way round.
LEMMA ReversalOfBase ==
    ASSUME NEW k \in BaseKeys
    PROVE  /\ k \in Keys /\ k.rev = FALSE
           /\ Reversal(k) \in Keys /\ Reversal(k) \in ReversalKeys /\ Reversal(k).rev = TRUE
           /\ Original(Reversal(k)) = k /\ Original(k) = k
           /\ Reversal(k) # k
<1>1. k = [src |-> k.src, event |-> k.event, gen |-> k.gen, rev |-> FALSE] /\ k.rev = FALSE
  BY KeyFields
<1>2. k \in Keys /\ Reversal(k) \in Keys /\ Reversal(k) \in ReversalKeys
  BY DEF Keys, ReversalKeys
<1>3. Reversal(k).rev = TRUE  BY DEF Reversal, Key
<1>4. Original(k) = k  BY <1>1 DEF Original, Key
<1>5. Original(Reversal(k)) = k  BY <1>1 DEF Original, Reversal, Key
<1>6. Reversal(k) # k  BY <1>1, <1>3
<1> QED  BY <1>1, <1>2, <1>3, <1>4, <1>5, <1>6

LEMMA OriginalOfReversal ==
    ASSUME NEW k \in Keys
    PROVE  /\ k.rev \in BOOLEAN
           /\ ~k.rev => k \in BaseKeys
           /\ k.rev => /\ k \in ReversalKeys /\ Original(k) \in BaseKeys
                       /\ Reversal(Original(k)) = k
           /\ Original(k) \in BaseKeys
<1>1. CASE k \in BaseKeys  BY <1>1, ReversalOfBase
<1>2. CASE k \in ReversalKeys
  <2>1. PICK j \in BaseKeys : k = Reversal(j)  BY <1>2 DEF ReversalKeys
  <2> QED  BY <1>2, <2>1, ReversalOfBase
<1> QED  BY <1>1, <1>2 DEF Keys

\* The installments of an event are installments.
LEMMA PaymentIdsType ==
    ASSUME NEW k \in BaseKeys
    PROVE  /\ PaymentIds(k) \subseteq Payments
           /\ k.event = "confirmed" => PaymentIds(k) = Covers[k.src]
           /\ k.event # "confirmed" => PaymentIds(k) = {k.src}
BY KeyFields, ReversalOfBase, SourcesAssumption DEF PaymentIds

-----------------------------------------------------------------------------
(* Types.                                                                   *)

\* The place of a key in the sequence its transaction inserts.
LEMMA PlaceInSequence ==
    ASSUME NEW ks \in Seq(Keys), NEW k \in Range(ks)
    PROVE  (CHOOSE i \in DOMAIN ks : ks[i] = k) \in 1..Len(ks)
<1>1. \E i \in DOMAIN ks : ks[i] = k  BY DEF Range
<1>2. DOMAIN ks = 1..Len(ks)  OBVIOUS
<1> QED  BY <1>1, <1>2

LEMMA NewRowType ==
    ASSUME TypeOK, NEW ks \in Seq(Keys), NEW k \in Range(ks)
    PROVE  /\ IdIn(ks, k) \in nextId..(nextId + Len(ks) - 1)
           /\ NewRow(IdIn(ks, k)) \in Row
<1> DEFINE i == CHOOSE i \in DOMAIN ks : ks[i] = k
<1>1. i \in 1..Len(ks)  BY PlaceInSequence
<1>2. nextId \in Nat  BY DEF TypeOK
<1>3. Len(ks) \in Nat  OBVIOUS
<1>4. IdIn(ks, k) = nextId + i - 1  BY DEF IdIn
<1> HIDE DEF i
<1>5. IdIn(ks, k) \in nextId..(nextId + Len(ks) - 1) /\ IdIn(ks, k) \in Nat
  BY <1>1, <1>2, <1>3, <1>4
<1> QED  BY <1>5 DEF NewRow, Row, Statuses

LEMMA EmitType ==
    ASSUME TypeOK, NEW ks \in Seq(Keys), Emit(ks)
    PROVE  TypeOK'
<1>1. outbox' \in [Keys -> Row]
  <2>1. \A k \in Keys : IF InQueue(k) \/ k \notin Range(ks) THEN outbox[k] \in Row ELSE NewRow(IdIn(ks, k)) \in Row
    BY NewRowType DEF TypeOK
  <2> QED  BY <2>1 DEF Emit
<1>2. nextId' \in Nat \ {0}
  <2>1. Len(ks) \in Nat  OBVIOUS
  <2> QED  BY <2>1 DEF TypeOK, Emit
<1> QED  BY <1>1, <1>2 DEF TypeOK, Emit

LEMMA InitType == Init => TypeOK
<1> SUFFICES ASSUME Init PROVE TypeOK  OBVIOUS
<1>1. Absent \in Row  BY DEF Absent, Row, Statuses
<1>2. Idle \in WorkerState  BY DEF Idle, WorkerState
<1> QED  BY <1>1, <1>2 DEF Init, TypeOK, ChargeStates

\* The bookkeeping of a row: one field changes, within its type.
LEMMA RowUpdateType ==
    ASSUME TypeOK, NEW k \in Keys
    PROVE  /\ MarkPosted(k) => outbox' \in [Keys -> Row]
           /\ MarkSkipped(k) => outbox' \in [Keys -> Row]
           /\ \A b \in Keys : Block(k, b) => outbox' \in [Keys -> Row]
BY DEF TypeOK, MarkPosted, MarkSkipped, Block, Row, Statuses

LEMMA DoneType ==
    ASSUME TypeOK, NEW w \in Workers, NEW k \in Keys, Turn(w, k), Done(w, k)
    PROVE  worker' \in [Workers -> WorkerState]
BY DEF TypeOK, Turn, Done, WorkerState

LEMMA ProcessRowType ==
    ASSUME TypeOK, NEW w \in Workers, NEW k \in Keys, ProcessRow(w, k)
    PROVE  TypeOK'
<1>1. CASE ProcessNoop(w, k)
  BY <1>1, DoneType DEF ProcessNoop, Aside, TypeOK
<1>2. CASE ProcessExisting(w, k)
  BY <1>2, DoneType, RowUpdateType DEF ProcessExisting, Aside, TypeOK
<1>3. CASE BlockOnEarlier(w, k)
  <2>1. Blockers(k) \subseteq Keys  BY DEF Blockers
  <2> QED  BY <1>3, <2>1, DoneType, RowUpdateType DEF BlockOnEarlier, Aside, TypeOK
<1>4. CASE DueCharge(w, k)
  <2>1. charges' \in [Payments -> [ChargeEntries -> ChargeStates]]
    BY <1>4 DEF DueCharge, TypeOK, ChargeStates
  <2>2. journal' \in [Keys -> {"none", "posted", "reversed"}]
    BY <1>4 DEF DueCharge, TypeOK
  <2> QED  BY <1>4, <2>1, <2>2, DoneType, RowUpdateType DEF DueCharge, Ready, Aside, TypeOK
<1>5. CASE ChargeCancelled(w, k)
  <2>1. charges' \in [Payments -> [ChargeEntries -> ChargeStates]]
    BY <1>5 DEF ChargeCancelled, TypeOK, ChargeStates
  <2>2. journal' \in [Keys -> {"none", "posted", "reversed"}]
    BY <1>5 DEF ChargeCancelled, TypeOK
  <2> QED  BY <1>5, <2>1, <2>2, DoneType, RowUpdateType DEF ChargeCancelled, Ready, Aside, TypeOK
<1>6. CASE SettledExternal(w, k)
  BY <1>6, DoneType, RowUpdateType DEF SettledExternal, Ready, Aside, TypeOK
<1>7. CASE ChargeDocument(w, k)
  <2>1. charges' \in [Payments -> [ChargeEntries -> ChargeStates]]
    BY <1>7 DEF ChargeDocument, TypeOK, ChargeStates
  <2>2. journal' \in [Keys -> {"none", "posted", "reversed"}]
    BY <1>7 DEF ChargeDocument, TypeOK
  <2> QED  BY <1>7, <2>1, <2>2, DoneType, RowUpdateType DEF ChargeDocument, Ready, Aside, TypeOK
<1>8. CASE ReverseUnposted(w, k)
  <2>1. Original(k) \in Keys  BY OriginalOfReversal, ReversalOfBase
  <2> QED  BY <1>8, <2>1, DoneType, RowUpdateType DEF ReverseUnposted, Aside, TypeOK
<1>9. CASE PostReversal(w, k)
  <2>1. charges' \in [Payments -> [ChargeEntries -> ChargeStates]]
    BY <1>9 DEF PostReversal, ReversedReason, TypeOK, ChargeStates
  <2>2. journal' \in [Keys -> {"none", "posted", "reversed"}]
    BY <1>9 DEF PostReversal, TypeOK
  <2> QED  BY <1>9, <2>1, <2>2, DoneType, RowUpdateType DEF PostReversal, Aside, TypeOK
<1>10. CASE Fail(w, k)
  BY <1>10 DEF Fail, Turn, Aside, TypeOK, WorkerState
<1> QED  BY <1>1, <1>2, <1>3, <1>4, <1>5, <1>6, <1>7, <1>8, <1>9, <1>10 DEF ProcessRow

LEMMA NextType == TypeOK /\ [Next]_vars => TypeOK'
<1> SUFFICES ASSUME TypeOK, [Next]_vars PROVE TypeOK'  OBVIOUS
<1>1. ASSUME NEW w \in Workers, StartBatch(w) PROVE TypeOK'
  <2>1. First(BatchLimit, Selectable) \subseteq Keys  BY DEF First, Selectable
  <2> QED  BY <1>1, <2>1 DEF StartBatch, TypeOK, WorkerState
<1>2. ASSUME NEW w \in Workers, FinishBatch(w) PROVE TypeOK'
  BY <1>2 DEF FinishBatch, TypeOK, WorkerState, Idle
<1>3. ASSUME NEW w \in Workers, Crash(w) PROVE TypeOK'
  BY <1>3 DEF Crash, TypeOK, WorkerState, Idle
<1>4. ASSUME NEW w \in Workers, NEW k \in Keys, ProcessRow(w, k) PROVE TypeOK'
  BY <1>4, ProcessRowType
<1>5. ASSUME NEW w \in Workers, NEW permanent \in BOOLEAN, RecordFailure(w, permanent) PROVE TypeOK'
  <2>1. worker[w].err \in Keys  BY <1>5 DEF RecordFailure, TypeOK, WorkerState
  <2>2. outbox' \in [Keys -> Row]  BY <1>5, <2>1 DEF RecordFailure, TypeOK, Row, Statuses
  <2>3. worker' \in [Workers -> WorkerState]  BY <1>5 DEF RecordFailure, TypeOK, WorkerState
  <2> QED  BY <1>5, <2>2, <2>3 DEF RecordFailure, Aside, TypeOK
<1>6. ASSUME NEW k \in Keys, BackoffExpires(k) PROVE TypeOK'
  BY <1>6 DEF BackoffExpires, TypeOK, Row
<1>7. ASSUME NEW k \in Keys, Retry(k) PROVE TypeOK'
  <2>1. [outbox[k] EXCEPT !.st = "pending", !.att = 0, !.due = TRUE] \in Row
    BY DEF TypeOK, Row, Statuses
  <2>2. outbox' \in [Keys -> Row]  BY <1>7, <2>1 DEF Retry, TypeOK
  <2> QED  BY <1>7, <2>2 DEF Retry, TypeOK
<1>8. ASSUME NEW k \in Keys, Dismiss(k) PROVE TypeOK'
  BY <1>8 DEF Dismiss, TypeOK, Row, Statuses
<1>9. ASSUME NEW ks \in Feed, Emit(ks) PROVE TypeOK'
  BY <1>9, EmitType, EngineAssumption
<1>10. CASE UNCHANGED vars
  BY <1>10 DEF vars, TypeOK
<1> QED  BY <1>1, <1>2, <1>3, <1>4, <1>5, <1>6, <1>7, <1>8, <1>9, <1>10 DEF Next, EngineNext, WorkerStep, EmitAny

\* Every row, entry, marker and worker keeps its type, in particular the
\* statuses and reasons the tables' checks admit.
THEOREM TypeCorrect == Spec => []TypeOK
BY InitType, NextType, PTL DEF Spec

-----------------------------------------------------------------------------
(* The lock.                                                                *)

\* A row's transaction changes neither the lock nor the id sequence.
LEMMA AsideKept ==
    ASSUME NEW w \in Workers, NEW k \in Keys, ProcessRow(w, k)
    PROVE  nextId' = nextId /\ lock' = lock
<1>1. CASE ProcessNoop(w, k)  BY <1>1 DEF ProcessNoop, Aside
<1>2. CASE ProcessExisting(w, k)  BY <1>2 DEF ProcessExisting, Aside
<1>3. CASE BlockOnEarlier(w, k)  BY <1>3 DEF BlockOnEarlier, Aside
<1>4. CASE DueCharge(w, k)  BY <1>4 DEF DueCharge, Aside
<1>5. CASE ChargeCancelled(w, k)  BY <1>5 DEF ChargeCancelled, Aside
<1>6. CASE SettledExternal(w, k)  BY <1>6 DEF SettledExternal, Aside
<1>7. CASE ChargeDocument(w, k)  BY <1>7 DEF ChargeDocument, Aside
<1>8. CASE ReverseUnposted(w, k)  BY <1>8 DEF ReverseUnposted, Aside
<1>9. CASE PostReversal(w, k)  BY <1>9 DEF PostReversal, Aside
<1>10. CASE Fail(w, k)  BY <1>10 DEF Fail, Aside
<1> QED  BY <1>1, <1>2, <1>3, <1>4, <1>5, <1>6, <1>7, <1>8, <1>9, <1>10 DEF ProcessRow

LEMMA LockStep == TypeOK /\ OneBatchAtATime /\ [Next]_vars => OneBatchAtATime'
<1> SUFFICES ASSUME TypeOK, OneBatchAtATime, [Next]_vars PROVE OneBatchAtATime'  OBVIOUS
<1> USE EngineAssumption DEF OneBatchAtATime
<1>1. ASSUME NEW w \in Workers, StartBatch(w) PROVE OneBatchAtATime'
  BY <1>1 DEF StartBatch, TypeOK
<1>2. ASSUME NEW w \in Workers, FinishBatch(w) \/ Crash(w) PROVE OneBatchAtATime'
  BY <1>2 DEF FinishBatch, Crash, Idle, TypeOK
<1>3. ASSUME NEW w \in Workers, NEW k \in Keys, ProcessRow(w, k) PROVE OneBatchAtATime'
  <2>1. lock' = lock /\ \A v \in Workers : worker[v].pc = "idle" <=> worker'[v].pc = "idle"
    <3>1. lock' = lock  BY <1>3, AsideKept
    <3>2. CASE Fail(w, k)
      <4>1. worker' = [worker EXCEPT ![w] = [pc |-> "failing", todo |-> worker[w].todo \ {k}, err |-> k]]
            /\ worker[w].pc = "run"
        BY <3>2 DEF Fail, Turn
      <4> QED  BY <3>1, <4>1 DEF TypeOK
    <3>3. CASE ~Fail(w, k)
      <4>1. Turn(w, k) /\ Done(w, k)
        BY <1>3, <3>3 DEF ProcessRow, ProcessNoop, ProcessExisting, BlockOnEarlier, DueCharge, ChargeCancelled,
                  SettledExternal, ChargeDocument, ReverseUnposted, PostReversal, Ready
      <4> QED  BY <3>1, <4>1 DEF Turn, Done, TypeOK, WorkerState
    <3> QED  BY <3>1, <3>2, <3>3
  <2> QED  BY <2>1
<1>4. ASSUME NEW w \in Workers, NEW permanent \in BOOLEAN, RecordFailure(w, permanent) PROVE OneBatchAtATime'
  <2>1. lock' = lock /\ \A v \in Workers : worker[v].pc = "idle" <=> worker'[v].pc = "idle"
    BY <1>4 DEF RecordFailure, Aside, TypeOK, WorkerState
  <2> QED  BY <2>1
<1>5. ASSUME NEW k \in Keys, BackoffExpires(k) \/ Retry(k) \/ Dismiss(k) PROVE OneBatchAtATime'
  BY <1>5 DEF BackoffExpires, Retry, Dismiss
<1>6. ASSUME NEW ks \in Feed, Emit(ks) PROVE OneBatchAtATime'
  BY <1>6 DEF Emit
<1>7. CASE UNCHANGED vars
  BY <1>7 DEF vars
<1> QED  BY <1>1, <1>2, <1>3, <1>4, <1>5, <1>6, <1>7 DEF Next, EngineNext, WorkerStep, EmitAny

\* Whatever crashes, at most one process posts the account, and it holds the
\* account's lock: the atomic row actions rest on it.
THEOREM LockCorrect == Spec => []OneBatchAtATime
<1>1. Init => OneBatchAtATime  BY EngineAssumption DEF Init, OneBatchAtATime, Idle
<1> QED  BY <1>1, LockStep, TypeCorrect, PTL DEF Spec

-----------------------------------------------------------------------------
(* The queue.                                                               *)

\* What a row's transaction may do to the queue: only the row itself changes,
\* it keeps its id, and it is settled or made to wait.
Settles(k) ==
    /\ Pending(k)
    /\ outbox'[k].id = outbox[k].id /\ outbox'[k].blk = NoKey
    /\ outbox'[k].st \in {"posted", "skipped"}

Waits(k) ==
    \E b \in Keys :
        /\ outbox'[k].id = outbox[k].id /\ outbox'[k].st = outbox[k].st /\ outbox'[k].blk = b
        /\ Pending(k) /\ Open(b)
        /\ \/ outbox[b].id < outbox[k].id
           \/ k.rev /\ b = Original(k)

LEMMA RowStep ==
    ASSUME TypeOK, NEW w \in Workers, NEW k \in Keys, ProcessRow(w, k)
    PROVE  /\ \A j \in Keys \ {k} : outbox'[j] = outbox[j]
           /\ outbox'[k] = outbox[k] \/ Settles(k) \/ Waits(k)
           /\ Settles(k) => HasEntry(k) \/ Blockers(k) = {} \/ k.rev
<1> DEFINE Goal == /\ \A j \in Keys \ {k} : outbox'[j] = outbox[j]
                   /\ outbox'[k] = outbox[k] \/ Settles(k) \/ Waits(k)
                   /\ Settles(k) => HasEntry(k) \/ Blockers(k) = {} \/ k.rev
<1>1. ASSUME outbox' = outbox, ~Settles(k) \/ HasEntry(k) \/ Blockers(k) = {} \/ k.rev
      PROVE  Goal
  BY <1>1
<1>2. ASSUME MarkPosted(k) \/ MarkSkipped(k), Pending(k), HasEntry(k) \/ Blockers(k) = {} \/ k.rev
      PROVE  Goal
  <2>1. \A j \in Keys \ {k} : outbox'[j] = outbox[j]
    BY <1>2 DEF MarkPosted, MarkSkipped, TypeOK
  <2>2. Settles(k)
    BY <1>2 DEF MarkPosted, MarkSkipped, TypeOK, Settles, Row
  <2> QED  BY <2>1, <2>2, <1>2
<1>3. ASSUME NEW b \in Keys, Block(k, b), Pending(k), Open(b),
             outbox[b].id < outbox[k].id \/ (k.rev /\ b = Original(k))
      PROVE  Goal
  <2>1. \A j \in Keys \ {k} : outbox'[j] = outbox[j]
    BY <1>3 DEF Block, TypeOK
  <2>2. Waits(k)  BY <1>3 DEF Block, TypeOK, Waits, Row
  <2>3. outbox'[k].st = outbox[k].st  BY <1>3 DEF Block, TypeOK, Row
  <2> QED  BY <2>1, <2>2, <2>3, <1>3 DEF Settles, Pending
<1> SUFFICES Goal  OBVIOUS
<1> HIDE DEF Goal
<1>4. CASE ProcessNoop(w, k)
  BY <1>4, <1>1 DEF ProcessNoop, Settles
<1>5. CASE ProcessExisting(w, k)
  BY <1>5, <1>2 DEF ProcessExisting
<1>6. CASE BlockOnEarlier(w, k)
  <2>1. PICK b \in Blockers(k) : Block(k, b)  BY <1>6 DEF BlockOnEarlier
  <2>2. b \in Keys /\ Open(b) /\ outbox[b].id < outbox[k].id  BY <2>1 DEF Blockers
  <2> QED  BY <1>6, <2>1, <2>2, <1>3 DEF BlockOnEarlier
<1>7. CASE DueCharge(w, k)
  BY <1>7, <1>2 DEF DueCharge, Ready
<1>8. CASE ChargeCancelled(w, k)
  BY <1>8, <1>2 DEF ChargeCancelled, Ready
<1>9. CASE SettledExternal(w, k)
  BY <1>9, <1>2 DEF SettledExternal, Ready
<1>10. CASE ChargeDocument(w, k)
  BY <1>10, <1>2 DEF ChargeDocument, Ready
<1>11. CASE ReverseUnposted(w, k)
  <2>1. Original(k) \in Keys  BY OriginalOfReversal, ReversalOfBase
  <2> QED  BY <1>11, <2>1, <1>2, <1>3 DEF ReverseUnposted
<1>12. CASE PostReversal(w, k)
  BY <1>12, <1>2 DEF PostReversal
<1>13. CASE Fail(w, k)
  <2>1. outbox' = outbox  BY <1>13 DEF Fail
  <2>2. ~Settles(k)  BY <1>13, <2>1 DEF Fail, Settles, Pending
  <2> QED  BY <2>1, <2>2, <1>1
<1> QED  BY <1>4, <1>5, <1>6, <1>7, <1>8, <1>9, <1>10, <1>11, <1>12, <1>13 DEF ProcessRow

\* What the record of a failure, the clock and the screen do: an open row stays
\* open or is dismissed, and the books are left alone.
Handles(k) ==
    /\ nextId' = nextId /\ journal' = journal /\ charges' = charges
    /\ \A j \in Keys \ {k} : outbox'[j] = outbox[j]
    /\ outbox'[k].id = outbox[k].id /\ outbox'[k].blk = outbox[k].blk
    /\ Open(k) /\ outbox'[k].st \in {"pending", "failed", "dismissed"}

LEMMA RecordedRow ==
    ASSUME TypeOK, NEW w \in Workers, NEW permanent \in BOOLEAN, RecordFailure(w, permanent)
    PROVE  \/ \E k \in Keys : Handles(k)
           \/ UNCHANGED <<outbox, nextId, journal, charges>>
<1> DEFINE k == worker[w].err
<1>1. k \in Keys  BY DEF RecordFailure, TypeOK, WorkerState
<1>2. nextId' = nextId /\ journal' = journal /\ charges' = charges  BY DEF RecordFailure, Aside
<1>3. CASE ~Pending(k)
  BY <1>2, <1>3 DEF RecordFailure
<1>4. CASE Pending(k)
  <2>1. \A j \in Keys \ {k} : outbox'[j] = outbox[j]
    BY <1>1, <1>4 DEF RecordFailure, TypeOK
  <2>2. /\ outbox'[k].id = outbox[k].id /\ outbox'[k].blk = outbox[k].blk
        /\ outbox'[k].st \in {"pending", "failed", "dismissed"}
    BY <1>1, <1>4 DEF RecordFailure, TypeOK, Row
  <2>3. Open(k)  BY <1>4 DEF Open, Pending
  <2> HIDE DEF k
  <2> QED  BY <1>1, <1>2, <2>1, <2>2, <2>3 DEF Handles
<1> QED  BY <1>3, <1>4

LEMMA HandledRow ==
    ASSUME TypeOK, NEW k \in Keys, BackoffExpires(k) \/ Retry(k) \/ Dismiss(k)
    PROVE  Handles(k)
<1>1. CASE BackoffExpires(k)
  <2>1. \A j \in Keys \ {k} : outbox'[j] = outbox[j]  BY <1>1 DEF BackoffExpires, TypeOK
  <2>2. outbox'[k].id = outbox[k].id /\ outbox'[k].blk = outbox[k].blk /\ outbox'[k].st = outbox[k].st
    BY <1>1 DEF BackoffExpires, TypeOK, Row
  <2> QED  BY <1>1, <2>1, <2>2 DEF BackoffExpires, Pending, Open, Handles
<1>2. CASE Retry(k)
  <2> DEFINE r == [outbox[k] EXCEPT !.st = "pending", !.att = 0, !.due = TRUE]
  <2>1. r.id = outbox[k].id /\ r.blk = outbox[k].blk /\ r.st = "pending"
    BY DEF TypeOK, Row
  <2>2. outbox' = [outbox EXCEPT ![k] = r]  BY <1>2 DEF Retry
  <2> HIDE DEF r
  <2>3. (\A j \in Keys \ {k} : outbox'[j] = outbox[j]) /\ outbox'[k] = r  BY <2>2 DEF TypeOK
  <2> QED  BY <1>2, <2>1, <2>3 DEF Retry, Handles
<1>3. CASE Dismiss(k)
  <2>1. \A j \in Keys \ {k} : outbox'[j] = outbox[j]  BY <1>3 DEF Dismiss, TypeOK
  <2>2. outbox'[k].id = outbox[k].id /\ outbox'[k].blk = outbox[k].blk /\ outbox'[k].st = "dismissed"
    BY <1>3 DEF Dismiss, TypeOK, Row
  <2> QED  BY <1>3, <2>1, <2>2 DEF Dismiss, Handles
<1> QED  BY <1>1, <1>2, <1>3

\* What any step but an insert may do to the queue.
RowsMove ==
    /\ nextId' = nextId
    /\ \A j \in Keys :
        /\ outbox'[j].id = outbox[j].id
        /\ InQueue(j)' <=> InQueue(j)
        /\ Open(j)' => Open(j)
        /\ outbox'[j].blk \in {outbox[j].blk, NoKey} \/ Waits(j)
        /\ outbox'[j].st \in {"posted", "skipped"} => outbox'[j].st = outbox[j].st \/ Settles(j)
        /\ Settles(j) => HasEntry(j) \/ Blockers(j) = {} \/ j.rev

LEMMA EngineMovesRows == TypeOK /\ (EngineNext \/ UNCHANGED vars) => RowsMove
<1> SUFFICES ASSUME TypeOK, EngineNext \/ UNCHANGED vars PROVE RowsMove  OBVIOUS
<1> USE DEF RowsMove
<1>1. ASSUME outbox' = outbox, nextId' = nextId PROVE RowsMove
  BY <1>1 DEF InQueue, Open, Settles, Pending
<1>2. ASSUME NEW w \in Workers, StartBatch(w) \/ FinishBatch(w) \/ Crash(w) PROVE RowsMove
  BY <1>1, <1>2 DEF StartBatch, FinishBatch, Crash
<1>3. ASSUME NEW w \in Workers, NEW k \in Keys, ProcessRow(w, k) PROVE RowsMove
  <2>1. nextId' = nextId  BY <1>3, AsideKept
  <2>2. \A j \in Keys \ {k} : outbox'[j] = outbox[j]  BY <1>3, RowStep
  <2>3. outbox'[k] = outbox[k] \/ Settles(k) \/ Waits(k)  BY <1>3, RowStep
  <2>4. Settles(k) => HasEntry(k) \/ Blockers(k) = {} \/ k.rev  BY <1>3, RowStep
  <2> QED  BY <2>1, <2>2, <2>3, <2>4 DEF InQueue, Open, Settles, Waits, Pending
<1>4. ASSUME NEW k \in Keys, Handles(k) PROVE RowsMove
  BY <1>4 DEF Handles, InQueue, Open, Settles, Pending
<1>5. ASSUME NEW w \in Workers, NEW permanent \in BOOLEAN, RecordFailure(w, permanent) PROVE RowsMove
  BY <1>1, <1>4, <1>5, RecordedRow
<1>6. ASSUME NEW k \in Keys, BackoffExpires(k) \/ Retry(k) \/ Dismiss(k) PROVE RowsMove
  BY <1>4, <1>6, HandledRow
<1>7. CASE UNCHANGED vars
  BY <1>7, <1>1 DEF vars
<1> QED  BY <1>2, <1>3, <1>5, <1>6, <1>7 DEF EngineNext, WorkerStep

\* What an insert does to it.
LEMMA InsertRows ==
    ASSUME TypeOK, NEW ks \in Seq(Keys), Emit(ks)
    PROVE  /\ nextId' \in Nat /\ nextId <= nextId'
           /\ \A j \in Keys :
                \/ outbox'[j] = outbox[j] /\ (InQueue(j) \/ j \notin Range(ks))
                \/ /\ ~InQueue(j) /\ j \in Range(ks)
                   /\ outbox'[j].st = "pending" /\ outbox'[j].blk = NoKey
                   /\ outbox'[j].id \in nextId..(nextId' - 1)
<1>1. Len(ks) \in Nat /\ nextId \in Nat  BY DEF TypeOK
<1>2. nextId' \in Nat /\ nextId <= nextId'  BY <1>1 DEF Emit
<1>3. ASSUME NEW j \in Keys, InQueue(j) \/ j \notin Range(ks) PROVE outbox'[j] = outbox[j]
  BY <1>3 DEF Emit
<1>4. ASSUME NEW j \in Keys, ~InQueue(j), j \in Range(ks)
      PROVE  /\ outbox'[j].st = "pending" /\ outbox'[j].blk = NoKey
             /\ outbox'[j].id \in nextId..(nextId' - 1)
  <2>1. outbox'[j] = NewRow(IdIn(ks, j))  BY <1>4 DEF Emit
  <2>2. nextId' = nextId + Len(ks)  BY <1>4 DEF Emit
  <2>3. IdIn(ks, j) \in nextId..(nextId + Len(ks) - 1)  BY <1>4, NewRowType
  <2>4. NewRow(IdIn(ks, j)).id = IdIn(ks, j) /\ NewRow(IdIn(ks, j)).st = "pending" /\ NewRow(IdIn(ks, j)).blk = NoKey
    BY DEF NewRow
  <2> QED  BY <1>1, <2>1, <2>2, <2>3, <2>4
<1> QED  BY <1>2, <1>3, <1>4

QueueInv == QueueOrder /\ WaitsForEarlier

LEMMA QueueStep == TypeOK /\ QueueInv /\ RowsMove => QueueInv'
<1> SUFFICES ASSUME TypeOK, QueueInv, RowsMove PROVE QueueInv'  OBVIOUS
<1>1. ASSUME NEW k \in Keys
      PROVE  /\ outbox'[k].id \in IF InQueue(k)' THEN 1..(nextId' - 1) ELSE {0}
             /\ InQueue(k)' /\ k.rev => InQueue(Original(k))' /\ outbox'[Original(k)].id < outbox'[k].id
  <2>1. Original(k) \in Keys  BY OriginalOfReversal, ReversalOfBase
  <2> QED  BY <2>1 DEF QueueInv, QueueOrder, RowsMove
<1>2. ASSUME NEW k \in Keys, outbox'[k].blk # NoKey
      PROVE  outbox'[outbox'[k].blk].id \in 1..(outbox'[k].id - 1)
  <2>1. CASE outbox'[k].blk = outbox[k].blk
    <3>1. outbox[k].blk \in Keys  BY <1>2, <2>1 DEF TypeOK, Row
    <3> QED  BY <1>2, <2>1, <3>1 DEF QueueInv, WaitsForEarlier, RowsMove
  <2>2. CASE Waits(k)
    <3>1. PICK b \in Keys : /\ outbox'[k].blk = b /\ Pending(k) /\ Open(b)
                            /\ outbox[b].id < outbox[k].id \/ (k.rev /\ b = Original(k))
      BY <2>2 DEF Waits
    <3>2. InQueue(b) /\ InQueue(k)  BY <3>1 DEF Open, Pending, InQueue
    <3>3. outbox[b].id < outbox[k].id /\ outbox[b].id \in 1..(nextId - 1) /\ outbox[k].id \in 1..(nextId - 1)
      BY <3>1, <3>2 DEF QueueInv, QueueOrder
    <3>4. outbox'[b].id = outbox[b].id /\ outbox'[k].id = outbox[k].id  BY DEF RowsMove
    <3> QED  BY <3>1, <3>3, <3>4 DEF TypeOK
  <2> QED  BY <1>2, <2>1, <2>2 DEF RowsMove
<1> QED  BY <1>1, <1>2 DEF QueueInv, QueueOrder, WaitsForEarlier

LEMMA QueueInsert ==
    ASSUME TypeOK, QueueInv, NEW ks \in Seq(Keys), Emit(ks),
           \A k \in Range(ks) : k.rev => InQueue(Original(k))
    PROVE  QueueInv'
<1>1. nextId \in Nat \ {0} /\ nextId' \in Nat /\ nextId <= nextId'  BY InsertRows DEF TypeOK
<1>2. ASSUME NEW k \in Keys, InQueue(k) PROVE outbox'[k] = outbox[k]  BY <1>2, InsertRows
<1>3. ASSUME NEW k \in Keys
      PROVE  /\ outbox'[k].id \in IF InQueue(k)' THEN 1..(nextId' - 1) ELSE {0}
             /\ InQueue(k)' /\ k.rev => InQueue(Original(k))' /\ outbox'[Original(k)].id < outbox'[k].id
  <2>1. Original(k) \in Keys  BY OriginalOfReversal, ReversalOfBase
  <2>2. CASE InQueue(k)
    <3>1. outbox[k].id \in 1..(nextId - 1)  BY <2>2 DEF QueueInv, QueueOrder
    <3>2. ASSUME k.rev PROVE InQueue(Original(k)) /\ outbox[Original(k)].id < outbox[k].id
      BY <2>2, <3>2 DEF QueueInv, QueueOrder
    <3> QED  BY <1>1, <1>2, <2>1, <2>2, <3>1, <3>2 DEF InQueue
  <2>3. CASE ~InQueue(k) /\ k \in Range(ks)
    <3>1. outbox'[k].st = "pending" /\ outbox'[k].id \in nextId..(nextId' - 1)
      BY <2>3, InsertRows
    <3>2. ASSUME k.rev PROVE InQueue(Original(k)) /\ outbox[Original(k)].id \in 1..(nextId - 1)
      BY <2>1, <2>3, <3>2 DEF QueueInv, QueueOrder
    <3> QED  BY <1>1, <1>2, <2>1, <3>1, <3>2 DEF InQueue
  <2>4. CASE ~InQueue(k) /\ k \notin Range(ks)
    <3>1. outbox'[k] = outbox[k]  BY <2>4, InsertRows
    <3>2. outbox[k].id = 0  BY <2>4 DEF QueueInv, QueueOrder
    <3> QED  BY <2>4, <3>1, <3>2 DEF InQueue
  <2> QED  BY <2>2, <2>3, <2>4
<1>4. ASSUME NEW k \in Keys, outbox'[k].blk # NoKey
      PROVE  outbox'[outbox'[k].blk].id \in 1..(outbox'[k].id - 1)
  <2>1. outbox'[k] = outbox[k]  BY <1>4, InsertRows
  <2>2. outbox[k].blk \in Keys  BY <1>4, <2>1 DEF TypeOK, Row
  <2>3. outbox[outbox[k].blk].id \in 1..(outbox[k].id - 1)
    BY <1>4, <2>1 DEF QueueInv, WaitsForEarlier
  <2>4. InQueue(outbox[k].blk)  BY <2>2, <2>3 DEF QueueInv, QueueOrder
  <2> QED  BY <1>2, <2>1, <2>2, <2>3, <2>4
<1> QED  BY <1>3, <1>4 DEF QueueInv, QueueOrder, WaitsForEarlier

-----------------------------------------------------------------------------
(* The books.                                                               *)

BookInv == PostedOnce /\ ReversalPairing /\ MarkersAgree /\ EntriesAreMarked

\* Steps that post nothing, or only find what is posted.
LEMMA BookKept ==
    ASSUME BookInv, journal' = journal, charges' = charges,
           \A k \in Keys : /\ outbox[k].st = "posted" => outbox'[k].st = "posted"
                           /\ outbox'[k].st = "posted" => outbox[k].st = "posted" \/ HasEntry(k)
    PROVE  BookInv'
<1>1. PostedOnce'
  <2>1. BaseKeys \subseteq Keys /\ ReversalKeys \subseteq Keys  BY DEF Keys
  <2>2. ASSUME NEW k \in BaseKeys PROVE outbox'[k].st = "posted" <=> HasEntry(k)'
    BY <2>1 DEF BookInv, PostedOnce, HasEntry
  <2>3. ASSUME NEW k \in ReversalKeys PROVE outbox'[k].st = "posted" => HasEntry(k)'
    BY <2>1 DEF BookInv, PostedOnce, HasEntry
  <2> QED  BY <2>2, <2>3 DEF PostedOnce
<1>2. ReversalPairing'  BY DEF BookInv, ReversalPairing, HasEntry
<1>3. MarkersAgree'  BY DEF BookInv, MarkersAgree, MarkerFits, Active, HasEntry
<1>4. EntriesAreMarked'  BY DEF BookInv, EntriesAreMarked
<1> QED  BY <1>1, <1>2, <1>3, <1>4 DEF BookInv

LEMMA ChargeEntryFacts ==
    ASSUME NEW k \in ChargeEntries
    PROVE  /\ k \in BaseKeys /\ k \in Keys
           /\ k.event \in {"charge", "confirmed"}
           /\ k.event = "charge" => k.src \in Payments /\ PaymentIds(k) = {k.src}
           /\ k.event = "confirmed" => k = ConfirmKey(k.src) /\ PaymentIds(k) = Covers[k.src] /\ k.src \in Docs
BY KeyFields, ReversalOfBase, PaymentIdsType DEF ChargeEntries

\* An entry of the row's own key is posted: what that does to the rows.
LEMMA RowPosted ==
    ASSUME TypeOK, NEW k \in Keys, MarkPosted(k)
    PROVE  outbox'[k].st = "posted" /\ \A j \in Keys \ {k} : outbox'[j] = outbox[j]
BY DEF TypeOK, MarkPosted, Row

\* A base event books its own entry and nothing else.
LEMMA BaseBooked ==
    ASSUME TypeOK, PostedOnce, ReversalPairing, NEW k \in BaseKeys, MarkPosted(k), ~HasEntry(k),
           journal' = [journal EXCEPT ![k] = "posted"]
    PROVE  PostedOnce' /\ ReversalPairing'
<1>1. outbox'[k].st = "posted" /\ \A j \in Keys \ {k} : outbox'[j] = outbox[j]
  BY RowPosted, ReversalOfBase
<1>2. journal'[k] = "posted" /\ \A j \in Keys \ {k} : journal'[j] = journal[j]
  BY ReversalOfBase DEF TypeOK
<1>3. PostedOnce'
  BY <1>1, <1>2 DEF PostedOnce, HasEntry, Keys
<1>4. ReversalPairing'
  <2> SUFFICES ASSUME NEW j \in BaseKeys
               PROVE  /\ journal'[j] = "reversed" <=> HasEntry(Reversal(j))'
                      /\ journal'[Reversal(j)] # "reversed"
    BY DEF ReversalPairing
  <2>1. j \in Keys /\ Reversal(j) \in Keys /\ Reversal(j) # k /\ Reversal(k) # k
    BY ReversalOfBase
  <2>2. CASE j = k
    BY <1>2, <2>1, <2>2 DEF ReversalPairing, HasEntry
  <2>3. CASE j # k
    BY <1>2, <2>1, <2>3 DEF ReversalPairing, HasEntry
  <2> QED  BY <2>2, <2>3
<1> QED  BY <1>3, <1>4

LEMMA BookDueCharge ==
    ASSUME TypeOK, BookInv, NEW w \in Workers, NEW k \in BaseKeys, DueCharge(w, k), MarkPosted(k),
           ~HasEntry(k), ~Charged(k.src),
           journal' = [journal EXCEPT ![k] = "posted"],
           charges' = [charges EXCEPT ![k.src] = [charges[k.src] EXCEPT ![k] = "active"]]
    PROVE  BookInv'
<1>1. PostedOnce' /\ ReversalPairing'  BY BaseBooked DEF BookInv
<1>2. k.event = "charge" /\ k \in ChargeEntries  BY DEF DueCharge, ChargeEntries, Ready
<1>3. k \in Keys /\ k.src \in Payments /\ PaymentIds(k) = {k.src}  BY <1>2, ChargeEntryFacts
<1>4. journal'[k] = "posted" /\ \A j \in Keys \ {k} : journal'[j] = journal[j]
  BY <1>3 DEF TypeOK
<1>5. /\ charges'[k.src][k] = "active"
      /\ \A p \in Payments : \A c \in ChargeEntries : (p # k.src \/ c # k) => charges'[p][c] = charges[p][c]
  BY <1>2, <1>3 DEF TypeOK
<1>6. \A c \in ChargeEntries : charges[k.src][c] # "active"
  BY DEF Charged, Active
<1>7. CancelKey(k.src) \in Keys
  BY <1>3 DEF Keys, BaseKeys, PaymentKeys
<1>8. MarkersAgree'
  <2>1. ASSUME NEW p \in Payments, NEW i \in ChargeEntries, NEW j \in ChargeEntries,
               charges'[p][i] = "active", charges'[p][j] = "active"
        PROVE  i = j
    BY <2>1, <1>5, <1>6 DEF BookInv, MarkersAgree, Active
  <2>2. ASSUME NEW p \in Payments, NEW c \in ChargeEntries
        PROVE  MarkerFits(p, c)'
    <3>1. c \in Keys /\ CancelKey(p) \in Keys
      BY ChargeEntryFacts DEF Keys, BaseKeys, PaymentKeys
    <3>2. CASE p = k.src /\ c = k
      BY <3>2, <1>2, <1>3, <1>4, <1>5 DEF HasEntry, MarkerFits
    <3>3. CASE p # k.src \/ c # k
      <4>1. charges'[p][c] = charges[p][c]  BY <3>3, <1>5
      <4>2. journal'[c] = journal[c] \/ charges[p][c] = "none"
        BY <1>4, <3>1 DEF BookInv, MarkersAgree, MarkerFits
      <4>3. HasEntry(CancelKey(p)) => HasEntry(CancelKey(p))'
        BY <1>4, <3>1 DEF HasEntry
      <4> QED  BY <4>1, <4>2, <4>3 DEF BookInv, MarkersAgree, MarkerFits, HasEntry
    <3> QED  BY <3>2, <3>3
  <2> QED  BY <2>1, <2>2 DEF MarkersAgree, Active
<1>9. EntriesAreMarked'
  <2> SUFFICES ASSUME NEW p \in Payments, NEW c \in ChargeEntries, journal'[c] = "posted", p \in PaymentIds(c)
               PROVE  \/ charges'[p][c] \in {"active", "cancelled"}
                      \/ c.event = "confirmed" /\ \E d \in Docs \ {c.src} : p \in Covers[d]
    BY DEF EntriesAreMarked
  <2>1. CASE c = k
    BY <2>1, <1>3, <1>5
  <2>2. CASE c # k
    <3>1. c \in Keys  BY ChargeEntryFacts
    <3> QED  BY <2>2, <3>1, <1>4, <1>5 DEF BookInv, EntriesAreMarked
  <2> QED  BY <2>1, <2>2
<1> QED  BY <1>1, <1>8, <1>9 DEF BookInv

LEMMA BookSettlement ==
    ASSUME TypeOK, BookInv, NEW k \in BaseKeys, MarkPosted(k), ~HasEntry(k),
           k.event = "settled_external",
           journal' = [journal EXCEPT ![k] = "posted"], charges' = charges
    PROVE  BookInv'
<1>1. PostedOnce' /\ ReversalPairing'  BY BaseBooked DEF BookInv
<1>2. \A j \in Keys : journal'[j] = IF j = k THEN "posted" ELSE journal[j]
  BY DEF TypeOK
<1>3. \A c \in ChargeEntries : c \in Keys /\ journal'[c] = journal[c]
  BY <1>2, ChargeEntryFacts
<1>4. ASSUME NEW p \in Payments, NEW c \in ChargeEntries PROVE MarkerFits(p, c)'
  <2>1. CancelKey(p) \in Keys  BY DEF Keys, BaseKeys, PaymentKeys
  <2> QED  BY <1>2, <1>3, <2>1 DEF BookInv, MarkersAgree, MarkerFits, HasEntry
<1>5. MarkersAgree'  BY <1>4 DEF BookInv, MarkersAgree, Active
<1>6. EntriesAreMarked'  BY <1>3 DEF BookInv, EntriesAreMarked
<1> QED  BY <1>1, <1>5, <1>6 DEF BookInv

LEMMA BookCancellation ==
    ASSUME TypeOK, BookInv, NEW k \in BaseKeys, MarkPosted(k), ~HasEntry(k),
           k.event = "charge_cancelled", ~ByDocument(k.src),
           journal' = [journal EXCEPT ![k] = "posted"],
           charges' = [charges EXCEPT ![k.src] =
                [c \in ChargeEntries |-> IF charges[k.src][c] = "active" THEN "cancelled" ELSE charges[k.src][c]]]
    PROVE  BookInv'
<1>1. PostedOnce' /\ ReversalPairing'  BY BaseBooked DEF BookInv
<1>2. \A j \in Keys : journal'[j] = IF j = k THEN "posted" ELSE journal[j]
  BY DEF TypeOK
<1>3. \A c \in ChargeEntries : c \in Keys /\ journal'[c] = journal[c]
  BY <1>2, ChargeEntryFacts
<1>4. k.src \in Payments /\ k = CancelKey(k.src) /\ k \in Keys  BY KeyFields, ReversalOfBase
<1>5. \A p \in Payments : \A c \in ChargeEntries :
        charges'[p][c] = IF p = k.src /\ charges[p][c] = "active" THEN "cancelled" ELSE charges[p][c]
  BY <1>4 DEF TypeOK
<1>6. ASSUME NEW p \in Payments, NEW c \in ChargeEntries PROVE MarkerFits(p, c)'
  <2>1. CancelKey(p) \in Keys  BY DEF Keys, BaseKeys, PaymentKeys
  <2>2. HasEntry(CancelKey(p)) => HasEntry(CancelKey(p))'  BY <1>2, <2>1 DEF HasEntry
  <2>3. HasEntry(CancelKey(k.src))'  BY <1>2, <1>4 DEF HasEntry
  <2>4. MarkerFits(p, c)  BY DEF BookInv, MarkersAgree
  <2>5. CASE p = k.src /\ charges[p][c] = "active"
    <3>1. c.event # "confirmed"  BY <2>5 DEF ByDocument, Active
    <3>2. c.event = "charge"  BY <3>1, ChargeEntryFacts
    <3> QED  BY <1>3, <1>5, <2>3, <2>4, <2>5, <3>2 DEF MarkerFits, HasEntry
  <2>6. CASE ~(p = k.src /\ charges[p][c] = "active")
    BY <1>3, <1>5, <2>2, <2>4, <2>6 DEF MarkerFits, HasEntry
  <2> QED  BY <2>5, <2>6
<1>7. MarkersAgree'  BY <1>5, <1>6 DEF BookInv, MarkersAgree, Active
<1>8. EntriesAreMarked'  BY <1>3, <1>5 DEF BookInv, EntriesAreMarked
<1> QED  BY <1>1, <1>7, <1>8 DEF BookInv

LEMMA BookReversal ==
    ASSUME TypeOK, BookInv, NEW o \in BaseKeys, NEW k \in Keys, k = Reversal(o),
           ~HasEntry(k), journal[o] = "posted",
           outbox'[k].st = "posted", \A j \in Keys \ {k} : outbox'[j] = outbox[j],
           journal'[k] = "posted", journal'[o] = "reversed",
           \A j \in Keys \ {k, o} : journal'[j] = journal[j],
           \A p \in Payments : \A c \in ChargeEntries :
                charges'[p][c] = IF c = o /\ charges[p][c] = "active" THEN ReversedReason(o) ELSE charges[p][c]
    PROVE  BookInv'
<1>1. k \in Keys /\ o \in Keys /\ k # o /\ k \in ReversalKeys /\ k \notin BaseKeys /\ Original(k) = o
  BY ReversalOfBase
<1>2. \A j \in BaseKeys : j \in Keys /\ Reversal(j) \in Keys /\ Reversal(j) \notin BaseKeys /\ (Reversal(j) = k => j = o)
  BY ReversalOfBase
<1>3. ASSUME NEW j \in Keys, HasEntry(j) PROVE HasEntry(j)'
  BY <1>3 DEF HasEntry
<1>4. ASSUME NEW j \in Keys \ {k}, HasEntry(j)' PROVE HasEntry(j)
  BY <1>4 DEF HasEntry
<1>5. PostedOnce'
  <2>1. ASSUME NEW j \in BaseKeys PROVE outbox'[j].st = "posted" <=> HasEntry(j)'
    <3>1. j \in Keys /\ j # k  BY <1>1, <1>2
    <3>2. outbox'[j] = outbox[j]  BY <3>1
    <3>3. outbox[j].st = "posted" <=> HasEntry(j)  BY DEF BookInv, PostedOnce
    <3> QED  BY <1>3, <1>4, <3>1, <3>2, <3>3
  <2>2. ASSUME NEW j \in ReversalKeys, outbox'[j].st = "posted" PROVE HasEntry(j)'
    <3>1. j \in Keys  BY DEF Keys
    <3>2. CASE j = k  BY <3>2 DEF HasEntry
    <3>3. CASE j # k  BY <1>3, <2>2, <3>1, <3>3 DEF BookInv, PostedOnce
    <3> QED  BY <3>2, <3>3
  <2> QED  BY <2>1, <2>2 DEF PostedOnce
<1>6. ReversalPairing'
  <2> SUFFICES ASSUME NEW j \in BaseKeys
               PROVE  /\ journal'[j] = "reversed" <=> HasEntry(Reversal(j))'
                      /\ journal'[Reversal(j)] # "reversed"
    BY DEF ReversalPairing
  <2>1. CASE j = o
    BY <1>1, <2>1 DEF HasEntry
  <2>2. CASE j # o
    <3>1. j \in Keys \ {k, o} /\ Reversal(j) \in Keys \ {k, o}  BY <1>1, <1>2, <2>2
    <3>2. journal'[j] = journal[j] /\ journal'[Reversal(j)] = journal[Reversal(j)]  BY <3>1
    <3> QED  BY <3>2 DEF BookInv, ReversalPairing, HasEntry
  <2> QED  BY <2>1, <2>2
<1>7. ASSUME NEW p \in Payments, NEW c \in ChargeEntries PROVE MarkerFits(p, c)'
  <2>1. CancelKey(p) \in Keys  BY DEF Keys, BaseKeys, PaymentKeys
  <2>2. HasEntry(CancelKey(p)) => HasEntry(CancelKey(p))'  BY <1>3, <2>1
  <2>3. MarkerFits(p, c)  BY DEF BookInv, MarkersAgree
  <2>4. c \in Keys /\ c # k  BY ChargeEntryFacts, <1>1
  <2>5. CASE c = o /\ charges[p][c] = "active"
    <3>1. charges'[p][c] \in {"reversed", "document_reversed"}
      BY <2>5 DEF ReversedReason
    <3>2. p \in PaymentIds(c)  BY <2>3, <2>5 DEF MarkerFits
    <3> QED  BY <2>5, <3>1, <3>2 DEF MarkerFits, HasEntry
  <2>6. CASE c = o /\ charges[p][c] # "active"
    <3>1. charges'[p][c] = charges[p][c]  BY <2>6
    <3> QED  BY <2>2, <2>3, <2>6, <3>1 DEF MarkerFits, HasEntry
  <2>7. CASE c # o
    <3>1. charges'[p][c] = charges[p][c] /\ journal'[c] = journal[c]  BY <2>4, <2>7
    <3> QED  BY <2>2, <2>3, <3>1 DEF MarkerFits, HasEntry
  <2> QED  BY <2>5, <2>6, <2>7
<1>8. MarkersAgree'
  <2>1. \A p \in Payments : \A c \in ChargeEntries : charges'[p][c] = "active" => charges[p][c] = "active"
    BY DEF ReversedReason
  <2> QED  BY <1>7, <2>1 DEF BookInv, MarkersAgree, Active
<1>9. EntriesAreMarked'
  <2>1. ASSUME NEW c \in ChargeEntries, journal'[c] = "posted" PROVE c # o /\ journal[c] = "posted"
    <3>1. c \in Keys /\ c # k  BY ChargeEntryFacts, <1>1
    <3> QED  BY <2>1, <3>1
  <2> QED  BY <2>1 DEF BookInv, EntriesAreMarked
<1> QED  BY <1>5, <1>6, <1>8, <1>9 DEF BookInv

\* The charges a document replaces are the active due-date charges of the
\* installments it takes over, each of its own installment.
LEMMA ReplacedCharges ==
    ASSUME MarkersAgree, NEW d \in Docs
    PROVE  /\ \A c \in Replaced(d) :
                /\ c \in ChargeEntries /\ c \in BaseKeys /\ c.event = "charge"
                /\ c.src \in Covers[d] /\ ~ByDocument(c.src) /\ charges[c.src][c] = "active"
           /\ \A p \in Covers[d] : \A c \in ChargeEntries :
                ~ByDocument(p) /\ charges[p][c] = "active" => c \in Replaced(d) /\ p = c.src
<1>0. Covers[d] \subseteq Payments  BY SourcesAssumption
<1>1. ASSUME NEW p \in Covers[d], NEW c \in ChargeEntries, c.event = "charge", charges[p][c] = "active"
      PROVE  p = c.src
  <2>1. p \in PaymentIds(c)  BY <1>0, <1>1 DEF MarkersAgree, MarkerFits
  <2> QED  BY <1>1, <2>1, ChargeEntryFacts
<1>2. ASSUME NEW c \in Replaced(d)
      PROVE  /\ c \in ChargeEntries /\ c \in BaseKeys /\ c.event = "charge"
             /\ c.src \in Covers[d] /\ ~ByDocument(c.src) /\ charges[c.src][c] = "active"
  <2>1. PICK p \in Covers[d] : ~ByDocument(p) /\ c \in DueCharges(p)  BY DEF Replaced
  <2>2. c \in ChargeEntries /\ c.event = "charge" /\ charges[p][c] = "active"
    BY <2>1 DEF DueCharges, Active
  <2>3. p = c.src  BY <1>1, <2>2
  <2> QED  BY <2>1, <2>2, <2>3, ChargeEntryFacts
<1>3. ASSUME NEW p \in Covers[d], NEW c \in ChargeEntries, ~ByDocument(p), charges[p][c] = "active"
      PROVE  c \in Replaced(d) /\ p = c.src
  <2>1. c.event = "charge"  BY <1>3, ChargeEntryFacts DEF ByDocument, Active
  <2>2. c \in DueCharges(p)  BY <1>3, <2>1 DEF DueCharges, Active
  <2> QED  BY <1>1, <1>3, <2>1, <2>2 DEF Replaced
<1> QED  BY <1>2, <1>3

LEMMA BookDocument ==
    ASSUME TypeOK, BookInv, NEW k \in BaseKeys, k.event = "confirmed", ~HasEntry(k),
           NEW R, R = Replaced(k.src), \A c \in R : journal[c] = "posted",
           outbox'[k].st = "posted", \A j \in Keys \ {k} : outbox'[j] = outbox[j],
           \A j \in Keys : journal'[j] = IF j = k \/ (j.rev /\ Original(j) \in R) THEN "posted"
                                        ELSE IF j \in R THEN "reversed" ELSE journal[j],
           \A p \in Payments : \A c \in ChargeEntries :
                charges'[p][c] = IF p \notin Covers[k.src] \/ ByDocument(p) THEN charges[p][c]
                                 ELSE IF c = k THEN "active"
                                 ELSE IF charges[p][c] = "active" THEN "replaced_by_document"
                                 ELSE charges[p][c]
    PROVE  BookInv'
<1>1. k.src \in Docs /\ k = ConfirmKey(k.src) /\ k \in ChargeEntries /\ k \in Keys /\ k.rev = FALSE
  BY KeyFields, ReversalOfBase DEF ChargeEntries
<1>2. /\ \A c \in R : /\ c \in ChargeEntries /\ c \in BaseKeys /\ c \in Keys /\ c.event = "charge" /\ c.rev = FALSE
                      /\ c.src \in Covers[k.src] /\ ~ByDocument(c.src) /\ charges[c.src][c] = "active"
      /\ \A p \in Covers[k.src] : \A c \in ChargeEntries :
            ~ByDocument(p) /\ charges[p][c] = "active" => c \in R /\ p = c.src
      /\ k \notin R
  BY <1>1, ReplacedCharges, ReversalOfBase DEF BookInv
<1>3. \A j \in BaseKeys : journal'[j] = IF j = k THEN "posted" ELSE IF j \in R THEN "reversed" ELSE journal[j]
  BY ReversalOfBase
<1>4. \A j \in BaseKeys : journal'[Reversal(j)] = IF j \in R THEN "posted" ELSE journal[Reversal(j)]
  <2> TAKE j \in BaseKeys
  <2>1. Reversal(j) \in Keys /\ Reversal(j).rev = TRUE /\ Original(Reversal(j)) = j  BY ReversalOfBase
  <2>2. Reversal(j) # k /\ Reversal(j) \notin R  BY <1>1, <1>2, <2>1
  <2> QED  BY <2>1, <2>2
<1>5. ASSUME NEW j \in BaseKeys PROVE HasEntry(j)' <=> (j = k \/ HasEntry(j))
  BY <1>3 DEF HasEntry
<1>6. PostedOnce'
  <2>1. ASSUME NEW j \in BaseKeys PROVE outbox'[j].st = "posted" <=> HasEntry(j)'
    <3>1. j \in Keys  BY ReversalOfBase
    <3>2. outbox[j].st = "posted" <=> HasEntry(j)  BY DEF BookInv, PostedOnce
    <3> QED  BY <1>5, <3>1, <3>2
  <2>2. ASSUME NEW j \in ReversalKeys, outbox'[j].st = "posted" PROVE HasEntry(j)'
    <3>1. PICK i \in BaseKeys : j = Reversal(i)  BY DEF ReversalKeys
    <3>2. j \in Keys /\ j # k  BY <1>1, <3>1, ReversalOfBase
    <3>3. HasEntry(j)  BY <2>2, <3>2 DEF BookInv, PostedOnce
    <3> QED  BY <1>4, <3>1, <3>3 DEF HasEntry
  <2> QED  BY <2>1, <2>2 DEF PostedOnce
<1>7. ReversalPairing'
  <2> SUFFICES ASSUME NEW j \in BaseKeys
               PROVE  /\ journal'[j] = "reversed" <=> HasEntry(Reversal(j))'
                      /\ journal'[Reversal(j)] # "reversed"
    BY DEF ReversalPairing
  <2>1. journal[j] = "reversed" <=> HasEntry(Reversal(j))  BY DEF BookInv, ReversalPairing
  <2>2. journal[Reversal(j)] # "reversed"  BY DEF BookInv, ReversalPairing
  <2>3. CASE j = k
    <3>1. journal'[j] = "posted" /\ journal'[Reversal(j)] = journal[Reversal(j)]
      BY <1>2, <1>3, <1>4, <2>3
    <3> QED  BY <2>1, <2>2, <2>3, <3>1 DEF HasEntry
  <2>4. CASE j \in R
    <3>1. journal'[j] = "reversed" /\ journal'[Reversal(j)] = "posted"  BY <1>2, <1>3, <1>4, <2>4
    <3> QED  BY <3>1 DEF HasEntry
  <2>5. CASE j # k /\ j \notin R
    <3>1. journal'[j] = journal[j] /\ journal'[Reversal(j)] = journal[Reversal(j)]  BY <1>3, <1>4, <2>5
    <3> QED  BY <2>1, <2>2, <3>1 DEF HasEntry
  <2> QED  BY <2>3, <2>4, <2>5
<1>8. ASSUME NEW p \in Payments, p \in Covers[k.src], ~ByDocument(p), NEW c \in ChargeEntries
      PROVE  /\ charges'[p][c] = "active" <=> c = k
             /\ charges[p][c] = "active" /\ c # k => charges'[p][c] = "replaced_by_document"
             /\ charges[p][c] # "active" /\ c # k => charges'[p][c] = charges[p][c]
  BY <1>8
<1>9. ASSUME NEW p \in Payments, p \notin Covers[k.src] \/ ByDocument(p), NEW c \in ChargeEntries
      PROVE  charges'[p][c] = charges[p][c]
  BY <1>9
<1>10. ASSUME NEW p \in Payments, NEW c \in ChargeEntries PROVE MarkerFits(p, c)'
  <2>1. CancelKey(p) \in BaseKeys  BY DEF BaseKeys, PaymentKeys
  <2>2. HasEntry(CancelKey(p)) => HasEntry(CancelKey(p))'  BY <1>5, <2>1
  <2>3. MarkerFits(p, c)  BY DEF BookInv, MarkersAgree
  <2>4. c \in BaseKeys  BY ChargeEntryFacts
  <2>5. CASE p \notin Covers[k.src] \/ ByDocument(p)
    <3>1. charges'[p][c] = charges[p][c]  BY <1>9, <2>5
    <3>2. c # k \/ charges[p][c] = "none"  BY <2>3 DEF MarkerFits
    <3>3. c \notin R \/ charges[p][c] # "active"
      <4> SUFFICES ASSUME c \in R, charges[p][c] = "active" PROVE FALSE  OBVIOUS
      <4>1. p \in PaymentIds(c)  BY <2>3 DEF MarkerFits
      <4>2. p = c.src  BY <1>2, <4>1, ChargeEntryFacts
      <4> QED  BY <1>2, <2>5, <4>2
    <3>4. c \in R => journal'[c] = "reversed" /\ journal[c] = "posted"  BY <1>2, <1>3, <2>4
    <3>5. c \notin R /\ c # k => journal'[c] = journal[c]  BY <1>3, <2>4
    <3> QED  BY <2>2, <2>3, <3>1, <3>2, <3>3, <3>4, <3>5 DEF MarkerFits, HasEntry
  <2>6. CASE p \in Covers[k.src] /\ ~ByDocument(p)
    <3>1. CASE c = k
      <4>1. charges'[p][c] = "active"  BY <1>8, <2>6, <3>1
      <4>2. journal'[c] = "posted"  BY <1>3, <3>1
      <4>3. p \in PaymentIds(c)  BY <1>1, <2>6, <3>1, ChargeEntryFacts
      <4> QED  BY <4>1, <4>2, <4>3 DEF MarkerFits, HasEntry
    <3>2. CASE c # k /\ charges[p][c] = "active"
      <4>1. charges'[p][c] = "replaced_by_document"  BY <1>8, <2>6, <3>2
      <4>2. c \in R  BY <1>2, <2>6, <3>2
      <4>3. journal'[c] = "reversed"  BY <1>3, <2>4, <3>2, <4>2
      <4> QED  BY <2>3, <3>2, <4>1, <4>3 DEF MarkerFits, HasEntry
    <3>3. CASE c # k /\ charges[p][c] # "active"
      <4>1. charges'[p][c] = charges[p][c]  BY <1>8, <2>6, <3>3
      <4>2. journal'[c] = journal[c] \/ (journal'[c] = "reversed" /\ journal[c] = "posted")
        BY <1>2, <1>3, <2>4, <3>3
      <4> QED  BY <2>2, <2>3, <3>3, <4>1, <4>2 DEF MarkerFits, HasEntry
    <3> QED  BY <3>1, <3>2, <3>3
  <2> QED  BY <2>5, <2>6
<1>11. MarkersAgree'
  <2>1. ASSUME NEW p \in Payments, NEW i \in ChargeEntries, NEW j \in ChargeEntries,
               charges'[p][i] = "active", charges'[p][j] = "active"
        PROVE  i = j
    <3>1. CASE p \in Covers[k.src] /\ ~ByDocument(p)
      BY <1>8, <2>1, <3>1
    <3>2. CASE p \notin Covers[k.src] \/ ByDocument(p)
      BY <1>9, <2>1, <3>2 DEF BookInv, MarkersAgree, Active
    <3> QED  BY <3>1, <3>2
  <2> QED  BY <1>10, <2>1 DEF MarkersAgree, Active
<1>12. EntriesAreMarked'
  <2> SUFFICES ASSUME NEW p \in Payments, NEW c \in ChargeEntries, journal'[c] = "posted", p \in PaymentIds(c)
               PROVE  \/ charges'[p][c] \in {"active", "cancelled"}
                      \/ c.event = "confirmed" /\ \E d \in Docs \ {c.src} : p \in Covers[d]
    BY DEF EntriesAreMarked
  <2>1. c \in BaseKeys  BY ChargeEntryFacts
  <2>2. CASE c = k
    <3>1. p \in Covers[k.src]  BY <1>1, <2>2, ChargeEntryFacts
    <3>2. CASE ByDocument(p)
      <4>1. PICK e \in ChargeEntries : e.event = "confirmed" /\ charges[p][e] = "active"
        BY <3>2 DEF ByDocument, Active
      <4>2. HasEntry(e) /\ p \in PaymentIds(e)  BY <4>1 DEF BookInv, MarkersAgree, MarkerFits
      <4>3. e = ConfirmKey(e.src) /\ e.src \in Docs /\ p \in Covers[e.src]  BY <4>1, <4>2, ChargeEntryFacts
      <4>4. e # k  BY <4>2
      <4>5. e.src # k.src  BY <1>1, <4>3, <4>4
      <4> QED  BY <2>2, <4>3, <4>5
    <3>3. CASE ~ByDocument(p)
      BY <1>8, <2>2, <3>1, <3>3
    <3> QED  BY <3>2, <3>3
  <2>3. CASE c # k
    <3>1. c \notin R /\ journal[c] = "posted"  BY <1>3, <2>1, <2>3
    <3>2. \/ charges[p][c] \in {"active", "cancelled"}
          \/ c.event = "confirmed" /\ \E d \in Docs \ {c.src} : p \in Covers[d]
      BY <3>1 DEF BookInv, EntriesAreMarked
    <3>3. CASE charges'[p][c] = charges[p][c]  BY <3>2, <3>3
    <3>4. CASE charges'[p][c] # charges[p][c]
      <4>1. p \in Covers[k.src] /\ ~ByDocument(p)  BY <1>9, <3>4
      <4>2. charges[p][c] = "active"  BY <1>8, <2>3, <3>4, <4>1
      <4> QED  BY <1>2, <3>1, <4>1, <4>2
    <3> QED  BY <3>3, <3>4
  <2> QED  BY <2>2, <2>3
<1> QED  BY <1>6, <1>7, <1>11, <1>12 DEF BookInv

LEMMA BookRow ==
    ASSUME TypeOK, BookInv, NEW w \in Workers, NEW k \in Keys, ProcessRow(w, k)
    PROVE  BookInv'
<1>1. ASSUME journal' = journal, charges' = charges, MarkSkipped(k) \/ outbox' = outbox \/ (\E b \in Keys : Block(k, b)),
             Pending(k)
      PROVE  BookInv'
  <2>1. \A j \in Keys : outbox'[j].st = "posted" <=> outbox[j].st = "posted"
    BY <1>1 DEF MarkSkipped, Block, Pending, TypeOK, Row
  <2> QED  BY <1>1, <2>1, BookKept
<1>2. ASSUME MarkPosted(k) PROVE outbox'[k].st = "posted" /\ \A j \in Keys \ {k} : outbox'[j] = outbox[j]
  BY <1>2, RowPosted
<1>3. CASE ProcessNoop(w, k)
  <2>1. outbox' = outbox /\ journal' = journal /\ charges' = charges  BY <1>3 DEF ProcessNoop
  <2> QED  BY <2>1, BookKept
<1>4. CASE ProcessExisting(w, k)
  <2>1. journal' = journal /\ charges' = charges /\ MarkPosted(k) /\ HasEntry(k)  BY <1>4 DEF ProcessExisting
  <2>2. \A j \in Keys : /\ outbox[j].st = "posted" => outbox'[j].st = "posted"
                        /\ outbox'[j].st = "posted" => outbox[j].st = "posted" \/ HasEntry(j)
    BY <1>2, <2>1
  <2> QED  BY <2>1, <2>2, BookKept
<1>5. CASE BlockOnEarlier(w, k)
  <2>1. Blockers(k) \subseteq Keys  BY DEF Blockers
  <2> QED  BY <1>1, <1>5, <2>1 DEF BlockOnEarlier
<1>6. ASSUME Ready(w, k) PROVE k \in BaseKeys /\ ~HasEntry(k) /\ Pending(k)
  BY <1>6, OriginalOfReversal DEF Ready
<1>7. CASE DueCharge(w, k)
  <2>1. Ready(w, k)  BY <1>7 DEF DueCharge
  <2>2. CASE Charged(k.src) \/ k.src \in ZeroAmount
    BY <1>1, <1>6, <1>7, <2>1, <2>2 DEF DueCharge
  <2>3. CASE ~(Charged(k.src) \/ k.src \in ZeroAmount)
    BY <1>6, <1>7, <2>1, <2>3, BookDueCharge DEF DueCharge
  <2> QED  BY <2>2, <2>3
<1>8. CASE ChargeCancelled(w, k)
  <2>1. Ready(w, k)  BY <1>8 DEF ChargeCancelled
  <2>2. CASE ~Charged(k.src) \/ ByDocument(k.src)
    BY <1>1, <1>6, <1>8, <2>1, <2>2 DEF ChargeCancelled
  <2>3. CASE ~(~Charged(k.src) \/ ByDocument(k.src))
    BY <1>6, <1>8, <2>1, <2>3, BookCancellation DEF ChargeCancelled
  <2> QED  BY <2>2, <2>3
<1>9. CASE SettledExternal(w, k)
  <2>1. Ready(w, k)  BY <1>9 DEF SettledExternal
  <2> QED  BY <1>6, <1>9, <2>1, BookSettlement DEF SettledExternal, Ready
<1>10. CASE ChargeDocument(w, k)
  <2> DEFINE R == Replaced(k.src)
  <2>1. Ready(w, k) /\ k.event = "confirmed" /\ MarkPosted(k) /\ \A c \in R : journal[c] = "posted"
    BY <1>10 DEF ChargeDocument
  <2>2. \A j \in Keys : journal'[j] = IF j = k \/ (j.rev /\ Original(j) \in R) THEN "posted"
                                      ELSE IF j \in R THEN "reversed" ELSE journal[j]
    BY <1>10 DEF ChargeDocument
  <2>3. \A p \in Payments : \A c \in ChargeEntries :
                charges'[p][c] = IF p \notin Covers[k.src] \/ ByDocument(p) THEN charges[p][c]
                                 ELSE IF c = k THEN "active"
                                 ELSE IF charges[p][c] = "active" THEN "replaced_by_document"
                                 ELSE charges[p][c]
    BY <1>10 DEF ChargeDocument
  <2> HIDE DEF R
  <2>4. R = Replaced(k.src)  BY DEF R
  <2> QED  BY <1>2, <1>6, <2>1, <2>2, <2>3, <2>4, BookDocument
<1>11. CASE ReverseUnposted(w, k)
  <2>1. Original(k) \in Keys  BY OriginalOfReversal, ReversalOfBase
  <2> QED  BY <1>1, <1>11, <2>1 DEF ReverseUnposted
<1>12. CASE PostReversal(w, k)
  <2> DEFINE o == Original(k)
  <2>1. MarkPosted(k) /\ ~HasEntry(k) /\ k.rev /\ journal[o] = "posted"  BY <1>12 DEF PostReversal
  <2>2. o \in BaseKeys /\ o \in Keys /\ k = Reversal(o) /\ k # o  BY <2>1, OriginalOfReversal, ReversalOfBase
  <2>3. journal' = [journal EXCEPT ![k] = "posted", ![o] = "reversed"]  BY <1>12 DEF PostReversal
  <2>4. journal'[k] = "posted" /\ journal'[o] = "reversed" /\ \A j \in Keys \ {k, o} : journal'[j] = journal[j]
    BY <2>2, <2>3 DEF TypeOK
  <2>5. \A p \in Payments : \A c \in ChargeEntries :
            charges'[p][c] = IF c = o /\ charges[p][c] = "active" THEN ReversedReason(o) ELSE charges[p][c]
    BY <1>12 DEF PostReversal
  <2> HIDE DEF o
  <2> QED  BY <1>2, <2>1, <2>2, <2>4, <2>5, BookReversal
<1>13. CASE Fail(w, k)
  <2>1. outbox' = outbox /\ journal' = journal /\ charges' = charges  BY <1>13 DEF Fail
  <2> QED  BY <2>1, BookKept
<1> QED  BY <1>3, <1>4, <1>5, <1>7, <1>8, <1>9, <1>10, <1>11, <1>12, <1>13 DEF ProcessRow

\* The steps outside a row's transaction leave the books alone.
LEMMA BookStep == TypeOK /\ BookInv /\ (EngineNext \/ UNCHANGED vars) => BookInv'
<1> SUFFICES ASSUME TypeOK, BookInv, EngineNext \/ UNCHANGED vars PROVE BookInv'  OBVIOUS
<1>1. ASSUME UNCHANGED <<outbox, journal, charges>> PROVE BookInv'
  BY <1>1, BookKept
<1>2. ASSUME NEW k \in Keys, Handles(k) PROVE BookInv'
  <2>1. \A j \in Keys : outbox'[j].st = "posted" <=> outbox[j].st = "posted"
    BY <1>2 DEF Handles, Open
  <2> QED  BY <1>2, <2>1, BookKept DEF Handles
<1>3. ASSUME NEW w \in Workers, StartBatch(w) \/ FinishBatch(w) \/ Crash(w) PROVE BookInv'
  BY <1>1, <1>3 DEF StartBatch, FinishBatch, Crash
<1>4. ASSUME NEW w \in Workers, NEW k \in Keys, ProcessRow(w, k) PROVE BookInv'
  BY <1>4, BookRow
<1>5. ASSUME NEW w \in Workers, NEW permanent \in BOOLEAN, RecordFailure(w, permanent) PROVE BookInv'
  BY <1>1, <1>2, <1>5, RecordedRow
<1>6. ASSUME NEW k \in Keys, BackoffExpires(k) \/ Retry(k) \/ Dismiss(k) PROVE BookInv'
  BY <1>2, <1>6, HandledRow
<1>7. CASE UNCHANGED vars
  BY <1>1, <1>7 DEF vars
<1> QED  BY <1>3, <1>4, <1>5, <1>6, <1>7 DEF EngineNext, WorkerStep

LEMMA BookInsert ==
    ASSUME TypeOK, BookInv, NEW ks \in Seq(Keys), Emit(ks)
    PROVE  BookInv'
<1>1. journal' = journal /\ charges' = charges  BY DEF Emit
<1>2. \A j \in Keys : outbox'[j].st = "posted" <=> outbox[j].st = "posted"
  BY InsertRows DEF InQueue
<1> QED  BY <1>1, <1>2, BookKept

-----------------------------------------------------------------------------
(* What is never rewritten.                                                 *)

EntryMoves(k) ==
    \/ journal'[k] = journal[k]
    \/ journal[k] = "none" /\ journal'[k] = "posted"
    \/ journal[k] = "posted" /\ journal'[k] = "reversed"

LEMMA JournalRow ==
    ASSUME TypeOK, BookInv, NEW w \in Workers, NEW k \in Keys, ProcessRow(w, k), NEW j \in Keys
    PROVE  EntryMoves(j)
<1> USE DEF EntryMoves
<1>1. ASSUME journal' = journal PROVE EntryMoves(j)  BY <1>1
<1>2. ASSUME ~HasEntry(k), journal' = [journal EXCEPT ![k] = "posted"] PROVE EntryMoves(j)
  BY <1>2 DEF HasEntry, TypeOK
<1>3. CASE ProcessNoop(w, k) \/ ProcessExisting(w, k) \/ BlockOnEarlier(w, k) \/ ReverseUnposted(w, k) \/ Fail(w, k)
  BY <1>1, <1>3 DEF ProcessNoop, ProcessExisting, BlockOnEarlier, ReverseUnposted, Fail
<1>4. CASE DueCharge(w, k)
  BY <1>1, <1>2, <1>4 DEF DueCharge, Ready
<1>5. CASE ChargeCancelled(w, k)
  BY <1>1, <1>2, <1>5 DEF ChargeCancelled, Ready
<1>6. CASE SettledExternal(w, k)
  BY <1>2, <1>6 DEF SettledExternal, Ready
<1>7. CASE ChargeDocument(w, k)
  <2> DEFINE R == Replaced(k.src)
  <2>1. k \in BaseKeys /\ ~HasEntry(k) /\ k.event = "confirmed"
    BY <1>7, OriginalOfReversal DEF ChargeDocument, Ready
  <2>2. \A c \in R : c \in BaseKeys /\ journal[c] = "posted"
    BY <1>7, <2>1, KeyFields, ReplacedCharges DEF ChargeDocument, BookInv
  <2>3. journal'[j] = IF j = k \/ (j.rev /\ Original(j) \in R) THEN "posted"
                      ELSE IF j \in R THEN "reversed" ELSE journal[j]
    BY <1>7 DEF ChargeDocument
  <2> HIDE DEF R
  <2>4. CASE j = k
    BY <2>1, <2>3, <2>4 DEF HasEntry
  <2>5. CASE j.rev /\ Original(j) \in R
    <3>1. j = Reversal(Original(j))  BY <2>5, OriginalOfReversal
    <3>2. ~HasEntry(j)  BY <2>2, <2>5, <3>1 DEF BookInv, ReversalPairing
    <3> QED  BY <2>3, <2>5, <3>2 DEF HasEntry
  <2>6. CASE j # k /\ ~(j.rev /\ Original(j) \in R)
    BY <2>2, <2>3, <2>6
  <2> QED  BY <2>4, <2>5, <2>6
<1>8. CASE PostReversal(w, k)
  <2>1. Original(k) \in Keys  BY OriginalOfReversal, ReversalOfBase
  <2> QED  BY <1>8, <2>1 DEF PostReversal, HasEntry, TypeOK
<1> QED  BY <1>3, <1>4, <1>5, <1>6, <1>7, <1>8 DEF ProcessRow

LEMMA JournalStep ==
    ASSUME TypeOK, BookInv, EngineNext \/ UNCHANGED vars, NEW j \in Keys
    PROVE  EntryMoves(j)
<1>1. ASSUME journal' = journal PROVE EntryMoves(j)  BY <1>1 DEF EntryMoves
<1>2. ASSUME NEW w \in Workers, StartBatch(w) \/ FinishBatch(w) \/ Crash(w) PROVE EntryMoves(j)
  BY <1>1, <1>2 DEF StartBatch, FinishBatch, Crash
<1>3. ASSUME NEW w \in Workers, NEW k \in Keys, ProcessRow(w, k) PROVE EntryMoves(j)
  BY <1>3, JournalRow
<1>4. ASSUME NEW w \in Workers, NEW permanent \in BOOLEAN, RecordFailure(w, permanent) PROVE EntryMoves(j)
  BY <1>1, <1>4 DEF RecordFailure
<1>5. ASSUME NEW k \in Keys, BackoffExpires(k) \/ Retry(k) \/ Dismiss(k) PROVE EntryMoves(j)
  BY <1>1, <1>5 DEF BackoffExpires, Retry, Dismiss
<1>6. CASE UNCHANGED vars
  BY <1>1, <1>6 DEF vars
<1> QED  BY <1>2, <1>3, <1>4, <1>5, <1>6 DEF EngineNext, WorkerStep

\* A row that was posted, skipped or dismissed is left alone.
LEMMA FinalRows ==
    ASSUME TypeOK, EngineNext \/ UNCHANGED vars, NEW j \in Keys,
           outbox[j].st \in {"posted", "skipped", "dismissed"}
    PROVE  outbox'[j] = outbox[j]
<1>1. ASSUME NEW w \in Workers, StartBatch(w) \/ FinishBatch(w) \/ Crash(w) PROVE outbox' = outbox
  BY <1>1 DEF StartBatch, FinishBatch, Crash
<1>2. ASSUME NEW w \in Workers, NEW k \in Keys, ProcessRow(w, k) PROVE outbox'[j] = outbox[j]
  BY <1>2, RowStep DEF Settles, Waits, Pending
<1>3. ASSUME NEW k \in Keys, Handles(k) PROVE outbox'[j] = outbox[j]
  BY <1>3 DEF Handles, Open
<1>4. ASSUME NEW w \in Workers, NEW permanent \in BOOLEAN, RecordFailure(w, permanent)
      PROVE  outbox'[j] = outbox[j]
  BY <1>3, <1>4, RecordedRow
<1>5. ASSUME NEW k \in Keys, BackoffExpires(k) \/ Retry(k) \/ Dismiss(k) PROVE outbox'[j] = outbox[j]
  BY <1>3, <1>5, HandledRow
<1>6. CASE UNCHANGED vars
  BY <1>6 DEF vars
<1> QED  BY <1>1, <1>2, <1>4, <1>5, <1>6 DEF EngineNext, WorkerStep

-----------------------------------------------------------------------------
(* The order of an installment's events.                                    *)

OrderInv == InstallmentOrder /\ SkippedReversalIsFinal

\* A reversal is skipped only when there is nothing to reverse.
LEMMA SkippedReversal ==
    ASSUME TypeOK, EngineNext \/ UNCHANGED vars, NEW r \in ReversalKeys, Settles(r),
           outbox'[r].st = "skipped"
    PROVE  ~HasEntry(Original(r)) /\ ~Open(Original(r)) /\ journal' = journal
<1> DEFINE Goal == ~HasEntry(Original(r)) /\ ~Open(Original(r)) /\ journal' = journal
<1>1. r \in Keys /\ r.rev  BY ReversalOfBase DEF ReversalKeys, Keys
<1>2. ~(outbox'[r] = outbox[r])  BY DEF Settles, Pending
<1>3. ASSUME NEW w \in Workers, StartBatch(w) \/ FinishBatch(w) \/ Crash(w) PROVE FALSE
  BY <1>2, <1>3 DEF StartBatch, FinishBatch, Crash
<1>4. ASSUME NEW k \in Keys, Handles(k) PROVE FALSE
  BY <1>1, <1>2, <1>4 DEF Handles
<1>5. ASSUME NEW w \in Workers, NEW permanent \in BOOLEAN, RecordFailure(w, permanent) PROVE FALSE
  <2>1. outbox' # outbox  BY <1>2
  <2> QED  BY <1>4, <1>5, <2>1, RecordedRow
<1>6. ASSUME NEW k \in Keys, BackoffExpires(k) \/ Retry(k) \/ Dismiss(k) PROVE FALSE
  BY <1>4, <1>6, HandledRow
<1>7. ASSUME NEW w \in Workers, NEW k \in Keys, ProcessRow(w, k) PROVE Goal
  <2>1. k = r  BY <1>1, <1>2, <1>7, RowStep
  <2>2. CASE ReverseUnposted(w, k)
    <3>1. CASE Open(Original(k))
      <4>1. Block(k, Original(k))  BY <2>2, <3>1 DEF ReverseUnposted
      <4>2. outbox'[k].st = outbox[k].st  BY <1>1, <2>1, <4>1 DEF Block, TypeOK, Row
      <4> QED  BY <2>1, <4>2 DEF Settles, Pending
    <3>2. CASE ~Open(Original(k))
      BY <2>1, <2>2, <3>2 DEF ReverseUnposted
    <3> QED  BY <3>1, <3>2
  <2>3. CASE ProcessExisting(w, k) \/ PostReversal(w, k)
    <3>1. MarkPosted(k)  BY <2>3 DEF ProcessExisting, PostReversal
    <3>2. outbox'[k].st = "posted"  BY <3>1, RowPosted
    <3> QED  BY <2>1, <3>2
  <2>4. CASE ProcessNoop(w, k) \/ Fail(w, k)
    BY <1>2, <2>4 DEF ProcessNoop, Fail
  <2>5. CASE BlockOnEarlier(w, k) \/ DueCharge(w, k) \/ ChargeCancelled(w, k) \/ SettledExternal(w, k)
             \/ ChargeDocument(w, k)
    BY <1>1, <2>1, <2>5 DEF BlockOnEarlier, DueCharge, ChargeCancelled, SettledExternal, ChargeDocument, Ready
  <2> QED  BY <1>7, <2>2, <2>3, <2>4, <2>5 DEF ProcessRow
<1>8. CASE UNCHANGED vars
  BY <1>2, <1>8 DEF vars
<1> QED  BY <1>3, <1>5, <1>6, <1>7, <1>8 DEF EngineNext, WorkerStep

LEMMA OrderStep ==
    ASSUME TypeOK, BookInv, BookInv', OrderInv, EngineNext \/ UNCHANGED vars
    PROVE  OrderInv'
<1>1. RowsMove  BY EngineMovesRows
<1>2. BaseKeys \subseteq Keys  BY DEF Keys
<1>3. ASSUME NEW j \in BaseKeys, NEW k \in BaseKeys,
             outbox'[k].st \in {"posted", "skipped"}, InQueue(j)',
             outbox'[j].id < outbox'[k].id, PaymentIds(j) \cap PaymentIds(k) # {}
      PROVE  ~Open(j)'
  <2>1. InQueue(j) /\ outbox[j].id < outbox[k].id /\ (Open(j)' => Open(j))
    BY <1>1, <1>2, <1>3 DEF RowsMove
  <2>2. CASE outbox'[k].st = outbox[k].st
    BY <1>3, <2>1, <2>2 DEF OrderInv, InstallmentOrder
  <2>3. CASE Settles(k)
    <3>1. ~k.rev  BY ReversalOfBase
    <3>2. ~HasEntry(k)  BY <2>3 DEF BookInv, PostedOnce, Settles, Pending
    <3>3. Blockers(k) = {}  BY <1>1, <1>2, <2>3, <3>1, <3>2 DEF RowsMove
    <3> QED  BY <1>2, <1>3, <2>1, <3>3 DEF Blockers
  <2> QED  BY <1>1, <1>2, <1>3, <2>2, <2>3 DEF RowsMove
<1>4. ASSUME NEW k \in BaseKeys, outbox'[Reversal(k)].st = "skipped"
      PROVE  ~Open(k)' /\ journal'[k] # "posted"
  <2> DEFINE r == Reversal(k)
  <2>1. r \in Keys /\ r \in ReversalKeys /\ Original(r) = k /\ k \in Keys  BY ReversalOfBase
  <2>2. Open(k)' => Open(k)  BY <1>1, <2>1 DEF RowsMove
  <2>3. CASE outbox[r].st = "skipped"
    <3>1. ~Open(k) /\ journal[k] # "posted"  BY <2>3 DEF OrderInv, SkippedReversalIsFinal
    <3>2. ASSUME journal[k] = "none", journal'[k] = "posted" PROVE FALSE
      <4>1. outbox'[k].st = "posted" /\ outbox[k].st # "posted"
        BY <3>2 DEF BookInv, PostedOnce, HasEntry
      <4>2. Settles(k)  BY <1>1, <2>1, <4>1 DEF RowsMove
      <4> QED  BY <3>1, <4>2 DEF Settles, Pending, Open
    <3>3. EntryMoves(k)  BY <2>1, JournalStep
    <3> QED  BY <2>2, <3>1, <3>2, <3>3 DEF EntryMoves
  <2>4. CASE outbox[r].st # "skipped"
    <3>1. Settles(r)  BY <1>1, <1>4, <2>1, <2>4 DEF RowsMove
    <3>2. ~HasEntry(k) /\ ~Open(k) /\ journal' = journal  BY <1>4, <2>1, <3>1, SkippedReversal
    <3> QED  BY <2>2, <3>2 DEF HasEntry
  <2> QED  BY <2>3, <2>4
<1> QED  BY <1>3, <1>4 DEF OrderInv, InstallmentOrder, SkippedReversalIsFinal

LEMMA OrderInsert ==
    ASSUME TypeOK, QueueInv, OrderInv, NEW ks \in Seq(Keys), Emit(ks)
    PROVE  OrderInv'
<1>1. journal' = journal  BY DEF Emit
<1>2. BaseKeys \subseteq Keys  BY DEF Keys
<1>3. ASSUME NEW j \in BaseKeys, NEW k \in BaseKeys,
             outbox'[k].st \in {"posted", "skipped"}, InQueue(j)',
             outbox'[j].id < outbox'[k].id, PaymentIds(j) \cap PaymentIds(k) # {}
      PROVE  ~Open(j)'
  <2>1. outbox'[k] = outbox[k]  BY <1>2, <1>3, InsertRows
  <2>2. outbox[k].id \in 1..(nextId - 1)  BY <1>2, <1>3, <2>1 DEF QueueInv, QueueOrder, InQueue
  <2>3. outbox'[j] = outbox[j]
    <3>1. nextId \in Nat  BY DEF TypeOK
    <3> QED  BY <1>2, <1>3, <2>1, <2>2, <3>1, InsertRows
  <2> QED  BY <1>3, <2>1, <2>3 DEF OrderInv, InstallmentOrder, InQueue, Open
<1>4. ASSUME NEW k \in BaseKeys, outbox'[Reversal(k)].st = "skipped"
      PROVE  ~Open(k)' /\ journal'[k] # "posted"
  <2>1. Reversal(k) \in Keys /\ Original(Reversal(k)) = k /\ k \in Keys /\ Reversal(k).rev  BY ReversalOfBase
  <2>2. outbox'[Reversal(k)] = outbox[Reversal(k)]  BY <1>4, <2>1, InsertRows
  <2>3. InQueue(k)  BY <1>4, <2>1, <2>2 DEF InQueue, QueueInv, QueueOrder
  <2>4. outbox'[k] = outbox[k]  BY <2>1, <2>3, InsertRows
  <2> QED  BY <1>1, <1>4, <2>2, <2>4 DEF OrderInv, SkippedReversalIsFinal, Open
<1> QED  BY <1>3, <1>4 DEF OrderInv, InstallmentOrder, SkippedReversalIsFinal

-----------------------------------------------------------------------------
(* The inductive invariant.                                                 *)

\* No part stands alone: the order of posting follows from the blocking by id
\* (QueueInv) and from entries and rows that agree (BookInv).
IInv == TypeOK /\ QueueInv /\ BookInv /\ OrderInv

LEMMA InitInv == Init => IInv
<1> SUFFICES ASSUME Init PROVE IInv  OBVIOUS
<1>1. \A k \in Keys : outbox[k] = Absent /\ journal[k] = "none"  BY DEF Init
<1>2. \A p \in Payments : \A k \in ChargeEntries : charges[p][k] = "none"  BY DEF Init
<1>3. BaseKeys \subseteq Keys /\ ReversalKeys \subseteq Keys  BY DEF Keys
<1>4. \A k \in BaseKeys : Reversal(k) \in Keys  BY ReversalOfBase
<1>5. QueueInv
  BY <1>1 DEF Init, QueueInv, QueueOrder, WaitsForEarlier, InQueue, Absent
<1>6. PostedOnce  BY <1>1, <1>3 DEF PostedOnce, HasEntry, Absent
<1>7. ReversalPairing  BY <1>1, <1>3, <1>4 DEF ReversalPairing, HasEntry
<1>8. MarkersAgree  BY <1>2 DEF MarkersAgree, MarkerFits, Active
<1>9. EntriesAreMarked  BY <1>1, <1>3 DEF EntriesAreMarked, ChargeEntries
<1>10. OrderInv
  BY <1>1, <1>3, <1>4 DEF OrderInv, InstallmentOrder, SkippedReversalIsFinal, Absent
<1> QED  BY InitType, <1>5, <1>6, <1>7, <1>8, <1>9, <1>10 DEF IInv, BookInv

LEMMA EngineStepInv ==
    ASSUME IInv, EngineNext \/ UNCHANGED vars
    PROVE  IInv'
<1>1. TypeOK'  BY NextType DEF IInv, Next
<1>2. QueueInv'  BY EngineMovesRows, QueueStep DEF IInv
<1>3. BookInv'  BY BookStep DEF IInv
<1>4. OrderInv'  BY <1>3, OrderStep DEF IInv
<1> QED  BY <1>1, <1>2, <1>3, <1>4 DEF IInv

LEMMA EmitInv ==
    ASSUME IInv, NEW ks \in Seq(Keys), Emit(ks),
           \A k \in Range(ks) : k.rev => InQueue(Original(k))
    PROVE  IInv'
BY EmitType, QueueInsert, BookInsert, OrderInsert DEF IInv

LEMMA NextInv == IInv /\ [Next]_vars => IInv'
<1> SUFFICES ASSUME IInv, [Next]_vars PROVE IInv'  OBVIOUS
<1>1. ASSUME EmitAny PROVE IInv'
  <2>1. PICK ks \in Feed : Emit(ks) /\ \A k \in Range(ks) : Emittable(k)
    BY <1>1 DEF EmitAny
  <2>2. ks \in Seq(Keys)  BY EngineAssumption
  <2> QED  BY <2>1, <2>2, EmitInv DEF Emittable
<1> QED  BY <1>1, EngineStepInv DEF Next

\* Types, queue, books and order hold together in every reachable state: what
\* the engine may rely on at the start of any row's transaction.
THEOREM Invariant == Spec => []IInv
BY InitInv, NextInv, PTL DEF Spec

\* The rows of the queue are ordered as they were inserted, each reversal
\* behind the event it undoes (ledger-emitter.service.ts, emit).
THEOREM QueueCorrect == Spec => []QueueOrder
<1>1. IInv => QueueOrder  BY DEF IInv, QueueInv
<1> QED  BY <1>1, Invariant, PTL

\* A row the worker found blocked waits for an earlier one (posting.engine.ts,
\* block): no cycle of rows ever waits for itself.
THEOREM WaitsCorrect == Spec => []WaitsForEarlier
<1>1. IInv => WaitsForEarlier  BY DEF IInv, QueueInv
<1> QED  BY <1>1, Invariant, PTL

\* However often a row is retried, replayed after a crash or found already
\* posted, its event is in the journal exactly when its row says so.
THEOREM PostedOnceCorrect == Spec => []PostedOnce
<1>1. IInv => PostedOnce  BY DEF IInv, BookInv
<1> QED  BY <1>1, Invariant, PTL

\* A reversal event and a document that replaces a charge never both reverse
\* it, and no reversal is reversed.
THEOREM ReversalCorrect == Spec => []ReversalPairing
<1>1. IInv => ReversalPairing  BY DEF IInv, BookInv
<1> QED  BY <1>1, Invariant, PTL

\* The charge markers, which the rules read instead of the journal, say what
\* the journal says: no marker without its entry, none that is active on a
\* reversed one, never two active.
THEOREM MarkersCorrect == Spec => []MarkersAgree
<1>1. IInv => MarkersAgree  BY DEF IInv, BookInv
<1> QED  BY <1>1, Invariant, PTL

\* ... and say all of it: no standing entry that charges an installment is
\* without its marker, so a rule that reads the markers misses no charge.
THEOREM EntriesCorrect == Spec => []EntriesAreMarked
<1>1. IInv => EntriesAreMarked  BY DEF IInv, BookInv
<1> QED  BY <1>1, Invariant, PTL

\* An installment one document at most invoices is billed at most once: by a
\* generation of its due-date charge or by the document, never by both.
THEOREM BilledOnceCorrect == Spec => []BilledOnce
<1>1. ASSUME IInv PROVE BilledOnce
  <2> SUFFICES ASSUME NEW p \in Payments,
                      \A d, e \in Docs : p \in Covers[d] \cap Covers[e] => d = e,
                      NEW j \in Billing(p), NEW k \in Billing(p)
               PROVE  j = k
    BY DEF BilledOnce
  <2>1. ASSUME NEW c \in Billing(p) PROVE c \in Active(p)
    <3>1. c \in ChargeEntries /\ journal[c] = "posted" /\ p \in PaymentIds(c) /\ charges[p][c] # "cancelled"
      BY <2>1 DEF Billing
    <3>2. ASSUME c.event = "confirmed", NEW d \in Docs \ {c.src}, p \in Covers[d] PROVE FALSE
      BY <3>1, <3>2, ChargeEntryFacts
    <3>3. charges[p][c] \in {"active", "cancelled"}
      BY <3>1, <3>2, <1>1 DEF IInv, BookInv, EntriesAreMarked
    <3> QED  BY <3>1, <3>3 DEF Active
  <2> QED  BY <1>1, <2>1 DEF IInv, BookInv, MarkersAgree
<1> QED  BY <1>1, Invariant, PTL

\* What was decided about an event is never undermined by an earlier event of
\* the installment that posts late.
THEOREM OrderCorrect == Spec => []InstallmentOrder
<1>1. IInv => InstallmentOrder  BY DEF IInv, OrderInv
<1> QED  BY <1>1, Invariant, PTL

\* A reversal skipped for want of an original (posting.engine.ts, processReversal) never
\* finds one afterwards: what was to be undone is not in the books for good.
THEOREM SkippedCorrect == Spec => []SkippedReversalIsFinal
<1>1. IInv => SkippedReversalIsFinal  BY DEF IInv, OrderInv
<1> QED  BY <1>1, Invariant, PTL

\* A settled row and a journal entry are final but for the one move to reversed.
THEOREM NothingRewritten == Spec => NothingIsRewritten
<1> DEFINE A == /\ \A k \in Keys : outbox[k].st \in {"posted", "skipped", "dismissed"} => outbox'[k] = outbox[k]
                /\ \A k \in Keys : journal'[k] # journal[k] =>
                     \/ journal[k] = "none" /\ journal'[k] = "posted"
                     \/ journal[k] = "posted" /\ journal'[k] = "reversed"
<1>1. ASSUME IInv, [Next]_vars PROVE A
  <2>1. ASSUME IInv, EngineNext \/ UNCHANGED vars PROVE A
    BY <2>1, FinalRows, JournalStep DEF IInv, EntryMoves
  <2>2. ASSUME IInv, EmitAny PROVE A
    <3>1. PICK ks \in Feed : Emit(ks)  BY <2>2 DEF EmitAny
    <3>2. ks \in Seq(Keys)  BY EngineAssumption
    <3>3. journal' = journal  BY <3>1 DEF Emit
    <3>4. ASSUME NEW k \in Keys, outbox[k].st \in {"posted", "skipped", "dismissed"}
          PROVE  outbox'[k] = outbox[k]
      <4>1. InQueue(k)  BY <3>4 DEF InQueue
      <4> QED  BY <2>2, <3>1, <3>2, <4>1, InsertRows DEF IInv
    <3> QED  BY <3>3, <3>4
  <2> HIDE DEF A
  <2> QED  BY <1>1, <2>1, <2>2 DEF Next
<1> QED  BY <1>1, Invariant, PTL DEF Spec, NothingIsRewritten

-----------------------------------------------------------------------------
(* The promise is kept.                                                     *)

FatesKept(S) == \A j \in BaseKeys \ S : FateOf(j)' = FateOf(j)

BillsKept == \A p \in Payments : Active(p)' = Active(p)

\* The promise speaks of the same events.
LEMMA SameEvents == Promise!BaseKeys = BaseKeys
BY DEF Promise!BaseKeys, BaseKeys, Promise!PaymentKeys, PaymentKeys, Promise!ChargeKeys, ChargeKeys, Promise!ChargeKey,
       ChargeKey, Promise!CancelKey, CancelKey, Promise!SettleKey, SettleKey, Promise!ConfirmKey, ConfirmKey, Promise!Key, Key

Promised == Promise!Next \/ UNCHANGED Promise!promise

LEMMA Fates ==
    ASSUME IInv, NEW k \in BaseKeys
    PROVE  /\ Open(k) => FateOf(k) = "queued" /\ journal[k] = "none"
           /\ journal[k] = "posted" => FateOf(k) = "booked" /\ outbox[k].st = "posted"
           /\ journal[k] = "reversed" => FateOf(k) = "undone" /\ outbox[k].st = "posted"
           /\ FateOf(k) = "booked" => journal[k] = "posted"
<1>1. outbox[k].st = "posted" <=> HasEntry(k)  BY DEF IInv, BookInv, PostedOnce
<1>2. journal[k] \in {"none", "posted", "reversed"}  BY ReversalOfBase DEF IInv, TypeOK
<1> QED  BY <1>1, <1>2 DEF FateOf, Open, InQueue, HasEntry

\* Nothing the sources see.
LEMMA Unseen ==
    ASSUME FatesKept({}), BillsKept
    PROVE  Promised
BY DEF Promised, FatesKept, BillsKept, Promise!promise

LEMMA RowUnseen ==
    ASSUME NEW k \in Keys, k \notin BaseKeys, \A j \in Keys \ {k} : outbox'[j] = outbox[j],
           journal' = journal, charges' = charges
    PROVE  Promised
<1>1. FatesKept({})  BY ReversalOfBase DEF FatesKept, FateOf, InQueue, Open
<1>2. BillsKept  BY DEF BillsKept, Active
<1> QED  BY <1>1, <1>2, Unseen

\* An open event is skipped or dismissed, or only changes how it waits.
LEMMA Dropped ==
    ASSUME IInv, IInv', NEW k \in BaseKeys, Open(k), outbox'[k].st \in {"pending", "failed", "skipped", "dismissed"},
           \A j \in Keys \ {k} : outbox'[j] = outbox[j], journal' = journal, charges' = charges
    PROVE  Promised
<1>1. FatesKept({k}) /\ BillsKept
  BY ReversalOfBase DEF FatesKept, FateOf, InQueue, Open, BillsKept, Active
<1>2. FateOf(k) = "queued" /\ journal[k] = "none"  BY Fates
<1>3. CASE Open(k)'
  <2>1. FateOf(k)' = "queued"  BY <1>3 DEF FateOf, Open, InQueue
  <2> QED  BY <1>1, <1>2, <2>1, Unseen DEF FatesKept
<1>4. CASE ~Open(k)'
  <2>1. FateOf(k)' = "dropped"  BY <1>2, <1>4 DEF FateOf, Open, InQueue
  <2>2. Promise!Drop(k)  BY <1>1, <1>2, <2>1 DEF Promise!Drop, FatesKept, BillsKept
  <2> QED  BY <2>2, SameEvents DEF Promised, Promise!Next
<1> QED  BY <1>3, <1>4

\* An event is booked, and nothing else moves.
LEMMA Booked ==
    ASSUME IInv, NEW k \in BaseKeys, Pending(k), MarkPosted(k), journal' = [journal EXCEPT ![k] = "posted"]
    PROVE  Promise!Book(k)
<1>1. outbox'[k].st = "posted" /\ \A j \in Keys \ {k} : outbox'[j] = outbox[j]
  BY RowPosted, ReversalOfBase DEF IInv
<1>2. journal'[k] = "posted" /\ \A j \in Keys \ {k} : journal'[j] = journal[j]
  BY ReversalOfBase DEF IInv, TypeOK
<1>3. FateOf(k) = "queued"  BY Fates DEF Open, Pending
<1>4. FateOf(k)' = "booked"  BY <1>1, <1>2 DEF FateOf, Open, InQueue
<1>5. FatesKept({k})  BY <1>1, <1>2, ReversalOfBase DEF FatesKept, FateOf, Open, InQueue
<1> QED  BY <1>3, <1>4, <1>5 DEF Promise!Book, FatesKept

LEMMA ChargeKept ==
    ASSUME IInv, NEW w \in Workers, NEW k \in BaseKeys, DueCharge(w, k), MarkPosted(k), ~Charged(k.src),
           journal' = [journal EXCEPT ![k] = "posted"],
           charges' = [charges EXCEPT ![k.src] = [charges[k.src] EXCEPT ![k] = "active"]]
    PROVE  Promised
<1>1. k.event = "charge" /\ Pending(k) /\ k \in ChargeEntries  BY DEF DueCharge, Ready, ChargeEntries
<1>2. k.src \in Payments  BY <1>1, ChargeEntryFacts
<1>3. Promise!Book(k)  BY <1>1, Booked
<1>4. Active(k.src) = {}  BY DEF Charged
<1>5. Active(k.src)' = {k} /\ \A p \in Payments \ {k.src} : Active(p)' = Active(p)
  BY <1>1, <1>2, <1>4 DEF Active, IInv, TypeOK
<1>6. Promise!BookCharge(k)  BY <1>1, <1>2, <1>3, <1>4, <1>5 DEF Promise!BookCharge
<1> QED  BY <1>6, SameEvents DEF Promised, Promise!Next

LEMMA CancellationKept ==
    ASSUME IInv, NEW k \in BaseKeys, Pending(k), MarkPosted(k), k.event = "charge_cancelled",
           Charged(k.src), ~ByDocument(k.src), journal' = [journal EXCEPT ![k] = "posted"],
           charges' = [charges EXCEPT ![k.src] =
                [c \in ChargeEntries |-> IF charges[k.src][c] = "active" THEN "cancelled" ELSE charges[k.src][c]]]
    PROVE  Promised
<1>1. k.src \in Payments  BY KeyFields
<1>2. Promise!Book(k)  BY Booked
<1>3. Active(k.src)' = {} /\ \A p \in Payments \ {k.src} : Active(p)' = Active(p)
  BY <1>1 DEF Active, IInv, TypeOK
<1>4. Active(k.src) # {} /\ \A c \in Active(k.src) : c.event = "charge"
  BY ChargeEntryFacts DEF Charged, ByDocument, Active
<1>5. Promise!BookCancellation(k)  BY <1>1, <1>2, <1>3, <1>4 DEF Promise!BookCancellation
<1> QED  BY <1>5, SameEvents DEF Promised, Promise!Next

LEMMA SettlementKept ==
    ASSUME IInv, NEW k \in BaseKeys, Pending(k), MarkPosted(k), k.event = "settled_external",
           Charged(k.src), journal' = [journal EXCEPT ![k] = "posted"], charges' = charges
    PROVE  Promised
<1>1. k.src \in Payments  BY KeyFields
<1>2. Promise!Book(k)  BY Booked
<1>3. BillsKept  BY DEF BillsKept, Active
<1>4. Promise!BookSettlement(k)  BY <1>1, <1>2, <1>3 DEF Promise!BookSettlement, BillsKept, Charged
<1> QED  BY <1>4, SameEvents DEF Promised, Promise!Next

LEMMA DocumentKept ==
    ASSUME IInv, NEW w \in Workers, NEW k \in BaseKeys, ChargeDocument(w, k)
    PROVE  Promised
<1> DEFINE R == Replaced(k.src)
           taken == {p \in Covers[k.src] : \A c \in Active(p) : c.event = "charge"}
<1>1. k.event = "confirmed" /\ Pending(k) /\ MarkPosted(k) /\ \A c \in R : journal[c] = "posted"
  BY DEF ChargeDocument, Ready
<1>2. k.src \in Docs /\ Covers[k.src] \subseteq Payments /\ k \in ChargeEntries
  BY <1>1, KeyFields, SourcesAssumption DEF ChargeEntries
<1>3. \A c \in R : c \in ChargeEntries /\ c \in BaseKeys /\ c.event = "charge"
  BY <1>2, ReplacedCharges DEF IInv, BookInv
<1>4. \A p \in Payments : (\A c \in Active(p) : c.event = "charge") <=> ~ByDocument(p)
  BY ChargeEntryFacts DEF ByDocument, Active
<1>5. \A j \in BaseKeys : j \in Keys /\ ~j.rev  BY ReversalOfBase, KeyFields
<1>6. outbox'[k].st = "posted" /\ \A j \in Keys \ {k} : outbox'[j] = outbox[j]
  BY <1>1, <1>5, RowPosted DEF IInv
<1>7. \A j \in BaseKeys : journal'[j] = IF j = k THEN "posted" ELSE IF j \in R THEN "reversed" ELSE journal[j]
  BY <1>5 DEF ChargeDocument
<1>8. UNION {Active(p) : p \in taken} = R
  BY <1>2, <1>4 DEF Replaced, DueCharges
<1>9. \A j \in BaseKeys : FateOf(j)' = IF j = k THEN "booked" ELSE IF j \in R THEN "undone" ELSE FateOf(j)
  <2>1. FateOf(k)' = "booked"  BY <1>6, <1>7 DEF FateOf, InQueue, Open
  <2>2. ASSUME NEW j \in R, j # k  PROVE FateOf(j)' = "undone"
    <3>1. outbox'[j].st = "posted" /\ journal'[j] = "reversed"  BY <1>1, <1>3, <1>5, <1>6, <1>7, <2>2, Fates
    <3> QED  BY <3>1 DEF FateOf, InQueue, Open
  <2>3. ASSUME NEW j \in BaseKeys, j # k, j \notin R  PROVE FateOf(j)' = FateOf(j)
    BY <1>5, <1>6, <1>7, <2>3 DEF FateOf, InQueue, Open
  <2> QED  BY <2>1, <2>2, <2>3
<1>10. \A p \in Payments : Active(p)' = IF p \in taken THEN {k} ELSE Active(p)
  <2>1. \A p \in Payments : \A c \in ChargeEntries :
            charges'[p][c] = IF p \notin Covers[k.src] \/ ByDocument(p) THEN charges[p][c]
                             ELSE IF c = k THEN "active"
                             ELSE IF charges[p][c] = "active" THEN "replaced_by_document"
                             ELSE charges[p][c]
    BY DEF ChargeDocument
  <2>2. ASSUME NEW p \in Payments, p \in taken  PROVE Active(p)' = {k}
    <3>1. \A c \in ChargeEntries : charges'[p][c] = "active" <=> c = k  BY <1>4, <2>1, <2>2
    <3> QED  BY <1>2, <3>1 DEF Active
  <2>3. ASSUME NEW p \in Payments, p \notin taken  PROVE Active(p)' = Active(p)
    <3>1. \A c \in ChargeEntries : charges'[p][c] = charges[p][c]  BY <1>4, <2>1, <2>3
    <3> QED  BY <3>1 DEF Active
  <2> QED  BY <2>2, <2>3
<1>11. FateOf(k) = "queued"  BY <1>1, Fates DEF Open, Pending
<1>12. Promise!BookDocument(k)
  <2>1. {p \in Covers[k.src] : \A c \in [q \in Payments |-> Active(q)][p] : c.event = "charge"} = taken  BY <1>2
  <2>2. UNION {[q \in Payments |-> Active(q)][p] : p \in taken} = R  BY <1>2, <1>8
  <2>3. [j \in BaseKeys |-> FateOf(j)]' =
            [j \in BaseKeys |-> IF j = k THEN "booked" ELSE IF j \in R THEN "undone" ELSE [i \in BaseKeys |-> FateOf(i)][j]]
    BY <1>9
  <2>4. [p \in Payments |-> Active(p)]' = [p \in Payments |-> IF p \in taken THEN {k} ELSE [q \in Payments |-> Active(q)][p]]
    BY <1>10
  <2> HIDE DEF taken, R
  <2> QED  BY <1>1, <1>11, <2>1, <2>2, <2>3, <2>4, SameEvents DEF Promise!BookDocument
<1> QED  BY <1>12, SameEvents DEF Promised, Promise!Next

LEMMA ReversalKept ==
    ASSUME IInv, NEW w \in Workers, NEW k \in Keys, PostReversal(w, k)
    PROVE  Promised
<1> DEFINE o == Original(k)
<1>1. k.rev /\ MarkPosted(k) /\ journal[o] = "posted"  BY DEF PostReversal
<1>2. o \in BaseKeys /\ o \in Keys /\ k # o /\ k \notin BaseKeys  BY <1>1, OriginalOfReversal, ReversalOfBase, KeyFields
<1>3. \A j \in Keys \ {k} : outbox'[j] = outbox[j]  BY <1>1, RowPosted DEF IInv
<1>4. journal'[o] = "reversed" /\ \A j \in Keys \ {k, o} : journal'[j] = journal[j]
  BY <1>2 DEF PostReversal, IInv, TypeOK
<1>5. \A p \in Payments : \A c \in ChargeEntries :
            charges'[p][c] = IF c = o /\ charges[p][c] = "active" THEN ReversedReason(o) ELSE charges[p][c]
  BY DEF PostReversal
<1> HIDE DEF o
<1>6. FateOf(o) = "booked" /\ outbox[o].st = "posted"  BY <1>1, <1>2, Fates
<1>7. FateOf(o)' = "undone"  BY <1>2, <1>3, <1>4, <1>6 DEF FateOf, InQueue, Open
<1>8. FatesKept({o})  BY <1>2, <1>3, <1>4, ReversalOfBase DEF FatesKept, FateOf, InQueue, Open
<1>9. \A p \in Payments : Active(p)' = Active(p) \ {o}
  <2>1. ReversedReason(o) # "active"  BY DEF ReversedReason
  <2> QED  BY <1>5, <2>1 DEF Active
<1>10. Promise!Undo(o)  BY <1>2, <1>6, <1>7, <1>8, <1>9, SameEvents DEF Promise!Undo, FatesKept
<1> QED  BY <1>2, <1>10, SameEvents DEF Promised, Promise!Next

LEMMA RowKept ==
    ASSUME IInv, IInv', NEW w \in Workers, NEW k \in Keys, ProcessRow(w, k)
    PROVE  Promised
<1>1. ASSUME UNCHANGED <<outbox, journal, charges>>  PROVE Promised
  BY <1>1, Unseen DEF FatesKept, BillsKept, FateOf, InQueue, Open, Active
<1>2. ASSUME MarkSkipped(k) \/ (\E b \in Keys : Block(k, b)), Pending(k), journal' = journal, charges' = charges
      PROVE  Promised
  <2>1. \A j \in Keys \ {k} : outbox'[j] = outbox[j]  BY <1>2 DEF MarkSkipped, Block, IInv, TypeOK
  <2>2. outbox'[k].st \in {"pending", "skipped"}  BY <1>2 DEF MarkSkipped, Block, IInv, TypeOK, Row, Pending
  <2>3. CASE k \in BaseKeys  BY <1>2, <2>1, <2>2, <2>3, Dropped DEF Open, Pending
  <2>4. CASE k \notin BaseKeys  BY <1>2, <2>1, <2>4, RowUnseen
  <2> QED  BY <2>3, <2>4
<1>3. CASE ProcessNoop(w, k) \/ Fail(w, k)  BY <1>1, <1>3 DEF ProcessNoop, Fail
<1>4. CASE ProcessExisting(w, k)
  <2>1. k \notin BaseKeys
    <3>1. outbox[k].st = "pending" /\ HasEntry(k)  BY <1>4 DEF ProcessExisting, Pending
    <3> QED  BY <3>1 DEF IInv, BookInv, PostedOnce
  <2>2. \A j \in Keys \ {k} : outbox'[j] = outbox[j]  BY <1>4, RowPosted DEF ProcessExisting, IInv
  <2> QED  BY <1>4, <2>1, <2>2, RowUnseen DEF ProcessExisting
<1>5. CASE BlockOnEarlier(w, k)
  <2>1. Blockers(k) \subseteq Keys  BY DEF Blockers
  <2> QED  BY <1>2, <1>5, <2>1 DEF BlockOnEarlier
<1>6. CASE ReverseUnposted(w, k)
  <2>1. Original(k) \in Keys  BY OriginalOfReversal, ReversalOfBase
  <2> QED  BY <1>2, <1>6, <2>1 DEF ReverseUnposted
<1>7. ASSUME Ready(w, k)  PROVE k \in BaseKeys /\ Pending(k)
  BY <1>7, OriginalOfReversal DEF Ready
<1>8. CASE DueCharge(w, k)
  <2>1. k \in BaseKeys /\ Pending(k)  BY <1>7, <1>8 DEF DueCharge
  <2>2. CASE Charged(k.src) \/ k.src \in ZeroAmount  BY <1>2, <1>8, <2>1, <2>2 DEF DueCharge
  <2>3. CASE ~(Charged(k.src) \/ k.src \in ZeroAmount)  BY <1>8, <2>1, <2>3, ChargeKept DEF DueCharge
  <2> QED  BY <2>2, <2>3
<1>9. CASE ChargeCancelled(w, k)
  <2>1. k \in BaseKeys /\ Pending(k)  BY <1>7, <1>9 DEF ChargeCancelled
  <2>2. CASE ~Charged(k.src) \/ ByDocument(k.src)  BY <1>2, <1>9, <2>1, <2>2 DEF ChargeCancelled
  <2>3. CASE ~(~Charged(k.src) \/ ByDocument(k.src))  BY <1>9, <2>1, <2>3, CancellationKept DEF ChargeCancelled
  <2> QED  BY <2>2, <2>3
<1>10. CASE SettledExternal(w, k)
  <2>1. k \in BaseKeys /\ Pending(k)  BY <1>7, <1>10 DEF SettledExternal
  <2> QED  BY <1>10, <2>1, SettlementKept DEF SettledExternal
<1>11. CASE ChargeDocument(w, k)
  <2>1. k \in BaseKeys  BY <1>7, <1>11 DEF ChargeDocument
  <2> QED  BY <1>11, <2>1, DocumentKept
<1>12. CASE PostReversal(w, k)  BY <1>12, ReversalKept
<1> QED  BY <1>3, <1>4, <1>5, <1>6, <1>8, <1>9, <1>10, <1>11, <1>12 DEF ProcessRow

\* Events are queued together: those that are not queued yet.
LEMMA EmitKept ==
    ASSUME IInv, NEW ks \in Seq(Keys), Emit(ks)
    PROVE  Promised
<1> DEFINE S == {k \in BaseKeys : ~InQueue(k) /\ k \in Range(ks)}
<1>1. \A j \in BaseKeys : j \in Keys  BY ReversalOfBase
<1>2. journal' = journal /\ charges' = charges  BY DEF Emit
<1>3. \A k \in S : FateOf(k) = "new" /\ FateOf(k)' = "queued"
  BY <1>1, InsertRows DEF FateOf, InQueue, Open, IInv
<1>4. \A k \in BaseKeys \ S : FateOf(k)' = FateOf(k)
  BY <1>1, <1>2, InsertRows DEF FateOf, InQueue, Open, IInv
<1>5. BillsKept  BY <1>2 DEF BillsKept, Active
<1>6. S \in SUBSET BaseKeys  OBVIOUS
<1> HIDE DEF S
<1>7. Promise!Queue(S)  BY <1>3, <1>4, <1>5, <1>6, SameEvents DEF Promise!Queue, BillsKept
<1> QED  BY <1>6, <1>7, SameEvents DEF Promised, Promise!Next

LEMMA EngineKeepsPromise ==
    ASSUME IInv, IInv', EngineNext \/ UNCHANGED vars
    PROVE  Promised
<1>1. ASSUME UNCHANGED <<outbox, journal, charges>>  PROVE Promised
  BY <1>1, Unseen DEF FatesKept, BillsKept, FateOf, InQueue, Open, Active
<1>2. ASSUME NEW k \in Keys, Handles(k)  PROVE Promised
  <2>1. CASE k \in BaseKeys  BY <1>2, <2>1, Dropped DEF Handles
  <2>2. CASE k \notin BaseKeys  BY <1>2, <2>2, RowUnseen DEF Handles
  <2> QED  BY <2>1, <2>2
<1>3. ASSUME NEW w \in Workers, StartBatch(w) \/ FinishBatch(w) \/ Crash(w)  PROVE Promised
  BY <1>1, <1>3 DEF StartBatch, FinishBatch, Crash
<1>4. ASSUME NEW w \in Workers, NEW k \in Keys, ProcessRow(w, k)  PROVE Promised
  BY <1>4, RowKept
<1>5. ASSUME NEW w \in Workers, NEW permanent \in BOOLEAN, RecordFailure(w, permanent)  PROVE Promised
  BY <1>1, <1>2, <1>5, RecordedRow DEF IInv
<1>6. ASSUME NEW k \in Keys, BackoffExpires(k) \/ Retry(k) \/ Dismiss(k)  PROVE Promised
  BY <1>2, <1>6, HandledRow DEF IInv
<1>7. CASE UNCHANGED vars  BY <1>1, <1>7 DEF vars
<1> QED  BY <1>3, <1>4, <1>5, <1>6, <1>7 DEF EngineNext, WorkerStep

\* The queue, the workers, their crashes and retries and the screens implement the
\* ledger's promise: each event has one fate, and an installment is billed by one
\* event at a time.
THEOREM PromiseKept == Spec => KeepsThePromise
<1>1. Init => Promise!Init
  <2> SUFFICES ASSUME Init  PROVE Promise!Init
    OBVIOUS
  <2>1. \A k \in BaseKeys : FateOf(k) = "new"  BY ReversalOfBase DEF Init, FateOf, InQueue, Absent
  <2>2. \A p \in Payments : Active(p) = {}  BY DEF Init, Active
  <2> QED  BY <2>1, <2>2, SameEvents DEF Promise!Init
<1>2. IInv /\ IInv' /\ [Next]_vars => [Promise!Next]_(Promise!promise)
  <2> SUFFICES ASSUME IInv, IInv', [Next]_vars  PROVE Promised
    BY DEF Promised
  <2>1. CASE EngineNext \/ UNCHANGED vars  BY <2>1, EngineKeepsPromise
  <2>2. CASE EmitAny
    <3>1. PICK ks \in Feed : Emit(ks)  BY <2>2 DEF EmitAny
    <3> QED  BY <3>1, EmitKept, EngineAssumption
  <2> QED  BY <2>1, <2>2 DEF Next
<1> QED  BY <1>1, <1>2, Invariant, PTL DEF Spec, KeepsThePromise, Promise!Spec

=============================================================================
