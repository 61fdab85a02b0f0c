----------------------- MODULE InstallmentLedgerProofs -----------------------
(***************************************************************************)
(* Proofs about InstallmentLedger, for any installments, documents,        *)
(* workers and bounds: the actual sources queue only what the engine       *)
(* expects, so that what is proved of the engine holds of the whole.       *)
(***************************************************************************)
EXTENDS InstallmentLedger, PostingEngineProofs, FiniteSetTheorems

-----------------------------------------------------------------------------
(* The invariant.                                                           *)

\* Rows have ids of their own (bigserial).
IdsDiffer ==
    \A j, k \in Keys : InQueue(j) /\ InQueue(k) /\ outbox[j].id = outbox[k].id => j = k

\* Generations of a charge are queued without gaps.
ChargesRun ==
    \A p \in Payments : \A g \in 1..MaxGen :
        InQueue(ChargeKey(p, g)) => \A h \in 1..g : InQueue(ChargeKey(p, h))

\* The insert of k may come at any time: what must precede it is queued.
Founded(k) ==
    /\ k.rev => InQueue(Original(k))
    /\ ~k.rev /\ k.event = "charge" => \A h \in 1..(k.gen - 1) : InQueue(ChargeKey(k.src, h))

IsCharge(k) == ~k.rev /\ k.event = "charge"

\* No charge of p is active or on its way.
Uncharged(p) == DueCharges(p) = {} /\ \A k \in ChargeEvents(p) : ~Open(k)

\* An insert of ks is to be expected.
Fits(ks) ==
    \A k \in Range(ks) : /\ Founded(k)
                         /\ IsCharge(k) /\ ~InQueue(k) => Uncharged(k.src)

AtMostOne ==
    \A p \in Payments :
        /\ \A j, k \in ChargeEvents(p) : Open(j) /\ Open(k) => j = k
        /\ DueCharges(p) # {} => \A k \in ChargeEvents(p) : ~Open(k)

\* What was decided, or planned by the rebuild, stays right however late it is
\* inserted.
DecisionsFit == \A ks \in decided \cup {rebuild.plan} : Fits(ks)

\* What the proofs about the queue need.
CoreInv == IInv /\ IdsDiffer /\ ChargesRun /\ AtMostOne

LedgerInv == LedgerTypeOK /\ CoreInv /\ DecisionsFit

-----------------------------------------------------------------------------
(* Keys.                                                                    *)

LEMMA KeysOf ==
    /\ \A p \in Payments : /\ CancelKey(p) \in Keys /\ SettleKey(p) \in Keys
                           /\ Reversal(SettleKey(p)) \in Keys
                           /\ \A g \in 1..MaxGen : ChargeKey(p, g) \in Keys
                           /\ ChargeKeys(p) \subseteq Keys /\ PaymentKeys(p) \subseteq BaseKeys
    /\ \A d \in Docs : ConfirmKey(d) \in Keys
<1>1. \A p \in Payments : PaymentKeys(p) \subseteq BaseKeys  BY DEF BaseKeys
<1>2. \A d \in Docs : ConfirmKey(d) \in BaseKeys  BY DEF BaseKeys
<1>3. \A p \in Payments : /\ CancelKey(p) \in BaseKeys /\ SettleKey(p) \in BaseKeys
                          /\ ChargeKeys(p) \subseteq BaseKeys
  BY <1>1 DEF PaymentKeys
<1>4. \A p \in Payments : \A g \in 1..MaxGen : ChargeKey(p, g) \in BaseKeys
  BY <1>3 DEF ChargeKeys
<1>5. \A k \in BaseKeys : k \in Keys /\ Reversal(k) \in Keys  BY ReversalOfBase
<1> QED  BY <1>1, <1>2, <1>3, <1>4, <1>5

LEMMA KeyParts ==
    \A p \in Payments : /\ CancelKey(p).rev = FALSE /\ CancelKey(p).event = "charge_cancelled"
                        /\ SettleKey(p).rev = FALSE /\ SettleKey(p).event = "settled_external"
                        /\ Reversal(SettleKey(p)).rev = TRUE
                        /\ Original(Reversal(SettleKey(p))) = SettleKey(p)
BY DEF CancelKey, SettleKey, Reversal, Original, Key

LEMMA ConfirmParts == \A d \in Docs : ConfirmKey(d).rev = FALSE /\ ConfirmKey(d).event = "confirmed"
BY DEF ConfirmKey, Key

LEMMA ChargeParts ==
    \A p, g : /\ ChargeKey(p, g).src = p /\ ChargeKey(p, g).gen = g
              /\ ChargeKey(p, g).rev = FALSE /\ ChargeKey(p, g).event = "charge"
BY DEF ChargeKey, Key

\* A charge event is the key of its installment and generation.
LEMMA ChargeIs ==
    ASSUME NEW k \in Keys, IsCharge(k)
    PROVE  /\ k.src \in Payments /\ k.gen \in 1..MaxGen /\ k = ChargeKey(k.src, k.gen)
           /\ k \in ChargeKeys(k.src)
<1>1. k \in BaseKeys  BY OriginalOfReversal DEF IsCharge
<1>2. k.event = "charge"  BY DEF IsCharge
<1>3. \A p \in Payments : k # CancelKey(p) /\ k # SettleKey(p)  BY <1>2, KeyParts
<1>4. \A d \in Docs : k # ConfirmKey(d)  BY <1>2, ConfirmParts
<1>5. PICK p \in Payments : k \in ChargeKeys(p)  BY <1>1, <1>3, <1>4 DEF BaseKeys, PaymentKeys
<1>6. PICK g \in 1..MaxGen : k = ChargeKey(p, g)  BY <1>5 DEF ChargeKeys
<1>7. k.src = p /\ k.gen = g  BY <1>6, ChargeParts
<1> QED  BY <1>5, <1>6, <1>7

LEMMA ChargesOf ==
    ASSUME NEW p \in Payments, NEW k \in ChargeKeys(p)
    PROVE  k \in Keys /\ IsCharge(k) /\ k.src = p
<1>1. PICK g \in 1..MaxGen : k = ChargeKey(p, g)  BY DEF ChargeKeys
<1> QED  BY <1>1, ChargeParts, KeysOf DEF IsCharge

\* A due-date charge of p has one of p's charge keys.
LEMMA ChargeOf ==
    ASSUME NEW p \in Payments, NEW k \in ChargeEntries, k.event = "charge", p \in PaymentIds(k)
    PROVE  k \in ChargeKeys(p) /\ k \in BaseKeys /\ k \in Keys
<1>1. k \in BaseKeys /\ k \in Keys /\ ~k.rev  BY ReversalOfBase DEF ChargeEntries
<1>2. k.src = p  BY <1>1, PaymentIdsType
<1> QED  BY <1>1, <1>2, ChargeIs DEF IsCharge

\* What an active due-date charge says of the queue.
LEMMA DueChargeIs ==
    ASSUME IInv, NEW p \in Payments, NEW k \in DueCharges(p)
    PROVE  k \in ChargeEvents(p)
<1>1. k \in ChargeEntries /\ charges[p][k] = "active" /\ k.event = "charge"  BY DEF DueCharges, Active
<1>2. HasEntry(k) /\ p \in PaymentIds(k)  BY <1>1 DEF IInv, BookInv, MarkersAgree, MarkerFits
<1>3. k \in ChargeKeys(p) /\ k \in BaseKeys  BY <1>1, <1>2, ChargeOf
<1>4. outbox[k].st = "posted"  BY <1>2, <1>3 DEF IInv, BookInv, PostedOnce
<1> QED  BY <1>3, <1>4 DEF ChargeEvents, InQueue

-----------------------------------------------------------------------------
(* Sequences of keys.                                                       *)

LEMMA OneKey ==
    ASSUME NEW k \in Keys
    PROVE  <<k>> \in Seq(Keys) /\ Range(<<k>>) = {k}
<1>1. <<k>> \in Seq(Keys) /\ DOMAIN <<k>> = {1} /\ <<k>>[1] = k  OBVIOUS
<1> QED  BY <1>1 DEF Range

LEMMA NoKeys == <<>> \in Seq(Keys) /\ Range(<<>>) = {}
<1>1. <<>> \in Seq(Keys) /\ DOMAIN <<>> = {}  OBVIOUS
<1> QED  BY <1>1 DEF Range

LEMMA JoinedKeys ==
    ASSUME NEW s \in Seq(Keys), NEW t \in Seq(Keys)
    PROVE  s \o t \in Seq(Keys) /\ Range(s \o t) \subseteq Range(s) \cup Range(t)
<1>1. s \o t \in Seq(Keys)  OBVIOUS
<1>2. ASSUME NEW i \in DOMAIN (s \o t)  PROVE (s \o t)[i] \in Range(s) \cup Range(t)
  <2>1. i \in 1..(Len(s) + Len(t)) /\ Len(s) \in Nat /\ Len(t) \in Nat  OBVIOUS
  <2>2. CASE i <= Len(s)
    <3>1. i \in DOMAIN s /\ (s \o t)[i] = s[i]  BY <2>1, <2>2
    <3> QED  BY <3>1 DEF Range
  <2>3. CASE i > Len(s)
    <3>1. i - Len(s) \in DOMAIN t /\ (s \o t)[i] = t[i - Len(s)]  BY <2>1, <2>3
    <3> QED  BY <3>1 DEF Range
  <2> QED  BY <2>1, <2>2, <2>3
<1> QED  BY <1>1, <1>2 DEF Range

-----------------------------------------------------------------------------
(* The next generation.                                                     *)

\* As many charge events as generations below a missing one.
LEMMA CountBelow ==
    ASSUME NEW p \in Payments, NEW n \in Nat,
           \A g \in 1..MaxGen : InQueue(ChargeKey(p, g)) => g <= n
    PROVE  IsFiniteSet(ChargeEvents(p)) /\ Cardinality(ChargeEvents(p)) <= n
<1> DEFINE gen == [k \in ChargeEvents(p) |-> k.gen]
<1>1. \A k \in ChargeEvents(p) : k = ChargeKey(p, k.gen) /\ k.gen \in 1..n
  <2> SUFFICES ASSUME NEW k \in ChargeEvents(p)  PROVE k = ChargeKey(p, k.gen) /\ k.gen \in 1..n
    OBVIOUS
  <2>1. k \in ChargeKeys(p) /\ InQueue(k)  BY DEF ChargeEvents
  <2>2. PICK g \in 1..MaxGen : k = ChargeKey(p, g)  BY <2>1 DEF ChargeKeys
  <2>3. k.gen = g  BY <2>2, ChargeParts
  <2> QED  BY <2>1, <2>2, <2>3, MaxGenAssumption
<1>2. gen \in Injection(ChargeEvents(p), 1..n)
  BY <1>1 DEF Injection, IsInjective
<1>3. IsFiniteSet(1..n) /\ Cardinality(1..n) = n  BY FS_Interval
<1> QED  BY <1>2, <1>3, FS_Injection

LEMMA EventsFinite ==
    ASSUME NEW p \in Payments
    PROVE  IsFiniteSet(ChargeEvents(p)) /\ Cardinality(ChargeEvents(p)) \in Nat
<1>1. MaxGen \in Nat /\ \A g \in 1..MaxGen : g <= MaxGen  BY MaxGenAssumption
<1>2. IsFiniteSet(ChargeEvents(p))  BY <1>1, CountBelow
<1> QED  BY <1>2, FS_CardinalityType

\* All the generations counted are queued.
LEMMA AllBefore ==
    ASSUME NEW p \in Payments, ChargesRun, NEW h \in 1..Cardinality(ChargeEvents(p)), h <= MaxGen
    PROVE  InQueue(ChargeKey(p, h))
<1> SUFFICES ASSUME ~InQueue(ChargeKey(p, h))  PROVE FALSE
  OBVIOUS
<1>1. h \in 1..MaxGen /\ h - 1 \in Nat /\ Cardinality(ChargeEvents(p)) \in Nat
  BY EventsFinite, MaxGenAssumption
<1>2. ASSUME NEW g \in 1..MaxGen, InQueue(ChargeKey(p, g))  PROVE g <= h - 1
  <2>1. ~(h \in 1..g)  BY <1>2 DEF ChargesRun
  <2> QED  BY <2>1, <1>1, MaxGenAssumption
<1>3. Cardinality(ChargeEvents(p)) <= h - 1  BY <1>1, <1>2, CountBelow
<1> QED  BY <1>1, <1>3

-----------------------------------------------------------------------------
(* What the rebuild reads.                                                  *)

LEMMA ByIds ==
    ASSUME IInv, IdsDiffer, NEW S \in SUBSET Keys, \A k \in S : InQueue(k)
    PROVE  /\ IsFiniteSet(S) /\ Cardinality(S) \in Nat
           /\ \A i \in 1..Cardinality(S) : InOrder(i, S) \in S
<1> DEFINE ids == [k \in S |-> outbox[k].id]
           Before(k) == {j \in S : outbox[j].id < outbox[k].id}
           n == Cardinality(S)
           rank == [k \in S |-> Cardinality(Before(k))]
<1>1. nextId - 1 \in Nat /\ \A k \in S : outbox[k].id \in 1..(nextId - 1)
  <2>1. nextId \in Nat \ {0}  BY DEF IInv, TypeOK
  <2>2. QueueOrder  BY DEF IInv, QueueInv
  <2>3. ASSUME NEW k \in S  PROVE outbox[k].id \in 1..(nextId - 1)
    <3>1. k \in Keys /\ InQueue(k)  OBVIOUS
    <3> QED  BY <2>2, <3>1 DEF QueueOrder
  <2> QED  BY <2>1, <2>3
<1>2. \A j, k \in S : outbox[j].id = outbox[k].id => j = k  BY DEF IdsDiffer
<1>3. IsFiniteSet(S)
  <2>1. ids \in Injection(S, 1..(nextId - 1))  BY <1>1, <1>2 DEF Injection, IsInjective
  <2>2. IsFiniteSet(1..(nextId - 1))  BY <1>1, FS_Interval
  <2> QED  BY <2>1, <2>2, FS_Injection
<1>4. n \in Nat  BY <1>3, FS_CardinalityType
<1>5. ASSUME NEW k \in S  PROVE Cardinality(Before(k)) \in 0..(n - 1) /\ IsFiniteSet(Before(k))
  <2>1. Before(k) \in SUBSET (S \ {k})  BY <1>1
  <2>2. IsFiniteSet(S \ {k}) /\ Cardinality(S \ {k}) = n - 1  BY <1>3, FS_RemoveElement
  <2> HIDE DEF Before, n
  <2>3. IsFiniteSet(Before(k)) /\ Cardinality(Before(k)) <= n - 1  BY <2>1, <2>2, FS_Subset
  <2>4. Cardinality(Before(k)) \in Nat  BY <2>3, FS_CardinalityType
  <2> QED  BY <1>4, <2>3, <2>4
<1>6. ASSUME NEW j \in S, NEW k \in S, outbox[j].id < outbox[k].id
      PROVE  Cardinality(Before(j)) # Cardinality(Before(k))
  <2>1. Before(j) \in SUBSET Before(k)  BY <1>1, <1>6
  <2>2. j \in Before(k) /\ j \notin Before(j)  BY <1>1, <1>6
  <2>3. IsFiniteSet(Before(k))  BY <1>5
  <2> HIDE DEF Before
  <2> QED  BY <2>1, <2>2, <2>3, FS_Subset
<1>7. \A j, k \in S : rank[j] = rank[k] => j = k
  <2> SUFFICES ASSUME NEW j \in S, NEW k \in S, j # k  PROVE Cardinality(Before(j)) # Cardinality(Before(k))
    OBVIOUS
  <2>1. outbox[j].id < outbox[k].id \/ outbox[k].id < outbox[j].id  BY <1>1, <1>2
  <2> QED  BY <1>6, <2>1
<1>8. rank \in Injection(S, 0..(n - 1))
  <2>1. rank \in [S -> 0..(n - 1)]  BY <1>5
  <2> HIDE DEF rank, n
  <2> QED  BY <1>7, <2>1 DEF Injection, IsInjective
<1>9. IsFiniteSet(0..(n - 1)) /\ Cardinality(0..(n - 1)) = n
  <2> HIDE DEF n
  <2>1. n - 1 \in Int /\ (0 > n - 1 => n = 0)  BY <1>4
  <2>2. Cardinality(0..(n - 1)) = (IF 0 > n - 1 THEN 0 ELSE n - 1 - 0 + 1)  BY <2>1, FS_Interval
  <2> QED  BY <1>4, <2>1, <2>2, FS_Interval
<1>10. rank \in Surjection(S, 0..(n - 1))
  <2> HIDE DEF rank
  <2> QED  BY <1>8, <1>9, FS_Injection
<1>11. ASSUME NEW i \in 1..n  PROVE InOrder(i, S) \in S
  <2>1. i - 1 \in 0..(n - 1)  BY <1>4
  <2>2. PICK k \in S : rank[k] = i - 1
    <3> HIDE DEF rank, n
    <3> QED  BY <1>10, <2>1 DEF Surjection
  <2>3. Cardinality(Before(k)) = i - 1  BY <2>2
  <2> QED  BY <2>3 DEF InOrder
<1> QED  BY <1>3, <1>4, <1>11

LEMMA PlanIs ==
    ASSUME IInv, IdsDiffer, RebuildRead
    PROVE  /\ rebuild'.on = TRUE /\ rebuild'.plan \in Seq(Keys)
           /\ \A k \in Range(rebuild'.plan) : k.rev /\ InQueue(Original(k))
<1> DEFINE n == Cardinality(Unreversed)
           plan == [i \in 1..n |-> Reversal(InOrder(i, Unreversed))]
<1>1. Unreversed \subseteq BaseKeys /\ \A k \in Unreversed : InQueue(k)
  BY KeysOf DEF Unreversed, InQueue
<1>2. n \in Nat /\ \A i \in 1..n : InOrder(i, Unreversed) \in Unreversed
  BY <1>1, ByIds DEF Keys
<1>3. rebuild' = [on |-> TRUE, plan |-> plan]  BY DEF RebuildRead
<1> HIDE DEF n
<1>4. ASSUME NEW i \in 1..n
      PROVE  plan[i] \in Keys /\ plan[i].rev /\ InQueue(Original(plan[i]))
  BY <1>1, <1>2, ReversalOfBase
<1>5. plan \in [1..n -> Keys]  BY <1>4
<1>6. plan \in Seq(Keys)  BY <1>2, <1>5
<1>7. \A k \in Range(plan) : k.rev /\ InQueue(Original(k))  BY <1>4 DEF Range
<1> HIDE DEF plan
<1> QED  BY <1>3, <1>6, <1>7

-----------------------------------------------------------------------------
(* Steps of the engine.                                                     *)

\* Rows only leave the state they wait in, and a charge is active only once its
\* event was posted.
EngineMoves ==
    /\ RowsMove
    /\ \A p \in Payments : \A k \in DueCharges(p)' : 
        k \in DueCharges(p) \/ (k \in ChargeEvents(p) /\ Open(k) /\ ~Open(k)')

LEMMA NewCharge ==
    ASSUME TypeOK, NEW w \in Workers, NEW k \in Keys, ProcessRow(w, k),
           NEW p \in Payments, NEW c \in DueCharges(p)', c \notin DueCharges(p)
    PROVE  Open(c)
<1>1. c \in ChargeEntries /\ charges'[p][c] = "active" /\ charges[p][c] # "active" /\ c.event = "charge"
  BY DEF DueCharges, Active
<1>2. CASE charges' = charges
  BY <1>1, <1>2
<1>3. CASE DueCharge(w, k)
  <2>1. charges' = [charges EXCEPT ![k.src][k] = "active"]  BY <1>1, <1>2, <1>3 DEF DueCharge
  <2>2. c = k  BY <1>1, <2>1 DEF TypeOK
  <2> QED  BY <1>3, <2>2 DEF DueCharge, Ready, Pending, Open
<1>4. CASE ChargeCancelled(w, k)
  <2>1. charges' = [charges EXCEPT ![k.src] =
                    [j \in ChargeEntries |-> IF @[j] = "active" THEN "cancelled" ELSE @[j]]]
    BY <1>1, <1>2, <1>4 DEF ChargeCancelled
  <2> QED  BY <1>1, <2>1 DEF TypeOK
<1>5. CASE ChargeDocument(w, k)
  <2>1. charges'[p] = IF p \notin Covers[k.src] \/ ByDocument(p) THEN charges[p]
            ELSE [j \in ChargeEntries |->
                    IF j = k THEN "active"
                    ELSE IF charges[p][j] = "active" THEN "replaced_by_document"
                    ELSE charges[p][j]]
    BY <1>5 DEF ChargeDocument
  <2>2. k.event = "confirmed"  BY <1>5 DEF ChargeDocument
  <2> QED  BY <1>1, <2>1, <2>2
<1>6. CASE PostReversal(w, k)
  <2>1. charges'[p] = [j \in ChargeEntries |->
            IF j = Original(k) /\ charges[p][j] = "active" THEN ReversedReason(Original(k)) ELSE charges[p][j]]
    BY <1>6 DEF PostReversal
  <2> QED  BY <1>1, <2>1
<1>7. CASE ProcessNoop(w, k) \/ ProcessExisting(w, k) \/ BlockOnEarlier(w, k) \/ SettledExternal(w, k)
           \/ ReverseUnposted(w, k) \/ Fail(w, k)
  BY <1>2, <1>7 DEF ProcessNoop, ProcessExisting, BlockOnEarlier, SettledExternal, ReverseUnposted, Fail
<1> QED  BY <1>3, <1>4, <1>5, <1>6, <1>7 DEF ProcessRow

LEMMA EngineSteps ==
    ASSUME IInv, EngineNext \/ UNCHANGED vars
    PROVE  IInv' /\ EngineMoves
<1>1. IInv'  BY EngineStepInv
<1>2. RowsMove  BY EngineMovesRows DEF IInv
<1>3. ASSUME NEW p \in Payments, NEW c \in DueCharges(p)', c \notin DueCharges(p)
      PROVE  c \in ChargeEvents(p) /\ Open(c) /\ ~Open(c)'
  <2>1. ASSUME charges' = charges  PROVE FALSE
    BY <1>3, <2>1 DEF DueCharges, Active
  <2>2. Open(c)
    <3>1. ASSUME NEW w \in Workers, NEW k \in Keys, ProcessRow(w, k)  PROVE Open(c)
      BY <1>3, <3>1, NewCharge DEF IInv
    <3>2. CASE UNCHANGED vars  BY <2>1, <3>2 DEF vars
    <3>3. ASSUME NEW w \in Workers, StartBatch(w) \/ FinishBatch(w) \/ Crash(w)  PROVE FALSE
      BY <2>1, <3>3 DEF StartBatch, FinishBatch, Crash
    <3>4. ASSUME NEW w \in Workers, NEW permanent \in BOOLEAN, RecordFailure(w, permanent)  PROVE FALSE
      BY <2>1, <3>4 DEF RecordFailure
    <3>5. ASSUME NEW k \in Keys, BackoffExpires(k) \/ Retry(k) \/ Dismiss(k)  PROVE FALSE
      BY <2>1, <3>5 DEF BackoffExpires, Retry, Dismiss
    <3> QED  BY <3>1, <3>2, <3>3, <3>4, <3>5 DEF EngineNext, WorkerStep
  <2>3. c \in ChargeEntries /\ charges'[p][c] = "active"  BY <1>3 DEF DueCharges, Active
  <2>4. HasEntry(c)' /\ p \in PaymentIds(c)  BY <1>1, <2>3 DEF IInv, BookInv, MarkersAgree, MarkerFits
  <2>5. outbox'[c].st = "posted"  BY <1>1, <2>3, <2>4 DEF IInv, BookInv, PostedOnce, ChargeEntries
  <2>6. c \in ChargeKeys(p)  BY <1>3, <2>3, <2>4, ChargeOf DEF DueCharges
  <2> QED  BY <2>2, <2>5, <2>6 DEF Open, ChargeEvents, InQueue
<1> QED  BY <1>1, <1>2, <1>3 DEF EngineMoves

LEMMA MovesKeepIds == EngineMoves /\ IdsDiffer => IdsDiffer'
BY DEF EngineMoves, RowsMove, IdsDiffer

LEMMA MovesKeepRuns == EngineMoves /\ ChargesRun => ChargesRun'
<1> SUFFICES ASSUME EngineMoves, ChargesRun, NEW p \in Payments, NEW g \in 1..MaxGen,
                    InQueue(ChargeKey(p, g))', NEW h \in 1..g
             PROVE  InQueue(ChargeKey(p, h))'
  BY DEF ChargesRun
<1>1. h \in 1..MaxGen  BY MaxGenAssumption
<1>2. ChargeKey(p, g) \in Keys /\ ChargeKey(p, h) \in Keys  BY <1>1, KeysOf
<1>3. InQueue(ChargeKey(p, g))  BY <1>2 DEF EngineMoves, RowsMove
<1>4. InQueue(ChargeKey(p, h))  BY <1>3 DEF ChargesRun
<1> QED  BY <1>2, <1>4 DEF EngineMoves, RowsMove

LEMMA MovesKeepCharges ==
    ASSUME EngineMoves, NEW p \in Payments
    PROVE  /\ ChargeEvents(p)' = ChargeEvents(p)
           /\ \A k \in ChargeEvents(p) : k \in Keys /\ (Open(k)' => Open(k))
           /\ Uncharged(p) => Uncharged(p)'
<1>1. ChargeEvents(p)' = ChargeEvents(p) /\ \A k \in ChargeEvents(p) : k \in Keys /\ (Open(k)' => Open(k))
  BY KeysOf DEF ChargeEvents, EngineMoves, RowsMove
<1>2. Uncharged(p) => DueCharges(p)' = {}
  BY DEF Uncharged, EngineMoves
<1> QED  BY <1>1, <1>2 DEF Uncharged

LEMMA MovesKeepOne == EngineMoves /\ AtMostOne => AtMostOne'
<1> SUFFICES ASSUME EngineMoves, AtMostOne, NEW p \in Payments
             PROVE  /\ \A j, k \in ChargeEvents(p)' : Open(j)' /\ Open(k)' => j = k
                    /\ DueCharges(p)' # {} => \A k \in ChargeEvents(p)' : ~Open(k)'
  BY DEF AtMostOne
<1>1. ChargeEvents(p)' = ChargeEvents(p) /\ \A k \in ChargeEvents(p) : Open(k)' => Open(k)
  BY MovesKeepCharges
<1>2. /\ \A j, k \in ChargeEvents(p) : Open(j) /\ Open(k) => j = k
      /\ DueCharges(p) # {} => \A k \in ChargeEvents(p) : ~Open(k)
  BY DEF AtMostOne
<1>3. ASSUME NEW c \in DueCharges(p)', NEW k \in ChargeEvents(p)  PROVE ~Open(k)'
  <2>1. CASE c \in DueCharges(p)  BY <1>1, <1>2, <2>1
  <2>2. CASE c \in ChargeEvents(p) /\ Open(c) /\ ~Open(c)'  BY <1>1, <1>2, <2>2
  <2> QED  BY <1>3, <2>1, <2>2 DEF EngineMoves
<1> QED  BY <1>1, <1>2, <1>3

LEMMA MovesKeepFounded ==
    ASSUME EngineMoves, NEW k \in Keys, Founded(k)
    PROVE  Founded(k)'
<1>1. Original(k) \in Keys  BY OriginalOfReversal, ReversalOfBase
<1>2. ASSUME IsCharge(k), NEW h \in 1..(k.gen - 1)  PROVE ChargeKey(k.src, h) \in Keys
  <2>1. k.src \in Payments /\ k.gen \in 1..MaxGen  BY <1>2, ChargeIs
  <2>2. h \in 1..MaxGen  BY <1>2, <2>1, MaxGenAssumption
  <2> QED  BY <2>1, <2>2, KeysOf
<1> QED  BY <1>1, <1>2 DEF Founded, IsCharge, EngineMoves, RowsMove

LEMMA MovesKeepFits ==
    ASSUME EngineMoves, NEW ks \in Seq(Keys), Fits(ks)
    PROVE  Fits(ks)'
<1> SUFFICES ASSUME NEW k \in Range(ks)
             PROVE  Founded(k)' /\ (IsCharge(k) /\ ~InQueue(k)' => Uncharged(k.src)')
  BY DEF Fits
<1>1. k \in Keys  BY DEF Range
<1>2. InQueue(k)' <=> InQueue(k)  BY <1>1 DEF EngineMoves, RowsMove
<1>3. Founded(k) /\ (IsCharge(k) /\ ~InQueue(k) => Uncharged(k.src))  BY DEF Fits
<1>4. IsCharge(k) => k.src \in Payments  BY <1>1, ChargeIs
<1> QED  BY <1>1, <1>2, <1>3, <1>4, MovesKeepFounded, MovesKeepCharges

-----------------------------------------------------------------------------
(* Inserts.                                                                 *)

\* Two decisions to charge an installment that are both still to be inserted
\* chose the same generation, hence the same key.
LEMMA SameGeneration ==
    ASSUME NEW j \in Keys, NEW k \in Keys, IsCharge(j), IsCharge(k), j.src = k.src,
           Founded(j), Founded(k), ~InQueue(j), ~InQueue(k)
    PROVE  j = k
<1>1. /\ j = ChargeKey(j.src, j.gen) /\ j.gen \in 1..MaxGen
      /\ k = ChargeKey(k.src, k.gen) /\ k.gen \in 1..MaxGen
  BY ChargeIs
<1>2. /\ \A h \in 1..(j.gen - 1) : InQueue(ChargeKey(j.src, h))
      /\ \A h \in 1..(k.gen - 1) : InQueue(ChargeKey(k.src, h))
  BY DEF Founded, IsCharge
<1>3. ~(j.gen \in 1..(k.gen - 1)) /\ ~(k.gen \in 1..(j.gen - 1))  BY <1>1, <1>2
<1>4. j.gen = k.gen  BY <1>1, <1>3, MaxGenAssumption
<1> QED  BY <1>1, <1>4

LEMMA InsertKeepsRows ==
    ASSUME TypeOK, NEW ks \in Seq(Keys), Emit(ks)
    PROVE  /\ \A k \in Keys : InQueue(k) => InQueue(k)' /\ outbox'[k] = outbox[k]
           /\ \A k \in Keys : InQueue(k)' /\ ~InQueue(k) => k \in Range(ks)
           /\ \A p \in Payments : DueCharges(p)' = DueCharges(p)
<1>1. \A k \in Keys : InQueue(k) => outbox'[k] = outbox[k]  BY InsertRows
<1>2. \A k \in Keys : InQueue(k)' /\ ~InQueue(k) => k \in Range(ks)  BY InsertRows DEF InQueue
<1>3. charges' = charges  BY DEF Emit
<1>4. \A p \in Payments : DueCharges(p)' = DueCharges(p)  BY <1>3 DEF DueCharges, Active
<1> QED  BY <1>1, <1>2, <1>4 DEF InQueue

LEMMA InsertKeepsIds ==
    ASSUME IInv, IdsDiffer, NEW ks \in Seq(Keys), Emit(ks)
    PROVE  IdsDiffer'
<1> SUFFICES ASSUME NEW j \in Keys, NEW k \in Keys, InQueue(j)', InQueue(k)', outbox'[j].id = outbox'[k].id
             PROVE  j = k
  BY DEF IdsDiffer
<1>1. TypeOK /\ QueueOrder  BY DEF IInv, QueueInv
<1>2. ASSUME NEW a \in Keys, InQueue(a)
      PROVE  outbox'[a] = outbox[a] /\ outbox'[a].id \in 1..(nextId - 1)
  <2>1. outbox'[a] = outbox[a]  BY <1>1, <1>2, InsertKeepsRows
  <2>2. outbox[a].id \in 1..(nextId - 1)  BY <1>1, <1>2 DEF QueueOrder
  <2> QED  BY <2>1, <2>2
<1>3. ASSUME NEW a \in Keys, ~InQueue(a), InQueue(a)'
      PROVE  /\ a \in Range(ks) /\ outbox'[a].id = IdIn(ks, a)
             /\ outbox'[a].id \in nextId..(nextId + Len(ks) - 1)
  <2>1. a \in Range(ks)  BY <1>1, <1>3, InsertKeepsRows
  <2>2. outbox'[a] = NewRow(IdIn(ks, a))  BY <1>3, <2>1 DEF Emit
  <2>3. IdIn(ks, a) \in nextId..(nextId + Len(ks) - 1)  BY <1>1, <2>1, NewRowType
  <2> QED  BY <2>1, <2>2, <2>3 DEF NewRow
<1>4. nextId \in Nat /\ Len(ks) \in Nat  BY <1>1 DEF TypeOK
<1>5. CASE InQueue(j) /\ InQueue(k)  BY <1>2, <1>5 DEF IdsDiffer
<1>6. CASE InQueue(j) /\ ~InQueue(k)
  <2>1. outbox'[j].id \in 1..(nextId - 1)  BY <1>2, <1>6
  <2>2. outbox'[k].id \in nextId..(nextId + Len(ks) - 1)  BY <1>3, <1>6
  <2> QED  BY <1>4, <2>1, <2>2
<1>7. CASE ~InQueue(j) /\ InQueue(k)
  <2>1. outbox'[k].id \in 1..(nextId - 1)  BY <1>2, <1>7
  <2>2. outbox'[j].id \in nextId..(nextId + Len(ks) - 1)  BY <1>3, <1>7
  <2> QED  BY <1>4, <2>1, <2>2
<1>8. CASE ~InQueue(j) /\ ~InQueue(k)
  <2> DEFINE i(a) == CHOOSE n \in DOMAIN ks : ks[n] = a
  <2>1. j \in Range(ks) /\ k \in Range(ks) /\ IdIn(ks, j) = IdIn(ks, k)  BY <1>3, <1>8
  <2>2. ASSUME NEW a \in Range(ks)
        PROVE  i(a) \in 1..Len(ks) /\ ks[i(a)] = a /\ IdIn(ks, a) = nextId + i(a) - 1
    <3>1. \E n \in DOMAIN ks : ks[n] = a  BY DEF Range
    <3>2. ks[i(a)] = a /\ i(a) \in DOMAIN ks  BY <3>1
    <3>3. IdIn(ks, a) = nextId + i(a) - 1  BY DEF IdIn
    <3> QED  BY <3>2, <3>3
  <2> HIDE DEF i
  <2>3. i(j) = i(k)
    <3>1. i(j) \in 1..Len(ks) /\ i(k) \in 1..Len(ks) /\ nextId + i(j) - 1 = nextId + i(k) - 1  BY <2>1, <2>2
    <3> QED  BY <1>4, <3>1
  <2> QED  BY <2>1, <2>2, <2>3
<1> QED  BY <1>5, <1>6, <1>7, <1>8

LEMMA InsertKeepsRuns ==
    ASSUME TypeOK, ChargesRun, NEW ks \in Seq(Keys), Fits(ks), Emit(ks)
    PROVE  ChargesRun'
<1> SUFFICES ASSUME NEW p \in Payments, NEW g \in 1..MaxGen, InQueue(ChargeKey(p, g))', NEW h \in 1..g
             PROVE  InQueue(ChargeKey(p, h))'
  BY DEF ChargesRun
<1>1. h \in 1..MaxGen  BY MaxGenAssumption
<1>2. ChargeKey(p, g) \in Keys /\ ChargeKey(p, h) \in Keys  BY <1>1, KeysOf
<1>3. CASE InQueue(ChargeKey(p, g))
  <2>1. InQueue(ChargeKey(p, h))  BY <1>3 DEF ChargesRun
  <2> QED  BY <1>2, <2>1, InsertKeepsRows
<1>4. CASE ~InQueue(ChargeKey(p, g)) /\ h # g
  <2>1. ChargeKey(p, g) \in Range(ks)  BY <1>2, <1>4, InsertKeepsRows
  <2>2. \A f \in 1..(g - 1) : InQueue(ChargeKey(p, f))
    BY <2>1, ChargeParts DEF Fits, Founded
  <2>3. h \in 1..(g - 1)  BY <1>4, MaxGenAssumption
  <2>4. InQueue(ChargeKey(p, h))  BY <2>2, <2>3
  <2> QED  BY <1>2, <2>4, InsertKeepsRows
<1> QED  BY <1>3, <1>4

LEMMA InsertKeepsFounded ==
    ASSUME TypeOK, NEW ks \in Seq(Keys), Emit(ks), NEW k \in Keys, Founded(k)
    PROVE  Founded(k)'
<1>1. Original(k) \in Keys  BY OriginalOfReversal, ReversalOfBase
<1>2. ASSUME IsCharge(k), NEW h \in 1..(k.gen - 1)  PROVE ChargeKey(k.src, h) \in Keys
  <2>1. k.src \in Payments /\ k.gen \in 1..MaxGen  BY <1>2, ChargeIs
  <2>2. h \in 1..MaxGen  BY <1>2, <2>1, MaxGenAssumption
  <2> QED  BY <2>1, <2>2, KeysOf
<1> QED  BY <1>1, <1>2, InsertKeepsRows DEF Founded, IsCharge

\* A charge event that is inserted finds the installment uncharged, and is the
\* only one of it.
LEMMA InsertedCharge ==
    ASSUME TypeOK, NEW ks \in Seq(Keys), Fits(ks), Emit(ks), NEW p \in Payments
    PROVE  /\ \A k \in ChargeEvents(p) : k \in ChargeEvents(p)' /\ outbox'[k] = outbox[k]
           /\ \A k \in ChargeEvents(p)' : \/ k \in ChargeEvents(p)
                                          \/ /\ k \in Keys /\ IsCharge(k) /\ k.src = p
                                             /\ ~InQueue(k) /\ InQueue(k)' /\ Founded(k) /\ Uncharged(p)
<1>1. \A k \in ChargeKeys(p) : k \in Keys /\ IsCharge(k) /\ k.src = p  BY ChargesOf
<1>2. \A k \in ChargeEvents(p) : k \in ChargeEvents(p)' /\ outbox'[k] = outbox[k]
  BY <1>1, InsertKeepsRows DEF ChargeEvents
<1>3. ASSUME NEW k \in ChargeEvents(p)', k \notin ChargeEvents(p)
      PROVE  /\ k \in Keys /\ IsCharge(k) /\ k.src = p
             /\ ~InQueue(k) /\ InQueue(k)' /\ Founded(k) /\ Uncharged(p)
  <2>1. k \in ChargeKeys(p) /\ InQueue(k)' /\ ~InQueue(k)  BY <1>3 DEF ChargeEvents
  <2>2. k \in Keys /\ IsCharge(k) /\ k.src = p  BY <1>1, <2>1
  <2>3. k \in Range(ks)  BY <2>1, <2>2, InsertKeepsRows
  <2> QED  BY <2>1, <2>2, <2>3 DEF Fits
<1> QED  BY <1>2, <1>3

LEMMA InsertKeepsOne ==
    ASSUME TypeOK, AtMostOne, NEW ks \in Seq(Keys), Fits(ks), Emit(ks)
    PROVE  AtMostOne'
<1> SUFFICES ASSUME NEW p \in Payments
             PROVE  /\ \A j, k \in ChargeEvents(p)' : Open(j)' /\ Open(k)' => j = k
                    /\ DueCharges(p)' # {} => \A k \in ChargeEvents(p)' : ~Open(k)'
  BY DEF AtMostOne
<1>1. DueCharges(p)' = DueCharges(p)  BY InsertKeepsRows
<1>2. \A k \in ChargeEvents(p) : Open(k)' => Open(k)  BY InsertedCharge DEF Open
<1>3. ASSUME NEW j \in ChargeEvents(p)', NEW k \in ChargeEvents(p)', Open(j)', Open(k)'
      PROVE  j = k
  <2>1. CASE j \in ChargeEvents(p) /\ k \in ChargeEvents(p)
    BY <1>2, <1>3, <2>1 DEF AtMostOne
  <2>2. CASE j \notin ChargeEvents(p) \/ k \notin ChargeEvents(p)
    <3>1. Uncharged(p)  BY <1>3, <2>2, InsertedCharge
    <3>2. j \notin ChargeEvents(p) /\ k \notin ChargeEvents(p)  BY <1>2, <1>3, <3>1 DEF Uncharged
    <3> QED  BY <1>3, <3>2, InsertedCharge, SameGeneration
  <2> QED  BY <2>1, <2>2
<1>4. ASSUME DueCharges(p)' # {}, NEW k \in ChargeEvents(p)'  PROVE ~Open(k)'
  <2>1. ~Uncharged(p)  BY <1>1, <1>4 DEF Uncharged
  <2>2. k \in ChargeEvents(p)  BY <1>4, <2>1, InsertedCharge
  <2> QED  BY <1>1, <1>2, <1>4, <2>2 DEF AtMostOne
<1> QED  BY <1>3, <1>4

\* Another decision is not upset by the insert: the charge it is about would be
\* the one that was inserted.
LEMMA InsertKeepsFits ==
    ASSUME TypeOK, NEW ks \in Seq(Keys), Fits(ks), Emit(ks), NEW ls \in Seq(Keys), Fits(ls)
    PROVE  Fits(ls)'
<1> SUFFICES ASSUME NEW k \in Range(ls)
             PROVE  Founded(k)' /\ (IsCharge(k) /\ ~InQueue(k)' => Uncharged(k.src)')
  BY DEF Fits
<1>1. k \in Keys  BY DEF Range
<1>2. Founded(k)  BY DEF Fits
<1>3. Founded(k)'  BY <1>1, <1>2, InsertKeepsFounded
<1>4. ASSUME IsCharge(k), ~InQueue(k)'  PROVE Uncharged(k.src)'
  <2>1. ~InQueue(k)  BY <1>1, <1>4, InsertKeepsRows
  <2>2. k.src \in Payments /\ Uncharged(k.src)  BY <1>1, <1>4, <2>1, ChargeIs DEF Fits
  <2>3. DueCharges(k.src)' = {}  BY <2>2, InsertKeepsRows DEF Uncharged
  <2>4. ASSUME NEW c \in ChargeEvents(k.src)'  PROVE ~Open(c)'
    <3>1. CASE c \in ChargeEvents(k.src)
      <4>1. outbox'[c] = outbox[c]  BY <2>2, <3>1, InsertedCharge
      <4> QED  BY <2>2, <3>1, <4>1 DEF Uncharged, Open
    <3>2. CASE c \notin ChargeEvents(k.src)
      <4>1. c \in Keys /\ IsCharge(c) /\ c.src = k.src /\ ~InQueue(c) /\ InQueue(c)' /\ Founded(c)
        BY <2>2, <2>4, <3>2, InsertedCharge
      <4>2. c = k  BY <1>1, <1>2, <1>4, <2>1, <4>1, SameGeneration
      <4> QED  BY <1>4, <4>1, <4>2
    <3> QED  BY <3>1, <3>2
  <2> QED  BY <2>3, <2>4 DEF Uncharged
<1> QED  BY <1>3, <1>4

-----------------------------------------------------------------------------
(* What is decided.                                                         *)

LEMMA ReversalFits ==
    ASSUME NEW ks \in Seq(Keys), \A k \in Range(ks) : k.rev /\ InQueue(Original(k))
    PROVE  Fits(ks)
BY DEF Fits, Founded, IsCharge

LEMMA PlainFits ==
    ASSUME NEW ks \in Seq(Keys), \A k \in Range(ks) : k.rev = FALSE /\ k.event # "charge"
    PROVE  Fits(ks)
BY DEF Fits, Founded, IsCharge

LEMMA ChargeFits ==
    ASSUME NEW p \in Payments, NEW g \in 1..MaxGen, Uncharged(p),
           \A h \in 1..(g - 1) : InQueue(ChargeKey(p, h)),
           NEW ks \in Seq(Keys), \A k \in Range(ks) : k = ChargeKey(p, g) \/ k = SettleKey(p)
    PROVE  Fits(ks)
<1> SUFFICES ASSUME NEW k \in Range(ks)
             PROVE  Founded(k) /\ (IsCharge(k) /\ ~InQueue(k) => Uncharged(k.src))
  BY DEF Fits
<1>1. CASE k = ChargeKey(p, g)
  <2>1. k.src = p /\ k.gen = g /\ k.rev = FALSE  BY <1>1, ChargeParts
  <2> QED  BY <2>1 DEF Founded
<1>2. CASE k = SettleKey(p)
  <2>1. k.rev = FALSE /\ k.event = "settled_external"  BY <1>2, KeyParts
  <2> QED  BY <2>1 DEF Founded, IsCharge
<1> QED  BY <1>1, <1>2

\* The recognizer's charge: no charge is active or queued, and as many events as
\* it counts have the generations below.
LEMMA RecognizedFits ==
    ASSUME CoreInv, NEW p \in Payments, ~IsCharged(p), Cardinality(ChargeEvents(p)) + 1 <= MaxGen
    PROVE  /\ <<ChargeKey(p, Cardinality(ChargeEvents(p)) + 1)>> \in Seq(Keys)
           /\ Fits(<<ChargeKey(p, Cardinality(ChargeEvents(p)) + 1)>>)
<1> DEFINE n == Cardinality(ChargeEvents(p))
<1>1. n \in Nat  BY EventsFinite
<1>2. n + 1 \in 1..MaxGen  BY <1>1, MaxGenAssumption
<1>3. Uncharged(p)  BY DEF IsCharged, Charged, Uncharged, DueCharges
<1>4. \A h \in 1..n : InQueue(ChargeKey(p, h))
  <2> SUFFICES ASSUME NEW h \in 1..n  PROVE InQueue(ChargeKey(p, h))
    OBVIOUS
  <2>1. h <= MaxGen  BY <1>1, <1>2, MaxGenAssumption
  <2> QED  BY <2>1, AllBefore DEF CoreInv
<1> HIDE DEF n
<1>5. (n + 1) - 1 = n  BY <1>1
<1>6. ChargeKey(p, n + 1) \in Keys  BY <1>2, KeysOf
<1>7. <<ChargeKey(p, n + 1)>> \in Seq(Keys) /\ Range(<<ChargeKey(p, n + 1)>>) = {ChargeKey(p, n + 1)}  BY <1>6, OneKey
<1>8. Fits(<<ChargeKey(p, n + 1)>>)  BY <1>2, <1>3, <1>4, <1>5, <1>7, ChargeFits
<1> QED  BY <1>7, <1>8 DEF n

\* The sweep's: it inserts a first charge where none was ever queued.
LEMMA SweptFits ==
    ASSUME CoreInv, NEW ks \in Swept
    PROVE  ks \in Seq(Keys) /\ Fits(ks)
<1>1. ASSUME NEW p \in Payments, ks = SweptInstallment(p)  PROVE ks \in Seq(Keys) /\ Fits(ks)
  <2> DEFINE charge == IF ChargeEvents(p) = {} /\ ConfirmedDocs(p) \ LateDocs = {} THEN <<ChargeKey(p, 1)>> ELSE <<>>
             settle == IF status[p] = "settled_external" /\ ~InQueue(SettleKey(p)) THEN <<SettleKey(p)>> ELSE <<>>
  <2>1. 1 \in 1..MaxGen  BY MaxGenAssumption
  <2>2. ChargeKey(p, 1) \in Keys /\ SettleKey(p) \in Keys  BY <2>1, KeysOf
  <2>3. /\ charge \in Seq(Keys) /\ Range(charge) \subseteq {ChargeKey(p, 1)}
        /\ ChargeEvents(p) # {} => Range(charge) = {}
    BY <2>2, OneKey, NoKeys
  <2>4. settle \in Seq(Keys) /\ Range(settle) \subseteq {SettleKey(p)}  BY <2>2, OneKey, NoKeys
  <2>5. ks = <<>> \/ ks = charge \o settle  BY <1>1 DEF SweptInstallment
  <2> HIDE DEF charge, settle
  <2>6. charge \o settle \in Seq(Keys) /\ Range(charge \o settle) \subseteq Range(charge) \cup Range(settle)
    BY <2>3, <2>4, JoinedKeys
  <2>7. ks \in Seq(Keys) /\ Range(ks) \subseteq Range(charge) \cup Range(settle)  BY <2>5, <2>6, NoKeys
  <2>8. CASE ChargeEvents(p) = {}
    <3>1. Uncharged(p)  BY <2>8, DueChargeIs DEF Uncharged, CoreInv
    <3>2. \A h \in 1..(1 - 1) : InQueue(ChargeKey(p, h))  OBVIOUS
    <3>3. \A k \in Range(ks) : k = ChargeKey(p, 1) \/ k = SettleKey(p)  BY <2>3, <2>4, <2>7
    <3> QED  BY <2>1, <2>7, <3>1, <3>2, <3>3, ChargeFits
  <2>9. CASE ChargeEvents(p) # {}
    <3>1. \A k \in Range(ks) : k = SettleKey(p)  BY <2>3, <2>4, <2>7, <2>9
    <3>2. \A k \in Range(ks) : k.rev = FALSE /\ k.event # "charge"  BY <3>1, KeyParts
    <3> QED  BY <2>7, <3>2, PlainFits
  <2> QED  BY <2>8, <2>9
<1>2. ASSUME NEW d \in Docs, ks = SweptDocument(d)  PROVE ks \in Seq(Keys) /\ Fits(ks)
  <2>1. ks \in Seq(Keys) /\ Range(ks) \subseteq {ConfirmKey(d)}  BY <1>2, KeysOf, OneKey, NoKeys DEF SweptDocument
  <2>2. \A k \in Range(ks) : k.rev = FALSE /\ k.event # "charge"  BY <2>1, ConfirmParts
  <2> QED  BY <2>1, <2>2, PlainFits
<1> QED  BY <1>1, <1>2 DEF Swept

LEMMA HooksFit ==
    /\ \A p \in Payments : /\ <<SettleKey(p)>> \in Seq(Keys) /\ Fits(<<SettleKey(p)>>)
                           /\ <<CancelKey(p)>> \in Seq(Keys) /\ Fits(<<CancelKey(p)>>)
                           /\ <<Reversal(SettleKey(p))>> \in Seq(Keys)
                           /\ InQueue(SettleKey(p)) => Fits(<<Reversal(SettleKey(p))>>)
    /\ \A d \in Docs : <<ConfirmKey(d)>> \in Seq(Keys) /\ Fits(<<ConfirmKey(d)>>)
<1>1. ASSUME NEW k \in Keys, k.rev = FALSE, k.event # "charge"  PROVE <<k>> \in Seq(Keys) /\ Fits(<<k>>)
  BY <1>1, OneKey, PlainFits
<1>2. ASSUME NEW k \in Keys, k.rev = TRUE
      PROVE  <<k>> \in Seq(Keys) /\ (InQueue(Original(k)) => Fits(<<k>>))
  BY <1>2, OneKey, ReversalFits
<1>3. ASSUME NEW p \in Payments
      PROVE  /\ <<SettleKey(p)>> \in Seq(Keys) /\ Fits(<<SettleKey(p)>>)
             /\ <<CancelKey(p)>> \in Seq(Keys) /\ Fits(<<CancelKey(p)>>)
  BY <1>1, KeysOf, KeyParts
<1>4. ASSUME NEW p \in Payments
      PROVE  /\ <<Reversal(SettleKey(p))>> \in Seq(Keys)
             /\ InQueue(SettleKey(p)) => Fits(<<Reversal(SettleKey(p))>>)
  BY <1>2, KeysOf, KeyParts
<1>5. ASSUME NEW d \in Docs  PROVE <<ConfirmKey(d)>> \in Seq(Keys) /\ Fits(<<ConfirmKey(d)>>)
  BY <1>1, KeysOf, ConfirmParts
<1> QED  BY <1>3, <1>4, <1>5


-----------------------------------------------------------------------------
(* The steps.                                                               *)

\* The queue is written by the engine or by the insert of a decision.
QueueMoves == \/ EngineNext \/ UNCHANGED vars
              \/ \E ks \in decided \cup {rebuild.plan} : Emit(ks)

\* What is decided afterwards fits what was read before.
DecidesFit == \A ks \in decided' \cup {rebuild'.plan} : ks \in Seq(Keys) /\ Fits(ks)

\* The part of the type that is the sources'.
SourcesOK ==
    /\ status \in [Payments -> {"pending", "settled_external", "cancelled", "deleted"}]
    /\ dstat \in [Docs -> {"none", "draft", "confirmed"}]
    /\ contract \in {"active", "ended", "rebuilt"}
    /\ calls \subseteq CallTypes
    /\ rebuild.on \in BOOLEAN
    /\ lost \subseteq Keys

LEMMA CoreStep ==
    ASSUME CoreInv, \A ks \in decided \cup {rebuild.plan} : ks \in Seq(Keys) /\ Fits(ks), QueueMoves
    PROVE  CoreInv' /\ \A ls \in Seq(Keys) : Fits(ls) => Fits(ls)'
<1>1. CASE EngineNext \/ UNCHANGED vars
  <2>1. IInv' /\ EngineMoves  BY <1>1, EngineSteps DEF CoreInv
  <2>2. CoreInv'  BY <2>1, MovesKeepIds, MovesKeepRuns, MovesKeepOne DEF CoreInv
  <2> QED  BY <2>1, <2>2, MovesKeepFits
<1>2. ASSUME NEW ks \in decided \cup {rebuild.plan}, Emit(ks)
      PROVE  CoreInv' /\ \A ls \in Seq(Keys) : Fits(ls) => Fits(ls)'
  <2>1. ks \in Seq(Keys) /\ Fits(ks) /\ TypeOK  BY DEF CoreInv, IInv
  <2>2. \A k \in Range(ks) : k.rev => InQueue(Original(k))  BY <2>1 DEF Fits, Founded
  <2>3. IInv'  BY <1>2, <2>1, <2>2, EmitInv DEF CoreInv
  <2>4. IdsDiffer' /\ ChargesRun' /\ AtMostOne'
    BY <1>2, <2>1, InsertKeepsIds, InsertKeepsRuns, InsertKeepsOne DEF CoreInv
  <2>5. \A ls \in Seq(Keys) : Fits(ls) => Fits(ls)'  BY <1>2, <2>1, InsertKeepsFits
  <2> QED  BY <2>3, <2>4, <2>5 DEF CoreInv
<1> QED  BY <1>1, <1>2 DEF QueueMoves

LEMMA InvStep ==
    ASSUME LedgerInv, QueueMoves, DecidesFit, SourcesOK'
    PROVE  LedgerInv'
<1>1. \A ks \in decided \cup {rebuild.plan} : ks \in Seq(Keys) /\ Fits(ks)
  BY DEF LedgerInv, DecisionsFit, LedgerTypeOK
<1>2. CoreInv' /\ \A ls \in Seq(Keys) : Fits(ls) => Fits(ls)'  BY <1>1, CoreStep DEF LedgerInv
<1>3. DecisionsFit'  BY <1>2 DEF DecidesFit, DecisionsFit
<1>4. LedgerTypeOK'  BY <1>2 DEF LedgerTypeOK, SourcesOK, DecidesFit, CoreInv, IInv
<1> QED  BY <1>2, <1>3, <1>4 DEF LedgerInv

LEMMA NowFit ==
    ASSUME LedgerInv
    PROVE  /\ \A ks \in decided \cup {rebuild.plan} : ks \in Seq(Keys) /\ Fits(ks)
           /\ SourcesOK
BY DEF LedgerInv, DecisionsFit, LedgerTypeOK, SourcesOK

\* A handler decides on what fits.
LEMMA Deciding ==
    ASSUME LedgerInv, NEW seqs, \A ks \in seqs : ks \in Seq(Keys) /\ Fits(ks), Decide(seqs), rebuild' = rebuild
    PROVE  DecidesFit
BY NowFit DEF Decide, DecidesFit

LEMMA NotDeciding ==
    ASSUME LedgerInv, decided' \subseteq decided, rebuild' = rebuild
    PROVE  DecidesFit
BY NowFit DEF DecidesFit

LEMMA NoPlan ==
    ASSUME LedgerInv, decided' \subseteq decided, rebuild' = NoRebuild
    PROVE  DecidesFit /\ rebuild'.on = FALSE
<1>1. <<>> \in Seq(Keys) /\ Fits(<<>>)  BY NoKeys DEF Fits
<1>2. rebuild'.plan = <<>> /\ rebuild'.on = FALSE  BY DEF NoRebuild
<1> QED  BY <1>1, <1>2, NowFit DEF DecidesFit

LEMMA CallsTyped ==
    /\ \A p \in Payments : /\ Call("settle_guarded", p) \in CallTypes /\ Call("settle_checked", p) \in CallTypes
                           /\ Call("settle_written", p) \in CallTypes /\ Call("revert_written", p) \in CallTypes
    /\ \A d \in Docs : Call("confirm_written", d) \in CallTypes
    /\ Call("disposed", TheContract) \in CallTypes /\ Call("ended", TheContract) \in CallTypes
    /\ Call("cancel_written", TheContract) \in CallTypes
BY DEF CallTypes

LEMMA SettleStep ==
    ASSUME LedgerInv, NEW p \in Payments,
           \/ SettleGuard(p) \/ SettleCheck(p) \/ SettleWrite(p) \/ SettleHook(p)
           \/ RevertWrite(p) \/ RevertHook(p)
    PROVE  QueueMoves /\ DecidesFit /\ SourcesOK'
<1> USE NowFit, CallsTyped DEF SourcesOK, Keep, Goto
<1>1. CASE SettleGuard(p)  BY <1>1, NotDeciding DEF SettleGuard, QueueMoves
<1>2. CASE SettleCheck(p)  BY <1>2, NotDeciding DEF SettleCheck, QueueMoves
<1>3. CASE SettleWrite(p)  BY <1>3, NotDeciding DEF SettleWrite, QueueMoves
<1>4. CASE SettleHook(p)
  <2>1. DecidesFit
    <3>1. CASE UNCHANGED decided  BY <1>4, <3>1, NotDeciding DEF SettleHook
    <3>2. CASE Decide({<<SettleKey(p)>>})  BY <1>4, <3>2, HooksFit, Deciding DEF SettleHook
    <3> QED  BY <1>4, <3>1, <3>2 DEF SettleHook
  <2> QED  BY <1>4, <2>1 DEF SettleHook, QueueMoves
<1>5. CASE RevertWrite(p)  BY <1>5, NotDeciding DEF RevertWrite, QueueMoves
<1>6. CASE RevertHook(p)
  <2>1. DecidesFit
    <3>1. CASE UNCHANGED decided  BY <1>6, <3>1, NotDeciding DEF RevertHook
    <3>2. CASE InQueue(SettleKey(p)) /\ Decide({<<Reversal(SettleKey(p))>>})
      BY <1>6, <3>2, HooksFit, Deciding DEF RevertHook
    <3> QED  BY <1>6, <3>1, <3>2 DEF RevertHook
  <2> QED  BY <1>6, <2>1 DEF RevertHook, QueueMoves
<1> QED  BY <1>1, <1>2, <1>3, <1>4, <1>5, <1>6

LEMMA DocumentStep ==
    ASSUME LedgerInv, NEW d \in Docs, ConfirmDocument(d) \/ ConfirmHook(d)
    PROVE  QueueMoves /\ DecidesFit /\ SourcesOK'
<1> USE NowFit, CallsTyped DEF SourcesOK, Keep, Goto
<1>1. CASE ConfirmDocument(d)  BY <1>1, NotDeciding DEF ConfirmDocument, QueueMoves
<1>2. CASE ConfirmHook(d)
  <2>1. DecidesFit  BY <1>2, HooksFit, Deciding DEF ConfirmHook
  <2> QED  BY <1>2, <2>1 DEF ConfirmHook, QueueMoves
<1> QED  BY <1>1, <1>2

LEMMA ContractStep ==
    ASSUME LedgerInv, EndContract \/ ApplyDispositions \/ Terminate \/ CancelUnpaid \/ CancelHook
    PROVE  QueueMoves /\ DecidesFit /\ SourcesOK'
<1> USE NowFit, CallsTyped DEF SourcesOK, Keep, Goto
<1>1. CASE EndContract  BY <1>1, NotDeciding DEF EndContract, QueueMoves
<1>2. CASE ApplyDispositions  BY <1>2, NotDeciding DEF ApplyDispositions, QueueMoves
<1>3. CASE Terminate  BY <1>3, NotDeciding DEF Terminate, QueueMoves
<1>4. CASE CancelUnpaid  BY <1>4, NotDeciding DEF CancelUnpaid, QueueMoves
<1>5. CASE CancelHook
  <2>1. DecidesFit  BY <1>5, HooksFit, Deciding DEF CancelHook
  <2> QED  BY <1>5, <2>1 DEF CancelHook, QueueMoves
<1> QED  BY <1>1, <1>2, <1>3, <1>4, <1>5

LEMMA RebuildStep ==
    ASSUME LedgerInv, RebuildRead \/ RebuildCommit \/ RebuildUnreversed
    PROVE  QueueMoves /\ DecidesFit /\ SourcesOK'
<1> USE NowFit DEF SourcesOK
<1>1. CASE RebuildRead
  <2>1. rebuild'.on = TRUE /\ rebuild'.plan \in Seq(Keys) /\ Fits(rebuild'.plan)
    BY <1>1, PlanIs, ReversalFits DEF LedgerInv, CoreInv
  <2>2. DecidesFit  BY <1>1, <2>1 DEF RebuildRead, DecidesFit
  <2> QED  BY <1>1, <2>1, <2>2 DEF RebuildRead, QueueMoves
<1>2. CASE RebuildCommit
  <2>1. DecidesFit /\ rebuild'.on = FALSE  BY <1>2, NoPlan DEF RebuildCommit
  <2> QED  BY <1>2, <2>1 DEF RebuildCommit, QueueMoves
<1>3. CASE RebuildUnreversed
  <2>1. DecidesFit /\ rebuild'.on = FALSE  BY <1>3, NoPlan DEF RebuildUnreversed
  <2>2. Range(rebuild.plan) \subseteq Keys
    <3>1. rebuild.plan \in Seq(Keys)  OBVIOUS
    <3> QED  BY <3>1 DEF Range
  <2> QED  BY <1>3, <2>1, <2>2 DEF RebuildUnreversed, QueueMoves
<1> QED  BY <1>1, <1>2, <1>3

LEMMA NightStep ==
    ASSUME LedgerInv, Nightly
    PROVE  QueueMoves /\ DecidesFit /\ SourcesOK'
<1> USE NowFit DEF SourcesOK, Keep
<1>1. ASSUME NEW p \in Payments, RecognizeCharge(p)  PROVE QueueMoves /\ DecidesFit /\ SourcesOK'
  <2>1. Decide({<<ChargeKey(p, Cardinality(ChargeEvents(p)) + 1)>>}) /\ ~IsCharged(p)
        /\ Cardinality(ChargeEvents(p)) + 1 <= MaxGen
    BY <1>1 DEF RecognizeCharge
  <2>2. DecidesFit  BY <1>1, <2>1, RecognizedFits, Deciding DEF LedgerInv, RecognizeCharge
  <2> QED  BY <1>1, <2>2 DEF RecognizeCharge, QueueMoves
<1>2. ASSUME NEW p \in Payments, RecognizeSettlement(p)  PROVE QueueMoves /\ DecidesFit /\ SourcesOK'
  <2>1. DecidesFit  BY <1>2, HooksFit, Deciding DEF RecognizeSettlement
  <2> QED  BY <1>2, <2>1 DEF RecognizeSettlement, QueueMoves
<1>3. ASSUME NEW ks \in Swept, Sweep(ks)  PROVE QueueMoves /\ DecidesFit /\ SourcesOK'
  <2>1. ks \in Seq(Keys) /\ Fits(ks)  BY SweptFits DEF LedgerInv
  <2>2. DecidesFit  BY <1>3, <2>1, Deciding DEF Sweep
  <2> QED  BY <1>3, <2>2 DEF Sweep, QueueMoves
<1> QED  BY <1>1, <1>2, <1>3 DEF Nightly

LEMMA InsertStep ==
    ASSUME LedgerInv, NEW ks \in decided, Enqueue(ks) \/ EnqueueFails(ks)
    PROVE  QueueMoves /\ DecidesFit /\ SourcesOK'
<1> USE NowFit DEF SourcesOK
<1>1. CASE Enqueue(ks)
  <2>1. DecidesFit  BY <1>1, NotDeciding DEF Enqueue
  <2> QED  BY <1>1, <2>1 DEF Enqueue, QueueMoves
<1>2. CASE EnqueueFails(ks)
  <2>1. DecidesFit  BY <1>2, NotDeciding DEF EnqueueFails
  <2>2. Range(ks) \subseteq Keys
    <3>1. ks \in Seq(Keys)  OBVIOUS
    <3> QED  BY <3>1 DEF Range
  <2> QED  BY <1>2, <2>1, <2>2 DEF EnqueueFails, QueueMoves
<1> QED  BY <1>1, <1>2

LEMMA Steps ==
    ASSUME LedgerInv, [LedgerNext]_ledgerVars
    PROVE  QueueMoves /\ DecidesFit /\ SourcesOK'
<1>1. CASE EngineStep \/ UNCHANGED ledgerVars
  <2>1. UNCHANGED sources /\ (EngineNext \/ UNCHANGED vars)  BY <1>1 DEF EngineStep, ledgerVars
  <2>2. DecidesFit  BY <2>1, NotDeciding DEF sources
  <2>3. SourcesOK'  BY <2>1, NowFit DEF sources, SourcesOK
  <2> QED  BY <2>1, <2>2, <2>3 DEF QueueMoves
<1>2. CASE Requests
  BY <1>2, SettleStep, DocumentStep, ContractStep, RebuildStep DEF Requests
<1>3. CASE Nightly
  BY <1>3, NightStep
<1>4. CASE \E ks \in decided : Enqueue(ks) \/ EnqueueFails(ks)
  BY <1>4, InsertStep
<1> QED  BY <1>1, <1>2, <1>3, <1>4 DEF LedgerNext

LEMMA LedgerInitInv == LedgerInit => LedgerInv
<1> SUFFICES ASSUME LedgerInit  PROVE LedgerInv
  OBVIOUS
<1>1. IInv  BY InitInv DEF LedgerInit
<1>2. \A k \in Keys : ~InQueue(k)  BY DEF LedgerInit, Init, InQueue, Absent
<1>3. \A p \in Payments : ChargeEvents(p) = {} /\ DueCharges(p) = {}
  <2>1. \A p \in Payments : ChargeEvents(p) = {}  BY <1>2, KeysOf DEF ChargeEvents
  <2> QED  BY <1>1, <2>1, DueChargeIs
<1>4. IdsDiffer  BY <1>2 DEF IdsDiffer
<1>5. ChargesRun  BY <1>2, KeysOf DEF ChargesRun
<1>6. AtMostOne  BY <1>3 DEF AtMostOne
<1>7. rebuild.on = FALSE /\ rebuild.plan = <<>> /\ decided = {}  BY DEF LedgerInit, NoRebuild
<1>8. DecisionsFit  BY <1>7, NoKeys DEF DecisionsFit, Fits
<1>9. LedgerTypeOK
  <2>1. dstat \in [Docs -> {"none", "draft", "confirmed"}]  BY DEF LedgerInit
  <2> QED  BY <1>1, <1>7, <2>1, NoKeys DEF LedgerTypeOK, LedgerInit, IInv
<1> QED  BY <1>1, <1>4, <1>5, <1>6, <1>8, <1>9 DEF LedgerInv, CoreInv

-----------------------------------------------------------------------------
(* The theorems.                                                            *)

\* What a hook, the recognizer, the sweep or the rebuild decided from facts that
\* may be stale by now still fits the queue, and the queue and the books of the
\* engine are in order: the inductive invariant of the whole.
THEOREM LedgerInvariant == LedgerSpec => []LedgerInv
<1>1. LedgerInv /\ [LedgerNext]_ledgerVars => LedgerInv'  BY Steps, InvStep
<1> QED  BY LedgerInitInv, <1>1, PTL DEF LedgerSpec

\* Installments, documents, requests and decisions keep their types.
THEOREM LedgerTypes == LedgerSpec => []LedgerTypeOK
<1>1. LedgerInv => LedgerTypeOK  BY DEF LedgerInv
<1> QED  BY <1>1, LedgerInvariant, PTL

\* What is proved of the engine with an open environment holds of the engine
\* with its sources, whichever of them Feed would allow.
THEOREM EngineInvariant == LedgerSpec => []IInv
<1>1. LedgerInv => IInv  BY DEF LedgerInv, CoreInv
<1> QED  BY <1>1, LedgerInvariant, PTL

\* The recognizer and the sweep, however late their decisions are inserted, have
\* at most one charge of an installment under way, and none while one is active.
THEOREM OneCharge == LedgerSpec => []OneChargeAtATime
<1>1. ASSUME LedgerInv  PROVE OneChargeAtATime
  <2> SUFFICES ASSUME NEW p \in Payments
               PROVE  /\ Cardinality({k \in ChargeEvents(p) : Open(k)}) <= 1
                      /\ DueCharges(p) # {} => \A k \in ChargeEvents(p) : ~Open(k)
    BY DEF OneChargeAtATime
  <2> DEFINE O == {k \in ChargeEvents(p) : Open(k)}
  <2>1. \A j, k \in O : j = k  BY <1>1 DEF LedgerInv, CoreInv, AtMostOne
  <2>2. O = {} \/ \E k : O = {k}  BY <2>1
  <2> HIDE DEF O
  <2>3. Cardinality(O) \in {0, 1}
    <3>1. CASE O = {}  BY <3>1, FS_EmptySet
    <3>2. CASE \E k : O = {k}  BY <3>2, FS_Singleton
    <3> QED  BY <2>2, <3>1, <3>2
  <2>4. Cardinality(O) <= 1  BY <2>3
  <2> QED  BY <1>1, <2>4 DEF O, LedgerInv, CoreInv, AtMostOne
<1> QED  BY <1>1, LedgerInvariant, PTL

\* Whatever a source inserts, and from facts however stale, is an event that the
\* engine's own environment may queue.
THEOREM SourcesFeed == LedgerSpec => SourcesFeedTheEngine
<1> DEFINE A == \A k \in Keys : ~InQueue(k) /\ outbox'[k].st # "absent" =>
                    /\ k.rev => InQueue(Original(k))
                    /\ (~k.rev /\ k.event = "charge" /\ k.gen > 1) => InQueue(ChargeKey(k.src, k.gen - 1))
<1>1. ASSUME LedgerInv, [LedgerNext]_ledgerVars  PROVE A
  <2> SUFFICES ASSUME NEW k \in Keys, ~InQueue(k), outbox'[k].st # "absent"
               PROVE  /\ k.rev => InQueue(Original(k))
                      /\ (~k.rev /\ k.event = "charge" /\ k.gen > 1) => InQueue(ChargeKey(k.src, k.gen - 1))
    OBVIOUS
  <2>1. TypeOK  BY <1>1 DEF LedgerInv, CoreInv, IInv
  <2>2. CASE EngineNext \/ UNCHANGED vars
    <3>1. RowsMove  BY <2>1, <2>2, EngineMovesRows
    <3> QED  BY <3>1 DEF RowsMove, InQueue
  <2>3. ASSUME NEW ks \in decided \cup {rebuild.plan}, Emit(ks)  PROVE Founded(k)
    <3>1. ks \in Seq(Keys) /\ Fits(ks)  BY <1>1, NowFit
    <3>2. k \in Range(ks)  BY <2>1, <2>3, <3>1, InsertKeepsRows DEF InQueue
    <3> QED  BY <3>1, <3>2 DEF Fits
  <2>4. ASSUME Founded(k), IsCharge(k), k.gen > 1  PROVE InQueue(ChargeKey(k.src, k.gen - 1))
    <3>1. k.gen \in 1..MaxGen  BY <2>4, ChargeIs
    <3>2. k.gen - 1 \in 1..(k.gen - 1)  BY <2>4, <3>1, MaxGenAssumption
    <3> QED  BY <2>4, <3>2 DEF Founded, IsCharge
  <2> QED  BY <1>1, <2>2, <2>3, <2>4, Steps DEF QueueMoves, Founded, IsCharge
<1>2. LedgerInv /\ [LedgerNext]_ledgerVars => [A]_ledgerVars  BY <1>1
<1> HIDE DEF A
<1>3. LedgerSpec => [][A]_ledgerVars  BY <1>2, LedgerInvariant, PTL DEF LedgerSpec
<1> QED  BY <1>3 DEF A, SourcesFeedTheEngine

\* The whole ledger, from the requests to the journal, implements its promise:
\* every event a source decides on has one fate, and an installment is billed by
\* one event at a time.
THEOREM LedgerKeepsPromise == LedgerSpec => KeepsThePromise
<1>1. LedgerInit => Promise!Init
  <2> SUFFICES ASSUME LedgerInit  PROVE Promise!Init
    OBVIOUS
  <2>1. \A k \in BaseKeys : FateOf(k) = "new"  BY ReversalOfBase DEF LedgerInit, Init, FateOf, InQueue, Absent
  <2>2. \A p \in Payments : Active(p) = {}  BY DEF LedgerInit, Init, Active
  <2> QED  BY <2>1, <2>2, SameEvents DEF Promise!Init
<1>2. LedgerInv /\ LedgerInv' /\ [LedgerNext]_ledgerVars => [Promise!Next]_(Promise!promise)
  <2> SUFFICES ASSUME LedgerInv, LedgerInv', [LedgerNext]_ledgerVars  PROVE Promised
    BY DEF Promised
  <2>1. IInv /\ IInv' /\ QueueMoves /\ \A ks \in decided \cup {rebuild.plan} : ks \in Seq(Keys)
    BY Steps, NowFit DEF LedgerInv, CoreInv
  <2> QED  BY <2>1, EngineKeepsPromise, EmitKept DEF QueueMoves
<1> QED  BY <1>1, <1>2, LedgerInvariant, PTL DEF LedgerSpec, KeepsThePromise, Promise!Spec

=============================================================================
