----------------------------- MODULE TrustGuard -----------------------------
(***************************************************************************)
(* The guard of client money held in trust.  A payment out of trust is one *)
(* transaction: it works out what it will take, takes the account's trust  *)
(* lock, reads the posted balance and the queue in one statement, then, in *)
(* later statements at READ COMMITTED, what queued reversals will give     *)
(* back and what the landlord it pays has in trust, and only then queues   *)
(* its event.  Receipts, undone receipts, voided payments and the worker   *)
(* do not take the lock.                                                   *)
(*                                                                         *)
(*   rec    the money movements recorded, in the order of their rows: amt  *)
(*          (into trust > 0), of (the landlord whose money it is), st (the *)
(*          row: fresh, late when it failed or may never post, posted) and *)
(*          undo (the same of its reversal)                                *)
(*   out    the payments under way, by the request                         *)
(*   short  history: the deepest deficit that a step outside the guard     *)
(*          left                                                           *)
(***************************************************************************)
EXTENDS Integers, Sequences, FiniteSets, FiniteSetsExt, Functions

CONSTANTS
    Payers,        \* requests that take money out
    Landlords,
    Nobody,        \* money that is no landlord's: a tenant's credit, the office's
    Sums,          \* the amounts movements have
    MaxRecords,    \* bound: movements recorded
    MaxFailed      \* bound: rows that have failed at a time

ASSUME TrustAssumption ==
    /\ Nobody \notin Landlords
    /\ Sums \subseteq Nat \ {0} /\ MaxRecords \in Nat /\ MaxFailed \in Nat

VARIABLES rec, out, short

trustVars == <<rec, out, short>>

Owners == Landlords \cup {Nobody}

Movements == [amt : Int, of : Owners, st : {"fresh", "late", "posted"},
              undo : {"no", "fresh", "late", "posted"}]

Requests == [at : {"need", "effects", "position", "cap", "write"}, kind : {"queued", "direct", "edit", "end"},
             of : Owners, amt : Nat, on : Nat, need : Int, base : Int,
             sure : SUBSET Nat, late : SUBSET Nat, undoSure : SUBSET Nat, undoLate : SUBSET Nat, had : Nat,
             overtaken : BOOLEAN]

TrustTypeOK ==
    /\ rec \in Seq(Movements)
    /\ DOMAIN out \subseteq Payers /\ \A s \in DOMAIN out : out[s] \in Requests
    /\ short \in Nat

TrustInit ==
    /\ rec = <<>>
    /\ out = <<>>
    /\ short = 0

-----------------------------------------------------------------------------
(* Sums over the movements.                                                 *)

Records == DOMAIN rec

UnderWay == DOMAIN out

RoomLeft == Len(rec) + Cardinality(UnderWay) < MaxRecords

Added(ns, what) == FoldSet(LAMBDA n, x : what[n] + x, 0, ns)

Amount == [n \in Records |-> rec[n].amt]

Outgoing == [n \in Records |-> Min({0, rec[n].amt})]

\* What the trust account holds once everything recorded is posted.
Held == Added({n \in Records : rec[n].undo = "no"}, Amount)

HeldOf(o) == Added({n \in Records : rec[n].undo = "no" /\ rec[n].of = o}, Amount)

\* The journal's balance.
InBooks(n) == rec[n].st = "posted" /\ rec[n].undo # "posted"

Posted == Added({n \in Records : InBooks(n)}, Amount)

PostedOf(o) == Added({n \in Records : InBooks(n) /\ rec[n].of = o}, Amount)

-----------------------------------------------------------------------------
(* The guard.                                                               *)

Guarded(t) == out[t].at \in {"effects", "position", "cap"}

\* (mutant of LockFree: the check is not serialised)
NeverHeld(s) == TRUE

\* pg_advisory_xact_lock(scope, TRUST_OUTFLOW).
LockFree(s) == \A t \in UnderWay \ {s} : ~Guarded(t)

At(s, step) == s \in UnderWay /\ out[s].at = step

Goes(s, f) == out' = [t \in UnderWay \cup {s} |-> IF t = s THEN f ELSE out[t]]

Leaves(s) == out' = Restrict(out, UnderWay \ {s})

Refuse(s) == Leaves(s) /\ UNCHANGED <<rec, short>>

Asks(kind, o, amt, n, need) ==
    [at |-> "need", kind |-> kind, of |-> o, amt |-> amt, on |-> n, need |-> need, base |-> 0,
     sure |-> {}, late |-> {}, undoSure |-> {}, undoLate |-> {}, had |-> 0, overtaken |-> FALSE]

\* The snapshot, in one statement under the lock: the posted balance, the open
\* rows (but the request's own), the open reversals of posted entries.  A reversal
\* and its original that are both open cancel each other.
Snapshot(s, f) ==
    /\ LockFree(s)
    /\ LET others == Records \ {f.on}
           Open(st) == {n \in others : rec[n].st = st /\ rec[n].undo = "no"}
           Undone(st) == {n \in others : rec[n].st = "posted" /\ rec[n].undo = st} IN
       Goes(s, [f EXCEPT !.at = "effects", !.base = Posted,
                    !.sure = Open("fresh"), !.late = Open("late"),
                    !.undoSure = Undone("fresh"), !.undoLate = Undone("late")])
    /\ UNCHANGED <<rec, short>>

\* A payout, a refund, a supplier's payment, a commission transfer, an expense
\* (queued), a transfer or journal by hand (direct), the end of a contract: each
\* takes its amount.
PayOut(s, kind, o, amt) ==
    /\ s \notin UnderWay /\ RoomLeft
    /\ kind \in {"direct", "end"} => o = Nobody
    /\ Snapshot(s, Asks(kind, o, amt, 0, amt))

\* An edited expense gives back what it took only if that was posted; a row not yet
\* posted is undone with it and left out of the balance.
EditNeed(n, amt) == IF rec[n].st = "posted" THEN amt + rec[n].amt ELSE amt

\* Read before the lock, but under the expense's row lock.
EditExpense(s, n, amt) ==
    /\ s \notin UnderWay /\ RoomLeft
    /\ rec[n].amt < 0 /\ rec[n].undo = "no" /\ \A t \in UnderWay : out[t].on # n
    /\ Goes(s, Asks("edit", rec[n].of, amt, n, EditNeed(n, amt)))
    /\ UNCHANGED <<rec, short>>

\* An edit that takes no more than before is not checked.
EditGuarded(s) == At(s, "need") /\ out[s].need > 0 /\ Snapshot(s, out[s])

\* What a queued reversal of a posted entry will bring: the entry is read now, and
\* one that was reversed since brings nothing.
GivenBack == [n \in Records |-> IF InBooks(n) THEN -rec[n].amt ELSE 0]

TakenBack == [n \in Records |-> Min({0, GivenBack[n]})]

\* (mutant of Pending: what has failed is left out)
PendingFresh(f) == Added(f.sure, Amount) + Added(f.undoSure, GivenBack)

\* What the rows of the snapshot will change: a fresh row counts both ways, one
\* that may never post only what it takes.
Pending(f) ==
    Added(f.sure, Amount) + Added(f.late, Outgoing)
    + Added(f.undoSure, GivenBack) + Added(f.undoLate, TakenBack)

\* What is left of a request of nobody's money once its sums are compared.
Compared(f) == [Asks(f.kind, f.of, f.amt, f.on, 0) EXCEPT !.at = "cap", !.overtaken = f.overtaken]

Effects(s) ==
    /\ At(s, "effects")
    /\ LET f == out[s] IN
       IF f.need > f.base + Pending(f) THEN Leaves(s)
       ELSE Goes(s, CASE f.kind = "end" -> [Asks(f.kind, f.of, f.amt, 0, 0) EXCEPT !.at = "write"]
                      [] f.of # Nobody -> [f EXCEPT !.at = "position", !.need = 0, !.base = 0]
                      [] OTHER -> Compared(f))
    /\ UNCHANGED <<rec, short>>

\* The landlord's position is read from the journal of now.
Position(s) ==
    /\ At(s, "position")
    /\ Goes(s, [out[s] EXCEPT !.at = "cap", !.had = Max({0, PostedOf(out[s].of)})])
    /\ UNCHANGED <<rec, short>>

\* A step outside the guard answers for the deficit it leaves.
Unguarded == short' = Max({short, -Held'})

Row(f, st) == [amt |-> -f.amt, of |-> f.of, st |-> st, undo |-> "no"]

\* The rows the request writes; an edit reverses what it replaces.
Written(f) ==
    Append(IF f.on = 0 THEN rec ELSE [rec EXCEPT ![f.on].undo = "fresh"],
           Row(f, IF f.kind = "direct" THEN "posted" ELSE "fresh"))

\* What the rows of the snapshot change in the landlord's own money, and the
\* request itself.
PendingOf(f) ==
    LET His(ns) == {n \in ns : rec[n].of = f.of} IN
    Pending([f EXCEPT !.sure = His(@), !.late = His(@), !.undoSure = His(@), !.undoLate = His(@)])

Takes(f) == f.amt - (IF f.on # 0 THEN GivenBack[f.on] ELSE 0)

Covered(f) == f.of = Nobody \/ Takes(f) <= Max({0, f.had + PendingOf(f)})

\* The second check and the commit.
Pay(s) ==
    /\ At(s, "cap") /\ Covered(out[s])
    /\ rec' = Written(out[s])
    /\ IF out[s].overtaken THEN Unguarded ELSE UNCHANGED short
    /\ Leaves(s)

CapRefuses(s) == At(s, "cap") /\ ~Covered(out[s]) /\ Refuse(s)

EditDown(s) ==
    /\ At(s, "need") /\ out[s].need <= 0
    /\ rec' = Written(out[s])
    /\ Leaves(s)
    /\ UNCHANGED short

-----------------------------------------------------------------------------
(* What does not take the lock.                                             *)

\* Money went out after the snapshot of the one who holds the lock.
Overtaken(ts) == [t \in ts |-> [out[t] EXCEPT !.overtaken = @ \/ Guarded(t)]]

\* The end of a contract was checked in a transaction of its own; the refund is
\* written later, by statements without one.
Terminate(s) ==
    /\ At(s, "write")
    /\ rec' = Written(out[s])
    /\ out' = Overtaken(UnderWay \ {s}) /\ Unguarded

Receive(o, amt) ==
    /\ RoomLeft
    /\ rec' = Append(rec, [amt |-> amt, of |-> o, st |-> "fresh", undo |-> "no"])
    /\ UNCHANGED <<out, short>>

\* An undone receipt takes its money back, covered or not.
UndoReceipt(n) ==
    /\ rec[n].amt > 0 /\ rec[n].undo = "no"
    /\ rec' = [rec EXCEPT ![n].undo = "fresh"]
    /\ out' = Overtaken(UnderWay) /\ Unguarded

\* A voided or deleted payment; an expense only when nobody is editing it.
VoidPayment(n) ==
    /\ rec[n].amt < 0 /\ rec[n].undo = "no"
    /\ \A t \in UnderWay : out[t].on # n
    /\ rec' = [rec EXCEPT ![n].undo = "fresh"]
    /\ UNCHANGED <<out, short>>

-----------------------------------------------------------------------------
(* The worker: a row, then its reversal.                                    *)

RowPosts(n) ==
    /\ rec[n].st # "posted"
    /\ rec' = [rec EXCEPT ![n].st = "posted"]
    /\ UNCHANGED <<out, short>>

MayFail == Cardinality({n \in Records : rec[n].st = "late" \/ rec[n].undo = "late"}) < MaxFailed

RowFails(n) ==
    /\ rec[n].st = "fresh" /\ MayFail
    /\ rec' = [rec EXCEPT ![n].st = "late"]
    /\ UNCHANGED <<out, short>>

\* A guard that has listed the reversal of a receipt and not yet read what it takes
\* will read nothing.
UndoPosts(n) ==
    /\ rec[n].st = "posted" /\ rec[n].undo \in {"fresh", "late"}
    /\ rec' = [rec EXCEPT ![n].undo = "posted"]
    /\ out' = [t \in UnderWay |->
          [out[t] EXCEPT !.overtaken = @ \/ /\ out[t].at = "effects" /\ rec[n].amt > 0
                                            /\ n \in out[t].undoSure \cup out[t].undoLate]]
    /\ UNCHANGED short

UndoFails(n) ==
    /\ rec[n].undo = "fresh" /\ rec[n].st # "late" /\ MayFail
    /\ rec' = [rec EXCEPT ![n].undo = "late"]
    /\ UNCHANGED <<out, short>>

TrustNext ==
    \/ \E s \in Payers :
          \/ \E kind \in {"queued", "direct", "end"}, o \in Owners, amt \in Sums : PayOut(s, kind, o, amt)
          \/ \E n \in Records, amt \in Sums : EditExpense(s, n, amt)
          \/ EditGuarded(s) \/ EditDown(s) \/ Effects(s) \/ Position(s) \/ Pay(s) \/ CapRefuses(s) \/ Terminate(s)
    \/ \E o \in Owners, amt \in Sums : Receive(o, amt)
    \/ \E n \in Records : \/ UndoReceipt(n) \/ VoidPayment(n)
                          \/ RowPosts(n) \/ RowFails(n) \/ UndoPosts(n) \/ UndoFails(n)

TrustSpec == TrustInit /\ [][TrustNext]_trustVars

-----------------------------------------------------------------------------
\* Payments out of trust that each fit alone but not together are not both made:
\* whatever is queued, failed, posted or being reversed meanwhile, the account
\* falls short only by what was taken from it outside the guard (a receipt undone,
\* a contract's end), never by a payment the guard let through.
TrustIsCovered == Held + short >= 0

\* A payment the guard lets through, and nothing outside the guard has overtaken, never
\* leaves the account short, not even an account that was short before: the guard
\* never pays out of money that others have already been promised.
PaysWhatIsThere ==
    [][\A s \in UnderWay :
          At(s, "cap") /\ ~out[s].overtaken /\ rec' # rec /\ s \notin UnderWay' => Held' >= 0]_trustVars

\* trust-guard.ts:29: "a landlord payout from trust never takes more than THAT
\* landlord's money in trust".  Of a landlord none of whose receipts was undone.
PaidFromHisOwn ==
    \A o \in Landlords :
       \/ HeldOf(o) >= 0
       \/ \E n \in Records : rec[n].of = o /\ rec[n].amt > 0 /\ rec[n].undo # "no"

=============================================================================
