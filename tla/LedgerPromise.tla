---------------------------- MODULE LedgerPromise ----------------------------
(***************************************************************************)
(* What the ledger promises the sources, without queue, workers, attempts, *)
(* locks or reversal rows: every business event has one fate, and an       *)
(* installment is billed by at most one event at a time.                   *)
(*                                                                         *)
(*   fate    of an event: new, queued, then dropped or booked, and undone  *)
(*   billed  the event, if any, that bills an installment                  *)
(***************************************************************************)
EXTENDS LedgerKeys

VARIABLES fate, billed

promise == <<fate, billed>>

Init ==
    /\ fate = [k \in BaseKeys |-> "new"]
    /\ billed = [p \in Payments |-> {}]

Queue(S) ==
    /\ \A k \in S : fate[k] = "new"
    /\ fate' = [k \in BaseKeys |-> IF k \in S THEN "queued" ELSE fate[k]]
    /\ UNCHANGED billed

\* Dismissed by a user, or nothing to book.
Drop(k) ==
    /\ fate[k] = "queued"
    /\ fate' = [fate EXCEPT ![k] = "dropped"]
    /\ UNCHANGED billed

Book(k) == fate[k] = "queued" /\ fate' = [fate EXCEPT ![k] = "booked"]

\* E02: only an installment nothing bills.
BookCharge(k) ==
    /\ k.event = "charge" /\ billed[k.src] = {}
    /\ Book(k)
    /\ billed' = [billed EXCEPT ![k.src] = {k}]

\* E05: ends the bill of a due-date charge, never a document's.
BookCancellation(k) ==
    /\ k.event = "charge_cancelled"
    /\ billed[k.src] # {} /\ \A c \in billed[k.src] : c.event = "charge"
    /\ Book(k)
    /\ billed' = [billed EXCEPT ![k.src] = {}]

\* E33: settles what is billed.
BookSettlement(k) ==
    /\ k.event = "settled_external" /\ billed[k.src] # {}
    /\ Book(k)
    /\ UNCHANGED billed

\* E01 / E08: takes over the installments no other document bills, and undoes
\* the due-date charges that billed them, all or nothing.
BookDocument(k) ==
    LET taken == {p \in Covers[k.src] : \A c \in billed[p] : c.event = "charge"} IN
    /\ k.event = "confirmed" /\ fate[k] = "queued"
    /\ fate' = [j \in BaseKeys |->
            IF j = k THEN "booked"
            ELSE IF j \in UNION {billed[p] : p \in taken} THEN "undone"
            ELSE fate[j]]
    /\ billed' = [p \in Payments |-> IF p \in taken THEN {k} ELSE billed[p]]

Undo(k) ==
    /\ fate[k] = "booked"
    /\ fate' = [fate EXCEPT ![k] = "undone"]
    /\ billed' = [p \in Payments |-> billed[p] \ {k}]

Next ==
    \/ \E S \in SUBSET BaseKeys : Queue(S)
    \/ \E k \in BaseKeys : \/ Drop(k) \/ Undo(k) \/ BookCharge(k) \/ BookCancellation(k)
                           \/ BookSettlement(k) \/ BookDocument(k)

Spec == Init /\ [][Next]_promise

=============================================================================
