---------------------------- MODULE EInvoiceChain ----------------------------
(***************************************************************************)
(* What the e-invoices of one seller promise whoever audits them: the      *)
(* documents at ZATCA form a chain.  Each is filed once, with the counter  *)
(* after that of a document filed before it and with that document's hash; *)
(* or it is a first one.  The seller's counter only ever stands at a       *)
(* document on file, moves forward, and starts over from zero.             *)
(*                                                                         *)
(*   filed  the documents ZATCA holds                                      *)
(*   tip    the seller's counter, and the hash of its document             *)
(***************************************************************************)
EXTENDS Naturals

CONSTANTS
    Documents,     \* hash, inv (the invoice), icv (the counter) and pih (the hash before it)
    Seed           \* the hash a chain starts from

VARIABLES filed, tip

chainVars == <<filed, tip>>

Start == [icv |-> 0, pih |-> Seed]

\* d is a first document, or comes right after one on file.
Follows(d) ==
    \/ d.pih = Seed /\ d.icv = 1
    \/ \E e \in filed : d.pih = e.hash /\ d.icv = e.icv + 1

\* No two documents share a hash, so none is ever filed under two counters.
File(d) ==
    /\ d \in Documents
    /\ UNCHANGED tip
    /\ filed' = filed \cup {d}
    /\ \A e \in filed : e.hash # d.hash
    /\ Follows(d)

MoveOn(d) ==
    /\ d.icv > tip.icv
    /\ tip' = [icv |-> d.icv, pih |-> d.hash]
    /\ UNCHANGED filed

StartOver == tip' = Start /\ UNCHANGED filed

Init == filed = {} /\ tip = Start

Next ==
    \/ \E d \in filed' \ filed : File(d)
    \/ \E d \in filed : MoveOn(d)
    \/ StartOver

Spec == Init /\ [][Next]_chainVars

=============================================================================
