--------------------------- MODULE PurchasePromise ---------------------------
(***************************************************************************)
(* What checkout promises whoever pays: a purchase that is paid is claimed *)
(* by one process at a time, which gives what was bought, once, or fails.  *)
(* A period of the plan is added for each plan given and the add-on is on  *)
(* from the moment it is given; neither comes or goes in any other way but *)
(* by taking the add-on back.                                              *)
(*                                                                         *)
(*   due     "unpaid", "paid" or "claimed"                                 *)
(*   giving  how many are giving what was bought                           *)
(*   given   how often it was given                                        *)
(*   window  periods of the plan the account has                           *)
(*   on      the add-on is on                                              *)
(*   torn    two plans were once given at a time, and a period may be lost *)
(***************************************************************************)
EXTENDS Naturals

CONSTANTS Plans, Addons

VARIABLES due, giving, given, window, on, torn

promiseVars == <<due, giving, given, window, on, torn>>

Purchases == Plans \cup Addons

Pay(p) ==
    /\ due[p] = "unpaid"
    /\ due' = [due EXCEPT ![p] = "paid"]
    /\ UNCHANGED <<giving, given, window, on, torn>>

\* One of those who saw it paid begins to give it.
Take(p) ==
    /\ due[p] = "paid"
    /\ due' = [due EXCEPT ![p] = "claimed"]
    /\ giving' = [giving EXCEPT ![p] = @ + 1]
    /\ UNCHANGED <<given, window, on, torn>>

\* A claimed plan may be up for another claim; an add-on never is.
HandBack(p) ==
    /\ p \in Plans /\ due[p] = "claimed"
    /\ due' = [due EXCEPT ![p] = "paid"]
    /\ UNCHANGED <<giving, given, window, on, torn>>

Gives(p) ==
    /\ giving[p] > 0
    /\ giving' = [giving EXCEPT ![p] = @ - 1]
    /\ given' = [given EXCEPT ![p] = @ + 1]
    /\ UNCHANGED <<due, torn>>

GivePlan(p) ==
    /\ Gives(p)
    /\ ~torn => window' = window + 1
    /\ UNCHANGED on

GiveAddon(p) == Gives(p) /\ on' = TRUE /\ UNCHANGED window

\* It fails, and nobody tries again unless it was handed back.
Lose(p) ==
    /\ giving[p] > 0
    /\ giving' = [giving EXCEPT ![p] = @ - 1]
    /\ UNCHANGED <<due, given, window, on, torn>>

\* Two plans at a time, or one twice.
Tear ==
    /\ \E p, q \in Plans : giving[p] > 0 /\ giving[q] > 0 /\ (p = q => giving[p] > 1)
    /\ torn' = TRUE
    /\ UNCHANGED <<due, giving, given, window, on>>

TakeBack == on' = FALSE /\ UNCHANGED <<due, giving, given, window, torn>>

Init ==
    /\ due = [p \in Purchases |-> "unpaid"]
    /\ giving = [p \in Purchases |-> 0] /\ given = [p \in Purchases |-> 0]
    /\ window = 0 /\ on = FALSE /\ torn = FALSE

Next ==
    \/ \E p \in Purchases : Pay(p) \/ Take(p) \/ HandBack(p) \/ Lose(p)
    \/ \E p \in Plans : GivePlan(p)
    \/ \E p \in Addons : GiveAddon(p)
    \/ Tear \/ TakeBack

Spec == Init /\ [][Next]_promiseVars

==============================================================================
