--------------------------- MODULE MCPostingEngine ---------------------------
(***************************************************************************)
(* Instances of PostingEngine for TLC.  The document d1 covers p1; in the  *)
(* instance with three installments it covers p1 and p2.                   *)
(***************************************************************************)
EXTENDS PostingEngine, TLC

CONSTANTS p1, p2, p3, d1, w1, w2

OnePayment    == {p1}
ThreePayments == {p1, p2, p3}
OneDoc        == {d1}
CoversOne     == (d1 :> {p1})
CoversTwo     == (d1 :> {p1, p2})
Nothing       == {}

Each(S) == {<<k>> : k \in S}

\* Everything that can happen to the charging of p1.
Charging == Each(ChargeKeys(p1) \cup {CancelKey(p1), ConfirmKey(d1),
                                      Reversal(ChargeKey(p1, 1)), Reversal(ConfirmKey(d1))})

\* A charge, its settlement outside the portal, and what undoes them.
Settling == Each({ChargeKey(p1, 1), SettleKey(p1), CancelKey(p1),
                  Reversal(ChargeKey(p1, 1)), Reversal(SettleKey(p1))})

\* A charge, the document that replaces it and the reversal of the document.
Replacing == Each({ChargeKey(p1, 1), ConfirmKey(d1), Reversal(ConfirmKey(d1))})

\* A charge, a document that also covers p2, the charge of p2 behind it, and p3
\* which shares nothing with them.
Chain == Each({ChargeKey(p1, 1), ConfirmKey(d1), ChargeKey(p2, 1), ChargeKey(p3, 1)})

WorkerSymmetry == Permutations(Workers)

=============================================================================
