------------------------ MODULE MCInstallmentLedger ------------------------
(***************************************************************************)
(* Instances of InstallmentLedger for TLC: one installment p1, with the    *)
(* document d1 (dated after the due date) or without any.                  *)
(***************************************************************************)
EXTENDS InstallmentLedger, TLC

CONSTANTS p1, d1, w1

OnePayment == {p1}
OneDoc     == {d1}
CoversOne  == (d1 :> {p1})
CoversNone == <<>>
Nothing    == {}

\* Losses are followed where the contract has no document (so that a rebuild may
\* lose its reversals) and to two rows.
LossesAreFew == lost # {} => nextId <= 3 /\ \A d \in Docs : dstat[d] = "none"

=============================================================================
