--------------------------- MODULE MCDueInvoicing ---------------------------
(***************************************************************************)
(* An instance of DueInvoicing for TLC.                                    *)
(***************************************************************************)
EXTENDS DueInvoicing

\* Two installments of one due date, so that documents may cover one or both.
TwoDues == {1, 2}

=============================================================================
