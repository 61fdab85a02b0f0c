-------------------------- MODULE MCFiscalPeriods --------------------------
(***************************************************************************)
(* Instances of FiscalPeriods for TLC: interchangeable sessions, two       *)
(* months that have ended, the second the last of its year, and the first  *)
(* month of the next year, which is running.                               *)
(***************************************************************************)
EXTENDS FiscalPeriods, TLC

CONSTANTS s1, s2, s3

TwoSessions   == {s1, s2}
ThreeSessions == {s1, s2, s3}

\* Sessions only differ in what they are doing.
SessionSymmetry == Permutations({s1, s2, s3})

=============================================================================
