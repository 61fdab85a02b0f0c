-------------------------- MODULE MCAdvisoryLocks --------------------------
(***************************************************************************)
(* Instances, for TLC, of the four components whose requests share         *)
(* something under an advisory lock that does not cover all they do: a     *)
(* seller's e-invoice chain, the money collected on a contract, the calls  *)
(* Dara buys from Ejar, the money held in trust.  They share no state: a   *)
(* behaviour is one of the four, and the others never leave their initial  *)
(* states.                                                                 *)
(***************************************************************************)
EXTENDS ZatcaChain, Collections, EjarLookup, TrustGuard, TLC

CONSTANTS c1, c2, n1, n2, p1, p2, d1, a1, a2, k1, k2, x1, o1

VARIABLE part

\* Two requests at a time in every part.
TwoClients   == {c1, c2}
TwoNumbers   == {n1, n2}

\* Two instalments on one invoice with a debit note.
TwoInstallments == {p1, p2}
OneDoc          == {d1}
CoversBoth      == (d1 :> <<p1, p2>>)
OneNote         == (d1 :> 1)

\* a1 is held to its contract k1; a2 is a party to nothing and held to nothing.
TwoAccounts  == {a1, a2}
TwoContracts == {k1, k2}
OneUnknown   == {x1}
PartyOf      == (a1 :> {k1}) @@ (a2 :> {})
OnePinned    == {a1}
QuotaOf      == (a1 :> 1) @@ (a2 :> 2)

\* One landlord's money beside money that is nobody's; a sum and its double.
OneLandlord == {o1}
OneOrTwo    == {1, 2}

\* Requests, sessions and processes only differ in what they are doing, and so do
\* documents to be filed.
LockSymmetry == Permutations(TwoClients) \cup Permutations(TwoNumbers)

LocksInit ==
    /\ part \in {"chain", "collections", "ejar", "trust"}
    /\ ZatcaInit /\ CollectionsInit /\ EjarInit /\ TrustInit

\* Bound: once two lookups have overlapped, they end and no third is let in.
OneOverlap == doubled => locked' \subseteq locked

LocksNext ==
    /\ \/ part = "chain" /\ ZatcaNext /\ UNCHANGED <<collectionVars, ejarVars, trustVars>>
       \/ part = "collections" /\ CollectionsNext /\ UNCHANGED <<zatcaVars, ejarVars, trustVars>>
       \/ part = "ejar" /\ EjarNext /\ OneOverlap /\ UNCHANGED <<zatcaVars, collectionVars, trustVars>>
       \/ part = "trust" /\ TrustNext /\ UNCHANGED <<zatcaVars, collectionVars, ejarVars>>
    /\ UNCHANGED part

LocksSpec == LocksInit /\ [][LocksNext]_<<part, zatcaVars, collectionVars, ejarVars, trustVars>>

=============================================================================
