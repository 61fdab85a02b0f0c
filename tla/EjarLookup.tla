----------------------------- MODULE EjarLookup -----------------------------
(***************************************************************************)
(* Looking a contract up in Ejar.  A lookup is two or three calls that     *)
(* Dara pays for, so at most one runs at a time in all API processes,      *)
(* under a session advisory lock on a connection that makes none of its    *)
(* other statements.  Every call is logged and committed at once, with the *)
(* answer's body; the log is what the next lookup's budget is counted      *)
(* from, and what the account can read.  The bodies of a contract the      *)
(* account is no party to are withheld after the lock is given up.         *)
(*                                                                         *)
(*   calls    ejar_api_logs: the logged calls that are deducted, by        *)
(*            endpoint and account                                         *)
(*   wrong    Invoices requests for numbers Ejar does not know, by account *)
(*   bodies   the logged answers about contracts a pinned account is no    *)
(*            party to and that can still be read                          *)
(*   locked   processes whose session holds the lock                       *)
(*   look     the lookup at the head of each process's queue               *)
(*                                                                         *)
(* History, for the properties only:                                       *)
(*   doubled  a lookup was let in beside one whose session was lost        *)
(*   orphans  answers of lookups that died                                 *)
(***************************************************************************)
EXTENDS Naturals, FiniteSets, FiniteSetsExt

CONSTANTS
    Servers,       \* API processes
    Accounts,
    Contracts,     \* numbers Ejar knows
    Unknown,       \* numbers it does not
    Party,         \* the numbers of the contracts an account is a party to
    Pinned,        \* accounts held to their own contracts
    Limit,         \* lookups in the gateway's window
    Quota,         \* lookups in an account's paid period
    Pool,          \* calls Dara has bought
    WrongCap,      \* unknown numbers per account and day
    SecondCall     \* "contracts" or "details"

ASSUME EjarAssumption ==
    /\ IsFiniteSet(Accounts)
    /\ Party \in [Accounts -> SUBSET Contracts] /\ Pinned \subseteq Accounts
    /\ Limit \in Nat /\ Pool \in Nat /\ WrongCap \in Nat /\ Quota \in [Accounts -> Nat]
    /\ SecondCall \in {"contracts", "details"}

VARIABLES calls, wrong, bodies, locked, look, doubled, orphans

ejarVars == <<calls, wrong, bodies, locked, look, doubled, orphans>>

Endpoints == {"invoices", "contracts", "details"}

Numbers == Contracts \cup Unknown

NoLook == [at |-> "idle", acct |-> "none", num |-> "none", logs |-> {}, ok |-> FALSE]

EjarTypeOK ==
    /\ calls \in [Endpoints -> [Accounts -> Nat]] /\ wrong \in [Accounts -> Nat]
    /\ bodies \subseteq [id : Nat, acct : Accounts, num : Contracts]
    /\ locked \subseteq Servers
    /\ look \in [Servers -> [at : {"idle", "queued", "fallback", "verify", "leaving"} \cup Endpoints, acct : Accounts \cup {"none"},
                             num : Numbers \cup {"none"}, logs : SUBSET Nat, ok : BOOLEAN]]
    /\ doubled \in BOOLEAN /\ orphans \subseteq Nat

EjarInit ==
    /\ calls = [e \in Endpoints |-> [a \in Accounts |-> 0]] /\ wrong = [a \in Accounts |-> 0]
    /\ bodies = {} /\ locked = {}
    /\ look = [p \in Servers |-> NoLook]
    /\ doubled = FALSE /\ orphans = {}

-----------------------------------------------------------------------------
(* What a budget statement counts.                                          *)

Sent(e) == FoldSet(LAMBDA a, n : calls[e][a] + n, 0, Accounts)

Spent == Sent("invoices") + Sent("contracts") + Sent("details")

HasHeadroom(e, a) == Sent(e) < Limit /\ calls[e][a] < Quota[a]

PoolHas(n) == Spent + n <= Pool

\* (mutant of CanLookup: room for the first call is enough)
CanInvoice(a) == HasHeadroom("invoices", a) /\ PoolHas(1) /\ wrong[a] < WrongCap

\* Room for Invoices and the call after it, or nothing is sent.
CanLookup(a) ==
    HasHeadroom("invoices", a) /\ HasHeadroom(SecondCall, a) /\ PoolHas(2) /\ wrong[a] < WrongCap

-----------------------------------------------------------------------------
InStep(p, step) == look[p].at = step

Proceed(p, step, l) == look' = [look EXCEPT ![p] = [l EXCEPT !.at = step]]

GiveUp(p) == look' = [look EXCEPT ![p] = NoLook]

\* The lock is given back before anything is withheld.
Release(p, l) == Proceed(p, "leaving", l) /\ locked' = locked \ {p}

AtWork(p) == look[p].at \in Endpoints \cup {"fallback", "verify"}

\* A number not imported yet and not answered from the cache (or to be refreshed).
Inquire(p, a, n) ==
    /\ InStep(p, "idle")
    /\ Proceed(p, "queued", [NoLook EXCEPT !.acct = a, !.num = n])
    /\ UNCHANGED <<calls, wrong, bodies, locked, doubled, orphans>>

\* Half a minute without the lock.
Busy(p) ==
    /\ InStep(p, "queued")
    /\ GiveUp(p)
    /\ UNCHANGED <<calls, wrong, bodies, locked, doubled, orphans>>

\* The lock is granted and the budget read; a refusal gives it back.
Enter(p) ==
    /\ InStep(p, "queued") /\ locked = {}
    /\ IF CanLookup(look[p].acct)
         THEN /\ Proceed(p, "invoices", look[p]) /\ locked' = {p}
              /\ doubled' = (doubled \/ \E q \in Servers : AtWork(q))
         ELSE GiveUp(p) /\ UNCHANGED <<locked, doubled>>
    /\ UNCHANGED <<calls, wrong, bodies, orphans>>

\* The lock's connection breaks: the lock is free and the lookup does not notice.
LoseSession(p) ==
    /\ p \in locked
    /\ locked' = locked \ {p}
    /\ UNCHANGED <<calls, wrong, bodies, look, doubled, orphans>>

-----------------------------------------------------------------------------
(* The calls.  A call that Ejar refuses or that gets no answer is free and  *)
(* ends the lookup; one whose log cannot be written is not counted.         *)

\* (mutant of CallFails: the error is answered at once)
FailAtOnce(p) ==
    /\ look[p].at \in Endpoints
    /\ GiveUp(p) /\ locked' = locked \ {p}
    /\ UNCHANGED <<calls, wrong, bodies, doubled, orphans>>

CallFails(p) ==
    /\ look[p].at \in Endpoints
    /\ Release(p, look[p])
    /\ UNCHANGED <<calls, wrong, bodies, doubled, orphans>>

Mine(a, n) == a \notin Pinned \/ n \in Party[a]

\* The call's answer is another party's contract and is stored.
Exposes(p, logged) == logged /\ ~Mine(look[p].acct, look[p].num)

\* The id of a new log row.
FreshIds ==
    LET used == {0} \cup {b.id : b \in bodies} \cup orphans \cup UNION {look[q].logs : q \in Servers} IN
    {i \in {u + 1 : u \in used} : \A u \in used : u < i}

\* What a call adds to the log, with row id if the answer is to be remembered.
Deduct(p, e, logged, id) ==
    /\ calls' = IF logged THEN [calls EXCEPT ![e][look[p].acct] = @ + 1] ELSE calls
    /\ bodies' = IF Exposes(p, logged)
                   THEN bodies \cup {[id |-> id, acct |-> look[p].acct, num |-> look[p].num]} ELSE bodies

Kept(p, logged, id) == IF Exposes(p, logged) THEN [look[p] EXCEPT !.logs = @ \cup {id}] ELSE look[p]

\* An unknown number is counted apart, by the requests sent: one more if the token
\* was refreshed.  An answer without the contract's UUID ends the lookup.
CallInvoices(p) ==
    /\ InStep(p, "invoices")
    /\ \E logged \in BOOLEAN :
          IF look[p].num \in Unknown
            THEN /\ \E attempts \in IF logged THEN {1, 2} ELSE {0} :
                       wrong' = [wrong EXCEPT ![look[p].acct] = @ + attempts]
                 /\ Release(p, look[p])
                 /\ UNCHANGED <<calls, bodies>>
            ELSE \E id \in FreshIds :
                 /\ Deduct(p, "invoices", logged, id)
                 /\ \/ Proceed(p, SecondCall, Kept(p, logged, id)) /\ UNCHANGED locked
                    \/ Release(p, Kept(p, logged, id))
                 /\ UNCHANGED wrong
    /\ UNCHANGED <<doubled, orphans>>

\* The list may not have the contract.
CallContracts(p) ==
    /\ InStep(p, "contracts")
    /\ \E logged \in BOOLEAN, id \in FreshIds, step \in {"verify", "fallback"} :
          Deduct(p, "contracts", logged, id) /\ Proceed(p, step, Kept(p, logged, id))
    /\ UNCHANGED <<wrong, locked, doubled, orphans>>

\* Details is a third call and needs room of its own, counted again.
FallBack(p) ==
    /\ InStep(p, "fallback")
    /\ IF HasHeadroom("details", look[p].acct) /\ PoolHas(1)
         THEN Proceed(p, "details", look[p]) /\ UNCHANGED locked
         ELSE Release(p, look[p])
    /\ UNCHANGED <<calls, wrong, bodies, doubled, orphans>>

CallDetails(p) ==
    /\ InStep(p, "details")
    /\ \E logged \in BOOLEAN, id \in FreshIds :
          Deduct(p, "details", logged, id) /\ Proceed(p, "verify", Kept(p, logged, id))
    /\ UNCHANGED <<wrong, locked, doubled, orphans>>

-----------------------------------------------------------------------------
\* Only a contract the account is a party to is saved and shown.
Verify(p) ==
    /\ InStep(p, "verify")
    /\ Release(p, [look[p] EXCEPT !.ok = Mine(look[p].acct, look[p].num)])
    /\ UNCHANGED <<calls, wrong, bodies, doubled, orphans>>

\* What a pinned account received without its having been verified cannot be read.
Withhold(p) ==
    /\ InStep(p, "leaving")
    /\ bodies' = IF look[p].ok \/ look[p].acct \notin Pinned
                   THEN bodies ELSE {b \in bodies : b.id \notin look[p].logs}
    /\ GiveUp(p)
    /\ UNCHANGED <<calls, wrong, locked, doubled, orphans>>

\* The process dies, or the statement that withholds fails.
LookupDies(p) ==
    /\ ~InStep(p, "idle")
    /\ GiveUp(p)
    /\ locked' = locked \ {p}
    /\ orphans' = orphans \cup look[p].logs
    /\ UNCHANGED <<calls, wrong, bodies, doubled>>

EjarNext ==
    \E p \in Servers :
       \/ \E a \in Accounts, n \in Numbers : Inquire(p, a, n)
       \/ Busy(p) \/ Enter(p) \/ LoseSession(p)
       \/ CallFails(p) \/ CallInvoices(p) \/ CallContracts(p) \/ FallBack(p) \/ CallDetails(p)
       \/ Verify(p) \/ Withhold(p) \/ LookupDies(p)

EjarSpec == EjarInit /\ [][EjarNext]_ejarVars

-----------------------------------------------------------------------------
\* No budget is overspent: not the gateway's, the account's quota, the calls Dara
\* bought, nor, but for the request a refreshed token repeats, the day's unknown
\* numbers, however many processes look contracts up at once and although each
\* counts before it calls, unless a lookup went on after its lock's connection
\* broke and another was let in beside it.
BudgetIsKept ==
    \/ doubled
    \/ /\ Spent <= Pool
       /\ \A e \in Endpoints : Sent(e) <= Limit
       /\ \A a \in Accounts : wrong[a] <= WrongCap + 1 /\ \A e \in Endpoints : calls[e][a] <= Quota[a]

\* What a pinned account can read in its call log is from contracts it is a party
\* to, once no lookup of the answer is under way: whether the contract was found
\* not to be its own or a later call failed before that was known. The one
\* exception is a lookup that died before it could withhold (the lock is released,
\* and the bodies are readable, before they are withheld).
OthersContractsAreWithheld ==
    \A b \in bodies :
       \/ b.id \in orphans
       \/ \E p \in Servers : b.id \in look[p].logs

=============================================================================
