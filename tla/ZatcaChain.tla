----------------------------- MODULE ZatcaChain -----------------------------
(***************************************************************************)
(* The e-invoice chain of one seller in one environment: every document    *)
(* ZATCA accepts carries the counter (ICV) after the last one it holds and *)
(* that document's hash (PIH).  Issuing, resubmitting and resetting are    *)
(* network calls and separate statements under the seller's chain lock,    *)
(* which is a session lock, not a transaction; superseding and deleting    *)
(* rows happen outside it.                                                 *)
(*                                                                         *)
(*   head    zatca_credentials.{env}_icv and .{env}_pih                    *)
(*   rows    the invoices table, deleted rows included; a row is known by  *)
(*           its hash, the number of the signature that made it            *)
(*   signed  signatures made                                               *)
(*   link    the seller's link: "ok", "invalid" (link_invalid_at set), or  *)
(*           "none" (unlinked)                                             *)
(*   req     the request each connection serves                            *)
(*   held    what ZATCA holds                                              *)
(*   lost    fresh credentials rows so far                                 *)
(***************************************************************************)
EXTENDS Naturals

CONSTANTS
    Clients,       \* concurrent requests
    Invoices,      \* approved billing documents, by number
    Production,    \* the environment is production
    MaxSigned,     \* bound: signatures
    MaxLost        \* bound: fresh credentials rows

ASSUME ZatcaAssumption ==
    Production \in BOOLEAN /\ MaxSigned \in Nat /\ MaxLost \in Nat

VARIABLES head, rows, signed, link, req, held, lost

zatcaVars == <<head, rows, signed, link, req, held, lost>>

\* The hash a chain starts from (ZATCA_INITIAL_PIH).
Seed == 0

ZeroHead == [icv |-> 0, pih |-> Seed]

NoRequest == [at |-> "idle", inv |-> "none", seen |-> {}, icv |-> 0, pih |-> Seed, hash |-> Seed, st |-> "none"]

Verdicts == {"accepted", "rejected", "error"}

Hashes == 1..MaxSigned

InvoiceRow == [hash : Hashes, inv : Invoices, icv : Nat, pih : Nat, st : Verdicts, live : BOOLEAN, orphan : BOOLEAN]

Filed == [hash : Hashes, inv : Invoices, icv : Nat, pih : Nat]

ZatcaRequests ==
    [at : {"idle", "looked", "queued", "sent", "answered", "committed",
           "picked", "resent", "reanswered", "recommitted"},
     inv : Invoices \cup {"none"}, seen : SUBSET Hashes,
     icv : Nat, pih : Nat, hash : Nat, st : Verdicts \cup {"none"}]

ZatcaTypeOK ==
    /\ head \in [icv : Nat, pih : Nat]
    /\ rows \subseteq InvoiceRow
    /\ signed \in 0..MaxSigned
    /\ link \in {"ok", "invalid", "none"}
    /\ req \in [Clients -> ZatcaRequests]
    /\ held \subseteq Filed
    /\ lost \in 0..MaxLost

ZatcaInit ==
    /\ head = ZeroHead /\ rows = {} /\ signed = 0 /\ link = "ok"
    /\ req = [c \in Clients |-> NoRequest]
    /\ held = {} /\ lost = 0

-----------------------------------------------------------------------------
(* Rows, and the lock.                                                      *)

RowsOf(inv) == {r \in rows : r.live /\ r.inv = inv}

\* Rows the ICV index counts: live, and of an accepted status.
Accepted == {r \in rows : r.live /\ r.st = "accepted"}

HasOrphan(inv) == \E r \in rows : ~r.live /\ r.orphan /\ r.inv = inv

\* The rows with the hashes hs, soft-deleted.
Retire(hs) == {IF r.hash \in hs THEN [r EXCEPT !.live = FALSE] ELSE r : r \in rows}

UnderLock == {"sent", "answered", "committed", "resent", "reanswered", "recommitted"}

\* (mutant of ChainFree: every caller enters the body at once)
ChainOpen == TRUE

\* pg_try_advisory_lock is granted.
ChainFree == \A c \in Clients : req[c].at \notin UnderLock

Turn(c, step, f) == req' = [req EXCEPT ![c] = [f EXCEPT !.at = step]]

Leave(c) == req' = [req EXCEPT ![c] = NoRequest]

\* The last document of the chain among the live accepted rows.
LastAccepted == {r \in Accepted : \A q \in Accepted : q.icv <= r.icv}

\* The later of the stored counter and the last accepted row.
ChainHeads ==
    IF \E r \in Accepted : r.icv > head.icv
      THEN {[icv |-> r.icv, pih |-> r.hash] : r \in LastAccepted}
      ELSE {head}

-----------------------------------------------------------------------------
(* Submitting an approved document.                                         *)

\* submit-zatca reads the document's rows outside the lock: one that was filed,
\* or accepted and not recorded, ends the request.
Look(c, inv) ==
    /\ req[c].at = "idle"
    /\ ~HasOrphan(inv)
    /\ \A r \in RowsOf(inv) : r.st # "accepted"
    /\ Turn(c, "looked", [NoRequest EXCEPT !.inv = inv, !.seen = {r.hash : r \in RowsOf(inv)}])
    /\ UNCHANGED <<head, rows, signed, link, held, lost>>

\* It retires the attempts it saw, then asks whether the seller is onboarded.
Supersede(c) ==
    /\ req[c].at = "looked"
    /\ rows' = Retire(req[c].seen)
    /\ IF link = "ok" THEN Turn(c, "queued", req[c]) ELSE Leave(c)
    /\ UNCHANGED <<head, signed, link, held, lost>>

\* No turn within the deadline, or the process dies: a dead connection's locks go
\* with it, what its statements wrote stays.
Abandon(c) ==
    /\ req[c].at # "idle"
    /\ Leave(c)
    /\ UNCHANGED <<head, rows, signed, link, held, lost>>

\* Under the lock: the number is free and the link works, or nothing happens; a
\* counter behind the accepted rows is moved up; the document is signed and sent.
Sign(c) ==
    /\ req[c].at = "queued" /\ ChainFree
    /\ IF RowsOf(req[c].inv) # {} \/ link # "ok"
         THEN Leave(c) /\ UNCHANGED <<head, signed>>
         ELSE /\ signed < MaxSigned
              /\ head' \in ChainHeads
              /\ signed' = signed + 1
              /\ Turn(c, "sent", [req[c] EXCEPT !.icv = head'.icv + 1, !.pih = head'.pih, !.hash = signed'])
    /\ UNCHANGED <<rows, link, held, lost>>

Document(f) == [hash |-> f.hash, inv |-> f.inv, icv |-> f.icv, pih |-> f.pih]

Hold(c) == held \cup {Document(req[c])}

\* ZATCA's answer: accepted, rejected, or none that can be read, in which case it
\* may or may not have taken the document.  It need not check counters.
Answer(c) ==
    /\ req[c].at = "sent"
    /\ \E st \in Verdicts :
          /\ held' \in (CASE st = "accepted" -> {Hold(c)}
                          [] st = "rejected" -> {held}
                          [] st = "error" -> {held, Hold(c)})
          /\ Turn(c, "answered", [req[c] EXCEPT !.st = st])
    /\ UNCHANGED <<head, rows, signed, link, lost>>

\* 401 or 403: the link is flagged, nothing is recorded.
CredentialsRefused(c) ==
    /\ req[c].at = "sent"
    /\ link' = IF link = "none" THEN "none" ELSE "invalid"
    /\ Leave(c)
    /\ UNCHANGED <<head, rows, signed, held, lost>>

\* The counter moves first, and only for an accepted document.
Advance(c) ==
    /\ req[c].at = "answered"
    /\ head' = IF req[c].st = "accepted" THEN [icv |-> req[c].icv, pih |-> req[c].hash] ELSE head
    /\ Turn(c, "committed", req[c])
    /\ UNCHANGED <<rows, signed, link, held, lost>>

RowFor(c, live) ==
    [hash |-> req[c].hash, inv |-> req[c].inv, icv |-> req[c].icv, pih |-> req[c].pih,
     st |-> req[c].st, live |-> live, orphan |-> ~live]

\* No live row has the number; no live accepted row has the counter of an accepted one.
Storable(c) ==
    /\ RowsOf(req[c].inv) = {}
    /\ req[c].st = "accepted" => \A r \in Accepted : r.icv # req[c].icv

\* The row is inserted; an accepted document clears the flag of the link.
Store(c) ==
    /\ req[c].at = "committed" /\ Storable(c)
    /\ rows' = rows \cup {RowFor(c, TRUE)}
    /\ link' = IF req[c].st = "accepted" /\ link = "invalid" THEN "ok" ELSE link
    /\ Leave(c)
    /\ UNCHANGED <<head, signed, held, lost>>

\* The insert fails: an accepted document keeps a deleted, marked copy, unless
\* that insert fails as well.
StoreFails(c) ==
    /\ req[c].at = "committed"
    /\ rows' \in {rows} \cup (IF req[c].st = "accepted" THEN {rows \cup {RowFor(c, FALSE)}} ELSE {})
    /\ Leave(c)
    /\ UNCHANGED <<head, signed, link, held, lost>>

-----------------------------------------------------------------------------
(* Sending a stored document again.                                         *)

\* The row is read before the lock is asked for.
Pick(c, r) ==
    /\ req[c].at = "idle" /\ r.live
    /\ Turn(c, "picked", [NoRequest EXCEPT !.inv = r.inv, !.icv = r.icv, !.pih = r.pih, !.hash = r.hash, !.st = r.st])
    /\ UNCHANGED <<head, rows, signed, link, held, lost>>

\* A copy that was not accepted is stale once its counter has been accepted.
Superseded(c) == req[c].st # "accepted" /\ \E r \in Accepted : r.icv >= req[c].icv

\* seen keeps whether the copy was accepted.
Resend(c) ==
    /\ req[c].at = "picked" /\ ChainFree
    /\ IF link = "none" \/ Superseded(c)
         THEN Leave(c)
         ELSE Turn(c, "resent", [req[c] EXCEPT !.seen = IF req[c].st = "accepted" THEN {req[c].hash} ELSE {}])
    /\ UNCHANGED <<head, rows, signed, link, held, lost>>

\* A network failure ends the request; a 4xx without messages is an "error".
ReAnswer(c) ==
    /\ req[c].at = "resent"
    /\ \/ \E st \in Verdicts :
             /\ held' = IF st = "accepted" THEN Hold(c) ELSE held
             /\ Turn(c, "reanswered", [req[c] EXCEPT !.st = st])
       \/ held' \in {held, Hold(c)} /\ Leave(c)
    /\ UNCHANGED <<head, rows, signed, link, lost>>

\* (mutant of ReAdvance: wherever the head is)
ReAdvanceAnyway(c) ==
    /\ req[c].at = "reanswered"
    /\ head' = IF req[c].seen = {} /\ req[c].st = "accepted"
                 THEN [icv |-> req[c].icv, pih |-> req[c].hash] ELSE head
    /\ Turn(c, "recommitted", req[c])
    /\ UNCHANGED <<rows, signed, link, held, lost>>

\* Accepted for the first time, and right after the head: the counter moves.
ReAdvance(c) ==
    /\ req[c].at = "reanswered"
    /\ head' = IF req[c].seen = {} /\ req[c].st = "accepted" /\ head.icv + 1 = req[c].icv
                 THEN [icv |-> req[c].icv, pih |-> req[c].hash] ELSE head
    /\ Turn(c, "recommitted", req[c])
    /\ UNCHANGED <<rows, signed, link, held, lost>>

Judged(c) == {IF r.hash = req[c].hash THEN [r EXCEPT !.st = req[c].st] ELSE r : r \in rows}

\* The status is written by id, whatever became of the row; the index may refuse it.
ReStore(c) ==
    /\ req[c].at = "recommitted"
    /\ rows' = IF /\ req[c].st = "accepted"
                  /\ \E r \in rows : r.hash = req[c].hash /\ r.live
                  /\ \E r \in Accepted : r.icv = req[c].icv /\ r.hash # req[c].hash
                 THEN rows ELSE Judged(c)
    /\ Leave(c)
    /\ UNCHANGED <<head, signed, link, held, lost>>

-----------------------------------------------------------------------------
(* Deleting, resetting, linking.                                            *)

DeleteInvoice(r) ==
    /\ r.live
    /\ rows' = Retire({r.hash})
    /\ UNCHANGED <<head, signed, link, req, held, lost>>

\* Never on production; under the lock, the chain's rows go with the counter.
ResetChain ==
    /\ ~Production /\ ChainFree /\ head # ZeroHead
    /\ rows' = Retire(Hashes)
    /\ head' = ZeroHead
    /\ UNCHANGED <<signed, link, req, held, lost>>

\* Unlinking wipes the credentials and the flag, not the counter.
Unlink ==
    /\ link # "none" /\ link' = "none"
    /\ UNCHANGED <<head, rows, signed, req, held, lost>>

\* New credentials, or a compliance check that passes.
Relink ==
    /\ link # "ok" /\ link' = "ok"
    /\ UNCHANGED <<head, rows, signed, req, held, lost>>

\* A credentials row inserted where there was none starts at zero (chain-head.ts:9).
FreshCredentials ==
    /\ lost < MaxLost /\ ChainFree /\ head # ZeroHead
    /\ head' = ZeroHead /\ lost' = lost + 1
    /\ UNCHANGED <<rows, signed, link, req, held>>

ZatcaNext ==
    \/ \E c \in Clients :
          \/ \E inv \in Invoices : Look(c, inv)
          \/ \E r \in rows : Pick(c, r)
          \/ Supersede(c) \/ Abandon(c) \/ Sign(c)
          \/ Answer(c) \/ CredentialsRefused(c) \/ Advance(c) \/ Store(c) \/ StoreFails(c)
          \/ Resend(c) \/ ReAnswer(c) \/ ReAdvance(c) \/ ReStore(c)
    \/ \E r \in rows : DeleteInvoice(r)
    \/ ResetChain \/ Unlink \/ Relink \/ FreshCredentials

ZatcaSpec == ZatcaInit /\ [][ZatcaNext]_zatcaVars

-----------------------------------------------------------------------------
\* An issue under the lock, or a copy being sent that was not accepted before.
New(c) ==
    \/ req[c].at \in {"sent", "answered", "committed"}
    \/ req[c].at \in {"resent", "reanswered", "recommitted"} /\ req[c].seen = {}

\* While a document is with ZATCA no other document has its counter or a later one
\* among the live accepted rows: what ZATCA accepts is never refused by the
\* invoices_user_owner_env_icv_uniq index when it is stored, the incident
\* chain-head.ts describes and reconcileChainHead heals.
NextIcvIsFree ==
    \A c \in Clients : New(c) => \A r \in Accepted : r.icv < req[c].icv

\* The counter's hash is that of a document ZATCA holds under that counter, and so is
\* what a document being sent is chained onto: nothing is ever chained onto a
\* document that was refused, lost or reset.
ChainedOntoHeld ==
    /\ head = ZeroHead \/ \E d \in held : d.hash = head.pih /\ d.icv = head.icv
    /\ \A c \in Clients : req[c].at = "sent" /\ req[c].pih # Seed =>
          \E d \in held : d.hash = req[c].pih /\ d.icv + 1 = req[c].icv

\* What ZATCA holds and the counter implement the chain of EInvoiceChain: every
\* document, issued or sent again after any other was, is filed under one counter and
\* right after a document on file, and the counter stands at one or starts over,
\* however requests, deletions, resets and lost answers interleave.
SellerChain ==
    INSTANCE EInvoiceChain WITH
        Documents <- [hash : Hashes, inv : Invoices, icv : Hashes, pih : 0..MaxSigned],
        filed <- held, tip <- head

IsOneChain == SellerChain!Spec

=============================================================================
