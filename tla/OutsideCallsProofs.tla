-------------------------- MODULE OutsideCallsProofs --------------------------
(***************************************************************************)
(* Proofs about what Dara asks of the two services it calls under an       *)
(* advisory lock: a seller's e-invoice chain at ZATCA (ZatcaChain), for    *)
(* every number of requests, documents and signatures, with and without    *)
(* resets; and the calls bought from Ejar (EjarLookup), for every number   *)
(* of processes, accounts and contracts.                                   *)
(***************************************************************************)
EXTENDS ZatcaChain, EjarLookup, SumLemmas, TLAPS

\* A document signed now, and a stored one that is sent again.
Issued == {"sent", "answered", "committed"}

Copies == {"picked", "resent", "reanswered", "recommitted"}

Judging == {"answered", "committed", "reanswered", "recommitted"}

-----------------------------------------------------------------------------
(* The inductive invariant.                                                 *)

IsHeld(hash, icv) == \E d \in held : d.hash = hash /\ d.icv = icv

\* One request is under the lock.
Alone == \A c, d \in Clients : c # d => req[c].at \notin UnderLock \/ req[d].at \notin UnderLock

\* Counters and hashes come from the signatures made; an acceptance is ZATCA's.
ReqFits(f) ==
    /\ f.at # "idle" => f.inv \in Invoices
    /\ f.at \in Copies \cup Issued => f.hash \in 1..signed /\ f.icv <= signed
    /\ f.at \in Copies \cup {"answered", "committed"} => f.st \in Verdicts
    /\ f.at \in Judging /\ f.st = "accepted" => IsHeld(f.hash, f.icv)

ReqsFit == \A c \in Clients : ReqFits(req[c])

RowsFit ==
    \A r \in rows :
       /\ r.hash <= signed /\ r.icv <= signed
       /\ r.st = "accepted" => IsHeld(r.hash, r.icv)
       /\ \A q \in rows : q.hash = r.hash => q.icv = r.icv

HeadFits == head.icv <= signed /\ (head = ZeroHead \/ IsHeld(head.pih, head.icv))

\* A document being issued has a hash nothing else has; a copy has its row's counter.
HashesFit ==
    \A c \in Clients :
       /\ req[c].at \in Issued => /\ \A r \in rows : r.hash # req[c].hash
                                  /\ \A d \in Clients : req[d].at \in Copies => req[d].hash # req[c].hash
       /\ req[c].at \in Copies => \A r \in rows : r.hash = req[c].hash => r.icv = req[c].icv

SentOntoHeld == \A c \in Clients : req[c].at = "sent" /\ req[c].pih # Seed =>
                   \E d \in held : d.hash = req[c].pih /\ d.icv + 1 = req[c].icv

ChainInv == ZatcaTypeOK /\ Alone /\ ReqsFit /\ RowsFit /\ HeadFits /\ HashesFit /\ SentOntoHeld /\ NextIcvIsFree

-----------------------------------------------------------------------------
(* The head of the chain.                                                   *)

\* The types of the parts, as the proofs use them.
LEMMA Types ==
    ASSUME ZatcaTypeOK
    PROVE  /\ head.icv \in Nat /\ head.pih \in Nat /\ signed \in Nat /\ MaxSigned \in Nat
           /\ \A r \in rows : r.icv \in Nat /\ r.hash \in Nat /\ r.pih \in Nat /\ r.st \in Verdicts /\ r.inv \in Invoices
           /\ \A c \in Clients : req[c].icv \in Nat /\ req[c].hash \in Nat /\ req[c].pih \in Nat
           /\ \A d \in held : d.icv \in Nat /\ d.hash \in Nat /\ d.pih \in Nat /\ d.hash \in Hashes
           /\ Accepted \subseteq rows
  BY ZatcaAssumption DEF ZatcaTypeOK, Accepted, InvoiceRow, Hashes, ZatcaRequests, Filed

\* What is signed next has a counter no live accepted row reaches, follows what
\* ZATCA holds, and comes from a signature.
LEMMA HeadFacts ==
    ASSUME ChainInv, NEW h \in ChainHeads
    PROVE  /\ h \in [icv : Nat, pih : Nat]
           /\ h.icv <= signed
           /\ h = ZeroHead \/ IsHeld(h.pih, h.icv)
           /\ \A r \in Accepted : r.icv <= h.icv
<1> USE DEF ChainInv
<1>1. ZatcaTypeOK  OBVIOUS
<1>2. CASE \E r \in Accepted : r.icv > head.icv
  <2>1. PICK r \in LastAccepted : h = [icv |-> r.icv, pih |-> r.hash]
    BY <1>2 DEF ChainHeads
  <2>2. r \in rows /\ r.st = "accepted" /\ \A q \in Accepted : q.icv <= r.icv
    BY DEF LastAccepted, Accepted
  <2>3. h.icv = r.icv /\ h.pih = r.hash  BY <2>1
  <2>4. r.icv <= signed /\ IsHeld(r.hash, r.icv)  BY <2>2 DEF RowsFit
  <2>5. r.icv \in Nat /\ r.hash \in Nat  BY <1>1, <2>2, Types
  <2> QED  BY <2>1, <2>2, <2>3, <2>4, <2>5
<1>3. CASE ~\E r \in Accepted : r.icv > head.icv
  <2>1. h = head  BY <1>3 DEF ChainHeads
  <2>2. \A r \in Accepted : r.icv <= head.icv  BY <1>1, <1>3, Types
  <2>3. head \in [icv : Nat, pih : Nat]  BY DEF ZatcaTypeOK
  <2> QED  BY <2>1, <2>2, <2>3 DEF HeadFits
<1> QED  BY <1>2, <1>3


-----------------------------------------------------------------------------
(* Requests.                                                                *)

Steps == {"idle", "looked", "queued", "sent", "answered", "committed",
          "picked", "resent", "reanswered", "recommitted"}

\* A turn changes the step of one request, which has its type.
LEMMA Turned ==
    ASSUME ZatcaTypeOK, NEW c \in Clients, NEW step \in Steps, NEW f \in ZatcaRequests, Turn(c, step, f)
    PROVE  /\ req' \in [Clients -> ZatcaRequests]
           /\ req'[c].at = step /\ req'[c].inv = f.inv /\ req'[c].seen = f.seen /\ req'[c].icv = f.icv
           /\ req'[c].pih = f.pih /\ req'[c].hash = f.hash /\ req'[c].st = f.st
           /\ \A d \in Clients : d # c => req'[d] = req[d]
<1> DEFINE g == [f EXCEPT !.at = step]
<1>1. g \in ZatcaRequests /\ g.at = step /\ g.inv = f.inv /\ g.seen = f.seen /\ g.icv = f.icv
      /\ g.pih = f.pih /\ g.hash = f.hash /\ g.st = f.st
  BY DEF ZatcaRequests, Steps
<1>2. req' = [req EXCEPT ![c] = g]  BY DEF Turn
<1>3. req \in [Clients -> ZatcaRequests]  BY DEF ZatcaTypeOK
<1> QED  BY <1>1, <1>2, <1>3

\* A request that leaves is idle.
LEMMA Left ==
    ASSUME ZatcaTypeOK, NEW c \in Clients, Leave(c)
    PROVE  /\ req' \in [Clients -> ZatcaRequests]
           /\ req'[c] = NoRequest
           /\ \A d \in Clients : d # c => req'[d] = req[d]
<1>1. NoRequest \in ZatcaRequests  BY DEF NoRequest, ZatcaRequests, Seed
<1>2. req \in [Clients -> ZatcaRequests]  BY DEF ZatcaTypeOK
<1> QED  BY <1>1, <1>2 DEF Leave

\* Rows that are retired keep everything but live.
LEMMA Retired ==
    ASSUME ZatcaTypeOK, NEW hs
    PROVE  /\ Retire(hs) \subseteq InvoiceRow
           /\ \A r \in Retire(hs) : \E q \in rows : q.hash = r.hash /\ q.icv = r.icv /\ q.st = r.st /\ (r.live => q.live)
<1> SUFFICES ASSUME NEW r \in Retire(hs)
             PROVE  r \in InvoiceRow /\ \E q \in rows : q.hash = r.hash /\ q.icv = r.icv /\ q.st = r.st /\ (r.live => q.live)
  OBVIOUS
<1>1. PICK q \in rows : r = IF q.hash \in hs THEN [q EXCEPT !.live = FALSE] ELSE q  BY DEF Retire
<1>2. q \in InvoiceRow  BY DEF ZatcaTypeOK
<1>3. r \in InvoiceRow /\ q.hash = r.hash /\ q.icv = r.icv /\ q.st = r.st /\ (r.live => q.live)
  BY <1>1, <1>2 DEF InvoiceRow
<1> QED  BY <1>3

-----------------------------------------------------------------------------
(* Steps that record no document.                                           *)

\* Rows are retired at most.
Fewer == \A r \in rows' : \E q \in rows : q.hash = r.hash /\ q.icv = r.icv /\ q.st = r.st /\ (r.live => q.live)

\* What a request may become without a signature.
Moves(c) ==
    /\ req'[c].at # "sent"
    /\ ReqFits(req[c])'
    /\ req'[c].at \in Issued => req[c].at \in Issued /\ req'[c].hash = req[c].hash
    /\ req'[c].at \in Copies =>
          \/ req[c].at \in Copies /\ req'[c].hash = req[c].hash /\ req'[c].icv = req[c].icv
          \/ \E r \in rows : r.hash = req'[c].hash /\ r.icv = req'[c].icv
    /\ New(c)' => \A r \in Accepted : r.icv < req'[c].icv

\* Such a step keeps the invariant.
LEMMA RecordsKept ==
    ASSUME ChainInv, ZatcaTypeOK', Alone', Fewer, signed' = signed, held \subseteq held', HeadFits',
           \A c \in Clients : req'[c] = req[c] \/ Moves(c)
    PROVE  ChainInv'
<1> USE DEF ChainInv
<1>1. \A hash, icv : IsHeld(hash, icv) => IsHeld(hash, icv)'  BY DEF IsHeld
<1>2. ReqsFit'
  <2> SUFFICES ASSUME NEW c \in Clients PROVE ReqFits(req[c])'  BY DEF ReqsFit
  <2>1. CASE Moves(c)  BY <2>1 DEF Moves
  <2>2. CASE req'[c] = req[c]
    <3>1. ReqFits(req[c])  BY DEF ReqsFit
    <3> QED  BY <1>1, <2>2, <3>1 DEF ReqFits
  <2> QED  BY <2>1, <2>2
<1>3. RowsFit'
  <2> SUFFICES ASSUME NEW r \in rows'
               PROVE  /\ r.hash <= signed' /\ r.icv <= signed'
                      /\ r.st = "accepted" => IsHeld(r.hash, r.icv)'
                      /\ \A q \in rows' : q.hash = r.hash => q.icv = r.icv
    BY DEF RowsFit
  <2>1. PICK q \in rows : q.hash = r.hash /\ q.icv = r.icv /\ q.st = r.st  BY DEF Fewer
  <2>2. r.hash <= signed' /\ r.icv <= signed' /\ (r.st = "accepted" => IsHeld(r.hash, r.icv)')
    BY <1>1, <2>1 DEF RowsFit
  <2>3. ASSUME NEW s \in rows', s.hash = r.hash PROVE s.icv = r.icv
    <3>1. PICK t \in rows : t.hash = s.hash /\ t.icv = s.icv  BY DEF Fewer
    <3> QED  BY <2>1, <2>3, <3>1 DEF RowsFit
  <2> QED  BY <2>2, <2>3
<1>4. HashesFit'
  <2>1. ASSUME NEW c \in Clients, req'[c].at \in Issued
        PROVE  req[c].at \in Issued /\ req'[c].hash = req[c].hash
    BY <2>1 DEF Moves
  <2>2. ASSUME NEW c \in Clients, req'[c].at \in Copies
        PROVE  \/ req[c].at \in Copies /\ req'[c].hash = req[c].hash /\ req'[c].icv = req[c].icv
               \/ \E r \in rows : r.hash = req'[c].hash /\ r.icv = req'[c].icv
    BY <2>2 DEF Moves
  <2>3. ASSUME NEW c \in Clients, req'[c].at \in Issued
        PROVE  /\ \A r \in rows' : r.hash # req'[c].hash
               /\ \A d \in Clients : req'[d].at \in Copies => req'[d].hash # req'[c].hash
    <3>1. \A r \in rows : r.hash # req[c].hash  BY <2>1, <2>3 DEF HashesFit
    <3>2. \A r \in rows' : r.hash # req'[c].hash  BY <2>1, <2>3, <3>1 DEF Fewer
    <3>3. ASSUME NEW d \in Clients, req'[d].at \in Copies PROVE req'[d].hash # req'[c].hash
      BY <2>1, <2>2, <2>3, <3>1, <3>3 DEF HashesFit
    <3> QED  BY <3>2, <3>3
  <2>4. ASSUME NEW c \in Clients, req'[c].at \in Copies, NEW r \in rows', r.hash = req'[c].hash
        PROVE  r.icv = req'[c].icv
    <3>1. PICK q \in rows : q.hash = r.hash /\ q.icv = r.icv  BY DEF Fewer
    <3>2. CASE req[c].at \in Copies /\ req'[c].hash = req[c].hash /\ req'[c].icv = req[c].icv
      BY <2>4, <3>1, <3>2 DEF HashesFit
    <3>3. CASE \E s \in rows : s.hash = req'[c].hash /\ s.icv = req'[c].icv
      BY <2>4, <3>1, <3>3 DEF RowsFit
    <3> QED  BY <2>2, <2>4, <3>2, <3>3
  <2> QED  BY <2>3, <2>4 DEF HashesFit
<1>5. SentOntoHeld'
  <2> SUFFICES ASSUME NEW c \in Clients, req'[c].at = "sent", req'[c].pih # Seed
               PROVE  \E d \in held' : d.hash = req'[c].pih /\ d.icv + 1 = req'[c].icv
    BY DEF SentOntoHeld
  <2>1. req'[c] = req[c]  BY DEF Moves
  <2> QED  BY <2>1 DEF SentOntoHeld
<1>6. NextIcvIsFree'
  <2> SUFFICES ASSUME NEW c \in Clients, New(c)', NEW r \in Accepted' PROVE r.icv < req'[c].icv
    BY DEF NextIcvIsFree
  <2>1. PICK q \in Accepted : q.icv = r.icv  BY DEF Fewer, Accepted
  <2>2. CASE Moves(c)  BY <2>1, <2>2 DEF Moves
  <2>3. CASE req'[c] = req[c]
    <3>1. New(c)  BY <2>3 DEF New
    <3> QED  BY <2>1, <2>3, <3>1 DEF NextIcvIsFree
  <2> QED  BY <2>2, <2>3
<1> QED  BY <1>2, <1>3, <1>4, <1>5, <1>6

\* One request moves, and only into a free lock.
LEMMA KeptBy ==
    ASSUME ChainInv, NEW c \in Clients, ZatcaTypeOK', Fewer, signed' = signed, held \subseteq held', HeadFits',
           \A d \in Clients : d # c => req'[d] = req[d],
           req'[c].at \in UnderLock => req[c].at \in UnderLock \/ ChainFree,
           Moves(c)
    PROVE  ChainInv'
<1>1. Alone'  BY DEF ChainInv, Alone, ChainFree
<1> QED  BY <1>1, RecordsKept

\* The head, the rows and the signatures stay; a request that leaves is no one's concern.
LEMMA Stays ==
    ASSUME ChainInv, signed' = signed, held \subseteq held'
    PROVE  /\ rows' = rows => Fewer
           /\ head' = head => HeadFits'
           /\ head' = ZeroHead => HeadFits'
           /\ \A c \in Clients : req'[c] = NoRequest => Moves(c) /\ req'[c].at \notin UnderLock
<1> USE DEF ChainInv
<1>1. rows' = rows => Fewer  BY DEF Fewer
<1>2. head' = head => HeadFits'  BY DEF HeadFits, IsHeld
<1>3. head' = ZeroHead => HeadFits'
  <2>1. signed \in Nat  BY Types
  <2> QED  BY <2>1 DEF HeadFits, ZeroHead
<1>4. ASSUME NEW c \in Clients, req'[c] = NoRequest PROVE Moves(c) /\ req'[c].at \notin UnderLock
  BY <1>4 DEF Moves, NoRequest, ReqFits, Issued, Copies, Judging, New, UnderLock
<1> QED  BY <1>1, <1>2, <1>3, <1>4

-----------------------------------------------------------------------------
(* Submitting an approved document.                                         *)

LEMMA LookKeeps == ASSUME ChainInv, NEW c \in Clients, NEW inv \in Invoices, Look(c, inv) PROVE ChainInv'
<1> USE DEF ChainInv
<1> DEFINE f == [NoRequest EXCEPT !.inv = inv, !.seen = {r.hash : r \in RowsOf(inv)}]
<1>1. {r.hash : r \in RowsOf(inv)} \subseteq Hashes
  BY DEF RowsOf, ZatcaTypeOK, InvoiceRow
<1>2. f \in ZatcaRequests /\ f.inv = inv
  BY <1>1 DEF NoRequest, ZatcaRequests, Seed
<1> HIDE DEF f
<1>3. Turn(c, "looked", f)  BY DEF Look, f
<1>4. /\ req' \in [Clients -> ZatcaRequests] /\ req'[c].at = "looked" /\ req'[c].inv = inv
      /\ \A d \in Clients : d # c => req'[d] = req[d]
  BY <1>2, <1>3, Turned DEF Steps
<1>5. UNCHANGED <<head, rows, signed, link, held, lost>>  BY DEF Look
<1>6. ZatcaTypeOK'  BY <1>4, <1>5 DEF ZatcaTypeOK
<1>7. Moves(c) /\ req'[c].at \notin UnderLock
  BY <1>4 DEF Moves, ReqFits, Issued, Copies, Judging, New, UnderLock
<1> QED  BY <1>4, <1>5, <1>6, <1>7, KeptBy, Stays

LEMMA SupersedeKeeps == ASSUME ChainInv, NEW c \in Clients, Supersede(c) PROVE ChainInv'
<1> USE DEF ChainInv
<1>1. rows' = Retire(req[c].seen) /\ UNCHANGED <<head, signed, link, held, lost>> /\ req[c].at = "looked"
  BY DEF Supersede
<1>2. rows' \subseteq InvoiceRow /\ Fewer  BY <1>1, Retired DEF Fewer
<1>3. req[c] \in ZatcaRequests  BY DEF ZatcaTypeOK
<1>4. CASE Turn(c, "queued", req[c])
  <2>1. /\ req' \in [Clients -> ZatcaRequests] /\ req'[c].at = "queued" /\ req'[c].inv = req[c].inv
        /\ \A d \in Clients : d # c => req'[d] = req[d]
    BY <1>3, <1>4, Turned DEF Steps
  <2>2. ZatcaTypeOK'  BY <1>1, <1>2, <2>1 DEF ZatcaTypeOK
  <2>3. req[c].inv \in Invoices  BY <1>1 DEF ReqsFit, ReqFits
  <2>4. Moves(c) /\ req'[c].at \notin UnderLock
    BY <2>1, <2>3 DEF Moves, ReqFits, Issued, Copies, Judging, New, UnderLock
  <2> QED  BY <1>1, <1>2, <2>1, <2>2, <2>4, KeptBy, Stays
<1>5. CASE Leave(c)
  <2>1. req' \in [Clients -> ZatcaRequests] /\ req'[c] = NoRequest /\ \A d \in Clients : d # c => req'[d] = req[d]
    BY <1>5, Left
  <2>2. ZatcaTypeOK'  BY <1>1, <1>2, <2>1 DEF ZatcaTypeOK
  <2> QED  BY <1>1, <1>2, <2>1, <2>2, KeptBy, Stays
<1> QED  BY <1>4, <1>5 DEF Supersede

LEMMA LeaveKeeps ==
    ASSUME ChainInv, NEW c \in Clients, Leave(c), UNCHANGED <<head, rows, signed, lost>>,
           link' \in {"ok", "invalid", "none"}, held \subseteq held',
           held' \subseteq Filed
    PROVE  ChainInv'
<1> USE DEF ChainInv
<1>1. req' \in [Clients -> ZatcaRequests] /\ req'[c] = NoRequest /\ \A d \in Clients : d # c => req'[d] = req[d]
  BY Left
<1>2. ZatcaTypeOK'  BY <1>1 DEF ZatcaTypeOK
<1> QED  BY <1>1, <1>2, KeptBy, Stays

\* What ZATCA takes has its type, and is held.
LEMMA Holding ==
    ASSUME ChainInv, NEW c \in Clients, req[c].at \in Issued \cup Copies
    PROVE  /\ Hold(c) \subseteq Filed /\ held \subseteq Hold(c)
           /\ \E d \in Hold(c) : d.hash = req[c].hash /\ d.icv = req[c].icv
           /\ req[c].inv \in Invoices /\ req[c].hash \in 1..signed /\ req[c].hash \in Hashes
           /\ req[c].icv \in Nat /\ req[c].icv <= signed
<1> USE DEF ChainInv
<1>1. req[c].inv \in Invoices /\ req[c].hash \in 1..signed /\ req[c].icv <= signed
  BY DEF ReqsFit, ReqFits, Issued, Copies
<1>2. req[c].hash \in Hashes /\ req[c].icv \in Nat
  BY <1>1, Types DEF ZatcaTypeOK, Hashes
<1>3. Hold(c) \subseteq Filed /\ held \subseteq Hold(c)
  <2>1. req[c].pih \in Nat  BY Types
  <2> QED  BY <1>1, <1>2, <2>1 DEF Hold, ZatcaTypeOK, Document, Filed
<1>4. \E d \in Hold(c) : d.hash = req[c].hash /\ d.icv = req[c].icv
  <2> DEFINE new == Document(req[c])
  <2>1. new \in Hold(c)  BY DEF Hold
  <2>2. new.hash = req[c].hash /\ new.icv = req[c].icv  BY DEF Document
  <2> QED  BY <2>1, <2>2
<1> QED  BY <1>1, <1>2, <1>3, <1>4

\* A request that goes on with its document, the rows as they were.
LEMMA GoesOn ==
    ASSUME ChainInv, NEW c \in Clients,
           req' \in [Clients -> ZatcaRequests], \A d \in Clients : d # c => req'[d] = req[d],
           UNCHANGED <<rows, signed, lost>>, link' \in {"ok", "invalid", "none"},
           held \subseteq held', held' \subseteq Filed,
           head' \in [icv : Nat, pih : Nat], HeadFits',
           req'[c].at # "sent", ReqFits(req[c])',
           req'[c].at \in Issued => req[c].at \in Issued /\ req'[c].hash = req[c].hash,
           req'[c].at \in Copies =>
              \/ req[c].at \in Copies /\ req'[c].hash = req[c].hash /\ req'[c].icv = req[c].icv
              \/ \E r \in rows : r.hash = req'[c].hash /\ r.icv = req'[c].icv,
           req'[c].at \in UnderLock => req[c].at \in UnderLock \/ ChainFree,
           New(c)' => \A r \in Accepted : r.icv < req'[c].icv
    PROVE  ChainInv'
<1>1. ZatcaTypeOK'  BY DEF ChainInv, ZatcaTypeOK
<1>2. Moves(c)  BY DEF Moves
<1>3. Fewer  BY Stays
<1> QED  BY <1>1, <1>2, <1>3, KeptBy

LEMMA AnswerKeeps == ASSUME ChainInv, NEW c \in Clients, Answer(c) PROVE ChainInv'
<1> ZatcaTypeOK  BY DEF ChainInv
<1>1. req[c].at = "sent" /\ UNCHANGED <<head, rows, signed, link, lost>>  BY DEF Answer
<1>2. PICK st \in Verdicts :
         /\ held' \in (CASE st = "accepted" -> {Hold(c)} [] st = "rejected" -> {held} [] st = "error" -> {held, Hold(c)})
         /\ Turn(c, "answered", [req[c] EXCEPT !.st = st])
  BY DEF Answer
<1>3. held' \in {held, Hold(c)} /\ (st = "accepted" => held' = Hold(c))  BY <1>2 DEF Verdicts
<1> DEFINE f == [req[c] EXCEPT !.st = st]
<1>4. f \in ZatcaRequests /\ f.inv = req[c].inv /\ f.hash = req[c].hash /\ f.icv = req[c].icv /\ f.st = st
  BY DEF ZatcaTypeOK, ZatcaRequests
<1>5. Turn(c, "answered", f)  BY <1>2
<1> HIDE DEF f
<1>6. /\ req' \in [Clients -> ZatcaRequests] /\ req'[c].at = "answered" /\ req'[c].inv = req[c].inv
      /\ req'[c].hash = req[c].hash /\ req'[c].icv = req[c].icv /\ req'[c].st = st
      /\ \A d \in Clients : d # c => req'[d] = req[d]
  BY <1>4, <1>5, Turned DEF Steps
<1>7. /\ Hold(c) \subseteq Filed /\ held \subseteq Hold(c)
      /\ \E d \in Hold(c) : d.hash = req[c].hash /\ d.icv = req[c].icv
      /\ req[c].inv \in Invoices /\ req[c].hash \in 1..signed /\ req[c].icv <= signed
  BY <1>1, Holding DEF Issued
<1>8. held \subseteq held' /\ held' \subseteq Filed
  BY <1>3, <1>7 DEF ZatcaTypeOK
<1>9. HeadFits'  BY <1>1, <1>8, Stays
<1>10. ReqFits(req[c])'
  <2>1. st = "accepted" => IsHeld(req[c].hash, req[c].icv)'  BY <1>3, <1>6, <1>7 DEF IsHeld
  <2> QED  BY <1>1, <1>6, <1>7, <2>1 DEF ReqFits, Copies
<1>11. \A r \in Accepted : r.icv < req'[c].icv
  BY <1>1, <1>6 DEF ChainInv, NextIcvIsFree, New
<1>12. link' \in {"ok", "invalid", "none"} /\ head' \in [icv : Nat, pih : Nat]  BY <1>1 DEF ZatcaTypeOK
<1>13. req'[c].at # "sent" /\ req'[c].at \notin Copies /\ req[c].at \in Issued /\ req[c].at \in UnderLock
  BY <1>1, <1>6 DEF Copies, Issued, UnderLock
<1> QED  BY <1>1, <1>6, <1>8, <1>9, <1>10, <1>11, <1>12, <1>13, GoesOn

LEMMA CredentialsRefusedKeeps == ASSUME ChainInv, NEW c \in Clients, CredentialsRefused(c) PROVE ChainInv'
<1>1. UNCHANGED <<head, rows, signed, held, lost>> /\ Leave(c) /\ link' \in {"ok", "invalid", "none"}
  BY DEF CredentialsRefused
<1>2. held' \subseteq Filed  BY <1>1 DEF ChainInv, ZatcaTypeOK
<1> QED  BY <1>1, <1>2, LeaveKeeps

LEMMA AbandonKeeps == ASSUME ChainInv, NEW c \in Clients, Abandon(c) PROVE ChainInv'
<1>1. UNCHANGED <<head, rows, signed, link, held, lost>> /\ Leave(c)  BY DEF Abandon
<1>2. link' \in {"ok", "invalid", "none"} /\ held' \subseteq Filed
  BY <1>1 DEF ChainInv, ZatcaTypeOK
<1> QED  BY <1>1, <1>2, LeaveKeeps

\* The request's own document becomes the head only once it is held.
LEMMA AdvanceKeeps == ASSUME ChainInv, NEW c \in Clients, Advance(c) PROVE ChainInv'
<1> USE DEF ChainInv
<1>1. /\ req[c].at = "answered" /\ UNCHANGED <<rows, signed, link, held, lost>> /\ Turn(c, "committed", req[c])
      /\ head' = IF req[c].st = "accepted" THEN [icv |-> req[c].icv, pih |-> req[c].hash] ELSE head
  BY DEF Advance
<1>2. /\ req[c].inv \in Invoices /\ req[c].hash \in 1..signed /\ req[c].icv \in Nat /\ req[c].icv <= signed
      /\ req[c].hash \in Nat
  BY <1>1, Holding, Types DEF Issued
<1>3. req[c].st \in Verdicts /\ (req[c].st = "accepted" => IsHeld(req[c].hash, req[c].icv))
  BY <1>1 DEF ReqsFit, ReqFits, Judging
<1>4. head' \in [icv : Nat, pih : Nat]  BY <1>1, <1>2 DEF ZatcaTypeOK
<1>5. HeadFits'  BY <1>1, <1>2, <1>3 DEF HeadFits, IsHeld
<1>6. /\ req' \in [Clients -> ZatcaRequests] /\ req'[c].at = "committed" /\ req'[c].inv = req[c].inv
      /\ req'[c].hash = req[c].hash /\ req'[c].icv = req[c].icv /\ req'[c].st = req[c].st
      /\ \A d \in Clients : d # c => req'[d] = req[d]
  BY <1>1, Turned DEF ZatcaTypeOK, Steps
<1>7. ReqFits(req[c])'  BY <1>1, <1>2, <1>3, <1>6 DEF ReqFits, Copies, IsHeld
<1>8. \A r \in Accepted : r.icv < req'[c].icv  BY <1>1, <1>6 DEF NextIcvIsFree, New
<1>9. link' \in {"ok", "invalid", "none"} /\ held' \subseteq Filed
  BY <1>1 DEF ZatcaTypeOK
<1>10. req'[c].at # "sent" /\ req'[c].at \notin Copies /\ req[c].at \in Issued /\ req[c].at \in UnderLock
  BY <1>1, <1>6 DEF Copies, Issued, UnderLock
<1> HIDE DEF ChainInv
<1> QED  BY <1>1, <1>4, <1>5, <1>6, <1>7, <1>8, <1>9, <1>10, GoesOn

\* The next document follows the head: the signature is new, the lock is this request's.
LEMMA SignKeeps == ASSUME ChainInv, NEW c \in Clients, Sign(c) PROVE ChainInv'
<1> ZatcaTypeOK  BY DEF ChainInv
<1>1. req[c].at = "queued" /\ ChainFree /\ UNCHANGED <<rows, link, held, lost>>  BY DEF Sign
<1>2. CASE Leave(c) /\ UNCHANGED <<head, signed>>
  <2>1. link' \in {"ok", "invalid", "none"} /\ held' \subseteq Filed
    BY <1>1 DEF ZatcaTypeOK
  <2> QED  BY <1>1, <1>2, <2>1, LeaveKeeps
<1>3. CASE /\ signed < MaxSigned /\ head' \in ChainHeads /\ signed' = signed + 1
           /\ Turn(c, "sent", [req[c] EXCEPT !.icv = head'.icv + 1, !.pih = head'.pih, !.hash = signed'])
  <2>1. /\ head' \in [icv : Nat, pih : Nat] /\ head'.icv \in Nat /\ head'.pih \in Nat /\ head'.icv <= signed
        /\ head' = ZeroHead \/ IsHeld(head'.pih, head'.icv)
        /\ \A r \in Accepted : r.icv <= head'.icv
    BY <1>3, HeadFacts
  <2>2. signed \in Nat /\ signed' \in Nat /\ signed' \in 0..MaxSigned  BY <1>3, Types
  <2>3. req[c] \in ZatcaRequests /\ head'.icv + 1 \in Nat  BY <2>1 DEF ZatcaTypeOK
  <2> DEFINE f1 == [req[c] EXCEPT !.icv = head'.icv + 1]
             f2 == [f1 EXCEPT !.pih = head'.pih]
             f == [f2 EXCEPT !.hash = signed']
  <2>4. f \in ZatcaRequests /\ f.inv = req[c].inv /\ f.icv = head'.icv + 1 /\ f.pih = head'.pih /\ f.hash = signed'
    <3>1. f1 \in ZatcaRequests /\ f1.inv = req[c].inv /\ f1.icv = head'.icv + 1  BY <2>3 DEF ZatcaRequests
    <3> HIDE DEF f1
    <3>2. f2 \in ZatcaRequests /\ f2.inv = req[c].inv /\ f2.icv = head'.icv + 1 /\ f2.pih = head'.pih
      BY <2>1, <3>1 DEF ZatcaRequests
    <3> HIDE DEF f2
    <3> QED  BY <2>2, <3>2 DEF ZatcaRequests
  <2>5. Turn(c, "sent", f)  BY <1>3
  <2> HIDE DEF f
  <2>6. /\ req' \in [Clients -> ZatcaRequests] /\ req'[c].at = "sent" /\ req'[c].inv = req[c].inv
        /\ req'[c].icv = head'.icv + 1 /\ req'[c].pih = head'.pih /\ req'[c].hash = signed'
        /\ \A d \in Clients : d # c => req'[d] = req[d] /\ req[d].at \notin UnderLock
    BY <1>1, <2>4, <2>5, Turned DEF Steps, ChainFree
  <2>7. ZatcaTypeOK'  BY <1>1, <2>1, <2>2, <2>6 DEF ZatcaTypeOK
  <2>8. Alone'  BY <2>6 DEF Alone
  <2>9. ReqsFit'
    <3> SUFFICES ASSUME NEW d \in Clients PROVE ReqFits(req[d])'  BY DEF ReqsFit
    <3>1. CASE d = c
      <4>1. req[c].inv \in Invoices  BY <1>1 DEF ChainInv, ReqsFit, ReqFits
      <4>2. req'[c].hash \in 1..signed' /\ req'[c].icv <= signed'  BY <1>3, <2>1, <2>2, <2>6
      <4> QED  BY <2>6, <3>1, <4>1, <4>2 DEF ReqFits, Copies, Issued, Judging
    <3>2. CASE d # c
      <4>1. ReqFits(req[d]) /\ req'[d] = req[d]  BY <2>6, <3>2 DEF ChainInv, ReqsFit
      <4>2. req[d].hash \in Nat /\ req[d].icv \in Nat  BY Types
      <4> QED  BY <1>1, <1>3, <2>2, <4>1, <4>2 DEF ReqFits, IsHeld
    <3> QED  BY <3>1, <3>2
  <2>10. RowsFit'
    <3>1. \A r \in rows : r.hash \in Nat /\ r.icv \in Nat  BY Types
    <3> QED  BY <1>1, <1>3, <2>2, <3>1 DEF ChainInv, RowsFit, IsHeld
  <2>11. HeadFits'  BY <1>1, <1>3, <2>1, <2>2 DEF HeadFits, IsHeld, ZeroHead
  <2>12. HashesFit'
    <3>1. \A r \in rows : r.hash \in Nat /\ r.hash < signed'  BY <1>3, <2>2, Types DEF ChainInv, RowsFit
    <3>2. \A d \in Clients : req[d].at \in Copies => req[d].hash < signed'
      BY <1>3, <2>2 DEF ChainInv, ReqsFit, ReqFits
    <3>3. \A d \in Clients : req'[d].at \in Copies => d # c /\ req'[d].hash < signed'
      BY <2>6, <3>2 DEF Copies
    <3>4. \A d \in Clients : req'[d].at \in Issued => d = c
      BY <2>6 DEF Issued, UnderLock
    <3>5. ASSUME NEW d \in Clients, req'[d].at \in Issued
          PROVE  /\ \A r \in rows' : r.hash # req'[d].hash
                 /\ \A e \in Clients : req'[e].at \in Copies => req'[e].hash # req'[d].hash
      BY <1>1, <2>2, <2>6, <3>1, <3>3, <3>4, <3>5
    <3>6. ASSUME NEW d \in Clients, req'[d].at \in Copies, NEW r \in rows', r.hash = req'[d].hash
          PROVE  r.icv = req'[d].icv
      BY <1>1, <2>6, <3>3, <3>6 DEF ChainInv, HashesFit
    <3> QED  BY <3>5, <3>6 DEF HashesFit
  <2>13. SentOntoHeld'
    <3> SUFFICES ASSUME NEW d \in Clients, req'[d].at = "sent", req'[d].pih # Seed
                 PROVE  \E h \in held' : h.hash = req'[d].pih /\ h.icv + 1 = req'[d].icv
      BY DEF SentOntoHeld
    <3>1. d = c  BY <2>6 DEF UnderLock
    <3>2. IsHeld(head'.pih, head'.icv)  BY <2>1, <2>6, <3>1 DEF ZeroHead
    <3> QED  BY <1>1, <2>6, <3>1, <3>2 DEF IsHeld
  <2>14. NextIcvIsFree'
    <3> SUFFICES ASSUME NEW d \in Clients, New(d)', NEW r \in Accepted' PROVE r.icv < req'[d].icv
      BY DEF NextIcvIsFree
    <3>1. d = c  BY <2>6 DEF New, UnderLock
    <3>2. r \in Accepted /\ r.icv \in Nat  BY <1>1, Types DEF Accepted
    <3> QED  BY <2>1, <2>6, <3>1, <3>2
  <2> QED  BY <2>7, <2>8, <2>9, <2>10, <2>11, <2>12, <2>13, <2>14 DEF ChainInv
<1> QED  BY <1>1, <1>2, <1>3 DEF Sign

-----------------------------------------------------------------------------
(* Recording a document.                                                    *)

\* A request leaves the lock having written rows: none is under it any more.
LEMMA Released ==
    ASSUME ChainInv, NEW c \in Clients, req[c].at \in UnderLock, Leave(c), UNCHANGED <<head, signed, held, lost>>,
           link' \in {"ok", "invalid", "none"}, rows' \subseteq InvoiceRow, RowsFit',
           \A d \in Clients : d # c /\ req[d].at \in Copies =>
              \A r \in rows' : r.hash = req[d].hash => r.icv = req[d].icv
    PROVE  ChainInv'
<1>1. /\ req' \in [Clients -> ZatcaRequests] /\ req'[c] = NoRequest
      /\ \A d \in Clients : d # c => req'[d] = req[d] /\ req[d].at \notin UnderLock
  BY Left DEF ChainInv, Alone
<1>2. \A d \in Clients : req'[d].at \notin UnderLock  BY <1>1 DEF NoRequest, UnderLock
<1>3. ZatcaTypeOK'  BY <1>1 DEF ChainInv, ZatcaTypeOK
<1>4. Alone'  BY <1>2 DEF Alone
<1>5. ReqsFit'
  <2> SUFFICES ASSUME NEW d \in Clients PROVE ReqFits(req[d])'  BY DEF ReqsFit
  <2>1. CASE d = c  BY <1>1, <2>1 DEF ReqFits, NoRequest, Copies, Issued, Judging
  <2>2. CASE d # c  BY <1>1, <2>2 DEF ChainInv, ReqsFit, ReqFits, IsHeld
  <2> QED  BY <2>1, <2>2
<1>6. HeadFits'  BY DEF ChainInv, HeadFits, IsHeld
<1>7. HashesFit'
  <2>1. \A d \in Clients : req'[d].at \notin Issued  BY <1>2 DEF Issued, UnderLock
  <2>2. \A d \in Clients : req'[d].at \in Copies => d # c /\ req'[d] = req[d]
    BY <1>1 DEF NoRequest, Copies
  <2> QED  BY <2>1, <2>2 DEF HashesFit
<1>8. SentOntoHeld'  BY <1>2 DEF SentOntoHeld, UnderLock
<1>9. NextIcvIsFree'  BY <1>2 DEF NextIcvIsFree, New, UnderLock
<1> QED  BY <1>3, <1>4, <1>5, <1>6, <1>7, <1>8, <1>9 DEF ChainInv

\* The row of the document at hand has its type and is no other's.
LEMMA NewRow ==
    ASSUME ChainInv, NEW c \in Clients, req[c].at = "committed", NEW live \in BOOLEAN,
           UNCHANGED <<signed, held>>, rows' = rows \cup {RowFor(c, live)}
    PROVE  /\ rows' \subseteq InvoiceRow /\ RowsFit'
           /\ \A d \in Clients : d # c /\ req[d].at \in Copies =>
                 \A r \in rows' : r.hash = req[d].hash => r.icv = req[d].icv
<1> ZatcaTypeOK  BY DEF ChainInv
<1> DEFINE new == RowFor(c, live)
<1>1. new.hash = req[c].hash /\ new.icv = req[c].icv /\ new.st = req[c].st  BY DEF RowFor
<1>2. /\ req[c].inv \in Invoices /\ req[c].hash \in 1..signed /\ req[c].hash \in Hashes
      /\ req[c].icv \in Nat /\ req[c].icv <= signed /\ req[c].pih \in Nat /\ req[c].hash \in Nat
  BY Holding, Types DEF Issued
<1>3. req[c].st \in Verdicts /\ (req[c].st = "accepted" => IsHeld(req[c].hash, req[c].icv))
  BY DEF ChainInv, ReqsFit, ReqFits, Judging
<1>4. new \in InvoiceRow  BY <1>2, <1>3 DEF RowFor, InvoiceRow
<1>5. /\ \A r \in rows : r.hash # req[c].hash
      /\ \A d \in Clients : req[d].at \in Copies => req[d].hash # req[c].hash
  BY DEF ChainInv, HashesFit, Issued
<1> HIDE DEF new
<1>6. rows' = rows \cup {new}  BY DEF new
<1>7. rows' \subseteq InvoiceRow  BY <1>4, <1>6 DEF ZatcaTypeOK
<1>8. RowsFit'
  <2> SUFFICES ASSUME NEW r \in rows'
               PROVE  /\ r.hash <= signed /\ r.icv <= signed
                      /\ r.st = "accepted" => IsHeld(r.hash, r.icv)
                      /\ \A q \in rows' : q.hash = r.hash => q.icv = r.icv
    BY DEF RowsFit, IsHeld
  <2>1. CASE r \in rows  BY <1>1, <1>5, <1>6, <2>1 DEF ChainInv, RowsFit
  <2>2. CASE r = new  BY <1>1, <1>2, <1>3, <1>5, <1>6, <2>2
  <2> QED  BY <1>6, <2>1, <2>2
<1>9. ASSUME NEW d \in Clients, d # c, req[d].at \in Copies, NEW r \in rows', r.hash = req[d].hash
      PROVE  r.icv = req[d].icv
  <2>1. r # new  BY <1>1, <1>5, <1>9
  <2>2. r \in rows  BY <1>6, <2>1
  <2> QED  BY <1>9, <2>2 DEF ChainInv, HashesFit
<1> QED  BY <1>7, <1>8, <1>9

LEMMA StoreKeeps == ASSUME ChainInv, NEW c \in Clients, Store(c) PROVE ChainInv'
<1>1. /\ req[c].at = "committed" /\ rows' = rows \cup {RowFor(c, TRUE)} /\ Leave(c)
      /\ UNCHANGED <<head, signed, held, lost>> /\ link' \in {"ok", "invalid", "none"}
  BY DEF Store, ChainInv, ZatcaTypeOK
<1>2. req[c].at \in UnderLock  BY <1>1 DEF UnderLock
<1>3. /\ rows' \subseteq InvoiceRow /\ RowsFit'
      /\ \A d \in Clients : d # c /\ req[d].at \in Copies =>
            \A r \in rows' : r.hash = req[d].hash => r.icv = req[d].icv
  BY <1>1, NewRow
<1> QED  BY <1>1, <1>2, <1>3, Released

LEMMA StoreFailsKeeps == ASSUME ChainInv, NEW c \in Clients, StoreFails(c) PROVE ChainInv'
<1>1. /\ req[c].at = "committed" /\ Leave(c)
      /\ UNCHANGED <<head, signed, held, lost>> /\ link' \in {"ok", "invalid", "none"}
      /\ rows' = rows \/ rows' = rows \cup {RowFor(c, FALSE)}
  BY DEF StoreFails, ChainInv, ZatcaTypeOK
<1>2. req[c].at \in UnderLock  BY <1>1 DEF UnderLock
<1>3. CASE rows' = rows
  <2>1. rows' \subseteq InvoiceRow /\ RowsFit'  BY <1>1, <1>3 DEF ChainInv, ZatcaTypeOK, RowsFit, IsHeld
  <2>2. \A d \in Clients : d # c /\ req[d].at \in Copies =>
            \A r \in rows' : r.hash = req[d].hash => r.icv = req[d].icv
    BY <1>3 DEF ChainInv, HashesFit
  <2> QED  BY <1>1, <1>2, <2>1, <2>2, Released
<1>4. CASE rows' = rows \cup {RowFor(c, FALSE)}
  <2>1. /\ rows' \subseteq InvoiceRow /\ RowsFit'
        /\ \A d \in Clients : d # c /\ req[d].at \in Copies =>
              \A r \in rows' : r.hash = req[d].hash => r.icv = req[d].icv
    BY <1>1, <1>4, NewRow
  <2> QED  BY <1>1, <1>2, <2>1, Released
<1> QED  BY <1>1, <1>3, <1>4

-----------------------------------------------------------------------------
(* Sending a stored document again.                                         *)

\* What the steps that touch neither the rows nor the link leave alone.
LEMMA Untouched ==
    ASSUME ChainInv, UNCHANGED <<rows, signed, link, lost>>
    PROVE  /\ link' \in {"ok", "invalid", "none"}
           /\ head' = head => head' \in [icv : Nat, pih : Nat]
           /\ held' = held => held' \subseteq Filed
           /\ Fewer
  BY DEF ChainInv, ZatcaTypeOK, Fewer

LEMMA PickKeeps == ASSUME ChainInv, NEW c \in Clients, NEW r \in rows, Pick(c, r) PROVE ChainInv'
<1> ZatcaTypeOK  BY DEF ChainInv
<1>1. UNCHANGED <<head, rows, signed, link, held, lost>>  BY DEF Pick
<1> DEFINE f1 == [NoRequest EXCEPT !.inv = r.inv]
           f2 == [f1 EXCEPT !.icv = r.icv]
           f3 == [f2 EXCEPT !.pih = r.pih]
           f4 == [f3 EXCEPT !.hash = r.hash]
           f == [f4 EXCEPT !.st = r.st]
<1>2. r.inv \in Invoices /\ r.icv \in Nat /\ r.pih \in Nat /\ r.hash \in Nat /\ r.st \in Verdicts /\ r.hash \in 1..signed
      /\ r.icv <= signed
  <2>1. r.hash \in 1..MaxSigned /\ r.hash <= signed /\ r.icv <= signed
    BY DEF ChainInv, RowsFit, ZatcaTypeOK, InvoiceRow, Hashes
  <2> QED  BY <2>1, Types
<1>3. f \in ZatcaRequests /\ f.inv = r.inv /\ f.icv = r.icv /\ f.hash = r.hash /\ f.st = r.st
  <2>1. f1 \in ZatcaRequests /\ f1.inv = r.inv  BY <1>2 DEF ZatcaRequests, NoRequest, Seed
  <2> HIDE DEF f1
  <2>2. f2 \in ZatcaRequests /\ f2.inv = r.inv /\ f2.icv = r.icv  BY <1>2, <2>1 DEF ZatcaRequests
  <2> HIDE DEF f2
  <2>3. f3 \in ZatcaRequests /\ f3.inv = r.inv /\ f3.icv = r.icv  BY <1>2, <2>2 DEF ZatcaRequests
  <2> HIDE DEF f3
  <2>4. f4 \in ZatcaRequests /\ f4.inv = r.inv /\ f4.icv = r.icv /\ f4.hash = r.hash  BY <1>2, <2>3 DEF ZatcaRequests
  <2> HIDE DEF f4
  <2> QED  BY <1>2, <2>4 DEF ZatcaRequests
<1>4. Turn(c, "picked", f)  BY DEF Pick
<1> HIDE DEF f
<1>5. /\ req' \in [Clients -> ZatcaRequests] /\ req'[c].at = "picked" /\ req'[c].inv = r.inv
      /\ req'[c].hash = r.hash /\ req'[c].icv = r.icv /\ req'[c].st = r.st
      /\ \A d \in Clients : d # c => req'[d] = req[d]
  BY <1>3, <1>4, Turned DEF Steps
<1>6. ReqFits(req[c])'  BY <1>1, <1>2, <1>5 DEF ReqFits, Judging
<1>7. /\ req'[c].at # "sent" /\ req'[c].at \notin Issued /\ req'[c].at \notin UnderLock /\ ~New(c)'
      /\ \E q \in rows : q.hash = req'[c].hash /\ q.icv = req'[c].icv
  BY <1>5 DEF Issued, UnderLock, New
<1>8. HeadFits'  BY <1>1, Stays
<1> QED  BY <1>1, <1>5, <1>6, <1>7, <1>8, Untouched, GoesOn

LEMMA ResendKeeps == ASSUME ChainInv, NEW c \in Clients, Resend(c) PROVE ChainInv'
<1> ZatcaTypeOK  BY DEF ChainInv
<1>1. req[c].at = "picked" /\ ChainFree /\ UNCHANGED <<head, rows, signed, link, held, lost>>  BY DEF Resend
<1>2. CASE Leave(c)  BY <1>1, <1>2, Untouched, LeaveKeeps
<1>3. CASE /\ ~Superseded(c)
           /\ Turn(c, "resent", [req[c] EXCEPT !.seen = IF req[c].st = "accepted" THEN {req[c].hash} ELSE {}])
  <2>1. /\ req[c].inv \in Invoices /\ req[c].hash \in 1..signed /\ req[c].hash \in Hashes
        /\ req[c].icv \in Nat /\ req[c].icv <= signed
    BY <1>1, Holding DEF Copies
  <2>2. req[c].st \in Verdicts  BY <1>1 DEF ChainInv, ReqsFit, ReqFits, Copies
  <2> DEFINE f == [req[c] EXCEPT !.seen = IF req[c].st = "accepted" THEN {req[c].hash} ELSE {}]
  <2>3. /\ f \in ZatcaRequests /\ f.inv = req[c].inv /\ f.icv = req[c].icv /\ f.hash = req[c].hash /\ f.st = req[c].st
        /\ f.seen = {} => req[c].st # "accepted"
    <3>1. (IF req[c].st = "accepted" THEN {req[c].hash} ELSE {}) \in SUBSET Hashes  BY <2>1
    <3>2. req[c] \in ZatcaRequests  BY DEF ZatcaTypeOK
    <3> QED  BY <3>1, <3>2 DEF ZatcaRequests
  <2>4. Turn(c, "resent", f)  BY <1>3
  <2> HIDE DEF f
  <2>5. /\ req' \in [Clients -> ZatcaRequests] /\ req'[c].at = "resent" /\ req'[c].inv = req[c].inv
        /\ req'[c].hash = req[c].hash /\ req'[c].icv = req[c].icv /\ req'[c].st = req[c].st /\ req'[c].seen = f.seen
        /\ \A d \in Clients : d # c => req'[d] = req[d]
    BY <2>3, <2>4, Turned DEF Steps
  <2>6. ReqFits(req[c])'  BY <1>1, <2>1, <2>2, <2>5 DEF ReqFits, Judging
  <2>7. New(c)' => \A r \in Accepted : r.icv < req'[c].icv
    <3> SUFFICES ASSUME New(c)', NEW r \in Accepted PROVE r.icv < req'[c].icv  OBVIOUS
    <3>1. req[c].st # "accepted"  BY <2>3, <2>5 DEF New
    <3>2. ~(r.icv >= req[c].icv)  BY <1>3, <3>1 DEF Superseded
    <3>3. r.icv \in Nat  BY Types
    <3> QED  BY <2>1, <2>5, <3>2, <3>3
  <2>8. req'[c].at # "sent" /\ req'[c].at \notin Issued /\ req[c].at \in Copies
    BY <1>1, <2>5 DEF Issued, Copies
  <2>9. HeadFits'  BY <1>1, Stays
  <2> QED  BY <1>1, <2>5, <2>6, <2>7, <2>8, <2>9, Untouched, GoesOn
<1> QED  BY <1>2, <1>3 DEF Resend

LEMMA ReAnswerKeeps == ASSUME ChainInv, NEW c \in Clients, ReAnswer(c) PROVE ChainInv'
<1> ZatcaTypeOK  BY DEF ChainInv
<1>1. req[c].at = "resent" /\ UNCHANGED <<head, rows, signed, link, lost>>  BY DEF ReAnswer
<1>2. /\ Hold(c) \subseteq Filed /\ held \subseteq Hold(c)
      /\ \E d \in Hold(c) : d.hash = req[c].hash /\ d.icv = req[c].icv
      /\ req[c].inv \in Invoices /\ req[c].hash \in 1..signed /\ req[c].icv <= signed
  BY <1>1, Holding DEF Copies
<1>3. held' \in {held, Hold(c)}  BY DEF ReAnswer
<1>4. held \subseteq held' /\ held' \subseteq Filed
  BY <1>2, <1>3 DEF ZatcaTypeOK
<1>5. CASE Leave(c)  BY <1>1, <1>4, <1>5, Untouched, LeaveKeeps
<1>6. ASSUME NEW st \in Verdicts, st = "accepted" => held' = Hold(c),
             Turn(c, "reanswered", [req[c] EXCEPT !.st = st])
      PROVE  ChainInv'
  <2> DEFINE f == [req[c] EXCEPT !.st = st]
  <2>1. /\ f \in ZatcaRequests /\ f.inv = req[c].inv /\ f.hash = req[c].hash /\ f.icv = req[c].icv /\ f.st = st
        /\ f.seen = req[c].seen
    BY DEF ZatcaTypeOK, ZatcaRequests
  <2>2. Turn(c, "reanswered", f)  BY <1>6
  <2> HIDE DEF f
  <2>3. /\ req' \in [Clients -> ZatcaRequests] /\ req'[c].at = "reanswered" /\ req'[c].inv = req[c].inv
        /\ req'[c].hash = req[c].hash /\ req'[c].icv = req[c].icv /\ req'[c].st = st /\ req'[c].seen = req[c].seen
        /\ \A d \in Clients : d # c => req'[d] = req[d]
    BY <2>1, <2>2, Turned DEF Steps
  <2>4. ReqFits(req[c])'
    <3>1. st = "accepted" => IsHeld(req[c].hash, req[c].icv)'  BY <1>2, <1>6, <2>3 DEF IsHeld
    <3> QED  BY <1>1, <1>2, <2>3, <3>1 DEF ReqFits
  <2>5. New(c)' => \A r \in Accepted : r.icv < req'[c].icv
    BY <1>1, <2>3 DEF ChainInv, NextIcvIsFree, New
  <2>6. req'[c].at # "sent" /\ req'[c].at \notin Issued /\ req[c].at \in Copies /\ req[c].at \in UnderLock
    BY <1>1, <2>3 DEF Issued, Copies, UnderLock
  <2>7. HeadFits'  BY <1>1, <1>4, Stays
  <2> QED  BY <1>1, <1>4, <2>3, <2>4, <2>5, <2>6, <2>7, Untouched, GoesOn
<1> QED  BY <1>5, <1>6 DEF ReAnswer

LEMMA ReAdvanceKeeps == ASSUME ChainInv, NEW c \in Clients, ReAdvance(c) PROVE ChainInv'
<1> ZatcaTypeOK  BY DEF ChainInv
<1>1. /\ req[c].at = "reanswered" /\ UNCHANGED <<rows, signed, link, held, lost>> /\ Turn(c, "recommitted", req[c])
      /\ \/ head' = head
         \/ req[c].st = "accepted" /\ head' = [icv |-> req[c].icv, pih |-> req[c].hash]
  BY DEF ReAdvance
<1>2. /\ req[c].inv \in Invoices /\ req[c].hash \in 1..signed /\ req[c].icv \in Nat /\ req[c].icv <= signed
      /\ req[c].hash \in Nat
  BY <1>1, Holding, Types DEF Copies
<1>3. req[c].st \in Verdicts /\ (req[c].st = "accepted" => IsHeld(req[c].hash, req[c].icv))
  BY <1>1 DEF ChainInv, ReqsFit, ReqFits, Judging, Copies
<1>4. head' \in [icv : Nat, pih : Nat]  BY <1>1, <1>2 DEF ZatcaTypeOK
<1>5. HeadFits'  BY <1>1, <1>2, <1>3 DEF ChainInv, HeadFits, IsHeld
<1>6. /\ req' \in [Clients -> ZatcaRequests] /\ req'[c].at = "recommitted" /\ req'[c].inv = req[c].inv
      /\ req'[c].hash = req[c].hash /\ req'[c].icv = req[c].icv /\ req'[c].st = req[c].st /\ req'[c].seen = req[c].seen
      /\ \A d \in Clients : d # c => req'[d] = req[d]
  BY <1>1, Turned DEF ZatcaTypeOK, Steps
<1>7. ReqFits(req[c])'  BY <1>1, <1>2, <1>3, <1>6 DEF ReqFits, IsHeld
<1>8. New(c)' => \A r \in Accepted : r.icv < req'[c].icv
  BY <1>1, <1>6 DEF ChainInv, NextIcvIsFree, New
<1>9. req'[c].at # "sent" /\ req'[c].at \notin Issued /\ req[c].at \in Copies /\ req[c].at \in UnderLock
  BY <1>1, <1>6 DEF Issued, Copies, UnderLock
<1> QED  BY <1>1, <1>4, <1>5, <1>6, <1>7, <1>8, <1>9, Untouched, GoesOn

\* The verdict goes to rows that have the document's hash, and so its counter.
LEMMA ReStoreKeeps == ASSUME ChainInv, NEW c \in Clients, ReStore(c) PROVE ChainInv'
<1> ZatcaTypeOK  BY DEF ChainInv
<1>1. /\ req[c].at = "recommitted" /\ Leave(c) /\ UNCHANGED <<head, signed, link, held, lost>>
      /\ rows' = rows \/ rows' = Judged(c)
  BY DEF ReStore
<1>2. req[c].at \in UnderLock /\ req[c].at \in Copies /\ req[c].at \in Judging
  BY <1>1 DEF UnderLock, Copies, Judging
<1>3. req[c].st \in Verdicts /\ (req[c].st = "accepted" => IsHeld(req[c].hash, req[c].icv))
  BY <1>2 DEF ChainInv, ReqsFit, ReqFits
<1>4. ASSUME NEW r \in rows'
      PROVE  /\ r \in InvoiceRow
             /\ \E q \in rows : /\ q.hash = r.hash /\ q.icv = r.icv
                                /\ r.st = q.st \/ (r.st = req[c].st /\ r.hash = req[c].hash)
  <2>1. CASE rows' = rows  BY <2>1 DEF ZatcaTypeOK
  <2>2. CASE rows' = Judged(c)
    <3>1. PICK q \in rows : r = IF q.hash = req[c].hash THEN [q EXCEPT !.st = req[c].st] ELSE q
      BY <2>2 DEF Judged
    <3>2. q \in InvoiceRow  BY DEF ZatcaTypeOK
    <3>3. /\ r \in InvoiceRow /\ q.hash = r.hash /\ q.icv = r.icv
          /\ r.st = q.st \/ (r.st = req[c].st /\ r.hash = req[c].hash)
      BY <1>3, <3>1, <3>2 DEF InvoiceRow
    <3> QED  BY <3>3
  <2> QED  BY <1>1, <2>1, <2>2
<1>5. RowsFit'
  <2> SUFFICES ASSUME NEW r \in rows'
               PROVE  /\ r.hash <= signed /\ r.icv <= signed
                      /\ r.st = "accepted" => IsHeld(r.hash, r.icv)
                      /\ \A q \in rows' : q.hash = r.hash => q.icv = r.icv
    BY <1>1 DEF RowsFit, IsHeld
  <2>1. PICK q \in rows : /\ q.hash = r.hash /\ q.icv = r.icv
                          /\ r.st = q.st \/ (r.st = req[c].st /\ r.hash = req[c].hash)
    BY <1>4
  <2>2. q.hash = req[c].hash => q.icv = req[c].icv  BY <1>2 DEF ChainInv, HashesFit
  <2>3. ASSUME NEW s \in rows', s.hash = r.hash PROVE s.icv = r.icv
    <3>1. PICK t \in rows : t.hash = s.hash /\ t.icv = s.icv  BY <1>4
    <3> QED  BY <2>1, <2>3, <3>1 DEF ChainInv, RowsFit
  <2>4. r.st = "accepted" => IsHeld(r.hash, r.icv)  BY <1>3, <2>1, <2>2 DEF ChainInv, RowsFit
  <2> QED  BY <2>1, <2>3, <2>4 DEF ChainInv, RowsFit
<1>6. ASSUME NEW d \in Clients, req[d].at \in Copies, NEW r \in rows', r.hash = req[d].hash
      PROVE  r.icv = req[d].icv
  <2>1. PICK q \in rows : q.hash = r.hash /\ q.icv = r.icv  BY <1>4
  <2> QED  BY <1>6, <2>1 DEF ChainInv, HashesFit
<1>7. rows' \subseteq InvoiceRow /\ link' \in {"ok", "invalid", "none"}  BY <1>1, <1>4 DEF ZatcaTypeOK
<1> QED  BY <1>1, <1>2, <1>5, <1>6, <1>7, Released

-----------------------------------------------------------------------------
(* Deleting, resetting, linking.                                            *)

\* Steps no request takes.
LEMMA OthersKeep ==
    ASSUME ChainInv, UNCHANGED <<signed, req, held>>, Fewer, rows' \subseteq InvoiceRow,
           head' = head \/ head' = ZeroHead, link' \in {"ok", "invalid", "none"}, lost' \in 0..MaxLost
    PROVE  ChainInv'
<1>1. ZeroHead \in [icv : Nat, pih : Nat]  BY DEF ZeroHead, Seed
<1>2. ZatcaTypeOK'  BY <1>1 DEF ChainInv, ZatcaTypeOK
<1>3. Alone'  BY DEF ChainInv, Alone
<1>4. HeadFits'  BY Stays
<1> QED  BY <1>2, <1>3, <1>4, RecordsKept

LEMMA AdministrationKeeps ==
    ASSUME ChainInv,
           (\E r \in rows : DeleteInvoice(r)) \/ ResetChain \/ Unlink \/ Relink \/ FreshCredentials
    PROVE  ChainInv'
<1> ZatcaTypeOK  BY DEF ChainInv
<1>1. ASSUME NEW hs, rows' = Retire(hs) PROVE Fewer /\ rows' \subseteq InvoiceRow
  BY <1>1, Retired DEF Fewer
<1>2. ASSUME rows' = rows PROVE Fewer /\ rows' \subseteq InvoiceRow  BY <1>2 DEF Fewer, ZatcaTypeOK
<1>3. link \in {"ok", "invalid", "none"} /\ lost \in 0..MaxLost /\ MaxLost \in Nat
  BY ZatcaAssumption DEF ZatcaTypeOK
<1>4. CASE \E r \in rows : DeleteInvoice(r)  BY <1>1, <1>3, <1>4, OthersKeep DEF DeleteInvoice
<1>5. CASE ResetChain  BY <1>1, <1>3, <1>5, OthersKeep DEF ResetChain
<1>6. CASE Unlink  BY <1>2, <1>3, <1>6, OthersKeep DEF Unlink
<1>7. CASE Relink  BY <1>2, <1>3, <1>7, OthersKeep DEF Relink
<1>8. CASE FreshCredentials  BY <1>2, <1>3, <1>8, OthersKeep DEF FreshCredentials
<1> QED  BY <1>4, <1>5, <1>6, <1>7, <1>8

-----------------------------------------------------------------------------
(* The theorems.                                                            *)

LEMMA ChainInit == ZatcaInit => ChainInv
<1> SUFFICES ASSUME ZatcaInit PROVE ChainInv  OBVIOUS
<1>1. \A c \in Clients : req[c] = NoRequest  BY DEF ZatcaInit
<1>2. NoRequest \in ZatcaRequests  BY DEF NoRequest, ZatcaRequests, Seed
<1>3. ZatcaTypeOK  BY <1>2, ZatcaAssumption DEF ZatcaInit, ZatcaTypeOK, ZeroHead, Seed
<1>4. Alone /\ ReqsFit /\ SentOntoHeld /\ NextIcvIsFree
  BY <1>1 DEF Alone, ReqsFit, ReqFits, SentOntoHeld, NextIcvIsFree, NoRequest, UnderLock, Copies, Issued, Judging, New
<1>5. RowsFit /\ HeadFits  BY DEF ZatcaInit, RowsFit, HeadFits, ZeroHead
<1>6. HashesFit
  <2>1. \A c \in Clients : req[c].at \notin Issued /\ req[c].at \notin Copies
    <3>1. NoRequest.at = "idle"  BY DEF NoRequest
    <3> QED  BY <1>1, <3>1 DEF Copies, Issued
  <2> QED  BY <2>1 DEF HashesFit
<1> QED  BY <1>3, <1>4, <1>5, <1>6 DEF ChainInv

LEMMA ChainStep == ChainInv /\ [ZatcaNext]_zatcaVars => ChainInv'
<1> SUFFICES ASSUME ChainInv, [ZatcaNext]_zatcaVars PROVE ChainInv'  OBVIOUS
<1>1. CASE UNCHANGED zatcaVars
  <2>1. Fewer /\ Alone'  BY <1>1 DEF zatcaVars, Fewer, ChainInv, Alone
  <2>2. ZatcaTypeOK' /\ HeadFits'  BY <1>1, Stays DEF zatcaVars, ChainInv, ZatcaTypeOK
  <2> QED  BY <1>1, <2>1, <2>2, RecordsKept DEF zatcaVars
<1>2. ASSUME NEW c \in Clients, NEW inv \in Invoices, Look(c, inv) PROVE ChainInv'  BY <1>2, LookKeeps
<1>3. ASSUME NEW c \in Clients, NEW r \in rows, Pick(c, r) PROVE ChainInv'  BY <1>3, PickKeeps
<1>4. ASSUME NEW c \in Clients,
             \/ Supersede(c) \/ Abandon(c) \/ Sign(c)
             \/ Answer(c) \/ CredentialsRefused(c) \/ Advance(c) \/ Store(c) \/ StoreFails(c)
             \/ Resend(c) \/ ReAnswer(c) \/ ReAdvance(c) \/ ReStore(c)
      PROVE  ChainInv'
  BY <1>4, SupersedeKeeps, AbandonKeeps, SignKeeps, AnswerKeeps, CredentialsRefusedKeeps, AdvanceKeeps, StoreKeeps,
     StoreFailsKeeps, ResendKeeps, ReAnswerKeeps, ReAdvanceKeeps, ReStoreKeeps
<1> QED  BY <1>1, <1>2, <1>3, <1>4, AdministrationKeeps DEF ZatcaNext

LEMMA ChainAlways == ZatcaSpec => []ChainInv
  BY ChainInit, ChainStep, PTL DEF ZatcaSpec

\* Heads, rows, requests and what ZATCA holds have their types: in particular only
\* documents that were signed, of invoices that exist, reach ZATCA.
THEOREM ZatcaTypes == ZatcaSpec => []ZatcaTypeOK
<1>1. ChainInv => ZatcaTypeOK  BY DEF ChainInv
<1> QED  BY <1>1, ChainAlways, PTL

\* While a document is with ZATCA no other live accepted row has its counter or a
\* later one, whatever is deleted, superseded, reset or lost meanwhile.
THEOREM CountersAreFree == ZatcaSpec => []NextIcvIsFree
<1>1. ChainInv => NextIcvIsFree  BY DEF ChainInv
<1> QED  BY <1>1, ChainAlways, PTL

\* The head of the chain, and what a document being sent is chained onto, is a
\* document ZATCA holds under that counter.
THEOREM ChainsOntoHeld == ZatcaSpec => []ChainedOntoHeld
<1>1. ChainInv => ChainedOntoHeld  BY DEF ChainInv, HeadFits, IsHeld, SentOntoHeld, ChainedOntoHeld
<1> QED  BY <1>1, ChainAlways, PTL

-----------------------------------------------------------------------------
(* The chain of EInvoiceChain: the documents that are on file, stored, or   *)
(* under way.                                                               *)

Bearing(c) == req[c].at \in Issued \cup Copies

Papers ==
    held \cup {Document(r) : r \in rows} \cup {Document(req[c]) : c \in {d \in Clients : Bearing(d)}}

Linked(d) ==
    \/ d.pih = Seed /\ d.icv = 1
    \/ \E e \in held : d.pih = e.hash /\ d.icv = e.icv + 1

Waiting(c) == req[c].at \in {"sent", "answered"}

\* A hash is one document's, wherever that is found; every document follows one on
\* file; one being issued follows the head.
PapersInv ==
    /\ \A d, e \in Papers : d.hash = e.hash => d = e
    /\ \A d \in Papers : Linked(d) /\ d.hash <= signed /\ d.icv <= signed
    /\ \A c \in Clients : Waiting(c) => req[c].icv = head.icv + 1

LEMMA PaperTypes ==
    ASSUME ChainInv, PapersInv, NEW d \in Papers
    PROVE  d \in [hash : Hashes, inv : Invoices, icv : Hashes, pih : 0..MaxSigned]
<1> ZatcaTypeOK  BY DEF ChainInv
<1>1. signed \in Nat /\ MaxSigned \in Nat /\ signed <= MaxSigned
  <2>1. signed \in 0..MaxSigned /\ MaxSigned \in Nat  BY ZatcaAssumption DEF ZatcaTypeOK
  <2> QED  BY <2>1
<1>2. d \in Filed
  <2>1. CASE d \in held  BY <2>1 DEF ZatcaTypeOK
  <2>2. CASE \E r \in rows : d = Document(r)
    <3>1. PICK r \in rows : d = Document(r)  BY <2>2
    <3>2. r \in InvoiceRow  BY DEF ZatcaTypeOK
    <3> QED  BY <3>1, <3>2 DEF InvoiceRow, Document, Filed
  <2>3. CASE \E c \in Clients : Bearing(c) /\ d = Document(req[c])
    <3>1. PICK c \in Clients : Bearing(c) /\ d = Document(req[c])  BY <2>3
    <3>2. req[c].inv \in Invoices /\ req[c].hash \in Hashes /\ req[c].icv \in Nat /\ req[c].pih \in Nat
      BY <3>1, Holding, Types DEF Bearing
    <3> QED  BY <3>1, <3>2 DEF Document, Filed
  <2> QED  BY <2>1, <2>2, <2>3 DEF Papers
<1>3. Linked(d) /\ d.icv <= MaxSigned
  <2>1. Linked(d) /\ d.icv <= signed  BY DEF PapersInv
  <2>2. d.icv \in Nat  BY <1>2 DEF Filed
  <2> QED  BY <1>1, <2>1, <2>2
<1>4. \A e \in held : e.icv \in Nat /\ e.hash \in Hashes  BY Types
<1>5. d.icv \in Hashes /\ d.pih \in 0..MaxSigned
  <2>1. d.icv \in Nat  BY <1>2 DEF Filed
  <2>2. CASE d.pih = Seed /\ d.icv = 1  BY <1>1, <1>3, <2>1, <2>2 DEF Hashes, Seed
  <2>3. CASE \E e \in held : d.pih = e.hash /\ d.icv = e.icv + 1
    <3>1. PICK e \in held : d.pih = e.hash /\ d.icv = e.icv + 1  BY <2>3
    <3>2. e.icv \in Nat /\ e.hash \in 1..MaxSigned  BY <1>4 DEF Hashes
    <3> QED  BY <1>1, <1>3, <2>1, <3>1, <3>2 DEF Hashes
  <2> QED  BY <1>3, <2>2, <2>3 DEF Linked
<1> QED  BY <1>2, <1>5 DEF Filed

LEMMA RowsArePapers == \A r \in rows : Document(r) \in Papers
  BY DEF Papers

LEMMA RequestsArePapers == \A c \in Clients : Bearing(c) => Document(req[c]) \in Papers
  BY DEF Papers

\* Documents are carried on, and filed ones stay.
Carried == (\A r \in rows' : Document(r) \in Papers) /\ held \subseteq held' /\ held' \subseteq Papers /\ signed' = signed

\* A step that makes no document keeps the chain.
LEMMA PapersKept ==
    ASSUME ChainInv, PapersInv, Carried,
           \A c \in Clients : Bearing(c)' => Document(req'[c]) \in Papers,
           \A c \in Clients : Waiting(c)' => req'[c].icv = head'.icv + 1
    PROVE  PapersInv'
<1>1. Papers' \subseteq Papers
  <2> SUFFICES ASSUME NEW d \in Papers' PROVE d \in Papers  OBVIOUS
  <2>1. CASE d \in held'  BY <2>1 DEF Carried
  <2>2. CASE \E r \in rows' : d = Document(r)  BY <2>2 DEF Carried
  <2>3. CASE \E c \in Clients : Bearing(c)' /\ d = Document(req'[c])  BY <2>3
  <2> QED  BY <2>1, <2>2, <2>3, Zenon DEF Papers
<1>2. \A d : Linked(d) => Linked(d)'  BY DEF Linked, Carried
<1>3. \A d \in Papers' : Linked(d)' /\ d.hash <= signed' /\ d.icv <= signed'
  BY <1>1, <1>2 DEF PapersInv, Carried
<1>4. \A d, e \in Papers' : d.hash = e.hash => d = e  BY <1>1 DEF PapersInv
<1> QED  BY <1>3, <1>4 DEF PapersInv

\* One request moves; the head moves only for the one under the lock.
LEMMA OneCarries ==
    ASSUME ChainInv, PapersInv, NEW c \in Clients, Carried,
           \A d \in Clients : d # c => req'[d] = req[d],
           Bearing(c)' => Document(req'[c]) \in Papers,
           Waiting(c)' => req'[c].icv = head'.icv + 1,
           head' = head \/ req[c].at \in UnderLock
    PROVE  PapersInv'
<1>1. ASSUME NEW d \in Clients, Bearing(d)' PROVE Document(req'[d]) \in Papers
  BY <1>1, RequestsArePapers DEF Bearing
<1>2. ASSUME NEW d \in Clients, Waiting(d)' PROVE req'[d].icv = head'.icv + 1
  <2>1. CASE d = c  BY <1>2, <2>1
  <2>2. CASE d # c
    <3>1. req'[d] = req[d] /\ Waiting(d)  BY <1>2, <2>2 DEF Waiting
    <3>2. req[d].at \in UnderLock  BY <3>1 DEF Waiting, UnderLock
    <3>3. head' = head  BY <2>2, <3>2 DEF ChainInv, Alone
    <3> QED  BY <3>1, <3>3 DEF PapersInv
  <2> QED  BY <2>1, <2>2
<1> QED  BY <1>1, <1>2, PapersKept

\* A request that goes on with its document.
LEMMA GoesOnWith ==
    ASSUME ChainInv, NEW c \in Clients, NEW step \in Steps, NEW f \in ZatcaRequests, Turn(c, step, f),
           f.inv = req[c].inv, f.hash = req[c].hash, f.icv = req[c].icv, f.pih = req[c].pih
    PROVE  /\ Document(req'[c]) = Document(req[c]) /\ req'[c].at = step /\ req'[c].icv = req[c].icv
           /\ \A d \in Clients : d # c => req'[d] = req[d]
  BY Turned DEF ChainInv, Document

LEMMA GoneWithout ==
    ASSUME ChainInv, NEW c \in Clients, Leave(c)
    PROVE  ~Bearing(c)' /\ ~Waiting(c)' /\ \A d \in Clients : d # c => req'[d] = req[d]
  BY Left DEF ChainInv, Bearing, Waiting, NoRequest, Issued, Copies

\* Nothing is filed and the head stays.
FilesNothing == head' = head /\ held' = held /\ signed' = signed

LEMMA HeldArePapers == held \subseteq Papers
  BY DEF Papers

LEMMA RetiredPapers == \A hs : \A r \in Retire(hs) : ZatcaTypeOK => Document(r) \in Papers
<1> SUFFICES ASSUME NEW hs, NEW r \in Retire(hs), ZatcaTypeOK PROVE Document(r) \in Papers  OBVIOUS
<1>1. PICK q \in rows : r = IF q.hash \in hs THEN [q EXCEPT !.live = FALSE] ELSE q  BY DEF Retire
<1>2. q \in InvoiceRow  BY DEF ZatcaTypeOK
<1>3. r.hash = q.hash /\ r.inv = q.inv /\ r.icv = q.icv /\ r.pih = q.pih  BY <1>1, <1>2 DEF InvoiceRow
<1> QED  BY <1>3, RowsArePapers DEF Document

LEMMA SubmittingFilesNothing ==
    ASSUME ChainInv, PapersInv, NEW c \in Clients,
           \/ \E inv \in Invoices : Look(c, inv)
           \/ Supersede(c) \/ Abandon(c) \/ CredentialsRefused(c) \/ Store(c) \/ StoreFails(c)
    PROVE  PapersInv' /\ FilesNothing
<1> ZatcaTypeOK  BY DEF ChainInv
<1>1. FilesNothing
  BY DEF FilesNothing, Look, Supersede, Abandon, CredentialsRefused, Store, StoreFails
<1>2. Carried
  <2>1. CASE UNCHANGED rows  BY <1>1, <2>1, RowsArePapers, HeldArePapers DEF Carried, FilesNothing
  <2>2. CASE Supersede(c)  BY <1>1, <2>2, RetiredPapers, HeldArePapers DEF Supersede, Carried, FilesNothing
  <2>3. CASE Store(c) \/ StoreFails(c)
    <3>1. \A b : Document(RowFor(c, b)) = Document(req[c])  BY DEF RowFor, Document
    <3>2. Bearing(c)  BY <2>3 DEF Store, StoreFails, Bearing, Issued
    <3>3. \A b : Document(RowFor(c, b)) \in Papers  BY <3>1, <3>2, RequestsArePapers
    <3>4. \A r \in rows' : r \in rows \/ \E b \in BOOLEAN : r = RowFor(c, b)  BY <2>3 DEF Store, StoreFails
    <3>5. \A r \in rows' : Document(r) \in Papers  BY <3>3, <3>4, RowsArePapers
    <3> QED  BY <1>1, <3>5, HeldArePapers DEF Carried, FilesNothing
  <2> QED  BY <2>1, <2>2, <2>3 DEF Look, Abandon, CredentialsRefused
<1>3. ASSUME Leave(c) PROVE PapersInv'  BY <1>1, <1>2, <1>3, GoneWithout, OneCarries DEF FilesNothing
<1>4. ASSUME NEW inv \in Invoices, Look(c, inv) PROVE PapersInv'
  <2> DEFINE f == [NoRequest EXCEPT !.inv = inv, !.seen = {r.hash : r \in RowsOf(inv)}]
  <2>1. {r.hash : r \in RowsOf(inv)} \subseteq Hashes  BY DEF RowsOf, ZatcaTypeOK, InvoiceRow
  <2>2. f \in ZatcaRequests  BY <2>1 DEF NoRequest, ZatcaRequests, Seed
  <2> HIDE DEF f
  <2>3. Turn(c, "looked", f)  BY <1>4 DEF Look, f
  <2>4. req'[c].at = "looked" /\ \A d \in Clients : d # c => req'[d] = req[d]  BY <2>2, <2>3, Turned DEF Steps
  <2>5. ~Bearing(c)' /\ ~Waiting(c)'  BY <2>4 DEF Bearing, Waiting, Issued, Copies
  <2> QED  BY <1>1, <1>2, <2>4, <2>5, OneCarries DEF FilesNothing
<1>5. ASSUME Turn(c, "queued", req[c]) PROVE PapersInv'
  <2>1. req[c] \in ZatcaRequests  BY DEF ZatcaTypeOK
  <2>2. req'[c].at = "queued" /\ \A d \in Clients : d # c => req'[d] = req[d]  BY <1>5, <2>1, Turned DEF Steps
  <2>3. ~Bearing(c)' /\ ~Waiting(c)'  BY <2>2 DEF Bearing, Waiting, Issued, Copies
  <2> QED  BY <1>1, <1>2, <2>2, <2>3, OneCarries DEF FilesNothing
<1>6. PapersInv'
  <2>1. CASE \E inv \in Invoices : Look(c, inv)  BY <1>4, <2>1
  <2>2. CASE Supersede(c)  BY <1>3, <1>5, <2>2 DEF Supersede
  <2>3. CASE Abandon(c) \/ CredentialsRefused(c) \/ Store(c) \/ StoreFails(c)
    BY <1>3, <2>3 DEF Abandon, CredentialsRefused, Store, StoreFails
  <2> QED  BY <2>1, <2>2, <2>3
<1> QED  BY <1>1, <1>6

LEMMA CopyingFilesNothing ==
    ASSUME ChainInv, PapersInv, NEW c \in Clients,
           (\E r \in rows : Pick(c, r)) \/ Resend(c) \/ ReStore(c)
    PROVE  PapersInv' /\ FilesNothing
<1> ZatcaTypeOK  BY DEF ChainInv
<1>1. FilesNothing  BY DEF FilesNothing, Pick, Resend, ReStore
<1>2. Carried
  <2>1. CASE UNCHANGED rows  BY <1>1, <2>1, RowsArePapers, HeldArePapers DEF Carried, FilesNothing
  <2>2. CASE ReStore(c) /\ rows' = Judged(c)
    <3>1. ASSUME NEW r \in rows' PROVE Document(r) \in Papers
      <4>1. PICK q \in rows : r = IF q.hash = req[c].hash THEN [q EXCEPT !.st = req[c].st] ELSE q
        BY <2>2 DEF Judged
      <4>2. q \in InvoiceRow  BY DEF ZatcaTypeOK
      <4>3. r.hash = q.hash /\ r.inv = q.inv /\ r.icv = q.icv /\ r.pih = q.pih  BY <4>1, <4>2 DEF InvoiceRow
      <4> QED  BY <4>3, RowsArePapers DEF Document
    <3> QED  BY <1>1, <3>1, HeldArePapers DEF Carried, FilesNothing
  <2> QED  BY <2>1, <2>2 DEF Pick, Resend, ReStore
<1>3. ASSUME Leave(c) PROVE PapersInv'  BY <1>1, <1>2, <1>3, GoneWithout, OneCarries DEF FilesNothing
<1>4. ASSUME NEW r \in rows, Pick(c, r) PROVE PapersInv'
  <2> DEFINE f == [NoRequest EXCEPT !.inv = r.inv, !.icv = r.icv, !.pih = r.pih, !.hash = r.hash, !.st = r.st]
  <2>1. r \in InvoiceRow /\ r.icv \in Nat /\ r.pih \in Nat /\ r.hash \in Nat
    BY Types DEF ZatcaTypeOK
  <2>2. /\ f \in ZatcaRequests /\ f.inv = r.inv /\ f.icv = r.icv /\ f.pih = r.pih /\ f.hash = r.hash
    BY <2>1 DEF NoRequest, ZatcaRequests, Seed, InvoiceRow
  <2> HIDE DEF f
  <2>3. Turn(c, "picked", f)  BY <1>4 DEF Pick, f
  <2>4. /\ req'[c].at = "picked" /\ Document(req'[c]) = Document(r)
        /\ \A d \in Clients : d # c => req'[d] = req[d]
    BY <2>2, <2>3, Turned DEF Steps, Document
  <2>5. ~Waiting(c)' /\ Document(req'[c]) \in Papers  BY <2>4, RowsArePapers DEF Waiting
  <2> QED  BY <1>1, <1>2, <2>4, <2>5, OneCarries DEF FilesNothing
<1>5. ASSUME Resend(c), ~Leave(c) PROVE PapersInv'
  <2> DEFINE f == [req[c] EXCEPT !.seen = IF req[c].st = "accepted" THEN {req[c].hash} ELSE {}]
  <2>1. Turn(c, "resent", f) /\ req[c].at = "picked"  BY <1>5 DEF Resend
  <2>2. Bearing(c)  BY <2>1 DEF Bearing, Copies
  <2>3. req[c] \in ZatcaRequests /\ req[c].hash \in Hashes  BY <2>2, Holding DEF ZatcaTypeOK, Bearing
  <2>4. /\ f \in ZatcaRequests /\ f.inv = req[c].inv /\ f.hash = req[c].hash /\ f.icv = req[c].icv
        /\ f.pih = req[c].pih
    BY <2>3 DEF ZatcaRequests
  <2> HIDE DEF f
  <2>5. /\ Document(req'[c]) = Document(req[c]) /\ req'[c].at = "resent"
        /\ \A d \in Clients : d # c => req'[d] = req[d]
    BY <2>1, <2>4, GoesOnWith DEF Steps
  <2>6. ~Waiting(c)' /\ Document(req'[c]) \in Papers  BY <2>2, <2>5, RequestsArePapers DEF Waiting
  <2> QED  BY <1>1, <1>2, <2>5, <2>6, OneCarries DEF FilesNothing
<1>6. PapersInv'
  <2>1. CASE \E r \in rows : Pick(c, r)  BY <1>4, <2>1
  <2>2. CASE Resend(c) /\ ~Leave(c)  BY <1>5, <2>2
  <2>3. CASE Leave(c)  BY <1>3, <2>3
  <2> QED  BY <2>1, <2>2, <2>3 DEF ReStore
<1> QED  BY <1>1, <1>6

\* One document, of a request, may be filed.
FilesOwn(c) == head' = head /\ signed' = signed /\ held' \in {held, Hold(c)}

\* A counter moves to a document on file, or stays.
MovesOn ==
    /\ held' = held /\ signed' = signed
    /\ \/ head' = head
       \/ \E d \in held : d.icv > head.icv /\ head' = [icv |-> d.icv, pih |-> d.hash]

LEMMA AnsweringFilesOwn ==
    ASSUME ChainInv, PapersInv, NEW c \in Clients, Answer(c) \/ ReAnswer(c)
    PROVE  PapersInv' /\ FilesOwn(c) /\ Bearing(c)
<1> ZatcaTypeOK  BY DEF ChainInv
<1>1. Bearing(c)  BY DEF Bearing, Answer, ReAnswer, Issued, Copies
<1>2. FilesOwn(c) /\ rows' = rows
  <2>1. CASE Answer(c)
    <3>1. PICK st \in Verdicts :
            held' \in (CASE st = "accepted" -> {Hold(c)} [] st = "rejected" -> {held} [] st = "error" -> {held, Hold(c)})
      BY <2>1 DEF Answer
    <3>2. held' \in {held, Hold(c)}  BY <3>1 DEF Verdicts
    <3> QED  BY <2>1, <3>2 DEF Answer, FilesOwn
  <2>2. CASE ReAnswer(c)  BY <2>2 DEF ReAnswer, FilesOwn
  <2> QED  BY <2>1, <2>2
<1>3. Carried
  <2>1. Document(req[c]) \in Papers  BY <1>1, RequestsArePapers
  <2> QED  BY <1>2, <2>1, RowsArePapers, HeldArePapers DEF FilesOwn, Hold, Carried
<1>4. ASSUME NEW st \in Verdicts, NEW step \in {"answered", "reanswered"}, Turn(c, step, [req[c] EXCEPT !.st = st]),
             step = "answered" => req[c].at = "sent"
      PROVE  PapersInv'
  <2> DEFINE f == [req[c] EXCEPT !.st = st]
  <2>1. /\ f \in ZatcaRequests /\ f.inv = req[c].inv /\ f.hash = req[c].hash /\ f.icv = req[c].icv
        /\ f.pih = req[c].pih
    BY DEF ZatcaTypeOK, ZatcaRequests
  <2>2. Turn(c, step, f)  BY <1>4
  <2> HIDE DEF f
  <2>3. /\ Document(req'[c]) = Document(req[c]) /\ req'[c].at = step /\ req'[c].icv = req[c].icv
        /\ \A d \in Clients : d # c => req'[d] = req[d]
    BY <2>1, <2>2, GoesOnWith DEF Steps
  <2>4. Document(req'[c]) \in Papers  BY <1>1, <2>3, RequestsArePapers
  <2>5. Waiting(c)' => req'[c].icv = head'.icv + 1
    <3>1. Waiting(c)' => Waiting(c)  BY <1>4, <2>3 DEF Waiting
    <3> QED  BY <1>2, <2>3, <3>1 DEF FilesOwn, PapersInv
  <2> QED  BY <1>2, <1>3, <2>3, <2>4, <2>5, OneCarries DEF FilesOwn
<1>5. ASSUME Leave(c) PROVE PapersInv'  BY <1>2, <1>3, <1>5, GoneWithout, OneCarries DEF FilesOwn
<1>6. PapersInv'
  <2>1. CASE Answer(c)  BY <1>4, <2>1 DEF Answer
  <2>2. CASE ReAnswer(c)  BY <1>4, <1>5, <2>2 DEF ReAnswer
  <2> QED  BY <2>1, <2>2
<1> QED  BY <1>1, <1>2, <1>6

LEMMA AdvancingMovesOn ==
    ASSUME ChainInv, PapersInv, NEW c \in Clients, Advance(c) \/ ReAdvance(c)
    PROVE  PapersInv' /\ MovesOn
<1> ZatcaTypeOK  BY DEF ChainInv
<1> DEFINE step == IF req[c].at = "answered" THEN "committed" ELSE "recommitted"
<1>1. /\ req[c].at \in {"answered", "reanswered"} /\ UNCHANGED <<rows, signed, held>> /\ Turn(c, step, req[c])
      /\ \/ head' = head
         \/ /\ req[c].st = "accepted" /\ head' = [icv |-> req[c].icv, pih |-> req[c].hash]
            /\ req[c].at = "answered" \/ head.icv + 1 = req[c].icv
  BY DEF Advance, ReAdvance
<1>2. Bearing(c) /\ req[c].at \in UnderLock  BY <1>1 DEF Bearing, Issued, Copies, UnderLock
<1>3. MovesOn
  <2>1. CASE head' = head  BY <1>1, <2>1 DEF MovesOn
  <2>2. CASE head' # head
    <3>1. req[c].st = "accepted" /\ head' = [icv |-> req[c].icv, pih |-> req[c].hash]  BY <1>1, <2>2
    <3>2. req[c].icv = head.icv + 1  BY <1>1, <2>2 DEF PapersInv, Waiting
    <3>3. IsHeld(req[c].hash, req[c].icv)
      BY <1>1, <3>1 DEF ChainInv, ReqsFit, ReqFits, Judging
    <3>4. PICK d \in held : d.hash = req[c].hash /\ d.icv = req[c].icv  BY <3>3 DEF IsHeld
    <3>5. head.icv \in Nat  BY Types
    <3>6. d.icv > head.icv /\ head' = [icv |-> d.icv, pih |-> d.hash]  BY <3>1, <3>2, <3>4, <3>5
    <3> QED  BY <1>1, <3>6 DEF MovesOn
  <2> QED  BY <2>1, <2>2
<1>4. Carried  BY <1>1, RowsArePapers, HeldArePapers DEF Carried
<1>5. req[c] \in ZatcaRequests  BY DEF ZatcaTypeOK
<1>6. /\ Document(req'[c]) = Document(req[c]) /\ req'[c].at = step
      /\ \A d \in Clients : d # c => req'[d] = req[d]
  <2>1. step \in Steps  BY DEF Steps
  <2> HIDE DEF step
  <2> QED  BY <1>1, <1>5, <2>1, GoesOnWith
<1>7. ~Waiting(c)' /\ Document(req'[c]) \in Papers
  <2>1. step \notin {"sent", "answered"}  OBVIOUS
  <2> HIDE DEF step
  <2> QED  BY <1>2, <1>6, <2>1, RequestsArePapers DEF Waiting
<1>8. PapersInv'  BY <1>2, <1>4, <1>6, <1>7, OneCarries
<1> QED  BY <1>3, <1>8

\* What is signed follows the head it is signed at, and its hash is new.
LEMMA SigningMovesOn ==
    ASSUME ChainInv, PapersInv, NEW c \in Clients, Sign(c)
    PROVE  PapersInv' /\ held' = held /\ (head' = head \/ \E d \in held : d.icv > head.icv /\ head' = [icv |-> d.icv, pih |-> d.hash])
<1> ZatcaTypeOK  BY DEF ChainInv
<1>1. req[c].at = "queued" /\ ChainFree /\ UNCHANGED <<rows, link, held, lost>>  BY DEF Sign
<1>2. CASE Leave(c) /\ UNCHANGED <<head, signed>>
  <2>1. Carried  BY <1>1, <1>2, RowsArePapers, HeldArePapers DEF Carried
  <2> QED  BY <1>1, <1>2, <2>1, GoneWithout, OneCarries
<1>3. CASE /\ signed < MaxSigned /\ head' \in ChainHeads /\ signed' = signed + 1
           /\ Turn(c, "sent", [req[c] EXCEPT !.icv = head'.icv + 1, !.pih = head'.pih, !.hash = signed'])
  <2>1. /\ head' \in [icv : Nat, pih : Nat] /\ head'.icv \in Nat /\ head'.pih \in Nat /\ head'.icv <= signed
        /\ head' = ZeroHead \/ IsHeld(head'.pih, head'.icv)
    BY <1>3, HeadFacts
  <2>2. signed \in Nat /\ signed' \in Nat /\ signed < signed'  BY <1>3, Types
  <2>3. req[c] \in ZatcaRequests /\ head'.icv + 1 \in Nat  BY <2>1 DEF ZatcaTypeOK
  <2> DEFINE f1 == [req[c] EXCEPT !.icv = head'.icv + 1]
             f2 == [f1 EXCEPT !.pih = head'.pih]
             f == [f2 EXCEPT !.hash = signed']
  <2>4. f \in ZatcaRequests /\ f.inv = req[c].inv /\ f.icv = head'.icv + 1 /\ f.pih = head'.pih /\ f.hash = signed'
    <3>1. f1 \in ZatcaRequests /\ f1.inv = req[c].inv /\ f1.icv = head'.icv + 1  BY <2>3 DEF ZatcaRequests
    <3> HIDE DEF f1
    <3>2. f2 \in ZatcaRequests /\ f2.inv = req[c].inv /\ f2.icv = head'.icv + 1 /\ f2.pih = head'.pih
      BY <2>1, <3>1 DEF ZatcaRequests
    <3> HIDE DEF f2
    <3> QED  BY <2>2, <3>2 DEF ZatcaRequests
  <2>5. Turn(c, "sent", f)  BY <1>3
  <2> HIDE DEF f
  <2>6. /\ req'[c].at = "sent" /\ req'[c].icv = head'.icv + 1 /\ req'[c].pih = head'.pih /\ req'[c].hash = signed'
        /\ \A d \in Clients : d # c => req'[d] = req[d] /\ req[d].at \notin UnderLock
    BY <1>1, <2>4, <2>5, Turned DEF Steps, ChainFree
  <2> DEFINE new == Document(req'[c])
  <2>7. new.hash = signed' /\ new.icv = head'.icv + 1 /\ new.pih = head'.pih  BY <2>6 DEF Document
  <2> HIDE DEF new
  <2>8. ASSUME NEW d \in Papers' PROVE d \in Papers \/ d = new
    <3>1. CASE d \in held'  BY <1>1, <3>1, HeldArePapers
    <3>2. CASE \E r \in rows' : d = Document(r)  BY <1>1, <3>2, RowsArePapers
    <3>3. CASE \E e \in Clients : Bearing(e)' /\ d = Document(req'[e])
      <4>1. PICK e \in Clients : Bearing(e)' /\ d = Document(req'[e])  BY <3>3
      <4>2. CASE e = c  BY <4>1, <4>2 DEF new
      <4>3. CASE e # c
        <5>1. Bearing(e) /\ d = Document(req[e])  BY <2>6, <4>1, <4>3 DEF Bearing
        <5> QED  BY <5>1, RequestsArePapers
      <4> QED  BY <4>2, <4>3
    <3> QED  BY <2>8, <3>1, <3>2, <3>3, Zenon DEF Papers
  <2>9. \A d \in Papers : d.hash \in Nat /\ d.icv \in Nat /\ d.hash < signed' /\ d.icv < signed'
    <3> SUFFICES ASSUME NEW d \in Papers PROVE d.hash \in Nat /\ d.icv \in Nat /\ d.hash < signed' /\ d.icv < signed'
      OBVIOUS
    <3>1. d \in [hash : Hashes, inv : Invoices, icv : Hashes, pih : 0..MaxSigned]  BY PaperTypes
    <3>2. d.hash \in Nat /\ d.icv \in Nat  BY <3>1 DEF Hashes
    <3>3. d.hash <= signed /\ d.icv <= signed  BY DEF PapersInv
    <3> QED  BY <2>2, <3>2, <3>3
  <2>10. \A d, e \in Papers' : d.hash = e.hash => d = e
    <3> SUFFICES ASSUME NEW d \in Papers', NEW e \in Papers', d.hash = e.hash PROVE d = e  OBVIOUS
    <3>1. \A x \in Papers : x.hash # new.hash  BY <2>2, <2>7, <2>9
    <3> QED  BY <2>8, <3>1 DEF PapersInv
  <2>11. ASSUME NEW d \in Papers' PROVE Linked(d)' /\ d.hash <= signed' /\ d.icv <= signed'
    <3>1. CASE d \in Papers
      <4>1. Linked(d)  BY <3>1 DEF PapersInv
      <4>2. Linked(d)'  BY <1>1, <4>1 DEF Linked
      <4> QED  BY <2>2, <2>9, <3>1, <4>2
    <3>2. CASE d = new
      <4>1. d.hash <= signed' /\ d.icv <= signed'  BY <1>3, <2>1, <2>2, <2>7, <3>2
      <4>2. Linked(d)'
        <5>1. CASE head' = ZeroHead
          <6>1. d.pih = Seed /\ d.icv = 1  BY <2>7, <3>2, <5>1 DEF ZeroHead, Seed
          <6> QED  BY <6>1 DEF Linked
        <5>2. CASE IsHeld(head'.pih, head'.icv)
          <6>1. PICK e \in held : e.hash = head'.pih /\ e.icv = head'.icv  BY <5>2 DEF IsHeld
          <6> QED  BY <1>1, <2>7, <3>2, <6>1 DEF Linked
        <5> QED  BY <2>1, <5>1, <5>2
      <4> QED  BY <4>1, <4>2
    <3> QED  BY <2>8, <3>1, <3>2
  <2>12. ASSUME NEW d \in Clients, Waiting(d)' PROVE req'[d].icv = head'.icv + 1
    <3>1. CASE d = c  BY <2>6, <3>1
    <3>2. CASE d # c  BY <2>6, <2>12, <3>2 DEF Waiting, UnderLock
    <3> QED  BY <3>1, <3>2
  <2>13. PapersInv'  BY <2>10, <2>11, <2>12 DEF PapersInv
  <2>14. head' = head \/ \E d \in held : d.icv > head.icv /\ head' = [icv |-> d.icv, pih |-> d.hash]
    <3>1. CASE \E r \in Accepted : r.icv > head.icv
      <4>1. PICK r \in LastAccepted : head' = [icv |-> r.icv, pih |-> r.hash]  BY <1>3, <3>1 DEF ChainHeads
      <4>2. r \in rows /\ r.st = "accepted" /\ \A q \in Accepted : q.icv <= r.icv  BY DEF LastAccepted, Accepted
      <4>3. PICK d \in held : d.hash = r.hash /\ d.icv = r.icv  BY <4>2 DEF ChainInv, RowsFit, IsHeld
      <4>4. head.icv \in Nat /\ r.icv \in Nat /\ \A q \in Accepted : q.icv \in Nat  BY <4>2, Types
      <4>5. d.icv > head.icv  BY <3>1, <4>2, <4>3, <4>4
      <4> QED  BY <4>1, <4>3, <4>5
    <3>2. CASE ~\E r \in Accepted : r.icv > head.icv  BY <1>3, <3>2 DEF ChainHeads
    <3> QED  BY <3>1, <3>2
  <2> QED  BY <1>1, <2>13, <2>14
<1> QED  BY <1>2, <1>3 DEF Sign

LEMMA StartingOver ==
    ASSUME ChainInv, PapersInv,
           (\E r \in rows : DeleteInvoice(r)) \/ ResetChain \/ Unlink \/ Relink \/ FreshCredentials
    PROVE  PapersInv' /\ held' = held /\ head' \in {head, ZeroHead}
<1> ZatcaTypeOK  BY DEF ChainInv
<1>1. held' = held /\ head' \in {head, ZeroHead} /\ signed' = signed /\ req' = req
  BY DEF DeleteInvoice, ResetChain, Unlink, Relink, FreshCredentials
<1>2. head' = head \/ ChainFree
  BY DEF DeleteInvoice, ResetChain, Unlink, Relink, FreshCredentials
<1>3. rows' = rows \/ \E hs : rows' = Retire(hs)
  BY DEF DeleteInvoice, ResetChain, Unlink, Relink, FreshCredentials
<1>4. Carried  BY <1>1, <1>3, RowsArePapers, RetiredPapers, HeldArePapers DEF Carried
<1>5. \A c \in Clients : Bearing(c)' => Document(req'[c]) \in Papers  BY <1>1, RequestsArePapers DEF Bearing
<1>6. \A c \in Clients : Waiting(c)' => req'[c].icv = head'.icv + 1
  BY <1>1, <1>2 DEF Waiting, ChainFree, UnderLock, PapersInv
<1> QED  BY <1>1, <1>4, <1>5, <1>6, PapersKept

LEMMA PapersInit == ZatcaInit => PapersInv
<1> SUFFICES ASSUME ZatcaInit PROVE PapersInv  OBVIOUS
<1>1. \A c \in Clients : req[c].at = "idle"  BY DEF ZatcaInit, NoRequest
<1>2. \A c \in Clients : ~Bearing(c) /\ ~Waiting(c)  BY <1>1 DEF Bearing, Waiting, Issued, Copies
<1>3. Papers = {}  BY <1>2 DEF Papers, ZatcaInit
<1> QED  BY <1>2, <1>3 DEF PapersInv

\* A step files one document after another that is on file, moves the counter on to
\* one, starts it over, or does not concern the chain.
LEMMA ChainSteps ==
    ASSUME ChainInv, PapersInv, ZatcaNext
    PROVE  /\ PapersInv'
           /\ \/ held' = held /\ (head' = head \/ head' = ZeroHead)
              \/ held' = held /\ \E d \in held : d.icv > head.icv /\ head' = [icv |-> d.icv, pih |-> d.hash]
              \/ head' = head /\ \E c \in Clients : Bearing(c) /\ held' = Hold(c)
<1>1. ASSUME NEW c \in Clients,
             \/ \E inv \in Invoices : Look(c, inv)
             \/ Supersede(c) \/ Abandon(c) \/ CredentialsRefused(c) \/ Store(c) \/ StoreFails(c)
      PROVE  PapersInv' /\ held' = held /\ head' = head
  BY <1>1, SubmittingFilesNothing DEF FilesNothing
<1>2. ASSUME NEW c \in Clients, (\E r \in rows : Pick(c, r)) \/ Resend(c) \/ ReStore(c)
      PROVE  PapersInv' /\ held' = held /\ head' = head
  BY <1>2, CopyingFilesNothing DEF FilesNothing
<1>3. ASSUME NEW c \in Clients, Answer(c) \/ ReAnswer(c)
      PROVE  PapersInv' /\ head' = head /\ (held' = held \/ (Bearing(c) /\ held' = Hold(c)))
  <2>1. PapersInv' /\ FilesOwn(c) /\ Bearing(c)  BY <1>3, AnsweringFilesOwn
  <2>2. head' = head /\ (held' = held \/ held' = Hold(c))
    <3> DEFINE h == Hold(c)
    <3>1. head' = head /\ held' \in {held, h}  BY <2>1 DEF FilesOwn
    <3> HIDE DEF h
    <3>2. head' = head /\ (held' = held \/ held' = h)  BY <3>1
    <3> QED  BY <3>2 DEF h
  <2> QED  BY <2>1, <2>2, Zenon
<1>4. ASSUME NEW c \in Clients, Advance(c) \/ ReAdvance(c)
      PROVE  PapersInv' /\ held' = held /\ (head' = head \/ \E d \in held : d.icv > head.icv /\ head' = [icv |-> d.icv, pih |-> d.hash])
  BY <1>4, AdvancingMovesOn DEF MovesOn
<1>5. ASSUME NEW c \in Clients, Sign(c)
      PROVE  PapersInv' /\ held' = held /\ (head' = head \/ \E d \in held : d.icv > head.icv /\ head' = [icv |-> d.icv, pih |-> d.hash])
  BY <1>5, SigningMovesOn
<1>6. CASE (\E r \in rows : DeleteInvoice(r)) \/ ResetChain \/ Unlink \/ Relink \/ FreshCredentials
  BY <1>6, StartingOver
<1> QED  BY <1>1, <1>2, <1>3, <1>4, <1>5, <1>6, Zenon DEF ZatcaNext

LEMMA FilingsFollow ==
    ASSUME ChainInv, PapersInv, NEW c \in Clients, Bearing(c), held' = Hold(c), head' = head
    PROVE  [SellerChain!Next]_<<held, head>>
<1> DEFINE d == Document(req[c])
<1>1. d \in Papers  BY RequestsArePapers
<1>2. held' = held \cup {d}  BY DEF Hold
<1> HIDE DEF d
<1>3. d \in [hash : Hashes, inv : Invoices, icv : Hashes, pih : 0..MaxSigned]  BY <1>1, PaperTypes
<1>4. CASE \E e \in held : e.hash = d.hash
  <2>1. PICK e \in held : e.hash = d.hash  BY <1>4
  <2>2. e = d  BY <1>1, <2>1, HeldArePapers DEF PapersInv
  <2> QED  BY <1>2, <2>1, <2>2
<1>5. CASE \A e \in held : e.hash # d.hash
  <2>1. Linked(d)  BY <1>1 DEF PapersInv
  <2>2. SellerChain!Follows(d)  BY <2>1 DEF SellerChain!Follows, Linked
  <2>3. SellerChain!File(d)  BY <1>2, <1>3, <1>5, <2>2 DEF SellerChain!File
  <2>4. d \in held' \ held  BY <1>2, <1>5
  <2> QED  BY <2>3, <2>4 DEF SellerChain!Next
<1> QED  BY <1>4, <1>5

\* The documents at ZATCA and the seller's counter implement EInvoiceChain: a document
\* is filed once, under the counter after that of a document on file whose hash it
\* carries, whether it is issued now or sent again, and the counter stands at one.
THEOREM FilesOneChain == ZatcaSpec => IsOneChain
<1>1. ZatcaInit => SellerChain!Init  BY DEF ZatcaInit, SellerChain!Init, SellerChain!Start, ZeroHead
<1>2. ChainInv /\ PapersInv /\ [ZatcaNext]_zatcaVars => PapersInv' /\ [SellerChain!Next]_<<held, head>>
  <2> SUFFICES ASSUME ChainInv, PapersInv, [ZatcaNext]_zatcaVars PROVE PapersInv' /\ [SellerChain!Next]_<<held, head>>
    OBVIOUS
  <2>1. CASE UNCHANGED zatcaVars
    <3>1. UNCHANGED <<held, head, rows, req, signed>>  BY <2>1 DEF zatcaVars
    <3>2. PapersInv'
      <4>1. Carried  BY <3>1, RowsArePapers, HeldArePapers DEF Carried
      <4>2. \A c \in Clients : Bearing(c)' => Document(req'[c]) \in Papers  BY <3>1, RequestsArePapers DEF Bearing
      <4>3. \A c \in Clients : Waiting(c)' => req'[c].icv = head'.icv + 1  BY <3>1 DEF Waiting, PapersInv
      <4> QED  BY <4>1, <4>2, <4>3, PapersKept
    <3> QED  BY <3>1, <3>2
  <2>2. CASE ZatcaNext
    <3> DEFINE onto(d) == d.icv > head.icv /\ head' = [icv |-> d.icv, pih |-> d.hash]
    <3>1. CASE held' = held /\ (head' = head \/ head' = ZeroHead)
      <4>1. SellerChain!Start = ZeroHead  BY DEF SellerChain!Start, ZeroHead
      <4>2. [SellerChain!Next]_<<held, head>>  BY <3>1, <4>1 DEF SellerChain!Next, SellerChain!StartOver
      <4> QED  BY <2>2, <4>2, ChainSteps
    <3>2. CASE held' = held /\ \E d \in held : onto(d)
      <4>1. PICK d \in held : onto(d)  BY <3>2
      <4>2. SellerChain!MoveOn(d)  BY <3>2, <4>1 DEF SellerChain!MoveOn
      <4>3. SellerChain!Next  BY <4>2 DEF SellerChain!Next
      <4> QED  BY <2>2, <4>3, ChainSteps
    <3>3. CASE head' = head /\ \E c \in Clients : Bearing(c) /\ held' = Hold(c)
      <4>1. PICK c \in Clients : Bearing(c) /\ held' = Hold(c)  BY <3>3
      <4>2. [SellerChain!Next]_<<held, head>>  BY <3>3, <4>1, FilingsFollow
      <4> QED  BY <2>2, <4>2, ChainSteps
    <3> QED  BY <2>2, <3>1, <3>2, <3>3, ChainSteps, Zenon
  <2> QED  BY <2>1, <2>2
<1>3. ZatcaSpec => [](ChainInv /\ PapersInv)
  <2>1. ZatcaInit => PapersInv  BY PapersInit
  <2>2. ChainInv /\ PapersInv /\ [ZatcaNext]_zatcaVars => PapersInv'  BY <1>2
  <2> QED  BY <2>1, <2>2, ChainInit, ChainStep, PTL DEF ZatcaSpec
<1>4. ZatcaSpec => SellerChain!Init /\ [][SellerChain!Next]_<<held, head>>
  BY <1>1, <1>2, <1>3, PTL DEF ZatcaSpec
<1> QED  BY <1>4 DEF IsOneChain, SellerChain!Spec, SellerChain!chainVars

-----------------------------------------------------------------------------
(* Ejar: the inductive invariant.                                           *)

\* A lookup that is past the first call is of a contract Ejar knows; it has answers
\* to withhold only if the contract is another's, and then was never verified.
LookFits(l) ==
    /\ l.at # "idle" => l.acct \in Accounts /\ l.num \in Numbers
    /\ l.at \in {"contracts", "fallback", "details", "verify"} => l.num \in Contracts
    /\ l.at \in {"idle", "queued", "invoices"} => l.logs = {}
    /\ l.logs # {} => ~Mine(l.acct, l.num)
    /\ l.ok => Mine(l.acct, l.num)

LooksFit == \A p \in Servers : LookFits(look[p])

EjarInv == EjarTypeOK /\ LooksFit /\ OthersContractsAreWithheld

Looks == [at : {"idle", "queued", "fallback", "verify", "leaving"} \cup Endpoints, acct : Accounts \cup {"none"},
          num : Numbers \cup {"none"}, logs : SUBSET Nat, ok : BOOLEAN]

Ats == {"idle", "queued", "fallback", "verify", "leaving"} \cup Endpoints

-----------------------------------------------------------------------------
(* Ejar: lookups.                                                           *)

LEMMA Proceeded ==
    ASSUME EjarTypeOK, NEW p \in Servers, NEW step \in Ats, NEW l \in Looks, Proceed(p, step, l)
    PROVE  /\ look' \in [Servers -> Looks]
           /\ look'[p].at = step /\ look'[p].acct = l.acct /\ look'[p].num = l.num
           /\ look'[p].logs = l.logs /\ look'[p].ok = l.ok
           /\ \A q \in Servers : q # p => look'[q] = look[q]
<1> DEFINE g == [l EXCEPT !.at = step]
<1>1. g \in Looks /\ g.at = step /\ g.acct = l.acct /\ g.num = l.num /\ g.logs = l.logs /\ g.ok = l.ok
  BY DEF Looks, Ats
<1>2. look' = [look EXCEPT ![p] = g]  BY DEF Proceed
<1>3. look \in [Servers -> Looks]  BY DEF EjarTypeOK, Looks
<1> QED  BY <1>1, <1>2, <1>3

LEMMA NoLookIsOne == NoLook \in Looks /\ LookFits(NoLook) /\ NoLook.logs = {}
  BY DEF NoLook, Looks, LookFits

LEMMA GivenUp ==
    ASSUME EjarTypeOK, NEW p \in Servers, GiveUp(p)
    PROVE  look' \in [Servers -> Looks] /\ look'[p] = NoLook /\ \A q \in Servers : q # p => look'[q] = look[q]
<1>1. look \in [Servers -> Looks]  BY DEF EjarTypeOK, Looks
<1> QED  BY <1>1, NoLookIsOne DEF GiveUp

LEMMA LookTypes ==
    ASSUME EjarInv, NEW p \in Servers
    PROVE  look[p] \in Looks /\ LookFits(look[p]) /\ look[p].logs \in SUBSET Nat
  BY DEF EjarInv, EjarTypeOK, LooksFit, Looks

\* A fresh id is a number.
LEMMA FreshIsNat == ASSUME EjarTypeOK, NEW id \in FreshIds PROVE id \in Nat
<1> DEFINE used == {0} \cup {b.id : b \in bodies} \cup orphans \cup UNION {look[q].logs : q \in Servers}
<1>1. PICK u \in used : id = u + 1  BY DEF FreshIds
<1>2. \A b \in bodies : b.id \in Nat  BY DEF EjarTypeOK
<1>3. \A q \in Servers : look[q].logs \in SUBSET Nat  BY DEF EjarTypeOK
<1>4. u \in Nat
  <2>1. CASE u \in UNION {look[q].logs : q \in Servers}
    <3>1. PICK q \in Servers : u \in look[q].logs  BY <2>1
    <3> QED  BY <1>3, <3>1
  <2>2. CASE u \in {b.id : b \in bodies}  BY <1>2, <2>2
  <2>3. CASE u \in {0} \cup orphans  BY <2>3 DEF EjarTypeOK
  <2> QED  BY <2>1, <2>2, <2>3
<1> QED  BY <1>1, <1>4

\* One lookup goes on or ends; it still answers for what it has stored, or has
\* stored nothing that is left.
LEMMA Moved ==
    ASSUME EjarInv, EjarTypeOK', NEW p \in Servers, \A q \in Servers : q # p => look'[q] = look[q],
           LookFits(look'[p]), orphans \subseteq orphans',
           \A b \in bodies' : \/ b \in bodies /\ (b.id \in look[p].logs => b.id \in look'[p].logs \cup orphans')
                              \/ b.id \in look'[p].logs
    PROVE  EjarInv'
<1>1. LooksFit'
  <2> SUFFICES ASSUME NEW q \in Servers PROVE LookFits(look'[q])  BY DEF LooksFit, LookFits, Mine
  <2> QED  BY DEF EjarInv, LooksFit
<1>2. OthersContractsAreWithheld'
  <2> SUFFICES ASSUME NEW b \in bodies', b.id \notin orphans' PROVE \E q \in Servers : b.id \in look'[q].logs
    BY DEF OthersContractsAreWithheld
  <2>1. CASE b.id \in look'[p].logs  BY <2>1
  <2>2. CASE b \in bodies /\ b.id \notin look'[p].logs
    <3>1. b.id \notin look[p].logs  BY <2>2
    <3>2. PICK q \in Servers : b.id \in look[q].logs  BY <2>2 DEF EjarInv, OthersContractsAreWithheld
    <3> QED  BY <3>1, <3>2
  <2> QED  BY <2>1, <2>2
<1> QED  BY <1>1, <1>2 DEF EjarInv

\* The lookup goes on with what it has stored, its number and its account.
LEMMA Goes ==
    ASSUME EjarInv, NEW p \in Servers, NEW step \in Ats \ {"idle"}, Proceed(p, step, look[p]), look[p].at # "idle",
           step \in {"contracts", "fallback", "details", "verify"} => look[p].num \in Contracts,
           step \in {"queued", "invoices"} => look[p].at = "queued",
           UNCHANGED <<calls, wrong, bodies, orphans>>, locked' \subseteq Servers, doubled' \in BOOLEAN
    PROVE  EjarInv'
<1> EjarTypeOK  BY DEF EjarInv
<1>1. /\ look' \in [Servers -> Looks] /\ look'[p].at = step /\ look'[p].acct = look[p].acct
      /\ look'[p].num = look[p].num /\ look'[p].logs = look[p].logs /\ look'[p].ok = look[p].ok
      /\ \A q \in Servers : q # p => look'[q] = look[q]
  BY LookTypes, Proceeded
<1>2. EjarTypeOK'  BY <1>1 DEF EjarTypeOK, Looks
<1>3. LookFits(look'[p])  BY <1>1, LookTypes DEF LookFits
<1> QED  BY <1>1, <1>2, <1>3, Moved

\* The lookup ends without having stored anything, or leaves what it stored behind.
LEMMA Ends ==
    ASSUME EjarInv, NEW p \in Servers, GiveUp(p), UNCHANGED <<calls, wrong, bodies, doubled>>, locked' \subseteq Servers,
           orphans' = orphans \cup look[p].logs
    PROVE  EjarInv'
<1> EjarTypeOK  BY DEF EjarInv
<1>1. look' \in [Servers -> Looks] /\ look'[p] = NoLook /\ \A q \in Servers : q # p => look'[q] = look[q]
  BY GivenUp
<1>2. EjarTypeOK'  BY <1>1, LookTypes DEF EjarTypeOK, Looks
<1> QED  BY <1>1, <1>2, NoLookIsOne, Moved

-----------------------------------------------------------------------------
(* Ejar: the steps.                                                         *)

LEMMA InquireKeeps ==
    ASSUME EjarInv, NEW p \in Servers, NEW a \in Accounts, NEW n \in Numbers, Inquire(p, a, n) PROVE EjarInv'
<1> EjarTypeOK  BY DEF EjarInv
<1> DEFINE f1 == [NoLook EXCEPT !.acct = a]
           f == [f1 EXCEPT !.num = n]
<1>1. UNCHANGED <<calls, wrong, bodies, locked, doubled, orphans>> /\ Proceed(p, "queued", f)
  BY DEF Inquire
<1>2. f \in Looks /\ f.acct = a /\ f.num = n /\ f.logs = {} /\ f.ok = FALSE
  <2>1. f1 \in Looks /\ f1.acct = a /\ f1.logs = {} /\ f1.ok = FALSE  BY NoLookIsOne DEF Looks, NoLook
  <2> HIDE DEF f1
  <2> QED  BY <2>1 DEF Looks
<1> HIDE DEF f
<1>3. /\ look' \in [Servers -> Looks] /\ look'[p].at = "queued" /\ look'[p].acct = a /\ look'[p].num = n
      /\ look'[p].logs = {} /\ look'[p].ok = FALSE /\ \A q \in Servers : q # p => look'[q] = look[q]
  BY <1>1, <1>2, Proceeded DEF Ats
<1>4. EjarTypeOK'  BY <1>1, <1>3 DEF EjarTypeOK, Looks
<1>5. LookFits(look'[p])  BY <1>3 DEF LookFits
<1>6. look[p].logs = {}
  <2>1. look[p].at = "idle"  BY DEF Inquire, InStep
  <2> QED  BY <2>1, LookTypes DEF LookFits
<1> QED  BY <1>1, <1>3, <1>4, <1>5, <1>6, Moved

LEMMA QueueKeeps == ASSUME EjarInv, NEW p \in Servers, Busy(p) \/ Enter(p) PROVE EjarInv'
<1>1. look[p].at = "queued" /\ UNCHANGED <<calls, wrong, bodies, orphans>>  BY DEF Busy, Enter, InStep
<1>2. look[p].logs = {}  BY <1>1, LookTypes DEF LookFits
<1>3. CASE GiveUp(p) /\ UNCHANGED <<locked, doubled>>
  <2>1. locked' \subseteq Servers  BY <1>3 DEF EjarInv, EjarTypeOK
  <2> QED  BY <1>1, <1>2, <1>3, <2>1, Ends
<1>4. CASE /\ Proceed(p, "invoices", look[p]) /\ locked' = {p}
           /\ doubled' = (doubled \/ \E q \in Servers : AtWork(q))
  <2>1. "invoices" \in Ats \ {"idle"} /\ doubled' \in BOOLEAN  BY <1>4 DEF Ats, Endpoints
  <2> QED  BY <1>1, <1>4, <2>1, Goes
<1> QED  BY <1>3, <1>4 DEF Busy, Enter

LEMMA LoseSessionKeeps == ASSUME EjarInv, NEW p \in Servers, LoseSession(p) PROVE EjarInv'
  BY DEF LoseSession, EjarInv, EjarTypeOK, LooksFit, LookFits, Mine, OthersContractsAreWithheld

\* The lookup is over but for what it has to withhold.
LEMMA ReleaseKeeps ==
    ASSUME EjarInv, NEW p \in Servers, look[p].at # "idle", Release(p, look[p]),
           UNCHANGED <<calls, wrong, bodies, doubled, orphans>>
    PROVE  EjarInv'
<1>1. /\ Proceed(p, "leaving", look[p]) /\ locked' \subseteq Servers /\ "leaving" \in Ats \ {"idle"}
      /\ doubled' \in BOOLEAN
  BY DEF Release, Ats, EjarInv, EjarTypeOK
<1> QED  BY <1>1, Goes

LEMMA CallFailsKeeps == ASSUME EjarInv, NEW p \in Servers, CallFails(p) PROVE EjarInv'
<1>1. look[p].at # "idle"  BY DEF CallFails, Endpoints
<1> QED  BY <1>1, ReleaseKeeps DEF CallFails

\* A call's answer is stored, and the lookup knows of it if it has to be withheld.
LEMMA CallKeeps ==
    ASSUME EjarInv, NEW p \in Servers, NEW e \in Endpoints, NEW logged \in BOOLEAN, NEW id \in FreshIds,
           NEW step \in {"contracts", "details", "fallback", "verify", "leaving"},
           look[p].at \in Endpoints, look[p].num \in Contracts, Deduct(p, e, logged, id), Proceed(p, step, Kept(p, logged, id)),
           UNCHANGED <<wrong, doubled, orphans>>, locked' \subseteq Servers
    PROVE  EjarInv'
<1> EjarTypeOK  BY DEF EjarInv
<1>1. look[p] \in Looks /\ LookFits(look[p]) /\ look[p].acct \in Accounts /\ id \in Nat
  BY LookTypes, FreshIsNat DEF LookFits, Endpoints
<1> DEFINE l == Kept(p, logged, id)
<1>2. /\ l \in Looks /\ l.acct = look[p].acct /\ l.num = look[p].num /\ l.ok = look[p].ok
      /\ l.logs = look[p].logs \cup (IF Exposes(p, logged) THEN {id} ELSE {})
  <2>1. CASE Exposes(p, logged)
    <3>1. l = [look[p] EXCEPT !.logs = look[p].logs \cup {id}]  BY <2>1 DEF Kept
    <3>2. look[p].logs \cup {id} \in SUBSET Nat  BY <1>1 DEF Looks
    <3> QED  BY <1>1, <2>1, <3>1, <3>2 DEF Looks
  <2>2. CASE ~Exposes(p, logged)  BY <1>1, <2>2 DEF Kept
  <2> QED  BY <2>1, <2>2
<1> HIDE DEF l
<1>3. /\ look' \in [Servers -> Looks] /\ look'[p].at = step /\ look'[p].acct = look[p].acct
      /\ look'[p].num = look[p].num /\ look'[p].logs = l.logs /\ look'[p].ok = look[p].ok
      /\ \A q \in Servers : q # p => look'[q] = look[q]
  BY <1>2, Proceeded DEF Ats, Endpoints, l
<1>4. Exposes(p, logged) => ~Mine(look[p].acct, look[p].num)  BY DEF Exposes
<1>5. calls' \in [Endpoints -> [Accounts -> Nat]]
  BY <1>1 DEF Deduct, EjarTypeOK
<1> DEFINE new == [id |-> id, acct |-> look[p].acct, num |-> look[p].num]
<1>6. new \in [id : Nat, acct : Accounts, num : Contracts] /\ new.id = id  BY <1>1
<1>7. bodies' = IF Exposes(p, logged) THEN bodies \cup {new} ELSE bodies  BY DEF Deduct
<1> HIDE DEF new
<1>8. EjarTypeOK'  BY <1>3, <1>5, <1>6, <1>7 DEF EjarTypeOK, Looks
<1>9. LookFits(look'[p])  BY <1>1, <1>2, <1>3, <1>4 DEF LookFits, Numbers
<1>10. \A b \in bodies' : \/ b \in bodies /\ (b.id \in look[p].logs => b.id \in look'[p].logs \cup orphans')
                          \/ b.id \in look'[p].logs
  BY <1>2, <1>3, <1>6, <1>7
<1> QED  BY <1>3, <1>8, <1>9, <1>10, Moved

LEMMA CallInvoicesKeeps == ASSUME EjarInv, NEW p \in Servers, CallInvoices(p) PROVE EjarInv'
<1> EjarTypeOK  BY DEF EjarInv
<1>1. look[p].at = "invoices" /\ UNCHANGED <<doubled, orphans>>  BY DEF CallInvoices, InStep
<1>2. LookFits(look[p]) /\ look[p].acct \in Accounts /\ look[p].num \in Numbers /\ look[p] \in Looks
  BY <1>1, LookTypes DEF LookFits
<1>3. ASSUME NEW attempts \in {0, 1, 2}, look[p].num \in Unknown,
             wrong' = [wrong EXCEPT ![look[p].acct] = @ + attempts],
             Release(p, look[p]), UNCHANGED <<calls, bodies>>
      PROVE  EjarInv'
  <2>1. /\ look' \in [Servers -> Looks] /\ look'[p].at = "leaving" /\ look'[p].acct = look[p].acct
        /\ look'[p].num = look[p].num /\ look'[p].logs = look[p].logs /\ look'[p].ok = look[p].ok
        /\ \A q \in Servers : q # p => look'[q] = look[q]
    BY <1>2, <1>3, Proceeded DEF Ats, Release
  <2>2. wrong' \in [Accounts -> Nat]  BY <1>2, <1>3 DEF EjarTypeOK
  <2>3. locked' \subseteq Servers  BY <1>3 DEF Release, EjarTypeOK
  <2>4. EjarTypeOK'  BY <1>1, <1>3, <2>1, <2>2, <2>3 DEF EjarTypeOK, Looks
  <2>5. LookFits(look'[p])  BY <1>2, <2>1 DEF LookFits
  <2> QED  BY <1>1, <1>3, <2>1, <2>4, <2>5, Moved
<1>4. ASSUME NEW logged \in BOOLEAN, NEW id \in FreshIds, look[p].num \notin Unknown, Deduct(p, "invoices", logged, id),
             \/ Proceed(p, SecondCall, Kept(p, logged, id)) /\ UNCHANGED locked
             \/ Release(p, Kept(p, logged, id)),
             UNCHANGED wrong
      PROVE  EjarInv'
  <2>1. look[p].num \in Contracts /\ look[p].at \in Endpoints /\ "invoices" \in Endpoints
    BY <1>1, <1>2, <1>4 DEF Numbers, Endpoints
  <2>2. SecondCall \in {"contracts", "details", "fallback", "verify", "leaving"}  BY EjarAssumption
  <2>3. locked' \subseteq Servers  BY <1>4 DEF Release, EjarTypeOK
  <2>4. CASE Proceed(p, SecondCall, Kept(p, logged, id))
    BY <1>1, <1>4, <2>1, <2>2, <2>3, <2>4, CallKeeps
  <2>5. CASE Release(p, Kept(p, logged, id))
    <3>1. Proceed(p, "leaving", Kept(p, logged, id))  BY <2>5 DEF Release
    <3> QED  BY <1>1, <1>4, <2>1, <2>3, <3>1, CallKeeps
  <2> QED  BY <1>4, <2>4, <2>5
<1>5. PICK logged \in BOOLEAN :
         IF look[p].num \in Unknown
            THEN /\ \E attempts \in IF logged THEN {1, 2} ELSE {0} :
                       wrong' = [wrong EXCEPT ![look[p].acct] = @ + attempts]
                 /\ Release(p, look[p])
                 /\ UNCHANGED <<calls, bodies>>
            ELSE \E id \in FreshIds :
                 /\ Deduct(p, "invoices", logged, id)
                 /\ \/ Proceed(p, SecondCall, Kept(p, logged, id)) /\ UNCHANGED locked
                    \/ Release(p, Kept(p, logged, id))
                 /\ UNCHANGED wrong
  BY DEF CallInvoices
<1>6. CASE look[p].num \in Unknown
  <2>1. PICK attempts \in IF logged THEN {1, 2} ELSE {0} :
           wrong' = [wrong EXCEPT ![look[p].acct] = @ + attempts]
    BY <1>5, <1>6
  <2>2. attempts \in {0, 1, 2}  OBVIOUS
  <2> QED  BY <1>3, <1>5, <1>6, <2>1, <2>2
<1>7. CASE look[p].num \notin Unknown
  <2>1. PICK id \in FreshIds :
                 /\ Deduct(p, "invoices", logged, id)
                 /\ \/ Proceed(p, SecondCall, Kept(p, logged, id)) /\ UNCHANGED locked
                    \/ Release(p, Kept(p, logged, id))
                 /\ UNCHANGED wrong
    BY <1>5, <1>7
  <2> QED  BY <1>4, <1>7, <2>1
<1> QED  BY <1>6, <1>7

LEMMA CallContractsKeeps == ASSUME EjarInv, NEW p \in Servers, CallContracts(p) PROVE EjarInv'
<1>1. look[p].at = "contracts" /\ UNCHANGED <<wrong, locked, doubled, orphans>>  BY DEF CallContracts, InStep
<1>2. PICK logged \in BOOLEAN, id \in FreshIds, step \in {"verify", "fallback"} :
         Deduct(p, "contracts", logged, id) /\ Proceed(p, step, Kept(p, logged, id))
  BY DEF CallContracts
<1>3. look[p].num \in Contracts  BY <1>1, LookTypes DEF LookFits
<1>4. look[p].at \in Endpoints /\ "contracts" \in Endpoints /\ locked' \subseteq Servers
  BY <1>1 DEF Endpoints, EjarInv, EjarTypeOK
<1> QED  BY <1>1, <1>2, <1>3, <1>4, CallKeeps

LEMMA CallDetailsKeeps == ASSUME EjarInv, NEW p \in Servers, CallDetails(p) PROVE EjarInv'
<1>1. look[p].at = "details" /\ UNCHANGED <<wrong, locked, doubled, orphans>>  BY DEF CallDetails, InStep
<1>2. PICK logged \in BOOLEAN, id \in FreshIds :
         Deduct(p, "details", logged, id) /\ Proceed(p, "verify", Kept(p, logged, id))
  BY DEF CallDetails
<1>3. look[p].num \in Contracts  BY <1>1, LookTypes DEF LookFits
<1>4. look[p].at \in Endpoints /\ "details" \in Endpoints /\ locked' \subseteq Servers
  BY <1>1 DEF Endpoints, EjarInv, EjarTypeOK
<1> QED  BY <1>1, <1>2, <1>3, <1>4, CallKeeps

LEMMA FallBackKeeps == ASSUME EjarInv, NEW p \in Servers, FallBack(p) PROVE EjarInv'
<1>1. look[p].at = "fallback" /\ UNCHANGED <<calls, wrong, bodies, doubled, orphans>>  BY DEF FallBack, InStep
<1>2. look[p].num \in Contracts  BY <1>1, LookTypes DEF LookFits
<1>3. CASE Proceed(p, "details", look[p]) /\ UNCHANGED locked
  <2>1. "details" \in Ats \ {"idle"} /\ locked' \subseteq Servers /\ doubled' \in BOOLEAN
    BY <1>1, <1>3 DEF Ats, Endpoints, EjarInv, EjarTypeOK
  <2> QED  BY <1>1, <1>2, <1>3, <2>1, Goes
<1>4. CASE Release(p, look[p])  BY <1>1, <1>4, ReleaseKeeps
<1> QED  BY <1>3, <1>4 DEF FallBack

\* Verified means the account's own; what it stored is then nothing.
LEMMA VerifyKeeps == ASSUME EjarInv, NEW p \in Servers, Verify(p) PROVE EjarInv'
<1> EjarTypeOK  BY DEF EjarInv
<1> DEFINE f == [look[p] EXCEPT !.ok = Mine(look[p].acct, look[p].num)]
<1>1. /\ look[p].at = "verify" /\ UNCHANGED <<calls, wrong, bodies, doubled, orphans>>
      /\ Proceed(p, "leaving", f) /\ locked' \subseteq Servers
  BY DEF Verify, InStep, Release, EjarTypeOK
<1>2. look[p] \in Looks /\ LookFits(look[p])  BY LookTypes
<1>3. Mine(look[p].acct, look[p].num) \in BOOLEAN  BY DEF Mine
<1>4. /\ f \in Looks /\ f.acct = look[p].acct /\ f.num = look[p].num /\ f.logs = look[p].logs
      /\ f.ok = Mine(look[p].acct, look[p].num)
  BY <1>2, <1>3 DEF Looks
<1> HIDE DEF f
<1>5. /\ look' \in [Servers -> Looks] /\ look'[p].at = "leaving" /\ look'[p].acct = look[p].acct
      /\ look'[p].num = look[p].num /\ look'[p].logs = look[p].logs /\ look'[p].ok = Mine(look[p].acct, look[p].num)
      /\ \A q \in Servers : q # p => look'[q] = look[q]
  BY <1>1, <1>4, Proceeded DEF Ats
<1>6. EjarTypeOK'  BY <1>1, <1>5 DEF EjarTypeOK, Looks
<1>7. LookFits(look'[p])  BY <1>1, <1>2, <1>5 DEF LookFits
<1> QED  BY <1>1, <1>5, <1>6, <1>7, Moved

LEMMA WithholdKeeps == ASSUME EjarInv, NEW p \in Servers, Withhold(p) PROVE EjarInv'
<1> EjarTypeOK  BY DEF EjarInv
<1>1. /\ look[p].at = "leaving" /\ UNCHANGED <<calls, wrong, locked, doubled, orphans>> /\ GiveUp(p)
      /\ bodies' = IF look[p].ok \/ look[p].acct \notin Pinned
                     THEN bodies ELSE {b \in bodies : b.id \notin look[p].logs}
  BY DEF Withhold, InStep
<1>2. look' \in [Servers -> Looks] /\ look'[p] = NoLook /\ \A q \in Servers : q # p => look'[q] = look[q]
  BY <1>1, GivenUp
<1>3. EjarTypeOK'  BY <1>1, <1>2 DEF EjarTypeOK, Looks
<1>4. look[p].ok \/ look[p].acct \notin Pinned => look[p].logs = {}
  BY LookTypes DEF LookFits, Mine
<1>5. \A b \in bodies' : b \in bodies /\ b.id \notin look[p].logs  BY <1>1, <1>4
<1> QED  BY <1>1, <1>2, <1>3, <1>5, NoLookIsOne, Moved

LEMMA LookupDiesKeeps == ASSUME EjarInv, NEW p \in Servers, LookupDies(p) PROVE EjarInv'
<1>1. locked' \subseteq Servers  BY DEF LookupDies, EjarInv, EjarTypeOK
<1> QED  BY <1>1, Ends DEF LookupDies

-----------------------------------------------------------------------------
(* Ejar: the theorems.                                                      *)

LEMMA EjarStarts == EjarInit => EjarInv
<1> SUFFICES ASSUME EjarInit PROVE EjarInv  OBVIOUS
<1>1. EjarTypeOK  BY NoLookIsOne DEF EjarInit, EjarTypeOK, Looks
<1>2. LooksFit  BY NoLookIsOne DEF EjarInit, LooksFit
<1>3. OthersContractsAreWithheld  BY DEF EjarInit, OthersContractsAreWithheld
<1> QED  BY <1>1, <1>2, <1>3 DEF EjarInv

LEMMA EjarStep == EjarInv /\ [EjarNext]_ejarVars => EjarInv'
<1> SUFFICES ASSUME EjarInv, [EjarNext]_ejarVars PROVE EjarInv'  OBVIOUS
<1>1. CASE UNCHANGED ejarVars
  BY <1>1 DEF ejarVars, EjarInv, EjarTypeOK, LooksFit, LookFits, Mine, OthersContractsAreWithheld
<1>2. ASSUME NEW p \in Servers, NEW a \in Accounts, NEW n \in Numbers, Inquire(p, a, n) PROVE EjarInv'
  BY <1>2, InquireKeeps
<1>3. ASSUME NEW p \in Servers,
             \/ Busy(p) \/ Enter(p) \/ LoseSession(p)
             \/ CallFails(p) \/ CallInvoices(p) \/ CallContracts(p) \/ FallBack(p) \/ CallDetails(p)
             \/ Verify(p) \/ Withhold(p) \/ LookupDies(p)
      PROVE  EjarInv'
  BY <1>3, QueueKeeps, LoseSessionKeeps, CallFailsKeeps, CallInvoicesKeeps, CallContractsKeeps, FallBackKeeps,
     CallDetailsKeeps, VerifyKeeps, WithholdKeeps, LookupDiesKeeps
<1> QED  BY <1>1, <1>2, <1>3 DEF EjarNext

LEMMA EjarAlways == EjarSpec => []EjarInv
  BY EjarStarts, EjarStep, PTL DEF EjarSpec

\* The counts, the logged answers and the lookups have their types.
THEOREM EjarTypes == EjarSpec => []EjarTypeOK
<1>1. EjarInv => EjarTypeOK  BY DEF EjarInv
<1> QED  BY <1>1, EjarAlways, PTL

\* However many lookups run, fail and die at once, an answer about another's contract
\* that can still be read belongs to a lookup that has yet to withhold it, or died.
THEOREM AnswersAreWithheld == EjarSpec => []OthersContractsAreWithheld
<1>1. EjarInv => OthersContractsAreWithheld  BY DEF EjarInv
<1> QED  BY <1>1, EjarAlways, PTL

-----------------------------------------------------------------------------
(* Ejar: the budgets.                                                       *)

\* As long as no lookup was let in beside another, one is at work.
OneLookup == doubled \/ \A p, q \in Servers : AtWork(p) /\ AtWork(q) => p = q

\* What a lookup counted before it calls is still there when it does.
RoomFor(l) ==
    /\ l.at = "invoices" => CanLookup(l.acct)
    /\ l.at \in {"contracts", "details"} => HasHeadroom(l.at, l.acct) /\ PoolHas(1)

RoomFits == doubled \/ \A p \in Servers : RoomFor(look[p])

BudgetInv == OneLookup /\ RoomFits /\ BudgetIsKept

LEMMA SentTotals == \A e \in Endpoints : Sent(e) = Total(Accounts, calls[e]) /\ Sent(e)' = Total(Accounts, calls'[e])
  BY DEF Sent, Total, FoldSet, MapThenFoldSet

LEMMA SentTypes ==
    ASSUME EjarTypeOK
    PROVE  /\ \A e \in Endpoints : Sent(e) \in Int
           /\ Spent \in Int /\ Pool \in Int /\ Limit \in Int /\ WrongCap \in Int
           /\ Spent = Sent("invoices") + Sent("contracts") + Sent("details")
           /\ \A a \in Accounts : wrong[a] \in Int /\ Quota[a] \in Int /\ \A e \in Endpoints : calls[e][a] \in Int
<1>1. \A e \in Endpoints : Sent(e) \in Int
  <2> SUFFICES ASSUME NEW e \in Endpoints PROVE Sent(e) \in Int  OBVIOUS
  <2>1. \A a \in Accounts : calls[e][a] \in Int  BY DEF EjarTypeOK
  <2> QED  BY <2>1, SentTotals, TotalIsInt, EjarAssumption
<1> QED  BY <1>1, EjarAssumption DEF Spent, EjarTypeOK, Endpoints

LEMMA CountChanges ==
    ASSUME NEW c, NEW d, NEW a \in Accounts, \A b \in Accounts : c[b] \in Int, \A b \in Accounts : d[b] \in Int,
           \A b \in Accounts \ {a} : d[b] = c[b]
    PROVE  Total(Accounts, d) = Total(Accounts, c) - c[a] + d[a]
<1> DEFINE R == Accounts \ {a}
<1>1. IsFiniteSet(Accounts) /\ IsFiniteSet(R)  BY EjarAssumption, FS_RemoveElement
<1>2. Total(Accounts, c) = c[a] + Total(R, c) /\ Total(Accounts, d) = d[a] + Total(R, d)  BY <1>1, TotalTakesAny
<1>3. Total(R, c) = Total(R, d)  BY <1>1, TotalAgrees
<1>4. Total(R, c) \in Int  BY <1>1, TotalIsInt
<1> HIDE DEF R
<1> QED  BY <1>2, <1>3, <1>4

\* A call that is logged is counted once, in its endpoint and its account.
LEMMA OneMore ==
    ASSUME EjarTypeOK, NEW e \in Endpoints, NEW a \in Accounts, calls' = [calls EXCEPT ![e][a] = @ + 1]
    PROVE  /\ Sent(e)' = Sent(e) + 1
           /\ calls'[e][a] = calls[e][a] + 1
           /\ \A f \in Endpoints \ {e} : Sent(f)' = Sent(f) /\ calls'[f] = calls[f]
           /\ \A b \in Accounts \ {a} : calls'[e][b] = calls[e][b]
           /\ Spent' = Spent + 1
<1>1. /\ calls'[e] = [calls[e] EXCEPT ![a] = calls[e][a] + 1]
      /\ \A f \in Endpoints \ {e} : calls'[f] = calls[f]
      /\ \A b \in Accounts : calls[e][b] \in Int
  BY DEF EjarTypeOK
<1>2. /\ calls'[e][a] = calls[e][a] + 1 /\ \A b \in Accounts \ {a} : calls'[e][b] = calls[e][b]
      /\ \A b \in Accounts : calls'[e][b] \in Int
  BY <1>1 DEF EjarTypeOK
<1>3. Sent(e)' = Sent(e) + 1
  <2>1. Total(Accounts, calls'[e]) = Total(Accounts, calls[e]) - calls[e][a] + calls'[e][a]
    <3> DEFINE c == calls[e]
    <3>1. (\A b \in Accounts : c[b] \in Int) /\ (\A b \in Accounts : c'[b] \in Int) /\ \A b \in Accounts \ {a} : c'[b] = c[b]  BY <1>1, <1>2
    <3> HIDE DEF c
    <3>2. Total(Accounts, c') = Total(Accounts, c) - c[a] + c'[a]  BY <3>1, CountChanges
    <3> QED  BY <3>2 DEF c
  <2>2. Sent(e)' = Sent(e) - calls[e][a] + calls'[e][a]  BY <2>1, SentTotals
  <2>3. calls[e][a] \in Int /\ Sent(e) \in Int  BY SentTypes
  <2> QED  BY <1>2, <2>2, <2>3
<1>4. \A f \in Endpoints \ {e} : Sent(f)' = Sent(f)  BY <1>1, SentTotals
<1>5. Spent' = Spent + 1
  <2>1. Spent' = Sent("invoices")' + Sent("contracts")' + Sent("details")'  BY DEF Spent
  <2> QED  BY <1>3, <1>4, <2>1, SentTypes DEF Endpoints
<1> QED  BY <1>1, <1>2, <1>3, <1>4, <1>5

LEMMA NothingCounted ==
    ASSUME calls' = calls
    PROVE  (\A e \in Endpoints : Sent(e)' = Sent(e)) /\ Spent' = Spent
<1>1. \A e \in Endpoints : Sent(e)' = Sent(e)  BY SentTotals
<1> QED  BY <1>1 DEF Spent, Endpoints

LEMMA BudgetsStand ==
    ASSUME calls' = calls, wrong' = wrong
    PROVE  /\ \A e \in Endpoints : \A a : HasHeadroom(e, a)' = HasHeadroom(e, a)
           /\ \A n : PoolHas(n)' = PoolHas(n)
           /\ \A a : CanLookup(a)' = CanLookup(a)
<1>1. \A e \in Endpoints : Sent(e)' = Sent(e)  BY NothingCounted
<1>2. Spent' = Spent  BY NothingCounted
<1>3. ASSUME NEW e \in Endpoints, NEW a PROVE HasHeadroom(e, a)' = HasHeadroom(e, a)
  BY <1>1 DEF HasHeadroom
<1>4. ASSUME NEW n PROVE PoolHas(n)' = PoolHas(n)  BY <1>2 DEF PoolHas
<1>5. ASSUME NEW a PROVE CanLookup(a)' = CanLookup(a)
  BY <1>3, <1>4, EjarAssumption DEF CanLookup, Endpoints
<1> QED  BY <1>3, <1>4, <1>5

LEMMA RoomStays ==
    ASSUME calls' = calls, wrong' = wrong, NEW p \in Servers, look'[p] = look[p], RoomFor(look[p])
    PROVE  RoomFor(look[p])'
<1> DEFINE l == look[p]
<1>1. /\ l.at = "invoices" => CanLookup(l.acct)'
      /\ l.at \in {"contracts", "details"} => HasHeadroom(l.at, l.acct)' /\ PoolHas(1)'
  BY BudgetsStand DEF RoomFor, Endpoints
<1> QED  BY <1>1 DEF RoomFor

\* Nothing is counted and nobody sets out to call.
LEMMA QuietStep ==
    ASSUME BudgetInv, NEW p \in Servers, UNCHANGED <<calls, wrong, doubled>>,
           \A q \in Servers : q # p => look'[q] = look[q],
           look'[p] = look[p] \/ (look'[p].at \notin Endpoints /\ (AtWork(p)' => AtWork(p)))
    PROVE  BudgetInv'
<1>1. OneLookup'  BY DEF BudgetInv, OneLookup, AtWork
<1>2. RoomFits'
  <2> SUFFICES ASSUME ~doubled, NEW q \in Servers PROVE RoomFor(look[q])'  BY DEF RoomFits
  <2>1. CASE look'[q] = look[q]
    BY <2>1, RoomStays DEF BudgetInv, RoomFits
  <2>2. CASE look'[q] # look[q]
    <3>1. look'[q].at \notin Endpoints  BY <2>2
    <3> QED  BY <3>1 DEF RoomFor, Endpoints
  <2> QED  BY <2>1, <2>2
<1>3. BudgetIsKept'  BY NothingCounted DEF BudgetInv, BudgetIsKept
<1> QED  BY <1>1, <1>2, <1>3 DEF BudgetInv

\* One lookup alone sets out to call, with room for it.
LEMMA SetsOut ==
    ASSUME BudgetInv, NEW p \in Servers, BudgetIsKept', doubled' \/ RoomFor(look[p])',
           \A q \in Servers : q # p => look'[q] = look[q],
           doubled' \/ \A q \in Servers \ {p} : ~AtWork(q)
    PROVE  BudgetInv'
<1>1. OneLookup'  BY DEF OneLookup, AtWork
<1>2. RoomFits'
  <2> SUFFICES ASSUME ~doubled', NEW q \in Servers PROVE RoomFor(look[q])'  BY DEF RoomFits
  <2>1. CASE q = p  BY <2>1
  <2>2. CASE q # p
    <3>1. look'[q].at \notin Endpoints  BY <2>2 DEF AtWork
    <3> QED  BY <3>1 DEF RoomFor, Endpoints
  <2> QED  BY <2>1, <2>2
<1> QED  BY <1>1, <1>2 DEF BudgetInv

LEMMA EnterInBudget == ASSUME EjarInv, BudgetInv, NEW p \in Servers, Enter(p) PROVE BudgetInv'
<1>1. UNCHANGED <<calls, wrong>>  BY DEF Enter
<1>2. look[p].at = "queued" BY DEF Enter, InStep
<1>3. CASE GiveUp(p) /\ UNCHANGED <<locked, doubled>>
  <2>1. look'[p] = NoLook /\ \A q \in Servers : q # p => look'[q] = look[q]
    BY <1>3, GivenUp DEF EjarInv
  <2> QED  BY <1>1, <1>3, <2>1, QuietStep DEF NoLook, AtWork, Endpoints
<1>4. CASE /\ CanLookup(look[p].acct)
           /\ Proceed(p, "invoices", look[p]) /\ locked' = {p}
           /\ doubled' = (doubled \/ \E q \in Servers : AtWork(q))
  <2>1. /\ look'[p].at = "invoices" /\ look'[p].acct = look[p].acct
        /\ \A q \in Servers : q # p => look'[q] = look[q]
    BY <1>4, LookTypes, Proceeded DEF EjarInv, Ats, Endpoints
  <2>2. BudgetIsKept'  BY <1>1, <1>4, NothingCounted DEF BudgetInv, BudgetIsKept
  <2>3. RoomFor(look[p])'
    <3>1. CanLookup(look[p].acct)'  BY <1>1, <1>4, <2>1, BudgetsStand
    <3> QED  BY <2>1, <3>1 DEF RoomFor
  <2> QED  BY <1>4, <2>1, <2>2, <2>3, SetsOut
<1> QED  BY <1>3, <1>4 DEF Enter

\* A lookup at work is the only one, unless one was let in beside another.
LEMMA OnlyOne ==
    ASSUME BudgetInv, NEW p \in Servers, AtWork(p)
    PROVE  doubled \/ \A q \in Servers \ {p} : ~AtWork(q)
  BY DEF BudgetInv, OneLookup

\* A call that had room is counted within the budget.
LEMMA CallInBudget ==
    ASSUME EjarInv, BudgetInv, NEW p \in Servers, NEW e \in Endpoints, NEW logged \in BOOLEAN, NEW id,
           NEW step \in {"contracts", "details", "fallback", "verify", "leaving"}, look[p].at = e, e = "invoices" \/ step \notin Endpoints,
           step \in Endpoints => step = SecondCall,
           Deduct(p, e, logged, id), look'[p].at = step, look'[p].acct = look[p].acct,
           \A q \in Servers : q # p => look'[q] = look[q], UNCHANGED <<wrong, doubled>>
    PROVE  BudgetInv'
<1> DEFINE a == look[p].acct
<1> EjarTypeOK  BY DEF EjarInv
<1>1. a \in Accounts  BY LookTypes DEF LookFits, Endpoints
<1>2. AtWork(p)  BY DEF AtWork
<1>3. CASE doubled
  <2>1. doubled'  BY <1>3
  <2> QED  BY <2>1 DEF BudgetInv, OneLookup, RoomFits, BudgetIsKept
<1>4. CASE ~doubled /\ ~logged
  <2>1. UNCHANGED <<calls, wrong, doubled>>  BY <1>4 DEF Deduct
  <2>2. BudgetIsKept'  BY <2>1, NothingCounted DEF BudgetInv, BudgetIsKept
  <2>3. RoomFor(look[p])
    BY <1>4 DEF BudgetInv, RoomFits
  <2>4. RoomFor(look[p])'
    <3>1. CASE step \notin Endpoints  BY <3>1 DEF RoomFor, Endpoints
    <3>2. CASE step \in Endpoints
      <4>1. e = "invoices" /\ step = SecondCall /\ CanLookup(a)  BY <2>3, <3>2 DEF RoomFor
      <4>2. HasHeadroom(step, a) /\ PoolHas(1)
        BY <4>1, SentTypes DEF CanLookup, PoolHas
      <4>3. (HasHeadroom(step, a) /\ PoolHas(1))'
        <5>1. HasHeadroom(step, a)' = HasHeadroom(step, look[p].acct)  BY <2>1, <3>2, NothingCounted DEF HasHeadroom
        <5> QED  BY <2>1, <4>2, <5>1, NothingCounted DEF PoolHas
      <4> QED  BY <4>3, EjarAssumption, <4>1 DEF RoomFor
    <3> QED  BY <3>1, <3>2
  <2> QED  BY <1>2, <2>2, <2>4, OnlyOne, SetsOut
<1>5. CASE ~doubled /\ logged
  <2>1. calls' = [calls EXCEPT ![e][a] = @ + 1]  BY <1>5 DEF Deduct
  <2>2. /\ Sent(e)' = Sent(e) + 1 /\ calls'[e][a] = calls[e][a] + 1
        /\ \A f \in Endpoints \ {e} : Sent(f)' = Sent(f) /\ calls'[f] = calls[f]
        /\ \A b \in Accounts \ {a} : calls'[e][b] = calls[e][b]
        /\ Spent' = Spent + 1
    BY <1>1, <2>1, OneMore
  <2>3. HasHeadroom(e, a) /\ PoolHas(1)
    <3>1. RoomFor(look[p])  BY <1>5 DEF BudgetInv, RoomFits
    <3> QED  BY <3>1, SentTypes DEF RoomFor, CanLookup, PoolHas, Endpoints
  <2>4. BudgetIsKept'
    <3>1. /\ Spent <= Pool /\ \A f \in Endpoints : Sent(f) <= Limit
          /\ \A b \in Accounts : wrong[b] <= WrongCap + 1 /\ \A f \in Endpoints : calls[f][b] <= Quota[b]
      BY <1>5 DEF BudgetInv, BudgetIsKept
    <3>2. Spent' <= Pool  BY <2>2, <2>3, SentTypes DEF PoolHas
    <3>3. \A f \in Endpoints : Sent(f)' <= Limit
      <4>1. Sent(e)' <= Limit  BY <2>2, <2>3, SentTypes DEF HasHeadroom
      <4> QED  BY <2>2, <3>1, <4>1
    <3>4. ASSUME NEW b \in Accounts, NEW f \in Endpoints PROVE calls'[f][b] <= Quota[b]
      <4>1. CASE f = e /\ b = a
        <5>1. calls'[e][a] <= Quota[a]  BY <1>1, <2>2, <2>3, SentTypes DEF HasHeadroom
        <5> QED  BY <4>1, <5>1
      <4>2. CASE ~(f = e /\ b = a)
        <5>1. calls'[f][b] = calls[f][b]  BY <2>2, <4>2
        <5> QED  BY <3>1, <5>1
      <4> QED  BY <4>1, <4>2
    <3> QED  BY <3>1, <3>2, <3>3, <3>4 DEF BudgetIsKept
  <2>5. RoomFor(look[p])'
    <3>1. CASE step \notin Endpoints  BY <3>1 DEF RoomFor, Endpoints
    <3>2. CASE step \in Endpoints
      <4>1. RoomFor(look[p])  BY <1>5 DEF BudgetInv, RoomFits
      <4>2. e = "invoices" /\ step = SecondCall /\ CanLookup(a) /\ step # e
        BY <3>2, <4>1, EjarAssumption DEF RoomFor
      <4>3. HasHeadroom(step, a) /\ Spent + 2 <= Pool
        BY <4>2 DEF CanLookup, PoolHas
      <4>4. Sent(step)' = Sent(step) /\ calls'[step] = calls[step]  BY <2>2, <3>2, <4>2
      <4>5. Sent(step)' < Limit /\ calls'[step][a] < Quota[a]  BY <4>3, <4>4 DEF HasHeadroom
      <4>6. Spent' + 1 <= Pool  BY <2>2, <4>3, SentTypes
      <4> QED  BY <4>2, <4>5, <4>6 DEF RoomFor, HasHeadroom, PoolHas
    <3> QED  BY <3>1, <3>2
  <2> QED  BY <1>2, <2>4, <2>5, OnlyOne, SetsOut
<1> QED  BY <1>3, <1>4, <1>5

LEMMA KeptLook ==
    ASSUME EjarInv, NEW p \in Servers, NEW logged \in BOOLEAN, NEW id \in FreshIds
    PROVE  Kept(p, logged, id) \in Looks /\ Kept(p, logged, id).acct = look[p].acct
<1>1. look[p] \in Looks /\ look[p].logs \cup {id} \in SUBSET Nat  BY LookTypes, FreshIsNat DEF EjarInv
<1>2. CASE Exposes(p, logged)
  <2>1. Kept(p, logged, id) = [look[p] EXCEPT !.logs = look[p].logs \cup {id}]  BY <1>2 DEF Kept
  <2> QED  BY <1>1, <2>1 DEF Looks
<1>3. CASE ~Exposes(p, logged)  BY <1>1, <1>3 DEF Kept
<1> QED  BY <1>2, <1>3

LEMMA AnsweredInBudget ==
    ASSUME EjarInv, BudgetInv, NEW p \in Servers, NEW e \in Endpoints, NEW logged \in BOOLEAN, NEW id \in FreshIds,
           NEW step \in {"contracts", "details", "fallback", "verify", "leaving"}, look[p].at = e, e = "invoices" \/ step \notin Endpoints,
           step \in Endpoints => step = SecondCall,
           Deduct(p, e, logged, id), Proceed(p, step, Kept(p, logged, id)), UNCHANGED <<wrong, doubled>>
    PROVE  BudgetInv'
<1>1. step \in Ats /\ EjarTypeOK  BY DEF Ats, Endpoints, EjarInv
<1>2. Kept(p, logged, id) \in Looks /\ Kept(p, logged, id).acct = look[p].acct  BY KeptLook
<1>3. /\ look'[p].at = step /\ look'[p].acct = look[p].acct
      /\ \A q \in Servers : q # p => look'[q] = look[q]
  BY <1>1, <1>2, Proceeded
<1> QED  BY <1>3, CallInBudget

\* An unknown number: one request, or two, beyond what was counted below the cap.
LEMMA UnknownInBudget ==
    ASSUME EjarInv, BudgetInv, NEW p \in Servers, NEW attempts \in {0, 1, 2}, look[p].at = "invoices",
           wrong' = [wrong EXCEPT ![look[p].acct] = @ + attempts], Release(p, look[p]), UNCHANGED <<calls, doubled>>
    PROVE  BudgetInv'
<1> DEFINE a == look[p].acct
<1> EjarTypeOK  BY DEF EjarInv
<1>1. a \in Accounts /\ look[p] \in Looks  BY LookTypes DEF LookFits
<1>2. look'[p].at = "leaving" /\ \A q \in Servers : q # p => look'[q] = look[q]
  BY <1>1, Proceeded DEF Ats, Release
<1>3. RoomFor(look[p])'  BY <1>2 DEF RoomFor
<1>4. AtWork(p)  BY DEF AtWork, Endpoints
<1>5. CASE doubled
  <2>1. doubled'  BY <1>5
  <2> QED  BY <2>1 DEF BudgetInv, OneLookup, RoomFits, BudgetIsKept
<1>6. CASE ~doubled
  <2>1. wrong[a] < WrongCap  BY <1>6 DEF BudgetInv, RoomFits, RoomFor, CanLookup
  <2>2. \A b \in Accounts : wrong'[b] = IF b = a THEN wrong[a] + attempts ELSE wrong[b]
    BY <1>1 DEF EjarTypeOK
  <2>3. wrong[a] + attempts <= WrongCap + 1  BY <1>1, <2>1, SentTypes
  <2>4. /\ Spent <= Pool /\ \A e \in Endpoints : Sent(e) <= Limit
        /\ \A b \in Accounts : wrong[b] <= WrongCap + 1 /\ \A e \in Endpoints : calls[e][b] <= Quota[b]
    BY <1>6 DEF BudgetInv, BudgetIsKept
  <2>5. \A b \in Accounts : wrong'[b] <= WrongCap + 1  BY <2>2, <2>3, <2>4
  <2>6. BudgetIsKept'  BY <2>4, <2>5, NothingCounted DEF BudgetIsKept
  <2> QED  BY <1>2, <1>3, <1>4, <2>6, OnlyOne, SetsOut
<1> QED  BY <1>5, <1>6

LEMMA CallInvoicesInBudget == ASSUME EjarInv, BudgetInv, NEW p \in Servers, CallInvoices(p) PROVE BudgetInv'
<1>1. look[p].at = "invoices" /\ UNCHANGED doubled  BY DEF CallInvoices, InStep
<1>2. PICK logged \in BOOLEAN :
         IF look[p].num \in Unknown
            THEN /\ \E attempts \in IF logged THEN {1, 2} ELSE {0} :
                       wrong' = [wrong EXCEPT ![look[p].acct] = @ + attempts]
                 /\ Release(p, look[p])
                 /\ UNCHANGED <<calls, bodies>>
            ELSE \E id \in FreshIds :
                 /\ Deduct(p, "invoices", logged, id)
                 /\ \/ Proceed(p, SecondCall, Kept(p, logged, id)) /\ UNCHANGED locked
                    \/ Release(p, Kept(p, logged, id))
                 /\ UNCHANGED wrong
  BY DEF CallInvoices
<1>3. CASE look[p].num \in Unknown
  <2>1. PICK attempts \in IF logged THEN {1, 2} ELSE {0} :
           wrong' = [wrong EXCEPT ![look[p].acct] = @ + attempts]
    BY <1>2, <1>3
  <2>2. attempts \in {0, 1, 2}  OBVIOUS
  <2> QED  BY <1>1, <1>2, <1>3, <2>1, <2>2, UnknownInBudget
<1>4. CASE look[p].num \notin Unknown
  <2>1. PICK id \in FreshIds :
                 /\ Deduct(p, "invoices", logged, id)
                 /\ \/ Proceed(p, SecondCall, Kept(p, logged, id)) /\ UNCHANGED locked
                    \/ Release(p, Kept(p, logged, id))
                 /\ UNCHANGED wrong
    BY <1>2, <1>4
  <2>2. PICK step \in {SecondCall, "leaving"} : Proceed(p, step, Kept(p, logged, id))  BY <2>1 DEF Release
  <2>3. /\ step \in {"contracts", "details", "fallback", "verify", "leaving"} /\ "invoices" \in Endpoints
        /\ step \in Endpoints => step = SecondCall
    BY EjarAssumption DEF Endpoints
  <2> QED  BY <1>1, <2>1, <2>2, <2>3, AnsweredInBudget
<1> QED  BY <1>3, <1>4

LEMMA LaterCallInBudget ==
    ASSUME EjarInv, BudgetInv, NEW p \in Servers, CallContracts(p) \/ CallDetails(p) PROVE BudgetInv'
<1>1. PICK e \in {"contracts", "details"}, logged \in BOOLEAN, id \in FreshIds, step \in {"verify", "fallback"} :
         look[p].at = e /\ Deduct(p, e, logged, id) /\ Proceed(p, step, Kept(p, logged, id))
  BY DEF CallContracts, CallDetails, InStep
<1>2. UNCHANGED <<wrong, doubled>>  BY DEF CallContracts, CallDetails
<1>3. e \in Endpoints /\ step \notin Endpoints  BY DEF Endpoints
<1> QED  BY <1>1, <1>2, <1>3, AnsweredInBudget

LEMMA ReleaseInBudget ==
    ASSUME EjarInv, BudgetInv, NEW p \in Servers, Proceed(p, "leaving", look[p]), UNCHANGED <<calls, wrong, doubled>>
    PROVE  BudgetInv'
<1>1. "leaving" \in Ats /\ EjarTypeOK /\ look[p] \in Looks  BY LookTypes DEF Ats, EjarInv
<1>2. look'[p].at = "leaving" /\ \A q \in Servers : q # p => look'[q] = look[q]  BY <1>1, Proceeded
<1>3. look'[p].at \notin Endpoints /\ ~AtWork(p)'  BY <1>2 DEF AtWork, Endpoints
<1> QED  BY <1>2, <1>3, QuietStep

LEMMA GiveUpInBudget ==
    ASSUME EjarInv, BudgetInv, NEW p \in Servers, GiveUp(p), UNCHANGED <<calls, wrong, doubled>>
    PROVE  BudgetInv'
<1>1. look'[p] = NoLook /\ \A q \in Servers : q # p => look'[q] = look[q]  BY GivenUp DEF EjarInv
<1>2. look'[p].at \notin Endpoints /\ ~AtWork(p)'  BY <1>1 DEF NoLook, AtWork, Endpoints
<1> QED  BY <1>1, <1>2, QuietStep

LEMMA FallBackInBudget == ASSUME EjarInv, BudgetInv, NEW p \in Servers, FallBack(p) PROVE BudgetInv'
<1> EjarTypeOK  BY DEF EjarInv
<1>1. look[p].at = "fallback" /\ UNCHANGED <<calls, wrong, doubled>>  BY DEF FallBack, InStep
<1>2. CASE Release(p, look[p])  BY <1>1, <1>2, ReleaseInBudget DEF Release
<1>3. CASE HasHeadroom("details", look[p].acct) /\ PoolHas(1) /\ Proceed(p, "details", look[p])
  <2>1. "details" \in Ats /\ look[p] \in Looks  BY LookTypes DEF Ats, Endpoints
  <2>2. /\ look'[p].at = "details" /\ look'[p].acct = look[p].acct
        /\ \A q \in Servers : q # p => look'[q] = look[q]
    BY <1>3, <2>1, Proceeded
  <2>3. BudgetIsKept'  BY <1>1, NothingCounted DEF BudgetInv, BudgetIsKept
  <2>4. HasHeadroom("details", look[p].acct)' /\ PoolHas(1)'
    BY <1>1, <1>3, <2>2, BudgetsStand DEF Endpoints
  <2>5. RoomFor(look[p])'  BY <2>2, <2>4 DEF RoomFor
  <2>6. AtWork(p)  BY <1>1 DEF AtWork
  <2> QED  BY <1>1, <2>2, <2>3, <2>5, <2>6, OnlyOne, SetsOut
<1> QED  BY <1>2, <1>3 DEF FallBack

LEMMA OthersInBudget ==
    ASSUME EjarInv, BudgetInv, NEW p \in Servers,
           Busy(p) \/ LoseSession(p) \/ CallFails(p) \/ Verify(p) \/ Withhold(p) \/ LookupDies(p)
    PROVE  BudgetInv'
<1>1. CASE Busy(p)  BY <1>1, GiveUpInBudget DEF Busy
<1>2. CASE LoseSession(p)
  <2>1. UNCHANGED <<calls, wrong, doubled, look>>  BY <1>2 DEF LoseSession
  <2>2. AtWork(p)' = AtWork(p)  BY <2>1 DEF AtWork
  <2> QED  BY <2>1, <2>2, QuietStep
<1>3. CASE CallFails(p)  BY <1>3, ReleaseInBudget DEF CallFails, Release
<1>4. CASE Verify(p)
  <2> DEFINE f == [look[p] EXCEPT !.ok = Mine(look[p].acct, look[p].num)]
  <2>1. f \in Looks  BY LookTypes DEF Looks, Mine
  <2>2. "leaving" \in Ats /\ EjarTypeOK /\ UNCHANGED <<calls, wrong, doubled>> /\ Proceed(p, "leaving", f)
    BY <1>4 DEF Ats, EjarInv, Verify, Release
  <2> HIDE DEF f
  <2>3. look'[p].at = "leaving" /\ \A q \in Servers : q # p => look'[q] = look[q]  BY <2>1, <2>2, Proceeded
  <2>4. look'[p].at \notin Endpoints /\ ~AtWork(p)'  BY <2>3 DEF AtWork, Endpoints
  <2> QED  BY <2>2, <2>3, <2>4, QuietStep
<1>5. CASE Withhold(p)  BY <1>5, GiveUpInBudget DEF Withhold
<1>6. CASE LookupDies(p)  BY <1>6, GiveUpInBudget DEF LookupDies
<1> QED  BY <1>1, <1>2, <1>3, <1>4, <1>5, <1>6

LEMMA InquireInBudget ==
    ASSUME EjarInv, BudgetInv, NEW p \in Servers, NEW a \in Accounts, NEW n \in Numbers, Inquire(p, a, n) PROVE BudgetInv'
<1> EjarTypeOK  BY DEF EjarInv
<1> DEFINE f == [[NoLook EXCEPT !.acct = a] EXCEPT !.num = n]
<1>1. UNCHANGED <<calls, wrong, doubled>> /\ Proceed(p, "queued", f)  BY DEF Inquire
<1>2. f \in Looks /\ "queued" \in Ats
  <2>1. [NoLook EXCEPT !.acct = a] \in Looks  BY NoLookIsOne DEF Looks
  <2> QED  BY <2>1 DEF Looks, Ats
<1> HIDE DEF f
<1>3. look'[p].at = "queued" /\ \A q \in Servers : q # p => look'[q] = look[q]  BY <1>1, <1>2, Proceeded
<1>4. look'[p].at \notin Endpoints /\ ~AtWork(p)'  BY <1>3 DEF AtWork, Endpoints
<1> QED  BY <1>1, <1>3, <1>4, QuietStep

LEMMA BudgetStarts == EjarInit => BudgetInv
<1> SUFFICES ASSUME EjarInit PROVE BudgetInv  OBVIOUS
<1>1. \A p \in Servers : look[p].at = "idle"  BY DEF EjarInit, NoLook
<1>2. OneLookup /\ RoomFits  BY <1>1 DEF OneLookup, AtWork, Endpoints, RoomFits, RoomFor
<1>3. \A e \in Endpoints : Sent(e) = 0
  <2> SUFFICES ASSUME NEW e \in Endpoints PROVE Sent(e) = 0  OBVIOUS
  <2>1. \A a \in Accounts : calls[e][a] = 0  BY DEF EjarInit
  <2>2. IsFiniteSet(Accounts)  BY EjarAssumption
  <2> QED  BY <2>1, <2>2, SentTotals, TotalOfZeros
<1>4. Spent = 0  BY <1>3 DEF Spent, Endpoints
<1>5. \A a \in Accounts : wrong[a] = 0 /\ \A e \in Endpoints : calls[e][a] = 0  BY DEF EjarInit
<1>6. BudgetIsKept  BY <1>3, <1>4, <1>5, EjarAssumption DEF BudgetIsKept
<1> QED  BY <1>2, <1>6 DEF BudgetInv

LEMMA BudgetStep == EjarInv /\ BudgetInv /\ [EjarNext]_ejarVars => BudgetInv'
<1> SUFFICES ASSUME EjarInv, BudgetInv, [EjarNext]_ejarVars PROVE BudgetInv'  OBVIOUS
<1>1. CASE UNCHANGED ejarVars
  <2>1. UNCHANGED <<calls, wrong, doubled, look>>  BY <1>1 DEF ejarVars
  <2>2. BudgetIsKept'  BY <2>1, NothingCounted DEF BudgetInv, BudgetIsKept
  <2>3. OneLookup'  BY <2>1 DEF BudgetInv, OneLookup, AtWork
  <2>4. RoomFits'  BY <2>1, RoomStays DEF BudgetInv, RoomFits
  <2> QED  BY <2>2, <2>3, <2>4 DEF BudgetInv
<1>2. ASSUME NEW p \in Servers, NEW a \in Accounts, NEW n \in Numbers, Inquire(p, a, n) PROVE BudgetInv'
  BY <1>2, InquireInBudget
<1>3. ASSUME NEW p \in Servers,
             \/ Busy(p) \/ Enter(p) \/ LoseSession(p)
             \/ CallFails(p) \/ CallInvoices(p) \/ CallContracts(p) \/ FallBack(p) \/ CallDetails(p)
             \/ Verify(p) \/ Withhold(p) \/ LookupDies(p)
      PROVE  BudgetInv'
  BY <1>3, EnterInBudget, OthersInBudget, CallInvoicesInBudget, LaterCallInBudget, FallBackInBudget
<1> QED  BY <1>1, <1>2, <1>3 DEF EjarNext

\* However many processes look contracts up at once, no lookup sends a call that its
\* budgets have no room for, unless one was let in beside another whose session broke.
THEOREM BudgetKept == EjarSpec => []BudgetIsKept
<1>1. EjarSpec => []BudgetInv  BY BudgetStarts, BudgetStep, EjarAlways, PTL DEF EjarSpec
<1>2. BudgetInv => BudgetIsKept  BY DEF BudgetInv
<1> QED  BY <1>1, <1>2, PTL

=============================================================================
