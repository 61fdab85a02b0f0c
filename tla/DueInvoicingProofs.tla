-------------------------- MODULE DueInvoicingProofs --------------------------
(***************************************************************************)
(* Proofs about DueInvoicing, for every number of installments, attempts,  *)
(* people, documents and moves.                                            *)
(***************************************************************************)
EXTENDS DueInvoicing, TLAPS

-----------------------------------------------------------------------------
(* The inductive invariant.                                                 *)

\* Steps at which an attempt is about one document, drafted or adopted.
Holding == {"note", "approve", "confirm", "answer"}

\* Documents that were drafted, hidden since or not.
Made == {d \in Papers : paper[d].status # "none"}

\* Documents are numbered as they are made.
MadeInOrder == \A d \in Made, e \in Papers : e < d => e \in Made

\* What an attempt is about at each step.
AttemptFits(a) ==
    /\ a.at \in {"check", "insert", "receipt"} => a.ids # {}
    /\ a.at = "mark" => a.known \subseteq Made /\ a.own \in a.known \cup {0}
    /\ a.at \in Holding => a.on \in Made /\ a.ids \subseteq paper[a.on].covers
    /\ a.at = "answer" => paper[a.on].status = "confirmed"

ErrandFits(r) ==
    /\ r.at \in {"confirm", "remove"} => r.on \in Made
    /\ r.at \in {"decide", "look", "draft"} => r.on \in Dues
    /\ r.at = "draft" => \A e \in r.known : e \in Made /\ paper[e].head # r.on

WorkFits == (\A i \in Issuers : AttemptFits(attempt[i])) /\ (\A c \in Desks : ErrandFits(desk[c]))

\* Two attempts hold an installment only if one took the other's claim over.
OneHolder == \A i, j \in Issuers : \A p \in Holds(i) \cap Holds(j) : i # j => p \in overtaken

\* What an attempt that means to draft knows of covers none of what it will draft.
DraftsElsewhere(a) ==
    a.at \in {"check", "insert", "receipt"} =>
        /\ a.known \subseteq Made
        /\ \A d \in a.known : paper[d].covers \cap a.ids = {}

KnownElsewhere == \A i \in Issuers : DraftsElsewhere(attempt[i])

\* A document of the issuer's made since an attempt looked was made by another that
\* held the installment too.
OtherHeldIt(a) ==
    a.at \in {"mark", "check", "insert", "receipt"} =>
        \A d \in Live \ a.known : paper[d].by = "issuer" => paper[d].covers \cap a.ids \subseteq overtaken

MadeMeanwhile == \A i \in Issuers : OtherHeldIt(attempt[i])

InvoicingInv ==
    /\ InvoicingTypeOK
    /\ MadeInOrder
    /\ WorkFits
    /\ LinksAreTrue
    /\ OneHolder
    /\ KnownElsewhere
    /\ MadeMeanwhile
    /\ InvoicedOnce

-----------------------------------------------------------------------------
(* What the steps write.                                                    *)

LEMMA Went ==
    ASSUME InvoicingTypeOK, NEW i \in Issuers, NEW step \in Stages, NEW a \in Attempt, Goes(i, step, a)
    PROVE  /\ attempt' \in [Issuers -> Attempt]
           /\ attempt'[i].at = step /\ attempt'[i].ids = a.ids /\ attempt'[i].own = a.own /\ attempt'[i].on = a.on
           /\ attempt'[i].known = a.known /\ attempt'[i].sure = a.sure
           /\ \A j \in Issuers : j # i => attempt'[j] = attempt[j]
<1> DEFINE g == [a EXCEPT !.at = step]
<1>1. /\ g \in Attempt /\ g.at = step /\ g.ids = a.ids /\ g.own = a.own /\ g.on = a.on
      /\ g.known = a.known /\ g.sure = a.sure
  BY DEF Attempt
<1>2. attempt' = [attempt EXCEPT ![i] = g]  BY DEF Goes
<1>3. attempt \in [Issuers -> Attempt]  BY DEF InvoicingTypeOK
<1> QED  BY <1>1, <1>2, <1>3

LEMMA NoAttemptIsOne == NoAttempt \in Attempt /\ NoAttempt.at = "idle" /\ NoAttempt.ids = {} /\ NoAttempt.known = {}
  BY DEF NoAttempt, Attempt, Stages

LEMMA Ended ==
    ASSUME InvoicingTypeOK, NEW i \in Issuers, EndAttempt(i)
    PROVE  /\ attempt' \in [Issuers -> Attempt]
           /\ attempt'[i] = NoAttempt
           /\ \A j \in Issuers : j # i => attempt'[j] = attempt[j]
<1>1. attempt' = [attempt EXCEPT ![i] = NoAttempt]  BY DEF EndAttempt
<1>2. attempt \in [Issuers -> Attempt]  BY DEF InvoicingTypeOK
<1> QED  BY <1>1, <1>2, NoAttemptIsOne

ErrandSteps == {"idle", "confirm", "remove", "decide", "look", "draft"}

LEMMA Served ==
    ASSUME InvoicingTypeOK, NEW c \in Desks, NEW step \in ErrandSteps, NEW r \in Errand, Serve(c, step, r)
    PROVE  /\ desk' \in [Desks -> Errand]
           /\ desk'[c].at = step /\ desk'[c].on = r.on /\ desk'[c].known = r.known
           /\ \A b \in Desks : b # c => desk'[b] = desk[b]
<1> DEFINE g == [r EXCEPT !.at = step]
<1>1. g \in Errand /\ g.at = step /\ g.on = r.on /\ g.known = r.known  BY DEF Errand, ErrandSteps
<1>2. desk' = [desk EXCEPT ![c] = g]  BY DEF Serve
<1>3. desk \in [Desks -> Errand]  BY DEF InvoicingTypeOK
<1> QED  BY <1>1, <1>2, <1>3

LEMMA NoErrandIsOne == NoErrand \in Errand /\ NoErrand.at = "idle"
  BY DEF NoErrand, Errand

LEMMA WasDrafted ==
    ASSUME InvoicingTypeOK, NEW d \in NextPaper, NEW by \in {"issuer", "hand", "proof"}, NEW head \in Dues \cup {0},
           NEW covers \in SUBSET Dues, Drafted(d, by, head, covers)
    PROVE  /\ paper' \in [Papers -> Paper]
           /\ d \in Papers /\ d \notin Made
           /\ paper'[d].by = by /\ paper'[d].head = head /\ paper'[d].covers = covers
           /\ paper'[d].status = "draft" /\ ~paper'[d].hidden
           /\ \A e \in Papers : e # d => paper'[e] = paper[e]
<1> DEFINE g == [NoPaper EXCEPT !.by = by, !.head = head, !.covers = covers, !.status = "draft"]
<1>1. g \in Paper /\ g.by = by /\ g.head = head /\ g.covers = covers /\ g.status = "draft" /\ ~g.hidden
  BY DEF NoPaper, Paper
<1>2. paper' = [paper EXCEPT ![d] = g]  BY DEF Drafted
<1>3. paper \in [Papers -> Paper] /\ d \in Papers /\ paper[d].status = "none"  BY DEF InvoicingTypeOK, NextPaper
<1> QED  BY <1>1, <1>2, <1>3 DEF Made

LEMMA WasIssued ==
    ASSUME InvoicingTypeOK, NEW d \in Papers, Issued(d)
    PROVE  /\ paper' \in [Papers -> Paper]
           /\ paper'[d].status = "confirmed" /\ paper'[d].by = paper[d].by /\ paper'[d].head = paper[d].head
           /\ paper'[d].covers = paper[d].covers /\ paper'[d].hidden = paper[d].hidden
           /\ \A e \in Papers : e # d => paper'[e] = paper[e]
<1> DEFINE g == [paper[d] EXCEPT !.status = "confirmed"]
<1>1. paper \in [Papers -> Paper]  BY DEF InvoicingTypeOK
<1>2. paper[d] \in Paper  BY <1>1
<1>3. /\ g \in Paper /\ g.status = "confirmed" /\ g.by = paper[d].by /\ g.head = paper[d].head
      /\ g.covers = paper[d].covers /\ g.hidden = paper[d].hidden
  BY <1>2 DEF Paper
<1>4. paper' = [paper EXCEPT ![d] = g]  BY DEF Issued
<1> QED  BY <1>1, <1>3, <1>4

LEMMA WasMarked ==
    ASSUME InvoicingTypeOK, NEW ids \in SUBSET Dues, NEW d \in Papers \cup {0},
           NEW st \in {"draft", "issued", "failed"}, st \in {"draft", "issued"} => d # 0, autoLink' = Marked(ids, st, d)
    PROVE  /\ autoLink' \in [Dues -> Link]
           /\ \A p \in Dues : autoLink'[p].st \in {"draft", "issued", "covered"} => autoLink'[p].paper # 0
           /\ \A p \in ids : autoLink'[p].st = st /\ (d # 0 => autoLink'[p].paper = d)
           /\ \A p \in Dues \ ids : autoLink'[p] = autoLink[p]
  BY DEF InvoicingTypeOK, Marked, Link

LEMMA WasHidden ==
    ASSUME InvoicingTypeOK, NEW d \in Papers, paper' = [paper EXCEPT ![d].hidden = TRUE]
    PROVE  /\ paper' \in [Papers -> Paper]
           /\ paper'[d].hidden /\ paper'[d].by = paper[d].by /\ paper'[d].head = paper[d].head
           /\ paper'[d].covers = paper[d].covers /\ paper'[d].status = paper[d].status
           /\ \A e \in Papers : e # d => paper'[e] = paper[e]
<1> DEFINE g == [paper[d] EXCEPT !.hidden = TRUE]
<1>1. paper \in [Papers -> Paper]  BY DEF InvoicingTypeOK
<1>2. paper[d] \in Paper  BY <1>1
<1>3. /\ g \in Paper /\ g.hidden /\ g.by = paper[d].by /\ g.head = paper[d].head
      /\ g.covers = paper[d].covers /\ g.status = paper[d].status
  BY <1>2 DEF Paper
<1>4. paper' = [paper EXCEPT ![d] = g]  OBVIOUS
<1> QED  BY <1>1, <1>3, <1>4

LEMMA HeadIsOne == ASSUME NEW ids \in SUBSET Dues, ids # {} PROVE HeadOf(ids) \in ids
  BY DEF HeadOf

LEMMA OnlyOneIsOne == ASSUME NEW ids \in SUBSET Dues PROVE OnlyOne(ids) \in Dues \cup {0}
  BY DEF OnlyOne

\* The two outcomes of Insert, and the document of DraftForProof, by name.
Inserts(i, d) ==
    /\ Drafted(d, "issuer", IF Stage(i, "insert") THEN HeadOf(attempt[i].ids) ELSE OnlyOne(attempt[i].ids), attempt[i].ids)
    /\ late' = IF Unseen(attempt[i].ids, attempt[i].known) = {} THEN late ELSE late \cup {d}
    /\ Goes(i, "note", [attempt[i] EXCEPT !.on = d, !.known = {}])
    /\ UNCHANGED moves

InsertRefused(i) ==
    /\ IF NextPaper = {} THEN UNCHANGED moves ELSE Move
    /\ Goes(i, "fail", [attempt[i] EXCEPT !.known = {}])
    /\ UNCHANGED <<paper, late>>

DraftsForProof(c, d) ==
    LET p == desk[c].on
    IN /\ Drafted(d, "proof", p, {p})
       /\ late' = IF Unseen({p}, desk[c].known) = {} THEN late ELSE late \cup {d}
       /\ blind' = IF desk[c].known # {} /\ \A e \in desk[c].known : paper[e].head # p THEN blind \cup {d} ELSE blind

DraftsByHand(d) == \E ids \in (SUBSET Dues) \ {{}} : Drafted(d, "hand", HeadOf(ids), ids)

LEMMA InsertCases ==
    ASSUME NEW i \in Issuers, Insert(i)
    PROVE  (\E d \in NextPaper : Inserts(i, d)) \/ InsertRefused(i)
  BY DEF Insert, Inserts, InsertRefused

LEMMA InsertDrafts ==
    ASSUME InvoicingTypeOK, WorkFits, NEW i \in Issuers, Insert(i), NEW d \in NextPaper, Inserts(i, d)
    PROVE  /\ paper' \in [Papers -> Paper]
           /\ d \in Papers /\ d \notin Made
           /\ paper'[d].by = "issuer" /\ paper'[d].covers = attempt[i].ids
           /\ paper'[d].status = "draft" /\ ~paper'[d].hidden
           /\ \A e \in Papers : e # d => paper'[e] = paper[e]
<1> DEFINE h == IF Stage(i, "insert") THEN HeadOf(attempt[i].ids) ELSE OnlyOne(attempt[i].ids)
<1>1. attempt[i].ids \in SUBSET Dues  BY DEF InvoicingTypeOK, Attempt
<1>2. attempt[i].ids # {}  BY DEF Insert, Stage, WorkFits, AttemptFits
<1>3. h \in Dues \cup {0}  BY <1>1, <1>2, HeadIsOne, OnlyOneIsOne
<1>4. Drafted(d, "issuer", h, attempt[i].ids)  BY DEF Inserts
<1> QED  BY <1>1, <1>3, <1>4, WasDrafted

LEMMA HandDrafts ==
    ASSUME InvoicingTypeOK, NEW d \in NextPaper, DraftsByHand(d)
    PROVE  /\ paper' \in [Papers -> Paper]
           /\ d \in Papers /\ d \notin Made
           /\ paper'[d].by = "hand" /\ paper'[d].status = "draft" /\ ~paper'[d].hidden
           /\ \A e \in Papers : e # d => paper'[e] = paper[e]
<1>1. PICK ids \in (SUBSET Dues) \ {{}} : Drafted(d, "hand", HeadOf(ids), ids)  BY DEF DraftsByHand
<1>2. ids \in SUBSET Dues /\ ids # {}  OBVIOUS
<1>3. HeadOf(ids) \in Dues \cup {0}  BY <1>2, HeadIsOne
<1> QED  BY <1>1, <1>2, <1>3, WasDrafted

LEMMA ProofDrafts ==
    ASSUME InvoicingTypeOK, WorkFits, NEW c \in Desks, DraftForProof(c), NEW d \in NextPaper, DraftsForProof(c, d)
    PROVE  /\ paper' \in [Papers -> Paper]
           /\ d \in Papers /\ d \notin Made
           /\ desk[c].on \in Dues
           /\ paper'[d].by = "proof" /\ paper'[d].covers = {desk[c].on}
           /\ paper'[d].status = "draft" /\ ~paper'[d].hidden
           /\ \A e \in Papers : e # d => paper'[e] = paper[e]
<1>1. desk[c].on \in Dues  BY DEF DraftForProof, AtDesk, WorkFits, ErrandFits
<1>2. Drafted(d, "proof", desk[c].on, {desk[c].on})  BY DEF DraftsForProof
<1> QED  BY <1>1, <1>2, WasDrafted

LEMMA AgedLinks ==
    ASSUME InvoicingTypeOK, ClaimsAge
    PROVE  autoLink' \in [Dues -> Link] /\ \A p \in Dues : autoLink'[p].st = autoLink[p].st /\ autoLink'[p].paper = autoLink[p].paper
<1>1. ASSUME NEW p \in Dues
      PROVE  /\ [autoLink[p] EXCEPT !.old = (@ \/ autoLink[p].st = "claimed")] \in Link
             /\ [autoLink[p] EXCEPT !.old = (@ \/ autoLink[p].st = "claimed")].st = autoLink[p].st
             /\ [autoLink[p] EXCEPT !.old = (@ \/ autoLink[p].st = "claimed")].paper = autoLink[p].paper
  <2>1. autoLink[p] \in Link  BY DEF InvoicingTypeOK
  <2>2. (autoLink[p].old \/ autoLink[p].st = "claimed") \in BOOLEAN  OBVIOUS
  <2> QED  BY <2>1, <2>2 DEF Link
<1> QED  BY <1>1 DEF ClaimsAge

-----------------------------------------------------------------------------
(* Types.                                                                   *)

LEMMA MoveIsBounded == ASSUME InvoicingTypeOK, Move PROVE moves' \in 0..MaxMoves
  BY DueInvoicingAssumption DEF InvoicingTypeOK, Move

LEMMA FieldTypes ==
    ASSUME InvoicingTypeOK
    PROVE  /\ \A i \in Issuers : /\ attempt[i] \in Attempt /\ attempt[i].ids \subseteq Dues
                                /\ attempt[i].known \subseteq Papers /\ attempt[i].sure \subseteq Papers
                                /\ attempt[i].own \in Papers \cup {0} /\ attempt[i].on \in Papers \cup {0}
                                /\ Holds(i) \subseteq Dues
           /\ \A c \in Desks : desk[c] \in Errand /\ desk[c].known \subseteq Papers
           /\ \A p \in Dues : autoLink[p] \in Link
           /\ \A d \in Papers : paper[d] \in Paper
           /\ Live \subseteq Papers /\ Confirmed \subseteq Live /\ Made \subseteq Papers /\ 0 \notin Papers
           /\ NextPaper \subseteq Papers
  BY DEF InvoicingTypeOK, Attempt, Errand, Papers, Live, Confirmed, Made, Holds, NextPaper

LEMMA TypesStep ==
    ASSUME InvoicingTypeOK, WorkFits, InvoicingNext
    PROVE  InvoicingTypeOK'
<1>1. ASSUME NEW i \in Issuers, ListDaily(i)  PROVE InvoicingTypeOK'
  <2>1. PICK ids \in SUBSET Dues : Goes(i, "claim", [NoAttempt EXCEPT !.ids = ids])
    BY <1>1 DEF ListDaily, Uninvoiced, InvoicingTypeOK
  <2>2. [NoAttempt EXCEPT !.ids = ids] \in Attempt  BY DEF NoAttempt, Attempt, Stages
  <2>3. attempt' \in [Issuers -> Attempt]  BY <2>1, <2>2, Went DEF Stages
  <2> QED  BY <1>1, <2>3 DEF ListDaily, paperwork, invoicingHistory, InvoicingTypeOK
<1>2. ASSUME NEW i \in Issuers, IssueNow(i)  PROVE InvoicingTypeOK'
  <2>1. PICK ids \in SUBSET Dues : Goes(i, "claim", [NoAttempt EXCEPT !.ids = ids, !.origin = "bulk"])
    BY <1>2 DEF IssueNow, Uninvoiced, InvoicingTypeOK
  <2>2. [NoAttempt EXCEPT !.ids = ids, !.origin = "bulk"] \in Attempt  BY DEF NoAttempt, Attempt, Stages
  <2>3. attempt' \in [Issuers -> Attempt]  BY <2>1, <2>2, Went DEF Stages
  <2>4. moves' \in 0..MaxMoves  BY <1>2, MoveIsBounded DEF IssueNow
  <2> QED  BY <1>2, <2>3, <2>4 DEF IssueNow, paperwork, invoicingHistory, InvoicingTypeOK
<1>3. ASSUME NEW i \in Issuers, ClaimGroup(i)  PROVE InvoicingTypeOK'
  <2>1. attempt' \in [Issuers -> Attempt]
    <3>1. CASE \E own \in Papers \cup {0} : Goes(i, "look", [attempt[i] EXCEPT !.origin = "auto", !.own = own])
      <4>1. PICK own \in Papers \cup {0} : Goes(i, "look", [attempt[i] EXCEPT !.origin = "auto", !.own = own])
        BY <3>1
      <4>2. [attempt[i] EXCEPT !.origin = "auto", !.own = own] \in Attempt  BY FieldTypes DEF Attempt
      <4> QED  BY <4>1, <4>2, Went DEF Stages
    <3>2. CASE EndAttempt(i)  BY <3>2, Ended
    <3>3. \A p \in attempt[i].ids : autoLink[p].paper \in Papers \cup {0}  BY FieldTypes DEF Link
    <3> QED  BY <1>3, <3>1, <3>2, <3>3 DEF ClaimGroup
  <2>2. autoLink' \in [Dues -> Link] /\ \A p \in Dues : autoLink'[p].st \in {"draft", "issued", "covered"} => autoLink'[p].paper # 0
    <3>1. \A p \in Dues : [autoLink[p] EXCEPT !.st = "claimed", !.old = FALSE] \in Link  BY FieldTypes DEF Link
    <3>2. \A p \in Dues : [autoLink[p] EXCEPT !.st = "claimed", !.old = FALSE].st = "claimed"  BY FieldTypes DEF Link
    <3>3. CASE autoLink' = [p \in Dues |-> IF p \notin attempt[i].ids THEN autoLink[p]
                                            ELSE [autoLink[p] EXCEPT !.st = "claimed", !.old = FALSE]]
      BY <3>1, <3>2, <3>3 DEF InvoicingTypeOK
    <3>4. CASE UNCHANGED autoLink  BY <3>4 DEF InvoicingTypeOK
    <3> QED  BY <1>3, <3>3, <3>4 DEF ClaimGroup
  <2>3. overtaken' \subseteq Dues  BY <1>3, FieldTypes DEF ClaimGroup, InvoicingTypeOK
  <2> QED  BY <1>3, <2>1, <2>2, <2>3 DEF ClaimGroup, InvoicingTypeOK
<1>4. ASSUME NEW i \in Issuers, LookAgain(i)  PROVE InvoicingTypeOK'
  <2> DEFINE found == Over(attempt[i].ids)
             own == {d \in found : d = attempt[i].own /\ paper[d].status = "draft"}
             a == [attempt[i] EXCEPT !.known = found, !.sure = found \cap Confirmed, !.own = IF own = {} THEN 0 ELSE @]
  <2>1. Goes(i, "mark", a)  BY <1>4 DEF LookAgain
  <2>2. found \subseteq Papers  BY DEF Over, Live
  <2>3. a \in Attempt  BY <2>2, FieldTypes DEF Attempt
  <2>4. attempt' \in [Issuers -> Attempt]  BY <2>1, <2>3, Went DEF Stages
  <2> QED  BY <1>4, <2>4 DEF LookAgain, paperwork, invoicingHistory, InvoicingTypeOK
<1>5. ASSUME NEW i \in Issuers, AnswerOthers(i)  PROVE InvoicingTypeOK'
  <2> DEFINE a == attempt[i]
             others == a.known \ {a.own}
             taken == {p \in a.ids : \E d \in others : p \in paper[d].covers}
             rest == a.ids \ taken
             lines == IF a.own = 0 THEN rest ELSE rest \cap paper[a.own].covers
  <2>1. a \in Attempt /\ taken \subseteq Dues /\ rest \subseteq Dues /\ lines \subseteq Dues /\ others \subseteq Papers
    BY FieldTypes
  <2>2. attempt' \in [Issuers -> Attempt]
    <3>1. CASE rest = {}  BY <3>1, <1>5, Ended DEF AnswerOthers
    <3>2. CASE rest # {}
      <4> DEFINE g == [a EXCEPT !.ids = lines, !.own = 0, !.on = a.own, !.sure = {}, !.known = IF a.own = 0 THEN @ ELSE {}]
      <4>1. PICK next \in {"check", "insert", "approve"} : Goes(i, next, g)  BY <3>2, <1>5 DEF AnswerOthers
      <4>2. g \in Attempt  BY <2>1, FieldTypes DEF Attempt
      <4> QED  BY <4>1, <4>2, Went DEF Stages
    <3> QED  BY <3>1, <3>2
  <2>3. autoLink' \in [Dues -> Link] /\ \A p \in Dues : autoLink'[p].st \in {"draft", "issued", "covered"} => autoLink'[p].paper # 0
    <3>1. PICK of \in [taken -> others] :
            autoLink' = [p \in Dues |-> IF p \notin taken THEN autoLink[p]
                                       ELSE [st |-> IF of[p] \in a.sure THEN "covered" ELSE "failed", paper |-> of[p], old |-> FALSE]]
      BY <1>5 DEF AnswerOthers
    <3>2. \A p \in taken : of[p] \in Papers /\ of[p] # 0  BY <2>1, FieldTypes
    <3> QED  BY <3>1, <3>2 DEF Link, InvoicingTypeOK
  <2>4. leftOut' \subseteq Dues  BY <1>5, <2>1 DEF AnswerOthers, InvoicingTypeOK
  <2> QED  BY <1>5, <2>2, <2>3, <2>4 DEF AnswerOthers, InvoicingTypeOK
<1>6. ASSUME NEW i \in Issuers, CheckReceipt(i)  PROVE InvoicingTypeOK'
  <2> DEFINE found == Over(attempt[i].ids)
             a == [attempt[i] EXCEPT !.known = IF found = {} THEN @ ELSE {}]
  <2>1. PICK step \in {"receipt", "fail"} : Goes(i, step, a)  BY <1>6 DEF CheckReceipt
  <2>2. a \in Attempt  BY FieldTypes DEF Attempt
  <2>3. attempt' \in [Issuers -> Attempt]  BY <2>1, <2>2, Went DEF Stages
  <2> QED  BY <1>6, <2>3 DEF CheckReceipt, paperwork, invoicingHistory, InvoicingTypeOK
<1>7. ASSUME NEW i \in Issuers, Insert(i)  PROVE InvoicingTypeOK'
  <2>1. CASE \E d \in NextPaper : Inserts(i, d)
    <3>1. PICK d \in NextPaper : Inserts(i, d)  BY <2>1
    <3>2. paper' \in [Papers -> Paper]  BY <1>7, <3>1, InsertDrafts
    <3>3. [attempt[i] EXCEPT !.on = d, !.known = {}] \in Attempt  BY FieldTypes DEF Attempt
    <3>4. attempt' \in [Issuers -> Attempt]  BY <3>1, <3>3, Went DEF Stages, Inserts
    <3>5. late' \subseteq Papers  BY <3>1, FieldTypes DEF Inserts, InvoicingTypeOK
    <3> QED  BY <1>7, <3>1, <3>2, <3>4, <3>5 DEF Insert, Inserts, InvoicingTypeOK
  <2>2. CASE InsertRefused(i)
    <3>1. [attempt[i] EXCEPT !.known = {}] \in Attempt  BY FieldTypes DEF Attempt
    <3>2. attempt' \in [Issuers -> Attempt]  BY <2>2, <3>1, Went DEF Stages, InsertRefused
    <3>3. moves' \in 0..MaxMoves  BY <2>2, MoveIsBounded DEF InsertRefused, InvoicingTypeOK
    <3> QED  BY <1>7, <2>2, <3>2, <3>3 DEF Insert, InsertRefused, InvoicingTypeOK
  <2> QED  BY <1>7, <2>1, <2>2, InsertCases
<1>8. ASSUME NEW i \in Issuers, NoteDraft(i)  PROVE InvoicingTypeOK'
  <2>1. attempt[i].ids \in SUBSET Dues /\ attempt[i].on \in Papers \cup {0}  BY FieldTypes
  <2>2. attempt[i].on # 0  BY <1>8, FieldTypes DEF NoteDraft, Stage, WorkFits, AttemptFits, Holding
  <2>3. /\ autoLink' \in [Dues -> Link]
        /\ \A p \in Dues : autoLink'[p].st \in {"draft", "issued", "covered"} => autoLink'[p].paper # 0
    BY <1>8, <2>1, <2>2, WasMarked DEF NoteDraft
  <2>4. attempt' \in [Issuers -> Attempt]  BY <1>8, FieldTypes, Went DEF NoteDraft, Stages
  <2> QED  BY <1>8, <2>3, <2>4 DEF NoteDraft, invoicingHistory, InvoicingTypeOK
<1>9. ASSUME NEW i \in Issuers, Approve(i)  PROVE InvoicingTypeOK'
  <2>1. PICK step \in {"confirm", "fail"} : Goes(i, step, attempt[i])  BY <1>9 DEF Approve
  <2>2. attempt' \in [Issuers -> Attempt]  BY <2>1, FieldTypes, Went DEF Stages
  <2>3. moves' \in 0..MaxMoves  BY <1>9, MoveIsBounded DEF Approve, InvoicingTypeOK
  <2> QED  BY <1>9, <2>2, <2>3 DEF Approve, paperwork, invoicingHistory, InvoicingTypeOK
<1>10. ASSUME NEW i \in Issuers, Confirm(i)  PROVE InvoicingTypeOK'
  <2>1. attempt[i].on \in Papers  BY <1>10, FieldTypes DEF Confirm, Stage, WorkFits, AttemptFits, Holding
  <2>2. paper' \in [Papers -> Paper]  BY <1>10, <2>1, WasIssued DEF Confirm
  <2>3. attempt' \in [Issuers -> Attempt]  BY <1>10, FieldTypes, Went DEF Confirm, Stages
  <2> QED  BY <1>10, <2>2, <2>3 DEF Confirm, invoicingHistory, InvoicingTypeOK
<1>11. ASSUME NEW i \in Issuers, AnswerIssued(i)  PROVE InvoicingTypeOK'
  <2>1. attempt[i].ids \in SUBSET Dues /\ attempt[i].on \in Papers \cup {0}  BY FieldTypes
  <2>2. attempt[i].on # 0  BY <1>11, FieldTypes DEF AnswerIssued, Stage, WorkFits, AttemptFits, Holding
  <2>3. /\ autoLink' \in [Dues -> Link]
        /\ \A p \in Dues : autoLink'[p].st \in {"draft", "issued", "covered"} => autoLink'[p].paper # 0
    BY <1>11, <2>1, <2>2, WasMarked DEF AnswerIssued
  <2>4. attempt' \in [Issuers -> Attempt]  BY <1>11, Ended DEF AnswerIssued
  <2> QED  BY <1>11, <2>3, <2>4 DEF AnswerIssued, invoicingHistory, InvoicingTypeOK
<1>12. ASSUME NEW i \in Issuers, AnswerFailed(i)  PROVE InvoicingTypeOK'
  <2>1. attempt[i].ids \in SUBSET Dues /\ attempt[i].on \in Papers \cup {0}  BY FieldTypes
  <2>2. /\ autoLink' \in [Dues -> Link]
        /\ \A p \in Dues : autoLink'[p].st \in {"draft", "issued", "covered"} => autoLink'[p].paper # 0
    BY <1>12, <2>1, WasMarked DEF AnswerFailed
  <2>3. attempt' \in [Issuers -> Attempt]  BY <1>12, Ended DEF AnswerFailed
  <2> QED  BY <1>12, <2>2, <2>3 DEF AnswerFailed, invoicingHistory, InvoicingTypeOK
<1>13. ASSUME NEW i \in Issuers, Dies(i)  PROVE InvoicingTypeOK'
  <2>1. attempt' \in [Issuers -> Attempt]  BY <1>13, Ended DEF Dies
  <2>2. moves' \in 0..MaxMoves  BY <1>13, MoveIsBounded DEF Dies
  <2>3. crashed' \subseteq Dues  BY <1>13, FieldTypes DEF Dies, InvoicingTypeOK
  <2> QED  BY <1>13, <2>1, <2>2, <2>3 DEF Dies, paperwork, InvoicingTypeOK
<1>14. ASSUME NEW c \in Desks, OpenDraft(c)  PROVE InvoicingTypeOK'
  <2>1. PICK d \in Live, step \in {"confirm", "remove"} : Serve(c, step, [NoErrand EXCEPT !.on = d])
    BY <1>14 DEF OpenDraft
  <2>2. [NoErrand EXCEPT !.on = d] \in Errand  BY <2>1, FieldTypes DEF NoErrand, Errand
  <2>3. desk' \in [Desks -> Errand]  BY <2>1, <2>2, Served DEF ErrandSteps
  <2>4. moves' \in 0..MaxMoves  BY <1>14, MoveIsBounded DEF OpenDraft
  <2> QED  BY <1>14, <2>3, <2>4 DEF OpenDraft, paperwork, invoicingHistory, InvoicingTypeOK
<1>15. ASSUME NEW c \in Desks, ConfirmByHand(c)  PROVE InvoicingTypeOK'
  <2>1. desk[c].on \in Papers  BY <1>15, FieldTypes DEF ConfirmByHand, AtDesk, WorkFits, ErrandFits
  <2>2. paper' \in [Papers -> Paper]  BY <1>15, <2>1, WasIssued DEF ConfirmByHand
  <2>3. desk' \in [Desks -> Errand]  BY <1>15, NoErrandIsOne, Served DEF ConfirmByHand, ErrandSteps
  <2> QED  BY <1>15, <2>2, <2>3 DEF ConfirmByHand, invoicingHistory, InvoicingTypeOK
<1>16. ASSUME NEW c \in Desks, RemoveDraft(c)  PROVE InvoicingTypeOK'
  <2>1. desk[c].on \in Papers  BY <1>16, FieldTypes DEF RemoveDraft, AtDesk, WorkFits, ErrandFits
  <2>2. paper' \in [Papers -> Paper]  BY <1>16, <2>1, WasHidden DEF RemoveDraft
  <2>3. desk' \in [Desks -> Errand]  BY <1>16, NoErrandIsOne, Served DEF RemoveDraft, ErrandSteps
  <2> QED  BY <1>16, <2>2, <2>3 DEF RemoveDraft, invoicingHistory, InvoicingTypeOK
<1>17. ASSUME NEW c \in Desks, OpenProof(c)  PROVE InvoicingTypeOK'
  <2>1. PICK p \in Dues : Serve(c, "decide", [NoErrand EXCEPT !.on = p])  BY <1>17 DEF OpenProof
  <2>2. [NoErrand EXCEPT !.on = p] \in Errand  BY DEF NoErrand, Errand
  <2>3. desk' \in [Desks -> Errand]  BY <2>1, <2>2, Served DEF ErrandSteps
  <2> QED  BY <1>17, <2>3 DEF OpenProof, paperwork, invoicingHistory, InvoicingTypeOK
<1>18. ASSUME NEW c \in Desks, ReviewProof(c)  PROVE InvoicingTypeOK'
  <2>1. desk' \in [Desks -> Errand]  BY <1>18, FieldTypes, NoErrandIsOne, Served DEF ReviewProof, ErrandSteps
  <2>2. proof' \in [Dues -> {"none", "pending", "approved", "rejected"}]  BY <1>18 DEF ReviewProof, InvoicingTypeOK
  <2> QED  BY <1>18, <2>1, <2>2 DEF ReviewProof, invoicingHistory, InvoicingTypeOK
<1>19. ASSUME NEW c \in Desks, LookForInvoice(c)  PROVE InvoicingTypeOK'
  <2> DEFINE r == [desk[c] EXCEPT !.known = Over({desk[c].on})]
  <2>1. r \in Errand  BY FieldTypes DEF Errand, Over, Live
  <2>2. Serve(c, "idle", NoErrand) \/ Serve(c, "draft", r)  BY <1>19 DEF LookForInvoice
  <2>3. desk' \in [Desks -> Errand]  BY <2>1, <2>2, NoErrandIsOne, Served DEF ErrandSteps
  <2> QED  BY <1>19, <2>3 DEF LookForInvoice, paperwork, invoicingHistory, InvoicingTypeOK
<1>20. ASSUME NEW c \in Desks, DraftForProof(c)  PROVE InvoicingTypeOK'
  <2>1. PICK d \in NextPaper : DraftsForProof(c, d)  BY <1>20 DEF DraftForProof, DraftsForProof
  <2>2. desk[c].on \in Dues  BY <1>20 DEF DraftForProof, AtDesk, WorkFits, ErrandFits
  <2>3. paper' \in [Papers -> Paper]  BY <2>1, <2>2, WasDrafted DEF DraftsForProof
  <2>4. desk' \in [Desks -> Errand]  BY <1>20, NoErrandIsOne, Served DEF DraftForProof, ErrandSteps
  <2>5. late' \subseteq Papers /\ blind' \subseteq Papers  BY <2>1, FieldTypes DEF DraftsForProof, InvoicingTypeOK
  <2> QED  BY <1>20, <2>3, <2>4, <2>5 DEF DraftForProof, InvoicingTypeOK
<1>21. ASSUME NEW p \in Dues, DismissDue(p)  PROVE InvoicingTypeOK'
  <2>1. moves' \in 0..MaxMoves  BY <1>21, MoveIsBounded DEF DismissDue
  <2>2. [autoLink[p] EXCEPT !.st = "dismissed"] \in Link /\ [autoLink[p] EXCEPT !.st = "dismissed"].st = "dismissed"
    BY FieldTypes DEF Link
  <2> QED  BY <1>21, <2>1, <2>2 DEF DismissDue, invoicingHistory, InvoicingTypeOK
<1>22. ASSUME NEW p \in Dues, NoLongerDue(p)  PROVE InvoicingTypeOK'
  <2>1. moves' \in 0..MaxMoves  BY <1>22, MoveIsBounded DEF NoLongerDue
  <2> QED  BY <1>22, <2>1 DEF NoLongerDue, invoicingHistory, InvoicingTypeOK
<1>23. ASSUME NEW p \in Dues, SubmitProof(p)  PROVE InvoicingTypeOK'
  <2>1. moves' \in 0..MaxMoves  BY <1>23, MoveIsBounded DEF SubmitProof
  <2> QED  BY <1>23, <2>1 DEF SubmitProof, invoicingHistory, InvoicingTypeOK
<1>24. ASSUME CreateByHand  PROVE InvoicingTypeOK'
  <2>1. moves' \in 0..MaxMoves  BY <1>24, MoveIsBounded DEF CreateByHand
  <2>2. PICK d \in NextPaper : DraftsByHand(d)  BY <1>24 DEF CreateByHand, DraftsByHand
  <2>4. paper' \in [Papers -> Paper]  BY <2>2, HandDrafts
  <2> QED  BY <1>24, <2>1, <2>4 DEF CreateByHand, invoicingHistory, InvoicingTypeOK
<1>25. ASSUME ClaimsAge  PROVE InvoicingTypeOK'
  <2>1. moves' \in 0..MaxMoves  BY <1>25, MoveIsBounded DEF ClaimsAge, InvoicingTypeOK
  <2>2. autoLink' \in [Dues -> Link] /\ \A p \in Dues : autoLink'[p].st = autoLink[p].st /\ autoLink'[p].paper = autoLink[p].paper
    BY <1>25, AgedLinks
  <2> QED  BY <1>25, <2>1, <2>2 DEF ClaimsAge, invoicingHistory, InvoicingTypeOK
<1> QED  BY <1>1, <1>2, <1>3, <1>4, <1>5, <1>6, <1>7, <1>8, <1>9, <1>10, <1>11, <1>12, <1>13, <1>14, <1>15, <1>16, <1>17, <1>18, <1>19, <1>20, <1>21, <1>22, <1>23, <1>24, <1>25 DEF InvoicingNext, Issuing

-----------------------------------------------------------------------------
(* What lasts.                                                              *)

\* A document once made keeps its maker and what it covers, and stays what it is.
Lasts(d) ==
    /\ paper'[d].by = paper[d].by /\ paper'[d].head = paper[d].head /\ paper'[d].covers = paper[d].covers
    /\ paper'[d].status # "none"
    /\ paper[d].status = "confirmed" => paper'[d].status = "confirmed"
    /\ paper[d].hidden => paper'[d].hidden

LEMMA PapersLast ==
    ASSUME InvoicingTypeOK, WorkFits, InvoicingNext
    PROVE  \A d \in Made : Lasts(d)
<1>1. CASE UNCHANGED paper  BY <1>1 DEF Lasts, Made
<1>2. ASSUME NEW d \in Papers, d \notin Made, \A e \in Papers : e # d => paper'[e] = paper[e]
      PROVE  \A e \in Made : Lasts(e)
  BY <1>2 DEF Lasts, Made
<1>3. ASSUME NEW i \in Issuers, Insert(i)  PROVE \A d \in Made : Lasts(d)
  BY <1>1, <1>2, <1>3, InsertCases, InsertDrafts DEF InsertRefused
<1>4. ASSUME NEW i \in Issuers, Confirm(i)  PROVE \A d \in Made : Lasts(d)
  <2>1. attempt[i].on \in Made  BY <1>4 DEF Confirm, Stage, WorkFits, AttemptFits, Holding
  <2>2. attempt[i].on \in Papers  BY <2>1 DEF Made
  <2> QED  BY <1>4, <2>2, WasIssued DEF Confirm, Lasts, Made
<1>5. ASSUME NEW c \in Desks, ConfirmByHand(c)  PROVE \A d \in Made : Lasts(d)
  <2>1. desk[c].on \in Papers  BY <1>5 DEF ConfirmByHand, AtDesk, WorkFits, ErrandFits, Made
  <2> QED  BY <1>5, <2>1, WasIssued DEF ConfirmByHand, Lasts, Made
<1>6. ASSUME NEW c \in Desks, RemoveDraft(c)  PROVE \A d \in Made : Lasts(d)
  <2>1. desk[c].on \in Papers  BY <1>6 DEF RemoveDraft, AtDesk, WorkFits, ErrandFits, Made
  <2> QED  BY <1>6, <2>1, WasHidden DEF RemoveDraft, Lasts, Made
<1>7. ASSUME NEW c \in Desks, DraftForProof(c)  PROVE \A d \in Made : Lasts(d)
  <2>1. PICK d \in NextPaper : DraftsForProof(c, d)  BY <1>7 DEF DraftForProof, DraftsForProof
  <2> QED  BY <1>2, <1>7, <2>1, ProofDrafts
<1>8. ASSUME CreateByHand  PROVE \A d \in Made : Lasts(d)
  <2>1. PICK d \in NextPaper : DraftsByHand(d)  BY <1>8 DEF CreateByHand, DraftsByHand
  <2> QED  BY <1>2, <2>1, HandDrafts
<1> QED
  BY <1>1, <1>3, <1>4, <1>5, <1>6, <1>7, <1>8
  DEF InvoicingNext, Issuing, paperwork, ListDaily, IssueNow, ClaimGroup, LookAgain, AnswerOthers, CheckReceipt,
      NoteDraft, Approve, AnswerIssued, AnswerFailed, Dies, OpenDraft, OpenProof, ReviewProof, LookForInvoice,
      DismissDue, NoLongerDue, SubmitProof, ClaimsAge

\* How a document comes to be.
IsNew(d) ==
    /\ d \in NextPaper
    /\ \/ \E i \in Issuers : Insert(i) /\ Inserts(i, d)
       \/ \E c \in Desks : DraftForProof(c) /\ DraftsForProof(c, d)
       \/ CreateByHand /\ DraftsByHand(d)

LEMMA NewPapers ==
    ASSUME InvoicingTypeOK, WorkFits, InvoicingNext
    PROVE  \A d \in Made' \ Made : IsNew(d)
<1>1. CASE UNCHANGED paper  BY <1>1 DEF Made, Papers
<1>2. ASSUME NEW d \in Papers, IsNew(d), \A e \in Papers : e # d => paper'[e] = paper[e]
      PROVE  \A e \in Made' \ Made : IsNew(e)
  BY <1>2 DEF Made, Papers
<1>3. ASSUME NEW i \in Issuers, Insert(i)  PROVE \A d \in Made' \ Made : IsNew(d)
  <2>1. CASE \E d \in NextPaper : Inserts(i, d)
    <3>1. PICK d \in NextPaper : Inserts(i, d)  BY <2>1
    <3>2. IsNew(d)  BY <1>3, <3>1 DEF IsNew
    <3> QED  BY <1>2, <1>3, <3>1, <3>2, InsertDrafts
  <2>2. CASE InsertRefused(i)  BY <1>1, <2>2 DEF InsertRefused
  <2> QED  BY <1>3, <2>1, <2>2, InsertCases
<1>4. ASSUME NEW d \in Made, Issued(d)  PROVE \A e \in Made' \ Made : IsNew(e)
  <2>1. d \in Papers  BY DEF Made
  <2> QED  BY <1>4, <2>1, WasIssued DEF Made, Papers
<1>5. ASSUME NEW i \in Issuers, Confirm(i)  PROVE \A d \in Made' \ Made : IsNew(d)
  BY <1>4, <1>5 DEF Confirm, Stage, WorkFits, AttemptFits, Holding
<1>6. ASSUME NEW c \in Desks, ConfirmByHand(c)  PROVE \A d \in Made' \ Made : IsNew(d)
  BY <1>4, <1>6 DEF ConfirmByHand, AtDesk, WorkFits, ErrandFits
<1>7. ASSUME NEW c \in Desks, RemoveDraft(c)  PROVE \A d \in Made' \ Made : IsNew(d)
  <2>1. desk[c].on \in Papers  BY <1>7 DEF RemoveDraft, AtDesk, WorkFits, ErrandFits, Made
  <2> QED  BY <1>7, <2>1, WasHidden DEF RemoveDraft, Made, Papers
<1>8. ASSUME NEW c \in Desks, DraftForProof(c)  PROVE \A d \in Made' \ Made : IsNew(d)
  <2>1. PICK d \in NextPaper : DraftsForProof(c, d)  BY <1>8 DEF DraftForProof, DraftsForProof
  <2>2. IsNew(d)  BY <1>8, <2>1 DEF IsNew
  <2> QED  BY <1>2, <1>8, <2>1, <2>2, ProofDrafts
<1>9. ASSUME CreateByHand  PROVE \A d \in Made' \ Made : IsNew(d)
  <2>1. PICK d \in NextPaper : DraftsByHand(d)  BY <1>9 DEF CreateByHand, DraftsByHand
  <2>2. IsNew(d)  BY <1>9, <2>1 DEF IsNew
  <2> QED  BY <1>2, <2>1, <2>2, HandDrafts
<1> QED
  BY <1>1, <1>3, <1>5, <1>6, <1>7, <1>8, <1>9
  DEF InvoicingNext, Issuing, paperwork, ListDaily, IssueNow, ClaimGroup, LookAgain, AnswerOthers, CheckReceipt,
      NoteDraft, Approve, AnswerIssued, AnswerFailed, Dies, OpenDraft, OpenProof, ReviewProof, LookForInvoice,
      DismissDue, NoLongerDue, SubmitProof, ClaimsAge

\* What is written down for the properties is never struck out.
LEMMA HistoryGrows ==
    ASSUME InvoicingNext
    PROVE  crashed \subseteq crashed' /\ leftOut \subseteq leftOut' /\ overtaken \subseteq overtaken'
           /\ late \subseteq late' /\ blind \subseteq blind'
  BY DEF InvoicingNext, Issuing, invoicingHistory, ListDaily, IssueNow, ClaimGroup, LookAgain, AnswerOthers,
         CheckReceipt, Insert, NoteDraft, Approve, Confirm, AnswerIssued, AnswerFailed, Dies, OpenDraft,
         ConfirmByHand, RemoveDraft, OpenProof, ReviewProof, LookForInvoice, DraftForProof, DismissDue,
         NoLongerDue, SubmitProof, CreateByHand, ClaimsAge

-----------------------------------------------------------------------------
(* Attempts.                                                                *)

AttemptStep(i) == ListDaily(i) \/ IssueNow(i) \/ Issuing(i) \/ Dies(i)

LEMMA OnlyItsSteps ==
    ASSUME InvoicingTypeOK, InvoicingNext, NEW i \in Issuers
    PROVE  attempt'[i] = attempt[i] \/ AttemptStep(i)
<1>1. ASSUME NEW j \in Issuers, AttemptStep(j), j # i  PROVE attempt'[i] = attempt[i]
  <2>1. attempt \in [Issuers -> Attempt]  BY DEF InvoicingTypeOK
  <2>2. \/ \E a : attempt' = [attempt EXCEPT ![j] = a]
    BY <1>1 DEF AttemptStep, Issuing, ListDaily, IssueNow, ClaimGroup, LookAgain, AnswerOthers, CheckReceipt, Insert,
                NoteDraft, Approve, Confirm, AnswerIssued, AnswerFailed, Dies, Goes, EndAttempt
  <2> QED  BY <1>1, <2>1, <2>2
<1> QED
  BY <1>1 DEF InvoicingNext, AttemptStep, OpenDraft, ConfirmByHand, RemoveDraft, OpenProof, ReviewProof, LookForInvoice,
              DraftForProof, DismissDue, NoLongerDue, SubmitProof, CreateByHand, ClaimsAge

LEMMA LooksAgain ==
    ASSUME InvoicingTypeOK, NEW i \in Issuers, LookAgain(i)
    PROVE  /\ attempt[i].at = "look" /\ attempt'[i].at = "mark"
           /\ attempt'[i].ids = attempt[i].ids /\ attempt'[i].known = Over(attempt[i].ids)
           /\ attempt'[i].own \in Over(attempt[i].ids) \cup {0}
<1> DEFINE found == Over(attempt[i].ids)
           own == {d \in found : d = attempt[i].own /\ paper[d].status = "draft"}
           a == [attempt[i] EXCEPT !.known = found, !.sure = found \cap Confirmed, !.own = IF own = {} THEN 0 ELSE @]
<1>1. Goes(i, "mark", a) /\ attempt[i].at = "look"  BY DEF LookAgain, Stage
<1>2. found \subseteq Papers  BY DEF Over, Live
<1>3. /\ a \in Attempt /\ a.known = found /\ a.ids = attempt[i].ids
      /\ a.own = IF own = {} THEN 0 ELSE attempt[i].own
  BY <1>2, FieldTypes DEF Attempt
<1>4. a.own \in found \cup {0}  BY <1>3
<1>5. PICK b \in Attempt : Goes(i, "mark", b) /\ b.known = found /\ b.ids = attempt[i].ids /\ b.own \in found \cup {0}
  BY <1>1, <1>3, <1>4
<1>6. "mark" \in Stages  BY DEF Stages
<1> QED  BY <1>1, <1>5, <1>6, Went

\* What AnswerOthers makes of an attempt: it ends, drafts what is left, or approves
\* the draft it adopts.
LEMMA AnswersOthers ==
    ASSUME InvoicingTypeOK, NEW i \in Issuers, AnswerOthers(i)
    PROVE  LET a == attempt[i]
               others == a.known \ {a.own}
               taken == {p \in a.ids : \E d \in others : p \in paper[d].covers}
               b == attempt'[i]
           IN /\ a.at = "mark"
              /\ \/ a.ids \subseteq taken /\ b = NoAttempt
                 \/ /\ a.own = 0 /\ b.at \in {"check", "insert"} /\ b.ids = a.ids \ taken /\ b.ids # {} /\ b.known = a.known
                 \/ /\ a.own # 0 /\ b.at = "approve" /\ b.on = a.own /\ b.ids = (a.ids \ taken) \cap paper[a.own].covers
                    /\ (a.ids \ taken) \ b.ids \subseteq leftOut'
<1> DEFINE a == attempt[i]
           others == a.known \ {a.own}
           taken == {p \in a.ids : \E d \in others : p \in paper[d].covers}
           rest == a.ids \ taken
           lines == IF a.own = 0 THEN rest ELSE rest \cap paper[a.own].covers
           g == [a EXCEPT !.ids = lines, !.own = 0, !.on = a.own, !.sure = {}, !.known = IF a.own = 0 THEN @ ELSE {}]
<1>1. a.at = "mark" /\ leftOut' = leftOut \cup (rest \ lines)  BY DEF AnswerOthers, Stage
<1>2. CASE rest = {}
  <2>1. EndAttempt(i)  BY <1>2 DEF AnswerOthers
  <2> QED  BY <1>1, <1>2, <2>1, Ended
<1>3. CASE rest # {}
  <2>1. PICK next \in IF a.own = 0 THEN {"check", "insert"} ELSE {"approve"} : Goes(i, next, g)  BY <1>3 DEF AnswerOthers
  <2>2. next \in Stages  BY <2>1 DEF Stages
  <2>3. /\ g \in Attempt /\ g.ids = lines /\ g.on = a.own /\ g.known = IF a.own = 0 THEN a.known ELSE {}
    BY FieldTypes DEF Attempt
  <2>4. PICK b \in Attempt : Goes(i, next, b) /\ b.ids = lines /\ b.on = a.own /\ b.known = IF a.own = 0 THEN a.known ELSE {}
    BY <2>1, <2>3
  <2>5. /\ attempt'[i].at = next /\ attempt'[i].ids = lines /\ attempt'[i].on = a.own
        /\ attempt'[i].known = IF a.own = 0 THEN a.known ELSE {}
    BY <2>2, <2>4, Went
  <2> QED  BY <1>1, <1>3, <2>1, <2>5
<1> QED  BY <1>2, <1>3

\* What the other steps make of an attempt.
LEMMA GoesOn ==
    ASSUME InvoicingTypeOK, WorkFits, NEW i \in Issuers, AttemptStep(i), ~LookAgain(i), ~AnswerOthers(i)
    PROVE  LET a == attempt[i]
               b == attempt'[i]
           IN \/ /\ b.at \in {"idle", "claim"}
                 /\ ListDaily(i) \/ IssueNow(i) \/ ClaimGroup(i) \/ AnswerIssued(i) \/ AnswerFailed(i) \/ Dies(i)
              \/ b.at = "look" /\ ClaimGroup(i)
              \/ a.at \in {"check", "insert", "receipt", "approve"} /\ b.at = "fail" /\ b.ids = a.ids
              \/ a.at = "check" /\ b.at = "receipt" /\ b.ids = a.ids /\ b.known = a.known /\ UNCHANGED paper
              \/ a.at \in {"insert", "receipt"} /\ b.at = "note" /\ b.ids = a.ids /\ Insert(i) /\ \E d \in NextPaper : Inserts(i, d) /\ b.on = d
              \/ a.at = "note" /\ b.at = "approve" /\ b.ids = a.ids /\ b.on = a.on
              \/ a.at = "approve" /\ b.at = "confirm" /\ b.ids = a.ids /\ b.on = a.on
              \/ a.at = "confirm" /\ b.at = "answer" /\ b.ids = a.ids /\ b.on = a.on /\ Issued(a.on)
<1>1. ASSUME NEW step \in {"claim", "look"}, NEW a \in Attempt, Goes(i, step, a)  PROVE attempt'[i].at = step
  BY <1>1, Went DEF Stages
<1>2. ASSUME NEW step \in {"fail", "note", "receipt", "approve", "confirm", "answer"}, NEW a \in Attempt, Goes(i, step, a)
      PROVE  /\ attempt'[i].at = step /\ attempt'[i].ids = a.ids /\ attempt'[i].known = a.known /\ attempt'[i].on = a.on
  BY <1>2, Went DEF Stages
<1>3. attempt[i] \in Attempt  BY FieldTypes
<1>4. CASE ListDaily(i)
  <2>1. PICK ids \in SUBSET Dues : Goes(i, "claim", [NoAttempt EXCEPT !.ids = ids])
    BY <1>4 DEF ListDaily, Uninvoiced, InvoicingTypeOK
  <2>2. [NoAttempt EXCEPT !.ids = ids] \in Attempt  BY DEF NoAttempt, Attempt, Stages
  <2> QED  BY <1>4, <2>1, <2>2, <1>1
<1>5. CASE IssueNow(i)
  <2>1. PICK ids \in SUBSET Dues : Goes(i, "claim", [NoAttempt EXCEPT !.ids = ids, !.origin = "bulk"])
    BY <1>5 DEF IssueNow, Uninvoiced, InvoicingTypeOK
  <2>2. [NoAttempt EXCEPT !.ids = ids, !.origin = "bulk"] \in Attempt  BY DEF NoAttempt, Attempt, Stages
  <2> QED  BY <1>5, <2>1, <2>2, <1>1
<1>6. CASE ClaimGroup(i)
  <2>1. CASE EndAttempt(i)  BY <1>6, <2>1, Ended, NoAttemptIsOne
  <2>2. CASE \E own \in Papers \cup {0} : Goes(i, "look", [attempt[i] EXCEPT !.origin = "auto", !.own = own])
    <3>1. PICK own \in Papers \cup {0} : Goes(i, "look", [attempt[i] EXCEPT !.origin = "auto", !.own = own])  BY <2>2
    <3>2. [attempt[i] EXCEPT !.origin = "auto", !.own = own] \in Attempt  BY FieldTypes DEF Attempt
    <3> QED  BY <3>1, <3>2, <1>1, <1>6
  <2>3. \A p \in attempt[i].ids : autoLink[p].paper \in Papers \cup {0}  BY FieldTypes DEF Link
  <2> QED  BY <1>6, <2>1, <2>2, <2>3 DEF ClaimGroup
<1>7. CASE CheckReceipt(i)
  <2> DEFINE found == Over(attempt[i].ids)
             a == [attempt[i] EXCEPT !.known = IF found = {} THEN @ ELSE {}]
  <2>1. attempt[i].at = "check" /\ UNCHANGED paper  BY <1>7 DEF CheckReceipt, Stage, paperwork
  <2>2. CASE found = {}
    <3>1. a \in Attempt /\ a.known = attempt[i].known /\ a.ids = attempt[i].ids  BY <2>2, FieldTypes DEF Attempt
    <3>2. PICK b \in Attempt : Goes(i, "receipt", b) /\ b.known = attempt[i].known /\ b.ids = attempt[i].ids
      BY <1>7, <2>2, <3>1 DEF CheckReceipt
    <3> QED  BY <2>1, <3>2, <1>2
  <2>3. CASE found # {}
    <3>1. a \in Attempt /\ a.ids = attempt[i].ids  BY FieldTypes DEF Attempt
    <3>2. PICK b \in Attempt : Goes(i, "fail", b) /\ b.ids = attempt[i].ids  BY <1>7, <2>3, <3>1 DEF CheckReceipt
    <3> QED  BY <2>1, <3>2, <1>2
  <2> QED  BY <2>2, <2>3
<1>8. CASE Insert(i)
  <2>1. attempt[i].at \in {"insert", "receipt"}  BY <1>8 DEF Insert, Stage
  <2>2. CASE \E d \in NextPaper : Inserts(i, d)
    <3>1. PICK d \in NextPaper : Inserts(i, d)  BY <2>2
    <3> DEFINE a == [attempt[i] EXCEPT !.on = d, !.known = {}]
    <3>2. Goes(i, "note", a)  BY <3>1 DEF Inserts
    <3>3. a \in Attempt /\ a.ids = attempt[i].ids /\ a.on = d  BY FieldTypes DEF Attempt
    <3>4. PICK b \in Attempt : Goes(i, "note", b) /\ b.ids = attempt[i].ids /\ b.on = d  BY <3>2, <3>3
    <3> QED  BY <1>8, <2>1, <3>1, <3>4, <1>2
  <2>3. CASE InsertRefused(i)
    <3> DEFINE a == [attempt[i] EXCEPT !.known = {}]
    <3>1. a \in Attempt /\ a.ids = attempt[i].ids  BY FieldTypes DEF Attempt
    <3>2. PICK b \in Attempt : Goes(i, "fail", b) /\ b.ids = attempt[i].ids  BY <2>3, <3>1 DEF InsertRefused
    <3> QED  BY <2>1, <3>2, <1>2
  <2> QED  BY <1>8, <2>2, <2>3, InsertCases
<1>9. CASE NoteDraft(i)  BY <1>9, <1>2, <1>3 DEF NoteDraft, Stage
<1>10. CASE Approve(i)  BY <1>10, <1>2, <1>3 DEF Approve, Stage
<1>11. CASE Confirm(i)  BY <1>11, <1>2, <1>3 DEF Confirm, Stage
<1>12. CASE AnswerIssued(i) \/ AnswerFailed(i) \/ Dies(i)
  BY <1>12, Ended, NoAttemptIsOne DEF AnswerIssued, AnswerFailed, Dies
<1> QED  BY <1>4, <1>5, <1>6, <1>7, <1>8, <1>9, <1>10, <1>11, <1>12 DEF AttemptStep, Issuing

LEMMA AttemptsFit ==
    ASSUME InvoicingTypeOK, WorkFits, InvoicingNext, NEW i \in Issuers
    PROVE  AttemptFits(attempt[i])'
<1>1. \A d \in Made : Lasts(d) /\ d \in Made'  BY PapersLast DEF Lasts, Made
<1>2. AttemptFits(attempt[i])  BY DEF WorkFits
<1>3. CASE attempt'[i] = attempt[i]  BY <1>1, <1>2, <1>3 DEF AttemptFits, Lasts, Holding
<1>4. CASE LookAgain(i)
  <2>1. Over(attempt[i].ids) \subseteq Made  BY DEF Over, Live, Made
  <2> QED  BY <1>1, <1>4, <2>1, LooksAgain DEF AttemptFits, Holding
<1>5. CASE AnswerOthers(i)
  <2>1. attempt[i].own # 0 => attempt[i].own \in Made  BY <1>2, <1>5, AnswersOthers DEF AttemptFits
  <2> QED  BY <1>1, <1>5, <2>1, AnswersOthers, NoAttemptIsOne DEF AttemptFits, Holding, Lasts
<1>6. CASE AttemptStep(i) /\ ~LookAgain(i) /\ ~AnswerOthers(i)
  <2> DEFINE a == attempt[i]
             b == attempt'[i]
  <2>1. CASE b.at \in {"idle", "claim", "look", "fail"}  BY <2>1 DEF AttemptFits, Holding
  <2>2. CASE a.at = "check" /\ b.at = "receipt" /\ b.ids = a.ids  BY <1>2, <2>2 DEF AttemptFits, Holding
  <2>3. CASE a.at \in {"insert", "receipt"} /\ b.at = "note" /\ b.ids = a.ids /\ Insert(i) /\ \E d \in NextPaper : Inserts(i, d) /\ b.on = d
    <3>1. PICK d \in NextPaper : Inserts(i, d) /\ b.on = d  BY <2>3
    <3>3. d \in Made' /\ paper'[d].covers = a.ids  BY <2>3, <3>1, InsertDrafts DEF Made
    <3> QED  BY <2>3, <3>1, <3>3 DEF AttemptFits, Holding
  <2>4. CASE a.at \in {"note", "approve"} /\ b.at \in {"approve", "confirm"} /\ b.ids = a.ids /\ b.on = a.on
    BY <1>1, <1>2, <2>4 DEF AttemptFits, Holding, Lasts
  <2>5. CASE a.at = "confirm" /\ b.at = "answer" /\ b.ids = a.ids /\ b.on = a.on /\ Issued(a.on)
    <3>1. a.on \in Made /\ a.on \in Papers  BY <1>2, <2>5 DEF AttemptFits, Holding, Made
    <3>2. paper'[a.on].status = "confirmed"  BY <2>5, <3>1, WasIssued
    <3> QED  BY <1>1, <1>2, <2>5, <3>1, <3>2 DEF AttemptFits, Holding, Lasts
  <2> QED  BY <1>6, <2>1, <2>2, <2>3, <2>4, <2>5, GoesOn
<1> QED  BY <1>3, <1>4, <1>5, <1>6, OnlyItsSteps

LEMMA ErrandsFit ==
    ASSUME InvoicingTypeOK, WorkFits, InvoicingNext, NEW c \in Desks
    PROVE  ErrandFits(desk[c])'
<1>1. \A d \in Made : Lasts(d) /\ d \in Made'  BY PapersLast DEF Lasts, Made
<1>2. ErrandFits(desk[c])  BY DEF WorkFits
<1>3. CASE desk'[c] = desk[c]  BY <1>1, <1>2, <1>3 DEF ErrandFits, Lasts
<1>5. CASE UNCHANGED desk  BY <1>3, <1>5
<1>6. ASSUME NEW b \in Desks, Serve(b, "idle", NoErrand)  PROVE ErrandFits(desk[c])'
  BY <1>3, <1>6, Served, NoErrandIsOne DEF ErrandFits, ErrandSteps
<1>7. ASSUME NEW b \in Desks, OpenDraft(b)  PROVE ErrandFits(desk[c])'
  <2>1. PICK d \in Live \ Confirmed, step \in {"confirm", "remove"} : Serve(b, step, [NoErrand EXCEPT !.on = d])
    BY <1>7 DEF OpenDraft
  <2>2. d \in Made /\ d \in Papers  BY DEF Made, Live
  <2>3. PICK r \in Errand : Serve(b, step, r) /\ r.on = d
    BY <2>1, <2>2 DEF NoErrand, Errand
  <2> QED  BY <1>1, <1>3, <2>2, <2>3, Served DEF ErrandFits, ErrandSteps
<1>8. ASSUME NEW b \in Desks, OpenProof(b)  PROVE ErrandFits(desk[c])'
  <2>1. PICK p \in Dues : Serve(b, "decide", [NoErrand EXCEPT !.on = p])  BY <1>8 DEF OpenProof
  <2>2. PICK r \in Errand : Serve(b, "decide", r) /\ r.on = p  BY <2>1 DEF NoErrand, Errand
  <2> QED  BY <1>3, <2>2, Served DEF ErrandFits, ErrandSteps
<1>9. ASSUME NEW b \in Desks, ReviewProof(b)  PROVE ErrandFits(desk[c])'
  <2>1. CASE Serve(b, "idle", NoErrand)  BY <1>6, <2>1
  <2>2. CASE Serve(b, "look", desk[b])
    <3>1. desk[b].on \in Dues  BY <1>9 DEF ReviewProof, AtDesk, WorkFits, ErrandFits
    <3> QED  BY <1>3, <2>2, <3>1, FieldTypes, Served DEF ErrandFits, ErrandSteps
  <2> QED  BY <1>9, <2>1, <2>2 DEF ReviewProof
<1>10. ASSUME NEW b \in Desks, LookForInvoice(b)  PROVE ErrandFits(desk[c])'
  <2>1. CASE Serve(b, "idle", NoErrand)  BY <1>6, <2>1
  <2>2. CASE /\ \A d \in Live : paper[d].head # desk[b].on
             /\ Serve(b, "draft", [desk[b] EXCEPT !.known = Over({desk[b].on})])
    <3>1. desk[b].on \in Dues  BY <1>10 DEF LookForInvoice, AtDesk, WorkFits, ErrandFits
    <3>2. Over({desk[b].on}) \subseteq Papers /\ Over({desk[b].on}) \subseteq Made /\ Over({desk[b].on}) \subseteq Live
      BY DEF Over, Live, Made
    <3> DEFINE known == Over({desk[b].on})
               g == [desk[b] EXCEPT !.known = known]
    <3>3. g \in Errand /\ g.on = desk[b].on /\ g.known = known  BY <3>2, FieldTypes DEF Errand
    <3>4. PICK r \in Errand : Serve(b, "draft", r) /\ r.on = desk[b].on /\ r.known = known  BY <2>2, <3>3
    <3>5. /\ desk'[b].at = "draft" /\ desk'[b].on = desk[b].on /\ desk'[b].known = known
          /\ \A e \in Desks : e # b => desk'[e] = desk[e]
      BY <3>4, Served DEF ErrandSteps
    <3>6. \A e \in known : e \in Made' /\ paper'[e].head # desk[b].on  BY <1>1, <2>2, <3>2 DEF Lasts
    <3> QED  BY <1>3, <3>1, <3>5, <3>6 DEF ErrandFits
  <2> QED  BY <1>10, <2>1, <2>2 DEF LookForInvoice
<1> QED
  BY <1>5, <1>6, <1>7, <1>8, <1>9, <1>10
  DEF InvoicingNext, Issuing, paperwork, ListDaily, IssueNow, ClaimGroup, LookAgain, AnswerOthers, CheckReceipt, Insert,
      NoteDraft, Approve, Confirm, AnswerIssued, AnswerFailed, Dies, ConfirmByHand, RemoveDraft, DraftForProof,
      DismissDue, NoLongerDue, SubmitProof, CreateByHand, ClaimsAge

-----------------------------------------------------------------------------
(* What is held, and what is known.                                         *)

LEMMA ClaimsHold ==
    ASSUME InvoicingTypeOK, NEW i \in Issuers, ClaimGroup(i)
    PROVE  /\ Holds(i) = {} /\ Holds(i)' \subseteq attempt[i].ids
           /\ \A j \in Issuers : j # i => Holds(j)' = Holds(j)
           /\ \A p \in Holds(i)', j \in Issuers : j # i /\ p \in Holds(j) => p \in overtaken'
           /\ \A p \in Dues : autoLink'[p] = autoLink[p] \/ (p \in Holds(i)' /\ autoLink'[p].st = "claimed")
<1>1. attempt[i].at = "claim" /\ Holds(i) = {}  BY DEF ClaimGroup, Stage, Holds
<1>2. CASE EndAttempt(i) /\ UNCHANGED <<autoLink, overtaken>>
  <2>1. Holds(i)' = {}  BY <1>2, Ended, NoAttemptIsOne DEF Holds
  <2>2. \A j \in Issuers : j # i => Holds(j)' = Holds(j)  BY <1>2, Ended DEF Holds
  <2>3. \A p \in Dues : autoLink'[p] = autoLink[p]  BY <1>2
  <2>4. \A p \in Holds(i)' : FALSE  BY <2>1
  <2> QED  BY <1>1, <2>1, <2>2, <2>3, <2>4
<1> DEFINE ids == attempt[i].ids
<1>3. CASE ~(EndAttempt(i) /\ UNCHANGED <<autoLink, overtaken>>)
  <2>1. /\ \A p \in ids : Claimable(p, attempt[i].origin)
        /\ autoLink' = [p \in Dues |-> IF p \notin ids THEN autoLink[p] ELSE [autoLink[p] EXCEPT !.st = "claimed", !.old = FALSE]]
        /\ overtaken' = overtaken \cup {p \in ids : /\ autoLink[p].st = "claimed" => autoLink[p].old
                                                    /\ \E j \in Issuers \ {i} : p \in Holds(j)}
    BY <1>3 DEF ClaimGroup
  <2>2. PICK own \in Papers \cup {0} : Goes(i, "look", [attempt[i] EXCEPT !.origin = "auto", !.own = own])
    <3>1. \A p \in ids : autoLink[p].paper \in Papers \cup {0}  BY FieldTypes DEF Link
    <3> QED  BY <1>3, <3>1 DEF ClaimGroup
  <2> DEFINE a == [attempt[i] EXCEPT !.origin = "auto", !.own = own]
  <2>8. a \in Attempt /\ a.ids = ids  BY FieldTypes DEF Attempt
  <2>3. PICK b \in Attempt : Goes(i, "look", b) /\ b.ids = ids  BY <2>2, <2>8
  <2>4. attempt'[i].at = "look" /\ attempt'[i].ids = ids /\ \A j \in Issuers : j # i => attempt'[j] = attempt[j]
    BY <2>3, Went DEF Stages
  <2>5. Holds(i)' = ids /\ \A j \in Issuers : j # i => Holds(j)' = Holds(j)  BY <2>4 DEF Holds
  <2>6. \A p \in ids : autoLink[p].st = "claimed" => autoLink[p].old
    <3> SUFFICES ASSUME NEW p \in ids, autoLink[p].st = "claimed"  PROVE autoLink[p].old
      OBVIOUS
    <3> QED  BY <2>1 DEF Claimable
  <2>7. \A p \in ids : autoLink'[p].st = "claimed"
    <3>1. \A p \in Dues : [autoLink[p] EXCEPT !.st = "claimed", !.old = FALSE].st = "claimed"  BY FieldTypes DEF Link
    <3> QED  BY <2>1, <3>1, FieldTypes
  <2>9. \A p \in ids, j \in Issuers : j # i /\ p \in Holds(j) => p \in overtaken'  BY <2>1, <2>6
  <2>10. \A p \in Dues : autoLink'[p] = autoLink[p] \/ (p \in ids /\ autoLink'[p].st = "claimed")
    <3>1. \A p \in Dues : p \notin ids => autoLink'[p] = autoLink[p]  BY <2>1
    <3> QED  BY <2>7, <3>1
  <2> QED  BY <1>1, <2>5, <2>9, <2>10
<1> QED  BY <1>2, <1>3

LEMMA HoldsNoMore ==
    ASSUME InvoicingTypeOK, WorkFits, InvoicingNext, NEW i \in Issuers
    PROVE  ClaimGroup(i) \/ Holds(i)' \subseteq Holds(i)
<1>1. CASE attempt'[i] = attempt[i]  BY <1>1 DEF Holds
<1>2. CASE LookAgain(i)  BY <1>2, LooksAgain DEF Holds
<1>3. CASE AnswerOthers(i)
  <2>1. attempt[i].at = "mark" /\ attempt'[i].ids \subseteq attempt[i].ids  BY <1>3, AnswersOthers, NoAttemptIsOne
  <2> QED  BY <2>1 DEF Holds
<1>4. CASE AttemptStep(i) /\ ~LookAgain(i) /\ ~AnswerOthers(i) /\ ~ClaimGroup(i)
  <2>1. CASE attempt'[i].at \in {"idle", "claim"}  BY <2>1 DEF Holds
  <2>2. CASE attempt'[i].at \notin {"idle", "claim"}
    <3>1. attempt[i].at \notin {"idle", "claim"} /\ attempt'[i].ids = attempt[i].ids  BY <1>4, <2>2, GoesOn
    <3> QED  BY <3>1 DEF Holds
  <2> QED  BY <2>1, <2>2
<1> QED  BY <1>1, <1>2, <1>3, <1>4, OnlyItsSteps

LEMMA OneHolderStep ==
    ASSUME InvoicingTypeOK, WorkFits, OneHolder, InvoicingNext
    PROVE  OneHolder'
<1> SUFFICES ASSUME NEW i \in Issuers, NEW j \in Issuers, NEW p \in Holds(i)' \cap Holds(j)', i # j  PROVE p \in overtaken'
  BY DEF OneHolder
<1>1. CASE ClaimGroup(i)  BY <1>1, ClaimsHold
<1>2. CASE ClaimGroup(j)  BY <1>2, ClaimsHold
<1>3. CASE ~ClaimGroup(i) /\ ~ClaimGroup(j)
  <2>1. p \in Holds(i) /\ p \in Holds(j)  BY <1>3, HoldsNoMore
  <2> QED  BY <2>1, HistoryGrows DEF OneHolder
<1> QED  BY <1>1, <1>2, <1>3

LEMMA KnownElsewhereStep ==
    ASSUME InvoicingTypeOK, WorkFits, KnownElsewhere, InvoicingNext
    PROVE  KnownElsewhere'
<1>1. \A d \in Made : Lasts(d) /\ d \in Made'  BY PapersLast DEF Lasts, Made
<1> SUFFICES ASSUME NEW i \in Issuers, attempt'[i].at \in {"check", "insert", "receipt"}
             PROVE  /\ attempt'[i].known \subseteq Made'
                    /\ \A d \in attempt'[i].known : paper'[d].covers \cap attempt'[i].ids = {}
  BY DEF KnownElsewhere, DraftsElsewhere
<1>2. DraftsElsewhere(attempt[i]) /\ AttemptFits(attempt[i])  BY DEF KnownElsewhere, WorkFits
<1>3. CASE attempt'[i] = attempt[i]  BY <1>1, <1>2, <1>3 DEF DraftsElsewhere, Lasts
<1>4. CASE LookAgain(i)  BY <1>4, LooksAgain
<1>5. CASE AnswerOthers(i)
  <2>1. /\ attempt[i].known \subseteq Made /\ attempt[i].own = 0 /\ attempt'[i].known = attempt[i].known
        /\ \A p \in attempt'[i].ids : ~\E d \in attempt[i].known \ {attempt[i].own} : p \in paper[d].covers
    BY <1>2, <1>5, AnswersOthers, NoAttemptIsOne DEF AttemptFits
  <2>2. 0 \notin attempt[i].known  BY FieldTypes
  <2> QED  BY <1>1, <2>1, <2>2 DEF Lasts
<1>6. CASE AttemptStep(i) /\ ~LookAgain(i) /\ ~AnswerOthers(i)
  <2>1. attempt[i].at = "check" /\ attempt'[i].ids = attempt[i].ids /\ attempt'[i].known = attempt[i].known
    BY <1>6, GoesOn
  <2> QED  BY <1>1, <1>2, <2>1 DEF DraftsElsewhere, Lasts
<1> QED  BY <1>3, <1>4, <1>5, <1>6, OnlyItsSteps

LEMMA MadeMeanwhileStep ==
    ASSUME InvoicingTypeOK, WorkFits, OneHolder, KnownElsewhere, MadeMeanwhile, InvoicingNext
    PROVE  MadeMeanwhile'
<1>1. \A d \in Made : Lasts(d)  BY PapersLast
<1> SUFFICES ASSUME NEW i \in Issuers, attempt'[i].at \in {"mark", "check", "insert", "receipt"},
                    NEW d \in Live' \ attempt'[i].known, paper'[d].by = "issuer",
                    NEW p \in paper'[d].covers \cap attempt'[i].ids
             PROVE  p \in overtaken'
  BY DEF MadeMeanwhile, OtherHeldIt
<1>2. d \in Papers /\ d \in Made'  BY DEF Live, Made
<1>3. overtaken \subseteq overtaken'  BY HistoryGrows
<1>4. d \in Made => d \in Live /\ paper'[d].by = paper[d].by /\ paper'[d].covers = paper[d].covers
  BY <1>1 DEF Lasts, Live, Made
<1>5. OtherHeldIt(attempt[i]) /\ AttemptFits(attempt[i]) /\ DraftsElsewhere(attempt[i])
  BY DEF MadeMeanwhile, WorkFits, KnownElsewhere
<1>6. CASE attempt'[i] = attempt[i]
  <2>1. CASE d \in Made  BY <1>3, <1>4, <1>5, <1>6, <2>1 DEF OtherHeldIt
  <2>2. CASE d \notin Made
    <3>1. IsNew(d)  BY <1>2, <2>2, NewPapers
    <3>2. PICK j \in Issuers : Insert(j) /\ Inserts(j, d)
      <4>1. ASSUME NEW c \in Desks, DraftForProof(c), DraftsForProof(c, d)  PROVE paper'[d].by = "proof"
        BY <3>1, <4>1, ProofDrafts DEF IsNew
      <4>2. DraftsByHand(d) => paper'[d].by = "hand"  BY <3>1, HandDrafts DEF IsNew
      <4> QED  BY <3>1, <4>1, <4>2 DEF IsNew
    <3>3. paper'[d].covers = attempt[j].ids  BY <3>1, <3>2, InsertDrafts DEF IsNew
    <3>4. attempt[j].at \in {"insert", "receipt"}  BY <3>2 DEF Insert, Stage
    <3>5. j # i
      <4>1. attempt'[j].at = "note"
        <5>1. [attempt[j] EXCEPT !.on = d, !.known = {}] \in Attempt  BY <1>2, FieldTypes DEF Attempt
        <5> QED  BY <3>2, <5>1, Went DEF Inserts, Stages
      <4> QED  BY <1>6, <3>4, <4>1
    <3>6. p \in Holds(i) \cap Holds(j)  BY <1>6, <3>3, <3>4 DEF Holds
    <3> QED  BY <1>3, <3>5, <3>6 DEF OneHolder
  <2> QED  BY <2>1, <2>2
<1>7. CASE AttemptStep(i) /\ UNCHANGED paper
  <2>1. d \in Live /\ d \in Made  BY <1>2, <1>7 DEF Live, Made, Papers
  <2>2. CASE LookAgain(i)
    <3>1. d \notin Over(attempt[i].ids) /\ p \in attempt[i].ids  BY <2>2, LooksAgain
    <3> QED  BY <1>4, <2>1, <3>1 DEF Over
  <2>3. CASE AnswerOthers(i)
    <3>1. attempt[i].at = "mark" /\ attempt'[i].ids \subseteq attempt[i].ids /\ attempt'[i].known = attempt[i].known
      BY <2>3, AnswersOthers, NoAttemptIsOne
    <3> QED  BY <1>3, <1>4, <1>5, <2>1, <3>1 DEF OtherHeldIt
  <2>4. CASE ~LookAgain(i) /\ ~AnswerOthers(i)
    <3>1. attempt[i].at = "check" /\ attempt'[i].ids = attempt[i].ids /\ attempt'[i].known = attempt[i].known
      BY <1>7, <2>4, GoesOn
    <3> QED  BY <1>3, <1>4, <1>5, <2>1, <3>1 DEF OtherHeldIt
  <2> QED  BY <2>2, <2>3, <2>4
<1>8. AttemptStep(i) => UNCHANGED paper
  <2>1. LookAgain(i) \/ AnswerOthers(i) => UNCHANGED paper  BY DEF LookAgain, AnswerOthers, paperwork
  <2>2. CASE AttemptStep(i) /\ ~LookAgain(i) /\ ~AnswerOthers(i)
    BY <2>2, GoesOn
  <2> QED  BY <2>1, <2>2
<1> QED  BY <1>6, <1>7, <1>8, OnlyItsSteps

-----------------------------------------------------------------------------
(* The links.                                                               *)

LinkIsTrue(p) ==
    /\ autoLink[p].st = "issued" => paper[autoLink[p].paper].status = "confirmed" /\ p \in paper[autoLink[p].paper].covers
    /\ autoLink[p].st \in {"claimed", "draft"} => p \in crashed \cup leftOut \/ \E i \in Issuers : p \in Holds(i)

\* A row that a step leaves alone, and whose holder keeps it, stays true.
LEMMA LinkLasts ==
    ASSUME InvoicingTypeOK, WorkFits, InvoicingNext, NEW p \in Dues, LinkIsTrue(p),
           autoLink'[p].st = autoLink[p].st, autoLink'[p].paper = autoLink[p].paper,
           \A i \in Issuers : p \in Holds(i) => p \in Holds(i)' \cup crashed' \cup leftOut'
    PROVE  LinkIsTrue(p)'
<1>1. CASE autoLink[p].st = "issued"
  <2>1. autoLink[p].paper \in Papers  BY <1>1, FieldTypes DEF InvoicingTypeOK, Link
  <2>2. autoLink[p].paper \in Made  BY <1>1, <2>1 DEF LinkIsTrue, Made
  <2> QED  BY <1>1, <2>2, PapersLast DEF LinkIsTrue, Lasts
<1>2. CASE autoLink[p].st # "issued"  BY <1>2, HistoryGrows DEF LinkIsTrue
<1> QED  BY <1>1, <1>2

\* Holders lose what they hold by answering it, by leaving it out, or by dying.
LEMMA KeepsHolding ==
    ASSUME InvoicingTypeOK, WorkFits, InvoicingNext, NEW i \in Issuers, NEW p \in Holds(i)
    PROVE  \/ p \in Holds(i)' \cup crashed' \cup leftOut'
           \/ AnswerOthers(i) /\ \E d \in attempt[i].known \ {attempt[i].own} : p \in paper[d].covers
           \/ AnswerIssued(i) \/ AnswerFailed(i)
<1>1. attempt[i].at \notin {"idle", "claim"} /\ p \in attempt[i].ids  BY DEF Holds
<1>2. CASE attempt'[i] = attempt[i]  BY <1>2 DEF Holds
<1>3. CASE LookAgain(i)  BY <1>1, <1>3, LooksAgain DEF Holds
<1>4. CASE AnswerOthers(i)
  <2>1. CASE ~\E d \in attempt[i].known \ {attempt[i].own} : p \in paper[d].covers
    <3>1. attempt'[i].at \in {"check", "insert", "approve"} /\ (p \in attempt'[i].ids \/ p \in leftOut')
      BY <1>1, <1>4, <2>1, AnswersOthers
    <3> QED  BY <3>1 DEF Holds
  <2> QED  BY <1>4, <2>1
<1>5. CASE Dies(i)  BY <1>5 DEF Dies
<1>6. CASE AttemptStep(i) /\ ~LookAgain(i) /\ ~AnswerOthers(i) /\ ~Dies(i) /\ ~AnswerIssued(i) /\ ~AnswerFailed(i)
  <2>1. ~ListDaily(i) /\ ~IssueNow(i) /\ ~ClaimGroup(i)  BY <1>1 DEF ListDaily, IssueNow, ClaimGroup, Stage
  <2>2. attempt'[i].at \notin {"idle", "claim"} /\ attempt'[i].ids = attempt[i].ids  BY <1>6, <2>1, GoesOn
  <2> QED  BY <1>1, <2>2 DEF Holds
<1> QED  BY <1>2, <1>3, <1>4, <1>5, <1>6, OnlyItsSteps

LEMMA LinksStep ==
    ASSUME InvoicingTypeOK, WorkFits, LinksAreTrue, InvoicingNext
    PROVE  LinksAreTrue'
<1> SUFFICES ASSUME NEW p \in Dues  PROVE LinkIsTrue(p)'
  BY DEF LinksAreTrue, LinkIsTrue
<1>1. LinkIsTrue(p)  BY DEF LinksAreTrue, LinkIsTrue
\* The row is written: it says what is so.
<1>2. ASSUME NEW i \in Issuers, p \in Holds(i)', autoLink'[p].st \in {"claimed", "draft"}  PROVE LinkIsTrue(p)'
  BY <1>2 DEF LinkIsTrue
<1>3. ASSUME autoLink'[p].st \in {"covered", "failed", "dismissed"}  PROVE LinkIsTrue(p)'
  BY <1>3 DEF LinkIsTrue
\* The row is left alone, and nobody lets go of it.
<1>4. ASSUME autoLink'[p].st = autoLink[p].st, autoLink'[p].paper = autoLink[p].paper,
             \A i \in Issuers : p \in Holds(i) => /\ ~AnswerIssued(i) /\ ~AnswerFailed(i)
                                                  /\ AnswerOthers(i) => ~\E d \in attempt[i].known \ {attempt[i].own} : p \in paper[d].covers
      PROVE  LinkIsTrue(p)'
  BY <1>1, <1>4, LinkLasts, KeepsHolding
<1>5. ASSUME NEW i \in Issuers, ClaimGroup(i)  PROVE LinkIsTrue(p)'
  <2>1. CASE p \in Holds(i)' /\ autoLink'[p].st = "claimed"  BY <1>2, <2>1
  <2>2. CASE autoLink'[p] = autoLink[p]
    <3>1. \A j \in Issuers : p \in Holds(j) => p \in Holds(j)'  BY <1>5, ClaimsHold
    <3> QED  BY <1>1, <2>2, <3>1, LinkLasts
  <2> QED  BY <1>5, <2>1, <2>2, ClaimsHold
<1>6. ASSUME NEW i \in Issuers, AnswerOthers(i)  PROVE LinkIsTrue(p)'
  <2> DEFINE a == attempt[i]
             others == a.known \ {a.own}
             taken == {q \in a.ids : \E d \in others : q \in paper[d].covers}
  <2>1. PICK of \in [taken -> others] :
          autoLink' = [q \in Dues |-> IF q \notin taken THEN autoLink[q]
                                     ELSE [st |-> IF of[q] \in a.sure THEN "covered" ELSE "failed", paper |-> of[q], old |-> FALSE]]
    BY <1>6 DEF AnswerOthers
  <2>2. CASE p \in taken
    <3>1. autoLink'[p].st \in {"covered", "failed"}  BY <2>1, <2>2
    <3> QED  BY <1>3, <3>1
  <2>3. CASE p \notin taken
    <3>1. autoLink'[p] = autoLink[p]  BY <2>1, <2>3
    <3>2. \A j \in Issuers : p \in Holds(j) => p \in Holds(j)' \cup crashed' \cup leftOut'
      <4>1. ASSUME NEW j \in Issuers, j # i  PROVE Holds(j)' = Holds(j)
        <5>1. attempt'[j] = attempt[j]
          <6>1. \E b : attempt' = [attempt EXCEPT ![i] = b]  BY <1>6 DEF AnswerOthers, Goes, EndAttempt
          <6> QED  BY <4>1, <6>1 DEF InvoicingTypeOK
        <5> QED  BY <5>1 DEF Holds
      <4>2. p \in Holds(i) => p \in Holds(i)' \cup crashed' \cup leftOut'
        <5>1. p \in Holds(i) => p \in a.ids  BY DEF Holds
        <5>2. attempt[i].at = "mark"  BY <1>6 DEF AnswerOthers, Stage
        <5>3. p \in Holds(i) => ~AnswerIssued(i) /\ ~AnswerFailed(i)  BY <5>2 DEF AnswerIssued, AnswerFailed, Stage
        <5> QED  BY <2>3, <5>1, <5>3, KeepsHolding
      <4> QED  BY <4>1, <4>2
    <3> QED  BY <1>1, <3>1, <3>2, LinkLasts
  <2> QED  BY <2>2, <2>3
<1>7. ASSUME NEW i \in Issuers, NEW st \in {"draft", "issued", "failed"}, NoteDraft(i) \/ AnswerIssued(i) \/ AnswerFailed(i),
             st \in {"draft", "issued"} => attempt[i].on # 0, autoLink' = Marked(attempt[i].ids, st, attempt[i].on)
      PROVE  /\ p \in attempt[i].ids => autoLink'[p].st = st /\ (attempt[i].on # 0 => autoLink'[p].paper = attempt[i].on)
             /\ p \notin attempt[i].ids => LinkIsTrue(p)'
  <2>1. attempt[i].ids \in SUBSET Dues /\ attempt[i].on \in Papers \cup {0}  BY FieldTypes
  <2>2. /\ \A q \in attempt[i].ids : autoLink'[q].st = st /\ (attempt[i].on # 0 => autoLink'[q].paper = attempt[i].on)
        /\ \A q \in Dues \ attempt[i].ids : autoLink'[q] = autoLink[q]
    BY <1>7, <2>1 DEF Marked, InvoicingTypeOK
  <2>3. \A j \in Issuers : j # i => attempt'[j] = attempt[j]
    BY <1>7, FieldTypes, Went, Ended DEF NoteDraft, AnswerIssued, AnswerFailed, Stages
  <2>4. \A j \in Issuers : j # i => Holds(j)' = Holds(j)  BY <2>3 DEF Holds
  <2>5. p \notin attempt[i].ids => p \notin Holds(i)  BY DEF Holds
  <2>6. p \notin attempt[i].ids => LinkIsTrue(p)'  BY <1>1, <2>2, <2>4, <2>5, LinkLasts
  <2> QED  BY <2>2, <2>6
<1>8. ASSUME NEW i \in Issuers, NoteDraft(i)  PROVE LinkIsTrue(p)'
  <2>1. attempt[i].on # 0  BY <1>8, FieldTypes DEF NoteDraft, Stage, WorkFits, AttemptFits, Holding
  <2>2. p \in attempt[i].ids => p \in Holds(i)'  BY <1>8, FieldTypes, Went DEF NoteDraft, Stages, Holds
  <2> QED  BY <1>2, <1>7, <1>8, <2>1, <2>2 DEF NoteDraft
<1>9. ASSUME NEW i \in Issuers, AnswerIssued(i)  PROVE LinkIsTrue(p)'
  <2>1. attempt[i].on \in Made /\ attempt[i].ids \subseteq paper[attempt[i].on].covers /\ paper[attempt[i].on].status = "confirmed"
    BY <1>9 DEF AnswerIssued, Stage, WorkFits, AttemptFits, Holding
  <2>2. attempt[i].on # 0  BY <2>1, FieldTypes
  <2>3. UNCHANGED paper  BY <1>9 DEF AnswerIssued
  <2>4. p \in attempt[i].ids => autoLink'[p].st = "issued" /\ autoLink'[p].paper = attempt[i].on
    BY <1>7, <1>9, <2>2 DEF AnswerIssued
  <2>5. p \in attempt[i].ids => LinkIsTrue(p)'  BY <2>1, <2>3, <2>4 DEF LinkIsTrue
  <2> QED  BY <1>7, <1>9, <2>2, <2>5 DEF AnswerIssued
<1>10. ASSUME NEW i \in Issuers, AnswerFailed(i)  PROVE LinkIsTrue(p)'
  BY <1>3, <1>7, <1>10 DEF AnswerFailed
<1>11. ASSUME ClaimsAge  PROVE LinkIsTrue(p)'
  <2>1. autoLink'[p].st = autoLink[p].st /\ autoLink'[p].paper = autoLink[p].paper  BY <1>11, AgedLinks
  <2>2. \A i \in Issuers : Holds(i)' = Holds(i)  BY <1>11 DEF ClaimsAge, Holds
  <2> QED  BY <1>1, <2>1, <2>2, LinkLasts
<1>12. ASSUME NEW q \in Dues, DismissDue(q)  PROVE LinkIsTrue(p)'
  <2>1. autoLink' = [autoLink EXCEPT ![q] = [autoLink[q] EXCEPT !.st = "dismissed"]] /\ UNCHANGED attempt
    BY <1>12 DEF DismissDue
  <2>2. \A i \in Issuers : Holds(i)' = Holds(i)  BY <2>1 DEF Holds
  <2>3. CASE p = q
    <3>1. autoLink'[p].st = "dismissed"  BY <2>1, <2>3, FieldTypes DEF Link, InvoicingTypeOK
    <3> QED  BY <1>3, <3>1
  <2>4. CASE p # q
    <3>1. autoLink'[p] = autoLink[p]  BY <2>1, <2>4 DEF InvoicingTypeOK
    <3> QED  BY <1>1, <2>2, <3>1, LinkLasts
  <2> QED  BY <2>3, <2>4
<1>13. ASSUME UNCHANGED autoLink, \A i \in Issuers : ~AnswerIssued(i) /\ ~AnswerFailed(i) /\ ~AnswerOthers(i)
       PROVE  LinkIsTrue(p)'
  BY <1>4, <1>13
<1>14. CASE \E i \in Issuers : AnswerIssued(i) \/ AnswerFailed(i) \/ AnswerOthers(i)
  BY <1>6, <1>9, <1>10, <1>14
<1>15. CASE \A i \in Issuers : ~AnswerIssued(i) /\ ~AnswerFailed(i) /\ ~AnswerOthers(i)
  BY <1>5, <1>8, <1>11, <1>12, <1>13, <1>15
  DEF InvoicingNext, Issuing, paperwork, ListDaily, IssueNow, LookAgain, CheckReceipt, Insert, Approve, Confirm, Dies,
      OpenDraft, ConfirmByHand, RemoveDraft, OpenProof, ReviewProof, LookForInvoice, DraftForProof, NoLongerDue,
      SubmitProof, CreateByHand
<1> QED  BY <1>14, <1>15

-----------------------------------------------------------------------------
(* The documents.                                                           *)

LEMMA MadeInOrderStep ==
    ASSUME InvoicingTypeOK, WorkFits, MadeInOrder, InvoicingNext
    PROVE  MadeInOrder'
<1> SUFFICES ASSUME NEW d \in Made', NEW e \in Papers, e < d  PROVE e \in Made'
  BY DEF MadeInOrder, Papers
<1>1. \A c \in Made : c \in Made'  BY PapersLast DEF Lasts, Made, Papers
<1>2. CASE d \in Made  BY <1>1, <1>2 DEF MadeInOrder
<1>3. CASE d \notin Made  BY <1>1, <1>3, NewPapers DEF IsNew, NextPaper, Made
<1> QED  BY <1>2, <1>3

\* What a new document says of one that was there, if both cover an installment.
LEMMA NewBeside ==
    ASSUME InvoicingTypeOK, WorkFits, KnownElsewhere, MadeMeanwhile, InvoicingNext,
           NEW e, IsNew(e), NEW d \in Live, NEW p \in Dues, p \in paper[d].covers, p \in paper'[e].covers
    PROVE  /\ paper'[e].by = "hand" \/ e \in late' \cup blind'
           /\ paper[d].by = "issuer" /\ paper'[e].by = "issuer" => p \in overtaken
<1>1. d \in Made  BY DEF Live, Made
<1>2. CASE \E i \in Issuers : Insert(i) /\ Inserts(i, e)
  <2>1. PICK i \in Issuers : Insert(i) /\ Inserts(i, e)  BY <1>2
  <2>2. attempt[i].at \in {"insert", "receipt"}  BY <2>1 DEF Insert, Stage
  <2>3. p \in attempt[i].ids  BY <2>1, InsertDrafts DEF IsNew
  <2>4. d \notin attempt[i].known  BY <2>2, <2>3 DEF KnownElsewhere, DraftsElsewhere
  <2>5. d \in Unseen(attempt[i].ids, attempt[i].known)  BY <2>3, <2>4 DEF Unseen, Over
  <2>6. e \in late'  BY <2>1, <2>5 DEF Inserts
  <2>7. paper[d].by = "issuer" => p \in overtaken  BY <2>2, <2>3, <2>4 DEF MadeMeanwhile, OtherHeldIt
  <2> QED  BY <2>6, <2>7
<1>3. CASE \E c \in Desks : DraftForProof(c) /\ DraftsForProof(c, e)
  <2>1. PICK c \in Desks : DraftForProof(c) /\ DraftsForProof(c, e)  BY <1>3
  <2>2. paper'[e].by = "proof" /\ p = desk[c].on  BY <2>1, ProofDrafts DEF IsNew
  <2>3. desk[c].at = "draft"  BY <2>1 DEF DraftForProof, AtDesk
  <2>4. CASE d \in desk[c].known
    <3>1. \A f \in desk[c].known : paper[f].head # desk[c].on  BY <2>3 DEF WorkFits, ErrandFits
    <3>2. e \in blind'  BY <2>1, <2>4, <3>1 DEF DraftsForProof
    <3> QED  BY <2>2, <3>2
  <2>5. CASE d \notin desk[c].known
    <3>1. d \in Unseen({desk[c].on}, desk[c].known)  BY <2>2, <2>5 DEF Unseen, Over
    <3>2. e \in late'  BY <2>1, <3>1 DEF DraftsForProof
    <3> QED  BY <2>2, <3>2
  <2> QED  BY <2>4, <2>5
<1>4. CASE DraftsByHand(e)  BY <1>4, HandDrafts DEF IsNew
<1> QED  BY <1>2, <1>3, <1>4 DEF IsNew

LEMMA InvoicedOnceStep ==
    ASSUME InvoicingTypeOK, WorkFits, MadeInOrder, KnownElsewhere, MadeMeanwhile, InvoicedOnce, InvoicingNext
    PROVE  InvoicedOnce'
<1> SUFFICES ASSUME NEW d \in Live', NEW e \in Live', NEW p \in paper'[d].covers \cap paper'[e].covers, d < e
             PROVE  /\ paper'[e].by = "hand" \/ e \in late' \cup blind'
                    /\ paper'[d].by = "issuer" /\ paper'[e].by = "issuer" => p \in overtaken'
  BY DEF InvoicedOnce
<1>1. d \in Papers /\ e \in Papers /\ d \in Made' /\ e \in Made'  BY DEF Live, Made, Papers
<1>2. \A f \in Made \cap Live' : f \in Live /\ paper'[f].by = paper[f].by /\ paper'[f].covers = paper[f].covers
  BY PapersLast DEF Lasts, Live, Made, Papers
<1>3. overtaken \subseteq overtaken' /\ late \subseteq late' /\ blind \subseteq blind'  BY HistoryGrows
<1>4. CASE d \in Made /\ e \in Made  BY <1>2, <1>3, <1>4 DEF InvoicedOnce
<1>5. CASE d \in Made /\ e \notin Made
  <2>1. IsNew(e)  BY <1>1, <1>5, NewPapers
  <2>2. d \in Live /\ paper'[d].by = paper[d].by /\ p \in paper[d].covers  BY <1>2, <1>5
  <2>3. p \in Dues  BY <1>1, <2>2, FieldTypes DEF Paper
  <2> QED  BY <1>3, <2>1, <2>2, <2>3, NewBeside
<1>6. CASE d \notin Made
  <2>1. IsNew(d)  BY <1>1, <1>6, NewPapers
  <2>2. e \notin Made  BY <1>1, <1>6 DEF MadeInOrder
  <2>3. IsNew(e)  BY <1>1, <2>2, NewPapers
  <2> QED  BY <1>1, <1>6, <2>3 DEF IsNew, NextPaper, Made
<1> QED  BY <1>4, <1>5, <1>6

-----------------------------------------------------------------------------
(* The theorems.                                                            *)

LEMMA InvoicingStarts == InvoicingInit => InvoicingInv
<1> SUFFICES ASSUME InvoicingInit  PROVE InvoicingInv
  OBVIOUS
<1>1. InvoicingTypeOK
  <2>1. NoPaper \in Paper /\ NoLink \in Link /\ NoLink.st = "none"  BY DEF NoPaper, Paper, NoLink, Link
  <2> QED  BY <2>1, NoAttemptIsOne, NoErrandIsOne, DueInvoicingAssumption DEF InvoicingInit, InvoicingInitially, InvoicingTypeOK
<1>2. Made = {} /\ Live = {}  BY DEF InvoicingInit, InvoicingInitially, Made, Live, NoPaper
<1>3. \A i \in Issuers : attempt[i].at = "idle" /\ Holds(i) = {}
  BY NoAttemptIsOne DEF InvoicingInit, InvoicingInitially, Holds
<1>4. \A c \in Desks : desk[c].at = "idle"  BY NoErrandIsOne DEF InvoicingInit, InvoicingInitially
<1>5. \A p \in Dues : autoLink[p].st = "none"  BY DEF InvoicingInit, InvoicingInitially, NoLink
<1> QED
  BY <1>1, <1>2, <1>3, <1>4, <1>5
  DEF InvoicingInv, MadeInOrder, WorkFits, AttemptFits, ErrandFits, Holding, LinksAreTrue, OneHolder, KnownElsewhere,
      DraftsElsewhere, MadeMeanwhile, OtherHeldIt, InvoicedOnce

LEMMA InvoicingGoesOn == InvoicingInv /\ [InvoicingNext]_invoicingVars => InvoicingInv'
<1> SUFFICES ASSUME InvoicingInv, [InvoicingNext]_invoicingVars  PROVE InvoicingInv'
  OBVIOUS
<1>1. CASE InvoicingNext
  <2>1. WorkFits'  BY <1>1, AttemptsFit, ErrandsFit DEF WorkFits, InvoicingInv
  <2> QED
    BY <1>1, <2>1, TypesStep, MadeInOrderStep, LinksStep, OneHolderStep, KnownElsewhereStep, MadeMeanwhileStep,
       InvoicedOnceStep DEF InvoicingInv
<1>2. CASE UNCHANGED invoicingVars
  BY <1>2 DEF invoicingVars, paperwork, invoicingHistory, InvoicingInv, InvoicingTypeOK, MadeInOrder, Made, WorkFits,
              AttemptFits, ErrandFits, LinksAreTrue, OneHolder, Holds, KnownElsewhere, DraftsElsewhere, MadeMeanwhile,
              OtherHeldIt, InvoicedOnce, Live
<1> QED  BY <1>1, <1>2

LEMMA InvoicingInvariant == InvoicingSpec => []InvoicingInv
  BY InvoicingStarts, InvoicingGoesOn, PTL DEF InvoicingSpec

\* Every row, document and attempt is one the code can write, and a row that says
\* there is a document names it (auto-invoice.service.ts, mark and claim).
THEOREM InvoicingTypes == InvoicingSpec => []InvoicingTypeOK
<1>1. InvoicingInv => InvoicingTypeOK  BY DEF InvoicingInv
<1> QED  BY <1>1, InvoicingInvariant, PTL

\* However the attempts, the people and the deaths of processes interleave, a link
\* says issued only of a confirmed document that covers the installment, and claimed
\* or drafted only while an attempt is at work on it, unless one died or left it out.
THEOREM LinksStayTrue == InvoicingSpec => []LinksAreTrue
<1>1. InvoicingInv => LinksAreTrue  BY DEF InvoicingInv
<1> QED  BY <1>1, InvoicingInvariant, PTL

\* Two live documents over one installment are a person's doing, or a proof's behind
\* a combined invoice, or made where neither maker could see the other; two of the
\* issuer's only where one attempt took over the claim of another still at work.
THEOREM InvoicedOnceAlways == InvoicingSpec => []InvoicedOnce
<1>1. InvoicingInv => InvoicedOnce  BY DEF InvoicingInv
<1> QED  BY <1>1, InvoicingInvariant, PTL

=============================================================================
