---------------------------- MODULE DueInvoicing ----------------------------
(***************************************************************************)
(* Who invoices an installment that has fallen due: the automatic issuer   *)
(* (its daily run on every server, and "issue now"), people at the billing *)
(* screen, and the landlord's approval of a tenant's proof of payment.     *)
(* The issuer claims a group of installments in one transaction, the key   *)
(* of finance_auto_invoice_links; nobody else claims anything.             *)
(*                                                                         *)
(*   due      the installments of one contract and due date that count as  *)
(*            due (due-uninvoiced.ts, apart from their invoices)           *)
(*   paper    simple_invoices: the charge documents that cover them        *)
(*   autoLink finance_auto_invoice_links, a row for each installment;      *)
(*            old: its claim is older than STALE_CLAIM                     *)
(*   proof    payment_confirmations.status of the tenant's claim to have   *)
(*            paid an installment                                          *)
(*   attempt  what each run of issueGroup is doing                         *)
(*   desk     what each person's request is doing                          *)
(*   moves    how much of MaxMoves has been used                           *)
(*                                                                         *)
(* History, for the properties only:                                       *)
(*   crashed  installments an attempt held when it died                    *)
(*   leftOut  claimed beside an adopted draft that does not cover them     *)
(*   overtaken  claimed from an attempt still at work, whose claim was old *)
(*            or already answered                                          *)
(*   late     documents inserted after another one its maker cannot have   *)
(*            seen: it came between the look and the insert                *)
(*   blind    documents made for a proof beside invoices that name the     *)
(*            installment in payment_ids only                              *)
(***************************************************************************)
EXTENDS Naturals

CONSTANTS
    Dues,          \* installments of one contract and due date: payments.id
    Issuers,       \* attempts of the issuer: daily runs, "issue now"
    Desks,         \* requests of people: approve, remove, review of a proof
    MaxPapers,     \* bound: documents
    MaxMoves       \* bound: what people ask, what is refused and what dies, together

ASSUME DueInvoicingAssumption ==
    /\ Dues \subseteq Nat \ {0}
    /\ MaxPapers \in Nat /\ MaxMoves \in Nat

VARIABLES due, paper, autoLink, proof, attempt, desk, moves, crashed, leftOut, overtaken, late, blind

paperwork == <<due, paper, autoLink, proof>>

invoicingHistory == <<crashed, leftOut, overtaken, late, blind>>

invoicingVars == <<paperwork, attempt, desk, moves, invoicingHistory>>

Papers == 1..MaxPapers

\* head: payment_id, 0 if null; covers: payment_ids.
NoPaper == [by |-> "nobody", head |-> 0, covers |-> {}, status |-> "none", hidden |-> FALSE]

NoLink == [st |-> "none", paper |-> 0, old |-> FALSE]

NoAttempt == [at |-> "idle", origin |-> "auto", ids |-> {}, own |-> 0, on |-> 0, known |-> {}, sure |-> {}]

NoErrand == [at |-> "idle", on |-> 0, known |-> {}]

Paper == [by : {"nobody", "issuer", "hand", "proof"}, head : Dues \cup {0}, covers : SUBSET Dues,
          status : {"none", "draft", "confirmed"}, hidden : BOOLEAN]

Link == [st : {"none", "claimed", "draft", "issued", "covered", "failed", "dismissed"},
         paper : Papers \cup {0}, old : BOOLEAN]

Stages == {"idle", "claim", "look", "mark", "check", "insert", "receipt", "note", "approve", "confirm",
           "answer", "fail"}

Attempt == [at : Stages, origin : {"auto", "bulk"}, ids : SUBSET Dues, own : Papers \cup {0},
            on : Papers \cup {0}, known : SUBSET Papers, sure : SUBSET Papers]

Errand == [at : {"idle", "confirm", "remove", "decide", "look", "draft"},
           on : Papers \cup Dues \cup {0}, known : SUBSET Papers]

\* A link that says there is a document names it.
InvoicingTypeOK ==
    /\ due \subseteq Dues
    /\ paper \in [Papers -> Paper]
    /\ autoLink \in [Dues -> Link]
    /\ proof \in [Dues -> {"none", "pending", "approved", "rejected"}]
    /\ attempt \in [Issuers -> Attempt]
    /\ desk \in [Desks -> Errand]
    /\ \A p \in Dues : autoLink[p].st \in {"draft", "issued", "covered"} => autoLink[p].paper # 0
    /\ moves \in 0..MaxMoves
    /\ crashed \subseteq Dues /\ leftOut \subseteq Dues /\ overtaken \subseteq Dues
    /\ late \subseteq Papers /\ blind \subseteq Papers

InvoicingInitially(dues) ==
    /\ due = dues
    /\ paper = [d \in Papers |-> NoPaper]
    /\ autoLink = [p \in Dues |-> NoLink]
    /\ proof = [p \in Dues |-> "none"]
    /\ attempt = [i \in Issuers |-> NoAttempt]
    /\ desk = [c \in Desks |-> NoErrand]
    /\ moves = 0
    /\ crashed = {} /\ leftOut = {} /\ overtaken = {} /\ late = {} /\ blind = {}

InvoicingInit == InvoicingInitially(Dues)

-----------------------------------------------------------------------------
Live == {d \in Papers : paper[d].status # "none" /\ ~paper[d].hidden}

Confirmed == {d \in Live : paper[d].status = "confirmed"}

Over(ids) == {d \in Live : paper[d].covers \cap ids # {}}

\* Covered by a confirmed tax invoice, manual invoice or rent receipt.
Invoiced(p) == \E d \in Confirmed : p \in paper[d].covers

Uninvoiced == {p \in due : ~Invoiced(p)}

Stage(i, step) == attempt[i].at = step

Goes(i, step, a) == attempt' = [attempt EXCEPT ![i] = [a EXCEPT !.at = step]]

EndAttempt(i) == attempt' = [attempt EXCEPT ![i] = NoAttempt]

\* The attempt has claimed these and has not answered them.
Holds(i) == IF attempt[i].at \in {"idle", "claim"} THEN {} ELSE attempt[i].ids

Move == moves < MaxMoves /\ moves' = moves + 1

\* (mutant of Marked: the document is not written with the status)
MarkedAlone(ids, st, d) ==
    [p \in Dues |-> IF p \in ids THEN [autoLink[p] EXCEPT !.st = st, !.old = FALSE] ELSE autoLink[p]]

\* mark(): the rows get the status whatever they say by now; a document already
\* named stays if none is given.
Marked(ids, st, d) ==
    [p \in Dues |-> IF p \in ids THEN [st |-> st, paper |-> IF d = 0 THEN autoLink[p].paper ELSE d, old |-> FALSE] ELSE autoLink[p]]

\* The next document, by one of the three routes.
Drafted(d, by, head, covers) ==
    paper' = [paper EXCEPT ![d] = [NoPaper EXCEPT !.by = by, !.head = head, !.covers = covers, !.status = "draft"]]

NextPaper == {d \in Papers : paper[d].status = "none" /\ \A e \in Papers : e < d => paper[e].status # "none"}

\* Documents over the same installments which its maker did not know of.
Unseen(ids, known) == Over(ids) \ known

-----------------------------------------------------------------------------
(* issueGroup: list, claim, look again, prepare, create, approve.           *)

\* The daily run takes what is due, not invoiced and not answered yet.
ListDaily(i) ==
    /\ Stage(i, "idle")
    /\ LET ids == {p \in Uninvoiced : \/ autoLink[p].st \in {"none", "failed", "draft"}
                                      \/ autoLink[p].st = "claimed" /\ autoLink[p].old}
       IN ids # {} /\ Goes(i, "claim", [NoAttempt EXCEPT !.ids = ids])
    /\ UNCHANGED <<paperwork, desk, moves, invoicingHistory>>

\* A person picks any of the due and not invoiced; "issue now" is also the Retry.
IssueNow(i) ==
    /\ Stage(i, "idle") /\ Move
    /\ \E ids \in (SUBSET Uninvoiced) \ {{}} : Goes(i, "claim", [NoAttempt EXCEPT !.ids = ids, !.origin = "bulk"])
    /\ UNCHANGED <<paperwork, desk, invoicingHistory>>

\* (mutant of Claimable: a claim that stands is taken over, however young)
ClaimableAnyway(p, origin) == autoLink[p].st \in {"none", "claimed", "failed", "draft"} \/ origin = "bulk"

\* (mutant of Claimable: a claim is never given up)
ClaimableOnce(p, origin) ==
    \/ autoLink[p].st \in {"none", "failed", "draft"}
    \/ origin = "bulk" /\ autoLink[p].st \in {"dismissed", "issued", "covered"}

\* The conditional update of claim().
Claimable(p, origin) ==
    \/ autoLink[p].st \in {"none", "failed", "draft"}
    \/ origin = "bulk" /\ autoLink[p].st \in {"dismissed", "issued", "covered"}
    \/ autoLink[p].st = "claimed" /\ autoLink[p].old

\* All or none. The draft the rows name is the attempt's own, if they name one.
ClaimGroup(i) ==
    /\ Stage(i, "claim")
    /\ LET ids == attempt[i].ids
           drafts == {autoLink[p].paper : p \in ids} \ {0}
       IN IF \A p \in ids : Claimable(p, attempt[i].origin)
          THEN /\ autoLink' = [p \in Dues |-> IF p \notin ids THEN autoLink[p]
                                             ELSE [autoLink[p] EXCEPT !.st = "claimed", !.old = FALSE]]
               /\ overtaken' = overtaken \cup {p \in ids : /\ autoLink[p].st = "claimed" => autoLink[p].old
                                                           /\ \E j \in Issuers \ {i} : p \in Holds(j)}
               /\ \E own \in IF \E d \in Papers : drafts = {d} THEN drafts ELSE {0} :
                     Goes(i, "look", [attempt[i] EXCEPT !.origin = "auto", !.own = own])
          ELSE EndAttempt(i) /\ UNCHANGED <<autoLink, overtaken>>
    /\ UNCHANGED <<due, paper, proof, desk, moves, crashed, leftOut, late, blind>>

\* What covers them by now: a person may have issued or drafted one meanwhile.
LookAgain(i) ==
    /\ Stage(i, "look")
    /\ LET found == Over(attempt[i].ids)
           own == {d \in found : d = attempt[i].own /\ paper[d].status = "draft"}
       IN Goes(i, "mark", [attempt[i] EXCEPT !.known = found, !.sure = found \cap Confirmed, !.own = IF own = {} THEN 0 ELSE @])
    /\ UNCHANGED <<paperwork, desk, moves, invoicingHistory>>

\* The others' are answered: covered, or a draft somebody must approve or delete.
\* The rest goes on; what an adopted draft does not cover is left out of it.
AnswerOthers(i) ==
    /\ Stage(i, "mark")
    /\ LET a == attempt[i]
           others == a.known \ {a.own}
           taken == {p \in a.ids : \E d \in others : p \in paper[d].covers}
           rest == a.ids \ taken
           lines == IF a.own = 0 THEN rest ELSE rest \cap paper[a.own].covers
       IN /\ \E of \in [taken -> others] :
                /\ \A p \in taken : p \in paper[of[p]].covers
                /\ autoLink' = [p \in Dues |->
                      IF p \notin taken THEN autoLink[p]
                      ELSE [st |-> IF of[p] \in a.sure THEN "covered" ELSE "failed", paper |-> of[p], old |-> FALSE]]
          /\ IF rest = {} THEN EndAttempt(i)
             ELSE \E next \in IF a.own = 0 THEN {"check", "insert"} ELSE {"approve"} :
                     Goes(i, next, [a EXCEPT !.ids = lines, !.own = 0, !.on = a.own, !.sure = {},
                                             !.known = IF a.own = 0 THEN @ ELSE {}])
          /\ leftOut' = leftOut \cup (rest \ lines)
    /\ UNCHANGED <<due, paper, proof, desk, moves, crashed, overtaken, late, blind>>

\* A landlord with no VAT number gets a rent receipt, which looks again for itself.
CheckReceipt(i) ==
    /\ Stage(i, "check")
    /\ LET found == Over(attempt[i].ids)
       IN Goes(i, IF found = {} THEN "receipt" ELSE "fail", [attempt[i] EXCEPT !.known = IF found = {} THEN @ ELSE {}])
    /\ UNCHANGED <<paperwork, desk, moves, invoicingHistory>>

\* payment_id of a tax invoice: the first of the lines.
HeadOf(ids) == CHOOSE p \in ids : TRUE

\* ... and of a rent receipt: null if there are several.
OnlyOne(ids) == IF ids = {HeadOf(ids)} THEN HeadOf(ids) ELSE 0

\* create, or createRentReceipt; or the gates before it, or it, refuse (as does
\* the bound on documents).
Insert(i) ==
    /\ Stage(i, "insert") \/ Stage(i, "receipt")
    /\ \/ \E d \in NextPaper :
             /\ Drafted(d, "issuer", IF Stage(i, "insert") THEN HeadOf(attempt[i].ids) ELSE OnlyOne(attempt[i].ids), attempt[i].ids)
             /\ late' = IF Unseen(attempt[i].ids, attempt[i].known) = {} THEN late ELSE late \cup {d}
             /\ Goes(i, "note", [attempt[i] EXCEPT !.on = d, !.known = {}])
             /\ UNCHANGED moves
       \/ /\ IF NextPaper = {} THEN UNCHANGED moves ELSE Move
          /\ Goes(i, "fail", [attempt[i] EXCEPT !.known = {}])
          /\ UNCHANGED <<paper, late>>
    /\ UNCHANGED <<due, autoLink, proof, desk, crashed, leftOut, overtaken, blind>>

NoteDraft(i) ==
    /\ Stage(i, "note")
    /\ autoLink' = Marked(attempt[i].ids, "draft", attempt[i].on)
    /\ Goes(i, "approve", attempt[i])
    /\ UNCHANGED <<due, paper, proof, desk, moves, invoicingHistory>>

\* approve reads the document and its gates; ...
Approve(i) ==
    /\ Stage(i, "approve")
    /\ LET d == attempt[i].on
       IN \/ d \in Live \ Confirmed /\ Goes(i, "confirm", attempt[i]) /\ UNCHANGED moves
          \/ d \notin Live \ Confirmed /\ Goes(i, "fail", attempt[i]) /\ UNCHANGED moves
          \/ Move /\ Goes(i, "fail", attempt[i])
    /\ UNCHANGED <<paperwork, desk, invoicingHistory>>

\* ... the update tests neither again.
Issued(d) == paper' = [paper EXCEPT ![d].status = "confirmed"]

Confirm(i) ==
    /\ Stage(i, "confirm")
    /\ Issued(attempt[i].on)
    /\ Goes(i, "answer", attempt[i])
    /\ UNCHANGED <<due, autoLink, proof, desk, moves, invoicingHistory>>

AnswerIssued(i) ==
    /\ Stage(i, "answer")
    /\ autoLink' = Marked(attempt[i].ids, "issued", attempt[i].on)
    /\ EndAttempt(i)
    /\ UNCHANGED <<due, paper, proof, desk, moves, invoicingHistory>>

\* (mutant of AnswerFailed: a refusal returns before the row is marked)
FailsSilently(i) ==
    /\ Stage(i, "fail")
    /\ EndAttempt(i)
    /\ UNCHANGED <<paperwork, desk, moves, invoicingHistory>>

AnswerFailed(i) ==
    /\ Stage(i, "fail")
    /\ autoLink' = Marked(attempt[i].ids, "failed", attempt[i].on)
    /\ EndAttempt(i)
    /\ UNCHANGED <<due, paper, proof, desk, moves, invoicingHistory>>

\* The process dies; nothing gives its claims back.
Dies(i) ==
    /\ ~Stage(i, "idle") /\ Move
    /\ crashed' = crashed \cup Holds(i)
    /\ EndAttempt(i)
    /\ UNCHANGED <<paperwork, desk, leftOut, overtaken, late, blind>>

Fresh == {p \in Dues : autoLink[p].st = "claimed" /\ ~autoLink[p].old}

\* Fifteen minutes pass over every claim that stands, perhaps while its attempt
\* is still at work (which the bound counts).
ClaimsAge ==
    /\ Fresh # {}
    /\ IF \E i \in Issuers : Fresh \cap Holds(i) # {} THEN Move ELSE UNCHANGED moves
    /\ autoLink' = [p \in Dues |-> [autoLink[p] EXCEPT !.old = (@ \/ autoLink[p].st = "claimed")]]
    /\ UNCHANGED <<due, paper, proof, attempt, desk, invoicingHistory>>

DismissDue(p) ==
    /\ autoLink[p].st = "failed" /\ Move
    /\ autoLink' = [autoLink EXCEPT ![p].st = "dismissed"]
    /\ UNCHANGED <<due, paper, proof, attempt, desk, invoicingHistory>>

-----------------------------------------------------------------------------
(* People.                                                                  *)

\* POST /simple-invoices looks at no other document.
CreateByHand ==
    /\ Move
    /\ \E d \in NextPaper, ids \in (SUBSET Dues) \ {{}} : Drafted(d, "hand", HeadOf(ids), ids)
    /\ UNCHANGED <<due, autoLink, proof, attempt, desk, invoicingHistory>>

AtDesk(c, step) == desk[c].at = step

Serve(c, step, r) == desk' = [desk EXCEPT ![c] = [r EXCEPT !.at = step]]

\* approve and remove read a draft, and write what they do to it later.
OpenDraft(c) ==
    /\ AtDesk(c, "idle")
    /\ \E d \in Live \ Confirmed, step \in {"confirm", "remove"} : Serve(c, step, [NoErrand EXCEPT !.on = d])
    /\ Move
    /\ UNCHANGED <<paperwork, attempt, invoicingHistory>>

ConfirmByHand(c) ==
    /\ AtDesk(c, "confirm")
    /\ Issued(desk[c].on)
    /\ Serve(c, "idle", NoErrand)
    /\ UNCHANGED <<due, autoLink, proof, attempt, moves, invoicingHistory>>

RemoveDraft(c) ==
    /\ AtDesk(c, "remove")
    /\ paper' = [paper EXCEPT ![desk[c].on].hidden = TRUE]
    /\ Serve(c, "idle", NoErrand)
    /\ UNCHANGED <<due, autoLink, proof, attempt, moves, invoicingHistory>>

\* The installment is cancelled, or settled through Ejar.
NoLongerDue(p) ==
    /\ p \in due /\ Move
    /\ due' = due \ {p}
    /\ UNCHANGED <<paper, autoLink, proof, attempt, desk, invoicingHistory>>

\* The tenant says he has paid it.  Bound: once for an installment.
SubmitProof(p) ==
    /\ proof[p] = "none" /\ Move
    /\ proof' = [proof EXCEPT ![p] = "pending"]
    /\ UNCHANGED <<due, paper, autoLink, attempt, desk, invoicingHistory>>

\* review: the request is read, written, and if approved the installment's
\* invoice is looked for and drafted.
OpenProof(c) ==
    /\ AtDesk(c, "idle")
    /\ \E p \in Dues : proof[p] = "pending" /\ Serve(c, "decide", [NoErrand EXCEPT !.on = p])
    /\ UNCHANGED <<paperwork, attempt, moves, invoicingHistory>>

ReviewProof(c) ==
    /\ AtDesk(c, "decide")
    /\ \E verdict \in {"approved", "rejected"} :
          /\ proof' = [proof EXCEPT ![desk[c].on] = verdict]
          /\ IF verdict = "approved" THEN Serve(c, "look", desk[c]) ELSE Serve(c, "idle", NoErrand)
    /\ UNCHANGED <<due, paper, autoLink, attempt, moves, invoicingHistory>>

\* Only the single payment_id is compared.
LookForInvoice(c) ==
    /\ AtDesk(c, "look")
    /\ LET p == desk[c].on
       IN IF \E d \in Live : paper[d].head = p THEN Serve(c, "idle", NoErrand)
          ELSE Serve(c, "draft", [desk[c] EXCEPT !.known = Over({p})])
    /\ UNCHANGED <<paperwork, attempt, moves, invoicingHistory>>

DraftForProof(c) ==
    /\ AtDesk(c, "draft")
    /\ LET p == desk[c].on
       IN \E d \in NextPaper :
             /\ Drafted(d, "proof", p, {p})
             /\ late' = IF Unseen({p}, desk[c].known) = {} THEN late ELSE late \cup {d}
             /\ blind' = IF desk[c].known # {} /\ \A e \in desk[c].known : paper[e].head # p THEN blind \cup {d} ELSE blind
    /\ Serve(c, "idle", NoErrand)
    /\ UNCHANGED <<due, autoLink, proof, attempt, moves, crashed, leftOut, overtaken>>

-----------------------------------------------------------------------------
Issuing(i) ==
    \/ ClaimGroup(i) \/ LookAgain(i) \/ AnswerOthers(i) \/ CheckReceipt(i) \/ Insert(i)
    \/ NoteDraft(i) \/ Approve(i) \/ Confirm(i) \/ AnswerIssued(i) \/ AnswerFailed(i)

InvoicingNext ==
    \/ \E i \in Issuers : ListDaily(i) \/ IssueNow(i) \/ Issuing(i) \/ Dies(i)
    \/ \E c \in Desks : \/ OpenDraft(c) \/ ConfirmByHand(c) \/ RemoveDraft(c)
                        \/ OpenProof(c) \/ ReviewProof(c) \/ LookForInvoice(c) \/ DraftForProof(c)
    \/ \E p \in Dues : DismissDue(p) \/ NoLongerDue(p) \/ SubmitProof(p)
    \/ CreateByHand \/ ClaimsAge

\* The run comes every day, an attempt that does not die goes on, time passes.
InvoicingFairness ==
    /\ WF_invoicingVars(\E i \in Issuers : ListDaily(i))
    /\ \A i \in Issuers : WF_invoicingVars(Issuing(i))
    /\ WF_invoicingVars(ClaimsAge)

InvoicingSpec == InvoicingInit /\ [][InvoicingNext]_invoicingVars /\ InvoicingFairness

-----------------------------------------------------------------------------
\* Two live documents over one installment: a person drafted the later one, or
\* it was drafted for a proof behind a combined invoice, or its maker could not
\* have seen the other when it looked ("a retry, a second process or a double
\* click never makes a second invoice"; "don't double-invoice").  The issuer
\* makes two only if a claim was taken over from an attempt still at work.
InvoicedOnce ==
    \A d, e \in Live : \A p \in paper[d].covers \cap paper[e].covers :
        d < e => /\ paper[e].by = "hand" \/ e \in late \cup blind
                 /\ paper[d].by = "issuer" /\ paper[e].by = "issuer" => p \in overtaken

\* The link of an installment tells what became of it: issued, by a document
\* that covers it and was confirmed; claimed or drafted, by an attempt at work,
\* unless one died or left it out.
LinksAreTrue ==
    \A p \in Dues :
        /\ autoLink[p].st = "issued" => paper[autoLink[p].paper].status = "confirmed" /\ p \in paper[autoLink[p].paper].covers
        /\ autoLink[p].st \in {"claimed", "draft"} => p \in crashed \cup leftOut \/ \E i \in Issuers : p \in Holds(i)

\* A confirmed document over p was removed by somebody who had read it as a draft.
Withdrawn(p) == \E d \in Papers : p \in paper[d].covers /\ paper[d].status = "confirmed" /\ paper[d].hidden

\* What is due is invoiced in the end, or on the list of failures (where a person
\* dismissed it, perhaps), unless it stops being due.
DueIsAnswered ==
    \A p \in Dues : p \in due ~> p \notin due \/ Invoiced(p) \/ Withdrawn(p) \/ autoLink[p].st \in {"failed", "dismissed"}

=============================================================================
