---------------------------- MODULE CheckoutProofs ----------------------------
(***************************************************************************)
(* Proofs about Checkout, for every number of requests, deliveries and     *)
(* payments.                                                               *)
(***************************************************************************)
EXTENDS Checkout, SumLemmas, TLAPS

-----------------------------------------------------------------------------
(* The inductive invariant.                                                 *)

\* Steps at which a process holds an invoice it saw paid.
Sure == {"claim", "read", "write", "activate"}

SawItPaid == \A a \in Processes : job[a].at \in Sure => job[a].on \in PayRows /\ invoice[job[a].on] = "paid"

PaidIfApplied == \A p \in PayRows : applied[p] > 0 => invoice[p] = "paid"

\* A row that was not inserted has no invoice.
NothingYet == \A p \in PayRows : row[p] = "none" => invoice[p] = "none"

\* A row says paid only when its invoice is.
PaidRowsPaid == \A p \in PayRows : row[p] = "paid" => invoice[p] = "paid"

\* Steps at which a row was inserted and its invoice is not made yet.
Making == {"create", "new_invoice"}

\* One request makes the invoice of a row, which has none until then.
OneCreator ==
    \A a \in Processes : job[a].at \in Making =>
       /\ job[a].on \in PayRows /\ row[job[a].on] # "none" /\ invoice[job[a].on] = "none"
       /\ \A b \in Processes : job[b].at \in Making /\ job[b].on = job[a].on => b = a

\* Steps that are about a payment of the add-on.
Selling == {"activate", "look", "new_invoice", "name", "cancel_invoice", "cancel_row"}

\* What a job is about: pay keeps to the plan's rows, the add-on's steps to its own.
ListFits(j) ==
    /\ j.op = "pay" => j.todo \subseteq PlanRows
    /\ j.at \in {"void", "close"} => j.on \in PlanRows /\ j.op = "pay"
    /\ j.at \in Selling => j.on \in AddonRows

Lists == \A a \in Processes : ListFits(job[a])

\* Each activation, under way or done, took a row that had not been paid: every one
\* but the first needs it to have been overwritten.
Counted ==
    \A p \in PayRows :
       applied[p] + Cardinality(Appliers(p)) <= reopened[p] + (IF row[p] = "paid" THEN 1 ELSE 0)

Bought == SawItPaid /\ PaidIfApplied /\ PaidRowsPaid /\ NothingYet /\ OneCreator /\ Lists

CheckoutInv == CheckoutTypeOK /\ Bought /\ Counted /\ PaidAddonIsDelivered

-----------------------------------------------------------------------------
(* Jobs.                                                                    *)

Ats == {"idle", "walk", "void", "close", "create", "look", "new_row", "new_invoice", "name",
        "claim", "read", "write", "activate", "cancel_addon", "cancel_invoice", "cancel_row"}

LEMMA Stepped ==
    ASSUME CheckoutTypeOK, NEW a \in Processes, NEW step \in Ats, NEW j \in Jobs, Step(a, step, j)
    PROVE  /\ job' \in [Processes -> Jobs]
           /\ job'[a].at = step /\ job'[a].op = j.op /\ job'[a].todo = j.todo /\ job'[a].on = j.on
           /\ job'[a].offered = j.offered
           /\ \A b \in Processes : b # a => job'[b] = job[b]
<1> DEFINE g == [j EXCEPT !.at = step]
<1>1. g \in Jobs /\ g.at = step /\ g.op = j.op /\ g.todo = j.todo /\ g.on = j.on /\ g.offered = j.offered
  BY DEF Jobs, Ats
<1>2. job' = [job EXCEPT ![a] = g]  BY DEF Step
<1>3. job \in [Processes -> Jobs]  BY DEF CheckoutTypeOK
<1> QED  BY <1>1, <1>2, <1>3

LEMMA NoJobIsAJob == NoJob \in Jobs /\ NoJob.at = "idle" /\ NoJob.op = "none"
  BY DEF NoJob, Jobs

LEMMA Finished ==
    ASSUME CheckoutTypeOK, NEW a \in Processes, Finish(a)
    PROVE  /\ job' \in [Processes -> Jobs]
           /\ job'[a] = NoJob /\ job'[a].at = "idle" /\ job'[a].op = "none"
           /\ \A b \in Processes : b # a => job'[b] = job[b]
<1>1. job \in [Processes -> Jobs]  BY DEF CheckoutTypeOK
<1> QED  BY <1>1, NoJobIsAJob DEF Finish

\* Processes a step of a leaves alone, and what it may make of its own job.
Alone(a) == \A b \in Processes : b # a => job'[b] = job[b]

JobFits(a) ==
    /\ job[a].at \in Sure => job[a].on \in PayRows /\ invoice[job[a].on] = "paid"
    /\ job[a].at \in Making =>
          /\ job[a].on \in PayRows /\ row[job[a].on] # "none" /\ invoice[job[a].on] = "none"
          /\ \A b \in Processes : job[b].at \in Making /\ job[b].on = job[a].on => b = a
    /\ ListFits(job[a])

\* What is paid stays paid, and what other requests are creating is not touched.
World(a) ==
    /\ \A p \in PayRows : invoice[p] = "paid" => invoice'[p] = "paid"
    /\ \A p \in PayRows : row'[p] = "none" => row[p] = "none" /\ invoice'[p] = "none"
    /\ \A p \in PayRows : applied'[p] > 0 => applied[p] > 0 \/ invoice[p] = "paid"
    /\ \A p \in PayRows : row'[p] = "paid" => row[p] = "paid" \/ invoice[p] = "paid"
    /\ \A b \in Processes : b # a /\ job[b].at \in Making => invoice'[job[b].on] = "none"

\* The step is of a, or of no process at all.
LEMMA BoughtKept ==
    ASSUME CheckoutInv, NEW a, Alone(a), a \in Processes => JobFits(a)', World(a)
    PROVE  Bought'
<1> USE DEF CheckoutInv, Bought
<1>1. SawItPaid'
  <2> SUFFICES ASSUME NEW b \in Processes, job'[b].at \in Sure
               PROVE  job'[b].on \in PayRows /\ invoice'[job'[b].on] = "paid"
    BY DEF SawItPaid
  <2>1. CASE b = a  BY <2>1 DEF JobFits
  <2>2. CASE b # a  BY <2>2 DEF Alone, World, SawItPaid
  <2> QED  BY <2>1, <2>2
<1>2. PaidIfApplied'  BY DEF PaidIfApplied, World
<1>3. NothingYet'  BY DEF NothingYet, World
<1>6. PaidRowsPaid'  BY DEF PaidRowsPaid, World
<1>4. OneCreator'
  <2> SUFFICES ASSUME NEW b \in Processes, job'[b].at \in Making
               PROVE  /\ job'[b].on \in PayRows /\ row'[job'[b].on] # "none" /\ invoice'[job'[b].on] = "none"
                      /\ \A c \in Processes : job'[c].at \in Making /\ job'[c].on = job'[b].on => c = b
    BY DEF OneCreator
  <2>1. CASE b = a  BY <2>1 DEF JobFits
  <2>2. CASE b # a
    <3>1. job'[b] = job[b] /\ job[b].at \in Making  BY <2>2 DEF Alone
    <3>2. job[b].on \in PayRows /\ row[job[b].on] # "none" /\ invoice'[job[b].on] = "none"
      BY <2>2, <3>1 DEF OneCreator, World
    <3>3. row'[job[b].on] # "none"  BY <3>2 DEF World
    <3>4. ASSUME NEW c \in Processes, job'[c].at \in Making, job'[c].on = job'[b].on PROVE c = b
      <4>1. CASE c = a  BY <3>4, <4>1 DEF JobFits
      <4>2. CASE c # a  BY <3>1, <3>4, <4>2 DEF Alone, OneCreator
      <4> QED  BY <4>1, <4>2
    <3> QED  BY <3>1, <3>2, <3>3, <3>4
  <2> QED  BY <2>1, <2>2
<1>5. Lists'
  <2> SUFFICES ASSUME NEW b \in Processes PROVE ListFits(job'[b])
    BY DEF Lists, ListFits
  <2>1. CASE b = a  BY <2>1 DEF JobFits, ListFits
  <2>2. CASE b # a  BY <2>2 DEF Alone, Lists
  <2> QED  BY <2>1, <2>2
<1> QED  BY <1>1, <1>2, <1>3, <1>4, <1>5, <1>6

-----------------------------------------------------------------------------
(* Counting activations.                                                    *)

LEMMA AppliersFinite ==
    /\ \A p : IsFiniteSet(Appliers(p)) /\ Cardinality(Appliers(p)) \in Nat
    /\ \A p : IsFiniteSet(Appliers(p))' /\ Cardinality(Appliers(p))' \in Nat
<1>3. IsFiniteSet(Processes)  BY CheckoutAssumption DEF Processes
<1>4. \A p : Appliers(p) \subseteq Processes /\ Appliers(p)' \subseteq Processes  BY DEF Appliers
<1>5. \A p : IsFiniteSet(Appliers(p)) /\ IsFiniteSet(Appliers(p)')  BY <1>3, <1>4, FS_Subset
<1> QED  BY <1>5, FS_CardinalityType

Room(p) == reopened[p] + (IF row[p] = "paid" THEN 1 ELSE 0)

\* No activation begins, and none is lost from the count.
LEMMA CountKept ==
    ASSUME CheckoutInv, CheckoutTypeOK', applied' = applied, NEW a, Alone(a),
           a \in Processes /\ job'[a].at \in Applying => job[a].at \in Applying /\ job'[a].on = job[a].on,
           \A p \in PayRows : Room(p)' >= Room(p)
    PROVE  Counted'
<1> SUFFICES ASSUME NEW p \in PayRows
             PROVE  applied'[p] + Cardinality(Appliers(p))' <= Room(p)'
  BY DEF Counted, Room
<1>1. Appliers(p)' \subseteq Appliers(p)
  <2> SUFFICES ASSUME NEW b \in Processes, job'[b].at \in Applying, job'[b].on = p
               PROVE  job[b].at \in Applying /\ job[b].on = p
    BY DEF Appliers
  <2> QED  BY DEF Alone
<1>2. Cardinality(Appliers(p))' <= Cardinality(Appliers(p))  BY <1>1, AppliersFinite, FS_Subset
<1>3. applied[p] + Cardinality(Appliers(p)) <= Room(p)  BY DEF CheckoutInv, Counted, Room
<1>4. applied[p] \in Nat /\ Room(p) \in Nat /\ Room(p)' \in Nat  BY DEF CheckoutInv, CheckoutTypeOK, Room
<1> QED  BY <1>2, <1>3, <1>4, AppliersFinite

\* A claim begins one, for a row that was not paid.
LEMMA CountClaimed ==
    ASSUME CheckoutInv, CheckoutTypeOK', UNCHANGED <<applied, reopened>>, NEW a \in Processes, Alone(a),
           job[a].at \notin Applying, job'[a].on = job[a].on,
           row[job[a].on] # "paid", row' = [row EXCEPT ![job[a].on] = "paid"]
    PROVE  Counted'
<1> SUFFICES ASSUME NEW p \in PayRows
             PROVE  applied'[p] + Cardinality(Appliers(p))' <= Room(p)'
  BY DEF Counted, Room
<1>1. Appliers(p)' \subseteq Appliers(p) \cup (IF p = job[a].on THEN {a} ELSE {})
  <2> SUFFICES ASSUME NEW b \in Processes, job'[b].at \in Applying, job'[b].on = p
               PROVE  (job[b].at \in Applying /\ job[b].on = p) \/ (p = job[a].on /\ b = a)
    BY DEF Appliers
  <2> QED  BY DEF Alone
<1>2. a \notin Appliers(p)  BY DEF Appliers
<1>3. applied[p] + Cardinality(Appliers(p)) <= Room(p)  BY DEF CheckoutInv, Counted, Room
<1>4. applied[p] \in Nat /\ Room(p) \in Nat /\ Room(p)' \in Nat  BY DEF CheckoutInv, CheckoutTypeOK, Room
<1>5. CASE p = job[a].on
  <2>1. /\ IsFiniteSet(Appliers(p) \cup {a})
        /\ Cardinality(Appliers(p) \cup {a}) = Cardinality(Appliers(p)) + 1
    BY <1>2, AppliersFinite, FS_AddElement
  <2>2. Cardinality(Appliers(p))' <= Cardinality(Appliers(p)) + 1
    BY <1>1, <1>5, <2>1, FS_Subset
  <2>3. Room(p)' = Room(p) + 1  BY <1>4, <1>5 DEF CheckoutInv, CheckoutTypeOK, Room
  <2> QED  BY <1>3, <1>4, <2>2, <2>3, AppliersFinite
<1>6. CASE p # job[a].on
  <2>1. Cardinality(Appliers(p))' <= Cardinality(Appliers(p))  BY <1>1, <1>6, AppliersFinite, FS_Subset
  <2>2. Room(p)' = Room(p)  BY <1>6 DEF CheckoutInv, CheckoutTypeOK, Room
  <2> QED  BY <1>3, <1>4, <2>1, <2>2, AppliersFinite
<1> QED  BY <1>5, <1>6

\* An activation that ends is applied.
LEMMA CountApplied ==
    ASSUME CheckoutInv, CheckoutTypeOK', UNCHANGED <<row, reopened>>, NEW a \in Processes, Alone(a),
           job[a].at \in Applying, job'[a].at \notin Applying,
           applied' = [applied EXCEPT ![job[a].on] = @ + 1]
    PROVE  Counted'
<1> SUFFICES ASSUME NEW p \in PayRows
             PROVE  applied'[p] + Cardinality(Appliers(p))' <= Room(p)
  BY DEF Counted, Room
<1>1. Appliers(p)' \subseteq Appliers(p) \ {a}
  <2> SUFFICES ASSUME NEW b \in Processes, job'[b].at \in Applying, job'[b].on = p
               PROVE  job[b].at \in Applying /\ job[b].on = p /\ b # a
    BY DEF Appliers
  <2> QED  BY DEF Alone
<1>2. applied[p] + Cardinality(Appliers(p)) <= Room(p)  BY DEF CheckoutInv, Counted, Room
<1>3. applied[p] \in Nat /\ Room(p) \in Nat  BY DEF CheckoutInv, CheckoutTypeOK, Room
<1>4. CASE p = job[a].on
  <2>1. a \in Appliers(p)  BY <1>4 DEF Appliers
  <2>2. /\ IsFiniteSet(Appliers(p) \ {a})
        /\ Cardinality(Appliers(p) \ {a}) = Cardinality(Appliers(p)) - 1
    BY <2>1, AppliersFinite, FS_RemoveElement
  <2>3. Cardinality(Appliers(p))' <= Cardinality(Appliers(p)) - 1  BY <1>1, <2>2, FS_Subset
  <2>4. applied'[p] = applied[p] + 1  BY <1>4 DEF CheckoutInv, CheckoutTypeOK
  <2> QED  BY <1>2, <1>3, <2>3, <2>4, AppliersFinite
<1>5. CASE p # job[a].on
  <2>1. Cardinality(Appliers(p))' <= Cardinality(Appliers(p))  BY <1>1, AppliersFinite, FS_Subset
  <2>2. applied'[p] = applied[p]  BY <1>5 DEF CheckoutInv, CheckoutTypeOK
  <2> QED  BY <1>2, <1>3, <2>1, <2>2, AppliersFinite
<1> QED  BY <1>4, <1>5

-----------------------------------------------------------------------------
(* What was paid is delivered.                                              *)

LEMMA DeliveredKept ==
    ASSUME CheckoutInv,
           \A p \in AddonRows : row'[p] = "paid" =>
              row[p] = "paid" \/ \E b \in Processes : job'[b].at = "activate" /\ job'[b].on = p,
           addon = "active" => addon' = "active" \/ revoked' \/ demoted',
           revoked => revoked', demoted => demoted', dropped \subseteq dropped',
           \A b \in Processes : job[b].at = "activate" =>
              (job'[b].at = "activate" /\ job'[b].on = job[b].on) \/ addon' = "active" \/ job[b].on \in dropped'
    PROVE  PaidAddonIsDelivered'
<1> SUFFICES ASSUME NEW p \in AddonRows, row'[p] = "paid" PROVE ActiveBy(p)' \/ revoked' \/ demoted'
  BY DEF PaidAddonIsDelivered
<1>1. CASE \E b \in Processes : job'[b].at = "activate" /\ job'[b].on = p  BY <1>1 DEF ActiveBy, Does
<1>2. CASE row[p] = "paid"
  <2>1. addon = "active" \/ p \in dropped \/ revoked \/ demoted
           \/ \E b \in Processes : job[b].at = "activate" /\ job[b].on = p
    BY <1>2 DEF CheckoutInv, PaidAddonIsDelivered, ActiveBy, Does
  <2> QED  BY <2>1 DEF ActiveBy, Does
<1> QED  BY <1>1, <1>2

-----------------------------------------------------------------------------
(* Steps that write no row.                                                 *)

\* A request goes on, outside an activation, or none does; an invoice may be opened,
\* paid or voided, and the add-on's record written.
LEMMA OnlyJob ==
    ASSUME CheckoutInv, NEW a, UNCHANGED <<row, ends, applied, reopened, overlapped, dropped>>,
           job' \in [Processes -> Jobs], Alone(a), a \in Processes => JobFits(a)',
           a \in Processes => job'[a] = job[a] \/ (job[a].at \notin Applying /\ job'[a].at \notin Applying),
           invoice' \in [PayRows -> {"none", "open", "paid", "void"}],
           \A p \in PayRows : invoice[p] = "paid" => invoice'[p] = "paid",
           \A p \in PayRows : row[p] = "none" => invoice'[p] = "none",
           \A b \in Processes : b # a /\ job[b].at \in Making => invoice'[job[b].on] = "none",
           addon' \in {"none", "offered", "pending", "active", "cancelled"},
           named' \in AddonRows \cup {0}, lapsed' \in BOOLEAN, revoked' \in BOOLEAN, demoted' \in BOOLEAN,
           addon = "active" => addon' = "active" \/ revoked' \/ demoted',
           revoked => revoked', demoted => demoted'
    PROVE  CheckoutInv'
<1>1. CheckoutTypeOK'  BY DEF CheckoutInv, CheckoutTypeOK
<1>2. World(a)  BY DEF World, CheckoutInv, Bought, NothingYet
<1>3. Bought'  BY <1>2, BoughtKept
<1>4. Counted'
  <2>1. \A p \in PayRows : Room(p)' >= Room(p)  BY DEF Room, CheckoutInv, CheckoutTypeOK
  <2> QED  BY <1>1, <2>1, CountKept
<1>5. PaidAddonIsDelivered'
  <2>1. \A b \in Processes : job[b].at = "activate" => job'[b].at = "activate" /\ job'[b].on = job[b].on
    BY DEF Alone, Applying
  <2> QED  BY <2>1, DeliveredKept
<1> QED  BY <1>1, <1>3, <1>4, <1>5 DEF CheckoutInv

\* What holds of the invoices as they are.
LEMMA InvoicesKept ==
    ASSUME CheckoutInv, NEW a, invoice' = invoice
    PROVE  /\ invoice' \in [PayRows -> {"none", "open", "paid", "void"}]
           /\ \A p \in PayRows : invoice[p] = "paid" => invoice'[p] = "paid"
           /\ \A p \in PayRows : row[p] = "none" => invoice'[p] = "none"
           /\ \A b \in Processes : b # a /\ job[b].at \in Making => invoice'[job[b].on] = "none"
  BY DEF CheckoutInv, CheckoutTypeOK, Bought, NothingYet, OneCreator

\* What holds of the add-on's record as it is.
LEMMA RecordKept ==
    ASSUME CheckoutTypeOK, UNCHANGED <<addonRecord, revoked, demoted>>
    PROVE  /\ addon' \in {"none", "offered", "pending", "active", "cancelled"} /\ addon' = addon
           /\ named' \in AddonRows \cup {0} /\ lapsed' \in BOOLEAN /\ revoked' \in BOOLEAN /\ demoted' \in BOOLEAN
           /\ revoked' = revoked /\ demoted' = demoted
  BY DEF CheckoutTypeOK, addonRecord

\* The same, with the invoices and the record as they were.
LEMMA JustJob ==
    ASSUME CheckoutInv, NEW a \in Processes, UNCHANGED <<row, invoice, addonRecord, ends, checkoutHistory>>,
           job' \in [Processes -> Jobs], Alone(a), JobFits(a)', job[a].at \notin Applying, job'[a].at \notin Applying
    PROVE  CheckoutInv'
<1>1. CheckoutTypeOK /\ UNCHANGED <<addonRecord, revoked, demoted, applied, reopened, overlapped, dropped>>
  BY DEF CheckoutInv, checkoutHistory
<1> QED  BY <1>1, InvoicesKept, RecordKept, OnlyJob

\* Only invoices change, and the job.
LEMMA JobAndInvoice ==
    ASSUME CheckoutInv, NEW a, UNCHANGED <<row, addonRecord, ends, checkoutHistory>>,
           job' \in [Processes -> Jobs], Alone(a), a \in Processes => JobFits(a)',
           a \in Processes => job'[a] = job[a] \/ (job[a].at \notin Applying /\ job'[a].at \notin Applying),
           invoice' \in [PayRows -> {"none", "open", "paid", "void"}],
           \A p \in PayRows : invoice[p] = "paid" => invoice'[p] = "paid",
           \A p \in PayRows : row[p] = "none" => invoice'[p] = "none",
           \A b \in Processes : b # a /\ job[b].at \in Making => invoice'[job[b].on] = "none"
    PROVE  CheckoutInv'
<1>1. CheckoutTypeOK /\ UNCHANGED <<addonRecord, revoked, demoted, applied, reopened, overlapped, dropped>>
  BY DEF CheckoutInv, checkoutHistory
<1> QED  BY <1>1, RecordKept, OnlyJob

\* Only the add-on's record changes, and the job.
LEMMA JobAndRecord ==
    ASSUME CheckoutInv, NEW a, UNCHANGED <<row, invoice, ends, applied, reopened, overlapped, dropped>>,
           job' \in [Processes -> Jobs], Alone(a), a \in Processes => JobFits(a)',
           a \in Processes => job'[a] = job[a] \/ (job[a].at \notin Applying /\ job'[a].at \notin Applying),
           addon' \in {"none", "offered", "pending", "active", "cancelled"},
           named' \in AddonRows \cup {0}, lapsed' \in BOOLEAN, revoked' \in BOOLEAN, demoted' \in BOOLEAN,
           addon = "active" => addon' = "active" \/ revoked' \/ demoted',
           revoked => revoked', demoted => demoted'
    PROVE  CheckoutInv'
<1> QED  BY InvoicesKept, OnlyJob

\* A job that ends fits.
LEMMA NoJobFits ==
    ASSUME NEW a \in Processes, job'[a] = NoJob PROVE JobFits(a)' /\ job'[a].at \notin Applying
  BY NoJobIsAJob DEF JobFits, ListFits, Sure, Making, Selling, Applying, NoJob

LEMMA Voiding ==
    ASSUME CheckoutTypeOK, NEW p \in PayRows, invoice' \in {invoice, Voided(p)}
    PROVE  /\ invoice' \in [PayRows -> {"none", "open", "paid", "void"}]
           /\ \A q \in PayRows : invoice[q] = "paid" => invoice'[q] = "paid"
           /\ \A q \in PayRows : invoice[q] = "none" => invoice'[q] = "none"
  BY DEF CheckoutTypeOK, Voided

LEMMA Sets == /\ PlanRows \subseteq PayRows /\ AddonRows \subseteq PayRows
              /\ \A p \in AddonRows : p \notin PlanRows /\ p # 0
              /\ Users \subseteq Processes /\ Hooks \subseteq Processes /\ Offices \subseteq Processes
  BY CheckoutAssumption DEF PlanRows, PayRows, AddonRows, Processes

LEMMA JobTypes ==
    ASSUME CheckoutTypeOK, NEW a \in Processes
    PROVE  /\ job[a] \in Jobs /\ job[a].on \in PayRows \cup {0} /\ job[a].todo \in SUBSET PayRows
           /\ job[a].end \in Nat /\ job[a].offered \in BOOLEAN
  BY DEF CheckoutTypeOK, Jobs

\* A row taken off the list.
LEMMA Picks ==
    ASSUME CheckoutTypeOK, NEW a \in Processes, NEW p \in job[a].todo
    PROVE  /\ Taking(a, p) \in Jobs /\ Taking(a, p).op = job[a].op /\ Taking(a, p).on = p
           /\ Taking(a, p).todo = job[a].todo \ {p}
<1> DEFINE r1 == [job[a] EXCEPT !.todo = @ \ {p}]
           r2 == [r1 EXCEPT !.on = p]
<1>1. job[a] \in Jobs /\ p \in PayRows /\ job[a].todo \ {p} \in SUBSET PayRows  BY JobTypes
<1>2. r1 \in Jobs /\ r1.op = job[a].op /\ r1.todo = job[a].todo \ {p} /\ r1.reuse = job[a].reuse
  BY <1>1 DEF Jobs
<1> HIDE DEF r1
<1>3. r2 \in Jobs /\ r2.op = job[a].op /\ r2.on = p /\ r2.todo = job[a].todo \ {p} /\ r2.reuse = job[a].reuse
  BY <1>1, <1>2 DEF Jobs
<1>4. r2 = Taking(a, p)  BY DEF r1, Taking
<1> QED  BY <1>3, <1>4

-----------------------------------------------------------------------------
(* POST pay.                                                                *)

LEMMA PayListKeeps == ASSUME CheckoutInv, NEW a \in Processes, PayList(a) PROVE CheckoutInv'
<1> CheckoutTypeOK  BY DEF CheckoutInv
<1> DEFINE f1 == [NoJob EXCEPT !.op = "pay"]
           f == [f1 EXCEPT !.todo = PendingPlans]
<1>1. PendingPlans \subseteq PlanRows /\ PendingPlans \in SUBSET PayRows  BY Sets DEF PendingPlans
<1>2. f \in Jobs /\ f.op = "pay" /\ f.todo = PendingPlans
  <2>1. f1 \in Jobs /\ f1.op = "pay"  BY NoJobIsAJob DEF Jobs
  <2> HIDE DEF f1
  <2> QED  BY <1>1, <2>1 DEF Jobs
<1>3. Step(a, "walk", f)  BY DEF PayList
<1> HIDE DEF f
<1>4. /\ job' \in [Processes -> Jobs] /\ Alone(a)
      /\ job'[a].at = "walk" /\ job'[a].op = "pay" /\ job'[a].todo = PendingPlans
  BY <1>2, <1>3, Stepped DEF Ats, Alone
<1>5. JobFits(a)' /\ job'[a].at \notin Applying  BY <1>1, <1>4 DEF JobFits, ListFits, Sure, Making, Selling, Applying
<1> QED  BY <1>4, <1>5, JustJob DEF PayList, Does, Applying

\* What a request that walks a list does with the row it takes.
LEMMA WalkKeeps ==
    ASSUME CheckoutInv, NEW a \in Processes, NEW p \in job[a].todo, NEW step \in Ats, NEW f \in Jobs, Step(a, step, f),
           UNCHANGED <<row, invoice, addonRecord, ends, checkoutHistory>>,
           job[a].at = "walk", step \in {"walk", "claim", "void"}, f.op = job[a].op,
           f.todo = job[a].todo \ {p}, f.on = p,
           step = "claim" => invoice[p] = "paid", step = "void" => f.op = "pay"
    PROVE  CheckoutInv'
<1> CheckoutTypeOK  BY DEF CheckoutInv
<1>1. /\ job' \in [Processes -> Jobs] /\ Alone(a)
      /\ job'[a].at = step /\ job'[a].op = job[a].op /\ job'[a].on = p /\ job'[a].todo = job[a].todo \ {p}
  BY Stepped DEF Alone
<1>2. job[a].op = "pay" => job[a].todo \subseteq PlanRows  BY DEF CheckoutInv, Bought, Lists, ListFits
<1>3. job'[a].at = "claim" => job'[a].on \in PayRows /\ invoice'[job'[a].on] = "paid"  BY <1>1, JobTypes
<1>4. JobFits(a)'  BY <1>1, <1>2, <1>3 DEF JobFits, ListFits, Sure, Making, Selling
<1>5. job[a].at \notin Applying /\ job'[a].at \notin Applying  BY <1>1 DEF Applying
<1> QED  BY <1>1, <1>4, <1>5, JustJob

LEMMA PayFetchKeeps == ASSUME CheckoutInv, NEW a \in Processes, PayFetch(a) PROVE CheckoutInv'
<1> CheckoutTypeOK  BY DEF CheckoutInv
<1>1. job[a].at = "walk" /\ job[a].op = "pay" /\ UNCHANGED <<row, invoice, addonRecord, ends, checkoutHistory>>
  BY DEF PayFetch, Does
<1>2. PICK p \in job[a].todo :
         \/ invoice[p] = "paid" /\ Step(a, "claim", Taking(a, p))
         \/ Step(a, "walk", [Taking(a, p) EXCEPT !.reuse = TRUE])
         \/ Step(a, "void", Taking(a, p))
  BY DEF PayFetch, Newest
<1>3. /\ Taking(a, p) \in Jobs /\ Taking(a, p).op = job[a].op /\ Taking(a, p).on = p
      /\ Taking(a, p).todo = job[a].todo \ {p}
  BY Picks
<1>4. CASE invoice[p] = "paid" /\ Step(a, "claim", Taking(a, p))
  <2>1. "claim" \in Ats  BY DEF Ats
  <2> QED  BY <1>1, <1>3, <1>4, <2>1, WalkKeeps
<1>5. CASE Step(a, "walk", [Taking(a, p) EXCEPT !.reuse = TRUE])
  <2> DEFINE f == [Taking(a, p) EXCEPT !.reuse = TRUE]
  <2>1. f \in Jobs /\ f.op = job[a].op /\ f.on = p /\ f.todo = job[a].todo \ {p}  BY <1>3 DEF Jobs
  <2>2. Step(a, "walk", f)  BY <1>5
  <2>3. "walk" \in Ats  BY DEF Ats
  <2> HIDE DEF f
  <2> QED  BY <1>1, <2>1, <2>2, <2>3, WalkKeeps
<1>6. CASE Step(a, "void", Taking(a, p))
  <2>1. "void" \in Ats  BY DEF Ats
  <2> QED  BY <1>1, <1>3, <1>6, <2>1, WalkKeeps
<1> QED  BY <1>2, <1>4, <1>5, <1>6

LEMMA SyncFetchKeeps == ASSUME CheckoutInv, NEW a \in Processes, SyncFetch(a) PROVE CheckoutInv'
<1> CheckoutTypeOK  BY DEF CheckoutInv
<1>1. job[a].at = "walk" /\ UNCHANGED <<row, invoice, addonRecord, ends, checkoutHistory>>  BY DEF SyncFetch, Does
<1>2. CASE Finish(a)
  <2>1. job' \in [Processes -> Jobs] /\ job'[a] = NoJob /\ Alone(a)  BY <1>2, Finished DEF Alone
  <2> QED  BY <1>1, <2>1, NoJobFits, JustJob DEF Applying
<1>3. ASSUME NEW p \in job[a].todo, NEW shown \in {invoice[p], "none"},
             Step(a, IF shown = "paid" THEN "claim" ELSE "walk", Taking(a, p))
      PROVE  CheckoutInv'
  <2>1. /\ Taking(a, p) \in Jobs /\ Taking(a, p).op = job[a].op /\ Taking(a, p).on = p
        /\ Taking(a, p).todo = job[a].todo \ {p}
    BY Picks
  <2>2. "claim" \in Ats /\ "walk" \in Ats  BY DEF Ats
  <2>3. CASE shown = "paid"
    <3>1. Step(a, "claim", Taking(a, p)) /\ invoice[p] = "paid"  BY <1>3, <2>3
    <3> QED  BY <1>1, <2>1, <2>2, <3>1, WalkKeeps
  <2>4. CASE shown # "paid"
    <3>1. Step(a, "walk", Taking(a, p))  BY <1>3, <2>4
    <3> QED  BY <1>1, <2>1, <2>2, <3>1, WalkKeeps
  <2> QED  BY <2>3, <2>4
<1> QED  BY <1>2, <1>3 DEF SyncFetch, Newest

LEMMA PayVoidKeeps == ASSUME CheckoutInv, NEW a \in Processes, PayVoid(a) PROVE CheckoutInv'
<1> CheckoutTypeOK  BY DEF CheckoutInv
<1>1. /\ job[a].at = "void" /\ UNCHANGED <<row, addonRecord, ends, checkoutHistory>>
      /\ invoice' \in {invoice, Voided(job[a].on)} /\ Step(a, "close", job[a])
  BY DEF PayVoid, Does
<1>0. job[a].on \in PlanRows /\ job[a].on \in PayRows
  BY <1>1, Sets DEF CheckoutInv, Bought, Lists, ListFits
<1>2. /\ invoice' \in [PayRows -> {"none", "open", "paid", "void"}]
      /\ \A q \in PayRows : invoice[q] = "paid" => invoice'[q] = "paid"
      /\ \A q \in PayRows : invoice[q] = "none" => invoice'[q] = "none"
  BY <1>0, <1>1, Voiding
<1>3. /\ job' \in [Processes -> Jobs] /\ Alone(a) /\ job'[a].at = "close"
      /\ job'[a].op = job[a].op /\ job'[a].on = job[a].on /\ job'[a].todo = job[a].todo
  BY <1>1, JobTypes, Stepped DEF Ats, Alone
<1>4. JobFits(a)'  BY <1>1, <1>3 DEF JobFits, ListFits, Sure, Making, Selling, CheckoutInv, Bought, Lists, ListFits
<1>5. \A q \in PayRows : row[q] = "none" => invoice'[q] = "none"
  BY <1>2 DEF CheckoutInv, Bought, NothingYet
<1>6. \A b \in Processes : b # a /\ job[b].at \in Making => invoice'[job[b].on] = "none"
  BY <1>2 DEF CheckoutInv, Bought, OneCreator
<1>7. job[a].at \notin Applying /\ job'[a].at \notin Applying  BY <1>1, <1>3 DEF Applying
<1> QED  BY <1>1, <1>2, <1>3, <1>4, <1>5, <1>6, <1>7, JobAndInvoice

\* A paid row that is closed makes room for a second activation.
LEMMA PayCloseKeeps == ASSUME CheckoutInv, NEW a \in Processes, PayClose(a) PROVE CheckoutInv'
<1> CheckoutTypeOK  BY DEF CheckoutInv
<1> DEFINE p == job[a].on
<1>1. /\ job[a].at = "close" /\ UNCHANGED <<invoice, addonRecord, ends, applied, overlapped, dropped, revoked, demoted>>
      /\ row' = [row EXCEPT ![p] = "cancelled"]
      /\ reopened' = [reopened EXCEPT ![p] = @ + IF row[p] = "paid" THEN 1 ELSE 0]
      /\ Step(a, "walk", job[a])
  BY DEF PayClose, Does
<1>2. p \in PayRows /\ p \in PlanRows /\ job[a].op = "pay"
  BY <1>1, Sets DEF CheckoutInv, Bought, Lists, ListFits
<1> HIDE DEF p
<1>3. /\ job' \in [Processes -> Jobs] /\ Alone(a) /\ job'[a].at = "walk"
      /\ job'[a].op = job[a].op /\ job'[a].todo = job[a].todo
  BY <1>1, JobTypes, Stepped DEF Ats, Alone
<1>4. /\ row' \in [PayRows -> {"none", "pending", "paid", "cancelled"}] /\ reopened' \in [PayRows -> Nat]
      /\ row'[p] = "cancelled" /\ \A q \in PayRows : q # p => row'[q] = row[q] /\ reopened'[q] = reopened[q]
      /\ reopened'[p] = reopened[p] + (IF row[p] = "paid" THEN 1 ELSE 0)
  BY <1>1, <1>2 DEF CheckoutTypeOK
<1>5. CheckoutTypeOK'  BY <1>1, <1>3, <1>4 DEF CheckoutTypeOK, addonRecord
<1>6. JobFits(a)'  BY <1>3 DEF JobFits, ListFits, Sure, Making, Selling, CheckoutInv, Bought, Lists, ListFits
<1>7. World(a)
  BY <1>1, <1>4 DEF World, CheckoutInv, Bought, NothingYet, OneCreator
<1>8. Bought'  BY <1>3, <1>6, <1>7, BoughtKept
<1>9. Counted'
  <2>1. \A q \in PayRows : Room(q)' >= Room(q)  BY <1>4 DEF Room, CheckoutTypeOK
  <2>2. job'[a].at \notin Applying  BY <1>3 DEF Applying
  <2> QED  BY <1>1, <1>3, <1>5, <2>1, <2>2, CountKept
<1>10. PaidAddonIsDelivered'
  <2>1. \A q \in AddonRows : row'[q] = row[q]  BY <1>2, <1>4, Sets
  <2>2. \A b \in Processes : job[b].at = "activate" => job'[b].at = "activate" /\ job'[b].on = job[b].on
    BY <1>1, <1>3 DEF Alone
  <2> QED  BY <1>1, <2>1, <2>2, DeliveredKept DEF addonRecord
<1> QED  BY <1>5, <1>8, <1>9, <1>10 DEF CheckoutInv

\* A job that ends, whatever it was, outside an activation.
LEMMA EndKeeps ==
    ASSUME CheckoutInv, NEW a \in Processes, Finish(a), job[a].at \notin Applying,
           UNCHANGED <<row, invoice, addonRecord, ends, checkoutHistory>>
    PROVE  CheckoutInv'
<1>1. job' \in [Processes -> Jobs] /\ job'[a] = NoJob /\ Alone(a)  BY Finished DEF Alone, CheckoutInv
<1> QED  BY <1>1, NoJobFits, JustJob

\* A fresh row has no invoice, and the request that inserts it makes it.
LEMMA RowInserted ==
    ASSUME CheckoutInv, NEW a \in Processes, NEW p \in PayRows, row[p] = "none", row' = [row EXCEPT ![p] = "pending"],
           UNCHANGED <<invoice, addonRecord, ends, checkoutHistory>>, job[a].at \notin Applying,
           NEW step \in Making, NEW f \in Jobs, Step(a, step, f), f.on = p,
           f.op = "pay" => f.todo \subseteq PlanRows, step = "new_invoice" => p \in AddonRows
    PROVE  CheckoutInv'
<1> CheckoutTypeOK  BY DEF CheckoutInv
<1>1. /\ job' \in [Processes -> Jobs] /\ Alone(a) /\ job'[a].at = step
      /\ job'[a].op = f.op /\ job'[a].todo = f.todo /\ job'[a].on = p
  <2>1. step \in Ats  BY DEF Making, Ats
  <2> QED  BY <2>1, Stepped DEF Alone
<1>2. /\ row' \in [PayRows -> {"none", "pending", "paid", "cancelled"}]
      /\ row'[p] = "pending" /\ \A q \in PayRows : q # p => row'[q] = row[q]
  BY DEF CheckoutTypeOK
<1>3. CheckoutTypeOK'  BY <1>1, <1>2 DEF CheckoutTypeOK, checkoutHistory, addonRecord
<1>4. invoice[p] = "none"  BY DEF CheckoutInv, Bought, NothingYet
<1>5. \A b \in Processes : job[b].at \in Making => job[b].on # p
  BY DEF CheckoutInv, Bought, OneCreator
<1>6. JobFits(a)'
  <2>1. ASSUME NEW b \in Processes, job'[b].at \in Making, job'[b].on = p PROVE b = a
    BY <1>1, <1>5, <2>1 DEF Alone
  <2>2. ListFits(job'[a])  BY <1>1 DEF ListFits, Making, Selling
  <2>3. job'[a].at \notin Sure  BY <1>1 DEF Making, Sure
  <2> QED  BY <1>1, <1>2, <1>4, <2>1, <2>2, <2>3 DEF JobFits, ListFits
<1>7. World(a)
  <2>1. \A q \in PayRows : row'[q] = "none" => row[q] = "none" /\ invoice'[q] = "none"
    BY <1>2 DEF CheckoutInv, Bought, NothingYet
  <2>2. \A b \in Processes : job[b].at \in Making => invoice'[job[b].on] = "none"
    BY DEF CheckoutInv, Bought, OneCreator
  <2> QED  BY <2>1, <2>2 DEF World, checkoutHistory
<1>8. Bought'  BY <1>1, <1>6, <1>7, BoughtKept
<1>9. job'[a].at \notin Applying  BY <1>1 DEF Applying, Making
<1>10. Counted'
  <2>1. \A q \in PayRows : Room(q)' >= Room(q)  BY <1>2 DEF Room, CheckoutTypeOK, checkoutHistory
  <2> QED  BY <1>1, <1>3, <1>9, <2>1, CountKept DEF checkoutHistory
<1>11. PaidAddonIsDelivered'
  <2>1. \A q \in AddonRows : row'[q] = "paid" => row[q] = "paid"  BY <1>2, Sets
  <2>2. \A b \in Processes : job[b].at = "activate" => job'[b].at = "activate" /\ job'[b].on = job[b].on
    BY <1>1 DEF Alone, Applying
  <2> QED  BY <2>1, <2>2, DeliveredKept DEF checkoutHistory, addonRecord
<1> QED  BY <1>3, <1>8, <1>10, <1>11 DEF CheckoutInv

LEMMA PayInsertKeeps == ASSUME CheckoutInv, NEW a \in Processes, PayInsert(a) PROVE CheckoutInv'
<1> CheckoutTypeOK  BY DEF CheckoutInv
<1>1. /\ job[a].at = "walk" /\ job[a].op = "pay" /\ UNCHANGED <<invoice, addonRecord, ends, checkoutHistory>>
  BY DEF PayInsert, Does
<1>2. job[a].at \notin Applying  BY <1>1 DEF Applying
<1>3. CASE Finish(a) /\ UNCHANGED row  BY <1>1, <1>2, <1>3, EndKeeps
<1>4. ASSUME NEW p \in PlanRows, row[p] = "none", row' = [row EXCEPT ![p] = "pending"],
             Step(a, "create", [job[a] EXCEPT !.on = p])
      PROVE  CheckoutInv'
  <2> DEFINE f == [job[a] EXCEPT !.on = p]
  <2>1. p \in PayRows  BY Sets
  <2>2. f \in Jobs /\ f.op = job[a].op /\ f.todo = job[a].todo /\ f.on = p  BY <2>1, JobTypes DEF Jobs
  <2>3. Step(a, "create", f)  BY <1>4
  <2> HIDE DEF f
  <2>4. "create" \in Making  BY DEF Making
  <2>5. f.op = "pay" => f.todo \subseteq PlanRows  BY <2>2 DEF CheckoutInv, Bought, Lists, ListFits
  <2> QED  BY <1>1, <1>2, <1>4, <2>1, <2>2, <2>3, <2>4, <2>5, RowInserted
<1> QED  BY <1>1, <1>3, <1>4 DEF PayInsert, NextRow

\* The invoice of a row is made by the one request that inserted it.
LEMMA InvoiceMade ==
    ASSUME CheckoutInv, NEW a \in Processes, job[a].at \in Making,
           invoice' \in {invoice, [invoice EXCEPT ![job[a].on] = "open"]}
    PROVE  /\ invoice' \in [PayRows -> {"none", "open", "paid", "void"}]
           /\ \A q \in PayRows : invoice[q] = "paid" => invoice'[q] = "paid"
           /\ \A q \in PayRows : row[q] = "none" => invoice'[q] = "none"
           /\ \A b \in Processes : b # a /\ job[b].at \in Making => invoice'[job[b].on] = "none"
           /\ job[a].on \in PayRows /\ row[job[a].on] # "none" /\ invoice[job[a].on] = "none"
<1>1. /\ job[a].on \in PayRows /\ row[job[a].on] # "none" /\ invoice[job[a].on] = "none"
      /\ \A b \in Processes : job[b].at \in Making /\ job[b].on = job[a].on => b = a
  BY DEF CheckoutInv, Bought, OneCreator
<1>2. /\ invoice' \in [PayRows -> {"none", "open", "paid", "void"}]
      /\ \A q \in PayRows : q # job[a].on => invoice'[q] = invoice[q]
  BY <1>1 DEF CheckoutInv, CheckoutTypeOK
<1>3. \A q \in PayRows : row[q] = "none" => invoice'[q] = "none"
  BY <1>1, <1>2 DEF CheckoutInv, Bought, NothingYet
<1>4. \A b \in Processes : b # a /\ job[b].at \in Making => invoice'[job[b].on] = "none"
  BY <1>1, <1>2 DEF CheckoutInv, Bought, OneCreator
<1>5. \A q \in PayRows : invoice[q] = "paid" => invoice'[q] = "paid"  BY <1>1, <1>2
<1> QED  BY <1>1, <1>2, <1>3, <1>4, <1>5

LEMMA PayInvoiceKeeps == ASSUME CheckoutInv, NEW a \in Processes, PayInvoice(a) PROVE CheckoutInv'
<1> CheckoutTypeOK  BY DEF CheckoutInv
<1>1. /\ job[a].at = "create" /\ UNCHANGED <<row, addonRecord, ends, checkoutHistory>> /\ Finish(a)
      /\ invoice' \in {invoice, [invoice EXCEPT ![job[a].on] = "open"]}
  BY DEF PayInvoice, Does
<1>2. job[a].at \in Making /\ job[a].at \notin Applying  BY <1>1 DEF Making, Applying
<1>3. job' \in [Processes -> Jobs] /\ job'[a] = NoJob /\ Alone(a)  BY <1>1, Finished DEF Alone
<1> QED  BY <1>1, <1>2, <1>3, InvoiceMade, NoJobFits, JobAndInvoice

-----------------------------------------------------------------------------
(* The customer, the webhook, sync.                                         *)

LEMMA CustomerPaysKeeps == ASSUME CheckoutInv, NEW p \in PayRows, CustomerPays(p) PROVE CheckoutInv'
<1> CheckoutTypeOK  BY DEF CheckoutInv
<1>1. /\ invoice[p] = "open" /\ invoice' = [invoice EXCEPT ![p] = "paid"]
      /\ UNCHANGED <<row, addonRecord, ends, job, checkoutHistory>>
  BY DEF CustomerPays
<1>2. /\ invoice' \in [PayRows -> {"none", "open", "paid", "void"}]
      /\ invoice'[p] = "paid" /\ \A q \in PayRows : q # p => invoice'[q] = invoice[q]
  BY <1>1 DEF CheckoutTypeOK
<1>3. job' \in [Processes -> Jobs] /\ Alone(0)  BY <1>1 DEF CheckoutTypeOK, Alone
<1>4. \A b \in Processes : job[b].at \in Making => invoice'[job[b].on] = "none"
  BY <1>1, <1>2 DEF CheckoutInv, Bought, OneCreator
<1>5. \A b \in Processes : job[b].at \in Sure => invoice'[job[b].on] = "paid"
  BY <1>2 DEF CheckoutInv, Bought, SawItPaid
<1>6. 0 \in Processes => JobFits(0)' /\ job'[0] = job[0]
  BY <1>1, <1>4, <1>5 DEF JobFits, CheckoutInv, Bought, OneCreator, SawItPaid, Lists, ListFits
<1>7. \A q \in PayRows : row[q] = "none" => invoice'[q] = "none"
  BY <1>1, <1>2 DEF CheckoutInv, Bought, NothingYet
<1>8. \A q \in PayRows : invoice[q] = "paid" => invoice'[q] = "paid"  BY <1>2
<1> QED  BY <1>1, <1>2, <1>3, <1>4, <1>6, <1>7, <1>8, JobAndInvoice

LEMMA DeliverKeeps == ASSUME CheckoutInv, NEW h \in Hooks, NEW p \in PayRows, Deliver(h, p) PROVE CheckoutInv'
<1> CheckoutTypeOK  BY DEF CheckoutInv
<1>1. /\ job[h].at = "idle" /\ invoice[p] = "paid" /\ UNCHANGED <<row, invoice, addonRecord, ends, checkoutHistory>>
  BY DEF Deliver, Does
<1> DEFINE f1 == [NoJob EXCEPT !.op = "hook"]
           f == [f1 EXCEPT !.on = p]
<1>2. f \in Jobs /\ f.op = "hook" /\ f.on = p
  <2>1. f1 \in Jobs /\ f1.op = "hook"  BY NoJobIsAJob DEF Jobs
  <2> HIDE DEF f1
  <2> QED  BY <2>1, Sets DEF Jobs
<1>3. Step(h, "claim", f)  BY DEF Deliver
<1> HIDE DEF f
<1>4. h \in Processes  BY Sets
<1>5. /\ job' \in [Processes -> Jobs] /\ Alone(h)
      /\ job'[h].at = "claim" /\ job'[h].op = "hook" /\ job'[h].on = p
  BY <1>2, <1>3, <1>4, Stepped DEF Ats, Alone
<1>6. JobFits(h)' /\ job[h].at \notin Applying /\ job'[h].at \notin Applying
  BY <1>1, <1>5 DEF JobFits, ListFits, Sure, Making, Selling, Applying
<1> QED  BY <1>1, <1>4, <1>5, <1>6, JustJob

LEMMA SyncListKeeps == ASSUME CheckoutInv, NEW a \in Processes, SyncList(a) PROVE CheckoutInv'
<1> CheckoutTypeOK  BY DEF CheckoutInv
<1> DEFINE rs == {p \in PayRows : row[p] = "pending" /\ invoice[p] # "none"}
           f1 == [NoJob EXCEPT !.op = "sync"]
           f == [f1 EXCEPT !.todo = rs]
<1>1. rs \in SUBSET PayRows  OBVIOUS
<1> HIDE DEF rs
<1>2. f \in Jobs /\ f.op = "sync"
  <2>1. f1 \in Jobs /\ f1.op = "sync"  BY NoJobIsAJob DEF Jobs
  <2> HIDE DEF f1
  <2> QED  BY <1>1, <2>1 DEF Jobs
<1>3. Step(a, "walk", f)  BY DEF SyncList, rs
<1> HIDE DEF f
<1>4. job' \in [Processes -> Jobs] /\ Alone(a) /\ job'[a].at = "walk" /\ job'[a].op = "sync"
  BY <1>2, <1>3, Stepped DEF Ats, Alone
<1>5. JobFits(a)' /\ job'[a].at \notin Applying  BY <1>4 DEF JobFits, ListFits, Sure, Making, Selling, Applying
<1> QED  BY <1>4, <1>5, JustJob DEF SyncList, Does, Applying

-----------------------------------------------------------------------------
(* Activation.                                                              *)

LEMMA Proceeding ==
    ASSUME CheckoutTypeOK, NEW a \in Processes, Proceed(a)
    PROVE  /\ job' \in [Processes -> Jobs] /\ Alone(a) /\ JobFits(a)'
           /\ job'[a].at \in {"idle", "walk"} /\ job'[a].at \notin Applying
<1>1. CASE Finish(a)
  <2>1. job' \in [Processes -> Jobs] /\ Alone(a) /\ job'[a] = NoJob /\ job'[a].at = "idle"
    BY <1>1, Finished DEF Alone
  <2> QED  BY <2>1, NoJobFits
<1>2. CASE job[a].op = "sync" /\ Step(a, "walk", job[a])
  <2>1. job' \in [Processes -> Jobs] /\ Alone(a) /\ job'[a].at = "walk" /\ job'[a].op = "sync"
    BY <1>2, JobTypes, Stepped DEF Ats, Alone
  <2> QED  BY <2>1 DEF JobFits, ListFits, Sure, Making, Selling, Applying
<1> QED  BY <1>1, <1>2 DEF Proceed

LEMMA ClaimKeeps == ASSUME CheckoutInv, NEW a \in Processes, Claim(a) PROVE CheckoutInv'
<1> CheckoutTypeOK  BY DEF CheckoutInv
<1> DEFINE p == job[a].on
<1>1. job[a].at = "claim" /\ UNCHANGED <<invoice, addonRecord, ends, checkoutHistory>>  BY DEF Claim, Does
<1>2. p \in PayRows /\ invoice[p] = "paid"  BY <1>1 DEF CheckoutInv, Bought, SawItPaid, Sure
<1>3. CASE row[p] = "paid"
  <2>1. Proceed(a) /\ UNCHANGED row  BY <1>3 DEF Claim
  <2>2. job[a].at \notin Applying  BY <1>1 DEF Applying
  <2> QED  BY <1>1, <2>1, <2>2, Proceeding, JustJob
<1>4. CASE row[p] # "paid"
  <2> DEFINE step == IF p \in AddonRows THEN "activate" ELSE "read"
  <2>1. row' = [row EXCEPT ![p] = "paid"] /\ Step(a, step, job[a])  BY <1>4 DEF Claim
  <2>2. step \in Ats /\ step \in {"activate", "read"}  BY DEF Ats
  <2>3. /\ job' \in [Processes -> Jobs] /\ Alone(a) /\ job'[a].at = step
        /\ job'[a].op = job[a].op /\ job'[a].on = p /\ job'[a].todo = job[a].todo
    BY <2>1, <2>2, JobTypes, Stepped DEF Alone
  <2>4. /\ row' \in [PayRows -> {"none", "pending", "paid", "cancelled"}]
        /\ row'[p] = "paid" /\ \A q \in PayRows : q # p => row'[q] = row[q]
    BY <1>2, <2>1 DEF CheckoutTypeOK
  <2> HIDE DEF p
  <2>5. CheckoutTypeOK'  BY <1>1, <2>3, <2>4 DEF CheckoutTypeOK, checkoutHistory, addonRecord
  <2>6. JobFits(a)'
    <3>1. job'[a].at \notin Making /\ invoice'[job'[a].on] = "paid"  BY <1>1, <1>2, <2>2, <2>3 DEF Making
    <3>2. ListFits(job[a])  BY DEF CheckoutInv, Bought, Lists
    <3>3. ListFits(job'[a])  BY <2>2, <2>3, <3>2 DEF ListFits, Selling
    <3> QED  BY <1>2, <2>3, <3>1, <3>3 DEF JobFits, ListFits
  <2>8. World(a)
    BY <1>1, <1>2, <2>4 DEF World, CheckoutInv, Bought, NothingYet, OneCreator, checkoutHistory
  <2>9. Bought'  BY <2>3, <2>6, <2>8, BoughtKept
  <2>10. Counted'
    <3>1. job[a].at \notin Applying  BY <1>1 DEF Applying
    <3> QED  BY <1>1, <1>4, <2>1, <2>3, <2>5, <3>1, CountClaimed DEF checkoutHistory, p
  <2>11. PaidAddonIsDelivered'
    <3>1. \A q \in AddonRows : row'[q] = "paid" => row[q] = "paid" \/ (job'[a].at = "activate" /\ job'[a].on = q)
      BY <2>3, <2>4, Sets
    <3>2. \A b \in Processes : job[b].at = "activate" => job'[b].at = "activate" /\ job'[b].on = job[b].on
      BY <1>1, <2>3 DEF Alone
    <3> QED  BY <1>1, <3>1, <3>2, DeliveredKept DEF checkoutHistory, addonRecord
  <2> QED  BY <2>5, <2>9, <2>10, <2>11 DEF CheckoutInv
<1> QED  BY <1>3, <1>4

\* Where no row, invoice or count of what was applied changes.
LEMMA QuietWorld ==
    ASSUME CheckoutInv, NEW a \in Processes, UNCHANGED <<row, invoice, applied>>
    PROVE  World(a)
  BY DEF World, CheckoutInv, Bought, NothingYet, OneCreator

LEMMA ReadWindowKeeps == ASSUME CheckoutInv, NEW a \in Processes, ReadWindow(a) PROVE CheckoutInv'
<1> CheckoutTypeOK  BY DEF CheckoutInv
<1>1. /\ job[a].at = "read" /\ UNCHANGED <<row, invoice, addonRecord, ends, applied, reopened, dropped, revoked, demoted>>
      /\ Step(a, "write", [job[a] EXCEPT !.end = ends])
      /\ overlapped' \in BOOLEAN
  BY DEF ReadWindow, Does
<1> DEFINE f == [job[a] EXCEPT !.end = ends]
<1>2. f \in Jobs /\ f.op = job[a].op /\ f.on = job[a].on /\ f.todo = job[a].todo
  BY JobTypes DEF Jobs, CheckoutTypeOK
<1>3. Step(a, "write", f)  BY <1>1
<1> HIDE DEF f
<1>4. /\ job' \in [Processes -> Jobs] /\ Alone(a) /\ job'[a].at = "write"
      /\ job'[a].op = job[a].op /\ job'[a].on = job[a].on /\ job'[a].todo = job[a].todo
  BY <1>2, <1>3, Stepped DEF Ats, Alone
<1>5. CheckoutTypeOK'  BY <1>1, <1>4 DEF CheckoutTypeOK, addonRecord
<1>6. JobFits(a)'  BY <1>1, <1>4 DEF JobFits, ListFits, Sure, Making, Selling, CheckoutInv, Bought, SawItPaid, Lists
<1>7. Bought'  BY <1>1, <1>4, <1>6, QuietWorld, BoughtKept
<1>8. Counted'
  <2>1. \A p \in PayRows : Room(p)' >= Room(p)  BY <1>1 DEF Room, CheckoutTypeOK
  <2>2. job[a].at \in Applying  BY <1>1 DEF Applying
  <2> QED  BY <1>1, <1>4, <1>5, <2>1, <2>2, CountKept
<1>9. PaidAddonIsDelivered'
  <2>1. \A b \in Processes : job[b].at = "activate" => job'[b].at = "activate" /\ job'[b].on = job[b].on
    BY <1>1, <1>4 DEF Alone
  <2> QED  BY <1>1, <2>1, DeliveredKept DEF addonRecord
<1> QED  BY <1>5, <1>7, <1>8, <1>9 DEF CheckoutInv

\* A purchase that is applied, of an invoice that is paid.
LEMMA Applied ==
    ASSUME CheckoutInv, CheckoutTypeOK', NEW a \in Processes, job[a].at \in Applying, UNCHANGED <<row, invoice, reopened>>,
           Alone(a), JobFits(a)', job'[a].at \notin Applying,
           applied' = [applied EXCEPT ![job[a].on] = @ + 1], PaidAddonIsDelivered'
    PROVE  CheckoutInv'
<1>1. job[a].on \in PayRows /\ invoice[job[a].on] = "paid"
  BY DEF CheckoutInv, Bought, SawItPaid, Sure, Applying
<1>2. \A p \in PayRows : applied'[p] > 0 => applied[p] > 0 \/ invoice[p] = "paid"
  BY <1>1 DEF CheckoutInv, CheckoutTypeOK
<1>3. World(a)  BY <1>2 DEF World, CheckoutInv, Bought, NothingYet, OneCreator
<1>4. Bought'  BY <1>3, BoughtKept
<1>5. Counted'  BY CountApplied
<1> QED  BY <1>4, <1>5 DEF CheckoutInv

LEMMA AppliedType ==
    ASSUME CheckoutTypeOK, NEW p \in PayRows PROVE [applied EXCEPT ![p] = @ + 1] \in [PayRows -> Nat]
  BY DEF CheckoutTypeOK

LEMMA WriteWindowKeeps == ASSUME CheckoutInv, NEW a \in Processes, WriteWindow(a) PROVE CheckoutInv'
<1> CheckoutTypeOK  BY DEF CheckoutInv
<1>1. /\ job[a].at = "write" /\ UNCHANGED <<row, invoice, addonRecord, reopened, overlapped, dropped, revoked, demoted>>
      /\ ends' = job[a].end + 1 /\ applied' = [applied EXCEPT ![job[a].on] = @ + 1] /\ Finish(a)
  BY DEF WriteWindow, Does
<1>2. job' \in [Processes -> Jobs] /\ Alone(a) /\ job'[a] = NoJob  BY <1>1, Finished DEF Alone
<1>3. job[a].at \in Applying /\ job[a].on \in PayRows
  BY <1>1 DEF Applying, Sure, CheckoutInv, Bought, SawItPaid
<1>4. CheckoutTypeOK'
  <2>1. ends' \in Nat /\ applied' \in [PayRows -> Nat]  BY <1>1, <1>3, JobTypes, AppliedType
  <2> QED  BY <1>1, <1>2, <2>1 DEF CheckoutTypeOK, addonRecord
<1>5. PaidAddonIsDelivered'
  <2>1. \A b \in Processes : job[b].at = "activate" => job'[b].at = "activate" /\ job'[b].on = job[b].on
    BY <1>1, <1>2 DEF Alone
  <2> QED  BY <1>1, <2>1, DeliveredKept DEF addonRecord
<1> QED  BY <1>1, <1>2, <1>3, <1>4, <1>5, NoJobFits, Applied

LEMMA ActivateAddonKeeps == ASSUME CheckoutInv, NEW a \in Processes, ActivateAddon(a) PROVE CheckoutInv'
<1> CheckoutTypeOK  BY DEF CheckoutInv
<1>1. /\ job[a].at = "activate"
      /\ UNCHANGED <<row, invoice, lapsed, ends, reopened, overlapped, dropped, revoked, demoted>>
      /\ addon' = "active" /\ named' \in {named, job[a].on}
      /\ applied' = [applied EXCEPT ![job[a].on] = @ + 1] /\ Proceed(a)
  BY DEF ActivateAddon, Does
<1>2. job[a].on \in AddonRows /\ job[a].on \in PayRows
  BY <1>1, Sets DEF CheckoutInv, Bought, Lists, ListFits, Selling
<1>3. job' \in [Processes -> Jobs] /\ Alone(a) /\ JobFits(a)' /\ job'[a].at \notin Applying
  BY <1>1, Proceeding
<1>4. CheckoutTypeOK'
  <2>1. applied' \in [PayRows -> Nat]  BY <1>1, <1>2, AppliedType
  <2>2. named' \in AddonRows \cup {0}  BY <1>1, <1>2 DEF CheckoutTypeOK
  <2> QED  BY <1>1, <1>3, <2>1, <2>2 DEF CheckoutTypeOK
<1>5. PaidAddonIsDelivered'  BY <1>1 DEF PaidAddonIsDelivered, ActiveBy
<1>6. job[a].at \in Applying  BY <1>1 DEF Applying
<1> QED  BY <1>1, <1>2, <1>3, <1>4, <1>5, <1>6, Applied

LEMMA LoseActivationKeeps == ASSUME CheckoutInv, NEW a \in Processes, LoseActivation(a) PROVE CheckoutInv'
<1> CheckoutTypeOK  BY DEF CheckoutInv
<1>1. /\ job[a].at \in Applying
      /\ UNCHANGED <<row, invoice, addonRecord, ends, applied, reopened, overlapped, revoked, demoted>>
      /\ dropped' = dropped \cup {job[a].on} /\ Finish(a)
  BY DEF LoseActivation, Applying
<1>2. job' \in [Processes -> Jobs] /\ Alone(a) /\ job'[a] = NoJob  BY <1>1, Finished DEF Alone
<1>3. job[a].on \in PayRows  BY <1>1 DEF Applying, Sure, CheckoutInv, Bought, SawItPaid
<1>4. CheckoutTypeOK'  BY <1>1, <1>2, <1>3 DEF CheckoutTypeOK, addonRecord
<1>5. Bought'  BY <1>1, <1>2, NoJobFits, QuietWorld, BoughtKept
<1>6. Counted'
  <2>1. \A p \in PayRows : Room(p)' >= Room(p)  BY <1>1 DEF Room, CheckoutTypeOK
  <2> QED  BY <1>1, <1>2, <1>4, <2>1, NoJobFits, CountKept
<1>7. PaidAddonIsDelivered'
  <2>1. \A b \in Processes : job[b].at = "activate" =>
           (job'[b].at = "activate" /\ job'[b].on = job[b].on) \/ job[b].on \in dropped'
    BY <1>1, <1>2 DEF Alone
  <2> QED  BY <1>1, <2>1, DeliveredKept DEF addonRecord
<1> QED  BY <1>4, <1>5, <1>6, <1>7 DEF CheckoutInv

LEMMA DieKeeps == ASSUME CheckoutInv, NEW a \in Processes, Die(a) PROVE CheckoutInv'
<1>1. job[a].at \notin Applying /\ Finish(a) /\ UNCHANGED <<row, invoice, addonRecord, ends, checkoutHistory>>
  BY DEF Die, Applying
<1> QED  BY <1>1, EndKeeps

-----------------------------------------------------------------------------
(* Add-ons.                                                                 *)

\* A job handed to a process that was not applying anything.
LEMMA Handed ==
    ASSUME CheckoutTypeOK, NEW a \in Processes, NEW step \in Ats, NEW f \in Jobs, Step(a, step, f),
           step \notin Applying, step \notin Making, step \in Sure => f.on \in PayRows /\ invoice'[f.on] = "paid",
           f.op = "pay" => step \notin {"void", "close"} /\ f.todo \subseteq PlanRows,
           step \in {"void", "close"} => f.op = "pay",
           step \in Selling => f.on \in AddonRows
    PROVE  job' \in [Processes -> Jobs] /\ Alone(a) /\ JobFits(a)' /\ job'[a].at \notin Applying
<1>1. /\ job' \in [Processes -> Jobs] /\ Alone(a)
      /\ job'[a].at = step /\ job'[a].op = f.op /\ job'[a].on = f.on /\ job'[a].todo = f.todo
  BY Stepped DEF Alone
<1> QED  BY <1>1 DEF JobFits, ListFits

LEMMA OfferKeeps == ASSUME CheckoutInv, NEW o \in Processes, Offer(o) PROVE CheckoutInv'
<1> CheckoutTypeOK  BY DEF CheckoutInv
<1> DEFINE f == [NoJob EXCEPT !.op = "offer"]
<1>1. /\ job[o].at = "idle" /\ addon = "none" /\ addon' = "offered" /\ Step(o, "new_row", f)
      /\ UNCHANGED <<row, invoice, named, lapsed, ends, checkoutHistory>>
  BY DEF Offer, Does
<1>2. f \in Jobs /\ f.op = "offer"  BY NoJobIsAJob DEF Jobs
<1> HIDE DEF f
<1>3. "new_row" \in Ats /\ "new_row" \notin Applying \cup Making \cup Sure \cup Selling
  BY DEF Ats, Applying, Making, Sure, Selling
<1>4. job' \in [Processes -> Jobs] /\ Alone(o) /\ JobFits(o)' /\ job'[o].at \notin Applying
  BY <1>1, <1>2, <1>3, Handed
<1>5. job[o].at \notin Applying  BY <1>1 DEF Applying
<1>6. /\ UNCHANGED <<applied, reopened, overlapped, dropped, revoked, demoted>>
      /\ named' \in AddonRows \cup {0} /\ lapsed' \in BOOLEAN /\ revoked' \in BOOLEAN /\ demoted' \in BOOLEAN
  BY <1>1 DEF checkoutHistory, CheckoutTypeOK
<1> QED  BY <1>1, <1>4, <1>5, <1>6, JobAndRecord

LEMMA NewRowKeeps == ASSUME CheckoutInv, NEW a \in Processes, NewRow(a) PROVE CheckoutInv'
<1> CheckoutTypeOK  BY DEF CheckoutInv
<1>1. job[a].at = "new_row" /\ UNCHANGED <<invoice, addonRecord, ends, checkoutHistory>>  BY DEF NewRow, Does
<1>2. job[a].at \notin Applying  BY <1>1 DEF Applying
<1>3. PICK p \in AddonRows : row[p] = "none" /\ row' = [row EXCEPT ![p] = "pending"]
                             /\ Step(a, "new_invoice", [job[a] EXCEPT !.on = p])
  BY DEF NewRow, NextRow
<1> DEFINE f == [job[a] EXCEPT !.on = p]
<1>4. p \in PayRows  BY Sets
<1>5. f \in Jobs /\ f.op = job[a].op /\ f.todo = job[a].todo /\ f.on = p  BY <1>4, JobTypes DEF Jobs
<1>6. Step(a, "new_invoice", f)  BY <1>3
<1> HIDE DEF f
<1>7. "new_invoice" \in Making  BY DEF Making
<1>8. f.op = "pay" => f.todo \subseteq PlanRows  BY <1>5 DEF CheckoutInv, Bought, Lists, ListFits
<1> QED  BY <1>1, <1>2, <1>3, <1>4, <1>5, <1>6, <1>7, <1>8, RowInserted

\* A pending or unpaid row of the add-on is closed.
LEMMA RowClosed ==
    ASSUME CheckoutInv, NEW a \in Processes, UNCHANGED <<invoice, addonRecord, ends, checkoutHistory>>,
           NEW p \in PayRows, row[p] # "none", row[p] # "paid",
           row' \in {row, [row EXCEPT ![p] = "cancelled"]},
           job' \in [Processes -> Jobs], Alone(a), JobFits(a)', job[a].at \notin Applying, job'[a].at \notin Applying
    PROVE  CheckoutInv'
<1> CheckoutTypeOK  BY DEF CheckoutInv
<1>1. /\ row' \in [PayRows -> {"none", "pending", "paid", "cancelled"}]
      /\ \A q \in PayRows : row'[q] = row[q] \/ (q = p /\ row'[q] = "cancelled")
  BY DEF CheckoutTypeOK
<1>2. CheckoutTypeOK'  BY <1>1 DEF CheckoutTypeOK, checkoutHistory, addonRecord
<1>3. World(a)  BY <1>1 DEF World, CheckoutInv, Bought, NothingYet, OneCreator, checkoutHistory
<1>4. Bought'  BY <1>3, BoughtKept
<1>5. Counted'
  <2>1. \A q \in PayRows : Room(q)' >= Room(q)  BY <1>1 DEF Room, CheckoutTypeOK, checkoutHistory
  <2> QED  BY <1>2, <2>1, CountKept DEF checkoutHistory
<1>6. PaidAddonIsDelivered'
  <2>1. \A b \in Processes : job[b].at = "activate" => job'[b].at = "activate" /\ job'[b].on = job[b].on
    BY DEF Alone, Applying
  <2>2. \A q \in AddonRows : row'[q] = "paid" => row[q] = "paid"  BY <1>1, Sets
  <2> QED  BY <2>1, <2>2, DeliveredKept DEF checkoutHistory, addonRecord
<1> QED  BY <1>2, <1>4, <1>5, <1>6 DEF CheckoutInv

LEMMA NewInvoiceKeeps == ASSUME CheckoutInv, NEW a \in Processes, NewInvoice(a) PROVE CheckoutInv'
<1> CheckoutTypeOK  BY DEF CheckoutInv
<1>1. job[a].at = "new_invoice" /\ UNCHANGED <<addonRecord, ends, checkoutHistory>>  BY DEF NewInvoice, Does
<1>2. job[a].at \in Making /\ job[a].at \notin Applying  BY <1>1 DEF Making, Applying
<1>3. job[a].on \in AddonRows /\ job[a].on \in PayRows /\ ListFits(job[a])
  BY <1>1, Sets DEF CheckoutInv, Bought, Lists, ListFits, Selling
<1>4. CASE invoice' = [invoice EXCEPT ![job[a].on] = "open"] /\ Step(a, "name", job[a]) /\ UNCHANGED row
  <2>1. "name" \in Ats /\ "name" \notin Applying \cup Making \cup Sure \cup {"void", "close"}
    BY DEF Ats, Applying, Making, Sure
  <2>2. job' \in [Processes -> Jobs] /\ Alone(a) /\ JobFits(a)' /\ job'[a].at \notin Applying
    BY <1>3, <1>4, <2>1, JobTypes, Handed DEF ListFits
  <2> QED  BY <1>1, <1>2, <1>4, <2>2, InvoiceMade, JobAndInvoice
<1>5. CASE row' = [row EXCEPT ![job[a].on] = "cancelled"] /\ Finish(a) /\ UNCHANGED invoice
  <2>1. job' \in [Processes -> Jobs] /\ Alone(a) /\ job'[a] = NoJob  BY <1>5, Finished DEF Alone
  <2>2. invoice[job[a].on] = "none" /\ row[job[a].on] # "none"  BY <1>2 DEF CheckoutInv, Bought, OneCreator
  <2>3. row' = [row EXCEPT ![job[a].on] = "cancelled"]  BY <1>5
  <2>4. row[job[a].on] # "paid"  BY <1>3, <2>2 DEF CheckoutInv, Bought, PaidRowsPaid
  <2> QED  BY <1>1, <1>2, <1>3, <1>5, <2>1, <2>2, <2>4, NoJobFits, RowClosed
<1> QED  BY <1>4, <1>5 DEF NewInvoice

LEMMA NameKeeps == ASSUME CheckoutInv, NEW a \in Processes, Name(a) PROVE CheckoutInv'
<1> CheckoutTypeOK  BY DEF CheckoutInv
<1>1. /\ job[a].at = "name" /\ Finish(a)
      /\ UNCHANGED <<row, invoice, lapsed, ends, applied, reopened, overlapped, dropped, revoked>>
      /\ named' = job[a].on /\ addon' = IF job[a].offered THEN "pending" ELSE addon
      /\ demoted' = (demoted \/ (job[a].offered /\ addon = "active"))
  BY DEF Name, Does
<1>2. job[a].on \in AddonRows  BY <1>1 DEF CheckoutInv, Bought, Lists, ListFits, Selling
<1>3. job' \in [Processes -> Jobs] /\ Alone(a) /\ job'[a] = NoJob  BY <1>1, Finished DEF Alone
<1>4. JobFits(a)' /\ job'[a].at \notin Applying /\ job[a].at \notin Applying
  BY <1>1, <1>3, NoJobFits DEF Applying
<1>5. /\ addon' \in {"none", "offered", "pending", "active", "cancelled"}
      /\ named' \in AddonRows \cup {0} /\ lapsed' \in BOOLEAN /\ revoked' \in BOOLEAN /\ demoted' \in BOOLEAN
      /\ addon = "active" => addon' = "active" \/ demoted'
      /\ demoted => demoted'
  BY <1>1, <1>2 DEF CheckoutTypeOK
<1> QED  BY <1>1, <1>3, <1>4, <1>5, JobAndRecord

LEMMA OfferLapsesKeeps == ASSUME CheckoutInv, OfferLapses PROVE CheckoutInv'
<1> CheckoutTypeOK  BY DEF CheckoutInv
<1>1. lapsed' = TRUE /\ UNCHANGED <<row, invoice, addon, named, ends, job, checkoutHistory>>  BY DEF OfferLapses
<1>2. /\ UNCHANGED <<applied, reopened, overlapped, dropped, revoked, demoted>>
      /\ addon' \in {"none", "offered", "pending", "active", "cancelled"}
      /\ named' \in AddonRows \cup {0} /\ lapsed' \in BOOLEAN /\ revoked' \in BOOLEAN /\ demoted' \in BOOLEAN
  BY <1>1 DEF CheckoutTypeOK, checkoutHistory
<1>3. job' \in [Processes -> Jobs] /\ Alone(0)  BY <1>1 DEF CheckoutTypeOK, Alone
<1>4. 0 \in Processes => JobFits(0)' /\ job'[0] = job[0]
  BY <1>1 DEF JobFits, CheckoutInv, Bought, OneCreator, SawItPaid, Lists
<1> QED  BY <1>1, <1>2, <1>3, <1>4, JobAndRecord

LEMMA AddonPayKeeps == ASSUME CheckoutInv, NEW a \in Processes, AddonPay(a) PROVE CheckoutInv'
<1> CheckoutTypeOK  BY DEF CheckoutInv
<1> DEFINE f1 == [NoJob EXCEPT !.op = "addon"]
           f2 == [f1 EXCEPT !.on = named]
           f == [f2 EXCEPT !.offered = (addon = "offered")]
           step == IF named = 0 THEN "new_row" ELSE "look"
<1>1. /\ job[a].at = "idle" /\ Step(a, step, f)
      /\ UNCHANGED <<row, invoice, addonRecord, ends, checkoutHistory>>
  BY DEF AddonPay, Does
<1>2. f \in Jobs /\ f.op = "addon" /\ f.on = named
  <2>1. f1 \in Jobs /\ f1.op = "addon"  BY NoJobIsAJob DEF Jobs
  <2> HIDE DEF f1
  <2>2. named \in PayRows \cup {0}  BY Sets DEF CheckoutTypeOK
  <2>3. f2 \in Jobs /\ f2.op = "addon" /\ f2.on = named  BY <2>1, <2>2 DEF Jobs
  <2> HIDE DEF f2
  <2> QED  BY <2>3 DEF Jobs
<1>3. /\ step \in Ats /\ step \notin Applying /\ step \notin Making /\ step \notin Sure
      /\ step \notin {"void", "close"}
      /\ step \in Selling => f.on \in AddonRows
  BY <1>2 DEF Ats, Applying, Making, Sure, Selling, CheckoutTypeOK
<1> HIDE DEF f, step
<1>4. job' \in [Processes -> Jobs] /\ Alone(a) /\ JobFits(a)' /\ job'[a].at \notin Applying
  BY <1>1, <1>2, <1>3, Handed
<1>5. job[a].at \notin Applying  BY <1>1 DEF Applying
<1> QED  BY <1>1, <1>4, <1>5, JustJob

\* A job about the add-on's payment goes on with it.
LEMMA GoesOn ==
    ASSUME CheckoutInv, NEW a \in Processes, job[a].at \in Selling, NEW step \in Ats, Step(a, step, job[a]),
           step \notin Applying, step \notin Making, step \notin {"void", "close"},
           step \in Sure => invoice'[job[a].on] = "paid"
    PROVE  job' \in [Processes -> Jobs] /\ Alone(a) /\ JobFits(a)' /\ job'[a].at \notin Applying
<1>1. CheckoutTypeOK /\ ListFits(job[a]) /\ job[a].on \in AddonRows /\ job[a].on \in PayRows
  BY Sets DEF CheckoutInv, Bought, Lists, ListFits
<1>2. job[a] \in Jobs  BY <1>1, JobTypes
<1>3. job[a].op = "pay" => job[a].todo \subseteq PlanRows  BY <1>1 DEF ListFits
<1> QED  BY <1>1, <1>2, <1>3, Handed

\* Or ends.
LEMMA Ends ==
    ASSUME CheckoutTypeOK, NEW a \in Processes, Finish(a)
    PROVE  job' \in [Processes -> Jobs] /\ Alone(a) /\ JobFits(a)' /\ job'[a].at \notin Applying
<1>1. job' \in [Processes -> Jobs] /\ Alone(a) /\ job'[a] = NoJob  BY Finished DEF Alone
<1> QED  BY <1>1, NoJobFits

LEMMA AddonLookKeeps == ASSUME CheckoutInv, NEW a \in Processes, AddonLook(a) PROVE CheckoutInv'
<1> CheckoutTypeOK  BY DEF CheckoutInv
<1>1. job[a].at = "look" /\ UNCHANGED <<row, invoice, named, lapsed, ends, checkoutHistory>>  BY DEF AddonLook, Does
<1>2. job[a].at \in Selling /\ job[a].at \notin Applying  BY <1>1 DEF Selling, Applying
<1>3. /\ addon' = addon \/ (addon = "offered" /\ addon' = "pending")
      /\ \/ Finish(a)
         \/ invoice[job[a].on] = "paid" /\ Step(a, "claim", job[a])
         \/ Step(a, "cancel_invoice", job[a])
  BY DEF AddonLook
<1>4. job' \in [Processes -> Jobs] /\ Alone(a) /\ JobFits(a)' /\ job'[a].at \notin Applying
  <2>1. CASE Finish(a)  BY <2>1, Ends
  <2>2. CASE invoice[job[a].on] = "paid" /\ Step(a, "claim", job[a])
    <3>1. "claim" \in Ats /\ "claim" \notin Applying \cup Making \cup {"void", "close"}  BY DEF Ats, Applying, Making
    <3> QED  BY <1>1, <1>2, <2>2, <3>1, GoesOn
  <2>3. CASE Step(a, "cancel_invoice", job[a])
    <3>1. "cancel_invoice" \in Ats /\ "cancel_invoice" \notin Applying \cup Making \cup Sure \cup {"void", "close"}
      BY DEF Ats, Applying, Making, Sure
    <3> QED  BY <1>2, <2>3, <3>1, GoesOn
  <2> QED  BY <1>3, <2>1, <2>2, <2>3
<1>5. /\ UNCHANGED <<applied, reopened, overlapped, dropped, revoked, demoted>>
      /\ addon' \in {"none", "offered", "pending", "active", "cancelled"}
      /\ named' \in AddonRows \cup {0} /\ lapsed' \in BOOLEAN /\ revoked' \in BOOLEAN /\ demoted' \in BOOLEAN
      /\ addon = "active" => addon' = "active"
  BY <1>1, <1>3 DEF CheckoutTypeOK, checkoutHistory
<1> QED  BY <1>1, <1>2, <1>4, <1>5, JobAndRecord

LEMMA SweepOfferKeeps == ASSUME CheckoutInv, NEW o \in Processes, SweepOffer(o) PROVE CheckoutInv'
<1> CheckoutTypeOK  BY DEF CheckoutInv
<1>1. job[o].at = "idle" /\ UNCHANGED <<row, invoice, addonRecord, ends, checkoutHistory>>  BY DEF SweepOffer, Does
<1> DEFINE f1 == [NoJob EXCEPT !.op = "sweep"]
           f == [f1 EXCEPT !.on = named]
<1>2. f1 \in Jobs /\ f1.op = "sweep"  BY NoJobIsAJob DEF Jobs
<1>3. \/ Step(o, "cancel_addon", f1)
      \/ named # 0 /\ invoice[named] = "paid" /\ Step(o, "claim", f)
  BY DEF SweepOffer
<1> HIDE DEF f1
<1>4. job' \in [Processes -> Jobs] /\ Alone(o) /\ JobFits(o)' /\ job'[o].at \notin Applying
  <2>1. CASE Step(o, "cancel_addon", f1)
    <3>1. "cancel_addon" \in Ats /\ "cancel_addon" \notin Applying \cup Making \cup Sure \cup Selling \cup {"void", "close"}
      BY DEF Ats, Applying, Making, Sure, Selling
    <3> QED  BY <1>2, <2>1, <3>1, Handed
  <2>2. CASE named # 0 /\ invoice[named] = "paid" /\ Step(o, "claim", f)
    <3>1. "claim" \in Ats /\ "claim" \notin Applying \cup Making \cup Selling \cup {"void", "close"}
      BY DEF Ats, Applying, Making, Selling
    <3>2. named \in PayRows  BY <2>2, Sets DEF CheckoutTypeOK
    <3>3. f \in Jobs /\ f.op = "sweep" /\ f.on = named  BY <1>2, <3>2 DEF Jobs
    <3>4. f.on \in PayRows /\ invoice'[f.on] = "paid"  BY <1>1, <2>2, <3>2, <3>3
    <3> HIDE DEF f
    <3> QED  BY <2>2, <3>1, <3>3, <3>4, Handed
  <2> QED  BY <1>3, <2>1, <2>2
<1>5. job[o].at \notin Applying  BY <1>1 DEF Applying
<1> QED  BY <1>1, <1>4, <1>5, JustJob

LEMMA CancelAddonKeeps == ASSUME CheckoutInv, NEW o \in Processes, CancelAddon(o) PROVE CheckoutInv'
<1> CheckoutTypeOK  BY DEF CheckoutInv
<1> DEFINE f1 == [NoJob EXCEPT !.op = "sweep"]
           f == [f1 EXCEPT !.on = named]
<1>1. /\ job[o].at \in {"cancel_addon", "idle"}
      /\ UNCHANGED <<row, invoice, named, lapsed, ends, applied, reopened, overlapped, dropped, demoted>>
      /\ addon' \in {addon, "cancelled"} /\ revoked' \in BOOLEAN
      /\ addon = "active" => revoked'
      /\ revoked => revoked'
  BY DEF CancelAddon, Does, CheckoutTypeOK
<1>2. Finish(o) \/ (named # 0 /\ Step(o, "cancel_invoice", f))  BY DEF CancelAddon
<1>3. job[o].at \notin Applying  BY <1>1 DEF Applying
<1>4. job' \in [Processes -> Jobs] /\ Alone(o) /\ JobFits(o)' /\ job'[o].at \notin Applying
  <2>1. CASE Finish(o)  BY <2>1, Ends
  <2>2. CASE named # 0 /\ Step(o, "cancel_invoice", f)
    <3>1. "cancel_invoice" \in Ats /\ "cancel_invoice" \notin Applying \cup Making \cup Sure \cup {"void", "close"}
      BY DEF Ats, Applying, Making, Sure
    <3>2. named \in AddonRows /\ named \in PayRows  BY <2>2, Sets DEF CheckoutTypeOK
    <3>3. f1 \in Jobs /\ f1.op = "sweep"  BY NoJobIsAJob DEF Jobs
    <3> HIDE DEF f1
    <3>4. f \in Jobs /\ f.op = "sweep" /\ f.on = named  BY <3>2, <3>3 DEF Jobs
    <3> HIDE DEF f
    <3> QED  BY <2>2, <3>1, <3>2, <3>4, Handed
  <2> QED  BY <1>2, <2>1, <2>2
<1>5. /\ addon' \in {"none", "offered", "pending", "active", "cancelled"}
      /\ named' \in AddonRows \cup {0} /\ lapsed' \in BOOLEAN /\ demoted' \in BOOLEAN /\ demoted' = demoted
  BY <1>1 DEF CheckoutTypeOK
<1> QED  BY <1>1, <1>3, <1>4, <1>5, JobAndRecord

\* After cancelAddonPayment.
LEMMA Closing ==
    ASSUME CheckoutInv, NEW a \in Processes, job[a].at \in Selling, Closed(a)
    PROVE  job' \in [Processes -> Jobs] /\ Alone(a) /\ JobFits(a)' /\ job'[a].at \notin Applying
<1>1. CASE Finish(a)  BY <1>1, Ends DEF CheckoutInv
<1>2. CASE Step(a, "new_row", job[a])
  <2>1. "new_row" \in Ats /\ "new_row" \notin Applying \cup Making \cup Sure \cup {"void", "close"}
    BY DEF Ats, Applying, Making, Sure
  <2> QED  BY <1>2, <2>1, GoesOn
<1> QED  BY <1>1, <1>2 DEF Closed

LEMMA CancelInvoiceKeeps == ASSUME CheckoutInv, NEW a \in Processes, CancelInvoice(a) PROVE CheckoutInv'
<1> CheckoutTypeOK  BY DEF CheckoutInv
<1>1. /\ job[a].at = "cancel_invoice" /\ UNCHANGED <<row, addonRecord, ends, checkoutHistory>>
      /\ Closed(a) \/ Step(a, "cancel_row", job[a])
      /\ invoice' \in {invoice, Voided(job[a].on)}
  BY DEF CancelInvoice, Does
<1>2. job[a].at \in Selling /\ job[a].at \notin Applying  BY <1>1 DEF Selling, Applying
<1>3. job[a].on \in PayRows  BY <1>2, Sets DEF CheckoutInv, Bought, Lists, ListFits
<1>4. job' \in [Processes -> Jobs] /\ Alone(a) /\ JobFits(a)' /\ job'[a].at \notin Applying
  <2>1. CASE Closed(a)  BY <1>2, <2>1, Closing
  <2>2. CASE Step(a, "cancel_row", job[a])
    <3>1. "cancel_row" \in Ats /\ "cancel_row" \notin Applying \cup Making \cup Sure \cup {"void", "close"}
      BY DEF Ats, Applying, Making, Sure
    <3> QED  BY <1>2, <2>2, <3>1, GoesOn
  <2> QED  BY <1>1, <2>1, <2>2
<1>5. /\ invoice' \in [PayRows -> {"none", "open", "paid", "void"}]
      /\ \A q \in PayRows : invoice[q] = "paid" => invoice'[q] = "paid"
      /\ \A q \in PayRows : invoice[q] = "none" => invoice'[q] = "none"
  BY <1>1, <1>3, Voiding
<1>6. \A q \in PayRows : row[q] = "none" => invoice'[q] = "none"
  BY <1>5 DEF CheckoutInv, Bought, NothingYet
<1>7. \A b \in Processes : b # a /\ job[b].at \in Making => invoice'[job[b].on] = "none"
  BY <1>5 DEF CheckoutInv, Bought, OneCreator
<1> QED  BY <1>1, <1>2, <1>4, <1>5, <1>6, <1>7, JobAndInvoice

LEMMA CancelRowKeeps == ASSUME CheckoutInv, NEW a \in Processes, CancelRow(a) PROVE CheckoutInv'
<1> CheckoutTypeOK  BY DEF CheckoutInv
<1> DEFINE p == job[a].on
<1>1. /\ job[a].at = "cancel_row" /\ UNCHANGED <<invoice, addonRecord, ends, checkoutHistory>> /\ Closed(a)
      /\ row' = [row EXCEPT ![p] = IF @ = "pending" THEN "cancelled" ELSE @]
  BY DEF CancelRow, Does
<1>2. job[a].at \in Selling /\ job[a].at \notin Applying  BY <1>1 DEF Selling, Applying
<1>3. p \in PayRows  BY <1>2, Sets DEF CheckoutInv, Bought, Lists, ListFits
<1>4. job' \in [Processes -> Jobs] /\ Alone(a) /\ JobFits(a)' /\ job'[a].at \notin Applying
  BY <1>1, <1>2, Closing
<1> HIDE DEF p
<1>5. CASE row[p] = "pending"
  <2>1. row' = [row EXCEPT ![p] = "cancelled"]  BY <1>1, <1>5
  <2> QED  BY <1>1, <1>2, <1>3, <1>4, <1>5, <2>1, RowClosed
<1>6. CASE row[p] # "pending"
  <2>1. row' = row  BY <1>1, <1>3, <1>6 DEF CheckoutTypeOK
  <2> QED  BY <1>1, <1>2, <1>4, <2>1, JustJob
<1> QED  BY <1>5, <1>6

-----------------------------------------------------------------------------
(* The theorems.                                                            *)

LEMMA CheckoutStarts == CheckoutInit => CheckoutInv
<1> SUFFICES ASSUME CheckoutInit PROVE CheckoutInv  OBVIOUS
<1>1. CheckoutTypeOK  BY NoJobIsAJob DEF CheckoutInit, CheckoutTypeOK
<1>2. \A a \in Processes : job[a] = NoJob  BY DEF CheckoutInit
<1>3. Bought
  BY <1>2, NoJobIsAJob, Sets
  DEF CheckoutInit, Bought, SawItPaid, PaidIfApplied, PaidRowsPaid, NothingYet, OneCreator, Lists, ListFits,
      Sure, Making, Selling, NoJob
<1>4. Counted
  <2> SUFFICES ASSUME NEW p \in PayRows
               PROVE  applied[p] + Cardinality(Appliers(p)) <= reopened[p] + (IF row[p] = "paid" THEN 1 ELSE 0)
    BY DEF Counted
  <2>1. Appliers(p) = {}  BY <1>2, NoJobIsAJob DEF Appliers, Applying
  <2> QED  BY <2>1, FS_EmptySet DEF CheckoutInit
<1>5. PaidAddonIsDelivered  BY Sets DEF CheckoutInit, PaidAddonIsDelivered
<1> QED  BY <1>1, <1>3, <1>4, <1>5 DEF CheckoutInv

LEMMA CheckoutStep == CheckoutInv /\ [CheckoutNext]_checkoutVars => CheckoutInv'
<1> SUFFICES ASSUME CheckoutInv, [CheckoutNext]_checkoutVars PROVE CheckoutInv'  OBVIOUS
<1>1. CASE UNCHANGED checkoutVars
  BY <1>1 DEF checkoutVars, checkoutHistory, addonRecord, CheckoutInv, CheckoutTypeOK, Bought, SawItPaid, PaidIfApplied,
     PaidRowsPaid, NothingYet, OneCreator, Lists, ListFits, Counted, Appliers, PaidAddonIsDelivered, ActiveBy, Does
<1>2. ASSUME NEW a \in Users, PayList(a) \/ SyncList(a) \/ AddonPay(a) PROVE CheckoutInv'
  BY <1>2, Sets, PayListKeeps, SyncListKeeps, AddonPayKeeps
<1>3. ASSUME NEW h \in Hooks, NEW p \in PayRows, Deliver(h, p) PROVE CheckoutInv'  BY <1>3, DeliverKeeps
<1>4. ASSUME NEW o \in Offices, Offer(o) \/ SweepOffer(o) \/ CancelAddon(o) PROVE CheckoutInv'
  BY <1>4, Sets, OfferKeeps, SweepOfferKeeps, CancelAddonKeeps
<1>5. ASSUME NEW a \in Processes, Working(a) \/ LoseActivation(a) \/ Die(a) PROVE CheckoutInv'
  BY <1>5, PayFetchKeeps, PayVoidKeeps, PayCloseKeeps, PayInsertKeeps, PayInvoiceKeeps, SyncFetchKeeps,
     NewRowKeeps, NewInvoiceKeeps, NameKeeps, AddonLookKeeps, CancelInvoiceKeeps, CancelRowKeeps, ClaimKeeps,
     ReadWindowKeeps, WriteWindowKeeps, ActivateAddonKeeps, LoseActivationKeeps, DieKeeps DEF Working
<1>6. ASSUME NEW p \in PayRows, CustomerPays(p) PROVE CheckoutInv'  BY <1>6, CustomerPaysKeeps
<1>7. CASE OfferLapses  BY <1>7, OfferLapsesKeeps
<1> QED  BY <1>1, <1>2, <1>3, <1>4, <1>5, <1>6, <1>7 DEF CheckoutNext

LEMMA CheckoutAlways == CheckoutSpec => []CheckoutInv
  BY CheckoutStarts, CheckoutStep, PTL DEF CheckoutSpec

\* Rows, invoices, the add-on, jobs and the histories have their types: in
\* particular a job is always about a row that exists.
THEOREM CheckoutTypes == CheckoutSpec => []CheckoutTypeOK
<1>1. CheckoutInv => CheckoutTypeOK  BY DEF CheckoutInv
<1> QED  BY <1>1, CheckoutAlways, PTL

\* However many requests, deliveries and sweeps find an invoice paid, what it bought
\* is applied once for each time its row was opened, and never before it is paid.
THEOREM OnePurchaseOneActivation == CheckoutSpec => []AppliedOnce
<1>1. CheckoutInv => AppliedOnce
  <2> SUFFICES ASSUME CheckoutInv, NEW p \in PayRows
               PROVE  applied[p] <= 1 + reopened[p] /\ (applied[p] > 0 => invoice[p] = "paid")
    BY DEF AppliedOnce
  <2>1. applied[p] + Cardinality(Appliers(p)) <= reopened[p] + (IF row[p] = "paid" THEN 1 ELSE 0)
    BY DEF CheckoutInv, Counted
  <2>2. applied[p] \in Nat /\ reopened[p] \in Nat  BY DEF CheckoutInv, CheckoutTypeOK
  <2>3. applied[p] <= 1 + reopened[p]  BY <2>1, <2>2, AppliersFinite
  <2> QED  BY <2>3 DEF CheckoutInv, Bought, PaidIfApplied
<1> QED  BY <1>1, CheckoutAlways, PTL

\* An add-on one of whose rows says paid is active, being activated, or one of the
\* three losses the code has: a lost activation, a cancellation, a late pay.
THEOREM PaidAddonsAreDelivered == CheckoutSpec => []PaidAddonIsDelivered
<1>1. CheckoutInv => PaidAddonIsDelivered  BY DEF CheckoutInv
<1> QED  BY <1>1, CheckoutAlways, PTL

-----------------------------------------------------------------------------
(* The account's window.                                                    *)

Extending == {"read", "write"}

\* An activation of a plan has read an end no later than what was paid for; while no
\* two have read the same end, only one has read, and read the end of now.
WindowInv ==
    /\ \A a \in Processes :
          /\ job[a].at \in Extending => job[a].on \in PlanRows
          /\ job[a].at = "write" => job[a].end <= PeriodsApplied
    /\ ends <= PeriodsApplied
    /\ ~overlapped =>
          /\ ends = PeriodsApplied
          /\ \A a \in Processes : job[a].at = "write" =>
                job[a].end = ends /\ \A b \in Processes : job[b].at = "write" => b = a

LEMMA PeriodsAdd ==
    /\ CheckoutTypeOK => PeriodsApplied = Total(PlanRows, applied) /\ PeriodsApplied \in Nat
    /\ CheckoutTypeOK' => PeriodsApplied' = Total(PlanRows, applied') /\ PeriodsApplied' \in Nat
    /\ IsFiniteSet(PlanRows)
<1>1. IsFiniteSet(PlanRows)
  <2>1. \A n \in Nat : IsFiniteSet(1..n)  BY FS_Interval
  <2> QED  BY <2>1, CheckoutAssumption DEF PlanRows
<1>2. PeriodsApplied = Total(PlanRows, applied) /\ PeriodsApplied' = Total(PlanRows, applied')
  BY DEF PeriodsApplied, Total, FoldSet, MapThenFoldSet
<1>3. ASSUME CheckoutTypeOK PROVE Total(PlanRows, applied) \in Nat
  <2>1. \A p \in PlanRows : applied[p] \in Nat  BY <1>3, Sets DEF CheckoutTypeOK
  <2> QED  BY <1>1, <2>1, TotalIsNat
<1>4. ASSUME CheckoutTypeOK' PROVE Total(PlanRows, applied') \in Nat
  <2> DEFINE v == applied'
  <2>1. \A p \in PlanRows : v[p] \in Nat  BY <1>4, Sets DEF CheckoutTypeOK
  <2> HIDE DEF v
  <2>2. Total(PlanRows, v) \in Nat  BY <1>1, <2>1, TotalIsNat
  <2> QED  BY <2>2 DEF v
<1> QED  BY <1>1, <1>2, <1>3, <1>4

\* A step of a after which it applies nothing.
Elsewhere(a) == Alone(a) /\ job'[a].at \notin Applying

LEMMA WindowLeft ==
    ASSUME CheckoutInv, CheckoutTypeOK', WindowInv, NEW a,
           Alone(a), a \in Processes /\ job'[a].at \in Extending => job'[a].at = "read" /\ job'[a].on \in PlanRows,
           UNCHANGED <<ends, overlapped>>, \A p \in PlanRows : applied'[p] = applied[p]
    PROVE  WindowInv'
<1>1. PeriodsApplied' = PeriodsApplied
  <2>1. Total(PlanRows, applied') = Total(PlanRows, applied)
    <3> DEFINE v == applied'
    <3>1. \A p \in PlanRows : v[p] = applied[p]  OBVIOUS
    <3> HIDE DEF v
    <3>2. Total(PlanRows, v) = Total(PlanRows, applied)  BY <3>1, PeriodsAdd, TotalAgrees
    <3> QED  BY <3>2 DEF v
  <2> QED  BY <2>1, PeriodsAdd DEF CheckoutInv
<1>2. \A b \in Processes :
         /\ job'[b].at = "write" => job[b].at = "write" /\ job'[b].end = job[b].end
         /\ job'[b].at \in Extending => job'[b].on \in PlanRows
  <2> SUFFICES ASSUME NEW b \in Processes
               PROVE  /\ job'[b].at = "write" => job[b].at = "write" /\ job'[b].end = job[b].end
                      /\ job'[b].at \in Extending => job'[b].on \in PlanRows
    OBVIOUS
  <2>1. CASE b = a  BY <2>1 DEF Extending
  <2>2. CASE b # a  BY <2>2 DEF Alone, WindowInv
  <2> QED  BY <2>1, <2>2
<1> QED  BY <1>1, <1>2 DEF WindowInv

LEMMA JobElsewhere ==
    ASSUME CheckoutTypeOK, NEW a \in Processes, NEW step, step \notin Applying, NEW j, "at" \in DOMAIN j, Step(a, step, j)
    PROVE  Elsewhere(a)
<1>1. job \in [Processes -> Jobs]  BY DEF CheckoutTypeOK
<1>2. job' = [job EXCEPT ![a] = [j EXCEPT !.at = step]]  BY DEF Step
<1> QED  BY <1>1, <1>2 DEF Elsewhere, Alone

LEMMA IdleElsewhere == ASSUME CheckoutTypeOK, NEW a \in Processes, Finish(a) PROVE Elsewhere(a)
  BY Finished DEF Elsewhere, Alone, Applying

\* A job has a place, whatever else of it is written.
LEMMA JobsHaveAPlace ==
    ASSUME CheckoutTypeOK, NEW a \in Processes, NEW p
    PROVE  /\ "at" \in DOMAIN job[a] /\ "at" \in DOMAIN NoJob /\ "at" \in DOMAIN Taking(a, p)
           /\ "at" \in DOMAIN [Taking(a, p) EXCEPT !.reuse = TRUE] /\ "at" \in DOMAIN [job[a] EXCEPT !.on = p]
<1>1. job[a] \in Jobs  BY DEF CheckoutTypeOK
<1>2. "at" \in DOMAIN job[a]  BY <1>1 DEF Jobs
<1>3. "at" \in DOMAIN NoJob  BY DEF NoJob
<1> QED  BY <1>2, <1>3 DEF Taking

LEMMA PaymentElsewhere ==
    ASSUME CheckoutInv, NEW a \in Processes,
           \/ PayList(a) \/ SyncList(a) \/ PayFetch(a) \/ PayVoid(a) \/ PayClose(a) \/ PayInsert(a) \/ PayInvoice(a)
           \/ SyncFetch(a) \/ LoseActivation(a) \/ Die(a) \/ \E p \in PayRows : Deliver(a, p)
    PROVE  Elsewhere(a)
<1> USE JobsHaveAPlace, JobElsewhere, IdleElsewhere DEF Applying
<1> CheckoutTypeOK  BY DEF CheckoutInv
<1>1. CASE PayList(a)
  <2>1. "at" \in DOMAIN [NoJob EXCEPT !.op = "pay", !.todo = PendingPlans]  OBVIOUS
  <2> QED  BY <1>1, <2>1 DEF PayList
<1>2. CASE SyncList(a)
  <2> DEFINE f == [NoJob EXCEPT !.op = "sync", !.todo = {p \in PayRows : row[p] = "pending" /\ invoice[p] # "none"}]
  <2>1. "at" \in DOMAIN f /\ Step(a, "walk", f)  BY <1>2 DEF SyncList
  <2> HIDE DEF f
  <2> QED  BY <2>1
<1>3. CASE PayFetch(a)  BY <1>3 DEF PayFetch
<1>4. CASE PayVoid(a)  BY <1>4 DEF PayVoid
<1>5. CASE PayClose(a)  BY <1>5 DEF PayClose
<1>6. CASE PayInsert(a)  BY <1>6 DEF PayInsert
<1>7. CASE PayInvoice(a)  BY <1>7 DEF PayInvoice
<1>8. CASE SyncFetch(a)
  <2>1. CASE Finish(a)  BY <2>1
  <2>2. ASSUME NEW p, NEW shown, Step(a, IF shown = "paid" THEN "claim" ELSE "walk", Taking(a, p)) PROVE Elsewhere(a)
    <3>1. CASE shown = "paid"  BY <2>2, <3>1
    <3>2. CASE shown # "paid"  BY <2>2, <3>2
    <3> QED  BY <3>1, <3>2
  <2> QED  BY <1>8, <2>1, <2>2 DEF SyncFetch
<1>9. CASE LoseActivation(a)  BY <1>9 DEF LoseActivation
<1>10. CASE Die(a)  BY <1>10 DEF Die
<1>11. ASSUME NEW p \in PayRows, Deliver(a, p) PROVE Elsewhere(a)
  <2>1. "at" \in DOMAIN [NoJob EXCEPT !.op = "hook", !.on = p]  OBVIOUS
  <2> QED  BY <1>11, <2>1 DEF Deliver
<1> QED  BY <1>1, <1>2, <1>3, <1>4, <1>5, <1>6, <1>7, <1>8, <1>9, <1>10, <1>11

LEMMA AddonElsewhere ==
    ASSUME CheckoutInv, NEW a \in Processes,
           \/ Offer(a) \/ NewRow(a) \/ NewInvoice(a) \/ Name(a) \/ AddonPay(a) \/ AddonLook(a) \/ SweepOffer(a)
           \/ CancelAddon(a) \/ CancelInvoice(a) \/ CancelRow(a) \/ ActivateAddon(a)
    PROVE  Elsewhere(a)
<1> USE JobsHaveAPlace, JobElsewhere, IdleElsewhere DEF Applying
<1> CheckoutTypeOK  BY DEF CheckoutInv
<1>1. CASE Offer(a)
  <2>1. "at" \in DOMAIN [NoJob EXCEPT !.op = "offer"]  OBVIOUS
  <2> QED  BY <1>1, <2>1 DEF Offer
<1>2. CASE NewRow(a)  BY <1>2 DEF NewRow
<1>3. CASE NewInvoice(a)  BY <1>3 DEF NewInvoice
<1>4. CASE Name(a)  BY <1>4 DEF Name
<1>5. CASE AddonPay(a)
  <2> DEFINE f == [NoJob EXCEPT !.op = "addon", !.on = named, !.offered = (addon = "offered")]
  <2>1. "at" \in DOMAIN f /\ (Step(a, "new_row", f) \/ Step(a, "look", f))  BY <1>5 DEF AddonPay
  <2> HIDE DEF f
  <2> QED  BY <2>1
<1>6. CASE AddonLook(a)  BY <1>6 DEF AddonLook
<1>7. CASE SweepOffer(a)
  <2>1. "at" \in DOMAIN [NoJob EXCEPT !.op = "sweep"] /\ "at" \in DOMAIN [NoJob EXCEPT !.op = "sweep", !.on = named]
    OBVIOUS
  <2> QED  BY <1>7, <2>1 DEF SweepOffer
<1>8. CASE CancelAddon(a)
  <2>1. "at" \in DOMAIN [NoJob EXCEPT !.op = "sweep", !.on = named]  OBVIOUS
  <2> QED  BY <1>8, <2>1 DEF CancelAddon
<1>9. ASSUME Closed(a) PROVE Elsewhere(a)  BY <1>9 DEF Closed
<1>10. CASE CancelInvoice(a)  BY <1>9, <1>10 DEF CancelInvoice
<1>11. CASE CancelRow(a)  BY <1>9, <1>11 DEF CancelRow
<1>12. CASE ActivateAddon(a)  BY <1>12 DEF ActivateAddon, Proceed
<1> QED  BY <1>1, <1>2, <1>3, <1>4, <1>5, <1>6, <1>7, <1>8, <1>10, <1>11, <1>12

LEMMA ClaimInWindow ==
    ASSUME CheckoutInv, CheckoutTypeOK', WindowInv, NEW a \in Processes, Claim(a)
    PROVE  WindowInv'
<1> CheckoutTypeOK  BY DEF CheckoutInv
<1>1. UNCHANGED <<ends, overlapped, applied>> /\ job[a].at = "claim"  BY DEF Claim, checkoutHistory, Does
<1>2. CASE Proceed(a)
  <2>1. Elsewhere(a)  BY <1>2, JobsHaveAPlace, JobElsewhere, IdleElsewhere DEF Proceed, Applying
  <2> QED  BY <1>1, <2>1, WindowLeft DEF Elsewhere, Extending, Applying
<1>3. CASE Step(a, IF job[a].on \in AddonRows THEN "activate" ELSE "read", job[a])
  <2> DEFINE step == IF job[a].on \in AddonRows THEN "activate" ELSE "read"
  <2>1. job[a].on \in PayRows  BY <1>1 DEF CheckoutInv, Bought, SawItPaid, Sure
  <2>2. step \in Ats /\ job[a] \in Jobs  BY DEF Ats, CheckoutTypeOK
  <2>3. Alone(a) /\ job'[a].at = step /\ job'[a].on = job[a].on  BY <1>3, <2>2, Stepped DEF Alone
  <2>4. step = "read" => job[a].on \in PlanRows  BY <2>1 DEF PayRows
  <2>5. job'[a].at \in Extending => job'[a].at = "read" /\ job'[a].on \in PlanRows  BY <2>3, <2>4 DEF Extending
  <2> QED  BY <1>1, <2>3, <2>5, WindowLeft
<1> QED  BY <1>2, <1>3 DEF Claim

LEMMA ReadInWindow ==
    ASSUME CheckoutInv, CheckoutTypeOK', WindowInv, NEW a \in Processes, ReadWindow(a)
    PROVE  WindowInv'
<1> CheckoutTypeOK  BY DEF CheckoutInv
<1>1. /\ job[a].at = "read" /\ UNCHANGED <<ends, applied>>
      /\ overlapped' = (overlapped \/ \E b \in Processes \ {a} : job[b].at = "write")
      /\ job' = [job EXCEPT ![a] = [[job[a] EXCEPT !.end = ends] EXCEPT !.at = "write"]]
  BY DEF ReadWindow, Does, Step
<1>2. job[a] \in Jobs /\ job \in [Processes -> Jobs]  BY DEF CheckoutTypeOK
<1>3. /\ job'[a].at = "write" /\ job'[a].end = ends /\ job'[a].on = job[a].on
      /\ \A b \in Processes : b # a => job'[b] = job[b]
  BY <1>1, <1>2 DEF Jobs
<1>4. PeriodsApplied' = PeriodsApplied  BY <1>1, PeriodsAdd
<1>5. \A b \in Processes :
         /\ job'[b].at \in Extending => job'[b].on \in PlanRows
         /\ job'[b].at = "write" => job'[b].end <= PeriodsApplied
  <2> SUFFICES ASSUME NEW b \in Processes
               PROVE  /\ job'[b].at \in Extending => job'[b].on \in PlanRows
                      /\ job'[b].at = "write" => job'[b].end <= PeriodsApplied
    OBVIOUS
  <2>1. CASE b = a  BY <1>1, <1>3, <2>1 DEF WindowInv, Extending
  <2>2. CASE b # a  BY <1>3, <2>2 DEF WindowInv
  <2> QED  BY <2>1, <2>2
<1>6. ASSUME ~overlapped'
      PROVE  /\ ends = PeriodsApplied
             /\ \A b \in Processes : job'[b].at = "write" => b = a
  <2>1. ~overlapped /\ \A b \in Processes \ {a} : job[b].at # "write"  BY <1>1, <1>6
  <2> QED  BY <1>3, <2>1 DEF WindowInv
<1> QED  BY <1>1, <1>3, <1>4, <1>5, <1>6 DEF WindowInv

LEMMA WriteInWindow ==
    ASSUME CheckoutInv, CheckoutTypeOK', WindowInv, NEW a \in Processes, WriteWindow(a)
    PROVE  WindowInv'
<1> CheckoutTypeOK  BY DEF CheckoutInv
<1> DEFINE p == job[a].on
<1>1. /\ job[a].at = "write" /\ ends' = job[a].end + 1 /\ UNCHANGED overlapped
      /\ applied' = [applied EXCEPT ![p] = @ + 1] /\ Finish(a)
  BY DEF WriteWindow, Does
<1>2. Alone(a) /\ job'[a].at = "idle"  BY <1>1, Finished DEF Alone
<1>3. p \in PlanRows /\ job[a].end <= PeriodsApplied  BY <1>1 DEF WindowInv, Extending
<1>4. job[a].end \in Nat /\ PeriodsApplied \in Nat /\ ends \in Nat
  BY PeriodsAdd, JobTypes DEF CheckoutTypeOK
<1> HIDE DEF p
<1>5. PeriodsApplied' = PeriodsApplied + 1
  <2> DEFINE v == applied'
  <2>1. /\ \A q \in PlanRows : applied[q] \in Nat /\ v[q] \in Nat
        /\ v[p] = applied[p] + 1 /\ \A q \in PlanRows \ {p} : v[q] = applied[q]
    BY <1>1, <1>3, Sets DEF CheckoutTypeOK
  <2>2. PeriodsApplied = Total(PlanRows, applied) /\ PeriodsApplied' = Total(PlanRows, v)  BY PeriodsAdd
  <2> HIDE DEF v
  <2>3. Total(PlanRows, v) = Total(PlanRows, applied) - applied[p] + v[p]
    <3>1. \A q \in PlanRows : applied[q] \in Int /\ v[q] \in Int  BY <2>1
    <3> QED  BY <1>3, <2>1, <3>1, PeriodsAdd, TotalChanges
  <2>4. applied[p] \in Nat  BY <1>3, <2>1
  <2> QED  BY <1>4, <2>1, <2>2, <2>3, <2>4
<1>6. \A b \in Processes :
         /\ job'[b].at \in Extending => job'[b].on \in PlanRows
         /\ job'[b].at = "write" => /\ b # a /\ job[b].at = "write" /\ job'[b].end \in Nat
                                    /\ job'[b].end <= PeriodsApplied
  <2> SUFFICES ASSUME NEW b \in Processes
               PROVE  /\ job'[b].at \in Extending => job'[b].on \in PlanRows
                      /\ job'[b].at = "write" => /\ b # a /\ job[b].at = "write" /\ job'[b].end \in Nat
                                                 /\ job'[b].end <= PeriodsApplied
    OBVIOUS
  <2>1. CASE b = a  BY <1>2, <2>1 DEF Extending
  <2>2. CASE b # a  BY <1>2, <2>2, JobTypes DEF WindowInv, Alone
  <2> QED  BY <2>1, <2>2
<1>7. ASSUME ~overlapped PROVE job[a].end = PeriodsApplied /\ \A b \in Processes : job'[b].at # "write"
  BY <1>1, <1>6, <1>7 DEF WindowInv
<1>8. \A b \in Processes : job'[b].at = "write" => job'[b].end <= PeriodsApplied'
  BY <1>4, <1>5, <1>6
<1>9. ends' <= PeriodsApplied' /\ (~overlapped' => ends' = PeriodsApplied')
  BY <1>1, <1>3, <1>4, <1>5, <1>7
<1>10. ~overlapped' => \A b \in Processes : job'[b].at # "write"  BY <1>1, <1>7
<1> QED  BY <1>6, <1>8, <1>9, <1>10 DEF WindowInv

LEMMA WindowStarts == CheckoutInit => WindowInv
<1> SUFFICES ASSUME CheckoutInit PROVE WindowInv  OBVIOUS
<1>1. CheckoutTypeOK  BY CheckoutStarts DEF CheckoutInv
<1>2. \A a \in Processes : job[a].at = "idle"  BY NoJobIsAJob DEF CheckoutInit
<1>3. PeriodsApplied = 0
  <2>1. \A p \in PlanRows : applied[p] = 0  BY Sets DEF CheckoutInit
  <2>2. Total(PlanRows, applied) = 0  BY <2>1, PeriodsAdd, TotalOfZeros
  <2> QED  BY <1>1, <2>2, PeriodsAdd
<1> QED  BY <1>2, <1>3 DEF WindowInv, Extending, CheckoutInit

LEMMA WindowStep == CheckoutInv /\ CheckoutTypeOK' /\ WindowInv /\ [CheckoutNext]_checkoutVars => WindowInv'
<1> SUFFICES ASSUME CheckoutInv, CheckoutTypeOK', WindowInv, [CheckoutNext]_checkoutVars PROVE WindowInv'  OBVIOUS
<1> CheckoutTypeOK  BY DEF CheckoutInv
<1>1. ASSUME NEW a \in Processes, Elsewhere(a), UNCHANGED <<ends, overlapped>>,
             \A p \in PlanRows : applied'[p] = applied[p]
      PROVE  WindowInv'
  BY <1>1, WindowLeft DEF Elsewhere, Extending, Applying
<1>2. ASSUME UNCHANGED <<job, ends, overlapped, applied>> PROVE WindowInv'
  <2>1. PeriodsApplied' = PeriodsApplied  BY <1>2, PeriodsAdd
  <2> QED  BY <1>2, <2>1 DEF WindowInv
<1>3. ASSUME NEW a \in Processes,
             \/ PayList(a) \/ SyncList(a) \/ PayFetch(a) \/ PayVoid(a) \/ PayClose(a) \/ PayInsert(a) \/ PayInvoice(a)
             \/ SyncFetch(a) \/ LoseActivation(a) \/ Die(a) \/ \E p \in PayRows : Deliver(a, p)
      PROVE  WindowInv'
  <2>1. Elsewhere(a)  BY <1>3, PaymentElsewhere
  <2>2. UNCHANGED <<ends, overlapped, applied>>
    BY <1>3 DEF PayList, SyncList, PayFetch, PayVoid, PayClose, PayInsert, PayInvoice, SyncFetch, LoseActivation, Die,
                Deliver, checkoutHistory
  <2> QED  BY <1>1, <2>1, <2>2
<1>4. ASSUME NEW a \in Processes,
             \/ Offer(a) \/ NewRow(a) \/ NewInvoice(a) \/ Name(a) \/ AddonPay(a) \/ AddonLook(a) \/ SweepOffer(a)
             \/ CancelAddon(a) \/ CancelInvoice(a) \/ CancelRow(a)
      PROVE  WindowInv'
  <2>1. Elsewhere(a)  BY <1>4, AddonElsewhere
  <2>2. UNCHANGED <<ends, overlapped, applied>>
    BY <1>4 DEF Offer, NewRow, NewInvoice, Name, AddonPay, AddonLook, SweepOffer, CancelAddon, CancelInvoice, CancelRow,
                checkoutHistory
  <2> QED  BY <1>1, <2>1, <2>2
<1>5. ASSUME NEW a \in Processes, ActivateAddon(a) PROVE WindowInv'
  <2>1. Elsewhere(a)  BY <1>5, AddonElsewhere
  <2>2. /\ job[a].at = "activate" /\ UNCHANGED <<ends, overlapped>>
        /\ applied' = [applied EXCEPT ![job[a].on] = @ + 1]
    BY <1>5 DEF ActivateAddon, Does
  <2>3. job[a].on \in AddonRows  BY <2>2 DEF CheckoutInv, Bought, Lists, ListFits, Selling
  <2>4. \A p \in PlanRows : applied'[p] = applied[p]  BY <2>2, <2>3, Sets DEF CheckoutTypeOK
  <2> QED  BY <1>1, <2>1, <2>2, <2>4
<1>6. ASSUME NEW a \in Processes, Claim(a) \/ ReadWindow(a) \/ WriteWindow(a) PROVE WindowInv'
  BY <1>6, ClaimInWindow, ReadInWindow, WriteInWindow
<1>7. CASE UNCHANGED checkoutVars  BY <1>2, <1>7 DEF checkoutVars, checkoutHistory
<1>8. CASE OfferLapses  BY <1>2, <1>8 DEF OfferLapses, checkoutHistory
<1>9. ASSUME NEW p \in PayRows, CustomerPays(p) PROVE WindowInv'  BY <1>2, <1>9 DEF CustomerPays, checkoutHistory
<1> QED
  BY <1>3, <1>4, <1>5, <1>6, <1>7, <1>8, <1>9, Sets DEF CheckoutNext, Working

\* However many activations of plans interleave, the account never gets a period it
\* did not pay for, and gets all it paid for unless two had read the same end.
THEOREM WindowsPaidFor == CheckoutSpec => []WindowsArePaidFor
<1>1. CheckoutInv => CheckoutTypeOK  BY DEF CheckoutInv
<1>2. CheckoutSpec => []WindowInv
  BY <1>1, WindowStarts, WindowStep, CheckoutAlways, PTL DEF CheckoutSpec
<1>3. WindowInv => WindowsArePaidFor  BY DEF WindowInv, WindowsArePaidFor
<1> QED  BY <1>2, <1>3, PTL

-----------------------------------------------------------------------------
(* The promise.                                                             *)

Kept == Promise!Next \/ UNCHANGED Promise!promiseVars

\* Nothing the promise speaks of changes.
Unseen == Due' = Due /\ Giving' = Giving /\ AddonIsOn' = AddonIsOn /\ UNCHANGED <<applied, ends, overlapped>>

LEMMA UnseenIsKept == Unseen => Kept
  BY DEF Unseen, Kept, Promise!promiseVars

LEMMA PurchasesArePayments == Promise!Purchases = PayRows
  BY DEF Promise!Purchases, PayRows

\* No row becomes paid or stops being so, and no invoice of one that is not.
LEMMA DueStays ==
    ASSUME \A p \in PayRows :
              /\ row'[p] = "paid" <=> row[p] = "paid"
              /\ row[p] = "paid" \/ (invoice'[p] = "paid" <=> invoice[p] = "paid")
    PROVE  Due' = Due
  BY DEF Due

\* No process begins or ends applying.
LEMMA GivingStays ==
    ASSUME NEW a, Alone(a), a \in Processes => job'[a].at \notin Applying /\ job[a].at \notin Applying
    PROVE  Giving' = Giving
<1>1. ASSUME NEW p PROVE Appliers(p)' = Appliers(p)
  <2>1. ASSUME NEW b \in Processes
        PROVE  (job'[b].at \in Applying /\ job'[b].on = p) <=> (job[b].at \in Applying /\ job[b].on = p)
    <3>1. CASE b = a  BY <3>1
    <3>2. CASE b # a  BY <3>2 DEF Alone
    <3> QED  BY <3>1, <3>2
  <2> QED  BY <2>1 DEF Appliers
<1> QED  BY <1>1 DEF Giving

LEMMA GivingTypes == Giving \in [PayRows -> Nat] /\ DOMAIN Giving = PayRows
  BY AppliersFinite DEF Giving

\* One goes on applying the same row.
LEMMA GivingGoesOn ==
    ASSUME NEW a \in Processes, Alone(a), job[a].at \in Applying, job'[a].at \in Applying, job'[a].on = job[a].on
    PROVE  Giving' = Giving
<1>1. ASSUME NEW p PROVE Appliers(p)' = Appliers(p)
  <2>1. ASSUME NEW b \in Processes
        PROVE  (job'[b].at \in Applying /\ job'[b].on = p) <=> (job[b].at \in Applying /\ job[b].on = p)
    <3>1. CASE b = a  BY <3>1
    <3>2. CASE b # a  BY <3>2 DEF Alone
    <3> QED  BY <3>1, <3>2
  <2> QED  BY <2>1 DEF Appliers
<1> QED  BY <1>1 DEF Giving

LEMMA GivingBegins ==
    ASSUME NEW a \in Processes, Alone(a), job[a].at \notin Applying, job'[a].at \in Applying, job'[a].on = job[a].on,
           job[a].on \in PayRows
    PROVE  Giving' = [Giving EXCEPT ![job[a].on] = @ + 1]
<1> DEFINE n == job[a].on
<1>1. ASSUME NEW p \in PayRows PROVE Appliers(p)' = Appliers(p) \cup (IF p = n THEN {a} ELSE {})
  <2>1. ASSUME NEW b \in Processes
        PROVE  (job'[b].at \in Applying /\ job'[b].on = p) <=>
                  ((job[b].at \in Applying /\ job[b].on = p) \/ (b = a /\ p = n))
    <3>1. CASE b = a  BY <3>1
    <3>2. CASE b # a  BY <3>2 DEF Alone
    <3> QED  BY <3>1, <3>2
  <2> QED  BY <2>1 DEF Appliers
<1>2. a \notin Appliers(n)  BY DEF Appliers
<1>3. Cardinality(Appliers(n) \cup {a}) = Cardinality(Appliers(n)) + 1  BY <1>2, AppliersFinite, FS_AddElement
<1> HIDE DEF n
<1>4. \A p \in PayRows : Cardinality(Appliers(p)') = IF p = n THEN Cardinality(Appliers(p)) + 1 ELSE Cardinality(Appliers(p))
  BY <1>1, <1>3
<1> QED  BY <1>4 DEF Giving, n

LEMMA GivingEnds ==
    ASSUME NEW a \in Processes, Alone(a), job[a].at \in Applying, job'[a].at \notin Applying, job[a].on \in PayRows
    PROVE  Giving' = [Giving EXCEPT ![job[a].on] = @ - 1] /\ Giving[job[a].on] > 0
<1> DEFINE n == job[a].on
<1>1. ASSUME NEW p \in PayRows PROVE Appliers(p)' = Appliers(p) \ {a} /\ (p # n => Appliers(p)' = Appliers(p))
  <2>1. ASSUME NEW b \in Processes
        PROVE  (job'[b].at \in Applying /\ job'[b].on = p) <=> (job[b].at \in Applying /\ job[b].on = p /\ b # a)
    <3>1. CASE b = a  BY <3>1
    <3>2. CASE b # a  BY <3>2 DEF Alone
    <3> QED  BY <3>1, <3>2
  <2>2. p # n => a \notin Appliers(p)  BY DEF Appliers
  <2> QED  BY <2>1, <2>2 DEF Appliers
<1>2. a \in Appliers(n)  BY DEF Appliers
<1>3. /\ Cardinality(Appliers(n) \ {a}) = Cardinality(Appliers(n)) - 1
      /\ Cardinality(Appliers(n) \ {a}) \in Nat /\ Cardinality(Appliers(n)) \in Nat
  <2>1. IsFiniteSet(Appliers(n) \ {a})  BY AppliersFinite, FS_RemoveElement
  <2> QED  BY <1>2, <2>1, AppliersFinite, FS_RemoveElement, FS_CardinalityType
<1> HIDE DEF n
<1>4. \A p \in PayRows : Cardinality(Appliers(p)') = IF p = n THEN Cardinality(Appliers(p)) - 1 ELSE Cardinality(Appliers(p))
  BY <1>1, <1>3
<1>5. n \in PayRows  BY DEF n
<1>6. Giving' = [Giving EXCEPT ![n] = @ - 1]  BY <1>4, <1>5 DEF Giving
<1>7. Giving[n] > 0
  <2>1. Cardinality(Appliers(n)) > 0  BY <1>3
  <2> QED  BY <1>5, <2>1 DEF Giving
<1> QED  BY <1>6, <1>7 DEF n

LEMMA OneGives == ASSUME CheckoutInv, NEW a \in Processes, job[a].at \in Applying PROVE job[a].on \in PayRows
  BY DEF CheckoutInv, Bought, SawItPaid, Sure, Applying

-----------------------------------------------------------------------------
(* Steps the promise does not see, but for the add-on's record.             *)

\* A step of a, outside an activation, that leaves what is due.
Aside(a) ==
    /\ Elsewhere(a) /\ job[a].at \notin Applying
    /\ Due' = Due /\ UNCHANGED <<applied, ends, overlapped>>

LEMMA AsideGives == ASSUME NEW a \in Processes, Aside(a) PROVE Giving' = Giving
  BY GivingStays DEF Aside, Elsewhere

LEMMA RowsLeft == ASSUME UNCHANGED <<row, invoice>> PROVE Due' = Due
  BY DueStays

\* The pay endpoint, sync and deliveries, before they claim or close.
LEMMA PaymentAside ==
    ASSUME CheckoutInv, NEW a \in Processes,
           \/ PayList(a) \/ SyncList(a) \/ PayFetch(a) \/ PayVoid(a) \/ PayInsert(a) \/ PayInvoice(a)
           \/ SyncFetch(a) \/ Die(a) \/ \E p \in PayRows : Deliver(a, p)
    PROVE  Aside(a) /\ AddonIsOn' = AddonIsOn
<1> CheckoutTypeOK  BY DEF CheckoutInv
<1>1. Elsewhere(a)  BY PaymentElsewhere
<1>2. job[a].at \notin Applying
  BY DEF PayList, SyncList, PayFetch, PayVoid, PayInsert, PayInvoice, SyncFetch, Die, Deliver, Does, Applying
<1>3. UNCHANGED <<applied, ends, overlapped, addon>>
  BY DEF PayList, SyncList, PayFetch, PayVoid, PayInsert, PayInvoice, SyncFetch, Die, Deliver, checkoutHistory, addonRecord
<1>4. Due' = Due
  <2>1. CASE PayList(a) \/ SyncList(a) \/ PayFetch(a) \/ SyncFetch(a) \/ Die(a) \/ \E p \in PayRows : Deliver(a, p)
    BY <2>1, RowsLeft DEF PayList, SyncList, PayFetch, SyncFetch, Die, Deliver
  <2>2. CASE PayVoid(a)
    <3>1. row' = row /\ invoice' \in {invoice, Voided(job[a].on)}  BY <2>2 DEF PayVoid
    <3> QED  BY <3>1, DueStays DEF Voided, CheckoutTypeOK
  <2>3. CASE PayInsert(a)
    <3>1. invoice' = invoice /\ (row' = row \/ \E p \in PlanRows : row[p] = "none" /\ row' = [row EXCEPT ![p] = "pending"])
      BY <2>3 DEF PayInsert, NextRow
    <3> QED  BY <3>1, Sets, DueStays DEF CheckoutTypeOK
  <2>4. CASE PayInvoice(a)
    <3>1. row' = row /\ invoice' \in {invoice, [invoice EXCEPT ![job[a].on] = "open"]} /\ job[a].at \in Making
      BY <2>4 DEF PayInvoice, Does, Making
    <3>2. invoice[job[a].on] = "none"  BY <3>1 DEF CheckoutInv, Bought, OneCreator
    <3> QED  BY <3>1, <3>2, DueStays DEF CheckoutTypeOK
  <2> QED  BY <2>1, <2>2, <2>3, <2>4
<1> QED  BY <1>1, <1>2, <1>3, <1>4 DEF Aside, AddonIsOn

\* The add-on's payment and its cancellation.
LEMMA AddonAside ==
    ASSUME CheckoutInv, NEW a \in Processes,
           \/ Offer(a) \/ NewRow(a) \/ NewInvoice(a) \/ Name(a) \/ AddonPay(a) \/ AddonLook(a) \/ SweepOffer(a)
           \/ CancelAddon(a) \/ CancelInvoice(a) \/ CancelRow(a)
    PROVE  Aside(a) /\ (addon' # "active" \/ addon = "active")
<1> CheckoutTypeOK  BY DEF CheckoutInv
<1>1. Elsewhere(a)  BY AddonElsewhere
<1>2. job[a].at \notin Applying
  BY DEF Offer, NewRow, NewInvoice, Name, AddonPay, AddonLook, SweepOffer, CancelAddon, CancelInvoice, CancelRow, Does,
         Applying
<1>3. UNCHANGED <<applied, ends, overlapped>>
  BY DEF Offer, NewRow, NewInvoice, Name, AddonPay, AddonLook, SweepOffer, CancelAddon, CancelInvoice, CancelRow,
         checkoutHistory
<1>4. Due' = Due
  <2>1. CASE Offer(a) \/ Name(a) \/ AddonPay(a) \/ AddonLook(a) \/ SweepOffer(a) \/ CancelAddon(a)
    BY <2>1, RowsLeft DEF Offer, Name, AddonPay, AddonLook, SweepOffer, CancelAddon
  <2>2. CASE NewRow(a)
    <3>1. invoice' = invoice /\ \E p \in AddonRows : row[p] = "none" /\ row' = [row EXCEPT ![p] = "pending"]
      BY <2>2 DEF NewRow, NextRow
    <3> QED  BY <3>1, Sets, DueStays DEF CheckoutTypeOK
  <2>3. CASE NewInvoice(a)
    <3>1. job[a].at \in Making
          /\ \/ invoice' = [invoice EXCEPT ![job[a].on] = "open"] /\ row' = row
             \/ row' = [row EXCEPT ![job[a].on] = "cancelled"] /\ invoice' = invoice
      BY <2>3 DEF NewInvoice, Does, Making
    <3>2. job[a].on \in PayRows /\ invoice[job[a].on] = "none" /\ row[job[a].on] # "paid"
      BY <3>1 DEF CheckoutInv, Bought, OneCreator, PaidRowsPaid
    <3> QED  BY <3>1, <3>2, DueStays DEF CheckoutTypeOK
  <2>4. CASE CancelInvoice(a)
    <3>1. row' = row /\ invoice' \in {invoice, Voided(job[a].on)}  BY <2>4 DEF CancelInvoice
    <3> QED  BY <3>1, DueStays DEF Voided, CheckoutTypeOK
  <2>5. CASE CancelRow(a)
    <3>1. invoice' = invoice /\ row' = [row EXCEPT ![job[a].on] = IF @ = "pending" THEN "cancelled" ELSE @]
      BY <2>5 DEF CancelRow
    <3> QED  BY <3>1, DueStays DEF CheckoutTypeOK
  <2> QED  BY <2>1, <2>2, <2>3, <2>4, <2>5
<1>5. addon' # "active" \/ addon = "active"
  BY DEF Offer, NewRow, NewInvoice, Name, AddonPay, AddonLook, SweepOffer, CancelAddon, CancelInvoice, CancelRow,
         addonRecord
<1> QED  BY <1>1, <1>2, <1>3, <1>4, <1>5 DEF Aside

\* They may take the add-on back.
LEMMA AsideIsKept ==
    ASSUME NEW a \in Processes, Aside(a), addon' # "active" \/ addon = "active"
    PROVE  Kept
<1>1. Giving' = Giving  BY AsideGives
<1>2. CASE AddonIsOn' = AddonIsOn  BY <1>1, <1>2, UnseenIsKept DEF Aside, Unseen
<1>3. CASE AddonIsOn' # AddonIsOn
  <2>1. AddonIsOn' = FALSE  BY <1>3 DEF AddonIsOn
  <2>2. Promise!TakeBack  BY <1>1, <2>1 DEF Aside, Promise!TakeBack
  <2> QED  BY <2>2 DEF Kept, Promise!Next
<1> QED  BY <1>2, <1>3

-----------------------------------------------------------------------------
(* Steps it sees.                                                           *)

LEMMA CustomerPaysKept == ASSUME CheckoutInv, NEW p \in PayRows, CustomerPays(p) PROVE Kept
<1> CheckoutTypeOK  BY DEF CheckoutInv
<1>1. /\ invoice[p] = "open" /\ invoice' = [invoice EXCEPT ![p] = "paid"]
      /\ UNCHANGED <<row, addonRecord, ends, job, checkoutHistory>>
  BY DEF CustomerPays
<1>2. row[p] # "paid"  BY <1>1 DEF CheckoutInv, Bought, PaidRowsPaid
<1>3. Due[p] = "unpaid" /\ Due' = [Due EXCEPT ![p] = "paid"]
  BY <1>1, <1>2 DEF Due, CheckoutTypeOK
<1>4. Giving' = Giving /\ AddonIsOn' = AddonIsOn
  BY <1>1 DEF Giving, Appliers, AddonIsOn, addonRecord
<1>5. Promise!Pay(p)  BY <1>1, <1>3, <1>4 DEF Promise!Pay, checkoutHistory
<1> QED  BY <1>5, PurchasesArePayments DEF Kept, Promise!Next

LEMMA PayCloseKept == ASSUME CheckoutInv, NEW a \in Processes, PayClose(a) PROVE Kept
<1> CheckoutTypeOK  BY DEF CheckoutInv
<1> DEFINE p == job[a].on
<1>1. /\ job[a].at = "close" /\ row' = [row EXCEPT ![p] = "cancelled"]
      /\ UNCHANGED <<invoice, addonRecord, ends, applied, overlapped>>
  BY DEF PayClose, Does
<1>2. p \in PlanRows /\ p \in PayRows  BY <1>1, Sets DEF CheckoutInv, Bought, Lists, ListFits
<1>3. Elsewhere(a) /\ job[a].at \notin Applying  BY <1>1, PaymentElsewhere DEF Applying
<1>4. AddonIsOn' = AddonIsOn  BY <1>1 DEF AddonIsOn, addonRecord
<1> HIDE DEF p
<1>5. CASE row[p] # "paid"
  <2>1. Due' = Due  BY <1>1, <1>2, <1>5, DueStays DEF CheckoutTypeOK
  <2> QED  BY <1>1, <1>3, <1>4, <2>1, AsideIsKept DEF Aside, AddonIsOn
<1>6. CASE row[p] = "paid"
  <2>1. invoice[p] = "paid"  BY <1>2, <1>6 DEF CheckoutInv, Bought, PaidRowsPaid
  <2>2. Due[p] = "claimed" /\ Due' = [Due EXCEPT ![p] = "paid"]
    BY <1>1, <1>2, <1>6, <2>1 DEF Due, CheckoutTypeOK
  <2>3. Giving' = Giving  BY <1>3, GivingStays DEF Elsewhere
  <2>4. Promise!HandBack(p)  BY <1>1, <1>2, <1>4, <2>2, <2>3 DEF Promise!HandBack
  <2> QED  BY <1>2, <2>4, PurchasesArePayments DEF Kept, Promise!Next
<1> QED  BY <1>5, <1>6

LEMMA ClaimKept == ASSUME CheckoutInv, NEW a \in Processes, Claim(a) PROVE Kept
<1> CheckoutTypeOK  BY DEF CheckoutInv
<1> DEFINE p == job[a].on
<1>1. job[a].at = "claim" /\ UNCHANGED <<invoice, addonRecord, ends, checkoutHistory>>  BY DEF Claim, Does
<1>2. p \in PayRows /\ invoice[p] = "paid" /\ job[a].at \notin Applying
  BY <1>1 DEF CheckoutInv, Bought, SawItPaid, Sure, Applying
<1>3. AddonIsOn' = AddonIsOn /\ UNCHANGED <<applied, overlapped, addon>>
  BY <1>1 DEF AddonIsOn, addonRecord, checkoutHistory
<1>4. CASE row[p] = "paid" /\ Proceed(a) /\ UNCHANGED row
  <2>1. Elsewhere(a)  BY <1>4, JobsHaveAPlace, JobElsewhere, IdleElsewhere DEF Proceed, Applying
  <2>2. Due' = Due  BY <1>1, <1>4, RowsLeft
  <2> QED  BY <1>1, <1>2, <1>3, <2>1, <2>2, AsideIsKept DEF Aside
<1>5. CASE /\ row[p] # "paid" /\ row' = [row EXCEPT ![p] = "paid"]
           /\ Step(a, IF p \in AddonRows THEN "activate" ELSE "read", job[a])
  <2> DEFINE step == IF p \in AddonRows THEN "activate" ELSE "read"
  <2>1. step \in Ats /\ step \in Applying /\ job[a] \in Jobs  BY DEF Ats, Applying, CheckoutTypeOK
  <2>2. Step(a, step, job[a])  BY <1>5
  <2> HIDE DEF step
  <2>3. Alone(a) /\ job'[a].at \in Applying /\ job'[a].on = p  BY <2>1, <2>2, Stepped DEF Alone
  <2>4. Giving' = [Giving EXCEPT ![p] = @ + 1]  BY <1>2, <2>3, GivingBegins
  <2> HIDE DEF p
  <2>5. Due[p] = "paid" /\ Due' = [Due EXCEPT ![p] = "claimed"]
    BY <1>1, <1>2, <1>5 DEF Due, CheckoutTypeOK
  <2>6. Promise!Take(p)  BY <1>1, <1>3, <2>4, <2>5 DEF Promise!Take
  <2> QED  BY <1>2, <2>6, PurchasesArePayments DEF Kept, Promise!Next
<1> QED  BY <1>4, <1>5 DEF Claim

\* Two that have read, or are about to: a period may be lost from now on.
LEMMA ReadWindowKept == ASSUME CheckoutInv, WindowInv, NEW a \in Processes, ReadWindow(a) PROVE Kept
<1> CheckoutTypeOK  BY DEF CheckoutInv
<1>1. /\ job[a].at = "read" /\ Step(a, "write", [job[a] EXCEPT !.end = ends])
      /\ overlapped' = (overlapped \/ \E b \in Processes \ {a} : job[b].at = "write")
      /\ UNCHANGED <<row, invoice, addonRecord, ends, applied>>
  BY DEF ReadWindow, Does
<1> DEFINE f == [job[a] EXCEPT !.end = ends]
<1>2. f \in Jobs /\ f.on = job[a].on  BY DEF Jobs, CheckoutTypeOK
<1>a. Step(a, "write", f) /\ "write" \in Ats  BY <1>1 DEF Ats
<1> HIDE DEF f
<1>3. Alone(a) /\ job'[a].at = "write" /\ job'[a].on = job[a].on
  BY <1>2, <1>a, Stepped DEF Alone
<1>4. Due' = Due /\ AddonIsOn' = AddonIsOn  BY <1>1, RowsLeft DEF AddonIsOn, addonRecord
<1>5. Giving' = Giving  BY <1>1, <1>3, GivingGoesOn DEF Applying
<1>6. CASE overlapped' = overlapped  BY <1>1, <1>4, <1>5, <1>6, UnseenIsKept DEF Unseen
<1>7. CASE overlapped' # overlapped
  <2>1. overlapped' = TRUE /\ \E b \in Processes \ {a} : job[b].at = "write"
    BY <1>1, <1>7 DEF CheckoutTypeOK
  <2>2. PICK b \in Processes \ {a} : job[b].at = "write"  BY <2>1
  <2> DEFINE p == job[a].on
             q == job[b].on
  <2>3. p \in PlanRows /\ q \in PlanRows /\ p \in PayRows /\ q \in PayRows  BY <1>1, <2>2, Sets DEF WindowInv, Extending
  <2>4. a \in Appliers(p) /\ b \in Appliers(q) /\ a # b  BY <1>1, <2>2 DEF Appliers, Applying
  <2> HIDE DEF p, q
  <2>5. ASSUME NEW S, IsFiniteSet(S), NEW x \in S PROVE Cardinality(S) > 0
    BY <2>5, FS_EmptySet, FS_CardinalityType
  <2>6. Giving[p] > 0 /\ Giving[q] > 0  BY <2>3, <2>4, <2>5, AppliersFinite DEF Giving
  <2>7. ASSUME p = q PROVE Giving[p] > 1
    <3>1. IsFiniteSet(Appliers(p) \ {a}) /\ Cardinality(Appliers(p) \ {a}) = Cardinality(Appliers(p)) - 1
      BY <2>4, AppliersFinite, FS_RemoveElement
    <3>2. Cardinality(Appliers(p) \ {a}) > 0  BY <2>4, <2>5, <2>7, <3>1
    <3>3. Cardinality(Appliers(p)) > 1  BY <3>1, <3>2, AppliersFinite
    <3> QED  BY <2>3, <3>3 DEF Giving
  <2>8. Promise!Tear  BY <1>1, <1>4, <1>5, <2>1, <2>3, <2>6, <2>7 DEF Promise!Tear
  <2> QED  BY <2>8 DEF Kept, Promise!Next
<1> QED  BY <1>6, <1>7

LEMMA WriteWindowKept == ASSUME CheckoutInv, WindowInv, NEW a \in Processes, WriteWindow(a) PROVE Kept
<1> CheckoutTypeOK  BY DEF CheckoutInv
<1> DEFINE p == job[a].on
<1>1. /\ job[a].at = "write" /\ ends' = job[a].end + 1 /\ Finish(a)
      /\ applied' = [applied EXCEPT ![p] = @ + 1]
      /\ UNCHANGED <<row, invoice, addonRecord, overlapped>>
  BY DEF WriteWindow, Does
<1>2. p \in PlanRows /\ p \in PayRows /\ (~overlapped => job[a].end = ends)  BY <1>1, Sets DEF WindowInv, Extending
<1>3. Alone(a) /\ job'[a].at \notin Applying /\ job[a].at \in Applying  BY <1>1, Finished DEF Alone, Applying
<1>4. Giving' = [Giving EXCEPT ![p] = @ - 1] /\ Giving[p] > 0  BY <1>2, <1>3, GivingEnds
<1>5. Due' = Due /\ AddonIsOn' = AddonIsOn  BY <1>1, RowsLeft DEF AddonIsOn, addonRecord
<1> HIDE DEF p
<1>6. Promise!Gives(p)  BY <1>1, <1>4, <1>5 DEF Promise!Gives
<1>7. Promise!GivePlan(p)  BY <1>1, <1>2, <1>5, <1>6 DEF Promise!GivePlan
<1> QED  BY <1>2, <1>7 DEF Kept, Promise!Next

LEMMA ActivateAddonKept == ASSUME CheckoutInv, NEW a \in Processes, ActivateAddon(a) PROVE Kept
<1> CheckoutTypeOK  BY DEF CheckoutInv
<1> DEFINE p == job[a].on
<1>1. /\ job[a].at = "activate" /\ addon' = "active" /\ applied' = [applied EXCEPT ![p] = @ + 1]
      /\ UNCHANGED <<row, invoice, ends, overlapped>>
  BY DEF ActivateAddon, Does
<1>2. p \in AddonRows /\ p \in PayRows  BY <1>1, Sets DEF CheckoutInv, Bought, Lists, ListFits, Selling
<1>3. Elsewhere(a) /\ job[a].at \in Applying  BY <1>1, AddonElsewhere DEF Applying
<1>4. Giving' = [Giving EXCEPT ![p] = @ - 1] /\ Giving[p] > 0  BY <1>2, <1>3, GivingEnds DEF Elsewhere
<1>5. Due' = Due /\ AddonIsOn' = TRUE  BY <1>1, RowsLeft DEF AddonIsOn
<1> HIDE DEF p
<1>6. Promise!Gives(p)  BY <1>1, <1>4, <1>5 DEF Promise!Gives
<1>7. Promise!GiveAddon(p)  BY <1>1, <1>5, <1>6 DEF Promise!GiveAddon
<1> QED  BY <1>2, <1>7 DEF Kept, Promise!Next

LEMMA LoseActivationKept == ASSUME CheckoutInv, NEW a \in Processes, LoseActivation(a) PROVE Kept
<1> CheckoutTypeOK  BY DEF CheckoutInv
<1> DEFINE p == job[a].on
<1>1. job[a].at \in Applying /\ UNCHANGED <<row, invoice, addonRecord, ends, applied, overlapped>>  BY DEF LoseActivation
<1>2. p \in PayRows  BY <1>1, OneGives
<1>3. Elsewhere(a)  BY PaymentElsewhere
<1>4. Giving' = [Giving EXCEPT ![p] = @ - 1] /\ Giving[p] > 0  BY <1>1, <1>2, <1>3, GivingEnds DEF Elsewhere
<1>5. Due' = Due /\ AddonIsOn' = AddonIsOn  BY <1>1, RowsLeft DEF AddonIsOn, addonRecord
<1> HIDE DEF p
<1>6. Promise!Lose(p)  BY <1>1, <1>4, <1>5 DEF Promise!Lose
<1> QED  BY <1>2, <1>6, PurchasesArePayments DEF Kept, Promise!Next

LEMMA CheckoutKeepsIt == CheckoutInv /\ WindowInv /\ [CheckoutNext]_checkoutVars => Kept
<1> SUFFICES ASSUME CheckoutInv, WindowInv, [CheckoutNext]_checkoutVars PROVE Kept  OBVIOUS
<1>1. ASSUME NEW a \in Processes,
             \/ PayList(a) \/ SyncList(a) \/ PayFetch(a) \/ PayVoid(a) \/ PayInsert(a) \/ PayInvoice(a)
             \/ SyncFetch(a) \/ Die(a) \/ \E p \in PayRows : Deliver(a, p)
      PROVE  Kept
  <2>1. Aside(a) /\ AddonIsOn' = AddonIsOn  BY <1>1, PaymentAside
  <2> QED  BY <2>1, AsideIsKept DEF AddonIsOn
<1>2. ASSUME NEW a \in Processes,
             \/ Offer(a) \/ NewRow(a) \/ NewInvoice(a) \/ Name(a) \/ AddonPay(a) \/ AddonLook(a) \/ SweepOffer(a)
             \/ CancelAddon(a) \/ CancelInvoice(a) \/ CancelRow(a)
      PROVE  Kept
  BY <1>2, AddonAside, AsideIsKept
<1>3. ASSUME NEW a \in Processes,
             \/ PayClose(a) \/ Claim(a) \/ ReadWindow(a) \/ WriteWindow(a) \/ ActivateAddon(a) \/ LoseActivation(a)
      PROVE  Kept
  BY <1>3, PayCloseKept, ClaimKept, ReadWindowKept, WriteWindowKept, ActivateAddonKept, LoseActivationKept
<1>4. CASE UNCHANGED checkoutVars \/ OfferLapses
  <2>1. UNCHANGED <<row, invoice, ends, job, applied, overlapped>> /\ (addon' = "active" <=> addon = "active")
    BY <1>4 DEF checkoutVars, checkoutHistory, addonRecord, OfferLapses
  <2>2. Giving' = Giving  BY <2>1 DEF Giving, Appliers
  <2>3. Due' = Due /\ AddonIsOn' = AddonIsOn  BY <2>1, RowsLeft DEF AddonIsOn
  <2> QED  BY <2>1, <2>2, <2>3, UnseenIsKept DEF Unseen
<1>5. ASSUME NEW p \in PayRows, CustomerPays(p) PROVE Kept  BY <1>5, CustomerPaysKept
<1> QED  BY <1>1, <1>2, <1>3, <1>4, <1>5, Sets, Zenon DEF CheckoutNext, Working

\* Checkout implements PurchasePromise: a purchase is claimed only by who saw it paid and
\* while nobody else does, each claim gives once or is lost, and the account's window and
\* add-on change by what is given, or by taking the add-on back.
THEOREM PurchasesAreKept == CheckoutSpec => GivesWhatWasPaid
<1>1. CheckoutInit => Promise!Init
  <2> SUFFICES ASSUME CheckoutInit PROVE Promise!Init  OBVIOUS
  <2>1. Due = [p \in PayRows |-> "unpaid"]  BY DEF CheckoutInit, Due
  <2>2. Giving = [p \in PayRows |-> 0]
    <3>1. ASSUME NEW p PROVE Appliers(p) = {}  BY NoJobIsAJob DEF CheckoutInit, Appliers, Applying
    <3> QED  BY <3>1, FS_EmptySet DEF Giving
  <2>3. AddonIsOn = FALSE  BY DEF CheckoutInit, AddonIsOn
  <2> QED  BY <2>1, <2>2, <2>3, PurchasesArePayments DEF CheckoutInit, Promise!Init
<1>2. CheckoutInv /\ WindowInv /\ [CheckoutNext]_checkoutVars => [Promise!Next]_(Promise!promiseVars)
  BY CheckoutKeepsIt DEF Kept
<1>3. CheckoutInv => CheckoutTypeOK  BY DEF CheckoutInv
<1> QED
  BY <1>1, <1>2, <1>3, CheckoutAlways, WindowStarts, WindowStep, PTL DEF CheckoutSpec, GivesWhatWasPaid, Promise!Spec

=============================================================================
