---------------------------- MODULE RentReceipts ----------------------------
(***************************************************************************)
(* The monthly rent receipts of a property (property_management_views.ts,  *)
(* header-button-container.tsx): one summary row, one row per tenant with  *)
(* a copy of the billing lines and a PDF, written one call at a time by    *)
(* the page that pressed the button, and the month stored on the property  *)
(* last.  A visit is one page on the property; a page left while its run   *)
(* goes on is another visit's page no more.                                *)
(***************************************************************************)
EXTENDS Integers, Sequences, FiniteSets, SequencesExt

CONSTANTS
    Visits,       \* pages opened on the property
    Tenants,      \* the contacts linked to it, in order
    Lines,        \* the totals of its billing lines, in order
    MaxMonth,     \* bound: months that pass
    MaxPresses,   \* bound: presses of Generate
    MaxTroubles   \* bound: calls that fail

\* A contact is linked to a property once: the widget offers those not linked yet.
ASSUME ReceiptConstants ==
    /\ "all" \notin ToSet(Tenants)
    /\ \A i, k \in DOMAIN Tenants : Tenants[i] = Tenants[k] => i = k
    /\ Tenants \in Seq(ToSet(Tenants)) /\ Lines \in Seq(Int)

NoMonth == 0
Untold == "untold"   \* the record lacks the server-computed key

VARIABLES
    today,      \* the month
    month,      \* last_receipt_month on the server
    receipts,   \* the rows, in order: [parent, month, tenant, lines, total]; parent 0: a summary
    pdfs,       \* the rows with a file
    page,       \* visit -> the draft: last_receipt_month and receipt_generated_this_month
    job,        \* visit -> the run under way
    presses, troubles,
    ranIn,      \* ghost: visit -> the month its last run was stored for, while its page stays
    excused     \* ghost: a call failed, a draft was out of date, or two runs overlapped

receiptVars == <<today, month, receipts, pdfs, page, job, presses, troubles, ranIn, excused>>

NoPage == [month |-> NoMonth, generated |-> "closed"]
Idle == [pc |-> "idle", month |-> NoMonth, lines |-> <<>>, names |-> <<>>, parent |-> 0, child |-> 0]

ReceiptsInit ==
    /\ today = 1 /\ month = NoMonth /\ receipts = <<>> /\ pdfs = {}
    /\ page = [v \in Visits |-> NoPage] /\ job = [v \in Visits |-> Idle]
    /\ presses = 0 /\ troubles = 0 /\ ranIn = [v \in Visits |-> NoMonth] /\ excused = FALSE

NextMonth ==
    /\ today < MaxMonth
    /\ today' = today + 1
    /\ UNCHANGED <<month, receipts, pdfs, page, job, presses, troubles, ranIn, excused>>

-----------------------------------------------------------------------------
(* The property's page. *)

receiptGeneratedThisMonth(last) == last # NoMonth /\ last = today

\* GetProperty: the only answer that carries the computed key.
OpenPage(v) ==
    /\ job[v].pc = "idle"
    /\ page' = [page EXCEPT ![v] =
                  [month |-> month, generated |-> IF receiptGeneratedThisMonth(month) THEN "true" ELSE "false"]]
    /\ ranIn' = [ranIn EXCEPT ![v] = NoMonth]
    /\ UNCHANGED <<today, month, receipts, pdfs, job, presses, troubles, excused>>

\* The answer of a PUT holds the columns only, and the draft is seeded from it.
AnswerPut(v, last) ==
    /\ month' = last
    /\ page' = [page EXCEPT ![v] = [month |-> last, generated |-> Untold]]

Trouble == troubles < MaxTroubles /\ troubles' = troubles + 1 /\ excused' = TRUE

\* A Save sends the whole draft, the month it was loaded with included.
SaveProperty(v) ==
    /\ page[v] # NoPage
    /\ AnswerPut(v, page[v].month)
    /\ excused' = (excused \/ page[v].month # month)
    /\ UNCHANGED <<today, receipts, pdfs, job, presses, troubles, ranIn>>

-----------------------------------------------------------------------------
(* Generate Rent Receipt. *)

readOnly(v) == page[v].generated = "true"
CanPress(v) == page[v] # NoPage /\ job[v].pc = "idle" /\ ~readOnly(v)
OutOfDate(v) == page[v].month # month \/ page[v].generated = Untold
Overlap(v) == \E w \in Visits \ {v} : job[w].pc # "idle"

Press(v) ==
    /\ CanPress(v) /\ presses < MaxPresses
    /\ job' = [job EXCEPT ![v] = [Idle EXCEPT !.pc = "lines", !.month = today]]
    /\ presses' = presses + 1
    /\ excused' = (excused \/ OutOfDate(v) \/ Overlap(v))
    /\ UNCHANGED <<today, month, receipts, pdfs, page, troubles, ranIn>>

To(v, next) == job' = [job EXCEPT ![v] = next]
Calm == UNCHANGED <<troubles, excused>>
rowVars == <<receipts, pdfs>>
pageVars == <<today, month, page, presses, ranIn>>

\* A call that is answered with an error ends the run: "Action failed."
Fails(v) == Trouble /\ To(v, Idle)

ListLines(v) ==
    /\ job[v].pc = "lines"
    /\ \/ To(v, [job[v] EXCEPT !.pc = "tenants", !.lines = Lines]) /\ Calm
       \/ Fails(v)
    /\ UNCHANGED <<rowVars, pageVars>>

\* The links, then every contact at once; one that cannot be read is left out.
ListTenants(v) ==
    /\ job[v].pc = "tenants"
    /\ \/ To(v, [job[v] EXCEPT !.pc = "parent", !.names = Tenants]) /\ Calm
       \/ \E lost \in ToSet(Tenants) :
             /\ Trouble
             /\ To(v, [job[v] EXCEPT !.pc = "parent", !.names = SelectSeq(Tenants, LAMBDA n : n # lost)])
       \/ Fails(v)
    /\ UNCHANGED <<rowVars, pageVars>>

Sum(s) == FoldLeft(LAMBDA a, b : a + b, 0, s)
Row(v, parent, tenant) ==
    [parent |-> parent, month |-> job[v].month, tenant |-> tenant, lines |-> <<>>, total |-> Sum(job[v].lines)]

\* Where the run goes when a tenant is done.
Onward(v, rest) == [job[v] EXCEPT !.pc = IF rest = <<>> THEN "store" ELSE "child", !.names = rest]

\* An error may hide a row that was written.
CreateParent(v) ==
    /\ job[v].pc = "parent"
    /\ LET written == Append(receipts, Row(v, 0, "all"))
       IN \/ /\ receipts' = written /\ Calm
             /\ To(v, [Onward(v, job[v].names) EXCEPT !.parent = Len(written)])
          \/ receipts' \in {receipts, written} /\ Fails(v)
    /\ UNCHANGED <<pdfs, pageVars>>

CreateChild(v) ==
    /\ job[v].pc = "child"
    /\ LET written == Append(receipts, Row(v, job[v].parent, Head(job[v].names)))
       IN \/ /\ receipts' = written /\ Calm
             /\ To(v, [job[v] EXCEPT !.pc = IF job[v].lines = <<>> THEN "pdf" ELSE "copy", !.child = Len(written)])
          \/ receipts' \in {receipts, written} /\ Fails(v)
    /\ UNCHANGED <<pdfs, pageVars>>

\* CreateRentReceiptLine inserts, then recomputes the totals from all lines so far.
Inserted(i, line) == [receipts EXCEPT ![i].lines = Append(@, line)]
\* Mutant: adds to the total the row was created with.
AddedUp(i, line) == [Inserted(i, line) EXCEPT ![i].total = @ + line]
Recomputed(i, line) == [Inserted(i, line) EXCEPT ![i].total = Sum(Append(receipts[i].lines, line))]

CopyLine(v) ==
    /\ job[v].pc = "copy"
    /\ LET child == job[v].child
           copied == Len(receipts[child].lines)
           line == job[v].lines[copied + 1]
       IN \/ /\ receipts' = Recomputed(child, line) /\ Calm
             /\ To(v, IF copied + 1 = Len(job[v].lines) THEN [job[v] EXCEPT !.pc = "pdf"] ELSE job[v])
          \/ receipts' \in {receipts, Inserted(child, line), Recomputed(child, line)} /\ Fails(v)
    /\ UNCHANGED <<pdfs, pageVars>>

\* Rendering and uploading: an error is swallowed.
MakePdf(v) ==
    /\ job[v].pc = "pdf"
    /\ \/ pdfs' = pdfs \union {job[v].child} /\ Calm
       \/ Trouble /\ UNCHANGED pdfs
    /\ To(v, Onward(v, Tail(job[v].names)))
    /\ UNCHANGED <<receipts, pageVars>>

\* setFieldAndCommit: a commit that is refused leaves the month in the draft alone.
StoreMonth(v) ==
    /\ job[v].pc = "store"
    /\ \/ /\ AnswerPut(v, job[v].month) /\ Calm
          /\ ranIn' = [ranIn EXCEPT ![v] = job[v].month]
       \/ /\ Trouble
          /\ page' = [page EXCEPT ![v].month = job[v].month]
          /\ UNCHANGED <<month, ranIn>>
    /\ To(v, Idle)
    /\ UNCHANGED <<rowVars, today, presses>>

\* The button of a receipt without a file: rendered again from the row.
RegeneratePdf ==
    /\ \E i \in DOMAIN receipts \ pdfs : receipts[i].parent # 0 /\ pdfs' = pdfs \union {i}
    /\ UNCHANGED <<receipts, pageVars, job, troubles, excused>>

VisitStep(v) ==
    \/ OpenPage(v) \/ SaveProperty(v) \/ Press(v) \/ ListLines(v) \/ ListTenants(v)
    \/ CreateParent(v) \/ CreateChild(v) \/ CopyLine(v) \/ MakePdf(v) \/ StoreMonth(v)
ReceiptsNext == NextMonth \/ RegeneratePdf \/ \E v \in Visits : VisitStep(v)

-----------------------------------------------------------------------------

(***************************************************************************)
(* Without a failed call, an out-of-date draft or two runs at once, no     *)
(* tenant has two receipts for a month, and once the month is stored every *)
(* tenant has one, under that run's summary, whose lines are the           *)
(* property's and whose total is theirs.  The rows are all there is to     *)
(* tell: nothing on the server refuses a second run                        *)
(* (propertymanagement.generateRentReceipt).                               *)
(***************************************************************************)
ReceiptsOf(tenant, m) == {i \in DOMAIN receipts : receipts[i].tenant = tenant /\ receipts[i].month = m}
ReceiptsOnce ==
    ~excused =>
        \A tenant \in ToSet(Tenants), m \in 1..MaxMonth :
            /\ Cardinality(ReceiptsOf(tenant, m)) <= 1
            /\ month = m => \E i \in ReceiptsOf(tenant, m) :
                  /\ receipts[i].lines = Lines /\ receipts[i].total = Sum(Lines)
                  /\ receipts[receipts[i].parent] = [receipts[i] EXCEPT !.parent = 0, !.tenant = "all", !.lines = <<>>]

(***************************************************************************)
(* The button is disabled once the page has generated this month's         *)
(* receipts and stored that it did (the comment of propertyHeaderButtons,  *)
(* property_management_views.ts).                                          *)
(***************************************************************************)
DisabledOnceRun == \A v \in Visits : ranIn[v] = today => ~CanPress(v)
=============================================================================
