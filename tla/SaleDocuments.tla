---------------------------- MODULE SaleDocuments ----------------------------
(***************************************************************************)
(* A quote of modules/sale, from draft to the invoice it becomes.  Three   *)
(* kinds of actor write its row, each from a copy it read earlier and each *)
(* whole: the line requests (write the line, then recompute the stored     *)
(* totals), the hourly expiry sweep, and the forms open in browser tabs,   *)
(* whose Save and workflow buttons PUT every field of the form back.       *)
(* Accepting is a sequence of requests driven by the tab.  Nothing locks   *)
(* the row and no transaction spans two of these calls.                    *)
(*                                                                         *)
(* A stored total is abstracted to the lines it was summed over.           *)
(***************************************************************************)
EXTENDS Integers

CONSTANTS
  Lines,      \* ids of quote lines
  Qty,        \* quantities of a line
  Requests,   \* concurrent requests on quote_line
  Tabs,       \* browser tabs with the quote's form
  Invoices,   \* ids of invoices, fresh per insert
  MaxOps,     \* bound on line requests
  Picks,      \* statuses a user may pick by hand in the form
  MaxPicks,   \* bound on statuses picked by hand
  MaxFaults,  \* bound on failed calls
  None

ASSUME BoundsAssumption == MaxOps \in Nat /\ MaxPicks \in Nat /\ MaxFaults \in Nat

Statuses == {"draft", "confirmed", "sent", "accepted", "declined", "expired"}
Terminal == {"accepted", "declined", "expired"}
ASSUME PicksAssumption == Picks \subseteq Statuses

\* The live lines of a quote, and its row.
Contents == UNION {[S -> Qty] : S \in SUBSET Lines}
Rows == [status : Statuses, total : Contents]

ASSUME NoneNotData == None \notin Statuses \cup Invoices \cup Rows \cup {"copy"}

VARIABLES
  quote,      \* the row: status, and the lines its stored total sums
  lines,      \* the live lines of the quote: id -> quantity
  sweep,      \* the copy of the row the expiry sweep is about to write, or None
  req,        \* each line request: step, lines read, status read
  form,       \* each tab: row at mount, row as last loaded, status shown, and
              \* the accept it runs
  invoices,   \* invoices raised: id -> [wanted, has], lines to copy and copied
  ops,        \* line requests so far
  faults,     \* failed calls so far
  clean,      \* auxiliary: no call failed, no write came from an outdated
              \* copy and no two accepts overlapped
  picks       \* statuses a user picked by hand from the field's list

vars == <<quote, lines, sweep, req, form, invoices, ops, faults, clean, picks>>

Row(s, t) == [status |-> s, total |-> t]

NoLines == [l \in {} |-> 0]

Req(p, l, s) == [pc |-> p, seen |-> l, status |-> s]
NoReq == Req("idle", NoLines, None)

\* run: None, or the step of the accept sequence the tab is at.
Form(f, b, s, run, inv) ==
  [first |-> f, base |-> b, status |-> s, run |-> run, inv |-> inv]
Closed == Form(None, None, None, None, None)
Opened == {t \in Tabs : form[t].base # None}

-----------------------------------------------------------------------------
(* POST, PUT and DELETE of a quote line.                                   *)

Put(l, n) == [k \in DOMAIN lines \cup {l} |-> IF k = l THEN n ELSE lines[k]]
Without(l) == [k \in DOMAIN lines \ {l} |-> lines[k]]

\* Mutant: a written line does not recompute the totals.
WriteLineNoRollup(r) ==
  /\ req[r].pc = "idle"
  /\ ops < MaxOps
  /\ ops' = ops + 1
  /\ \/ \E l \in Lines, n \in Qty : lines' = Put(l, n)
     \/ \E l \in DOMAIN lines : lines' = Without(l)
  /\ UNCHANGED <<req, quote, sweep, form, invoices, clean, picks, faults>>

\* The line is created, updated or soft-deleted first.
WriteLine(r) ==
  /\ req[r].pc = "idle"
  /\ ops < MaxOps
  /\ ops' = ops + 1
  /\ \/ \E l \in Lines, n \in Qty : lines' = Put(l, n)
     \/ \E l \in DOMAIN lines : lines' = Without(l)
  /\ req' = [req EXCEPT ![r] = Req("lines", NoLines, None)]
  /\ UNCHANGED <<quote, sweep, form, invoices, clean, picks, faults>>

\* recomputeTotals lists the lines,
ReadLines(r) ==
  /\ req[r].pc = "lines"
  /\ req' = [req EXCEPT ![r] = Req("row", lines, None)]
  /\ UNCHANGED <<quote, lines, sweep, form, invoices, ops, clean, picks, faults>>

\* reads the quote,
ReadRow(r) ==
  /\ req[r].pc = "row"
  /\ req' = [req EXCEPT ![r] = Req("write", req[r].seen, quote.status)]
  /\ UNCHANGED <<quote, lines, sweep, form, invoices, ops, clean, picks, faults>>

\* and writes back every column of it with the new sums.
WriteRow(r) ==
  /\ req[r].pc = "write"
  /\ quote' = Row(req[r].status, req[r].seen)
  /\ req' = [req EXCEPT ![r] = NoReq]
  /\ clean' = (clean /\ req[r].seen = lines /\ req[r].status = quote.status)
  /\ UNCHANGED <<lines, sweep, form, invoices, ops, picks, faults>>

\* A call of the recomputation fails, or the process dies: a 500 that leaves
\* the line changed.  A failed write may have taken effect.
RecomputeFails(r) ==
  /\ faults < MaxFaults
  /\ faults' = faults + 1
  /\ req[r].pc # "idle"
  /\ quote' \in {quote} \cup
       IF req[r].pc = "write" THEN {Row(req[r].status, req[r].seen)} ELSE {}
  /\ req' = [req EXCEPT ![r] = NoReq]
  /\ clean' = FALSE
  /\ UNCHANGED <<lines, sweep, form, invoices, ops, picks>>

LineRequest(r) ==
  WriteLine(r) \/ ReadLines(r) \/ ReadRow(r) \/ WriteRow(r) \/ RecomputeFails(r)

-----------------------------------------------------------------------------
(* ExpireOverdueQuotes, at boot and every hour, one sweep at a time.       *)

\* Mutant: any quote past its date expires.
OverdueAnyStatus(q) == q.status # "expired"

\* The quote has a due date; a sweep before that date does nothing, so the
\* date adds no behaviour and is left out.
QuoteOverdue(q) == q.status \in {"draft", "confirmed", "sent"}

\* One listing of every quote decides which rows are written.
SweepRead ==
  /\ sweep = None
  /\ QuoteOverdue(quote)
  /\ sweep' = quote
  /\ UNCHANGED <<quote, lines, req, form, invoices, ops, clean, picks, faults>>

SweepWrite ==
  /\ sweep # None
  /\ quote' = Row("expired", sweep.total)
  /\ sweep' = None
  /\ clean' = (clean /\ sweep = quote)
  /\ UNCHANGED <<lines, req, form, invoices, ops, picks, faults>>

\* The write fails, the process dies, or an earlier row's write failed: the
\* sweep returns at its first error.
SweepFails ==
  /\ faults < MaxFaults
  /\ faults' = faults + 1
  /\ sweep # None
  /\ quote' \in {quote, Row("expired", sweep.total)}
  /\ sweep' = None
  /\ clean' = FALSE
  /\ UNCHANGED <<lines, req, form, invoices, ops, picks>>

-----------------------------------------------------------------------------
(* The form of a tab.  Its store is seeded when it mounts and after each   *)
(* of its own commits, and goes back to the row at mount on a reset.       *)

\* Opening or reloading the form abandons an accept the tab was running.
OpenForm(t) ==
  /\ form' = [form EXCEPT ![t] = Form(quote, quote, quote.status, None, None)]
  /\ clean' = (clean /\ form[t].run = None)
  /\ UNCHANGED <<quote, lines, sweep, req, invoices, ops, picks, faults>>

PickStatus(t, s) ==
  /\ t \in Opened
  /\ s # form[t].status
  /\ form' = [form EXCEPT ![t] = Form(form[t].first, form[t].base, s, form[t].run,
                                    form[t].inv)]
  /\ picks < MaxPicks
  /\ picks' = picks + 1
  /\ UNCHANGED <<quote, lines, sweep, req, invoices, ops, clean, faults>>

\* reset: the form shows the row it was mounted with, however many commits it
\* has made since.  The button needs an edited form, and any field will do.
ResetForm(t) ==
  /\ t \in Opened
  /\ LET f == form[t]
     IN form' = [form EXCEPT ![t] = Form(f.first, f.first, f.first.status, f.run,
                                         f.inv)]
  /\ UNCHANGED <<quote, lines, sweep, req, invoices, ops, clean, picks, faults>>

\* commit: the PUT carries every field of the form, totals included, and its
\* response becomes the form's content.
Commit(t, s, run, inv) ==
  /\ quote' = Row(s, form[t].base.total)
  /\ form' = [form EXCEPT ![t] = Form(form[t].first, quote', s, run, inv)]
  /\ clean' = (clean /\ form[t].base = quote)
  /\ UNCHANGED <<lines, sweep, req, invoices, ops, picks, faults>>

\* A failed commit leaves the patched status in the form; the PUT may have
\* been applied.
CommitFails(t, s, run, inv) ==
  /\ faults < MaxFaults
  /\ faults' = faults + 1
  /\ quote' \in {quote, Row(s, form[t].base.total)}
  /\ form' = [form EXCEPT ![t] = Form(form[t].first, form[t].base, s, run, inv)]
  /\ clean' = FALSE
  /\ UNCHANGED <<lines, sweep, req, invoices, ops, picks>>

\* The form's own Save, also while a button's handler runs.
Save(t) ==
  /\ t \in Opened
  /\ LET f == form[t] IN \/ Commit(t, f.status, f.run, f.inv)
                         \/ CommitFails(t, f.status, f.run, f.inv)

\* Confirm, Send, Decline: shown by the status in the form.
Moves == {<<"draft", "confirmed">>, <<"confirmed", "sent">>, <<"sent", "declined">>}

Press(t, move) ==
  /\ t \in Opened
  /\ form[t].run = None
  /\ form[t].status = move[1]
  /\ \/ Commit(t, move[2], None, None)
     \/ CommitFails(t, move[2], None, None)

-----------------------------------------------------------------------------
(* Accept: list the lines, create the invoice, copy the lines one by one,  *)
(* then commit the status.                                                 *)

Invoice(w, h) == [wanted |-> w, has |-> h]

\* Mutant: Accept is offered whatever the status.
AcceptFromAnyStatus(t, i) ==
  /\ t \in Opened
  /\ form[t].run = None
  /\ i \notin DOMAIN invoices
  /\ invoices' = [k \in DOMAIN invoices \cup {i} |->
                    IF k = i THEN Invoice(DOMAIN lines, {}) ELSE invoices[k]]
  /\ form' = [form EXCEPT ![t] = Form(form[t].first, form[t].base, form[t].status,
                                    "copy", i)]
  /\ clean' = (clean /\ form[t].base = quote /\ \A u \in Tabs : form[u].run = None)
  /\ UNCHANGED <<quote, lines, sweep, req, ops, picks, faults>>

\* The lines listed are the ones the invoice will copy.
AcceptRaise(t, i) ==
  /\ t \in Opened
  /\ form[t].run = None
  /\ form[t].status = "sent"
  /\ i \notin DOMAIN invoices
  /\ invoices' = [k \in DOMAIN invoices \cup {i} |->
                    IF k = i THEN Invoice(DOMAIN lines, {}) ELSE invoices[k]]
  /\ form' = [form EXCEPT ![t] = Form(form[t].first, form[t].base, form[t].status,
                                    "copy", i)]
  /\ clean' = (clean /\ form[t].base = quote /\ \A u \in Tabs : form[u].run = None)
  /\ UNCHANGED <<quote, lines, sweep, req, ops, picks, faults>>

Missing(i) == invoices[i].wanted \ invoices[i].has
Copied(i, l) ==
  [invoices EXCEPT ![i] = Invoice(invoices[i].wanted, invoices[i].has \cup {l})]

AcceptCopy(t, l) ==
  /\ form[t].run = "copy"
  /\ l \in Missing(form[t].inv)
  /\ invoices' = Copied(form[t].inv, l)
  /\ UNCHANGED <<quote, lines, sweep, req, form, ops, clean, picks, faults>>

\* Mutant: the status is committed before the lines are copied.
AcceptCommitEarly(t) ==
  /\ form[t].run = "copy"
  /\ \/ Commit(t, "accepted", None, None)
     \/ CommitFails(t, "accepted", None, None)

AcceptCommit(t) ==
  /\ form[t].run = "copy"
  /\ Missing(form[t].inv) = {}
  /\ \/ Commit(t, "accepted", None, None)
     \/ CommitFails(t, "accepted", None, None)

\* A create fails, with or without its effect: the handler throws and the
\* button is back, over an invoice that stays as it is.
AcceptFails(t) ==
  /\ faults < MaxFaults
  /\ faults' = faults + 1
  /\ form[t].run = "copy"
  /\ invoices' \in {invoices} \cup {Copied(form[t].inv, l) : l \in Missing(form[t].inv)}
  /\ form' = [form EXCEPT ![t] = Form(form[t].first, form[t].base, form[t].status,
                                    None, None)]
  /\ clean' = FALSE
  /\ UNCHANGED <<quote, lines, sweep, req, ops, picks>>

TabStep(t) ==
  \/ OpenForm(t)
  \/ \E s \in Picks : PickStatus(t, s)
  \/ ResetForm(t)
  \/ Save(t)
  \/ \E move \in Moves : Press(t, move)
  \/ \E i \in Invoices : AcceptRaise(t, i)
  \/ \E l \in Lines : AcceptCopy(t, l)
  \/ AcceptCommit(t)
  \/ AcceptFails(t)

-----------------------------------------------------------------------------
Init ==
  /\ quote = Row("draft", NoLines)
  /\ lines = NoLines
  /\ sweep = None
  /\ req = [r \in Requests |-> NoReq]
  /\ form = [t \in Tabs |-> Closed]
  /\ invoices = [i \in {} |-> Invoice({}, {})]
  /\ ops = 0
  /\ clean = TRUE
  /\ picks = 0
  /\ faults = 0

Next ==
  \/ \E r \in Requests : LineRequest(r)
  \/ SweepRead \/ SweepWrite \/ SweepFails
  \/ \E t \in Tabs : TabStep(t)

Spec == Init /\ [][Next]_vars

-----------------------------------------------------------------------------
(* Properties.                                                             *)

\* Every variable has its type.
TypeOK ==
  /\ quote \in Rows
  /\ lines \in Contents
  /\ sweep \in Rows \cup {None}
  /\ req \in [Requests -> [pc : {"idle", "lines", "row", "write"},
                           seen : Contents, status : Statuses \cup {None}]]
  /\ form \in [Tabs -> [first : Rows \cup {None},
                        base : Rows \cup {None},
                        status : Statuses \cup {None},
                        run : {None, "copy"},
                        inv : Invoices \cup {None}]]
  /\ DOMAIN invoices \subseteq Invoices
  /\ invoices \in [DOMAIN invoices -> [wanted : SUBSET Lines, has : SUBSET Lines]]
  /\ \A r \in Requests : req[r].pc = "write" => req[r].status # None
  /\ \A t \in Opened : form[t].status # None /\ form[t].first # None
  /\ \A t \in Tabs : form[t].run = "copy" =>
       t \in Opened /\ form[t].inv \in DOMAIN invoices
  /\ ops \in 0 .. MaxOps
  /\ clean \in BOOLEAN
  /\ picks \in 0 .. MaxPicks
  /\ faults \in 0 .. MaxFaults

Quiet == \A r \in Requests : req[r].pc = "idle"

\* handler.go, recomputeTotals: once the line requests have ended, the stored
\* totals sum the live lines, unless a call failed or somebody wrote the row
\* from an outdated copy.
TotalsMatch == clean /\ Quiet => quote.total = lines

\* quote_views.ts: an accepted quote has an invoice with every line that was
\* listed when it was accepted, through failed calls, reloads and other
\* tabs, unless a user picked the status by hand.
AcceptedHasInvoice ==
  quote.status = "accepted" =>
    picks > 0 \/ \E i \in DOMAIN invoices : Missing(i) = {}

\* A quote is invoiced once, unless an accept was retried after a failure,
\* was pressed on an outdated form, or a user picked a status by hand.
InvoicedOnce ==
  clean /\ picks = 0 => \A i, j \in DOMAIN invoices : i = j

\* expiry.go: accepted, declined and expired are terminal; a step that leaves
\* one of them wrote an outdated copy, or what a user picked by hand.
TerminalIsKept ==
  [][ quote.status \in Terminal /\ quote'.status # quote.status
        => ~clean' \/ picks > 0 ]_vars

\* handler.go: the totals are recomputed after every line request "so the
\* stored columns never go stale".  With no line request and no sweep under
\* way, a step that falsifies matching totals is the form's own PUT.
TotalsNeverStale ==
  [][ Quiet /\ Quiet' /\ sweep = None /\ quote.total = lines
        => quote'.total = lines' ]_vars
=============================================================================
