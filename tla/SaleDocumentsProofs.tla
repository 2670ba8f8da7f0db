------------------------ MODULE SaleDocumentsProofs ------------------------
(* Proofs about SaleDocuments for any number of lines, requests, tabs and   *)
(* invoices and any bounds: the stored totals match the lines while no      *)
(* outdated copy is written, an accepted quote has its invoice, it is       *)
(* invoiced once, and terminal statuses stay.                               *)
EXTENDS SaleDocuments, TLAPS

Forms == [first : Rows \cup {None}, base : Rows \cup {None},
          status : Statuses \cup {None}, run : {None, "copy"},
          inv : Invoices \cup {None}]
Reqs == [pc : {"idle", "lines", "row", "write"}, seen : Contents,
         status : Statuses \cup {None}]
Records == [wanted : SUBSET Lines, has : SUBSET Lines]

\* A tab's PUT: what its Save, a workflow button or the end of an accept
\* writes, and where it leaves the tab.
SavePut(t, s, run, inv) ==
  s = form[t].status /\ run = form[t].run /\ inv = form[t].inv
MovePut(t, s, run, inv) ==
  <<form[t].status, s>> \in Moves /\ form[t].run = None /\ run = None /\ inv = None
AcceptPut(t, s, run, inv) ==
  /\ s = "accepted" /\ run = None /\ inv = None
  /\ form[t].run = "copy" /\ Missing(form[t].inv) = {}

TabPut(t, s, run, inv) ==
  /\ SavePut(t, s, run, inv) \/ MovePut(t, s, run, inv) \/ AcceptPut(t, s, run, inv)
  /\ Commit(t, s, run, inv) \/ CommitFails(t, s, run, inv)

LEMMA Constructors ==
  /\ \A s \in Statuses, c \in Contents : Row(s, c) \in Rows
  /\ \A p \in {"idle", "lines", "row", "write"}, c \in Contents,
        s \in Statuses \cup {None} : Req(p, c, s) \in Reqs
  /\ \A f, b \in Rows \cup {None}, s \in Statuses \cup {None},
        run \in {None, "copy"}, i \in Invoices \cup {None} :
        Form(f, b, s, run, i) \in Forms
  /\ \A w, h \in SUBSET Lines : Invoice(w, h) \in Records
  BY DEF Row, Rows, Req, Reqs, Form, Forms, Invoice, Records

LEMMA LinesTyped ==
  /\ NoLines \in Contents
  /\ lines \in Contents =>
       /\ DOMAIN lines \subseteq Lines
       /\ \A l \in Lines, n \in Qty : Put(l, n) \in Contents
       /\ \A l \in Lines : Without(l) \in Contents
  <1>1. NoLines \in [{} -> Qty]
    BY DEF NoLines
  <1>2. NoLines \in Contents
    BY <1>1 DEF Contents
  <1>3. ASSUME lines \in Contents
        PROVE  /\ DOMAIN lines \subseteq Lines
               /\ \A l \in Lines, n \in Qty : Put(l, n) \in Contents
               /\ \A l \in Lines : Without(l) \in Contents
    <2>1. PICK S \in SUBSET Lines : lines \in [S -> Qty]
      BY <1>3 DEF Contents
    <2>2. DOMAIN lines = S
      BY <2>1
    <2>3. ASSUME NEW l \in Lines, NEW n \in Qty PROVE Put(l, n) \in Contents
      <3>1. Put(l, n) \in [S \cup {l} -> Qty]
        BY <2>1, <2>2, <2>3 DEF Put
      <3>2. S \cup {l} \in SUBSET Lines
        BY <2>1, <2>3
      <3> QED
        BY <3>1, <3>2 DEF Contents
    <2>4. ASSUME NEW l \in Lines PROVE Without(l) \in Contents
      <3>1. Without(l) \in [S \ {l} -> Qty]
        BY <2>1, <2>2 DEF Without
      <3> QED
        BY <3>1 DEF Contents
    <2> QED
      BY <2>1, <2>2, <2>3, <2>4
  <1> QED
    BY <1>2, <1>3

LEMMA InitTyped == Init => TypeOK
  <1> SUFFICES ASSUME Init PROVE TypeOK
    OBVIOUS
  <1>1. Row("draft", NoLines) \in Rows
    BY Constructors, LinesTyped DEF Statuses
  <1>2. NoReq \in Reqs
    BY Constructors, LinesTyped DEF NoReq
  <1>3. Closed \in Forms
    BY Constructors DEF Closed
  <1>4. \A t \in Tabs : form[t].base = None /\ form[t].run = None
    BY DEF Init, Closed, Form
  <1>5. \A r \in Requests : req[r].pc = "idle"
    BY DEF Init, NoReq, Req
  <1>6. DOMAIN invoices = {} /\ invoices \in [DOMAIN invoices -> Records]
    BY DEF Init
  <1>7. /\ \A t \in Opened : form[t].status # None /\ form[t].first # None
        /\ \A t \in Tabs : form[t].run = "copy" =>
             t \in Opened /\ form[t].inv \in DOMAIN invoices
    BY <1>4, NoneNotData DEF Opened
  <1>8. /\ req \in [Requests -> Reqs]
        /\ form \in [Tabs -> Forms]
        /\ quote \in Rows /\ lines \in Contents /\ sweep \in Rows \cup {None}
    BY <1>1, <1>2, <1>3, LinesTyped DEF Init
  <1>9. /\ ops \in 0 .. MaxOps /\ picks \in 0 .. MaxPicks
        /\ faults \in 0 .. MaxFaults /\ clean \in BOOLEAN
    BY BoundsAssumption DEF Init
  <1> QED
    BY <1>5, <1>6, <1>7, <1>8, <1>9 DEF TypeOK, Reqs, Forms, Records
\* The steps of a tab, with every commit as a TabPut.
LEMMA TabSteps ==
  ASSUME TypeOK, NEW t \in Tabs, TabStep(t)
  PROVE  \/ OpenForm(t)
         \/ \E s \in Picks : PickStatus(t, s)
         \/ ResetForm(t)
         \/ \E i \in Invoices : AcceptRaise(t, i)
         \/ \E l \in Lines : AcceptCopy(t, l)
         \/ AcceptFails(t)
         \/ /\ t \in Opened
            /\ \E s \in Statuses, run \in {None, "copy"}, inv \in Invoices \cup {None} :
                 /\ run = "copy" => inv \in DOMAIN invoices
                 /\ TabPut(t, s, run, inv)
  <1>1. form[t] \in Forms
    BY DEF TypeOK, Forms
  <1>2. CASE Save(t)
    <2>1. t \in Opened /\ form[t].status \in Statuses
      BY <1>1, <1>2 DEF Save, Forms, TypeOK
    <2>2. TabPut(t, form[t].status, form[t].run, form[t].inv)
      BY <1>2 DEF Save, TabPut, SavePut
    <2>3. /\ form[t].run \in {None, "copy"} /\ form[t].inv \in Invoices \cup {None}
          /\ form[t].run = "copy" => form[t].inv \in DOMAIN invoices
      BY <1>1 DEF Forms, TypeOK
    <2> QED
      BY <2>1, <2>2, <2>3
  <1>3. ASSUME NEW move \in Moves, Press(t, move)
        PROVE  /\ t \in Opened /\ move[2] \in Statuses
               /\ TabPut(t, move[2], None, None)
    <2>1. t \in Opened /\ move[2] \in Statuses
      BY <1>3 DEF Press, Moves, Statuses
    <2>2. <<form[t].status, move[2]>> \in Moves /\ form[t].run = None
      BY <1>3 DEF Press, Moves
    <2> QED
      BY <1>3, <2>1, <2>2 DEF Press, TabPut, MovePut
  <1>4. CASE AcceptCommit(t)
    <2>1. t \in Opened /\ "accepted" \in Statuses
      BY <1>4 DEF AcceptCommit, TypeOK, Statuses
    <2>2. TabPut(t, "accepted", None, None)
      BY <1>4 DEF AcceptCommit, TabPut, AcceptPut
    <2> QED
      BY <2>1, <2>2, NoneNotData
  <1>5. (\E move \in Moves : Press(t, move)) =>
          /\ t \in Opened
          /\ \E s \in Statuses : TabPut(t, s, None, None)
    BY <1>3
  <1> QED
    BY <1>2, <1>4, <1>5, NoneNotData DEF TabStep

LEMMA CountersTyped ==
  ASSUME TypeOK
  PROVE  /\ ops < MaxOps => ops + 1 \in 0 .. MaxOps
         /\ picks < MaxPicks => picks + 1 \in 0 .. MaxPicks
         /\ faults < MaxFaults => faults + 1 \in 0 .. MaxFaults
  BY BoundsAssumption DEF TypeOK

\* TypeOK once its parts on the tabs' accepts are established.
Shapes ==
  /\ quote \in Rows
  /\ lines \in Contents
  /\ sweep \in Rows \cup {None}
  /\ req \in [Requests -> Reqs]
  /\ form \in [Tabs -> Forms]
  /\ DOMAIN invoices \subseteq Invoices
  /\ invoices \in [DOMAIN invoices -> Records]
  /\ ops \in 0 .. MaxOps
  /\ clean \in BOOLEAN
  /\ picks \in 0 .. MaxPicks
  /\ faults \in 0 .. MaxFaults
WritesKnown == \A r \in Requests : req[r].pc = "write" => req[r].status # None
FormsKnown ==
  /\ \A t \in Tabs : form[t].base # None =>
       form[t].status # None /\ form[t].first # None
  /\ \A t \in Tabs : form[t].run = "copy" =>
       form[t].base # None /\ form[t].inv \in DOMAIN invoices

LEMMA TypeOKParts == TypeOK <=> Shapes /\ WritesKnown /\ FormsKnown
  BY DEF TypeOK, Shapes, WritesKnown, FormsKnown, Reqs, Forms, Records, Opened

LEMMA PartsAfter == Shapes' /\ WritesKnown' /\ FormsKnown' => TypeOK'
  BY DEF TypeOK, Shapes, WritesKnown, FormsKnown, Reqs, Forms, Records, Opened

LEMMA RequestTyped ==
  ASSUME TypeOK, NEW r \in Requests, LineRequest(r)
  PROVE  TypeOK'
  <1> USE DEF Shapes, WritesKnown, FormsKnown
  <1>0. Shapes /\ WritesKnown /\ FormsKnown
    BY TypeOKParts
  <1>1. req[r] \in Reqs /\ quote.status \in Statuses
    BY <1>0 DEF Rows
  <1>2. CASE WriteLine(r)
    <2>1. lines' \in Contents
      BY <1>0, <1>2, LinesTyped DEF WriteLine
    <2>2. Req("lines", NoLines, None) \in Reqs
      BY Constructors, LinesTyped
    <2>3. Req("lines", NoLines, None).pc # "write"
      BY DEF Req
    <2> QED
      BY <1>0, <1>2, <2>1, <2>2, <2>3, CountersTyped, PartsAfter DEF WriteLine
  <1>3. CASE ReadLines(r)
    <2>1. Req("row", lines, None) \in Reqs /\ Req("row", lines, None).pc # "write"
      BY <1>0, Constructors DEF Req
    <2> QED
      BY <1>0, <1>3, <2>1, PartsAfter DEF ReadLines
  <1>4. CASE ReadRow(r)
    <2>1. req[r].seen \in Contents
      BY <1>1 DEF Reqs
    <2>2. /\ Req("write", req[r].seen, quote.status) \in Reqs
          /\ Req("write", req[r].seen, quote.status).status # None
      BY <1>1, <2>1, Constructors, NoneNotData DEF Req
    <2> QED
      BY <1>0, <1>4, <2>2, PartsAfter DEF ReadRow
  <1>5. NoReq \in Reqs /\ NoReq.pc # "write"
    BY Constructors, LinesTyped DEF NoReq, Req
  <1>6. req[r].pc = "write" => Row(req[r].status, req[r].seen) \in Rows
    BY <1>0, <1>1, Constructors DEF Reqs
  <1>7. CASE WriteRow(r)
    BY <1>0, <1>5, <1>6, <1>7, PartsAfter DEF WriteRow
  <1>8. CASE RecomputeFails(r)
    <2>1. quote' \in Rows
      BY <1>0, <1>6, <1>8 DEF RecomputeFails
    <2> QED
      BY <1>0, <1>5, <1>8, <2>1, CountersTyped, PartsAfter DEF RecomputeFails
  <1> QED
    BY <1>2, <1>3, <1>4, <1>7, <1>8 DEF LineRequest

LEMMA SweepTyped ==
  ASSUME TypeOK, SweepRead \/ SweepWrite \/ SweepFails
  PROVE  TypeOK'
  <1> USE DEF Shapes, WritesKnown, FormsKnown
  <1>0. Shapes /\ WritesKnown /\ FormsKnown
    BY TypeOKParts
  <1>1. sweep # None => Row("expired", sweep.total) \in Rows
    BY <1>0, Constructors DEF Rows, Statuses
  <1>2. CASE SweepRead
    BY <1>0, <1>2, PartsAfter DEF SweepRead
  <1>3. CASE SweepWrite
    BY <1>0, <1>1, <1>3, PartsAfter DEF SweepWrite
  <1>4. CASE SweepFails
    <2>1. quote' \in Rows
      BY <1>0, <1>1, <1>4 DEF SweepFails
    <2> QED
      BY <1>0, <1>4, <2>1, CountersTyped, PartsAfter DEF SweepFails
  <1> QED
    BY <1>2, <1>3, <1>4

\* Invoices are only added to: an id stays, and so does every line copied.
LEMMA CopiedTyped ==
  ASSUME Shapes, NEW i \in DOMAIN invoices, NEW l \in Missing(i)
  PROVE  /\ DOMAIN Copied(i, l) = DOMAIN invoices
         /\ Copied(i, l) \in [DOMAIN invoices -> Records]
         /\ \A k \in DOMAIN invoices :
              /\ Copied(i, l)[k].wanted = invoices[k].wanted
              /\ invoices[k].has \subseteq Copied(i, l)[k].has
  <1>1. invoices[i] \in Records /\ l \in Lines
    BY DEF Shapes, Missing, Records
  <1>2. Invoice(invoices[i].wanted, invoices[i].has \cup {l}) \in Records
    BY <1>1, Constructors DEF Records
  <1> QED
    BY <1>1, <1>2 DEF Copied, Shapes, Invoice

LEMMA RaisedTyped ==
  ASSUME Shapes, NEW i \in Invoices, i \notin DOMAIN invoices,
         invoices' = [k \in DOMAIN invoices \cup {i} |->
                        IF k = i THEN Invoice(DOMAIN lines, {}) ELSE invoices[k]]
  PROVE  /\ DOMAIN invoices' = DOMAIN invoices \cup {i}
         /\ DOMAIN invoices' \subseteq Invoices
         /\ invoices' \in [DOMAIN invoices' -> Records]
         /\ \A k \in DOMAIN invoices : invoices'[k] = invoices[k]
  <1>1. Invoice(DOMAIN lines, {}) \in Records
    BY LinesTyped, Constructors DEF Shapes
  <1> QED
    BY <1>1 DEF Shapes

LEMMA TabTyped ==
  ASSUME TypeOK, NEW t \in Tabs, TabStep(t)
  PROVE  TypeOK'
  <1> USE DEF Shapes, WritesKnown, FormsKnown
  <1>0. Shapes /\ WritesKnown /\ FormsKnown
    BY TypeOKParts
  <1>1. form[t] \in Forms /\ quote.status \in Statuses
    BY <1>0 DEF Rows
  <1>2. CASE OpenForm(t)
    <2> DEFINE f == Form(quote, quote, quote.status, None, None)
    <2>1. /\ f \in Forms /\ f.run # "copy"
          /\ f.status # None /\ f.first # None
      BY <1>0, <1>1, Constructors, NoneNotData DEF Form
    <2> QED
      BY <1>0, <1>2, <2>1, PartsAfter DEF OpenForm
  <1>8. CASE ResetForm(t)
    <2> DEFINE f == Form(form[t].first, form[t].first, form[t].first.status,
                         form[t].run, form[t].inv)
    <2>1. form[t].first \in Rows
      BY <1>0, <1>1, <1>8 DEF ResetForm, Opened, Forms
    <2>2. form[t].first.status \in Statuses
      BY <2>1 DEF Rows
    <2>3. /\ f \in Forms /\ f.run = form[t].run /\ f.inv = form[t].inv
          /\ f.first # None /\ f.base # None /\ f.status # None
      BY <1>1, <2>1, <2>2, Constructors, NoneNotData DEF Form, Forms
    <2>4. form' = [form EXCEPT ![t] = f]
      BY <1>8 DEF ResetForm
    <2> HIDE DEF f
    <2> QED
      BY <1>0, <1>8, <2>3, <2>4, PartsAfter DEF ResetForm
  <1>3. ASSUME NEW s \in Picks, PickStatus(t, s) PROVE TypeOK'
    <2> DEFINE f == Form(form[t].first, form[t].base, s, form[t].run, form[t].inv)
    <2>1. /\ f \in Forms /\ f.status # None /\ f.first = form[t].first
          /\ f.base = form[t].base /\ f.run = form[t].run /\ f.inv = form[t].inv
      BY <1>1, Constructors, PicksAssumption, NoneNotData DEF Form, Forms
    <2> QED
      BY <1>0, <1>3, <2>1, CountersTyped, PartsAfter DEF PickStatus
  <1>4. ASSUME NEW i \in Invoices, AcceptRaise(t, i) PROVE TypeOK'
    <2> DEFINE f == Form(form[t].first, form[t].base, form[t].status, "copy", i)
    <2>1. /\ f \in Forms /\ f.first = form[t].first /\ f.status = form[t].status
          /\ f.base = form[t].base /\ f.inv = i
      BY <1>1, Constructors DEF Form, Forms
    <2>2. /\ DOMAIN invoices' = DOMAIN invoices \cup {i}
          /\ DOMAIN invoices' \subseteq Invoices
          /\ invoices' \in [DOMAIN invoices' -> Records]
      BY <1>0, <1>4, RaisedTyped DEF AcceptRaise
    <2>3. form[t].base # None
      BY <1>4 DEF AcceptRaise, Opened
    <2>4. form' = [form EXCEPT ![t] = f]
      BY <1>4 DEF AcceptRaise
    <2> HIDE DEF f
    <2> QED
      BY <1>0, <1>4, <2>1, <2>2, <2>3, <2>4, PartsAfter DEF AcceptRaise
  <1>5. ASSUME NEW l \in Lines, AcceptCopy(t, l) PROVE TypeOK'
    <2>1. form[t].inv \in DOMAIN invoices
      BY <1>0, <1>5 DEF AcceptCopy
    <2>2. /\ DOMAIN invoices' = DOMAIN invoices
          /\ invoices' \in [DOMAIN invoices' -> Records]
      BY <1>0, <1>5, <2>1, CopiedTyped DEF AcceptCopy
    <2> QED
      BY <1>0, <1>5, <2>2, PartsAfter DEF AcceptCopy
  <1>6. CASE AcceptFails(t)
    <2> DEFINE f == Form(form[t].first, form[t].base, form[t].status, None, None)
    <2>1. /\ f \in Forms /\ f.first = form[t].first /\ f.status = form[t].status
          /\ f.base = form[t].base /\ f.run # "copy"
      BY <1>1, Constructors, NoneNotData DEF Form, Forms
    <2>2. form[t].inv \in DOMAIN invoices
      BY <1>0, <1>6 DEF AcceptFails
    <2>3. /\ DOMAIN invoices' = DOMAIN invoices
          /\ invoices' \in [DOMAIN invoices' -> Records]
      BY <1>0, <1>6, <2>2, CopiedTyped DEF AcceptFails
    <2>4. form' = [form EXCEPT ![t] = f]
      BY <1>6 DEF AcceptFails
    <2> HIDE DEF f
    <2> QED
      BY <1>0, <1>6, <2>1, <2>3, <2>4, CountersTyped, PartsAfter
      DEF AcceptFails
  <1>7. ASSUME t \in Opened, NEW s \in Statuses, NEW run \in {None, "copy"},
               NEW inv \in Invoices \cup {None},
               run = "copy" => inv \in DOMAIN invoices, TabPut(t, s, run, inv)
        PROVE  TypeOK'
    <2>1. form[t].base \in Rows
      BY <1>1, <1>7 DEF Opened, Forms
    <2>2. Row(s, form[t].base.total) \in Rows
      BY <2>1, Constructors DEF Rows
    <2> DEFINE f(b) == Form(form[t].first, b, s, run, inv)
    <2>6. form[t].first \in Rows
      BY <1>0, <1>1, <1>7 DEF Opened, Forms
    <2>3. \A b \in Rows : /\ f(b) \in Forms
                          /\ f(b).base # None /\ f(b).first # None
                          /\ f(b).status # None
                          /\ f(b).run = run /\ f(b).inv = inv
      BY <2>6, Constructors, NoneNotData DEF Form
    <2>4. CASE Commit(t, s, run, inv)
      BY <1>0, <1>7, <2>2, <2>3, <2>4, PartsAfter DEF Commit
    <2>5. CASE CommitFails(t, s, run, inv)
      <3>1. quote' \in Rows
        BY <1>0, <2>2, <2>5 DEF CommitFails
      <3> QED
        BY <1>0, <1>7, <2>1, <2>3, <2>5, <3>1, CountersTyped, PartsAfter
        DEF CommitFails
    <2> QED
      BY <1>7, <2>4, <2>5 DEF TabPut
  <1> QED
    BY <1>2, <1>3, <1>4, <1>5, <1>6, <1>7, <1>8, TabSteps

LEMMA NextTyped == TypeOK /\ [Next]_vars => TypeOK'
  <1>1. TypeOK /\ UNCHANGED vars => TypeOK'
    BY DEF vars, TypeOK, Opened
  <1> QED
    BY <1>1, RequestTyped, SweepTyped, TabTyped DEF Next

\* The quote, its lines, its invoices and the requests, sweep and forms at
\* work on it stay well typed.
THEOREM TypeCorrect == Spec => []TypeOK
  BY InitTyped, NextTyped, PTL DEF Spec

-----------------------------------------------------------------------------
(* Stored totals.  TotalsMatch is inductive: a line is written by a request *)
(* that stays busy until it writes the sums, and every other write of the   *)
(* row, when its copy is up to date, repeats the stored ones.               *)

LEMMA TotalsStep == TypeOK /\ TotalsMatch /\ [Next]_vars => TotalsMatch'
  <1> SUFFICES ASSUME TypeOK, TotalsMatch, [Next]_vars, clean', Quiet'
               PROVE  quote'.total = lines'
    BY DEF TotalsMatch
  <1> USE DEF Quiet
  <1>0. CASE UNCHANGED vars
    BY <1>0 DEF vars, TotalsMatch
  <1>1. ASSUME NEW r \in Requests, LineRequest(r) PROVE quote'.total = lines'
    <2>1. req \in [Requests -> Reqs] /\ req'[r].pc = "idle"
      BY TypeOKParts DEF Shapes
    <2>2. ASSUME ReadLines(r) PROVE FALSE
      BY <2>1, <2>2 DEF ReadLines, Req
    <2>6. ASSUME ReadRow(r) PROVE FALSE
      BY <2>1, <2>6 DEF ReadRow, Req
    <2>5. ASSUME WriteLine(r) PROVE FALSE
      BY <2>1, <2>5 DEF WriteLine, Req
    <2>3. ~RecomputeFails(r)
      BY DEF RecomputeFails
    <2>4. WriteRow(r)
      BY <1>1, <2>2, <2>3, <2>5, <2>6 DEF LineRequest
    <2> QED
      BY <2>4 DEF WriteRow, Row
  <1>2. CASE SweepRead
    BY <1>2 DEF SweepRead, TotalsMatch
  <1>3. CASE SweepWrite
    BY <1>3 DEF SweepWrite, Row, TotalsMatch
  <1>4. CASE SweepFails
    BY <1>4 DEF SweepFails
  <1>5. ASSUME NEW t \in Tabs, TabStep(t) PROVE quote'.total = lines'
    <2>1. CASE OpenForm(t)
      BY <2>1 DEF OpenForm, TotalsMatch
    <2>2. CASE \E s \in Picks : PickStatus(t, s)
      BY <2>2 DEF PickStatus, TotalsMatch
    <2>7. CASE ResetForm(t)
      BY <2>7 DEF ResetForm, TotalsMatch
    <2>3. CASE \E i \in Invoices : AcceptRaise(t, i)
      BY <2>3 DEF AcceptRaise, TotalsMatch
    <2>4. CASE \E l \in Lines : AcceptCopy(t, l)
      BY <2>4 DEF AcceptCopy, TotalsMatch
    <2>5. CASE AcceptFails(t)
      BY <2>5 DEF AcceptFails
    <2>6. ASSUME NEW s, NEW run, NEW inv, TabPut(t, s, run, inv)
          PROVE  quote'.total = lines'
      <3>1. Commit(t, s, run, inv)
        BY <2>6 DEF TabPut, CommitFails
      <3>2. /\ quote' = Row(s, quote.total)
            /\ lines' = lines /\ req' = req /\ clean
        BY <3>1 DEF Commit
      <3> QED
        BY <3>2 DEF Row, TotalsMatch
    <2> QED
      BY <1>5, <2>1, <2>2, <2>3, <2>4, <2>5, <2>6, <2>7, TabSteps
  <1> QED
    BY <1>0, <1>1, <1>2, <1>3, <1>4, <1>5 DEF Next

\* handler.go's recomputation: while no call fails and nobody writes the row
\* from an outdated copy, quiet totals sum the live lines, however many line
\* requests, tabs and sweeps overlap.
THEOREM TotalsFollowLines == Spec => []TotalsMatch
  <1>1. Init => TotalsMatch
    BY DEF Init, TotalsMatch, Row
  <1> QED
    BY <1>1, TotalsStep, TypeCorrect, PTL DEF Spec

-----------------------------------------------------------------------------
(* Accepted quotes.  The status reaches the row from the form that ran the  *)
(* accept, or through a copy of the row or of a form that already had it.   *)

Complete == \E i \in DOMAIN invoices : Missing(i) = {}

SomeAccepted ==
  \/ quote.status = "accepted"
  \/ \E r \in Requests : req[r].status = "accepted"
  \/ \E t \in Opened : form[t].status = "accepted" \/ form[t].first.status = "accepted"

AcceptedInv == SomeAccepted => picks > 0 \/ Complete

\* An invoice once complete stays complete.
LEMMA CompleteKept == TypeOK /\ [Next]_vars /\ Complete => Complete'
  <1> SUFFICES ASSUME TypeOK, [Next]_vars, NEW k \in DOMAIN invoices, Missing(k) = {}
               PROVE  Complete'
    BY DEF Complete
  <1>0. Shapes
    BY TypeOKParts
  <1>1. CASE invoices' = invoices
    BY <1>1 DEF Complete, Missing
  <1>2. ASSUME NEW t \in Tabs, NEW i \in Invoices, AcceptRaise(t, i) PROVE Complete'
    BY <1>0, <1>2, RaisedTyped DEF AcceptRaise, Complete, Missing
  <1>3. ASSUME NEW i \in DOMAIN invoices, NEW l \in Missing(i), invoices' = Copied(i, l)
        PROVE  Complete'
    BY <1>0, <1>3, CopiedTyped DEF Complete, Missing
  <1>4. ASSUME NEW t \in Tabs, NEW l \in Lines, AcceptCopy(t, l) PROVE Complete'
    BY <1>3, <1>4 DEF AcceptCopy, TypeOK
  <1>5. ASSUME NEW t \in Tabs, AcceptFails(t) PROVE Complete'
    BY <1>1, <1>3, <1>5 DEF AcceptFails, TypeOK
  <1>6. ASSUME NEW t \in Tabs, TabStep(t) PROVE Complete'
    BY <1>1, <1>2, <1>4, <1>5, <1>6, TabSteps
    DEF OpenForm, PickStatus, ResetForm, TabPut, Commit, CommitFails
  <1>7. UNCHANGED vars \/ SweepRead \/ SweepWrite \/ SweepFails => Complete'
    BY <1>1 DEF vars, SweepRead, SweepWrite, SweepFails
  <1>8. ASSUME NEW r \in Requests, LineRequest(r) PROVE Complete'
    BY <1>1, <1>8
    DEF LineRequest, WriteLine, ReadLines, ReadRow, WriteRow, RecomputeFails
  <1> QED
    BY <1>6, <1>7, <1>8 DEF Next

LEMMA PicksGrow ==
  ASSUME TypeOK, [Next]_vars, picks > 0
  PROVE  picks' > 0
  <1>1. picks \in Nat
    BY BoundsAssumption DEF TypeOK
  <1>2. picks' = picks \/ picks' = picks + 1
    <2>1. \A t \in Tabs : TabStep(t) => picks' = picks \/ picks' = picks + 1
      BY TabSteps DEF OpenForm, PickStatus, ResetForm, AcceptRaise, AcceptCopy,
                      AcceptFails, TabPut, Commit, CommitFails
    <2>2. UNCHANGED vars \/ SweepRead \/ SweepWrite \/ SweepFails => picks' = picks
      BY DEF vars, SweepRead, SweepWrite, SweepFails
    <2>3. \A r \in Requests : LineRequest(r) => picks' = picks
      BY DEF LineRequest, WriteLine, ReadLines, ReadRow, WriteRow, RecomputeFails
    <2> QED
      BY <2>1, <2>2, <2>3 DEF Next
  <1> QED
    BY <1>1, <1>2

\* "accepted" appears somewhere new only where an accept ends or a user
\* picks it.
LEMMA AcceptedSource ==
  ASSUME TypeOK, [Next]_vars, SomeAccepted', ~SomeAccepted
  PROVE  picks' > 0 \/ Complete
  <1>0. Shapes /\ FormsKnown
    BY TypeOKParts
  <1> USE DEF SomeAccepted, Opened
  <1>1. CASE UNCHANGED vars
    BY <1>1 DEF vars
  <1>2. ASSUME NEW r \in Requests, LineRequest(r) PROVE FALSE
    <2>1. req[r] \in Reqs /\ req \in [Requests -> Reqs]
      BY <1>0 DEF Shapes
    <2>2. CASE WriteLine(r)
      BY <2>1, <2>2, NoneNotData DEF WriteLine, Req, Statuses
    <2>3. CASE ReadLines(r)
      BY <2>1, <2>3, NoneNotData DEF ReadLines, Req, Statuses
    <2>4. CASE ReadRow(r)
      BY <2>1, <2>4 DEF ReadRow, Req
    <2>5. CASE WriteRow(r)
      BY <2>1, <2>5, NoneNotData DEF WriteRow, NoReq, Req, Row, Statuses
    <2>6. CASE RecomputeFails(r)
      BY <2>1, <2>6, NoneNotData DEF RecomputeFails, NoReq, Req, Row, Statuses
    <2> QED
      BY <1>2, <2>2, <2>3, <2>4, <2>5, <2>6 DEF LineRequest
  <1>3. ~SweepRead /\ ~SweepWrite /\ ~SweepFails
    BY DEF SweepRead, SweepWrite, SweepFails, Row
  <1>4. ASSUME NEW t \in Tabs, TabStep(t) PROVE picks' > 0 \/ Complete
    <2>0. form[t] \in Forms /\ form \in [Tabs -> Forms]
      BY <1>0 DEF Shapes
    <2>1. CASE OpenForm(t)
      BY <2>0, <2>1 DEF OpenForm, Form
    <2>2. CASE \E s \in Picks : PickStatus(t, s)
      BY <2>2, BoundsAssumption DEF PickStatus, TypeOK
    <2>7. CASE ResetForm(t)
      BY <2>0, <2>7 DEF ResetForm, Form
    <2>3. CASE \E i \in Invoices : AcceptRaise(t, i)
      BY <2>0, <2>3 DEF AcceptRaise, Form
    <2>4. CASE \E l \in Lines : AcceptCopy(t, l)
      BY <2>4 DEF AcceptCopy
    <2>5. CASE AcceptFails(t)
      BY <2>0, <2>5 DEF AcceptFails, Form
    <2>6. ASSUME t \in Opened, NEW s \in Statuses, NEW run, NEW inv,
                 TabPut(t, s, run, inv)
          PROVE  Complete
      <3>1. s = "accepted"
        BY <2>0, <2>6 DEF TabPut, Commit, CommitFails, Form, Row
      <3>2. AcceptPut(t, s, run, inv)
        BY <2>6, <3>1 DEF TabPut, SavePut, MovePut, Moves
      <3> QED
        BY <1>0, <3>2 DEF AcceptPut, Complete, FormsKnown
    <2> QED
      BY <1>4, <2>1, <2>2, <2>3, <2>4, <2>5, <2>6, <2>7, TabSteps
  <1> QED
    BY <1>1, <1>2, <1>3, <1>4 DEF Next

LEMMA AcceptedStep == TypeOK /\ AcceptedInv /\ [Next]_vars => AcceptedInv'
  BY AcceptedSource, CompleteKept, PicksGrow DEF AcceptedInv

\* quote_views.ts, acceptQuote: an accepted quote has an invoice with every
\* line that was listed, whatever fails and however tabs, line requests and
\* sweeps interleave, unless a user picked a status by hand.
THEOREM AcceptedIsInvoiced == Spec => []AcceptedHasInvoice
  <1>1. Init => AcceptedInv
    BY NoneNotData
    DEF Init, AcceptedInv, SomeAccepted, Row, NoReq, Req, Closed, Form, Statuses,
        Opened
  <1>2. AcceptedInv => AcceptedHasInvoice
    BY DEF AcceptedInv, SomeAccepted, AcceptedHasInvoice, Complete
  <1> QED
    BY <1>1, <1>2, AcceptedStep, TypeCorrect, PTL DEF Spec

-----------------------------------------------------------------------------
(* One invoice and terminal statuses.  On a clean run without hand-picked   *)
(* statuses a form shows the status it was loaded with; a quote with an     *)
(* invoice is terminal or still being accepted; and a tab that is accepting *)
(* neither shows nor can be reset to a terminal status.                     *)

Settled == clean /\ picks = 0

OnceInv ==
  Settled =>
    /\ \A t \in Opened : form[t].status = form[t].base.status
    /\ \A t \in Tabs : form[t].run = "copy" =>
         form[t].status \notin Terminal /\ form[t].first.status \notin Terminal
    /\ \A t \in Opened :
         form[t].first.status \in Terminal => form[t].base.status \in Terminal
    /\ DOMAIN invoices # {} =>
         quote.status \in Terminal \/ \E t \in Tabs : form[t].run = "copy"
    /\ \A i, j \in DOMAIN invoices : i = j

\* A run that is settled after a step was settled before it.
LEMMA SettledBefore ==
  ASSUME TypeOK, [Next]_vars, clean', picks' = 0
  PROVE  Settled
  <1>1. picks = 0
    BY PicksGrow, BoundsAssumption DEF TypeOK
  <1>2. clean
    <2>1. \A t \in Tabs : TabStep(t) => clean
      BY TabSteps DEF OpenForm, PickStatus, ResetForm, AcceptRaise, AcceptCopy,
                      AcceptFails, TabPut, Commit, CommitFails
    <2>2. UNCHANGED vars \/ SweepRead \/ SweepWrite \/ SweepFails => clean
      BY DEF vars, SweepRead, SweepWrite, SweepFails
    <2>3. \A r \in Requests : LineRequest(r) => clean
      BY DEF LineRequest, WriteLine, ReadLines, ReadRow, WriteRow, RecomputeFails
    <2> QED
      BY <2>1, <2>2, <2>3 DEF Next
  <1> QED
    BY <1>1, <1>2 DEF Settled

\* A clean PUT of a settled run writes the status that is there, the next one
\* of the workflow, or the end of an accept of a sent quote.
LEMMA CleanPut ==
  ASSUME TypeOK, OnceInv, Settled, NEW t \in Opened, NEW s \in Statuses, NEW run,
         NEW inv, TabPut(t, s, run, inv), clean'
  PROVE  /\ Commit(t, s, run, inv)
         /\ \/ s = quote.status /\ run = form[t].run
            \/ quote.status \notin Terminal /\ run = None /\ form[t].run = None
            \/ quote.status \notin Terminal /\ run = None /\ s = "accepted"
  <1>1. Commit(t, s, run, inv) /\ form[t].base = quote
    BY DEF TabPut, Commit, CommitFails
  <1>2. form[t].status = quote.status /\ t \in Tabs
    BY <1>1 DEF OnceInv, Settled, Opened
  <1>3. CASE SavePut(t, s, run, inv)
    BY <1>1, <1>2, <1>3 DEF SavePut
  <1>4. CASE MovePut(t, s, run, inv)
    BY <1>1, <1>2, <1>4 DEF MovePut, Moves, Terminal
  <1>5. CASE AcceptPut(t, s, run, inv)
    BY <1>1, <1>2, <1>5 DEF AcceptPut, OnceInv
  <1> QED
    BY <1>1, <1>3, <1>4, <1>5 DEF TabPut

\* Steps that are no step of a tab leave the forms and the invoices alone and,
\* on a clean run, change the status only to expire a quote in flight.
LEMMA ServerStep ==
  ASSUME TypeOK, clean',
         \/ UNCHANGED vars
         \/ SweepRead \/ SweepWrite \/ SweepFails
         \/ \E r \in Requests : LineRequest(r)
  PROVE  /\ UNCHANGED <<form, invoices>>
         /\ \/ quote'.status = quote.status
            \/ quote.status = sweep.status /\ SweepWrite
  <1>1. CASE SweepWrite
    BY <1>1 DEF SweepWrite
  <1>2. CASE UNCHANGED vars \/ SweepRead \/ SweepFails
    BY <1>2 DEF vars, SweepRead, SweepFails
  <1>3. ASSUME NEW r \in Requests, LineRequest(r)
        PROVE  UNCHANGED <<form, invoices>> /\ quote'.status = quote.status
    <2>1. CASE WriteLine(r) \/ ReadLines(r) \/ ReadRow(r)
      BY <2>1 DEF WriteLine, ReadLines, ReadRow
    <2>2. CASE WriteRow(r)
      BY <2>2 DEF WriteRow, Row
    <2>3. ~RecomputeFails(r)
      BY DEF RecomputeFails
    <2> QED
      BY <1>3, <2>1, <2>2, <2>3 DEF LineRequest
  <1> QED
    BY <1>1, <1>2, <1>3

LEMMA OnceStep == TypeOK /\ OnceInv /\ [Next]_vars => OnceInv'
  <1> SUFFICES ASSUME TypeOK, OnceInv, [Next]_vars, Settled' PROVE OnceInv'
    BY DEF OnceInv
  <1>0. clean' /\ picks' = 0 /\ Settled /\ Shapes
    BY SettledBefore, TypeOKParts DEF Settled
  <1>1. ASSUME UNCHANGED <<form, invoices>>,
               quote'.status = quote.status \/ quote'.status \in Terminal
        PROVE  OnceInv'
    BY <1>0, <1>1 DEF OnceInv, Opened
  <1>2. CASE \/ UNCHANGED vars
             \/ SweepRead \/ SweepWrite \/ SweepFails
             \/ \E r \in Requests : LineRequest(r)
    <2>1. SweepWrite => quote'.status \in Terminal
      BY DEF SweepWrite, Row, Terminal
    <2> QED
      BY <1>0, <1>1, <1>2, <2>1, ServerStep
  <1>3. ASSUME NEW t \in Tabs, TabStep(t) PROVE OnceInv'
    <2>0. form \in [Tabs -> Forms]
      BY <1>0 DEF Shapes
    <2>1. CASE OpenForm(t)
      <3>1. form[t].run = None
        BY <1>0, <2>1 DEF OpenForm
      <3> QED
        BY <1>0, <2>0, <2>1, <3>1, NoneNotData DEF OpenForm, OnceInv, Opened, Form
    <2>2. ~ \E s \in Picks : PickStatus(t, s)
      BY <1>0 DEF PickStatus, Settled
    <2>7. CASE ResetForm(t)
      <3>1. /\ form'[t].first = form[t].first /\ form'[t].base = form[t].first
            /\ form'[t].status = form[t].first.status /\ form'[t].run = form[t].run
            /\ \A u \in Tabs \ {t} : form'[u] = form[u]
            /\ t \in Opened /\ UNCHANGED <<quote, invoices>>
        BY <2>0, <2>7 DEF ResetForm, Form
      <3>2. \A u \in Tabs : form'[u].run = form[u].run
        BY <3>1
      <3>3. Opened' \subseteq Opened /\ Opened \subseteq Tabs
        BY <3>1 DEF Opened
      <3>4. /\ \A u \in Opened : form[u].status = form[u].base.status
            /\ \A u \in Tabs : form[u].run = "copy" =>
                 form[u].status \notin Terminal /\ form[u].first.status \notin Terminal
            /\ \A u \in Opened :
                 form[u].first.status \in Terminal => form[u].base.status \in Terminal
            /\ DOMAIN invoices # {} =>
                 quote.status \in Terminal \/ \E u \in Tabs : form[u].run = "copy"
            /\ \A i, j \in DOMAIN invoices : i = j
        BY <1>0 DEF OnceInv
      <3>5. \A u \in Opened' : form'[u].status = form'[u].base.status
        BY <3>1, <3>3, <3>4
      <3>6. \A u \in Tabs : form'[u].run = "copy" =>
              form'[u].status \notin Terminal /\ form'[u].first.status \notin Terminal
        BY <3>1, <3>4
      <3>7. \A u \in Opened' :
              form'[u].first.status \in Terminal => form'[u].base.status \in Terminal
        BY <3>1, <3>3, <3>4
      <3>8. /\ DOMAIN invoices' # {} =>
                 quote'.status \in Terminal \/ \E u \in Tabs : form'[u].run = "copy"
            /\ \A i, j \in DOMAIN invoices' : i = j
        BY <3>1, <3>2, <3>4
      <3> QED
        BY <3>5, <3>6, <3>7, <3>8 DEF OnceInv
    <2>3. ASSUME NEW i \in Invoices, AcceptRaise(t, i) PROVE OnceInv'
      <3>1. /\ form[t].base = quote /\ form[t].status = "sent" /\ t \in Opened
            /\ \A u \in Tabs : form[u].run = None
        BY <1>0, <2>3 DEF AcceptRaise
      <3>2. quote.status = "sent"
        BY <1>0, <3>1 DEF OnceInv
      <3>3. DOMAIN invoices = {}
        BY <1>0, <3>1, <3>2, NoneNotData DEF OnceInv, Terminal
      <3>4. DOMAIN invoices' = {i}
        BY <1>0, <2>3, <3>3, RaisedTyped DEF AcceptRaise
      <3>5. /\ form'[t].base = form[t].base /\ form'[t].status = form[t].status
            /\ form'[t].first = form[t].first
            /\ form'[t].run = "copy"
            /\ \A u \in Tabs \ {t} : form'[u] = form[u]
        BY <2>0, <2>3 DEF AcceptRaise, Form
      <3>6. form[t].status \notin Terminal /\ form[t].first.status \notin Terminal
        BY <1>0, <3>1, <3>2 DEF OnceInv, Terminal
      <3> QED
        BY <1>0, <3>1, <3>4, <3>5, <3>6 DEF OnceInv, Opened
    <2>4. ASSUME NEW l \in Lines, AcceptCopy(t, l) PROVE OnceInv'
      <3>1. DOMAIN invoices' = DOMAIN invoices
        BY <1>0, <2>4, CopiedTyped DEF AcceptCopy, TypeOK
      <3> QED
        BY <1>0, <2>4, <3>1 DEF AcceptCopy, OnceInv, Opened
    <2>5. ~AcceptFails(t)
      BY <1>0 DEF AcceptFails
    <2>6. ASSUME t \in Opened, NEW s \in Statuses, NEW run \in {None, "copy"},
                 NEW inv \in Invoices \cup {None}, TabPut(t, s, run, inv)
          PROVE  OnceInv'
      <3>1. /\ Commit(t, s, run, inv)
            /\ \/ s = quote.status /\ run = form[t].run
               \/ quote.status \notin Terminal /\ run = None /\ form[t].run = None
               \/ quote.status \notin Terminal /\ run = None /\ s = "accepted"
        BY <1>0, <2>6, CleanPut
      <3>2. /\ form'[t].base = quote' /\ form'[t].status = s /\ form'[t].run = run
            /\ form'[t].first = form[t].first
            /\ \A u \in Tabs \ {t} : form'[u] = form[u]
            /\ quote'.status = s /\ invoices' = invoices
        BY <2>0, <3>1 DEF Commit, Form, Row
      <3>3. form[t].base = quote
        BY <1>0, <3>1 DEF Commit
      <3>4. form[t].status = quote.status
        BY <1>0, <2>6, <3>3 DEF OnceInv
      <3>5. Opened' \subseteq Opened /\ Opened \subseteq Tabs
        BY <2>6, <3>2 DEF Opened
      <3>6. /\ \A u \in Opened : form[u].status = form[u].base.status
            /\ \A u \in Tabs : form[u].run = "copy" =>
                 form[u].status \notin Terminal /\ form[u].first.status \notin Terminal
            /\ \A u \in Opened :
                 form[u].first.status \in Terminal => form[u].base.status \in Terminal
            /\ DOMAIN invoices # {} =>
                 quote.status \in Terminal \/ \E u \in Tabs : form[u].run = "copy"
            /\ \A i, j \in DOMAIN invoices : i = j
        BY <1>0 DEF OnceInv
      <3>7. form[t].run = "copy" => quote.status \notin Terminal
        BY <2>6, <3>4, <3>5, <3>6
      <3>8. \A u \in Opened' : form'[u].status = form'[u].base.status
        BY <3>2, <3>5, <3>6
      <3>9. \A u \in Tabs : form'[u].run = "copy" =>
              form'[u].status \notin Terminal /\ form'[u].first.status \notin Terminal
        BY <3>1, <3>2, <3>6, <3>7, NoneNotData
      <3>10. \A u \in Opened' :
              form'[u].first.status \in Terminal => form'[u].base.status \in Terminal
        BY <2>6, <3>1, <3>2, <3>3, <3>5, <3>6
      <3>11. DOMAIN invoices' # {} =>
               quote'.status \in Terminal \/ \E u \in Tabs : form'[u].run = "copy"
        BY <3>1, <3>2, <3>6, <3>7, NoneNotData DEF Terminal
      <3> QED
        BY <3>2, <3>6, <3>8, <3>9, <3>10, <3>11 DEF OnceInv
    <2> QED
      BY <1>3, <2>1, <2>2, <2>3, <2>4, <2>5, <2>6, <2>7, TabSteps
  <1> QED
    BY <1>2, <1>3 DEF Next

LEMMA OnceInit == Init => OnceInv
  BY NoneNotData DEF Init, OnceInv, Opened, Closed, Form

LEMMA OnceAlways == Spec => []OnceInv
  BY OnceInit, OnceStep, TypeCorrect, PTL DEF Spec

\* A quote is invoiced once, for any number of tabs, unless an accept was
\* retried after a failure or pressed on an outdated form.
THEOREM QuoteIsInvoicedOnce == Spec => []InvoicedOnce
  <1>1. OnceInv => InvoicedOnce
    BY DEF OnceInv, Settled, InvoicedOnce
  <1> QED
    BY <1>1, OnceAlways, PTL

\* The sweep writes from a copy of a quote in flight only.
SweepInv == sweep # None => QuoteOverdue(sweep)

LEMMA SweepAlways == Spec => []SweepInv
  <1>1. Init => SweepInv
    BY DEF Init, SweepInv
  <1>2. SweepInv /\ [Next]_vars => SweepInv'
    <2> SUFFICES ASSUME SweepInv, [Next]_vars PROVE SweepInv'
      OBVIOUS
    <2>1. UNCHANGED sweep => SweepInv'
      BY DEF SweepInv, QuoteOverdue
    <2>2. CASE SweepRead \/ SweepWrite \/ SweepFails
      BY <2>2 DEF SweepRead, SweepWrite, SweepFails, SweepInv, QuoteOverdue
    <2>3. ASSUME NEW r \in Requests, LineRequest(r) PROVE SweepInv'
      BY <2>1, <2>3
      DEF LineRequest, WriteLine, ReadLines, ReadRow, WriteRow, RecomputeFails
    <2>4. ASSUME NEW t \in Tabs, TabStep(t) PROVE SweepInv'
      BY <2>1, <2>4
      DEF TabStep, OpenForm, PickStatus, ResetForm, Save, Press, AcceptRaise, AcceptCopy,
          AcceptCommit, AcceptFails, Commit, CommitFails
    <2> QED
      BY <2>1, <2>2, <2>3, <2>4 DEF Next, vars
  <1> QED
    BY <1>1, <1>2, PTL DEF Spec

\* expiry.go and the quote's workflow: accepted, declined and expired are left
\* only by a write from an outdated copy or after a status picked by hand.
THEOREM TerminalStatusesStay == Spec => TerminalIsKept
  <1> DEFINE Kept == quote.status \in Terminal /\ quote'.status # quote.status
                       => ~clean' \/ picks > 0
  <1>1. TypeOK /\ OnceInv /\ SweepInv /\ [Next]_vars => [Kept]_vars
    <2> SUFFICES ASSUME TypeOK, OnceInv, SweepInv, [Next]_vars,
                        quote.status \in Terminal, clean', ~(picks > 0)
                 PROVE  quote'.status = quote.status
      OBVIOUS
    <2>1. picks = 0
      BY BoundsAssumption DEF TypeOK
    <2>2. CASE \/ UNCHANGED vars
               \/ SweepRead \/ SweepWrite \/ SweepFails
               \/ \E r \in Requests : LineRequest(r)
      <3>1. SweepWrite => QuoteOverdue(sweep)
        BY DEF SweepWrite, SweepInv
      <3> QED
        BY <2>2, <3>1, ServerStep DEF QuoteOverdue, Terminal
    <2>3. ASSUME NEW t \in Tabs, TabStep(t) PROVE quote'.status = quote.status
      <3>1. clean
        BY <2>3, TabSteps
        DEF OpenForm, PickStatus, ResetForm, AcceptRaise, AcceptCopy,
            AcceptFails, TabPut, Commit, CommitFails
      <3>2. ASSUME t \in Opened, NEW s \in Statuses, NEW run, NEW inv,
                   TabPut(t, s, run, inv)
            PROVE  quote'.status = quote.status
        <4>1. Commit(t, s, run, inv) /\ s = quote.status
          BY <2>1, <3>1, <3>2, CleanPut DEF Settled
        <4> QED
          BY <4>1 DEF Commit, Row
      <3>3. \/ OpenForm(t)
            \/ \E s \in Picks : PickStatus(t, s)
            \/ ResetForm(t)
            \/ \E i \in Invoices : AcceptRaise(t, i)
            \/ \E l \in Lines : AcceptCopy(t, l)
            \/ AcceptFails(t)
            => quote' = quote
        BY DEF OpenForm, PickStatus, ResetForm, AcceptRaise, AcceptCopy, AcceptFails
      <3> QED
        BY <2>3, <3>2, <3>3, TabSteps
    <2> QED
      BY <2>2, <2>3 DEF Next
  <1> QED
    BY <1>1, TypeCorrect, OnceAlways, SweepAlways, PTL DEF Spec, TerminalIsKept
=============================================================================
