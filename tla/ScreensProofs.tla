---------------------------- MODULE ScreensProofs ----------------------------
(***************************************************************************)
(* Proofs about the pages of the shell, for any visits, tenants, lines,    *)
(* months, presses and failed calls.                                       *)
(***************************************************************************)
EXTENDS Screens, TLAPS, FiniteSetTheorems, WellFoundedInduction

-----------------------------------------------------------------------------
(* The rent receipts of a property.                                        *)
(*                                                                         *)
(* The invariant is about a calm history (no failed call, no page out of   *)
(* date, no two runs at once): the months say whose rows are whose, and a  *)
(* run knows how many tenants it has handed their receipt.                 *)

RunPc == {"idle", "lines", "tenants", "parent", "child", "copy", "pdf", "store"}
Names == ToSet(Tenants)
Totals == {Sum(s) : s \in Seq(Int)}
ReceiptRow == [parent : Nat, month : Nat, tenant : Names \union {"all"}, lines : Seq(Int), total : Totals]
Run == [pc : RunPc, month : Nat, lines : Seq(Int), names : Seq(Names), parent : Nat, child : Nat]
PropertyPage == [month : Nat, generated : {"closed", "true", "false", Untold}]

ReceiptsType ==
    /\ today \in Nat \ {0} /\ month \in Nat
    /\ receipts \in Seq(ReceiptRow)
    /\ page \in [Visits -> PropertyPage]
    /\ job \in [Visits -> Run]

Running(v) == job[v].pc # "idle"
OneRun == \A v, w \in Visits : Running(v) /\ Running(w) => v = w

\* A page whose button is pressed in time was read in an earlier month than today's.
PageInv ==
    \A v \in Visits : \/ page[v] = NoPage \/ page[v].generated \in {"true", Untold}
                      \/ page[v].generated = "false" /\ page[v].month < today

\* A run is ahead of the month stored, and rows later than that month are the run's.
MonthInv ==
    /\ month <= today
    /\ \A v \in Visits : Running(v) => month < job[v].month /\ job[v].month <= today
    /\ \A i \in DOMAIN receipts :
          receipts[i].month <= month \/ \E v \in Visits : Running(v) /\ receipts[i].month = job[v].month

Once(rows) ==
    \A i, j \in DOMAIN rows :
        rows[i].tenant # "all" /\ rows[i].tenant = rows[j].tenant /\ rows[i].month = rows[j].month => i = j

Summary(m) == [parent |-> 0, month |-> m, tenant |-> "all", lines |-> <<>>, total |-> Sum(Lines)]
Receipt(p, m, tenant) == [parent |-> p, month |-> m, tenant |-> tenant, lines |-> Lines, total |-> Sum(Lines)]

\* The tenant has a whole receipt under a summary.
Handed(rows, m, tenant) ==
    \E i, p \in DOMAIN rows : rows[i] = Receipt(p, m, tenant) /\ rows[p] = Summary(m)

\* No tenant from number k on has a row.
NoneFrom(rows, m, k) ==
    \A i \in DOMAIN rows, n \in k..Len(Tenants) : ~(rows[i].month = m /\ rows[i].tenant = Tenants[n])

\* The tenants left when the first k are done.
Left(names, k) ==
    Len(names) = Len(Tenants) - k /\ \A i \in 1..Len(names) : names[i] = Tenants[k + i]

\* A receipt that has some of its lines, not all.
Begun(row, p, m, tenant) ==
   /\ row.parent = p /\ row.month = m /\ row.tenant = tenant
   /\ Len(row.lines) < Len(Lines) /\ \A i \in 1..Len(row.lines) : row.lines[i] = Lines[i]

\* Where a run stands when k tenants are done.
Progress(rows, j, k) ==
    /\ Left(j.names, k)
    /\ \A n \in 1..k : Handed(rows, j.month, Tenants[n])
    /\ j.pc \in {"child", "copy", "pdf"} => k < Len(Tenants)
    /\ j.pc = "store" => k = Len(Tenants)
    /\ j.pc = "child" => NoneFrom(rows, j.month, k + 1)
    /\ j.pc \in {"copy", "pdf"} => NoneFrom(rows, j.month, k + 2) /\ j.child \in DOMAIN rows
    /\ j.pc = "copy" => Begun(rows[j.child], j.parent, j.month, Tenants[k + 1])
    /\ j.pc = "pdf" => rows[j.child] = Receipt(j.parent, j.month, Tenants[k + 1])
Writing == {"child", "copy", "pdf", "store"}
RunOK(rows, j) ==
    /\ j.pc \in {"lines", "tenants", "parent"} => NoneFrom(rows, j.month, 1)
    /\ j.pc # "lines" => j.lines = Lines
    /\ j.pc = "parent" => j.names = Tenants
    /\ j.pc \in Writing => /\ j.parent \in DOMAIN rows /\ rows[j.parent] = Summary(j.month)
                           /\ \E k \in 0..Len(Tenants) : Progress(rows, j, k)

OnceInv == Once(receipts)
StoredInv == month # NoMonth => \A k \in DOMAIN Tenants : Handed(receipts, month, Tenants[k])
RunInv == \A v \in Visits : Running(v) => RunOK(receipts, job[v])

CalmState == ReceiptsType /\ OneRun /\ PageInv /\ MonthInv /\ OnceInv /\ StoredInv /\ RunInv
CalmInv == ~excused => CalmState

-----------------------------------------------------------------------------

LEMMA TotalsOfLines == ASSUME NEW s \in Seq(Int) PROVE Sum(s) \in Totals
  BY DEF Totals

LEMMA TenantsAreNames ==
    /\ Tenants \in Seq(Names) /\ Len(Tenants) \in Nat /\ DOMAIN Tenants = 1..Len(Tenants)
    /\ \A k \in 1..Len(Tenants) : Tenants[k] \in Names /\ Tenants[k] # "all"
  <1>1. Tenants \in Seq(Names) /\ Len(Tenants) \in Nat /\ DOMAIN Tenants = 1..Len(Tenants)
    BY ReceiptConstants DEF Names
  <1> QED BY <1>1, ReceiptConstants DEF Names

LEMMA CalmInit == ReceiptsInit => CalmInv
  <1> SUFFICES ASSUME ReceiptsInit PROVE CalmState
    BY DEF CalmInv
  <1> USE DEF ReceiptsInit
  <1>1. ReceiptsType
    <2>1. NoPage \in PropertyPage
      BY DEF NoPage, PropertyPage, NoMonth
    <2>2. Idle \in Run
      BY DEF Idle, Run, RunPc, NoMonth
    <2> QED BY <2>1, <2>2 DEF ReceiptsType, NoMonth
  <1>2. \A v \in Visits : ~Running(v)
    BY DEF Running, Idle
  <1> QED BY <1>1, <1>2 DEF CalmState, OneRun, PageInv, MonthInv, OnceInv, Once, StoredInv, RunInv, NoMonth

-----------------------------------------------------------------------------
(* Steps that leave the rows alone. *)

LEMMA CalmNextMonth == CalmState /\ NextMonth => CalmState'
  <1> SUFFICES ASSUME CalmState, NextMonth PROVE CalmState'
    OBVIOUS
  <1> USE DEF CalmState
  <1>1. today' \in Nat \ {0} /\ today' = today + 1
    BY DEF NextMonth, ReceiptsType
  <1>2. UNCHANGED <<month, receipts, page, job>>
    BY DEF NextMonth
  <1>3. ReceiptsType'
    BY <1>1, <1>2 DEF ReceiptsType
  <1>4. PageInv'
    <2> SUFFICES ASSUME NEW v \in Visits, page[v].generated = "false", page[v].month < today
                 PROVE  page[v].month < today'
      BY <1>2 DEF PageInv
    <2>1. page[v].month \in Nat
      BY DEF ReceiptsType, PropertyPage
    <2> QED BY <2>1, <1>1 DEF ReceiptsType
  <1>5. MonthInv'
    <2>1. \A v \in Visits : job[v].month \in Nat
      BY DEF ReceiptsType, Run
    <2> QED BY <2>1, <1>1, <1>2 DEF MonthInv, Running, ReceiptsType
  <1> QED BY <1>2, <1>3, <1>4, <1>5 DEF OneRun, Running, OnceInv, StoredInv, RunInv

LEMMA CalmOpenPage ==
    ASSUME CalmState, NEW v \in Visits, OpenPage(v)
    PROVE  CalmState'
  <1> USE DEF CalmState
  <1> DEFINE new == [month |-> month, generated |-> IF receiptGeneratedThisMonth(month) THEN "true" ELSE "false"]
  <1>1. UNCHANGED <<today, month, receipts, job>> /\ page' = [page EXCEPT ![v] = new]
    BY DEF OpenPage
  <1>2. ReceiptsType'
    BY <1>1 DEF ReceiptsType, PropertyPage
  <1>3. new.generated = "false" => new.month < today
    BY DEF ReceiptsType, MonthInv, receiptGeneratedThisMonth, NoMonth
  <1>4. PageInv'
    BY <1>1, <1>3 DEF PageInv, ReceiptsType
  <1> QED BY <1>1, <1>2, <1>4 DEF OneRun, Running, MonthInv, OnceInv, StoredInv, RunInv

\* A Save that stores the month it found changes nothing.
LEMMA CalmSaveProperty ==
    ASSUME CalmState, NEW v \in Visits, SaveProperty(v), ~excused'
    PROVE  CalmState'
  <1> USE DEF CalmState
  <1>1. page[v].month = month
    BY DEF SaveProperty
  <1>2. UNCHANGED <<today, month, receipts, job>> /\ page' = [page EXCEPT ![v] = [month |-> month, generated |-> Untold]]
    BY <1>1 DEF SaveProperty, AnswerPut
  <1>3. ReceiptsType'
    BY <1>2 DEF ReceiptsType, PropertyPage
  <1>4. PageInv'
    BY <1>2 DEF PageInv, ReceiptsType
  <1> QED BY <1>2, <1>3, <1>4 DEF OneRun, Running, MonthInv, OnceInv, StoredInv, RunInv

LEMMA CalmPress ==
    ASSUME CalmState, NEW v \in Visits, Press(v), ~excused'
    PROVE  CalmState'
  <1> USE DEF CalmState
  <1> DEFINE run == [Idle EXCEPT !.pc = "lines", !.month = today]
  <1>1. UNCHANGED <<today, month, receipts, page>> /\ job' = [job EXCEPT ![v] = run]
    BY DEF Press
  <1>2. page[v].generated = "false" /\ page[v].month = month /\ \A w \in Visits \ {v} : ~Running(w)
    BY DEF Press, CanPress, readOnly, OutOfDate, Overlap, Running, PageInv
  <1>3. month < today
    <2>1. page[v] # NoPage
      BY DEF Press, CanPress
    <2> QED BY <1>2, <2>1 DEF PageInv, Untold
  <1>4. run \in Run /\ run.pc = "lines" /\ run.month = today
    <2>1. Idle \in Run /\ today \in Nat
      BY DEF Run, RunPc, Idle, NoMonth, ReceiptsType
    <2> QED BY <2>1 DEF Run, RunPc
  <1>5. ReceiptsType'
    BY <1>1, <1>4 DEF ReceiptsType
  <1> HIDE DEF run
  <1>6. job'[v] = run /\ \A w \in Visits \ {v} : job'[w] = job[w]
    BY <1>1 DEF ReceiptsType
  <1>7. OneRun'
    BY <1>2, <1>6 DEF OneRun, Running
  <1>8. \A i \in DOMAIN receipts : receipts[i].month <= month
    BY <1>2, <1>4, <1>6 DEF MonthInv, Press, CanPress, Running
  <1>9. \A i \in DOMAIN receipts : receipts[i].month < today
    <2>1. \A i \in DOMAIN receipts : receipts[i] \in ReceiptRow
      BY DEF ReceiptsType
    <2>2. today \in Nat /\ month \in Nat /\ \A i \in DOMAIN receipts : receipts[i].month \in Nat
      BY <2>1 DEF ReceiptsType, ReceiptRow
    <2> QED BY <2>2, <1>3, <1>8
  <1>10. MonthInv'
    BY <1>1, <1>2, <1>3, <1>4, <1>6, <1>8 DEF MonthInv, Running, ReceiptsType
  <1>11. NoneFrom(receipts, today, 1)
    BY <1>9 DEF NoneFrom, ReceiptsType
  <1>12. RunInv'
    BY <1>1, <1>2, <1>4, <1>6, <1>11 DEF RunInv, RunOK, Running, Writing
  <1> QED BY <1>1, <1>5, <1>7, <1>10, <1>12 DEF PageInv, OnceInv, StoredInv

-----------------------------------------------------------------------------
(* Steps of a run.  Each has to show what it makes of the rows. *)

LEMMA RunStep ==
    ASSUME CalmState, NEW v \in Visits, Running(v),
           UNCHANGED <<today, month, page>>,
           job' \in [Visits -> Run], \A w \in Visits \ {v} : job'[w] = job[w],
           job'[v].pc # "idle", job'[v].month = job[v].month,
           receipts' \in Seq(ReceiptRow), Once(receipts'), RunOK(receipts', job'[v]),
           \A i \in DOMAIN receipts' : \/ receipts'[i].month = job[v].month
                                       \/ i \in DOMAIN receipts /\ receipts'[i].month = receipts[i].month,
           \A k \in DOMAIN Tenants : Handed(receipts, month, Tenants[k]) => Handed(receipts', month, Tenants[k])
    PROVE  CalmState'
  <1> USE DEF CalmState
  <1>1. ReceiptsType'
    BY DEF ReceiptsType
  <1>2. \A w \in Visits : Running(w) => w = v
    BY DEF OneRun
  <1>3. OneRun' /\ \A w \in Visits : Running(w)' => w = v
    BY <1>2 DEF OneRun, Running
  <1>4. MonthInv'
    <2>1. month' <= today' /\ \A w \in Visits : Running(w)' => month' < job'[w].month /\ job'[w].month <= today'
      BY <1>3 DEF MonthInv
    <2>2. ASSUME NEW i \in DOMAIN receipts'
          PROVE  receipts'[i].month <= month' \/ receipts'[i].month = job'[v].month
      BY <1>2 DEF MonthInv
    <2> QED BY <2>1, <2>2 DEF MonthInv, Running
  <1>5. StoredInv' /\ OnceInv' /\ PageInv'
    BY DEF StoredInv, OnceInv, PageInv
  <1>6. RunInv'
    BY <1>3 DEF RunInv
  <1> QED BY <1>1, <1>3, <1>4, <1>5, <1>6

\* A step of a run that leaves the rows as they are.
LEMMA QuietStep ==
    ASSUME CalmState, NEW v \in Visits, Running(v),
           UNCHANGED <<today, month, page, receipts>>,
           job' \in [Visits -> Run], \A w \in Visits \ {v} : job'[w] = job[w],
           job'[v].pc # "idle", job'[v].month = job[v].month, RunOK(receipts, job'[v])
    PROVE  CalmState'
  BY RunStep DEF CalmState, ReceiptsType, OnceInv

\* What a step of the run of v does to the runs.
LEMMA ToRun ==
    ASSUME ReceiptsType, NEW v \in Visits, NEW next \in Run, To(v, next)
    PROVE  /\ job' \in [Visits -> Run] /\ job'[v] = next
           /\ \A w \in Visits \ {v} : job'[w] = job[w]
  BY DEF To, ReceiptsType

\* A calm step is not one where a call fails.
LEMMA NoTrouble == ASSUME ~excused' PROVE ~Trouble /\ \A v : ~Fails(v)
  BY DEF Trouble, Fails

LEMMA CalmListLines ==
    ASSUME CalmState, NEW v \in Visits, ListLines(v), ~excused'
    PROVE  CalmState'
  <1> DEFINE next == [job[v] EXCEPT !.pc = "tenants", !.lines = Lines]
  <1>1. job[v] \in Run /\ RunOK(receipts, job[v]) /\ job[v].pc = "lines" /\ Running(v)
    BY DEF CalmState, ReceiptsType, ListLines, RunInv, Running
  <1>2. To(v, next) /\ UNCHANGED <<today, month, page, receipts>>
    BY NoTrouble DEF ListLines, rowVars, pageVars
  <1>3. next \in Run /\ next.pc = "tenants" /\ next.lines = Lines /\ next.month = job[v].month
    BY <1>1, ReceiptConstants DEF Run, RunPc
  <1> HIDE DEF next
  <1>4. RunOK(receipts, next)
    BY <1>1, <1>3 DEF RunOK, Writing
  <1> QED BY <1>1, <1>2, <1>3, <1>4, ToRun, QuietStep DEF CalmState

LEMMA CalmListTenants ==
    ASSUME CalmState, NEW v \in Visits, ListTenants(v), ~excused'
    PROVE  CalmState'
  <1> DEFINE next == [job[v] EXCEPT !.pc = "parent", !.names = Tenants]
  <1>1. job[v] \in Run /\ RunOK(receipts, job[v]) /\ job[v].pc = "tenants" /\ Running(v)
    BY Zenon DEF CalmState, ReceiptsType, ListTenants, RunInv, Running
  <1>2. To(v, next) /\ UNCHANGED <<today, month, page, receipts>>
    BY Zenon, NoTrouble DEF ListTenants, rowVars, pageVars
  <1>3. next \in Run /\ next.pc = "parent" /\ next.names = Tenants /\ next.month = job[v].month
        /\ next.lines = job[v].lines
    BY <1>1, TenantsAreNames DEF Run, RunPc
  <1> HIDE DEF next
  <1>4. RunOK(receipts, next)
    BY <1>1, <1>3 DEF RunOK, Writing
  <1> QED BY <1>1, <1>2, <1>3, <1>4, ToRun, QuietStep DEF CalmState

-----------------------------------------------------------------------------

LEMMA EmptyWhenShort == ASSUME NEW S, NEW s \in Seq(S) PROVE s = <<>> <=> Len(s) = 0
  OBVIOUS

LEMMA LeftTail ==
    ASSUME NEW names \in Seq(Names), NEW k \in 0..(Len(Tenants) - 1), Left(names, k)
    PROVE  /\ names # <<>> /\ Head(names) = Tenants[k + 1]
           /\ Tail(names) \in Seq(Names) /\ Left(Tail(names), k + 1)
           /\ Tail(names) = <<>> <=> k + 1 = Len(Tenants)
  <1>1. Len(names) \in Nat /\ Len(names) > 0 /\ Len(names) = Len(Tenants) - k
    BY TenantsAreNames DEF Left
  <1>2. names # <<>> /\ Head(names) = Tenants[k + 1]
    BY <1>1, TenantsAreNames DEF Left
  <1>3. Tail(names) \in Seq(Names) /\ Len(Tail(names)) = Len(names) - 1
        /\ \A i \in 1..Len(Tail(names)) : Tail(names)[i] = names[i + 1]
    BY <1>1, <1>2
  <1>4. Left(Tail(names), k + 1)
    <2> SUFFICES ASSUME NEW i \in 1..Len(Tail(names)) PROVE Tail(names)[i] = Tenants[k + 1 + i]
      BY <1>1, <1>3, TenantsAreNames DEF Left
    <2>1. i + 1 \in 1..Len(names)
      BY <1>1, <1>3
    <2>2. names[i + 1] = Tenants[k + (i + 1)]
      BY <2>1 DEF Left
    <2> QED BY <1>3, <2>2, TenantsAreNames
  <1>5. Tail(names) = <<>> <=> k + 1 = Len(Tenants)
    <2>1. Tail(names) = <<>> <=> Len(Tail(names)) = 0
      BY <1>3, EmptyWhenShort
    <2>2. Len(Tail(names)) = Len(Tenants) - k - 1
      BY <1>1, <1>3
    <2>3. k \in Nat /\ Len(Tenants) \in Nat
      BY TenantsAreNames
    <2>4. \A n : n = Len(Tenants) - k - 1 => (n = 0 <=> k + 1 = Len(Tenants))
      BY <2>3
    <2> QED BY <2>1, <2>2, <2>4
  <1> QED BY <1>2, <1>3, <1>4, <1>5

LEMMA CalmMakePdf ==
    ASSUME CalmState, NEW v \in Visits, MakePdf(v), ~excused'
    PROVE  CalmState'
  <1> DEFINE rest == Tail(job[v].names)
             next == Onward(v, rest)
  <1>1. job[v] \in Run /\ RunOK(receipts, job[v]) /\ job[v].pc = "pdf" /\ Running(v)
    BY DEF CalmState, ReceiptsType, MakePdf, RunInv, Running
  <1>2. To(v, next) /\ UNCHANGED <<today, month, page, receipts>>
    BY DEF MakePdf, pageVars
  <1>3. PICK k \in 0..Len(Tenants) : Progress(receipts, job[v], k)
    BY <1>1 DEF RunOK, Writing
  <1>4. k \in 0..(Len(Tenants) - 1) /\ k + 1 \in 0..Len(Tenants)
    BY <1>1, <1>3, TenantsAreNames DEF Progress
  <1>5. rest \in Seq(Names) /\ Left(rest, k + 1) /\ (rest = <<>> <=> k + 1 = Len(Tenants))
    BY <1>1, <1>3, <1>4, LeftTail DEF Progress, Run
  <1>6. /\ next \in Run /\ next.pc = (IF rest = <<>> THEN "store" ELSE "child") /\ next.names = rest
        /\ next.month = job[v].month /\ next.lines = job[v].lines /\ next.parent = job[v].parent
    BY <1>1, <1>5 DEF Run, RunPc, Onward
  <1>7. Handed(receipts, job[v].month, Tenants[k + 1])
    BY <1>1, <1>3 DEF Progress, Handed, RunOK, Writing
  <1>8. NoneFrom(receipts, job[v].month, k + 2)
    BY <1>1, <1>3 DEF Progress
  <1> HIDE DEF next, rest
  <1>9. \A n \in 1..(k + 1) : Handed(receipts, next.month, Tenants[n])
    BY <1>3, <1>4, <1>6, <1>7 DEF Progress
  <1>10. Progress(receipts, next, k + 1)
    <2>1. NoneFrom(receipts, next.month, (k + 1) + 1)
      BY <1>4, <1>6, <1>8
    <2>2. next.pc = "store" => k + 1 = Len(Tenants)
      BY <1>5, <1>6
    <2>3. next.pc = "child" => k + 1 < Len(Tenants)
      <3>1. next.pc = "child" => k + 1 # Len(Tenants)
        BY <1>5, <1>6
      <3>2. k \in Nat /\ Len(Tenants) \in Nat /\ k < Len(Tenants)
        BY <1>4, TenantsAreNames
      <3> QED BY <3>1, <3>2
    <2>4. next.pc \in {"store", "child"}
      BY <1>6
    <2> QED BY <1>5, <1>6, <1>9, <2>1, <2>2, <2>3, <2>4 DEF Progress
  <1>11. RunOK(receipts, next)
    BY <1>1, <1>4, <1>6, <1>10 DEF RunOK, Writing
  <1> QED BY <1>1, <1>2, <1>6, <1>11, ToRun, QuietStep DEF CalmState

-----------------------------------------------------------------------------
(* A new row, at the end. *)

LEMMA AppendedRow ==
    ASSUME NEW rows \in Seq(ReceiptRow), NEW row \in ReceiptRow
    PROVE  /\ Append(rows, row) \in Seq(ReceiptRow) /\ Len(Append(rows, row)) = Len(rows) + 1
           /\ Len(rows) \in Nat /\ DOMAIN rows = 1..Len(rows) /\ DOMAIN Append(rows, row) = 1..(Len(rows) + 1)
           /\ \A i \in DOMAIN rows : Append(rows, row)[i] = rows[i]
           /\ Append(rows, row)[Len(rows) + 1] = row
           /\ DOMAIN rows \subseteq DOMAIN Append(rows, row)
           /\ \A m, tenant : Handed(rows, m, tenant) => Handed(Append(rows, row), m, tenant)
  <1>1. /\ Append(rows, row) \in Seq(ReceiptRow) /\ Len(Append(rows, row)) = Len(rows) + 1
        /\ Len(rows) \in Nat /\ DOMAIN rows = 1..Len(rows) /\ DOMAIN Append(rows, row) = 1..(Len(rows) + 1)
        /\ \A i \in DOMAIN rows : Append(rows, row)[i] = rows[i]
        /\ Append(rows, row)[Len(rows) + 1] = row
    OBVIOUS
  <1>2. DOMAIN rows \subseteq DOMAIN Append(rows, row)
    BY <1>1
  <1> HIDE <1>1
  <1>3. ASSUME NEW m, NEW tenant, Handed(rows, m, tenant) PROVE Handed(Append(rows, row), m, tenant)
    <2>1. PICK i \in DOMAIN rows, p \in DOMAIN rows : rows[i] = Receipt(p, m, tenant) /\ rows[p] = Summary(m)
      BY <1>3 DEF Handed
    <2>2. Append(rows, row)[i] = Receipt(p, m, tenant) /\ Append(rows, row)[p] = Summary(m)
      BY <1>1, <2>1
    <2> QED BY <1>2, <2>2 DEF Handed
  <1> QED BY <1>1, <1>2, <1>3

LEMMA CalmCreateParent ==
    ASSUME CalmState, NEW v \in Visits, CreateParent(v), ~excused'
    PROVE  CalmState'
  <1> DEFINE row == Row(v, 0, "all")
             m == job[v].month
             next == [Onward(v, job[v].names) EXCEPT !.parent = Len(Append(receipts, row))]
  <1>1. job[v] \in Run /\ RunOK(receipts, job[v]) /\ job[v].pc = "parent" /\ Running(v)
    BY DEF CalmState, ReceiptsType, CreateParent, RunInv, Running
  <1>2. To(v, next) /\ receipts' = Append(receipts, row) /\ UNCHANGED <<today, month, page>>
    BY NoTrouble DEF CreateParent, pageVars
  <1>3. row = Summary(m) /\ row \in ReceiptRow
    <2>1. job[v].lines = Lines /\ m \in Nat
      BY <1>1 DEF RunOK, Run
    <2> QED BY <2>1, TotalsOfLines, ReceiptConstants DEF Row, Summary, ReceiptRow
  <1>4. receipts \in Seq(ReceiptRow)
    BY DEF CalmState, ReceiptsType
  <1> HIDE DEF row
  <1>5. /\ next \in Run /\ next.pc = (IF Tenants = <<>> THEN "store" ELSE "child") /\ next.names = Tenants
        /\ next.month = m /\ next.lines = Lines /\ next.parent = Len(receipts) + 1
    <2>1. job[v].names = Tenants /\ job[v].lines = Lines /\ Len(Append(receipts, row)) = Len(receipts) + 1
          /\ Len(receipts) \in Nat
      BY <1>1, <1>3, <1>4, AppendedRow DEF RunOK
    <2>2. /\ Onward(v, Tenants) \in Run /\ Onward(v, Tenants).pc = (IF Tenants = <<>> THEN "store" ELSE "child")
          /\ Onward(v, Tenants).names = Tenants
          /\ Onward(v, Tenants).month = m /\ Onward(v, Tenants).lines = Lines
      BY <1>1, <2>1, TenantsAreNames DEF Run, RunPc, Onward
    <2>3. next = [Onward(v, Tenants) EXCEPT !.parent = Len(receipts) + 1]
      BY <2>1
    <2> QED BY <2>1, <2>2, <2>3 DEF Run
  <1> HIDE DEF next, m
  <1>6. /\ DOMAIN receipts' = 1..(Len(receipts) + 1) /\ DOMAIN receipts = 1..Len(receipts) /\ Len(receipts) \in Nat
        /\ receipts'[Len(receipts) + 1] = Summary(m)
        /\ \A i \in DOMAIN receipts : receipts'[i] = receipts[i]
    BY <1>2, <1>3, <1>4, AppendedRow
  <1>7. receipts'[Len(receipts) + 1].tenant = "all" /\ receipts'[Len(receipts) + 1].month = m
    BY <1>6 DEF Summary
  <1>8. NoneFrom(receipts', m, 1)
    <2>1. NoneFrom(receipts, m, 1)
      BY <1>1 DEF RunOK, m
    <2> QED BY <1>6, <1>7, <2>1, TenantsAreNames DEF NoneFrom
  <1>9. Once(receipts')
    BY <1>6, <1>7 DEF Once, OnceInv, CalmState
  <1>10. Progress(receipts', next, 0)
    <2>1. Left(Tenants, 0)
      BY TenantsAreNames DEF Left
    <2>2. next.pc = "store" => 0 = Len(Tenants)
      BY <1>5, TenantsAreNames
    <2>3. next.pc = "child" => 0 < Len(Tenants)
      BY <1>5, TenantsAreNames
    <2> QED BY <1>5, <1>8, <2>1, <2>2, <2>3 DEF Progress
  <1>11. RunOK(receipts', next)
    BY <1>5, <1>6, <1>10, TenantsAreNames DEF RunOK, Writing
  <1>12. next.pc # "idle" /\ next.month = job[v].month
    BY <1>5 DEF m
  <1>13. \A i \in DOMAIN receipts' : receipts'[i].month = job[v].month \/ (i \in DOMAIN receipts /\ receipts'[i].month = receipts[i].month)
    BY <1>6, <1>7 DEF m
  <1>14. receipts' \in Seq(ReceiptRow)
         /\ \A k \in DOMAIN Tenants : Handed(receipts, month, Tenants[k]) => Handed(receipts', month, Tenants[k])
    BY <1>2, <1>3, <1>4, AppendedRow
  <1> QED BY <1>1, <1>2, <1>5, <1>9, <1>11, <1>12, <1>13, <1>14, ToRun, RunStep DEF CalmState

LEMMA CalmCreateChild ==
    ASSUME CalmState, NEW v \in Visits, CreateChild(v), ~excused'
    PROVE  CalmState'
  <1> DEFINE tenant == Head(job[v].names)
             row == Row(v, job[v].parent, tenant)
             m == job[v].month
             next == [job[v] EXCEPT !.pc = IF job[v].lines = <<>> THEN "pdf" ELSE "copy",
                                    !.child = Len(Append(receipts, row))]
  <1>1. job[v] \in Run /\ RunOK(receipts, job[v]) /\ job[v].pc = "child" /\ Running(v)
    BY DEF CalmState, ReceiptsType, CreateChild, RunInv, Running
  <1>2. To(v, next) /\ receipts' = Append(receipts, row) /\ UNCHANGED <<today, month, page>>
    BY NoTrouble DEF CreateChild, pageVars
  <1>3. PICK k \in 0..Len(Tenants) : Progress(receipts, job[v], k)
    BY <1>1 DEF RunOK, Writing
  <1>4. k \in 0..(Len(Tenants) - 1) /\ k \in Nat /\ k + 1 \in DOMAIN Tenants
    BY <1>1, <1>3, TenantsAreNames DEF Progress
  <1>5. tenant = Tenants[k + 1]
    BY <1>1, <1>3, <1>4, LeftTail DEF Progress, Run
  <1>6. tenant \in Names /\ tenant # "all"
    BY <1>4, <1>5, TenantsAreNames
  <1> HIDE DEF tenant
  <1>7. /\ row = [parent |-> job[v].parent, month |-> m, tenant |-> tenant, lines |-> <<>>, total |-> Sum(Lines)]
        /\ row \in ReceiptRow
    <2>1. job[v].lines = Lines /\ m \in Nat /\ job[v].parent \in Nat
      BY <1>1 DEF RunOK, Run
    <2> QED BY <1>6, <2>1, TotalsOfLines, ReceiptConstants DEF Row, ReceiptRow
  <1>8. receipts \in Seq(ReceiptRow)
    BY DEF CalmState, ReceiptsType
  <1> HIDE DEF row
  <1>9. /\ next \in Run /\ next.pc = (IF Lines = <<>> THEN "pdf" ELSE "copy") /\ next.names = job[v].names
        /\ next.month = m /\ next.lines = Lines /\ next.parent = job[v].parent /\ next.child = Len(receipts) + 1
    <2>1. job[v].lines = Lines /\ Len(Append(receipts, row)) = Len(receipts) + 1 /\ Len(receipts) \in Nat
      BY <1>1, <1>7, <1>8, AppendedRow DEF RunOK
    <2>2. next = [job[v] EXCEPT !.pc = IF Lines = <<>> THEN "pdf" ELSE "copy", !.child = Len(receipts) + 1]
      BY <2>1
    <2>3. Len(receipts) + 1 \in Nat
      BY <2>1
    <2> HIDE DEF next
    <2> QED BY <1>1, <2>1, <2>2, <2>3 DEF Run, RunPc
  <1> HIDE DEF next, m
  <1>10. /\ DOMAIN receipts' = 1..(Len(receipts) + 1) /\ DOMAIN receipts = 1..Len(receipts) /\ Len(receipts) \in Nat
         /\ receipts'[Len(receipts) + 1] = row
         /\ \A i \in DOMAIN receipts : receipts'[i] = receipts[i]
         /\ receipts' \in Seq(ReceiptRow)
         /\ \A n, t : Handed(receipts, n, t) => Handed(receipts', n, t)
    BY <1>2, <1>7, <1>8, AppendedRow
  <1>11. row.tenant = tenant /\ row.month = m /\ row.parent = job[v].parent /\ row.lines = <<>>
    BY <1>7
  <1>12. NoneFrom(receipts, m, k + 1)
    BY <1>1, <1>3 DEF Progress, m
  <1>13. NoneFrom(receipts', m, k + 2)
    <2>1. \A n \in (k + 2)..Len(Tenants) : n \in (k + 1)..Len(Tenants) /\ Tenants[n] # tenant
      <3> SUFFICES ASSUME NEW n \in (k + 2)..Len(Tenants)
                   PROVE  n \in (k + 1)..Len(Tenants) /\ Tenants[n] # tenant
        OBVIOUS
      <3>1. n \in (k + 1)..Len(Tenants) /\ n \in DOMAIN Tenants /\ n # k + 1
        BY <1>4, TenantsAreNames
      <3> QED BY <1>4, <1>5, <3>1, ReceiptConstants
    <2> QED BY <1>10, <1>11, <1>12, <2>1 DEF NoneFrom
  <1>14. Once(receipts')
    <2>1. \A i \in DOMAIN receipts : ~(receipts[i].month = m /\ receipts[i].tenant = tenant)
      <3>1. k + 1 \in (k + 1)..Len(Tenants)
        BY <1>4, TenantsAreNames
      <3> QED BY <1>5, <1>12, <3>1 DEF NoneFrom
    <2> QED BY <1>10, <1>11, <2>1 DEF Once, OnceInv, CalmState
  <1>15. job[v].parent \in DOMAIN receipts' /\ receipts'[job[v].parent] = Summary(m)
    BY <1>1, <1>10 DEF RunOK, Writing, m
  <1>16. Progress(receipts', next, k)
    <2>1. \A n \in 1..k : Handed(receipts', m, Tenants[n])
      BY <1>3, <1>10 DEF Progress, m
    <2>2. next.pc = "copy" => Begun(row, next.parent, m, Tenants[k + 1])
      <3>1. next.pc = "copy" => Len(Lines) > 0
        BY <1>9, ReceiptConstants, EmptyWhenShort
      <3> QED BY <1>5, <1>9, <1>11, <3>1 DEF Begun
    <2>3. next.pc = "pdf" => row = Receipt(next.parent, m, Tenants[k + 1])
      BY <1>5, <1>7, <1>9 DEF Receipt
    <2>4. next.pc \in {"pdf", "copy"} /\ receipts'[next.child] = row /\ next.child \in DOMAIN receipts' /\ k < Len(Tenants)
      BY <1>4, <1>9, <1>10, TenantsAreNames
    <2>5. Left(next.names, k)
      BY <1>3, <1>9 DEF Progress
    <2> QED BY <1>9, <1>13, <2>1, <2>2, <2>3, <2>4, <2>5 DEF Progress
  <1>17. RunOK(receipts', next)
    BY <1>9, <1>15, <1>16 DEF RunOK, Writing
  <1>18. next.pc # "idle" /\ next.month = job[v].month
    BY <1>9 DEF m
  <1>19. \A i \in DOMAIN receipts' : receipts'[i].month = job[v].month \/ (i \in DOMAIN receipts /\ receipts'[i].month = receipts[i].month)
    BY <1>10, <1>11 DEF m
  <1> QED BY <1>1, <1>2, <1>9, <1>10, <1>14, <1>17, <1>18, <1>19, ToRun, RunStep DEF CalmState

-----------------------------------------------------------------------------
(* A line is copied into the row the run began. *)

LEMMA LastLine ==
    ASSUME NEW s \in Seq(Int), Len(s) < Len(Lines), \A i \in 1..Len(s) : s[i] = Lines[i]
    PROVE  /\ Append(s, Lines[Len(s) + 1]) \in Seq(Int) /\ Len(Append(s, Lines[Len(s) + 1])) = Len(s) + 1
           /\ \A i \in 1..(Len(s) + 1) : Append(s, Lines[Len(s) + 1])[i] = Lines[i]
           /\ Len(s) + 1 = Len(Lines) => Append(s, Lines[Len(s) + 1]) = Lines
  <1> DEFINE t == Append(s, Lines[Len(s) + 1])
  <1>1. Lines \in Seq(Int) /\ Len(Lines) \in Nat /\ Len(s) \in Nat /\ Lines[Len(s) + 1] \in Int
    BY ReceiptConstants
  <1>2. t \in Seq(Int) /\ Len(t) = Len(s) + 1 /\ \A i \in 1..(Len(s) + 1) : t[i] = Lines[i]
    BY <1>1
  <1> HIDE DEF t
  <1>3. Len(s) + 1 = Len(Lines) => t = Lines
    BY <1>1, <1>2
  <1> QED BY <1>2, <1>3 DEF t

LEMMA CalmCopyLine ==
    ASSUME CalmState, NEW v \in Visits, CopyLine(v), ~excused'
    PROVE  CalmState'
  <1> DEFINE child == job[v].child
             m == job[v].month
             copied == Len(receipts[child].lines)
             line == job[v].lines[copied + 1]
             longer == Append(receipts[child].lines, line)
             row == [receipts[child] EXCEPT !.lines = longer, !.total = Sum(longer)]
             next == IF copied + 1 = Len(job[v].lines) THEN [job[v] EXCEPT !.pc = "pdf"] ELSE job[v]
  <1>1. job[v] \in Run /\ RunOK(receipts, job[v]) /\ job[v].pc = "copy" /\ Running(v)
    BY DEF CalmState, ReceiptsType, CopyLine, RunInv, Running
  <1>2. To(v, next) /\ receipts' = Recomputed(child, line) /\ UNCHANGED <<today, month, page>>
    BY NoTrouble DEF CopyLine, pageVars
  <1>3. PICK k \in 0..Len(Tenants) : Progress(receipts, job[v], k)
    BY <1>1 DEF RunOK, Writing
  <1>4. /\ job[v].lines = Lines /\ child \in DOMAIN receipts
        /\ Begun(receipts[child], job[v].parent, m, Tenants[k + 1])
        /\ k \in Nat /\ k + 1 \in DOMAIN Tenants
    BY <1>1, <1>3, TenantsAreNames DEF Progress, RunOK
  <1>5. receipts \in Seq(ReceiptRow) /\ receipts[child] \in ReceiptRow
    BY <1>4 DEF CalmState, ReceiptsType
  <1>6. receipts[child].lines \in Seq(Int)
    BY <1>5 DEF ReceiptRow
  <1>7. /\ longer \in Seq(Int) /\ Len(longer) = copied + 1 /\ \A i \in 1..Len(longer) : longer[i] = Lines[i]
        /\ copied + 1 = Len(Lines) => longer = Lines
    <2>1. longer = Append(receipts[child].lines, Lines[copied + 1])
      BY <1>4
    <2>2. copied < Len(Lines) /\ \A i \in 1..copied : receipts[child].lines[i] = Lines[i]
      BY <1>4 DEF Begun
    <2> HIDE DEF longer, child
    <2> QED BY <1>6, <2>1, <2>2, LastLine
  <1>8. receipts' = [receipts EXCEPT ![child] = row]
    BY <1>2, <1>4, <1>5 DEF Recomputed, Inserted, ReceiptRow
  <1>9. /\ row \in ReceiptRow /\ row.lines = longer /\ row.total = Sum(longer)
        /\ row.parent = job[v].parent /\ row.month = m /\ row.tenant = Tenants[k + 1]
    <2> HIDE DEF longer
    <2> QED BY <1>4, <1>5, <1>7, TotalsOfLines DEF ReceiptRow, Begun
  <1>10. next \in Run /\ next = [job[v] EXCEPT !.pc = IF copied + 1 = Len(Lines) THEN "pdf" ELSE "copy"]
    BY <1>1, <1>4 DEF Run, RunPc
  <1> HIDE DEF row, longer
  <1>11. /\ DOMAIN receipts' = DOMAIN receipts /\ receipts' \in Seq(ReceiptRow)
         /\ receipts'[child] = row /\ \A i \in DOMAIN receipts \ {child} : receipts'[i] = receipts[i]
    BY <1>4, <1>5, <1>8, <1>9
  <1>12. \A i \in DOMAIN receipts : receipts'[i].month = receipts[i].month /\ receipts'[i].tenant = receipts[i].tenant
    BY <1>4, <1>9, <1>11 DEF Begun
  <1>13. ASSUME NEW n, NEW t, Handed(receipts, n, t) PROVE Handed(receipts', n, t)
    <2>1. PICK i \in DOMAIN receipts, p \in DOMAIN receipts : receipts[i] = Receipt(p, n, t) /\ receipts[p] = Summary(n)
      BY <1>13 DEF Handed
    <2>2. i # child
      <3>1. Len(receipts[child].lines) # Len(Lines)
        BY <1>4, <1>6, ReceiptConstants DEF Begun
      <3> QED BY <2>1, <3>1 DEF Receipt
    <2>3. p # child
      BY <1>4, <2>1, TenantsAreNames DEF Summary, Begun
    <2> QED BY <1>11, <2>1, <2>2, <2>3 DEF Handed
  <1>14. Once(receipts')
    BY <1>11, <1>12 DEF Once, OnceInv, CalmState
  <1>15. job[v].parent \in DOMAIN receipts' /\ receipts'[job[v].parent] = Summary(m)
    <2>1. job[v].parent \in DOMAIN receipts /\ receipts[job[v].parent] = Summary(m)
      BY <1>1 DEF RunOK, Writing
    <2>2. job[v].parent # child
      BY <1>4, <2>1, TenantsAreNames DEF Summary, Begun
    <2> QED BY <1>11, <2>1, <2>2
  <1>16. /\ next.names = job[v].names /\ next.month = m /\ next.lines = Lines /\ next.parent = job[v].parent
         /\ next.child = child /\ next.pc = (IF copied + 1 = Len(Lines) THEN "pdf" ELSE "copy")
    BY <1>1, <1>4, <1>10 DEF Run
  <1>17. NoneFrom(receipts', m, k + 2)
    BY <1>1, <1>3, <1>11, <1>12 DEF Progress, NoneFrom
  <1> HIDE DEF next
  <1>18. next.pc = "pdf" => row = Receipt(next.parent, m, Tenants[k + 1])
    <2>1. next.pc = "pdf" => row.lines = Lines /\ row.total = Sum(Lines)
      BY <1>7, <1>9, <1>16
    <2> QED BY <1>9, <1>16, <2>1 DEF Receipt, ReceiptRow
  <1>19. next.pc = "copy" => Begun(row, next.parent, m, Tenants[k + 1])
    <2>1. copied < Len(Lines) /\ copied \in Nat /\ Len(Lines) \in Nat
      BY <1>4, <1>6, ReceiptConstants DEF Begun
    <2>2. Len(row.lines) = copied + 1 /\ \A i \in 1..Len(row.lines) : row.lines[i] = Lines[i]
      BY <1>7, <1>9
    <2>3. next.pc = "copy" => copied + 1 # Len(Lines)
      BY <1>16
    <2>4. next.pc = "copy" => Len(row.lines) < Len(Lines)
      <3> HIDE DEF copied
      <3> QED BY <2>1, <2>2, <2>3
    <2> QED BY <1>9, <1>16, <2>2, <2>4 DEF Begun
  <1>20. Progress(receipts', next, k)
    <2>1. \A n \in 1..k : Handed(receipts', m, Tenants[n])
      BY <1>3, <1>13 DEF Progress
    <2>2. next.pc \in {"pdf", "copy"} /\ receipts'[next.child] = row /\ next.child \in DOMAIN receipts' /\ k < Len(Tenants)
      BY <1>4, <1>11, <1>16, TenantsAreNames
    <2>3. Left(next.names, k)
      BY <1>3, <1>16 DEF Progress
    <2> QED BY <1>16, <1>17, <1>18, <1>19, <2>1, <2>2, <2>3 DEF Progress
  <1>21. RunOK(receipts', next)
    BY <1>15, <1>16, <1>20 DEF RunOK, Writing
  <1>22. next.pc # "idle" /\ next.month = job[v].month
    BY <1>16
  <1>23. \A i \in DOMAIN receipts' : receipts'[i].month = job[v].month \/ (i \in DOMAIN receipts /\ receipts'[i].month = receipts[i].month)
    BY <1>11, <1>12
  <1> QED BY Zenon, <1>1, <1>2, <1>10, <1>11, <1>13, <1>14, <1>21, <1>22, <1>23, ToRun, RunStep DEF CalmState

LEMMA CalmStoreMonth ==
    ASSUME CalmState, NEW v \in Visits, StoreMonth(v), ~excused'
    PROVE  CalmState'
  <1> DEFINE m == job[v].month
             answer == [month |-> m, generated |-> Untold]
  <1> USE DEF CalmState
  <1>1. job[v] \in Run /\ RunOK(receipts, job[v]) /\ job[v].pc = "store" /\ Running(v)
    BY DEF ReceiptsType, StoreMonth, RunInv, Running
  <1>2. /\ To(v, Idle) /\ month' = m /\ page' = [page EXCEPT ![v] = answer]
        /\ UNCHANGED <<today, receipts>>
    BY NoTrouble DEF StoreMonth, AnswerPut, rowVars
  <1>3. m \in Nat /\ answer \in PropertyPage /\ Idle \in Run
    BY <1>1 DEF Run, RunPc, PropertyPage, Idle, NoMonth
  <1>4. job' \in [Visits -> Run] /\ job'[v] = Idle /\ \A w \in Visits \ {v} : job'[w] = job[w]
    BY <1>2, <1>3, ToRun
  <1>5. \A w \in Visits : ~Running(w)'
    BY <1>1, <1>4 DEF OneRun, Running, Idle
  <1>6. ReceiptsType'
    BY <1>2, <1>3, <1>4 DEF ReceiptsType
  <1>7. PageInv'
    BY <1>2 DEF PageInv, ReceiptsType
  <1>8. MonthInv'
    <2>1. month < m /\ m <= today
      BY <1>1 DEF MonthInv
    <2>2. ASSUME NEW i \in DOMAIN receipts PROVE receipts[i].month \in Nat
      <3>1. receipts[i] \in ReceiptRow
        BY DEF ReceiptsType
      <3> QED BY <3>1 DEF ReceiptRow
    <2>3. ASSUME NEW i \in DOMAIN receipts PROVE receipts[i].month <= m
      <3>1. receipts[i].month <= month \/ receipts[i].month = m
        BY <1>1 DEF MonthInv, OneRun
      <3> QED BY <1>3, <2>1, <2>2, <3>1 DEF ReceiptsType
    <2> QED BY <1>2, <1>5, <2>1, <2>3 DEF MonthInv
  <1>9. StoredInv'
    <2>1. PICK k \in 0..Len(Tenants) : Progress(receipts, job[v], k)
      BY <1>1 DEF RunOK, Writing
    <2>2. k = Len(Tenants) /\ \A n \in 1..k : Handed(receipts, m, Tenants[n])
      BY <1>1, <2>1 DEF Progress
    <2> QED BY <1>2, <2>2, TenantsAreNames DEF StoredInv
  <1> QED BY <1>2, <1>5, <1>6, <1>7, <1>8, <1>9 DEF OneRun, OnceInv, RunInv

\* The files are not part of the claim.
LEMMA CalmOther ==
    ASSUME CalmState, UNCHANGED <<today, month, receipts, page, job>>
    PROVE  CalmState'
  BY DEF CalmState, ReceiptsType, OneRun, Running, PageInv, MonthInv, OnceInv, StoredInv, RunInv

LEMMA CalmNext == CalmInv /\ [ReceiptsNext]_receiptVars => CalmInv'
  <1> SUFFICES ASSUME CalmInv, [ReceiptsNext]_receiptVars, ~excused' PROVE CalmState'
    BY DEF CalmInv
  <1>1. CASE UNCHANGED receiptVars
    BY <1>1, CalmOther DEF CalmInv, receiptVars
  <1>2. CASE NextMonth
    BY <1>2, CalmNextMonth DEF CalmInv, NextMonth
  <1>3. CASE RegeneratePdf
    BY <1>3, CalmOther DEF CalmInv, RegeneratePdf, pageVars
  <1>4. ASSUME NEW v \in Visits, VisitStep(v) PROVE CalmState'
    <2>1. ~excused
      BY Zenon, <1>4 DEF VisitStep, OpenPage, SaveProperty, Press, ListLines, ListTenants, CreateParent, CreateChild,
                  CopyLine, MakePdf, StoreMonth, Calm, Fails, Trouble
    <2>2. CalmState
      BY <2>1 DEF CalmInv
    <2> QED BY <1>4, <2>2, CalmOpenPage, CalmSaveProperty, CalmPress, CalmListLines, CalmListTenants,
               CalmCreateParent, CalmCreateChild, CalmCopyLine, CalmMakePdf, CalmStoreMonth DEF VisitStep
  <1> QED BY <1>1, <1>2, <1>3, <1>4 DEF ReceiptsNext

LEMMA CalmImpliesOnce == CalmInv => ReceiptsOnce
  <1> SUFFICES ASSUME CalmState, NEW tenant \in ToSet(Tenants), NEW m \in 1..MaxMonth
               PROVE  /\ Cardinality(ReceiptsOf(tenant, m)) <= 1
                      /\ month = m => \E i \in ReceiptsOf(tenant, m) :
                            /\ receipts[i].lines = Lines /\ receipts[i].total = Sum(Lines)
                            /\ receipts[receipts[i].parent]
                                  = [receipts[i] EXCEPT !.parent = 0, !.tenant = "all", !.lines = <<>>]
    BY Zenon DEF CalmInv, ReceiptsOnce
  <1>1. Cardinality(ReceiptsOf(tenant, m)) <= 1
    <2>1. \A i, j \in ReceiptsOf(tenant, m) : i = j
      BY ReceiptConstants DEF CalmState, OnceInv, Once, ReceiptsOf
    <2>2. CASE ReceiptsOf(tenant, m) = {}
      BY <2>2, FS_EmptySet
    <2>3. CASE \E i : i \in ReceiptsOf(tenant, m)
      <3>1. PICK i : ReceiptsOf(tenant, m) = {i}
        BY <2>1, <2>3
      <3>2. Cardinality({i}) = 1
        BY FS_Singleton
      <3> QED BY <3>1, <3>2
    <2> QED BY <2>2, <2>3
  <1>2. ASSUME month = m
        PROVE  \E i \in ReceiptsOf(tenant, m) :
                  /\ receipts[i].lines = Lines /\ receipts[i].total = Sum(Lines)
                  /\ receipts[receipts[i].parent]
                        = [receipts[i] EXCEPT !.parent = 0, !.tenant = "all", !.lines = <<>>]
    <2>1. PICK k \in DOMAIN Tenants : tenant = Tenants[k]
      BY DEF ToSet
    <2>2. Handed(receipts, m, tenant)
      BY <1>2, <2>1 DEF CalmState, StoredInv, NoMonth
    <2>3. PICK i \in DOMAIN receipts, p \in DOMAIN receipts :
              receipts[i] = Receipt(p, m, tenant) /\ receipts[p] = Summary(m)
      BY <2>2 DEF Handed
    <2>4. i \in ReceiptsOf(tenant, m) /\ receipts[i].lines = Lines /\ receipts[i].total = Sum(Lines) /\ receipts[i].parent = p
      BY <2>3 DEF ReceiptsOf, Receipt
    <2>5. receipts[p] = [receipts[i] EXCEPT !.parent = 0, !.tenant = "all", !.lines = <<>>]
      <3> DEFINE own == [parent |-> 0, month |-> m, tenant |-> tenant, lines |-> Lines, total |-> Sum(Lines)]
                 all == [parent |-> 0, month |-> m, tenant |-> "all", lines |-> Lines, total |-> Sum(Lines)]
      <3>1. [Receipt(p, m, tenant) EXCEPT !.parent = 0, !.tenant = "all", !.lines = <<>>]
              = [[[Receipt(p, m, tenant) EXCEPT !.parent = 0] EXCEPT !.tenant = "all"] EXCEPT !.lines = <<>>]
        OBVIOUS
      <3>2. [Receipt(p, m, tenant) EXCEPT !.parent = 0] = own
        BY SMT DEF Receipt
      <3>3. [own EXCEPT !.tenant = "all"] = all
        BY SMT
      <3>4. [all EXCEPT !.lines = <<>>] = Summary(m)
        BY SMT DEF Summary
      <3> HIDE DEF own, all
      <3>5. [Receipt(p, m, tenant) EXCEPT !.parent = 0, !.tenant = "all", !.lines = <<>>] = Summary(m)
        BY <3>1, <3>2, <3>3, <3>4, Zenon
      <3> QED BY <2>3, <3>5, Zenon
    <2> QED BY Zenon, <2>4, <2>5
  <1> QED BY Zenon, <1>1, <1>2

\* In a calm history no tenant has two receipts for a month, and once the month is
\* stored every tenant has a whole one (propertymanagement.generateRentReceipt).
THEOREM ReceiptsOnceHolds == Spec => []ReceiptsOnce
  <1>1. Init => CalmInv
    BY CalmInit DEF Init
  <1>2. CalmInv /\ [Next]_vars => CalmInv'
    <2> SUFFICES ASSUME CalmInv, [Next]_vars PROVE [ReceiptsNext]_receiptVars
      BY CalmNext
    <2>1. PropertyStep => ReceiptsNext
      BY DEF PropertyStep
    <2>2. Next /\ ~PropertyStep => UNCHANGED receiptVars
      BY DEF Next, Register, ModulePage, FormStep, GraphMode, BoardStep, PrintReportPage, PrintStep
    <2> QED BY <2>1, <2>2 DEF vars
  <1> QED BY <1>1, <1>2, CalmImpliesOnce, PTL DEF Spec

-----------------------------------------------------------------------------
(* The board of a list.  What is shown can part from the server only by an *)
(* answer or by another user: the call in front of the queue decides, and  *)
(* no call has to be waited for.                                           *)

BoardInv == board = "ready" /\ ~disturbed => saved = server

LEMMA BoardStepKeeps == BoardInv /\ BoardNext => BoardInv'
  <1> SUFFICES ASSUME BoardInv, BoardNext, board' = "ready", ~disturbed' PROVE saved' = server'
    BY DEF BoardInv
  <1> USE DEF Click, Toolbar, Sketching
  <1>1. CASE AnswerGet
    BY <1>1 DEF AnswerGet
  <1>2. CASE AnswerSaveEdit
    <2>1. CASE server' = Sent /\ saved' = Kept
      BY <2>1 DEF Kept
    <2>2. CASE disturbed' = TRUE
      BY <2>2
    <2> QED BY <1>2, <2>1, <2>2 DEF AnswerSaveEdit
  <1>3. CASE startEdit \/ cancelEdit \/ saveEdit \/ Resize
    BY <1>3 DEF BoardInv, startEdit, cancelEdit, saveEdit, Resize
  <1>4. CASE hideTile \/ restoreTile \/ handleLayoutChange
    BY <1>4 DEF BoardInv, hideTile, restoreTile, handleLayoutChange
  <1>5. CASE OpenDialog \/ Configure \/ CloseDialog
    BY <1>5 DEF BoardInv, OpenDialog, Configure, CloseDialog
  <1>6. CASE submitWidget
    BY <1>6 DEF BoardInv, submitWidget
  <1>7. CASE OtherSaves
    BY <1>7 DEF OtherSaves
  <1> QED BY <1>1, <1>2, <1>3, <1>4, <1>5, <1>6, <1>7 DEF BoardNext

\* A board that was read, with no failure and no other user, shows what the server
\* keeps, whatever was clicked while a save was under way (graph-renderer.saveEdit).
THEOREM BoardShowsStoredHolds == Spec => []BoardShowsStored
  <1>1. Init => BoardInv
    BY DEF Init, BoardInit, BoardInv
  <1>2. BoardInv /\ [Next]_vars => BoardInv'
    <2> SUFFICES ASSUME BoardInv, [Next]_vars PROVE BoardInv'
      OBVIOUS
    <2>1. CASE BoardStep
      BY <2>1, BoardStepKeeps DEF BoardStep
    <2>2. CASE GraphMode
      BY <2>2 DEF GraphMode, OpenBoard, BoardInv
    <2>3. CASE UNCHANGED boardVars
      BY <2>3 DEF boardVars, BoardInv
    <2>4. Next => BoardStep \/ GraphMode \/ UNCHANGED boardVars
      BY DEF Next, Register, ModulePage, FormStep, PropertyStep, PrintReportPage, PrintStep
    <2> QED BY <2>1, <2>2, <2>3, <2>4 DEF vars
  <1>3. BoardInv => BoardShowsStored
    BY DEF BoardInv, BoardShowsStored
  <1> QED BY <1>1, <1>2, <1>3, PTL DEF Spec

-----------------------------------------------------------------------------
(* Sequences, least elements, and what is so far up to any place.          *)

IsSeq(s) == s \in Seq(ToSet(s))

LEMMA SeqOfItself == ASSUME NEW S, NEW s \in Seq(S) PROVE IsSeq(s)
  BY DEF IsSeq, ToSet

LEMMA SeqAppend ==
    ASSUME NEW s, IsSeq(s), NEW e
    PROVE  /\ IsSeq(Append(s, e)) /\ Len(Append(s, e)) = Len(s) + 1 /\ Len(s) \in Nat
           /\ DOMAIN s = 1..Len(s) /\ DOMAIN Append(s, e) = 1..(Len(s) + 1)
           /\ Append(s, e)[Len(s) + 1] = e
           /\ \A i \in DOMAIN s : Append(s, e)[i] = s[i]
  <1> DEFINE S == ToSet(s) \cup {e}
  <1>1. s \in Seq(S) /\ e \in S
    BY DEF IsSeq
  <1> HIDE DEF S
  <1>2. Append(s, e) \in Seq(S)
    BY <1>1
  <1>3. IsSeq(Append(s, e))
    BY <1>2, SeqOfItself
  <1>4. /\ Len(Append(s, e)) = Len(s) + 1 /\ Len(s) \in Nat
        /\ DOMAIN s = 1..Len(s) /\ DOMAIN Append(s, e) = 1..(Len(s) + 1)
    BY <1>1, <1>2
  <1>5. Append(s, e)[Len(s) + 1] = e /\ \A i \in DOMAIN s : Append(s, e)[i] = s[i]
    BY <1>1, <1>4
  <1> QED BY <1>3, <1>4, <1>5

LEMMA SeqTail ==
    ASSUME NEW s, IsSeq(s), s # <<>>
    PROVE  /\ IsSeq(Tail(s)) /\ Len(s) \in Nat \ {0} /\ DOMAIN s = 1..Len(s) /\ DOMAIN Tail(s) = 1..(Len(s) - 1)
           /\ Head(s) = s[1] /\ \A i \in DOMAIN Tail(s) : Tail(s)[i] = s[i + 1]
  <1> DEFINE S == ToSet(s)
  <1>1. s \in Seq(S)
    BY DEF IsSeq
  <1> HIDE DEF S
  <1>2. Tail(s) \in Seq(S)
    BY <1>1
  <1>3. IsSeq(Tail(s))
    BY <1>2, SeqOfItself
  <1>4. Len(s) \in Nat \ {0} /\ DOMAIN s = 1..Len(s) /\ DOMAIN Tail(s) = 1..(Len(s) - 1)
    BY <1>1, <1>2
  <1>5. Head(s) = s[1] /\ \A i \in DOMAIN Tail(s) : Tail(s)[i] = s[i + 1]
    BY <1>1, <1>4
  <1> QED BY <1>3, <1>4, <1>5

\* A set of naturals has a least element.
LEMMA LeastOf == ASSUME NEW S \in SUBSET Nat, S # {} PROVE Min(S) \in S /\ \A y \in S : Min(S) <= y
  <1> DEFINE R == OpToRel(<, Nat)
  <1>1. IsWellFoundedOn(R, Nat)
    BY Zenon, NatLessThanWellFounded
  <1>2. R = {ss \in Nat \X Nat : ss[1] < ss[2]}
    BY DEF OpToRel
  <1>3. PICK x \in S : \A y \in S : ~(<<y, x>> \in R)
    <2> HIDE DEF R
    <2> QED BY <1>1, WFMin
  <1>4. \A y \in S : x <= y
    <2> SUFFICES ASSUME NEW y \in S, ~(x <= y) PROVE FALSE
      OBVIOUS
    <2>1. <<y, x>> \in Nat \X Nat /\ y < x
      OBVIOUS
    <2>2. <<y, x>> \in R
      <3> HIDE DEF R
      <3> QED BY <1>2, <2>1
    <2> QED BY Zenon, <1>3, <2>2
  <1> QED BY <1>4 DEF Min

\* A set of naturals that has 0 and every successor has all of them.
LEMMA GreatestOf ==
    ASSUME NEW S \in SUBSET Nat, S # {}, NEW m \in Nat, \A x \in S : x <= m
    PROVE  Max(S) \in S /\ \A x \in S : x <= Max(S)
  <1> DEFINE T == {t \in Nat : \A x \in S : x <= t}
             top == Min(T)
  <1>1. T \in SUBSET Nat /\ T # {}
    OBVIOUS
  <1>2. top \in T /\ \A t \in T : top <= t
    <2> HIDE DEF T
    <2> QED BY <1>1, LeastOf
  <1> HIDE DEF top
  <1>3. top \in Nat /\ \A x \in S : x \in Nat /\ x <= top
    BY <1>2
  <1>4. top \in S
    <2> SUFFICES ASSUME top \notin S PROVE FALSE
      OBVIOUS
    <2>1. PICK x : x \in S
      OBVIOUS
    <2>2. \A y \in S : y \in Nat /\ y <= top - 1
      BY <1>3
    <2>3. top - 1 \in Nat
      BY <1>3, <2>1, <2>2
    <2>4. top - 1 \in T
      BY <2>2, <2>3
    <2> HIDE DEF T
    <2>5. top <= top - 1
      BY <1>2, <2>4
    <2> QED BY <1>3, <2>5
  <1>5. \E x \in S : \A y \in S : x >= y
    BY <1>3, <1>4
  <1>6. Max(S) \in S /\ \A y \in S : Max(S) >= y
    BY <1>5 DEF Max
  <1> QED BY <1>6

LEMMA Everything ==
    ASSUME NEW T, 0 \in T, \A n \in Nat : n \in T => n + 1 \in T
    PROVE  Nat \subseteq T
  <1> DEFINE Out == Nat \ T
             x == Min(Out)
  <1> SUFFICES ASSUME Out # {} PROVE FALSE
    OBVIOUS
  <1>1. x \in Out /\ \A y \in Out : x <= y
    BY LeastOf
  <1> HIDE DEF x
  <1>2. x # 0 /\ x - 1 \in Nat /\ x = (x - 1) + 1 /\ ~(x <= x - 1)
    BY <1>1
  <1>3. x - 1 \in Out
    BY <1>1, <1>2
  <1> QED BY <1>1, <1>2, <1>3

\* A prefix of the naturals, taken one by one.
LEMMA UpTo ==
    ASSUME NEW N \in Nat, NEW T, 0 \in T, \A n \in 0..(N - 1) : n \in T => n + 1 \in T
    PROVE  \A n \in 0..N : n \in T
  <1> DEFINE X == {n \in Nat : n <= N => n \in T}
  <1>1. 0 \in X
    OBVIOUS
  <1>2. ASSUME NEW n \in Nat, n \in X PROVE n + 1 \in X
    <2> SUFFICES ASSUME n + 1 <= N PROVE n + 1 \in T
      OBVIOUS
    <2> QED BY <1>2
  <1>3. Nat \subseteq X
    <2> HIDE DEF X
    <2> QED BY <1>1, <1>2, Everything
  <1> QED BY <1>3

LEMMA SeqDomain == ASSUME NEW s, IsSeq(s) PROVE Len(s) \in Nat /\ DOMAIN s = 1..Len(s)
  BY DEF IsSeq

-----------------------------------------------------------------------------
(* The folds of the model, each of them one of these steps: what a fold    *)
(* gives is the last of the values got by taking the elements one by one.  *)

Step(kind, d, acc, x) ==
    CASE kind = "react" -> React(acc, x)
      [] kind = "recompute" -> Recompute(acc, x)
      [] kind = "seed" -> IF isVirtualRelation(x) THEN acc
                          ELSE LET all == FillAddress(acc, x) IN Fill(all, x.name, SeedOf(d, x, all))
      [] kind = "address" -> Fill(acc, addressSubKey(d.name, x), addressSubZeroDefault(x))
      [] kind = "write" -> setField(d, acc, x.key, x.value)
      [] kind = "also" -> Also(acc, x)
      [] kind = "route" -> AddRoute(acc, x)
      [] kind = "extension" -> AddExtension(acc, x)
      [] kind = "report" -> AddReport(acc, x)

WriteFold(d, base, s) == FoldLeft(LAMBDA acc, w : setField(d, acc, w.key, w.value), base, s)
AddressFold(d, base, s) ==
    FoldLeft(LAMBDA acc, x : Fill(acc, addressSubKey(d.name, x), addressSubZeroDefault(x)), base, s)
SeedFold(d, base, s) ==
    FoldLeft(LAMBDA acc, f : IF isVirtualRelation(f) THEN acc
                             ELSE LET all == FillAddress(acc, f) IN Fill(all, f.name, SeedOf(d, f, all)),
             base, s)

IsRun(A, kind, d, base, s) ==
    A[0] = base /\ \A k \in 1..Len(s) : A[k] = Step(kind, d, A[k - 1], s[k])

\* What FoldLeft iterates over: the sets of places.
IsIter(it, kind, d, base, s, n) ==
    it = [S \in SUBSET (1..n) |-> IF S = {} THEN base ELSE Step(kind, d, it[S \ {Max(S)}], s[Max(S)])]

LEMMA MaxOfPlaces ==
    ASSUME NEW n \in Nat, NEW S \in SUBSET (1..n), S # {}
    PROVE  Max(S) \in S /\ \A y \in S : y <= Max(S)
  <1>1. S \in SUBSET Nat /\ \A x \in S : x <= n
    OBVIOUS
  <1> QED BY <1>1, GreatestOf

LEMMA MaxOfAll == ASSUME NEW n \in Nat PROVE Max(1..(n + 1)) = n + 1
  <1>1. 1..(n + 1) \in SUBSET (1..(n + 1)) /\ 1..(n + 1) # {} /\ n + 1 \in 1..(n + 1) /\ n + 1 \in Nat
    OBVIOUS
  <1>2. Max(1..(n + 1)) \in 1..(n + 1) /\ n + 1 <= Max(1..(n + 1))
    BY <1>1, MaxOfPlaces
  <1>3. \A x \in 1..(n + 1) : n + 1 <= x => x = n + 1
    OBVIOUS
  <1> QED BY <1>2, <1>3

LEMMA IterExists ==
    ASSUME NEW kind, NEW d, NEW base, NEW s, NEW n0 \in Nat
    PROVE  \E it : IsIter(it, kind, d, base, s, n0)
  <1> DEFINE T == {n \in Nat : \E it : IsIter(it, kind, d, base, s, n)}
             G(acc, i) == Step(kind, d, acc, s[i])
  <1>1. 0 \in T
    <2>1. IsIter([S \in SUBSET (1..0) |-> base], kind, d, base, s, 0)
      BY DEF IsIter
    <2> QED BY <2>1
  <1>2. ASSUME NEW n \in Nat, n \in T PROVE n + 1 \in T
    <2>1. PICK it : IsIter(it, kind, d, base, s, n)
      BY <1>2
    <2> HIDE DEF G
    <2>2. it = [S \in SUBSET (1..n) |-> IF S = {} THEN base ELSE G(it[S \ {Max(S)}], Max(S))]
      BY <2>1 DEF IsIter, G
    <2> DEFINE more == [S \in SUBSET (1..(n + 1)) |-> IF n + 1 \in S THEN G(it[S \ {n + 1}], n + 1) ELSE it[S]]
    <2>3. ASSUME NEW S \in SUBSET (1..(n + 1)), S # {}
          PROVE  more[S] = G(more[S \ {Max(S)}], Max(S))
      <3>a. n + 1 \in Nat
        OBVIOUS
      <3>0. Max(S) \in S /\ \A y \in S : y <= Max(S)
        <4> HIDE DEF more
        <4> QED BY <2>3, <3>a, MaxOfPlaces
      <3>1. CASE n + 1 \in S
        <4>1. Max(S) = n + 1
          <5>1. \A x \in 1..(n + 1) : n + 1 <= x => x = n + 1
            OBVIOUS
          <5> QED BY <3>0, <3>1, <5>1
        <4>2. S \ {n + 1} \in SUBSET (1..(n + 1)) /\ n + 1 \notin S \ {n + 1}
          OBVIOUS
        <4>3. more[S \ {n + 1}] = it[S \ {n + 1}]
          BY <4>2
        <4> QED BY <3>1, <4>1, <4>3
      <3>2. CASE n + 1 \notin S
        <4>a. \A x \in 1..(n + 1) : x # n + 1 => x \in 1..n
          OBVIOUS
        <4>1. S \in SUBSET (1..n) /\ S \ {Max(S)} \in SUBSET (1..(n + 1)) /\ n + 1 \notin S \ {Max(S)}
          BY <3>2, <4>a
        <4>2. more[S] = it[S] /\ more[S \ {Max(S)}] = it[S \ {Max(S)}]
          BY <3>2, <4>1
        <4>3. it[S] = G(it[S \ {Max(S)}], Max(S))
          BY <2>2, <2>3, <4>1
        <4> QED BY <4>2, <4>3
      <3> QED BY <3>1, <3>2
    <2>4. more[{}] = base
      <3>1. {} \in SUBSET (1..(n + 1)) /\ {} \in SUBSET (1..n) /\ n + 1 \notin {}
        OBVIOUS
      <3>2. it[{}] = base
        BY <2>2, <3>1
      <3> QED BY <3>1, <3>2
    <2>5. more = [S \in SUBSET (1..(n + 1)) |-> IF S = {} THEN base ELSE G(more[S \ {Max(S)}], Max(S))]
      <3>1. more = [S \in SUBSET (1..(n + 1)) |-> more[S]]
        OBVIOUS
      <3> HIDE DEF more
      <3> QED BY <2>3, <2>4, <3>1
    <2>6. IsIter(more, kind, d, base, s, n + 1)
      <3> HIDE DEF more
      <3> QED BY <2>5 DEF IsIter, G
    <2>7. n + 1 \in Nat
      OBVIOUS
    <2> HIDE DEF more
    <2> QED BY <2>6, <2>7
  <1>3. Nat \subseteq T
    <2> HIDE DEF T
    <2> QED BY <1>1, <1>2, Everything
  <1> QED BY <1>3

\* What the iteration gives for the first k places is the k-th value of a run.
LEMMA IterRuns ==
    ASSUME NEW kind, NEW d, NEW base, NEW s, Len(s) \in Nat, NEW it, IsIter(it, kind, d, base, s, Len(s))
    PROVE  \E A : IsRun(A, kind, d, base, s) /\ A[Len(s)] = it[1..Len(s)]
  <1> DEFINE n == Len(s)
             A == [k \in 0..n |-> it[1..k]]
             G(acc, i) == Step(kind, d, acc, s[i])
  <1> HIDE DEF G
  <1>1. it = [S \in SUBSET (1..n) |-> IF S = {} THEN base ELSE G(it[S \ {Max(S)}], Max(S))]
    BY DEF IsIter, G
  <1>2. A[0] = base
    <2>1. 1..0 = {} /\ {} \in SUBSET (1..n) /\ 0 \in 0..n
      OBVIOUS
    <2> QED BY <1>1, <2>1
  <1>3. ASSUME NEW k \in 1..n PROVE A[k] = G(A[k - 1], k)
    <2>1. k - 1 \in Nat /\ (k - 1) + 1 = k /\ k \in 0..n /\ k - 1 \in 0..n
      OBVIOUS
    <2>2. Max(1..k) = k
      BY <2>1, MaxOfAll
    <2>3. 1..k \in SUBSET (1..n) /\ 1..k # {} /\ (1..k) \ {k} = 1..(k - 1)
      BY <2>1
    <2>4. it[1..k] = G(it[(1..k) \ {Max(1..k)}], Max(1..k))
      BY <1>1, <2>3
    <2> QED BY <2>1, <2>2, <2>3, <2>4
  <1>4. IsRun(A, kind, d, base, s)
    <2> HIDE DEF A
    <2> QED BY <1>2, <1>3 DEF IsRun, G
  <1>5. A[n] = it[1..n]
    OBVIOUS
  <1> HIDE DEF A
  <1> QED BY <1>4, <1>5

LEMMA ReactRuns ==
    ASSUME NEW base, NEW s, IsSeq(s)
    PROVE  \E A : IsRun(A, "react", NULL, base, s) /\ A[Len(s)] = FoldLeft(React, base, s)
  <1> DEFINE Iterates(it) ==
                 it = [S \in SUBSET (DOMAIN s) |-> IF S = {} THEN base ELSE React(it[S \ {Max(S)}], s[Max(S)])]
  <1>1. FoldLeft(React, base, s) = (CHOOSE it : Iterates(it))[DOMAIN s]
    BY DEF FoldLeft, MapThenFoldSet
  <1>2. \A it : Iterates(it) <=> IsIter(it, "react", NULL, base, s, Len(s))
    BY SeqDomain DEF IsIter, Step
  <1>3. Len(s) \in Nat /\ DOMAIN s = 1..Len(s)
    BY SeqDomain
  <1> DEFINE it0 == CHOOSE it : Iterates(it)
  <1> HIDE DEF Iterates
  <1>4. Iterates(it0)
    BY <1>2, <1>3, IterExists
  <1> HIDE DEF it0
  <1>5. \E A : IsRun(A, "react", NULL, base, s) /\ A[Len(s)] = it0[1..Len(s)]
    BY <1>2, <1>3, <1>4, IterRuns
  <1> QED BY <1>1, <1>3, <1>5 DEF it0

LEMMA RecomputeRuns ==
    ASSUME NEW base, NEW s, IsSeq(s)
    PROVE  \E A : IsRun(A, "recompute", NULL, base, s) /\ A[Len(s)] = FoldLeft(Recompute, base, s)
  <1> DEFINE Iterates(it) ==
                 it = [S \in SUBSET (DOMAIN s) |-> IF S = {} THEN base ELSE Recompute(it[S \ {Max(S)}], s[Max(S)])]
  <1>1. FoldLeft(Recompute, base, s) = (CHOOSE it : Iterates(it))[DOMAIN s]
    BY DEF FoldLeft, MapThenFoldSet
  <1>2. \A it : Iterates(it) <=> IsIter(it, "recompute", NULL, base, s, Len(s))
    BY SeqDomain DEF IsIter, Step
  <1>3. Len(s) \in Nat /\ DOMAIN s = 1..Len(s)
    BY SeqDomain
  <1> DEFINE it0 == CHOOSE it : Iterates(it)
  <1> HIDE DEF Iterates
  <1>4. Iterates(it0)
    BY <1>2, <1>3, IterExists
  <1> HIDE DEF it0
  <1>5. \E A : IsRun(A, "recompute", NULL, base, s) /\ A[Len(s)] = it0[1..Len(s)]
    BY <1>2, <1>3, <1>4, IterRuns
  <1> QED BY <1>1, <1>3, <1>5 DEF it0

LEMMA AlsoRuns ==
    ASSUME NEW base, NEW s, IsSeq(s)
    PROVE  \E A : IsRun(A, "also", NULL, base, s) /\ A[Len(s)] = FoldLeft(Also, base, s)
  <1> DEFINE Iterates(it) ==
                 it = [S \in SUBSET (DOMAIN s) |-> IF S = {} THEN base ELSE Also(it[S \ {Max(S)}], s[Max(S)])]
  <1>1. FoldLeft(Also, base, s) = (CHOOSE it : Iterates(it))[DOMAIN s]
    BY DEF FoldLeft, MapThenFoldSet
  <1>2. \A it : Iterates(it) <=> IsIter(it, "also", NULL, base, s, Len(s))
    BY SeqDomain DEF IsIter, Step
  <1>3. Len(s) \in Nat /\ DOMAIN s = 1..Len(s)
    BY SeqDomain
  <1> DEFINE it0 == CHOOSE it : Iterates(it)
  <1> HIDE DEF Iterates
  <1>4. Iterates(it0)
    BY <1>2, <1>3, IterExists
  <1> HIDE DEF it0
  <1>5. \E A : IsRun(A, "also", NULL, base, s) /\ A[Len(s)] = it0[1..Len(s)]
    BY <1>2, <1>3, <1>4, IterRuns
  <1> QED BY <1>1, <1>3, <1>5 DEF it0

LEMMA RouteRuns ==
    ASSUME NEW base, NEW s, IsSeq(s)
    PROVE  \E A : IsRun(A, "route", NULL, base, s) /\ A[Len(s)] = FoldLeft(AddRoute, base, s)
  <1> DEFINE Iterates(it) ==
                 it = [S \in SUBSET (DOMAIN s) |-> IF S = {} THEN base ELSE AddRoute(it[S \ {Max(S)}], s[Max(S)])]
  <1>1. FoldLeft(AddRoute, base, s) = (CHOOSE it : Iterates(it))[DOMAIN s]
    BY DEF FoldLeft, MapThenFoldSet
  <1>2. \A it : Iterates(it) <=> IsIter(it, "route", NULL, base, s, Len(s))
    BY SeqDomain DEF IsIter, Step
  <1>3. Len(s) \in Nat /\ DOMAIN s = 1..Len(s)
    BY SeqDomain
  <1> DEFINE it0 == CHOOSE it : Iterates(it)
  <1> HIDE DEF Iterates
  <1>4. Iterates(it0)
    BY <1>2, <1>3, IterExists
  <1> HIDE DEF it0
  <1>5. \E A : IsRun(A, "route", NULL, base, s) /\ A[Len(s)] = it0[1..Len(s)]
    BY <1>2, <1>3, <1>4, IterRuns
  <1> QED BY <1>1, <1>3, <1>5 DEF it0

LEMMA ExtensionRuns ==
    ASSUME NEW base, NEW s, IsSeq(s)
    PROVE  \E A : IsRun(A, "extension", NULL, base, s) /\ A[Len(s)] = FoldLeft(AddExtension, base, s)
  <1> DEFINE Iterates(it) ==
                 it = [S \in SUBSET (DOMAIN s) |-> IF S = {} THEN base ELSE AddExtension(it[S \ {Max(S)}], s[Max(S)])]
  <1>1. FoldLeft(AddExtension, base, s) = (CHOOSE it : Iterates(it))[DOMAIN s]
    BY DEF FoldLeft, MapThenFoldSet
  <1>2. \A it : Iterates(it) <=> IsIter(it, "extension", NULL, base, s, Len(s))
    BY SeqDomain DEF IsIter, Step
  <1>3. Len(s) \in Nat /\ DOMAIN s = 1..Len(s)
    BY SeqDomain
  <1> DEFINE it0 == CHOOSE it : Iterates(it)
  <1> HIDE DEF Iterates
  <1>4. Iterates(it0)
    BY <1>2, <1>3, IterExists
  <1> HIDE DEF it0
  <1>5. \E A : IsRun(A, "extension", NULL, base, s) /\ A[Len(s)] = it0[1..Len(s)]
    BY <1>2, <1>3, <1>4, IterRuns
  <1> QED BY <1>1, <1>3, <1>5 DEF it0

LEMMA ReportRuns ==
    ASSUME NEW base, NEW s, IsSeq(s)
    PROVE  \E A : IsRun(A, "report", NULL, base, s) /\ A[Len(s)] = FoldLeft(AddReport, base, s)
  <1> DEFINE Iterates(it) ==
                 it = [S \in SUBSET (DOMAIN s) |-> IF S = {} THEN base ELSE AddReport(it[S \ {Max(S)}], s[Max(S)])]
  <1>1. FoldLeft(AddReport, base, s) = (CHOOSE it : Iterates(it))[DOMAIN s]
    BY DEF FoldLeft, MapThenFoldSet
  <1>2. \A it : Iterates(it) <=> IsIter(it, "report", NULL, base, s, Len(s))
    BY SeqDomain DEF IsIter, Step
  <1>3. Len(s) \in Nat /\ DOMAIN s = 1..Len(s)
    BY SeqDomain
  <1> DEFINE it0 == CHOOSE it : Iterates(it)
  <1> HIDE DEF Iterates
  <1>4. Iterates(it0)
    BY <1>2, <1>3, IterExists
  <1> HIDE DEF it0
  <1>5. \E A : IsRun(A, "report", NULL, base, s) /\ A[Len(s)] = it0[1..Len(s)]
    BY <1>2, <1>3, <1>4, IterRuns
  <1> QED BY <1>1, <1>3, <1>5 DEF it0

LEMMA WriteRuns ==
    ASSUME NEW d, NEW base, NEW s, IsSeq(s)
    PROVE  \E A : IsRun(A, "write", d, base, s) /\ A[Len(s)] = WriteFold(d, base, s)
  <1> DEFINE Iterates(it) ==
                 it = [S \in SUBSET (DOMAIN s) |->
                       IF S = {} THEN base ELSE setField(d, it[S \ {Max(S)}], s[Max(S)].key, s[Max(S)].value)]
  <1>1. WriteFold(d, base, s) = (CHOOSE it : Iterates(it))[DOMAIN s]
    BY DEF FoldLeft, MapThenFoldSet, WriteFold
  <1>2. \A it : Iterates(it) <=> IsIter(it, "write", d, base, s, Len(s))
    BY SeqDomain DEF IsIter, Step
  <1>3. Len(s) \in Nat /\ DOMAIN s = 1..Len(s)
    BY SeqDomain
  <1> DEFINE it0 == CHOOSE it : Iterates(it)
  <1> HIDE DEF Iterates
  <1>4. Iterates(it0)
    BY <1>2, <1>3, IterExists
  <1> HIDE DEF it0
  <1>5. \E A : IsRun(A, "write", d, base, s) /\ A[Len(s)] = it0[1..Len(s)]
    BY <1>2, <1>3, <1>4, IterRuns
  <1> QED BY <1>1, <1>3, <1>5 DEF it0

LEMMA AddressRuns ==
    ASSUME NEW d, NEW base, NEW s, IsSeq(s)
    PROVE  \E A : IsRun(A, "address", d, base, s) /\ A[Len(s)] = AddressFold(d, base, s)
  <1> DEFINE Iterates(it) ==
                 it = [S \in SUBSET (DOMAIN s) |->
                       IF S = {} THEN base
                       ELSE Fill(it[S \ {Max(S)}], addressSubKey(d.name, s[Max(S)]), addressSubZeroDefault(s[Max(S)]))]
  <1>1. AddressFold(d, base, s) = (CHOOSE it : Iterates(it))[DOMAIN s]
    BY DEF FoldLeft, MapThenFoldSet, AddressFold
  <1>2. \A it : Iterates(it) <=> IsIter(it, "address", d, base, s, Len(s))
    BY SeqDomain DEF IsIter, Step
  <1>3. Len(s) \in Nat /\ DOMAIN s = 1..Len(s)
    BY SeqDomain
  <1> DEFINE it0 == CHOOSE it : Iterates(it)
  <1> HIDE DEF Iterates
  <1>4. Iterates(it0)
    BY <1>2, <1>3, IterExists
  <1> HIDE DEF it0
  <1>5. \E A : IsRun(A, "address", d, base, s) /\ A[Len(s)] = it0[1..Len(s)]
    BY <1>2, <1>3, <1>4, IterRuns
  <1> QED BY <1>1, <1>3, <1>5 DEF it0

LEMMA SeedRuns ==
    ASSUME NEW d, NEW base, NEW s, IsSeq(s)
    PROVE  \E A : IsRun(A, "seed", d, base, s) /\ A[Len(s)] = SeedFold(d, base, s)
  <1> DEFINE Iterates(it) ==
                 it = [S \in SUBSET (DOMAIN s) |->
                       IF S = {} THEN base ELSE (IF isVirtualRelation(s[Max(S)]) THEN it[S \ {Max(S)}]
                       ELSE LET all == FillAddress(it[S \ {Max(S)}], s[Max(S)])
                            IN  Fill(all, s[Max(S)].name, SeedOf(d, s[Max(S)], all)))]
  <1>1. SeedFold(d, base, s) = (CHOOSE it : Iterates(it))[DOMAIN s]
    BY DEF FoldLeft, MapThenFoldSet, SeedFold
  <1>2. \A it : Iterates(it) <=> IsIter(it, "seed", d, base, s, Len(s))
    BY SeqDomain DEF IsIter, Step
  <1>3. Len(s) \in Nat /\ DOMAIN s = 1..Len(s)
    BY SeqDomain
  <1> DEFINE it0 == CHOOSE it : Iterates(it)
  <1> HIDE DEF Iterates
  <1>4. Iterates(it0)
    BY <1>2, <1>3, IterExists
  <1> HIDE DEF it0
  <1>5. \E A : IsRun(A, "seed", d, base, s) /\ A[Len(s)] = it0[1..Len(s)]
    BY <1>2, <1>3, <1>4, IterRuns
  <1> QED BY <1>1, <1>3, <1>5 DEF it0

-----------------------------------------------------------------------------
(* The depth-first order (DepthFirst).                                     *)

LEMMA SeqOfMap ==
    ASSUME NEW n \in Nat, NEW f, DOMAIN f = 1..n, f = [i \in 1..n |-> f[i]]
    PROVE  IsSeq(f)
  <1> DEFINE S == ToSet(f)
  <1>1. \A i \in 1..n : f[i] \in S
    BY DEF ToSet
  <1> HIDE DEF S
  <1>2. f \in Seq(S)
    BY <1>1
  <1> QED BY <1>2, SeqOfItself

LEMMA AppendedSet == ASSUME NEW s, IsSeq(s), NEW e PROVE ToSet(Append(s, e)) = ToSet(s) \union {e}
  <1>1. /\ Len(s) \in Nat /\ DOMAIN s = 1..Len(s) /\ DOMAIN Append(s, e) = 1..(Len(s) + 1)
        /\ Append(s, e)[Len(s) + 1] = e
        /\ \A i \in DOMAIN s : Append(s, e)[i] = s[i]
    BY SeqAppend
  <1>2. \A i \in 1..(Len(s) + 1) : i \in 1..Len(s) \/ i = Len(s) + 1
    BY <1>1
  <1>3. 1..Len(s) \subseteq 1..(Len(s) + 1) /\ Len(s) + 1 \in 1..(Len(s) + 1)
    BY <1>1
  <1> QED BY <1>1, <1>2, <1>3 DEF ToSet

LEMMA JoinedSet ==
    ASSUME NEW s, IsSeq(s), NEW r, IsSeq(r)
    PROVE  IsSeq(s \o r) /\ ToSet(s \o r) = ToSet(s) \union ToSet(r)
  <1> DEFINE S == ToSet(s) \union ToSet(r)
  <1>1. s \in Seq(S) /\ r \in Seq(S)
    BY DEF IsSeq
  <1> HIDE DEF S
  <1>2. s \o r \in Seq(S)
    BY <1>1
  <1>3. /\ Len(s) \in Nat /\ Len(r) \in Nat /\ DOMAIN s = 1..Len(s) /\ DOMAIN r = 1..Len(r)
        /\ Len(s \o r) = Len(s) + Len(r) /\ DOMAIN (s \o r) = 1..(Len(s) + Len(r))
    BY <1>1, <1>2
  <1>4. \A i \in 1..(Len(s) + Len(r)) : (s \o r)[i] = IF i <= Len(s) THEN s[i] ELSE r[i - Len(s)]
    BY <1>1, <1>3
  <1>5. ToSet(s \o r) \subseteq ToSet(s) \union ToSet(r)
    <2>1. ASSUME NEW i \in 1..(Len(s) + Len(r)) PROVE (s \o r)[i] \in ToSet(s) \union ToSet(r)
      <3>1. CASE i <= Len(s)
        BY <1>3, <1>4, <3>1 DEF ToSet
      <3>2. CASE ~(i <= Len(s))
        <4>1. i - Len(s) \in 1..Len(r)
          BY <1>3, <3>2
        <4> QED BY <1>3, <1>4, <3>2, <4>1 DEF ToSet
      <3> QED BY <3>1, <3>2
    <2> QED BY <1>3, <2>1 DEF ToSet
  <1>6. ToSet(s) \subseteq ToSet(s \o r)
    <2>1. ASSUME NEW i \in 1..Len(s) PROVE s[i] \in ToSet(s \o r)
      <3>1. i \in 1..(Len(s) + Len(r)) /\ i <= Len(s)
        BY <1>3
      <3> QED BY <1>3, <1>4, <3>1 DEF ToSet
    <2> QED BY <1>3, <2>1 DEF ToSet
  <1>7. ToSet(r) \subseteq ToSet(s \o r)
    <2>1. ASSUME NEW i \in 1..Len(r) PROVE r[i] \in ToSet(s \o r)
      <3>1. Len(s) + i \in 1..(Len(s) + Len(r)) /\ ~(Len(s) + i <= Len(s)) /\ (Len(s) + i) - Len(s) = i
        BY <1>3
      <3>2. (s \o r)[Len(s) + i] = r[i]
        BY <1>4, <3>1
      <3> QED BY <1>3, <3>1, <3>2 DEF ToSet
    <2> QED BY <1>3, <2>1 DEF ToSet
  <1> QED BY <1>2, <1>5, <1>6, <1>7, SeqOfItself

LEMMA SiftRun ==
    ASSUME NEW s, IsSeq(s), NEW S
    PROVE  \E f : /\ f[0] = <<>> /\ Sift(s, S) = f[Len(s)]
                  /\ \A i \in 1..Len(s) : f[i] = IF s[i] \in S THEN Append(f[i - 1], s[i]) ELSE f[i - 1]
  <1> DEFINE Sifts(f, n) ==
                 f = [i \in 0..n |-> IF i = 0 THEN <<>>
                                     ELSE IF s[i] \in S THEN Append(f[i - 1], s[i]) ELSE f[i - 1]]
             T == {n \in Nat : \E f : Sifts(f, n)}
             N == Len(s)
  <1>0. N \in Nat /\ DOMAIN s = 1..N
    BY SeqDomain
  <1>1. 0 \in T
    <2>1. Sifts([i \in 0..0 |-> <<>>], 0)
      OBVIOUS
    <2> HIDE DEF Sifts
    <2> QED BY <2>1
  <1>2. ASSUME NEW n \in Nat, n \in T PROVE n + 1 \in T
    <2>1. PICK f : Sifts(f, n)
      BY <1>2
    <2> DEFINE last == IF s[n + 1] \in S THEN Append(f[n], s[n + 1]) ELSE f[n]
               g == [i \in 0..(n + 1) |-> IF i = n + 1 THEN last ELSE f[i]]
    <2>2. \A i \in 0..n : g[i] = f[i]
      OBVIOUS
    <2>3. g[n + 1] = last
      OBVIOUS
    <2>4. f[0] = <<>> /\ \A i \in 1..n : f[i] = IF s[i] \in S THEN Append(f[i - 1], s[i]) ELSE f[i - 1]
      <3>1. 0 \in 0..n /\ \A i \in 1..n : i \in 0..n /\ i # 0
        OBVIOUS
      <3> QED BY <2>1, <3>1
    <2>5. g = [i \in 0..(n + 1) |-> g[i]]
      OBVIOUS
    <2> HIDE DEF g
    <2>6. \A i \in 1..(n + 1) : g[i] = IF s[i] \in S THEN Append(g[i - 1], s[i]) ELSE g[i - 1]
      <3> SUFFICES ASSUME NEW i \in 1..(n + 1)
                   PROVE  g[i] = IF s[i] \in S THEN Append(g[i - 1], s[i]) ELSE g[i - 1]
        OBVIOUS
      <3>1. i - 1 \in 0..n /\ g[i - 1] = f[i - 1]
        BY <2>2
      <3>2. CASE i \in 1..n
        <4>1. g[i] = f[i]
          BY <2>2, <3>2
        <4> QED BY <2>4, <3>1, <3>2, <4>1
      <3>3. CASE i = n + 1
        <4>1. i - 1 = n
          BY <3>3
        <4> QED BY <2>3, <3>1, <3>3, <4>1
      <3> QED BY <3>2, <3>3
    <2>7. g[0] = <<>>
      BY <2>2, <2>4
    <2>8. Sifts(g, n + 1)
      <3>1. \A i \in 0..(n + 1) : i # 0 => i \in 1..(n + 1)
        OBVIOUS
      <3>2. \A i \in 0..(n + 1) : g[i] = IF i = 0 THEN <<>>
                                      ELSE IF s[i] \in S THEN Append(g[i - 1], s[i]) ELSE g[i - 1]
        BY <2>6, <2>7, <3>1
      <3> QED BY <2>5, <3>2
    <2> HIDE DEF Sifts
    <2> QED BY <2>8
  <1>3. Nat \subseteq T
    <2> HIDE DEF T
    <2> QED BY <1>1, <1>2, Everything
  <1> DEFINE f == CHOOSE x : Sifts(x, N)
  <1>4. Sift(s, S) = f[N]
    BY DEF Sift
  <1>5. Sifts(f, N)
    <2> HIDE DEF Sifts
    <2> QED BY <1>0, <1>3
  <1> HIDE DEF f
  <1>6. f[0] = <<>> /\ \A i \in 1..N : f[i] = IF s[i] \in S THEN Append(f[i - 1], s[i]) ELSE f[i - 1]
    <2>1. 0 \in 0..N /\ \A i \in 1..N : i \in 0..N /\ i # 0
      BY <1>0
    <2> HIDE DEF N
    <2> QED BY <1>5, <2>1
  <1> QED BY <1>4, <1>6

\* t is what s has at the places I, in the order of s.
PartOf(t, s, I) ==
    IsSeq(t) /\ \E h : /\ \A k \in DOMAIN t : h[k] \in I /\ t[k] = s[h[k]]
                       /\ \A k, l \in DOMAIN t : k < l => h[k] < h[l]
                       /\ \A i \in I : \E k \in DOMAIN t : h[k] = i

\* One more place at the end.
LEMMA PartGrows ==
    ASSUME NEW t, NEW s, NEW I \in SUBSET Nat, PartOf(t, s, I), NEW j \in Nat, \A i \in I : i < j
    PROVE  PartOf(Append(t, s[j]), s, I \union {j})
  <1>1. PICK h : /\ \A k \in DOMAIN t : h[k] \in I /\ t[k] = s[h[k]]
                 /\ \A k, l \in DOMAIN t : k < l => h[k] < h[l]
                 /\ \A i \in I : \E k \in DOMAIN t : h[k] = i
    BY DEF PartOf
  <1> DEFINE u == Append(t, s[j])
             n == Len(t)
             g == [k \in 1..(n + 1) |-> IF k = n + 1 THEN j ELSE h[k]]
  <1>2. /\ IsSeq(u) /\ n \in Nat /\ DOMAIN t = 1..n /\ DOMAIN u = 1..(n + 1)
        /\ u[n + 1] = s[j] /\ \A k \in 1..n : u[k] = t[k]
    BY SeqAppend DEF PartOf
  <1> HIDE DEF u, n
  <1>3. g[n + 1] = j /\ \A k \in 1..n : g[k] = h[k]
    BY <1>2
  <1>4. \A k \in 1..(n + 1) : k = n + 1 \/ k \in 1..n
    BY <1>2
  <1>5. 1..n \subseteq 1..(n + 1) /\ n + 1 \in 1..(n + 1)
    BY <1>2
  <1> HIDE DEF g
  <1>6. \A k \in DOMAIN u : g[k] \in I \union {j} /\ u[k] = s[g[k]]
    BY <1>1, <1>2, <1>3, <1>4
  <1>7. ASSUME NEW k \in DOMAIN u, NEW l \in DOMAIN u, k < l PROVE g[k] < g[l]
    <2>1. k \in 1..n
      BY <1>2, <1>7
    <2>2. CASE l = n + 1
      BY <1>1, <1>2, <1>3, <2>1, <2>2
    <2>3. CASE l \in 1..n
      BY <1>1, <1>2, <1>3, <1>7, <2>1, <2>3
    <2> QED BY <1>2, <1>4, <2>2, <2>3
  <1>8. \A i \in I \union {j} : \E k \in DOMAIN u : g[k] = i
    <2> SUFFICES ASSUME NEW i \in I \union {j} PROVE \E k \in DOMAIN u : g[k] = i
      OBVIOUS
    <2>1. CASE i = j
      BY <1>2, <1>3, <1>5, <2>1
    <2>2. CASE i \in I
      <3>1. PICK k \in 1..n : h[k] = i
        BY <1>1, <1>2, <2>2
      <3> QED BY <1>2, <1>3, <1>5, <3>1
    <2> QED BY <2>1, <2>2
  <1> QED BY <1>2, <1>6, <1>7, <1>8 DEF PartOf, u

LEMMA SiftPart ==
    ASSUME NEW s, IsSeq(s), NEW S
    PROVE  PartOf(Sift(s, S), s, {i \in DOMAIN s : s[i] \in S})
  <1> DEFINE N == Len(s)
             I(n) == {i \in 1..n : s[i] \in S}
  <1>1. N \in Nat /\ DOMAIN s = 1..N
    BY SeqDomain
  <1>2. PICK f : /\ f[0] = <<>> /\ Sift(s, S) = f[N]
                 /\ \A i \in 1..N : f[i] = IF s[i] \in S THEN Append(f[i - 1], s[i]) ELSE f[i - 1]
    BY SiftRun
  <1> DEFINE T == {n \in 0..N : PartOf(f[n], s, I(n))}
  <1> HIDE DEF N
  <1>3. 0 \in T
    <2>1. 0 \in 0..N /\ I(0) = {} /\ DOMAIN <<>> = {} /\ IsSeq(<<>>)
      BY <1>1 DEF IsSeq, ToSet
    <2> HIDE DEF I
    <2> QED BY <1>2, <2>1 DEF PartOf
  <1>4. ASSUME NEW n \in 0..(N - 1), n \in T PROVE n + 1 \in T
    <2>1. n \in Nat /\ n + 1 \in 1..N /\ (n + 1) - 1 = n /\ n + 1 \in 0..N
      BY <1>1
    <2>2. f[n + 1] = IF s[n + 1] \in S THEN Append(f[n], s[n + 1]) ELSE f[n]
      BY <1>2, <2>1
    <2>3. I(n) \in SUBSET Nat /\ \A i \in I(n) : i < n + 1
      BY <2>1
    <2>4. I(n + 1) = IF s[n + 1] \in S THEN I(n) \union {n + 1} ELSE I(n)
      <3>1. \A i \in 1..(n + 1) : i = n + 1 \/ i \in 1..n
        BY <2>1
      <3>2. 1..n \subseteq 1..(n + 1) /\ n + 1 \in 1..(n + 1)
        BY <2>1
      <3> QED BY <3>1, <3>2
    <2> HIDE DEF I
    <2>5. PartOf(f[n], s, I(n))
      BY <1>4
    <2>6. PartOf(f[n + 1], s, I(n + 1))
      <3>1. CASE s[n + 1] \in S
        <4>1. n + 1 \in Nat
          BY <2>1
        <4>2. PartOf(Append(f[n], s[n + 1]), s, I(n) \union {n + 1})
          BY <2>3, <2>5, <4>1, PartGrows
        <4> QED BY <2>2, <2>4, <3>1, <4>2
      <3>2. CASE s[n + 1] \notin S
        BY <2>2, <2>4, <2>5, <3>2
      <3> QED BY <3>1, <3>2
    <2> QED BY <2>1, <2>6
  <1>5. \A n \in 0..N : n \in T
    <2> HIDE DEF T
    <2> QED BY <1>1, <1>3, <1>4, UpTo
  <1>6. N \in 0..N
    BY <1>1
  <1>7. PartOf(f[N], s, I(N))
    <2> HIDE DEF I
    <2> QED BY <1>5, <1>6
  <1> QED BY <1>1, <1>2, <1>7

\* A part of a part.
LEMMA PartSift ==
    ASSUME NEW t, NEW s, NEW I \in SUBSET Nat, PartOf(t, s, I), NEW S
    PROVE  PartOf(Sift(t, S), s, {i \in I : s[i] \in S})
  <1> DEFINE u == Sift(t, S)
             J == {k \in DOMAIN t : t[k] \in S}
  <1>1. PICK h : /\ \A k \in DOMAIN t : h[k] \in I /\ t[k] = s[h[k]]
                 /\ \A k, l \in DOMAIN t : k < l => h[k] < h[l]
                 /\ \A i \in I : \E k \in DOMAIN t : h[k] = i
    BY DEF PartOf
  <1>2. PartOf(u, t, J)
    BY SiftPart DEF PartOf
  <1> HIDE DEF u
  <1>3. PICK g : /\ \A k \in DOMAIN u : g[k] \in J /\ u[k] = t[g[k]]
                 /\ \A k, l \in DOMAIN u : k < l => g[k] < g[l]
                 /\ \A i \in J : \E k \in DOMAIN u : g[k] = i
    BY <1>2 DEF PartOf
  <1> DEFINE m == [k \in DOMAIN u |-> h[g[k]]]
             K == {i \in I : s[i] \in S}
  <1>4. \A k \in DOMAIN u : m[k] = h[g[k]] /\ g[k] \in DOMAIN t /\ t[g[k]] \in S
    BY <1>3
  <1> HIDE DEF m
  <1>5. \A k \in DOMAIN u : m[k] \in K /\ u[k] = s[m[k]]
    BY <1>1, <1>3, <1>4
  <1>6. \A k, l \in DOMAIN u : k < l => m[k] < m[l]
    BY <1>1, <1>3, <1>4
  <1>7. \A i \in K : \E k \in DOMAIN u : m[k] = i
    <2> SUFFICES ASSUME NEW i \in K PROVE \E k \in DOMAIN u : m[k] = i
      OBVIOUS
    <2>1. PICK l \in DOMAIN t : h[l] = i
      BY <1>1
    <2>2. l \in J
      BY <1>1, <2>1
    <2>3. PICK k \in DOMAIN u : g[k] = l
      BY <1>3, <2>2
    <2> QED BY <1>4, <2>1, <2>3
  <1>8. IsSeq(u)
    BY <1>2 DEF PartOf
  <1> HIDE DEF K
  <1> QED BY <1>5, <1>6, <1>7, <1>8 DEF PartOf, K, u

LEMMA PartLen ==
    ASSUME NEW t, NEW s, NEW I \in SUBSET Nat, PartOf(t, s, I)
    PROVE  /\ IsFiniteSet(I) /\ Cardinality(I) = Len(t) /\ Len(t) \in Nat /\ DOMAIN t = 1..Len(t)
           /\ ToSet(t) = {s[i] : i \in I}
  <1> DEFINE n == Len(t)
  <1>1. n \in Nat /\ DOMAIN t = 1..n
    BY SeqDomain DEF PartOf
  <1>2. PICK h : /\ \A k \in DOMAIN t : h[k] \in I /\ t[k] = s[h[k]]
                 /\ \A k, l \in DOMAIN t : k < l => h[k] < h[l]
                 /\ \A i \in I : \E k \in DOMAIN t : h[k] = i
    BY DEF PartOf
  <1> DEFINE m == [k \in 1..n |-> h[k]]
  <1> HIDE DEF n
  <1>3. m \in [1..n -> I] /\ \A k \in 1..n : m[k] = h[k]
    BY <1>1, <1>2
  <1> HIDE DEF m
  <1>4. \A k, l \in 1..n : m[k] = m[l] => k = l
    <2> SUFFICES ASSUME NEW k \in 1..n, NEW l \in 1..n, k < l PROVE m[k] # m[l]
      BY <1>1
    <2>1. h[k] < h[l] /\ h[k] \in Nat /\ h[l] \in Nat
      BY <1>1, <1>2
    <2> QED BY <1>3, <2>1
  <1>5. m \in Bijection(1..n, I)
    BY <1>1, <1>2, <1>3, <1>4 DEF Bijection, Injection, Surjection, IsInjective
  <1>6. IsFiniteSet(1..n) /\ Cardinality(1..n) = n
    BY <1>1, FS_Interval
  <1>7. IsFiniteSet(I) /\ Cardinality(I) = n
    BY <1>5, <1>6, FS_Bijection DEF ExistsBijection
  <1>8. ToSet(t) = {s[i] : i \in I}
    <2>1. ToSet(t) = {t[k] : k \in DOMAIN t}
      BY DEF ToSet
    <2>2. \A k \in DOMAIN t : t[k] \in {s[i] : i \in I}
      BY <1>2
    <2>3. \A i \in I : s[i] \in {t[k] : k \in DOMAIN t}
      BY <1>2
    <2> QED BY <2>1, <2>2, <2>3
  <1> QED BY <1>1, <1>7, <1>8 DEF n

LEMMA WholePart == ASSUME NEW s, IsSeq(s) PROVE PartOf(s, s, DOMAIN s)
  <1> DEFINE h == [k \in DOMAIN s |-> k]
  <1>1. \A k \in DOMAIN s : h[k] = k
    OBVIOUS
  <1> HIDE DEF h
  <1>2. \A k \in DOMAIN s : h[k] \in DOMAIN s /\ s[k] = s[h[k]]
    BY <1>1
  <1>3. \A k, l \in DOMAIN s : k < l => h[k] < h[l]
    BY <1>1
  <1>4. \A i \in DOMAIN s : \E k \in DOMAIN s : h[k] = i
    BY <1>1
  <1> QED BY <1>2, <1>3, <1>4 DEF PartOf

\* Sifting a sequence keeps what is in the set, and nothing else.
LEMMA SiftedSet ==
    ASSUME NEW s, IsSeq(s), NEW S
    PROVE  IsSeq(Sift(s, S)) /\ ToSet(Sift(s, S)) = ToSet(s) \intersect S
  <1> DEFINE I == {i \in DOMAIN s : s[i] \in S}
  <1>1. I \in SUBSET Nat
    <2>1. Len(s) \in Nat /\ DOMAIN s = 1..Len(s)
      BY SeqDomain
    <2> DEFINE n == Len(s)
    <2>2. n \in Nat
      BY <2>1
    <2> HIDE DEF n
    <2>3. 1..n \in SUBSET Nat
      BY <2>2
    <2> QED BY <2>1, <2>3 DEF n
  <1>2. {s[i] : i \in I} = ToSet(s) \intersect S
    BY DEF ToSet
  <1>3. PartOf(Sift(s, S), s, I)
    BY SiftPart
  <1> HIDE DEF I
  <1>4. IsSeq(Sift(s, S))
    BY <1>3 DEF PartOf
  <1>5. \A x : x \in ToSet(Sift(s, S)) <=> \E i \in I : x = s[i]
    BY <1>1, <1>3, PartLen
  <1>6. ToSet(Sift(s, S)) = {s[i] : i \in I}
    BY <1>5
  <1> QED BY <1>2, <1>4, <1>6

LEMMA AlsoSet ==
    ASSUME NEW acc, IsSeq(acc), NEW s, IsSeq(s)
    PROVE  IsSeq(Also(acc, s)) /\ ToSet(Also(acc, s)) = ToSet(acc) \union ToSet(s)
  <1> DEFINE r == Sift(s, ToSet(s) \ ToSet(acc))
  <1>1. IsSeq(r) /\ ToSet(r) = ToSet(s) \intersect (ToSet(s) \ ToSet(acc))
    BY SiftedSet
  <1>2. Also(acc, s) = acc \o r
    BY DEF Also
  <1> HIDE DEF r
  <1> QED BY <1>1, <1>2, JoinedSet

\* Merging sequences gives one with the elements of all of them.
LEMMA MergedSet ==
    ASSUME NEW ss, IsSeq(ss), \A i \in DOMAIN ss : IsSeq(ss[i])
    PROVE  /\ IsSeq(FoldLeft(Also, <<>>, ss))
           /\ ToSet(FoldLeft(Also, <<>>, ss)) = UNION {ToSet(ss[i]) : i \in DOMAIN ss}
  <1> DEFINE N == Len(ss)
  <1>0. N \in Nat /\ DOMAIN ss = 1..N
    BY SeqDomain
  <1>1. PICK A : IsRun(A, "also", NULL, <<>>, ss) /\ A[N] = FoldLeft(Also, <<>>, ss)
    BY AlsoRuns
  <1>2. A[0] = <<>> /\ \A k \in 1..N : A[k] = Also(A[k - 1], ss[k])
    BY <1>1 DEF IsRun, Step
  <1> DEFINE Prefix(n) == UNION {ToSet(ss[i]) : i \in 1..n}
             P == {n \in 0..N : IsSeq(A[n]) /\ ToSet(A[n]) = Prefix(n)}
  <1>3. 0 \in P
    <2>1. IsSeq(<<>>) /\ ToSet(<<>>) = {} /\ Prefix(0) = {} /\ 0 \in 0..N
      BY <1>0 DEF IsSeq, ToSet
    <2> QED BY <1>2, <2>1
  <1>4. ASSUME NEW n \in 0..(N - 1), n \in P PROVE n + 1 \in P
    <2>1. n + 1 \in 1..N /\ n + 1 \in 0..N /\ (n + 1) - 1 = n
      BY <1>0
    <2>2. A[n + 1] = Also(A[n], ss[n + 1])
      BY <1>2, <2>1
    <2>3. IsSeq(A[n]) /\ ToSet(A[n]) = Prefix(n) /\ IsSeq(ss[n + 1])
      BY <1>0, <1>4, <2>1
    <2>4. Prefix(n + 1) = Prefix(n) \union ToSet(ss[n + 1])
      <3>1. 1..(n + 1) = (1..n) \union {n + 1}
        BY <1>0
      <3> QED BY <3>1
    <2> HIDE DEF Prefix
    <2> QED BY <2>1, <2>2, <2>3, <2>4, AlsoSet
  <1>5. N \in P
    <2>1. N \in 0..N
      BY <1>0
    <2> HIDE DEF P
    <2> QED BY <1>0, <1>3, <1>4, <2>1, UpTo
  <1> QED BY <1>0, <1>1, <1>5

-----------------------------------------------------------------------------
(* PostOrder: deps gives the nodes that each node depends on.              *)

Merge(ss) == FoldLeft(Also, <<>>, ss)
Visited(deps, p, k, n) == Also(Merge([i \in DOMAIN deps[n] |-> p[k - 1][deps[n][i]]]), <<n>>)
IsPost(deps, p, m) ==
    p = [k \in 0..m |-> [n \in DOMAIN deps |-> IF k = 0 THEN <<n>> ELSE Visited(deps, p, k, n)]]
IsOrder(deps, nodes, order) ==
    \E p : IsPost(deps, p, Len(nodes)) /\ order = Merge([i \in DOMAIN nodes |-> p[Len(nodes)][nodes[i]]])
SelfContained(deps) == \A n \in DOMAIN deps : IsSeq(deps[n]) /\ ToSet(deps[n]) \subseteq DOMAIN deps

LEMMA PostExists ==
    ASSUME NEW deps, SelfContained(deps), NEW m0 \in Nat
    PROVE  \E p : IsPost(deps, p, m0)
  <1> DEFINE C == DOMAIN deps
             T == {m \in Nat : \E p : IsPost(deps, p, m)}
  <1>1. 0 \in T
    <2> DEFINE p == [k \in 0..0 |-> [n \in C |-> <<n>>]]
    <2>1. IsPost(deps, p, 0)
      BY DEF IsPost
    <2> HIDE DEF p
    <2> QED BY <2>1
  <1>2. ASSUME NEW m \in Nat, m \in T PROVE m + 1 \in T
    <2>1. PICK p : IsPost(deps, p, m)
      BY <1>2
    <2> DEFINE q == [k \in 0..(m + 1) |-> [n \in C |-> IF k = m + 1 THEN Visited(deps, p, k, n) ELSE p[k][n]]]
    <2>2. \A k \in 0..m, n \in C : q[k][n] = p[k][n]
      BY \A k \in 0..m : k \in 0..(m + 1) /\ k # m + 1
    <2>3. \A n \in C : q[m + 1][n] = Visited(deps, p, m + 1, n)
      BY m + 1 \in 0..(m + 1)
    <2>4. q = [k \in 0..(m + 1) |-> [n \in C |-> q[k][n]]]
      OBVIOUS
    <2>5. \A k \in 0..m, n \in C : p[k][n] = IF k = 0 THEN <<n>> ELSE Visited(deps, p, k, n)
      BY <2>1 DEF IsPost
    <2> HIDE DEF q
    <2>6. ASSUME NEW k \in 1..(m + 1), NEW n \in C PROVE Visited(deps, q, k, n) = Visited(deps, p, k, n)
      <3>1. k - 1 \in 0..m
        OBVIOUS
      <3>2. \A i \in DOMAIN deps[n] : deps[n][i] \in C
        BY DEF SelfContained, ToSet
      <3>3. \A i \in DOMAIN deps[n] : q[k - 1][deps[n][i]] = p[k - 1][deps[n][i]]
        BY <2>2, <3>1, <3>2
      <3>4. [i \in DOMAIN deps[n] |-> q[k - 1][deps[n][i]]]
                = [i \in DOMAIN deps[n] |-> p[k - 1][deps[n][i]]]
        BY <3>3
      <3> QED BY <3>4 DEF Visited
    <2>7. ASSUME NEW k \in 0..(m + 1), NEW n \in C
          PROVE  q[k][n] = IF k = 0 THEN <<n>> ELSE Visited(deps, q, k, n)
      <3>1. CASE k = m + 1
        <4>1. k \in 1..(m + 1) /\ k # 0
          BY <3>1
        <4> QED BY <2>3, <2>6, <3>1, <4>1
      <3>2. CASE k # m + 1
        <4>1. k \in 0..m
          BY <3>2
        <4>2. k # 0 => k \in 1..(m + 1)
          OBVIOUS
        <4> QED BY <2>2, <2>5, <2>6, <4>1, <4>2
      <3> QED BY <3>1, <3>2
    <2>8. IsPost(deps, q, m + 1)
      BY <2>4, <2>7 DEF IsPost
    <2> QED BY <2>8
  <1>3. Nat \subseteq T
    <2> HIDE DEF T
    <2> QED BY <1>1, <1>2, Everything
  <1> QED BY <1>3

LEMMA OnePost ==
    ASSUME NEW deps, SelfContained(deps), NEW m \in Nat, NEW p, IsPost(deps, p, m), NEW q, IsPost(deps, q, m)
    PROVE  p = q
  <1> DEFINE C == DOMAIN deps
             P == {k \in 0..m : p[k] = q[k]}
             V(k, n) == Visited(deps, p, k, n)
             W(k, n) == Visited(deps, q, k, n)
  <1>1. p = [k \in 0..m |-> [n \in C |-> IF k = 0 THEN <<n>> ELSE V(k, n)]]
    BY DEF IsPost
  <1>2. q = [k \in 0..m |-> [n \in C |-> IF k = 0 THEN <<n>> ELSE W(k, n)]]
    BY DEF IsPost
  <1>3. \A k \in 0..m, n \in C : p[k - 1] = q[k - 1] => V(k, n) = W(k, n)
    BY DEF Visited
  <1> HIDE DEF V, W, C
  <1>4. /\ \A k \in 0..m : p[k] = [n \in C |-> IF k = 0 THEN <<n>> ELSE V(k, n)]
        /\ \A k \in 0..m : q[k] = [n \in C |-> IF k = 0 THEN <<n>> ELSE W(k, n)]
    BY <1>1, <1>2
  <1>5. 0 \in P
    <2>1. 0 \in 0..m
      OBVIOUS
    <2>2. p[0] = [n \in C |-> <<n>>] /\ q[0] = [n \in C |-> <<n>>]
      BY <1>4, <2>1
    <2> QED BY <2>1, <2>2
  <1>6. ASSUME NEW k \in 0..(m - 1), k \in P PROVE k + 1 \in P
    <2>1. k + 1 \in 0..m /\ (k + 1) - 1 = k /\ k + 1 # 0
      OBVIOUS
    <2>2. \A n \in C : V(k + 1, n) = W(k + 1, n)
      BY <1>3, <1>6, <2>1
    <2>3. p[k + 1] = [n \in C |-> V(k + 1, n)] /\ q[k + 1] = [n \in C |-> W(k + 1, n)]
      BY <1>4, <2>1
    <2> QED BY <2>1, <2>2, <2>3
  <1>7. \A k \in 0..m : k \in P
    <2> HIDE DEF P
    <2> QED BY <1>5, <1>6, UpTo
  <1>8. p = [k \in 0..m |-> p[k]] /\ q = [k \in 0..m |-> q[k]]
    BY <1>1, <1>2
  <1> QED BY <1>7, <1>8

LEMMA OneOrder ==
    ASSUME NEW deps, SelfContained(deps), NEW nodes, IsSeq(nodes),
           NEW a, IsOrder(deps, nodes, a), NEW b, IsOrder(deps, nodes, b)
    PROVE  a = b
  BY OnePost, SeqDomain DEF IsOrder

\* The order has every node, and no other.
LEMMA OrderCovers ==
    ASSUME NEW deps, SelfContained(deps), NEW nodes, IsSeq(nodes), ToSet(nodes) = DOMAIN deps,
           NEW order, IsOrder(deps, nodes, order)
    PROVE  IsSeq(order) /\ ToSet(order) = DOMAIN deps
  <1> DEFINE C == DOMAIN deps
             N == Len(nodes)
  <1>1. N \in Nat /\ DOMAIN nodes = 1..N
    BY SeqDomain
  <1>2. PICK p : IsPost(deps, p, N) /\ order = Merge([i \in DOMAIN nodes |-> p[N][nodes[i]]])
    BY DEF IsOrder
  <1> DEFINE ss == [i \in DOMAIN nodes |-> p[N][nodes[i]]]
  <1>4. \A k \in 0..N, n \in C : p[k][n] = IF k = 0 THEN <<n>> ELSE Visited(deps, p, k, n)
    <2> DEFINE V(k, n) == Visited(deps, p, k, n)
    <2>1. p = [k \in 0..N |-> [n \in C |-> IF k = 0 THEN <<n>> ELSE V(k, n)]]
      BY <1>2 DEF IsPost
    <2> HIDE DEF N, C, V
    <2>2. \A k \in 0..N : p[k] = [n \in C |-> IF k = 0 THEN <<n>> ELSE V(k, n)]
      BY <2>1
    <2>3. \A k \in 0..N, n \in C : p[k][n] = IF k = 0 THEN <<n>> ELSE V(k, n)
      BY <2>2
    <2> QED BY Zenon, <2>3 DEF V, C
  <1> DEFINE Good(x, n) == IsSeq(x) /\ ToSet(x) \subseteq C /\ n \in ToSet(x)
             P == {k \in 0..N : \A n \in C : Good(p[k][n], n)}
  <1>5. \A n : IsSeq(<<n>>) /\ ToSet(<<n>>) = {n}
    BY DEF IsSeq, ToSet
  <1>6. 0 \in P
    <2>1. 0 \in 0..N
      BY <1>1
    <2> SUFFICES ASSUME NEW n \in C PROVE Good(p[0][n], n)
      BY <2>1
    <2>2. p[0][n] = <<n>>
      BY <1>4, <2>1
    <2>3. ToSet(<<n>>) \subseteq C /\ n \in ToSet(<<n>>)
      BY <1>5
    <2> HIDE DEF C
    <2> QED BY <1>5, <2>2, <2>3
  <1>7. ASSUME NEW k \in 0..(N - 1), k \in P PROVE k + 1 \in P
    <2>1. k + 1 \in 0..N /\ k + 1 # 0 /\ (k + 1) - 1 = k
      BY <1>1
    <2> SUFFICES ASSUME NEW n \in C PROVE Good(p[k + 1][n], n)
      BY <2>1
    <2> DEFINE up == deps[n]
               below == [i \in DOMAIN up |-> p[k][up[i]]]
    <2>2. p[k + 1][n] = Also(Merge(below), <<n>>)
      BY <1>4, <2>1 DEF Visited
    <2>3. IsSeq(up) /\ ToSet(up) \subseteq C
      BY DEF SelfContained
    <2>4. DOMAIN up = 1..Len(up) /\ Len(up) \in Nat
      BY <2>3, SeqDomain
    <2>5. \A i \in DOMAIN up : up[i] \in C
      BY <2>3 DEF ToSet
    <2>6. \A i \in DOMAIN below : IsSeq(below[i]) /\ ToSet(below[i]) \subseteq C
      BY <1>7, <2>5
    <2>7. IsSeq(below)
      <3>1. DOMAIN below = 1..Len(up) /\ below = [i \in 1..Len(up) |-> below[i]]
        BY <2>4
      <3> HIDE DEF below
      <3> QED BY <2>4, <3>1, SeqOfMap
    <2> HIDE DEF below, up
    <2>8. IsSeq(Merge(below)) /\ ToSet(Merge(below)) \subseteq C
      BY <2>6, <2>7, MergedSet DEF Merge
    <2>9. IsSeq(p[k + 1][n]) /\ ToSet(p[k + 1][n]) = ToSet(Merge(below)) \union {n}
      BY <1>5, <2>2, <2>8, AlsoSet
    <2> QED BY <2>8, <2>9
  <1>8. \A n \in C : Good(p[N][n], n)
    <2>1. N \in 0..N
      BY <1>1
    <2>2. \A k \in 0..N : k \in P
      <3> HIDE DEF P, N
      <3> QED BY <1>1, <1>6, <1>7, UpTo
    <2> QED BY <2>1, <2>2
  <1>9. \A i \in DOMAIN ss : IsSeq(ss[i]) /\ ToSet(ss[i]) \subseteq C /\ nodes[i] \in ToSet(ss[i])
    BY <1>8 DEF ToSet
  <1>10. IsSeq(ss) /\ DOMAIN ss = DOMAIN nodes
    <2>1. DOMAIN ss = 1..N /\ ss = [i \in 1..N |-> ss[i]]
      BY <1>1
    <2> HIDE DEF ss, N
    <2> QED BY <1>1, <2>1, SeqOfMap
  <1>3. order = Merge(ss)
    BY <1>2
  <1> HIDE DEF ss
  <1>11. IsSeq(Merge(ss)) /\ ToSet(Merge(ss)) = UNION {ToSet(ss[i]) : i \in DOMAIN ss}
    BY <1>9, <1>10, MergedSet DEF Merge
  <1>12. C \subseteq UNION {ToSet(ss[i]) : i \in DOMAIN ss}
    BY <1>9, <1>10 DEF ToSet
  <1> QED BY <1>3, <1>9, <1>11, <1>12

-----------------------------------------------------------------------------
(* The computed fields of a form (behaviors.ts).                           *)
(*                                                                         *)
(* A form is well declared when its fields have different names and a      *)
(* function reads only what it declares, a stored field among it; what the *)
(* presets of an option, an address and a handler of the entity set are    *)
(* other fields than the computed ones (no preset sets infinitely many).   *)

ComputedKeys(d) == {f.name : f \in ToSet(Computed(d))}
SeededKeys(d) == {f.name : f \in {g \in ToSet(d.fields) : ~isVirtualRelation(g)}}

WellDeclared(d) ==
    /\ IsSeq(d.fields)
    /\ \A i, j \in DOMAIN d.fields : d.fields[i].name = d.fields[j].name => i = j
    /\ \A f \in ToSet(Computed(d)) :
          /\ IsSeq(Functions[f.compute].depends)
          /\ Depends(f) \intersect SeededKeys(d) # {}
          /\ \A a, b : (\A k \in Depends(f) : Value(a, k) = Value(b, k))
                     => Result(f.compute, a) = Result(f.compute, b)
    /\ \A f \in ToSet(d.fields) :
          /\ \A o \in DOMAIN f.presets : /\ IsFiniteSet(DOMAIN f.presets[o])
                                         /\ DOMAIN f.presets[o] \intersect ComputedKeys(d) = {}
          /\ f.type = "address" =>
                \A s \in ToSet(ADDRESS_SUFFIXES) : addressSubKey(f.name, s) \notin ComputedKeys(d)
    /\ \A h \in ToSet(Handlers) :
          h.entity = d.entity => \A a : DOMAIN Patch(h.name, a) \intersect ComputedKeys(d) = {}

\* The computed fields are fields with a function, each known by its name.
LEMMA ComputedFields ==
    ASSUME NEW d, WellDeclared(d)
    PROVE  /\ IsSeq(Computed(d)) /\ IsSeq(ComputedNames(d))
           /\ ToSet(Computed(d)) = {f \in ToSet(d.fields) : f.compute # Omitted}
           /\ ToSet(ComputedNames(d)) = ComputedKeys(d)
           /\ \A f \in ToSet(d.fields) : FieldNamed(d, f.name) = f
           /\ \A n \in ComputedKeys(d) : FieldNamed(d, n) \in ToSet(Computed(d)) /\ FieldNamed(d, n).name = n
  <1>0. IsSeq(d.fields) /\ \A i, j \in DOMAIN d.fields : d.fields[i].name = d.fields[j].name => i = j
    BY DEF WellDeclared
  <1>1. IsSeq(Computed(d)) /\ ToSet(Computed(d)) = {f \in ToSet(d.fields) : f.compute # Omitted}
    <2>1. ToSet(d.fields) \intersect {f \in ToSet(d.fields) : f.compute # Omitted}
              = {f \in ToSet(d.fields) : f.compute # Omitted}
      OBVIOUS
    <2> QED BY <1>0, <2>1, SiftedSet DEF Computed
  <1>2. IsSeq(ComputedNames(d)) /\ ToSet(ComputedNames(d)) = ComputedKeys(d)
    <2> DEFINE c == Computed(d)
               r == ComputedNames(d)
    <2>1. r = [i \in DOMAIN c |-> c[i].name]
      BY DEF ComputedNames
    <2>2. DOMAIN c = 1..Len(c) /\ Len(c) \in Nat
      BY <1>1, SeqDomain
    <2>3. ComputedKeys(d) = {f.name : f \in ToSet(c)}
      BY DEF ComputedKeys
    <2> HIDE DEF c, r
    <2>4. ToSet(r) = {f.name : f \in ToSet(c)}
      BY <2>1 DEF ToSet
    <2>5. IsSeq(r)
      BY <2>1, <2>2, SeqOfMap
    <2> QED BY <2>3, <2>4, <2>5 DEF r
  <1>3. ASSUME NEW f \in ToSet(d.fields) PROVE FieldNamed(d, f.name) = f
    <2>1. PICK i \in DOMAIN d.fields : d.fields[i] = f
      BY DEF ToSet
    <2> DEFINE j == CHOOSE k \in DOMAIN d.fields : d.fields[k].name = f.name
    <2>2. j \in DOMAIN d.fields /\ d.fields[j].name = f.name
      BY <2>1
    <2>3. FieldNamed(d, f.name) = d.fields[j]
      BY DEF FieldNamed
    <2> HIDE DEF j
    <2> QED BY <1>0, <2>1, <2>2, <2>3
  <1>4. ASSUME NEW n \in ComputedKeys(d)
        PROVE  FieldNamed(d, n) \in ToSet(Computed(d)) /\ FieldNamed(d, n).name = n
    <2>1. PICK f \in ToSet(Computed(d)) : f.name = n
      BY DEF ComputedKeys
    <2> QED BY <1>1, <1>3, <2>1
  <1> QED BY <1>1, <1>2, <1>3, <1>4

LEMMA UpstreamOf ==
    ASSUME NEW d, WellDeclared(d), NEW n \in ComputedKeys(d)
    PROVE  /\ IsSeq(Upstream(d, n))
           /\ ToSet(Upstream(d, n)) = Depends(FieldNamed(d, n)) \intersect ComputedKeys(d)
  <1>1. FieldNamed(d, n) \in ToSet(Computed(d))
    BY ComputedFields
  <1>2. IsSeq(Functions[FieldNamed(d, n).compute].depends)
    BY <1>1 DEF WellDeclared
  <1>3. Upstream(d, n) = Sift(Functions[FieldNamed(d, n).compute].depends, ComputedKeys(d))
    BY DEF Upstream, ComputedKeys
  <1> QED BY <1>2, <1>3, SiftedSet DEF Depends

UpstreamOfAll(d) == [n \in ComputedKeys(d) |-> Upstream(d, n)]

LEMMA ComputeOrderIs ==
    ASSUME NEW d, WellDeclared(d)
    PROVE  SelfContained(UpstreamOfAll(d)) /\ IsOrder(UpstreamOfAll(d), ComputedNames(d), ComputeOrder(d))
  <1> DEFINE C == ComputedKeys(d)
             names == ComputedNames(d)
             N == Len(names)
             deps == UpstreamOfAll(d)
             Goes(q) == q = [k \in 0..N |-> [n \in ToSet(names) |->
                          IF k = 0 THEN <<n>>
                          ELSE Also(FoldLeft(Also, <<>>, [i \in DOMAIN Upstream(d, n) |-> q[k - 1][Upstream(d, n)[i]]]), <<n>>)]]
             post == CHOOSE q : Goes(q)
  <1>0. IsSeq(names) /\ ToSet(names) = C
    BY ComputedFields
  <1>1. N \in Nat
    BY <1>0, SeqDomain
  <1>2. DOMAIN deps = C /\ \A n \in C : deps[n] = Upstream(d, n)
    BY DEF UpstreamOfAll
  <1>3. SelfContained(deps)
    BY <1>2, UpstreamOf DEF SelfContained
  <1>4. ComputeOrder(d) = Merge([i \in DOMAIN names |-> post[N][names[i]]])
    <2>1. ComputeOrder(d) = FoldLeft(Also, <<>>, [i \in DOMAIN names |-> post[N][names[i]]])
      BY DEF ComputeOrder, PostOrder
    <2> HIDE DEF post
    <2> QED BY <2>1 DEF Merge
  <1> HIDE DEF deps
  <1>5. \A q : IsPost(deps, q, N) <=> Goes(q)
    <2> SUFFICES ASSUME NEW q PROVE IsPost(deps, q, N) <=> Goes(q)
      OBVIOUS
    <2> DEFINE V(k, n) == Visited(deps, q, k, n)
               W(k, n) == Also(FoldLeft(Also, <<>>, [i \in DOMAIN Upstream(d, n) |-> q[k - 1][Upstream(d, n)[i]]]), <<n>>)
    <2>1. \A n \in C : \A k : V(k, n) = W(k, n)
      BY <1>2 DEF Visited, Merge
    <2>2. IsPost(deps, q, N) <=> q = [k \in 0..N |-> [n \in C |-> IF k = 0 THEN <<n>> ELSE V(k, n)]]
      BY <1>2 DEF IsPost
    <2>3. Goes(q) <=> q = [k \in 0..N |-> [n \in C |-> IF k = 0 THEN <<n>> ELSE W(k, n)]]
      BY <1>0
    <2> HIDE DEF V, W, Goes, C, N
    <2>4. [k \in 0..N |-> [n \in C |-> IF k = 0 THEN <<n>> ELSE V(k, n)]]
            = [k \in 0..N |-> [n \in C |-> IF k = 0 THEN <<n>> ELSE W(k, n)]]
      BY <2>1
    <2> QED BY <2>2, <2>3, <2>4
  <1> HIDE DEF Goes
  <1>6. IsPost(deps, post, N)
    BY <1>1, <1>3, <1>5, PostExists
  <1> HIDE DEF post
  <1>7. IsOrder(deps, names, ComputeOrder(d))
    BY <1>4, <1>6 DEF IsOrder
  <1> QED BY <1>3, <1>7 DEF deps

\* The plan has every computed field, and no other.
LEMMA ComputeOrderCovers ==
    ASSUME NEW d, WellDeclared(d)
    PROVE  IsSeq(ComputeOrder(d)) /\ ToSet(ComputeOrder(d)) = ComputedKeys(d)
  <1>1. DOMAIN UpstreamOfAll(d) = ComputedKeys(d)
    BY DEF UpstreamOfAll
  <1> QED BY <1>1, ComputedFields, ComputeOrderIs, OrderCovers

-----------------------------------------------------------------------------
(* A computed field is due, or fresh: see applyBehaviors.                  *)

Due(acc, f) == acc.changed = ComputeOnly \/ acc.changed \intersect Depends(f) # {}
Right(draft_, f) == Value(draft_, f.name) = Result(f.compute, draft_)
Pending(d, acc) == \A f \in ToSet(Computed(d)) : Due(acc, f) \/ Right(acc.draft, f)

\* What a draft holds once another has been put over it.
LEMMA ValueOver ==
    ASSUME NEW top, NEW below, NEW k
    PROVE  Value(Over(top, below), k) = IF k \in DOMAIN top THEN top[k] ELSE Value(below, k)
  BY DEF Value, Over

LEMMA ValueWith ==
    ASSUME NEW draft_, NEW key, NEW v, NEW k
    PROVE  Value(With(draft_, key, v), k) = IF k = key THEN v ELSE Value(draft_, k)
  <1>1. Value(With(draft_, key, v), k)
            = IF k \in {key} THEN [j \in {key} |-> v][k] ELSE Value(draft_, k)
    BY ValueOver DEF With
  <1> QED BY <1>1

LEMMA StaysFresh ==
    ASSUME NEW d, WellDeclared(d), NEW f \in ToSet(Computed(d)), NEW a, NEW b, Right(a, f),
           Value(b, f.name) = Value(a, f.name), \A k \in Depends(f) : Value(b, k) = Value(a, k)
    PROVE  Right(b, f)
  <1>1. Result(f.compute, b) = Result(f.compute, a)
    BY DEF WellDeclared
  <1> QED BY <1>1 DEF Right

\* The plan lists the computed fields, each after those it reads.
LEMMA OrderedFields ==
    ASSUME NEW d, WellDeclared(d), PlanOK(d)
    PROVE  /\ IsSeq(Ordered(d)) /\ ToSet(Ordered(d)) = ToSet(Computed(d))
           /\ \A i, j \in DOMAIN Ordered(d) : Ordered(d)[i].name = Ordered(d)[j].name => Ordered(d)[i] = Ordered(d)[j]
           /\ \A f \in ToSet(Computed(d)) : f.name \in ComputedKeys(d)
           /\ \A i \in DOMAIN Ordered(d) : \A f \in ToSet(Computed(d)) :
                 f.name \in Depends(Ordered(d)[i]) => \E j \in 1..(i - 1) : Ordered(d)[j] = f
  <1> DEFINE order == ComputeOrder(d)
             s == Ordered(d)
             C == ComputedKeys(d)
             F == ToSet(Computed(d))
  <1>1. IsSeq(order) /\ ToSet(order) = C
    BY ComputeOrderCovers
  <1>2. Len(order) \in Nat /\ DOMAIN order = 1..Len(order)
    BY <1>1, SeqDomain
  <1>3. s = [i \in DOMAIN order |-> FieldNamed(d, order[i])]
    BY DEF Ordered
  <1>4. /\ \A n \in C : FieldNamed(d, n) \in F /\ FieldNamed(d, n).name = n
        /\ \A f \in F : f.name \in C /\ FieldNamed(d, f.name) = f
    BY ComputedFields DEF ComputedKeys
  <1>5. \A i \in DOMAIN order : \A dep \in ToSet(Upstream(d, order[i])) : \E j \in 1..(i - 1) : order[j] = dep
    BY DEF PlanOK, DependenciesFirst
  <1>6. \A i \in DOMAIN order : ToSet(Upstream(d, order[i])) = Depends(FieldNamed(d, order[i])) \intersect C
    BY <1>1, UpstreamOf DEF ToSet
  <1> HIDE DEF s, order, C, F
  <1>7. \A i \in DOMAIN order : order[i] \in C
    BY <1>1 DEF ToSet
  <1>8. \A i \in DOMAIN s : s[i] \in F /\ s[i].name = order[i]
    BY <1>3, <1>4, <1>7
  <1>9. IsSeq(s)
    <2>1. s \in Seq(F)
      <3> DEFINE n == Len(order)
      <3>1. s = [i \in 1..n |-> s[i]] /\ \A i \in 1..n : s[i] \in F
        BY <1>2, <1>3, <1>8
      <3> HIDE DEF n
      <3> QED BY <1>2, <3>1 DEF n
    <2> QED BY <2>1, SeqOfItself
  <1>10. F \subseteq ToSet(s)
    <2> SUFFICES ASSUME NEW f \in F PROVE f \in ToSet(s)
      OBVIOUS
    <2>1. PICK i \in DOMAIN order : order[i] = f.name
      BY <1>1, <1>4 DEF ToSet
    <2>2. s[i] = f /\ i \in DOMAIN s
      BY <1>3, <1>4, <2>1
    <2> QED BY <2>2 DEF ToSet
  <1>11. ToSet(s) = F
    BY <1>8, <1>10 DEF ToSet
  <1>12. \A i, j \in DOMAIN s : s[i].name = s[j].name => s[i] = s[j]
    BY <1>4, <1>8
  <1>13. ASSUME NEW i \in DOMAIN s, NEW f \in F, f.name \in Depends(s[i])
         PROVE  \E j \in 1..(i - 1) : s[j] = f
    <2>1. f.name \in ToSet(Upstream(d, order[i]))
      BY <1>3, <1>4, <1>6, <1>13
    <2>2. PICK j \in 1..(i - 1) : order[j] = f.name
      BY <1>3, <1>5, <2>1
    <2>3. j \in DOMAIN order
      BY <1>2, <1>3, <2>2
    <2> QED BY <1>3, <1>4, <2>2, <2>3
  <1> QED BY <1>4, <1>9, <1>11, <1>12, <1>13 DEF s, C, F

\* A step of the plan leaves its field fresh and disturbs none that is in front of it.
LEMMA RecomputeStep ==
    ASSUME NEW d, WellDeclared(d), PlanOK(d), NEW acc, Pending(d, acc), NEW i \in DOMAIN Ordered(d),
           \A j \in 1..(i - 1) : Right(acc.draft, Ordered(d)[j])
    PROVE  LET next == Recompute(acc, Ordered(d)[i])
           IN  Pending(d, next) /\ \A j \in 1..i : Right(next.draft, Ordered(d)[j])
  <1> DEFINE s == Ordered(d)
             f == s[i]
             v == Result(f.compute, acc.draft)
             next == Recompute(acc, f)
             F == ToSet(Computed(d))
  <1>0. DOMAIN s = 1..Len(s) /\ Len(s) \in Nat
    BY OrderedFields, SeqDomain
  <1>1. f \in F /\ \A j \in DOMAIN s : s[j] \in F
    BY OrderedFields DEF ToSet
  <1>2. \A g \in F : f.name = g.name => f = g
    BY OrderedFields DEF ToSet
  <1>3. \A j \in 1..(i - 1) : j \in DOMAIN s
    BY <1>0
  <1>4. \A j \in 1..i : j = i \/ j \in 1..(i - 1)
    BY <1>0
  <1>5. CASE ~Due(acc, f) \/ Value(acc.draft, f.name) = v
    <2>1. next = acc
      BY <1>5 DEF Recompute, Due
    <2>2. Right(acc.draft, f)
      BY <1>1, <1>5 DEF Pending, Right
    <2> HIDE DEF next, s
    <2> QED BY <1>4, <2>1, <2>2 DEF next, s
  <1>6. CASE Due(acc, f) /\ Value(acc.draft, f.name) # v
    <2>1. /\ next.draft = With(acc.draft, f.name, v)
          /\ next.changed = IF acc.changed = ComputeOnly THEN ComputeOnly ELSE acc.changed \union {f.name}
      BY <1>6 DEF Recompute, Due
    <2>2. ~Right(acc.draft, f)
      BY <1>6 DEF Right
    <2>3. \A j \in 1..(i - 1) : s[j] # f
      BY <2>2
    <2>4. f.name \notin Depends(f)
      BY <1>1, <2>3, OrderedFields
    <2>5. \A k : Value(next.draft, k) = IF k = f.name THEN v ELSE Value(acc.draft, k)
      BY <2>1, ValueWith
    <2> HIDE DEF next
    <2>6. Right(next.draft, f)
      <3>1. Result(f.compute, next.draft) = v
        <4>1. \A k \in Depends(f) : Value(next.draft, k) = Value(acc.draft, k)
          BY <2>4, <2>5
        <4> QED BY <1>1, <4>1 DEF WellDeclared
      <3> QED BY <2>5, <3>1 DEF Right
    <2>7. ASSUME NEW g \in F, g # f, Right(acc.draft, g), f.name \notin Depends(g) PROVE Right(next.draft, g)
      <3>1. g.name # f.name
        BY <1>2, <2>7
      <3>2. Value(next.draft, g.name) = Value(acc.draft, g.name)
        BY <2>5, <3>1
      <3>3. \A k \in Depends(g) : Value(next.draft, k) = Value(acc.draft, k)
        BY <2>5, <2>7
      <3> QED BY <2>7, <3>2, <3>3, StaysFresh
    <2>8. ASSUME NEW g \in F PROVE Due(next, g) \/ Right(next.draft, g)
      <3>1. CASE g = f
        BY <2>6, <3>1
      <3>2. CASE acc.changed = ComputeOnly
        BY <2>1, <3>2 DEF Due
      <3>3. CASE g # f /\ acc.changed # ComputeOnly
        <4>1. next.changed = acc.changed \union {f.name}
          BY <2>1, <3>3
        <4>2. CASE Due(acc, g)
          BY <3>3, <4>1, <4>2 DEF Due
        <4>3. CASE f.name \in Depends(g)
          BY <4>1, <4>3 DEF Due
        <4>4. CASE ~Due(acc, g) /\ f.name \notin Depends(g)
          <5>1. Right(acc.draft, g)
            BY <4>4 DEF Pending
          <5> QED BY <2>7, <3>3, <4>4, <5>1
        <4> QED BY <4>2, <4>3, <4>4
      <3> QED BY <3>1, <3>2, <3>3
    <2>9. ASSUME NEW j \in 1..(i - 1) PROVE Right(next.draft, s[j])
      <3>1. s[j] # f /\ s[j] \in F /\ j \in DOMAIN s
        BY <1>1, <1>3, <2>3
      <3>2. f.name \notin Depends(s[j])
        <4> SUFFICES ASSUME f.name \in Depends(s[j]) PROVE FALSE
          OBVIOUS
        <4>1. \E k \in 1..(j - 1) : s[k] = f
          BY <1>1, <3>1, OrderedFields
        <4>2. \A k \in 1..(j - 1) : k \in 1..(i - 1)
          BY <1>0
        <4> QED BY <2>3, <4>1, <4>2
      <3> QED BY <2>7, <3>1, <3>2
    <2>10. Pending(d, next)
      BY <2>8 DEF Pending
    <2>11. \A j \in 1..i : Right(next.draft, s[j])
      BY <1>4, <2>6, <2>9
    <2> QED BY <2>10, <2>11 DEF next
  <1> QED BY <1>5, <1>6

\* The keys of the second draft are keys of the first.
Keeps(a, b) == DOMAIN b \subseteq DOMAIN a

LEMMA OverKeeps == ASSUME NEW top, NEW below PROVE Keeps(Over(top, below), below)
  BY DEF Keeps, Over
LEMMA KeepsWith ==
    ASSUME NEW draft_, NEW key, NEW v
    PROVE  Keeps(With(draft_, key, v), draft_) /\ key \in DOMAIN With(draft_, key, v)
  BY DEF Keeps, Over, With

LEMMA PlanRuns ==
    ASSUME NEW d, WellDeclared(d), PlanOK(d), NEW acc
    PROVE  LET last == FoldLeft(Recompute, acc, Ordered(d))
           IN  /\ Keeps(last.draft, acc.draft)
               /\ Pending(d, acc) => Agrees(d, last.draft)
  <1> DEFINE s == Ordered(d)
             N == Len(s)
  <1>0. IsSeq(s) /\ N \in Nat /\ DOMAIN s = 1..N
    BY OrderedFields, SeqDomain
  <1>1. PICK A : IsRun(A, "recompute", NULL, acc, s) /\ A[N] = FoldLeft(Recompute, acc, s)
    BY <1>0, RecomputeRuns
  <1>2. A[0] = acc /\ \A k \in 1..N : A[k] = Recompute(A[k - 1], s[k])
    BY <1>1 DEF IsRun, Step
  <1>3. Keeps(A[N].draft, acc.draft)
    <2> DEFINE T == {k \in 0..N : Keeps(A[k].draft, acc.draft)}
    <2> HIDE DEF s, N
    <2>0. 0 \in 0..N /\ N \in 0..N
      BY <1>0
    <2>1. 0 \in T
      BY <1>2, <2>0 DEF Keeps
    <2>2. ASSUME NEW k \in 0..(N - 1), k \in T PROVE k + 1 \in T
      <3>1. k + 1 \in 1..N /\ k + 1 \in 0..N /\ (k + 1) - 1 = k
        BY <1>0
      <3>2. A[k + 1] = Recompute(A[k], s[k + 1])
        BY <1>2, <3>1
      <3>3. Keeps(A[k + 1].draft, A[k].draft)
        BY <3>2, KeepsWith DEF Recompute, Keeps
      <3> QED BY <2>2, <3>1, <3>3 DEF Keeps
    <2>3. \A k \in 0..N : k \in T
      <3> HIDE DEF T
      <3> QED BY <1>0, <2>1, <2>2, UpTo
    <2> QED BY <2>0, <2>3
  <1>4. ASSUME Pending(d, acc) PROVE Agrees(d, A[N].draft)
    <2> DEFINE T == {k \in 0..N : Pending(d, A[k]) /\ \A j \in 1..k : Right(A[k].draft, s[j])}
    <2>0. 0 \in 0..N /\ N \in 0..N
      BY <1>0
    <2>1. 0 \in T
      BY <1>2, <1>4, <2>0
    <2>2. ASSUME NEW k \in 0..(N - 1), k \in T PROVE k + 1 \in T
      <3>1. k + 1 \in 1..N /\ k + 1 \in 0..N /\ (k + 1) - 1 = k
        BY <1>0
      <3>2. A[k + 1] = Recompute(A[k], s[k + 1])
        BY <1>2, <3>1
      <3>3. Pending(d, A[k + 1]) /\ \A j \in 1..(k + 1) : Right(A[k + 1].draft, s[j])
        BY <1>0, <2>2, <3>1, <3>2, RecomputeStep
      <3> QED BY <3>1, <3>3
    <2>3. \A k \in 0..N : k \in T
      <3> HIDE DEF T, N
      <3> QED BY <1>0, <2>1, <2>2, UpTo
    <2>4. \A j \in 1..N : Right(A[N].draft, s[j])
      BY <2>0, <2>3
    <2>5. \A f \in ToSet(Computed(d)) : \E j \in 1..N : s[j] = f
      <3>1. ToSet(s) = ToSet(Computed(d)) /\ DOMAIN s = 1..N
        BY <1>0, OrderedFields
      <3> HIDE DEF s, N
      <3>2. ToSet(s) = {s[j] : j \in 1..N}
        BY <3>1 DEF ToSet
      <3> QED BY <3>1, <3>2
    <2> QED BY <2>4, <2>5 DEF Agrees, Right
  <1> QED BY <1>1, <1>3, <1>4

-----------------------------------------------------------------------------
(* An edit and a seed: first the handlers, then the functions in order.    *)
(*                                                                         *)
(* The invariant of the pass over the functions is Pending: each computed  *)
(* field is right, or has still to be computed.                            *)

\* The handlers of a form set no computed field: what they change makes due what reads it.
LEMMA ReactStep ==
    ASSUME NEW d, WellDeclared(d), NEW acc, NEW h \in ToSet(Handlers), h.entity = d.entity
    PROVE  LET next == React(acc, h)
           IN  /\ Keeps(next.draft, acc.draft)
               /\ acc.changed # ComputeOnly /\ Pending(d, acc) => next.changed # ComputeOnly /\ Pending(d, next)
  <1> DEFINE patch == Patch(h.name, acc.draft)
             news == {k \in DOMAIN patch : Value(acc.draft, k) # patch[k]}
             next == React(acc, h)
             F == ToSet(Computed(d))
  <1>1. CASE acc.changed \intersect h.onChange = {}
    <2>1. next = acc
      BY <1>1 DEF React
    <2> HIDE DEF next
    <2> QED BY <2>1 DEF Keeps, next
  <1>2. CASE acc.changed \intersect h.onChange # {}
    <2>1. next.draft = Over(patch, acc.draft) /\ next.changed = acc.changed \union news
      BY <1>2 DEF React
    <2>2. \A k : Value(next.draft, k) = IF k \in DOMAIN patch THEN patch[k] ELSE Value(acc.draft, k)
      BY <2>1, ValueOver
    <2>3. DOMAIN patch \intersect ComputedKeys(d) = {}
      BY DEF WellDeclared
    <2>4. Keeps(next.draft, acc.draft)
      BY <2>1, OverKeeps
    <2> HIDE DEF next
    <2>5. ASSUME acc.changed # ComputeOnly, Pending(d, acc) PROVE next.changed # ComputeOnly /\ Pending(d, next)
      <3>1. next.changed # ComputeOnly
        BY <1>2, <2>1, <2>5 DEF ComputeOnly
      <3>2. ASSUME NEW g \in F PROVE Due(next, g) \/ Right(next.draft, g)
        <4>1. CASE Due(acc, g)
          BY <2>1, <2>5, <4>1 DEF Due
        <4>2. CASE news \intersect Depends(g) # {}
          BY <2>1, <4>2 DEF Due
        <4>3. CASE ~Due(acc, g) /\ news \intersect Depends(g) = {}
          <5>1. Right(acc.draft, g)
            BY <2>5, <4>3 DEF Pending
          <5>2. g.name \notin DOMAIN patch
            BY <2>3 DEF ComputedKeys
          <5>3. \A k \in Depends(g) : Value(next.draft, k) = Value(acc.draft, k)
            BY <2>2, <4>3
          <5>4. Value(next.draft, g.name) = Value(acc.draft, g.name)
            BY <2>2, <5>2
          <5> QED BY <5>1, <5>3, <5>4, StaysFresh
        <4> QED BY <4>1, <4>2, <4>3
      <3> QED BY <3>1, <3>2 DEF Pending
    <2> QED BY <2>4, <2>5 DEF next
  <1> QED BY <1>1, <1>2

LEMMA HandlersRun ==
    ASSUME NEW d, WellDeclared(d), NEW draft_, NEW changed
    PROVE  LET last == Reacted(d, draft_, changed)
           IN  /\ Keeps(last.draft, draft_)
               /\ Pending(d, [draft |-> draft_, changed |-> changed]) => Pending(d, last)
  <1> DEFINE base == [draft |-> draft_, changed |-> changed]
             own == {h \in ToSet(Handlers) : h.entity = d.entity}
             s == Sift(Handlers, own)
             N == Len(s)
             last == Reacted(d, draft_, changed)
  <1>1. CASE changed = ComputeOnly
    <2>1. last = base
      BY <1>1 DEF Reacted
    <2> HIDE DEF last
    <2> QED BY <2>1 DEF Keeps, last
  <1>2. CASE changed # ComputeOnly
    <2>0. IsSeq(s) /\ ToSet(s) = ToSet(Handlers) \intersect own
      BY HandlersAssumption, SiftedSet DEF IsSeq
    <2>1. N \in Nat /\ DOMAIN s = 1..N /\ \A k \in 1..N : s[k] \in own
      <3>1. N \in Nat /\ DOMAIN s = 1..N
        BY <2>0, SeqDomain
      <3> HIDE DEF s, own, N
      <3> QED BY <2>0, <3>1 DEF ToSet
    <2>2. last = FoldLeft(React, base, s)
      BY <1>2 DEF Reacted
    <2>3. PICK A : IsRun(A, "react", NULL, base, s) /\ A[N] = FoldLeft(React, base, s)
      BY <2>0, ReactRuns
    <2>4. A[0] = base /\ \A k \in 1..N : A[k] = React(A[k - 1], s[k])
      BY <2>3 DEF IsRun, Step
    <2>5. base.draft = draft_ /\ base.changed = changed
      OBVIOUS
    <2> DEFINE T == {k \in 0..N : /\ Keeps(A[k].draft, draft_)
                                  /\ Pending(d, base) => A[k].changed # ComputeOnly /\ Pending(d, A[k])}
    <2> HIDE DEF s, N, base, last
    <2>6. 0 \in 0..N /\ N \in 0..N
      BY <2>1
    <2>7. 0 \in T
      BY <1>2, <2>4, <2>5, <2>6 DEF Keeps
    <2>8. ASSUME NEW k \in 0..(N - 1), k \in T PROVE k + 1 \in T
      <3>1. k + 1 \in 1..N /\ k + 1 \in 0..N /\ (k + 1) - 1 = k
        BY <2>1
      <3>2. A[k + 1] = React(A[k], s[k + 1]) /\ s[k + 1] \in ToSet(Handlers) /\ s[k + 1].entity = d.entity
        BY <2>1, <2>4, <3>1
      <3>3. /\ Keeps(A[k + 1].draft, A[k].draft)
            /\ A[k].changed # ComputeOnly /\ Pending(d, A[k])
                  => A[k + 1].changed # ComputeOnly /\ Pending(d, A[k + 1])
        BY <3>2, ReactStep
      <3>4. Keeps(A[k + 1].draft, draft_)
        BY <2>8, <3>3 DEF Keeps
      <3> QED BY <2>8, <3>1, <3>3, <3>4
    <2>9. \A k \in 0..N : k \in T
      <3> HIDE DEF T
      <3> QED BY <2>1, <2>7, <2>8, UpTo
    <2>10. Keeps(A[N].draft, draft_) /\ (Pending(d, base) => Pending(d, A[N]))
      BY <2>6, <2>9
    <2> QED BY <2>2, <2>3, <2>10 DEF last, base
  <1> QED BY <1>1, <1>2

\* One call of applyBehaviors makes every field fresh that was due, and loses no key.
LEMMA Applied ==
    ASSUME NEW d, WellDeclared(d), PlanOK(d), NEW draft_, NEW changed
    PROVE  /\ Keeps(applyBehaviors(d, draft_, changed), draft_)
           /\ Pending(d, [draft |-> draft_, changed |-> changed]) => Agrees(d, applyBehaviors(d, draft_, changed))
  <1> DEFINE acc == Reacted(d, draft_, changed)
             last == FoldLeft(Recompute, acc, Ordered(d))
  <1>1. applyBehaviors(d, draft_, changed) = last.draft
    BY DEF applyBehaviors
  <1>2. Keeps(acc.draft, draft_) /\ (Pending(d, [draft |-> draft_, changed |-> changed]) => Pending(d, acc))
    BY HandlersRun
  <1> HIDE DEF acc
  <1>3. Keeps(last.draft, acc.draft) /\ (Pending(d, acc) => Agrees(d, last.draft))
    BY PlanRuns
  <1> HIDE DEF last
  <1> QED BY <1>1, <1>2, <1>3 DEF Keeps

LEMMA FillKeeps ==
    ASSUME NEW draft_, NEW key, NEW v
    PROVE  Keeps(Fill(draft_, key, v), draft_) /\ key \in DOMAIN Fill(draft_, key, v)
  BY KeepsWith DEF Fill, Keeps

LEMMA FillAddressKeeps == ASSUME NEW draft_, NEW f PROVE Keeps(FillAddress(draft_, f), draft_)
  <1> DEFINE s == ADDRESS_SUFFIXES
             N == Len(s)
             last == AddressFold(f, draft_, s)
  <1>0. IsSeq(s)
    <2>1. s = <<"number", "complement", "street", "zip_code", "city", "state", "country">>
      BY DEF ADDRESS_SUFFIXES
    <2>2. s \in Seq({"number", "complement", "street", "zip_code", "city", "state", "country"})
      BY <2>1
    <2> QED BY <2>2, SeqOfItself
  <1>1. N \in Nat
    BY <1>0, SeqDomain
  <1> HIDE DEF s
  <1>2. PICK A : IsRun(A, "address", f, draft_, s) /\ A[N] = last
    BY <1>0, AddressRuns
  <1>3. A[0] = draft_ /\ \A k \in 1..N : A[k] = Fill(A[k - 1], addressSubKey(f.name, s[k]), addressSubZeroDefault(s[k]))
    BY <1>2 DEF IsRun, Step
  <1> DEFINE T == {k \in 0..N : Keeps(A[k], draft_)}
  <1> HIDE DEF N, last
  <1>4. 0 \in 0..N /\ N \in 0..N
    BY <1>1
  <1>5. 0 \in T
    BY <1>3, <1>4 DEF Keeps
  <1>6. ASSUME NEW k \in 0..(N - 1), k \in T PROVE k + 1 \in T
    <2>1. k + 1 \in 1..N /\ k + 1 \in 0..N /\ (k + 1) - 1 = k
      BY <1>1
    <2>2. Keeps(A[k + 1], A[k])
      BY <1>3, <2>1, FillKeeps
    <2>3. Keeps(A[k + 1], draft_)
      BY <1>6, <2>2 DEF Keeps
    <2> QED BY <2>1, <2>3
  <1>7. \A k \in 0..N : k \in T
    <2> HIDE DEF T
    <2> QED BY <1>1, <1>5, <1>6, UpTo
  <1>8. Keeps(last, draft_)
    BY <1>2, <1>4, <1>7
  <1>9. FillAddress(draft_, f) = IF f.type # "address" THEN draft_ ELSE last
    BY DEF FillAddress, AddressFold, last, s
  <1> QED BY <1>8, <1>9 DEF Keeps

\* A seeded draft has a value for every field of a column, and all of the record.
LEMMA SeedCovers ==
    ASSUME NEW d, IsSeq(d.fields), NEW row
    PROVE  Keeps(seedDefaults(d, row), row) /\ SeededKeys(d) \subseteq DOMAIN seedDefaults(d, row)
  <1> DEFINE s == d.fields
             N == Len(s)
             One_(acc, f) == IF isVirtualRelation(f) THEN acc
                             ELSE LET all == FillAddress(acc, f) IN Fill(all, f.name, SeedOf(d, f, all))
  <1>0. N \in Nat /\ DOMAIN s = 1..N
    BY SeqDomain
  <1>1. \E A : IsRun(A, "seed", d, row, s) /\ A[N] = seedDefaults(d, row)
    <2>1. \E A : IsRun(A, "seed", d, row, s) /\ A[N] = SeedFold(d, row, s)
      BY SeedRuns
    <2>2. seedDefaults(d, row) = SeedFold(d, row, s)
      BY DEF seedDefaults, SeedFold
    <2> QED BY <2>1, <2>2
  <1>2. PICK A : IsRun(A, "seed", d, row, s) /\ A[N] = seedDefaults(d, row)
    BY <1>1
  <1>3. A[0] = row /\ \A k \in 1..N : A[k] = One_(A[k - 1], s[k])
    BY <1>2 DEF IsRun, Step
  <1>4. \A acc, f : Keeps(One_(acc, f), acc) /\ (isVirtualRelation(f) \/ f.name \in DOMAIN One_(acc, f))
    <2> SUFFICES ASSUME NEW acc, NEW f
                 PROVE  Keeps(One_(acc, f), acc) /\ (isVirtualRelation(f) \/ f.name \in DOMAIN One_(acc, f))
      OBVIOUS
    <2> DEFINE all == FillAddress(acc, f)
    <2>1. Keeps(all, acc)
      BY FillAddressKeeps
    <2> HIDE DEF all
    <2>2. Keeps(Fill(all, f.name, SeedOf(d, f, all)), all) /\ f.name \in DOMAIN Fill(all, f.name, SeedOf(d, f, all))
      BY FillKeeps
    <2>3. One_(acc, f) = IF isVirtualRelation(f) THEN acc ELSE Fill(all, f.name, SeedOf(d, f, all))
      BY DEF all
    <2> HIDE DEF One_
    <2> QED BY <2>1, <2>2, <2>3 DEF Keeps
  <1> DEFINE T == {k \in 0..N : /\ Keeps(A[k], row)
                                /\ \A j \in 1..k : isVirtualRelation(s[j]) \/ s[j].name \in DOMAIN A[k]}
  <1> HIDE DEF N, One_
  <1>5. 0 \in 0..N /\ N \in 0..N
    BY <1>0
  <1>6. 0 \in T
    BY <1>3, <1>5 DEF Keeps
  <1>7. ASSUME NEW k \in 0..(N - 1), k \in T PROVE k + 1 \in T
    <2>1. k + 1 \in 1..N /\ k + 1 \in 0..N /\ (k + 1) - 1 = k
      BY <1>0
    <2>2. Keeps(A[k + 1], A[k]) /\ (isVirtualRelation(s[k + 1]) \/ s[k + 1].name \in DOMAIN A[k + 1])
      BY <1>3, <1>4, <2>1
    <2>3. Keeps(A[k + 1], row)
      BY <1>7, <2>2 DEF Keeps
    <2>4. ASSUME NEW j \in 1..(k + 1) PROVE isVirtualRelation(s[j]) \/ s[j].name \in DOMAIN A[k + 1]
      <3>1. CASE j = k + 1
        BY <2>2, <3>1
      <3>2. CASE j \in 1..k
        BY <1>7, <2>2, <3>2 DEF Keeps
      <3>3. j = k + 1 \/ j \in 1..k
        BY <2>1
      <3> QED BY <3>1, <3>2, <3>3
    <2> QED BY <2>1, <2>3, <2>4
  <1>8. \A k \in 0..N : k \in T
    <2> HIDE DEF T
    <2> QED BY <1>0, <1>6, <1>7, UpTo
  <1>9. Keeps(A[N], row) /\ \A j \in 1..N : isVirtualRelation(s[j]) \/ s[j].name \in DOMAIN A[N]
    BY <1>5, <1>8
  <1>10. SeededKeys(d) \subseteq DOMAIN A[N]
    <2> SUFFICES ASSUME NEW f \in ToSet(d.fields), ~isVirtualRelation(f) PROVE f.name \in DOMAIN A[N]
      BY DEF SeededKeys
    <2>1. PICK j \in DOMAIN s : s[j] = f
      BY DEF ToSet
    <2> QED BY <1>0, <1>9, <2>1 DEF N
  <1> QED BY <1>2, <1>9, <1>10

\* A draft that is seeded agrees, whatever the record, and has all of its keys.
LEMMA SeedAgrees ==
    ASSUME NEW d, WellDeclared(d), PlanOK(d), NEW row
    PROVE  Agrees(d, seed(d, row)) /\ Keeps(seed(d, row), row)
  <1> DEFINE full == seedDefaults(d, row)
             changed == IF "id" \in DOMAIN row THEN ComputeOnly ELSE DOMAIN full
  <1>1. Keeps(full, row) /\ SeededKeys(d) \subseteq DOMAIN full
    BY SeedCovers DEF WellDeclared
  <1>2. seed(d, row) = applyBehaviors(d, full, changed)
    BY DEF seed
  <1> HIDE DEF full
  <1>3. Pending(d, [draft |-> full, changed |-> changed])
    <2>1. \A f \in ToSet(Computed(d)) : Depends(f) \intersect SeededKeys(d) # {}
      BY DEF WellDeclared
    <2> QED BY <1>1, <2>1 DEF Pending, Due
  <1> HIDE DEF changed
  <1>4. Agrees(d, applyBehaviors(d, full, changed)) /\ Keeps(applyBehaviors(d, full, changed), full)
    BY <1>3, Applied
  <1> QED BY <1>1, <1>2, <1>4 DEF Keeps

\* An edit of a field that is not computed.
LEMMA SetFieldAgrees ==
    ASSUME NEW d, WellDeclared(d), PlanOK(d), NEW draft_, NEW key, NEW v
    PROVE  /\ Keeps(setField(d, draft_, key, v), draft_)
           /\ Agrees(d, draft_) /\ key \notin ComputedKeys(d) => Agrees(d, setField(d, draft_, key, v))
  <1> DEFINE mid == With(draft_, key, v)
  <1>1. Keeps(mid, draft_)
    BY KeepsWith
  <1>2. \A k : Value(mid, k) = IF k = key THEN v ELSE Value(draft_, k)
    BY ValueWith
  <1>3. setField(d, draft_, key, v) = applyBehaviors(d, mid, {key})
    BY DEF setField
  <1> HIDE DEF mid
  <1>4. /\ Keeps(applyBehaviors(d, mid, {key}), mid)
        /\ Pending(d, [draft |-> mid, changed |-> {key}]) => Agrees(d, applyBehaviors(d, mid, {key}))
    BY Applied
  <1>5. ASSUME Agrees(d, draft_), key \notin ComputedKeys(d) PROVE Pending(d, [draft |-> mid, changed |-> {key}])
    <2> SUFFICES ASSUME NEW f \in ToSet(Computed(d)), key \notin Depends(f) PROVE Right(mid, f)
      BY DEF Pending, Due
    <2>1. Right(draft_, f)
      BY <1>5 DEF Agrees, Right
    <2>2. f.name # key
      BY <1>5 DEF ComputedKeys
    <2> QED BY <1>2, <2>1, <2>2, StaysFresh
  <1> QED BY <1>1, <1>3, <1>4, <1>5 DEF Keeps

-----------------------------------------------------------------------------
(* What the widgets write.                                                 *)

\* A widget writes no computed field.
WritesOK(d, ws) == IsSeq(ws) /\ \A w \in ToSet(ws) : w.key \notin ComputedKeys(d)

LEMMA WrittenAgrees ==
    ASSUME WellDeclared(form), PlanOK(form), NEW ws, WritesOK(form, ws)
    PROVE  Keeps(Written(ws), draft) /\ (Agrees(form, draft) => Agrees(form, Written(ws)))
  <1> DEFINE N == Len(ws)
             C == ComputedKeys(form)
  <1>0. IsSeq(ws) /\ N \in Nat /\ DOMAIN ws = 1..N
    BY SeqDomain DEF WritesOK
  <1>1. \A k \in 1..N : ws[k].key \notin C
    BY <1>0 DEF WritesOK, ToSet
  <1>2. Written(ws) = WriteFold(form, draft, ws)
    BY DEF Written, WriteFold
  <1>3. PICK A : IsRun(A, "write", form, draft, ws) /\ A[N] = WriteFold(form, draft, ws)
    BY <1>0, WriteRuns
  <1>4. A[0] = draft /\ \A k \in 1..N : A[k] = setField(form, A[k - 1], ws[k].key, ws[k].value)
    BY <1>3 DEF IsRun, Step
  <1> DEFINE T == {k \in 0..N : Keeps(A[k], draft) /\ (Agrees(form, draft) => Agrees(form, A[k]))}
  <1> HIDE DEF N, C
  <1>5. 0 \in 0..N /\ N \in 0..N
    BY <1>0
  <1>6. 0 \in T
    BY <1>4, <1>5 DEF Keeps
  <1>7. ASSUME NEW k \in 0..(N - 1), k \in T PROVE k + 1 \in T
    <2>1. k + 1 \in 1..N /\ k + 1 \in 0..N /\ (k + 1) - 1 = k
      BY <1>0
    <2>2. A[k + 1] = setField(form, A[k], ws[k + 1].key, ws[k + 1].value) /\ ws[k + 1].key \notin C
      BY <1>1, <1>4, <2>1
    <2>3. Keeps(A[k + 1], A[k]) /\ (Agrees(form, A[k]) => Agrees(form, A[k + 1]))
      BY <2>2, SetFieldAgrees DEF C
    <2>4. Keeps(A[k + 1], draft)
      BY <1>7, <2>3 DEF Keeps
    <2> QED BY <1>7, <2>1, <2>3, <2>4
  <1>8. \A k \in 0..N : k \in T
    <2> HIDE DEF T
    <2> QED BY <1>0, <1>6, <1>7, UpTo
  <1> QED BY <1>2, <1>3, <1>5, <1>8

LEMMA OneWrite ==
    ASSUME NEW d, NEW key, NEW v, key \notin ComputedKeys(d)
    PROVE  WritesOK(d, <<Write(key, v)>>)
  <1>1. IsSeq(<<Write(key, v)>>) /\ ToSet(<<Write(key, v)>>) = {Write(key, v)}
    BY DEF IsSeq, ToSet
  <1>2. Write(key, v).key = key
    BY DEF Write
  <1> QED BY <1>1, <1>2 DEF WritesOK

LEMMA JoinedWrites ==
    ASSUME NEW d, NEW a, NEW b, WritesOK(d, a), WritesOK(d, b)
    PROVE  WritesOK(d, a \o b)
  BY JoinedSet DEF WritesOK

\* A finite set as a sequence.
LEMMA SetAsSeq ==
    ASSUME NEW S, IsFiniteSet(S)
    PROVE  \E n \in Nat : SetToSeq(S) \in [1..n -> S]
  <1> DEFINE n == Cardinality(S)
  <1>1. n \in Nat /\ ExistsBijection(1..n, S)
    BY FS_CardinalityType
  <1>2. \E f \in [1..n -> S] : IsInjective(f)
    BY <1>1 DEF ExistsBijection, Bijection, Injection
  <1>3. SetToSeq(S) \in [1..n -> S]
    BY <1>2 DEF SetToSeq
  <1> QED BY <1>1, <1>3

LEMMA PresetWrites ==
    ASSUME NEW d, WellDeclared(d), NEW f \in ToSet(d.fields), NEW option
    PROVE  WritesOK(d, Presets(f, option))
  <1>1. CASE option \notin DOMAIN f.presets
    <2>1. Presets(f, option) = <<>>
      BY <1>1 DEF Presets
    <2>2. IsSeq(<<>>) /\ ToSet(<<>>) = {}
      BY DEF IsSeq, ToSet
    <2> QED BY <2>1, <2>2 DEF WritesOK
  <1>2. CASE option \in DOMAIN f.presets
    <2> DEFINE S == DOMAIN f.presets[option]
               keys == SetToSeq(S)
               ws == [i \in DOMAIN keys |-> Write(keys[i], f.presets[option][keys[i]])]
    <2>1. IsFiniteSet(S) /\ S \intersect ComputedKeys(d) = {}
      BY <1>2 DEF WellDeclared
    <2>2. Presets(f, option) = ws
      BY <1>2 DEF Presets
    <2> HIDE DEF S
    <2>3. PICK n \in Nat : keys \in [1..n -> S]
      BY <2>1, SetAsSeq
    <2> HIDE DEF keys
    <2>4. ws = [i \in 1..n |-> ws[i]] /\ \A i \in 1..n : ws[i].key \in S
      BY <2>3 DEF Write
    <2> HIDE DEF ws
    <2>5. \A w \in ToSet(ws) : w.key \in S
      BY <2>4 DEF ToSet
    <2>6. IsSeq(ws)
      BY <2>4, SeqOfMap
    <2> QED BY <2>1, <2>2, <2>5, <2>6 DEF WritesOK
  <1> QED BY <1>1, <1>2

LEMMA AddressWritesOK ==
    ASSUME NEW d, WellDeclared(d), NEW f \in ToSet(d.fields), f.type = "address", NEW ws \in AddressWrites(f)
    PROVE  WritesOK(d, ws)
  <1> DEFINE sub(suffix, v) == Write(addressSubKey(f.name, suffix), v)
             s == ADDRESS_SUFFIXES
  <1>1. s = <<"number", "complement", "street", "zip_code", "city", "state", "country">>
    BY DEF ADDRESS_SUFFIXES
  <1>2. IsSeq(s) /\ DOMAIN s = 1..7
    <2>1. s \in Seq({"number", "complement", "street", "zip_code", "city", "state", "country"}) /\ DOMAIN s = 1..7
      BY <1>1
    <2> QED BY <2>1, SeqOfItself
  <1>3. s[1] = "number" /\ s[3] = "street" /\ s[4] = "zip_code" /\ {1, 3, 4} \subseteq DOMAIN s
    BY <1>1, <1>2
  <1> HIDE DEF s
  <1>4. \A x \in ToSet(s) : addressSubKey(f.name, x) \notin ComputedKeys(d)
    BY DEF WellDeclared, s
  <1>5. \A x \in ToSet(s) : \A v : WritesOK(d, <<sub(x, v)>>)
    BY <1>4, OneWrite
  <1>6. {"number", "street", "zip_code"} \subseteq ToSet(s)
    BY <1>3 DEF ToSet
  <1>7. CASE \E v \in Texts : ws = <<sub("number", NULL), sub("street", v)>>
    <2>1. PICK v \in Texts : ws = <<sub("number", NULL), sub("street", v)>>
      BY <1>7
    <2>2. ws = <<sub("number", NULL)>> \o <<sub("street", v)>>
      BY <2>1
    <2> QED BY <1>5, <1>6, <2>2, JoinedWrites
  <1>8. CASE \E v \in Texts : ws = <<sub("zip_code", v)>>
    BY <1>5, <1>6, <1>8
  <1>9. CASE ws = [i \in DOMAIN s |-> sub(s[i], "osm")]
    <2>1. DOMAIN ws = 1..7 /\ ws = [i \in 1..7 |-> ws[i]] /\ \A i \in 1..7 : ws[i] = sub(s[i], "osm")
      BY <1>2, <1>9
    <2>2. \A i \in 1..7 : ws[i].key = addressSubKey(f.name, s[i])
      BY <2>1 DEF Write
    <2>3. \A w \in ToSet(ws) : w.key \notin ComputedKeys(d)
      BY <1>2, <1>4, <2>1, <2>2 DEF ToSet
    <2>4. IsSeq(ws)
      BY <2>1, SeqOfMap
    <2> QED BY <2>3, <2>4 DEF WritesOK
  <1>10. \/ \E v \in Texts : ws = <<sub("number", NULL), sub("street", v)>>
         \/ \E v \in Texts : ws = <<sub("zip_code", v)>>
         \/ ws = [i \in DOMAIN s |-> sub(s[i], "osm")]
    BY DEF AddressWrites, s
  <1> QED BY <1>7, <1>8, <1>9, <1>10

\* A disabled field is not written; one that is not computed shares no name with one that is.
LEMMA NotComputed ==
    ASSUME NEW d, WellDeclared(d), NEW f \in ToSet(d.fields), f.compute = Omitted
    PROVE  f.name \notin ComputedKeys(d)
  <1> SUFFICES ASSUME f.name \in ComputedKeys(d) PROVE FALSE
    OBVIOUS
  <1>1. FieldNamed(d, f.name) \in ToSet(Computed(d)) /\ FieldNamed(d, f.name) = f
    BY ComputedFields
  <1>2. f.compute # Omitted
    BY <1>1, ComputedFields
  <1> QED BY <1>2

LEMMA WidgetWrites ==
    ASSUME WellDeclared(form), NEW f \in ToSet(form.fields), ~Disabled(f), NEW ws \in Writes(f)
    PROVE  WritesOK(form, ws)
  <1>1. f.name \notin ComputedKeys(form)
    BY NotComputed DEF Disabled
  <1>2. ASSUME NEW values, ws \in One(f, values) PROVE WritesOK(form, ws)
    <2>1. PICK v \in values : ws = <<Write(f.name, v)>>
      BY <1>2 DEF One
    <2> QED BY <1>1, <2>1, OneWrite
  <1>3. ASSUME NEW o, ws = <<Write(f.name, o)>> \o Presets(f, o) PROVE WritesOK(form, ws)
    <2>1. WritesOK(form, <<Write(f.name, o)>>) /\ WritesOK(form, Presets(f, o))
      BY <1>1, OneWrite, PresetWrites
    <2> QED BY <1>3, <2>1, JoinedWrites
  <1>4. \/ \E values : ws \in One(f, values)
        \/ \E o : ws = <<Write(f.name, o)>> \o Presets(f, o)
        \/ f.type = "address" /\ ws \in AddressWrites(f)
    BY Zenon DEF Writes
  <1> QED BY <1>2, <1>3, <1>4, AddressWritesOK

-----------------------------------------------------------------------------
(* Two descriptors with the same fields have the same plan.                *)

SameFields(d, e) == e.fields = d.fields /\ e.entity = d.entity

LEMMA SameKeys ==
    ASSUME NEW d, NEW e, SameFields(d, e)
    PROVE  /\ Computed(e) = Computed(d) /\ ComputedNames(e) = ComputedNames(d)
           /\ ComputedKeys(e) = ComputedKeys(d) /\ SeededKeys(e) = SeededKeys(d)
           /\ \A n : FieldNamed(e, n) = FieldNamed(d, n)
           /\ \A n : Upstream(e, n) = Upstream(d, n)
  <1>1. e.fields = d.fields
    BY DEF SameFields
  <1>2. Computed(e) = Computed(d)
    BY <1>1 DEF Computed
  <1>3. ComputedNames(e) = ComputedNames(d)
    BY <1>2 DEF ComputedNames
  <1>4. ComputedKeys(e) = ComputedKeys(d)
    BY <1>2 DEF ComputedKeys
  <1>5. SeededKeys(e) = SeededKeys(d)
    BY <1>1 DEF SeededKeys
  <1>6. \A n : FieldNamed(e, n) = FieldNamed(d, n)
    BY <1>1 DEF FieldNamed
  <1>7. \A n : Upstream(e, n) = Upstream(d, n)
    BY <1>2, <1>6 DEF Upstream
  <1> QED BY <1>2, <1>3, <1>4, <1>5, <1>6, <1>7

LEMMA SameDeclared ==
    ASSUME NEW d, NEW e, SameFields(d, e), WellDeclared(d)
    PROVE  WellDeclared(e)
  <1>1. e.fields = d.fields /\ e.entity = d.entity
    BY DEF SameFields
  <1> QED BY <1>1, SameKeys DEF WellDeclared

LEMMA SamePlan ==
    ASSUME NEW d, NEW e, SameFields(d, e), WellDeclared(d), PlanOK(d)
    PROVE  WellDeclared(e) /\ PlanOK(e)
  <1>1. WellDeclared(e) /\ ComputedNames(e) = ComputedNames(d)
    BY SameDeclared, SameKeys
  <1>2. UpstreamOfAll(e) = UpstreamOfAll(d)
    BY SameKeys DEF UpstreamOfAll
  <1>5. ComputeOrder(e) = ComputeOrder(d)
    BY <1>1, <1>2, ComputedFields, ComputeOrderIs, OneOrder
  <1>6. \A i \in DOMAIN ComputeOrder(e) : \A dep \in ToSet(Upstream(e, ComputeOrder(e)[i])) :
           \E j \in 1..(i - 1) : ComputeOrder(e)[j] = dep
    BY <1>5, SameKeys DEF PlanOK, DependenciesFirst
  <1>7. e.fields = d.fields /\ e.entity = d.entity
    BY DEF SameFields
  <1>8. \A i \in DOMAIN e.fields : (e.fields[i].compute = Omitted \/ IsFunction(e, e.fields[i].compute))
                                   /\ ~ForeignFunction(e, e.fields[i].default)
    BY <1>7 DEF PlanOK, IsFunction, ForeignFunction
  <1> QED BY <1>1, <1>6, <1>8 DEF PlanOK, DependenciesFirst

LEMMA SameAgree ==
    ASSUME NEW d, NEW e, SameFields(d, e), NEW x, Agrees(d, x)
    PROVE  Agrees(e, x)
  BY SameKeys DEF Agrees

-----------------------------------------------------------------------------
(* The registry: every route has a descriptor that validateDescriptor took. *)

RoutesOK(rs) == IsSeq(rs) /\ \A i \in DOMAIN rs : "descriptor" \in DOMAIN rs[i] /\ DescriptorOK(rs[i].descriptor)
Registering(acc) == DOMAIN acc = {"ok", "routes"} /\ RoutesOK(acc.routes)

\* What a module brings: sequences of routes, each with a descriptor, and of extensions.
ModuleDeclared(mod) ==
    /\ IsSeq(mod.routes) /\ IsSeq(mod.extends)
    /\ \A i \in DOMAIN mod.routes : "descriptor" \in DOMAIN mod.routes[i]

LEMMA PutKeeps ==
    ASSUME NEW rs, RoutesOK(rs), NEW route, "descriptor" \in DOMAIN route, DescriptorOK(route.descriptor)
    PROVE  RoutesOK(Put(rs, route))
  <1>1. CASE At(rs, route.path) = {}
    <2>1. Put(rs, route) = Append(rs, route)
      BY <1>1 DEF Put
    <2>2. /\ IsSeq(Append(rs, route)) /\ DOMAIN Append(rs, route) = 1..(Len(rs) + 1)
          /\ DOMAIN rs = 1..Len(rs) /\ Len(rs) \in Nat
          /\ Append(rs, route)[Len(rs) + 1] = route
          /\ \A i \in DOMAIN rs : Append(rs, route)[i] = rs[i]
      BY SeqAppend DEF RoutesOK
    <2>3. \A i \in 1..(Len(rs) + 1) : i \in 1..Len(rs) \/ i = Len(rs) + 1
      BY <2>2
    <2> QED BY <2>1, <2>2, <2>3 DEF RoutesOK
  <1>2. CASE At(rs, route.path) # {}
    <2> DEFINE new == [i \in DOMAIN rs |-> IF rs[i].path = route.path THEN route ELSE rs[i]]
    <2>1. Put(rs, route) = new
      BY <1>2 DEF Put
    <2>2. DOMAIN rs = 1..Len(rs) /\ Len(rs) \in Nat
      BY SeqDomain DEF RoutesOK
    <2>3. DOMAIN new = 1..Len(rs) /\ new = [i \in 1..Len(rs) |-> new[i]]
          /\ \A i \in DOMAIN rs : new[i] \in {rs[i], route}
      BY <2>2
    <2> HIDE DEF new
    <2>4. IsSeq(new)
      BY <2>2, <2>3, SeqOfMap
    <2> QED BY <2>1, <2>2, <2>3, <2>4 DEF RoutesOK
  <1> QED BY <1>1, <1>2

LEMMA AddRouteKeeps ==
    ASSUME NEW acc, Registering(acc), NEW route, "descriptor" \in DOMAIN route
    PROVE  Registering(AddRoute(acc, route))
  <1>1. CASE acc.ok /\ DescriptorOK(route.descriptor)
    <2>1. AddRoute(acc, route) = [acc EXCEPT !.routes = Put(acc.routes, route)]
      BY <1>1 DEF AddRoute
    <2>2. RoutesOK(Put(acc.routes, route))
      BY <1>1, PutKeeps DEF Registering
    <2> QED BY <2>1, <2>2 DEF Registering
  <1>2. CASE ~(acc.ok /\ DescriptorOK(route.descriptor))
    <2>1. AddRoute(acc, route) = [acc EXCEPT !.ok = FALSE]
      BY <1>2 DEF AddRoute
    <2> QED BY <2>1 DEF Registering
  <1> QED BY <1>1, <1>2

LEMMA AddExtensionKeeps ==
    ASSUME NEW acc, Registering(acc), NEW ext
    PROVE  Registering(AddExtension(acc, ext))
  <1> DEFINE current == Current(acc.routes, ext.path)
             merged == applyExtension(current.descriptor, ext.operations)
             route == [current EXCEPT !.descriptor = merged.d]
             taken == acc.ok /\ At(acc.routes, ext.path) # {} /\ merged.ok /\ DescriptorOK(merged.d)
  <1>1. CASE taken
    <2>1. AddExtension(acc, ext) = [acc EXCEPT !.routes = Put(acc.routes, route)]
      BY <1>1 DEF AddExtension
    <2>2. "descriptor" \in DOMAIN current
      BY <1>1 DEF Current, RouteAt, At, Registering, RoutesOK
    <2>3. "descriptor" \in DOMAIN route /\ route.descriptor = merged.d
      <3> HIDE DEF merged, current
      <3> QED BY <2>2
    <2> HIDE DEF route
    <2>4. RoutesOK(Put(acc.routes, route))
      BY <1>1, <2>3, PutKeeps DEF Registering
    <2> QED BY <2>1, <2>4 DEF Registering
  <1>2. CASE ~taken
    <2>1. AddExtension(acc, ext) = [acc EXCEPT !.ok = FALSE]
      BY <1>2 DEF AddExtension
    <2> QED BY <2>1 DEF Registering
  <1> QED BY <1>1, <1>2

LEMMA RoutedOK ==
    ASSUME RoutesOK(routes), NEW mod, ModuleDeclared(mod)
    PROVE  Registering(Routed(mod)) /\ Registering(Extended(mod))
  <1> DEFINE base == [ok |-> TRUE, routes |-> routes]
             r == mod.routes
             x == mod.extends
  <1>0. /\ Len(r) \in Nat /\ DOMAIN r = 1..Len(r) /\ IsSeq(r)
        /\ Len(x) \in Nat /\ DOMAIN x = 1..Len(x) /\ IsSeq(x)
    BY SeqDomain DEF ModuleDeclared
  <1>1. Registering(Routed(mod))
    <2> DEFINE N == Len(r)
    <2>1. PICK A : IsRun(A, "route", NULL, base, r) /\ A[N] = FoldLeft(AddRoute, base, r)
      BY <1>0, RouteRuns
    <2>2. A[0] = base /\ \A k \in 1..N : A[k] = AddRoute(A[k - 1], r[k])
      BY <2>1 DEF IsRun, Step
    <2>3. Registering(base)
      BY DEF Registering
    <2>4. \A k \in 1..N : "descriptor" \in DOMAIN r[k]
      BY <1>0 DEF ModuleDeclared
    <2> DEFINE T == {k \in 0..N : Registering(A[k])}
    <2> HIDE DEF N, base
    <2>5. 0 \in 0..N /\ N \in 0..N /\ N \in Nat
      BY <1>0 DEF N
    <2>6. 0 \in T
      BY <2>2, <2>3, <2>5
    <2>7. ASSUME NEW k \in 0..(N - 1), k \in T PROVE k + 1 \in T
      <3>1. k + 1 \in 1..N /\ k + 1 \in 0..N /\ (k + 1) - 1 = k
        BY <2>5
      <3> QED BY <2>2, <2>4, <2>7, <3>1, AddRouteKeeps
    <2>8. \A k \in 0..N : k \in T
      <3> HIDE DEF T
      <3> QED BY <2>5, <2>6, <2>7, UpTo
    <2> QED BY <2>1, <2>5, <2>8 DEF Routed, base
  <1>2. Registering(Extended(mod))
    <2> DEFINE N == Len(x)
               start == Routed(mod)
    <2>1. PICK A : IsRun(A, "extension", NULL, start, x) /\ A[N] = FoldLeft(AddExtension, start, x)
      BY <1>0, ExtensionRuns
    <2>2. A[0] = start /\ \A k \in 1..N : A[k] = AddExtension(A[k - 1], x[k])
      BY <2>1 DEF IsRun, Step
    <2> DEFINE T == {k \in 0..N : Registering(A[k])}
    <2> HIDE DEF N, start
    <2>5. 0 \in 0..N /\ N \in 0..N /\ N \in Nat
      BY <1>0 DEF N
    <2>6. 0 \in T
      BY <1>1, <2>2, <2>5 DEF start
    <2>7. ASSUME NEW k \in 0..(N - 1), k \in T PROVE k + 1 \in T
      <3>1. k + 1 \in 1..N /\ k + 1 \in 0..N /\ (k + 1) - 1 = k
        BY <2>5
      <3> QED BY <2>2, <2>7, <3>1, AddExtensionKeeps
    <2>8. \A k \in 0..N : k \in T
      <3> HIDE DEF T
      <3> QED BY <2>5, <2>6, <2>7, UpTo
    <2> QED BY <2>1, <2>5, <2>8 DEF Extended, start
  <1> QED BY <1>1, <1>2

LEMMA RegisterKeeps ==
    ASSUME RoutesOK(routes), calls # <<>> => ModuleDeclared(Catalog[Head(calls).module]), register
    PROVE  RoutesOK(routes')
  <1> DEFINE mod == Catalog[Head(calls).module]
  <1>1. \/ UNCHANGED routes
        \/ routes' = Routed(mod).routes
        \/ routes' = Extended(mod).routes
    BY DEF register, Enter
  <1>2. Registering(Routed(mod)) /\ Registering(Extended(mod))
    BY RoutedOK DEF register
  <1> QED BY <1>1, <1>2 DEF Registering

LEMMA MatchFound ==
    ASSUME RoutesOK(routes), NEW path, match(path) # 0
    PROVE  match(path) \in DOMAIN routes
  <1> DEFINE fit == {i \in DOMAIN routes : Fits(routes[i].path, path)}
             exact == {i \in fit : routes[i].path = path}
  <1>1. DOMAIN routes \in SUBSET Nat
    BY SeqDomain DEF RoutesOK
  <1>2. match(path) = IF exact # {} THEN Min(exact) ELSE IF fit # {} THEN Min(fit) ELSE 0
    BY DEF match
  <1>3. fit \in SUBSET Nat /\ exact \in SUBSET Nat /\ fit \subseteq DOMAIN routes /\ exact \subseteq DOMAIN routes
    BY <1>1
  <1> HIDE DEF fit, exact
  <1> QED BY <1>2, <1>3, LeastOf

-----------------------------------------------------------------------------
(* The calls of register() are about modules of the catalog.               *)

DependsWithin(names) == [m \in ToSet(names) |-> Sift(Catalog[m].depends, ToSet(names))]

LEMMA TopoOrderIs ==
    ASSUME NEW names, IsSeq(names), ToSet(names) \subseteq DOMAIN Catalog
    PROVE  IsSeq(topoSortModules(names)) /\ ToSet(topoSortModules(names)) = ToSet(names)
  <1> DEFINE C == ToSet(names)
             N == Len(names)
             D(m) == Sift(Catalog[m].depends, ToSet(names))
             deps == DependsWithin(names)
             Goes(q) == q = [k \in 0..N |-> [n \in ToSet(names) |->
                          IF k = 0 THEN <<n>>
                          ELSE Also(FoldLeft(Also, <<>>, [i \in DOMAIN D(n) |-> q[k - 1][D(n)[i]]]), <<n>>)]]
             post == CHOOSE q : Goes(q)
  <1>1. N \in Nat
    BY SeqDomain
  <1>2. DOMAIN deps = C /\ \A n \in C : deps[n] = D(n)
    BY DEF DependsWithin
  <1>3. SelfContained(deps)
    <2>1. ASSUME NEW n \in C PROVE IsSeq(D(n)) /\ ToSet(D(n)) \subseteq C
      <3>1. IsSeq(Catalog[n].depends)
        BY CatalogAssumption DEF IsList, IsSeq
      <3> QED BY <3>1, SiftedSet
    <2> HIDE DEF D, C
    <2> QED BY <1>2, <2>1 DEF SelfContained
  <1>4. topoSortModules(names) = Merge([i \in DOMAIN names |-> post[N][names[i]]])
    <2>1. topoSortModules(names) = FoldLeft(Also, <<>>, [i \in DOMAIN names |-> post[N][names[i]]])
      BY DEF topoSortModules, PostOrder
    <2> HIDE DEF post
    <2> QED BY <2>1 DEF Merge
  <1> HIDE DEF deps
  <1>5. \A q : IsPost(deps, q, N) <=> Goes(q)
    <2> SUFFICES ASSUME NEW q PROVE IsPost(deps, q, N) <=> Goes(q)
      OBVIOUS
    <2> DEFINE V(k, n) == Visited(deps, q, k, n)
               W(k, n) == Also(FoldLeft(Also, <<>>, [i \in DOMAIN D(n) |-> q[k - 1][D(n)[i]]]), <<n>>)
    <2>1. \A n \in C : \A k : V(k, n) = W(k, n)
      BY <1>2 DEF Visited, Merge
    <2>2. IsPost(deps, q, N) <=> q = [k \in 0..N |-> [n \in C |-> IF k = 0 THEN <<n>> ELSE V(k, n)]]
      BY <1>2 DEF IsPost
    <2>3. Goes(q) <=> q = [k \in 0..N |-> [n \in C |-> IF k = 0 THEN <<n>> ELSE W(k, n)]]
      OBVIOUS
    <2> HIDE DEF V, W, Goes, C, N
    <2>4. [k \in 0..N |-> [n \in C |-> IF k = 0 THEN <<n>> ELSE V(k, n)]]
            = [k \in 0..N |-> [n \in C |-> IF k = 0 THEN <<n>> ELSE W(k, n)]]
      BY <2>1
    <2> QED BY <2>2, <2>3, <2>4
  <1> HIDE DEF Goes
  <1>6. IsPost(deps, post, N)
    BY <1>1, <1>3, <1>5, PostExists
  <1> HIDE DEF post
  <1>7. IsOrder(deps, names, topoSortModules(names))
    BY <1>4, <1>6 DEF IsOrder
  <1> QED BY <1>2, <1>3, <1>7, OrderCovers

CallsOf(cs) == IsSeq(cs) /\ \A c \in ToSet(cs) : c.module \in DOMAIN Catalog

LEMMA RegisterCallsOf ==
    ASSUME NEW names \in Discoveries
    PROVE  CallsOf(RegisterCalls(names))
  <1> DEFINE order == topoSortModules(names)
             a == ManifestCalls("server", order)
             b == ManifestCalls("client", order)
             seqs == [k \in DOMAIN Manifests |-> ManifestCalls(Manifests[k], order)]
  <1>1. IsSeq(names) /\ ToSet(names) \subseteq DOMAIN Catalog
    BY CatalogAssumption DEF IsList, IsSeq
  <1>2. IsSeq(order) /\ ToSet(order) \subseteq DOMAIN Catalog
    BY <1>1, TopoOrderIs
  <1>3. Len(order) \in Nat /\ DOMAIN order = 1..Len(order)
    BY <1>2, SeqDomain
  <1> HIDE DEF order
  <1>4. ASSUME NEW m PROVE CallsOf(ManifestCalls(m, order))
    <2> DEFINE c == ManifestCalls(m, order)
    <2>1. c = [i \in 1..Len(order) |-> [manifest |-> m, module |-> order[i]]]
      BY <1>3 DEF ManifestCalls
    <2>2. DOMAIN c = 1..Len(order) /\ c = [i \in 1..Len(order) |-> c[i]] /\ \A i \in DOMAIN c : c[i].module = order[i]
      BY <2>1
    <2> HIDE DEF c
    <2>3. IsSeq(c)
      BY <1>3, <2>2, SeqOfMap
    <2>4. \A i \in DOMAIN c : c[i].module \in DOMAIN Catalog
      BY <1>2, <1>3, <2>2 DEF ToSet
    <2>5. \A x \in ToSet(c) : x.module \in DOMAIN Catalog
      BY <2>4 DEF ToSet
    <2> QED BY <2>3, <2>5 DEF CallsOf, c
  <1>5. CallsOf(a) /\ CallsOf(b)
    BY <1>4
  <1> HIDE DEF a, b
  <1>6. DOMAIN seqs = 1..2 /\ Len(seqs) = 2 /\ seqs[1] = a /\ seqs[2] = b
    <2>1. seqs = <<a, b>>
      BY DEF Manifests, a, b
    <2> HIDE DEF seqs
    <2> QED BY <2>1
  <1>7. RegisterCalls(names) = FlattenSeq(seqs)
    BY DEF RegisterCalls, order
  <1> HIDE DEF seqs
  <1>8. FlattenSeq(seqs) = a \o b
    <2> DEFINE Goes(f) == f = [i \in 1..2 |-> IF i = 1 THEN seqs[i] ELSE f[i - 1] \o seqs[i]]
               flatten == CHOOSE f : Goes(f)
    <2>1. FlattenSeq(seqs) = flatten[2]
      BY <1>6 DEF FlattenSeq
    <2>2. Goes([i \in 1..2 |-> IF i = 1 THEN a ELSE a \o b])
      <3> DEFINE g == [i \in 1..2 |-> IF i = 1 THEN a ELSE a \o b]
      <3>1. g[1] = a
        OBVIOUS
      <3>2. \A i \in 1..2 : g[i] = IF i = 1 THEN seqs[i] ELSE g[i - 1] \o seqs[i]
        <4> SUFFICES ASSUME NEW i \in 1..2 PROVE g[i] = IF i = 1 THEN seqs[i] ELSE g[i - 1] \o seqs[i]
          OBVIOUS
        <4>1. CASE i = 1
          BY <1>6, <4>1
        <4>2. CASE i # 1
          <5>1. i = 2 /\ i - 1 = 1
            BY <4>2
          <5> QED BY <1>6, <3>1, <5>1
        <4> QED BY <4>1, <4>2
      <3>3. g = [i \in 1..2 |-> g[i]]
        OBVIOUS
      <3> HIDE DEF g
      <3>4. Goes(g)
        BY <3>2, <3>3
      <3> QED BY <3>4 DEF g
    <2>3. Goes(flatten)
      <3> HIDE DEF Goes
      <3> QED BY <2>2
    <2> HIDE DEF flatten
    <2>4. \A i \in 1..2 : flatten[i] = IF i = 1 THEN seqs[i] ELSE flatten[i - 1] \o seqs[i]
      BY <2>3
    <2>5. 1 \in 1..2 /\ 2 \in 1..2 /\ 2 # 1 /\ 2 - 1 = 1
      OBVIOUS
    <2>6. flatten[1] = a /\ flatten[2] = flatten[1] \o b
      BY <1>6, <2>4, <2>5
    <2> QED BY <2>1, <2>6
  <1>9. IsSeq(a \o b) /\ ToSet(a \o b) = ToSet(a) \union ToSet(b)
    BY <1>5, JoinedSet DEF CallsOf
  <1> QED BY <1>5, <1>7, <1>8, <1>9 DEF CallsOf

LEMMA CallsKept == ASSUME CallsOf(calls), register PROVE CallsOf(calls')
  <1>1. \/ calls' = Tail(calls)
        \/ calls' = Sift(calls, {c \in ToSet(calls) : c.manifest # Head(calls).manifest})
    BY DEF register, Enter, Throw
  <1>2. calls # <<>>
    BY DEF register
  <1>3. CallsOf(Tail(calls))
    <2>1. IsSeq(Tail(calls)) /\ Len(calls) \in Nat \ {0} /\ DOMAIN calls = 1..Len(calls)
          /\ DOMAIN Tail(calls) = 1..(Len(calls) - 1) /\ \A i \in DOMAIN Tail(calls) : Tail(calls)[i] = calls[i + 1]
      BY <1>2, SeqTail DEF CallsOf
    <2>2. \A i \in 1..(Len(calls) - 1) : i + 1 \in 1..Len(calls)
      BY <2>1
    <2>3. ToSet(Tail(calls)) \subseteq ToSet(calls)
      BY <2>1, <2>2 DEF ToSet
    <2> QED BY <2>1, <2>3 DEF CallsOf
  <1>4. CallsOf(Sift(calls, {c \in ToSet(calls) : c.manifest # Head(calls).manifest}))
    BY SiftedSet DEF CallsOf
  <1> QED BY <1>1, <1>3, <1>4

LEMMA HeadDeclared ==
    ASSUME CallsOf(calls), calls # <<>>
    PROVE  ModuleDeclared(Catalog[Head(calls).module])
  <1>1. Head(calls) = calls[1] /\ 1 \in DOMAIN calls
    BY SeqTail DEF CallsOf
  <1>2. Head(calls).module \in DOMAIN Catalog
    BY <1>1 DEF CallsOf, ToSet
  <1> QED BY <1>2, CatalogAssumption DEF ModuleDeclared, IsList, IsSeq, ToSet

-----------------------------------------------------------------------------
(* The draft of a form.                                                    *)
(*                                                                         *)
(* The descriptors are those of the registry, forms well declared.  While  *)
(* one is shown its computed fields agree with the draft, and the draft    *)
(* keeps the id of its record: the notebook relies on that.                *)

FormDeclared(d) == {"fields", "entity"} \subseteq DOMAIN d /\ WellDeclared(d)
FormsDeclared ==
    \A i \in DOMAIN routes : routes[i].descriptor.viewType = "form" => FormDeclared(routes[i].descriptor)

FormInv == Shown => WellDeclared(form) /\ PlanOK(form) /\ Agrees(form, draft)
IdInv ==
    /\ screen = "form" => Shown
    /\ screen # "form" => ~Shown /\ draft = Nothing
    /\ ~crossed /\ HasId(record) => HasId(draft)
DraftInv == CallsOf(calls) /\ RoutesOK(routes) /\ FormInv /\ IdInv

\* A draft has the id of its record, and no widget, default, handler or answer
\* takes it away unless the record is left.
IdStays == (HasId(record') \/ HasId(draft)) /\ ~crossed' => HasId(draft')

LEMMA NothingHasNoId == ~HasId(Nothing)
  BY DEF HasId, Nothing

LEMMA DraftInit == Init => DraftInv
  <1> SUFFICES ASSUME Init PROVE DraftInv
    OBVIOUS
  <1>1. routes = <<>> /\ form = NoForm /\ draft = Nothing /\ record = Nothing /\ screen = "none"
    BY DEF Init, RegistryInit, ScreenInit
  <1>2. RoutesOK(<<>>)
    BY DEF RoutesOK, IsSeq, ToSet
  <1>3. CallsOf(calls)
    <2>1. CallsOf(<<>>)
      BY DEF CallsOf, IsSeq, ToSet
    <2>2. found \in Discoveries /\ (calls = <<>> \/ calls = RegisterCalls(found))
      BY DEF Init, RegistryInit
    <2> QED BY <2>1, <2>2, RegisterCallsOf
  <1> QED BY <1>1, <1>2, <1>3, NothingHasNoId DEF DraftInv, FormInv, IdInv, Shown

LEMMA OpenFormDraft ==
    ASSUME NEW d, FormDeclared(d), PlanOK(d), NEW row, OpenForm(d, row), screen' = "form",
           screen # "form", IdInv
    PROVE  FormInv' /\ IdInv' /\ IdStays
  <1>1. form' = [d EXCEPT !.layout = normalizeLayout(d)] /\ record' = row /\ draft' = seed(d, row)
    BY DEF OpenForm
  <1>2. SameFields(d, form') /\ "fields" \in DOMAIN form'
    BY <1>1 DEF SameFields, FormDeclared
  <1>3. Agrees(d, seed(d, row)) /\ Keeps(seed(d, row), row)
    BY SeedAgrees DEF FormDeclared
  <1>4. WellDeclared(form') /\ PlanOK(form') /\ Agrees(form', draft')
    BY <1>1, <1>2, <1>3, SamePlan, SameAgree DEF FormDeclared
  <1>5. FormInv'
    BY <1>4 DEF FormInv
  <1>6. HasId(record') => HasId(draft')
    BY <1>1, <1>3 DEF Keeps, HasId
  <1>7. ~HasId(draft)
    BY NothingHasNoId DEF IdInv
  <1>8. Shown'
    <2>1. "fields" \notin DOMAIN NoForm
      BY DEF NoForm
    <2> QED BY <1>2, <2>1 DEF Shown
  <1>9. IdInv'
    BY <1>6, <1>8 DEF IdInv
  <1> QED BY <1>5, <1>6, <1>7, <1>9 DEF IdStays

LEMMA EditDraft ==
    ASSUME WellDeclared(form), PlanOK(form), Agrees(form, draft), EditField \/ PickCountry
    PROVE  Agrees(form, draft') /\ Keeps(draft', draft)
  <1>1. CASE EditField
    <2>1. PICK i \in DOMAIN form.fields :
             ~Disabled(form.fields[i]) /\ \E ws \in Writes(form.fields[i]) : draft' = Written(ws)
      BY <1>1 DEF EditField
    <2>2. form.fields[i] \in ToSet(form.fields)
      BY DEF ToSet
    <2> QED BY <2>1, <2>2, WidgetWrites, WrittenAgrees
  <1>2. CASE PickCountry
    <2>1. PICK i \in DOMAIN form.fields, dial \in Dials :
             LET f == form.fields[i]
                 digits == splitPhone(f, Value(draft, f.name))[2]
             IN  ~Disabled(f) /\ draft' = IF digits = "" THEN draft ELSE Written(<<Write(f.name, E164(f, dial, digits))>>)
      BY Zenon, <1>2 DEF PickCountry
    <2> DEFINE f == form.fields[i]
               w == E164(f, dial, splitPhone(f, Value(draft, f.name))[2])
    <2>2. f \in ToSet(form.fields)
      BY DEF ToSet
    <2>3. f.name \notin ComputedKeys(form)
      BY Zenon, <2>1, <2>2, NotComputed DEF Disabled
    <2>4. draft' = draft \/ draft' = Written(<<Write(f.name, w)>>)
      BY Zenon, <2>1
    <2> HIDE DEF w
    <2>5. WritesOK(form, <<Write(f.name, w)>>)
      BY <2>3, OneWrite
    <2>6. Keeps(Written(<<Write(f.name, w)>>), draft) /\ Agrees(form, Written(<<Write(f.name, w)>>))
      BY <2>5, WrittenAgrees
    <2> QED BY <2>4, <2>6 DEF Keeps
  <1> QED BY <1>1, <1>2

LEMMA ScreenStepDraft ==
    ASSUME FormInv, IdInv, screen = "form", screen' = "form", ScreenNext
    PROVE  FormInv' /\ IdInv' /\ IdStays
  <1>1. Shown /\ WellDeclared(form) /\ PlanOK(form) /\ Agrees(form, draft)
    BY DEF FormInv, IdInv
  <1>2. form' = form
    BY Zenon DEF ScreenNext, EditField, PickCountry, Save, Reset, AnswerSave, SelectTab, AddPage, TypeInPage, SavePage,
           DeletePage, AnswerList, AnswerCreate, AnswerUpdate, AnswerRemove, fieldVars
  <1>3. Shown'
    BY <1>1, <1>2 DEF Shown
  <1>4. ASSUME Agrees(form, draft') PROVE FormInv'
    BY <1>1, <1>2, <1>4 DEF FormInv
  <1>5. CASE EditField \/ PickCountry
    <2>1. Agrees(form, draft') /\ Keeps(draft', draft)
      BY <1>1, <1>5, EditDraft
    <2>2. record' = record /\ crossed' = crossed
      BY Zenon, <1>5 DEF EditField, PickCountry
    <2>3. HasId(draft) => HasId(draft')
      BY <2>1 DEF Keeps, HasId
    <2> QED BY <1>3, <1>4, <2>1, <2>2, <2>3 DEF IdInv, IdStays, HasId
  <1>6. CASE Reset
    <2>1. draft' = seed(form, initial) /\ record' = record
          /\ (HasId(draft) /\ ~HasId(initial) => crossed') /\ (crossed' \/ crossed' = crossed)
      BY <1>6 DEF Reset
    <2>2. Agrees(form, draft') /\ Keeps(draft', initial)
      BY <1>1, <2>1, SeedAgrees
    <2>3. HasId(initial) => HasId(draft')
      BY <2>2 DEF Keeps, HasId
    <2>4. HasId(record') <=> HasId(record)
      BY <2>1 DEF HasId
    <2> QED BY <1>3, <1>4, <2>1, <2>2, <2>3, <2>4 DEF IdInv, IdStays
  <1>7. CASE AnswerSave
    <2> DEFINE answer == Over(Head(sent).payload, Over([id |-> "1"], record))
    <2>1. CASE draft' = seed(form, answer)
      <3>1. Agrees(form, draft') /\ Keeps(draft', answer)
        BY <1>1, <2>1, SeedAgrees
      <3>2. HasId(answer)
        BY DEF HasId, Over
      <3> HIDE DEF answer
      <3>3. HasId(draft')
        BY <3>1, <3>2 DEF Keeps, HasId
      <3> QED BY <1>3, <1>4, <3>1, <3>3 DEF IdInv, IdStays
    <2>2. CASE UNCHANGED <<record, draft>>
      <3>1. crossed' = crossed
        BY <1>7 DEF AnswerSave
      <3> QED BY <1>1, <1>3, <1>4, <2>2, <3>1 DEF IdInv, IdStays, HasId
    <2> QED BY <1>7, <2>1, <2>2 DEF AnswerSave
  <1>8. CASE UNCHANGED <<record, draft>> /\ (crossed => crossed')
    BY <1>1, <1>3, <1>4, <1>8 DEF IdInv, IdStays, HasId
  <1>9. ScreenNext => EditField \/ PickCountry \/ Reset \/ AnswerSave
                      \/ (UNCHANGED <<record, draft>> /\ (crossed => crossed'))
    BY Zenon DEF ScreenNext, Save, SelectTab, AddPage, TypeInPage, SavePage,
           DeletePage, AnswerList, AnswerCreate, AnswerUpdate, AnswerRemove, fieldVars
  <1> QED BY <1>5, <1>6, <1>7, <1>8, <1>9

LEMMA DraftStep ==
    ASSUME DraftInv, FormsDeclared, [Next]_vars PROVE DraftInv' /\ [IdStays]_vars
  <1>0. CallsOf(calls) /\ RoutesOK(routes) /\ FormInv /\ IdInv
    BY DEF DraftInv
  <1>1. RoutesOK(routes') /\ CallsOf(calls')
    <2>1. UNCHANGED <<routes, calls>> \/ register
      BY DEF Next, vars, registryVars, Register, ModulePage, GraphMode, BoardStep, PropertyStep, PrintReportPage,
             PrintStep, FormStep
    <2> QED BY <1>0, <2>1, RegisterKeeps, CallsKept, HeadDeclared
  <1>2. CASE UNCHANGED screenVars /\ (screen' = "form" <=> screen = "form")
    <2>1. UNCHANGED <<form, draft, record, crossed>>
      BY <1>2 DEF screenVars, fieldVars
    <2>2. FormInv'
      BY <1>0, <2>1 DEF FormInv, Shown
    <2>3. IdInv'
      BY <1>0, <1>2, <2>1 DEF IdInv, Shown, HasId
    <2>4. IdStays
      BY <1>0, <2>1 DEF IdInv, IdStays, HasId
    <2> QED BY <1>1, <2>2, <2>3, <2>4 DEF DraftInv
  <1>3. CASE FormStep
    <2>1. screen = "form" /\ screen' = "form" /\ ScreenNext
      BY <1>3 DEF FormStep
    <2> QED BY <1>0, <1>1, <2>1, ScreenStepDraft DEF DraftInv
  <1>4. CASE ModulePage
    <2>1. screen = "none"
      BY <1>4 DEF ModulePage
    <2>2. \/ UNCHANGED screenVars /\ screen' # "form"
          \/ /\ screen' = "form"
             /\ \E i \in DOMAIN routes : /\ routes[i].descriptor.viewType = "form"
                                         /\ \E row : OpenForm(routes[i].descriptor, row)
      <3>1. \/ screen' \in {"error", "missing"} /\ UNCHANGED screenVars
            \/ \E path : match(path) # 0 /\ loadView(routes[match(path)], path)
        BY <1>4 DEF ModulePage
      <3>2. ASSUME NEW route, NEW path, loadView(route, path)
            PROVE  \/ UNCHANGED screenVars /\ screen' # "form"
                   \/ screen' = "form" /\ route.descriptor.viewType = "form" /\ \E row : OpenForm(route.descriptor, row)
        BY <3>2 DEF loadView
      <3> QED BY <1>0, <3>1, <3>2, MatchFound
    <2>3. ASSUME NEW i \in DOMAIN routes, routes[i].descriptor.viewType = "form",
                 NEW row, OpenForm(routes[i].descriptor, row), screen' = "form"
          PROVE  FormInv' /\ IdInv' /\ IdStays
      <3>1. PlanOK(routes[i].descriptor)
        BY <1>0 DEF RoutesOK, DescriptorOK
      <3>2. FormDeclared(routes[i].descriptor)
        BY <2>3 DEF FormsDeclared
      <3> QED BY <1>0, <2>1, <2>3, <3>1, <3>2, OpenFormDraft
    <2> QED BY <1>1, <1>2, <2>1, <2>2, <2>3 DEF DraftInv
  <1>5. [Next]_vars => \/ FormStep \/ ModulePage
                       \/ UNCHANGED screenVars /\ (screen' = "form" <=> screen = "form")
    BY DEF Next, vars, Register, GraphMode, BoardStep, PropertyStep, PrintReportPage, PrintStep
  <1> QED BY <1>2, <1>3, <1>4, <1>5

\* While a form is shown every computed field of it holds what its function gives
\* for the draft, whichever widgets, handlers, answers and resets led there, if the
\* forms registered are well declared (behaviors.applyBehaviors, stores.ts).
THEOREM ComputedAgreeHolds == Spec /\ []FormsDeclared => []ComputedAgree
  <1>1. Init => DraftInv
    BY DraftInit
  <1>2. DraftInv /\ FormsDeclared /\ [Next]_vars => DraftInv'
    BY DraftStep
  <1>3. DraftInv => ComputedAgree
    BY DEF DraftInv, FormInv, ComputedAgree
  <1> QED BY <1>1, <1>2, <1>3, PTL DEF Spec

-----------------------------------------------------------------------------
(* The notebook of a form.                                                 *)
(*                                                                         *)
(* The queue of Server Actions decides: a list of the pages is alone with  *)
(* saves, and no page is shown before it is answered; a page that is being *)
(* added has only saves in front of it, so its index is still the next one *)
(* when the answer comes.  That the notebook has a page of its own is a    *)
(* hypothesis; that the draft keeps its id comes from the section above.   *)

\* A notebook has a page of its own, whatever was added to it.
NotebookHasTab == screen = "form" /\ HasNotebook(form) => DeclaredTabs \in Nat \ {0}

OnlySaves(q) == \A i \in DOMAIN q : q[i].kind = "save"
SavesBefore(q, k) == \A i \in 1..(k - 1) : q[i].kind = "save"
SavesBut(q, k) == \A i \in DOMAIN q : i # k => q[i].kind = "save"

CallKinds == {"save", "list", "create", "update", "remove"}
Calls(q) == IsSeq(q) /\ \A i \in DOMAIN q : q[i].kind \in CallKinds
NoteType == IsSeq(tabs) /\ IsSeq(pages) /\ Calls(sent) /\ (tabs = <<>> => DOMAIN editors = {})

BeforeForm == ~Shown /\ tabs = <<>> /\ active = 0 /\ sent = <<>>
NewRecord == ~HasId(draft) => tabs = <<>> /\ OnlySaves(sent)
ListAlone == \A k \in DOMAIN sent : sent[k].kind = "list" => tabs = <<>> /\ SavesBut(sent, k)
NextIndex == \A k \in DOMAIN sent : sent[k].kind = "create" => SavesBefore(sent, k) /\ sent[k].index = TabCount
TabShown == HasNotebook(form) => active \in 0..(TabCount - 1)
NoteCalm == NewRecord /\ ListAlone /\ NextIndex /\ TabShown
NoteInv ==
    /\ NoteType
    /\ screen # "form" => BeforeForm
    /\ screen = "form" /\ ~crossed => NoteCalm

LEMMA SeqReplaced ==
    ASSUME NEW s, IsSeq(s), NEW p, NEW content
    PROVE  IsSeq(Replaced(s, p, content)) /\ Len(Replaced(s, p, content)) = Len(s) /\ Len(s) \in Nat
  <1> DEFINE r == Replaced(s, p, content)
             S == {r[i] : i \in DOMAIN s}
  <1>1. DOMAIN s = 1..Len(s) /\ Len(s) \in Nat
    BY DEF IsSeq
  <1>2. DOMAIN r = DOMAIN s
    BY DEF Replaced
  <1>3. r = [i \in 1..Len(s) |-> r[i]]
    BY <1>1 DEF Replaced
  <1> HIDE DEF r
  <1>4. \A i \in 1..Len(s) : r[i] \in S
    BY <1>1
  <1> HIDE DEF S
  <1>5. r \in Seq(S) /\ Len(r) = Len(s)
    BY <1>1, <1>2, <1>3, <1>4
  <1> QED BY <1>1, <1>5, SeqOfItself DEF r

LEMMA SeqOthers ==
    ASSUME NEW s, IsSeq(s), NEW p PROVE IsSeq(Others(s, p))
  <1> DEFINE at == {i \in DOMAIN s : s[i].id = p}
             S == ToSet(s)
  <1>1. s \in Seq(S) /\ DOMAIN s = 1..Len(s) /\ Len(s) \in Nat
    BY DEF IsSeq
  <1> HIDE DEF S
  <1>2. CASE at = {}
    BY <1>2 DEF Others
  <1>3. CASE at # {}
    <2> DEFINE c == CHOOSE k \in at : TRUE
    <2>3. c \in at
      BY <1>3
    <2> HIDE DEF c
    <2>1. PICK i \in 1..Len(s) : i = c
      BY <1>1, <2>3
    <2>2. Others(s, p) = RemoveAt(s, i)
      BY <1>3, <2>1 DEF Others, c
    <2>5. SubSeq(s, 1, i - 1) \in Seq(S) /\ SubSeq(s, i + 1, Len(s)) \in Seq(S)
      BY <1>1, <2>1
    <2>4. RemoveAt(s, i) \in Seq(S)
      BY <2>5 DEF RemoveAt
    <2> QED BY <2>2, <2>4, SeqOfItself
  <1> QED BY <1>2, <1>3

LEMMA SeqDropped ==
    ASSUME NEW q, Calls(q) PROVE Calls(Dropped(q))
  <1> DEFINE r == Dropped(q)
             S == {r[i] : i \in DOMAIN q}
  <1>1. DOMAIN q = 1..Len(q) /\ Len(q) \in Nat
    BY DEF Calls, IsSeq
  <1>2. DOMAIN r = DOMAIN q /\ r = [i \in 1..Len(q) |-> r[i]]
    BY <1>1 DEF Dropped
  <1>3. \A i \in DOMAIN q : r[i].kind \in CallKinds
    <2> SUFFICES ASSUME NEW i \in DOMAIN q PROVE r[i].kind \in CallKinds
      OBVIOUS
    <2>1. r[i] = IF q[i].kind = "list" THEN [q[i] EXCEPT !.live = FALSE] ELSE q[i]
      BY DEF Dropped
    <2> HIDE DEF r
    <2>2. CASE q[i].kind # "list"
      BY <2>1, <2>2 DEF Calls
    <2>3. CASE q[i].kind = "list"
      <3>1. r[i] = [q[i] EXCEPT !.live = FALSE]
        BY <2>1, <2>3
      <3>2. [q[i] EXCEPT !.live = FALSE].kind = q[i].kind
        OBVIOUS
      <3> QED BY <3>1, <3>2, <2>3 DEF CallKinds
    <2> QED BY <2>2, <2>3
  <1> HIDE DEF r
  <1>4. \A i \in 1..Len(q) : r[i] \in S
    BY <1>1
  <1> HIDE DEF S
  <1>5. r \in Seq(S)
    BY <1>1, <1>2, <1>4
  <1>6. IsSeq(r)
    BY <1>5, SeqOfItself
  <1> QED BY <1>2, <1>3, <1>6 DEF Calls, r

LEMMA SeqEmpty == IsSeq(<<>>) /\ Calls(<<>>) /\ Len(<<>>) = 0 /\ DOMAIN <<>> = {}
  <1>1. <<>> \in Seq({}) /\ Len(<<>>) = 0 /\ DOMAIN <<>> = {}
    OBVIOUS
  <1>2. IsSeq(<<>>)
    BY <1>1, SeqOfItself
  <1> QED BY <1>1, <1>2 DEF Calls

LEMMA CallsAppend ==
    ASSUME NEW q, Calls(q), NEW c, c.kind \in CallKinds PROVE Calls(Append(q, c))
  <1>1. IsSeq(q)
    BY DEF Calls
  <1>2. /\ IsSeq(Append(q, c)) /\ Len(q) \in Nat /\ DOMAIN q = 1..Len(q) /\ Append(q, c)[Len(q) + 1] = c
        /\ DOMAIN Append(q, c) = 1..(Len(q) + 1) /\ \A i \in DOMAIN q : Append(q, c)[i] = q[i]
    BY <1>1, SeqAppend
  <1>3. ASSUME NEW i \in 1..(Len(q) + 1) PROVE Append(q, c)[i].kind \in CallKinds
    <2>1. CASE i = Len(q) + 1
      BY <1>2, <2>1
    <2>2. CASE i # Len(q) + 1
      <3>1. i \in DOMAIN q
        BY <1>2, <2>2
      <3> QED BY <1>2, <3>1 DEF Calls
    <2> QED BY <2>1, <2>2
  <1> QED BY <1>2, <1>3 DEF Calls

LEMMA CallsTail ==
    ASSUME NEW q, Calls(q), q # <<>> PROVE Calls(Tail(q))
  <1>1. /\ IsSeq(Tail(q)) /\ Len(q) \in Nat /\ DOMAIN q = 1..Len(q) /\ DOMAIN Tail(q) = 1..(Len(q) - 1)
        /\ \A i \in DOMAIN Tail(q) : Tail(q)[i] = q[i + 1]
    BY SeqTail DEF Calls
  <1>2. \A i \in DOMAIN Tail(q) : i + 1 \in DOMAIN q
    BY <1>1
  <1> QED BY <1>1, <1>2 DEF Calls

\* A call that is pushed: it takes no page's place, and no list is waiting if pages are shown.
LEMMA PushKeeps ==
    ASSUME Calls(sent), ListAlone, NextIndex, UNCHANGED <<form, tabs>>,
           NEW c, sent' = Append(sent, c), c.kind = "save" \/ (c.kind \in {"update", "remove"} /\ tabs # <<>>)
    PROVE  ListAlone' /\ NextIndex'
  <1>1. /\ Len(sent) \in Nat /\ DOMAIN sent = 1..Len(sent) /\ sent'[Len(sent) + 1] = c
        /\ DOMAIN sent' = 1..(Len(sent) + 1) /\ \A i \in DOMAIN sent : sent'[i] = sent[i]
    BY SeqAppend DEF Calls
  <1>2. \A i \in DOMAIN sent' : i \in DOMAIN sent \/ i = Len(sent) + 1
    BY <1>1
  <1>3. ListAlone'
    <2> SUFFICES ASSUME NEW k \in DOMAIN sent', sent'[k].kind = "list"
                 PROVE  tabs' = <<>> /\ \A i \in DOMAIN sent' : i # k => sent'[i].kind = "save"
      BY DEF ListAlone, SavesBut
    <2>1. k \in DOMAIN sent
      BY <1>1, <1>2
    <2>2. tabs = <<>> /\ \A i \in DOMAIN sent : i # k => sent[i].kind = "save"
      BY <1>1, <2>1 DEF ListAlone, SavesBut
    <2>3. c.kind = "save"
      BY <2>2
    <2> QED BY <1>1, <1>2, <2>2, <2>3
  <1>4. NextIndex'
    <2> SUFFICES ASSUME NEW k \in DOMAIN sent', sent'[k].kind = "create"
                 PROVE  (\A i \in 1..(k - 1) : sent'[i].kind = "save") /\ sent'[k].index = TabCount'
      BY DEF NextIndex, SavesBefore
    <2>1. k \in DOMAIN sent
      BY <1>1, <1>2
    <2>2. (\A i \in 1..(k - 1) : sent[i].kind = "save") /\ sent[k].index = TabCount
      BY <1>1, <2>1 DEF NextIndex, SavesBefore
    <2>3. \A i \in 1..(k - 1) : i \in DOMAIN sent
      BY <1>1, <2>1
    <2>4. TabCount' = TabCount
      BY DEF TabCount, DeclaredTabs
    <2> QED BY <1>1, <2>1, <2>2, <2>3, <2>4
  <1> QED BY <1>3, <1>4

\* A save that is answered: the calls behind it stay as they were.
LEMMA PopKeeps ==
    ASSUME Calls(sent), sent # <<>>, ListAlone, NextIndex, UNCHANGED <<form, tabs>>, sent' = Tail(sent)
    PROVE  ListAlone' /\ NextIndex'
  <1>1. /\ Len(sent) \in Nat /\ DOMAIN sent = 1..Len(sent) /\ DOMAIN sent' = 1..(Len(sent) - 1)
        /\ \A i \in DOMAIN sent' : sent'[i] = sent[i + 1]
    BY SeqTail DEF Calls
  <1>2. \A i \in DOMAIN sent' : i + 1 \in DOMAIN sent /\ i \in Nat
    BY <1>1
  <1>3. ListAlone'
    <2> SUFFICES ASSUME NEW k \in DOMAIN sent', sent'[k].kind = "list"
                 PROVE  tabs' = <<>> /\ \A i \in DOMAIN sent' : i # k => sent'[i].kind = "save"
      BY DEF ListAlone, SavesBut
    <2>1. tabs = <<>> /\ \A i \in DOMAIN sent : i # k + 1 => sent[i].kind = "save"
      BY <1>1, <1>2 DEF ListAlone, SavesBut
    <2>2. \A i \in DOMAIN sent' : i # k => i + 1 # k + 1
      BY <1>2
    <2> QED BY <1>1, <1>2, <2>1, <2>2
  <1>4. NextIndex'
    <2> SUFFICES ASSUME NEW k \in DOMAIN sent', sent'[k].kind = "create"
                 PROVE  (\A i \in 1..(k - 1) : sent'[i].kind = "save") /\ sent'[k].index = TabCount'
      BY DEF NextIndex, SavesBefore
    <2>1. (\A i \in 1..(k + 1 - 1) : sent[i].kind = "save") /\ sent[k + 1].index = TabCount
      BY <1>1, <1>2 DEF NextIndex, SavesBefore
    <2>2. \A i \in 1..(k - 1) : i \in DOMAIN sent' /\ i + 1 \in 1..(k + 1 - 1)
      BY <1>1
    <2>3. TabCount' = TabCount
      BY DEF TabCount, DeclaredTabs
    <2> QED BY <1>1, <2>1, <2>2, <2>3
  <1> QED BY <1>3, <1>4

\* Behind any other call there is neither a list nor a page being added.
LEMMA HeadAlone ==
    ASSUME Calls(sent), sent # <<>>, ListAlone, NextIndex, Head(sent).kind # "save"
    PROVE  \A k \in DOMAIN Tail(sent) : Tail(sent)[k].kind \notin {"list", "create"}
  <1>1. /\ Len(sent) \in Nat \ {0} /\ DOMAIN sent = 1..Len(sent) /\ DOMAIN Tail(sent) = 1..(Len(sent) - 1)
        /\ Head(sent) = sent[1] /\ \A i \in DOMAIN Tail(sent) : Tail(sent)[i] = sent[i + 1]
    BY SeqTail DEF Calls
  <1> SUFFICES ASSUME NEW k \in DOMAIN Tail(sent) PROVE sent[k + 1].kind \notin {"list", "create"}
    BY <1>1
  <1>2. k + 1 \in DOMAIN sent /\ 1 \in DOMAIN sent /\ 1 # k + 1 /\ 1 \in 1..(k + 1 - 1)
    BY <1>1
  <1>3. sent[k + 1].kind # "list"
    BY <1>1, <1>2 DEF ListAlone, SavesBut
  <1>4. sent[k + 1].kind # "create"
    BY <1>1, <1>2 DEF NextIndex, SavesBefore
  <1> QED BY <1>3, <1>4

\* What the notebook shows is a sequence of pages, and an editor belongs to a page shown.
LEMMA ShowTabsType ==
    ASSUME NEW shown, IsSeq(shown), ShowTabs(shown)
    PROVE  IsSeq(tabs') /\ (tabs' = <<>> => DOMAIN editors' = {})
  <1>1. tabs' = shown /\ DOMAIN editors' = {shown[i].id : i \in DOMAIN shown}
    BY DEF ShowTabs, EditorsOf
  <1>2. shown = <<>> => DOMAIN editors' = {}
    <2> SUFFICES ASSUME shown = <<>> PROVE {shown[i].id : i \in DOMAIN shown} = {}
      BY <1>1
    <2>1. DOMAIN shown = {}
      BY SeqEmpty
    <2> QED BY <2>1
  <1> QED BY <1>1, <1>2

LEMMA NoteTypeStep ==
    ASSUME NoteType, ScreenNext PROVE NoteType'
  <1> USE DEF Act
  <1>0. IsSeq(tabs) /\ IsSeq(pages) /\ Calls(sent) /\ (tabs = <<>> => DOMAIN editors = {})
    BY DEF NoteType
  <1>1. CASE UNCHANGED <<tabs, pages, sent, editors>>
    BY <1>0, <1>1 DEF NoteType, Calls, IsSeq
  <1>2. (EditField \/ PickCountry \/ SelectTab) => UNCHANGED <<tabs, pages, sent, editors>>
    BY Zenon DEF EditField, PickCountry, SelectTab, noteVars
  <1>3. CASE Save
    <2>1. UNCHANGED <<tabs, pages, editors>>
      BY <1>3 DEF Save, noteVars
    <2>2. sent' = sent \/ sent' = Append(sent, [kind |-> "save", payload |-> stripUnstored(form, draft)])
      BY <1>3 DEF Save
    <2>4. Calls(Append(sent, [kind |-> "save", payload |-> stripUnstored(form, draft)]))
      BY <1>0, CallsAppend DEF CallKinds
    <2>3. Calls(sent')
      BY <1>0, <2>2, <2>4
    <2> QED BY <1>0, <2>1, <2>3 DEF NoteType
  <1>4. CASE Reset
    <2>1. \/ UNCHANGED <<tabs, pages, sent, editors>>
          \/ tabs' = <<>> /\ editors' = <<>> /\ sent' = Dropped(sent) /\ pages' = pages
      BY <1>4 DEF Reset
    <2> QED BY <1>0, <1>1, <2>1, SeqDropped, SeqEmpty DEF NoteType
  <1>5. ASSUME sent # <<>> PROVE Calls(Tail(sent)) /\ IsSeq(Tail(sent))
    BY <1>0, <1>5, CallsTail DEF Calls
  <1>6. CASE AnswerSave
    <2>1. UNCHANGED <<tabs, pages, editors>> /\ sent # <<>>
      BY <1>6 DEF AnswerSave, Answering, noteVars
    <2>2. \/ sent' = Tail(sent)
          \/ sent' = Tail(sent) \o <<>>
          \/ sent' = Tail(sent) \o <<[kind |-> "list", live |-> TRUE]>>
      BY <1>6 DEF AnswerSave, ListCalls
    <2> DEFINE q == Tail(sent)
    <2>3. Calls(q) /\ q \in Seq(ToSet(q))
      BY <1>5, <2>1 DEF IsSeq
    <2>4. q \o <<>> = q /\ q \o <<[kind |-> "list", live |-> TRUE]>> = Append(q, [kind |-> "list", live |-> TRUE])
      <3> DEFINE S == ToSet(q)
      <3> HIDE DEF q, S
      <3> QED BY <2>3 DEF S
    <2> HIDE DEF q
    <2>5. Calls(Append(q, [kind |-> "list", live |-> TRUE]))
      BY <2>3, CallsAppend DEF CallKinds
    <2>6. Calls(sent')
      BY <2>2, <2>3, <2>4, <2>5 DEF q
    <2> QED BY <1>0, <2>1, <2>6 DEF NoteType
  <1>7. CASE AddPage
    <2>1. UNCHANGED <<tabs, pages, editors>> /\ sent' = Append(sent, [kind |-> "create", index |-> TabCount])
      BY <1>7 DEF AddPage
    <2>2. Calls(sent')
      BY <1>0, <2>1, CallsAppend DEF CallKinds
    <2> QED BY <1>0, <2>1, <2>2 DEF NoteType
  <1>8. CASE TypeInPage
    <2>1. UNCHANGED <<tabs, pages, sent>> /\ DOMAIN editors' = DOMAIN editors
      BY <1>8 DEF TypeInPage
    <2> QED BY <1>0, <2>1 DEF NoteType, Calls, IsSeq
  <1>9. CASE SavePage
    <2>1. PICK i \in DOMAIN tabs :
              /\ editors' = [editors EXCEPT ![tabs[i].id].busy = TRUE]
              /\ sent' = Append(sent, [kind |-> "update", page |-> tabs[i].id, content |-> Typing(tabs[i].id)])
      BY <1>9 DEF SavePage
    <2>2. UNCHANGED <<tabs, pages>>
      BY <1>9 DEF SavePage
    <2>3. Calls(sent') /\ DOMAIN editors' = DOMAIN editors
      BY <1>0, <2>1, CallsAppend DEF CallKinds
    <2> QED BY <1>0, <2>2, <2>3 DEF NoteType
  <1>10. CASE DeletePage
    <2>1. PICK p \in DOMAIN editors :
              editors' = [editors EXCEPT ![p].busy = TRUE] /\ sent' = Append(sent, [kind |-> "remove", page |-> p])
      BY <1>10 DEF DeletePage
    <2>2. UNCHANGED <<tabs, pages>>
      BY <1>10 DEF DeletePage
    <2>3. Calls(sent') /\ DOMAIN editors' = DOMAIN editors
      BY <1>0, <2>1, CallsAppend DEF CallKinds
    <2> QED BY <1>0, <2>2, <2>3 DEF NoteType
  <1>11. CASE AnswerList
    <2>1. sent # <<>> /\ sent' = Tail(sent) /\ pages' = pages
      BY <1>11 DEF AnswerList, Answering
    <2>2. UNCHANGED <<tabs, editors>> \/ ShowTabs(pages) \/ ShowTabs(<<>>)
      BY <1>11 DEF AnswerList
    <2>3. IsSeq(tabs') /\ (tabs' = <<>> => DOMAIN editors' = {})
      BY <1>0, <2>2, ShowTabsType, SeqEmpty
    <2> QED BY <1>0, <1>5, <2>1, <2>3 DEF NoteType
  <1>12. CASE AnswerCreate
    <2>1. sent # <<>> /\ sent' = Tail(sent)
      BY Zenon, <1>12 DEF AnswerCreate, Answering
    <2>2. CASE UNCHANGED <<pages, tabs, editors, active>>
      BY <1>0, <1>5, <2>1, <2>2 DEF NoteType
    <2>3. ASSUME NEW new, pages' = Append(pages, new), ShowTabs(Append(tabs, new)) PROVE NoteType'
      <3>1. IsSeq(pages') /\ IsSeq(Append(tabs, new))
        BY <1>0, <2>3, SeqAppend
      <3> QED BY <1>5, <2>1, <2>3, <3>1, ShowTabsType DEF NoteType
    <2> QED BY Zenon, <1>12, <2>2, <2>3 DEF AnswerCreate
  <1>13. CASE AnswerUpdate
    <2> DEFINE p == Head(sent).page
               text == Head(sent).content
    <2>1. sent # <<>> /\ sent' = Tail(sent)
      BY <1>13 DEF AnswerUpdate, Answering
    <2>2. \/ UNCHANGED <<pages, tabs>>
          \/ pages' = Replaced(pages, p, text) /\ tabs' = Replaced(tabs, p, text)
      BY <1>13 DEF AnswerUpdate
    <2>3. DOMAIN editors' = DOMAIN editors
      BY <1>13 DEF AnswerUpdate
    <2>4. IsSeq(pages') /\ IsSeq(tabs') /\ (tabs' = <<>> => tabs = <<>>)
      <3>1. CASE UNCHANGED <<pages, tabs>>
        BY <1>0, <3>1
      <3>2. CASE pages' = Replaced(pages, p, text) /\ tabs' = Replaced(tabs, p, text)
        <4>1. IsSeq(pages') /\ IsSeq(tabs') /\ Len(tabs') = Len(tabs)
          BY <1>0, <3>2, SeqReplaced
        <4>2. tabs' = <<>> => Len(tabs) = 0
          BY <4>1, SeqEmpty
        <4>3. Len(tabs) = 0 => tabs = <<>>
          <5> DEFINE S == ToSet(tabs)
          <5>1. tabs \in Seq(S)
            BY <1>0 DEF IsSeq
          <5> HIDE DEF S
          <5> QED BY <5>1
        <4> QED BY <4>1, <4>2, <4>3
      <3> QED BY <2>2, <3>1, <3>2
    <2> QED BY <1>0, <1>5, <2>1, <2>3, <2>4 DEF NoteType
  <1>14. CASE AnswerRemove
    <2> DEFINE p == Head(sent).page
    <2>1. sent # <<>> /\ sent' = Tail(sent)
      BY <1>14 DEF AnswerRemove, Answering
    <2>2. \/ UNCHANGED <<pages, tabs>> /\ DOMAIN editors' = DOMAIN editors
          \/ pages' = Others(pages, p) /\ ShowTabs(Others(tabs, p))
      BY <1>14 DEF AnswerRemove, onPageDeleted
    <2>3. CASE UNCHANGED <<pages, tabs>> /\ DOMAIN editors' = DOMAIN editors
      BY <1>0, <1>5, <2>1, <2>3 DEF NoteType
    <2>4. CASE pages' = Others(pages, p) /\ ShowTabs(Others(tabs, p))
      <3>1. IsSeq(pages') /\ IsSeq(Others(tabs, p))
        BY <1>0, <2>4, SeqOthers
      <3> QED BY <1>5, <2>1, <2>4, <3>1, ShowTabsType DEF NoteType
    <2> QED BY <2>2, <2>3, <2>4
  <1> QED BY <1>1, <1>2, <1>3, <1>4, <1>6, <1>7, <1>8, <1>9, <1>10, <1>11, <1>12, <1>13, <1>14 DEF ScreenNext

LEMMA NoteCalmStep ==
    ASSUME NoteType, NoteCalm, screen = "form", NotebookHasTab, ScreenNext, IdStays, ~crossed'
    PROVE  NoteCalm'
  <1> USE DEF Act
  <1>0. IsSeq(tabs) /\ IsSeq(pages) /\ Calls(sent) /\ (tabs = <<>> => DOMAIN editors = {})
    BY DEF NoteType
  <1>a. NewRecord /\ ListAlone /\ NextIndex /\ TabShown
    BY DEF NoteCalm
  <1>b. Len(tabs) \in Nat
    BY <1>0 DEF IsSeq
  <1>c. /\ HasId(draft) => HasId(draft')
        /\ HasId(record') => HasId(draft')
    BY DEF IdStays
  <1>d. HasNotebook(form) => DeclaredTabs \in Nat \ {0}
    BY DEF NotebookHasTab
  <1>e. HasId(draft)' <=> HasId(draft')
    BY DEF HasId
  \* A step of the fields: the notebook and its calls are left alone.
  <1>1. ASSUME UNCHANGED <<form, tabs, active, sent>> PROVE NoteCalm'
    <2>1. ListAlone' /\ NextIndex' /\ TabShown'
      BY <1>1, <1>a DEF ListAlone, NextIndex, TabShown, TabCount, DeclaredTabs, SavesBut, SavesBefore, HasNotebook
    <2>2. NewRecord'
      BY <1>1, <1>a, <1>c, <1>e DEF NewRecord, OnlySaves
    <2> QED BY <2>1, <2>2 DEF NoteCalm
  <1>2. CASE EditField \/ PickCountry
    BY Zenon, <1>1, <1>2 DEF EditField, PickCountry, noteVars
  <1>3. CASE Save
    <2>1. UNCHANGED <<form, tabs, active, draft>>
      BY <1>3 DEF Save, noteVars
    <2>2. CASE sent' = sent
      BY <1>1, <2>1, <2>2
    <2>3. ASSUME NEW c, sent' = Append(sent, c), c.kind = "save" PROVE NoteCalm'
      <3>1. ListAlone' /\ NextIndex'
        BY <1>0, <1>a, <2>1, <2>3, PushKeeps
      <3>2. TabShown'
        BY <1>a, <2>1 DEF TabShown, TabCount, DeclaredTabs, HasNotebook
      <3>3. NewRecord'
        <4> SUFFICES ASSUME ~HasId(draft') PROVE tabs' = <<>> /\ OnlySaves(sent')
          BY DEF NewRecord, OnlySaves, HasId
        <4>1. tabs = <<>> /\ OnlySaves(sent)
          BY <1>a, <1>c DEF NewRecord
        <4>2. /\ Len(sent) \in Nat /\ DOMAIN sent = 1..Len(sent) /\ sent'[Len(sent) + 1] = c
              /\ DOMAIN sent' = 1..(Len(sent) + 1) /\ \A i \in DOMAIN sent : sent'[i] = sent[i]
          BY <1>0, <2>3, SeqAppend DEF Calls
        <4>3. \A i \in DOMAIN sent' : i \in DOMAIN sent \/ i = Len(sent) + 1
          BY <4>2
        <4>4. OnlySaves(sent')
          BY <4>1, <4>2, <4>3, <2>3 DEF OnlySaves
        <4> QED BY <4>1, <4>4, <2>1
      <3> QED BY <3>1, <3>2, <3>3 DEF NoteCalm
    <2>4. sent' = sent \/ sent' = Append(sent, [kind |-> "save", payload |-> stripUnstored(form, draft)])
      BY <1>3 DEF Save
    <2> QED BY <2>2, <2>3, <2>4
  <1>4. CASE Reset
    <2>1. UNCHANGED <<form, tabs, active, sent>>
      BY <1>4 DEF Reset
    <2> QED BY <1>1, <2>1
  <1>5. CASE AnswerSave
    <2>1. UNCHANGED <<form, tabs, active>> /\ sent # <<>> /\ Head(sent).kind = "save"
      BY <1>5 DEF AnswerSave, Answering, noteVars
    <2>2. TabShown'
      BY <1>a, <2>1 DEF TabShown, TabCount, DeclaredTabs, HasNotebook
    <2>3. /\ Len(sent) \in Nat /\ DOMAIN sent = 1..Len(sent) /\ DOMAIN Tail(sent) = 1..(Len(sent) - 1)
          /\ \A i \in DOMAIN Tail(sent) : Tail(sent)[i] = sent[i + 1]
      BY <1>0, <2>1, SeqTail DEF Calls
    <2>4. OnlySaves(sent) => OnlySaves(Tail(sent))
      <3>1. \A i \in DOMAIN Tail(sent) : i + 1 \in DOMAIN sent
        BY <2>3
      <3> QED BY <2>3, <3>1 DEF OnlySaves
    <2>5. CASE sent' = Tail(sent)
      <3>1. ListAlone' /\ NextIndex'
        BY <1>0, <1>a, <2>1, <2>5, PopKeeps
      <3>2. NewRecord'
        BY <1>a, <1>c, <1>e, <2>1, <2>4, <2>5 DEF NewRecord, OnlySaves
      <3> QED BY <2>2, <3>1, <3>2 DEF NoteCalm
    <2>6. CASE ~HasId(draft) /\ HasId(draft') /\ sent' = Tail(sent) \o <<[kind |-> "list", live |-> TRUE]>>
      <3> DEFINE q == Tail(sent)
                 c == [kind |-> "list", live |-> TRUE]
      <3>1. IsSeq(q) /\ q \in Seq(ToSet(q))
        BY <1>0, <2>1, CallsTail DEF Calls, IsSeq
      <3>2. q \o <<c>> = Append(q, c)
        <4> DEFINE S == ToSet(q)
        <4> HIDE DEF q, S, c
        <4> QED BY <3>1 DEF S
      <3>3. sent' = Append(q, c)
        BY <2>6, <3>2
      <3>4. tabs = <<>> /\ OnlySaves(q)
        BY <1>a, <2>4, <2>6 DEF NewRecord
      <3> HIDE DEF q
      <3>5. /\ Len(q) \in Nat /\ DOMAIN q = 1..Len(q) /\ sent'[Len(q) + 1] = c
            /\ DOMAIN sent' = 1..(Len(q) + 1) /\ \A i \in DOMAIN q : sent'[i] = q[i]
        BY <3>1, <3>3, SeqAppend
      <3>6. \A i \in DOMAIN sent' : i \in DOMAIN q \/ i = Len(q) + 1
        BY <3>5
      <3>7. \A i \in DOMAIN sent' : sent'[i].kind = "save" \/ (i = Len(q) + 1 /\ sent'[i].kind = "list")
        BY <3>4, <3>5, <3>6 DEF OnlySaves
      <3>8. ListAlone'
        BY <2>1, <3>4, <3>7 DEF ListAlone, SavesBut
      <3>9. NextIndex'
        BY <3>7 DEF NextIndex
      <3>10. NewRecord'
        BY <1>e, <2>6 DEF NewRecord
      <3> QED BY <2>2, <3>8, <3>9, <3>10 DEF NoteCalm
    <2>7. sent' = Tail(sent) \/ (sent' = Tail(sent) \o (IF HasId(draft) THEN <<>> ELSE ListCalls(form)) /\ HasId(record'))
      <3>1. HasId(Over(Head(sent).payload, Over([id |-> "1"], record)))
        BY DEF HasId, Over
      <3> QED BY <1>5, <3>1 DEF AnswerSave
    <2>8. Tail(sent) \o <<>> = Tail(sent)
      <3> DEFINE q == Tail(sent)
      <3>1. q \in Seq(ToSet(q))
        BY <1>0, <2>1, CallsTail DEF Calls, IsSeq
      <3> DEFINE S == ToSet(q)
      <3> HIDE DEF q, S
      <3>2. q \o <<>> = q
        BY <3>1 DEF S
      <3> QED BY <3>2 DEF q
    <2>9. ListCalls(form) = <<>> \/ ListCalls(form) = <<[kind |-> "list", live |-> TRUE]>>
      BY DEF ListCalls
    <2> QED BY <1>c, <2>5, <2>6, <2>7, <2>8, <2>9
  <1>6. CASE SelectTab
    <2>1. UNCHANGED <<form, tabs, sent, draft>> /\ active' \in 0..(TabCount - 1)
      BY <1>6 DEF SelectTab, fieldVars
    <2>2. ListAlone' /\ NextIndex' /\ NewRecord'
      BY <1>a, <2>1 DEF ListAlone, NextIndex, TabCount, DeclaredTabs, SavesBut, SavesBefore, NewRecord, OnlySaves, HasId
    <2>3. TabShown'
      BY <2>1 DEF TabShown, TabCount, DeclaredTabs, HasNotebook
    <2> QED BY <2>2, <2>3 DEF NoteCalm
  <1>7. CASE AddPage
    <2> DEFINE c == [kind |-> "create", index |-> TabCount]
    <2>1. UNCHANGED <<form, tabs, active, draft>> /\ sent' = Append(sent, c) /\ HasId(draft)
      BY <1>7 DEF AddPage, fieldVars
    <2>2. OnlySaves(sent)
      <3>1. \A i \in DOMAIN sent : ~NotebookCall(sent[i])
        BY <1>7 DEF AddPage
      <3> QED BY <1>0, <3>1 DEF Calls, CallKinds, NotebookCall, OnlySaves
    <2>3. c.kind = "create" /\ c.index = TabCount
      OBVIOUS
    <2> HIDE DEF c
    <2>4. /\ Len(sent) \in Nat /\ DOMAIN sent = 1..Len(sent) /\ sent'[Len(sent) + 1] = c
          /\ DOMAIN sent' = 1..(Len(sent) + 1) /\ \A i \in DOMAIN sent : sent'[i] = sent[i]
      BY <1>0, <2>1, SeqAppend DEF Calls
    <2>5. \A i \in DOMAIN sent' : i \in DOMAIN sent \/ i = Len(sent) + 1
      BY <2>4
    <2>6. \A i \in DOMAIN sent : sent'[i].kind = "save"
      BY <2>2, <2>4 DEF OnlySaves
    <2>7. \A i \in 1..(Len(sent) + 1 - 1) : sent'[i].kind = "save"
      BY <2>4, <2>6
    <2>8. TabCount' = TabCount
      BY <2>1 DEF TabCount, DeclaredTabs
    <2>9. ListAlone'
      BY <2>3, <2>4, <2>5, <2>6 DEF ListAlone
    <2>10. NextIndex'
      <3> SUFFICES ASSUME NEW k \in DOMAIN sent', sent'[k].kind = "create"
                   PROVE  (\A i \in 1..(k - 1) : sent'[i].kind = "save") /\ sent'[k].index = TabCount'
        BY DEF NextIndex, SavesBefore
      <3>1. k = Len(sent) + 1
        BY <2>5, <2>6
      <3> QED BY <2>3, <2>4, <2>7, <2>8, <3>1
    <2>11. NewRecord' /\ TabShown'
      BY <1>a, <2>1 DEF NewRecord, HasId, TabShown, TabCount, DeclaredTabs, HasNotebook
    <2> QED BY <2>9, <2>10, <2>11 DEF NoteCalm
  <1>8. CASE TypeInPage
    BY <1>1, <1>8 DEF TypeInPage, fieldVars
  \* A page that is saved or deleted is shown: the record has an id.
  <1>9. ASSUME UNCHANGED <<form, tabs, active, draft>>, tabs # <<>>,
               NEW c, c.kind \in {"update", "remove"}, sent' = Append(sent, c)
        PROVE  NoteCalm'
    <2>1. ListAlone' /\ NextIndex'
      BY <1>0, <1>a, <1>9, PushKeeps
    <2>2. TabShown'
      BY <1>a, <1>9 DEF TabShown, TabCount, DeclaredTabs, HasNotebook
    <2>3. NewRecord'
      BY <1>a, <1>c, <1>e, <1>9 DEF NewRecord
    <2> QED BY <2>1, <2>2, <2>3 DEF NoteCalm
  <1>10. CASE SavePage
    <2>1. PICK i \in DOMAIN tabs :
              sent' = Append(sent, [kind |-> "update", page |-> tabs[i].id, content |-> Typing(tabs[i].id)])
      BY <1>10 DEF SavePage
    <2>2. tabs # <<>>
      BY <2>1, SeqEmpty
    <2>3. UNCHANGED <<form, tabs, active, draft>>
      BY <1>10 DEF SavePage, fieldVars
    <2> QED BY <1>9, <2>1, <2>2, <2>3
  <1>11. CASE DeletePage
    <2>1. PICK p \in DOMAIN editors : sent' = Append(sent, [kind |-> "remove", page |-> p])
      BY <1>11 DEF DeletePage
    <2>2. tabs # <<>>
      BY <1>0, <2>1
    <2>3. UNCHANGED <<form, tabs, active, draft>>
      BY <1>11 DEF DeletePage, fieldVars
    <2> QED BY <1>9, <2>1, <2>2, <2>3
  \* An answer of the notebook: nothing behind it depends on the pages shown.
  <1>12. ASSUME sent # <<>>, Head(sent).kind # "save", sent' = Tail(sent), UNCHANGED <<form, draft>>, TabShown'
         PROVE  NoteCalm'
    <2>1. HasId(draft)
      <3>1. 1 \in DOMAIN sent /\ Head(sent) = sent[1]
        BY <1>0, <1>12, SeqTail DEF Calls
      <3> QED BY <1>a, <1>12, <3>1 DEF NewRecord, OnlySaves
    <2>2. \A k \in DOMAIN sent' : sent'[k].kind \notin {"list", "create"}
      BY <1>0, <1>a, <1>12, HeadAlone
    <2>3. ListAlone' /\ NextIndex'
      BY <2>2 DEF ListAlone, NextIndex
    <2>4. NewRecord'
      BY <1>c, <1>e, <2>1 DEF NewRecord
    <2> QED BY <1>12, <2>3, <2>4 DEF NoteCalm
  <1>13. ASSUME UNCHANGED form, IsSeq(tabs'), HasNotebook(form) => active' \in 0..((DeclaredTabs + Len(tabs')) - 1)
         PROVE  TabShown'
    <2>1. DeclaredTabs' = DeclaredTabs /\ (HasNotebook(form)' => HasNotebook(form))
      BY <1>13 DEF DeclaredTabs, HasNotebook
    <2>2. TabCount' = DeclaredTabs + Len(tabs')
      BY <2>1 DEF TabCount
    <2> SUFFICES ASSUME HasNotebook(form)' PROVE active' \in 0..(TabCount' - 1)
      BY DEF TabShown
    <2>3. active' \in 0..((DeclaredTabs + Len(tabs')) - 1)
      BY <1>13, <2>1
    <2> QED BY <2>2, <2>3, Zenon
  <1>14. CASE AnswerList
    <2>1. sent # <<>> /\ sent' = Tail(sent) /\ Head(sent).kind = "list" /\ UNCHANGED <<form, draft, active>>
      BY <1>14 DEF AnswerList, Answering, fieldVars
    <2>2. tabs = <<>>
      <3>1. 1 \in DOMAIN sent /\ Head(sent) = sent[1]
        BY <1>0, <2>1, SeqTail DEF Calls
      <3> QED BY <1>a, <2>1, <3>1 DEF ListAlone
    <2>3. Len(tabs) = 0
      BY <2>2, SeqEmpty
    <2>4. IsSeq(tabs') /\ Len(tabs') \in Nat
      <3>1. NoteType'
        BY NoteTypeStep
      <3> QED BY <3>1 DEF NoteType, IsSeq
    <2>5. HasNotebook(form) => active' \in 0..((DeclaredTabs + Len(tabs')) - 1)
      BY <1>a, <1>d, <2>1, <2>3, <2>4 DEF TabShown, TabCount
    <2>6. TabShown'
      BY <1>13, <2>1, <2>4, <2>5
    <2> QED BY <1>12, <2>1, <2>6
  <1>15. CASE AnswerCreate
    <2>1. sent # <<>> /\ sent' = Tail(sent) /\ Head(sent).kind = "create" /\ UNCHANGED <<form, draft>>
      BY Zenon, <1>15 DEF AnswerCreate, Answering, fieldVars
    <2>2. Head(sent).index = TabCount
      <3>1. 1 \in DOMAIN sent /\ Head(sent) = sent[1]
        BY <1>0, <2>1, SeqTail DEF Calls
      <3> QED BY <1>a, <2>1, <3>1 DEF NextIndex
    <2>3. CASE UNCHANGED <<tabs, active>>
      <3>1. TabShown'
        BY <1>a, <2>1, <2>3 DEF TabShown, TabCount, DeclaredTabs, HasNotebook
      <3> QED BY <1>12, <2>1, <3>1
    <2>4. ASSUME NEW new, ShowTabs(Append(tabs, new)), active' = Head(sent).index PROVE NoteCalm'
      <3>1. tabs' = Append(tabs, new) /\ IsSeq(tabs') /\ Len(tabs') = Len(tabs) + 1
        BY <1>0, <2>4, SeqAppend DEF ShowTabs
      <3>2. HasNotebook(form) => active' \in 0..((DeclaredTabs + Len(tabs')) - 1)
        BY <1>b, <1>d, <2>2, <2>4, <3>1 DEF TabCount
      <3>3. TabShown'
        BY <1>13, <2>1, <3>1, <3>2
      <3> QED BY <1>12, <2>1, <3>3
    <2> QED BY Zenon, <1>15, <2>3, <2>4 DEF AnswerCreate
  <1>16. CASE AnswerUpdate
    <2>1. sent # <<>> /\ sent' = Tail(sent) /\ Head(sent).kind = "update" /\ UNCHANGED <<form, draft, active>>
      BY <1>16 DEF AnswerUpdate, Answering, fieldVars
    <2>2. IsSeq(tabs') /\ Len(tabs') = Len(tabs)
      <3>1. tabs' = tabs \/ tabs' = Replaced(tabs, Head(sent).page, Head(sent).content)
        BY <1>16 DEF AnswerUpdate
      <3> QED BY <1>0, <3>1, SeqReplaced
    <2>3. HasNotebook(form) => active' \in 0..((DeclaredTabs + Len(tabs')) - 1)
      <3> SUFFICES ASSUME HasNotebook(form) PROVE active' \in 0..((DeclaredTabs + Len(tabs')) - 1)
        OBVIOUS
      <3>1. active \in 0..((DeclaredTabs + Len(tabs)) - 1)
        BY <1>a, Zenon DEF TabShown, TabCount
      <3> QED BY <2>1, <2>2, <3>1
    <2>4. TabShown'
      BY <1>13, <2>1, <2>2, <2>3
    <2> QED BY <1>12, <2>1, <2>4
  <1>17. CASE AnswerRemove
    <2>1. sent # <<>> /\ sent' = Tail(sent) /\ Head(sent).kind = "remove" /\ UNCHANGED <<form, draft>>
      BY <1>17 DEF AnswerRemove, Answering, fieldVars
    <2>2. IsSeq(tabs') /\ Len(tabs') \in Nat
      <3>1. NoteType'
        BY NoteTypeStep
      <3> QED BY <3>1 DEF NoteType, IsSeq
    <2>3. UNCHANGED <<tabs, active>> \/ active' = 0
      BY <1>17 DEF AnswerRemove, onPageDeleted, BackToFirst
    <2>4. HasNotebook(form) => active' \in 0..((DeclaredTabs + Len(tabs')) - 1)
      BY <1>a, <1>d, <2>2, <2>3 DEF TabShown, TabCount
    <2>5. TabShown'
      BY <1>13, <2>1, <2>2, <2>4
    <2> QED BY <1>12, <2>1, <2>5
  <1> QED BY <1>2, <1>3, <1>4, <1>5, <1>6, <1>7, <1>8, <1>10, <1>11, <1>14, <1>15, <1>16, <1>17 DEF ScreenNext

LEMMA NoteInit == Init => NoteInv
  <1> SUFFICES ASSUME Init PROVE NoteInv
    OBVIOUS
  <1>1. screen = "none" /\ ScreenInit
    BY DEF Init
  <1>2. tabs = <<>> /\ pages = <<>> /\ sent = <<>> /\ editors = <<>> /\ active = 0 /\ form = NoForm
    BY <1>1 DEF ScreenInit
  <1>3. NoteType /\ BeforeForm
    BY <1>2, SeqEmpty DEF NoteType, BeforeForm, Shown
  <1> QED BY <1>1, <1>3 DEF NoteInv

LEMMA NoteOpenForm ==
    ASSUME NoteType, BeforeForm, NEW d, NEW row, OpenForm(d, row), screen' = "form", IdStays, NotebookHasTab'
    PROVE  NoteType' /\ (~crossed' => NoteCalm')
  <1>1. tabs' = <<>> /\ pages' = pages /\ active' = 0 /\ editors' = editors /\ record' = row
    BY DEF OpenForm, noteVars, BeforeForm
  <1>2. IsSeq(tabs) /\ IsSeq(pages) /\ (tabs = <<>> => DOMAIN editors = {}) /\ tabs = <<>>
    BY DEF NoteType, BeforeForm
  <1> DEFINE c == [kind |-> "list", live |-> TRUE]
  <1>3. (sent' = <<>> /\ OnlySaves(sent')) \/ (sent' = <<c>> /\ HasId(row))
    BY SeqEmpty DEF OpenForm, ListCalls, OnlySaves
  <1>4. c.kind = "list"
    OBVIOUS
  <1> HIDE DEF c
  <1>5. sent' = <<c>> => IsSeq(sent') /\ DOMAIN sent' = {1} /\ sent'[1] = c
    <2>1. <<c>> \in Seq({c}) /\ DOMAIN <<c>> = {1} /\ <<c>>[1] = c
      OBVIOUS
    <2> QED BY <2>1, SeqOfItself
  <1>6. Calls(sent')
    BY <1>3, <1>4, <1>5, SeqEmpty DEF Calls, CallKinds
  <1>7. NoteType'
    BY <1>1, <1>2, <1>6 DEF NoteType
  <1>8. ASSUME ~crossed' PROVE NoteCalm'
    <2>1. ListAlone'
      BY <1>1, <1>3, <1>5, SeqEmpty DEF ListAlone, SavesBut
    <2>2. NextIndex'
      BY <1>3, <1>4, <1>5, SeqEmpty DEF NextIndex
    <2>3. NewRecord'
      <3>1. HasId(row) => HasId(draft')
        BY <1>1, <1>8 DEF IdStays
      <3> QED BY <1>1, <1>3, <3>1 DEF NewRecord, OnlySaves, HasId
    <2>4. TabShown'
      <3> SUFFICES ASSUME HasNotebook(form)' PROVE active' \in 0..(TabCount' - 1)
        BY DEF TabShown
      <3>1. DeclaredTabs' \in Nat \ {0}
        BY DEF NotebookHasTab
      <3>2. Len(tabs') = 0
        BY <1>1, SeqEmpty
      <3>3. TabCount' = DeclaredTabs' + Len(tabs')
        BY DEF TabCount
      <3>4. \A m, n : m \in Nat \ {0} /\ n = 0 => 0 \in 0..((m + n) - 1)
        OBVIOUS
      <3> QED BY <1>1, <3>1, <3>2, <3>3, <3>4, Zenon
    <2> QED BY <2>1, <2>2, <2>3, <2>4 DEF NoteCalm
  <1> QED BY <1>7, <1>8

LEMMA NoteStep ==
    ASSUME NoteInv, NotebookHasTab, NotebookHasTab', [Next]_vars, UNCHANGED vars \/ IdStays PROVE NoteInv'
  <1>0. NoteType /\ (screen # "form" => BeforeForm) /\ (screen = "form" /\ ~crossed => NoteCalm)
    BY DEF NoteInv
  <1>1. CASE UNCHANGED screenVars /\ (screen' = "form" <=> screen = "form")
    <2>1. UNCHANGED <<form, draft, tabs, pages, active, editors, sent, crossed>>
      BY <1>1 DEF screenVars, fieldVars, noteVars
    <2>2. NoteType'
      BY <1>0, <2>1 DEF NoteType, Calls, IsSeq
    <2>3. BeforeForm => BeforeForm'
      BY <2>1 DEF BeforeForm, Shown
    <2>4. NoteCalm => NoteCalm'
      BY <2>1 DEF NoteCalm, NewRecord, OnlySaves, HasId, ListAlone, NextIndex, SavesBut, SavesBefore, TabShown,
                  TabCount, DeclaredTabs, HasNotebook
    <2> QED BY <1>0, <1>1, <2>1, <2>2, <2>3, <2>4 DEF NoteInv
  <1>2. CASE UNCHANGED vars
    BY <1>1, <1>2 DEF vars
  <1>3. CASE FormStep /\ IdStays
    <2>1. screen = "form" /\ screen' = "form" /\ ScreenNext
      BY <1>3 DEF FormStep
    <2>2. NoteType'
      BY <1>0, <2>1, NoteTypeStep
    <2>3. ASSUME ~crossed' PROVE NoteCalm'
      <3>1. ~crossed
        BY Zenon, <2>1, <2>3 DEF ScreenNext, EditField, PickCountry, Save, Reset, AnswerSave, SelectTab, AddPage,
                          TypeInPage, SavePage, DeletePage, AnswerList, AnswerCreate, AnswerUpdate, AnswerRemove
      <3> QED BY <1>0, <1>3, <2>1, <2>3, <3>1, NoteCalmStep
    <2> QED BY <2>1, <2>2, <2>3 DEF NoteInv
  <1>4. CASE ModulePage /\ IdStays
    <2>1. screen = "none" /\ BeforeForm
      BY <1>0, <1>4 DEF ModulePage
    <2>2. \/ UNCHANGED screenVars /\ screen' # "form"
          \/ screen' = "form" /\ \E d, row : OpenForm(d, row)
      <3>1. \/ screen' \in {"error", "missing"} /\ UNCHANGED screenVars
            \/ \E route, path : loadView(route, path)
        BY <1>4 DEF ModulePage
      <3>2. ASSUME NEW route, NEW path, loadView(route, path)
            PROVE  \/ UNCHANGED screenVars /\ screen' # "form"
                   \/ screen' = "form" /\ \E d, row : OpenForm(d, row)
        BY <3>2 DEF loadView
      <3> QED BY <3>1, <3>2
    <2>3. ASSUME NEW d, NEW row, OpenForm(d, row), screen' = "form" PROVE NoteInv'
      BY <1>0, <1>4, <2>1, <2>3, NoteOpenForm DEF NoteInv
    <2> QED BY <1>1, <2>1, <2>2, <2>3
  <1>5. Next => \/ FormStep \/ ModulePage
                \/ UNCHANGED screenVars /\ (screen' = "form" <=> screen = "form")
    BY DEF Next, Register, GraphMode, BoardStep, PropertyStep, PrintReportPage, PrintStep
  <1> QED BY <1>1, <1>2, <1>3, <1>4, <1>5 DEF vars

\* The notebook shows a tab that exists while pages are added, saved, deleted and
\* listed again, unless one is added with another call of the notebook under way or
\* the record is left, if the notebook has a page of its own and the forms are
\* well declared (layout-renderer.NotebookNode).
THEOREM ActiveTabExistsHolds == Spec /\ []NotebookHasTab /\ []FormsDeclared => []ActiveTabExists
  <1>1. Init => NoteInv /\ DraftInv
    BY NoteInit, DraftInit
  <1>2. /\ NoteInv /\ DraftInv
        /\ NotebookHasTab /\ FormsDeclared /\ NotebookHasTab' /\ [Next]_vars
        => NoteInv' /\ DraftInv'
    BY NoteStep, DraftStep
  <1>3. NoteInv /\ NotebookHasTab => ActiveTabExists
    <2> SUFFICES ASSUME NoteInv, NotebookHasTab, Shown, ~crossed, HasNotebook(form) PROVE active < TabCount
      BY DEF ActiveTabExists
    <2>1. screen = "form"
      BY DEF NoteInv, BeforeForm
    <2>2. active \in 0..(TabCount - 1)
      BY <2>1 DEF NoteInv, NoteCalm, TabShown
    <2>3. DeclaredTabs \in Nat /\ Len(tabs) \in Nat
      BY <2>1 DEF NotebookHasTab, NoteInv, NoteType, IsSeq
    <2>4. TabCount \in Int
      BY <2>3 DEF TabCount
    <2> QED BY <2>2, <2>4
  <1> QED BY <1>1, <1>2, <1>3, PTL DEF Spec

-----------------------------------------------------------------------------
(* The reports that are registered are reports of the catalog, and those   *)
(* are declared as the print page expects: the lists they are read from    *)
(* keep only what a module gave to register.                               *)

ReportsKnown(rs) == IsSeq(rs) /\ \A i \in DOMAIN rs : ReportDeclared(rs[i])

LEMMA AddReportKeeps ==
    ASSUME NEW rs, ReportsKnown(rs), NEW r, ReportDeclared(r)
    PROVE  ReportsKnown(AddReport(rs, r))
  <1>1. CASE ~\E i \in DOMAIN rs : rs[i].name = r.name
    <2>1. AddReport(rs, r) = Append(rs, r)
      BY <1>1 DEF AddReport
    <2>2. /\ IsSeq(Append(rs, r)) /\ DOMAIN Append(rs, r) = 1..(Len(rs) + 1)
          /\ DOMAIN rs = 1..Len(rs) /\ Len(rs) \in Nat
          /\ Append(rs, r)[Len(rs) + 1] = r
          /\ \A i \in DOMAIN rs : Append(rs, r)[i] = rs[i]
      BY SeqAppend DEF ReportsKnown
    <2>3. \A i \in 1..(Len(rs) + 1) : i \in 1..Len(rs) \/ i = Len(rs) + 1
      BY <2>2
    <2> QED BY <2>1, <2>2, <2>3 DEF ReportsKnown
  <1>2. CASE \E i \in DOMAIN rs : rs[i].name = r.name
    <2> DEFINE new == [i \in DOMAIN rs |-> IF rs[i].name = r.name THEN r ELSE rs[i]]
    <2>1. AddReport(rs, r) = new
      BY <1>2 DEF AddReport
    <2>2. DOMAIN rs = 1..Len(rs) /\ Len(rs) \in Nat
      BY SeqDomain DEF ReportsKnown
    <2>3. DOMAIN new = 1..Len(rs) /\ new = [i \in 1..Len(rs) |-> new[i]]
          /\ \A i \in DOMAIN rs : new[i] \in {rs[i], r}
      BY <2>2
    <2> HIDE DEF new
    <2>4. IsSeq(new)
      BY <2>2, <2>3, SeqOfMap
    <2> QED BY <2>1, <2>2, <2>3, <2>4 DEF ReportsKnown
  <1> QED BY <1>1, <1>2

LEMMA AddReportsKeep ==
    ASSUME NEW rs, ReportsKnown(rs), NEW more, IsSeq(more), \A i \in DOMAIN more : ReportDeclared(more[i])
    PROVE  ReportsKnown(FoldLeft(AddReport, rs, more))
  <1> DEFINE N == Len(more)
  <1>1. PICK A : IsRun(A, "report", NULL, rs, more) /\ A[N] = FoldLeft(AddReport, rs, more)
    BY ReportRuns
  <1>2. A[0] = rs /\ \A k \in 1..N : A[k] = AddReport(A[k - 1], more[k])
    BY <1>1 DEF IsRun, Step
  <1>3. N \in Nat /\ \A k \in 1..N : ReportDeclared(more[k])
    BY SeqDomain
  <1> DEFINE T == {k \in 0..N : ReportsKnown(A[k])}
  <1> HIDE DEF N
  <1>4. 0 \in 0..N /\ N \in 0..N
    BY <1>3
  <1>5. 0 \in T
    BY <1>2, <1>4
  <1>6. ASSUME NEW k \in 0..(N - 1), k \in T PROVE k + 1 \in T
    <2>1. k + 1 \in 1..N /\ k + 1 \in 0..N /\ (k + 1) - 1 = k
      BY <1>3
    <2> QED BY <1>2, <1>3, <1>6, <2>1, AddReportKeeps
  <1>7. \A k \in 0..N : k \in T
    <2> HIDE DEF T
    <2> QED BY <1>3, <1>5, <1>6, UpTo
  <1> QED BY <1>1, <1>4, <1>7

\* The reports in front of the first one that is refused are well formed.
LEMMA ValidReportsOK ==
    ASSUME NEW rs, IsSeq(rs)
    PROVE  /\ IsSeq(ValidReports(rs)) /\ ToSet(ValidReports(rs)) \subseteq ToSet(rs)
           /\ ReportsOK(ValidReports(rs))
  <1> DEFINE bad == {i \in DOMAIN rs : ~ReportOK(rs[i])}
             S == ToSet(rs)
  <1>1. rs \in Seq(S) /\ Len(rs) \in Nat /\ DOMAIN rs = 1..Len(rs)
    BY SeqDomain DEF IsSeq
  <1>2. CASE bad = {}
    BY <1>2 DEF ValidReports, ReportsOK
  <1>3. CASE bad # {}
    <2> DEFINE low == Min(bad)
               m == low - 1
               front == SubSeq(rs, 1, m)
    <2>1. ValidReports(rs) = front
      BY <1>3 DEF ValidReports
    <2>2. bad \in SUBSET Nat
      BY <1>1
    <2>3. Min(bad) \in bad /\ \A y \in bad : Min(bad) <= y
      <3> HIDE DEF bad
      <3> QED BY <1>3, <2>2, LeastOf
    <2>4. low \in 1..Len(rs) /\ \A i \in 1..Len(rs) : i < low => ReportOK(rs[i])
      <3>1. low \in 1..Len(rs)
        <4> HIDE DEF m
        <4> QED BY <1>1, <2>3 DEF low
      <3>2. ASSUME NEW i \in 1..Len(rs), i < low PROVE i \notin bad
        <4> HIDE DEF bad
        <4> QED BY <2>3, <3>1, <3>2
      <3> HIDE DEF m
      <3> QED BY <1>1, <3>1, <3>2
    <2>5. m \in 0..Len(rs) /\ \A i \in 1..m : i \in 1..Len(rs) /\ ReportOK(rs[i])
      <3> HIDE DEF low
      <3> QED BY <1>1, <2>4
    <2> HIDE DEF m, S
    <2>6. front \in Seq(S) /\ Len(front) = m /\ \A i \in 1..m : front[i] = rs[i]
      BY <1>1, <2>5
    <2>7. DOMAIN front = 1..m
      BY <2>5, <2>6
    <2> HIDE DEF front
    <2>8. IsSeq(front) /\ ToSet(front) \subseteq ToSet(rs) /\ ReportsOK(front)
      <3>1. IsSeq(front)
        BY <2>6, SeqOfItself
      <3>2. ToSet(front) \subseteq ToSet(rs)
        BY <1>1, <2>5, <2>6, <2>7 DEF ToSet
      <3>3. ReportsOK(front)
        BY <2>5, <2>6, <2>7 DEF ReportsOK
      <3> QED BY <3>1, <3>2, <3>3
    <2> QED BY <2>1, <2>8
  <1> QED BY <1>2, <1>3

LEMMA RegisterReports ==
    ASSUME ReportsDeclared, CallsOf(calls), ReportsKnown(reports), register
    PROVE  ReportsKnown(reports')
  <1> DEFINE mod == Catalog[Head(calls).module]
             all == mod.reports
  <1>1. calls # <<>>
    BY DEF register
  <1>2. Head(calls) = calls[1] /\ 1 \in DOMAIN calls
    BY <1>1, SeqTail DEF CallsOf
  <1>3. Head(calls).module \in DOMAIN Catalog
    BY <1>2 DEF CallsOf, ToSet
  <1>4. IsSeq(all) /\ \A r \in ToSet(all) : ReportOK(r) => ReportDeclared(r)
    BY <1>3 DEF ReportsDeclared, IsList, IsSeq
  <1>5. \/ UNCHANGED reports
        \/ reports' = FoldLeft(AddReport, reports, ValidReports(all))
        \/ ReportsOK(all) /\ reports' = FoldLeft(AddReport, reports, all)
    BY DEF register, Enter
  <1> HIDE DEF all
  <1>6. CASE reports' = FoldLeft(AddReport, reports, ValidReports(all))
    <2>1. \A i \in DOMAIN ValidReports(all) : ReportDeclared(ValidReports(all)[i])
      BY <1>4, ValidReportsOK DEF ReportsOK, ToSet
    <2> QED BY <1>4, <1>6, <2>1, ValidReportsOK, AddReportsKeep
  <1>7. CASE ReportsOK(all) /\ reports' = FoldLeft(AddReport, reports, all)
    <2>1. \A i \in DOMAIN all : ReportDeclared(all[i])
      BY <1>4, <1>7 DEF ReportsOK, ToSet
    <2> QED BY <1>4, <1>7, <2>1, AddReportsKeep
  <1> QED BY <1>5, <1>6, <1>7

-----------------------------------------------------------------------------
(* The reads of a report: the record, then its pictures, the rows of its   *)
(* tables and the company, in that order and each once, but for rows that  *)
(* two tables may ask for.                                                 *)

\* The reads of a report, by what they are about.
RecordRead == [read |-> "record"]
PictureRead(s) == [read |-> "picture", name |-> s]
RowsRead(s) == [read |-> "rows", name |-> s]
CompanyRead(r) == [read |-> "company", fields |-> ToSet(reportCompanyFallbackFields(r))]

Pictures(r) == {n.source : n \in ToSet(reportImageSources(r))}
Tables(r) == {n.source : n \in {m \in Nodes(r) : m.kind = "table"}}
FieldNodes(r) == {n \in Nodes(r) : n.kind = "field"}
PrintedNames(r) == {n.name : n \in FieldNodes(r)}
Backed(r) == {n \in FieldNodes(r) : n.fallback # NoFallback}

DataReads(r) ==
    {PictureRead(s) : s \in Pictures(r)} \union {RowsRead(s) : s \in Tables(r)}
    \union (IF Backed(r) # {} THEN {CompanyRead(r)} ELSE {})

\* Only rows may be read twice.
OnceEach(s) == \A i, j \in DOMAIN s : s[i] = s[j] /\ s[i].read # "rows" => i = j

LEMMA JoinedOnce ==
    ASSUME NEW a, NEW b, IsSeq(a), IsSeq(b), OnceEach(a), OnceEach(b),
           \A x \in ToSet(a) \intersect ToSet(b) : x.read = "rows"
    PROVE  OnceEach(a \o b)
  <1> DEFINE S == ToSet(a) \union ToSet(b)
             c == a \o b
  <1>1. a \in Seq(S) /\ b \in Seq(S)
    BY DEF IsSeq
  <1>2. \A i \in DOMAIN a : a[i] \in ToSet(a)
    BY DEF ToSet
  <1>3. \A i \in DOMAIN b : b[i] \in ToSet(b)
    BY DEF ToSet
  <1> HIDE DEF S
  <1>4. /\ Len(a) \in Nat /\ Len(b) \in Nat /\ DOMAIN a = 1..Len(a) /\ DOMAIN b = 1..Len(b)
        /\ DOMAIN c = 1..(Len(a) + Len(b))
        /\ \A i \in 1..(Len(a) + Len(b)) : c[i] = IF i <= Len(a) THEN a[i] ELSE b[i - Len(a)]
    BY <1>1
  <1> HIDE DEF c
  <1> SUFFICES ASSUME NEW i \in DOMAIN c, NEW j \in DOMAIN c, c[i] = c[j], c[i].read # "rows" PROVE i = j
    BY DEF OnceEach, c
  <1>5. CASE i <= Len(a) /\ j <= Len(a)
    BY <1>4, <1>5 DEF OnceEach
  <1>6. CASE ~(i <= Len(a)) /\ ~(j <= Len(a))
    <2>1. i - Len(a) \in DOMAIN b /\ j - Len(a) \in DOMAIN b
      BY <1>4, <1>6
    <2>2. c[i] = b[i - Len(a)] /\ c[j] = b[j - Len(a)]
      BY <1>4, <1>6
    <2>3. i - Len(a) = j - Len(a)
      BY <2>1, <2>2 DEF OnceEach
    <2> QED BY <1>4, <2>3
  <1>7. CASE (i <= Len(a)) /\ ~(j <= Len(a))
    <2>1. i \in DOMAIN a /\ j - Len(a) \in DOMAIN b /\ c[i] = a[i] /\ c[j] = b[j - Len(a)]
      BY <1>4, <1>7
    <2> QED BY <1>2, <1>3, <2>1
  <1>8. CASE ~(i <= Len(a)) /\ (j <= Len(a))
    <2>1. j \in DOMAIN a /\ i - Len(a) \in DOMAIN b /\ c[j] = a[j] /\ c[i] = b[i - Len(a)]
      BY <1>4, <1>8
    <2> QED BY <1>2, <1>3, <2>1
  <1> QED BY <1>5, <1>6, <1>7, <1>8

LEMMA JoinedFirst ==
    ASSUME NEW S, NEW a \in Seq(S), NEW b \in Seq(S), Len(a) >= 1
    PROVE  a \o b \in Seq(S) /\ Len(a \o b) >= 1 /\ (a \o b)[1] = a[1]
  <1>1. Len(a) \in Nat /\ Len(b) \in Nat /\ a \o b \in Seq(S) /\ Len(a \o b) = Len(a) + Len(b)
    OBVIOUS
  <1>2. 1 \in 1..Len(a)
    BY <1>1
  <1>3. (a \o b)[1] = a[1]
    BY <1>2
  <1> QED BY <1>1, <1>3

LEMMA TailOnce ==
    ASSUME NEW s, IsSeq(s), s # <<>>, OnceEach(s)
    PROVE  /\ IsSeq(Tail(s)) /\ OnceEach(Tail(s)) /\ Head(s) \in ToSet(s)
           /\ ToSet(Tail(s)) \subseteq ToSet(s) /\ ToSet(s) \subseteq ToSet(Tail(s)) \union {Head(s)}
           /\ Head(s).read # "rows" => Head(s) \notin ToSet(Tail(s))
  <1> DEFINE t == Tail(s)
  <1>1. /\ IsSeq(t) /\ Len(s) \in Nat \ {0} /\ DOMAIN s = 1..Len(s) /\ DOMAIN t = 1..(Len(s) - 1)
        /\ Head(s) = s[1] /\ \A i \in DOMAIN t : t[i] = s[i + 1]
    BY SeqTail
  <1> HIDE DEF t
  <1>2. \A i \in DOMAIN t : i + 1 \in DOMAIN s /\ i + 1 # 1
    BY <1>1
  <1>3. \A i \in DOMAIN s : i # 1 => i - 1 \in DOMAIN t /\ (i - 1) + 1 = i
    BY <1>1
  <1>4. OnceEach(t)
    <2> SUFFICES ASSUME NEW i \in DOMAIN t, NEW j \in DOMAIN t, t[i] = t[j], t[i].read # "rows" PROVE i = j
      BY DEF OnceEach
    <2>1. i + 1 = j + 1
      BY <1>1, <1>2 DEF OnceEach
    <2> QED BY <1>1, <2>1
  <1>5. 1 \in DOMAIN s
    BY <1>1
  <1>6. ToSet(t) \subseteq ToSet(s) /\ Head(s) \in ToSet(s)
    BY <1>1, <1>2, <1>5 DEF ToSet
  <1>7. ToSet(s) \subseteq ToSet(t) \union {Head(s)}
    <2> SUFFICES ASSUME NEW i \in DOMAIN s PROVE s[i] \in ToSet(t) \union {Head(s)}
      BY DEF ToSet
    <2> QED BY <1>1, <1>3 DEF ToSet
  <1>8. ASSUME Head(s).read # "rows", Head(s) \in ToSet(t) PROVE FALSE
    <2>1. PICK i \in DOMAIN t : t[i] = Head(s)
      BY <1>8 DEF ToSet
    <2>2. s[i + 1] = s[1] /\ s[1].read # "rows"
      BY <1>1, <1>8, <2>1
    <2> QED BY <1>2, <1>5, <2>2 DEF OnceEach
  <1> QED BY <1>1, <1>4, <1>6, <1>7, <1>8 DEF t

LEMMA BackedIs ==
    ASSUME NEW r, ReportDeclared(r)
    PROVE  /\ IsSeq(reportImageSources(r)) /\ IsSeq(reportTableRelations(r)) /\ IsSeq(reportCompanyFallbackFields(r))
           /\ ToSet(reportImageSources(r)) = {n \in Nodes(r) : n.kind = "image"}
           /\ ToSet(reportTableRelations(r)) = {n \in Nodes(r) : n.kind = "table"}
           /\ ToSet(reportCompanyFallbackFields(r)) = Backed(r)
  <1>1. IsSeq(r.layout)
    BY DEF ReportDeclared, IsSeq, Nodes
  <1>2. \A n \in Nodes(r) : n.kind = "table" => Related(n)
    BY DEF ReportDeclared
  <1> QED BY <1>1, <1>2, SiftedSet
       DEF reportImageSources, reportTableRelations, reportCompanyFallbackFields, Backed, FieldNodes, Nodes

LEMMA ReadsOfIs ==
    ASSUME NEW r, ReportDeclared(r)
    PROVE  /\ IsSeq(ReadsOf(r)) /\ ReadsOf(r) # <<>> /\ Head(ReadsOf(r)) = RecordRead /\ OnceEach(ReadsOf(r))
           /\ ToSet(ReadsOf(r)) = {RecordRead} \union DataReads(r)
  <1> DEFINE images == reportImageSources(r)
             tables == reportTableRelations(r)
             fields == reportCompanyFallbackFields(r)
             a == <<RecordRead>>
             p == [i \in DOMAIN images |-> PictureRead(images[i].source)]
             q == [i \in DOMAIN tables |-> RowsRead(tables[i].source)]
             c == IF fields # <<>> THEN <<CompanyRead(r)>> ELSE <<>>
  <1>1. ReadsOf(r) = a \o p \o q \o c
    BY DEF ReadsOf, RecordRead, PictureRead, RowsRead, CompanyRead
  <1>2. IsSeq(a) /\ OnceEach(a) /\ ToSet(a) = {RecordRead} /\ a[1] = RecordRead /\ Len(a) = 1
    BY DEF IsSeq, OnceEach, ToSet
  <1>3. IsSeq(p) /\ OnceEach(p) /\ ToSet(p) = {PictureRead(s) : s \in Pictures(r)}
    <2>1. Len(images) \in Nat /\ DOMAIN images = 1..Len(images)
      BY BackedIs, SeqDomain
    <2>2. \A i, j \in DOMAIN images : images[i].source = images[j].source => i = j
      BY DEF ReportDeclared
    <2> HIDE DEF images
    <2>3. IsSeq(p)
      <3>1. DOMAIN p = 1..Len(images) /\ p = [i \in 1..Len(images) |-> p[i]]
        BY <2>1
      <3> HIDE DEF p
      <3> QED BY <2>1, <3>1, SeqOfMap
    <2>4. OnceEach(p)
      <3> SUFFICES ASSUME NEW i \in DOMAIN images, NEW j \in DOMAIN images, p[i] = p[j] PROVE i = j
        BY DEF OnceEach
      <3>1. p[i].name = images[i].source /\ p[j].name = images[j].source
        BY DEF PictureRead
      <3> QED BY <2>2, <3>1
    <2>5. Pictures(r) = {images[i].source : i \in DOMAIN images}
      BY DEF Pictures, images, ToSet
    <2>6. ToSet(p) = {PictureRead(images[i].source) : i \in DOMAIN images}
      BY DEF ToSet
    <2> QED BY <2>3, <2>4, <2>5, <2>6
  <1>4. IsSeq(q) /\ OnceEach(q) /\ ToSet(q) = {RowsRead(s) : s \in Tables(r)}
    <2>1. Len(tables) \in Nat /\ DOMAIN tables = 1..Len(tables)
      BY BackedIs, SeqDomain
    <2>2. Tables(r) = {n.source : n \in ToSet(tables)}
      BY BackedIs DEF Tables
    <2> HIDE DEF tables
    <2>3. IsSeq(q)
      <3>1. DOMAIN q = 1..Len(tables) /\ q = [i \in 1..Len(tables) |-> q[i]]
        BY <2>1
      <3> HIDE DEF q
      <3> QED BY <2>1, <3>1, SeqOfMap
    <2>4. OnceEach(q)
      BY DEF OnceEach, RowsRead
    <2>5. Tables(r) = {tables[i].source : i \in DOMAIN tables}
      BY <2>2 DEF ToSet
    <2>6. ToSet(q) = {RowsRead(tables[i].source) : i \in DOMAIN tables}
      BY DEF ToSet
    <2> QED BY <2>3, <2>4, <2>5, <2>6
  <1>5. IsSeq(c) /\ OnceEach(c) /\ ToSet(c) = IF Backed(r) # {} THEN {CompanyRead(r)} ELSE {}
    <2>1. fields # <<>> <=> Backed(r) # {}
      <3>1. IsSeq(fields) /\ ToSet(fields) = Backed(r)
        BY BackedIs
      <3> HIDE DEF fields
      <3>2. fields # <<>> => Head(fields) \in ToSet(fields)
        <4>1. fields # <<>> => Head(fields) = fields[1] /\ 1 \in DOMAIN fields
          BY <3>1, SeqTail
        <4> QED BY <4>1 DEF ToSet
      <3>3. fields = <<>> => ToSet(fields) = {}
        BY DEF ToSet
      <3> QED BY <3>1, <3>2, <3>3
    <2> HIDE DEF fields
    <2>2. CASE fields # <<>>
      <3>1. c = <<CompanyRead(r)>>
        BY <2>2
      <3> HIDE DEF c
      <3> QED BY <2>1, <2>2, <3>1 DEF IsSeq, OnceEach, ToSet
    <2>3. CASE fields = <<>>
      <3>1. c = <<>>
        BY <2>3
      <3> HIDE DEF c
      <3> QED BY <2>1, <2>3, <3>1 DEF IsSeq, OnceEach, ToSet
    <2> QED BY <2>2, <2>3
  <1> HIDE DEF a, p, q, c
  <1>6. /\ \A x \in ToSet(a) : x.read = "record"
        /\ \A x \in ToSet(p) : x.read = "picture"
        /\ \A x \in ToSet(q) : x.read = "rows"
        /\ \A x \in ToSet(c) : x.read = "company"
    BY <1>2, <1>3, <1>4, <1>5 DEF RecordRead, PictureRead, RowsRead, CompanyRead
  <1>7. IsSeq(a \o p) /\ ToSet(a \o p) = ToSet(a) \union ToSet(p)
    BY <1>2, <1>3, JoinedSet
  <1>8. IsSeq(a \o p \o q) /\ ToSet(a \o p \o q) = ToSet(a) \union ToSet(p) \union ToSet(q)
    BY <1>4, <1>7, JoinedSet
  <1>9. IsSeq(a \o p \o q \o c)
        /\ ToSet(a \o p \o q \o c) = ToSet(a) \union ToSet(p) \union ToSet(q) \union ToSet(c)
    BY <1>5, <1>8, JoinedSet
  <1>10. OnceEach(a \o p)
    BY <1>2, <1>3, <1>6, JoinedOnce
  <1>11. OnceEach(a \o p \o q)
    BY <1>4, <1>6, <1>7, <1>10, JoinedOnce
  <1>12. OnceEach(a \o p \o q \o c)
    BY <1>5, <1>6, <1>8, <1>11, JoinedOnce
  <1>13. (a \o p \o q \o c)[1] = RecordRead /\ a \o p \o q \o c # <<>>
    <2> DEFINE S == {RecordRead} \union DataReads(r)
    <2>1. a \in Seq(S) /\ p \in Seq(S) /\ q \in Seq(S) /\ c \in Seq(S) /\ Len(a) = 1 /\ a[1] = RecordRead
      <3>1. ToSet(a) \subseteq S /\ ToSet(p) \subseteq S /\ ToSet(q) \subseteq S /\ ToSet(c) \subseteq S
        BY <1>2, <1>3, <1>4, <1>5 DEF DataReads
      <3> HIDE DEF S
      <3> QED BY <1>2, <1>3, <1>4, <1>5, <3>1 DEF IsSeq
    <2> HIDE DEF S
    <2>a. Len(a) >= 1
      BY <2>1
    <2>2. a \o p \in Seq(S) /\ Len(a \o p) >= 1 /\ (a \o p)[1] = RecordRead
      BY <2>1, <2>a, JoinedFirst
    <2>3. a \o p \o q \in Seq(S) /\ Len(a \o p \o q) >= 1 /\ (a \o p \o q)[1] = RecordRead
      BY <2>1, <2>2, JoinedFirst
    <2>4. Len(a \o p \o q \o c) >= 1 /\ (a \o p \o q \o c)[1] = RecordRead
      BY <2>1, <2>3, JoinedFirst
    <2>5. a \o p \o q \o c # <<>>
      BY <2>4
    <2> QED BY <2>4, <2>5
  <1>14. Head(a \o p \o q \o c) = RecordRead
    BY <1>9, <1>13, SeqTail
  <1> QED BY <1>1, <1>2, <1>3, <1>4, <1>5, <1>9, <1>12, <1>13, <1>14 DEF DataReads

-----------------------------------------------------------------------------
(* The print page.  While data is read, the fields of the sheet are those  *)
(* of the record but for blanks the company fills, a picture is the flag   *)
(* of the record until it is read, and a table that was read is a page of  *)
(* the rows; whatever was edited or failed in between is remembered.       *)

FirstPage(rows) == SubSeq(rows, 1, Min({RowsPerPrint, Len(rows)}))

DocumentOK(r, d) ==
    /\ Pictures(r) \union PrintedNames(r) \union {Subtotal} \subseteq DOMAIN d.values
    /\ d.values[Subtotal] = SumOf(d.rows) /\ IsSeq(d.rows)

Coming(x) == x \in ToSet(reads)

\* The fields are the record's, but for the blanks once the company was read.
FieldsRight ==
    /\ sheet[Subtotal] = held.values[Subtotal]
    /\ \A n \in FieldNodes(report) :
          /\ held.values[n.name] # Blank \/ n \notin Backed(report) \/ Coming(CompanyRead(report))
                => sheet[n.name] = held.values[n.name]
          /\ held.values[n.name] = Blank /\ n \in Backed(report) /\ ~Coming(CompanyRead(report)) /\ ~cut
                => sheet[n.name] = profile[n.fallback]

\* A picture is the flag of the record until it is read.
PicturesRight ==
    \A s \in Pictures(report) :
        /\ Coming(PictureRead(s)) => sheet[s] = held.values[s]
        /\ ~Coming(PictureRead(s)) /\ sheet[s] # Blank => held.values[s] = "true"
        /\ ~Coming(PictureRead(s)) /\ held.values[s] = "true" /\ ~cut => sheet[s] # Blank

TablesRight ==
    \A t \in Tables(report) :
        Coming(RowsRead(t)) \/ moved \/ cut \/ (t \in DOMAIN sheet /\ sheet[t] = FirstPage(held.rows))

SheetInv ==
    /\ Pictures(report) \union PrintedNames(report) \union {Subtotal} \subseteq DOMAIN sheet
    /\ FieldsRight /\ PicturesRight /\ TablesRight
    /\ DocumentOK(report, held) /\ (~moved => document = held)

NotOpened == print = "off" /\ sheet = <<>> /\ ~moved /\ ~cut
RecordToCome ==
    /\ print = "reading" /\ ReportDeclared(report) /\ DocumentOK(report, document)
    /\ reads = ReadsOf(report) /\ sheet = <<>> /\ ~moved /\ ~cut
RecordThere ==
    /\ print \in {"reading", "done"} /\ (print = "done" => reads = <<>>)
    /\ ReportDeclared(report) /\ DocumentOK(report, document)
    /\ IsSeq(reads) /\ OnceEach(reads) /\ ToSet(reads) \subseteq DataReads(report)
    /\ SheetInv
PrintInv == NotOpened \/ RecordToCome \/ RecordThere \/ print = "failed"

LEMMA OverIs ==
    ASSUME NEW f, NEW top
    PROVE  /\ DOMAIN Over(top, f) = DOMAIN f \union DOMAIN top
           /\ \A x \in DOMAIN top : Over(top, f)[x] = top[x]
           /\ \A x \in DOMAIN f : x \notin DOMAIN top => Over(top, f)[x] = f[x]
  BY DEF Over

LEMMA KeptIs ==
    ASSUME NEW r, NEW values, NEW rows, IsSeq(rows),
           Pictures(r) \union PrintedNames(r) \subseteq DOMAIN values \union {Subtotal}
    PROVE  DocumentOK(r, Kept_(values, rows))
  <1>1. Kept_(values, rows).values = With(values, Subtotal, SumOf(rows)) /\ Kept_(values, rows).rows = rows
    BY DEF Kept_
  <1> DEFINE all == With(values, Subtotal, SumOf(rows))
  <1>2. DOMAIN all = DOMAIN values \union {Subtotal} /\ all[Subtotal] = SumOf(rows)
    BY DEF With, Over
  <1> QED BY <1>1, <1>2 DEF DocumentOK

\* Which names a report takes from where.
LEMMA NamesApart ==
    ASSUME ReportDeclared(report)
    PROVE  /\ \A s \in Pictures(report) : s \notin PrintedNames(report) \union {Subtotal} \union Tables(report)
           /\ \A t \in Tables(report) : t \notin PrintedNames(report) \union {Subtotal} \union Pictures(report)
           /\ \A n \in Backed(report) : n.name \in PrintedNames(report) /\ n.name # Subtotal
           /\ \A m \in Backed(report), n \in FieldNodes(report) :
                 m.name = n.name => n \in Backed(report) /\ m.fallback = n.fallback
  <1>1. \A t \in Tables(report) : t \notin PrintedNames(report) \union {Subtotal} \union Pictures(report)
    BY DEF ReportDeclared, Tables, PrintedNames, Pictures, FieldNodes
  <1>2. \A s \in Pictures(report) : s \notin PrintedNames(report) \union {Subtotal}
    BY DEF ReportDeclared, PrintedNames, Pictures, FieldNodes
  <1>3. \A n \in Backed(report) : n.name \in PrintedNames(report) /\ n.name # Subtotal
    BY DEF ReportDeclared, PrintedNames, Backed, FieldNodes
  <1>4. \A m \in Backed(report), n \in FieldNodes(report) :
            m.name = n.name => n \in Backed(report) /\ m.fallback = n.fallback
    BY DEF ReportDeclared, Backed, FieldNodes
  <1> QED BY <1>1, <1>2, <1>3, <1>4

\* A read at the head of the queue is of the data, and leaves the others to come.
LEMMA HeadRead ==
    ASSUME RecordThere, reads # <<>>, reads' = Tail(reads)
    PROVE  /\ Head(reads) \in DataReads(report)
           /\ IsSeq(reads') /\ OnceEach(reads') /\ ToSet(reads') \subseteq DataReads(report)
           /\ \A x : x # Head(reads) => (Coming(x) <=> Coming(x)')
           /\ \A x : Coming(x)' => Coming(x)
           /\ Coming(Head(reads)) /\ (Head(reads).read # "rows" => ~(Head(reads) \in ToSet(reads')))
  <1>1. /\ IsSeq(Tail(reads)) /\ OnceEach(Tail(reads)) /\ Head(reads) \in ToSet(reads)
        /\ ToSet(Tail(reads)) \subseteq ToSet(reads) /\ ToSet(reads) \subseteq ToSet(Tail(reads)) \union {Head(reads)}
        /\ Head(reads).read # "rows" => Head(reads) \notin ToSet(Tail(reads))
    BY TailOnce DEF RecordThere
  <1>2. ToSet(reads) \subseteq DataReads(report)
    BY DEF RecordThere
  <1> QED BY <1>1, <1>2 DEF Coming

LEMMA HeadKinds ==
    ASSUME RecordThere, reads # <<>>
    PROVE  /\ Head(reads).read # "record"
           /\ Head(reads).read = "picture" => \E s \in Pictures(report) : Head(reads) = PictureRead(s)
           /\ Head(reads).read = "rows" => \E t \in Tables(report) : Head(reads) = RowsRead(t)
           /\ Head(reads).read = "company" => Head(reads) = CompanyRead(report)
  <1>1. Head(reads) \in DataReads(report)
    BY TailOnce DEF RecordThere
  <1>2. /\ \A s : PictureRead(s).read = "picture"
        /\ \A s : RowsRead(s).read = "rows"
        /\ CompanyRead(report).read = "company"
    BY DEF PictureRead, RowsRead, CompanyRead
  <1> QED BY <1>1, <1>2 DEF DataReads

LEMMA ReadRecordOK == ASSUME PrintInv, ReadRecord PROVE PrintInv'
  <1>1. print = "reading" /\ reads # <<>> /\ Head(reads).read = "record" /\ reads' = Tail(reads)
    BY DEF ReadRecord, Reading
  <1>2. RecordToCome
    BY <1>1, HeadKinds DEF PrintInv, NotOpened
  <1>3. UNCHANGED <<document, profile, report, moved, cut>>
    BY DEF ReadRecord
  <1>4. CASE print' = "failed"
    BY <1>4 DEF PrintInv
  <1>5. CASE sheet' = document.values /\ held' = document /\ UNCHANGED print
    <2>1. /\ IsSeq(reads) /\ reads # <<>> /\ Head(reads) = RecordRead /\ OnceEach(reads)
          /\ ToSet(reads) = {RecordRead} \union DataReads(report)
      BY <1>2, ReadsOfIs DEF RecordToCome
    <2>2. RecordRead.read = "record" /\ RecordRead \notin DataReads(report)
      BY DEF RecordRead, DataReads, PictureRead, RowsRead, CompanyRead
    <2>3. /\ IsSeq(reads') /\ OnceEach(reads') /\ ToSet(reads') = DataReads(report)
      <3>1. RecordRead.read # "rows"
        BY <2>2
      <3>2. RecordRead \notin ToSet(Tail(reads)) /\ ToSet(Tail(reads)) \subseteq ToSet(reads)
            /\ ToSet(reads) \subseteq ToSet(Tail(reads)) \union {RecordRead}
            /\ IsSeq(Tail(reads)) /\ OnceEach(Tail(reads))
        BY <2>1, <3>1, TailOnce
      <3>3. ToSet(Tail(reads)) = DataReads(report)
        BY <2>1, <2>2, <3>2
      <3> QED BY <1>1, <3>2, <3>3
    <2>4. ReportDeclared(report) /\ DocumentOK(report, document) /\ print' = "reading"
      BY <1>1, <1>2, <1>5 DEF RecordToCome
    <2>5. FieldsRight'
      <3>1. \A n \in Backed(report) : CompanyRead(report) \in ToSet(reads')
        BY <2>3 DEF DataReads
      <3> QED BY <1>3, <1>5, <3>1 DEF FieldsRight, Coming
    <2>6. PicturesRight'
      <3>1. \A s \in Pictures(report) : PictureRead(s) \in ToSet(reads')
        BY <2>3 DEF DataReads
      <3> QED BY <1>3, <1>5, <3>1 DEF PicturesRight, Coming
    <2>7. TablesRight'
      <3>1. \A t \in Tables(report) : RowsRead(t) \in ToSet(reads')
        BY <2>3 DEF DataReads
      <3> QED BY <1>3, <1>5, <3>1 DEF TablesRight, Coming
    <2>8. SheetInv'
      BY <1>3, <1>5, <2>4, <2>5, <2>6, <2>7 DEF SheetInv, DocumentOK
    <2> QED BY <1>3, <2>3, <2>4, <2>8 DEF PrintInv, RecordThere
  <1> QED BY <1>4, <1>5 DEF ReadRecord

\* The steps that read something of the data are taken when the record is there.
LEMMA DataStep ==
    ASSUME PrintInv, NEW what, Reading(what), what # "record"
    PROVE  RecordThere /\ reads # <<>> /\ reads' = Tail(reads) /\ Head(reads).read = what /\ print = "reading"
  <1>1. print = "reading" /\ reads # <<>> /\ Head(reads).read = what /\ reads' = Tail(reads)
    BY DEF Reading
  <1>2. ~RecordToCome
    <2> SUFFICES ASSUME RecordToCome PROVE FALSE
      OBVIOUS
    <2>1. Head(reads) = RecordRead
      BY ReadsOfIs DEF RecordToCome
    <2> QED BY <1>1, <2>1 DEF RecordRead
  <1> QED BY <1>1, <1>2 DEF PrintInv, NotOpened

LEMMA ReadPictureOK == ASSUME PrintInv, ReadPicture PROVE PrintInv'
  <1>1. RecordThere /\ reads # <<>> /\ reads' = Tail(reads) /\ Head(reads).read = "picture" /\ print = "reading"
    BY DataStep DEF ReadPicture
  <1>2. PICK s \in Pictures(report) : Head(reads) = PictureRead(s)
    BY <1>1, HeadKinds
  <1>3. Head(reads).name = s
    BY <1>2 DEF PictureRead
  <1>4. UNCHANGED <<document, profile, report, held, moved>>
    BY DEF ReadPicture
  <1>5. CASE print' = "failed"
    BY <1>5 DEF PrintInv
  <1>6. ASSUME NEW v, sheet' = With(sheet, s, v), UNCHANGED print,
               \/ v = Blank /\ sheet[s] # "true" /\ UNCHANGED cut
               \/ v = "content" /\ sheet[s] = "true" /\ UNCHANGED cut
               \/ v = Blank /\ cut' = TRUE
        PROVE  RecordThere'
    <2>1. /\ IsSeq(reads') /\ OnceEach(reads') /\ ToSet(reads') \subseteq DataReads(report)
          /\ \A x : x # PictureRead(s) => (Coming(x) <=> Coming(x)')
          /\ Coming(PictureRead(s)) /\ ~Coming(PictureRead(s))'
      <3>1. Head(reads).read # "rows"
        BY <1>1
      <3> QED BY <1>1, <1>2, <3>1, HeadRead DEF Coming
    <2>2. ReportDeclared(report) /\ DocumentOK(report, document) /\ SheetInv
      BY <1>1 DEF RecordThere
    <2>3. /\ DOMAIN sheet' = DOMAIN sheet \union {s} /\ sheet'[s] = v
          /\ \A x \in DOMAIN sheet : x # s => sheet'[x] = sheet[x]
      BY <1>6 DEF With, Over
    <2>4. sheet[s] = held.values[s]
      BY <1>2, <2>1, <2>2 DEF SheetInv, PicturesRight
    <2>5. FieldsRight'
      <3>1. CompanyRead(report) # PictureRead(s)
        <4>1. CompanyRead(report).read = "company" /\ PictureRead(s).read = "picture"
          BY DEF CompanyRead, PictureRead
        <4> QED BY <4>1
      <3>2. Coming(CompanyRead(report)) <=> CompanyRead(report) \in ToSet(reads')
        BY <2>1, <3>1 DEF Coming
      <3>3. \A n \in FieldNodes(report) : n.name # s /\ n.name \in DOMAIN sheet /\ sheet'[n.name] = sheet[n.name]
        BY <1>2, <2>2, <2>3, NamesApart DEF SheetInv, PrintedNames
      <3>4. Subtotal # s /\ sheet'[Subtotal] = sheet[Subtotal]
        BY <1>2, <2>2, <2>3, NamesApart DEF SheetInv
      <3>5. ~cut' => ~cut
        BY <1>6
      <3>6. FieldsRight
        BY <2>2 DEF SheetInv
      <3> QED BY <1>4, <3>2, <3>3, <3>4, <3>5, <3>6 DEF FieldsRight, Coming
    <2>6. PicturesRight'
      <3> SUFFICES ASSUME NEW q \in Pictures(report)
                   PROVE  /\ PictureRead(q) \in ToSet(reads') => sheet'[q] = held.values[q]
                          /\ PictureRead(q) \notin ToSet(reads') /\ sheet'[q] # Blank => held.values[q] = "true"
                          /\ PictureRead(q) \notin ToSet(reads') /\ held.values[q] = "true" /\ ~cut'
                                => sheet'[q] # Blank
        BY <1>4 DEF PicturesRight, Coming
      <3>1. CASE q = s
        BY <1>6, <2>1, <2>3, <2>4, <3>1 DEF Coming, Blank
      <3>2. CASE q # s
        <4>1. PictureRead(q) # PictureRead(s)
          <5>1. PictureRead(q).name = q /\ PictureRead(s).name = s
            BY DEF PictureRead
          <5> QED BY <3>2, <5>1
        <4>2. Coming(PictureRead(q)) <=> PictureRead(q) \in ToSet(reads')
          BY <2>1, <4>1 DEF Coming
        <4>3. q \in DOMAIN sheet /\ sheet'[q] = sheet[q] /\ (~cut' => ~cut)
          BY <1>6, <2>2, <2>3, <3>2 DEF SheetInv
        <4>4. PicturesRight
          BY <2>2 DEF SheetInv
        <4> QED BY <4>2, <4>3, <4>4 DEF PicturesRight
      <3> QED BY <3>1, <3>2
    <2>7. TablesRight'
      <3> SUFFICES ASSUME NEW t \in Tables(report), ~moved, ~cut', RowsRead(t) \notin ToSet(reads')
                   PROVE  t \in DOMAIN sheet' /\ sheet'[t] = FirstPage(held.rows)
        BY <1>4 DEF TablesRight, Coming, FirstPage
      <3>1. RowsRead(t) # PictureRead(s)
        <4>1. RowsRead(t).read = "rows" /\ PictureRead(s).read = "picture"
          BY DEF RowsRead, PictureRead
        <4> QED BY <4>1
      <3>2. ~Coming(RowsRead(t)) /\ ~cut
        BY <1>6, <2>1, <3>1 DEF Coming
      <3>3. t \in DOMAIN sheet /\ sheet[t] = FirstPage(held.rows)
        BY <2>2, <3>2 DEF SheetInv, TablesRight
      <3>4. t # s
        BY <1>2, <2>2, NamesApart
      <3> QED BY <2>3, <3>3, <3>4
    <2>8. SheetInv'
      BY <1>4, <2>2, <2>3, <2>5, <2>6, <2>7 DEF SheetInv, DocumentOK
    <2> QED BY <1>1, <1>4, <1>6, <2>1, <2>2, <2>8 DEF RecordThere
  <1>7. \/ print' = "failed"
        \/ \E v : /\ sheet' = With(sheet, s, v) /\ UNCHANGED print
                  /\ \/ v = Blank /\ sheet[s] # "true" /\ UNCHANGED cut
                     \/ v = "content" /\ sheet[s] = "true" /\ UNCHANGED cut
                     \/ v = Blank /\ cut' = TRUE
    BY <1>3 DEF ReadPicture, Becomes
  <1> QED BY <1>5, <1>6, <1>7 DEF PrintInv

LEMMA ReadRowsOK == ASSUME PrintInv, ReadRows PROVE PrintInv'
  <1>1. RecordThere /\ reads # <<>> /\ reads' = Tail(reads) /\ Head(reads).read = "rows" /\ print = "reading"
    BY DataStep DEF ReadRows
  <1>2. PICK s \in Tables(report) : Head(reads) = RowsRead(s)
    BY <1>1, HeadKinds
  <1>3. Head(reads).name = s
    BY <1>2 DEF RowsRead
  <1>4. UNCHANGED <<document, profile, report, print, held, moved>>
    BY DEF ReadRows
  <1>5. PICK v : /\ sheet' = With(sheet, s, v)
                 /\ ((v = FirstPage(document.rows) /\ UNCHANGED cut) \/ cut' = TRUE)
    BY <1>3 DEF ReadRows, Becomes, FirstPage
  <1>6. /\ IsSeq(reads') /\ OnceEach(reads') /\ ToSet(reads') \subseteq DataReads(report)
        /\ \A x : x # RowsRead(s) => (Coming(x) <=> x \in ToSet(reads'))
    BY <1>1, <1>2, HeadRead DEF Coming
  <1>7. ReportDeclared(report) /\ DocumentOK(report, document) /\ SheetInv
    BY <1>1 DEF RecordThere
  <1>8. /\ DOMAIN sheet' = DOMAIN sheet \union {s} /\ sheet'[s] = v
        /\ \A x \in DOMAIN sheet : x # s => sheet'[x] = sheet[x]
    BY <1>5 DEF With, Over
  <1>9. ~cut' => ~cut
    BY <1>5
  <1>10. FieldsRight'
    <2>1. CompanyRead(report) # RowsRead(s)
      <3>1. CompanyRead(report).read = "company" /\ RowsRead(s).read = "rows"
        BY DEF CompanyRead, RowsRead
      <3> QED BY <3>1
    <2>2. Coming(CompanyRead(report)) <=> CompanyRead(report) \in ToSet(reads')
      BY <1>6, <2>1
    <2>3. \A n \in FieldNodes(report) : n.name # s /\ n.name \in DOMAIN sheet /\ sheet'[n.name] = sheet[n.name]
      BY <1>2, <1>7, <1>8, NamesApart DEF SheetInv, PrintedNames
    <2>4. Subtotal # s /\ sheet'[Subtotal] = sheet[Subtotal]
      BY <1>2, <1>7, <1>8, NamesApart DEF SheetInv
    <2>5. FieldsRight
      BY <1>7 DEF SheetInv
    <2> QED BY <1>4, <1>9, <2>2, <2>3, <2>4, <2>5 DEF FieldsRight, Coming
  <1>11. PicturesRight'
    <2> SUFFICES ASSUME NEW q \in Pictures(report)
                 PROVE  /\ PictureRead(q) \in ToSet(reads') => sheet'[q] = held.values[q]
                        /\ PictureRead(q) \notin ToSet(reads') /\ sheet'[q] # Blank => held.values[q] = "true"
                        /\ PictureRead(q) \notin ToSet(reads') /\ held.values[q] = "true" /\ ~cut'
                              => sheet'[q] # Blank
      BY <1>4 DEF PicturesRight, Coming
    <2>1. PictureRead(q) # RowsRead(s)
      <3>1. PictureRead(q).read = "picture" /\ RowsRead(s).read = "rows"
        BY DEF PictureRead, RowsRead
      <3> QED BY <3>1
    <2>2. Coming(PictureRead(q)) <=> PictureRead(q) \in ToSet(reads')
      BY <1>6, <2>1
    <2>3. q # s /\ q \in DOMAIN sheet /\ sheet'[q] = sheet[q]
      BY <1>2, <1>7, <1>8, NamesApart DEF SheetInv
    <2>4. PicturesRight
      BY <1>7 DEF SheetInv
    <2> QED BY <1>9, <2>2, <2>3, <2>4 DEF PicturesRight
  <1>12. TablesRight'
    <2> SUFFICES ASSUME NEW t \in Tables(report), ~moved, ~cut', RowsRead(t) \notin ToSet(reads')
                 PROVE  t \in DOMAIN sheet' /\ sheet'[t] = FirstPage(held.rows)
      BY <1>4 DEF TablesRight, Coming, FirstPage
    <2>1. CASE t = s
      <3>1. document = held
        BY <1>7 DEF SheetInv
      <3> QED BY <1>5, <1>8, <2>1, <3>1
    <2>2. CASE t # s
      <3>1. RowsRead(t) # RowsRead(s)
        <4>1. RowsRead(t).name = t /\ RowsRead(s).name = s
          BY DEF RowsRead
        <4> QED BY <2>2, <4>1
      <3>2. ~Coming(RowsRead(t)) /\ ~cut
        BY <1>6, <1>9, <3>1
      <3>3. t \in DOMAIN sheet /\ sheet[t] = FirstPage(held.rows)
        BY <1>7, <3>2 DEF SheetInv, TablesRight
      <3> QED BY <1>8, <2>2, <3>3
    <2> QED BY <2>1, <2>2
  <1>13. SheetInv'
    BY <1>4, <1>7, <1>8, <1>10, <1>11, <1>12 DEF SheetInv, DocumentOK
  <1>14. RecordThere'
    BY <1>1, <1>4, <1>6, <1>7, <1>13 DEF RecordThere
  <1> QED BY <1>14 DEF PrintInv

LEMMA ReadCompanyOK == ASSUME PrintInv, ReadCompany PROVE PrintInv'
  <1> DEFINE C == CompanyRead(report)
  <1>1. RecordThere /\ reads # <<>> /\ reads' = Tail(reads) /\ Head(reads).read = "company" /\ print = "reading"
    BY DataStep DEF ReadCompany
  <1>2. Head(reads) = C
    BY <1>1, HeadKinds
  <1>4. UNCHANGED <<document, profile, report, print, held, moved>>
    BY DEF ReadCompany
  <1>5. ReportDeclared(report) /\ DocumentOK(report, document) /\ SheetInv
    BY <1>1 DEF RecordThere
  <1>3. Head(reads).fields = Backed(report)
    BY <1>2, <1>5, BackedIs DEF CompanyRead
  <1>6. /\ IsSeq(reads') /\ OnceEach(reads') /\ ToSet(reads') \subseteq DataReads(report)
        /\ \A x : x # C => (Coming(x) <=> x \in ToSet(reads'))
        /\ Coming(C) /\ C \notin ToSet(reads')
    <2>1. Head(reads).read # "rows"
      BY <1>1
    <2> QED BY <1>1, <1>2, <2>1, HeadRead DEF Coming
  <1> HIDE DEF C
  <1> DEFINE blanks == {n.name : n \in Backed(report)}
  <1>7. PICK T : /\ T \subseteq blanks /\ (~cut' => ~cut /\ T = blanks)
                 /\ DOMAIN sheet \subseteq DOMAIN sheet'
                 /\ \A x \in DOMAIN sheet : x \notin T => sheet'[x] = sheet[x]
                 /\ \A n \in Backed(report) :
                       n.name \in T =>
                          sheet'[n.name] = IF sheet[n.name] = Blank THEN profile[n.fallback] ELSE sheet[n.name]
    <2>1. CASE UNCHANGED sheet /\ cut' = TRUE
      <3> DEFINE T == {}
      <3>1. T \subseteq blanks /\ (~cut' => ~cut /\ T = blanks) /\ DOMAIN sheet \subseteq DOMAIN sheet'
        BY <2>1
      <3>2. \A x \in DOMAIN sheet : x \notin T => sheet'[x] = sheet[x]
        BY <2>1
      <3>3. \A n \in Backed(report) : n.name \notin T
        OBVIOUS
      <3> HIDE DEF blanks, T
      <3> QED BY <3>1, <3>2, <3>3
    <2>2. CASE /\ UNCHANGED cut
               /\ LET fields == Head(reads).fields
                      node(name) == CHOOSE n \in fields : n.name = name
                  IN sheet' = Over([name \in {n.name : n \in fields} |-> Completed(node(name))], sheet)
      <3> DEFINE node(name) == CHOOSE n \in Head(reads).fields : n.name = name
                 top == [name \in {n.name : n \in Head(reads).fields} |-> Completed(node(name))]
      <3>1. sheet' = Over(top, sheet) /\ UNCHANGED cut
        BY <2>2
      <3>2. ASSUME NEW n \in Head(reads).fields
            PROVE  top[n.name] = IF sheet[n.name] = Blank THEN profile[n.fallback] ELSE sheet[n.name]
        <4>1. node(n.name) \in Head(reads).fields /\ node(n.name).name = n.name
          OBVIOUS
        <4>2. node(n.name).fallback = n.fallback
          <5> HIDE DEF node
          <5> QED BY <1>3, <1>5, <4>1, NamesApart DEF Backed
        <4>3. top[n.name] = Completed(node(n.name))
          OBVIOUS
        <4> HIDE DEF node, top
        <4> QED BY <4>1, <4>2, <4>3 DEF Completed
      <3>3. DOMAIN top = blanks
        BY <1>3
      <3> HIDE DEF top, blanks
      <3>4. /\ DOMAIN sheet \subseteq DOMAIN sheet'
            /\ \A x \in DOMAIN top : sheet'[x] = top[x]
            /\ \A x \in DOMAIN sheet : x \notin DOMAIN top => sheet'[x] = sheet[x]
        BY Zenon, <3>1, OverIs
      <3>5. \A n \in Backed(report) :
                sheet'[n.name] = IF sheet[n.name] = Blank THEN profile[n.fallback] ELSE sheet[n.name]
        BY <1>3, <3>2, <3>3, <3>4 DEF blanks
      <3> QED BY <3>1, <3>3, <3>4, <3>5
    <2> QED BY <2>1, <2>2 DEF ReadCompany
  <1>9. \A x \in Pictures(report) \union Tables(report) \union {Subtotal} : x \notin T
    BY <1>5, <1>7, NamesApart
  <1>10. FieldsRight'
    <2>1. FieldsRight /\ Subtotal \in DOMAIN sheet /\ \A n \in FieldNodes(report) : n.name \in DOMAIN sheet
      BY <1>5 DEF SheetInv, PrintedNames
    <2>2. sheet'[Subtotal] = held.values[Subtotal]
      BY <1>7, <1>9, <2>1 DEF FieldsRight
    <2>3. \A n \in FieldNodes(report) : sheet[n.name] = held.values[n.name]
      BY <1>6, <2>1 DEF FieldsRight, C
    <2>4. ASSUME NEW n \in FieldNodes(report), held.values[n.name] # Blank \/ n \notin Backed(report)
          PROVE  sheet'[n.name] = held.values[n.name]
      <3>1. CASE n.name \in T
        <4>1. n \in Backed(report)
          BY <1>5, <1>7, <3>1, NamesApart
        <4> QED BY <1>7, <2>3, <2>4, <3>1, <4>1
      <3>2. CASE n.name \notin T
        BY <1>7, <2>1, <2>3, <3>2
      <3> QED BY <3>1, <3>2
    <2>5. ASSUME NEW n \in FieldNodes(report), held.values[n.name] = Blank, n \in Backed(report), ~cut'
          PROVE  sheet'[n.name] = profile[n.fallback]
      BY <1>7, <2>3, <2>5
    <2> QED BY <1>4, <1>6, <2>2, <2>4, <2>5 DEF FieldsRight, Coming, C
  <1>11. PicturesRight'
    <2> SUFFICES ASSUME NEW q \in Pictures(report)
                 PROVE  /\ PictureRead(q) \in ToSet(reads') => sheet'[q] = held.values[q]
                        /\ PictureRead(q) \notin ToSet(reads') /\ sheet'[q] # Blank => held.values[q] = "true"
                        /\ PictureRead(q) \notin ToSet(reads') /\ held.values[q] = "true" /\ ~cut'
                              => sheet'[q] # Blank
      BY <1>4 DEF PicturesRight, Coming
    <2>1. PictureRead(q) # C
      <3>1. PictureRead(q).read = "picture" /\ C.read = "company"
        BY DEF PictureRead, CompanyRead, C
      <3> QED BY <3>1
    <2>2. Coming(PictureRead(q)) <=> PictureRead(q) \in ToSet(reads')
      BY <1>6, <2>1
    <2>3. q \in DOMAIN sheet /\ sheet'[q] = sheet[q]
      BY <1>5, <1>7, <1>9 DEF SheetInv
    <2>4. PicturesRight
      BY <1>5 DEF SheetInv
    <2> QED BY <1>7, <2>2, <2>3, <2>4 DEF PicturesRight
  <1>12. TablesRight'
    <2> SUFFICES ASSUME NEW t \in Tables(report), ~moved, ~cut', RowsRead(t) \notin ToSet(reads')
                 PROVE  t \in DOMAIN sheet' /\ sheet'[t] = FirstPage(held.rows)
      BY <1>4 DEF TablesRight, Coming, FirstPage
    <2>1. RowsRead(t) # C
      <3>1. RowsRead(t).read = "rows" /\ C.read = "company"
        BY DEF RowsRead, CompanyRead, C
      <3> QED BY <3>1
    <2>2. ~Coming(RowsRead(t)) /\ ~cut
      BY <1>6, <1>7, <2>1
    <2>3. t \in DOMAIN sheet /\ sheet[t] = FirstPage(held.rows)
      BY <1>5, <2>2 DEF SheetInv, TablesRight
    <2> QED BY <1>7, <1>9, <2>3
  <1>13. SheetInv'
    BY <1>4, <1>5, <1>7, <1>10, <1>11, <1>12 DEF SheetInv, DocumentOK
  <1>14. RecordThere'
    BY <1>1, <1>4, <1>5, <1>6, <1>13 DEF RecordThere
  <1> QED BY <1>14 DEF PrintInv

LEMMA RenderOK == ASSUME PrintInv, Render PROVE PrintInv'
  <1>1. /\ print = "reading" /\ reads = <<>> /\ print' = "done"
        /\ UNCHANGED <<document, profile, report, reads, sheet, held, moved, cut>>
    BY DEF Render
  <1>2. RecordThere
    <2> SUFFICES ASSUME RecordToCome PROVE FALSE
      BY <1>1 DEF PrintInv, NotOpened
    <2> QED BY <1>1, ReadsOfIs DEF RecordToCome
  <1>3. SheetInv'
    <2>1. SheetInv
      BY <1>2 DEF RecordThere
    <2> QED BY <1>1, <2>1 DEF SheetInv, FieldsRight, PicturesRight, TablesRight, DocumentOK, Coming, FirstPage
  <1>4. RecordThere'
    BY <1>1, <1>2, <1>3 DEF RecordThere, DocumentOK
  <1> QED BY <1>4 DEF PrintInv

LEMMA OtherEditsOK == ASSUME PrintInv, OtherEdits PROVE PrintInv'
  <1>1. /\ print = "reading" /\ ~moved /\ moved' = (sheet # <<>>)
        /\ UNCHANGED <<profile, report, reads, sheet, print, held, cut>>
    BY DEF OtherEdits
  <1>2. PICK rows \in Edited(document.rows) : document' = Kept_(document.values, rows)
    BY DEF OtherEdits
  <1>3. ReportDeclared(report) /\ DocumentOK(report, document)
    BY <1>1 DEF PrintInv, NotOpened, RecordToCome, RecordThere
  <1>4. IsSeq(rows)
    <2>1. IsSeq(document.rows)
      BY <1>3 DEF DocumentOK
    <2>2. rows = Append(document.rows, 1) \/ (document.rows # <<>> /\ rows = Tail(document.rows))
      BY <1>2 DEF Edited
    <2>3. IsSeq(Append(document.rows, 1))
      BY <2>1, SeqAppend
    <2>4. document.rows # <<>> => IsSeq(Tail(document.rows))
      BY <2>1, SeqTail
    <2> QED BY <2>2, <2>3, <2>4
  <1>5. DocumentOK(report, document')
    <2>1. Pictures(report) \union PrintedNames(report) \subseteq DOMAIN document.values \union {Subtotal}
      BY <1>3 DEF DocumentOK
    <2> QED BY <1>2, <1>4, <2>1, KeptIs
  <1>6. DocumentOK(report, document)'
    BY <1>1, <1>5 DEF DocumentOK, Pictures, PrintedNames, FieldNodes
  <1>7. CASE RecordToCome
    <2>1. RecordToCome'
      BY <1>1, <1>3, <1>6, <1>7 DEF RecordToCome
    <2> QED BY <2>1 DEF PrintInv
  <1>8. CASE RecordThere
    <2>1. SheetInv
      BY <1>8 DEF RecordThere
    <2>2. moved'
      <3>1. Subtotal \in DOMAIN sheet
        BY <2>1 DEF SheetInv
      <3>2. DOMAIN <<>> = {}
        OBVIOUS
      <3>3. sheet # <<>>
        BY <3>1, <3>2
      <3> QED BY <1>1, <3>3
    <2>3. SheetInv'
      BY <1>1, <2>1, <2>2 DEF SheetInv, FieldsRight, PicturesRight, TablesRight, DocumentOK, Coming
    <2>4. RecordThere'
      BY <1>1, <1>3, <1>6, <1>8, <2>3 DEF RecordThere
    <2> QED BY <2>4 DEF PrintInv
  <1> QED BY <1>1, <1>7, <1>8 DEF PrintInv, NotOpened

LEMMA OpenPrintOK ==
    ASSUME NotOpened, NEW r, ReportDeclared(r), OpenPrint(r)
    PROVE  RecordToCome'
  <1>1. PICK values \in Documents, rows \in RowLists : document' = Kept_(values, rows)
    BY DEF OpenPrint
  <1>2. report' = r /\ reads' = ReadsOf(r) /\ print' = "reading" /\ UNCHANGED <<sheet, held, moved, cut>>
    BY DEF OpenPrint
  <1>3. IsSeq(rows)
    BY PrintConstants DEF IsSeq
  <1>4. Pictures(r) \union PrintedNames(r) \subseteq DOMAIN values \union {Subtotal}
    BY DEF ReportDeclared, Pictures, PrintedNames, FieldNodes
  <1>5. DocumentOK(report', document')
    BY <1>1, <1>2, <1>3, <1>4, KeptIs
  <1> QED BY <1>2, <1>5 DEF NotOpened, RecordToCome

LEMMA PrintStepOK == ASSUME PrintInv, PrintNext PROVE PrintInv'
  BY ReadRecordOK, ReadPictureOK, ReadRowsOK, ReadCompanyOK, RenderOK, OtherEditsOK DEF PrintNext

-----------------------------------------------------------------------------
(* What is printed of a sheet, and the pages of the shell.                 *)

LEMMA RenderedIs ==
    ASSUME NEW r, NEW shown, r.layout \in Seq(Nodes(r))
    PROVE  ToSet(ReportRenderer(r, shown)) =
               {v \in {ReportNodeView(n, shown) : n \in Nodes(r)} : v.kind # "image" \/ v.value # Blank}
  <1> DEFINE views == [i \in DOMAIN r.layout |-> ReportNodeView(r.layout[i], shown)]
             kept == {v \in ToSet(views) : v.kind # "image" \/ v.value # Blank}
  <1>1. Len(r.layout) \in Nat /\ DOMAIN r.layout = 1..Len(r.layout)
    OBVIOUS
  <1>2. IsSeq(views)
    <2>1. DOMAIN views = 1..Len(r.layout) /\ views = [i \in 1..Len(r.layout) |-> views[i]]
      BY <1>1
    <2> HIDE DEF views
    <2> QED BY <1>1, <2>1, SeqOfMap
  <1>3. ToSet(views) = {ReportNodeView(r.layout[i], shown) : i \in DOMAIN r.layout}
    BY DEF ToSet
  <1>4. Nodes(r) = {r.layout[i] : i \in DOMAIN r.layout}
    BY DEF Nodes, ToSet
  <1>5. ToSet(views) = {ReportNodeView(n, shown) : n \in Nodes(r)}
    BY <1>3, <1>4
  <1>6. ReportRenderer(r, shown) = Sift(views, kept)
    BY DEF ReportRenderer
  <1>7. ToSet(Sift(views, kept)) = ToSet(views) \intersect kept
    <2> HIDE DEF views, kept
    <2> QED BY <1>2, SiftedSet
  <1> HIDE DEF views
  <1> QED BY <1>5, <1>6, <1>7

LEMMA ViewIs ==
    ASSUME NEW n, NEW shown
    PROVE  /\ ReportNodeView(n, shown).kind = n.kind
           /\ n.kind = "field" =>
                 ReportNodeView(n, shown) = [kind |-> "field", name |-> n.name, value |-> shown[n.name]]
           /\ n.kind = "image" =>
                 ReportNodeView(n, shown) = [kind |-> "image", name |-> n.source, value |-> shown[n.source]]
           /\ n.kind = "table" =>
                 ReportNodeView(n, shown) = [kind |-> "table", name |-> n.source, rows |-> shown[n.source]]
  <1>1. CASE n.kind = "field"
    BY <1>1 DEF ReportNodeView
  <1>2. CASE n.kind = "image"
    BY <1>2 DEF ReportNodeView
  <1>3. CASE n.kind = "table"
    BY <1>3 DEF ReportNodeView
  <1>4. CASE n.kind \notin {"field", "image", "table"}
    BY <1>4 DEF ReportNodeView
  <1> QED BY <1>1, <1>2, <1>3, <1>4

LEMMA FirstPageIs ==
    ASSUME NEW rows, IsSeq(rows)
    PROVE  /\ Len(FirstPage(rows)) = Min({Len(rows), RowsPerPrint})
           /\ Len(rows) <= RowsPerPrint => FirstPage(rows) = rows
  <1> DEFINE S == ToSet(rows)
             m == Min({RowsPerPrint, Len(rows)})
  <1>1. rows \in Seq(S) /\ Len(rows) \in Nat /\ RowsPerPrint \in Nat
    BY PrintConstants, SeqDomain DEF IsSeq
  <1>2. m \in {RowsPerPrint, Len(rows)} /\ m <= RowsPerPrint /\ m <= Len(rows)
    BY <1>1, LeastOf
  <1>3. {RowsPerPrint, Len(rows)} = {Len(rows), RowsPerPrint}
    OBVIOUS
  <1>4. FirstPage(rows) = SubSeq(rows, 1, m) /\ m = Min({Len(rows), RowsPerPrint})
    BY <1>3 DEF FirstPage
  <1> HIDE DEF m, S
  <1>5. m \in 0..Len(rows)
    BY <1>1, <1>2
  <1>6. Len(SubSeq(rows, 1, m)) = m
    BY <1>1, <1>5
  <1>7. ASSUME Len(rows) <= RowsPerPrint PROVE SubSeq(rows, 1, m) = rows
    <2>1. m = Len(rows)
      BY <1>1, <1>2, <1>7
    <2>2. SubSeq(rows, 1, Len(rows)) \in Seq(S) /\ Len(SubSeq(rows, 1, Len(rows))) = Len(rows)
          /\ \A i \in 1..Len(rows) : SubSeq(rows, 1, Len(rows))[i] = rows[i]
      BY <1>1
    <2> QED BY <1>1, <2>1, <2>2
  <1> QED BY <1>4, <1>6, <1>7

LEMMA PrintedFromSheet == ASSUME PrintInv PROVE PrintedAgrees
  <1> SUFFICES ASSUME print = "done" PROVE PrintedAgrees
    BY DEF PrintedAgrees
  <1>1. /\ reads = <<>> /\ ReportDeclared(report) /\ SheetInv
        /\ FieldsRight /\ PicturesRight /\ TablesRight
    BY DEF PrintInv, NotOpened, RecordToCome, RecordThere, SheetInv
  <1>2. \A x : ~Coming(x)
    BY <1>1 DEF Coming, ToSet
  <1> DEFINE out == ToSet(ReportRenderer(report, sheet))
  <1>3. \A v : v \in out <=> /\ \E n \in Nodes(report) : v = ReportNodeView(n, sheet)
                             /\ v.kind # "image" \/ v.value # Blank
    BY <1>1, RenderedIs DEF ReportDeclared
  <1> HIDE DEF out
  <1>4. ASSUME NEW v \in out, v.kind = "field"
        PROVE  \E n \in FieldNodes(report) : v.name = n.name /\ v.value = sheet[n.name]
    <2>1. PICK n \in Nodes(report) : v = ReportNodeView(n, sheet)
      BY <1>3
    <2>2. n.kind = "field" /\ v = [kind |-> "field", name |-> n.name, value |-> sheet[n.name]]
      BY <1>4, <2>1, ViewIs
    <2> QED BY <2>2 DEF FieldNodes
  <1>5. ASSUME NEW v \in out, v.kind = "image"
        PROVE  v.name \in Pictures(report) /\ v.value = sheet[v.name] /\ v.value # Blank
    <2>1. PICK n \in Nodes(report) : v = ReportNodeView(n, sheet)
      BY <1>3
    <2>2. n.kind = "image" /\ v = [kind |-> "image", name |-> n.source, value |-> sheet[n.source]]
      BY <1>5, <2>1, ViewIs
    <2>3. n.source \in Pictures(report)
      BY <1>1, <2>2, BackedIs DEF Pictures
    <2> QED BY <1>3, <1>5, <2>2, <2>3
  <1>6. ASSUME NEW v \in out, v.kind = "table"
        PROVE  v.name \in Tables(report) /\ v.rows = sheet[v.name]
    <2>1. PICK n \in Nodes(report) : v = ReportNodeView(n, sheet)
      BY <1>3
    <2>2. n.kind = "table" /\ v = [kind |-> "table", name |-> n.source, rows |-> sheet[n.source]]
      BY <1>6, <2>1, ViewIs
    <2> QED BY <2>2 DEF Tables
  <1>7. \A v \in out : v.kind = "field" /\ held.values[v.name] # Blank => v.value = held.values[v.name]
    BY <1>1, <1>4 DEF FieldsRight
  <1>8. \A v \in out : v.kind = "image" => held.values[v.name] = "true"
    BY <1>1, <1>2, <1>5 DEF PicturesRight
  <1>9. ASSUME ~cut, NEW n \in ToSet(reportCompanyFallbackFields(report)), held.values[n.name] = Blank
        PROVE  sheet[n.name] = profile[n.fallback]
    <2>1. n \in Backed(report) /\ n \in FieldNodes(report)
      BY <1>1, <1>9, BackedIs DEF Backed
    <2> QED BY <1>1, <1>2, <1>9, <2>1 DEF FieldsRight
  <1>10. ASSUME ~cut, NEW n \in ToSet(reportImageSources(report)), held.values[n.source] = "true"
         PROVE  \E shown \in out : shown.kind = "image" /\ shown.name = n.source
    <2>1. n \in Nodes(report) /\ n.kind = "image" /\ n.source \in Pictures(report)
      BY <1>1, <1>10, BackedIs DEF Pictures
    <2>2. sheet[n.source] # Blank
      BY <1>1, <1>2, <1>10, <2>1 DEF PicturesRight
    <2> DEFINE v == ReportNodeView(n, sheet)
    <2>3. v = [kind |-> "image", name |-> n.source, value |-> sheet[n.source]]
      BY <2>1, ViewIs
    <2> HIDE DEF v
    <2>4. v.kind = "image" /\ v.name = n.source /\ v.value = sheet[n.source]
      BY <2>3
    <2>5. v \in out
      BY <1>3, <2>1, <2>2, <2>4 DEF v
    <2> QED BY <2>4, <2>5
  <1>11. ASSUME ~moved, ~cut, NEW t \in out, t.kind = "table"
         PROVE  /\ Len(t.rows) = Min({Len(held.rows), RowsPerPrint})
                /\ Len(held.rows) <= RowsPerPrint =>
                      \A n \in out : n.kind = "field" /\ n.name = Subtotal => n.value = SumOf(t.rows)
    <2>1. IsSeq(held.rows) /\ held.values[Subtotal] = SumOf(held.rows)
      BY <1>1 DEF SheetInv, DocumentOK
    <2>2. t.rows = FirstPage(held.rows)
      BY <1>1, <1>2, <1>6, <1>11 DEF TablesRight
    <2>3. \A n \in out : n.kind = "field" /\ n.name = Subtotal => n.value = SumOf(held.rows)
      BY <1>1, <1>4, <2>1 DEF FieldsRight
    <2> QED BY <2>1, <2>2, <2>3, FirstPageIs
  <1> QED BY <1>7, <1>8, <1>9, <1>10, <1>11 DEF PrintedAgrees, out

\* The print page as the shell opens it: nothing of it moves before.
PagePrintInv ==
    /\ CallsOf(calls) /\ ReportsKnown(reports)
    /\ PrintInv /\ (screen = "none" => NotOpened)

LEMMA PagePrintInit == Init => PagePrintInv
  <1> SUFFICES ASSUME Init PROVE PagePrintInv
    OBVIOUS
  <1>1. CallsOf(calls)
    <2>1. CallsOf(<<>>)
      BY DEF CallsOf, IsSeq, ToSet
    <2>2. found \in Discoveries /\ (calls = <<>> \/ calls = RegisterCalls(found))
      BY DEF Init, RegistryInit
    <2> QED BY <2>1, <2>2, RegisterCallsOf
  <1>2. ReportsKnown(reports)
    BY DEF Init, RegistryInit, ReportsKnown, IsSeq
  <1>3. NotOpened
    BY DEF Init, PrintInit, NotOpened
  <1> QED BY <1>1, <1>2, <1>3 DEF PagePrintInv, PrintInv

LEMMA SameSheet == ASSUME PrintInv, UNCHANGED printVars PROVE PrintInv' /\ (NotOpened => NotOpened')
  BY DEF printVars, PrintInv, NotOpened, RecordToCome, RecordThere, SheetInv, FieldsRight, PicturesRight, TablesRight,
         DocumentOK, Coming

LEMMA PagePrintStep == ASSUME ReportsDeclared, PagePrintInv, [Next]_vars PROVE PagePrintInv'
  <1>1. CallsOf(calls) /\ ReportsKnown(reports) /\ PrintInv /\ (screen = "none" => NotOpened)
    BY DEF PagePrintInv
  <1>2. CASE Register
    <2>1. register /\ UNCHANGED <<printVars, screen>>
      BY <1>2 DEF Register
    <2> QED BY <1>1, <2>1, CallsKept, RegisterReports, SameSheet DEF PagePrintInv
  <1>3. ASSUME UNCHANGED <<registryVars, printVars>>, screen' = "none" => screen = "none" PROVE PagePrintInv'
    <2>1. UNCHANGED <<calls, reports>>
      BY <1>3 DEF registryVars
    <2> QED BY <1>1, <1>3, <2>1, SameSheet DEF PagePrintInv
  <1>4. CASE PrintReportPage
    <2>1. /\ screen = "none" /\ UNCHANGED registryVars
          /\ \E name \in Printed(found) :
                LET named == Sift(reports, {r \in ToSet(reports) : r.name = name})
                IN \/ UNCHANGED printVars
                   \/ named # <<>> /\ screen' = "print" /\ OpenPrint(named[1])
      BY <1>4 DEF PrintReportPage
    <2>2. CASE UNCHANGED printVars
      BY <1>1, <1>3, <2>1, <2>2
    <2>3. ASSUME NEW name, NEW named, named = Sift(reports, {r \in ToSet(reports) : r.name = name}),
                 named # <<>>, screen' = "print", OpenPrint(named[1])
          PROVE  PagePrintInv'
      <3>1. IsSeq(reports)
        BY <1>1 DEF ReportsKnown
      <3>2. IsSeq(named) /\ ToSet(named) \subseteq ToSet(reports)
        BY <2>3, <3>1, SiftedSet
      <3>3. named[1] \in ToSet(named)
        <4>1. 1 \in DOMAIN named
          BY <2>3, <3>2, SeqTail
        <4> QED BY <4>1 DEF ToSet
      <3>4. ReportDeclared(named[1])
        BY <1>1, <3>2, <3>3 DEF ReportsKnown, ToSet
      <3>5. RecordToCome'
        BY <1>1, <2>1, <2>3, <3>4, OpenPrintOK
      <3>6. UNCHANGED <<calls, reports>>
        BY <2>1 DEF registryVars
      <3> QED BY <1>1, <2>3, <3>5, <3>6 DEF PagePrintInv, PrintInv
    <2> QED BY <2>1, <2>2, <2>3
  <1>5. CASE PrintStep
    <2>1. screen = "print" /\ screen' = "print" /\ PrintNext /\ UNCHANGED <<calls, reports>>
      BY <1>5 DEF PrintStep, registryVars
    <2> QED BY <1>1, <2>1, PrintStepOK DEF PagePrintInv
  <1>6. CASE ModulePage
    BY <1>1, <1>3, <1>6 DEF ModulePage
  <1>7. CASE FormStep \/ GraphMode \/ BoardStep \/ PropertyStep \/ UNCHANGED vars
    BY <1>3, <1>7 DEF FormStep, GraphMode, BoardStep, PropertyStep, vars
  <1> QED BY <1>2, <1>4, <1>5, <1>6, <1>7 DEF Next

\* A report never prints another value than the record's own where there is one, nor
\* a picture the record has not; without edits in between and failed reads its blanks
\* are the company's and its sum that of its rows, if the reports registered are well
\* declared (PrintReportPage, ReportRenderer).
THEOREM PrintedAgreesHolds == ASSUME ReportsDeclared PROVE Spec => []PrintedAgrees
  <1>1. Init => PagePrintInv
    BY PagePrintInit
  <1>2. PagePrintInv /\ [Next]_vars => PagePrintInv'
    BY PagePrintStep
  <1>3. PagePrintInv => PrintedAgrees
    BY PrintedFromSheet DEF PagePrintInv
  <1> QED BY <1>1, <1>2, <1>3, PTL DEF Spec

-----------------------------------------------------------------------------
(* Sums and counts: distinct keys, a list in another order, what is stacked *)
(* on what, and the height of marks that share out a finite set.           *)

LEMMA DistinctIs ==
    ASSUME NEW keys, IsSeq(keys)
    PROVE  /\ IsSeq(Distinct(keys)) /\ ToSet(Distinct(keys)) = ToSet(keys) \ {""}
           /\ \A k, l \in DOMAIN Distinct(keys) : Distinct(keys)[k] = Distinct(keys)[l] => k = l
  <1>0. /\ DOMAIN keys = 1..Len(keys) /\ DOMAIN keys \subseteq Nat
        /\ \A j \in DOMAIN keys : \A k \in 1..(j - 1) : k \in DOMAIN keys /\ ~(j <= k)
    <2>1. Len(keys) \in Nat /\ DOMAIN keys = 1..Len(keys)
      BY SeqDomain
    <2> DEFINE n == Len(keys)
    <2>2. n \in Nat
      BY <2>1
    <2> HIDE DEF n
    <2>3. 1..n \subseteq Nat /\ \A j \in 1..n : \A k \in 1..(j - 1) : k \in 1..n /\ ~(j <= k)
      BY <2>2
    <2> QED BY <2>1, <2>3 DEF n
  <1> DEFINE W == {i \in DOMAIN keys : keys[i] # "" /\ \A k \in 1..(i - 1) : keys[k] # keys[i]}
             ids == [i \in DOMAIN keys |-> i]
             places == Sift(ids, W)
             d == [k \in DOMAIN places |-> keys[places[k]]]
  <1>1. Distinct(keys) = d
    BY DEF Distinct
  <1>2. Len(keys) \in Nat /\ DOMAIN keys = 1..Len(keys)
    BY SeqDomain
  <1>3. IsSeq(ids)
    <2>1. DOMAIN ids = 1..Len(keys) /\ ids = [i \in 1..Len(keys) |-> ids[i]]
      BY <1>2
    <2> HIDE DEF ids
    <2> QED BY <1>2, <2>1, SeqOfMap
  <1>4. DOMAIN ids = DOMAIN keys /\ \A i \in DOMAIN keys : ids[i] = i
    OBVIOUS
  <1>5. {i \in DOMAIN ids : ids[i] \in W} = W
    BY Zenon, <1>4
  <1>6. PartOf(places, ids, W)
    <2> HIDE DEF ids, W
    <2> QED BY <1>3, <1>5, SiftPart
  <1>7. IsSeq(places) /\ Len(places) \in Nat /\ DOMAIN places = 1..Len(places)
    <2> HIDE DEF places
    <2> QED BY Zenon, <1>6, SeqDomain DEF PartOf
  <1> HIDE DEF places
  <1>8. PICK h : /\ \A k \in DOMAIN places : h[k] \in W /\ places[k] = ids[h[k]]
                 /\ \A k, l \in DOMAIN places : k < l => h[k] < h[l]
                 /\ \A i \in W : \E k \in DOMAIN places : h[k] = i
    BY Zenon, <1>6 DEF PartOf
  <1>9. \A k \in DOMAIN places : places[k] = h[k] /\ places[k] \in W
    BY Zenon, <1>4, <1>8
  <1>10. DOMAIN d = DOMAIN places /\ \A k \in DOMAIN places : d[k] = keys[h[k]]
    BY Zenon, <1>9
  <1>11. IsSeq(d)
    <2>1. d = [k \in 1..Len(places) |-> d[k]] /\ DOMAIN d = 1..Len(places)
      BY <1>7
    <2> HIDE DEF d
    <2> QED BY <1>7, <2>1, SeqOfMap
  <1> HIDE DEF d, ids
  <1>12. ASSUME NEW k \in DOMAIN d, NEW l \in DOMAIN d, k < l PROVE d[k] # d[l]
    <2>1. h[k] < h[l] /\ h[k] \in 1..Len(keys) /\ h[l] \in 1..Len(keys)
      BY Zenon, <1>2, <1>8, <1>10, <1>12
    <2>2. h[k] \in 1..(h[l] - 1)
      BY <1>2, <2>1
    <2>3. keys[h[k]] # keys[h[l]]
      BY Zenon, <1>8, <1>10, <2>2
    <2> QED BY <1>10, <2>3
  <1>13. \A k, l \in DOMAIN d : d[k] = d[l] => k = l
    <2> SUFFICES ASSUME NEW k \in DOMAIN d, NEW l \in DOMAIN d, k # l PROVE d[k] # d[l]
      OBVIOUS
    <2>1. k < l \/ l < k
      BY <1>7, <1>10
    <2> QED BY <1>12, <2>1
  <1>14. ToSet(d) \subseteq ToSet(keys) \ {""}
    <2> SUFFICES ASSUME NEW k \in DOMAIN d PROVE d[k] \in ToSet(keys) \ {""}
      BY Zenon DEF ToSet
    <2>1. h[k] \in W /\ d[k] = keys[h[k]]
      BY Zenon, <1>8, <1>10
    <2> QED BY Zenon, <2>1 DEF ToSet
  <1>15. ToSet(keys) \ {""} \subseteq ToSet(d)
    <2> SUFFICES ASSUME NEW j \in DOMAIN keys, keys[j] # "" PROVE keys[j] \in ToSet(d)
      BY Zenon DEF ToSet
    <2> DEFINE A == {i \in DOMAIN keys : keys[i] = keys[j]}
               i == Min(A)
    <2>1. A \in SUBSET Nat /\ A # {}
      <3>1. j \in A
        BY Zenon
      <3>2. DOMAIN keys \subseteq Nat
        BY Zenon, <1>0
      <3> QED BY Zenon, <3>1, <3>2
    <2>2. i \in A /\ \A y \in A : i <= y
      <3> HIDE DEF A
      <3> QED BY Zenon, <2>1, LeastOf
    <2>3. i \in 1..Len(keys) /\ keys[i] = keys[j]
      <3> HIDE DEF i
      <3> QED BY Zenon, <1>2, <2>2
    <2>4. \A k \in 1..(i - 1) : k \in DOMAIN keys /\ ~(i <= k)
      <3> HIDE DEF A, i
      <3> QED BY Zenon, <1>0, <2>3
    <2> HIDE DEF i
    <2>5. \A k \in 1..(i - 1) : keys[k] # keys[i]
      BY Zenon, <2>2, <2>3, <2>4
    <2>6. i \in W
      BY Zenon, <1>2, <2>3, <2>5
    <2>7. PICK k \in DOMAIN places : h[k] = i
      BY Zenon, <1>8, <2>6
    <2> QED BY Zenon, <1>10, <2>3, <2>7 DEF ToSet
  <1> QED BY Zenon, <1>1, <1>11, <1>13, <1>14, <1>15

\* u has the elements of s in another order.
Reordered(u, s) ==
    /\ IsSeq(u) /\ DOMAIN u = DOMAIN s
    /\ \E p : /\ \A k \in DOMAIN s : p[k] \in DOMAIN s /\ u[k] = s[p[k]]
              /\ \A k, l \in DOMAIN s : p[k] = p[l] => k = l
              /\ \A i \in DOMAIN s : \E k \in DOMAIN s : p[k] = i

LEMMA ByWeightIs ==
    ASSUME NEW s, IsSeq(s), NEW w, \A i \in DOMAIN s : w[i] \in Int
    PROVE  Reordered(ByWeight(s, w), s)
  <1> DEFINE n == Len(s)
             B(i) == {j \in DOMAIN s : w[j] < w[i] \/ (w[j] = w[i] /\ j <= i)}
             P == [i \in 1..n |-> Cardinality(B(i))]
             p == [k \in 1..n |-> CHOOSE i \in DOMAIN s : Cardinality(B(i)) = k]
             u == ByWeight(s, w)
  <1>1. n \in Nat /\ DOMAIN s = 1..n
    BY SeqDomain
  <1>2. u = [k \in DOMAIN s |-> s[CHOOSE i \in DOMAIN s : Cardinality(B(i)) = k]]
    BY DEF ByWeight
  <1>3. DOMAIN u = 1..n /\ \A k \in 1..n : u[k] = s[p[k]]
    BY <1>1, <1>2
  <1> HIDE DEF n, u
  <1>4. IsFiniteSet(1..n) /\ Cardinality(1..n) = n
    BY <1>1, FS_Interval
  <1>5. \A i \in 1..n : B(i) \in SUBSET (1..n) /\ i \in B(i)
    BY <1>1
  <1>6. \A i \in 1..n : IsFiniteSet(B(i)) /\ Cardinality(B(i)) \in 1..n
    <2> SUFFICES ASSUME NEW i \in 1..n PROVE IsFiniteSet(B(i)) /\ Cardinality(B(i)) \in 1..n
      OBVIOUS
    <2>1. B(i) \in SUBSET (1..n) /\ i \in B(i)
      BY <1>5
    <2> HIDE DEF B
    <2>2. IsFiniteSet(B(i)) /\ Cardinality(B(i)) <= n
      BY <1>4, <2>1, FS_Subset
    <2>3. Cardinality(B(i)) \in Nat /\ Cardinality(B(i)) # 0
      BY <2>1, <2>2, FS_CardinalityType, FS_EmptySet
    <2> QED BY <1>1, <2>2, <2>3
  <1>7. ASSUME NEW i \in 1..n, NEW j \in 1..n, w[i] < w[j] \/ (w[i] = w[j] /\ i < j)
        PROVE  Cardinality(B(i)) # Cardinality(B(j))
    <2>1. w[i] \in Int /\ w[j] \in Int
      BY <1>1
    <2>2. B(i) \in SUBSET B(j)
      <3> SUFFICES ASSUME NEW k \in DOMAIN s, w[k] < w[i] \/ (w[k] = w[i] /\ k <= i)
                   PROVE  w[k] < w[j] \/ (w[k] = w[j] /\ k <= j)
        OBVIOUS
      <3>1. w[k] \in Int
        OBVIOUS
      <3> QED BY <1>1, <1>7, <2>1, <3>1
    <2>3. j \in B(j) /\ j \notin B(i)
      BY <1>1, <1>7, <2>1
    <2> HIDE DEF B
    <2>4. B(i) # B(j)
      BY <2>3
    <2> QED BY <1>6, <2>2, <2>4, FS_Subset
  <1>8. \A i, j \in 1..n : Cardinality(B(i)) = Cardinality(B(j)) => i = j
    <2> SUFFICES ASSUME NEW i \in 1..n, NEW j \in 1..n, i # j PROVE Cardinality(B(i)) # Cardinality(B(j))
      OBVIOUS
    <2>1. w[i] \in Int /\ w[j] \in Int
      BY <1>1
    <2>2. \/ w[i] < w[j] \/ (w[i] = w[j] /\ i < j)
          \/ w[j] < w[i] \/ (w[j] = w[i] /\ j < i)
      BY <1>1, <2>1
    <2> HIDE DEF B
    <2> QED BY <1>7, <2>2
  <1>9. \A i \in 1..n : P[i] = Cardinality(B(i))
    OBVIOUS
  <1>10. P \in Injection(1..n, 1..n)
    <2>1. P \in [1..n -> 1..n]
      BY <1>6
    <2> HIDE DEF P, B
    <2> QED BY <1>8, <1>9, <2>1 DEF Injection, IsInjective
  <1>11. P \in Surjection(1..n, 1..n)
    <2> HIDE DEF P
    <2> QED BY <1>4, <1>10, FS_Injection
  <1>12. \A k \in 1..n : \E i \in 1..n : Cardinality(B(i)) = k
    <2> HIDE DEF P, B
    <2> QED BY <1>9, <1>11 DEF Surjection
  <1>13. \A k \in 1..n : p[k] \in 1..n /\ Cardinality(B(p[k])) = k
    <2> SUFFICES ASSUME NEW k \in 1..n PROVE p[k] \in 1..n /\ Cardinality(B(p[k])) = k
      OBVIOUS
    <2>1. p[k] = CHOOSE i \in DOMAIN s : Cardinality(B(i)) = k
      OBVIOUS
    <2> HIDE DEF p, B
    <2> QED BY <1>1, <1>12, <2>1
  <1> HIDE DEF p, B
  <1>14. \A k, l \in 1..n : p[k] = p[l] => k = l
    BY <1>13
  <1>15. \A i \in 1..n : \E k \in 1..n : p[k] = i
    <2> SUFFICES ASSUME NEW i \in 1..n PROVE \E k \in 1..n : p[k] = i
      OBVIOUS
    <2> DEFINE k == Cardinality(B(i))
    <2>1. k \in 1..n
      BY <1>6
    <2>2. p[k] = i
      <3>1. p[k] \in 1..n /\ Cardinality(B(p[k])) = k
        <4> HIDE DEF k
        <4> QED BY <1>13, <2>1
      <3> QED BY <1>8, <3>1
    <2> QED BY <2>1, <2>2
  <1>16. IsSeq(u)
    <2>1. u = [k \in 1..n |-> u[k]]
      BY <1>1, <1>2
    <2> QED BY <1>1, <1>3, <2>1, SeqOfMap
  <1>17. \A k \in DOMAIN s : p[k] \in DOMAIN s /\ u[k] = s[p[k]]
    BY <1>1, <1>3, <1>13
  <1>18. /\ \A k, l \in DOMAIN s : p[k] = p[l] => k = l
         /\ \A i \in DOMAIN s : \E k \in DOMAIN s : p[k] = i
    BY <1>1, <1>14, <1>15
  <1>19. DOMAIN u = DOMAIN s
    BY <1>1, <1>3
  <1> QED BY <1>16, <1>17, <1>18, <1>19 DEF u, Reordered

LEMMA TotalRun ==
    ASSUME NEW v, NEW n \in Nat, Len(v) = n
    PROVE  \E f : f[0] = 0 /\ (\A i \in 1..n : f[i] = f[i - 1] + v[i]) /\ Total(v) = f[n]
  <1> DEFINE Sums(f, m) == f = [i \in 0..m |-> IF i = 0 THEN 0 ELSE f[i - 1] + v[i]]
             T == {m \in Nat : \E f : Sums(f, m)}
  <1>1. 0 \in T
    <2>1. Sums([i \in 0..0 |-> 0], 0)
      OBVIOUS
    <2> HIDE DEF Sums
    <2> QED BY <2>1
  <1>2. ASSUME NEW m \in Nat, m \in T PROVE m + 1 \in T
    <2>1. PICK f : Sums(f, m)
      BY <1>2
    <2> DEFINE g == [i \in 0..(m + 1) |-> IF i = m + 1 THEN f[m] + v[m + 1] ELSE f[i]]
    <2>2. \A i \in 0..m : g[i] = f[i]
      OBVIOUS
    <2>3. g[m + 1] = f[m] + v[m + 1]
      OBVIOUS
    <2>4. f[0] = 0 /\ \A i \in 1..m : f[i] = f[i - 1] + v[i]
      <3>1. 0 \in 0..m /\ \A i \in 1..m : i \in 0..m /\ i # 0
        OBVIOUS
      <3> QED BY <2>1, <3>1
    <2>5. g = [i \in 0..(m + 1) |-> g[i]]
      OBVIOUS
    <2> HIDE DEF g
    <2>6. \A i \in 1..(m + 1) : g[i] = g[i - 1] + v[i]
      <3> SUFFICES ASSUME NEW i \in 1..(m + 1) PROVE g[i] = g[i - 1] + v[i]
        OBVIOUS
      <3>1. i - 1 \in 0..m /\ g[i - 1] = f[i - 1]
        BY <2>2
      <3>2. CASE i \in 1..m
        <4>1. g[i] = f[i]
          BY <2>2, <3>2
        <4> QED BY <2>4, <3>1, <3>2, <4>1
      <3>3. CASE i = m + 1
        <4>1. i - 1 = m
          BY <3>3
        <4> QED BY <2>3, <3>1, <3>3, <4>1
      <3> QED BY <3>2, <3>3
    <2>7. g[0] = 0
      BY <2>2, <2>4
    <2>8. Sums(g, m + 1)
      <3>1. \A i \in 0..(m + 1) : i # 0 => i \in 1..(m + 1)
        OBVIOUS
      <3>2. \A i \in 0..(m + 1) : g[i] = IF i = 0 THEN 0 ELSE g[i - 1] + v[i]
        BY <2>6, <2>7, <3>1
      <3> QED BY <2>5, <3>2
    <2> HIDE DEF Sums
    <2> QED BY <2>8
  <1>3. Nat \subseteq T
    <2> HIDE DEF T
    <2> QED BY <1>1, <1>2, Everything
  <1> DEFINE f == CHOOSE x : Sums(x, n)
  <1>4. Total(v) = f[n]
    BY DEF Total
  <1>5. Sums(f, n)
    <2> HIDE DEF Sums
    <2> QED BY <1>3
  <1> HIDE DEF f
  <1>6. f[0] = 0 /\ \A i \in 1..n : f[i] = f[i - 1] + v[i]
    <2>1. 0 \in 0..n /\ \A i \in 1..n : i \in 0..n /\ i # 0
      OBVIOUS
    <2> QED BY <1>5, <2>1
  <1> QED BY <1>4, <1>6

\* A sum that is known step by step.
LEMMA TotalIs ==
    ASSUME NEW u, NEW m \in Nat, Len(u) = m, NEW F, F[0] = 0, \A k \in 1..m : F[k] = F[k - 1] + u[k]
    PROVE  Total(u) = F[m]
  <1>1. PICK f : f[0] = 0 /\ (\A i \in 1..m : f[i] = f[i - 1] + u[i]) /\ Total(u) = f[m]
    BY TotalRun
  <1> DEFINE T == {k \in 0..m : f[k] = F[k]}
  <1>2. 0 \in T
    BY <1>1
  <1>3. ASSUME NEW k \in 0..(m - 1), k \in T PROVE k + 1 \in T
    <2>1. k + 1 \in 1..m /\ (k + 1) - 1 = k /\ k + 1 \in 0..m
      OBVIOUS
    <2>2. f[k + 1] = f[k] + u[k + 1] /\ F[k + 1] = F[k] + u[k + 1]
      BY <1>1, <2>1
    <2> QED BY <1>3, <2>1, <2>2
  <1>4. \A k \in 0..m : k \in T
    <2> HIDE DEF T
    <2> QED BY <1>2, <1>3, UpTo
  <1> QED BY <1>1, <1>4

LEMMA SeqLen == ASSUME NEW n \in Nat, NEW v PROVE Len([k \in 1..n |-> v[k]]) = n
  <1>1. DOMAIN [k \in 1..n |-> v[k]] = 1..n
    OBVIOUS
  <1> QED BY <1>1

\* Every element of a finite set stands under one mark, and a mark's value is how many stand under it.
LEMMA HeightIs ==
    ASSUME NEW M, IsFiniteSet(M), NEW I, IsFiniteSet(I), NEW own \in [I -> M],
           \A m \in M : m.value = Cardinality({i \in I : own[i] = m})
    PROVE  Height(M) = Cardinality(I)
  <1> DEFINE G(s) == {i \in I : own[i] \in s}
             W(s) == Cardinality(G(s))
             Heights(f) == f = [s \in SUBSET M |-> IF s = {} THEN 0
                                 ELSE LET x == CHOOSE x \in s : TRUE IN x.value + f[s \ {x}]]
             V == [s \in SUBSET M |-> W(s)]
             f == CHOOSE x : Heights(x)
  <1>1. Height(M) = f[M]
    BY DEF Height, MapThenSumSet, MapThenFoldSet
  <1>2. \A s : IsFiniteSet(G(s)) /\ W(s) \in Nat
    <2> SUFFICES ASSUME NEW s PROVE IsFiniteSet(G(s)) /\ W(s) \in Nat
      OBVIOUS
    <2>1. G(s) \in SUBSET I
      OBVIOUS
    <2> HIDE DEF G
    <2> QED BY <2>1, FS_Subset, FS_CardinalityType
  <1>3. ASSUME NEW s \in SUBSET M, NEW x \in s PROVE W(s) = x.value + W(s \ {x})
    <2>1. {i \in I : own[i] = x} = G({x})
      OBVIOUS
    <2>2. x.value = W({x})
      BY <2>1
    <2>3. G(s) = G(s \ {x}) \union G({x})
      OBVIOUS
    <2>4. G(s \ {x}) \intersect G({x}) = {}
      OBVIOUS
    <2> HIDE DEF G
    <2> DEFINE A == G(s \ {x})
               B == G({x})
    <2>5. W(s) = W(s \ {x}) + W({x}) - Cardinality({})
      <3>1. IsFiniteSet(A) /\ IsFiniteSet(B)
        BY <1>2
      <3> HIDE DEF A, B
      <3>2. Cardinality(A \union B) = Cardinality(A) + Cardinality(B) - Cardinality(A \intersect B)
        BY <3>1, FS_Union
      <3>3. G(s) = A \union B /\ A \intersect B = {}
        BY <2>3, <2>4 DEF A, B
      <3> QED BY <3>2, <3>3 DEF A, B
    <2>6. W(s) = W(s \ {x}) + W({x})
      BY <1>2, <2>5, FS_EmptySet
    <2> HIDE DEF W
    <2> QED BY <1>2, <2>2, <2>6
  <1>4. W({}) = 0
    <2>1. G({}) = {}
      OBVIOUS
    <2> HIDE DEF G
    <2> QED BY <2>1, FS_EmptySet
  <1>5. W(M) = Cardinality(I)
    <2>1. G(M) = I
      OBVIOUS
    <2> HIDE DEF G
    <2> QED BY <2>1
  <1> HIDE DEF W, G
  <1>6. Heights(V)
    <2>1. ASSUME NEW s \in SUBSET M
          PROVE  V[s] = IF s = {} THEN 0 ELSE LET x == CHOOSE x \in s : TRUE IN x.value + V[s \ {x}]
      <3>1. CASE s = {}
        BY <1>4, <3>1
      <3>2. CASE s # {}
        <4> DEFINE x == CHOOSE x \in s : TRUE
        <4>1. x \in s
          BY <3>2
        <4> HIDE DEF x
        <4>2. s \ {x} \in SUBSET M
          OBVIOUS
        <4>3. V[s] = W(s) /\ V[s \ {x}] = W(s \ {x})
          BY <4>2
        <4>4. V[s] = x.value + V[s \ {x}]
          BY <1>3, <4>1, <4>3
        <4> HIDE DEF V
        <4> QED BY <3>2, <4>4 DEF x
      <3> QED BY <3>1, <3>2
    <2>2. V = [s \in SUBSET M |-> V[s]]
      OBVIOUS
    <2> HIDE DEF V
    <2> QED BY <2>1, <2>2
  <1>7. Heights(f)
    <2> HIDE DEF Heights, V
    <2> QED BY <1>6
  <1> HIDE DEF f
  <1>8. f[{}] = 0
    BY <1>7
  <1>9. ASSUME NEW s \in SUBSET M, s # {} PROVE \E x \in s : f[s] = x.value + f[s \ {x}]
    <2> DEFINE x == CHOOSE x \in s : TRUE
    <2>1. f[s] = x.value + f[s \ {x}]
      BY <1>7, <1>9
    <2>2. x \in s
      BY <1>9
    <2> HIDE DEF x
    <2> QED BY <2>1, <2>2
  <1> HIDE DEF Heights
  <1> DEFINE T == {n \in Nat : \A s \in SUBSET M : Cardinality(s) = n => f[s] = W(s)}
  <1>10. \A s \in SUBSET M : IsFiniteSet(s) /\ Cardinality(s) \in Nat
    BY FS_Subset, FS_CardinalityType
  <1>11. 0 \in T
    BY <1>4, <1>8, <1>10, FS_EmptySet
  <1>12. ASSUME NEW n \in Nat, n \in T PROVE n + 1 \in T
    <2> SUFFICES ASSUME NEW s \in SUBSET M, Cardinality(s) = n + 1 PROVE f[s] = W(s)
      OBVIOUS
    <2>1. s # {}
      BY FS_EmptySet
    <2>2. PICK x \in s : f[s] = x.value + f[s \ {x}]
      BY <1>9, <2>1
    <2>3. s \ {x} \in SUBSET M /\ Cardinality(s \ {x}) = n
      BY <1>10, FS_RemoveElement
    <2>4. f[s \ {x}] = W(s \ {x})
      BY <1>12, <2>3
    <2> QED BY <1>3, <2>2, <2>4
  <1>13. Nat \subseteq T
    <2> HIDE DEF T
    <2> QED BY <1>11, <1>12, Everything
  <1>14. f[M] = W(M)
    BY <1>10, <1>13
  <1> QED BY <1>1, <1>5, <1>14

\* Marks that each stand for something.
LEMMA HeightIsAll ==
    ASSUME NEW M, NEW I, IsFiniteSet(I), NEW own \in [I -> M],
           \A m \in M : m.value # 0 /\ m.value = Cardinality({i \in I : own[i] = m})
    PROVE  Height(M) = Cardinality(I)
  <1>1. \A m \in M : \E i \in I : own[i] = m
    <2> SUFFICES ASSUME NEW m \in M, ~ \E i \in I : own[i] = m PROVE FALSE
      OBVIOUS
    <2>1. {i \in I : own[i] = m} = {}
      OBVIOUS
    <2>2. m.value = 0
      BY <2>1, FS_EmptySet
    <2> QED BY <2>2
  <1>2. own \in Surjection(I, M)
    BY <1>1 DEF Surjection
  <1>3. IsFiniteSet(M)
    BY <1>2, FS_Surjection
  <1> QED BY <1>3, HeightIs

\* Naturals stacked on each other.
LEMMA Stack ==
    ASSUME NEW n \in Nat, NEW v, \A k \in 1..n : v[k] \in Nat
    PROVE  \E F : /\ \A k \in 1..n : Total([j \in 1..(k - 1) |-> v[j]]) = F[k] /\ F[k] \in Nat
                  /\ \A k, l \in 1..n : k < l => F[k] + v[k] <= F[l]
  <1> DEFINE u == [k \in 1..n |-> v[k]]
  <1>1. Len(u) = n
    BY SeqLen
  <1>2. \A k \in 1..n : u[k] = v[k]
    OBVIOUS
  <1> HIDE DEF u
  <1>3. PICK f : f[0] = 0 /\ \A i \in 1..n : f[i] = f[i - 1] + u[i]
    BY <1>1, TotalRun
  <1> DEFINE T == {k \in 0..n : f[k] \in Nat}
  <1>4. 0 \in T
    BY <1>3
  <1>5. ASSUME NEW k \in 0..(n - 1), k \in T PROVE k + 1 \in T
    <2>1. k + 1 \in 1..n /\ (k + 1) - 1 = k /\ k + 1 \in 0..n
      OBVIOUS
    <2>2. f[k + 1] = f[k] + u[k + 1] /\ u[k + 1] \in Nat
      BY <1>2, <1>3, <2>1
    <2> QED BY <1>5, <2>1, <2>2
  <1>6. \A k \in 0..n : f[k] \in Nat
    <2>1. \A k \in 0..n : k \in T
      <3> HIDE DEF T
      <3> QED BY <1>4, <1>5, UpTo
    <2> QED BY <2>1
  <1> HIDE DEF T
  <1> DEFINE F == [k \in 1..n |-> f[k - 1]]
             X(k) == {l \in 0..n : l >= k => f[k] <= f[l]}
  <1>7. ASSUME NEW k \in 0..n PROVE \A l \in 0..n : l >= k => f[k] <= f[l]
    <2>1. 0 \in X(k)
      BY <1>6
    <2>2. ASSUME NEW l \in 0..(n - 1), l \in X(k) PROVE l + 1 \in X(k)
      <3>1. l + 1 \in 1..n /\ (l + 1) - 1 = l /\ l + 1 \in 0..n /\ l \in 0..n
        OBVIOUS
      <3>2. f[l + 1] = f[l] + u[l + 1] /\ u[l + 1] \in Nat /\ f[l] \in Nat /\ f[k] \in Nat
        BY <1>2, <1>3, <1>6, <3>1
      <3>3. l + 1 = k \/ l >= k \/ l + 1 < k
        OBVIOUS
      <3> QED BY <2>2, <3>1, <3>2, <3>3
    <2>3. \A l \in 0..n : l \in X(k)
      <3> HIDE DEF X
      <3> QED BY <2>1, <2>2, UpTo
    <2> QED BY <2>3
  <1>8. ASSUME NEW k \in 1..n
        PROVE  k - 1 \in 0..n /\ F[k] = f[k - 1] /\ F[k] \in Nat /\ f[k] = F[k] + v[k]
    <2>1. k - 1 \in 0..n
      OBVIOUS
    <2> QED BY <1>2, <1>3, <1>6, <2>1
  <1> HIDE DEF F, X
  <1>9. ASSUME NEW k \in 1..n PROVE Total([j \in 1..(k - 1) |-> v[j]]) = F[k]
    <2> DEFINE m == k - 1
               w == [j \in 1..m |-> v[j]]
    <2>1. m \in 0..n /\ m \in Nat /\ 1..m \subseteq 1..n
      OBVIOUS
    <2>2. \A j \in 1..m : f[j] = f[j - 1] + w[j]
      BY <1>2, <1>3, <2>1
    <2>3. F[k] = f[m]
      BY <1>8
    <2> HIDE DEF m
    <2>4. Len(w) = m
      BY <2>1, SeqLen
    <2> HIDE DEF w
    <2>5. Total(w) = f[m]
      BY <1>3, <2>1, <2>2, <2>4, TotalIs
    <2> QED BY <2>3, <2>5 DEF w, m
  <1>10. ASSUME NEW k \in 1..n, NEW l \in 1..n, k < l PROVE F[k] + v[k] <= F[l]
    <2>1. l - 1 \in 0..n /\ l - 1 >= k /\ k \in 0..n
      BY <1>10
    <2>2. f[k] <= f[l - 1]
      BY <1>7, <2>1
    <2> QED BY <1>8, <2>2
  <1>11. \A k \in 1..n : Total([j \in 1..(k - 1) |-> v[j]]) = F[k] /\ F[k] \in Nat
    BY <1>8, <1>9
  <1> QED BY <1>10, <1>11

\* The numbers of elements at places a onward, one place after the other.
CountsFrom(u, I, place, a, n) ==
    /\ Len(u) = n - a + 1
    /\ \A j \in 1..(n - a + 1), k \in 1..n : k = a + j - 1 => u[j] = Cardinality({i \in I : place[i] = k})
LEMMA TotalIsCount ==
    ASSUME NEW I, IsFiniteSet(I), NEW n \in Nat, NEW place \in [I -> 1..n], NEW a \in 1..(n + 1), NEW u,
           CountsFrom(u, I, place, a, n)
    PROVE  Total(u) = Cardinality({i \in I : place[i] >= a})
  <1> DEFINE m == n - a + 1
             G(k) == {i \in I : place[i] >= a /\ place[i] < a + k}
             C(k) == {i \in I : place[i] = a + k - 1}
             Z(l) == {i \in I : place[i] = l}
             F == [k \in 0..m |-> Cardinality(G(k))]
  <1>1. m \in Nat
    OBVIOUS
  <1>2. \A k : IsFiniteSet(G(k)) /\ IsFiniteSet(C(k)) /\ Cardinality(G(k)) \in Nat /\ Cardinality(C(k)) \in Nat
    <2> SUFFICES ASSUME NEW k
                 PROVE  IsFiniteSet(G(k)) /\ IsFiniteSet(C(k)) /\ Cardinality(G(k)) \in Nat /\ Cardinality(C(k)) \in Nat
      OBVIOUS
    <2>1. G(k) \in SUBSET I /\ C(k) \in SUBSET I
      OBVIOUS
    <2> HIDE DEF G, C
    <2> QED BY <2>1, FS_Subset, FS_CardinalityType
  <1>3. \A i \in I : place[i] \in 1..n
    OBVIOUS
  <1>4. ASSUME NEW k \in 1..m PROVE F[k] = F[k - 1] + u[k]
    <2>1. G(k) = G(k - 1) \union C(k)
      <3>1. \A i \in I : place[i] >= a /\ place[i] < a + k
                <=> (place[i] >= a /\ place[i] < a + (k - 1)) \/ place[i] = a + k - 1
        BY <1>1, <1>3
      <3> QED BY <3>1
    <2>2. G(k - 1) \intersect C(k) = {}
      BY <1>3
    <2>3. k \in 0..m /\ k - 1 \in 0..m
      BY <1>1
    <2>3a. u[k] = Cardinality(C(k))
      <3> DEFINE l == a + k - 1
      <3>1. l \in 1..n /\ C(k) = Z(l)
        BY <1>1
      <3>2. u[k] = Cardinality(Z(l))
        BY <3>1 DEF CountsFrom
      <3> HIDE DEF l, C, Z
      <3> QED BY <3>1, <3>2
    <2>4. F[k] = Cardinality(G(k)) /\ F[k - 1] = Cardinality(G(k - 1)) /\ u[k] = Cardinality(C(k))
      BY <2>3, <2>3a
    <2> HIDE DEF F, m
    <2> DEFINE A == G(k - 1)
               B == C(k)
    <2> HIDE DEF G, C
    <2>5. IsFiniteSet(A) /\ IsFiniteSet(B) /\ Cardinality(A) \in Nat /\ Cardinality(B) \in Nat
      BY <1>2
    <2>6. G(k) = A \union B /\ A \intersect B = {}
      BY <2>1, <2>2
    <2>7. F[k] = Cardinality(A \union B) /\ F[k - 1] = Cardinality(A) /\ u[k] = Cardinality(B)
      BY <2>4, <2>6
    <2> HIDE DEF A, B
    <2>8. Cardinality(A \union B) = Cardinality(A) + Cardinality(B) - Cardinality(A \intersect B)
      BY <2>5, FS_Union
    <2>9. Cardinality(A \intersect B) = 0
      BY <2>6, FS_EmptySet
    <2> QED BY <2>5, <2>7, <2>8, <2>9
  <1>5. F[0] = 0
    <2>1. G(0) = {}
      BY <1>3
    <2>2. F[0] = Cardinality(G(0))
      BY <1>1
    <2> QED BY <2>1, <2>2, FS_EmptySet
  <1>6. F[m] = Cardinality(G(m)) /\ m \in 0..m
    BY <1>1
  <1>7. G(m) = {i \in I : place[i] >= a}
    BY <1>3
  <1> HIDE DEF F, G
  <1>8. Total(u) = F[m]
    <2>1. Len(u) = m
      BY DEF CountsFrom
    <2> HIDE DEF m, C, Z
    <2> QED BY <1>1, <1>4, <1>5, <2>1, TotalIs
  <1> QED BY <1>6, <1>7, <1>8

-----------------------------------------------------------------------------
(* What the tiles of a board show: the slices of a pie share out the        *)
(* records that have a label, the lines of a chart those that have a date, *)
(* a number and, with a series, a label, and the points of a line its      *)
(* records by bucket.  So the marks share out the records, and are apart.  *)

LEMMA LabelsAre ==
    ASSUME NEW rs, IsSeq(rs)
    PROVE  /\ IsSeq(Labels(rs)) /\ ToSet(Labels(rs)) = {rs[i].label : i \in DOMAIN rs} \ {""}
           /\ \A k, l \in DOMAIN Labels(rs) : Labels(rs)[k] = Labels(rs)[l] => k = l
  <1> DEFINE keys == [i \in DOMAIN rs |-> rs[i].label]
  <1>1. Len(rs) \in Nat /\ DOMAIN rs = 1..Len(rs)
    BY SeqDomain
  <1>2. IsSeq(keys)
    <2>1. DOMAIN keys = 1..Len(rs) /\ keys = [i \in 1..Len(rs) |-> keys[i]]
      BY <1>1
    <2> HIDE DEF keys
    <2> QED BY <1>1, <2>1, SeqOfMap
  <1>3. ToSet(keys) = {rs[i].label : i \in DOMAIN rs}
    BY DEF ToSet
  <1>4. Labels(rs) = Distinct(keys)
    BY DEF Labels
  <1> HIDE DEF keys
  <1> QED BY Zenon, <1>2, <1>3, <1>4, DistinctIs

LEMMA OfLabelPart ==
    ASSUME NEW rs, IsSeq(rs), NEW label
    PROVE  PartOf(OfLabel(rs, label), rs, {i \in DOMAIN rs : rs[i].label = label})
  <1> DEFINE S == {r \in ToSet(rs) : r.label = label}
  <1>1. {i \in DOMAIN rs : rs[i] \in S} = {i \in DOMAIN rs : rs[i].label = label}
    BY DEF ToSet
  <1>2. OfLabel(rs, label) = Sift(rs, S)
    BY DEF OfLabel
  <1> HIDE DEF S
  <1> QED BY <1>1, <1>2, SiftPart

\* The slices: one for each label, with as many records as have it.
LEMMA SlicesAre ==
    ASSUME NEW rs, IsSeq(rs)
    PROVE  /\ IsSeq(SortedSlices(rs))
           /\ \E place \in [{i \in DOMAIN rs : rs[i].label # ""} -> DOMAIN SortedSlices(rs)] :
                 \A k \in DOMAIN SortedSlices(rs) :
                    /\ \E i \in {i \in DOMAIN rs : rs[i].label # ""} : place[i] = k
                    /\ SortedSlices(rs)[k].count
                         = Cardinality({i \in {i \in DOMAIN rs : rs[i].label # ""} : place[i] = k})
  <1> DEFINE L == Labels(rs)
             I == {i \in DOMAIN rs : rs[i].label # ""}
             Rows(label) == {i \in DOMAIN rs : rs[i].label = label}
             slices == [k \in DOMAIN Labels(rs) |-> SliceOf(rs, Labels(rs)[k])]
             w == [k \in DOMAIN slices |-> -slices[k].count]
             S == SortedSlices(rs)
  <1>1. /\ IsSeq(L) /\ ToSet(L) = {rs[i].label : i \in DOMAIN rs} \ {""}
        /\ \A k, l \in DOMAIN L : L[k] = L[l] => k = l
    BY Zenon, LabelsAre
  <1>2. DOMAIN rs \subseteq Nat
    <2>1. Len(rs) \in Nat /\ DOMAIN rs = 1..Len(rs)
      BY SeqDomain
    <2> DEFINE n == Len(rs)
    <2>2. n \in Nat
      BY <2>1
    <2> HIDE DEF n
    <2>3. 1..n \subseteq Nat
      BY <2>2
    <2> QED BY <2>1, <2>3 DEF n
  <1>3. \A label : SliceOf(rs, label).count = Cardinality(Rows(label)) /\ Cardinality(Rows(label)) \in Nat
                   /\ SliceOf(rs, label).label = label
    <2> SUFFICES ASSUME NEW label
                 PROVE  SliceOf(rs, label).count = Cardinality(Rows(label)) /\ Cardinality(Rows(label)) \in Nat
                        /\ SliceOf(rs, label).label = label
      OBVIOUS
    <2>1. PartOf(OfLabel(rs, label), rs, Rows(label))
      BY OfLabelPart
    <2>2. Rows(label) \in SUBSET Nat
      BY <1>2
    <2>3. SliceOf(rs, label).count = Len(OfLabel(rs, label)) /\ SliceOf(rs, label).label = label
      BY DEF SliceOf
    <2> HIDE DEF Rows
    <2> DEFINE t == OfLabel(rs, label)
    <2> HIDE DEF t
    <2>4. Cardinality(Rows(label)) = Len(t) /\ Len(t) \in Nat
      BY <2>1, <2>2, PartLen DEF t
    <2> QED BY <2>3, <2>4 DEF t
  <1>4. DOMAIN slices = DOMAIN L /\ \A k \in DOMAIN L : slices[k] = SliceOf(rs, L[k])
    OBVIOUS
  <1>5. IsSeq(slices)
    <2>1. Len(L) \in Nat /\ DOMAIN L = 1..Len(L)
      BY Zenon, <1>1, SeqDomain
    <2>2. slices = [k \in 1..Len(L) |-> slices[k]]
      BY <2>1
    <2> HIDE DEF slices
    <2> QED BY <1>4, <2>1, <2>2, SeqOfMap
  <1>6. S = ByWeight(slices, w)
    BY DEF SortedSlices
  <1>6a. \A k \in DOMAIN slices : w[k] \in Int
    <2> SUFFICES ASSUME NEW k \in DOMAIN slices PROVE w[k] \in Int
      OBVIOUS
    <2>1. w[k] = -slices[k].count
      OBVIOUS
    <2>2. slices[k].count \in Nat
      BY <1>3, <1>4
    <2> QED BY <2>1, <2>2
  <1> HIDE DEF w, slices, S, Rows
  <1> HIDE DEF L
  <1>7. Reordered(S, slices)
    BY <1>5, <1>6, <1>6a, ByWeightIs
  <1>8. IsSeq(S) /\ DOMAIN S = DOMAIN L
    BY <1>4, <1>7 DEF Reordered
  <1>9a. PICK p : /\ \A k \in DOMAIN slices : p[k] \in DOMAIN slices /\ S[k] = slices[p[k]]
                  /\ \A k, l \in DOMAIN slices : p[k] = p[l] => k = l
                  /\ \A i \in DOMAIN slices : \E k \in DOMAIN slices : p[k] = i
    BY <1>7 DEF Reordered
  <1>9. /\ \A k \in DOMAIN L : p[k] \in DOMAIN L /\ S[k] = slices[p[k]]
        /\ \A k, l \in DOMAIN L : p[k] = p[l] => k = l
        /\ \A i \in DOMAIN L : \E k \in DOMAIN L : p[k] = i
    BY <1>4, <1>9a
  <1>10. \A k \in DOMAIN S : S[k].count = Cardinality(Rows(L[p[k]]))
    BY Zenon, <1>3, <1>4, <1>8, <1>9
  <1>11. \A i \in I : \E k \in DOMAIN S : L[p[k]] = rs[i].label
    <2> SUFFICES ASSUME NEW i \in I PROVE \E k \in DOMAIN S : L[p[k]] = rs[i].label
      BY Zenon
    <2>1. rs[i].label \in ToSet(L)
      BY Zenon, <1>1
    <2>2. PICK l \in DOMAIN L : L[l] = rs[i].label
      BY Zenon, <2>1 DEF ToSet
    <2>3. PICK k \in DOMAIN L : p[k] = l
      BY Zenon, <1>9
    <2> QED BY Zenon, <1>8, <2>2, <2>3
  <1> DEFINE place == [i \in I |-> CHOOSE k \in DOMAIN S : L[p[k]] = rs[i].label]
  <1>12. \A i \in I : place[i] \in DOMAIN S /\ L[p[place[i]]] = rs[i].label
    BY Zenon, <1>11
  <1>13. place \in [I -> DOMAIN S]
    BY Zenon, <1>12
  <1> HIDE DEF place
  <1>14. ASSUME NEW k \in DOMAIN S
         PROVE  (\E i \in I : place[i] = k) /\ S[k].count = Cardinality({i \in I : place[i] = k})
    <2>1. L[p[k]] \in ToSet(L)
      BY <1>8, <1>9 DEF ToSet
    <2>2. L[p[k]] # "" /\ \E i \in DOMAIN rs : rs[i].label = L[p[k]]
      BY Zenon, <1>1, <2>1
    <2>3. \A i \in I : place[i] = k <=> rs[i].label = L[p[k]]
      <3> SUFFICES ASSUME NEW i \in I, rs[i].label = L[p[k]] PROVE place[i] = k
        BY Zenon, <1>12
      <3>1. L[p[place[i]]] = L[p[k]] /\ place[i] \in DOMAIN L /\ p[place[i]] \in DOMAIN L /\ p[k] \in DOMAIN L
        BY Zenon, <1>8, <1>9, <1>12
      <3>2. p[place[i]] = p[k]
        BY Zenon, <1>1, <3>1
      <3> QED BY Zenon, <1>8, <1>9, <3>1, <3>2
    <2>4. {i \in I : place[i] = k} = Rows(L[p[k]])
      BY Zenon, <2>2, <2>3 DEF Rows
    <2>5. \E i \in I : place[i] = k
      BY Zenon, <2>2, <2>3
    <2> HIDE DEF I
    <2> QED BY <1>10, <2>4, <2>5
  <1> HIDE DEF I
  <1>15. IsSeq(SortedSlices(rs)) /\ SortedSlices(rs) = S
    BY <1>8 DEF S
  <1> QED BY Zenon, <1>13, <1>14, <1>15 DEF I

LEMMA SubSeqIs ==
    ASSUME NEW s, IsSeq(s), NEW a \in 1..(Len(s) + 1), NEW b \in 0..Len(s), a <= b + 1
    PROVE  /\ IsSeq(SubSeq(s, a, b)) /\ Len(SubSeq(s, a, b)) = b - a + 1 /\ DOMAIN SubSeq(s, a, b) = 1..(b - a + 1)
           /\ \A i \in 1..(b - a + 1) : SubSeq(s, a, b)[i] = s[a + i - 1]
  <1> DEFINE S == ToSet(s)
             u == SubSeq(s, a, b)
  <1>1. s \in Seq(S) /\ Len(s) \in Nat
    BY SeqDomain DEF IsSeq
  <1> HIDE DEF S
  <1>2. u \in Seq(S) /\ Len(u) = b - a + 1
    BY <1>1
  <1>3. \A i \in 1..(b - a + 1) : u[i] = s[a + i - 1]
    BY <1>1
  <1> HIDE DEF u
  <1>4. IsSeq(u) /\ DOMAIN u = 1..(b - a + 1)
    BY <1>2, SeqOfItself
  <1> QED BY <1>2, <1>3, <1>4 DEF u

\* Slices that share out the elements of I: none is empty, and each says how many it has.
Divided(t, I) ==
    /\ IsSeq(t)
    /\ \E place \in [I -> DOMAIN t] :
          \A k \in DOMAIN t :
             (\E i \in I : place[i] = k) /\ t[k].count = Cardinality({i \in I : place[i] = k})

\* The slices after the ones kept, as one.
LEMMA FoldDivides ==
    ASSUME NEW S, NEW I, IsFiniteSet(I), Divided(S, I), MaxPieSlices \in Nat \ {0}, Len(S) > MaxPieSlices
    PROVE  Divided(Fold(S, MaxPieSlices - 1), I)
  <1> DEFINE n == Len(S)
             p == MaxPieSlices
             front == SubSeq(S, 1, p - 1)
             rest == SubSeq(S, p, n)
             counts == [i \in DOMAIN rest |-> rest[i].count]
             other == [label |-> "other", count |-> Total(counts),
                       sum |-> Total([i \in DOMAIN rest |-> rest[i].sum])]
             t == Fold(S, MaxPieSlices - 1)
  <1>1. IsSeq(S) /\ n \in Nat /\ DOMAIN S = 1..n /\ p \in 1..n /\ p < n
    BY SeqDomain DEF Divided
  <1>2a. PICK place \in [I -> DOMAIN S] :
           \A k \in DOMAIN S :
              (\E i \in I : place[i] = k) /\ S[k].count = Cardinality({i \in I : place[i] = k})
    BY <1>1 DEF Divided
  <1>2. /\ place \in [I -> 1..n]
        /\ \A k \in 1..n : (\E i \in I : place[i] = k) /\ S[k].count = Cardinality({i \in I : place[i] = k})
    BY <1>1, <1>2a
  <1>3. t = Append(front, other)
    <2>1. (p - 1) + 1 = p
      BY <1>1
    <2> QED BY <2>1 DEF Fold
  <1>4. IsSeq(front) /\ Len(front) = p - 1 /\ \A i \in 1..(p - 1) : front[i] = S[i]
    <2>1. /\ IsSeq(SubSeq(S, 1, p - 1)) /\ Len(SubSeq(S, 1, p - 1)) = (p - 1) - 1 + 1
          /\ \A i \in 1..((p - 1) - 1 + 1) : SubSeq(S, 1, p - 1)[i] = S[1 + i - 1]
      <3>1. 1 \in 1..(n + 1) /\ p - 1 \in 0..n /\ 1 <= (p - 1) + 1
        BY <1>1
      <3> QED BY <1>1, <3>1, SubSeqIs
    <2>2. (p - 1) - 1 + 1 = p - 1 /\ \A i \in 1..(p - 1) : 1 + i - 1 = i
      BY <1>1
    <2> QED BY <2>1, <2>2
  <1>5. DOMAIN rest = 1..(n - p + 1) /\ \A j \in 1..(n - p + 1) : rest[j] = S[p + j - 1]
    <2>1. p \in 1..(n + 1) /\ n \in 0..n /\ p <= n + 1
      BY <1>1
    <2> QED BY <1>1, <2>1, SubSeqIs
  <1> HIDE DEF front, rest, n, p
  <1>6. other.count = Total(counts)
    OBVIOUS
  <1>7. Total(counts) = Cardinality({i \in I : place[i] >= p})
    <2>1. p \in 1..(n + 1) /\ n - p + 1 \in Nat
      BY <1>1
    <2>2. Len(counts) = n - p + 1
      <3> DEFINE m == n - p + 1
      <3>1. counts = [i \in 1..m |-> rest[i].count] /\ DOMAIN counts = 1..m /\ m \in Nat
        BY <1>5, <2>1
      <3> HIDE DEF m, counts
      <3> QED BY <3>1 DEF m
    <2>3. ASSUME NEW j \in 1..(n - p + 1), NEW k \in 1..n, k = p + j - 1
          PROVE  counts[j] = Cardinality({i \in I : place[i] = k})
      <3>1. counts[j] = rest[j].count /\ rest[j] = S[k]
        BY <1>5, <2>3
      <3> HIDE DEF counts
      <3> QED BY <1>2, <3>1
    <2> HIDE DEF counts
    <2>4. CountsFrom(counts, I, place, p, n)
      BY <2>2, <2>3 DEF CountsFrom
    <2> QED BY <1>1, <1>2, <2>1, <2>4, TotalIsCount
  <1> HIDE DEF other, counts, t
  <1>8. /\ IsSeq(t) /\ DOMAIN t = 1..p /\ t[p] = other /\ \A k \in 1..(p - 1) : t[k] = S[k]
    <2>1. /\ IsSeq(t) /\ DOMAIN t = 1..((p - 1) + 1) /\ t[(p - 1) + 1] = other
          /\ \A k \in DOMAIN front : t[k] = front[k]
      BY <1>3, <1>4, SeqAppend
    <2>2. (p - 1) + 1 = p /\ DOMAIN front = 1..(p - 1)
      BY <1>1, <1>4, SeqDomain
    <2> QED BY <1>4, <2>1, <2>2
  <1> DEFINE to == [i \in I |-> IF place[i] < p THEN place[i] ELSE p]
  <1>9. to \in [I -> 1..p]
    BY <1>1
  <1>10. ASSUME NEW k \in 1..p
         PROVE  (\E i \in I : to[i] = k) /\ t[k].count = Cardinality({i \in I : to[i] = k})
    <2>1. CASE k = p
      <3>1. {i \in I : to[i] = p} = {i \in I : place[i] >= p}
        BY <1>1
      <3>2. \E i \in I : place[i] = p
        BY <1>1, <1>2
      <3>3. \E i \in I : to[i] = p
        BY <1>1, <3>2
      <3> HIDE DEF to
      <3> QED BY <1>6, <1>7, <1>8, <2>1, <3>1, <3>3
    <2>2. CASE k # p
      <3>1. k \in 1..(p - 1) /\ k \in 1..n /\ k < p
        BY <1>1, <2>2
      <3>2. {i \in I : to[i] = k} = {i \in I : place[i] = k}
        BY <1>1, <3>1
      <3> HIDE DEF to
      <3>3. t[k] = S[k]
        BY <1>8, <3>1
      <3> QED BY <1>2, <3>1, <3>2, <3>3
    <2> QED BY <2>1, <2>2
  <1> HIDE DEF to
  <1>11. to \in [I -> DOMAIN t] /\ \A k \in DOMAIN t : k \in 1..p
    BY <1>8, <1>9
  <1>12. Divided(t, I)
    <2>1. \A k \in DOMAIN t : (\E i \in I : to[i] = k) /\ t[k].count = Cardinality({i \in I : to[i] = k})
      BY <1>10, <1>11
    <2> QED BY <1>8, <1>11, <2>1 DEF Divided
  <1> QED BY <1>12 DEF t

HasLabel(rs) == {i \in DOMAIN rs : rs[i].label # ""}

LEMMA PieSlicesAre ==
    ASSUME NEW rs, IsSeq(rs), MaxPieSlices \in Nat \ {0}
    PROVE  IsFiniteSet(HasLabel(rs)) /\ Divided(pieSlices(rs), HasLabel(rs))
  <1> DEFINE S == SortedSlices(rs)
             I == HasLabel(rs)
  <1>1. IsFiniteSet(I)
    <2>1. Len(rs) \in Nat /\ DOMAIN rs = 1..Len(rs)
      BY SeqDomain
    <2>2. IsFiniteSet(1..Len(rs))
      BY <2>1, FS_Interval
    <2>3. I \in SUBSET (1..Len(rs))
      BY Zenon, <2>1 DEF HasLabel
    <2> QED BY <2>2, <2>3, FS_Subset
  <1>2. Divided(S, I)
    BY Zenon, SlicesAre DEF Divided, HasLabel
  <1>3. pieSlices(rs) = IF Len(S) <= MaxPieSlices THEN S ELSE Fold(S, MaxPieSlices - 1)
    BY DEF pieSlices
  <1>4. Len(S) \in Nat
    BY <1>2, SeqDomain DEF Divided
  <1> HIDE DEF S, I
  <1>5. CASE Len(S) <= MaxPieSlices
    BY <1>1, <1>2, <1>3, <1>5 DEF I
  <1>6. CASE Len(S) > MaxPieSlices
    <2>1. Divided(Fold(S, MaxPieSlices - 1), I)
      BY <1>1, <1>2, <1>6, FoldDivides
    <2>2. pieSlices(rs) = Fold(S, MaxPieSlices - 1)
      BY <1>3, <1>4, <1>6
    <2> QED BY <1>1, <2>1, <2>2 DEF I
  <1> QED BY <1>4, <1>5, <1>6

LEMMA PieCountsOnce ==
    ASSUME NEW rs, IsSeq(rs.rows), MaxPieSlices \in Nat \ {0}
    PROVE  /\ Apart(PieWidgetBody(rs).marks)
           /\ Height(PieWidgetBody(rs).marks) = Cardinality(HasLabel(rs.rows))
  <1> DEFINE t == pieSlices(rs.rows)
             I == HasLabel(rs.rows)
             n == Len(t)
             v == [k \in 1..n |-> t[k].count]
             M == {[at |-> <<>>, base |-> Total([k \in 1..(i - 1) |-> t[k].count]), value |-> t[i].count] :
                      i \in DOMAIN t}
  <1>1. PieWidgetBody(rs).marks = M
    BY DEF PieWidgetBody
  <1>2. IsFiniteSet(I) /\ Divided(t, I)
    BY PieSlicesAre
  <1> HIDE DEF t, I
  <1>3. n \in Nat /\ DOMAIN t = 1..n
    BY <1>2, SeqDomain DEF Divided
  <1> HIDE DEF n
  <1>4a. PICK place \in [I -> DOMAIN t] :
           \A k \in DOMAIN t :
              (\E i \in I : place[i] = k) /\ t[k].count = Cardinality({i \in I : place[i] = k})
    BY <1>2, <1>3 DEF Divided
  <1>4. /\ place \in [I -> 1..n]
        /\ \A k \in 1..n : (\E i \in I : place[i] = k) /\ t[k].count = Cardinality({i \in I : place[i] = k})
    BY <1>2, <1>3, <1>4a
  <1>5. \A k \in 1..n : v[k] = t[k].count
    OBVIOUS
  <1> HIDE DEF v
  <1>6. \A k \in 1..n : v[k] \in Nat \ {0} /\ v[k] = Cardinality({i \in I : place[i] = k})
    <2> SUFFICES ASSUME NEW k \in 1..n
                 PROVE  v[k] \in Nat \ {0} /\ v[k] = Cardinality({i \in I : place[i] = k})
      OBVIOUS
    <2> DEFINE of == {i \in I : place[i] = k}
    <2>1. of \in SUBSET I /\ of # {} /\ v[k] = Cardinality(of)
      BY <1>4, <1>5
    <2> HIDE DEF of
    <2>2. IsFiniteSet(of) /\ Cardinality(of) \in Nat /\ Cardinality(of) # 0
      BY <1>2, <2>1, FS_Subset, FS_CardinalityType, FS_EmptySet
    <2> QED BY <2>1, <2>2 DEF of
  <1>7. PICK F : /\ \A k \in 1..n : Total([j \in 1..(k - 1) |-> v[j]]) = F[k] /\ F[k] \in Nat
                 /\ \A k, l \in 1..n : k < l => F[k] + v[k] <= F[l]
    <2>1. \A k \in 1..n : v[k] \in Nat
      BY <1>6
    <2> QED BY <1>3, <2>1, Stack
  <1> DEFINE mark == [k \in 1..n |-> [at |-> <<>>, base |-> F[k], value |-> v[k]]]
  <1>8. \A k \in 1..n : mark[k] = [at |-> <<>>, base |-> F[k], value |-> v[k]]
    OBVIOUS
  <1> HIDE DEF mark
  <1>9. ASSUME NEW k \in 1..n PROVE mark[k].base = F[k] /\ mark[k].value = v[k]
    <2>1. mark[k] = [at |-> <<>>, base |-> F[k], value |-> v[k]]
      BY <1>8
    <2> QED BY <2>1
  <1>10. M = {mark[k] : k \in 1..n}
    <2>1. ASSUME NEW k \in 1..n
          PROVE  [at |-> <<>>, base |-> Total([j \in 1..(k - 1) |-> t[j].count]), value |-> t[k].count] = mark[k]
      <3>1. \A j \in 1..(k - 1) : j \in 1..n
        BY <1>3
      <3>2. [j \in 1..(k - 1) |-> t[j].count] = [j \in 1..(k - 1) |-> v[j]]
        BY <1>5, <3>1
      <3>3. Total([j \in 1..(k - 1) |-> t[j].count]) = F[k]
        BY <1>7, <3>2
      <3> QED BY <1>5, <1>8, <3>3
    <2> QED BY <1>3, <2>1
  <1> HIDE DEF M
  <1>11. ASSUME NEW k \in 1..n, NEW l \in 1..n, k < l PROVE F[k] < F[l]
    <2>1. v[k] \in Nat \ {0} /\ F[k] \in Nat /\ F[l] \in Nat
      BY <1>6, <1>7
    <2>2. F[k] + v[k] <= F[l]
      BY <1>7, <1>11
    <2> QED BY <2>1, <2>2
  <1>12. Apart(M)
    <2> SUFFICES ASSUME NEW k \in 1..n, NEW l \in 1..n, mark[k] # mark[l]
                 PROVE  \/ mark[k].base + mark[k].value <= mark[l].base
                        \/ mark[l].base + mark[l].value <= mark[k].base
      BY <1>10 DEF Apart
    <2>1. k < l \/ l < k
      BY <1>3
    <2> QED BY <1>7, <1>9, <2>1
  <1>13. \A k, l \in 1..n : mark[k] = mark[l] => k = l
    <2> SUFFICES ASSUME NEW k \in 1..n, NEW l \in 1..n, k # l PROVE mark[k] # mark[l]
      OBVIOUS
    <2>1. k < l \/ l < k
      BY <1>3
    <2>2. F[k] \in Nat /\ F[l] \in Nat
      BY <1>7
    <2>3. F[k] # F[l]
      BY <1>11, <2>1, <2>2
    <2> QED BY <1>9, <2>3
  <1> DEFINE own == [i \in I |-> mark[place[i]]]
  <1>13a. \A i \in I : own[i] = mark[place[i]] /\ place[i] \in 1..n
    BY <1>4
  <1>14. own \in [I -> M]
    <2>1. \A i \in I : own[i] \in M
      BY <1>10, <1>13a
    <2> QED BY <2>1
  <1> HIDE DEF own
  <1>15. \A m \in M : m.value # 0 /\ m.value = Cardinality({i \in I : own[i] = m})
    <2> SUFFICES ASSUME NEW k \in 1..n
                 PROVE  mark[k].value # 0 /\ mark[k].value = Cardinality({i \in I : own[i] = mark[k]})
      BY <1>10
    <2>1. {i \in I : own[i] = mark[k]} = {i \in I : place[i] = k}
      BY <1>13, <1>13a
    <2> QED BY <1>6, <1>9, <2>1
  <1>16. Height(M) = Cardinality(I)
    BY <1>2, <1>14, <1>15, HeightIsAll
  <1> QED BY <1>1, <1>12, <1>16 DEF I

LEMMA ValuesAre ==
    ASSUME NEW rows, NEW I \in SUBSET Nat, NEW t, PartOf(t, rows, I), \A i \in I : rows[i].value \in Nat
    PROVE  /\ IsFiniteSet(I) /\ Len(ValuesOf(t)) = Cardinality(I) /\ Len(ValuesOf(t)) \in Nat
           /\ \A k \in 1..Len(ValuesOf(t)) : ValuesOf(t)[k] \in Nat
  <1> DEFINE S == {r \in ToSet(t) : r.value # NoNumber}
             numbers == Sift(t, S)
             v == [i \in DOMAIN numbers |-> numbers[i].value]
  <1>1. ValuesOf(t) = v
    BY DEF ValuesOf
  <1>2. ToSet(t) = {rows[i] : i \in I}
    <2>1. \A x : x \in ToSet(t) <=> \E i \in I : x = rows[i]
      BY PartLen
    <2> QED BY <2>1
  <1>3. {i \in I : rows[i] \in S} = I
    BY <1>2 DEF NoNumber
  <1> HIDE DEF S
  <1>4. PartOf(numbers, rows, I)
    BY <1>3, PartSift
  <1> HIDE DEF numbers
  <1>5. /\ IsFiniteSet(I) /\ Cardinality(I) = Len(numbers) /\ Len(numbers) \in Nat /\ DOMAIN numbers = 1..Len(numbers)
        /\ ToSet(numbers) = {rows[i] : i \in I}
    BY <1>4, PartLen
  <1>6. \A k \in DOMAIN numbers : numbers[k] \in {rows[i] : i \in I}
    BY <1>5 DEF ToSet
  <1>7. \A k \in DOMAIN numbers : v[k] \in Nat
    BY <1>6
  <1>8. DOMAIN v = DOMAIN numbers
    OBVIOUS
  <1> DEFINE n == Len(numbers)
  <1>9. Len(v) = n
    <2>1. v = [k \in 1..n |-> numbers[k].value] /\ n \in Nat /\ DOMAIN v = 1..n
      BY <1>5
    <2> HIDE DEF v, n
    <2> QED BY <2>1
  <1> HIDE DEF v, n
  <1> QED BY <1>1, <1>5, <1>7, <1>8, <1>9 DEF n

LEMMA TotalNat ==
    ASSUME NEW v, NEW n \in Nat, Len(v) = n, \A k \in 1..n : v[k] \in Nat
    PROVE  Total(v) \in Nat
  <1>1. PICK f : f[0] = 0 /\ (\A i \in 1..n : f[i] = f[i - 1] + v[i]) /\ Total(v) = f[n]
    BY TotalRun
  <1> DEFINE T == {k \in 0..n : f[k] \in Nat}
  <1>2. 0 \in T
    BY <1>1
  <1>3. ASSUME NEW k \in 0..(n - 1), k \in T PROVE k + 1 \in T
    <2>1. k + 1 \in 1..n /\ (k + 1) - 1 = k /\ k + 1 \in 0..n
      OBVIOUS
    <2>2. f[k + 1] = f[k] + v[k + 1] /\ v[k + 1] \in Nat
      BY <1>1, <2>1
    <2> QED BY <1>3, <2>1, <2>2
  <1>4. \A k \in 0..n : k \in T
    <2> HIDE DEF T
    <2> QED BY <1>2, <1>3, UpTo
  <1> QED BY <1>1, <1>4

LEMMA AggregateIs ==
    ASSUME NEW v, Len(v) \in Nat \ {0}, \A k \in 1..Len(v) : v[k] \in Nat, NEW kind \in ChartAggregates
    PROVE  aggregate(v, kind) \in Nat /\ (kind = "count" => aggregate(v, kind) = Len(v))
  <1>1. Total(v) \in Nat
    BY TotalNat
  <1>2. v # <<>>
    OBVIOUS
  <1>3. CASE kind = "count"
    BY <1>3 DEF aggregate
  <1>4. CASE kind = "sum"
    BY <1>1, <1>4 DEF aggregate
  <1>5. CASE kind = "avg"
    <2>1. aggregate(v, kind) = Total(v) \div Len(v)
      BY <1>2, <1>5 DEF aggregate
    <2> DEFINE n == Len(v)
               s == Total(v)
    <2>2. s \in Nat /\ n \in Nat \ {0}
      BY <1>1
    <2> HIDE DEF n, s
    <2>3. s \div n \in Nat
      BY <2>2
    <2> QED BY <1>5, <2>1, <2>3 DEF n, s
  <1> QED BY <1>3, <1>4, <1>5 DEF ChartAggregates

(* A point for each bucket of the records A, with as many of them as are in it. *)
PointsOf(P, bucketOf, A, kind) ==
    /\ IsSeq(P)
    /\ \A k, l \in DOMAIN P : P[k].bucket = P[l].bucket => k = l
    /\ \A i \in A : \E k \in DOMAIN P : P[k].bucket = bucketOf[i]
    /\ \A k \in DOMAIN P :
          /\ P[k].value \in Nat
          /\ \E i \in A : P[k].bucket = bucketOf[i]
          /\ kind = "count" => P[k].value = Cardinality({i \in A : bucketOf[i] = P[k].bucket})

BucketsIn(rows, g) == [i \in DOMAIN rows |-> Bucket(rows[i].date, g)]
Dated(rows) == {i \in DOMAIN rows : rows[i].date # "" /\ rows[i].value # NoNumber}
Readable(rows, g) ==
    /\ IsSeq(rows) /\ DOMAIN rows \in SUBSET Nat
    /\ \A i \in DOMAIN rows : rows[i].value \in Nat \union {NoNumber}
    /\ \A i \in DOMAIN rows : rows[i].date # "" => Bucket(rows[i].date, g) # ""

LEMMA PointsAre ==
    ASSUME NEW rows, NEW g, Readable(rows, g), NEW I \in SUBSET DOMAIN rows, NEW t, PartOf(t, rows, I),
           NEW kind \in ChartAggregates
    PROVE  PointsOf(xyPoints(t, kind, g), BucketsIn(rows, g), Dated(rows) \intersect I, kind)
  <1> DEFINE b == BucketsIn(rows, g)
             A == Dated(rows) \intersect I
             S == {r \in ToSet(t) : r.date # "" /\ r.value # NoNumber}
             able == Sift(t, S)
             ks == [i \in DOMAIN able |-> Bucket(able[i].date, g)]
             keys == Distinct(ks)
             of(k) == Sift(able, {r \in ToSet(able) : Bucket(r.date, g) = keys[k]})
             P == [k \in DOMAIN keys |-> [bucket |-> keys[k], value |-> aggregate(ValuesOf(of(k)), kind)]]
  <1>1. xyPoints(t, kind, g) = P
    BY DEF xyPoints
  <1>2. I \in SUBSET Nat /\ A \in SUBSET Nat /\ A \in SUBSET DOMAIN rows
    BY Zenon DEF Readable
  <1>3. PartOf(able, rows, A)
    <2>1. ToSet(t) = {rows[i] : i \in I}
      BY <1>2, PartLen
    <2>2. {i \in I : rows[i] \in S} = A
      BY Zenon, <2>1 DEF Dated
    <2> HIDE DEF S, A
    <2>3. PartOf(able, rows, {i \in I : rows[i] \in S})
      BY <1>2, PartSift
    <2> QED BY <2>2, <2>3
  <1>4. \A i \in A : rows[i].value \in Nat /\ b[i] = Bucket(rows[i].date, g) /\ b[i] # ""
    BY Zenon DEF Dated, Readable, BucketsIn, NoNumber
  <1> HIDE DEF able, A, b
  <1>5. /\ IsSeq(able) /\ Len(able) \in Nat /\ DOMAIN able = 1..Len(able)
        /\ ToSet(able) = {rows[i] : i \in A}
    <2>1. IsSeq(able)
      BY <1>3 DEF PartOf
    <2> QED BY <1>2, <1>3, <2>1, PartLen
  <1>6. IsSeq(ks)
    <2>1. DOMAIN ks = 1..Len(able) /\ ks = [i \in 1..Len(able) |-> ks[i]]
      BY <1>5
    <2> HIDE DEF ks
    <2> QED BY <1>5, <2>1, SeqOfMap
  <1>7. ToSet(ks) = {b[i] : i \in A}
    <2>1. ToSet(ks) = {ks[k] : k \in DOMAIN able}
      BY DEF ToSet
    <2>2. ASSUME NEW k \in DOMAIN able PROVE ks[k] \in {b[i] : i \in A}
      <3>1. able[k] \in {rows[i] : i \in A}
        BY <1>5 DEF ToSet
      <3> QED BY Zenon, <1>4, <3>1
    <2>3. ASSUME NEW i \in A PROVE \E k \in DOMAIN able : ks[k] = b[i]
      <3>1. rows[i] \in ToSet(able)
        BY <1>5
      <3>2. PICK k \in DOMAIN able : able[k] = rows[i]
        BY <3>1 DEF ToSet
      <3>3. ks[k] = b[i]
        BY Zenon, <1>4, <3>2
      <3> HIDE DEF ks
      <3> QED BY <3>3
    <2> HIDE DEF ks
    <2> QED BY <2>1, <2>2, <2>3
  <1> HIDE DEF ks
  <1>8. /\ IsSeq(keys) /\ ToSet(keys) = {b[i] : i \in A}
        /\ \A k, l \in DOMAIN keys : keys[k] = keys[l] => k = l
    <2>1. "" \notin {b[i] : i \in A}
      BY Zenon, <1>4
    <2> QED BY Zenon, <1>6, <1>7, <2>1, DistinctIs
  <1> HIDE DEF keys
  <1>9. \A k \in DOMAIN keys : \E i \in A : keys[k] = b[i]
    BY <1>8 DEF ToSet
  <1>10. \A i \in A : \E k \in DOMAIN keys : keys[k] = b[i]
    <2> SUFFICES ASSUME NEW i \in A PROVE \E k \in DOMAIN keys : keys[k] = b[i]
      OBVIOUS
    <2>1. b[i] \in ToSet(keys)
      BY <1>8
    <2> QED BY <2>1 DEF ToSet
  <1>11. ASSUME NEW k \in DOMAIN keys
         PROVE  /\ aggregate(ValuesOf(of(k)), kind) \in Nat
                /\ kind = "count" => aggregate(ValuesOf(of(k)), kind) = Cardinality({i \in A : b[i] = keys[k]})
    <2> DEFINE R == {r \in ToSet(able) : Bucket(r.date, g) = keys[k]}
               C == {i \in A : b[i] = keys[k]}
               v == ValuesOf(of(k))
    <2>1. {i \in A : rows[i] \in R} = C
      BY Zenon, <1>4, <1>5
    <2>2. of(k) = Sift(able, R)
      OBVIOUS
    <2>3. C \in SUBSET A /\ C # {} /\ C \in SUBSET Nat
      BY <1>2, <1>9
    <2> HIDE DEF R, C, of
    <2>4. PartOf(of(k), rows, C)
      BY <1>2, <1>3, <2>1, <2>2, PartSift
    <2>5. \A i \in C : rows[i].value \in Nat
      BY Zenon, <1>4, <2>3
    <2>6. /\ IsFiniteSet(C) /\ Len(v) = Cardinality(C) /\ Len(v) \in Nat
          /\ \A l \in 1..Len(v) : v[l] \in Nat
      BY <2>3, <2>4, <2>5, ValuesAre
    <2> HIDE DEF v
    <2>7. Len(v) # 0
      BY <2>3, <2>6, FS_EmptySet
    <2>8. aggregate(v, kind) \in Nat /\ (kind = "count" => aggregate(v, kind) = Len(v))
      BY <2>6, <2>7, AggregateIs
    <2> QED BY <2>6, <2>8 DEF v, C
  <1>12. /\ DOMAIN P = DOMAIN keys
         /\ \A k \in DOMAIN keys : P[k].bucket = keys[k] /\ P[k].value = aggregate(ValuesOf(of(k)), kind)
    OBVIOUS
  <1>13. IsSeq(P)
    <2>1. Len(keys) \in Nat /\ DOMAIN keys = 1..Len(keys)
      BY <1>8, SeqDomain
    <2>2. P = [k \in 1..Len(keys) |-> P[k]]
      BY <2>1
    <2> HIDE DEF P
    <2> QED BY <1>12, <2>1, <2>2, SeqOfMap
  <1> HIDE DEF P, of
  <1>14. ASSUME NEW k \in DOMAIN P
         PROVE  /\ P[k].value \in Nat
                /\ \E i \in A : P[k].bucket = b[i]
                /\ kind = "count" => P[k].value = Cardinality({i \in A : b[i] = P[k].bucket})
    <2>1. k \in DOMAIN keys /\ P[k].bucket = keys[k] /\ P[k].value = aggregate(ValuesOf(of(k)), kind)
      BY <1>12
    <2>2. {i \in A : b[i] = P[k].bucket} = {i \in A : b[i] = keys[k]}
      BY <2>1
    <2>3. \E i \in A : P[k].bucket = b[i]
      BY <1>9, <2>1
    <2> QED BY <1>11, <2>1, <2>2, <2>3
  <1>15. \A k, l \in DOMAIN P : P[k].bucket = P[l].bucket => k = l
    BY <1>8, <1>12
  <1>16. \A i \in A : \E k \in DOMAIN P : P[k].bucket = b[i]
    BY <1>10, <1>12
  <1>17. PointsOf(P, b, A, kind)
    BY <1>13, <1>14, <1>15, <1>16 DEF PointsOf
  <1> QED BY <1>1, <1>17 DEF A, b

(* The lines of a chart, which share out the records C, each with its points. *)
SeriesOf(S, bucketOf, C, kind) ==
    \E n \in Nat :
       /\ DOMAIN S = 1..n
       /\ \E place \in [C -> 1..n] :
             \A s \in 1..n : PointsOf(S[s].points, bucketOf, {i \in C : place[i] = s}, kind)

Charted(rows, config) == {i \in Dated(rows) : "series" \in config.picks => rows[i].label # ""}

LEMMA OneIs == ASSUME NEW e, NEW s, s = <<e>> PROVE DOMAIN s = 1..1 /\ s[1] = e
  OBVIOUS

LEMMA SeriesAre ==
    ASSUME NEW rows, NEW config, config.aggregate \in ChartAggregates, Readable(rows, config.bucket)
    PROVE  SeriesOf(xySeries(rows, config), BucketsIn(rows, config.bucket), Charted(rows, config), config.aggregate)
  <1> DEFINE g == config.bucket
             kind == config.aggregate
             b == BucketsIn(rows, config.bucket)
             C == Charted(rows, config)
             S == xySeries(rows, config)
  <1>1. IsSeq(rows) /\ DOMAIN rows \in SUBSET Nat
    BY Zenon DEF Readable
  <1>2. CASE "series" \notin config.picks
    <2> DEFINE P == xyPoints(rows, kind, g)
               place == [i \in C |-> 1]
    <2>1. S = <<[label |-> "", points |-> P]>>
      BY Zenon, <1>2 DEF xySeries
    <2>2. DOMAIN S = 1..1 /\ S[1].points = P
      <3> DEFINE e == [label |-> "", points |-> P]
      <3>1. e.points = P /\ S = <<e>>
        BY Zenon, <2>1
      <3> HIDE DEF P, S, e
      <3> QED BY <3>1, OneIs
    <2>3. C = Dated(rows) /\ Dated(rows) \intersect DOMAIN rows = Dated(rows)
      BY Zenon, <1>2 DEF Charted, Dated
    <2>4. {i \in C : place[i] = 1} = C /\ place \in [C -> 1..1]
      OBVIOUS
    <2>5. PointsOf(P, b, C, kind)
      <3>1. PartOf(rows, rows, DOMAIN rows)
        BY <1>1, WholePart
      <3>2. PointsOf(xyPoints(rows, kind, g), b, Dated(rows) \intersect DOMAIN rows, kind)
        BY <3>1, PointsAre
      <3> QED BY <2>3, <3>2
    <2> HIDE DEF P, place, C, S, b, kind
    <2>6. \A s \in 1..1 : PointsOf(S[s].points, b, {i \in C : place[i] = s}, kind)
      BY <2>2, <2>4, <2>5
    <2>7. SeriesOf(S, b, C, kind)
      BY <2>2, <2>4, <2>6 DEF SeriesOf
    <2> QED BY <2>7 DEF S, b, C, kind
  <1>3. CASE "series" \in config.picks
    <2> DEFINE L == Labels(rows)
               n == Len(L)
               P(k) == xyPoints(OfLabel(rows, L[k]), kind, g)
               I(k) == {i \in DOMAIN rows : rows[i].label = L[k]}
    <2>1. S = [k \in DOMAIN L |-> [label |-> L[k], points |-> P(k)]]
      BY Zenon, <1>3 DEF xySeries
    <2>2. /\ IsSeq(L) /\ ToSet(L) = {rows[i].label : i \in DOMAIN rows} \ {""}
          /\ \A k, l \in DOMAIN L : L[k] = L[l] => k = l
      BY Zenon, <1>1, LabelsAre
    <2>3. n \in Nat /\ DOMAIN L = 1..n
      BY Zenon, <2>2, SeqDomain
    <2>4. DOMAIN S = 1..n /\ \A k \in 1..n : S[k].points = P(k)
      BY <2>1, <2>3
    <2>5. \A k \in 1..n : PointsOf(P(k), b, Dated(rows) \intersect I(k), kind)
      <3> SUFFICES ASSUME NEW k \in 1..n PROVE PointsOf(P(k), b, Dated(rows) \intersect I(k), kind)
        OBVIOUS
      <3>1. PartOf(OfLabel(rows, L[k]), rows, I(k)) /\ I(k) \in SUBSET DOMAIN rows
        BY <1>1, OfLabelPart
      <3> HIDE DEF I, L
      <3> QED BY <3>1, PointsAre
    <2>6. \A i \in C : \E k \in 1..n : L[k] = rows[i].label
      <3> SUFFICES ASSUME NEW i \in C PROVE \E k \in 1..n : L[k] = rows[i].label
        OBVIOUS
      <3>1. i \in DOMAIN rows /\ rows[i].label # ""
        BY Zenon, <1>3 DEF Charted, Dated
      <3>2. rows[i].label \in ToSet(L)
        BY Zenon, <2>2, <3>1
      <3> HIDE DEF L, n
      <3> QED BY <2>3, <3>2 DEF ToSet
    <2> DEFINE place == [i \in C |-> CHOOSE k \in 1..n : L[k] = rows[i].label]
    <2>7. \A i \in C : place[i] \in 1..n /\ L[place[i]] = rows[i].label
      <3> HIDE DEF L, n, C
      <3> QED BY <2>6
    <2>8. place \in [C -> 1..n]
      BY <2>7
    <2>9. ASSUME NEW s \in 1..n PROVE {i \in C : place[i] = s} = Dated(rows) \intersect I(s)
      <3>1. L[s] \in ToSet(L)
        BY <2>3 DEF ToSet
      <3>2. L[s] # ""
        BY Zenon, <2>2, <3>1
      <3>3. \A i \in C : i \in Dated(rows) /\ i \in DOMAIN rows
        BY Zenon DEF Charted, Dated
      <3>4. \A i \in Dated(rows) \intersect I(s) : i \in C
        BY Zenon, <3>2 DEF Charted, Dated
      <3> HIDE DEF place, L, n, C
      <3>5. \A i \in C : place[i] = s <=> rows[i].label = L[s]
        BY Zenon, <2>2, <2>3, <2>7
      <3> QED BY <3>3, <3>4, <3>5
    <2> HIDE DEF place, L, n, C, S, P, I, b, kind
    <2>10. \A s \in 1..n : PointsOf(S[s].points, b, {i \in C : place[i] = s}, kind)
      BY <2>4, <2>5, <2>9
    <2>11. SeriesOf(S, b, C, kind)
      BY <2>3, <2>4, <2>8, <2>10 DEF SeriesOf
    <2> QED BY <2>11 DEF S, b, C, kind
  <1> QED BY <1>2, <1>3

LEMMA ValueAtIs ==
    ASSUME NEW P, NEW bucketOf, NEW A, NEW kind, PointsOf(P, bucketOf, A, kind), NEW x
    PROVE  /\ ValueAt(P, x) \in Nat
           /\ kind = "count" => ValueAt(P, x) = Cardinality({i \in A : bucketOf[i] = x})
  <1> DEFINE S == {p \in ToSet(P) : p.bucket = x}
             of == Sift(P, S)
             J == {k \in DOMAIN P : P[k].bucket = x}
  <1>1. ValueAt(P, x) = IF of = <<>> THEN 0 ELSE of[1].value
    BY DEF ValueAt
  <1>2. IsSeq(P) /\ DOMAIN P \in SUBSET Nat /\ J \in SUBSET Nat
    <2>1. IsSeq(P)
      BY DEF PointsOf
    <2>2. Len(P) \in Nat /\ DOMAIN P = 1..Len(P)
      BY <2>1, SeqDomain
    <2> DEFINE n == Len(P)
    <2>3. n \in Nat
      BY <2>2
    <2> HIDE DEF n
    <2>4. 1..n \subseteq Nat
      BY <2>3
    <2> QED BY <2>1, <2>2, <2>4 DEF n
  <1>3. PartOf(of, P, J)
    <2>1. {k \in DOMAIN P : P[k] \in S} = J
      BY DEF ToSet
    <2> HIDE DEF S, J
    <2> QED BY <1>2, <2>1, SiftPart
  <1> HIDE DEF of, S
  <1>4. IsFiniteSet(J) /\ Cardinality(J) = Len(of) /\ Len(of) \in Nat /\ DOMAIN of = 1..Len(of)
    <2> HIDE DEF J
    <2> QED BY <1>2, <1>3, PartLen
  <1>5. IsSeq(of)
    BY <1>3 DEF PartOf
  <1>6. CASE J = {}
    <2>1. Len(of) = 0
      BY <1>4, <1>6, FS_EmptySet
    <2>2. of = <<>>
      BY <1>5, <2>1 DEF IsSeq
    <2>3. {i \in A : bucketOf[i] = x} = {}
      BY <1>6 DEF PointsOf
    <2>4. Cardinality({i \in A : bucketOf[i] = x}) = 0
      BY <2>3, FS_EmptySet
    <2> QED BY <1>1, <2>2, <2>4
  <1>7. CASE J # {}
    <2>1. PICK k \in DOMAIN P : P[k].bucket = x
      BY <1>7
    <2>2. Len(of) # 0
      <3> HIDE DEF J
      <3> QED BY <1>4, <1>7, FS_EmptySet
    <2>3. 1 \in DOMAIN of /\ of # <<>>
      BY <1>4, <2>2
    <2>4. PICK l \in J : of[1] = P[l]
      <3> HIDE DEF J
      <3> QED BY <1>3, <2>3 DEF PartOf
    <2>5. l = k
      BY <2>1 DEF PointsOf
    <2>6. ValueAt(P, x) = P[k].value
      BY <1>1, <2>3, <2>4, <2>5
    <2>7. /\ P[k].value \in Nat
          /\ kind = "count" => P[k].value = Cardinality({i \in A : bucketOf[i] = P[k].bucket})
      BY DEF PointsOf
    <2>8. {i \in A : bucketOf[i] = P[k].bucket} = {i \in A : bucketOf[i] = x}
      BY <2>1
    <2> QED BY <2>6, <2>7, <2>8
  <1> QED BY <1>6, <1>7

LEMMA BarsCountOnce ==
    ASSUME NEW S, NEW bucketOf, NEW C, IsFiniteSet(C), NEW kind, SeriesOf(S, bucketOf, C, kind), NEW mode
    PROVE  /\ Apart(BarChart(S, mode))
           /\ kind = "count" => Height(BarChart(S, mode)) = Cardinality(C)
  <1> DEFINE B == BucketsOf(S)
             V(x, s) == ValueAt(S[s].points, x)
             F(x, s) == Total([k \in 1..(s - 1) |-> ValueAt(S[k].points, x)])
             bar(x, s) == IF mode = "stacked" THEN [at |-> <<x>>, base |-> F(x, s), value |-> V(x, s)]
                          ELSE [at |-> <<x, s>>, base |-> 0, value |-> V(x, s)]
             M == BarChart(S, mode)
  <1>1. PICK n \in Nat :
           /\ DOMAIN S = 1..n
           /\ \E place \in [C -> 1..n] :
                 \A s \in 1..n : PointsOf(S[s].points, bucketOf, {i \in C : place[i] = s}, kind)
    BY DEF SeriesOf
  <1>2. PICK place \in [C -> 1..n] :
           \A s \in 1..n : PointsOf(S[s].points, bucketOf, {i \in C : place[i] = s}, kind)
    BY <1>1
  <1>3. M = {m \in {bar(x, s) : x \in B, s \in 1..n} : m.value # 0}
    BY <1>1 DEF BarChart
  <1>4. ASSUME NEW x, NEW s \in 1..n
        PROVE  /\ V(x, s) \in Nat
               /\ kind = "count" => V(x, s) = Cardinality({i \in C : place[i] = s /\ bucketOf[i] = x})
    <2> DEFINE A == {i \in C : place[i] = s}
    <2>1. PointsOf(S[s].points, bucketOf, A, kind)
      BY <1>2
    <2>2. {i \in A : bucketOf[i] = x} = {i \in C : place[i] = s /\ bucketOf[i] = x}
      OBVIOUS
    <2> HIDE DEF A
    <2>3. /\ V(x, s) \in Nat
          /\ kind = "count" => V(x, s) = Cardinality({i \in A : bucketOf[i] = x})
      BY <2>1, ValueAtIs
    <2> QED BY <2>2, <2>3
  <1>5. \A i \in C : bucketOf[i] \in B
    <2> SUFFICES ASSUME NEW i \in C PROVE bucketOf[i] \in B
      OBVIOUS
    <2> DEFINE s == place[i]
               A == {j \in C : place[j] = s}
               P == S[s].points
    <2>1. s \in 1..n /\ i \in A
      OBVIOUS
    <2>2. PointsOf(P, bucketOf, A, kind)
      BY <1>2, <2>1
    <2> HIDE DEF A, s
    <2>3. PICK k \in DOMAIN P : P[k].bucket = bucketOf[i]
      BY <2>1, <2>2 DEF PointsOf
    <2>4. bucketOf[i] \in {p.bucket : p \in ToSet(P)}
      BY <2>3 DEF ToSet
    <2> QED BY <1>1, <2>1, <2>4 DEF BucketsOf
  <1> HIDE DEF M, B
  <1>6. ASSUME NEW x
        PROVE  /\ \A s \in 1..n : F(x, s) \in Nat
               /\ \A s, t \in 1..n : s < t => F(x, s) + V(x, s) <= F(x, t)
    <2> DEFINE v == [k \in 1..n |-> V(x, k)]
    <2>1. \A k \in 1..n : v[k] = V(x, k) /\ v[k] \in Nat
      BY <1>4
    <2>2. ASSUME NEW s \in 1..n PROVE F(x, s) = Total([k \in 1..(s - 1) |-> v[k]])
      <3>1. \A k \in 1..(s - 1) : k \in 1..n
        OBVIOUS
      <3>2. [k \in 1..(s - 1) |-> V(x, k)] = [k \in 1..(s - 1) |-> v[k]]
        BY <2>1, <3>1
      <3>3. F(x, s) = Total([k \in 1..(s - 1) |-> V(x, k)])
        OBVIOUS
      <3> HIDE DEF F, V, v
      <3> QED BY <3>2, <3>3
    <2> HIDE DEF v, F, V
    <2>3. PICK f : /\ \A k \in 1..n : Total([j \in 1..(k - 1) |-> v[j]]) = f[k] /\ f[k] \in Nat
                   /\ \A k, l \in 1..n : k < l => f[k] + v[k] <= f[l]
      <3>1. \A k \in 1..n : v[k] \in Nat
        BY <2>1
      <3> QED BY <3>1, Stack
    <2>4. \A s \in 1..n : F(x, s) = f[s] /\ F(x, s) \in Nat
      BY <2>2, <2>3
    <2> QED BY <2>1, <2>3, <2>4
  <1> HIDE DEF V, F
  <1>7. \A x, s : bar(x, s).value = V(x, s)
    OBVIOUS
  <1>8. ASSUME NEW x, NEW s \in 1..n, NEW y, NEW t \in 1..n, bar(x, s).at = bar(y, t).at
        PROVE  \/ x = y /\ s = t
               \/ bar(x, s).base + bar(x, s).value <= bar(y, t).base
               \/ bar(y, t).base + bar(y, t).value <= bar(x, s).base
    <2>1. CASE mode = "stacked"
      <3>1. bar(x, s) = [at |-> <<x>>, base |-> F(x, s), value |-> V(x, s)]
            /\ bar(y, t) = [at |-> <<y>>, base |-> F(y, t), value |-> V(y, t)]
        BY <2>1
      <3>2. /\ bar(x, s).at = <<x>> /\ bar(x, s).base = F(x, s) /\ bar(x, s).value = V(x, s)
            /\ bar(y, t).at = <<y>> /\ bar(y, t).base = F(y, t) /\ bar(y, t).value = V(y, t)
        BY <3>1
      <3>3. x = y
        BY <1>8, <3>2
      <3>4. s < t \/ t < s \/ s = t
        OBVIOUS
      <3> HIDE DEF bar
      <3>5. CASE s < t
        <4>1. F(x, s) + V(x, s) <= F(x, t)
          BY <1>6, <3>5
        <4> QED BY <3>2, <3>3, <4>1
      <3>6. CASE t < s
        <4>1. F(y, t) + V(y, t) <= F(y, s)
          BY <1>6, <3>6
        <4> QED BY <3>2, <3>3, <4>1
      <3> QED BY <3>3, <3>4, <3>5, <3>6
    <2>2. CASE mode # "stacked"
      <3>1. bar(x, s).at = <<x, s>> /\ bar(y, t).at = <<y, t>>
        BY <2>2
      <3>2. <<x, s>> = <<y, t>>
        BY <1>8, <3>1
      <3> HIDE DEF bar
      <3> QED BY <3>2
    <2> QED BY <2>1, <2>2
  <1>9. ASSUME NEW x, NEW s \in 1..n, NEW y, NEW t \in 1..n, bar(x, s) = bar(y, t), V(x, s) # 0
        PROVE  x = y /\ s = t
    <2>1. bar(x, s).base \in Nat /\ bar(x, s).value \in Nat \ {0}
      <3>1. V(x, s) \in Nat \ {0} /\ F(x, s) \in Nat
        BY <1>4, <1>6, <1>9
      <3> QED BY <3>1
    <2>2. /\ bar(x, s).at = bar(y, t).at /\ bar(x, s).base = bar(y, t).base /\ bar(x, s).value = bar(y, t).value
      BY <1>9
    <2> DEFINE p == bar(x, s)
               q == bar(y, t)
    <2>3. \/ x = y /\ s = t
          \/ p.base + p.value <= q.base
          \/ q.base + q.value <= p.base
      BY <1>8, <2>2
    <2> HIDE DEF bar
    <2> QED BY <2>1, <2>2, <2>3
  <1> HIDE DEF bar
  <1>10. Apart(M)
    <2> SUFFICES ASSUME NEW p \in M, NEW q \in M, p # q, p.at = q.at
                 PROVE  p.base + p.value <= q.base \/ q.base + q.value <= p.base
      BY DEF Apart
    <2>1. PICK x \in B, s \in 1..n : p = bar(x, s)
      BY <1>3
    <2>2. PICK y \in B, t \in 1..n : q = bar(y, t)
      BY <1>3
    <2> QED BY <1>8, <2>1, <2>2
  <1> DEFINE own == [i \in C |-> bar(bucketOf[i], place[i])]
             Cell(x, s) == {i \in C : place[i] = s /\ bucketOf[i] = x}
  <1>11. ASSUME kind = "count" PROVE Height(M) = Cardinality(C)
    <2>1. \A x, s : IsFiniteSet(Cell(x, s)) /\ Cardinality(Cell(x, s)) \in Nat
      <3> SUFFICES ASSUME NEW x, NEW s PROVE IsFiniteSet(Cell(x, s)) /\ Cardinality(Cell(x, s)) \in Nat
        OBVIOUS
      <3>1. Cell(x, s) \in SUBSET C
        OBVIOUS
      <3> HIDE DEF Cell
      <3> QED BY <3>1, FS_Subset, FS_CardinalityType
    <2>2. \A i \in C : own[i] = bar(bucketOf[i], place[i]) /\ place[i] \in 1..n /\ i \in Cell(bucketOf[i], place[i])
      OBVIOUS
    <2>3. \A x : \A s \in 1..n : V(x, s) = Cardinality(Cell(x, s))
      BY <1>4, <1>11
    <2>4. \A i \in C : V(bucketOf[i], place[i]) # 0
      <3> SUFFICES ASSUME NEW i \in C PROVE V(bucketOf[i], place[i]) # 0
        OBVIOUS
      <3> DEFINE c == Cell(bucketOf[i], place[i])
      <3>1. c # {} /\ IsFiniteSet(c) /\ V(bucketOf[i], place[i]) = Cardinality(c)
        <4>1. i \in c
          OBVIOUS
        <4> HIDE DEF Cell
        <4> QED BY <2>1, <2>2, <2>3, <4>1
      <3> HIDE DEF c
      <3> QED BY <3>1, FS_EmptySet
    <2>5. own \in [C -> M]
      <3>1. \A i \in C : own[i] \in M
        <4> HIDE DEF own, Cell
        <4> QED BY <1>3, <1>5, <1>7, <2>2, <2>4
      <3> QED BY <3>1
    <2>6. ASSUME NEW p \in M PROVE p.value # 0 /\ p.value = Cardinality({i \in C : own[i] = p})
      <3>1. PICK x \in B, s \in 1..n : p = bar(x, s) /\ p.value # 0
        BY <1>3
      <3>2. V(x, s) # 0 /\ p.value = Cardinality(Cell(x, s))
        BY <1>7, <2>3, <3>1
      <3>3. ASSUME NEW i \in C PROVE own[i] = p <=> place[i] = s /\ bucketOf[i] = x
        <4>1. own[i] = bar(bucketOf[i], place[i]) /\ place[i] \in 1..n
          BY <2>2
        <4> HIDE DEF own, Cell
        <4>2. ASSUME own[i] = p PROVE place[i] = s /\ bucketOf[i] = x
          <5>1. V(bucketOf[i], place[i]) # 0 /\ bar(bucketOf[i], place[i]) = bar(x, s)
            BY <2>4, <3>1, <4>1, <4>2
          <5> DEFINE y == bucketOf[i]
                     t == place[i]
          <5>2. t \in 1..n
            BY <4>1
          <5> HIDE DEF y, t
          <5>3. y = x /\ t = s
            BY <1>9, <5>1, <5>2 DEF y, t
          <5> QED BY <5>3 DEF y, t
        <4> QED BY <3>1, <4>1, <4>2
      <3>4. {i \in C : own[i] = p} = Cell(x, s)
        BY <3>3
      <3> HIDE DEF own, Cell
      <3> QED BY <3>1, <3>2, <3>4
    <2> HIDE DEF own, Cell
    <2> QED BY <2>5, <2>6, HeightIsAll
  <1> QED BY <1>10, <1>11 DEF M

LEMMA PointsCountOnce ==
    ASSUME NEW S, NEW bucketOf, NEW C, IsFiniteSet(C), NEW kind, SeriesOf(S, bucketOf, C, kind)
    PROVE  /\ Apart(XyChart(S))
           /\ kind = "count" => Height(XyChart(S)) = Cardinality(C)
  <1> DEFINE M == XyChart(S)
             P(s) == S[s].points
             dot(s, k) == [at |-> <<P(s)[k].bucket, s>>, base |-> 0, value |-> P(s)[k].value]
  <1>1. PICK n \in Nat :
           /\ DOMAIN S = 1..n
           /\ \E place \in [C -> 1..n] :
                 \A s \in 1..n : PointsOf(S[s].points, bucketOf, {i \in C : place[i] = s}, kind)
    BY DEF SeriesOf
  <1>2. PICK place \in [C -> 1..n] :
           \A s \in 1..n : PointsOf(S[s].points, bucketOf, {i \in C : place[i] = s}, kind)
    BY <1>1
  <1> DEFINE Cell(x, s) == {i \in C : place[i] = s /\ bucketOf[i] = x}
  <1>3. \A p \in M : \E s \in 1..n : \E k \in DOMAIN P(s) : p = dot(s, k)
    <2> SUFFICES ASSUME NEW p \in M PROVE \E s \in 1..n : \E k \in DOMAIN P(s) : p = dot(s, k)
      OBVIOUS
    <2>1. PICK s \in 1..n : \E e \in ToSet(P(s)) : p = [at |-> <<e.bucket, s>>, base |-> 0, value |-> e.value]
      BY <1>1 DEF XyChart
    <2>2. PICK k \in DOMAIN P(s) : p = dot(s, k)
      BY <2>1 DEF ToSet
    <2> HIDE DEF dot, P
    <2> QED BY <2>2
  <1>4. \A s \in 1..n : \A k \in DOMAIN P(s) : dot(s, k) \in M
    <2> SUFFICES ASSUME NEW s \in 1..n, NEW k \in DOMAIN P(s) PROVE dot(s, k) \in M
      OBVIOUS
    <2> DEFINE e == P(s)[k]
    <2>1. e \in ToSet(P(s))
      BY DEF ToSet
    <2>2. dot(s, k) \in {[at |-> <<p.bucket, s>>, base |-> 0, value |-> p.value] : p \in ToSet(P(s))}
      BY <2>1
    <2> QED BY <1>1, <2>2 DEF XyChart
  <1> HIDE DEF M
  <1>5. ASSUME NEW s \in 1..n
        PROVE  /\ \A k, l \in DOMAIN P(s) : P(s)[k].bucket = P(s)[l].bucket => k = l
               /\ \A i \in C : place[i] = s => \E k \in DOMAIN P(s) : P(s)[k].bucket = bucketOf[i]
               /\ \A k \in DOMAIN P(s) :
                     /\ \E i \in C : place[i] = s /\ bucketOf[i] = P(s)[k].bucket
                     /\ kind = "count" => P(s)[k].value = Cardinality(Cell(P(s)[k].bucket, s))
    <2> DEFINE A == {i \in C : place[i] = s}
    <2>1. PointsOf(P(s), bucketOf, A, kind)
      BY <1>2
    <2>2. \A x : {i \in A : bucketOf[i] = x} = Cell(x, s)
      OBVIOUS
    <2>3. \A i \in C : place[i] = s <=> i \in A
      OBVIOUS
    <2>4. A \subseteq C
      OBVIOUS
    <2> HIDE DEF P, A, Cell
    <2>5. \A k, l \in DOMAIN P(s) : P(s)[k].bucket = P(s)[l].bucket => k = l
      BY <2>1 DEF PointsOf
    <2>6. \A i \in C : place[i] = s => \E k \in DOMAIN P(s) : P(s)[k].bucket = bucketOf[i]
      BY <2>1, <2>3 DEF PointsOf
    <2>7. ASSUME NEW k \in DOMAIN P(s)
          PROVE  /\ \E i \in C : place[i] = s /\ bucketOf[i] = P(s)[k].bucket
                 /\ kind = "count" => P(s)[k].value = Cardinality(Cell(P(s)[k].bucket, s))
      <3>1. PICK i \in A : P(s)[k].bucket = bucketOf[i]
        BY <2>1 DEF PointsOf
      <3>2. kind = "count" => P(s)[k].value = Cardinality({j \in A : bucketOf[j] = P(s)[k].bucket})
        BY <2>1 DEF PointsOf
      <3> QED BY <2>2, <2>3, <2>4, <3>1, <3>2
    <2> QED BY <2>5, <2>6, <2>7
  <1>6. \A s, k : dot(s, k).at = <<P(s)[k].bucket, s>> /\ dot(s, k).value = P(s)[k].value
    OBVIOUS
  <1>7. ASSUME NEW s \in 1..n, NEW k \in DOMAIN P(s), NEW t \in 1..n, NEW l \in DOMAIN P(t), dot(s, k).at = dot(t, l).at
        PROVE  dot(s, k) = dot(t, l)
    <2>1. <<P(s)[k].bucket, s>> = <<P(t)[l].bucket, t>>
      BY <1>6, <1>7
    <2> DEFINE x == P(s)[k].bucket
               y == P(t)[l].bucket
    <2>2. x = y /\ s = t
      <3>1. <<x, s>> = <<y, t>>
        BY <2>1
      <3> HIDE DEF x, y
      <3> QED BY <3>1
    <2> HIDE DEF P, dot
    <2>3. k = l
      BY <1>5, <2>2 DEF x, y
    <2> QED BY <2>2, <2>3
  <1> HIDE DEF dot
  <1>8. Apart(M)
    <2> SUFFICES ASSUME NEW p \in M, NEW q \in M, p.at = q.at PROVE p = q
      BY DEF Apart
    <2>1. PICK s \in 1..n : \E k \in DOMAIN P(s) : p = dot(s, k)
      BY <1>3
    <2>2. PICK k \in DOMAIN P(s) : p = dot(s, k)
      BY <2>1
    <2>3. PICK t \in 1..n : \E l \in DOMAIN P(t) : q = dot(t, l)
      BY <1>3
    <2>4. PICK l \in DOMAIN P(t) : q = dot(t, l)
      BY <2>3
    <2> QED BY <1>7, <2>2, <2>4
  <1> HIDE DEF P
  <1> DEFINE own == [i \in C |-> CHOOSE p \in M : p.at = <<bucketOf[i], place[i]>>]
  <1>9. ASSUME kind = "count" PROVE Height(M) = Cardinality(C)
    <2>1. \A i \in C : \E p \in M : p.at = <<bucketOf[i], place[i]>>
      <3> SUFFICES ASSUME NEW i \in C PROVE \E p \in M : p.at = <<bucketOf[i], place[i]>>
        OBVIOUS
      <3> DEFINE s == place[i]
      <3>1. s \in 1..n
        OBVIOUS
      <3>2. PICK k \in DOMAIN P(s) : P(s)[k].bucket = bucketOf[i]
        BY <1>5, <3>1
      <3>3. dot(s, k) \in M /\ dot(s, k).at = <<bucketOf[i], s>>
        BY <1>4, <1>6, <3>1, <3>2
      <3> QED BY <3>3
    <2>2. \A i \in C : own[i] \in M /\ own[i].at = <<bucketOf[i], place[i]>>
      BY <2>1
    <2>3. own \in [C -> M]
      BY <2>2
    <2> HIDE DEF own
    <2>4. ASSUME NEW p \in M PROVE p.value # 0 /\ p.value = Cardinality({i \in C : own[i] = p})
      <3>1. PICK s \in 1..n : \E k \in DOMAIN P(s) : p = dot(s, k)
        BY <1>3
      <3>2. PICK k \in DOMAIN P(s) : p = dot(s, k)
        BY <3>1
      <3> DEFINE x == P(s)[k].bucket
      <3>3. p.at = <<x, s>> /\ p.value = Cardinality(Cell(x, s))
        BY <1>5, <1>6, <1>9, <3>2
      <3>4. Cell(x, s) # {} /\ Cell(x, s) \in SUBSET C
        BY Zenon, <1>5
      <3> HIDE DEF x
      <3>5. ASSUME NEW i \in C PROVE own[i] = p <=> place[i] = s /\ bucketOf[i] = x
        <4>1. own[i] \in M /\ own[i].at = <<bucketOf[i], place[i]>>
          BY <2>2
        <4>2. own[i].at = p.at <=> place[i] = s /\ bucketOf[i] = x
          <5> DEFINE t == place[i]
                     y == bucketOf[i]
          <5>1. own[i].at = <<y, t>>
            BY <4>1
          <5> HIDE DEF t, y
          <5>2. own[i].at = p.at <=> t = s /\ y = x
            BY <3>3, <5>1
          <5> QED BY <5>2 DEF t, y
        <4>3. ASSUME own[i].at = p.at PROVE own[i] = p
          <5>1. PICK t \in 1..n : \E l \in DOMAIN P(t) : own[i] = dot(t, l)
            BY <1>3, <4>1
          <5>2. PICK l \in DOMAIN P(t) : own[i] = dot(t, l)
            BY <5>1
          <5> QED BY <1>7, <3>2, <4>3, <5>2
        <4> QED BY <4>2, <4>3
      <3>6. {i \in C : own[i] = p} = Cell(x, s)
        BY <3>5
      <3> HIDE DEF Cell
      <3> DEFINE c == Cell(x, s)
      <3>7. c \in SUBSET C /\ c # {} /\ p.value = Cardinality(c)
        BY <3>3, <3>4
      <3> HIDE DEF c
      <3>8. p.value # 0
        BY <3>7, FS_Subset, FS_EmptySet
      <3> QED BY <3>6, <3>7, <3>8 DEF c
    <2> QED BY <2>3, <2>4, HeightIsAll
  <1> QED BY <1>8, <1>9 DEF M

LEMMA StatCountsOnce ==
    ASSUME NEW rs, IsSeq(rs.rows), NEW config
    PROVE  /\ Apart(StatWidgetBody(config, rs).marks)
           /\ config.aggregate = "count" => Height(StatWidgetBody(config, rs).marks) = Cardinality(DOMAIN rs.rows)
  <1> DEFINE m == [at |-> <<>>, base |-> 0, value |-> statValue(rs.rows, config.aggregate)]
             I == DOMAIN rs.rows
  <1>1. StatWidgetBody(config, rs).marks = {m}
    BY DEF StatWidgetBody, NoData
  <1>2. m.value = statValue(rs.rows, config.aggregate)
    OBVIOUS
  <1> HIDE DEF m
  <1>3. Apart({m})
    BY DEF Apart
  <1>4. ASSUME config.aggregate = "count" PROVE Height({m}) = Cardinality(I)
    <2> DEFINE n == Len(rs.rows)
    <2>1. n \in Nat /\ I = 1..n
      BY SeqDomain
    <2>2. m.value = n
      BY <1>2, <1>4 DEF statValue
    <2> DEFINE own == [i \in I |-> m]
    <2>3. own \in [I -> {m}] /\ {i \in I : own[i] = m} = I
      OBVIOUS
    <2> HIDE DEF own, n, I
    <2>4. IsFiniteSet(I) /\ Cardinality(I) = n
      BY <2>1, FS_Interval
    <2>5. IsFiniteSet({m})
      BY FS_Singleton
    <2>6. \A p \in {m} : p.value = Cardinality({i \in I : own[i] = p})
      BY <2>2, <2>3, <2>4
    <2> DEFINE M == {m}
    <2>7. IsFiniteSet(M) /\ own \in [I -> M] /\ \A p \in M : p.value = Cardinality({i \in I : own[i] = p})
      BY <2>3, <2>5, <2>6
    <2> HIDE DEF M
    <2>8. Height(M) = Cardinality(I)
      BY <2>4, <2>7, HeightIs
    <2> QED BY <2>8 DEF M
  <1> QED BY <1>1, <1>3, <1>4

LEMMA DeclaredReadable ==
    ASSUME NEW rs, RecordsDeclared(rs), NEW g \in Granularities
    PROVE  Readable(rs.rows, g)
  <1> DEFINE rows == rs.rows
  <1>1. IsSeq(rows)
    BY Zenon DEF RecordsDeclared, IsSeq
  <1>2. Len(rows) \in Nat /\ DOMAIN rows = 1..Len(rows)
    BY <1>1, SeqDomain
  <1>3. \A i \in DOMAIN rows : rows[i] \in ToSet(rows)
    BY DEF ToSet
  <1>4. DOMAIN rows \in SUBSET Nat
    <2> DEFINE n == Len(rows)
    <2>1. n \in Nat
      BY <1>2
    <2> HIDE DEF n
    <2>2. 1..n \in SUBSET Nat
      BY <2>1
    <2> QED BY <1>2, <2>2 DEF n
  <1>5. \A i \in DOMAIN rows : rows[i].value \in Nat \union {NoNumber}
    BY Zenon, <1>3 DEF RecordsDeclared
  <1>6. \A i \in DOMAIN rows : rows[i].date # "" => Bucket(rows[i].date, g) # ""
    BY Zenon, <1>3 DEF RecordsDeclared
  <1> QED BY Zenon, <1>1, <1>4, <1>5, <1>6 DEF Readable

\* What TilesCountOnce says of a tile.
CountsOnce(tl) ==
    LET body == GraphWidgetBody(tl)
    IN /\ body.complete
       /\ Counts(tl) =>
            /\ Height(body.marks) = Cardinality({k \in DOMAIN records.rows : Countable(tl, records.rows[k])})
            /\ body.badge \/ records.total \in {NoTotal, Len(records.rows)}
       /\ Apart(body.marks)

LEMMA BadgeTells ==
    ASSUME RecordsDeclared(records)
    PROVE  PartialDataBadge(records) \/ records.total \in {NoTotal, Len(records.rows)}
  <1>1. IsSeq(records.rows)
    BY Zenon DEF RecordsDeclared, IsSeq
  <1>2. Len(records.rows) \in Nat
    BY <1>1, SeqDomain
  <1> DEFINE n == Len(records.rows)
             total == records.total
  <1>3. total # NoTotal => total \in Nat /\ total >= n
    BY Zenon DEF RecordsDeclared
  <1>4. PartialDataBadge(records) <=> total # NoTotal /\ total > n
    BY DEF PartialDataBadge
  <1> HIDE DEF n, total
  <1>5. total = NoTotal \/ total > n \/ total = n
    BY <1>2, <1>3 DEF n
  <1> QED BY <1>4, <1>5 DEF n, total

LEMMA TileCountsOnce ==
    ASSUME MaxPieSlices \in Nat \ {0}, RecordsDeclared(records), NEW tl, TileDeclared(tl)
    PROVE  CountsOnce(tl)
  <1> DEFINE body == GraphWidgetBody(tl)
             rows == records.rows
             K == {k \in DOMAIN rows : Countable(tl, rows[k])}
  <1>1. IsSeq(rows)
    BY Zenon DEF RecordsDeclared, IsSeq
  <1>2. /\ tl.type \in TILE_TYPES /\ Required(tl.type) \subseteq tl.config.picks
        /\ tl.config.picks \subseteq Required(tl.type) \union Optional(tl.type)
        /\ tl.config.bucket \in Granularities
        /\ tl.type \in {"xy", "bar"} => tl.config.aggregate \in ChartAggregates
    BY DEF TileDeclared
  <1>3. CASE tl.type = "stat"
    <2>1. body = StatWidgetBody(tl.config, records)
      BY <1>2, <1>3 DEF GraphWidgetBody
    <2>2. body.complete = TRUE /\ body.badge = PartialDataBadge(records)
      BY <2>1 DEF StatWidgetBody, NoData
    <2>3. "series" \notin tl.config.picks
      BY <1>2, <1>3 DEF Required, Optional
    <2>4. K = DOMAIN rows
      BY Zenon, <1>3, <2>3 DEF Countable
    <2>5. Counts(tl) => tl.config.aggregate = "count"
      BY <1>3 DEF Counts
    <2> DEFINE config == tl.config
    <2>6. Apart(body.marks) /\ (config.aggregate = "count" => Height(body.marks) = Cardinality(DOMAIN rows))
      <3> HIDE DEF config
      <3>1. /\ Apart(StatWidgetBody(config, records).marks)
            /\ config.aggregate = "count"
                 => Height(StatWidgetBody(config, records).marks) = Cardinality(DOMAIN records.rows)
        BY <1>1, StatCountsOnce
      <3> QED BY <2>1, <3>1 DEF config
    <2> HIDE DEF K, body
    <2> QED BY <2>2, <2>4, <2>5, <2>6, BadgeTells DEF CountsOnce, K, body
  <1>4. CASE tl.type = "pie"
    <2>1. body = PieWidgetBody(records)
      BY <1>2, <1>4 DEF GraphWidgetBody
    <2>2. body.complete = TRUE /\ body.badge = PartialDataBadge(records)
      BY <2>1 DEF PieWidgetBody
    <2>3. K = HasLabel(rows)
      BY <1>4 DEF Countable, HasLabel
    <2>4. Apart(body.marks) /\ Height(body.marks) = Cardinality(HasLabel(rows))
      BY <1>1, <2>1, PieCountsOnce
    <2> HIDE DEF K, body
    <2> QED BY <2>2, <2>3, <2>4, BadgeTells DEF CountsOnce, K, body
  <1>5. CASE tl.type \in {"xy", "bar"}
    <2> DEFINE config == tl.config
               series == xySeries(rows, config)
               C == Charted(rows, config)
               b == BucketsIn(rows, config.bucket)
    <2>1. body = ChartBody(tl.type, config, records)
      BY <1>2, <1>5 DEF GraphWidgetBody
    <2>2. /\ body.complete = TRUE /\ body.badge = PartialDataBadge(records)
          /\ body.marks = IF tl.type = "bar" THEN BarChart(series, config.mode) ELSE XyChart(series)
      BY <2>1 DEF ChartBody
    <2>3. K = C
      BY Zenon, <1>5 DEF Countable, Charted, Dated
    <2>4. Counts(tl) => config.aggregate = "count"
      BY <1>5 DEF Counts
    <2>5. Readable(rows, config.bucket)
      BY <1>2, DeclaredReadable
    <2>6. SeriesOf(series, b, C, config.aggregate)
      BY <1>2, <1>5, <2>5, SeriesAre
    <2>7. IsFiniteSet(C)
      <3>1. Len(rows) \in Nat /\ DOMAIN rows = 1..Len(rows)
        BY <1>1, SeqDomain
      <3>2. IsFiniteSet(1..Len(rows))
        BY <3>1, FS_Interval
      <3>3. C \in SUBSET (1..Len(rows))
        BY Zenon, <3>1 DEF Charted, Dated
      <3> QED BY <3>2, <3>3, FS_Subset
    <2> DEFINE kind == config.aggregate
               mode == config.mode
               marks == body.marks
    <2> HIDE DEF K, body, series, C, b, kind, mode
    <2>8. Apart(marks) /\ (kind = "count" => Height(marks) = Cardinality(C))
      <3>1. SeriesOf(series, b, C, kind)
        BY <2>6 DEF kind
      <3>2. CASE tl.type = "bar"
        <4>1. Apart(BarChart(series, mode)) /\ (kind = "count" => Height(BarChart(series, mode)) = Cardinality(C))
          BY <2>7, <3>1, BarsCountOnce
        <4> QED BY <2>2, <3>2, <4>1 DEF mode
      <3>3. CASE tl.type # "bar"
        <4>1. Apart(XyChart(series)) /\ (kind = "count" => Height(XyChart(series)) = Cardinality(C))
          BY <2>7, <3>1, PointsCountOnce
        <4> QED BY <2>2, <3>3, <4>1
      <3> QED BY <3>2, <3>3
    <2> QED BY <2>2, <2>3, <2>4, <2>8, BadgeTells DEF CountsOnce, K, body, kind
  <1>6. CASE tl.type = "list"
    <2>1. body = [NoData EXCEPT !.complete = TRUE]
      BY <1>2, <1>6 DEF GraphWidgetBody
    <2>2. body.complete = TRUE /\ body.marks = {}
      BY <2>1 DEF NoData
    <2>3. ~Counts(tl)
      BY <1>6 DEF Counts
    <2>4. Apart(body.marks)
      BY <2>2 DEF Apart
    <2> HIDE DEF body
    <2> QED BY <2>2, <2>3, <2>4 DEF CountsOnce, body
  <1> QED BY <1>2, <1>3, <1>4, <1>5, <1>6 DEF TILE_TYPES

LEMMA CardsCountOnce ==
    ASSUME MaxPieSlices \in Nat \ {0}, RecordsDeclared(records), \A i \in DOMAIN Cards : TileDeclared(Cards[i])
    PROVE  TilesCountOnce
  <1>1. \A i \in DOMAIN Cards : CountsOnce(Cards[i])
    BY TileCountsOnce
  <1> QED BY <1>1 DEF TilesCountOnce, CountsOnce

-----------------------------------------------------------------------------
(* The tiles themselves: every tile that is stored, kept, drafted, sent or  *)
(* open in the dialog is one that build() could have built.                *)

LEMMA BoundOf ==
    ASSUME NEW n \in Nat, NEW f, \A i \in 1..n : f[i] \in Nat
    PROVE  \E m \in Nat : \A i \in 1..n : f[i] <= m
  <1> DEFINE T == {k \in 0..n : \E m \in Nat : \A i \in 1..k : f[i] <= m}
  <1>1. 0 \in T
    OBVIOUS
  <1>2. ASSUME NEW k \in 0..(n - 1), k \in T PROVE k + 1 \in T
    <2>1. PICK m \in Nat : \A i \in 1..k : f[i] <= m
      BY <1>2
    <2>2. k + 1 \in 1..n /\ f[k + 1] \in Nat
      OBVIOUS
    <2>3. PICK h \in Nat : h >= m /\ h >= f[k + 1]
      BY <2>2
    <2>4. \A i \in 1..(k + 1) : f[i] <= h
      <3> SUFFICES ASSUME NEW i \in 1..(k + 1) PROVE f[i] <= h
        OBVIOUS
      <3>1. CASE i = k + 1
        BY <2>3, <3>1
      <3>2. CASE i # k + 1
        <4>1. i \in 1..k /\ i \in 1..n
          BY <3>2
        <4>2. f[i] \in Nat /\ f[i] <= m
          BY <2>1, <4>1
        <4> QED BY <2>3, <4>2
      <3> QED BY <3>1, <3>2
    <2> QED BY <2>2, <2>4
  <1>3. \A k \in 0..n : k \in T
    <2> HIDE DEF T
    <2> QED BY <1>1, <1>2, UpTo
  <1>4. n \in T
    <2> HIDE DEF T
    <2> QED BY <1>3
  <1> QED BY <1>4

TilesOK(s) == IsSeq(s) /\ \A i \in DOMAIN s : TileDeclared(s[i])

LEMMA TilesMapped ==
    ASSUME NEW s, TilesOK(s), NEW u, DOMAIN u = DOMAIN s, u = [i \in DOMAIN s |-> u[i]],
           \A i \in DOMAIN s : TileDeclared(u[i])
    PROVE  TilesOK(u)
  <1>1. Len(s) \in Nat /\ DOMAIN s = 1..Len(s)
    BY SeqDomain DEF TilesOK
  <1>2. IsSeq(u)
    <2> DEFINE n == Len(s)
    <2>1. n \in Nat /\ DOMAIN u = 1..n /\ u = [i \in 1..n |-> u[i]]
      BY <1>1
    <2> HIDE DEF n
    <2> QED BY <2>1, SeqOfMap
  <1> QED BY <1>2 DEF TilesOK

LEMMA TilesSifted == ASSUME NEW s, TilesOK(s), NEW S PROVE TilesOK(Sift(s, S))
  <1>1. IsSeq(Sift(s, S)) /\ ToSet(Sift(s, S)) = ToSet(s) \intersect S
    BY SiftedSet DEF TilesOK
  <1>2. \A tl \in ToSet(s) : TileDeclared(tl)
    BY DEF TilesOK, ToSet
  <1> DEFINE u == Sift(s, S)
  <1> HIDE DEF u
  <1>3. \A i \in DOMAIN u : u[i] \in ToSet(u)
    BY DEF ToSet
  <1>4. \A i \in DOMAIN u : TileDeclared(u[i])
    BY <1>1, <1>2, <1>3 DEF u
  <1> QED BY <1>1, <1>4 DEF TilesOK, u

LEMMA TilesAdded == ASSUME NEW s, TilesOK(s), NEW tl, TileDeclared(tl) PROVE TilesOK(Append(s, tl))
  <1> DEFINE u == Append(s, tl)
             n == Len(s)
  <1>1. /\ IsSeq(u) /\ n \in Nat /\ DOMAIN s = 1..n /\ DOMAIN u = 1..(n + 1)
        /\ u[n + 1] = tl /\ \A k \in 1..n : u[k] = s[k]
    BY SeqAppend DEF TilesOK
  <1> HIDE DEF u, n
  <1>2. \A k \in DOMAIN u : k = n + 1 \/ k \in 1..n
    BY <1>1
  <1>3. \A k \in DOMAIN u : TileDeclared(u[k])
    BY <1>1, <1>2 DEF TilesOK
  <1> QED BY <1>1, <1>3 DEF TilesOK, u

LEMMA NextTileType == ASSUME NEW s, TilesOK(s) PROVE nextTilePosition(s) \in Nat
  <1> DEFINE n == Len(s)
             f == [i \in 1..n |-> s[i].y + s[i].h]
             S == {0} \union {tl.y + tl.h : tl \in ToSet(s)}
  <1>1. n \in Nat /\ DOMAIN s = 1..n
    BY SeqDomain DEF TilesOK
  <1>2. \A i \in 1..n : f[i] = s[i].y + s[i].h /\ s[i].y \in Nat /\ s[i].h \in Nat
    BY <1>1 DEF TilesOK, TileDeclared
  <1>3. \A i \in 1..n : f[i] \in Nat
    BY <1>2
  <1> HIDE DEF n, f
  <1>4. PICK m \in Nat : \A i \in 1..n : f[i] <= m
    BY <1>1, <1>3, BoundOf
  <1>5. \A tl \in ToSet(s) : \E i \in 1..n : tl.y + tl.h = f[i]
    BY <1>1, <1>2 DEF ToSet
  <1>6. S \in SUBSET Nat /\ S # {} /\ \A x \in S : x <= m
    BY <1>3, <1>4, <1>5
  <1>7. nextTilePosition(s) = Max(S)
    BY DEF nextTilePosition
  <1> HIDE DEF S
  <1>8. Max(S) \in S
    BY <1>6, GreatestOf
  <1> QED BY <1>6, <1>7, <1>8

FormOK(d) ==
    /\ d = [type |-> d.type, picks |-> d.picks, chart |-> d.chart, stat |-> d.stat, bucket |-> d.bucket,
            mode |-> d.mode]
    /\ d.type \in TILE_TYPES /\ d.chart \in ChartAggregates /\ d.bucket \in Granularities
DialogOK(d) ==
    \/ d = Closed
    \/ d = [target |-> "new", form |-> d.form] /\ FormOK(d.form)
    \/ d = [target |-> d.target, tile |-> d.tile, form |-> d.form] /\ FormOK(d.form) /\ TileDeclared(d.tile)
RequestsOK(q) == IsSeq(q) /\ \A i \in DOMAIN q : q[i].kind = "save" => TilesOK(q[i].tiles)

BoardTilesInv ==
    /\ RecordsDeclared(records)
    /\ TilesOK(server) /\ TilesOK(saved) /\ TilesOK(sketch)
    /\ DialogOK(dialog) /\ RequestsOK(requests)

LEMMA FreshOK == FormOK(Fresh)
  BY DEF FormOK, Fresh, TILE_TYPES, ChartAggregates, Granularities

LEMMA SeededOK == ASSUME NEW tl, TileDeclared(tl) PROVE FormOK(Seeded(tl))
  <1> DEFINE d == Seeded(tl)
  <1>1. d.type = tl.type /\ d.bucket = tl.config.bucket /\ d.chart \in ChartAggregates
    BY DEF Seeded, ChartAggregates
  <1>2. d = [type |-> d.type, picks |-> d.picks, chart |-> d.chart, stat |-> d.stat, bucket |-> d.bucket,
             mode |-> d.mode]
    BY DEF Seeded
  <1> QED BY <1>1, <1>2 DEF FormOK, TileDeclared

\* What build() builds is a tile that is whole.
LEMMA BuiltDeclared ==
    ASSUME NEW d, FormOK(d), Buildable(d), NEW tl, tl.type = d.type, tl.config = Built(d), tl.y \in Nat, tl.h \in Nat,
           tl = [id |-> tl.id, type |-> tl.type, config |-> tl.config, hidden |-> tl.hidden, y |-> tl.y, h |-> tl.h]
    PROVE  TileDeclared(tl)
  <1>1. tl.config.picks = d.picks \intersect (Required(d.type) \union Optional(d.type))
    BY DEF Built
  <1>2. tl.config.bucket = IF d.type \in {"xy", "bar"} THEN d.bucket ELSE "month"
    BY DEF Built
  <1>3. d.type \in {"xy", "bar"} => tl.config.aggregate = d.chart
    BY DEF Built
  <1>4. Required(d.type) \subseteq d.picks
    BY DEF Buildable
  <1>5. d.type \in TILE_TYPES /\ d.chart \in ChartAggregates /\ d.bucket \in Granularities
    BY DEF FormOK
  <1>6. tl.config.bucket \in Granularities
    BY <1>2, <1>5 DEF Granularities
  <1> QED BY <1>1, <1>3, <1>4, <1>5, <1>6 DEF TileDeclared

LEMMA RerenderedOK == ASSUME DialogOK(dialog) PROVE DialogOK(Rerendered)
  <1>1. CASE Rerendered = dialog
    BY <1>1
  <1>2. CASE Rerendered # dialog
    <2>1. Open /\ dialog.target # "new" /\ Rerendered = [dialog EXCEPT !.form = Seeded(dialog.tile)]
      BY <1>2 DEF Rerendered
    <2>2. dialog = [target |-> dialog.target, tile |-> dialog.tile, form |-> dialog.form] /\ TileDeclared(dialog.tile)
      BY <2>1 DEF DialogOK, Open
    <2> DEFINE f == Seeded(dialog.tile)
    <2>3. FormOK(f)
      BY <2>2, SeededOK
    <2> HIDE DEF f
    <2>4. Rerendered = [target |-> dialog.target, tile |-> dialog.tile, form |-> f]
      BY <2>1, <2>2 DEF f
    <2> QED BY <2>2, <2>3, <2>4 DEF DialogOK
  <1> QED BY <1>1, <1>2

LEMMA BoardTilesInit == ASSUME BoardDeclared PROVE Init => BoardTilesInv
  <1> SUFFICES ASSUME Init PROVE BoardTilesInv
    OBVIOUS
  <1>1. records = [rows |-> <<>>, total |-> 0] /\ server = <<>> /\ saved = <<>> /\ sketch = <<>> /\ dialog = Closed
        /\ requests = <<>>
    BY DEF Init, BoardInit
  <1>2. IsSeq(<<>>) /\ DOMAIN <<>> = {} /\ ToSet(<<>>) = {} /\ Len(<<>>) = 0
    BY DEF IsSeq, ToSet
  <1>3. TilesOK(<<>>) /\ RequestsOK(<<>>)
    BY <1>2 DEF TilesOK, RequestsOK
  <1>4. RecordsDeclared(records)
    <2>1. records.rows = <<>> /\ records.total = 0
      BY <1>1
    <2>2. ToSet(records.rows) = {} /\ records.rows \in Seq(ToSet(records.rows)) /\ Len(records.rows) = 0
      BY <1>2, <2>1 DEF IsSeq
    <2>3. records.total # NoTotal => records.total \in Nat /\ records.total >= Len(records.rows)
      BY <2>1, <2>2
    <2> QED BY <2>2, <2>3 DEF RecordsDeclared
  <1>5. DialogOK(dialog)
    BY <1>1 DEF DialogOK
  <1> QED BY <1>1, <1>3, <1>4, <1>5 DEF BoardTilesInv

LEMMA StoredOK == ASSUME BoardDeclared PROVE \A s \in Stored : TilesOK(s)
  BY DEF BoardDeclared, TilesOK, IsSeq, ToSet

LEMMA OpenBoardOK == ASSUME BoardDeclared, BoardTilesInv, OpenBoard PROVE BoardTilesInv'
  <1>1. /\ RecordsDeclared(records') /\ TilesOK(server')
        /\ saved' = saved /\ sketch' = sketch /\ dialog' = dialog
    BY StoredOK DEF OpenBoard, BoardDeclared
  <1>2. RequestsOK(requests')
    <2> DEFINE e == [kind |-> "get"]
               q == <<e>>
    <2>1. requests' = q /\ e.kind = "get"
      BY DEF OpenBoard
    <2> HIDE DEF e
    <2>2. DOMAIN q = 1..1 /\ q[1] = e
      OBVIOUS
    <2>3. q \in Seq({e})
      OBVIOUS
    <2>4. IsSeq(q)
      BY <2>3, SeqOfItself
    <2> HIDE DEF q
    <2> QED BY <2>1, <2>2, <2>4 DEF RequestsOK
  <1> QED BY <1>1, <1>2 DEF BoardTilesInv

LEMMA AnswersOK ==
    ASSUME RequestsOK(requests), requests # <<>>
    PROVE  RequestsOK(Tail(requests)) /\ (Head(requests).kind = "save" => TilesOK(Head(requests).tiles))
  <1> DEFINE q == requests
  <1>1. /\ IsSeq(Tail(q)) /\ Len(q) \in Nat \ {0} /\ DOMAIN q = 1..Len(q) /\ DOMAIN Tail(q) = 1..(Len(q) - 1)
        /\ Head(q) = q[1] /\ \A i \in DOMAIN Tail(q) : Tail(q)[i] = q[i + 1]
    BY SeqTail DEF RequestsOK
  <1>2. 1 \in DOMAIN q /\ \A i \in DOMAIN Tail(q) : i + 1 \in DOMAIN q
    BY <1>1
  <1>3. Head(q).kind = "save" => TilesOK(Head(q).tiles)
    BY <1>1, <1>2 DEF RequestsOK
  <1>4. \A i \in DOMAIN Tail(q) : Tail(q)[i].kind = "save" => TilesOK(Tail(q)[i].tiles)
    BY <1>1, <1>2 DEF RequestsOK
  <1> QED BY <1>1, <1>3, <1>4 DEF RequestsOK

\* The tiles of the draft, one of them changed.
LEMMA ChangedOK ==
    ASSUME TilesOK(sketch), NEW id, NEW u,
           DOMAIN u = DOMAIN sketch, u = [i \in DOMAIN sketch |-> u[i]],
           \A i \in DOMAIN sketch : u[i] = sketch[i] \/ TileDeclared(u[i])
    PROVE  TilesOK(u)
  <1>1. \A i \in DOMAIN sketch : TileDeclared(u[i])
    BY DEF TilesOK
  <1> QED BY <1>1, TilesMapped

LEMMA HiddenOK ==
    ASSUME NEW tl, TileDeclared(tl), NEW b, NEW y \in Nat
    PROVE  TileDeclared([tl EXCEPT !.hidden = b]) /\ TileDeclared([tl EXCEPT !.y = y])
  <1>1. tl = [id |-> tl.id, type |-> tl.type, config |-> tl.config, hidden |-> tl.hidden, y |-> tl.y, h |-> tl.h]
    BY DEF TileDeclared
  <1> DEFINE t == [tl EXCEPT !.hidden = b]
             u == [tl EXCEPT !.y = y]
  <1>2. t = [id |-> tl.id, type |-> tl.type, config |-> tl.config, hidden |-> b, y |-> tl.y, h |-> tl.h]
    BY <1>1
  <1>3. u = [id |-> tl.id, type |-> tl.type, config |-> tl.config, hidden |-> tl.hidden, y |-> y, h |-> tl.h]
    BY <1>1
  <1> HIDE DEF t, u
  <1>4. /\ t = [id |-> t.id, type |-> t.type, config |-> t.config, hidden |-> t.hidden, y |-> t.y, h |-> t.h]
        /\ t.type = tl.type /\ t.config = tl.config /\ t.y = tl.y /\ t.h = tl.h
    BY <1>2
  <1>5. /\ u = [id |-> u.id, type |-> u.type, config |-> u.config, hidden |-> u.hidden, y |-> u.y, h |-> u.h]
        /\ u.type = tl.type /\ u.config = tl.config /\ u.y = y /\ u.h = tl.h
    BY <1>3
  <1>6. TileDeclared(t)
    BY <1>4 DEF TileDeclared
  <1>7. TileDeclared(u)
    BY <1>5 DEF TileDeclared
  <1> QED BY <1>6, <1>7 DEF t, u

LEMMA HideOK == ASSUME TilesOK(sketch), hideTile \/ restoreTile \/ handleLayoutChange PROVE TilesOK(sketch')
  <1>1. CASE hideTile \/ restoreTile
    <2> DEFINE U(id, b) == [i \in DOMAIN sketch |-> IF sketch[i].id = id THEN [sketch[i] EXCEPT !.hidden = b]
                                                    ELSE sketch[i]]
    <2>1. \E id, b : sketch' = U(id, b)
      <3>1. CASE hideTile
        <4>1. PICK id : sketch' = U(id, TRUE)
          BY <3>1 DEF hideTile, Changed
        <4> HIDE DEF U
        <4> QED BY Zenon, <4>1
      <3>2. CASE restoreTile
        <4>1. PICK id : sketch' = U(id, FALSE)
          BY <3>2 DEF restoreTile, Changed
        <4> HIDE DEF U
        <4> QED BY Zenon, <4>1
      <3> QED BY <1>1, <3>1, <3>2
    <2>1a. PICK id, b : sketch' = U(id, b)
      <3> HIDE DEF U
      <3> QED BY <2>1
    <2>2. DOMAIN sketch' = DOMAIN sketch /\ sketch' = [i \in DOMAIN sketch |-> sketch'[i]]
      BY <2>1a
    <2>3. \A i \in DOMAIN sketch : sketch'[i] = sketch[i] \/ TileDeclared(sketch'[i])
      <3> SUFFICES ASSUME NEW i \in DOMAIN sketch PROVE sketch'[i] = sketch[i] \/ TileDeclared(sketch'[i])
        OBVIOUS
      <3>1. TileDeclared([sketch[i] EXCEPT !.hidden = b])
        BY HiddenOK DEF TilesOK
      <3>2. sketch'[i] = sketch[i] \/ sketch'[i] = [sketch[i] EXCEPT !.hidden = b]
        BY <2>1a
      <3> QED BY <3>1, <3>2
    <2> QED BY <2>2, <2>3, ChangedOK
  <1>2. CASE handleLayoutChange
    <2>1. PICK id \in Ids(Visible(sketch)), y \in {0, DEFAULT_TILE_H} :
             sketch' = [i \in DOMAIN sketch |-> IF sketch[i].id = id THEN [sketch[i] EXCEPT !.y = y] ELSE sketch[i]]
      BY <1>2 DEF handleLayoutChange, Changed
    <2>1a. sketch' = [i \in DOMAIN sketch |-> IF sketch[i].id = id THEN [sketch[i] EXCEPT !.y = y] ELSE sketch[i]]
      BY <2>1
    <2>2. DOMAIN sketch' = DOMAIN sketch /\ sketch' = [i \in DOMAIN sketch |-> sketch'[i]]
      BY <2>1a
    <2>3. \A i \in DOMAIN sketch : sketch'[i] = sketch[i] \/ TileDeclared(sketch'[i])
      <3> SUFFICES ASSUME NEW i \in DOMAIN sketch PROVE sketch'[i] = sketch[i] \/ TileDeclared(sketch'[i])
        OBVIOUS
      <3>1. y \in Nat
        BY <2>1 DEF DEFAULT_TILE_H
      <3>2. TileDeclared([sketch[i] EXCEPT !.y = y])
        BY <3>1, HiddenOK DEF TilesOK
      <3>3. sketch'[i] = sketch[i] \/ sketch'[i] = [sketch[i] EXCEPT !.y = y]
        BY <2>1a
      <3> QED BY <3>2, <3>3
    <2> QED BY <2>2, <2>3, ChangedOK
  <1> QED BY <1>1, <1>2

\* A form of the dialog with another type, pick, aggregate, bucket or mode.
LEMMA ConfigureOK == ASSUME DialogOK(dialog), Open, Configure PROVE DialogOK(dialog')
  <1>1. \/ dialog = [target |-> "new", form |-> dialog.form]
        \/ dialog = [target |-> dialog.target, tile |-> dialog.tile, form |-> dialog.form] /\ TileDeclared(dialog.tile)
    BY DEF DialogOK, Open
  <1>2. FormOK(dialog.form)
    BY DEF DialogOK, Open
  <1>3. PICK f : dialog' = [dialog EXCEPT !.form = f] /\ FormOK(f)
    <2> DEFINE d == dialog.form
    <2>1. d = [type |-> d.type, picks |-> d.picks, chart |-> d.chart, stat |-> d.stat, bucket |-> d.bucket,
               mode |-> d.mode]
          /\ d.type \in TILE_TYPES /\ d.chart \in ChartAggregates /\ d.bucket \in Granularities
      BY <1>2 DEF FormOK
    <2>2. ASSUME NEW x \in TILE_TYPES, dialog' = [dialog EXCEPT !.form.type = x]
          PROVE  \E f : dialog' = [dialog EXCEPT !.form = f] /\ FormOK(f)
      <3> DEFINE f == [d EXCEPT !.type = x]
      <3>1. dialog' = [dialog EXCEPT !.form = f]
        BY <2>2
      <3>2. f = [type |-> x, picks |-> d.picks, chart |-> d.chart, stat |-> d.stat, bucket |-> d.bucket,
                 mode |-> d.mode]
        BY <2>1
      <3> HIDE DEF f
      <3>3. FormOK(f)
        BY <2>1, <3>2 DEF FormOK
      <3> QED BY <3>1, <3>3
    <2>3. ASSUME NEW x, dialog' = [dialog EXCEPT !.form.picks = x]
          PROVE  \E f : dialog' = [dialog EXCEPT !.form = f] /\ FormOK(f)
      <3> DEFINE f == [d EXCEPT !.picks = x]
      <3>1. dialog' = [dialog EXCEPT !.form = f]
        BY <2>3
      <3>2. f = [type |-> d.type, picks |-> x, chart |-> d.chart, stat |-> d.stat,
                 bucket |-> d.bucket, mode |-> d.mode]
        BY <2>1
      <3> HIDE DEF f
      <3>3. FormOK(f)
        BY <2>1, <3>2 DEF FormOK
      <3> QED BY <3>1, <3>3
    <2>4. ASSUME NEW x \in ChartAggregates, dialog' = [dialog EXCEPT !.form.chart = x]
          PROVE  \E f : dialog' = [dialog EXCEPT !.form = f] /\ FormOK(f)
      <3> DEFINE f == [d EXCEPT !.chart = x]
      <3>1. dialog' = [dialog EXCEPT !.form = f]
        BY <2>4
      <3>2. f = [type |-> d.type, picks |-> d.picks, chart |-> x, stat |-> d.stat, bucket |-> d.bucket,
                 mode |-> d.mode]
        BY <2>1
      <3> HIDE DEF f
      <3>3. FormOK(f)
        BY <2>1, <3>2 DEF FormOK
      <3> QED BY <3>1, <3>3
    <2>5. ASSUME NEW x \in Granularities, dialog' = [dialog EXCEPT !.form.bucket = x]
          PROVE  \E f : dialog' = [dialog EXCEPT !.form = f] /\ FormOK(f)
      <3> DEFINE f == [d EXCEPT !.bucket = x]
      <3>1. dialog' = [dialog EXCEPT !.form = f]
        BY <2>5
      <3>2. f = [type |-> d.type, picks |-> d.picks, chart |-> d.chart, stat |-> d.stat, bucket |-> x,
                 mode |-> d.mode]
        BY <2>1
      <3> HIDE DEF f
      <3>3. FormOK(f)
        BY <2>1, <3>2 DEF FormOK
      <3> QED BY <3>1, <3>3
    <2>6. ASSUME NEW x, dialog' = [dialog EXCEPT !.form.mode = x] \/ dialog' = [dialog EXCEPT !.form.stat = x]
          PROVE  \E f : dialog' = [dialog EXCEPT !.form = f] /\ FormOK(f)
      <3> DEFINE f == [d EXCEPT !.mode = x]
                 h == [d EXCEPT !.stat = x]
      <3>1. dialog' = [dialog EXCEPT !.form = f] \/ dialog' = [dialog EXCEPT !.form = h]
        BY <2>6
      <3>2. f = [type |-> d.type, picks |-> d.picks, chart |-> d.chart, stat |-> d.stat, bucket |-> d.bucket,
                 mode |-> x]
            /\ h = [type |-> d.type, picks |-> d.picks, chart |-> d.chart, stat |-> x, bucket |-> d.bucket,
                    mode |-> d.mode]
        BY <2>1
      <3> HIDE DEF f, h
      <3>3. FormOK(f)
        BY <2>1, <3>2 DEF FormOK
      <3>4. FormOK(h)
        BY <2>1, <3>2 DEF FormOK
      <3> QED BY <3>1, <3>3, <3>4
    <2>7. \/ \E x \in TILE_TYPES : dialog' = [dialog EXCEPT !.form.type = x]
          \/ \E x : dialog' = [dialog EXCEPT !.form.picks = x]
          \/ \E x \in ChartAggregates : dialog' = [dialog EXCEPT !.form.chart = x]
          \/ \E x \in Granularities : dialog' = [dialog EXCEPT !.form.bucket = x]
          \/ \E x : dialog' = [dialog EXCEPT !.form.mode = x] \/ dialog' = [dialog EXCEPT !.form.stat = x]
      BY DEF Configure, Granularities
    <2> HIDE DEF d
    <2> QED BY <2>2, <2>3, <2>4, <2>5, <2>6, <2>7
  <1>4. CASE dialog = [target |-> "new", form |-> dialog.form]
    <2>1. dialog' = [target |-> "new", form |-> f]
      BY <1>3, <1>4
    <2> QED BY <1>3, <2>1 DEF DialogOK
  <1>5. CASE dialog = [target |-> dialog.target, tile |-> dialog.tile, form |-> dialog.form]
             /\ TileDeclared(dialog.tile)
    <2>1. dialog' = [target |-> dialog.target, tile |-> dialog.tile, form |-> f]
      BY <1>3, <1>5
    <2> QED BY <1>3, <1>5, <2>1 DEF DialogOK
  <1> QED BY <1>1, <1>4, <1>5

LEMMA Retyped ==
    ASSUME NEW tl, NEW x, NEW c,
           tl = [id |-> tl.id, type |-> tl.type, config |-> tl.config, hidden |-> tl.hidden, y |-> tl.y, h |-> tl.h]
    PROVE  [tl EXCEPT !.type = x, !.config = c]
             = [id |-> tl.id, type |-> x, config |-> c, hidden |-> tl.hidden, y |-> tl.y, h |-> tl.h]
  <1> DEFINE u == [tl EXCEPT !.type = x]
  <1>1. u = [id |-> tl.id, type |-> x, config |-> tl.config, hidden |-> tl.hidden, y |-> tl.y, h |-> tl.h]
    OBVIOUS
  <1>2. [tl EXCEPT !.type = x, !.config = c] = [u EXCEPT !.config = c]
    OBVIOUS
  <1> HIDE DEF u
  <1> QED BY <1>1, <1>2

LEMMA SubmitOK == ASSUME BoardTilesInv, submitWidget PROVE BoardTilesInv'
  <1> DEFINE d == dialog.form
  <1>1. FormOK(d) /\ Buildable(d) /\ TilesOK(sketch)
    BY DEF submitWidget, BoardTilesInv, DialogOK, Open
  <1>2. UNCHANGED <<records, server, saved, requests>> /\ (dialog' = dialog \/ dialog' = Closed)
    BY DEF submitWidget
  <1>3. \/ sketch' = sketch
        \/ \E id \in TileIds \ (Ids(sketch) \union Ids(server)) :
              sketch' = Append(sketch,
                  [id |-> id, type |-> dialog.form.type, config |-> Built(dialog.form), hidden |-> FALSE,
                   y |-> nextTilePosition(Visible(sketch)), h |-> DEFAULT_TILE_H])
        \/ sketch' = [i \in DOMAIN sketch |->
              IF sketch[i].id = dialog.target
              THEN [sketch[i] EXCEPT !.type = dialog.form.type, !.config = Built(dialog.form)] ELSE sketch[i]]
    BY Zenon DEF submitWidget, Changed
  <1>4. ASSUME NEW id, sketch' = Append(sketch,
                  [id |-> id, type |-> dialog.form.type, config |-> Built(dialog.form), hidden |-> FALSE,
                   y |-> nextTilePosition(Visible(sketch)), h |-> DEFAULT_TILE_H])
        PROVE  TilesOK(sketch')
    <2> DEFINE y == nextTilePosition(Visible(sketch))
               tl == [id |-> id, type |-> d.type, config |-> Built(d), hidden |-> FALSE, y |-> y, h |-> DEFAULT_TILE_H]
    <2>1. TilesOK(Visible(sketch))
      BY <1>1, TilesSifted DEF Visible
    <2>2. y \in Nat
      BY <2>1, NextTileType
    <2>3. sketch' = Append(sketch, tl)
      BY <1>4
    <2> HIDE DEF y, d
    <2>4. /\ tl.type = d.type /\ tl.config = Built(d) /\ tl.y = y /\ tl.h = 6
          /\ tl = [id |-> tl.id, type |-> tl.type, config |-> tl.config, hidden |-> tl.hidden, y |-> tl.y, h |-> tl.h]
      BY DEF DEFAULT_TILE_H
    <2> HIDE DEF tl
    <2>5. tl.y \in Nat /\ tl.h \in Nat
      BY <2>2, <2>4
    <2>6. TileDeclared(tl)
      BY <1>1, <2>4, <2>5, BuiltDeclared
    <2> QED BY <1>1, <2>3, <2>6, TilesAdded
  <1>5. ASSUME sketch' = [i \in DOMAIN sketch |->
              IF sketch[i].id = dialog.target
              THEN [sketch[i] EXCEPT !.type = dialog.form.type, !.config = Built(dialog.form)] ELSE sketch[i]]
        PROVE  TilesOK(sketch')
    <2>1. DOMAIN sketch' = DOMAIN sketch /\ sketch' = [i \in DOMAIN sketch |-> sketch'[i]]
      BY Zenon, <1>5
    <2>2. \A i \in DOMAIN sketch : sketch'[i] = sketch[i] \/ TileDeclared(sketch'[i])
      <3> SUFFICES ASSUME NEW i \in DOMAIN sketch, sketch'[i] # sketch[i] PROVE TileDeclared(sketch'[i])
        OBVIOUS
      <3> DEFINE s == sketch[i]
                 c == Built(d)
                 x == d.type
                 tl == [s EXCEPT !.type = x, !.config = c]
      <3>1. sketch'[i] = tl
        BY Zenon, <1>5
      <3>2. TileDeclared(s)
        BY <1>1 DEF TilesOK
      <3>3. /\ s = [id |-> s.id, type |-> s.type, config |-> s.config, hidden |-> s.hidden, y |-> s.y, h |-> s.h]
            /\ s.y \in Nat /\ s.h \in Nat
        BY <3>2 DEF TileDeclared
      <3> HIDE DEF s, d, c, x
      <3>4. tl = [id |-> s.id, type |-> x, config |-> c, hidden |-> s.hidden, y |-> s.y, h |-> s.h]
        BY Zenon, <3>3, Retyped
      <3> HIDE DEF tl
      <3>5. /\ tl.type = x /\ tl.config = c /\ tl.y = s.y /\ tl.h = s.h
            /\ tl = [id |-> tl.id, type |-> tl.type, config |-> tl.config, hidden |-> tl.hidden, y |-> tl.y, h |-> tl.h]
        BY <3>4
      <3>6. TileDeclared(tl)
        BY <1>1, <3>3, <3>5, BuiltDeclared DEF c, x
      <3> QED BY <3>1, <3>6
    <2> QED BY <1>1, <2>1, <2>2, ChangedOK
  <1>6. TilesOK(sketch')
    BY Zenon, <1>1, <1>3, <1>4, <1>5
  <1>7. DialogOK(dialog')
    BY <1>2 DEF BoardTilesInv, DialogOK
  <1> QED BY <1>2, <1>6, <1>7 DEF BoardTilesInv

LEMMA OpenDialogOK == ASSUME TilesOK(sketch), OpenDialog PROVE DialogOK(dialog')
  <1>1. CASE dialog' = [target |-> "new", form |-> Fresh]
    BY <1>1, FreshOK DEF DialogOK
  <1>2. CASE \E i \in DOMAIN Visible(sketch) :
                dialog' = [target |-> Visible(sketch)[i].id, tile |-> Visible(sketch)[i],
                           form |-> Seeded(Visible(sketch)[i])]
    <2>1. PICK i \in DOMAIN Visible(sketch) :
                dialog' = [target |-> Visible(sketch)[i].id, tile |-> Visible(sketch)[i],
                           form |-> Seeded(Visible(sketch)[i])]
      BY <1>2
    <2>2. TilesOK(Visible(sketch))
      BY TilesSifted DEF Visible
    <2> DEFINE tl == Visible(sketch)[i]
               f == Seeded(tl)
    <2>3. TileDeclared(tl)
      BY <2>2 DEF TilesOK
    <2> HIDE DEF tl
    <2>4. FormOK(f)
      BY <2>3, SeededOK
    <2>5. dialog' = [target |-> tl.id, tile |-> tl, form |-> f]
      BY <2>1 DEF tl
    <2> HIDE DEF f
    <2> QED BY <2>3, <2>4, <2>5 DEF DialogOK
  <1> QED BY <1>1, <1>2 DEF OpenDialog

LEMMA BoardTilesNext == ASSUME BoardDeclared, BoardTilesInv, BoardNext PROVE BoardTilesInv'
  <1> USE DEF Click, Toolbar, Sketching
  <1>1. CASE AnswerGet
    <2>1. UNCHANGED <<records, server, sketch, dialog>> /\ (saved' = server \/ saved' = <<>>)
          /\ requests' = Tail(requests) /\ requests # <<>>
      BY <1>1 DEF AnswerGet
    <2>2. RequestsOK(requests')
      BY <2>1, AnswersOK DEF BoardTilesInv
    <2>3. TilesOK(<<>>)
      BY DEF TilesOK, IsSeq, ToSet
    <2> QED BY <2>1, <2>2, <2>3 DEF BoardTilesInv
  <1>2. CASE AnswerSaveEdit
    <2>1. /\ requests # <<>> /\ Head(requests).kind = "save" /\ requests' = Tail(requests)
          /\ dialog' = Rerendered /\ UNCHANGED records
          /\ server' \in {server, Sent} /\ saved' \in {saved, Sent} /\ sketch' \in {sketch, <<>>}
      BY <1>2 DEF AnswerSaveEdit, Kept
    <2>2. RequestsOK(requests') /\ TilesOK(Sent)
      BY <2>1, AnswersOK DEF BoardTilesInv, Sent
    <2>3. TilesOK(<<>>)
      BY DEF TilesOK, IsSeq, ToSet
    <2>4. DialogOK(dialog')
      BY <2>1, RerenderedOK DEF BoardTilesInv
    <2> QED BY <2>1, <2>2, <2>3, <2>4 DEF BoardTilesInv
  <1>3. CASE saveEdit
    <2> DEFINE e == [kind |-> "save", tiles |-> sketch]
               q == requests
               n == Len(q)
               u == Append(q, e)
    <2>1. UNCHANGED <<records, server, saved, sketch, dialog>> /\ requests' = u
      BY <1>3 DEF saveEdit
    <2>2. e.tiles = sketch
      OBVIOUS
    <2> HIDE DEF e
    <2>3. /\ IsSeq(u) /\ n \in Nat /\ DOMAIN q = 1..n /\ DOMAIN u = 1..(n + 1)
          /\ u[n + 1] = e /\ \A k \in 1..n : u[k] = q[k]
      BY SeqAppend DEF BoardTilesInv, RequestsOK
    <2> HIDE DEF u, n
    <2>4. \A k \in DOMAIN u : k = n + 1 \/ k \in 1..n
      BY <2>3
    <2>5. \A k \in DOMAIN u : u[k].kind = "save" => TilesOK(u[k].tiles)
      <3>1. TilesOK(sketch) /\ \A k \in DOMAIN q : q[k].kind = "save" => TilesOK(q[k].tiles)
        BY DEF BoardTilesInv, RequestsOK
      <3> QED BY <2>2, <2>3, <2>4, <3>1
    <2>6. RequestsOK(u)
      BY <2>3, <2>5 DEF RequestsOK
    <2> QED BY <2>1, <2>6 DEF BoardTilesInv
  <1>4. CASE startEdit \/ cancelEdit
    <2>1. UNCHANGED <<records, server, saved, dialog, requests>> /\ sketch' \in {saved, <<>>}
      BY <1>4 DEF startEdit, cancelEdit
    <2>2. TilesOK(<<>>)
      BY DEF TilesOK, IsSeq, ToSet
    <2> QED BY <2>1, <2>2 DEF BoardTilesInv
  <1>5. CASE Resize
    <2>1. UNCHANGED <<records, server, saved, sketch, requests>> /\ dialog' = Rerendered
      BY <1>5 DEF Resize
    <2>2. DialogOK(dialog')
      BY <2>1, RerenderedOK DEF BoardTilesInv
    <2> QED BY <2>1, <2>2 DEF BoardTilesInv
  <1>6. CASE hideTile \/ restoreTile \/ handleLayoutChange
    <2>1. UNCHANGED <<records, server, saved, dialog, requests>>
      BY <1>6 DEF hideTile, restoreTile, handleLayoutChange
    <2>2. TilesOK(sketch')
      BY <1>6, HideOK DEF BoardTilesInv
    <2> QED BY <2>1, <2>2 DEF BoardTilesInv
  <1>7. CASE OpenDialog
    <2>1. UNCHANGED <<records, server, saved, sketch, requests>>
      BY <1>7 DEF OpenDialog
    <2>2. DialogOK(dialog')
      BY <1>7, OpenDialogOK DEF BoardTilesInv
    <2> QED BY <2>1, <2>2 DEF BoardTilesInv
  <1>8. CASE Configure
    <2>1. UNCHANGED <<records, server, saved, sketch, requests>> /\ Open
      BY <1>8 DEF Configure
    <2>2. DialogOK(dialog')
      BY <1>8, <2>1, ConfigureOK DEF BoardTilesInv
    <2> QED BY <2>1, <2>2 DEF BoardTilesInv
  <1>9. CASE CloseDialog
    <2>1. UNCHANGED <<records, server, saved, sketch, requests>> /\ dialog' = Closed
      BY <1>9 DEF CloseDialog
    <2> QED BY <2>1 DEF BoardTilesInv, DialogOK
  <1>10. CASE submitWidget
    BY <1>10, SubmitOK
  <1>11. CASE OtherSaves
    <2>1. UNCHANGED <<records, saved, sketch, dialog, requests>> /\ server' \in Stored
      BY <1>11 DEF OtherSaves
    <2> QED BY <2>1, StoredOK DEF BoardTilesInv
  <1> QED BY <1>1, <1>2, <1>3, <1>4, <1>5, <1>6, <1>7, <1>8, <1>9, <1>10, <1>11 DEF BoardNext

LEMMA CardsDeclared == ASSUME BoardTilesInv PROVE \A i \in DOMAIN Cards : TileDeclared(Cards[i])
  <1>1. TilesOK(saved) /\ TilesOK(TilesShown)
    BY DEF BoardTilesInv, TilesShown
  <1>2. CASE ~phone
    <2>1. TilesOK(Visible(TilesShown)) /\ Cards = Visible(TilesShown)
      BY <1>1, <1>2, TilesSifted DEF Visible, Cards
    <2> QED BY <2>1 DEF TilesOK
  <1>3. CASE phone
    <2> DEFINE s == Visible(saved)
               w == [i \in DOMAIN Visible(saved) |-> Visible(saved)[i].y]
               u == ByWeight(s, w)
    <2>1. TilesOK(s)
      BY <1>1, TilesSifted DEF Visible
    <2>2. Cards = u
      BY <1>3 DEF Cards
    <2>3. \A i \in DOMAIN s : w[i] = s[i].y
      OBVIOUS
    <2> HIDE DEF s, w, u
    <2>4. IsSeq(s) /\ \A i \in DOMAIN s : w[i] \in Int
      BY <2>1, <2>3 DEF TilesOK, TileDeclared
    <2>5. Reordered(u, s)
      BY <2>4, ByWeightIs DEF u
    <2>6. \A k \in DOMAIN u : \E i \in DOMAIN s : u[k] = s[i]
      BY <2>5 DEF Reordered
    <2> QED BY <2>1, <2>2, <2>6 DEF TilesOK
  <1> QED BY <1>2, <1>3

LEMMA BoardTilesStep == ASSUME BoardDeclared PROVE BoardTilesInv /\ [Next]_vars => BoardTilesInv'
  <1> SUFFICES ASSUME BoardTilesInv, [Next]_vars PROVE BoardTilesInv'
    OBVIOUS
  <1>1. CASE BoardStep
    BY <1>1, BoardTilesNext DEF BoardStep
  <1>2. CASE GraphMode
    BY <1>2, OpenBoardOK DEF GraphMode
  <1>3. CASE UNCHANGED boardVars
    BY <1>3 DEF boardVars, BoardTilesInv
  <1>4. Next => BoardStep \/ GraphMode \/ UNCHANGED boardVars
    BY DEF Next, Register, ModulePage, FormStep, PropertyStep, PrintReportPage, PrintStep
  <1> QED BY <1>1, <1>2, <1>3, <1>4 DEF vars

\* Every tile on the screen is whole and counts each record that has what it needs
\* once, with no two marks over each other and a badge where records are missing, for
\* any records, layouts and clicks (build, xySeries, pieSlices, BarChart, PartialDataBadge).
THEOREM TilesCountOnceHolds == ASSUME BoardDeclared PROVE Spec => []TilesCountOnce
  <1>1. Init => BoardTilesInv
    BY BoardTilesInit
  <1>2. BoardTilesInv /\ [Next]_vars => BoardTilesInv'
    BY BoardTilesStep
  <1>3. BoardTilesInv => TilesCountOnce
    BY CardsDeclared, CardsCountOnce DEF BoardTilesInv, BoardDeclared
  <1> QED BY <1>1, <1>2, <1>3, PTL DEF Spec

=============================================================================
