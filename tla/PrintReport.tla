---------------------------- MODULE PrintReport -----------------------------
(***************************************************************************)
(* The print page of a report (print/report/[name]/[id]/page.tsx), which   *)
(* the PDF service opens with a token made for it: it reads the record,    *)
(* its pictures, the rows of its tables and the company of the caller one  *)
(* after the other, while other users go on editing, and prints what it    *)
(* has got.                                                                *)
(***************************************************************************)
EXTENDS Integers, FiniteSetsExt, TLC, ReportDescriptor

CONSTANTS
    Documents,     \* records there may be: a value for every field of the report
    RowLists,      \* the rows a document may have: sequences of amounts
    Companies,     \* profiles of the company of the caller
    RowsPerPrint,  \* the page size of a table
    Subtotal,      \* the name of the field the server keeps as the sum of the rows
    MaxRows        \* bound: rows of a document

ASSUME PrintConstants ==
    /\ RowsPerPrint \in Nat
    /\ \A rows \in RowLists : rows \in Seq(ToSet(rows))

VARIABLES
    document,  \* on the server: the record and its rows
    profile,   \* on the server: the company of the caller
    report,    \* what is printed
    reads,     \* the reads still to come
    sheet,     \* the record as read and completed so far
    print,     \* off, reading, failed (nothing to print), done
    held,      \* ghost: the document when it was read
    moved,     \* ghost: it was edited since
    cut        \* ghost: a read of something besides the record failed

printVars == <<document, profile, report, reads, sheet, print, held, moved, cut>>

SumOf(rows) == FoldLeft(LAMBDA a, b : a + b, 0, rows)
Kept_(values, rows) == [values |-> With(values, Subtotal, SumOf(rows)), rows |-> rows]
Nowhere == [values |-> <<>>, rows |-> <<>>]

PrintInit ==
    /\ document = Nowhere /\ profile = <<>> /\ report = Nowhere /\ reads = <<>> /\ sheet = <<>>
    /\ print = "off" /\ held = Nowhere /\ moved = FALSE /\ cut = FALSE

\* The reads of a report, in the order of the page.
ReadsOf(r) ==
    LET images == reportImageSources(r)
        tables == reportTableRelations(r)
        fields == reportCompanyFallbackFields(r)
    IN <<[read |-> "record"]>>
       \o [i \in DOMAIN images |-> [read |-> "picture", name |-> images[i].source]]
       \o [i \in DOMAIN tables |-> [read |-> "rows", name |-> tables[i].source]]
       \o (IF fields # <<>> THEN <<[read |-> "company", fields |-> ToSet(fields)]>> ELSE <<>>)

OpenPrint(r) ==
    /\ \E values \in Documents, rows \in RowLists : document' = Kept_(values, rows)
    /\ profile' \in Companies
    /\ report' = r /\ reads' = ReadsOf(r) /\ print' = "reading"
    /\ UNCHANGED <<sheet, held, moved, cut>>

Reading(what) == print = "reading" /\ reads # <<>> /\ Head(reads).read = what /\ reads' = Tail(reads)
Becomes(value) == sheet' = With(sheet, Head(reads).name, value)

\* A record that is not there, or a token that is not good any more: nothing to print.
ReadRecord ==
    /\ Reading("record")
    /\ \/ sheet' = document.values /\ held' = document /\ UNCHANGED print
       \/ print' = "failed" /\ UNCHANGED <<sheet, held>>
    /\ UNCHANGED <<document, profile, report, moved, cut>>

\* The flag of a picture becomes its content; an error here ends the page.
ReadPicture ==
    /\ Reading("picture")
    /\ LET flag == sheet[Head(reads).name]
       IN \/ flag # "true" /\ Becomes(Blank) /\ UNCHANGED <<print, cut>>
          \/ flag = "true" /\ Becomes("content") /\ UNCHANGED <<print, cut>>
          \/ flag = "true" /\ Becomes(Blank) /\ cut' = TRUE /\ UNCHANGED print
          \/ flag = "true" /\ print' = "failed" /\ UNCHANGED <<sheet, cut>>
    /\ UNCHANGED <<document, profile, report, held, moved>>

\* One page of the rows, as they are now; a read that fails is an empty table.
ReadRows ==
    /\ Reading("rows")
    /\ \/ Becomes(SubSeq(document.rows, 1, Min({RowsPerPrint, Len(document.rows)}))) /\ UNCHANGED cut
       \/ Becomes(<<>>) /\ cut' = TRUE
    /\ UNCHANGED <<document, profile, report, print, held, moved>>

\* Mutant: the company in place of what the record says.
CompanyFirst(node) == profile[node.fallback]

\* Only for what the record leaves blank.
Completed(node) == IF sheet[node.name] = Blank THEN profile[node.fallback] ELSE sheet[node.name]

\* Two reads, the company that is active and its profile; without them nothing is filled in.
ReadCompany ==
    /\ Reading("company")
    /\ \/ /\ UNCHANGED cut
          /\ LET fields == Head(reads).fields
                 node(name) == CHOOSE n \in fields : n.name = name
             IN sheet' = Over([name \in {n.name : n \in fields} |-> Completed(node(name))], sheet)
       \/ UNCHANGED sheet /\ cut' = TRUE
    /\ UNCHANGED <<document, profile, report, print, held, moved>>

Render ==
    /\ print = "reading" /\ reads = <<>> /\ print' = "done"
    /\ UNCHANGED <<document, profile, report, reads, sheet, held, moved, cut>>

\* Another user adds or deletes a row; the server keeps the sum.
Edited(rows) == {Append(rows, 1)} \union (IF rows = <<>> THEN {} ELSE {Tail(rows)})
OtherEdits ==
    /\ print = "reading" /\ ~moved
    /\ \E rows \in Edited(document.rows) : Len(rows) <= MaxRows /\ document' = Kept_(document.values, rows)
    /\ moved' = (sheet # <<>>)
    /\ UNCHANGED <<profile, report, reads, sheet, print, held, cut>>

PrintNext == ReadRecord \/ ReadPicture \/ ReadRows \/ ReadCompany \/ Render \/ OtherEdits

-----------------------------------------------------------------------------

\* What the report takes from where: no name is both a field, a picture and a table,
\* a picture is declared once, a field has one fallback, the sum of the rows has
\* none, tables are related, and the documents have the fields and pictures.
ReportDeclared(r) ==
    LET pictures == reportImageSources(r)
        sources == {n.source : n \in ToSet(pictures)}
        tables == {n \in Nodes(r) : n.kind = "table"}
        fields == {n \in Nodes(r) : n.kind = "field"}
        names == {n.name : n \in fields}
    IN /\ r.layout \in Seq(Nodes(r))
       /\ \A i, j \in DOMAIN pictures : pictures[i].source = pictures[j].source => i = j
       /\ \A t \in tables : Related(t) /\ t.source \notin sources \union names \union {Subtotal}
       /\ sources \intersect (names \union {Subtotal}) = {}
       /\ \A n \in fields : n.name = Subtotal => n.fallback = NoFallback
       /\ \A m, n \in fields : m.name = n.name => m.fallback = n.fallback
       /\ \A values \in Documents : sources \union names \subseteq DOMAIN values \union {Subtotal}


(***************************************************************************)
(* What is printed agrees with itself: a report never has another value    *)
(* than the record's own where the record has one, and a picture only if   *)
(* the record has one; when nobody edits the document in between and no    *)
(* read fails, its blanks are the company's, every row is there up to one  *)
(* page of them, and the printed sum is the sum of the printed rows, if    *)
(* the page has them all (PrintReportPage, ReportRenderer).                *)
(***************************************************************************)
PrintedAgrees ==
    print = "done" =>
        LET out == ToSet(ReportRenderer(report, sheet))
            own(name) == held.values[name]
            named == {n \in out : n.kind = "field" /\ n.name # Subtotal}
        IN /\ \A n \in named : own(n.name) # Blank => n.value = own(n.name)
           /\ \A n \in out : n.kind = "image" => own(n.name) = "true"
           /\ ~moved /\ ~cut =>
                /\ \A n \in ToSet(reportCompanyFallbackFields(report)) :
                      own(n.name) = Blank => sheet[n.name] = profile[n.fallback]
                /\ \A n \in ToSet(reportImageSources(report)) :
                      own(n.source) = "true" => \E shown \in out : shown.kind = "image" /\ shown.name = n.source
                /\ \A t \in {n \in out : n.kind = "table"} :
                      /\ Len(t.rows) = Min({Len(held.rows), RowsPerPrint})
                      /\ Len(held.rows) <= RowsPerPrint =>
                            \A n \in out : n.kind = "field" /\ n.name = Subtotal => n.value = SumOf(t.rows)
=============================================================================
