----------------------------- MODULE EditScreen -----------------------------
(***************************************************************************)
(* A form as its descriptor says (layout-renderer.tsx): the mounted leaves *)
(* and what their widgets write (widgets.tsx), the draft with its defaults,*)
(* handlers and computed fields (stores.ts), and the notebook with the     *)
(* pages the record's users add to it.  FormPage has what this module      *)
(* leaves out: relations, files, header buttons and the log.               *)
(***************************************************************************)
EXTENDS ViewRegistry

CONSTANTS
    Texts,       \* what may be typed into a text field or a page
    Typed,       \* what may be typed into a number field
    Number(_),   \* what parse makes of it (NULL: not a number)
    Round(_),    \* the integer next to a number
    PageIds,     \* rows of the notebook_page table
    MaxEdits     \* bound: edits and clicks of one visit

VARIABLES
    form,      \* the descriptor shown, its layout normalized (NoForm: none is)
    initial,   \* the record the page was loaded with
    draft, dirty, problem,
    picked,    \* the country last picked in a phone field
    record,    \* the row on the server
    pages,     \* the record's notebook pages on the server, in creation order
    tabs,      \* the runtime pages shown
    active,    \* the index of the active tab, from 0
    addBusy,
    editors,   \* page -> the content typed, and whether a call is under way
    sent,      \* the Server Actions under way, first in first out
    edits,     \* ghost: edits and clicks so far
    crossed    \* ghost: a page was added with another call of the notebook under way, or the record was left

noteVars == <<pages, tabs, active, addBusy, editors>>
fieldVars == <<form, initial, draft, dirty, problem, picked, record>>
screenVars == <<fieldVars, noteVars, sent, edits, crossed>>

NoForm == [viewType |-> "none"]

ScreenInit ==
    /\ form = NoForm /\ initial = Nothing /\ draft = Nothing /\ dirty = FALSE /\ problem = FALSE
    /\ picked = "33" /\ record = Nothing
    /\ pages = <<>> /\ tabs = <<>> /\ active = 0 /\ addBusy = FALSE /\ editors = <<>>
    /\ sent = <<>> /\ edits = 0 /\ crossed = FALSE

Shown == form # NoForm
Act == Shown /\ edits < MaxEdits /\ edits' = edits + 1

-----------------------------------------------------------------------------
(* The leaves, and what a widget writes. *)

\* LayoutNodeView unmounts a hidden leaf; a computed or read-only one is disabled.
Mounted(f) == f.name \in ToSet(layoutFieldOrder(form.layout)) /\ isFieldVisible(f, draft)
Disabled(f) == f.compute # Omitted \/ evaluateCondition(f.readOnlyIf, draft)

Write(key, value) == [key |-> key, value |-> value]
One(f, values) == {<<Write(f.name, v)>> : v \in values}

\* useNumericInput: blank is null, text that is no number changes nothing.
NumberInputs(f) ==
    LET typed == {Number(raw) : raw \in {r \in Typed : r = "" \/ Number(r) # NULL}}
    IN CASE f.widget = "int" -> {IF v = NULL THEN NULL ELSE Round(v) : v \in typed}
         [] f.widget = "percent" -> {IF v = NULL THEN NULL ELSE v \o "%" : v \in typed}
         [] f.widget = "stars" -> {Round(v) : v \in typed \ {NULL}} \union {"0"}
         [] OTHER -> typed

\* selection/linked: the option, then the fields its preset sets.
Presets(f, option) ==
    IF option \in DOMAIN f.presets
    THEN LET keys == SetToSeq(DOMAIN f.presets[option])
         IN [i \in DOMAIN keys |-> Write(keys[i], f.presets[option][keys[i]])]
    ELSE <<>>

\* A phone number: E.164 in a text column, no sign in a numeric one.
Dials == {"33", "351"}
Digits == {"", "1"}
E164(f, dial, digits) ==
    IF digits = "" THEN NULL ELSE (IF f.type = "number" THEN "" ELSE "+") \o dial \o digits
splitPhone(f, value) ==
    LET fit == {x \in Dials \X (Digits \ {""}) : E164(f, x[1], x[2]) = value}
    IN IF fit = {} THEN <<picked, "">> ELSE CHOOSE x \in fit : TRUE

\* The address: the street line writes two columns, a suggestion all of them.
AddressWrites(f) ==
    LET sub(suffix, v) == Write(addressSubKey(f.name, suffix), v)
    IN {<<sub("number", NULL), sub("street", v)>> : v \in Texts}
       \union {<<sub("zip_code", v)>> : v \in Texts}
       \union {[i \in DOMAIN ADDRESS_SUFFIXES |-> sub(ADDRESS_SUFFIXES[i], "osm")]}

\* The sequences of writes that the widget of a field may issue.
Writes(f) ==
    CASE f.widget = "table" -> {}   \* read-only rows
      [] f.widget = "phone" -> One(f, {E164(f, splitPhone(f, Value(draft, f.name))[1], d) : d \in Digits})
      [] f.type = "text" -> One(f, Texts)
      [] f.type = "number" -> One(f, NumberInputs(f))
      [] f.type = "date" -> One(f, {"2025-01-01", ""})
      [] f.type = "selection" -> {<<Write(f.name, o)>> \o Presets(f, o) : o \in ToSet(f.options)}
      [] f.type = "boolean" /\ f.widget \in {"switch", Omitted} -> One(f, {"true", "false"})
      [] f.type = "address" -> AddressWrites(f)
      [] OTHER -> {}   \* relations and files: see FormPage

Written(writes) == FoldLeft(LAMBDA acc, w : setField(form, acc, w.key, w.value), draft, writes)

EditField ==
    /\ Act
    /\ \E i \in DOMAIN form.fields :
          LET f == form.fields[i]
          IN /\ Mounted(f) /\ ~Disabled(f)
             /\ \E writes \in Writes(f) : draft' = Written(writes)
    /\ dirty' = TRUE
    /\ UNCHANGED <<form, initial, problem, picked, record, noteVars, sent, crossed>>

\* Another country: a number typed already is written again with its prefix.
PickCountry ==
    /\ Act
    /\ \E i \in DOMAIN form.fields, dial \in Dials :
          LET f == form.fields[i]
              digits == splitPhone(f, Value(draft, f.name))[2]
          IN /\ f.widget = "phone" /\ Mounted(f) /\ ~Disabled(f)
             /\ picked' = dial
             /\ draft' = IF digits = "" THEN draft ELSE Written(<<Write(f.name, E164(f, dial, digits))>>)
             /\ dirty' = (dirty \/ digits # "")
    /\ UNCHANGED <<form, initial, problem, record, noteVars, sent, crossed>>

-----------------------------------------------------------------------------
(* Opening a form, saving and resetting it. *)

HasId(d) == "id" \in DOMAIN d
HasNotebook(d) == \E i \in DOMAIN d.layout : d.layout[i].kind = "notebook"
DeclaredTabs == Cardinality({i \in DOMAIN form.layout : form.layout[i].kind = "page"})
TabCount == DeclaredTabs + Len(tabs)

\* The effect of the notebook when its record changes: the pages are read again.
Dropped(q) == [i \in DOMAIN q |-> IF q[i].kind = "list" THEN [q[i] EXCEPT !.live = FALSE] ELSE q[i]]
ListCalls(d) == IF HasNotebook(d) THEN <<[kind |-> "list", live |-> TRUE]>> ELSE <<>>

\* row: what the server holds of the record (Nothing for a new one).
OpenForm(d, row) ==
    /\ form' = [d EXCEPT !.layout = normalizeLayout(d)]
    /\ initial' = row /\ record' = row
    /\ draft' = seed(d, row) /\ dirty' = FALSE
    /\ problem' = FALSE
    /\ sent' = IF HasId(row) THEN ListCalls(form') ELSE <<>>
    /\ UNCHANGED <<picked, noteVars, edits, crossed>>

Saving == \E i \in DOMAIN sent : sent[i].kind = "save"

Save ==
    /\ Act /\ dirty /\ ~Saving
    /\ IF requiredMissing(form, draft) # {}
       THEN problem' = TRUE /\ UNCHANGED sent
       ELSE /\ sent' = Append(sent, [kind |-> "save", payload |-> stripUnstored(form, draft)])
            /\ UNCHANGED problem
    /\ UNCHANGED <<form, initial, draft, dirty, picked, record, noteVars, crossed>>

\* Back to the page as it was loaded: if the record is left, so are its pages.
Reset ==
    /\ Act /\ dirty /\ ~Saving
    /\ draft' = seed(form, initial) /\ dirty' = FALSE /\ problem' = FALSE
    /\ IF HasId(draft) /\ ~HasId(initial)
       THEN tabs' = <<>> /\ editors' = <<>> /\ sent' = Dropped(sent) /\ crossed' = TRUE
       ELSE UNCHANGED <<tabs, editors, sent, crossed>>
    /\ UNCHANGED <<form, initial, picked, record, pages, active, addBusy>>

Answering(kind) == sent # <<>> /\ Head(sent).kind = kind

\* The answer holds the stored columns; the draft is seeded again, edits under way lost.
AnswerSave ==
    /\ Answering("save")
    /\ LET saved == Over(Head(sent).payload, Over([id |-> "1"], record))
       IN \/ /\ record' = saved
             /\ draft' = seed(form, saved) /\ dirty' = FALSE /\ problem' = FALSE
             /\ sent' = Tail(sent) \o (IF HasId(draft) THEN <<>> ELSE ListCalls(form))
          \/ /\ problem' = TRUE /\ sent' = Tail(sent)
             /\ UNCHANGED <<record, draft, dirty>>
    /\ UNCHANGED <<form, initial, picked, noteVars, edits, crossed>>

-----------------------------------------------------------------------------
(* The notebook. *)

NotebookCall(c) == c.kind \in {"list", "create", "update", "remove"}
Busy(p) == editors[p].busy
Typing(p) == editors[p].content
\* The editors of the pages shown: one that stays keeps what was typed.
EditorsOf(shown) ==
    [p \in {shown[i].id : i \in DOMAIN shown} |->
        IF p \in DOMAIN editors THEN editors[p]
        ELSE [content |-> (CHOOSE x \in ToSet(shown) : x.id = p).content, busy |-> FALSE]]

ShowTabs(shown) == tabs' = shown /\ editors' = EditorsOf(shown)

SelectTab ==
    /\ Act
    /\ \E i \in 0..(TabCount - 1) : i # active /\ active' = i
    /\ UNCHANGED <<fieldVars, pages, tabs, addBusy, editors, sent, crossed>>

\* The index the new tab will have is reckoned at the click.
AddPage ==
    /\ Act /\ HasNotebook(form) /\ HasId(draft) /\ ~addBusy /\ Len(pages) < Cardinality(PageIds)
    /\ sent' = Append(sent, [kind |-> "create", index |-> TabCount])
    /\ addBusy' = TRUE
    /\ crossed' = (crossed \/ \E i \in DOMAIN sent : NotebookCall(sent[i]))
    /\ UNCHANGED <<fieldVars, pages, tabs, active, editors>>

TypeInPage ==
    /\ Act
    /\ \E p \in DOMAIN editors, text \in Texts :
          ~Busy(p) /\ text # Typing(p) /\ editors' = [editors EXCEPT ![p].content = text]
    /\ UNCHANGED <<fieldVars, pages, tabs, active, addBusy, sent, crossed>>

SavePage ==
    /\ Act
    /\ \E i \in DOMAIN tabs :
          LET p == tabs[i].id
          IN /\ ~Busy(p) /\ Typing(p) # tabs[i].content
             /\ editors' = [editors EXCEPT ![p].busy = TRUE]
             /\ sent' = Append(sent, [kind |-> "update", page |-> p, content |-> Typing(p)])
    /\ UNCHANGED <<fieldVars, pages, tabs, active, addBusy, crossed>>

DeletePage ==
    /\ Act
    /\ \E p \in DOMAIN editors :
          /\ ~Busy(p)
          /\ editors' = [editors EXCEPT ![p].busy = TRUE]
          /\ sent' = Append(sent, [kind |-> "remove", page |-> p])
    /\ UNCHANGED <<fieldVars, pages, tabs, active, addBusy, crossed>>

\* A list that fails shows no page; one the record has left is dropped.
AnswerList ==
    /\ Answering("list")
    /\ \/ ~Head(sent).live /\ UNCHANGED <<tabs, editors>>
       \/ Head(sent).live /\ (ShowTabs(pages) \/ ShowTabs(<<>>))
    /\ sent' = Tail(sent)
    /\ UNCHANGED <<fieldVars, pages, active, addBusy, edits, crossed>>

AnswerCreate ==
    /\ Answering("create")
    /\ \/ \E p \in PageIds \ {pages[i].id : i \in DOMAIN pages} :
             LET page == [id |-> p, content |-> ""]
             IN /\ pages' = Append(pages, page)
                /\ ShowTabs(Append(tabs, page))
                /\ active' = Head(sent).index
       \/ UNCHANGED <<pages, tabs, editors, active>>
    /\ addBusy' = FALSE
    /\ sent' = Tail(sent)
    /\ UNCHANGED <<fieldVars, edits, crossed>>

Replaced(s, p, content) ==
    [i \in DOMAIN s |-> IF s[i].id = p THEN [s[i] EXCEPT !.content = content] ELSE s[i]]
ContentOf(s, p) == (CHOOSE x \in ToSet(s) : x.id = p).content

\* Saved: the answer replaces the page.  Failed: the editor goes back to it.
AnswerUpdate ==
    /\ Answering("update")
    /\ LET p == Head(sent).page
       IN \/ /\ p \in {pages[i].id : i \in DOMAIN pages}
             /\ pages' = Replaced(pages, p, Head(sent).content)
             /\ tabs' = Replaced(tabs, p, Head(sent).content)
             /\ editors' = IF p \in DOMAIN editors THEN [editors EXCEPT ![p].busy = FALSE] ELSE editors
          \/ /\ UNCHANGED <<pages, tabs>>
             /\ editors' = IF p \in DOMAIN editors
                           THEN [editors EXCEPT ![p] = [content |-> ContentOf(tabs, p), busy |-> FALSE]]
                           ELSE editors
    /\ sent' = Tail(sent)
    /\ UNCHANGED <<fieldVars, active, addBusy, edits, crossed>>

\* Ids are keys: one page at most has it.
Others(s, p) ==
    LET at == {i \in DOMAIN s : s[i].id = p} IN IF at = {} THEN s ELSE RemoveAt(s, CHOOSE i \in at : TRUE)

\* onPageDeleted: the first tab is shown.
KeepIndex == UNCHANGED active
BackToFirst == active' = 0
onPageDeleted(p) == ShowTabs(Others(tabs, p)) /\ BackToFirst

AnswerRemove ==
    /\ Answering("remove")
    /\ LET p == Head(sent).page
       IN \/ pages' = Others(pages, p) /\ onPageDeleted(p)
          \/ /\ UNCHANGED <<pages, tabs, active>>
             /\ editors' = IF p \in DOMAIN editors THEN [editors EXCEPT ![p].busy = FALSE] ELSE editors
    /\ sent' = Tail(sent)
    /\ UNCHANGED <<fieldVars, addBusy, edits, crossed>>

ScreenNext ==
    \/ EditField \/ PickCountry \/ Save \/ Reset \/ AnswerSave
    \/ SelectTab \/ AddPage \/ TypeInPage \/ SavePage \/ DeletePage
    \/ AnswerList \/ AnswerCreate \/ AnswerUpdate \/ AnswerRemove

-----------------------------------------------------------------------------

(***************************************************************************)
(* While a form is shown every computed field of it holds what its         *)
(* function gives for the other values of the draft, whichever fields,     *)
(* handlers, answers and resets led there (behaviors.ts, stores.ts).       *)
(***************************************************************************)
ComputedAgree == Shown => Agrees(form, draft)

(***************************************************************************)
(* The notebook shows a tab that exists, while pages are added, saved,     *)
(* deleted and listed again, unless one was added with another call of the *)
(* notebook under way or the record was left (layout-renderer.tsx).        *)
(***************************************************************************)
ActiveTabExists == Shown /\ ~crossed /\ HasNotebook(form) => active < TabCount
=============================================================================
