--------------------------- MODULE RelationWidgets --------------------------
(***************************************************************************)
(* The relation widgets of a form: the reference (RelationSearchWidget),   *)
(* the tags of a many2many field (RelationTagsWidget), which writes its    *)
(* junction rows at once or, deferred, stages them for the form's Save,    *)
(* the embedded list of a one2many field (RelationListWidget) with the     *)
(* totals below it (TaxTotalsWidget), and the creation dialog they share.  *)
(***************************************************************************)
EXTENDS FormStore

CONSTANT MaxLines   \* bound on the rows of the embedded list

ASSUME LineConstants == MaxLines \in Nat \ {0}

VARIABLES
    existing,  \* the related records that exist
    junctions, \* junction row -> [own, related], for the rows that exist
    nextLink,  \* the last junction row written
    lines,     \* line -> the record it belongs to
    links,     \* the links the tags widget knows: junction row -> related
    rows,      \* the lines the embedded list shows
    summed,    \* the lines the totals sum
    dialog,    \* the open creation dialog
    muddled,   \* history: a link was written while the links were read, or
               \* the tags the widget knows are known to be outdated
    strayed    \* history: a line was asked for by a dialog that was opened on
               \* another record than the one on screen

tagVars == <<junctions, nextLink, links, muddled>>
relationVars == <<tagVars, existing, lines, rows, summed, dialog, strayed>>

LineIds == 1..MaxLines
Pickers == {"ref", "tag", "line"}
NoDialog == [of |-> "nothing", at |-> 0, own |-> NoId, submitting |-> FALSE]
LinkMaps == UNION {[S -> Related] : S \in SUBSET Links}

RelationTypeOK ==
    /\ existing \subseteq Related
    /\ nextLink \in 0..MaxLinks /\ DOMAIN junctions \subseteq 1..nextLink
    /\ \A j \in DOMAIN junctions : junctions[j] \in [own : RecordIds, related : Related]
    /\ DOMAIN lines \subseteq LineIds /\ \A l \in DOMAIN lines : lines[l] \in RecordIds
    /\ muddled \in BOOLEAN /\ strayed \in BOOLEAN
    /\ links \in LinkMaps
    /\ rows \subseteq LineIds /\ summed \subseteq LineIds
    /\ dialog \in [of : Pickers \union {"nothing"}, at : 0..MaxOps, own : RecordIds \union {NoId},
                   submitting : BOOLEAN]

\* The effects of the widgets when the form's record id changes: three loads.
LoadLinks(own) == [kind |-> "links", own |-> own, read |-> FALSE, found |-> <<>>]
LoadLines(own, into) == [kind |-> "lines", own |-> own, into |-> into]
Loads(own) == IF own = NoId THEN <<>>
              ELSE (IF HasTags THEN <<LoadLinks(own)>> ELSE <<>>)
                \o (IF HasLines THEN <<LoadLines(own, "list"), LoadLines(own, "totals")>> ELSE <<>>)

\* A form just mounted: its record may have one link and one line.
RelationInit ==
    /\ existing = Related \ Fresh
    /\ \E linked \in SUBSET {1} :
          /\ linked # {} => opened.id # NoId
          /\ junctions \in [IF HasTags THEN linked ELSE {} -> {[own |-> opened.id, related |-> r] : r \in existing}]
          /\ nextLink = Cardinality(DOMAIN junctions)
          /\ lines = [l \in IF HasLines THEN linked ELSE {} |-> opened.id]
    /\ links = <<>> /\ rows = {} /\ summed = {} /\ dialog = NoDialog
    /\ muddled = FALSE /\ strayed = FALSE

\* A map with one entry more: a row that was written, a chip that was added.
Extended(map, key, value) == [k \in DOMAIN map \union {key} |-> IF k = key THEN value ELSE map[k]]

RelatedOf(own) == [j \in {k \in DOMAIN junctions : junctions[k].own = own} |-> junctions[j].related]
LineOf(own) == {l \in DOMAIN lines : lines[l] = own}

\* The chips: the links less what is staged to go, and what is staged to come.
Visible == IF deferred
           THEN {links[j] : j \in DOMAIN links \ draft.staged.toUnlink} \union draft.staged.toLink
           ELSE {links[j] : j \in DOMAIN links}

\* The junction writes: the widget's own show in the chips when answered, those
\* of a Save do not.
LinkCall(own, r) == [kind |-> "link", own |-> own, related |-> r, shown |-> ~deferred]
UnlinkCall(j) == [kind |-> "unlink", link |-> j, shown |-> ~deferred]

\* add, with the record and the staged diff its closure saw.
Add(calls, own, staged, r) ==
    IF deferred
    THEN SetField("staged", [staged EXCEPT !.toLink = @ \union {r}]) /\ queue' = calls
    ELSE UNCHANGED <<draft, dirty>> /\ queue' = Append(calls, LinkCall(own, r))

\* What the search and the selection dialog of a widget offer: records that exist
\* (which of them match a typed text is left out).
Selectable == existing

PickRef ==
    /\ Op /\ \E r \in Selectable : r # draft.ref /\ SetField("ref", r)
    /\ UNCHANGED <<fields, records, opened, queue, faults, relationVars>>

ClearRef ==
    /\ Op /\ draft.ref # NoRef /\ SetField("ref", NoRef)
    /\ UNCHANGED <<fields, records, opened, queue, faults, relationVars>>

AddTag ==
    /\ Op /\ HasTags /\ draft.id # NoId
    /\ \E r \in Selectable \ Visible : Add(queue, draft.id, draft.staged, r)
    /\ UNCHANGED <<fields, records, opened, faults, relationVars>>

UnlinkTag ==
    /\ Op /\ draft.id # NoId
    /\ \/ /\ deferred
          /\ \/ \E r \in draft.staged.toLink : SetField("staged", [draft.staged EXCEPT !.toLink = @ \ {r}])
             \/ \E j \in DOMAIN links \ draft.staged.toUnlink :
                   SetField("staged", [draft.staged EXCEPT !.toUnlink = @ \union {j}])
          /\ UNCHANGED queue
       \/ /\ ~deferred
          /\ \E j \in DOMAIN links : queue' = Append(queue, UnlinkCall(j))
          /\ UNCHANGED <<draft, dirty>>
    /\ UNCHANGED <<fields, records, opened, faults, relationVars>>

----------------------------------------------------------------------------
(* The creation dialog.  Its backdrop closes it even while it is sending, and *)
(* its widget may open another one before the first is answered.  A line is   *)
(* made for the record the dialog was opened on (its preset), a tag is linked *)
(* to the one on screen when the dialog was sent.                             *)

OpenDialog(w) ==
    /\ Op /\ dialog = NoDialog
    /\ \/ w = "ref"
       \/ draft.id # NoId /\ ((w = "tag" /\ HasTags) \/ (w = "line" /\ HasLines))
    /\ dialog' = [of |-> w, at |-> ops', own |-> draft.id, submitting |-> FALSE]
    /\ UNCHANGED <<fields, records, opened, draft, dirty, queue, faults, tagVars, existing, lines, rows, summed,
                   strayed>>

CloseDialog ==
    /\ Op /\ dialog # NoDialog /\ dialog' = NoDialog
    /\ UNCHANGED <<fields, records, opened, draft, dirty, queue, faults, tagVars, existing, lines, rows, summed,
                   strayed>>

SubmitDialog ==
    /\ Op /\ dialog # NoDialog /\ ~dialog.submitting
    /\ dialog' = [dialog EXCEPT !.submitting = TRUE]
    /\ LET own == IF dialog.of = "line" THEN dialog.own ELSE draft.id
       IN  /\ queue' = Append(queue, [kind |-> "create", of |-> dialog.of, at |-> dialog.at,
                                      own |-> own, staged |-> draft.staged])
           /\ strayed' = (strayed \/ own # draft.id)
    /\ UNCHANGED <<fields, records, opened, draft, dirty, faults, tagVars, existing, lines, rows, summed>>

\* onCreated, then onClose, of the widget that opened the dialog.
AnswerCreate ==
    /\ Answering("create") /\ Fails(FALSE)
    /\ IF Call.of = "line"
       THEN \E l \in LineIds \ DOMAIN lines :
               /\ lines' = Extended(lines, l, Call.own) /\ rows' = rows \union {l}
               /\ queue' = Tail(queue)
               /\ UNCHANGED <<existing, draft, dirty>>
       ELSE \E r \in Related \ existing :
               /\ existing' = existing \union {r}
               /\ IF Call.of = "ref" THEN SetField("ref", r) /\ queue' = Tail(queue)
                                     ELSE Add(Tail(queue), Call.own, Call.staged, r)
               /\ UNCHANGED <<lines, rows>>
    /\ dialog' = IF dialog.of = Call.of THEN NoDialog ELSE dialog
    /\ UNCHANGED <<fields, records, opened, ops, tagVars, summed, strayed>>

\* The dialog shows the error, if it is still there.
RejectCreate ==
    /\ Answering("create") /\ Fails(TRUE)
    /\ queue' = Tail(queue)
    /\ dialog' = IF dialog.at = Call.at THEN [dialog EXCEPT !.submitting = FALSE] ELSE dialog
    /\ UNCHANGED <<fields, records, opened, draft, dirty, ops, tagVars, existing, lines, rows, summed, strayed>>

----------------------------------------------------------------------------
(* Answers about links: two reads, then the chips are what was found. *)

LinkShown(j, r) == IF Call.shown THEN Extended(links, j, r) ELSE links

\* Only the reads of the record on screen count (the effect's cancelled flag).
AnswerLinks ==
    /\ Answering("links") /\ Fails(FALSE)
    /\ IF Call.read
       THEN /\ queue' = Tail(queue)
            /\ links' = IF Call.own = draft.id THEN Call.found ELSE links
       ELSE /\ queue' = Append(Tail(queue), [Call EXCEPT !.read = TRUE, !.found = RelatedOf(Call.own)])
            /\ UNCHANGED links
    /\ UNCHANGED <<fields, records, opened, draft, dirty, ops, existing, junctions, nextLink, lines, 
                   rows, summed, dialog, muddled, strayed>>

Reading == \E i \in DOMAIN queue : queue[i].kind = "links" /\ queue[i].read

AnswerLink ==
    /\ Answering("link") /\ Fails(FALSE) /\ nextLink < MaxLinks
    /\ nextLink' = nextLink + 1
    /\ junctions' = Extended(junctions, nextLink', [own |-> Call.own, related |-> Call.related])
    /\ links' = LinkShown(nextLink', Call.related)
    /\ muddled' = (muddled \/ Reading)
    /\ queue' = Tail(queue)
    /\ UNCHANGED <<fields, records, opened, draft, dirty, ops, existing, lines, rows, summed, dialog, strayed>>

AnswerUnlink ==
    /\ Answering("unlink") /\ Call.link \in DOMAIN junctions /\ Fails(FALSE)
    /\ junctions' = [j \in DOMAIN junctions \ {Call.link} |-> junctions[j]]
    /\ links' = IF Call.shown THEN [j \in DOMAIN links \ {Call.link} |-> links[j]] ELSE links
    /\ muddled' = (muddled \/ Reading)
    /\ queue' = Tail(queue)
    /\ UNCHANGED <<fields, records, opened, draft, dirty, ops, existing, nextLink, lines, rows, summed, dialog, strayed>>

\* A call about links fails, or asks to remove a row that is gone: what the widget
\* knows stays as it was.
RejectLinks ==
    /\ queue # <<>> /\ Call.kind \in {"links", "link", "unlink"}
    /\ Fails(Call.kind # "unlink" \/ Call.link \in DOMAIN junctions)
    /\ muddled' = TRUE
    /\ queue' = Tail(queue)
    /\ UNCHANGED <<fields, records, opened, draft, dirty, ops, existing, junctions, nextLink, lines, 
                   links, rows, summed, dialog, strayed>>

\* The list and the totals load the lines once per record, the list also after a
\* host action said they changed; a failed load of either leaves it empty.
AnswerLines(failed) ==
    /\ Answering("lines") /\ Fails(failed)
    /\ LET found == IF failed THEN {} ELSE LineOf(Call.own)
       IN  IF Call.own # draft.id THEN UNCHANGED <<rows, summed>>
           ELSE IF Call.into = "list" THEN rows' = found /\ UNCHANGED summed
                                      ELSE summed' = found /\ UNCHANGED rows
    /\ queue' = Tail(queue)
    /\ UNCHANGED <<fields, records, opened, draft, dirty, ops, tagVars, existing, lines, dialog, strayed>>
=============================================================================
