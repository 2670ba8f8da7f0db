------------------------------ MODULE FormPage ------------------------------
(***************************************************************************)
(* A record form of the front end (FormRenderer): its store, its relation  *)
(* and file widgets, Save, Reset and the workflow buttons of its header,   *)
(* and the log of changes that Save posts to the record's chatter.         *)
(***************************************************************************)
EXTENDS RelationWidgets, FileWidgets, SequencesExt

VARIABLES
    submitting, \* a Save is under way
    running,    \* a header button is under way
    last,       \* lastPersistedRef: an id and its values
    feed,       \* the log entries Go holds, oldest first
    base,       \* history: the values the log starts from
    mute,       \* history: a button wrote what only the next Save will tell
    broken,     \* history: the log cannot be complete
    meant       \* history: the tags on screen when Save was pressed

pageVars == <<submitting, running, last, feed, base, mute, broken, meant>>
vars == <<storeVars, relationVars, fileVars, pageVars>>

Unknown == [own |-> NoId, tags |-> {}]
Entry == [own : RecordIds, from : Stored, to : Stored]

TypeOK ==
    /\ StoreTypeOK /\ RelationTypeOK /\ FileTypeOK
    /\ submitting \in BOOLEAN /\ running \in BOOLEAN /\ mute \in BOOLEAN /\ broken \in BOOLEAN
    /\ last \in [id : RecordIds \union {NoId}, values : Stored]
    /\ base \in Stored
    /\ \A i \in DOMAIN feed : feed[i] \in Entry
    /\ meant \in [own : RecordIds \union {NoId}, tags : SUBSET Related]

Init ==
    /\ StoreInit /\ RelationInit /\ FileInit
    /\ queue = Loads(opened.id)
    /\ submitting = FALSE /\ running = FALSE
    /\ last = opened /\ base = opened.values
    /\ feed = <<>> /\ mute = FALSE /\ broken = FALSE /\ meant = Unknown

----------------------------------------------------------------------------
(* Save, Reset and the header's buttons *)

\* What the person pressing Save expects of the tags, when the widget knows them.
Expected == IF deferred /\ draft.id # NoId /\ ~muddled /\ ~Queued({"links"})
            THEN [own |-> draft.id, tags |-> Visible] ELSE Unknown

Save ==
    /\ Op /\ dirty /\ ~submitting
    /\ IF RequiredMissing(draft)
       THEN UNCHANGED <<queue, submitting>>
       ELSE /\ queue' = Append(queue, [CommitCall("save", draft, last) EXCEPT !.expected = Expected])
            /\ submitting' = TRUE
    /\ UNCHANGED <<fields, records, opened, draft, dirty, faults, relationVars, fileVars, running, last, feed, base,
                   mute, broken, meant>>

\* Reset goes back to the page as it was loaded, its id included: without one the
\* tags and the list show a hint only, and their dialog is gone.
ResetForm ==
    /\ Op /\ dirty /\ ~submitting
    /\ Reset
    /\ queue' = queue \o (IF opened.id # draft.id THEN Loads(opened.id) ELSE <<>>)
    /\ find' = IF opened.id # draft.id THEN FindFor(opened.id, opened.values.flag) ELSE find
    /\ torn' = TRUE /\ summed' = IF opened.id = NoId THEN {} ELSE summed
    /\ dialog' = IF opened.id = NoId /\ dialog.of \in {"tag", "line"} THEN NoDialog ELSE dialog
    /\ UNCHANGED <<fields, records, opened, faults, tagVars, existing, lines, rows, strayed, files, meta, io,
                   strokes, pageVars>>

\* onHeaderButtonCommit: the fields of the patch are set, and the whole draft goes.
PressButton ==
    /\ Op /\ draft.id # NoId /\ ~running
    /\ \E r \in existing :
          /\ SetField("ref", r)
          /\ queue' = Append(queue, CommitCall("button", draft', last))
    /\ running' = TRUE
    /\ UNCHANGED <<fields, records, opened, faults, relationVars, fileVars, submitting, last, feed, base, mute,
                   broken, meant>>

\* A button whose handler creates a line of the record and bumps the entity.
PressGenerate ==
    /\ Op /\ HasLines /\ draft.id # NoId /\ ~running
    /\ queue' = Append(queue, [kind |-> "generate", own |-> draft.id])
    /\ running' = TRUE
    /\ UNCHANGED <<fields, records, opened, draft, dirty, faults, relationVars, fileVars, submitting, last, feed, base,
                   mute, broken, meant>>

\* Mutant: the handler does not tell the widgets.
AnswerGenerateSilently(failed) ==
    /\ Answering("generate") /\ Fails(failed)
    /\ \E l \in LineIds \ DOMAIN lines : lines' = IF failed THEN lines ELSE Extended(lines, l, Call.own)
    /\ queue' = Tail(queue)
    /\ running' = FALSE
    /\ UNCHANGED <<fields, records, opened, draft, dirty, ops, tagVars, existing, rows, summed, dialog, strayed,
                   fileVars, submitting, last, feed, base, mute, broken, meant>>

AnswerGenerate(failed) ==
    /\ Answering("generate") /\ Fails(failed)
    /\ \E l \in LineIds \ DOMAIN lines : lines' = IF failed THEN lines ELSE Extended(lines, l, Call.own)
    /\ queue' = Tail(queue) \o (IF failed \/ draft.id = NoId THEN <<>> ELSE <<LoadLines(draft.id, "list")>>)
    /\ running' = FALSE
    /\ UNCHANGED <<fields, records, opened, draft, dirty, ops, tagVars, existing, rows, summed, dialog, strayed,
                   fileVars, submitting, last, feed, base, mute, broken, meant>>

----------------------------------------------------------------------------
(* The answer of a commit *)

\* The calls that follow a commit, and the effects of the widgets when the record
\* has just got its id.
OnAnchor(calls) ==
    /\ queue' = Tail(queue) \o (calls \o (IF Target # draft.id THEN Loads(Target) ELSE <<>>))
    /\ find' = IF Target # draft.id THEN FindFor(Target, Call.body.flag) ELSE find

\* summarizeFieldChanges: an entry for an edited record, when a column changed.
LogCalls == IF Call.before.id # NoId /\ Call.before.values # Call.body
            THEN <<[kind |-> "log", own |-> Target, from |-> Call.before.values, to |-> Call.body]>>
            ELSE <<>>

\* Mutant: the staged diff is read after the draft was seeded again.
FlushCallsLate == <<>>

\* The staged diff of the draft as it was before the commit, as junction writes.
FlushCalls ==
    LET staged == IF deferred THEN Call.staged ELSE NothingStaged
    IN  SetToSeq({UnlinkCall(j) : j \in staged.toUnlink}) \o SetToSeq({LinkCall(Target, r) : r \in staged.toLink})

\* Mutant: a button's write counts as told.
AnswerButtonTellsLast ==
    /\ Answering("commit") /\ Call.by = "button" /\ Fails(FALSE)
    /\ Reconcile /\ OnAnchor(<<>>)
    /\ running' = FALSE /\ mute' = TRUE /\ last' = [id |-> Target, values |-> Call.body]
    /\ UNCHANGED <<fields, opened, ops, relationVars, files, meta, io, strokes, torn, submitting, feed,
                   base, broken, meant>>

\* A button's commit neither logs nor flushes; the draft's staged links are gone.
AnswerButton ==
    /\ Answering("commit") /\ Call.by = "button" /\ Fails(FALSE)
    /\ Reconcile /\ OnAnchor(<<>>)
    /\ running' = FALSE /\ mute' = TRUE
    /\ UNCHANGED <<fields, opened, ops, relationVars, files, meta, io, strokes, torn, submitting, last, feed,
                   base, broken, meant>>

AnswerSave ==
    /\ Answering("commit") /\ Call.by = "save" /\ (Call.id = NoId => HasRoom) /\ Fails(FALSE)
    /\ Reconcile /\ OnAnchor(LogCalls \o FlushCalls)
    /\ last' = [id |-> Target, values |-> Call.body]
    /\ submitting' = FALSE /\ mute' = FALSE
    /\ base' = IF Call.id = NoId THEN Call.body ELSE base
    /\ broken' = (broken \/ (Call.id = NoId) # (Call.before.id = NoId))
    /\ meant' = Call.expected
    /\ muddled' = (muddled \/ (deferred /\ Call.staged # NothingStaged))
    /\ UNCHANGED <<fields, opened, ops, junctions, nextLink, links, existing, lines, rows, summed, dialog,
                   strayed, files, meta, io, strokes, torn, running, feed>>

\* Refused, or the answer was lost: the error is shown and the draft kept.
RejectCommit ==
    /\ Answering("commit") /\ Fails(TRUE) /\ (Call.id = NoId => HasRoom)
    /\ Reject /\ queue' = Tail(queue)
    /\ IF Call.by = "save" THEN submitting' = FALSE /\ UNCHANGED running
                           ELSE running' = FALSE /\ UNCHANGED submitting
    /\ broken' = TRUE /\ torn' = TRUE
    /\ UNCHANGED <<fields, opened, ops, relationVars, files, meta, find, io, strokes, last, feed, base, mute, meant>>

\* The log entry is posted; a failure is swallowed.
AnswerLog(failed) ==
    /\ Answering("log") /\ Fails(failed)
    /\ feed' = IF failed THEN feed ELSE Append(feed, [own |-> Call.own, from |-> Call.from, to |-> Call.to])
    /\ broken' = (broken \/ failed)
    /\ queue' = Tail(queue)
    /\ UNCHANGED <<fields, records, opened, draft, dirty, ops, relationVars, fileVars, submitting, running, last,
                   base, mute, meant>>

\* The page comes back from the server with a new initialData: the log's before
\* side is the page's record again, the draft stays.
Refresh ==
    /\ Op
    /\ last' = [id |-> opened.id, values |-> IF opened.id = NoId THEN Defaults ELSE records[opened.id]]
    /\ broken' = (broken \/ last' # last \/ submitting)
    /\ UNCHANGED <<fields, records, opened, draft, dirty, queue, faults, relationVars, fileVars, submitting, running,
                   feed, base, mute, meant>>

Widgets1 ==
    \/ PickRef \/ ClearRef \/ AddTag \/ UnlinkTag \/ CloseDialog \/ SubmitDialog \/ AnswerCreate \/ RejectCreate
    \/ AnswerLinks \/ AnswerLink \/ AnswerUnlink \/ RejectLinks
    \/ \E w \in Pickers : OpenDialog(w)
    \/ \E failed \in BOOLEAN : AnswerLines(failed)

Widgets2 ==
    \/ FindRead \/ FindAnswer \/ FindFails \/ Upload \/ RemoveFile \/ Stroke \/ ClearStrokes
    \/ IOServed \/ IOAnswer \/ IOFails

Next ==
    \/ (Widgets1 /\ UNCHANGED <<fileVars, pageVars>>)
    \/ (Widgets2 /\ UNCHANGED <<relationVars, pageVars>>)
    \/ Save \/ ResetForm \/ PressButton \/ PressGenerate
    \/ AnswerButton \/ AnswerSave \/ RejectCommit \/ Refresh
    \/ \E failed \in BOOLEAN : AnswerGenerate(failed) \/ AnswerLog(failed)

Spec == Init /\ [][Next]_vars

----------------------------------------------------------------------------
(* Properties *)

\* The tags on screen when Save was pressed are the record's once the Save is
\* flushed, whatever was staged or saved by a button since - unless a link call
\* failed or the widget did not know the record's links.
StagedTagsReachServer ==
    ~Queued({"link", "unlink"}) /\ meant # Unknown /\ faults = 0 =>
        {RelatedOf(meant.own)[j] : j \in DOMAIN RelatedOf(meant.own)} = meant.tags

\* With nothing under way the chips are the junction rows and the list the lines
\* of the record, unless a call failed, a link was written while they were read,
\* or a line was made for the record that was on screen before.
WidgetsShowRows ==
    queue = <<>> /\ draft.id # NoId /\ faults = 0 =>
        /\ HasTags /\ ~muddled => links = RelatedOf(draft.id)
        /\ HasLines /\ ~strayed => rows = LineOf(draft.id)

\* A clean form's flag says what the anchor holds: file and flag go by separate
\* calls, and agree after every Save unless the form was reset, a call failed, or
\* a file call crossed a Save or the first lookup.
FlagTellsFile ==
    /\ ~dirty /\ ~torn /\ ~strokes /\ draft.id # NoId
    /\ find = NoFind /\ io = NoIO /\ ~Queued({"commit"})
    => records[draft.id].flag = (draft.id \in files)

\* The log takes the record from what it was to what it is, without a gap: each
\* entry starts where the one before ended, and only what a button wrote since
\* the last Save is still untold.
Told == IF feed = <<>> THEN base ELSE feed[Len(feed)].to
LogAccountsForRecord ==
    ~broken =>
        /\ \A i \in DOMAIN feed : feed[i].from = IF i = 1 THEN base ELSE feed[i - 1].to
        /\ draft.id # NoId /\ ~mute /\ ~Queued({"commit", "log"}) => records[draft.id] = Told
=============================================================================
