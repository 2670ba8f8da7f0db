----------------------------- MODULE FileWidgets ----------------------------
(***************************************************************************)
(* The file, picture and signature widgets of a form.  The file goes to    *)
(* the attachment service at once, by calls of its own that the Next       *)
(* client does not order; the flag of the record that says there is a file *)
(* is a field of the draft and reaches Go with the form's Save.            *)
(***************************************************************************)
EXTENDS FormStore

VARIABLES
    files,   \* the records whose anchor has a file
    meta,    \* the widget shows a file
    find,    \* the lookup of the anchor that is under way
    io,      \* the upload or removal under way (busy)
    strokes, \* hasStrokes, of a signature
    torn     \* history: the flag in the draft may not tell of the file

fileVars == <<files, meta, find, io, strokes, torn>>

NoFind == [own |-> NoId, seen |-> FALSE, read |-> FALSE, found |-> FALSE]
NoIO == [op |-> "none", own |-> NoId, seen |-> FALSE, served |-> FALSE]

FileTypeOK ==
    /\ files \subseteq RecordIds
    /\ meta \in BOOLEAN /\ strokes \in BOOLEAN /\ torn \in BOOLEAN
    /\ find \in [own : RecordIds \union {NoId}, seen : BOOLEAN, read : BOOLEAN, found : BOOLEAN]
    /\ io \in [op : {"none", "upload", "remove"}, own : RecordIds \union {NoId}, seen : BOOLEAN, served : BOOLEAN]

\* The effect of an anchor: a lookup starts, the one before it is cancelled.
FindFor(own, flag) == IF own = NoId \/ ~HasFile THEN NoFind ELSE [NoFind EXCEPT !.own = own, !.seen = flag]

FileInit ==
    /\ files \in SUBSET {i \in {opened.id} : i # NoId /\ HasFile}
    /\ meta = FALSE /\ io = NoIO /\ strokes = FALSE /\ torn = FALSE
    /\ find = FindFor(opened.id, opened.values.flag)

\* A call answers into a draft that is being saved: the answer of the Save undoes it.
Saving == Queued({"commit"})

\* Mutant: a removed file keeps its flag.
SyncKeepsFlag(seen, found) ==
    /\ meta' = found
    /\ IF found /\ seen # found THEN SetField("flag", found) ELSE UNCHANGED <<draft, dirty>>
    /\ torn' = (torn \/ Saving \/ seen # draft.flag)

\* sync, with the value its closure saw.
Sync(seen, found) ==
    /\ meta' = found
    /\ IF seen # found THEN SetField("flag", found) ELSE UNCHANGED <<draft, dirty>>
    /\ torn' = (torn \/ Saving \/ seen # draft.flag)

FindRead ==
    /\ find.own # NoId /\ ~find.read
    /\ find' = [find EXCEPT !.read = TRUE, !.found = find.own \in files]
    /\ UNCHANGED <<storeVars, files, meta, io, strokes, torn>>

FindAnswer ==
    /\ find.read /\ find' = NoFind
    /\ Sync(find.seen, find.found)
    /\ UNCHANGED <<fields, records, opened, queue, ops, faults, files, io, strokes>>

FindFails ==
    /\ find.own # NoId /\ Fails(TRUE) /\ find' = NoFind /\ torn' = TRUE
    /\ UNCHANGED <<fields, records, opened, draft, dirty, queue, ops, files, meta, io, strokes>>

Interactive == HasFile /\ draft.id # NoId /\ io = NoIO

\* A file is chosen, or the signature is done.
Upload ==
    /\ Op /\ Interactive /\ (Signs => strokes /\ ~meta)
    /\ io' = [op |-> "upload", own |-> draft.id, seen |-> draft.flag, served |-> FALSE]
    /\ torn' = (torn \/ find # NoFind)
    /\ UNCHANGED <<fields, records, opened, draft, dirty, queue, faults, files, meta, find, strokes>>

RemoveFile ==
    /\ Op /\ Interactive /\ meta
    /\ io' = [op |-> "remove", own |-> draft.id, seen |-> draft.flag, served |-> FALSE]
    /\ torn' = (torn \/ find # NoFind)
    /\ UNCHANGED <<fields, records, opened, draft, dirty, queue, faults, files, meta, find, strokes>>

\* The first stroke of a signature sets the flag before there is a file.
Stroke ==
    /\ Op /\ Signs /\ Interactive /\ ~meta /\ ~strokes
    /\ strokes' = TRUE
    /\ SetField("flag", TRUE) /\ torn' = (torn \/ Saving)
    /\ UNCHANGED <<fields, records, opened, queue, faults, files, meta, find, io>>

\* Clear, of a signature that was drawn but not uploaded.
ClearStrokes ==
    /\ Op /\ Signs /\ Interactive /\ strokes /\ ~meta
    /\ strokes' = FALSE
    /\ Sync(draft.flag, FALSE)
    /\ UNCHANGED <<fields, records, opened, queue, faults, files, find, io>>

IOServed ==
    /\ io # NoIO /\ ~io.served
    /\ io' = [io EXCEPT !.served = TRUE]
    /\ files' = IF io.op = "upload" THEN files \union {io.own} ELSE files \ {io.own}
    /\ UNCHANGED <<storeVars, meta, find, strokes, torn>>

IOAnswer ==
    /\ io.served /\ io' = NoIO /\ strokes' = FALSE
    /\ Sync(io.seen, io.op = "upload")
    /\ UNCHANGED <<fields, records, opened, queue, ops, faults, files, find>>

\* The call fails, before or after its effect: the widget shows the error.
IOFails ==
    /\ io # NoIO /\ Fails(TRUE) /\ io' = NoIO /\ torn' = TRUE
    /\ UNCHANGED <<fields, records, opened, draft, dirty, queue, ops, files, meta, find, strokes>>
=============================================================================
