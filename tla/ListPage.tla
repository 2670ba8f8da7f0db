------------------------------ MODULE ListPage ------------------------------
(***************************************************************************)
(* A list page of the front end: the rows it shows (TreeRenderer), the     *)
(* search bar above them, the Kanban and Calendar boards that move a       *)
(* record optimistically, the selection of the grid, and the undo banner.  *)
(* Everything the page asks of the server is a Server Action; the Next     *)
(* client runs those one at a time, in the order they were called.         *)
(***************************************************************************)
EXTENDS UndoToast, Sequences

CONSTANTS
    Ids,         \* the records
    Values,      \* values of the fields the boards move (a status, a date)
    Conditions,  \* filter conditions: [field, op] and a name of its own
    Match,       \* condition -> the records it selects
    LiveFields,  \* the fields a typed text is searched in, in priority order
    Hits,        \* index of LiveFields -> the records the text is found in
    Saved,       \* saved filters
    Mine,        \* the ones the user owns
    Config,      \* saved filter -> its conditions and its group-by field
    GroupFields, \* fields the list can be grouped by
    MaxOps,      \* bound on what the user does
    MaxFaults    \* bound on failing calls

NoValue == "none"
Boards == {"kanban", "calendar"}
Modes == Boards \union {"list"}
Columns == Values \union {NoValue}
Record == [Boards -> Columns]
Rows == UNION {[S -> Record] : S \in SUBSET Ids}
NoFilter == "no filter"
NoGroup == "no group"

ASSUME ListConstants ==
    /\ MaxOps \in Nat /\ MaxFaults \in Nat
    /\ Conditions \subseteq [field : GroupFields, op : {"eq", "contains"}, name : STRING]
    /\ Match \in [Conditions -> SUBSET Ids]
    /\ LiveFields \in Seq(STRING) \ {<<>>} /\ Hits \in [DOMAIN LiveFields -> SUBSET Ids]
    /\ Config \in [Saved -> [filters : SUBSET Conditions, groupBy : GroupFields \union {NoGroup}]]
    /\ Mine \subseteq Saved /\ NoFilter \notin Saved /\ NoGroup \notin GroupFields

VARIABLES
    server,    \* the records as Go stores them
    store,     \* the saved filters as Go stores them
    page,      \* initialData: the rows the page was loaded with
    rows,      \* liveRecords: the rows on screen
    mode,      \* the display mode
    mount,     \* how often a board was mounted or left
    selected,  \* the checked rows
    typed,     \* the debounced search: its text, and the fallback it captured
    filters,   \* the applied conditions
    applied,   \* the saved filter they came from
    listed,    \* the saved filters the menu lists
    group,     \* the open group-by field
    offered,   \* the field whose distinct values are on offer
    queue,     \* the Server Actions called and not yet answered, oldest first
    undo,      \* banner -> what it recovers
    ops, faults,
    asked,     \* history: the records the last touch of the search bar asks for
    crossed,   \* history: it was made while an older search was under way
    disturbed, \* history: since then a call failed or the rows were reset
    stale      \* history: a value on screen may differ from the server's

searchVars == <<typed, filters, applied, listed, group, offered, asked, crossed>>
vars == <<toastVars, server, store, page, rows, mode, mount, selected, searchVars,
          queue, undo, ops, faults, disturbed, stale>>

Idle == [text |-> "off", fallback |-> <<>>]
NoUndo == [of |-> "nothing"]

\* A Server Action on its way: what it asks, and what its continuation captured.
ListCall(F) == [kind |-> "list", filters |-> F]
LiveCall(i, found) == [kind |-> "live", at |-> i, found |-> found]
UpdateCall(r, board, v, previous, from) ==
    [kind |-> "update", id |-> r, board |-> board, value |-> v, previous |-> previous, mount |-> from]
DistinctCall(f) == [kind |-> "distinct", field |-> f]
SavedCall == [kind |-> "saved"]
CreateCall(s) == [kind |-> "create", filter |-> s]
RemoveCall(s) == [kind |-> "remove", filter |-> s]

Queued(kinds) == \E i \in DOMAIN queue : queue[i].kind \in kinds
Searching == typed.text # "off" \/ Queued({"live"})

TypeOK ==
    /\ ToastTypeOK
    /\ server \in [Ids -> Record] /\ page \in [Ids -> Record]
    /\ rows \in Rows /\ selected \subseteq Ids
    /\ store \subseteq Saved /\ listed \subseteq Saved
    /\ mode \in Modes /\ mount \in Nat
    /\ typed = Idle \/ (typed.text \in {"empty", "text"} /\ typed.fallback \in Rows)
    /\ filters \subseteq Conditions
    /\ applied \in Saved \union {NoFilter}
    /\ group \in GroupFields \union {NoGroup} /\ offered \in GroupFields \union {NoGroup}
    /\ ops \in 0..MaxOps /\ faults \in 0..MaxFaults
    /\ asked \subseteq Ids
    /\ crossed \in BOOLEAN /\ disturbed \in BOOLEAN /\ stale \in BOOLEAN

\* A page just loaded: every record unfiltered, nothing saved in this session.
Init ==
    /\ ToastInit
    /\ server \in [Ids -> {[b \in Boards |-> v] : v \in Values}]
    /\ store \in SUBSET Saved
    /\ page = server /\ rows = server
    /\ mode \in Modes /\ mount = 0
    /\ selected = {} /\ typed = Idle
    /\ filters = {} /\ applied = NoFilter /\ listed = {}
    /\ group = NoGroup /\ offered = NoGroup
    /\ queue = <<>> /\ undo = [e \in Toasts |-> NoUndo]
    /\ ops = 0 /\ faults = 0
    /\ asked = Ids /\ crossed = FALSE /\ disturbed = FALSE /\ stale = FALSE

----------------------------------------------------------------------------
(* What a step of the page is made of. *)

Op == ops < MaxOps /\ ops' = ops + 1

Selects(F) == {r \in Ids : \A c \in F : r \in Match[c]}
Found == UNION {Hits[i] : i \in DOMAIN Hits}
Fetched(S) == [r \in S |-> server[r]]

\* What a search has merged: a record found before is kept as it was found.
Merging(found, more) ==
    [r \in DOMAIN found \union DOMAIN more |-> IF r \in DOMAIN found THEN found[r] ELSE more[r]]

\* setLiveRecords, and the effect that drops the selection with the old rows.
SetRows(new) == rows' = new /\ selected' = {}

\* A banner that a new one expires asks for its deletion, if it stands for one.
Displacing == IF Displaced # None /\ undo[Displaced].of = "filter"
              THEN <<RemoveCall(undo[Displaced].filter)>> ELSE <<>>

\* Mutant: a filter changed by hand keeps the name of the saved one.
ApplyFiltersKeepName(next, name) ==
    /\ filters' = next
    /\ applied' = IF name = NoFilter THEN applied ELSE name
    /\ asked' = Selects(next) /\ crossed' = Searching /\ disturbed' = FALSE

\* applyFilters, and the name its caller sets after it.  The call it makes is
\* queued by the action.
ApplyFilters(next, name) ==
    /\ filters' = next
    /\ applied' = name
    /\ asked' = Selects(next) /\ crossed' = Searching /\ disturbed' = FALSE

OpenGroup(f) == group' = f /\ offered' = NoGroup
GroupCalls(f) == IF f = NoGroup THEN <<>> ELSE <<DistinctCall(f)>>

----------------------------------------------------------------------------
(* The search bar *)

\* onQueryChange: the debounce starts over, with the fallback of this render.
Type(text) ==
    /\ Op
    /\ typed' = [text |-> text, fallback |-> page]
    /\ asked' = (IF text = "text" THEN Found ELSE Ids) /\ crossed' = FALSE /\ disturbed' = FALSE
    /\ UNCHANGED <<toastVars, server, store, page, rows, mode, mount, selected, filters, applied,
                   listed, group, offered, queue, undo, faults, stale>>

\* The debounce ends on an empty text: back to the rows captured when it was typed.
FireEmpty ==
    /\ typed.text = "empty"
    /\ typed' = Idle
    /\ SetRows(typed.fallback) \/ (rows = typed.fallback /\ UNCHANGED <<rows, selected>>)
    /\ crossed' = (crossed \/ Queued({"list", "live"}))
    /\ stale' = (Queued({"update"}) \/ typed.fallback # server \/ (stale /\ Queued({"list", "live"})))
    /\ UNCHANGED <<toastVars, server, store, page, mode, mount, filters, applied, listed, group,
                   offered, asked, queue, undo, ops, faults, disturbed>>

\* The debounce ends on a text: the first field is searched.
FireText ==
    /\ typed.text = "text"
    /\ typed' = Idle
    /\ queue' = Append(queue, LiveCall(1, <<>>))
    /\ UNCHANGED <<toastVars, server, store, page, rows, mode, mount, selected, filters, applied,
                   listed, group, offered, asked, crossed, undo, ops, faults, disturbed, stale>>

\* addFilter, removeFilter, unapplySavedFilter and applyGroupValue: conditions
\* chosen by hand.  A group value replaces whatever is said of its field.
ByHand ==
    \/ \E c \in Conditions : ApplyFilters({d \in filters : d.field # c.field \/ d.op # c.op} \union {c}, NoFilter)
    \/ \E c \in filters : applied = NoFilter /\ ApplyFilters(filters \ {c}, NoFilter)
    \/ applied \notin Mine \union {NoFilter} /\ ApplyFilters({}, NoFilter)
    \/ /\ offered # NoGroup
       /\ \E c \in Conditions : /\ c.field = group /\ c.op = "eq"
                                /\ ApplyFilters({d \in filters : d.field # group} \union {c}, NoFilter)

ChangeFilters ==
    /\ Op /\ ByHand
    /\ queue' = Append(queue, ListCall(filters'))
    /\ UNCHANGED <<toastVars, server, store, page, rows, mode, mount, selected, typed, listed, group,
                   offered, undo, faults, stale>>

ApplySavedFilter(s) ==
    /\ Op /\ s \in listed
    /\ ApplyFilters(Config[s].filters, s)
    /\ IF Config[s].groupBy = NoGroup THEN UNCHANGED <<group, offered>> ELSE OpenGroup(Config[s].groupBy)
    /\ queue' = queue \o <<ListCall(Config[s].filters)>> \o GroupCalls(Config[s].groupBy)
    /\ UNCHANGED <<toastVars, server, store, page, rows, mode, mount, selected, typed, listed, undo, faults, stale>>

OpenGroupField(f) ==
    /\ Op /\ OpenGroup(f)
    /\ queue' = Append(queue, DistinctCall(f))
    /\ UNCHANGED <<toastVars, server, store, page, rows, mode, mount, selected, typed, filters, applied,
                   listed, asked, crossed, undo, faults, disturbed, stale>>

OpenMenu ==
    /\ Op /\ queue' = Append(queue, SavedCall)
    /\ UNCHANGED <<toastVars, server, store, page, rows, mode, mount, selected, searchVars, undo, faults,
                   disturbed, stale>>

\* saveCurrentFilters, under a name that is new.
SaveCurrentFilters(s) ==
    /\ Op /\ filters # {}
    /\ s \in Mine \ store /\ CreateCall(s) \notin {queue[i] : i \in DOMAIN queue}
    /\ Config[s] = [filters |-> filters, groupBy |-> group]
    /\ queue' = Append(queue, CreateCall(s))
    /\ UNCHANGED <<toastVars, server, store, page, rows, mode, mount, selected, searchVars, undo, faults,
                   disturbed, stale>>

\* Mutant: the server is asked at once, not when the banner expires.
DeleteSavedFilterNow(s) ==
    /\ Op /\ s \in Mine /\ s \in listed \union {applied}
    /\ listed' = listed \ {s}
    /\ IF applied = s
       THEN ApplyFilters({}, NoFilter) /\ group' = NoGroup /\ offered' = NoGroup
       ELSE UNCHANGED <<filters, applied, group, offered, asked, crossed, disturbed>>
    /\ Show
    /\ undo' = [undo EXCEPT ![shown'] = [of |-> "filter", filter |-> s, was |-> applied = s,
                                         filters |-> filters, group |-> group]]
    /\ queue' = queue \o (IF applied = s THEN <<ListCall({})>> ELSE <<>>) \o <<RemoveCall(s)>>
    /\ UNCHANGED <<server, store, page, rows, mode, mount, selected, typed, faults, stale>>

\* deleteSavedFilter: gone from the bar at once, from the server when the banner
\* expires.
DeleteSavedFilter(s) ==
    /\ Op /\ s \in Mine /\ s \in listed \union {applied}
    /\ listed' = listed \ {s}
    /\ IF applied = s
       THEN ApplyFilters({}, NoFilter) /\ group' = NoGroup /\ offered' = NoGroup
       ELSE UNCHANGED <<filters, applied, group, offered, asked, crossed, disturbed>>
    /\ Show
    /\ undo' = [undo EXCEPT ![shown'] = [of |-> "filter", filter |-> s, was |-> applied = s,
                                         filters |-> filters, group |-> group]]
    /\ queue' = queue \o (IF applied = s THEN <<ListCall({})>> ELSE <<>>) \o Displacing
    /\ UNCHANGED <<server, store, page, rows, mode, mount, selected, typed, faults, stale>>

\* onRecover of a saved filter: back in the list, and applied as it was.
RecoverFilter ==
    /\ Op /\ Recover
    /\ undo[pending].of = "filter"
    /\ LET u == undo[pending]
       IN  /\ listed' = listed \union {u.filter}
           /\ IF u.was THEN ApplyFilters(u.filters, u.filter)
                       ELSE UNCHANGED <<filters, applied, asked, crossed, disturbed>>
           /\ IF u.was /\ u.group # NoGroup THEN OpenGroup(u.group) ELSE UNCHANGED <<group, offered>>
           /\ queue' = IF u.was THEN queue \o <<ListCall(u.filters)>> \o GroupCalls(u.group) ELSE queue
    /\ UNCHANGED <<server, store, page, rows, mode, mount, selected, typed, undo, faults, stale>>

----------------------------------------------------------------------------
(* The boards *)

\* moveField: the card is where it was dropped before the server is asked.
MoveField(r, v) ==
    /\ mode \in Boards /\ r \in DOMAIN rows /\ rows[r][mode] # v
    /\ SetRows([rows EXCEPT ![r] = [@ EXCEPT ![mode] = v]])
    /\ stale' = (stale \/ Queued({"list", "live"}))

Drop(r, v) ==
    /\ Op /\ MoveField(r, v)
    /\ queue' = Append(queue, UpdateCall(r, mode, v, rows, mount))
    /\ UNCHANGED <<toastVars, server, store, page, mode, mount, searchVars, undo, faults, disturbed>>

\* A card dragged out of the calendar loses its date, and a banner offers it back.
DragOut(r) ==
    /\ Op /\ mode = "calendar"
    /\ MoveField(r, NoValue) /\ Show
    /\ undo' = [undo EXCEPT ![shown'] = [of |-> "date", id |-> r, date |-> rows[r]["calendar"],
                                         mount |-> mount, seen |-> rows]]
    /\ queue' = Append(queue, UpdateCall(r, "calendar", NoValue, rows, mount)) \o Displacing
    /\ UNCHANGED <<server, store, page, mode, mount, searchVars, faults, disturbed>>

\* onRecover of a date goes through the calendar that showed the banner: the
\* mounted one, or what it last rendered.
RecoverDate ==
    /\ Op /\ Recover
    /\ undo[pending].of = "date"
    /\ LET u == undo[pending]
           mounted == u.mount = mount
           seen == IF mounted THEN rows ELSE u.seen
       IN  IF u.id \notin DOMAIN seen \/ (u.id \in DOMAIN seen /\ seen[u.id]["calendar"] = u.date)
           THEN UNCHANGED <<rows, selected, queue, stale>>
           ELSE /\ queue' = Append(queue, UpdateCall(u.id, "calendar", u.date, seen, u.mount))
                /\ IF mounted THEN MoveField(u.id, u.date)
                              ELSE stale' = TRUE /\ UNCHANGED <<rows, selected>>
    /\ UNCHANGED <<server, store, page, mode, mount, searchVars, undo, faults, disturbed>>

\* setViewMode: the board that is left keeps what it last rendered.
SwitchMode(m) ==
    /\ Op /\ m # mode
    /\ mode' = m /\ mount' = mount + 1
    /\ undo' = [e \in Toasts |-> IF undo[e].of = "date" /\ undo[e].mount = mount
                                 THEN [undo[e] EXCEPT !.seen = rows] ELSE undo[e]]
    /\ UNCHANGED <<toastVars, server, store, page, rows, selected, searchVars, queue, faults, disturbed, stale>>

----------------------------------------------------------------------------
(* The banner, the selection and the page *)

DismissBanner ==
    /\ Op /\ Dismiss
    /\ UNCHANGED <<server, store, page, rows, mode, mount, selected, searchVars, queue, undo, faults,
                   disturbed, stale>>

ExpireBanner ==
    /\ Expire
    /\ queue' = IF undo[timer].of = "filter" THEN Append(queue, RemoveCall(undo[timer].filter)) ELSE queue
    /\ UNCHANGED <<server, store, page, rows, mode, mount, selected, searchVars, undo, ops, faults,
                   disturbed, stale>>

\* A checkbox, and toggleSelectAll.
Select ==
    /\ Op /\ mode = "list"
    /\ \/ \E r \in DOMAIN rows : selected' = IF r \in selected THEN selected \ {r} ELSE selected \union {r}
       \/ selected' = IF selected = DOMAIN rows THEN {} ELSE DOMAIN rows
    /\ UNCHANGED <<toastVars, server, store, page, rows, mode, mount, searchVars, queue, undo, faults,
                   disturbed, stale>>

\* The page comes back from the server with new initialData (a Server Action that
\* rotated the session cookies re-renders it).
Refresh ==
    /\ Op /\ page' = server /\ SetRows(server)
    /\ disturbed' = TRUE /\ stale' = (Queued({"update"}) \/ (stale /\ Queued({"list", "live"})))
    /\ UNCHANGED <<toastVars, server, store, mode, mount, searchVars, queue, undo, faults>>

----------------------------------------------------------------------------
(* Server Actions: the oldest one is answered, or fails. *)

Call == Head(queue)
Fails(failed) == IF failed THEN faults < MaxFaults /\ faults' = faults + 1 ELSE UNCHANGED faults
Answering(kind) == queue # <<>> /\ Call.kind = kind

AnswerList(failed) ==
    /\ Answering("list") /\ Fails(failed)
    /\ queue' = Tail(queue)
    /\ IF failed THEN UNCHANGED <<rows, selected, stale>>
                 ELSE SetRows(Fetched(Selects(Call.filters))) /\ stale' = (stale /\ Queued({"update", "live"}))
    /\ disturbed' = (disturbed \/ failed)
    /\ UNCHANGED <<toastVars, server, store, page, mode, mount, searchVars, undo, ops>>

\* Mutant: each field replaces what the ones before it found.
AnswerLiveLastOnly(failed) ==
    /\ Answering("live") /\ Fails(failed)
    /\ LET found == IF failed THEN Call.found ELSE Fetched(Hits[Call.at])
       IN  IF Call.at = Len(LiveFields)
           THEN queue' = Tail(queue) /\ SetRows(found)
           ELSE queue' = Append(Tail(queue), LiveCall(Call.at + 1, found)) /\ UNCHANGED <<rows, selected>>
    /\ disturbed' = (disturbed \/ failed)
    /\ UNCHANGED <<toastVars, server, store, page, mode, mount, searchVars, undo, ops, stale>>

\* One field answered, or failed and left out; the next one is asked, and after
\* the last one the rows are what was found.
AnswerLive(failed) ==
    /\ Answering("live") /\ Fails(failed)
    /\ LET found == IF failed THEN Call.found ELSE Merging(Call.found, Fetched(Hits[Call.at]))
       IN  IF Call.at = Len(LiveFields)
           THEN queue' = Tail(queue) /\ SetRows(found)
           ELSE queue' = Append(Tail(queue), LiveCall(Call.at + 1, found)) /\ UNCHANGED <<rows, selected>>
    /\ disturbed' = (disturbed \/ failed)
    /\ UNCHANGED <<toastVars, server, store, page, mode, mount, searchVars, undo, ops, stale>>

Written == [server EXCEPT ![Call.id] = [@ EXCEPT ![Call.board] = Call.value]]

AnswerUpdate ==
    /\ Answering("update") /\ Fails(FALSE)
    /\ queue' = Tail(queue) /\ server' = Written
    /\ UNCHANGED <<toastVars, store, page, rows, mode, mount, selected, searchVars, undo, ops, disturbed, stale>>

\* Mutant: a refused move leaves the card where it was dropped.
RejectUpdateKeepsCard ==
    /\ Answering("update") /\ Fails(TRUE)
    /\ queue' = Tail(queue)
    /\ server' \in {server, Written}
    /\ stale' = (stale \/ server' # server \/ Call.mount # mount)
    /\ UNCHANGED <<toastVars, store, page, rows, mode, mount, selected, searchVars, undo, ops, disturbed>>

\* The write was refused, or its answer was lost.  The board puts back the whole
\* list it moved the card in; a board that was left puts back nothing.
RejectUpdate ==
    /\ Answering("update") /\ Fails(TRUE)
    /\ queue' = Tail(queue)
    /\ server' \in {server, Written}
    /\ IF Call.mount = mount THEN SetRows(Call.previous) ELSE UNCHANGED <<rows, selected>>
    /\ stale' = \/ stale \/ server' # server \/ Call.mount # mount
                \/ \E i \in DOMAIN Tail(queue) : Tail(queue)[i].kind = "update"
                \/ rows # [Call.previous EXCEPT ![Call.id] = [@ EXCEPT ![Call.board] = Call.value]]
    /\ disturbed' = (disturbed \/ DOMAIN rows' # DOMAIN rows)
    /\ UNCHANGED <<toastVars, store, page, mode, mount, searchVars, undo, ops>>

\* The calls about saved filters and group values.
AnswerSaved(failed) ==
    /\ Answering("saved") /\ Fails(failed)
    /\ queue' = Tail(queue) /\ listed' = IF failed THEN {} ELSE store
    /\ UNCHANGED <<toastVars, server, store, page, rows, mode, mount, selected, typed, filters, applied, group,
                   offered, asked, crossed, undo, ops, disturbed, stale>>

AnswerCreate(failed) ==
    /\ Answering("create") /\ Fails(failed)
    /\ queue' = Tail(queue)
    /\ IF failed THEN UNCHANGED <<store, listed>>
                 ELSE store' = store \union {Call.filter} /\ listed' = listed \union {Call.filter}
    /\ UNCHANGED <<toastVars, server, page, rows, mode, mount, selected, typed, filters, applied, group,
                   offered, asked, crossed, undo, ops, disturbed, stale>>

AnswerRemove(failed) ==
    /\ Answering("remove") /\ Fails(failed)
    /\ queue' = Tail(queue) /\ store' = IF failed THEN store ELSE store \ {Call.filter}
    /\ UNCHANGED <<toastVars, server, page, rows, mode, mount, selected, searchVars, undo, ops, disturbed, stale>>

AnswerDistinct(failed) ==
    /\ Answering("distinct") /\ Fails(failed)
    /\ queue' = Tail(queue) /\ offered' = IF failed THEN offered ELSE Call.field
    /\ UNCHANGED <<toastVars, server, store, page, rows, mode, mount, selected, typed, filters, applied, listed,
                   group, asked, crossed, undo, ops, disturbed, stale>>

User ==
    \/ \E t \in {"empty", "text"} : Type(t)
    \/ ChangeFilters \/ OpenMenu
    \/ \E s \in Saved : ApplySavedFilter(s) \/ SaveCurrentFilters(s) \/ DeleteSavedFilter(s)
    \/ \E f \in GroupFields : OpenGroupField(f)
    \/ \E r \in Ids : DragOut(r) \/ \E v \in Columns : Drop(r, v)
    \/ \E m \in Modes : SwitchMode(m)
    \/ RecoverFilter \/ RecoverDate \/ DismissBanner \/ Select

Next ==
    \/ User \/ FireEmpty \/ FireText \/ ExpireBanner \/ Refresh \/ AnswerUpdate \/ RejectUpdate
    \/ \E failed \in BOOLEAN : \/ AnswerList(failed) \/ AnswerLive(failed) \/ AnswerSaved(failed)
                               \/ AnswerCreate(failed) \/ AnswerRemove(failed) \/ AnswerDistinct(failed)

Spec == Init /\ [][Next]_vars

----------------------------------------------------------------------------
(* Properties *)

\* The bar names a saved filter only while its conditions are the applied ones
\* ("cleared by applyFilters on every call, re-set by applySavedFilter right after").
NameTellsConditions == applied # NoFilter => filters = Config[applied].filters

\* A deletion the user took back never reaches the server: the filter is there and
\* no call will remove it, unless another banner deleted it again.
RecoveredIsKept ==
    \A e \in Toasts : fate[e] = "recovered" /\ undo[e].of = "filter" =>
        \/ undo[e].filter \in store /\ \A i \in DOMAIN queue : queue[i] # RemoveCall(undo[e].filter)
        \/ \E d \in Toasts \ {e} : fate[d] = "expired" /\ undo[d].of = "filter" /\ undo[d].filter = undo[e].filter

Quiet == typed = Idle /\ ~Queued({"list", "live"})

\* Once everything is answered the grid shows what the last touch of the bar asks
\* for, however the calls were interleaved - when no older search was under way.
CalmTouchWins == Quiet /\ ~disturbed /\ ~crossed => DOMAIN rows = asked

\* With no write under way every board shows what Go stores, refused moves
\* included, unless a list that was read before the move was shown after it, a
\* second move was rolled back with the first, or the board was left.
BoardShowsServer == ~stale /\ ~Queued({"update"}) => \A r \in DOMAIN rows : rows[r] = server[r]
=============================================================================
