----------------------------- MODULE GraphBoard -----------------------------
(***************************************************************************)
(* The Graph mode of a list (graph-renderer.tsx): a board of tiles kept as *)
(* one setting of the entity, edited as a draft and saved whole, the       *)
(* dialog that configures a tile (graph-widget-config.tsx), and what each  *)
(* tile shows of the records (graph-aggregate.ts, graph-widgets.tsx).  A   *)
(* tile's place is its row; columns, pixels and colours are left out.      *)
(***************************************************************************)
EXTENDS Integers, Sequences, FiniteSets, SequencesExt, FiniteSetsExt, TLC, Objects

CONSTANTS
    TileIds,       \* ids of the tiles to come
    Stored,        \* the layouts the server may hold at first
    RecordLists,   \* what the list may hand down
    NoTotal,       \* the total is not known
    Bucket(_, _),  \* bucketKey: the day, week or month of a date
    MaxPieSlices,  \* MAX_PIE_SLICES
    MaxClicks      \* bound: clicks of one visit

VARIABLES
    board,       \* off, loading, ready
    records,     \* rows: the page of records handed down, total: of the whole list
    server,      \* the layout on the server
    saved,       \* the tiles last loaded or saved
    editing,
    sketch,      \* the draft, while editing
    saving, failure, phone,
    dialog,      \* the configuration dialog
    requests,    \* Server Actions under way: get, or save with its tiles
    clicks,      \* ghost
    disturbed    \* ghost: a call failed, or another user saved

boardVars == <<board, records, server, saved, editing, sketch, saving, failure, phone, dialog, requests, clicks,
               disturbed>>

-----------------------------------------------------------------------------
(* What a tile shows. *)

\* Records: label (empty: none), date (empty: none), value (NoNumber: not a number).
NoNumber == -1
TILE_TYPES == {"xy", "bar", "pie", "stat", "list"}

Total(values) ==
    LET upTo[i \in 0..Len(values)] == IF i = 0 THEN 0 ELSE upTo[i - 1] + values[i] IN upTo[Len(values)]
ValuesOf(rs) ==
    LET numbers == Sift(rs, {r \in ToSet(rs) : r.value # NoNumber}) IN [i \in DOMAIN numbers |-> numbers[i].value]

\* Averages are rounded down here.
aggregate(values, kind) ==
    LET sorted == ByWeight(values, values)
        mid == Len(values) \div 2
    IN CASE kind = "count" -> Len(values)
         [] kind = "sum" -> Total(values)
         [] values = <<>> -> 0
         [] kind \in {"avg", "mean"} -> Total(values) \div Len(values)
         [] kind = "median" /\ Len(values) % 2 = 0 -> (sorted[mid] + sorted[mid + 1]) \div 2
         [] OTHER -> sorted[mid + 1]

statValue(rs, kind) == IF kind = "count" THEN Len(rs) ELSE aggregate(ValuesOf(rs), kind)

Distinct(keys) ==
    LET new(i) == keys[i] # "" /\ \A k \in 1..(i - 1) : keys[k] # keys[i]
        places == Sift([i \in DOMAIN keys |-> i], {i \in DOMAIN keys : new(i)})
    IN [k \in DOMAIN places |-> keys[places[k]]]
Labels(rs) == Distinct([i \in DOMAIN rs |-> rs[i].label])
OfLabel(rs, label) == Sift(rs, {r \in ToSet(rs) : r.label = label})

\* One point per bucket; a record without a date or a number is in none.
xyPoints(rs, kind, granularity) ==
    LET able == Sift(rs, {r \in ToSet(rs) : r.date # "" /\ r.value # NoNumber})
        keys == Distinct([i \in DOMAIN able |-> Bucket(able[i].date, granularity)])
        ofKey(key) == Sift(able, {r \in ToSet(able) : Bucket(r.date, granularity) = key})
    IN [k \in DOMAIN keys |-> [bucket |-> keys[k], value |-> aggregate(ValuesOf(ofKey(keys[k])), kind)]]

\* A line per label, when the tile has a series field, here in the order of the records.
xySeries(rs, config) ==
    IF "series" \notin config.picks
    THEN <<[label |-> "", points |-> xyPoints(rs, config.aggregate, config.bucket)]>>
    ELSE [k \in DOMAIN Labels(rs) |->
            [label |-> Labels(rs)[k],
             points |-> xyPoints(OfLabel(rs, Labels(rs)[k]), config.aggregate, config.bucket)]]

\* The labels by number of records; those too many are one slice.
SliceOf(rs, label) ==
    LET of == OfLabel(rs, label)
    IN [label |-> label, count |-> Len(of), sum |-> Total(ValuesOf(of))]
Fold(slices, kept) ==
    LET rest == SubSeq(slices, kept + 1, Len(slices))
    IN Append(SubSeq(slices, 1, MaxPieSlices - 1),
              [label |-> "other", count |-> Total([i \in DOMAIN rest |-> rest[i].count]),
               sum |-> Total([i \in DOMAIN rest |-> rest[i].sum])])
SortedSlices(rs) ==
    LET slices == [k \in DOMAIN Labels(rs) |-> SliceOf(rs, Labels(rs)[k])]
    IN ByWeight(slices, [k \in DOMAIN slices |-> -slices[k].count])

\* Mutant: the slice next to the last one kept is in neither part.
pieSlicesShort(rs) ==
    IF Len(SortedSlices(rs)) <= MaxPieSlices THEN SortedSlices(rs) ELSE Fold(SortedSlices(rs), MaxPieSlices)

pieSlices(rs) ==
    IF Len(SortedSlices(rs)) <= MaxPieSlices THEN SortedSlices(rs) ELSE Fold(SortedSlices(rs), MaxPieSlices - 1)

-----------------------------------------------------------------------------
(* The bodies of the tiles.  A mark is a point, a bar, a segment or a slice:
   where it is, from what height, and how much it stands for. *)

PartialDataBadge(rs) == rs.total # NoTotal /\ rs.total > Len(rs.rows)

NoData == [marks |-> {}, legend |-> <<>>, badge |-> FALSE, complete |-> FALSE]

BucketsOf(series) == UNION {{p.bucket : p \in ToSet(series[s].points)} : s \in DOMAIN series}
Legend(series) == IF Len(series) > 1 /\ BucketsOf(series) # {} THEN [s \in DOMAIN series |-> series[s].label] ELSE <<>>

XyChart(series) ==
    UNION {{[at |-> <<p.bucket, s>>, base |-> 0, value |-> p.value] : p \in ToSet(series[s].points)} : s \in DOMAIN series}

\* A series that has no point in a bucket counts zero there, and zero has no bar.
ValueAt(points, bucket) ==
    LET of == Sift(points, {p \in ToSet(points) : p.bucket = bucket}) IN IF of = <<>> THEN 0 ELSE of[1].value
BarChart(series, mode) ==
    LET value(b, s) == ValueAt(series[s].points, b)
        below(b, s) == Total([k \in 1..(s - 1) |-> value(b, k)])
        bar(b, s) ==
            IF mode = "stacked" THEN [at |-> <<b>>, base |-> below(b, s), value |-> value(b, s)]
            ELSE [at |-> <<b, s>>, base |-> 0, value |-> value(b, s)]
    IN {m \in {bar(b, s) : b \in BucketsOf(series), s \in DOMAIN series} : m.value # 0}

StatWidgetBody(config, rs) ==
    [NoData EXCEPT !.marks = {[at |-> <<>>, base |-> 0, value |-> statValue(rs.rows, config.aggregate)]},
                   !.badge = PartialDataBadge(rs), !.complete = TRUE]

\* XyWidgetBody and BarWidgetBody.
ChartBody(type, config, rs) ==
    LET series == xySeries(rs.rows, config)
    IN [marks |-> IF type = "bar" THEN BarChart(series, config.mode) ELSE XyChart(series),
        legend |-> Legend(series), badge |-> PartialDataBadge(rs), complete |-> TRUE]

\* Every slice starts where the one before it ends.
PieWidgetBody(rs) ==
    LET slices == pieSlices(rs.rows)
        before(i) == Total([k \in 1..(i - 1) |-> slices[k].count])
    IN [marks |-> {[at |-> <<>>, base |-> before(i), value |-> slices[i].count] : i \in DOMAIN slices},
        legend |-> [i \in DOMAIN slices |-> slices[i].label], badge |-> PartialDataBadge(rs), complete |-> TRUE]

-----------------------------------------------------------------------------
(* The tiles and the dialog. *)

Ids(tiles) == {tiles[i].id : i \in DOMAIN tiles}
Visible(tiles) == Sift(tiles, {tl \in ToSet(tiles) : ~tl.hidden})
TilesShown == IF editing THEN sketch ELSE saved

\* On a phone the saved tiles, in the order of their rows, whatever the draft is.
Cards ==
    IF phone THEN ByWeight(Visible(saved), [i \in DOMAIN Visible(saved) |-> Visible(saved)[i].y])
    ELSE Visible(TilesShown)

DEFAULT_TILE_H == 6
nextTilePosition(tiles) == Max({0} \union {tl.y + tl.h : tl \in ToSet(tiles)})

\* The options that build() asks for.
Required(type) ==
    CASE type \in {"xy", "bar"} -> {"x", "y"}
      [] type = "pie" -> {"group"}
      [] type = "stat" -> {"field"}
      [] type = "list" -> {"filterField", "filterValue", "columns"}
\* number: the field picked for a stat is a number.
Optional(type) ==
    CASE type \in {"xy", "bar"} -> {"series"} [] type = "pie" -> {"value"} [] type = "stat" -> {"number"}
      [] OTHER -> {}

\* What the dialog can take back: an option that may be none, the last column, the text
\* of a filter, and a stat's field for one that is not a number.
Clearable == {"series", "value", "columns", "filterValue", "number"}

\* Charts and stats have an aggregate each, seeded from the same option.
ChartAggregates == {"sum", "avg", "count"}
StatAggregates == {"sum", "mean", "median", "count"}
Seeded(tile) ==
    LET kind == tile.config.aggregate
    IN [type |-> tile.type, picks |-> tile.config.picks \union {"columns"},
        chart |-> IF kind \in ChartAggregates THEN kind ELSE "sum",
        stat |-> IF kind \in StatAggregates THEN kind ELSE "count",
        bucket |-> tile.config.bucket, mode |-> tile.config.mode]
Fresh ==
    [type |-> "stat", picks |-> {"columns"}, chart |-> "sum", stat |-> "count", bucket |-> "month",
     mode |-> "grouped"]
Closed == [target |-> "none"]
Open == dialog # Closed

\* build() gives an error unless this holds; what it builds leaves out the options of other types.
Buildable(d) ==
    /\ Required(d.type) \subseteq d.picks
    /\ d.type = "stat" /\ d.stat # "count" => "number" \in d.picks
Built(d) ==
    LET chart == d.type \in {"xy", "bar"}
    IN [picks |-> d.picks \intersect (Required(d.type) \union Optional(d.type)),
        aggregate |-> IF chart THEN d.chart ELSE IF d.type = "stat" THEN d.stat ELSE "none",
        bucket |-> IF chart THEN d.bucket ELSE "month", mode |-> IF d.type = "bar" THEN d.mode ELSE "grouped"]

\* The list tile asks the server and is left out.
GraphWidgetBody(tl) ==
    CASE tl.type # "list" /\ ~Required(tl.type) \subseteq tl.config.picks -> NoData
      [] tl.type = "stat" -> StatWidgetBody(tl.config, records)
      [] tl.type \in {"xy", "bar"} -> ChartBody(tl.type, tl.config, records)
      [] tl.type = "pie" -> PieWidgetBody(records)
      [] OTHER -> [NoData EXCEPT !.complete = TRUE]

\* A parent that renders again hands a new object down: the dialog of an existing
\* tile starts over from the tile as it was when the dialog was opened.
Rerendered == IF Open /\ dialog.target # "new" THEN [dialog EXCEPT !.form = Seeded(dialog.tile)] ELSE dialog

-----------------------------------------------------------------------------
(* The board. *)

BoardInit ==
    /\ board = "off" /\ records = [rows |-> <<>>, total |-> 0] /\ server = <<>> /\ saved = <<>>
    /\ editing = FALSE /\ sketch = <<>> /\ saving = FALSE /\ failure = FALSE /\ phone = FALSE
    /\ dialog = Closed /\ requests = <<>> /\ clicks = 0 /\ disturbed = FALSE

OpenBoard ==
    /\ board' = "loading"
    /\ records' \in RecordLists /\ server' \in Stored
    /\ requests' = <<[kind |-> "get"]>>
    /\ UNCHANGED <<saved, editing, sketch, saving, failure, phone, dialog, clicks, disturbed>>

\* A layout that cannot be read is an empty board.
AnswerGet ==
    /\ requests # <<>> /\ Head(requests).kind = "get"
    /\ \/ saved' = server /\ UNCHANGED disturbed
       \/ saved' = <<>> /\ disturbed' = TRUE
    /\ board' = "ready"
    /\ requests' = Tail(requests)
    /\ UNCHANGED <<records, server, editing, sketch, saving, failure, phone, dialog, clicks>>

Click == board = "ready" /\ clicks < MaxClicks /\ clicks' = clicks + 1
Toolbar == Click /\ ~phone /\ ~Open

startEdit ==
    /\ Toolbar /\ ~editing
    /\ editing' = TRUE /\ sketch' = saved /\ failure' = FALSE
    /\ UNCHANGED <<board, records, server, saved, saving, phone, dialog, requests, disturbed>>

cancelEdit ==
    /\ Toolbar /\ editing /\ ~saving
    /\ editing' = FALSE /\ sketch' = <<>> /\ failure' = FALSE
    /\ UNCHANGED <<board, records, server, saved, saving, phone, dialog, requests, disturbed>>

saveEdit ==
    /\ Toolbar /\ editing /\ ~saving
    /\ saving' = TRUE /\ failure' = FALSE
    /\ requests' = Append(requests, [kind |-> "save", tiles |-> sketch])
    /\ UNCHANGED <<board, records, server, saved, editing, sketch, phone, dialog, disturbed>>

Sent == Head(requests).tiles

\* What is shown from now on: the tiles that were sent, not those of the draft.
SketchNow == sketch
Kept == Sent

\* What was changed while the call was under way is dropped with the draft.
AnswerSaveEdit ==
    /\ requests # <<>> /\ Head(requests).kind = "save"
    /\ \/ /\ server' = Sent /\ saved' = Kept
          /\ editing' = FALSE /\ sketch' = <<>>
          /\ UNCHANGED <<failure, disturbed>>
       \/ /\ server' \in {server, Sent}   \* an error may hide a write that was made
          /\ failure' = TRUE /\ disturbed' = TRUE
          /\ UNCHANGED <<saved, editing, sketch>>
    /\ saving' = FALSE
    /\ dialog' = Rerendered
    /\ requests' = Tail(requests)
    /\ UNCHANGED <<board, records, phone, clicks>>

\* Across the width of a phone; a draft is kept, and an open dialog stays.
Resize ==
    /\ Click
    /\ phone' = ~phone /\ dialog' = Rerendered
    /\ UNCHANGED <<board, records, server, saved, editing, sketch, saving, failure, requests, disturbed>>

Sketching == Toolbar /\ editing
Changed(id, f(_)) == [i \in DOMAIN sketch |-> IF sketch[i].id = id THEN f(sketch[i]) ELSE sketch[i]]

hideTile ==
    /\ Sketching
    /\ \E id \in Ids(Visible(sketch)) : sketch' = Changed(id, LAMBDA tl : [tl EXCEPT !.hidden = TRUE])
    /\ UNCHANGED <<board, records, server, saved, editing, saving, failure, phone, dialog, requests, disturbed>>

restoreTile ==
    /\ Sketching
    /\ \E id \in Ids(sketch) \ Ids(Visible(sketch)) :
          sketch' = Changed(id, LAMBDA tl : [tl EXCEPT !.hidden = FALSE])
    /\ UNCHANGED <<board, records, server, saved, editing, saving, failure, phone, dialog, requests, disturbed>>

\* A drag, as the grid reports it: the visible tiles have other rows.
handleLayoutChange ==
    /\ Sketching
    /\ \E id \in Ids(Visible(sketch)), y \in {0, DEFAULT_TILE_H} :
          sketch' = Changed(id, LAMBDA tl : [tl EXCEPT !.y = y])
    /\ UNCHANGED <<board, records, server, saved, editing, saving, failure, phone, dialog, requests, disturbed>>

OpenDialog ==
    /\ Sketching
    /\ \/ dialog' = [target |-> "new", form |-> Fresh]
       \/ \E i \in DOMAIN Visible(sketch) :
             LET tl == Visible(sketch)[i] IN dialog' = [target |-> tl.id, tile |-> tl, form |-> Seeded(tl)]
    /\ UNCHANGED <<board, records, server, saved, editing, sketch, saving, failure, phone, requests, disturbed>>

\* Another type keeps what was picked for the last one.
Configure ==
    /\ Click /\ Open
    /\ \/ \E type \in TILE_TYPES \ {dialog.form.type} : dialog' = [dialog EXCEPT !.form.type = type]
       \/ \E pick \in Required(dialog.form.type) \union Optional(dialog.form.type) :
             \/ /\ pick \notin dialog.form.picks
                /\ dialog' = [dialog EXCEPT !.form.picks = @ \union {pick}]
             \/ /\ pick \in dialog.form.picks \intersect Clearable
                /\ dialog' = [dialog EXCEPT !.form.picks = @ \ {pick}]
       \/ /\ dialog.form.type \in {"xy", "bar"}
          /\ \/ \E kind \in ChartAggregates \ {dialog.form.chart} : dialog' = [dialog EXCEPT !.form.chart = kind]
             \/ \E step \in {"day", "month"} \ {dialog.form.bucket} : dialog' = [dialog EXCEPT !.form.bucket = step]
       \/ /\ dialog.form.type = "bar"
          /\ \E mode \in {"grouped", "stacked"} \ {dialog.form.mode} : dialog' = [dialog EXCEPT !.form.mode = mode]
       \/ /\ dialog.form.type = "stat"
          /\ \E kind \in StatAggregates \ {dialog.form.stat} : dialog' = [dialog EXCEPT !.form.stat = kind]
    /\ UNCHANGED <<board, records, server, saved, editing, sketch, saving, failure, phone, requests, disturbed>>

CloseDialog ==
    /\ Click /\ Open
    /\ dialog' = Closed
    /\ UNCHANGED <<board, records, server, saved, editing, sketch, saving, failure, phone, requests, disturbed>>

\* Without a draft the submission is dropped, and the dialog stays open.
submitWidget ==
    /\ Click /\ Open /\ Buildable(dialog.form)
    /\ \/ /\ ~editing /\ UNCHANGED <<sketch, dialog>>
       \/ /\ editing /\ dialog.target = "new"
          /\ \E id \in TileIds \ (Ids(sketch) \union Ids(server)) :
                sketch' = Append(sketch,
                    [id |-> id, type |-> dialog.form.type, config |-> Built(dialog.form), hidden |-> FALSE,
                     y |-> nextTilePosition(Visible(sketch)), h |-> DEFAULT_TILE_H])
          /\ dialog' = Closed
       \/ /\ editing /\ dialog.target # "new"
          /\ sketch' = Changed(dialog.target,
                LAMBDA tl : [tl EXCEPT !.type = dialog.form.type, !.config = Built(dialog.form)])
          /\ dialog' = Closed
    /\ UNCHANGED <<board, records, server, saved, editing, saving, failure, phone, requests, disturbed>>

\* Another user's save of the same setting.
OtherSaves ==
    /\ board = "ready" /\ ~disturbed
    /\ server' \in Stored \ {server}
    /\ disturbed' = TRUE
    /\ UNCHANGED <<board, records, saved, editing, sketch, saving, failure, phone, dialog, requests, clicks>>

BoardNext ==
    \/ AnswerGet \/ startEdit \/ cancelEdit \/ saveEdit \/ AnswerSaveEdit \/ Resize
    \/ hideTile \/ restoreTile \/ handleLayoutChange \/ OpenDialog \/ Configure \/ CloseDialog
    \/ submitWidget \/ OtherSaves

-----------------------------------------------------------------------------

(***************************************************************************)
(* After the board was read, with no call under way, no failure and no     *)
(* other user, what it shows when nothing is being edited is what the      *)
(* server keeps, whatever was clicked while a save was under way           *)
(* (saveEdit, graph-renderer.tsx).                                         *)
(***************************************************************************)
BoardShowsStored == board = "ready" /\ requests = <<>> /\ ~disturbed => saved = server

\* What the board starts from: limits, and rows that are a page of the list, with
\* amounts that are not negative and dates that can be read; and layouts of tiles
\* as the dialog builds them.
Granularities == {"day", "week", "month"}
TileDeclared(tl) ==
    /\ tl = [id |-> tl.id, type |-> tl.type, config |-> tl.config, hidden |-> tl.hidden, y |-> tl.y, h |-> tl.h]
    /\ tl.type \in TILE_TYPES /\ tl.y \in Nat /\ tl.h \in Nat
    /\ Required(tl.type) \subseteq tl.config.picks
    /\ tl.config.picks \subseteq Required(tl.type) \union Optional(tl.type)
    /\ tl.config.bucket \in Granularities
    /\ tl.type \in {"xy", "bar"} => tl.config.aggregate \in ChartAggregates
RecordsDeclared(rs) ==
    /\ rs.rows \in Seq(ToSet(rs.rows))
    /\ rs.total # NoTotal => rs.total \in Nat /\ rs.total >= Len(rs.rows)
    /\ \A r \in ToSet(rs.rows) : r.value \in Nat \union {NoNumber}
    /\ \A r \in ToSet(rs.rows), step \in Granularities : r.date # "" => Bucket(r.date, step) # ""
BoardDeclared ==
    /\ MaxPieSlices \in Nat \ {0}
    /\ \A rs \in RecordLists : RecordsDeclared(rs)
    /\ \A tiles \in Stored : tiles \in Seq(ToSet(tiles)) /\ \A tl \in ToSet(tiles) : TileDeclared(tl)

(***************************************************************************)
(* Every tile on the screen has a complete configuration, and counts each  *)
(* record that has what it needs exactly once: a stat, the slices of a     *)
(* pie, the folded one included, and the bars and points of a chart that   *)
(* counts; no two of them cover each other, and a tile that stands for     *)
(* fewer records than the list has says so (build, pieSlices, xySeries,    *)
(* BarChart, PartialDataBadge).                                            *)
(***************************************************************************)
Counts(tl) == tl.type = "pie" \/ (tl.type \in {"stat", "xy", "bar"} /\ tl.config.aggregate = "count")
Countable(tl, r) ==
    /\ tl.type = "pie" \/ "series" \in tl.config.picks => r.label # ""
    /\ tl.type \in {"xy", "bar"} => r.date # "" /\ r.value # NoNumber
Height(marks) == MapThenSumSet(LAMBDA m : m.value, marks)
Apart(marks) ==
    \A m, n \in marks :
        m # n /\ m.at = n.at => m.base + m.value <= n.base \/ n.base + n.value <= m.base
TilesCountOnce ==
    \A i \in DOMAIN Cards :
        LET tl == Cards[i]
            body == GraphWidgetBody(tl)
        IN /\ body.complete
           /\ Counts(tl) =>
                /\ Height(body.marks) = Cardinality({k \in DOMAIN records.rows : Countable(tl, records.rows[k])})
                /\ body.badge \/ records.total \in {NoTotal, Len(records.rows)}
           /\ Apart(body.marks)
=============================================================================
