----------------------------- MODULE LayoutTree -----------------------------
(***************************************************************************)
(* The layout of a view (descriptor.ts) and the surgery that extensions    *)
(* perform on it (extensions.ts).  A tree is the sequence of its nodes in  *)
(* pre-order, each with its depth: the subtree of a node is the run of     *)
(* deeper nodes behind it, "the first match" is the match of least index,  *)
(* and no operator has to recurse.                                         *)
(***************************************************************************)
EXTENDS Naturals, Sequences, FiniteSets, SequencesExt

ContainerKinds == {"group", "row", "section", "notebook", "page"}
NoAnchor == ""   \* a container without id, an operation without target

FORM_HEADER_ID == "__form_header"
FORM_COLUMNS_ID == "__form_columns"
FORM_NOTEBOOK_ID == "__form_notebook"
PAGE_SETTINGS_ID == "__page_settings"

\* titled: the page has its title, the field is rendered as the big heading.
Leaf(name, depth) == [kind |-> "field", id |-> name, depth |-> depth, titled |-> FALSE]
Title(name, depth) == [Leaf(name, depth) EXCEPT !.titled = TRUE]
Container(kind, id, depth) == [kind |-> kind, id |-> id, depth |-> depth, titled |-> kind = "page"]

Leaves(names, depth) == [i \in DOMAIN names |-> Leaf(names[i], depth)]

-----------------------------------------------------------------------------
(* Reading a tree. *)

IsLeaf(node) == node.kind = "field"
IsFieldMatch(node, name) == IsLeaf(node) /\ node.id = name
IsContainerIdMatch(node, id) == ~IsLeaf(node) /\ id # NoAnchor /\ node.id = id
IsAnchor(node, id) == id # NoAnchor /\ node.id = id

\* The last index of the subtree at i, and the subtree itself.
End(t, i) == i + Cardinality({j \in (i + 1)..Len(t) : \A k \in (i + 1)..j : t[k].depth > t[i].depth})
Branch(t, i) == SubSeq(t, i, End(t, i))
Tops(t) == {i \in DOMAIN t : t[i].depth = 0}
Parents(t, i) == {p \in 1..(i - 1) : t[p].depth = t[i].depth - 1 /\ i <= End(t, p)}

\* The first node, depth first, that Test accepts (0: none does).
First(t, Test(_)) ==
    LET hits == {i \in DOMAIN t : Test(t[i])} IN IF hits = {} THEN 0 ELSE Min(hits)

layoutFieldOrder(t) == LET order == SelectSeq(t, IsLeaf) IN [i \in DOMAIN order |-> order[i].id]

titleFieldName(t) ==
    LET titles == SelectSeq(t, LAMBDA n : IsLeaf(n) /\ n.titled)
    IN IF titles = <<>> THEN NoAnchor ELSE titles[1].id

\* What normalizeLayout demands of a declared layout.
WellFormed(t, names) ==
    /\ \A i \in DOMAIN t : IsLeaf(t[i]) => t[i].id \in names
    /\ \A i, j \in DOMAIN t : i # j /\ IsLeaf(t[i]) /\ IsLeaf(t[j]) => t[i].id # t[j].id
    /\ \A i, j \in DOMAIN t :
          i # j /\ ~IsLeaf(t[i]) /\ ~IsLeaf(t[j]) /\ t[i].id # NoAnchor => t[i].id # t[j].id
    /\ \A i \in DOMAIN t : t[i].kind = "page" =>
          t[i].titled /\ \E p \in Parents(t, i) : t[p].kind = "notebook"
    /\ \A i \in DOMAIN t : \A p \in Parents(t, i) : t[p].kind = "notebook" => t[i].kind = "page"
    /\ Cardinality({i \in DOMAIN t : t[i].kind = "notebook"}) <= 1

-----------------------------------------------------------------------------
(* Surgery. *)

Without(t, i) == SubSeq(t, 1, i - 1) \o SubSeq(t, End(t, i) + 1, Len(t))

\* branch, put in front of index i with its root at the given depth.
Graft(t, i, branch, depth) ==
    SubSeq(t, 1, i - 1)
    \o [k \in DOMAIN branch |-> [branch[k] EXCEPT !.depth = @ - branch[1].depth + depth]]
    \o SubSeq(t, i, Len(t))

\* extract: the tree without its first match; the match is Branch(t, First(..)).
ExtractField(t, name) ==
    LET i == First(t, LAMBDA n : IsFieldMatch(n, name)) IN IF i = 0 THEN t ELSE Without(t, i)

AsChild(t, i, branch, position) ==
    Graft(t, IF position = "first" THEN i + 1 ELSE End(t, i) + 1, branch, t[i].depth + 1)
AsSibling(t, i, branch, position) ==
    Graft(t, IF position \in {"before", "first"} THEN i ELSE End(t, i) + 1, branch, t[i].depth)

\* No target: into the outermost container at that edge, notebooks skipped.
InsertAtEdge(t, branch, position) ==
    LET able == {i \in Tops(t) : t[i].kind # "notebook"}
        edge == IF position = "first" THEN Min(able) ELSE Max(able)
    IN IF able = {} THEN Graft(t, IF position = "first" THEN 1 ELSE Len(t) + 1, branch, 0)
       ELSE IF IsLeaf(t[edge]) THEN AsSibling(t, edge, branch, position)
       ELSE AsChild(t, edge, branch, position)

Anchor(t, target, position) ==
    IF position \in {"first", "last"} THEN First(t, LAMBDA n : IsContainerIdMatch(n, target))
    ELSE First(t, LAMBDA n : IsAnchor(n, target))

\* insertAt throws when this does not hold.
CanInsert(t, target, position) ==
    IF target = NoAnchor THEN position \in {"first", "last"} ELSE Anchor(t, target, position) # 0

InsertNode(t, branch, target, position) ==
    IF target = NoAnchor THEN InsertAtEdge(t, branch, position)
    ELSE IF position \in {"first", "last"} THEN AsChild(t, Anchor(t, target, position), branch, position)
    ELSE AsSibling(t, Anchor(t, target, position), branch, position)

-----------------------------------------------------------------------------
(* The layout of a view that declares none. *)

IsLong(f) == f.type = "text" /\ f.widget = "long"
IsTitle(f) == f.type = "text" /\ f.widget # "long"
NamesOf(fields) == [i \in DOMAIN fields |-> fields[i].name]
UpToOne(s) == SubSeq(s, 1, IF s = <<>> THEN 0 ELSE 1)

\* A form: heading (picture, title), columns, and a notebook for long texts.
synthesizeFormLayout(fields) ==
    LET picture == UpToOne(SelectSeq(fields, LAMBDA f : f.type = "boolean" /\ f.widget = "picture"))
        stored == SelectSeq(fields, LAMBDA f : IsTitle(f) /\ f.name = "display_name" /\ f.store)
        title == UpToOne(stored \o SelectSeq(fields, IsTitle))
        header == {f.name : f \in ToSet(picture \o title)}
        rest == SelectSeq(fields, LAMBDA f : f.name \notin header /\ ~IsLong(f))
    IN (IF header = {} THEN <<>>
        ELSE <<Container("row", FORM_HEADER_ID, 0)>> \o Leaves(NamesOf(picture), 1)
             \o [i \in DOMAIN title |-> Title(title[i].name, 1)])
       \o <<Container("group", FORM_COLUMNS_ID, 0)>> \o Leaves(NamesOf(rest), 1)
       \o <<Container("notebook", FORM_NOTEBOOK_ID, 0), Container("page", PAGE_SETTINGS_ID, 1)>>
       \o Leaves(NamesOf(SelectSeq(fields, IsLong)), 2)

NoLayout == <<>>   \* a descriptor that declares no layout

\* normalizeLayout throws unless WellFormed, for a declared layout.
normalizeLayout(d) ==
    IF d.layout # NoLayout THEN d.layout
    ELSE IF d.viewType = "form" THEN synthesizeFormLayout(d.fields)
    ELSE <<Container("group", NoAnchor, 0)>> \o Leaves(NamesOf(d.fields), 1)
LayoutOK(d) == d.layout = NoLayout \/ WellFormed(d.layout, {d.fields[i].name : i \in DOMAIN d.fields})
=============================================================================
