---------------------------- MODULE HeaderMenus -----------------------------
(***************************************************************************)
(* The header menus of the modules (header-menu-registry.ts) and what a    *)
(* caller sees of them in the top bar (header-menu-bar.tsx).  A menu has   *)
(* lines and groups of lines; a module's files register them when they are *)
(* imported, several calls for one menu adding to it.                      *)
(***************************************************************************)
EXTENDS Sequences, SequencesExt

NoPermission == "none"
Line(label, path, permission) == [kind |-> "line", label |-> label, path |-> path, permission |-> permission]
Group(label, children) == [kind |-> "group", label |-> label, children |-> children]

LinesOf(nodes) == SelectSeq(nodes, LAMBDA n : n.kind = "line")
GroupsOf(nodes) == SelectSeq(nodes, LAMBDA n : n.kind = "group")

\* A line is added at the end; a group, to the first group of its label.
Merged(nodes, node) ==
    LET same == {i \in DOMAIN nodes : node.kind = "group" /\ nodes[i].kind = "group" /\ nodes[i].label = node.label}
    IN IF same = {} THEN Append(nodes, node)
       ELSE LET first == CHOOSE i \in same : \A k \in same : i <= k
            IN [nodes EXCEPT ![first].children = @ \o node.children]
mergeEntries(existing, incoming) == FoldLeft(Merged, existing, incoming)

DistinctLabels(lines) == \A i, k \in DOMAIN lines : lines[i].label = lines[k].label => i = k

\* validateHeaderMenuEntries throws unless this holds.
EntriesOK(nodes) ==
    /\ DistinctLabels(LinesOf(nodes))
    /\ \A i \in DOMAIN nodes : nodes[i].label # "" /\ (nodes[i].kind = "line" => nodes[i].path # <<>>)
    /\ \A g \in ToSet(GroupsOf(nodes)) :
          /\ g.children # <<>> /\ g.children = LinesOf(g.children) /\ DistinctLabels(g.children)
          /\ \A line \in ToSet(g.children) : line.label # "" /\ line.path # <<>>

\* registerHeaderMenu: a call is a module, the name of its menu, entries.
AddMenu(acc, call) ==
    LET here == {i \in DOMAIN acc.menus : acc.menus[i].module = call.module /\ acc.menus[i].name = call.name}
        menu == IF here = {} THEN [call EXCEPT !.entries = mergeEntries(<<>>, @)]
                ELSE LET old == acc.menus[CHOOSE i \in here : TRUE]
                     IN [old EXCEPT !.entries = mergeEntries(@, call.entries)]
    IN IF ~acc.ok \/ ~EntriesOK(menu.entries) THEN [acc EXCEPT !.ok = FALSE]
       ELSE IF here = {} THEN [acc EXCEPT !.menus = Append(@, menu)]
       ELSE [acc EXCEPT !.menus = [i \in DOMAIN @ |-> IF i \in here THEN menu ELSE @[i]]]
registerHeaderMenus(menuCalls) == FoldLeft(AddMenu, [ok |-> TRUE, menus |-> <<>>], menuCalls)

forModule(menus, m) == SelectSeq(menus, LAMBDA menu : menu.module = m)

\* What the permissions of the caller leave: no gated line, no empty group.
permittedEntries(nodes, permissions) ==
    LET open(line) == line.permission \in permissions \union {NoPermission}
        left == [i \in DOMAIN nodes |->
                    IF nodes[i].kind = "line" THEN nodes[i]
                    ELSE [nodes[i] EXCEPT !.children = SelectSeq(@, open)]]
    IN SelectSeq(left, LAMBDA n : IF n.kind = "line" THEN open(n) ELSE n.children # <<>>)

visibleMenus(menus, permissions) ==
    SelectSeq(menus, LAMBDA menu : permittedEntries(menu.entries, permissions) # <<>>)

\* The lines of an open menu, those of a group below its label.
renderMenuEntries(nodes) ==
    FlattenSeq([i \in DOMAIN nodes |-> IF nodes[i].kind = "line" THEN <<nodes[i]>> ELSE nodes[i].children])

\* A button with a single line is that line; any other opens its lines.
HeaderMenuButton(menu, permissions) ==
    LET nodes == permittedEntries(menu.entries, permissions)
    IN IF Len(nodes) = 1 /\ nodes[1].kind = "line" THEN [opens |-> <<>>, leads |-> nodes[1].path]
       ELSE [opens |-> renderMenuEntries(nodes), leads |-> <<>>]
=============================================================================
