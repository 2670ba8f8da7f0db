--------------------------- MODULE FieldBehaviors ---------------------------
(***************************************************************************)
(* What a field declares (descriptor.ts) and what the form store makes of  *)
(* it (behaviors.ts): widgets, conditions, required fields, defaults,      *)
(* on_change handlers and computed fields.  A draft is a function from the *)
(* keys it carries to values; values are strings, NULL among them.         *)
(***************************************************************************)
EXTENDS Naturals, Sequences, FiniteSets, SequencesExt, TLC, DepthFirst

CONSTANTS
    Functions,      \* registered function name -> [entity, depends]
    Result(_, _),   \* what the handler of a function returns on a draft
    Handlers,       \* the on_change handlers, in order of registration
    Patch(_, _)     \* the part of the draft a handler sets (Nothing: none of it)

ASSUME HandlersAssumption == Handlers \in Seq(ToSet(Handlers))

NULL == "null"
Omitted == "undefined"   \* an option that the descriptor leaves out
Nothing == [k \in {} |-> NULL]

\* A condition: some alternative, all of whose tests hold.
Always == {{}}
Never == {}

\* through: the inverse field of a one2many, the junction of a many2many, is named.
FieldOf(name, type, widget) ==
    [name |-> name, type |-> type, widget |-> widget, store |-> TRUE, compute |-> Omitted,
     default |-> Omitted, relation |-> "none", through |-> FALSE, options |-> <<>>, presets |-> Nothing,
     requiredIf |-> Never, readOnlyIf |-> Never, visibleIf |-> Always, invisible |-> FALSE]

FieldNames(d) == {d.fields[i].name : i \in DOMAIN d.fields}
FieldNamed(d, name) == d.fields[CHOOSE i \in DOMAIN d.fields : d.fields[i].name = name]

-----------------------------------------------------------------------------
(* Validation at registration. *)

FIELD_WIDGETS(type) ==
    CASE type = "text" -> {"simple", "long", "phone", "table", "color", "url", "password", "username"}
      [] type = "number" -> {"float", "int", "percent", "stars", "phone", "monetary"}
      [] type = "boolean" -> {"switch", "picture", "signature", "file"}
      [] type = "date" -> {"simple"}
      [] type = "selection" -> {"select", "linked"}
      [] type = "address" -> {"form"}
      [] type = "totals" -> {"recap"}
      [] OTHER -> {}

\* The default widget of a relation kind, and those it may take instead.
RELATION_KIND_WIDGETS(kind) ==
    CASE kind = "many2one" -> {"search", "summary"}
      [] kind = "one2many" -> {"list", "carousel"}
      [] kind = "many2many" -> {"tags"}
      [] OTHER -> {}

\* resolveWidget throws unless this holds.
WidgetOK(f) ==
    /\ IF f.type = "relation"
       THEN /\ RELATION_KIND_WIDGETS(f.relation) # {} /\ f.widget \in RELATION_KIND_WIDGETS(f.relation) \union {Omitted}
            /\ f.relation \in {"one2many", "many2many"} => f.through
       ELSE FIELD_WIDGETS(f.type) # {} /\ f.widget \in FIELD_WIDGETS(f.type) \union {Omitted}
    /\ f.type = "selection" => f.options # <<>>
    /\ f.type = "totals" => f.relation # "none"

\* The names a catalog, a search or a status bar block refers to are declared.
BlocksOK(d) ==
    /\ d.viewType = "catalog" => d.titleOf \in FieldNames(d)
    /\ d.viewType = "tree" => d.searched \subseteq FieldNames(d)
    /\ d.viewType = "form" /\ d.statusBar # Omitted =>
          d.statusBar \in FieldNames(d) /\ FieldNamed(d, d.statusBar).type = "selection"

-----------------------------------------------------------------------------
(* Reading a field against a draft. *)

isVirtualRelation(f) == f.type = "relation" /\ f.relation # "many2one"

Value(draft, key) == IF key \in DOMAIN draft THEN draft[key] ELSE Omitted
isUnset(v) == v \in {NULL, Omitted, ""}

Holds(test, draft) ==
    LET v == Value(draft, test.field)
    IN CASE test.op = "eq" -> v = test.value
         [] test.op = "ne" -> v # test.value
         [] test.op = "in" -> v \in test.value
         [] test.op = "set" -> ~isUnset(v)
         [] test.op = "unset" -> isUnset(v)
evaluateCondition(cond, draft) == \E all \in cond : \A test \in all : Holds(test, draft)

\* A required or a read-only flag is the condition Always.
isFieldVisible(f, draft) == ~f.invisible /\ evaluateCondition(f.visibleIf, draft)

requiredMissing(d, draft) ==
    {i \in DOMAIN d.fields :
        LET f == d.fields[i]
        IN ~isVirtualRelation(f) /\ isFieldVisible(f, draft)
           /\ evaluateCondition(f.requiredIf, draft) /\ isUnset(Value(draft, f.name))}

-----------------------------------------------------------------------------
(* The plan of a descriptor. *)

Computed(d) == Sift(d.fields, {f \in ToSet(d.fields) : f.compute # Omitted})
Depends(f) == ToSet(Functions[f.compute].depends)

\* The computed fields that a computed field reads.
Upstream(d, name) ==
    Sift(Functions[FieldNamed(d, name).compute].depends, {f.name : f \in ToSet(Computed(d))})

ComputedNames(d) == [i \in DOMAIN Computed(d) |-> Computed(d)[i].name]
ComputeOrder(d) == PostOrder(ComputedNames(d), LAMBDA n : Upstream(d, n))
InDeclarationOrder(d) == Computed(d)

\* Dependencies first.
Ordered(d) ==
    LET order == ComputeOrder(d) IN [i \in DOMAIN order |-> FieldNamed(d, order[i])]

IsFunction(d, name) == name \in DOMAIN Functions /\ Functions[name].entity = d.entity
ForeignFunction(d, name) == name \in DOMAIN Functions /\ Functions[name].entity # d.entity

\* buildBehaviorPlan throws unless this holds.
PlanOK(d) ==
    /\ \A i \in DOMAIN d.fields :
          /\ d.fields[i].compute = Omitted \/ IsFunction(d, d.fields[i].compute)
          /\ ~ForeignFunction(d, d.fields[i].default)
    /\ DependenciesFirst(ComputeOrder(d), LAMBDA n : Upstream(d, n))

unstored(d) ==
    {d.fields[i].name : i \in {j \in DOMAIN d.fields :
        LET f == d.fields[j] IN ~f.store \/ isVirtualRelation(f) \/ f.type = "address"}}
stripUnstored(d, draft) == [k \in DOMAIN draft \ unstored(d) |-> draft[k]]

fieldZeroDefault(f) ==
    CASE f.type = "text" -> ""
      [] f.type = "number" -> "0"
      [] f.type = "boolean" -> "false"
      [] f.type = "selection" -> f.options[1]
      [] OTHER -> NULL

\* An address field owns columns of its own, named after it.
ADDRESS_SUFFIXES == <<"number", "complement", "street", "zip_code", "city", "state", "country">>
addressSubKey(name, suffix) == name \o "_" \o suffix
addressSubZeroDefault(suffix) == IF suffix = "number" THEN NULL ELSE ""

\* The keys that a seed fills in, in order: what each takes may read those before.
SeedOf(d, f, draft) ==
    IF f.default = Omitted THEN fieldZeroDefault(f)
    ELSE IF IsFunction(d, f.default) THEN Result(f.default, draft) ELSE f.default

Fill(draft, key, value) == IF key \in DOMAIN draft THEN draft ELSE With(draft, key, value)
FillAddress(draft, f) ==
    IF f.type # "address" THEN draft
    ELSE FoldLeft(LAMBDA acc, s : Fill(acc, addressSubKey(f.name, s), addressSubZeroDefault(s)),
                  draft, ADDRESS_SUFFIXES)
seedDefaults(d, draft) ==
    FoldLeft(LAMBDA acc, f : IF isVirtualRelation(f) THEN acc
                             ELSE LET all == FillAddress(acc, f) IN Fill(all, f.name, SeedOf(d, f, all)),
             draft, d.fields)

-----------------------------------------------------------------------------
(* An edit, a seed. *)

ComputeOnly == {"*"}   \* changed = null: every compute runs, no handler does

\* One handler, on the draft so far and the keys changed so far.
React(acc, handler) ==
    LET patch == Patch(handler.name, acc.draft)
        news == {k \in DOMAIN patch : Value(acc.draft, k) # patch[k]}
    IN IF acc.changed \intersect handler.onChange = {} THEN acc
       ELSE [draft |-> Over(patch, acc.draft), changed |-> acc.changed \union news]

Recompute(acc, f) ==
    LET v == Result(f.compute, acc.draft)
        due == acc.changed = ComputeOnly \/ acc.changed \intersect Depends(f) # {}
    IN IF ~due \/ Value(acc.draft, f.name) = v THEN acc
       ELSE [draft |-> With(acc.draft, f.name, v),
             changed |-> IF acc.changed = ComputeOnly THEN ComputeOnly ELSE acc.changed \union {f.name}]

Reacted(d, draft, changed) ==
    IF changed = ComputeOnly THEN [draft |-> draft, changed |-> changed]
    ELSE FoldLeft(React, [draft |-> draft, changed |-> changed],
                  Sift(Handlers, {h \in ToSet(Handlers) : h.entity = d.entity}))
applyBehaviors(d, draft, changed) ==
    FoldLeft(Recompute, Reacted(d, draft, changed), Ordered(d)).draft

\* The draft of a store created on a record, or re-seeded from an answer.
seed(d, record) ==
    LET full == seedDefaults(d, record)
    IN applyBehaviors(d, full, IF "id" \in DOMAIN record THEN ComputeOnly ELSE DOMAIN full)

setField(d, draft, key, value) == applyBehaviors(d, With(draft, key, value), {key})

\* Every computed field shows what its function gives for the draft.
Agrees(d, draft) ==
    \A f \in ToSet(Computed(d)) : Value(draft, f.name) = Result(f.compute, draft)
=============================================================================
