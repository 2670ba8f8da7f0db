----------------------------- MODULE FormStore ------------------------------
(***************************************************************************)
(* The store behind a record form (createFormStore): the draft the widgets *)
(* edit, and the commit that writes it with one Server Action.  A record   *)
(* is abstracted to a reference (many2one), the flag of a file field, and  *)
(* the staged links of a deferred many2many field, which no column holds.  *)
(* Server Actions are run one at a time by the Next client.                *)
(***************************************************************************)
EXTENDS Naturals, Sequences, FiniteSets

CONSTANTS
    Forms,      \* the field sets of the forms: each a subset of FieldKinds
    Related,    \* records of the entity that references and links point at
    Fresh,      \* the ones that do not exist yet
    MaxRecords, \* bound on the records this form has or creates
    MaxLinks,   \* bound on junction rows ever written
    MaxOps,     \* bound on what the user does
    MaxFaults   \* bound on failing calls

FieldKinds == {"tags", "deferred", "lines", "file", "signature"}
NoId == 0
NoRef == "none"
RecordIds == 1..MaxRecords
Links == 1..MaxLinks
Stored == [ref : Related \union {NoRef}, flag : BOOLEAN]
Staged == [toLink : SUBSET Related, toUnlink : SUBSET Links]
NothingStaged == [toLink |-> {}, toUnlink |-> {}]

ASSUME FormConstants ==
    /\ MaxRecords \in Nat \ {0} /\ MaxLinks \in Nat \ {0} /\ MaxOps \in Nat /\ MaxFaults \in Nat
    /\ IsFiniteSet(Related) /\ NoRef \notin Related /\ Fresh \subseteq Related
    /\ \A F \in Forms : F \subseteq FieldKinds /\ ~({"tags", "deferred"} \subseteq F)
                                            /\ ~({"file", "signature"} \subseteq F)

VARIABLES
    fields,  \* the fields of this form, besides its reference
    records, \* the records as Go stores them
    opened,  \* the page's record when it was loaded: an id, and its values
    draft,   \* the draft: id, fields, and what is staged
    dirty,
    queue,   \* the Server Actions called and not yet answered, oldest first
    ops, faults

storeVars == <<fields, records, opened, draft, dirty, queue, ops, faults>>

StoreTypeOK ==
    /\ fields \in Forms
    /\ DOMAIN records \subseteq RecordIds /\ \A i \in DOMAIN records : records[i] \in Stored
    /\ opened.id \in RecordIds \union {NoId} /\ opened.values \in Stored
    /\ draft \in [id : RecordIds \union {NoId}, ref : Related \union {NoRef}, flag : BOOLEAN, staged : Staged]
    /\ dirty \in BOOLEAN
    /\ ops \in 0..MaxOps /\ faults \in 0..MaxFaults

HasTags == fields \intersect {"tags", "deferred"} # {}
HasLines == "lines" \in fields
HasFile == fields \intersect {"file", "signature"} # {}
Signs == "signature" \in fields
deferred == "deferred" \in fields   \* widgetOptions.deferred

\* The value every field of a new record starts with.
Defaults == [ref |-> NoRef, flag |-> FALSE]

\* A draft made of what the server holds: nothing is staged.
Seed(id, values) == [id |-> id, ref |-> values.ref, flag |-> values.flag, staged |-> NothingStaged]

\* A form opened on a record, or on none (the route's id is "new").
StoreInit ==
    /\ fields \in Forms
    /\ \E r \in Related \ Fresh, f \in {FALSE} \union {HasFile} : opened \in {[id |-> NoId, values |-> Defaults],
                                                      [id |-> 1, values |-> [ref |-> r, flag |-> f]]}
    /\ records = [i \in {opened.id} \ {NoId} |-> opened.values]
    /\ draft = Seed(opened.id, opened.values) /\ dirty = FALSE
    /\ ops = 0 /\ faults = 0

Op == ops < MaxOps /\ ops' = ops + 1
Queued(kinds) == \E i \in DOMAIN queue : queue[i].kind \in kinds
Call == Head(queue)
Answering(kind) == queue # <<>> /\ Call.kind = kind
Fails(failed) == IF failed THEN faults < MaxFaults /\ faults' = faults + 1 ELSE UNCHANGED faults

SetField(name, value) == draft' = [draft EXCEPT ![name] = value] /\ dirty' = TRUE

\* The reference is required: a draft without it is refused before any call.
RequiredMissing(d) == d.ref = NoRef

\* What commit sends: every stored field of the draft, and the draft as it was
\* for its caller.
CommitCall(by, d, before) ==
    [kind |-> "commit", by |-> by, id |-> d.id, body |-> [ref |-> d.ref, flag |-> d.flag],
     staged |-> d.staged, before |-> before, expected |-> [own |-> NoId, tags |-> {}]]

NewId == Cardinality(DOMAIN records) + 1
HasRoom == NewId \in RecordIds
Target == IF Call.id = NoId THEN NewId ELSE Call.id
Written == [i \in DOMAIN records \union {Target} |-> IF i = Target THEN Call.body ELSE records[i]]

\* The draft is seeded again from what Go answered.
Reconcile == records' = Written /\ draft' = Seed(Target, Call.body) /\ dirty' = FALSE

\* The write failed, or its answer was lost: the draft stays as it is.
Reject == records' \in {records, Written} /\ UNCHANGED <<draft, dirty>>

Reset == draft' = Seed(opened.id, opened.values) /\ dirty' = FALSE
=============================================================================
