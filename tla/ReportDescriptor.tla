-------------------------- MODULE ReportDescriptor --------------------------
(***************************************************************************)
(* The reports a module declares (report-descriptor.ts) and what prints of *)
(* one with a record at hand (report-renderer.tsx).  A layout is the list  *)
(* of its nodes in the order every walk over the tree visits them; names   *)
(* of fields are tuples.                                                   *)
(***************************************************************************)
EXTENDS Sequences, SequencesExt, Objects

NoName == <<>>
Blank == "blank"        \* null and the empty string
NoFallback == "none"

SectionNode == [kind |-> "section"]
PageBreak == [kind |-> "pageBreak"]
TextNode(text) == [kind |-> "text", text |-> text]
FieldNode(name, fallback) == [kind |-> "field", name |-> name, fallback |-> fallback]
ImageNode(source) == [kind |-> "image", source |-> source]
\* relation: the entity and the column of the rows (NoName: the rows are in the record).
TableNode(source, columns, entity, inverse) ==
    [kind |-> "table", source |-> source, columns |-> columns, entity |-> entity, inverse |-> inverse]
Related(node) == node.entity # NoName \/ node.inverse # NoName

\* validateReportDescriptor throws unless this holds.
NodeOK(node) ==
    CASE node.kind = "field" -> node.name # NoName
      [] node.kind = "table" ->
            /\ node.source # NoName /\ node.columns # <<>> /\ NoName \notin ToSet(node.columns)
            /\ Related(node) => node.entity # NoName /\ node.inverse # NoName
      [] node.kind = "text" -> node.text # Blank
      [] node.kind = "image" -> node.source # NoName
      [] OTHER -> TRUE
ReportOK(report) == \A i \in DOMAIN report.layout : NodeOK(report.layout[i])

Nodes(report) == ToSet(report.layout)
reportImageSources(report) == Sift(report.layout, {n \in Nodes(report) : n.kind = "image"})
reportTableRelations(report) == Sift(report.layout, {n \in Nodes(report) : n.kind = "table" /\ Related(n)})
reportCompanyFallbackFields(report) ==
    Sift(report.layout, {n \in Nodes(report) : n.kind = "field" /\ n.fallback # NoFallback})

\* The number of the address has no fallback: zero is not blank there.
reportPartyAddressFields(prefix, companyFallback) ==
    LET node(suffix) == FieldNode(<<prefix, suffix>>, IF companyFallback THEN suffix ELSE NoFallback)
    IN <<node("name"), SectionNode, FieldNode(<<prefix, "address_number">>, NoFallback), node("address_street"),
         node("address_complement"), SectionNode, node("address_zip_code"), node("address_city"),
         node("address_country")>>

\* What a node prints of a record: nothing for an image without a file, an empty
\* table for a source that is not a list.
ReportNodeView(node, record) ==
    CASE node.kind = "field" -> [kind |-> "field", name |-> node.name, value |-> record[node.name]]
      [] node.kind = "text" -> node
      [] node.kind = "image" -> [kind |-> "image", name |-> node.source, value |-> record[node.source]]
      [] node.kind = "table" -> [kind |-> "table", name |-> node.source, rows |-> record[node.source]]
      [] OTHER -> node
ReportRenderer(report, record) ==
    LET views == [i \in DOMAIN report.layout |-> ReportNodeView(report.layout[i], record)]
    IN Sift(views, {n \in ToSet(views) : n.kind # "image" \/ n.value # Blank})
=============================================================================
