--------------------------- MODULE FormPageProofs ---------------------------
(***************************************************************************)
(* Proofs about the record form, for any fields, records, links and number *)
(* of operations: what its flag, its log, its list and its tags tell.      *)
(* Each property needs to know what the Server Actions on their way will   *)
(* still do, and which of them were asked for by a record that is no       *)
(* longer on screen; the invariants below say it, one per property.        *)
(***************************************************************************)
EXTENDS FormPage, TLAPS, FiniteSetTheorems

----------------------------------------------------------------------------
(* What the calls on their way carry *)

IsSeq(q) == \E S : q \in Seq(S)
Elems(q) == {q[i] : i \in DOMAIN q}

Ids == RecordIds \union {NoId}
Draft == [id : Ids, ref : Related \union {NoRef}, flag : BOOLEAN, staged : Staged]
Page == [id : Ids, values : Stored]
Meaning == [own : Ids, tags : SUBSET Related]

IsSave(c) == c.kind = "commit" /\ c.by = "save"

CallType(c) ==
    /\ c.kind = "commit" => /\ c.by \in {"save", "button"} /\ c.id \in Ids /\ (c.by = "button" => c.id # NoId)
                            /\ c.body \in Stored /\ c.staged \in Staged
                            /\ c.before \in Page /\ c.expected \in Meaning
    /\ c.kind = "log" => c.own \in RecordIds /\ c.from \in Stored /\ c.to \in Stored
    /\ c.kind = "generate" => c.own \in RecordIds
    /\ c.kind = "create" => /\ c.of \in Pickers /\ c.at \in 0..MaxOps /\ c.own \in Ids /\ c.staged \in Staged
                            /\ (c.of # "ref" => c.own # NoId)
    /\ c.kind = "link" => c.own \in RecordIds /\ c.related \in Related
    /\ c.kind = "links" => c \in [kind : {"links"}, own : RecordIds, read : BOOLEAN, found : LinkMaps]

\* The types, and the dialogs of the tags and the list, which need a record.
DialogInv ==
    /\ dialog.of \in {"tag", "line"} => dialog.own # NoId /\ draft.id # NoId
    /\ dialog.of = "nothing" => dialog = NoDialog

\* The page's record is stored, and a call about a file is about a record.
OpenedInv ==
    /\ opened.id \in DOMAIN records \union {NoId}
    /\ io # NoIO => io.own # NoId

TypeInv ==
    /\ TypeOK /\ IsSeq(queue) /\ IsSeq(feed) /\ DialogInv /\ OpenedInv
    /\ \A c \in Elems(queue) : CallType(c)

\* One Save is under way at a time.
SaveOnce(q) == \A i, j \in DOMAIN q : IsSave(q[i]) /\ IsSave(q[j]) => i = j

SaveInv == SaveOnce(queue) /\ \A c \in Elems(queue) : IsSave(c) => submitting

----------------------------------------------------------------------------
(* The flag: while nothing tore it from the file, the draft, the commits on  *)
(* their way and the record agree, and a call about the file is about the    *)
(* record on screen.                                                         *)

NoFileInv ==
    ~HasFile => /\ ~draft.flag /\ ~opened.values.flag /\ files = {} /\ ~meta
                /\ find = NoFind /\ io = NoIO
                /\ \A c \in Elems(queue) : c.kind = "commit" => ~c.body.flag

FlagInv ==
    /\ NoFileInv
    /\ find.read => find.own # NoId
    /\ io.served => io # NoIO
    /\ ~torn =>
        /\ \A c \in Elems(queue) : c.kind = "commit" => c.id = draft.id /\ c.body.flag = draft.flag
        /\ find.own # NoId => find.own = draft.id /\ io = NoIO
        /\ find.read => find.found = (find.own \in files)
        /\ io # NoIO => io.own = draft.id /\ draft.id # NoId
        /\ io.served => (io.own \in files) = (io.op = "upload")
        /\ draft.id # NoId /\ ~dirty => records[draft.id].flag = draft.flag
        /\ draft.id # NoId /\ find = NoFind /\ io = NoIO =>
              /\ meta = (draft.id \in files)
              /\ ~strokes => draft.flag = (draft.id \in files)

----------------------------------------------------------------------------
(* The log: one entry at most is on its way, ahead of the next Save, and the *)
(* form remembers what the record was when the log was last told.            *)

IsLog(c) == c.kind = "log"

LogOrder(q) ==
    /\ \A i, j \in DOMAIN q : IsLog(q[i]) /\ IsLog(q[j]) => i = j
    /\ \A i, j \in DOMAIN q : IsLog(q[i]) /\ IsSave(q[j]) => i < j

LogInv ==
    ~broken =>
        /\ \A i \in DOMAIN feed : feed[i].from = IF i = 1 THEN base ELSE feed[i - 1].to
        /\ LogOrder(queue)
        /\ \A c \in Elems(queue) : IsLog(c) => c.from = Told /\ c.to = last.values
        /\ (\A c \in Elems(queue) : ~IsLog(c)) => last.values = Told
        /\ \A c \in Elems(queue) : IsSave(c) => c.before = last /\ (c.id = NoId \/ c.id = last.id)
        /\ \A c \in Elems(queue) : c.kind = "commit" /\ c.by = "button" => c.id = last.id
        /\ last.id = NoId => feed = <<>> /\ \A c \in Elems(queue) : ~IsLog(c)
        /\ draft.id # NoId => last.id = draft.id
        /\ opened.id # NoId => last.id = opened.id
        /\ last.id # NoId /\ ~mute => records[last.id] = last.values

----------------------------------------------------------------------------
(* The list: it shows the lines of the record, or will load them after every *)
(* line that was asked for by another record.                                *)

StrayLine(c, own) == c.kind = "create" /\ c.of = "line" /\ c.own # own
ListLoad(c, own) == c.kind = "lines" /\ c.own = own /\ c.into = "list"

LinesCome(q, own, shownNow) ==
    \/ shownNow /\ \A i \in DOMAIN q : ~StrayLine(q[i], own)
    \/ \E k \in DOMAIN q : ListLoad(q[k], own) /\ \A i \in DOMAIN q : StrayLine(q[i], own) => i < k

LineInv ==
    faults = 0 /\ ~strayed /\ HasLines /\ draft.id # NoId => LinesCome(queue, draft.id, rows = LineOf(draft.id))

----------------------------------------------------------------------------
(* The tags: the widget knows the junction rows of the record, or a load on  *)
(* its way will tell it: one that has read them, behind the links of other   *)
(* records, or one that has not, behind the tags they are creating.          *)

StrayTag(c, own) == c.kind = "create" /\ c.of = "tag" /\ c.own # own
StrayLink(c, own) == c.kind = "link" /\ c.own # own
LinkLoad(c, own) == c.kind = "links" /\ c.own = own

LinksCome(q, own, shownNow) ==
    \/ shownNow /\ \A i \in DOMAIN q : ~StrayTag(q[i], own) /\ ~StrayLink(q[i], own)
    \/ \E k \in DOMAIN q : /\ LinkLoad(q[k], own) /\ ~q[k].read
                           /\ \A i \in DOMAIN q : StrayTag(q[i], own) => i < k
    \/ \E k \in DOMAIN q : /\ LinkLoad(q[k], own) /\ q[k].read
                           /\ \A i \in DOMAIN q : ~StrayTag(q[i], own) /\ (StrayLink(q[i], own) => i < k)

TagInv ==
    /\ \A c \in Elems(queue) : c.kind \in {"link", "unlink"} => c.shown = ~deferred
    /\ faults = 0 /\ ~muddled =>
        /\ deferred => \A c \in Elems(queue) : c.kind \notin {"link", "unlink"}
        /\ \A c \in Elems(queue) : c.kind = "links" /\ c.read => c.found = RelatedOf(c.own)
        /\ HasTags /\ draft.id # NoId => LinksCome(queue, draft.id, links = RelatedOf(draft.id))

----------------------------------------------------------------------------
(* The staged tags: what the junction rows of a record will be once the      *)
(* writes on their way are done.                                             *)

Unlinked(q) == {c.link : c \in {d \in Elems(q) : d.kind = "unlink"}}
Linked(q, own) == {c.related : c \in {d \in Elems(q) : d.kind = "link" /\ d.own = own}}
Kept(own, gone) == {junctions[j].related : j \in {k \in DOMAIN junctions : junctions[k].own = own} \ gone}
Final(q, own) == Kept(own, Unlinked(q)) \union Linked(q, own)

\* Only rows that were written are known, or staged to go.
KnownInv ==
    /\ DOMAIN links \subseteq 1..nextLink /\ draft.staged.toUnlink \subseteq 1..nextLink
    /\ \A c \in Elems(queue) : /\ c.kind = "links" => DOMAIN c.found \subseteq 1..nextLink
                               /\ c.kind \in {"commit", "create"} => c.staged.toUnlink \subseteq 1..nextLink
                               /\ c.kind = "unlink" => c.link \in 1..nextLink

MeantInv ==
    faults = 0 =>
        /\ meant # Unknown => deferred /\ Final(queue, meant.own) = meant.tags
        /\ \A c \in Elems(queue) : IsSave(c) /\ c.expected # Unknown =>
              /\ ~muddled /\ deferred /\ c.id # NoId /\ c.expected.own = c.id
              /\ c.expected.tags = Kept(c.id, c.staged.toUnlink) \union c.staged.toLink

IInv == TypeInv /\ SaveInv /\ FlagInv /\ LogInv /\ LineInv /\ TagInv /\ KnownInv /\ MeantInv

----------------------------------------------------------------------------
(* Sequences of calls *)

\* p is q followed by m.
Joined(q, m, p) ==
    /\ IsSeq(q) /\ IsSeq(m) /\ IsSeq(p) /\ Len(q) \in Nat /\ Len(m) \in Nat /\ Len(p) = Len(q) + Len(m)
    /\ DOMAIN q = 1..Len(q) /\ DOMAIN m = 1..Len(m) /\ DOMAIN p = 1..(Len(q) + Len(m))
    /\ \A i \in DOMAIN q : p[i] = q[i]
    /\ \A i \in DOMAIN m : p[Len(q) + i] = m[i]
    /\ \A i \in DOMAIN p : i \in DOMAIN q \/ (i - Len(q) \in DOMAIN m /\ p[i] = m[i - Len(q)])

LEMMA Cat ==
    ASSUME NEW q, IsSeq(q), NEW m, IsSeq(m)
    PROVE  Joined(q, m, q \o m)
<1>1. PICK S, T : q \in Seq(S) /\ m \in Seq(T)
    BY DEF IsSeq
<1>2. q \in Seq(S \union T) /\ m \in Seq(S \union T)
    BY <1>1
<1>3. q \o m \in Seq(S \union T) /\ Len(q \o m) = Len(q) + Len(m)
    BY <1>2
<1>4. /\ Len(q) \in Nat /\ Len(m) \in Nat
      /\ DOMAIN q = 1..Len(q) /\ DOMAIN m = 1..Len(m) /\ DOMAIN (q \o m) = 1..(Len(q) + Len(m))
    BY <1>2, <1>3
<1>5. \A i \in DOMAIN (q \o m) : (q \o m)[i] = IF i <= Len(q) THEN q[i] ELSE m[i - Len(q)]
    BY <1>2, <1>3, <1>4
<1>6. ASSUME NEW i \in DOMAIN q PROVE (q \o m)[i] = q[i]
    BY <1>4, <1>5
<1>7. ASSUME NEW i \in DOMAIN m PROVE (q \o m)[Len(q) + i] = m[i]
    <2>1. Len(q) + i \in DOMAIN (q \o m) /\ ~(Len(q) + i <= Len(q)) /\ Len(q) + i - Len(q) = i
        BY <1>4
    <2> QED BY <1>5, <2>1
<1>8. ASSUME NEW i \in DOMAIN (q \o m), i \notin DOMAIN q
      PROVE  i - Len(q) \in DOMAIN m /\ (q \o m)[i] = m[i - Len(q)]
    BY <1>4, <1>5, <1>8
<1> QED BY <1>1, <1>3, <1>4, <1>6, <1>7, <1>8 DEF IsSeq, Joined

LEMMA One ==
    ASSUME NEW c
    PROVE  IsSeq(<<c>>) /\ DOMAIN <<c>> = {1} /\ Elems(<<c>>) = {c}
<1>1. <<c>> \in Seq({c}) /\ DOMAIN <<c>> = {1} /\ <<c>>[1] = c
    OBVIOUS
<1>2. Elems(<<c>>) = {c}
    BY <1>1, Zenon DEF Elems
<1>3. IsSeq(<<c>>)
    BY <1>1, Zenon DEF IsSeq
<1> QED BY <1>1, <1>2, <1>3

LEMMA Nothing == IsSeq(<<>>) /\ DOMAIN <<>> = {} /\ Elems(<<>>) = {}
<1>1. <<>> \in Seq({}) /\ DOMAIN <<>> = {}
    OBVIOUS
<1> QED BY <1>1 DEF IsSeq, Elems

LEMMA Appending ==
    ASSUME NEW q, IsSeq(q), NEW c
    PROVE  Append(q, c) = q \o <<c>>
<1>1. PICK S : q \in Seq(S)
    BY DEF IsSeq
<1>2. q \in Seq(S \union {c}) /\ c \in S \union {c}
    BY <1>1
<1> QED BY <1>2

LEMMA Popped ==
    ASSUME NEW q, IsSeq(q), q # <<>>
    PROVE  /\ IsSeq(Tail(q)) /\ DOMAIN q = 1..Len(q) /\ Len(q) \in Nat \ {0}
           /\ Len(Tail(q)) = Len(q) - 1 /\ DOMAIN Tail(q) = 1..(Len(q) - 1)
           /\ \A i \in DOMAIN Tail(q) : Tail(q)[i] = q[i + 1]
           /\ Head(q) = q[1] /\ 1 \in DOMAIN q
           /\ Elems(Tail(q)) \subseteq Elems(q) /\ Head(q) \in Elems(q)
<1>1. PICK S : q \in Seq(S)
    BY DEF IsSeq
<1>2. Len(q) \in Nat \ {0} /\ DOMAIN q = 1..Len(q)
    BY <1>1
<1>3. /\ Tail(q) \in Seq(S) /\ Len(Tail(q)) = Len(q) - 1 /\ DOMAIN Tail(q) = 1..(Len(q) - 1)
      /\ Head(q) = q[1] /\ 1 \in DOMAIN q
    BY <1>1, <1>2
<1>4. ASSUME NEW i \in DOMAIN Tail(q) PROVE Tail(q)[i] = q[i + 1] /\ i + 1 \in DOMAIN q
    BY <1>1, <1>2, <1>3
<1>5. Elems(Tail(q)) \subseteq Elems(q) /\ Head(q) \in Elems(q)
    BY <1>3, <1>4 DEF Elems
<1> QED BY <1>2, <1>3, <1>4, <1>5 DEF IsSeq

LEMMA ElemsJoined ==
    ASSUME NEW q, NEW m, NEW p, Joined(q, m, p)
    PROVE  Elems(p) = Elems(q) \union Elems(m)
<1>0. /\ Len(q) \in Nat /\ Len(m) \in Nat
      /\ DOMAIN q = 1..Len(q) /\ DOMAIN m = 1..Len(m) /\ DOMAIN p = 1..(Len(q) + Len(m))
      /\ \A i \in DOMAIN q : p[i] = q[i]
      /\ \A i \in DOMAIN m : p[Len(q) + i] = m[i]
      /\ \A i \in DOMAIN p : i \in DOMAIN q \/ (i - Len(q) \in DOMAIN m /\ p[i] = m[i - Len(q)])
    BY DEF Joined
<1>1. ASSUME NEW i \in DOMAIN p PROVE p[i] \in Elems(q) \union Elems(m)
    BY <1>0 DEF Elems
<1>2. ASSUME NEW i \in DOMAIN q PROVE q[i] \in Elems(p)
    <2>1. i \in DOMAIN p /\ p[i] = q[i]
        BY <1>0
    <2> QED BY <2>1 DEF Elems
<1>3. ASSUME NEW i \in DOMAIN m PROVE m[i] \in Elems(p)
    <2>1. Len(q) + i \in DOMAIN p /\ p[Len(q) + i] = m[i]
        BY <1>0
    <2> QED BY <2>1 DEF Elems
<1>4. Elems(p) \subseteq Elems(q) \union Elems(m)
    BY <1>1, Zenon DEF Elems
<1>5. Elems(q) \subseteq Elems(p) /\ Elems(m) \subseteq Elems(p)
    BY <1>2, <1>3, Zenon DEF Elems
<1> QED BY <1>4, <1>5

\* The writes of a set, in whatever order they are called.
LEMMA SetAsSeq ==
    ASSUME NEW S, IsFiniteSet(S)
    PROVE  IsSeq(SetToSeq(S)) /\ Elems(SetToSeq(S)) = S
<1> DEFINE n == Cardinality(S)
           f == SetToSeq(S)
<1>1. n \in Nat /\ ExistsBijection(1..n, S)
    BY FS_CardinalityType
<1>2. \E g \in [1..n -> S] : IsInjective(g)
    BY <1>1 DEF ExistsBijection, Bijection, Injection, IsInjective
<1>3. f \in [1..n -> S] /\ IsInjective(f)
    BY <1>2 DEF SetToSeq
<1> HIDE DEF f
<1>4. f \in Seq(S)
    BY <1>1, <1>3
<1>5. IsFiniteSet(1..n) /\ Cardinality(1..n) = n
    BY <1>1, FS_Interval
<1>6. f \in Injection(1..n, S)
    BY <1>3 DEF Injection
<1>7. f \in Surjection(1..n, S)
    BY <1>5, <1>6, FS_Injection
<1>8. Elems(f) = S
    BY <1>3, <1>7 DEF Surjection, Elems
<1> QED BY <1>4, <1>8 DEF f, IsSeq

----------------------------------------------------------------------------
(* The queue after a step *)

\* The oldest call is answered, or none is.
Left(rest) == rest = queue \/ (queue # <<>> /\ rest = Tail(queue))

LEMMA LeftOver ==
    ASSUME IsSeq(queue), NEW rest, Left(rest)
    PROVE  IsSeq(rest) /\ Elems(rest) \subseteq Elems(queue)
BY Popped DEF Left

LEMMA Same ==
    ASSUME NEW q, IsSeq(q), NEW p, p = q
    PROVE  Joined(q, <<>>, p) /\ Elems(<<>>) = {}
<1>1. PICK S : q \in Seq(S)
    BY DEF IsSeq
<1>2. Len(q) \in Nat /\ DOMAIN q = 1..Len(q) /\ Len(<<>>) = 0
    BY <1>1
<1>3. IsSeq(<<>>) /\ DOMAIN <<>> = {} /\ Elems(<<>>) = {}
    BY Nothing
<1> QED BY <1>2, <1>3 DEF Joined

LEMMA Adds ==
    ASSUME NEW q, IsSeq(q), NEW c, NEW p, p = Append(q, c)
    PROVE  Joined(q, <<c>>, p) /\ Elems(<<c>>) = {c}
<1>1. p = q \o <<c>>
    BY Appending
<1>2. IsSeq(<<c>>) /\ Elems(<<c>>) = {c}
    BY One
<1> QED BY <1>1, <1>2, Cat

LEMMA CatOf ==
    ASSUME NEW q, IsSeq(q), NEW m, IsSeq(m), NEW p, p = q \o m
    PROVE  Joined(q, m, p) /\ IsSeq(p) /\ Elems(p) = Elems(q) \union Elems(m)
<1>1. Joined(q, m, p)
    BY Cat
<1>2. Elems(p) = Elems(q) \union Elems(m)
    BY <1>1, ElemsJoined
<1> QED BY <1>1, <1>2 DEF Joined

LEMMA LoadsOf ==
    ASSUME NEW own
    PROVE  /\ IsSeq(Loads(own))
           /\ \A c \in Elems(Loads(own)) : /\ own # NoId
                                            /\ \/ HasTags /\ c = LoadLinks(own)
                                               \/ HasLines /\ \E into \in {"list", "totals"} : c = LoadLines(own, into)
           /\ own # NoId /\ HasTags => LoadLinks(own) \in Elems(Loads(own))
           /\ own # NoId /\ HasLines => LoadLines(own, "list") \in Elems(Loads(own))
<1> DEFINE tags == IF HasTags THEN <<LoadLinks(own)>> ELSE <<>>
           list == IF HasLines THEN <<LoadLines(own, "list"), LoadLines(own, "totals")>> ELSE <<>>
<1>1. IsSeq(tags) /\ Elems(tags) = {c \in {LoadLinks(own)} : HasTags}
    BY One, Nothing
<1>2. IsSeq(list) /\ Elems(list) = {c \in {LoadLines(own, "list"), LoadLines(own, "totals")} : HasLines}
    <2> DEFINE a == LoadLines(own, "list")
               b == LoadLines(own, "totals")
    <2> HIDE DEF a, b
    <2>1. <<a, b>> \in Seq({a, b}) /\ DOMAIN <<a, b>> = {1, 2} /\ <<a, b>>[1] = a /\ <<a, b>>[2] = b
        OBVIOUS
    <2>2. IsSeq(<<a, b>>) /\ Elems(<<a, b>>) = {a, b}
        <3>1. IsSeq(<<a, b>>)
            BY <2>1, Zenon DEF IsSeq
        <3>2. Elems(<<a, b>>) = {a, b}
            BY <2>1, Zenon DEF Elems
        <3> QED BY <3>1, <3>2
    <2> QED BY <2>2, Nothing DEF a, b
<1> HIDE DEF tags, list
<1>3. Loads(own) = IF own = NoId THEN <<>> ELSE tags \o list
    BY DEF Loads, tags, list
<1>4. IsSeq(tags \o list) /\ Elems(tags \o list) = Elems(tags) \union Elems(list)
    BY <1>1, <1>2, Cat, ElemsJoined DEF Joined
<1> QED BY <1>1, <1>2, <1>3, <1>4, Nothing

LEMMA UnlinksFinite ==
    ASSUME NEW S, IsFiniteSet(S) PROVE IsFiniteSet({UnlinkCall(j) : j \in S})
<1> DEFINE T == {UnlinkCall(j) : j \in S}
           f == [j \in S |-> UnlinkCall(j)]
<1>1. f \in Surjection(S, T)
    BY Zenon DEF Surjection
<1> QED BY <1>1, FS_Surjection

LEMMA LinksFinite ==
    ASSUME NEW S, IsFiniteSet(S), NEW own PROVE IsFiniteSet({LinkCall(own, r) : r \in S})
<1> DEFINE T == {LinkCall(own, r) : r \in S}
           f == [r \in S |-> LinkCall(own, r)]
<1>1. f \in Surjection(S, T)
    BY Zenon DEF Surjection
<1> QED BY <1>1, FS_Surjection

\* The commit that is answered.
LEMMA CommitOf ==
    ASSUME TypeInv, Answering("commit")
    PROVE  /\ queue # <<>> /\ IsSeq(queue) /\ Call \in Elems(queue) /\ Call = queue[1] /\ 1 \in DOMAIN queue
           /\ Call.kind = "commit" /\ Call.by \in {"save", "button"} /\ Call.id \in Ids
           /\ (Call.by = "button" => Call.id # NoId) /\ Call.body \in Stored /\ Call.staged \in Staged
           /\ Call.before \in Page /\ Call.expected \in Meaning
<1>1. queue # <<>> /\ IsSeq(queue) /\ Call.kind = "commit"
    BY DEF TypeInv, Answering
<1>2. Call \in Elems(queue) /\ Call = queue[1] /\ 1 \in DOMAIN queue
    BY <1>1, Popped DEF Call
<1>3. CallType(Call)
    BY <1>2 DEF TypeInv
<1> QED BY <1>1, <1>2, <1>3 DEF CallType

LEMMA FlushOf ==
    ASSUME TypeInv, Answering("commit")
    PROVE  /\ IsSeq(FlushCalls)
           /\ ~deferred => Elems(FlushCalls) = {}
           /\ deferred => Elems(FlushCalls) = {UnlinkCall(j) : j \in Call.staged.toUnlink}
                                              \union {LinkCall(Target, r) : r \in Call.staged.toLink}
<1> DEFINE staged == IF deferred THEN Call.staged ELSE NothingStaged
           U == {UnlinkCall(j) : j \in staged.toUnlink}
           L == {LinkCall(Target, r) : r \in staged.toLink}
<1>1. staged \in Staged
    BY CommitOf DEF NothingStaged, Staged
<1>2. IsFiniteSet(staged.toUnlink) /\ IsFiniteSet(staged.toLink)
    <2>1. IsFiniteSet(Links) /\ IsFiniteSet(Related)
        BY FormConstants, FS_Interval DEF Links
    <2>2. staged.toUnlink \in SUBSET Links /\ staged.toLink \in SUBSET Related
        BY <1>1 DEF Staged
    <2> QED BY <2>1, <2>2, FS_Subset
<1>3. IsFiniteSet(U) /\ IsFiniteSet(L)
    BY <1>2, UnlinksFinite, LinksFinite
<1>4. FlushCalls = SetToSeq(U) \o SetToSeq(L)
    BY DEF FlushCalls
<1>5. ~deferred => U = {} /\ L = {}
    BY DEF NothingStaged
<1>6. deferred => staged = Call.staged
    OBVIOUS
<1> HIDE DEF U, L
<1>7. IsSeq(SetToSeq(U)) /\ IsSeq(SetToSeq(L)) /\ Elems(SetToSeq(U)) = U /\ Elems(SetToSeq(L)) = L
    BY <1>3, SetAsSeq
<1>8. IsSeq(FlushCalls) /\ Elems(FlushCalls) = U \union L
    <2> DEFINE a == SetToSeq(U)
               b == SetToSeq(L)
    <2>1. IsSeq(a) /\ IsSeq(b) /\ Elems(a) = U /\ Elems(b) = L /\ FlushCalls = a \o b
        BY <1>4, <1>7
    <2> HIDE DEF a, b
    <2> QED BY <2>1, CatOf
<1> QED BY <1>5, <1>6, <1>8 DEF U, L

LEMMA LogOf ==
    /\ IsSeq(LogCalls) /\ \A i, j \in DOMAIN LogCalls : i = j
    /\ \A c \in Elems(LogCalls) : c = [kind |-> "log", own |-> Target, from |-> Call.before.values, to |-> Call.body]
    /\ Elems(LogCalls) = {} <=> (Call.before.id = NoId \/ Call.before.values = Call.body)
<1> DEFINE log == [kind |-> "log", own |-> Target, from |-> Call.before.values, to |-> Call.body]
<1>1. LogCalls = IF Call.before.id # NoId /\ Call.before.values # Call.body THEN <<log>> ELSE <<>>
    BY DEF LogCalls
<1>2. /\ IsSeq(<<log>>) /\ DOMAIN <<log>> = {1} /\ Elems(<<log>>) = {log}
      /\ IsSeq(<<>>) /\ DOMAIN <<>> = {} /\ Elems(<<>>) = {}
    BY One, Nothing
<1> HIDE DEF log
<1>3. /\ IsSeq(LogCalls) /\ \A i, j \in DOMAIN LogCalls : i = j
      /\ \A c \in Elems(LogCalls) : c = log
      /\ Elems(LogCalls) = {} <=> (Call.before.id = NoId \/ Call.before.values = Call.body)
    BY <1>1, <1>2
<1> QED BY <1>3 DEF log

\* What a Save puts behind the calls that were made before it was answered.
LEMMA BehindSave ==
    ASSUME TypeInv, AnswerSave
    PROVE  \E more :
              /\ Joined(Tail(queue), more, queue')
              /\ Elems(more) = Elems(LogCalls) \union Elems(FlushCalls)
                               \union (IF Target # draft.id THEN Elems(Loads(Target)) ELSE {})
              /\ \A i, j \in DOMAIN more : more[i].kind = "log" /\ more[j].kind = "log" => i = j
<1> DEFINE loads == IF Target # draft.id THEN Loads(Target) ELSE <<>>
           calls == LogCalls \o FlushCalls
           more == calls \o loads
<1>1. Answering("commit") /\ queue' = Tail(queue) \o more
    BY DEF AnswerSave, OnAnchor
<1>2. /\ IsSeq(loads) /\ Elems(loads) = IF Target # draft.id THEN Elems(Loads(Target)) ELSE {}
      /\ \A c \in Elems(loads) : c.kind # "log"
    <2>1. \A into : LoadLinks(Target).kind # "log" /\ LoadLines(Target, into).kind # "log"
        BY DEF LoadLinks, LoadLines
    <2> QED BY <2>1, LoadsOf, Nothing
<1>3. /\ IsSeq(FlushCalls) /\ \A c \in Elems(FlushCalls) : c.kind # "log"
    <2>1. \A j : UnlinkCall(j).kind # "log"
        BY DEF UnlinkCall
    <2>2. \A r : LinkCall(Target, r).kind # "log"
        BY DEF LinkCall
    <2> QED BY <1>1, <2>1, <2>2, FlushOf
<1> HIDE DEF loads
<1>4. Joined(LogCalls, FlushCalls, calls) /\ IsSeq(calls) /\ Elems(calls) = Elems(LogCalls) \union Elems(FlushCalls)
    <2>1. calls = LogCalls \o FlushCalls
        OBVIOUS
    <2> HIDE DEF calls
    <2> QED BY <2>1, <1>3, LogOf, CatOf
<1> HIDE DEF calls
<1>5. Joined(calls, loads, more) /\ IsSeq(more) /\ Elems(more) = Elems(calls) \union Elems(loads)
    <2>1. more = calls \o loads
        OBVIOUS
    <2> HIDE DEF more
    <2> QED BY <2>1, <1>2, <1>4, CatOf
<1> HIDE DEF more
<1>6. Joined(Tail(queue), more, queue')
    BY <1>1, <1>5, CommitOf, Popped, Cat
<1>7. \A i \in DOMAIN more : more[i].kind = "log" => i \in DOMAIN LogCalls
    <2> SUFFICES ASSUME NEW i \in DOMAIN more, more[i].kind = "log" PROVE i \in DOMAIN LogCalls
        OBVIOUS
    <2>1. i \in DOMAIN calls /\ more[i] = calls[i]
        BY <1>2, <1>5 DEF Joined, Elems
    <2>2. i \in DOMAIN LogCalls
        BY <1>3, <1>4, <2>1 DEF Joined, Elems
    <2> QED BY <2>2
<1> QED BY <1>2, <1>4, <1>5, <1>6, <1>7, LogOf

LEMMA CallsTyped ==
    ASSUME TypeInv, NEW rest, Left(rest), NEW more, Joined(rest, more, queue'),
           \A c \in Elems(more) : CallType(c)
    PROVE  IsSeq(queue') /\ \A c \in Elems(queue') : CallType(c)
<1>1. IsSeq(queue) /\ \A c \in Elems(queue) : CallType(c)
    BY DEF TypeInv
<1>2. Elems(rest) \subseteq Elems(queue)
    BY <1>1, LeftOver
<1>3. Elems(queue') = Elems(rest) \union Elems(more)
    BY ElemsJoined
<1> QED BY <1>1, <1>2, <1>3 DEF Joined

----------------------------------------------------------------------------
(* Types *)

\* setField changes one field of the draft.
LEMMA SettingRef ==
    ASSUME draft \in Draft, NEW v, SetField("ref", v), v \in Related \union {NoRef}
    PROVE  /\ draft' \in Draft /\ dirty' = TRUE
           /\ draft'.id = draft.id /\ draft'.ref = v /\ draft'.flag = draft.flag /\ draft'.staged = draft.staged
BY DEF SetField, Draft

LEMMA SettingFlag ==
    ASSUME draft \in Draft, NEW v, SetField("flag", v), v \in BOOLEAN
    PROVE  /\ draft' \in Draft /\ dirty' = TRUE
           /\ draft'.id = draft.id /\ draft'.ref = draft.ref /\ draft'.flag = v /\ draft'.staged = draft.staged
BY DEF SetField, Draft

LEMMA SettingStaged ==
    ASSUME draft \in Draft, NEW v, SetField("staged", v), v \in Staged
    PROVE  /\ draft' \in Draft /\ dirty' = TRUE
           /\ draft'.id = draft.id /\ draft'.ref = draft.ref /\ draft'.flag = draft.flag /\ draft'.staged = v
BY DEF SetField, Draft

\* What an Extended map holds.
LEMMA ExtendedIs ==
    ASSUME NEW f, NEW x, NEW v
    PROVE  /\ DOMAIN Extended(f, x, v) = DOMAIN f \union {x}
           /\ \A y \in DOMAIN f \union {x} : Extended(f, x, v)[y] = IF y = x THEN v ELSE f[y]
BY DEF Extended

----------------------------------------------------------------------------
(* Where the calls of a kind stand in the queue, before and after a step *)

Turn(rest, more) == Left(rest) /\ Joined(rest, more, queue')

Once(q, S) == \A i, j \in DOMAIN q : q[i] \in S /\ q[j] \in S => i = j
Ahead(q, S, T) == \A i, j \in DOMAIN q : q[i] \in S /\ q[j] \in T => i < j
Closed(q, S, T) == \E k \in DOMAIN q : q[k] \in T /\ \A i \in DOMAIN q : q[i] \in S => i < k

LEMMA TurnElems ==
    ASSUME IsSeq(queue), NEW rest, NEW more, Turn(rest, more)
    PROVE  /\ IsSeq(rest) /\ IsSeq(queue') /\ Elems(queue') = Elems(rest) \union Elems(more)
           /\ Elems(rest) \subseteq Elems(queue)
           /\ Elems(queue) \subseteq Elems(rest) \union {Call}
           /\ rest = queue \/ Call \in Elems(queue)
<1>1. IsSeq(rest) /\ Elems(rest) \subseteq Elems(queue)
    BY LeftOver DEF Turn
<1>2. IsSeq(queue') /\ Elems(queue') = Elems(rest) \union Elems(more)
    BY ElemsJoined DEF Turn, Joined
<1>3. ASSUME queue # <<>>, rest = Tail(queue), NEW i \in DOMAIN queue
      PROVE  queue[i] \in Elems(rest) \union {Call}
    <2>1. /\ DOMAIN queue = 1..Len(queue) /\ Len(queue) \in Nat \ {0} /\ DOMAIN rest = 1..(Len(queue) - 1)
          /\ \A j \in DOMAIN rest : rest[j] = queue[j + 1]
          /\ Call = queue[1]
        BY <1>3, Popped DEF Call
    <2>2. CASE i = 1
        BY <2>1, <2>2
    <2>3. CASE i # 1
        <3>1. i - 1 \in DOMAIN rest /\ (i - 1) + 1 = i
            BY <2>1, <2>3
        <3>2. rest[i - 1] = queue[i]
            BY <2>1, <3>1
        <3> QED BY <3>1, <3>2 DEF Elems
    <2> QED BY <2>2, <2>3
<1>4. Elems(queue) \subseteq Elems(rest) \union {Call}
    <2>1. CASE rest = queue
        BY <2>1
    <2>2. CASE queue # <<>> /\ rest = Tail(queue)
        BY <1>3, <2>2 DEF Elems
    <2> QED BY <2>1, <2>2 DEF Turn, Left
<1>5. rest = queue \/ Call \in Elems(queue)
    BY Popped DEF Turn, Left, Call
<1> QED BY <1>1, <1>2, <1>4, <1>5

LEMMA OnceLeft ==
    ASSUME IsSeq(queue), NEW rest, Left(rest), NEW S, Once(queue, S)
    PROVE  Once(rest, S) /\ (rest # queue /\ Call \in S => \A c \in Elems(rest) : c \notin S)
<1>1. CASE rest = queue
    BY <1>1
<1>2. CASE queue # <<>> /\ rest = Tail(queue)
    <2>1. /\ DOMAIN queue = 1..Len(queue) /\ Len(queue) \in Nat \ {0} /\ DOMAIN rest = 1..(Len(queue) - 1)
          /\ \A j \in DOMAIN rest : rest[j] = queue[j + 1]
          /\ Call = queue[1]
        BY <1>2, Popped DEF Call
    <2>2. \A i \in DOMAIN rest : i + 1 \in DOMAIN queue /\ i + 1 # 1 /\ i \in Int
        BY <2>1
    <2>3. ASSUME NEW i \in DOMAIN rest, NEW j \in DOMAIN rest, rest[i] \in S, rest[j] \in S PROVE i = j
        <3>1. i + 1 = j + 1
            BY <2>1, <2>2, <2>3 DEF Once
        <3> QED BY <2>2, <3>1
    <2>4. ASSUME Call \in S, NEW i \in DOMAIN rest, rest[i] \in S PROVE FALSE
        <3>1. 1 \in DOMAIN queue /\ i + 1 \in DOMAIN queue /\ queue[1] \in S /\ queue[i + 1] \in S
            BY <2>1, <2>2, <2>4
        <3> QED BY <2>2, <3>1 DEF Once
    <2> QED BY <2>3, <2>4 DEF Once, Elems
<1> QED BY <1>1, <1>2 DEF Left

LEMMA OnceJoined ==
    ASSUME NEW q, NEW m, NEW p, Joined(q, m, p), NEW S, Once(q, S), Once(m, S),
           (\A c \in Elems(m) : c \notin S) \/ (\A c \in Elems(q) : c \notin S)
    PROVE  Once(p, S)
<1> SUFFICES ASSUME NEW i \in DOMAIN p, NEW j \in DOMAIN p, p[i] \in S, p[j] \in S
             PROVE  i = j
    BY DEF Once
<1>1. /\ Len(q) \in Nat /\ DOMAIN p = 1..(Len(q) + Len(m)) /\ Len(m) \in Nat
      /\ \A k \in DOMAIN q : p[k] = q[k]
      /\ \A k \in DOMAIN p : k \in DOMAIN q \/ (k - Len(q) \in DOMAIN m /\ p[k] = m[k - Len(q)])
    BY DEF Joined
<1>2. CASE \A c \in Elems(m) : c \notin S
    <2>1. i \in DOMAIN q /\ j \in DOMAIN q
        BY <1>1, <1>2 DEF Elems
    <2> QED BY <1>1, <2>1 DEF Once
<1>3. CASE \A c \in Elems(q) : c \notin S
    <2>1. /\ i - Len(q) \in DOMAIN m /\ j - Len(q) \in DOMAIN m
          /\ p[i] = m[i - Len(q)] /\ p[j] = m[j - Len(q)]
        BY <1>1, <1>3 DEF Elems
    <2>2. i - Len(q) = j - Len(q)
        BY <2>1 DEF Once
    <2> QED BY <1>1, <2>2
<1> QED BY <1>2, <1>3

LEMMA AheadLeft ==
    ASSUME IsSeq(queue), NEW rest, Left(rest), NEW S, NEW T, Ahead(queue, S, T)
    PROVE  Ahead(rest, S, T) /\ (rest # queue /\ Call \in T => \A c \in Elems(queue) : c \notin S)
<1>1. CASE rest = queue
    BY <1>1
<1>2. CASE queue # <<>> /\ rest = Tail(queue)
    <2>1. /\ DOMAIN queue = 1..Len(queue) /\ Len(queue) \in Nat \ {0} /\ DOMAIN rest = 1..(Len(queue) - 1)
          /\ \A j \in DOMAIN rest : rest[j] = queue[j + 1]
          /\ Call = queue[1]
        BY <1>2, Popped DEF Call
    <2>2. \A i \in DOMAIN rest : i + 1 \in DOMAIN queue /\ i \in Int
        BY <2>1
    <2>3. ASSUME NEW i \in DOMAIN rest, NEW j \in DOMAIN rest, rest[i] \in S, rest[j] \in T PROVE i < j
        <3>1. i + 1 < j + 1
            BY <2>1, <2>2, <2>3 DEF Ahead
        <3> QED BY <2>2, <3>1
    <2>4. ASSUME Call \in T, NEW i \in DOMAIN queue, queue[i] \in S PROVE FALSE
        <3>1. 1 \in DOMAIN queue /\ queue[1] \in T
            BY <2>1, <2>4
        <3>2. i < 1
            BY <2>4, <3>1 DEF Ahead
        <3> QED BY <2>1, <3>2
    <2> QED BY <2>3, <2>4 DEF Ahead, Elems
<1> QED BY <1>1, <1>2 DEF Left

LEMMA AheadJoined ==
    ASSUME NEW q, NEW m, NEW p, Joined(q, m, p), NEW S, NEW T, Ahead(q, S, T),
           \A c \in Elems(m) : c \notin S
    PROVE  Ahead(p, S, T)
<1> SUFFICES ASSUME NEW i \in DOMAIN p, NEW j \in DOMAIN p, p[i] \in S, p[j] \in T
             PROVE  i < j
    BY DEF Ahead
<1>1. /\ Len(q) \in Nat /\ DOMAIN p = 1..(Len(q) + Len(m)) /\ Len(m) \in Nat /\ DOMAIN q = 1..Len(q)
      /\ DOMAIN m = 1..Len(m)
      /\ \A k \in DOMAIN q : p[k] = q[k]
      /\ \A k \in DOMAIN p : k \in DOMAIN q \/ (k - Len(q) \in DOMAIN m /\ p[k] = m[k - Len(q)])
    BY DEF Joined
<1>2. i \in DOMAIN q
    BY <1>1 DEF Elems
<1>3. CASE j \in DOMAIN q
    BY <1>1, <1>2, <1>3 DEF Ahead
<1>4. CASE j \notin DOMAIN q
    BY <1>1, <1>2, <1>4
<1> QED BY <1>3, <1>4

\* A step that puts logs behind the calls keeps them ahead of the Saves when none is left.
LEMMA AheadOfNone ==
    ASSUME NEW q, NEW S, NEW T, \A c \in Elems(q) : c \notin T
    PROVE  Ahead(q, S, T)
BY DEF Ahead, Elems

LEMMA ClosedLeft ==
    ASSUME IsSeq(queue), NEW rest, Left(rest), NEW S, NEW T, Closed(queue, S, T)
    PROVE  \/ Closed(rest, S, T)
           \/ rest # queue /\ Call \in T /\ \A c \in Elems(queue) : c \notin S
<1>1. CASE rest = queue
    BY <1>1
<1>2. CASE queue # <<>> /\ rest = Tail(queue) /\ rest # queue
    <2>1. /\ DOMAIN queue = 1..Len(queue) /\ Len(queue) \in Nat \ {0} /\ DOMAIN rest = 1..(Len(queue) - 1)
          /\ \A j \in DOMAIN rest : rest[j] = queue[j + 1]
          /\ Call = queue[1]
        BY <1>2, Popped DEF Call
    <2>2. PICK k \in DOMAIN queue : queue[k] \in T /\ \A i \in DOMAIN queue : queue[i] \in S => i < k
        BY DEF Closed
    <2>3. CASE k = 1
        <3>1. ASSUME NEW i \in DOMAIN queue, queue[i] \in S PROVE FALSE
            BY <2>1, <2>2, <2>3, <3>1
        <3> QED BY <1>2, <2>1, <2>2, <2>3, <3>1 DEF Elems
    <2>4. CASE k # 1
        <3>1. k - 1 \in DOMAIN rest /\ (k - 1) + 1 = k
            BY <2>1, <2>4
        <3>2. rest[k - 1] \in T
            BY <2>1, <2>2, <3>1
        <3>3. ASSUME NEW i \in DOMAIN rest, rest[i] \in S PROVE i < k - 1
            <4>1. i + 1 \in DOMAIN queue /\ queue[i + 1] \in S /\ i \in Int
                BY <2>1, <3>3
            <4>2. i + 1 < k
                BY <2>2, <4>1
            <4> QED BY <2>1, <4>1, <4>2
        <3> QED BY <3>1, <3>2, <3>3 DEF Closed
    <2> QED BY <2>3, <2>4
<1> QED BY <1>1, <1>2 DEF Left

LEMMA ClosedJoined ==
    ASSUME NEW q, NEW m, NEW p, Joined(q, m, p), NEW S, NEW T, \A c \in Elems(m) : c \notin S,
           Closed(q, S, T) \/ \E c \in Elems(m) : c \in T
    PROVE  Closed(p, S, T)
<1>1. /\ Len(q) \in Nat /\ DOMAIN p = 1..(Len(q) + Len(m)) /\ Len(m) \in Nat /\ DOMAIN q = 1..Len(q)
      /\ DOMAIN m = 1..Len(m)
      /\ \A k \in DOMAIN q : p[k] = q[k]
      /\ \A k \in DOMAIN m : p[Len(q) + k] = m[k]
      /\ \A k \in DOMAIN p : k \in DOMAIN q \/ (k - Len(q) \in DOMAIN m /\ p[k] = m[k - Len(q)])
    BY DEF Joined
<1>2. \A i \in DOMAIN p : p[i] \in S => i \in DOMAIN q
    BY <1>1 DEF Elems
<1>3. CASE Closed(q, S, T)
    <2>1. PICK k \in DOMAIN q : q[k] \in T /\ \A i \in DOMAIN q : q[i] \in S => i < k
        BY <1>3 DEF Closed
    <2>2. k \in DOMAIN p /\ p[k] \in T
        BY <1>1, <2>1
    <2>3. \A i \in DOMAIN p : p[i] \in S => i < k
        BY <1>1, <1>2, <2>1
    <2> QED BY <2>2, <2>3 DEF Closed
<1>4. CASE \E c \in Elems(m) : c \in T
    <2>1. PICK k \in DOMAIN m : m[k] \in T
        BY <1>4 DEF Elems
    <2>2. Len(q) + k \in DOMAIN p /\ p[Len(q) + k] \in T
        BY <1>1, <2>1
    <2>3. \A i \in DOMAIN p : p[i] \in S => i < Len(q) + k
        BY <1>1, <1>2
    <2> QED BY <2>2, <2>3 DEF Closed
<1> QED BY <1>3, <1>4

LEMMA Counting ==
    ASSUME TypeInv, Op \/ UNCHANGED ops, (\E failed \in BOOLEAN : Fails(failed)) \/ UNCHANGED faults
    PROVE  ops' \in 0..MaxOps /\ faults' \in 0..MaxFaults /\ (faults' = 0 => faults = 0)
<1>1. ops \in 0..MaxOps /\ faults \in 0..MaxFaults /\ MaxOps \in Nat /\ MaxFaults \in Nat
    BY FormConstants DEF TypeInv, TypeOK, StoreTypeOK
<1>2. ops' \in 0..MaxOps
    BY <1>1 DEF Op
<1>3. faults' \in 0..MaxFaults /\ (faults' = 0 => faults = 0)
    BY <1>1 DEF Fails
<1> QED BY <1>2, <1>3

\* A step of the widgets that leaves the record, its file, its log and the
\* commits on their way alone.
Quiet(rest, more) ==
    /\ UNCHANGED <<fields, records, opened, fileVars, submitting, last, feed, base, mute, broken, meant>>
    /\ draft' \in Draft /\ draft'.id = draft.id /\ draft'.flag = draft.flag
    /\ dirty' \in BOOLEAN /\ (~dirty' => ~dirty)
    /\ ops' \in 0..MaxOps /\ faults' \in 0..MaxFaults /\ (faults' = 0 => faults = 0)
    /\ running' \in BOOLEAN
    /\ RelationTypeOK'
    /\ DialogInv'
    /\ Turn(rest, more)
    /\ rest # queue => Call.kind \notin {"commit", "log"}
    /\ \A c \in Elems(more) : CallType(c) /\ c.kind \notin {"commit", "log"}

LEMMA QuietTypes ==
    ASSUME TypeInv, NEW rest, NEW more, Quiet(rest, more)
    PROVE  TypeInv'
<1>1. IsSeq(queue') /\ \A c \in Elems(queue') : CallType(c)
    BY CallsTyped DEF Quiet, Turn
<1>2. StoreTypeOK'
    BY DEF TypeInv, TypeOK, StoreTypeOK, Quiet, Draft, Ids
<1>3. FileTypeOK'
    BY DEF TypeInv, TypeOK, FileTypeOK, fileVars, Quiet
<1>4. TypeOK'
    BY <1>2, <1>3, Zenon DEF TypeInv, TypeOK, Quiet
<1>5. IsSeq(feed') /\ DialogInv' /\ OpenedInv'
    BY DEF TypeInv, Quiet, OpenedInv, fileVars
<1> QED BY <1>1, <1>4, <1>5 DEF TypeInv

\* The history of the page does not move either.
Elsewhere == UNCHANGED <<fileVars, pageVars>>

LEMMA KnownTypes ==
    ASSUME TypeInv
    PROVE  /\ draft \in Draft /\ dirty \in BOOLEAN /\ running \in BOOLEAN /\ RelationTypeOK /\ IsSeq(queue)
           /\ DialogInv
BY DEF TypeInv, TypeOK, StoreTypeOK, Draft, Ids

LEMMA RefQuiet ==
    ASSUME TypeInv, PickRef \/ ClearRef, Elsewhere
    PROVE  Quiet(queue, <<>>) /\ draft'.staged = draft.staged
<1>1. PICK r \in Related \union {NoRef} : SetField("ref", r)
    BY DEF PickRef, ClearRef, Selectable, TypeInv, TypeOK, RelationTypeOK
<1>2. /\ draft' \in Draft /\ dirty' = TRUE
      /\ draft'.id = draft.id /\ draft'.flag = draft.flag /\ draft'.staged = draft.staged
    BY <1>1, KnownTypes, SettingRef
<1>3. Turn(queue, <<>>) /\ \A c \in Elems(<<>>) : FALSE
    BY KnownTypes, Same DEF Turn, Left, PickRef, ClearRef
<1>4. RelationTypeOK' /\ UNCHANGED dialog
    BY KnownTypes DEF PickRef, ClearRef, relationVars, tagVars, RelationTypeOK
<1>5. ops' \in 0..MaxOps /\ faults' \in 0..MaxFaults /\ (faults' = 0 => faults = 0)
    BY Counting DEF PickRef, ClearRef
<1>6. UNCHANGED <<fields, records, opened, fileVars, pageVars>>
    BY DEF PickRef, ClearRef, Elsewhere
<1> QED BY <1>2, <1>3, <1>4, <1>5, <1>6, KnownTypes DEF Quiet, pageVars, DialogInv

\* What the tags widget writes, or stages.
LEMMA AddQuiet ==
    ASSUME TypeInv, NEW rest, Left(rest), NEW own \in RecordIds, NEW staged \in Staged, NEW r \in Related,
           Add(rest, own, staged, r)
    PROVE  \E more :
              /\ Turn(rest, more) /\ \A c \in Elems(more) : ~deferred /\ c = LinkCall(own, r) /\ CallType(c)
              /\ draft' \in Draft /\ draft'.id = draft.id /\ draft'.flag = draft.flag
              /\ dirty' \in BOOLEAN /\ (~dirty' => ~dirty)
              /\ draft'.staged.toUnlink \in {draft.staged.toUnlink, staged.toUnlink}
<1>0. IsSeq(rest)
    BY LeftOver, KnownTypes
<1>1. CASE deferred
    <2>1. [staged EXCEPT !.toLink = @ \union {r}] \in Staged
          /\ [staged EXCEPT !.toLink = @ \union {r}].toUnlink = staged.toUnlink
        BY DEF Staged
    <2>2. SetField("staged", [staged EXCEPT !.toLink = @ \union {r}]) /\ queue' = rest
        BY <1>1 DEF Add
    <2>3. /\ draft' \in Draft /\ dirty' = TRUE
          /\ draft'.id = draft.id /\ draft'.flag = draft.flag /\ draft'.staged.toUnlink = staged.toUnlink
        BY <2>1, <2>2, KnownTypes, SettingStaged
    <2>4. Turn(rest, <<>>) /\ Elems(<<>>) = {}
        BY <1>0, <2>2, Same DEF Turn
    <2> QED BY <2>3, <2>4
<1>2. CASE ~deferred
    <2>1. UNCHANGED <<draft, dirty>> /\ queue' = Append(rest, LinkCall(own, r))
        BY <1>2 DEF Add
    <2>2. Turn(rest, <<LinkCall(own, r)>>) /\ Elems(<<LinkCall(own, r)>>) = {LinkCall(own, r)}
        BY <1>0, <2>1, Adds DEF Turn
    <2>3. CallType(LinkCall(own, r))
        BY DEF CallType, LinkCall
    <2> QED BY <1>2, <2>1, <2>2, <2>3, KnownTypes
<1> QED BY <1>1, <1>2

LEMMA AddTagQuiet ==
    ASSUME TypeInv, AddTag, Elsewhere
    PROVE  /\ draft'.staged.toUnlink = draft.staged.toUnlink /\ UNCHANGED relationVars
           /\ \E more : /\ Quiet(queue, more)
                        /\ \A c \in Elems(more) : ~deferred /\ \E r : c = LinkCall(draft.id, r)
<1>1. PICK r \in Related : Add(queue, draft.id, draft.staged, r)
    BY DEF AddTag, Selectable, TypeInv, TypeOK, RelationTypeOK
<1>2. draft.id \in RecordIds /\ draft.staged \in Staged /\ Left(queue)
    BY KnownTypes DEF AddTag, Draft, Ids, Left
<1>3. PICK more :
              /\ Turn(queue, more) /\ \A c \in Elems(more) : ~deferred /\ c = LinkCall(draft.id, r) /\ CallType(c)
              /\ draft' \in Draft /\ draft'.id = draft.id /\ draft'.flag = draft.flag
              /\ dirty' \in BOOLEAN /\ (~dirty' => ~dirty)
              /\ draft'.staged.toUnlink \in {draft.staged.toUnlink, draft.staged.toUnlink}
    BY <1>1, <1>2, AddQuiet
<1>4. RelationTypeOK' /\ UNCHANGED dialog
    BY KnownTypes DEF AddTag, relationVars, tagVars, RelationTypeOK
<1>5. ops' \in 0..MaxOps /\ faults' \in 0..MaxFaults /\ (faults' = 0 => faults = 0)
    BY Counting DEF AddTag
<1>6. UNCHANGED <<fields, records, opened, fileVars, pageVars, relationVars>>
    BY DEF AddTag, Elsewhere
<1>7. \A c \in Elems(more) : c.kind \notin {"commit", "log"}
    BY <1>3 DEF LinkCall
<1>8. Quiet(queue, more)
    BY <1>3, <1>4, <1>5, <1>6, <1>7, KnownTypes DEF Quiet, pageVars, DialogInv
<1> QED BY <1>3, <1>6, <1>8

LEMMA UnlinkTagQuiet ==
    ASSUME TypeInv, UnlinkTag, Elsewhere
    PROVE  /\ draft'.staged.toUnlink \subseteq draft.staged.toUnlink \union DOMAIN links /\ UNCHANGED relationVars
           /\ \E more : /\ Quiet(queue, more)
                        /\ \A c \in Elems(more) : ~deferred /\ \E j \in DOMAIN links : c = UnlinkCall(j)
<1>1. RelationTypeOK' /\ UNCHANGED <<dialog, relationVars>>
    BY KnownTypes DEF UnlinkTag, relationVars, tagVars, RelationTypeOK
<1>2. ops' \in 0..MaxOps /\ faults' \in 0..MaxFaults /\ (faults' = 0 => faults = 0)
    BY Counting DEF UnlinkTag
<1>3. UNCHANGED <<fields, records, opened, fileVars, pageVars>>
    BY DEF UnlinkTag, Elsewhere
<1>4. draft.staged \in Staged /\ Left(queue) /\ DOMAIN links \subseteq Links
    BY KnownTypes DEF Draft, Left, RelationTypeOK, LinkMaps
<1>5. CASE deferred
    <2>1. queue' = queue /\ \E v \in Staged : /\ SetField("staged", v)
                                              /\ v.toUnlink \subseteq draft.staged.toUnlink \union DOMAIN links
        <3>1. ASSUME NEW r \in draft.staged.toLink
              PROVE  LET v == [draft.staged EXCEPT !.toLink = @ \ {r}]
                     IN  v \in Staged /\ v.toUnlink = draft.staged.toUnlink
            BY <1>4 DEF Staged
        <3>2. ASSUME NEW j \in DOMAIN links \ draft.staged.toUnlink
              PROVE  LET v == [draft.staged EXCEPT !.toUnlink = @ \union {j}]
                     IN  v \in Staged /\ v.toUnlink = draft.staged.toUnlink \union {j}
            BY <1>4 DEF Staged
        <3> QED BY <1>5, <3>1, <3>2 DEF UnlinkTag
    <2>2. /\ draft' \in Draft /\ dirty' = TRUE /\ draft'.id = draft.id /\ draft'.flag = draft.flag
          /\ draft'.staged.toUnlink \subseteq draft.staged.toUnlink \union DOMAIN links
        BY <2>1, KnownTypes, SettingStaged
    <2>3. Turn(queue, <<>>) /\ Elems(<<>>) = {}
        BY <1>4, <2>1, KnownTypes, Same DEF Turn
    <2>4. Quiet(queue, <<>>)
        BY <1>1, <1>2, <1>3, <2>2, <2>3, KnownTypes DEF Quiet, pageVars, DialogInv
    <2> QED BY <1>1, <2>2, <2>3, <2>4
<1>6. CASE ~deferred
    <2>1. PICK j \in DOMAIN links : queue' = Append(queue, UnlinkCall(j))
        BY <1>6 DEF UnlinkTag
    <2>2. UNCHANGED <<draft, dirty>>
        BY <1>6 DEF UnlinkTag
    <2>3. Turn(queue, <<UnlinkCall(j)>>) /\ Elems(<<UnlinkCall(j)>>) = {UnlinkCall(j)}
        BY <1>4, <2>1, KnownTypes, Adds DEF Turn
    <2>4. CallType(UnlinkCall(j)) /\ UnlinkCall(j).kind \notin {"commit", "log"}
        BY DEF CallType, UnlinkCall
    <2>5. Quiet(queue, <<UnlinkCall(j)>>)
        BY <1>1, <1>2, <1>3, <2>2, <2>3, <2>4, KnownTypes DEF Quiet, pageVars, DialogInv
    <2> QED BY <1>1, <1>6, <2>2, <2>3, <2>5
<1> QED BY <1>5, <1>6

LEMMA DialogQuiet ==
    ASSUME TypeInv, CloseDialog \/ (\E w \in Pickers : OpenDialog(w)), Elsewhere
    PROVE  Quiet(queue, <<>>) /\ UNCHANGED <<draft, tagVars, existing, lines, rows, summed, strayed>>
<1>1. UNCHANGED <<fields, records, opened, draft, dirty, queue, faults, tagVars, existing, lines, rows, summed, strayed>>
    BY DEF CloseDialog, OpenDialog
<1>2. ops' \in 0..MaxOps /\ faults' \in 0..MaxFaults /\ (faults' = 0 => faults = 0)
    BY <1>1, Counting DEF CloseDialog, OpenDialog
<1>3. /\ dialog' \in [of : Pickers \union {"nothing"}, at : 0..MaxOps, own : RecordIds \union {NoId}, submitting : BOOLEAN]
      /\ DialogInv'
    <2>1. CASE CloseDialog
        BY <2>1, FormConstants DEF CloseDialog, NoDialog, Pickers, DialogInv
    <2>2. CASE \E w \in Pickers : OpenDialog(w)
        <3>1. PICK w \in Pickers : OpenDialog(w)
            BY <2>2
        <3>2. dialog' = [of |-> w, at |-> ops', own |-> draft.id, submitting |-> FALSE]
            BY <3>1 DEF OpenDialog
        <3>3. draft.id \in RecordIds \union {NoId}
            BY KnownTypes DEF Draft, Ids
        <3>4. w \in {"tag", "line"} => draft.id # NoId
            BY <3>1 DEF OpenDialog
        <3>5. dialog'.of = w /\ dialog'.own = draft.id /\ w # "nothing"
            BY <3>2 DEF Pickers
        <3>6. DialogInv'
            BY <1>1, <3>4, <3>5 DEF DialogInv
        <3> QED BY <1>2, <3>2, <3>3, <3>6
    <2> QED BY <2>1, <2>2
<1>4. RelationTypeOK'
    BY <1>1, <1>3, KnownTypes DEF RelationTypeOK, tagVars
<1>5. Turn(queue, <<>>) /\ Elems(<<>>) = {}
    BY <1>1, KnownTypes, Same DEF Turn, Left
<1> QED BY <1>1, <1>2, <1>3, <1>4, <1>5, KnownTypes DEF Quiet, Elsewhere, pageVars, DialogInv

LEMMA SubmitQuiet ==
    ASSUME TypeInv, SubmitDialog, Elsewhere
    PROVE  /\ UNCHANGED <<draft, tagVars, existing, lines, rows, summed>>
           /\ \E c : /\ Quiet(queue, <<c>>) /\ Elems(<<c>>) = {c}
                     /\ c.kind = "create" /\ c.staged = draft.staged
                     /\ c.of # "line" => c.own = draft.id
                     /\ ~strayed' => ~strayed /\ c.own = draft.id
<1>1. UNCHANGED <<fields, records, opened, draft, dirty, faults, tagVars, existing, lines, rows, summed>>
    BY DEF SubmitDialog
<1>2. ops' \in 0..MaxOps /\ faults' \in 0..MaxFaults /\ (faults' = 0 => faults = 0)
    BY <1>1, Counting DEF SubmitDialog
<1>3. dialog \in [of : Pickers \union {"nothing"}, at : 0..MaxOps, own : RecordIds \union {NoId}, submitting : BOOLEAN]
    BY KnownTypes DEF RelationTypeOK
<1>4. dialog' = [dialog EXCEPT !.submitting = TRUE]
    BY DEF SubmitDialog
<1>5. /\ dialog' \in [of : Pickers \union {"nothing"}, at : 0..MaxOps, own : RecordIds \union {NoId}, submitting : BOOLEAN]
      /\ dialog'.of = dialog.of /\ dialog'.own = dialog.own
    BY <1>3, <1>4
<1> DEFINE own == IF dialog.of = "line" THEN dialog.own ELSE draft.id
           c == [kind |-> "create", of |-> dialog.of, at |-> dialog.at, own |-> own, staged |-> draft.staged]
<1>6. queue' = Append(queue, c) /\ strayed' = (strayed \/ own # draft.id)
    BY DEF SubmitDialog
<1>7. dialog.of \in Pickers /\ DialogInv'
    <2>1. dialog.of # "nothing"
        BY KnownTypes DEF SubmitDialog, DialogInv
    <2> QED BY <1>1, <1>3, <1>5, <2>1, KnownTypes DEF DialogInv
<1>8. CallType(c) /\ c.kind = "create" /\ c.staged = draft.staged /\ c.own = own /\ c.of = dialog.of
    <2>1. draft.id \in Ids /\ draft.staged \in Staged /\ own \in Ids /\ dialog.at \in 0..MaxOps
        BY <1>3, KnownTypes DEF Draft, Ids
    <2>2. dialog.of # "ref" => own # NoId
        BY <1>7, KnownTypes DEF DialogInv, Pickers
    <2> HIDE DEF own
    <2> QED BY <1>7, <2>1, <2>2 DEF CallType
<1>9. RelationTypeOK'
    BY <1>1, <1>5, <1>6, KnownTypes DEF RelationTypeOK, tagVars
<1> HIDE DEF c
<1>10. Turn(queue, <<c>>) /\ Elems(<<c>>) = {c}
    BY <1>6, KnownTypes, Adds DEF Turn, Left
<1>11. Quiet(queue, <<c>>)
    BY <1>1, <1>2, <1>7, <1>8, <1>9, <1>10, KnownTypes DEF Quiet, Elsewhere, pageVars
<1>12. (c.of # "line" => c.own = draft.id) /\ (~strayed' => ~strayed /\ c.own = draft.id)
    BY <1>6, <1>8
<1> QED BY <1>1, <1>8, <1>10, <1>11, <1>12

\* The call that is answered, and what is left.
LEMMA Answered ==
    ASSUME TypeInv, queue # <<>>
    PROVE  /\ Left(Tail(queue)) /\ IsSeq(Tail(queue)) /\ Call \in Elems(queue) /\ CallType(Call)
           /\ Elems(Tail(queue)) \subseteq Elems(queue)
           /\ Elems(queue) = Elems(Tail(queue)) \union {Call} /\ Tail(queue) # queue
           /\ queue' = Tail(queue) => Turn(Tail(queue), <<>>) /\ Elems(<<>>) = {}
<1>1. IsSeq(queue) /\ \A c \in Elems(queue) : CallType(c)
    BY DEF TypeInv
<1>2. Left(Tail(queue)) /\ IsSeq(Tail(queue)) /\ Call \in Elems(queue) /\ Elems(Tail(queue)) \subseteq Elems(queue)
    BY <1>1, Popped DEF Left, Call
<1>3. queue' = Tail(queue) => Turn(Tail(queue), <<>>) /\ Elems(<<>>) = {}
    BY <1>2, Same DEF Turn
<1>4. Elems(queue) \subseteq Elems(Tail(queue)) \union {Call}
    <2>1. /\ DOMAIN queue = 1..Len(queue) /\ Len(queue) \in Nat \ {0} /\ DOMAIN Tail(queue) = 1..(Len(queue) - 1)
          /\ \A j \in DOMAIN Tail(queue) : Tail(queue)[j] = queue[j + 1]
          /\ Call = queue[1]
        BY <1>1, Popped DEF Call
    <2>2. ASSUME NEW i \in DOMAIN queue, i # 1 PROVE queue[i] \in Elems(Tail(queue))
        <3>1. i - 1 \in DOMAIN Tail(queue) /\ (i - 1) + 1 = i
            BY <2>1, <2>2
        <3> QED BY <2>1, <3>1 DEF Elems
    <2> QED BY <2>1, <2>2 DEF Elems
<1>5. Tail(queue) # queue
    <2>1. Len(Tail(queue)) = Len(queue) - 1 /\ Len(queue) \in Nat
        BY <1>1, Popped
    <2>2. \A m, n : m = n - 1 /\ n \in Nat => m # n
        OBVIOUS
    <2> QED BY <2>1, <2>2, Zenon
<1> QED BY <1>1, <1>2, <1>3, <1>4, <1>5

LEMMA CreateQuiet ==
    ASSUME TypeInv, AnswerCreate, Elsewhere
    PROVE  /\ queue # <<>> /\ Call.kind = "create" /\ UNCHANGED <<tagVars, strayed>>
           /\ draft'.staged.toUnlink \in {draft.staged.toUnlink, Call.staged.toUnlink}
           /\ \E more : /\ Quiet(Tail(queue), more)
                        /\ \A c \in Elems(more) : ~deferred /\ Call.of = "tag" /\ \E r : c = LinkCall(Call.own, r)
           /\ IF Call.of = "line"
              THEN \E l \in LineIds \ DOMAIN lines : lines' = Extended(lines, l, Call.own) /\ rows' = rows \union {l}
              ELSE UNCHANGED <<lines, rows>>
<1>1. queue # <<>> /\ Call.kind = "create"
    BY DEF AnswerCreate, Answering
<1>2. /\ Call.of \in Pickers /\ Call.own \in Ids /\ Call.staged \in Staged /\ (Call.of # "ref" => Call.own # NoId)
    BY <1>1, Answered DEF CallType
<1>3. UNCHANGED <<fields, records, opened, ops, tagVars, summed, strayed>>
    BY DEF AnswerCreate
<1>4. ops' \in 0..MaxOps /\ faults' \in 0..MaxFaults /\ (faults' = 0 => faults = 0)
    BY <1>3, Counting DEF AnswerCreate
<1>5. dialog' \in {dialog, NoDialog}
    BY DEF AnswerCreate
<1>6. /\ dialog' \in [of : Pickers \union {"nothing"}, at : 0..MaxOps, own : RecordIds \union {NoId}, submitting : BOOLEAN]
      /\ dialog'.of \in {"tag", "line"} => dialog'.own # NoId /\ draft.id # NoId
      /\ dialog'.of = "nothing" => dialog' = NoDialog
    <2>1. CASE dialog' = dialog
        BY <2>1, KnownTypes DEF DialogInv, RelationTypeOK
    <2>2. CASE dialog' = NoDialog
        BY <2>2, FormConstants DEF NoDialog
    <2> QED BY <1>5, <2>1, <2>2
<1>7. CASE Call.of = "line"
    <2>1. PICK l \in LineIds \ DOMAIN lines :
               /\ lines' = Extended(lines, l, Call.own) /\ rows' = rows \union {l}
               /\ queue' = Tail(queue)
               /\ UNCHANGED <<existing, draft, dirty>>
        BY <1>7 DEF AnswerCreate
    <2>2. DOMAIN lines' \subseteq LineIds /\ \A k \in DOMAIN lines' : lines'[k] \in RecordIds
        <3>1. Call.own \in RecordIds
            BY <1>2, <1>7 DEF Ids
        <3>2. DOMAIN lines \subseteq LineIds /\ \A k \in DOMAIN lines : lines[k] \in RecordIds
            BY KnownTypes DEF RelationTypeOK
        <3>3. /\ DOMAIN lines' = DOMAIN lines \union {l}
              /\ \A k \in DOMAIN lines \union {l} : lines'[k] = IF k = l THEN Call.own ELSE lines[k]
            <4>1. lines' = [k \in DOMAIN lines \union {l} |-> IF k = l THEN Call.own ELSE lines[k]]
                BY <2>1 DEF Extended
            <4> QED BY <4>1
        <3> QED BY <3>1, <3>2, <3>3
    <2>3. RelationTypeOK'
        BY <1>3, <1>6, <2>1, <2>2, KnownTypes DEF RelationTypeOK, tagVars
    <2>4. Turn(Tail(queue), <<>>) /\ Elems(<<>>) = {}
        BY <1>1, <2>1, Answered
    <2>5. Quiet(Tail(queue), <<>>)
        BY <1>1, <1>3, <1>4, <1>6, <2>1, <2>3, <2>4, KnownTypes DEF Quiet, Elsewhere, pageVars, DialogInv
    <2> QED BY <1>1, <1>3, <1>7, <2>1, <2>4, <2>5
<1>8. CASE Call.of # "line"
    <2>1. PICK r \in Related \ existing :
               /\ existing' = existing \union {r}
               /\ IF Call.of = "ref" THEN SetField("ref", r) /\ queue' = Tail(queue)
                                     ELSE Add(Tail(queue), Call.own, Call.staged, r)
               /\ UNCHANGED <<lines, rows>>
        BY <1>8 DEF AnswerCreate
    <2>2. RelationTypeOK'
        BY <1>3, <1>6, <2>1, KnownTypes DEF RelationTypeOK, tagVars
    <2>3. \E more :
              /\ Turn(Tail(queue), more)
              /\ \A c \in Elems(more) : ~deferred /\ Call.of = "tag" /\ c = LinkCall(Call.own, r) /\ CallType(c)
              /\ draft' \in Draft /\ draft'.id = draft.id /\ draft'.flag = draft.flag
              /\ dirty' \in BOOLEAN /\ (~dirty' => ~dirty)
              /\ draft'.staged.toUnlink \in {draft.staged.toUnlink, Call.staged.toUnlink}
        <3>1. CASE Call.of = "ref"
            <4>1. /\ draft' \in Draft /\ dirty' = TRUE
                  /\ draft'.id = draft.id /\ draft'.flag = draft.flag /\ draft'.staged = draft.staged
                BY <2>1, <3>1, KnownTypes, SettingRef
            <4>2. Turn(Tail(queue), <<>>) /\ Elems(<<>>) = {}
                BY <1>1, <2>1, <3>1, Answered
            <4> QED BY <4>1, <4>2
        <3>2. CASE Call.of # "ref"
            <4>1. Add(Tail(queue), Call.own, Call.staged, r) /\ Call.of = "tag" /\ Call.own \in RecordIds
                BY <1>2, <1>8, <2>1, <3>2 DEF Pickers, Ids
            <4> QED BY <1>1, <1>2, <4>1, Answered, AddQuiet
        <3> QED BY <3>1, <3>2
    <2>4. PICK more :
              /\ Turn(Tail(queue), more)
              /\ \A c \in Elems(more) : ~deferred /\ Call.of = "tag" /\ c = LinkCall(Call.own, r) /\ CallType(c)
              /\ draft' \in Draft /\ draft'.id = draft.id /\ draft'.flag = draft.flag
              /\ dirty' \in BOOLEAN /\ (~dirty' => ~dirty)
              /\ draft'.staged.toUnlink \in {draft.staged.toUnlink, Call.staged.toUnlink}
        BY <2>3
    <2>5. \A c \in Elems(more) : c.kind \notin {"commit", "log"}
        BY <2>4 DEF LinkCall
    <2>6. Quiet(Tail(queue), more)
        BY <1>1, <1>3, <1>4, <1>6, <2>2, <2>4, <2>5, KnownTypes DEF Quiet, Elsewhere, pageVars, DialogInv
    <2> QED BY <1>1, <1>3, <1>8, <2>1, <2>4, <2>6
<1> QED BY <1>7, <1>8

LEMMA RejectCreateQuiet ==
    ASSUME TypeInv, RejectCreate, Elsewhere
    PROVE  /\ Quiet(Tail(queue), <<>>) /\ Elems(<<>>) = {} /\ queue # <<>> /\ Call.kind = "create"
           /\ UNCHANGED <<draft, tagVars, lines, rows, strayed>> /\ faults' # 0
<1>1. queue # <<>> /\ Call.kind = "create" /\ queue' = Tail(queue)
    BY DEF RejectCreate, Answering
<1>2. UNCHANGED <<fields, records, opened, draft, dirty, ops, tagVars, existing, lines, rows, summed, strayed>>
    BY DEF RejectCreate
<1>3. ops' \in 0..MaxOps /\ faults' \in 0..MaxFaults /\ (faults' = 0 => faults = 0)
    BY <1>2, Counting DEF RejectCreate
<1>4. faults' # 0
    BY DEF RejectCreate, Fails, TypeInv, TypeOK, StoreTypeOK
<1>5. dialog' = dialog \/ dialog' = [dialog EXCEPT !.submitting = FALSE]
    BY DEF RejectCreate
<1>6. /\ dialog' \in [of : Pickers \union {"nothing"}, at : 0..MaxOps, own : RecordIds \union {NoId}, submitting : BOOLEAN]
      /\ DialogInv'
    <2>1. dialog \in [of : Pickers \union {"nothing"}, at : 0..MaxOps, own : RecordIds \union {NoId}, submitting : BOOLEAN]
        BY KnownTypes DEF RelationTypeOK
    <2>2. CASE dialog' = dialog
        BY <1>2, <2>1, <2>2, KnownTypes DEF DialogInv
    <2>3. CASE dialog' = [dialog EXCEPT !.submitting = FALSE]
        <3>1. /\ dialog'.of = dialog.of /\ dialog'.own = dialog.own
              /\ dialog' \in [of : Pickers \union {"nothing"}, at : 0..MaxOps, own : RecordIds \union {NoId}, submitting : BOOLEAN]
            BY <2>1, <2>3
        <3>2. dialog = NoDialog => dialog' = NoDialog
            <4>1. ASSUME dialog = NoDialog PROVE dialog' = NoDialog
                <5>1. dialog'.of = "nothing" /\ dialog'.at = 0 /\ dialog'.own = NoId /\ dialog'.submitting = FALSE
                    BY <2>1, <2>3, <4>1 DEF NoDialog
                <5> QED BY <3>1, <5>1 DEF NoDialog
            <4> QED BY <4>1
        <3> QED BY <1>2, <3>1, <3>2, KnownTypes DEF DialogInv
    <2> QED BY <1>5, <2>2, <2>3
<1>7. RelationTypeOK'
    BY <1>2, <1>6, KnownTypes DEF RelationTypeOK, tagVars
<1>8. Turn(Tail(queue), <<>>) /\ Elems(<<>>) = {}
    BY <1>1, Answered
<1> QED BY <1>1, <1>2, <1>3, <1>4, <1>6, <1>7, <1>8, KnownTypes DEF Quiet, Elsewhere, pageVars

LEMMA LinkMap ==
    ASSUME NEW f, DOMAIN f \subseteq Links, \A j \in DOMAIN f : f[j] \in Related,
           f = [j \in DOMAIN f |-> f[j]]
    PROVE  f \in LinkMaps
<1>1. f \in [DOMAIN f -> Related]
    OBVIOUS
<1> QED BY <1>1 DEF LinkMaps

LEMMA NoLinks == <<>> \in LinkMaps
<1>1. DOMAIN <<>> = {} /\ <<>> = [j \in {} |-> <<>>[j]]
    OBVIOUS
<1> QED BY <1>1, LinkMap

LEMMA MapOf ==
    ASSUME NEW f \in LinkMaps
    PROVE  DOMAIN f \subseteq Links /\ (\A j \in DOMAIN f : f[j] \in Related) /\ f = [j \in DOMAIN f |-> f[j]]
BY DEF LinkMaps

LEMMA LinksTyped ==
    ASSUME TypeInv
    PROVE  /\ nextLink \in 0..MaxLinks /\ 1..nextLink \subseteq Links /\ DOMAIN junctions \subseteq 1..nextLink
           /\ \A j \in DOMAIN junctions : junctions[j].own \in RecordIds /\ junctions[j].related \in Related
           /\ links \in LinkMaps /\ <<>> \in LinkMaps
           /\ \A own : RelatedOf(own) \in LinkMaps /\ DOMAIN RelatedOf(own) \subseteq 1..nextLink
<1>1. /\ nextLink \in 0..MaxLinks /\ DOMAIN junctions \subseteq 1..nextLink
      /\ \A j \in DOMAIN junctions : junctions[j] \in [own : RecordIds, related : Related]
      /\ links \in LinkMaps
    BY KnownTypes DEF RelationTypeOK
<1>2. 1..nextLink \subseteq Links
    BY <1>1, FormConstants DEF Links
<1>3. \A j \in DOMAIN junctions : junctions[j].own \in RecordIds /\ junctions[j].related \in Related
    BY <1>1
<1>4. ASSUME NEW own
      PROVE  RelatedOf(own) \in LinkMaps /\ DOMAIN RelatedOf(own) \subseteq 1..nextLink
    <2> DEFINE S == {k \in DOMAIN junctions : junctions[k].own = own}
    <2>1. RelatedOf(own) = [j \in S |-> junctions[j].related]
        BY DEF RelatedOf
    <2>2. DOMAIN RelatedOf(own) = S /\ S \subseteq 1..nextLink
        BY <1>1, <2>1
    <2>3. RelatedOf(own) \in [S -> Related]
        BY <1>3, <2>1
    <2> QED BY <1>2, <2>2, <2>3 DEF LinkMaps
<1> QED BY <1>1, <1>2, <1>3, <1>4, NoLinks

LEMMA LinksQuiet ==
    ASSUME TypeInv, AnswerLinks, Elsewhere
    PROVE  /\ queue # <<>> /\ Call.kind = "links"
           /\ UNCHANGED <<draft, junctions, nextLink, muddled, lines, rows, strayed>>
           /\ Call.read => /\ Quiet(Tail(queue), <<>>) /\ Elems(<<>>) = {}
                           /\ links' = IF Call.own = draft.id THEN Call.found ELSE links
           /\ ~Call.read => /\ links' = links
                            /\ \E c : /\ Quiet(Tail(queue), <<c>>) /\ Elems(<<c>>) = {c}
                                      /\ c.kind = "links" /\ c.own = Call.own /\ c.read
                                      /\ c.found = RelatedOf(Call.own)
<1>1. queue # <<>> /\ Call.kind = "links"
    BY DEF AnswerLinks, Answering
<1>2. Call \in [kind : {"links"}, own : RecordIds, read : BOOLEAN, found : LinkMaps]
    BY <1>1, Answered DEF CallType
<1>3. UNCHANGED <<fields, records, opened, draft, dirty, ops, existing, junctions, nextLink, lines, rows, summed,
                  dialog, muddled, strayed>>
    BY DEF AnswerLinks
<1>4. ops' \in 0..MaxOps /\ faults' \in 0..MaxFaults /\ (faults' = 0 => faults = 0)
    BY <1>3, Counting DEF AnswerLinks
<1>5. links' \in {links, Call.found}
    BY DEF AnswerLinks
<1>6. RelationTypeOK' /\ DialogInv'
    <2>1. links' \in LinkMaps
        BY <1>2, <1>5, LinksTyped
    <2>2. RelationTypeOK'
        BY <1>3, <2>1, KnownTypes DEF RelationTypeOK
    <2> QED BY <1>3, <2>2, KnownTypes DEF DialogInv
<1>7. CASE Call.read
    <2>1. queue' = Tail(queue) /\ links' = IF Call.own = draft.id THEN Call.found ELSE links
        BY <1>7 DEF AnswerLinks
    <2>2. Turn(Tail(queue), <<>>) /\ Elems(<<>>) = {}
        BY <1>1, <2>1, Answered
    <2>3. Quiet(Tail(queue), <<>>)
        BY <1>1, <1>3, <1>4, <1>6, <2>2, KnownTypes DEF Quiet, Elsewhere, pageVars
    <2> QED BY <1>1, <1>3, <1>7, <2>1, <2>2, <2>3
<1>8. CASE ~Call.read
    <2> DEFINE c == [Call EXCEPT !.read = TRUE, !.found = RelatedOf(Call.own)]
    <2>1. queue' = Append(Tail(queue), c) /\ links' = links
        BY <1>8 DEF AnswerLinks
    <2>2. RelatedOf(Call.own) \in LinkMaps
        BY LinksTyped
    <2>3. /\ c \in [kind : {"links"}, own : RecordIds, read : BOOLEAN, found : LinkMaps]
          /\ c.own = Call.own /\ c.read /\ c.found = RelatedOf(Call.own) /\ c.kind = "links"
        BY <1>2, <2>2
    <2> HIDE DEF c
    <2>4. CallType(c)
        BY <2>3 DEF CallType
    <2>5. Turn(Tail(queue), <<c>>) /\ Elems(<<c>>) = {c}
        BY <1>1, <2>1, Answered, Adds DEF Turn
    <2>6. Quiet(Tail(queue), <<c>>)
        BY <1>1, <1>3, <1>4, <1>6, <2>3, <2>4, <2>5, KnownTypes DEF Quiet, Elsewhere, pageVars
    <2> QED BY <1>1, <1>3, <1>8, <2>1, <2>3, <2>5, <2>6
<1> QED BY <1>7, <1>8

LEMMA LinkQuiet ==
    ASSUME TypeInv, AnswerLink, Elsewhere
    PROVE  /\ Quiet(Tail(queue), <<>>) /\ Elems(<<>>) = {} /\ queue # <<>> /\ Call.kind = "link"
           /\ Call.own \in RecordIds /\ Call.related \in Related
           /\ UNCHANGED <<draft, lines, rows, strayed>>
           /\ nextLink' = nextLink + 1 /\ nextLink' \notin DOMAIN junctions /\ nextLink' \notin 1..nextLink
           /\ DOMAIN junctions' = DOMAIN junctions \union {nextLink'}
           /\ \A j \in DOMAIN junctions : junctions'[j] = junctions[j]
           /\ junctions'[nextLink'].own = Call.own /\ junctions'[nextLink'].related = Call.related
           /\ links' = LinkShown(nextLink', Call.related)
           /\ muddled' = (muddled \/ Reading)
<1>1. queue # <<>> /\ Call.kind = "link" /\ queue' = Tail(queue)
    BY DEF AnswerLink, Answering
<1>2. Call.own \in RecordIds /\ Call.related \in Related
    BY <1>1, Answered DEF CallType
<1>3. UNCHANGED <<fields, records, opened, draft, dirty, ops, existing, lines, rows, summed, dialog, strayed>>
    BY DEF AnswerLink
<1>4. ops' \in 0..MaxOps /\ faults' \in 0..MaxFaults /\ (faults' = 0 => faults = 0)
    BY <1>3, Counting DEF AnswerLink
<1> DEFINE row == [own |-> Call.own, related |-> Call.related]
<1>5. /\ nextLink' = nextLink + 1 /\ nextLink < MaxLinks
      /\ junctions' = Extended(junctions, nextLink', row)
      /\ links' = LinkShown(nextLink', Call.related)
      /\ muddled' = (muddled \/ Reading)
    BY DEF AnswerLink
<1>6. row \in [own : RecordIds, related : Related] /\ row.own = Call.own /\ row.related = Call.related
    BY <1>2
<1>7. /\ nextLink' \in 0..MaxLinks /\ nextLink' \in Links /\ nextLink' \notin 1..nextLink
      /\ 1..nextLink \subseteq 1..nextLink' /\ nextLink' \in 1..nextLink'
    BY <1>5, LinksTyped, FormConstants DEF Links
<1> HIDE DEF row
<1>8. /\ DOMAIN junctions' = DOMAIN junctions \union {nextLink'}
      /\ \A j \in DOMAIN junctions' : junctions'[j] = IF j = nextLink' THEN row ELSE junctions[j]
    <2>1. junctions' = [k \in DOMAIN junctions \union {nextLink'} |-> IF k = nextLink' THEN row ELSE junctions[k]]
        BY <1>5 DEF Extended
    <2> QED BY <2>1
<1>9. links' \in LinkMaps
    <2>1. CASE links' = links
        BY <2>1, LinksTyped
    <2>2. CASE links' = Extended(links, nextLink', Call.related)
        <3>1. links' = [k \in DOMAIN links \union {nextLink'} |-> IF k = nextLink' THEN Call.related ELSE links[k]]
            BY <2>2 DEF Extended
        <3>2. DOMAIN links \subseteq Links /\ \A j \in DOMAIN links : links[j] \in Related
            BY LinksTyped, MapOf
        <3>3. DOMAIN links' = DOMAIN links \union {nextLink'} /\ \A j \in DOMAIN links' : links'[j] \in Related
            BY <1>2, <3>1, <3>2
        <3> QED BY <1>7, <3>1, <3>2, <3>3, LinkMap
    <2> QED BY <1>5, <2>1, <2>2 DEF LinkShown
<1>10. /\ DOMAIN junctions' \subseteq 1..nextLink'
       /\ \A j \in DOMAIN junctions' : junctions'[j] \in [own : RecordIds, related : Related]
    BY <1>6, <1>7, <1>8, KnownTypes DEF RelationTypeOK
<1>11. muddled' \in BOOLEAN
    BY <1>5, KnownTypes, Zenon DEF RelationTypeOK, Reading
<1>12. RelationTypeOK' /\ DialogInv'
    BY <1>3, <1>7, <1>9, <1>10, <1>11, KnownTypes DEF RelationTypeOK, DialogInv
<1>13. Turn(Tail(queue), <<>>) /\ Elems(<<>>) = {}
    BY <1>1, Answered
<1>14. Quiet(Tail(queue), <<>>)
    BY <1>1, <1>3, <1>4, <1>12, <1>13, KnownTypes DEF Quiet, Elsewhere, pageVars
<1>15. nextLink' \notin DOMAIN junctions
    BY <1>7, LinksTyped
<1> QED BY <1>1, <1>2, <1>3, <1>5, <1>6, <1>7, <1>8, <1>13, <1>14, <1>15

LEMMA UnlinkQuiet ==
    ASSUME TypeInv, AnswerUnlink, Elsewhere
    PROVE  /\ Quiet(Tail(queue), <<>>) /\ Elems(<<>>) = {} /\ queue # <<>> /\ Call.kind = "unlink"
           /\ UNCHANGED <<draft, nextLink, lines, rows, strayed>>
           /\ Call.link \in DOMAIN junctions
           /\ DOMAIN junctions' = DOMAIN junctions \ {Call.link}
           /\ \A j \in DOMAIN junctions' : junctions'[j] = junctions[j]
           /\ links' = IF Call.shown THEN [j \in DOMAIN links \ {Call.link} |-> links[j]] ELSE links
           /\ muddled' = (muddled \/ Reading)
<1>1. queue # <<>> /\ Call.kind = "unlink" /\ queue' = Tail(queue)
    BY DEF AnswerUnlink, Answering
<1>2. UNCHANGED <<fields, records, opened, draft, dirty, ops, existing, nextLink, lines, rows, summed, dialog, strayed>>
    BY DEF AnswerUnlink
<1>3. ops' \in 0..MaxOps /\ faults' \in 0..MaxFaults /\ (faults' = 0 => faults = 0)
    BY <1>2, Counting DEF AnswerUnlink
<1>4. /\ Call.link \in DOMAIN junctions
      /\ junctions' = [j \in DOMAIN junctions \ {Call.link} |-> junctions[j]]
      /\ links' = IF Call.shown THEN [j \in DOMAIN links \ {Call.link} |-> links[j]] ELSE links
      /\ muddled' = (muddled \/ Reading)
    BY DEF AnswerUnlink
<1>5. /\ DOMAIN junctions' = DOMAIN junctions \ {Call.link}
      /\ \A j \in DOMAIN junctions' : junctions'[j] = junctions[j]
    BY <1>4
<1>6. links' \in LinkMaps
    <2>1. CASE links' = links
        BY <2>1, LinksTyped
    <2>2. CASE links' = [j \in DOMAIN links \ {Call.link} |-> links[j]]
        <3>1. DOMAIN links \subseteq Links /\ \A j \in DOMAIN links : links[j] \in Related
            BY LinksTyped, MapOf
        <3>2. DOMAIN links' = DOMAIN links \ {Call.link} /\ \A j \in DOMAIN links' : links'[j] \in Related
            BY <2>2, <3>1
        <3> QED BY <2>2, <3>1, <3>2, LinkMap
    <2> QED BY <1>4, <2>1, <2>2
<1>7. muddled' \in BOOLEAN
    BY <1>4, KnownTypes, Zenon DEF RelationTypeOK, Reading
<1>8. RelationTypeOK' /\ DialogInv'
    BY <1>2, <1>5, <1>6, <1>7, KnownTypes DEF RelationTypeOK, DialogInv
<1>9. Turn(Tail(queue), <<>>) /\ Elems(<<>>) = {}
    BY <1>1, Answered
<1>10. Quiet(Tail(queue), <<>>)
    BY <1>1, <1>2, <1>3, <1>8, <1>9, KnownTypes DEF Quiet, Elsewhere, pageVars
<1> QED BY <1>1, <1>2, <1>4, <1>5, <1>9, <1>10

LEMMA RejectLinksQuiet ==
    ASSUME TypeInv, RejectLinks, Elsewhere
    PROVE  /\ Quiet(Tail(queue), <<>>) /\ Elems(<<>>) = {} /\ queue # <<>> /\ Call.kind \in {"links", "link", "unlink"}
           /\ UNCHANGED <<draft, junctions, nextLink, links, lines, rows, strayed>>
           /\ muddled' = TRUE
           /\ faults' = 0 => Call.kind = "unlink" /\ Call.link \notin DOMAIN junctions
<1>1. queue # <<>> /\ Call.kind \in {"links", "link", "unlink"} /\ queue' = Tail(queue)
    BY DEF RejectLinks
<1>2. UNCHANGED <<fields, records, opened, draft, dirty, ops, existing, junctions, nextLink, lines, links, rows, summed,
                  dialog, strayed>> /\ muddled' = TRUE
    BY DEF RejectLinks
<1>3. \E failed \in BOOLEAN : failed = (Call.kind # "unlink" \/ Call.link \in DOMAIN junctions) /\ Fails(failed)
    BY Zenon DEF RejectLinks
<1>4. ops' \in 0..MaxOps /\ faults' \in 0..MaxFaults /\ (faults' = 0 => faults = 0)
    BY <1>2, <1>3, Counting
<1>5. faults' = 0 => Call.kind = "unlink" /\ Call.link \notin DOMAIN junctions
    <2>1. faults \in Nat
        BY FormConstants DEF TypeInv, TypeOK, StoreTypeOK
    <2>2. ASSUME Fails(TRUE) PROVE faults' # 0
        BY <2>1, <2>2 DEF Fails
    <2> QED BY <1>3, <2>2, Zenon
<1>6. RelationTypeOK' /\ DialogInv'
    BY <1>2, KnownTypes DEF RelationTypeOK, DialogInv
<1>7. Turn(Tail(queue), <<>>) /\ Elems(<<>>) = {}
    BY <1>1, Answered
<1>8. Quiet(Tail(queue), <<>>)
    BY <1>1, <1>2, <1>4, <1>6, <1>7, KnownTypes DEF Quiet, Elsewhere, pageVars
<1> QED BY <1>1, <1>2, <1>5, <1>7, <1>8

LEMMA LinesQuiet ==
    ASSUME TypeInv, NEW failed \in BOOLEAN, AnswerLines(failed), Elsewhere
    PROVE  /\ Quiet(Tail(queue), <<>>) /\ Elems(<<>>) = {} /\ queue # <<>> /\ Call.kind = "lines"
           /\ UNCHANGED <<draft, tagVars, lines, strayed>>
           /\ IF Call.own = draft.id /\ Call.into = "list" THEN faults' = 0 => rows' = LineOf(draft.id)
                                                            ELSE rows' = rows
<1>1. queue # <<>> /\ Call.kind = "lines" /\ queue' = Tail(queue)
    BY DEF AnswerLines, Answering
<1>2. UNCHANGED <<fields, records, opened, draft, dirty, ops, tagVars, existing, lines, dialog, strayed>>
    BY DEF AnswerLines
<1>3. Fails(failed)
    BY DEF AnswerLines
<1>4. ops' \in 0..MaxOps /\ faults' \in 0..MaxFaults /\ (faults' = 0 => faults = 0)
    BY <1>2, <1>3, Counting
<1>5. faults' = 0 => ~failed
    BY <1>3, FormConstants DEF Fails, TypeInv, TypeOK, StoreTypeOK
<1> DEFINE found == IF failed THEN {} ELSE LineOf(Call.own)
<1>6. IF Call.own # draft.id THEN UNCHANGED <<rows, summed>>
      ELSE IF Call.into = "list" THEN rows' = found /\ UNCHANGED summed ELSE summed' = found /\ UNCHANGED rows
    BY DEF AnswerLines
<1>7. found \subseteq LineIds
    BY KnownTypes DEF RelationTypeOK, LineOf
<1>8. found = LineOf(Call.own) \/ failed
    OBVIOUS
<1> HIDE DEF found
<1>9. RelationTypeOK' /\ DialogInv'
    BY <1>2, <1>6, <1>7, KnownTypes DEF RelationTypeOK, DialogInv, tagVars
<1>10. Turn(Tail(queue), <<>>) /\ Elems(<<>>) = {}
    BY <1>1, Answered
<1>11. Quiet(Tail(queue), <<>>)
    BY <1>1, <1>2, <1>4, <1>9, <1>10, KnownTypes DEF Quiet, Elsewhere, pageVars
<1> QED BY <1>1, <1>2, <1>5, <1>6, <1>8, <1>10, <1>11

LEMMA PressGenerateQuiet ==
    ASSUME TypeInv, PressGenerate
    PROVE  /\ UNCHANGED <<draft, relationVars>>
           /\ \E c : Quiet(queue, <<c>>) /\ Elems(<<c>>) = {c} /\ c.kind = "generate" /\ c.own = draft.id
<1> DEFINE c == [kind |-> "generate", own |-> draft.id]
<1>1. /\ UNCHANGED <<fields, records, opened, draft, dirty, faults, relationVars, fileVars, submitting, last, feed, base,
                     mute, broken, meant>>
      /\ queue' = Append(queue, c) /\ running' = TRUE /\ draft.id # NoId
    BY DEF PressGenerate
<1>2. ops' \in 0..MaxOps /\ faults' \in 0..MaxFaults /\ (faults' = 0 => faults = 0)
    BY <1>1, Counting DEF PressGenerate
<1>3. CallType(c) /\ c.kind = "generate" /\ c.own = draft.id
    BY <1>1, KnownTypes DEF CallType, Draft, Ids
<1> HIDE DEF c
<1>4. RelationTypeOK' /\ DialogInv'
    BY <1>1, KnownTypes DEF RelationTypeOK, DialogInv, relationVars, tagVars
<1>5. Turn(queue, <<c>>) /\ Elems(<<c>>) = {c}
    BY <1>1, KnownTypes, Adds DEF Turn, Left
<1>6. Quiet(queue, <<c>>)
    BY <1>1, <1>2, <1>3, <1>4, <1>5, KnownTypes DEF Quiet
<1> QED BY <1>1, <1>3, <1>5, <1>6

LEMMA GenerateQuiet ==
    ASSUME TypeInv, NEW failed \in BOOLEAN, AnswerGenerate(failed)
    PROVE  /\ queue # <<>> /\ Call.kind = "generate" /\ UNCHANGED <<draft, tagVars, rows, strayed>>
           /\ \E more : /\ Quiet(Tail(queue), more)
                        /\ \A c \in Elems(more) : c = LoadLines(draft.id, "list") /\ draft.id # NoId
                        /\ faults' = 0 /\ draft.id # NoId => LoadLines(draft.id, "list") \in Elems(more)
<1>1. queue # <<>> /\ Call.kind = "generate" /\ Fails(failed) /\ running' = FALSE
    BY DEF AnswerGenerate, Answering
<1>2. UNCHANGED <<fields, records, opened, draft, dirty, ops, tagVars, existing, rows, summed, dialog, strayed,
                  fileVars, submitting, last, feed, base, mute, broken, meant>>
    BY DEF AnswerGenerate
<1>3. ops' \in 0..MaxOps /\ faults' \in 0..MaxFaults /\ (faults' = 0 => faults = 0)
    BY <1>1, <1>2, Counting
<1>4. faults' = 0 => ~failed
    BY <1>1, FormConstants DEF Fails, TypeInv, TypeOK, StoreTypeOK
<1>5. Call.own \in RecordIds
    BY <1>1, Answered DEF CallType
<1>6. DOMAIN lines' \subseteq LineIds /\ \A k \in DOMAIN lines' : lines'[k] \in RecordIds
    <2>1. DOMAIN lines \subseteq LineIds /\ \A k \in DOMAIN lines : lines[k] \in RecordIds
        BY KnownTypes DEF RelationTypeOK
    <2>2. PICK l \in LineIds \ DOMAIN lines : lines' = IF failed THEN lines ELSE Extended(lines, l, Call.own)
        BY DEF AnswerGenerate
    <2>3. CASE lines' = Extended(lines, l, Call.own)
        <3>1. lines' = [k \in DOMAIN lines \union {l} |-> IF k = l THEN Call.own ELSE lines[k]]
            BY <2>3 DEF Extended
        <3> QED BY <1>5, <2>1, <3>1
    <2> QED BY <2>1, <2>2, <2>3
<1>7. RelationTypeOK' /\ DialogInv'
    BY <1>2, <1>6, KnownTypes DEF RelationTypeOK, DialogInv, tagVars
<1> DEFINE load == LoadLines(draft.id, "list")
           more == IF failed \/ draft.id = NoId THEN <<>> ELSE <<load>>
<1>8. queue' = Tail(queue) \o more
    BY DEF AnswerGenerate
<1>9. CallType(load) /\ load.kind \notin {"commit", "log"}
    BY DEF LoadLines, CallType
<1> HIDE DEF load
<1>10. /\ IsSeq(more) /\ \A c \in Elems(more) : c = load /\ draft.id # NoId
       /\ ~failed /\ draft.id # NoId => load \in Elems(more)
    BY One, Nothing
<1> HIDE DEF more
<1>11. Turn(Tail(queue), more)
    <2>1. IsSeq(Tail(queue)) /\ Left(Tail(queue))
        BY <1>1, Answered
    <2> QED BY <1>8, <1>10, <2>1, CatOf DEF Turn
<1>12. Quiet(Tail(queue), more)
    BY <1>1, <1>2, <1>3, <1>7, <1>9, <1>10, <1>11, KnownTypes DEF Quiet
<1> QED BY <1>1, <1>2, <1>4, <1>10, <1>12 DEF load

----------------------------------------------------------------------------
(* The other steps: their types, and what they do to the queue *)

PageTypeOK ==
    /\ submitting \in BOOLEAN /\ running \in BOOLEAN /\ mute \in BOOLEAN /\ broken \in BOOLEAN
    /\ last \in Page /\ base \in Stored /\ meant \in Meaning
    /\ IsSeq(feed) /\ \A e \in Elems(feed) : e \in Entry

LEMMA TypesAre ==
    TypeInv <=> /\ StoreTypeOK /\ RelationTypeOK /\ FileTypeOK /\ PageTypeOK /\ DialogInv /\ OpenedInv
                /\ IsSeq(queue) /\ \A c \in Elems(queue) : CallType(c)
<1>1. (\A e \in Elems(feed) : e \in Entry) <=> \A i \in DOMAIN feed : feed[i] \in Entry
    BY DEF Elems
<1>2. /\ Page = [id : RecordIds \union {NoId}, values : Stored]
      /\ Meaning = [own : RecordIds \union {NoId}, tags : SUBSET Related]
    BY DEF Page, Meaning, Ids
<1> QED BY <1>1, <1>2, Zenon DEF TypeInv, TypeOK, PageTypeOK

LEMMA TypesNext ==
    ASSUME StoreTypeOK', RelationTypeOK', FileTypeOK', PageTypeOK', DialogInv', OpenedInv',
           IsSeq(queue'), \A c \in Elems(queue') : CallType(c)
    PROVE  TypeInv'
<1>1. \A i \in DOMAIN feed' : feed'[i] \in Entry
    BY DEF Elems, PageTypeOK
<1>2. /\ Page = [id : RecordIds \union {NoId}, values : Stored]
      /\ Meaning = [own : RecordIds \union {NoId}, tags : SUBSET Related]
    BY DEF Page, Meaning, Ids
<1> QED BY <1>1, <1>2, Zenon DEF TypeInv, TypeOK, PageTypeOK

LEMMA SeedIs ==
    ASSUME NEW id \in Ids, NEW values \in Stored
    PROVE  /\ Seed(id, values) \in Draft /\ Seed(id, values).id = id /\ Seed(id, values).ref = values.ref
           /\ Seed(id, values).flag = values.flag /\ Seed(id, values).staged = NothingStaged
           /\ NothingStaged.toUnlink = {} /\ NothingStaged.toLink = {}
<1>1. NothingStaged \in Staged /\ NothingStaged.toUnlink = {} /\ NothingStaged.toLink = {}
    BY DEF NothingStaged, Staged
<1>2. values.ref \in Related \union {NoRef} /\ values.flag \in BOOLEAN
    BY DEF Stored
<1> HIDE DEF NothingStaged
<1> QED BY <1>1, <1>2 DEF Seed, Draft

LEMMA ExpectedIs ==
    ASSUME TypeInv
    PROVE  /\ Expected \in Meaning
           /\ Expected # Unknown => /\ deferred /\ draft.id # NoId /\ ~muddled /\ ~Queued({"links"})
                                    /\ Expected.own = draft.id /\ Expected.tags = Visible
<1>1. Visible \in SUBSET Related
    <2>1. DOMAIN links \subseteq Links /\ \A j \in DOMAIN links : links[j] \in Related
        BY LinksTyped, MapOf
    <2>2. draft.staged.toLink \subseteq Related
        BY KnownTypes DEF Draft, Staged
    <2> QED BY <2>1, <2>2 DEF Visible
<1>2. draft.id \in Ids /\ NoId \in Ids
    BY KnownTypes DEF Draft, Ids
<1> HIDE DEF Visible
<1>3. Unknown \in Meaning
    BY <1>2 DEF Unknown, Meaning
<1>4. [own |-> draft.id, tags |-> Visible] \in Meaning
    BY <1>1, <1>2 DEF Meaning
<1>5. Expected # Unknown => /\ deferred /\ draft.id # NoId /\ ~muddled /\ ~Queued({"links"})
                            /\ Expected = [own |-> draft.id, tags |-> Visible]
    BY DEF Expected
<1>6. Expected \in {Unknown, [own |-> draft.id, tags |-> Visible]}
    BY DEF Expected
<1> QED BY <1>3, <1>4, <1>5, <1>6

LEMMA SaveStep ==
    ASSUME TypeInv, Save
    PROVE  /\ TypeInv' /\ ~submitting
           /\ UNCHANGED <<fields, records, opened, draft, dirty, faults, relationVars, fileVars, running, last, feed,
                          base, mute, broken, meant>>
           /\ \/ UNCHANGED <<queue, submitting>>
              \/ /\ submitting' = TRUE
                 /\ \E c : /\ Turn(queue, <<c>>) /\ Elems(<<c>>) = {c} /\ DOMAIN <<c>> = {1}
                           /\ c.kind = "commit" /\ c.by = "save" /\ c.id = draft.id /\ c.body.flag = draft.flag
                           /\ c.staged = draft.staged /\ c.before = last /\ c.expected = Expected
<1>1. UNCHANGED <<fields, records, opened, draft, dirty, faults, relationVars, fileVars, running, last, feed, base,
                  mute, broken, meant>> /\ ~submitting
    BY DEF Save
<1>2. ops' \in 0..MaxOps /\ faults' \in 0..MaxFaults /\ (faults' = 0 => faults = 0)
    BY <1>1, Counting DEF Save
<1>3. StoreTypeOK' /\ RelationTypeOK' /\ FileTypeOK' /\ DialogInv' /\ OpenedInv'
    BY <1>1, <1>2, TypesAre DEF StoreTypeOK, RelationTypeOK, FileTypeOK, DialogInv, OpenedInv, relationVars, tagVars,
                                fileVars
<1>4. submitting' \in BOOLEAN => PageTypeOK'
    BY <1>1, TypesAre, Zenon DEF PageTypeOK, Elems
<1> DEFINE c == [CommitCall("save", draft, last) EXCEPT !.expected = Expected]
<1>5. \/ UNCHANGED <<queue, submitting>>
      \/ queue' = Append(queue, c) /\ submitting' = TRUE
    BY DEF Save
<1>6. /\ c.kind = "commit" /\ c.by = "save" /\ c.id = draft.id /\ c.body = [ref |-> draft.ref, flag |-> draft.flag]
      /\ c.staged = draft.staged /\ c.before = last /\ c.expected = Expected
    BY DEF CommitCall
<1>7. draft \in Draft /\ last \in Page /\ Expected \in Meaning
    BY TypesAre, KnownTypes, ExpectedIs DEF PageTypeOK
<1> HIDE DEF c
<1>8. c.body \in Stored /\ c.body.flag = draft.flag
    BY <1>6, <1>7 DEF Draft, Stored
<1>9. CallType(c)
    <2>1. c.id \in Ids /\ c.staged \in Staged
        BY <1>6, <1>7 DEF Draft
    <2> QED BY <1>6, <1>7, <1>8, <2>1 DEF CallType
<1>10. CASE UNCHANGED <<queue, submitting>>
    <2>1. IsSeq(queue') /\ \A d \in Elems(queue') : CallType(d)
        BY <1>10, TypesAre
    <2>2. submitting' \in BOOLEAN
        BY <1>10, TypesAre DEF PageTypeOK
    <2>3. TypeInv'
        BY <1>3, <1>4, <2>1, <2>2, TypesNext
    <2> QED BY <1>1, <1>10, <2>3
<1>11. CASE queue' = Append(queue, c) /\ submitting' = TRUE
    <2>1. Turn(queue, <<c>>) /\ Elems(<<c>>) = {c} /\ DOMAIN <<c>> = {1}
        BY <1>11, KnownTypes, Adds, One DEF Turn, Left
    <2>2. IsSeq(queue') /\ \A d \in Elems(queue') : CallType(d)
        BY <1>9, <2>1, CallsTyped DEF Turn
    <2>3. TypeInv'
        BY <1>3, <1>4, <1>11, <2>2, TypesNext
    <2> QED BY <1>1, <1>6, <1>8, <1>11, <2>1, <2>3
<1> QED BY <1>5, <1>10, <1>11

LEMMA LoadsTyped ==
    ASSUME NEW own \in Ids
    PROVE  /\ IsSeq(Loads(own))
           /\ \A c \in Elems(Loads(own)) :
                 /\ CallType(c) /\ c.kind \in {"links", "lines"} /\ c.own = own /\ own # NoId
                 /\ c.kind = "links" => c = LoadLinks(own)
           /\ own # NoId /\ HasTags => LoadLinks(own) \in Elems(Loads(own))
           /\ own # NoId /\ HasLines => LoadLines(own, "list") \in Elems(Loads(own))
<1>1. ASSUME own # NoId PROVE CallType(LoadLinks(own))
    <2>1. LoadLinks(own) = [kind |-> "links", own |-> own, read |-> FALSE, found |-> <<>>]
        BY DEF LoadLinks
    <2>2. own \in RecordIds /\ <<>> \in LinkMaps
        BY <1>1, NoLinks DEF Ids
    <2>3. LoadLinks(own) \in [kind : {"links"}, own : RecordIds, read : BOOLEAN, found : LinkMaps]
        <3> DEFINE none == <<>>
        <3>1. none \in LinkMaps /\ LoadLinks(own) = [kind |-> "links", own |-> own, read |-> FALSE, found |-> none]
            BY <2>1, <2>2
        <3> HIDE DEF none
        <3> QED BY <2>2, <3>1
    <2> QED BY <2>3 DEF CallType
<1>2. \A into : CallType(LoadLines(own, into)) /\ LoadLines(own, into).kind = "lines" /\ LoadLines(own, into).own = own
    BY DEF LoadLines, CallType
<1>3. LoadLinks(own).kind = "links" /\ LoadLinks(own).own = own
    BY DEF LoadLinks
<1>4. ASSUME NEW c \in Elems(Loads(own))
      PROVE  /\ CallType(c) /\ c.kind \in {"links", "lines"} /\ c.own = own /\ own # NoId
             /\ c.kind = "links" => c = LoadLinks(own)
    <2>1. own # NoId /\ (c = LoadLinks(own) \/ \E into \in {"list", "totals"} : c = LoadLines(own, into))
        BY <1>4, LoadsOf
    <2> QED BY <1>1, <1>2, <1>3, <2>1
<1> QED BY <1>4, LoadsOf

LEMMA ResetStep ==
    ASSUME TypeInv, ResetForm
    PROVE  /\ TypeInv' /\ UNCHANGED <<fields, records, opened, faults, tagVars, lines, rows, strayed, files, meta, io,
                                      strokes, pageVars>>
           /\ draft'.id = opened.id /\ draft'.flag = opened.values.flag /\ draft'.staged.toUnlink = {}
           /\ torn' = TRUE
           /\ find' = IF opened.id # draft.id THEN FindFor(opened.id, opened.values.flag) ELSE find
           /\ \E more : /\ Turn(queue, more)
                        /\ Elems(more) = IF opened.id # draft.id THEN Elems(Loads(opened.id)) ELSE {}
<1>1. /\ UNCHANGED <<fields, records, opened, faults, tagVars, existing, lines, rows, strayed, files, meta, io,
                     strokes, pageVars>>
      /\ draft' = Seed(opened.id, opened.values) /\ dirty' = FALSE /\ torn' = TRUE
      /\ find' = IF opened.id # draft.id THEN FindFor(opened.id, opened.values.flag) ELSE find
      /\ summed' = IF opened.id = NoId THEN {} ELSE summed
      /\ dialog' = IF opened.id = NoId /\ dialog.of \in {"tag", "line"} THEN NoDialog ELSE dialog
    BY DEF ResetForm, Reset
<1>2. ops' \in 0..MaxOps /\ faults' \in 0..MaxFaults /\ (faults' = 0 => faults = 0)
    BY <1>1, Counting DEF ResetForm
<1>3. opened.id \in Ids /\ opened.values \in Stored /\ opened.values.flag \in BOOLEAN
    BY TypesAre DEF StoreTypeOK, Ids, Stored
<1>4. /\ draft' \in Draft /\ draft'.id = opened.id /\ draft'.flag = opened.values.flag
      /\ draft'.staged.toUnlink = {}
    BY <1>1, <1>3, SeedIs
<1>5. StoreTypeOK'
    BY <1>1, <1>2, <1>4, TypesAre DEF StoreTypeOK, Draft, Ids
<1>6. /\ dialog' \in [of : Pickers \union {"nothing"}, at : 0..MaxOps, own : RecordIds \union {NoId}, submitting : BOOLEAN]
      /\ DialogInv'
    <2>1. CASE dialog' = NoDialog
        BY <2>1, FormConstants DEF NoDialog, DialogInv
    <2>2. CASE dialog' = dialog /\ ~(opened.id = NoId /\ dialog.of \in {"tag", "line"})
        BY <1>4, <2>2, TypesAre DEF DialogInv, RelationTypeOK
    <2> QED BY <1>1, <2>1, <2>2
<1>7. RelationTypeOK' /\ OpenedInv'
    BY <1>1, <1>6, TypesAre DEF RelationTypeOK, tagVars, OpenedInv
<1>8. FileTypeOK'
    <2>1. find' \in [own : RecordIds \union {NoId}, seen : BOOLEAN, read : BOOLEAN, found : BOOLEAN]
        BY <1>1, <1>3, TypesAre DEF FileTypeOK, FindFor, NoFind, Ids
    <2> QED BY <1>1, <2>1, TypesAre DEF FileTypeOK
<1>9. PageTypeOK'
    BY <1>1, TypesAre DEF PageTypeOK, pageVars, Elems
<1> DEFINE more == IF opened.id # draft.id THEN Loads(opened.id) ELSE <<>>
<1>10. queue' = queue \o more
    BY DEF ResetForm
<1>11. IsSeq(more) /\ (\A c \in Elems(more) : CallType(c))
       /\ Elems(more) = IF opened.id # draft.id THEN Elems(Loads(opened.id)) ELSE {}
    BY <1>3, LoadsTyped, Nothing
<1> HIDE DEF more
<1>12. Turn(queue, more)
    BY <1>10, <1>11, KnownTypes, CatOf DEF Turn, Left
<1>13. IsSeq(queue') /\ \A d \in Elems(queue') : CallType(d)
    BY <1>11, <1>12, CallsTyped DEF Turn
<1>14. TypeInv'
    BY <1>5, <1>6, <1>7, <1>8, <1>9, <1>13, TypesNext
<1> QED BY <1>1, <1>4, <1>11, <1>12, <1>14

LEMMA PressStep ==
    ASSUME TypeInv, PressButton
    PROVE  /\ TypeInv' /\ UNCHANGED <<fields, records, opened, faults, relationVars, fileVars, submitting, last, feed, base,
                                      mute, broken, meant>>
           /\ draft'.id = draft.id /\ draft'.flag = draft.flag /\ draft'.staged = draft.staged /\ dirty' = TRUE
           /\ draft.id # NoId
           /\ \E c : /\ Turn(queue, <<c>>) /\ Elems(<<c>>) = {c}
                     /\ c.kind = "commit" /\ c.by = "button" /\ c.id = draft.id /\ c.body.flag = draft.flag
                     /\ c.staged = draft.staged
<1>1. /\ UNCHANGED <<fields, records, opened, faults, relationVars, fileVars, submitting, last, feed, base,
                     mute, broken, meant>>
      /\ draft.id # NoId /\ running' = TRUE
    BY DEF PressButton
<1>2. PICK r \in Related : SetField("ref", r) /\ queue' = Append(queue, CommitCall("button", draft', last))
    BY TypesAre DEF PressButton, RelationTypeOK
<1>3. /\ draft' \in Draft /\ dirty' = TRUE
      /\ draft'.id = draft.id /\ draft'.flag = draft.flag /\ draft'.staged = draft.staged
    BY <1>2, KnownTypes, SettingRef
<1>4. ops' \in 0..MaxOps /\ faults' \in 0..MaxFaults /\ (faults' = 0 => faults = 0)
    BY <1>1, Counting DEF PressButton
<1>5. StoreTypeOK'
    BY <1>1, <1>3, <1>4, TypesAre DEF StoreTypeOK, Draft, Ids
<1>6. RelationTypeOK' /\ FileTypeOK' /\ DialogInv' /\ OpenedInv'
    BY <1>1, <1>3, TypesAre DEF RelationTypeOK, FileTypeOK, DialogInv, OpenedInv, relationVars, tagVars, fileVars
<1>7. PageTypeOK'
    BY <1>1, TypesAre DEF PageTypeOK, Elems
<1> DEFINE c == CommitCall("button", draft', last)
<1>8. /\ c.kind = "commit" /\ c.by = "button" /\ c.id = draft'.id /\ c.body = [ref |-> draft'.ref, flag |-> draft'.flag]
      /\ c.staged = draft'.staged /\ c.before = last /\ c.expected = [own |-> NoId, tags |-> {}]
    BY DEF CommitCall
<1>9. c.body \in Stored /\ c.body.flag = draft.flag
    BY <1>3, <1>8 DEF Draft, Stored
<1>10. CallType(c)
    <2>1. c.id \in Ids /\ c.staged \in Staged /\ last \in Page
        BY <1>3, <1>8, TypesAre DEF Draft, PageTypeOK
    <2>2. c.expected \in Meaning
        BY <1>8 DEF Meaning, Ids
    <2> HIDE DEF c
    <2> QED BY <1>1, <1>3, <1>8, <1>9, <2>1, <2>2 DEF CallType
<1>11. queue' = Append(queue, c)
    BY <1>2
<1> HIDE DEF c
<1>12. Turn(queue, <<c>>) /\ Elems(<<c>>) = {c}
    BY <1>11, KnownTypes, Adds DEF Turn, Left
<1>13. IsSeq(queue') /\ \A d \in Elems(queue') : CallType(d)
    BY <1>10, <1>12, CallsTyped DEF Turn
<1>14. TypeInv'
    BY <1>5, <1>6, <1>7, <1>13, TypesNext
<1> QED BY <1>1, <1>3, <1>8, <1>9, <1>12, <1>14

LEMMA RefreshStep ==
    ASSUME TypeInv, Refresh
    PROVE  /\ TypeInv' /\ UNCHANGED <<fields, records, opened, draft, dirty, queue, faults, relationVars, fileVars,
                                      submitting, running, feed, base, mute, meant>>
           /\ ~broken' => ~broken /\ last' = last
<1>1. /\ UNCHANGED <<fields, records, opened, draft, dirty, queue, faults, relationVars, fileVars,
                     submitting, running, feed, base, mute, meant>>
      /\ last' = [id |-> opened.id, values |-> IF opened.id = NoId THEN Defaults ELSE records[opened.id]]
      /\ broken' = (broken \/ last' # last \/ submitting)
    BY DEF Refresh
<1>2. ops' \in 0..MaxOps /\ faults' \in 0..MaxFaults /\ (faults' = 0 => faults = 0)
    BY <1>1, Counting DEF Refresh
<1>3. /\ StoreTypeOK' /\ RelationTypeOK' /\ FileTypeOK' /\ DialogInv'
      /\ IsSeq(queue') /\ (\A d \in Elems(queue') : CallType(d)) /\ OpenedInv'
    BY <1>1, <1>2, TypesAre DEF StoreTypeOK, RelationTypeOK, FileTypeOK, DialogInv, OpenedInv, relationVars, tagVars,
                                fileVars
<1>4. last' \in Page
    <2>1. Defaults \in Stored
        BY DEF Defaults, Stored
    <2>2. opened.id \in Ids /\ (opened.id # NoId => records[opened.id] \in Stored)
        BY TypesAre DEF OpenedInv, StoreTypeOK, Ids
    <2> QED BY <1>1, <2>1, <2>2 DEF Page
<1>5. PageTypeOK'
    BY <1>1, <1>4, TypesAre, Zenon DEF PageTypeOK, Elems
<1>6. ~broken' => ~broken /\ last' = last
    BY <1>1, Zenon
<1> QED BY <1>1, <1>3, <1>5, <1>6, TypesNext

\* The answer of a commit, and the record it wrote.
LEMMA WrittenIs ==
    ASSUME TypeInv, Answering("commit"), Call.id = NoId => HasRoom
    PROVE  /\ Target \in RecordIds /\ Target # NoId /\ (Call.id # NoId => Target = Call.id)
           /\ DOMAIN Written = DOMAIN records \union {Target} /\ DOMAIN Written \subseteq RecordIds
           /\ Written[Target] = Call.body /\ \A i \in DOMAIN Written : Written[i] \in Stored
           /\ Seed(Target, Call.body) \in Draft /\ Seed(Target, Call.body).id = Target
           /\ Seed(Target, Call.body).flag = Call.body.flag /\ Seed(Target, Call.body).staged.toUnlink = {}
<1>1. Call.id \in Ids /\ Call.body \in Stored
    BY CommitOf
<1>2. Target \in RecordIds /\ (Call.id # NoId => Target = Call.id)
    BY <1>1 DEF Target, HasRoom, Ids
<1>3. Target # NoId
    BY <1>2, FormConstants DEF RecordIds, NoId
<1>4. DOMAIN records \subseteq RecordIds /\ \A i \in DOMAIN records : records[i] \in Stored
    BY TypesAre DEF StoreTypeOK
<1>5. Written = [i \in DOMAIN records \union {Target} |-> IF i = Target THEN Call.body ELSE records[i]]
    BY DEF Written
<1>6. /\ DOMAIN Written = DOMAIN records \union {Target} /\ DOMAIN Written \subseteq RecordIds
      /\ Written[Target] = Call.body /\ \A i \in DOMAIN Written : Written[i] \in Stored
    BY <1>1, <1>2, <1>4, <1>5
<1>7. Target \in Ids
    BY <1>2 DEF Ids
<1> QED BY <1>1, <1>2, <1>3, <1>6, <1>7, SeedIs

LEMMA LogStep ==
    ASSUME TypeInv, NEW failed \in BOOLEAN, AnswerLog(failed)
    PROVE  /\ TypeInv' /\ queue # <<>> /\ IsLog(Call)
           /\ UNCHANGED <<fields, records, opened, draft, dirty, relationVars, fileVars, submitting, running, last,
                          base, mute, meant>>
           /\ Turn(Tail(queue), <<>>) /\ Elems(<<>>) = {}
           /\ (faults' = 0 => faults = 0)
           /\ ~broken' => /\ ~broken
                          /\ feed' = Append(feed, [own |-> Call.own, from |-> Call.from, to |-> Call.to])
<1>1. /\ UNCHANGED <<fields, records, opened, draft, dirty, ops, relationVars, fileVars, submitting, running, last,
                     base, mute, meant>>
      /\ queue' = Tail(queue) /\ queue # <<>> /\ IsLog(Call) /\ Fails(failed) /\ broken' = (broken \/ failed)
    BY DEF AnswerLog, Answering, IsLog
<1> DEFINE e == [own |-> Call.own, from |-> Call.from, to |-> Call.to]
<1>2. feed' = IF failed THEN feed ELSE Append(feed, e)
    BY DEF AnswerLog
<1>3. e \in Entry
    BY <1>1, Answered DEF CallType, IsLog, Entry
<1>4. ops' \in 0..MaxOps /\ faults' \in 0..MaxFaults /\ (faults' = 0 => faults = 0)
    BY <1>1, Counting
<1>5. /\ StoreTypeOK' /\ RelationTypeOK' /\ FileTypeOK' /\ DialogInv' /\ OpenedInv'
    BY <1>1, <1>4, TypesAre DEF StoreTypeOK, RelationTypeOK, FileTypeOK, DialogInv, OpenedInv, relationVars, tagVars,
                                fileVars
<1>6. Turn(Tail(queue), <<>>) /\ Elems(<<>>) = {}
    BY <1>1, Answered
<1>7. IsSeq(queue') /\ \A d \in Elems(queue') : CallType(d)
    BY <1>6, CallsTyped DEF Turn
<1> HIDE DEF e
<1>8. IsSeq(feed') /\ \A d \in Elems(feed') : d \in Entry
    <2>1. IsSeq(feed) /\ \A d \in Elems(feed) : d \in Entry
        BY TypesAre DEF PageTypeOK
    <2>2. CASE feed' = feed
        BY <2>1, <2>2
    <2>3. CASE feed' = Append(feed, e)
        <3>1. Joined(feed, <<e>>, feed') /\ Elems(<<e>>) = {e}
            BY <2>1, <2>3, Adds
        <3>2. Elems(feed') = Elems(feed) \union {e}
            BY <3>1, ElemsJoined
        <3> QED BY <1>3, <2>1, <3>1, <3>2 DEF Joined
    <2> QED BY <1>2, <2>2, <2>3
<1>9. broken' \in BOOLEAN
    BY <1>1, TypesAre, Zenon DEF PageTypeOK
<1>10. PageTypeOK'
    BY <1>1, <1>8, <1>9, TypesAre DEF PageTypeOK
<1>11. TypeInv'
    BY <1>5, <1>7, <1>10, TypesNext
<1>12. ~broken' => ~broken /\ ~failed
    BY <1>1, Zenon
<1> QED BY <1>1, <1>2, <1>4, <1>6, <1>11, <1>12 DEF e

LEMMA RejectStep ==
    ASSUME TypeInv, RejectCommit
    PROVE  /\ TypeInv' /\ queue # <<>> /\ Call.kind = "commit"
           /\ UNCHANGED <<fields, opened, draft, dirty, relationVars, files, meta, find, io, strokes, last, feed, base, mute,
                          meant>>
           /\ broken' = TRUE /\ torn' = TRUE /\ faults' # 0
           /\ IF Call.by = "save" THEN UNCHANGED running ELSE UNCHANGED submitting
           /\ Turn(Tail(queue), <<>>) /\ Elems(<<>>) = {}
<1>1. /\ UNCHANGED <<fields, opened, draft, dirty, ops, relationVars, files, meta, find, io, strokes, last, feed, base,
                     mute, meant>>
      /\ broken' = TRUE /\ torn' = TRUE
      /\ queue' = Tail(queue) /\ queue # <<>> /\ Call.kind = "commit" /\ Fails(TRUE)
      /\ IF Call.by = "save" THEN submitting' = FALSE /\ UNCHANGED running ELSE running' = FALSE /\ UNCHANGED submitting
      /\ records' \in {records, Written}
    BY DEF RejectCommit, Answering, Reject
<1>2. ops' \in 0..MaxOps /\ faults' \in 0..MaxFaults /\ faults' # 0
    <2>1. ops' \in 0..MaxOps /\ faults' \in 0..MaxFaults
        BY <1>1, Counting
    <2>2. faults' # 0
        BY <1>1, TypesAre DEF Fails, StoreTypeOK
    <2> QED BY <2>1, <2>2
<1>3. /\ DOMAIN records \subseteq DOMAIN records' /\ DOMAIN records' \subseteq RecordIds
      /\ \A i \in DOMAIN records' : records'[i] \in Stored
    <2>1. CASE records' = records
        BY <2>1, TypesAre DEF StoreTypeOK
    <2>2. CASE records' = Written
        BY <2>2, WrittenIs DEF RejectCommit
    <2> QED BY <1>1, <2>1, <2>2
<1>4. StoreTypeOK' /\ OpenedInv'
    BY <1>1, <1>2, <1>3, TypesAre DEF StoreTypeOK, OpenedInv
<1>5. RelationTypeOK' /\ FileTypeOK' /\ DialogInv'
    BY <1>1, TypesAre DEF RelationTypeOK, FileTypeOK, DialogInv, relationVars, tagVars
<1>6. Turn(Tail(queue), <<>>) /\ Elems(<<>>) = {}
    BY <1>1, Answered
<1>7. IsSeq(queue') /\ \A d \in Elems(queue') : CallType(d)
    BY <1>6, CallsTyped DEF Turn
<1>8. submitting' \in BOOLEAN /\ running' \in BOOLEAN
    BY <1>1, TypesAre DEF PageTypeOK
<1>9. PageTypeOK'
    BY <1>1, <1>8, TypesAre DEF PageTypeOK
<1>10. TypeInv'
    BY <1>4, <1>5, <1>7, <1>9, TypesNext
<1> QED BY <1>1, <1>2, <1>6, <1>10

\* Both answers of a commit write the record and seed the draft with it.
Anchored ==
    /\ UNCHANGED <<fields, opened, faults, junctions, nextLink, links, existing, lines, rows, summed, dialog, strayed, files, meta,
                   io, strokes, torn, feed>>
    /\ records' = Written /\ draft' = Seed(Target, Call.body) /\ dirty' = FALSE
    /\ find' = IF Target # draft.id THEN FindFor(Target, Call.body.flag) ELSE find
    /\ queue # <<>> /\ Call.kind = "commit" /\ (Call.id = NoId => HasRoom)

LEMMA AnchoredTypes ==
    ASSUME TypeInv, Anchored, UNCHANGED ops, muddled' \in BOOLEAN
    PROVE  StoreTypeOK' /\ RelationTypeOK' /\ FileTypeOK' /\ DialogInv' /\ OpenedInv'
<1>1. Answering("commit") /\ (Call.id = NoId => HasRoom)
    BY DEF Anchored, Answering
<1>2. /\ records' = Written /\ draft' = Seed(Target, Call.body) /\ dirty' = FALSE
      /\ UNCHANGED <<fields, opened, faults, junctions, nextLink, links, existing, lines, rows, summed, dialog, strayed,
                     files, meta, io, strokes, torn, feed>>
      /\ find' = IF Target # draft.id THEN FindFor(Target, Call.body.flag) ELSE find
    BY DEF Anchored
<1>3. StoreTypeOK' /\ OpenedInv'
    BY <1>1, <1>2, WrittenIs, TypesAre DEF StoreTypeOK, OpenedInv, Draft, Ids
<1>4. RelationTypeOK'
    BY <1>2, TypesAre DEF RelationTypeOK
<1>5. DialogInv'
    BY <1>1, <1>2, WrittenIs, TypesAre DEF DialogInv
<1>6. FileTypeOK'
    <2>1. Call.body.flag \in BOOLEAN
        BY <1>1, CommitOf DEF Stored
    <2>2. find' \in [own : RecordIds \union {NoId}, seen : BOOLEAN, read : BOOLEAN, found : BOOLEAN]
        BY <1>1, <1>2, <2>1, WrittenIs, TypesAre DEF FileTypeOK, FindFor, NoFind
    <2> QED BY <1>2, <2>2, TypesAre DEF FileTypeOK
<1> QED BY <1>3, <1>4, <1>5, <1>6

LEMMA ButtonStep ==
    ASSUME TypeInv, AnswerButton
    PROVE  /\ TypeInv' /\ Anchored /\ Call.by = "button" /\ mute' = TRUE
           /\ UNCHANGED <<muddled, submitting, last, base, broken, meant>>
           /\ \E more : /\ Turn(Tail(queue), more)
                        /\ Elems(more) = IF Target # draft.id THEN Elems(Loads(Target)) ELSE {}
<1>1. /\ Answering("commit") /\ Call.by = "button" /\ Fails(FALSE) /\ Reconcile /\ OnAnchor(<<>>)
      /\ running' = FALSE /\ mute' = TRUE
      /\ UNCHANGED <<fields, opened, ops, relationVars, files, meta, io, strokes, torn, submitting, last, feed, base,
                     broken, meant>>
    BY DEF AnswerButton
<1>2. queue # <<>> /\ Call.kind = "commit" /\ Call.id # NoId
    BY <1>1, CommitOf DEF Answering
<1>3. Anchored /\ UNCHANGED <<muddled, submitting, last, base, broken, meant>>
    BY <1>1, <1>2 DEF Anchored, Reconcile, OnAnchor, Fails, relationVars, tagVars
<1>4. StoreTypeOK' /\ RelationTypeOK' /\ FileTypeOK' /\ DialogInv' /\ OpenedInv'
    BY <1>1, <1>3, AnchoredTypes, KnownTypes DEF RelationTypeOK
<1>5. PageTypeOK'
    BY <1>1, TypesAre DEF PageTypeOK, Elems
<1>6. Target \in Ids
    BY <1>1, <1>2, WrittenIs DEF Ids
<1> DEFINE loads == IF Target # draft.id THEN Loads(Target) ELSE <<>>
           more == <<>> \o loads
<1>7. queue' = Tail(queue) \o more
    BY <1>1 DEF OnAnchor
<1>8. IsSeq(loads) /\ (\A c \in Elems(loads) : CallType(c))
      /\ Elems(loads) = IF Target # draft.id THEN Elems(Loads(Target)) ELSE {}
    BY <1>6, LoadsTyped, Nothing
<1> HIDE DEF loads
<1>9. IsSeq(more) /\ Elems(more) = Elems(loads)
    <2> DEFINE none == <<>>
    <2>1. IsSeq(none) /\ Elems(none) = {} /\ more = none \o loads
        BY Nothing
    <2> HIDE DEF more, none
    <2>2. IsSeq(loads)
        BY <1>8
    <2>3. IsSeq(more) /\ Elems(more) = Elems(none) \union Elems(loads)
        BY <2>1, <2>2, CatOf
    <2> QED BY <2>1, <2>3
<1> HIDE DEF more
<1>10. Turn(Tail(queue), more)
    BY <1>2, <1>7, <1>9, Answered, CatOf DEF Turn
<1>11. IsSeq(queue') /\ \A d \in Elems(queue') : CallType(d)
    BY <1>8, <1>9, <1>10, CallsTyped DEF Turn
<1>12. TypeInv'
    BY <1>4, <1>5, <1>11, TypesNext
<1> QED BY <1>1, <1>3, <1>8, <1>9, <1>10, <1>12

LEMMA SavedStep ==
    ASSUME TypeInv, AnswerSave
    PROVE  /\ TypeInv' /\ Anchored /\ Call.by = "save" /\ submitting' = FALSE /\ meant' = Call.expected
           /\ last' = [id |-> Target, values |-> Call.body]
           /\ base' = IF Call.id = NoId THEN Call.body ELSE base
           /\ ~broken' => ~broken /\ (Call.id = NoId <=> Call.before.id = NoId)
           /\ ~muddled' => ~muddled /\ ~(deferred /\ Call.staged # NothingStaged)
           /\ muddled => muddled'
           /\ \E more : /\ Turn(Tail(queue), more)
                        /\ Elems(more) = Elems(LogCalls) \union Elems(FlushCalls)
                                         \union (IF Target # draft.id THEN Elems(Loads(Target)) ELSE {})
                        /\ \A i, j \in DOMAIN more : more[i].kind = "log" /\ more[j].kind = "log" => i = j
<1>1. /\ Answering("commit") /\ Call.by = "save" /\ (Call.id = NoId => HasRoom) /\ Fails(FALSE)
      /\ Reconcile /\ OnAnchor(LogCalls \o FlushCalls)
      /\ last' = [id |-> Target, values |-> Call.body]
      /\ submitting' = FALSE /\ mute' = FALSE
      /\ base' = IF Call.id = NoId THEN Call.body ELSE base
      /\ broken' = (broken \/ (Call.id = NoId) # (Call.before.id = NoId))
      /\ meant' = Call.expected
      /\ muddled' = (muddled \/ (deferred /\ Call.staged # NothingStaged))
      /\ UNCHANGED <<fields, opened, ops, junctions, nextLink, links, existing, lines, rows, summed, dialog,
                     strayed, files, meta, io, strokes, torn, running, feed>>
    BY DEF AnswerSave
<1>2. queue # <<>> /\ Call.kind = "commit"
    BY <1>1 DEF Answering
<1>3. Anchored
    BY <1>1, <1>2 DEF Anchored, Reconcile, OnAnchor, Fails
<1>4. muddled \in BOOLEAN /\ broken \in BOOLEAN
    BY TypesAre DEF RelationTypeOK, PageTypeOK
<1>5. /\ muddled' \in BOOLEAN /\ broken' \in BOOLEAN
      /\ ~muddled' => ~muddled /\ ~(deferred /\ Call.staged # NothingStaged)
      /\ muddled => muddled'
      /\ ~broken' => ~broken /\ (Call.id = NoId <=> Call.before.id = NoId)
    BY <1>1, <1>4, Zenon
<1>6. StoreTypeOK' /\ RelationTypeOK' /\ FileTypeOK' /\ DialogInv' /\ OpenedInv'
    BY <1>1, <1>3, <1>5, AnchoredTypes
<1>7. last' \in Page /\ base' \in Stored /\ meant' \in Meaning
    <2>1. Call.body \in Stored /\ Call.expected \in Meaning
        BY <1>1, CommitOf
    <2>2. Target \in Ids
        BY <1>1, WrittenIs DEF Ids
    <2> QED BY <1>1, <2>1, <2>2, TypesAre DEF Page, PageTypeOK
<1>8. PageTypeOK'
    BY <1>1, <1>5, <1>7, TypesAre DEF PageTypeOK, Elems
<1>9. PICK more :
              /\ Joined(Tail(queue), more, queue')
              /\ Elems(more) = Elems(LogCalls) \union Elems(FlushCalls)
                               \union (IF Target # draft.id THEN Elems(Loads(Target)) ELSE {})
              /\ \A i, j \in DOMAIN more : more[i].kind = "log" /\ more[j].kind = "log" => i = j
    BY BehindSave
<1>10. Turn(Tail(queue), more)
    BY <1>2, <1>9, Answered DEF Turn
<1>11. \A c \in Elems(more) : CallType(c)
    <2>1. ASSUME NEW c \in Elems(LogCalls) PROVE CallType(c)
        <3>1. c = [kind |-> "log", own |-> Target, from |-> Call.before.values, to |-> Call.body]
            BY <2>1, LogOf
        <3>2. Target \in RecordIds /\ Call.before.values \in Stored /\ Call.body \in Stored
            BY <1>1, WrittenIs, CommitOf DEF Page
        <3>3. c.kind = "log" /\ c.own = Target /\ c.from = Call.before.values /\ c.to = Call.body
            BY <3>1
        <3> QED BY <3>2, <3>3 DEF CallType
    <2>2. ASSUME NEW c \in Elems(FlushCalls) PROVE CallType(c)
        <3>1. ASSUME NEW j PROVE CallType(UnlinkCall(j))
            BY DEF CallType, UnlinkCall
        <3>2. ASSUME NEW r \in Call.staged.toLink PROVE CallType(LinkCall(Target, r))
            <4>1. Target \in RecordIds /\ r \in Related
                BY <1>1, WrittenIs, CommitOf DEF Staged
            <4> QED BY <4>1 DEF CallType, LinkCall
        <3> QED BY <1>1, <2>2, <3>1, <3>2, FlushOf
    <2>3. \A c \in Elems(Loads(Target)) : CallType(c)
        BY <1>1, WrittenIs, LoadsTyped DEF Ids
    <2> QED BY <1>9, <2>1, <2>2, <2>3
<1>12. IsSeq(queue') /\ \A d \in Elems(queue') : CallType(d)
    BY <1>10, <1>11, CallsTyped DEF Turn
<1>13. TypeInv'
    BY <1>6, <1>8, <1>12, TypesNext
<1> QED BY <1>1, <1>3, <1>5, <1>9, <1>10, <1>13

LEMMA SyncIs ==
    ASSUME TypeInv, NEW seen \in BOOLEAN, NEW found \in BOOLEAN, Sync(seen, found)
    PROVE  /\ draft' \in Draft /\ draft'.id = draft.id /\ draft'.staged = draft.staged
           /\ draft'.flag = IF seen # found THEN found ELSE draft.flag
           /\ dirty' \in BOOLEAN /\ torn' \in BOOLEAN /\ meta' = found
           /\ ~dirty' => ~dirty /\ draft' = draft
           /\ ~torn' => ~torn /\ ~Saving /\ seen = draft.flag
<1>1. /\ meta' = found
      /\ IF seen # found THEN SetField("flag", found) ELSE UNCHANGED <<draft, dirty>>
      /\ torn' = (torn \/ Saving \/ seen # draft.flag)
    BY DEF Sync
<1>2. torn \in BOOLEAN /\ draft \in Draft /\ dirty \in BOOLEAN
    BY TypesAre, KnownTypes DEF FileTypeOK
<1>3. torn' \in BOOLEAN /\ (~torn' => ~torn /\ ~Saving /\ seen = draft.flag)
    BY <1>1, <1>2, Zenon
<1>4. CASE seen # found
    BY <1>1, <1>2, <1>3, <1>4, SettingFlag
<1>5. CASE seen = found
    BY <1>1, <1>2, <1>3, <1>5
<1> QED BY <1>4, <1>5

LEMMA FileStep ==
    ASSUME TypeInv, Widgets2, UNCHANGED <<relationVars, pageVars>>
    PROVE  /\ TypeInv' /\ UNCHANGED <<fields, records, opened, queue>>
           /\ draft'.id = draft.id /\ draft'.staged = draft.staged /\ (faults' = 0 => faults = 0)
<1>0. find \in [own : RecordIds \union {NoId}, seen : BOOLEAN, read : BOOLEAN, found : BOOLEAN]
      /\ io \in [op : {"none", "upload", "remove"}, own : RecordIds \union {NoId}, seen : BOOLEAN, served : BOOLEAN]
      /\ draft \in Draft /\ dirty \in BOOLEAN /\ torn \in BOOLEAN /\ strokes \in BOOLEAN /\ meta \in BOOLEAN
      /\ files \subseteq RecordIds /\ draft.id \in RecordIds \union {NoId} /\ draft.flag \in BOOLEAN
    BY TypesAre, KnownTypes DEF FileTypeOK, Draft, Ids
<1>1. UNCHANGED <<fields, records, opened, queue>>
    BY DEF Widgets2, FindRead, FindAnswer, FindFails, Upload, RemoveFile, Stroke, ClearStrokes, IOServed, IOAnswer, IOFails,
           storeVars
<1>2. ops' \in 0..MaxOps /\ faults' \in 0..MaxFaults /\ (faults' = 0 => faults = 0)
    <2>1. (Op \/ UNCHANGED ops) /\ (Fails(TRUE) \/ UNCHANGED faults)
        BY DEF Widgets2, FindRead, FindAnswer, FindFails, Upload, RemoveFile, Stroke, ClearStrokes, IOServed, IOAnswer,
               IOFails, storeVars
    <2> QED BY <2>1, Counting
<1>3. NoFind \in [own : RecordIds \union {NoId}, seen : BOOLEAN, read : BOOLEAN, found : BOOLEAN]
      /\ NoIO \in [op : {"none", "upload", "remove"}, own : RecordIds \union {NoId}, seen : BOOLEAN, served : BOOLEAN]
    BY DEF NoFind, NoIO
<1>4. /\ draft' \in Draft /\ draft'.id = draft.id /\ draft'.staged = draft.staged /\ dirty' \in BOOLEAN
      /\ FileTypeOK'
    <2>1. CASE FindRead
        <3>1. find' = [find EXCEPT !.read = TRUE, !.found = find.own \in files]
            BY <2>1 DEF FindRead
        <3>2. (find.own \in files) \in BOOLEAN
            OBVIOUS
        <3>3. find' \in [own : RecordIds \union {NoId}, seen : BOOLEAN, read : BOOLEAN, found : BOOLEAN]
            BY <1>0, <3>1, <3>2
        <3> QED BY <1>0, <2>1, <3>3 DEF FindRead, FileTypeOK, storeVars
    <2>2. CASE FindAnswer
        <3>1. Sync(find.seen, find.found) /\ find.seen \in BOOLEAN /\ find.found \in BOOLEAN
            BY <1>0, <2>2 DEF FindAnswer
        <3> QED BY <1>0, <1>3, <2>2, <3>1, SyncIs DEF FindAnswer, FileTypeOK
    <2>3. CASE FindFails
        BY <1>0, <1>3, <2>3 DEF FindFails, FileTypeOK
    <2>4. CASE Upload \/ RemoveFile
        <3>1. PICK op \in {"upload", "remove"} :
                  /\ io' = [op |-> op, own |-> draft.id, seen |-> draft.flag, served |-> FALSE]
                  /\ torn' = (torn \/ find # NoFind)
                  /\ UNCHANGED <<draft, dirty, files, meta, find, strokes>>
            BY <2>4 DEF Upload, RemoveFile
        <3>2. torn' \in BOOLEAN
            BY <1>0, <3>1, Zenon
        <3>3. io' \in [op : {"none", "upload", "remove"}, own : RecordIds \union {NoId}, seen : BOOLEAN, served : BOOLEAN]
            BY <1>0, <3>1
        <3> QED BY <1>0, <3>1, <3>2, <3>3 DEF FileTypeOK
    <2>5. CASE Stroke
        <3>1. SetField("flag", TRUE) /\ torn' = (torn \/ Saving) /\ strokes' = TRUE /\ UNCHANGED <<files, meta, find, io>>
            BY <2>5 DEF Stroke
        <3>2. torn' \in BOOLEAN
            BY <1>0, <3>1, Zenon DEF Saving, Queued
        <3>3. draft' \in Draft /\ draft'.id = draft.id /\ draft'.staged = draft.staged /\ dirty' = TRUE
            BY <1>0, <3>1, SettingFlag
        <3> QED BY <1>0, <3>1, <3>2, <3>3 DEF FileTypeOK
    <2>6. CASE ClearStrokes
        <3>1. Sync(draft.flag, FALSE) /\ strokes' = FALSE /\ UNCHANGED <<files, find, io>>
            BY <2>6 DEF ClearStrokes
        <3> QED BY <1>0, <3>1, SyncIs DEF FileTypeOK
    <2>7. CASE IOServed
        <3>1. io' = [io EXCEPT !.served = TRUE] /\ UNCHANGED <<draft, dirty, meta, find, strokes, torn>>
              /\ files' \in {files \union {io.own}, files \ {io.own}}
              /\ io # NoIO
            BY <2>7 DEF IOServed, storeVars
        <3>2. io.own \in RecordIds
            BY <1>0, <3>1, TypesAre DEF OpenedInv
        <3>3. /\ io' \in [op : {"none", "upload", "remove"}, own : RecordIds \union {NoId}, seen : BOOLEAN, served : BOOLEAN]
              /\ io'.own = io.own
            BY <1>0, <3>1
        <3> QED BY <1>0, <3>1, <3>2, <3>3 DEF FileTypeOK
    <2>8. CASE IOAnswer
        <3>1. Sync(io.seen, io.op = "upload") /\ io' = NoIO /\ strokes' = FALSE /\ UNCHANGED <<files, find>>
            BY <2>8 DEF IOAnswer
        <3>2. io.seen \in BOOLEAN /\ (io.op = "upload") \in BOOLEAN
            BY <1>0
        <3> QED BY <1>0, <1>3, <3>1, <3>2, SyncIs DEF FileTypeOK
    <2>9. CASE IOFails
        BY <1>0, <1>3, <2>9 DEF IOFails, FileTypeOK
    <2> QED BY <2>1, <2>2, <2>3, <2>4, <2>5, <2>6, <2>7, <2>8, <2>9 DEF Widgets2
<1>5. StoreTypeOK' /\ RelationTypeOK'
    BY <1>1, <1>2, <1>4, TypesAre DEF StoreTypeOK, RelationTypeOK, relationVars, tagVars, Draft, Ids
<1>8. OpenedInv'
    <2>1. io' # NoIO => io'.own # NoId
        <3>1. CASE io' = io \/ io' = NoIO
            BY <3>1, TypesAre DEF OpenedInv
        <3>2. CASE Upload \/ RemoveFile
            BY <3>2 DEF Upload, RemoveFile, Interactive
        <3>3. CASE IOServed
            <4>1. io'.own = io.own /\ io # NoIO
                BY <1>0, <3>3 DEF IOServed
            <4> QED BY <4>1, TypesAre DEF OpenedInv
        <3> QED BY <3>1, <3>2, <3>3 DEF Widgets2, FindRead, FindAnswer, FindFails, Stroke, ClearStrokes, IOAnswer, IOFails
    <2> QED BY <1>1, <2>1, TypesAre DEF OpenedInv
<1>6. PageTypeOK' /\ DialogInv'
    BY <1>4, TypesAre DEF PageTypeOK, DialogInv, pageVars, relationVars, Elems
<1>7. IsSeq(queue') /\ \A d \in Elems(queue') : CallType(d)
    BY <1>1, TypesAre
<1> QED BY <1>1, <1>2, <1>4, <1>5, <1>6, <1>7, <1>8, TypesNext

----------------------------------------------------------------------------
(* One Save at a time *)

LEMMA SaveTurn ==
    ASSUME IsSeq(queue), SaveOnce(queue), NEW rest, NEW more, Turn(rest, more),
           \/ \A c \in Elems(more) : ~IsSave(c)
           \/ (\A c \in Elems(rest) : ~IsSave(c)) /\ SaveOnce(more)
    PROVE  SaveOnce(queue') /\ (rest # queue /\ IsSave(Call) => \A c \in Elems(rest) : ~IsSave(c))
<1> DEFINE S == {c \in Elems(queue) \union Elems(more) : IsSave(c)}
<1>1. /\ \A c \in Elems(rest) : c \in Elems(queue)
      /\ \A c \in Elems(queue') : c \in Elems(queue) \union Elems(more)
      /\ rest = queue \/ Call \in Elems(queue)
    BY TurnElems
<1>2. Once(queue, S)
    BY DEF Once, SaveOnce, Elems
<1>3. Once(rest, S) /\ (rest # queue /\ Call \in S => \A c \in Elems(rest) : c \notin S)
    BY <1>2, OnceLeft DEF Turn
<1>4. (\A c \in Elems(more) : c \notin S) \/ (\A c \in Elems(rest) : c \notin S)
    OBVIOUS
<1>5. Once(more, S)
    <2>1. CASE SaveOnce(more)
        BY <2>1 DEF Once, SaveOnce
    <2>2. CASE \A c \in Elems(more) : c \notin S
        BY <2>2 DEF Once, Elems
    <2> QED BY <2>1, <2>2
<1>6. Once(queue', S)
    BY <1>3, <1>4, <1>5, OnceJoined DEF Turn
<1>7. SaveOnce(queue')
    <2>1. ASSUME NEW i \in DOMAIN queue', IsSave(queue'[i]) PROVE queue'[i] \in S
        BY <1>1, <2>1 DEF Elems
    <2> QED BY <1>6, <2>1 DEF Once, SaveOnce
<1> QED BY <1>1, <1>3, <1>7

LEMMA SaveKept ==
    ASSUME TypeInv, SaveInv, NEW rest, NEW more, Turn(rest, more), \A c \in Elems(more) : ~IsSave(c),
           submitting' = submitting \/ (rest # queue /\ IsSave(Call))
    PROVE  SaveInv'
<1>1. SaveOnce(queue') /\ (rest # queue /\ IsSave(Call) => \A c \in Elems(rest) : ~IsSave(c))
    BY SaveTurn, KnownTypes DEF SaveInv
<1>2. Elems(queue') = Elems(rest) \union Elems(more) /\ Elems(rest) \subseteq Elems(queue)
    BY TurnElems, KnownTypes
<1> QED BY <1>1, <1>2 DEF SaveInv

LEMMA QuietSave ==
    ASSUME TypeInv, SaveInv, NEW rest, NEW more, Quiet(rest, more)
    PROVE  SaveInv'
<1>1. Turn(rest, more) /\ \A c \in Elems(more) : ~IsSave(c)
    BY DEF Quiet, IsSave
<1> QED BY <1>1, SaveKept DEF Quiet

----------------------------------------------------------------------------
(* The log *)

LEMMA LogTurn ==
    ASSUME IsSeq(queue), LogOrder(queue), NEW rest, NEW more, Turn(rest, more),
           \/ \A c \in Elems(more) : ~IsLog(c)
           \/ /\ \A c \in Elems(rest) : ~IsLog(c) /\ ~IsSave(c)
              /\ \A c \in Elems(more) : ~IsSave(c)
              /\ \A i, j \in DOMAIN more : IsLog(more[i]) /\ IsLog(more[j]) => i = j
    PROVE  /\ LogOrder(queue')
           /\ rest # queue /\ IsSave(Call) => \A c \in Elems(queue) : ~IsLog(c)
           /\ rest # queue /\ IsLog(Call) => \A c \in Elems(rest) : ~IsLog(c)
<1> DEFINE S == {c \in Elems(queue) \union Elems(more) : IsLog(c)}
           T == {c \in Elems(queue) \union Elems(more) : IsSave(c)}
<1>1. /\ \A c \in Elems(rest) : c \in Elems(queue)
      /\ Elems(queue') = Elems(rest) \union Elems(more)
      /\ rest = queue \/ Call \in Elems(queue)
    BY TurnElems
<1>2. Once(queue, S) /\ Ahead(queue, S, T)
    BY DEF Once, Ahead, LogOrder, Elems
<1>3. /\ Once(rest, S) /\ (rest # queue /\ Call \in S => \A c \in Elems(rest) : c \notin S)
      /\ Ahead(rest, S, T) /\ (rest # queue /\ Call \in T => \A c \in Elems(queue) : c \notin S)
    BY <1>2, OnceLeft, AheadLeft DEF Turn
<1>4. Once(queue', S)
    <2>1. (\A c \in Elems(more) : c \notin S) \/ (\A c \in Elems(rest) : c \notin S)
        OBVIOUS
    <2>2. Once(more, S)
        BY DEF Once, Elems
    <2> QED BY <1>3, <2>1, <2>2, OnceJoined DEF Turn
<1>5. Ahead(queue', S, T)
    <2>1. CASE \A c \in Elems(more) : ~IsLog(c)
        BY <1>3, <2>1, AheadJoined DEF Turn
    <2>2. CASE \A c \in Elems(rest) \union Elems(more) : ~IsSave(c)
        BY <1>1, <2>2, AheadOfNone
    <2> QED BY <2>1, <2>2
<1>6. LogOrder(queue')
    <2>1. ASSUME NEW i \in DOMAIN queue'
          PROVE  (IsLog(queue'[i]) => queue'[i] \in S) /\ (IsSave(queue'[i]) => queue'[i] \in T)
        BY <1>1, <2>1 DEF Elems
    <2> QED BY <1>4, <1>5, <2>1 DEF Once, Ahead, LogOrder
<1> QED BY <1>1, <1>3, <1>6

\* What the invariant of the log asks of the calls that are put on their way.
LogCall(c) ==
    /\ ~IsLog(c)
    /\ IsSave(c) => c.before = last /\ (c.id = NoId \/ c.id = last.id)
    /\ c.kind = "commit" /\ c.by = "button" => c.id = last.id

LEMMA LogKept ==
    ASSUME TypeInv, LogInv, NEW rest, NEW more, Turn(rest, more),
           UNCHANGED <<opened, last, feed, base>>,
           ~broken' => ~broken,
           rest # queue => ~IsLog(Call),
           ~broken => \A c \in Elems(more) : LogCall(c),
           draft'.id = draft.id \/ (~broken /\ draft'.id # NoId => last.id = draft'.id),
           mute' = TRUE \/ (UNCHANGED records /\ (~mute' => ~mute))
    PROVE  LogInv'
<1> SUFFICES ASSUME ~broken' PROVE LogInv'
    BY Zenon DEF LogInv
<1>1. /\ \A i \in DOMAIN feed : feed[i].from = IF i = 1 THEN base ELSE feed[i - 1].to
      /\ LogOrder(queue)
      /\ \A c \in Elems(queue) : IsLog(c) => c.from = Told /\ c.to = last.values
      /\ (\A c \in Elems(queue) : ~IsLog(c)) => last.values = Told
      /\ \A c \in Elems(queue) : IsSave(c) => c.before = last /\ (c.id = NoId \/ c.id = last.id)
      /\ \A c \in Elems(queue) : c.kind = "commit" /\ c.by = "button" => c.id = last.id
      /\ last.id = NoId => feed = <<>> /\ \A c \in Elems(queue) : ~IsLog(c)
      /\ draft.id # NoId => last.id = draft.id
      /\ opened.id # NoId => last.id = opened.id
      /\ last.id # NoId /\ ~mute => records[last.id] = last.values
    BY Zenon DEF LogInv
<1>2. \A c \in Elems(more) : LogCall(c)
    OBVIOUS
<1>3. LogOrder(queue')
    BY <1>1, <1>2, LogTurn, KnownTypes DEF LogCall
<1>4. /\ Elems(queue') = Elems(rest) \union Elems(more) /\ Elems(rest) \subseteq Elems(queue)
      /\ Elems(queue) \subseteq Elems(rest) \union {Call}
    BY TurnElems, KnownTypes
<1>5. \A c \in Elems(queue) : IsLog(c) => c \in Elems(queue')
    BY <1>4
<1>6. Told' = Told
    BY DEF Told
<1>7. /\ \A c \in Elems(queue') : IsLog(c) => c.from = Told /\ c.to = last.values
      /\ \A c \in Elems(queue') : IsSave(c) => c.before = last /\ (c.id = NoId \/ c.id = last.id)
      /\ \A c \in Elems(queue') : c.kind = "commit" /\ c.by = "button" => c.id = last.id
      /\ (\A c \in Elems(queue') : ~IsLog(c)) => last.values = Told
      /\ last.id = NoId => \A c \in Elems(queue') : ~IsLog(c)
    BY <1>1, <1>2, <1>4, <1>5 DEF LogCall
<1>8. draft'.id # NoId => last.id = draft'.id
    BY <1>1
<1>9. last.id # NoId /\ ~mute' => records'[last.id] = last.values
    BY <1>1
<1> QED BY <1>1, <1>3, <1>6, <1>7, <1>8, <1>9 DEF LogInv

LEMMA LogOtherwise ==
    ASSUME broken' PROVE LogInv'
BY DEF LogInv

LEMMA QuietLog ==
    ASSUME TypeInv, LogInv, NEW rest, NEW more, Quiet(rest, more)
    PROVE  LogInv'
<1>1. /\ Turn(rest, more) /\ UNCHANGED <<records, opened, last, feed, base, mute, broken>> /\ draft'.id = draft.id
      /\ rest # queue => ~IsLog(Call)
      /\ \A c \in Elems(more) : LogCall(c)
    BY DEF Quiet, IsLog, IsSave, LogCall
<1> QED BY <1>1, LogKept

LEMMA FileLog ==
    ASSUME TypeInv, LogInv, Widgets2, UNCHANGED <<relationVars, pageVars>>
    PROVE  LogInv'
<1>1. UNCHANGED <<records, opened, queue, last, feed, base, mute, broken>> /\ draft'.id = draft.id
    BY FileStep DEF pageVars
<1>2. Turn(queue, <<>>) /\ Elems(<<>>) = {}
    BY <1>1, KnownTypes, Same DEF Turn, Left
<1> QED BY <1>1, <1>2, LogKept

LEMMA SaveLog ==
    ASSUME TypeInv, LogInv, Save
    PROVE  LogInv'
<1>1. UNCHANGED <<records, opened, draft, last, feed, base, mute, broken>>
    BY SaveStep
<1>2. CASE UNCHANGED queue
    <2>1. Turn(queue, <<>>) /\ Elems(<<>>) = {}
        BY <1>2, KnownTypes, Same DEF Turn, Left
    <2> QED BY <1>1, <2>1, LogKept
<1>3. CASE \E c : /\ Turn(queue, <<c>>) /\ Elems(<<c>>) = {c} /\ DOMAIN <<c>> = {1}
                  /\ c.kind = "commit" /\ c.by = "save" /\ c.id = draft.id /\ c.body.flag = draft.flag
                  /\ c.staged = draft.staged /\ c.before = last /\ c.expected = Expected
    <2>1. PICK c : /\ Turn(queue, <<c>>) /\ Elems(<<c>>) = {c}
                   /\ c.kind = "commit" /\ c.by = "save" /\ c.id = draft.id /\ c.before = last
        BY <1>3
    <2>2. ~broken => LogCall(c)
        BY <2>1 DEF LogCall, LogInv, IsLog
    <2> QED BY <1>1, <2>1, <2>2, LogKept
<1> QED BY <1>2, <1>3, SaveStep

LEMMA ResetLog ==
    ASSUME TypeInv, LogInv, ResetForm
    PROVE  LogInv'
<1>1. UNCHANGED <<records, opened, last, feed, base, mute, broken>> /\ draft'.id = opened.id
    BY ResetStep DEF pageVars
<1>2. PICK more : /\ Turn(queue, more)
                  /\ Elems(more) = IF opened.id # draft.id THEN Elems(Loads(opened.id)) ELSE {}
    BY ResetStep
<1>3. opened.id \in Ids
    BY TypesAre DEF StoreTypeOK, Ids
<1>4. \A c \in Elems(more) : LogCall(c)
    BY <1>2, <1>3, LoadsTyped DEF LogCall, IsLog, IsSave
<1>5. ~broken /\ draft'.id # NoId => last.id = draft'.id
    BY <1>1 DEF LogInv
<1> QED BY <1>1, <1>2, <1>4, <1>5, LogKept

LEMMA PressLog ==
    ASSUME TypeInv, LogInv, PressButton
    PROVE  LogInv'
<1>1. UNCHANGED <<records, opened, last, feed, base, mute, broken>> /\ draft'.id = draft.id /\ draft.id # NoId
    BY PressStep
<1>2. PICK c : Turn(queue, <<c>>) /\ Elems(<<c>>) = {c} /\ c.kind = "commit" /\ c.by = "button" /\ c.id = draft.id
    BY PressStep
<1>3. ~broken => LogCall(c)
    BY <1>1, <1>2 DEF LogCall, IsLog, IsSave, LogInv
<1> QED BY <1>1, <1>2, <1>3, LogKept

LEMMA RefreshLog ==
    ASSUME TypeInv, LogInv, Refresh
    PROVE  LogInv'
<1>1. CASE ~broken'
    <2>1. UNCHANGED <<records, opened, queue, last, feed, base, mute>> /\ draft'.id = draft.id /\ ~broken
        BY <1>1, RefreshStep
    <2>2. Turn(queue, <<>>) /\ Elems(<<>>) = {}
        BY <2>1, KnownTypes, Same DEF Turn, Left
    <2> QED BY <2>1, <2>2, LogKept
<1> QED BY <1>1, LogOtherwise

LEMMA ButtonLog ==
    ASSUME TypeInv, LogInv, AnswerButton
    PROVE  LogInv'
<1>1. UNCHANGED <<opened, last, feed, base, broken>> /\ mute' = TRUE /\ Call.kind = "commit" /\ Call.by = "button"
      /\ queue # <<>> /\ draft' = Seed(Target, Call.body)
    BY ButtonStep DEF Anchored
<1>2. PICK more : /\ Turn(Tail(queue), more)
                  /\ Elems(more) = IF Target # draft.id THEN Elems(Loads(Target)) ELSE {}
    BY ButtonStep
<1>3. Call \in Elems(queue) /\ Call.id # NoId
    BY <1>1, Answered DEF CallType
<1>4. Target = Call.id /\ Target \in Ids /\ draft'.id = Target
    BY <1>1, <1>3, WrittenIs DEF Answering, Ids
<1>5. \A c \in Elems(more) : LogCall(c)
    BY <1>2, <1>4, LoadsTyped DEF LogCall, IsLog, IsSave
<1>6. ~broken /\ draft'.id # NoId => last.id = draft'.id
    BY <1>1, <1>3, <1>4 DEF LogInv
<1>7. ~IsLog(Call)
    BY <1>1 DEF IsLog
<1> QED BY <1>1, <1>2, <1>5, <1>6, <1>7, LogKept

LEMMA LogLog ==
    ASSUME TypeInv, LogInv, NEW failed \in BOOLEAN, AnswerLog(failed)
    PROVE  LogInv'
<1> SUFFICES ASSUME ~broken' PROVE LogInv'
    BY LogOtherwise
<1>0. /\ queue # <<>> /\ IsLog(Call) /\ Turn(Tail(queue), <<>>) /\ Elems(<<>>) = {} /\ ~broken
      /\ UNCHANGED <<records, opened, draft, last, base, mute>>
      /\ feed' = Append(feed, [own |-> Call.own, from |-> Call.from, to |-> Call.to])
    BY LogStep
<1>1. /\ \A i \in DOMAIN feed : feed[i].from = IF i = 1 THEN base ELSE feed[i - 1].to
      /\ LogOrder(queue)
      /\ \A c \in Elems(queue) : IsLog(c) => c.from = Told /\ c.to = last.values
      /\ \A c \in Elems(queue) : IsSave(c) => c.before = last /\ (c.id = NoId \/ c.id = last.id)
      /\ \A c \in Elems(queue) : c.kind = "commit" /\ c.by = "button" => c.id = last.id
      /\ last.id = NoId => feed = <<>> /\ \A c \in Elems(queue) : ~IsLog(c)
      /\ draft.id # NoId => last.id = draft.id
      /\ opened.id # NoId => last.id = opened.id
      /\ last.id # NoId /\ ~mute => records[last.id] = last.values
    BY <1>0, Zenon DEF LogInv
<1>2. Call \in Elems(queue) /\ Elems(Tail(queue)) \subseteq Elems(queue) /\ Tail(queue) # queue
    BY <1>0, Answered
<1>3. LogOrder(queue') /\ \A c \in Elems(Tail(queue)) : ~IsLog(c)
    BY <1>0, <1>1, <1>2, LogTurn, KnownTypes
<1>4. Elems(queue') = Elems(Tail(queue))
    BY <1>0, TurnElems, KnownTypes
<1>5. last.id # NoId /\ Call.from = Told /\ Call.to = last.values
    BY <1>0, <1>1, <1>2
<1> DEFINE e == [own |-> Call.own, from |-> Call.from, to |-> Call.to]
<1>6. feed' = Append(feed, e) /\ e.from = Told /\ e.to = last.values
    BY <1>0, <1>5
<1> HIDE DEF e
<1>7. /\ Len(feed) \in Nat /\ DOMAIN feed = 1..Len(feed) /\ Len(feed') = Len(feed) + 1
      /\ DOMAIN feed' = 1..(Len(feed) + 1)
      /\ \A i \in DOMAIN feed : feed'[i] = feed[i]
      /\ feed'[Len(feed) + 1] = e
      /\ feed = <<>> <=> Len(feed) = 0
    <2>1. PICK S : feed \in Seq(S)
        BY TypesAre DEF PageTypeOK, IsSeq
    <2>2. feed \in Seq(S \union {e}) /\ e \in S \union {e}
        BY <2>1
    <2> QED BY <1>6, <2>2
<1>8. feed' # <<>> /\ Told' = last'.values
    <2>1. feed' # <<>>
        BY <1>7
    <2> QED BY <1>0, <1>6, <1>7, <2>1 DEF Told
<1>9. \A i \in DOMAIN feed' : feed'[i].from = IF i = 1 THEN base' ELSE feed'[i - 1].to
    <2> SUFFICES ASSUME NEW i \in DOMAIN feed' PROVE feed'[i].from = IF i = 1 THEN base ELSE feed'[i - 1].to
        BY <1>0
    <2>1. CASE i \in DOMAIN feed
        <3>1. i # 1 => i - 1 \in DOMAIN feed
            BY <1>7, <2>1
        <3> QED BY <1>1, <1>7, <2>1, <3>1
    <2>2. CASE i \notin DOMAIN feed
        <3>1. i = Len(feed) + 1
            BY <1>7, <2>2
        <3>2. feed'[i].from = Told
            BY <1>6, <1>7, <3>1
        <3>3. CASE feed = <<>>
            BY <1>7, <3>1, <3>2, <3>3 DEF Told
        <3>4. CASE feed # <<>>
            <4>1. i # 1 /\ i - 1 = Len(feed) /\ i - 1 \in DOMAIN feed
                BY <1>7, <3>1, <3>4
            <4> QED BY <1>7, <3>2, <3>4, <4>1 DEF Told
        <3> QED BY <3>3, <3>4
    <2> QED BY <2>1, <2>2
<1> QED BY <1>0, <1>1, <1>2, <1>3, <1>4, <1>5, <1>8, <1>9 DEF LogInv

LEMMA SavedLog ==
    ASSUME TypeInv, SaveInv, LogInv, AnswerSave
    PROVE  LogInv'
<1> SUFFICES ASSUME ~broken' PROVE LogInv'
    BY LogOtherwise
<1>0. /\ queue # <<>> /\ IsSave(Call) /\ ~broken /\ (Call.id = NoId <=> Call.before.id = NoId)
      /\ last' = [id |-> Target, values |-> Call.body]
      /\ base' = IF Call.id = NoId THEN Call.body ELSE base
      /\ UNCHANGED <<opened, feed>> /\ records' = Written /\ draft' = Seed(Target, Call.body)
      /\ Answering("commit") /\ (Call.id = NoId => HasRoom)
    BY SavedStep DEF Anchored, IsSave, Answering
<1>1. /\ \A i \in DOMAIN feed : feed[i].from = IF i = 1 THEN base ELSE feed[i - 1].to
      /\ LogOrder(queue)
      /\ (\A c \in Elems(queue) : ~IsLog(c)) => last.values = Told
      /\ \A c \in Elems(queue) : IsSave(c) => c.before = last /\ (c.id = NoId \/ c.id = last.id)
      /\ \A c \in Elems(queue) : c.kind = "commit" /\ c.by = "button" => c.id = last.id
      /\ last.id = NoId => feed = <<>>
      /\ opened.id # NoId => last.id = opened.id
    BY <1>0, Zenon DEF LogInv
<1>2. PICK more :
          /\ Turn(Tail(queue), more)
          /\ Elems(more) = Elems(LogCalls) \union Elems(FlushCalls)
                           \union (IF Target # draft.id THEN Elems(Loads(Target)) ELSE {})
          /\ \A i, j \in DOMAIN more : more[i].kind = "log" /\ more[j].kind = "log" => i = j
    BY SavedStep
<1>3. Call \in Elems(queue) /\ Elems(Tail(queue)) \subseteq Elems(queue) /\ Tail(queue) # queue
    BY <1>0, Answered
<1>4. Call.before = last /\ (Call.id = NoId \/ Call.id = last.id)
    BY <1>0, <1>1, <1>3
<1>5. \A c \in Elems(queue) : ~IsLog(c)
    <2>1. /\ DOMAIN queue = 1..Len(queue) /\ 1 \in DOMAIN queue /\ queue[1] = Call /\ Len(queue) \in Nat
        BY <1>0, KnownTypes, Popped DEF Call
    <2>2. ASSUME NEW i \in DOMAIN queue, IsLog(queue[i]) PROVE FALSE
        <3>1. i < 1
            BY <1>0, <1>1, <2>1, <2>2 DEF LogOrder
        <3> QED BY <2>1, <3>1
    <2> QED BY <2>2 DEF Elems
<1>6. /\ Target \in Ids /\ Target # NoId /\ (Call.id # NoId => Target = Call.id)
      /\ Written[Target] = Call.body /\ draft'.id = Target
    BY <1>0, WrittenIs DEF Ids
<1>7. \A c \in Elems(more) : /\ c.kind # "commit"
                             /\ IsLog(c) => /\ c \in Elems(LogCalls)
                                            /\ c.from = Call.before.values /\ c.to = Call.body
    <2>1. ASSUME NEW c \in Elems(LogCalls) PROVE c.kind # "commit" /\ c.from = Call.before.values /\ c.to = Call.body
        BY LogOf
    <2>2. ASSUME NEW c \in Elems(FlushCalls) PROVE c.kind # "commit" /\ ~IsLog(c)
        <3>1. \A j : UnlinkCall(j).kind = "unlink"
            BY DEF UnlinkCall
        <3>2. \A r : LinkCall(Target, r).kind = "link"
            BY DEF LinkCall
        <3> QED BY <1>0, <2>2, <3>1, <3>2, FlushOf DEF IsLog
    <2>3. ASSUME NEW c \in Elems(Loads(Target)) PROVE c.kind # "commit" /\ ~IsLog(c)
        BY <1>6, <2>3, LoadsTyped DEF IsLog
    <2> QED BY <1>2, <2>1, <2>2, <2>3
<1>8. \A c \in Elems(more) : ~IsSave(c)
    BY <1>7 DEF IsSave
<1>9. \A c \in Elems(Tail(queue)) : ~IsSave(c)
    BY <1>0, <1>2, <1>3, <1>8, SaveTurn, KnownTypes DEF SaveInv
<1>10. LogOrder(queue')
    <2>1. \A i, j \in DOMAIN more : IsLog(more[i]) /\ IsLog(more[j]) => i = j
        BY <1>2 DEF IsLog
    <2>2. \A c \in Elems(Tail(queue)) : ~IsLog(c) /\ ~IsSave(c)
        BY <1>3, <1>5, <1>9
    <2> QED BY <1>1, <1>2, <1>8, <2>1, <2>2, LogTurn, KnownTypes
<1>11. Elems(queue') = Elems(Tail(queue)) \union Elems(more)
    BY <1>2, TurnElems, KnownTypes
<1>12. \A c \in Elems(queue') : ~IsSave(c)
    BY <1>8, <1>9, <1>11
<1>13. last.values = Told
    BY <1>1, <1>5
<1>14. CASE Call.id = NoId
    <2>1. last.id = NoId /\ feed = <<>> /\ opened.id = NoId
        BY <1>0, <1>1, <1>4, <1>14
    <2>2. \A c \in Elems(more) : ~IsLog(c)
        <3>1. Elems(LogCalls) = {}
            BY <1>0, <1>14, LogOf
        <3> QED BY <1>7, <3>1
    <2>3. \A c \in Elems(queue') : ~IsLog(c)
        BY <1>3, <1>5, <1>11, <2>2
    <2>4. \A c \in Elems(queue') : ~(c.kind = "commit" /\ c.by = "button")
        <3>1. ASSUME NEW c \in Elems(queue), c.kind = "commit", c.by = "button" PROVE FALSE
            BY <1>1, <2>1, <3>1, TypesAre DEF CallType
        <3> QED BY <1>3, <1>7, <1>11, <3>1
    <2>5. Told' = Call.body /\ last'.values = Call.body /\ last'.id = Target
        BY <1>0, <1>14, <2>1 DEF Told
    <2>6. \A i \in DOMAIN feed' : FALSE
        BY <1>0, <2>1
    <2> QED BY <1>0, <1>6, <1>10, <1>12, <2>1, <2>3, <2>4, <2>5, <2>6 DEF LogInv
<1>15. CASE Call.id # NoId
    <2>1. last.id = Target /\ last'.id = Target /\ last'.values = Call.body /\ base' = base /\ Told' = Told
        BY <1>0, <1>4, <1>6, <1>15 DEF Told
    <2>2. \A c \in Elems(queue') : IsLog(c) => c.from = Told' /\ c.to = last'.values
        BY <1>3, <1>4, <1>5, <1>7, <1>11, <1>13, <2>1
    <2>3. (\A c \in Elems(queue') : ~IsLog(c)) => last'.values = Told'
        <3> SUFFICES ASSUME \A c \in Elems(queue') : ~IsLog(c) PROVE last'.values = Told'
            OBVIOUS
        <3>1. \A c \in Elems(LogCalls) : IsLog(c)
            BY LogOf DEF IsLog
        <3>2. Elems(LogCalls) = {}
            BY <1>2, <1>11, <3>1
        <3>3. Call.before.values = Call.body
            BY <1>0, <1>15, <3>2, LogOf
        <3> QED BY <1>4, <1>13, <2>1, <3>3
    <2>4. \A c \in Elems(queue') : c.kind = "commit" /\ c.by = "button" => c.id = last'.id
        BY <1>1, <1>3, <1>7, <1>11, <2>1
    <2>5. records'[last'.id] = last'.values
        BY <1>0, <1>6, <2>1
    <2> QED BY <1>0, <1>1, <1>6, <1>10, <1>12, <2>1, <2>2, <2>3, <2>4, <2>5 DEF LogInv
<1> QED BY <1>14, <1>15

----------------------------------------------------------------------------
(* The flag *)

LEMMA FlagKept ==
    ASSUME TypeInv, FlagInv, NEW rest, NEW more, Turn(rest, more),
           UNCHANGED <<fields, records, opened, fileVars>>,
           draft'.id = draft.id, draft'.flag = draft.flag, ~dirty' => ~dirty,
           \A c \in Elems(more) : c.kind = "commit" => c.id = draft.id /\ c.body.flag = draft.flag
    PROVE  FlagInv'
<1>1. Elems(queue') = Elems(rest) \union Elems(more) /\ Elems(rest) \subseteq Elems(queue)
    BY TurnElems, KnownTypes
<1>2. UNCHANGED <<files, meta, find, io, strokes, torn>> /\ HasFile' = HasFile
    BY DEF fileVars, HasFile
<1>3. NoFileInv'
    BY <1>1, <1>2 DEF FlagInv, NoFileInv
<1>4. \A c \in Elems(queue') : ~torn /\ c.kind = "commit" => c.id = draft'.id /\ c.body.flag = draft'.flag
    BY <1>1 DEF FlagInv
<1> QED BY <1>2, <1>3, <1>4 DEF FlagInv

LEMMA QuietFlag ==
    ASSUME TypeInv, FlagInv, NEW rest, NEW more, Quiet(rest, more)
    PROVE  FlagInv'
<1>1. /\ Turn(rest, more) /\ UNCHANGED <<fields, records, opened, fileVars>>
      /\ draft'.id = draft.id /\ draft'.flag = draft.flag /\ (~dirty' => ~dirty)
      /\ \A c \in Elems(more) : c.kind # "commit"
    BY DEF Quiet
<1> QED BY <1>1, FlagKept

LEMMA SameQueue ==
    ASSUME TypeInv, UNCHANGED queue
    PROVE  Turn(queue, <<>>) /\ Elems(<<>>) = {}
BY KnownTypes, Same DEF Turn, Left

LEMMA PageFlag ==
    ASSUME TypeInv, FlagInv, Save \/ PressButton \/ Refresh \/ (\E failed \in BOOLEAN : AnswerLog(failed))
    PROVE  FlagInv'
<1>1. CASE Save
    <2>1. UNCHANGED <<fields, records, opened, draft, dirty, fileVars>>
        BY <1>1, SaveStep
    <2>2. CASE UNCHANGED queue
        BY <2>1, <2>2, SameQueue, FlagKept
    <2>3. CASE submitting' = TRUE /\ ~UNCHANGED queue
        <3>1. PICK c : Turn(queue, <<c>>) /\ Elems(<<c>>) = {c} /\ c.id = draft.id /\ c.body.flag = draft.flag
            BY <1>1, <2>3, SaveStep
        <3> QED BY <2>1, <3>1, FlagKept
    <2> QED BY <1>1, <2>2, <2>3, SaveStep
<1>2. CASE PressButton
    <2>1. /\ UNCHANGED <<fields, records, opened, fileVars>> /\ draft'.id = draft.id /\ draft'.flag = draft.flag
          /\ dirty' = TRUE
        BY <1>2, PressStep
    <2>2. PICK c : Turn(queue, <<c>>) /\ Elems(<<c>>) = {c} /\ c.id = draft.id /\ c.body.flag = draft.flag
        BY <1>2, PressStep
    <2> QED BY <2>1, <2>2, FlagKept
<1>3. CASE Refresh
    <2>1. UNCHANGED <<fields, records, opened, draft, dirty, fileVars, queue>>
        BY <1>3, RefreshStep
    <2> QED BY <2>1, SameQueue, FlagKept
<1>4. CASE \E failed \in BOOLEAN : AnswerLog(failed)
    <2>1. UNCHANGED <<fields, records, opened, draft, dirty, fileVars>> /\ Turn(Tail(queue), <<>>) /\ Elems(<<>>) = {}
        BY <1>4, LogStep
    <2> QED BY <2>1, FlagKept
<1> QED BY <1>1, <1>2, <1>3, <1>4

LEMMA FindForIs ==
    ASSUME NEW own, NEW flag
    PROVE  /\ FindFor(own, flag).read = FALSE
           /\ own = NoId \/ ~HasFile => FindFor(own, flag) = NoFind
           /\ own # NoId /\ HasFile => FindFor(own, flag).own = own /\ FindFor(own, flag) # NoFind
           /\ NoFind.own = NoId /\ NoFind.read = FALSE /\ NoIO.served = FALSE
BY DEF FindFor, NoFind, NoIO

LEMMA ResetFlag ==
    ASSUME TypeInv, FlagInv, ResetForm
    PROVE  FlagInv'
<1>1. /\ UNCHANGED <<fields, opened, files, meta, io>> /\ draft'.flag = opened.values.flag /\ torn' = TRUE
      /\ find' = IF opened.id # draft.id THEN FindFor(opened.id, opened.values.flag) ELSE find
    BY ResetStep
<1>2. PICK more : /\ Turn(queue, more)
                  /\ Elems(more) = IF opened.id # draft.id THEN Elems(Loads(opened.id)) ELSE {}
    BY ResetStep
<1>3. opened.id \in Ids
    BY TypesAre DEF StoreTypeOK, Ids
<1>4. \A c \in Elems(queue') : c.kind = "commit" => c \in Elems(queue)
    BY <1>2, <1>3, LoadsTyped, TurnElems, KnownTypes
<1>5. HasFile' = HasFile
    BY <1>1 DEF HasFile
<1>6. NoFileInv'
    BY <1>1, <1>4, <1>5, FindForIs DEF FlagInv, NoFileInv
<1>7. (find'.read => find'.own # NoId) /\ (io'.served => io' # NoIO)
    BY <1>1, FindForIs DEF FlagInv
<1> QED BY <1>1, <1>6, <1>7 DEF FlagInv

LEMMA RejectFlag ==
    ASSUME TypeInv, FlagInv, RejectCommit
    PROVE  FlagInv'
<1>1. /\ UNCHANGED <<fields, opened, draft, files, meta, find, io>> /\ torn' = TRUE
      /\ Turn(Tail(queue), <<>>) /\ Elems(<<>>) = {}
    BY RejectStep
<1>2. Elems(queue') \subseteq Elems(queue)
    BY <1>1, TurnElems, KnownTypes
<1>3. HasFile' = HasFile
    BY <1>1 DEF HasFile
<1>4. NoFileInv'
    BY <1>1, <1>2, <1>3 DEF FlagInv, NoFileInv
<1> QED BY <1>1, <1>4 DEF FlagInv

LEMMA AnchorFlag ==
    ASSUME TypeInv, SaveInv, FlagInv, Anchored, NEW more, Turn(Tail(queue), more),
           \A c \in Elems(more) : c.kind # "commit"
    PROVE  FlagInv'
<1>1. /\ UNCHANGED <<fields, opened, files, meta, io, strokes, torn>>
      /\ records' = Written /\ draft' = Seed(Target, Call.body) /\ dirty' = FALSE
      /\ find' = IF Target # draft.id THEN FindFor(Target, Call.body.flag) ELSE find
      /\ queue # <<>> /\ Call.kind = "commit" /\ (Call.id = NoId => HasRoom)
    BY DEF Anchored
<1>2. /\ Target # NoId /\ (Call.id # NoId => Target = Call.id) /\ records'[Target] = Call.body
      /\ draft'.id = Target /\ draft'.flag = Call.body.flag
    BY <1>1, WrittenIs DEF Answering
<1>3. Call \in Elems(queue) /\ CallType(Call) /\ Tail(queue) # queue
    BY <1>1, Answered
<1>4. \A c \in Elems(queue') : c.kind = "commit" => c \in Elems(Tail(queue)) /\ c \in Elems(queue) /\ CallType(c)
    BY <1>1, TurnElems, KnownTypes, TypesAre
<1>5. HasFile' = HasFile
    BY <1>1 DEF HasFile
<1>6. NoFileInv'
    BY <1>1, <1>2, <1>3, <1>4, <1>5, FindForIs DEF FlagInv, NoFileInv
<1>7. (find'.read => find'.own # NoId) /\ (io'.served => io' # NoIO)
    BY <1>1, FindForIs DEF FlagInv
<1>8. ASSUME ~torn PROVE Call.id = draft.id /\ Call.body.flag = draft.flag
    BY <1>1, <1>3, <1>8 DEF FlagInv
<1>9. CASE ~torn /\ Call.id # NoId
    <2>1. Target = draft.id /\ draft'.id = draft.id /\ draft'.flag = draft.flag /\ find' = find
        BY <1>1, <1>2, <1>8, <1>9
    <2>2. \A c \in Elems(queue') : c.kind = "commit" => c.id = draft'.id /\ c.body.flag = draft'.flag
        BY <1>4, <1>9, <2>1 DEF FlagInv
    <2>3. records'[draft'.id].flag = draft'.flag
        BY <1>2
    <2> QED BY <1>1, <1>6, <1>7, <1>9, <2>1, <2>2, <2>3 DEF FlagInv
<1>10. CASE ~torn /\ Call.id = NoId
    <2>1. draft.id = NoId /\ Call.by = "save"
        BY <1>1, <1>3, <1>8, <1>10 DEF CallType
    <2>2. \A c \in Elems(Tail(queue)) : ~IsSave(c)
        <3>1. \A c \in Elems(more) : ~IsSave(c)
            BY DEF IsSave
        <3> QED BY <1>1, <1>3, <2>1, <3>1, SaveTurn, KnownTypes DEF SaveInv, IsSave
    <2>3. \A c \in Elems(queue') : c.kind # "commit"
        <3>1. ASSUME NEW c \in Elems(queue'), c.kind = "commit" PROVE FALSE
            <4>1. c.id = NoId
                BY <1>4, <1>10, <2>1, <3>1 DEF FlagInv
            <4>2. c.by = "save"
                BY <1>4, <3>1, <4>1 DEF CallType
            <4> QED BY <1>4, <2>2, <3>1, <4>2 DEF IsSave
        <3> QED BY <3>1
    <2>4. io = NoIO /\ find.own = NoId
        BY <1>10, <2>1 DEF FlagInv
    <2>5. find' = FindFor(Target, Call.body.flag)
        BY <1>1, <1>2, <2>1
    <2>6. records'[draft'.id].flag = draft'.flag
        BY <1>2
    <2>7. CASE HasFile
        <3>1. find'.own = draft'.id /\ find' # NoFind /\ ~find'.read
            BY <1>2, <2>5, <2>7, FindForIs
        <3> QED BY <1>1, <1>6, <1>7, <2>3, <2>4, <2>6, <3>1, FindForIs DEF FlagInv
    <2>8. CASE ~HasFile
        <3>1. find' = NoFind
            BY <2>5, <2>8, FindForIs
        <3>2. ~meta' /\ files' = {} /\ ~draft'.flag
            BY <1>1, <1>5, <1>6, <2>8 DEF NoFileInv
        <3>3. find'.own = NoId /\ find'.read = FALSE /\ io' = NoIO /\ io'.served = FALSE
            BY <1>1, <2>4, <3>1 DEF NoFind, NoIO
        <3>4. meta' = (draft'.id \in files') /\ draft'.flag = (draft'.id \in files')
            <4>1. meta' \in BOOLEAN /\ draft'.flag \in BOOLEAN
                BY <1>1, <1>2, <1>3, TypesAre DEF FileTypeOK, CallType, Stored
            <4> QED BY <3>2, <4>1
        <3> QED BY <1>1, <1>6, <1>7, <2>3, <2>6, <3>3, <3>4 DEF FlagInv
    <2> QED BY <2>7, <2>8
<1>11. CASE torn
    BY <1>1, <1>6, <1>7, <1>11 DEF FlagInv
<1> QED BY <1>9, <1>10, <1>11

\* What the answer of a commit puts on its way holds no commit.
LEMMA AnswerFlag ==
    ASSUME TypeInv, SaveInv, FlagInv, AnswerButton \/ AnswerSave
    PROVE  FlagInv'
<1>1. CASE AnswerButton
    <2>1. Anchored
        BY <1>1, ButtonStep
    <2>2. PICK more : /\ Turn(Tail(queue), more)
                      /\ Elems(more) = IF Target # draft.id THEN Elems(Loads(Target)) ELSE {}
        BY <1>1, ButtonStep
    <2>3. Target \in Ids
        BY <2>1, WrittenIs DEF Anchored, Answering, Ids
    <2>4. \A c \in Elems(more) : c.kind # "commit"
        BY <2>2, <2>3, LoadsTyped
    <2> QED BY <2>1, <2>2, <2>4, AnchorFlag
<1>2. CASE AnswerSave
    <2>1. Anchored
        BY <1>2, SavedStep
    <2>2. PICK more : /\ Turn(Tail(queue), more)
                      /\ Elems(more) = Elems(LogCalls) \union Elems(FlushCalls)
                                       \union (IF Target # draft.id THEN Elems(Loads(Target)) ELSE {})
        BY <1>2, SavedStep
    <2>3. Target \in Ids /\ Answering("commit")
        BY <2>1, WrittenIs DEF Anchored, Answering, Ids
    <2>4. ASSUME NEW c \in Elems(LogCalls) PROVE c.kind # "commit"
        BY LogOf
    <2>5. ASSUME NEW c \in Elems(FlushCalls) PROVE c.kind # "commit"
        <3>1. (\A j : UnlinkCall(j).kind = "unlink") /\ (\A r : LinkCall(Target, r).kind = "link")
            BY DEF UnlinkCall, LinkCall
        <3> QED BY <2>3, <2>5, <3>1, FlushOf
    <2>6. \A c \in Elems(more) : c.kind # "commit"
        BY <2>2, <2>3, <2>4, <2>5, LoadsTyped
    <2> QED BY <2>1, <2>2, <2>6, AnchorFlag
<1> QED BY <1>1, <1>2

\* The file widgets: what has to be shown of each step, the queue and the record
\* being the same.
LEMMA FileFlag ==
    ASSUME TypeInv, FlagInv, Widgets2, UNCHANGED <<relationVars, pageVars>>
    PROVE  FlagInv'
<1>1. UNCHANGED <<fields, records, opened, queue>> /\ draft'.id = draft.id /\ HasFile' = HasFile
    BY FileStep DEF HasFile
<1>2. /\ find \in [own : RecordIds \union {NoId}, seen : BOOLEAN, read : BOOLEAN, found : BOOLEAN]
      /\ io \in [op : {"none", "upload", "remove"}, own : RecordIds \union {NoId}, seen : BOOLEAN, served : BOOLEAN]
      /\ draft \in Draft /\ dirty \in BOOLEAN /\ torn \in BOOLEAN /\ strokes \in BOOLEAN /\ meta \in BOOLEAN
      /\ draft.flag \in BOOLEAN
      /\ NoFind.own = NoId /\ NoFind.read = FALSE /\ NoIO.served = FALSE
    BY TypesAre, KnownTypes, FindForIs DEF FileTypeOK, Draft
<1>3. ASSUME ~Saving PROVE \A c \in Elems(queue) : c.kind # "commit"
    BY <1>3 DEF Saving, Queued, Elems
<1>4. /\ NoFileInv
      /\ find.read => find.own # NoId
      /\ io.served => io # NoIO
      /\ ~torn =>
           /\ \A c \in Elems(queue) : c.kind = "commit" => c.id = draft.id /\ c.body.flag = draft.flag
           /\ find.own # NoId => find.own = draft.id /\ io = NoIO
           /\ find.read => find.found = (find.own \in files)
           /\ io # NoIO => io.own = draft.id /\ draft.id # NoId
           /\ io.served => (io.own \in files) = (io.op = "upload")
           /\ draft.id # NoId /\ ~dirty => records[draft.id].flag = draft.flag
           /\ draft.id # NoId /\ find = NoFind /\ io = NoIO =>
                 /\ meta = (draft.id \in files)
                 /\ ~strokes => draft.flag = (draft.id \in files)
    BY DEF FlagInv
<1>5. CASE FindRead
    <2>1. /\ find' = [find EXCEPT !.read = TRUE, !.found = find.own \in files] /\ find.own # NoId
          /\ UNCHANGED <<draft, dirty, files, meta, io, strokes, torn>>
        BY <1>5 DEF FindRead, storeVars
    <2>2. find'.read /\ find'.found = (find.own \in files) /\ find'.own = find.own
        BY <1>2, <2>1
    <2>3. find' # NoFind /\ find # NoFind
        BY <1>2, <2>1, <2>2
    <2>4. NoFileInv'
        BY <1>1, <1>4, <2>1, <2>3 DEF NoFileInv
    <2> QED BY <1>1, <1>4, <2>1, <2>2, <2>3, <2>4 DEF FlagInv
<1>6. CASE FindAnswer
    <2>1. find.read /\ find' = NoFind /\ Sync(find.seen, find.found) /\ UNCHANGED <<files, io, strokes>>
        BY <1>6 DEF FindAnswer
    <2>2. find.seen \in BOOLEAN /\ find.found \in BOOLEAN /\ find # NoFind
        BY <1>2, <2>1
    <2>3. /\ draft'.flag = IF find.seen # find.found THEN find.found ELSE draft.flag
          /\ meta' = find.found /\ (~dirty' => ~dirty /\ draft' = draft)
          /\ ~torn' => ~torn /\ ~Saving /\ find.seen = draft.flag
        BY <2>1, <2>2, SyncIs
    <2>4. NoFileInv'
        BY <1>1, <1>4, <2>2 DEF NoFileInv
    <2>5. ~torn' => draft'.flag = find.found /\ find.found = (draft.id \in files) /\ \A c \in Elems(queue) : c.kind # "commit"
        BY <1>2, <1>3, <1>4, <2>1, <2>3
    <2> QED BY <1>1, <1>2, <1>4, <2>1, <2>3, <2>4, <2>5 DEF FlagInv
<1>7. CASE FindFails \/ IOFails
    <2>1. /\ torn' = TRUE /\ UNCHANGED <<draft, files, meta>>
          /\ find' \in {find, NoFind} /\ io' \in {io, NoIO}
        BY <1>7 DEF FindFails, IOFails
    <2>2. NoFileInv'
        BY <1>1, <1>4, <2>1 DEF NoFileInv
    <2> QED BY <1>2, <1>4, <2>1, <2>2 DEF FlagInv
<1>8. CASE Upload \/ RemoveFile
    <2>1. PICK op \in {"upload", "remove"} :
              /\ io' = [op |-> op, own |-> draft.id, seen |-> draft.flag, served |-> FALSE]
              /\ torn' = (torn \/ find # NoFind)
              /\ UNCHANGED <<draft, dirty, files, meta, find, strokes>>
              /\ HasFile /\ draft.id # NoId
        BY <1>8 DEF Upload, RemoveFile, Interactive
    <2>2. io'.own = draft.id /\ io'.served = FALSE /\ io' # NoIO
        BY <2>1 DEF NoIO
    <2>3. ~torn' => ~torn /\ find = NoFind
        BY <1>2, <2>1, Zenon
    <2>4. NoFileInv'
        BY <1>1, <2>1 DEF NoFileInv
    <2> QED BY <1>1, <1>2, <1>4, <2>1, <2>2, <2>3, <2>4 DEF FlagInv
<1>9. CASE Stroke
    <2>1. /\ SetField("flag", TRUE) /\ torn' = (torn \/ Saving) /\ strokes' = TRUE /\ UNCHANGED <<files, meta, find, io>>
          /\ HasFile
        BY <1>9 DEF Stroke, Interactive
    <2>2. dirty' = TRUE
        BY <2>1 DEF SetField
    <2>3. ~torn' => ~torn /\ ~Saving
        BY <1>2, <2>1, Zenon DEF Saving, Queued
    <2>4. NoFileInv'
        BY <1>1, <2>1 DEF NoFileInv
    <2> QED BY <1>1, <1>3, <1>4, <2>1, <2>2, <2>3, <2>4 DEF FlagInv
<1>10. CASE ClearStrokes
    <2>1. Sync(draft.flag, FALSE) /\ strokes' = FALSE /\ UNCHANGED <<files, find, io>> /\ HasFile /\ ~meta
        BY <1>10 DEF ClearStrokes, Interactive
    <2>2. /\ draft'.flag = IF draft.flag # FALSE THEN FALSE ELSE draft.flag
          /\ meta' = FALSE /\ (~dirty' => ~dirty /\ draft' = draft)
          /\ ~torn' => ~torn /\ ~Saving
        BY <1>2, <2>1, SyncIs
    <2>3. NoFileInv'
        BY <1>1, <2>1 DEF NoFileInv
    <2>4. draft'.flag = FALSE
        BY <1>2, <2>2
    <2>5. ASSUME ~torn' PROVE ~torn /\ \A c \in Elems(queue) : c.kind # "commit"
        BY <1>3, <2>2, <2>5
    <2>6. ASSUME ~torn', draft.id # NoId, ~dirty' PROVE records[draft.id].flag = draft'.flag
        BY <1>4, <2>2, <2>5, <2>6
    <2>7. ASSUME ~torn', draft.id # NoId, find = NoFind, io = NoIO PROVE draft.id \notin files
        BY <1>4, <2>1, <2>5, <2>7
    <2>8. find'.read => find'.own # NoId
        BY <1>4, <2>1
    <2>9. io'.served => io' # NoIO
        BY <1>4, <2>1
    <2>10. ASSUME ~torn'
           PROVE  /\ \A c \in Elems(queue') : c.kind = "commit" => c.id = draft'.id /\ c.body.flag = draft'.flag
                  /\ find'.own # NoId => find'.own = draft'.id /\ io' = NoIO
                  /\ find'.read => find'.found = (find'.own \in files')
                  /\ io' # NoIO => io'.own = draft'.id /\ draft'.id # NoId
                  /\ io'.served => (io'.own \in files') = (io'.op = "upload")
        BY <1>1, <1>4, <2>1, <2>5, <2>10
    <2>11. ASSUME ~torn', draft.id # NoId, find = NoFind, io = NoIO
           PROVE  meta' = (draft'.id \in files') /\ draft'.flag = (draft'.id \in files')
        <3>1. draft'.id \notin files'
            BY <1>1, <2>1, <2>7, <2>11
        <3>2. meta' = FALSE /\ draft'.flag = FALSE
            BY <2>2, <2>4
        <3>3. (draft'.id \in files') = FALSE
            BY <3>1
        <3> QED BY <3>2, <3>3, Zenon
    <2> QED BY <1>1, <2>1, <2>3, <2>6, <2>8, <2>9, <2>10, <2>11 DEF FlagInv
<1>11. CASE IOServed
    <2>1. /\ io # NoIO /\ io' = [io EXCEPT !.served = TRUE]
          /\ files' = IF io.op = "upload" THEN files \union {io.own} ELSE files \ {io.own}
          /\ UNCHANGED <<draft, dirty, meta, find, strokes, torn>>
        BY <1>11 DEF IOServed, storeVars
    <2>2. io'.served /\ io'.own = io.own /\ io'.op = io.op
        BY <1>2, <2>1
    <2>3. io' # NoIO
        BY <1>2, <2>2
    <2>4. NoFileInv'
        BY <1>1, <1>4, <2>1 DEF NoFileInv
    <2>5. (io.own \in files') = (io.op = "upload")
        BY <2>1
    <2> QED BY <1>1, <1>4, <2>1, <2>2, <2>3, <2>4, <2>5 DEF FlagInv
<1>12. CASE IOAnswer
    <2>1. io.served /\ Sync(io.seen, io.op = "upload") /\ io' = NoIO /\ strokes' = FALSE /\ UNCHANGED <<files, find>>
        BY <1>12 DEF IOAnswer
    <2> DEFINE up == (io.op = "upload")
    <2>2. io.seen \in BOOLEAN /\ up \in BOOLEAN /\ io # NoIO /\ Sync(io.seen, up)
        BY <1>2, <1>4, <2>1
    <2> HIDE DEF up
    <2>3. /\ draft'.flag = IF io.seen # up THEN up ELSE draft.flag
          /\ meta' = up /\ (~dirty' => ~dirty /\ draft' = draft)
          /\ ~torn' => ~torn /\ ~Saving /\ io.seen = draft.flag
        BY <2>2, SyncIs
    <2>4. NoFileInv'
        BY <1>1, <1>4, <2>2 DEF NoFileInv
    <2>5. ~torn' => draft'.flag = up /\ up = (draft.id \in files) /\ \A c \in Elems(queue) : c.kind # "commit"
        BY <1>2, <1>3, <1>4, <2>1, <2>2, <2>3 DEF up
    <2>6. ~torn' => find.own = NoId
        BY <1>4, <2>2, <2>3
    <2> QED BY <1>1, <1>2, <1>4, <2>1, <2>3, <2>4, <2>5, <2>6 DEF FlagInv
<1> QED BY <1>5, <1>6, <1>7, <1>8, <1>9, <1>10, <1>11, <1>12 DEF Widgets2

----------------------------------------------------------------------------
(* One Save at a time, by every step *)

LEMMA SaveSteps ==
    ASSUME TypeInv, SaveInv,
           \/ Save \/ ResetForm \/ PressButton \/ AnswerButton \/ AnswerSave \/ RejectCommit \/ Refresh
           \/ (\E failed \in BOOLEAN : AnswerLog(failed))
           \/ (Widgets2 /\ UNCHANGED <<relationVars, pageVars>>)
    PROVE  SaveInv'
<1>1. CASE Save
    <2>1. CASE UNCHANGED <<queue, submitting>>
        BY <2>1 DEF SaveInv
    <2>2. CASE ~UNCHANGED <<queue, submitting>>
        <3>1. PICK c : Turn(queue, <<c>>) /\ Elems(<<c>>) = {c} /\ DOMAIN <<c>> = {1}
            BY <1>1, <2>2, SaveStep
        <3>2. submitting' = TRUE /\ ~submitting
            BY <1>1, <2>2, SaveStep
        <3>3. \A d \in Elems(queue) : ~IsSave(d)
            BY <3>2 DEF SaveInv
        <3>4. SaveOnce(<<c>>)
            BY <3>1, Zenon DEF SaveOnce
        <3>5. SaveOnce(queue')
            BY <3>1, <3>3, <3>4, SaveTurn, KnownTypes DEF SaveInv
        <3> QED BY <3>2, <3>5 DEF SaveInv
    <2> QED BY <2>1, <2>2
<1>2. CASE ResetForm
    <2>1. opened.id \in Ids /\ UNCHANGED submitting
        BY <1>2, ResetStep, TypesAre DEF StoreTypeOK, Ids, pageVars
    <2>2. PICK more : /\ Turn(queue, more)
                      /\ Elems(more) = IF opened.id # draft.id THEN Elems(Loads(opened.id)) ELSE {}
        BY <1>2, ResetStep
    <2>3. \A c \in Elems(more) : ~IsSave(c)
        BY <2>1, <2>2, LoadsTyped DEF IsSave
    <2> QED BY <2>1, <2>2, <2>3, SaveKept
<1>3. CASE PressButton
    <2>1. PICK c : Turn(queue, <<c>>) /\ Elems(<<c>>) = {c} /\ c.by = "button"
        BY <1>3, PressStep
    <2>2. UNCHANGED submitting
        BY <1>3, PressStep
    <2>3. \A d \in Elems(<<c>>) : ~IsSave(d)
        BY <2>1 DEF IsSave
    <2> QED BY <2>1, <2>2, <2>3, SaveKept
<1>4. CASE AnswerButton
    <2>1. PICK more : /\ Turn(Tail(queue), more)
                      /\ Elems(more) = IF Target # draft.id THEN Elems(Loads(Target)) ELSE {}
        BY <1>4, ButtonStep
    <2>2. Target \in Ids /\ UNCHANGED submitting
        BY <1>4, ButtonStep, WrittenIs DEF Anchored, Answering, Ids
    <2>3. \A c \in Elems(more) : ~IsSave(c)
        BY <2>1, <2>2, LoadsTyped DEF IsSave
    <2> QED BY <2>1, <2>2, <2>3, SaveKept
<1>5. CASE AnswerSave
    <2>1. PICK more : /\ Turn(Tail(queue), more)
                      /\ Elems(more) = Elems(LogCalls) \union Elems(FlushCalls)
                                       \union (IF Target # draft.id THEN Elems(Loads(Target)) ELSE {})
        BY <1>5, SavedStep
    <2>2. Target \in Ids /\ Answering("commit") /\ IsSave(Call) /\ queue # <<>>
        BY <1>5, SavedStep, WrittenIs DEF Anchored, Answering, Ids, IsSave
    <2>3. ASSUME NEW c \in Elems(LogCalls) PROVE ~IsSave(c)
        BY LogOf DEF IsSave
    <2>4. ASSUME NEW c \in Elems(FlushCalls) PROVE ~IsSave(c)
        <3>1. (\A j : UnlinkCall(j).kind = "unlink") /\ (\A r : LinkCall(Target, r).kind = "link")
            BY DEF UnlinkCall, LinkCall
        <3> QED BY <2>2, <2>4, <3>1, FlushOf DEF IsSave
    <2>5. \A c \in Elems(more) : ~IsSave(c)
        BY <2>1, <2>2, <2>3, <2>4, LoadsTyped DEF IsSave
    <2>6. Tail(queue) # queue
        BY <2>2, Answered
    <2> QED BY <2>1, <2>2, <2>5, <2>6, SaveKept
<1>6. CASE RejectCommit
    <2>1. /\ Turn(Tail(queue), <<>>) /\ Elems(<<>>) = {} /\ queue # <<>> /\ Call.kind = "commit"
          /\ Call.by # "save" => UNCHANGED submitting
        BY <1>6, RejectStep
    <2>2. Tail(queue) # queue
        BY <2>1, Answered
    <2>3. submitting' = submitting \/ (Tail(queue) # queue /\ IsSave(Call))
        BY <2>1, <2>2 DEF IsSave
    <2> QED BY <2>1, <2>3, SaveKept
<1>7. CASE Refresh
    BY <1>7, RefreshStep DEF SaveInv
<1>8. CASE \E failed \in BOOLEAN : AnswerLog(failed)
    <2>1. Turn(Tail(queue), <<>>) /\ Elems(<<>>) = {} /\ UNCHANGED submitting
        BY <1>8, LogStep
    <2> QED BY <2>1, SaveKept
<1>9. CASE Widgets2 /\ UNCHANGED <<relationVars, pageVars>>
    <2>1. UNCHANGED <<queue, submitting>>
        BY <1>9, FileStep DEF pageVars
    <2> QED BY <2>1 DEF SaveInv
<1> QED BY <1>1, <1>2, <1>3, <1>4, <1>5, <1>6, <1>7, <1>8, <1>9

----------------------------------------------------------------------------
(* The list *)

LEMMA LinesComeIs ==
    ASSUME NEW q, NEW own, NEW shownNow \in BOOLEAN, NEW U, Elems(q) \subseteq U
    PROVE  LET S == {c \in U : StrayLine(c, own)}
               T == {c \in U : ListLoad(c, own)}
           IN  LinesCome(q, own, shownNow) <=> \/ shownNow /\ \A c \in Elems(q) : ~StrayLine(c, own)
                                               \/ Closed(q, S, T)
<1> DEFINE S == {c \in U : StrayLine(c, own)}
           T == {c \in U : ListLoad(c, own)}
<1>1. \A i \in DOMAIN q : /\ q[i] \in S <=> StrayLine(q[i], own)
                          /\ q[i] \in T <=> ListLoad(q[i], own)
    BY DEF Elems
<1> HIDE DEF S, T
<1>2. (\A i \in DOMAIN q : ~StrayLine(q[i], own)) <=> \A c \in Elems(q) : ~StrayLine(c, own)
    BY Zenon DEF Elems
<1>3. (\E k \in DOMAIN q : ListLoad(q[k], own) /\ \A i \in DOMAIN q : StrayLine(q[i], own) => i < k) <=> Closed(q, S, T)
    BY <1>1, Zenon DEF Closed
<1> QED BY <1>2, <1>3, Zenon DEF LinesCome, S, T

LEMMA LineKept ==
    ASSUME TypeInv, LineInv, NEW rest, NEW more, Turn(rest, more),
           UNCHANGED fields, draft'.id = draft.id, faults' = 0 => faults = 0, ~strayed' => ~strayed,
           ~strayed' => \A c \in Elems(more) : ~StrayLine(c, draft.id),
           faults' = 0 /\ rows = LineOf(draft.id) /\ (rest = queue \/ ~StrayLine(Call, draft.id))
              => rows' = LineOf(draft.id)',
           faults' = 0 /\ rest # queue /\ ListLoad(Call, draft.id) => rows' = LineOf(draft.id)'
    PROVE  LineInv'
<1> SUFFICES ASSUME faults' = 0, ~strayed', HasLines, draft.id # NoId
             PROVE  LinesCome(queue', draft.id, rows' = LineOf(draft.id)')
    BY DEF LineInv, HasLines
<1> DEFINE U == Elems(queue) \union Elems(more)
           S == {c \in U : StrayLine(c, draft.id)}
           T == {c \in U : ListLoad(c, draft.id)}
           was == (rows = LineOf(draft.id))
           is == (rows' = LineOf(draft.id)')
<1>1. LinesCome(queue, draft.id, was)
    BY DEF LineInv
<1>2. /\ Elems(queue') = Elems(rest) \union Elems(more) /\ Elems(rest) \subseteq Elems(queue)
      /\ rest = queue \/ Call \in Elems(queue)
    BY TurnElems, KnownTypes
<1>3. was \in BOOLEAN /\ is \in BOOLEAN /\ Elems(queue) \subseteq U /\ Elems(queue') \subseteq U
    BY <1>2
<1>4. /\ was /\ (rest = queue \/ ~StrayLine(Call, draft.id)) => is
      /\ rest # queue /\ ListLoad(Call, draft.id) => is
      /\ \A c \in Elems(more) : ~StrayLine(c, draft.id)
    OBVIOUS
<1> HIDE DEF was, is
<1>5. (was /\ \A c \in Elems(queue) : ~StrayLine(c, draft.id)) \/ Closed(queue, S, T)
    BY <1>1, <1>3, LinesComeIs
<1>6. (is /\ \A c \in Elems(queue') : ~StrayLine(c, draft.id)) \/ Closed(queue', S, T)
    <2>1. CASE was /\ \A c \in Elems(queue) : ~StrayLine(c, draft.id)
        BY <1>2, <1>4, <2>1
    <2>2. CASE Closed(queue, S, T)
        <3>1. \/ Closed(rest, S, T)
              \/ rest # queue /\ Call \in T /\ \A c \in Elems(queue) : c \notin S
            BY <2>2, ClosedLeft, KnownTypes DEF Turn
        <3>2. CASE Closed(rest, S, T)
            <4>1. \A c \in Elems(more) : c \notin S
                BY <1>4
            <4> QED BY <3>2, <4>1, ClosedJoined DEF Turn
        <3>3. CASE rest # queue /\ Call \in T /\ \A c \in Elems(queue) : c \notin S
            BY <1>2, <1>4, <3>3
        <3> QED BY <3>1, <3>2, <3>3
    <2> QED BY <1>5, <2>1, <2>2
<1>7. LinesCome(queue', draft.id, is)
    BY <1>3, <1>6, LinesComeIs
<1> QED BY <1>7 DEF is

\* A load that is put behind every call tells the list.
LEMMA LineFresh ==
    ASSUME TypeInv, NEW rest, NEW more, Turn(rest, more),
           \A c \in Elems(more) : ~StrayLine(c, draft'.id),
           faults' = 0 /\ HasLines' /\ draft'.id # NoId => \E c \in Elems(more) : ListLoad(c, draft'.id)
    PROVE  LineInv'
<1> SUFFICES ASSUME faults' = 0, HasLines', draft'.id # NoId
             PROVE  LinesCome(queue', draft'.id, rows' = LineOf(draft.id)')
    BY DEF LineInv
<1> DEFINE U == Elems(queue) \union Elems(more)
           S == {c \in U : StrayLine(c, draft'.id)}
           T == {c \in U : ListLoad(c, draft'.id)}
           is == (rows' = LineOf(draft.id)')
<1>1. Elems(queue') \subseteq U /\ is \in BOOLEAN
    BY TurnElems, KnownTypes
<1> HIDE DEF is
<1>2. Closed(queue', S, T)
    <2>1. (\A c \in Elems(more) : c \notin S) /\ \E c \in Elems(more) : c \in T
        OBVIOUS
    <2> QED BY <2>1, ClosedJoined DEF Turn
<1>3. LinesCome(queue', draft'.id, is)
    BY <1>1, <1>2, LinesComeIs
<1> QED BY <1>3 DEF is

LEMMA LineCalm ==
    ASSUME TypeInv, LineInv, NEW rest, NEW more, Turn(rest, more),
           UNCHANGED <<fields, rows, lines>>, draft'.id = draft.id, faults' = 0 => faults = 0, ~strayed' => ~strayed,
           ~strayed' => \A c \in Elems(more) : ~StrayLine(c, draft.id),
           rest # queue => ~ListLoad(Call, draft.id)
    PROVE  LineInv'
<1>1. LineOf(draft.id)' = LineOf(draft.id)
    BY DEF LineOf
<1> QED BY <1>1, LineKept

LEMMA LineWidgets ==
    ASSUME TypeInv, LineInv, Widgets1, Elsewhere
    PROVE  LineInv'
<1>1. CASE PickRef \/ ClearRef
    <2>1. Quiet(queue, <<>>) /\ UNCHANGED <<rows, lines, strayed>> /\ Elems(<<>>) = {}
        BY <1>1, RefQuiet, Nothing DEF PickRef, ClearRef, relationVars
    <2> QED BY <2>1, LineCalm DEF Quiet
<1>2. CASE AddTag
    <2>1. PICK more : Quiet(queue, more) /\ \A c \in Elems(more) : \E r : c = LinkCall(draft.id, r)
        BY <1>2, AddTagQuiet
    <2>2. \A c \in Elems(more) : ~StrayLine(c, draft.id)
        BY <2>1 DEF LinkCall, StrayLine
    <2>3. UNCHANGED <<rows, lines, strayed>>
        BY <1>2, AddTagQuiet DEF relationVars
    <2> QED BY <2>1, <2>2, <2>3, LineCalm DEF Quiet
<1>3. CASE UnlinkTag
    <2>1. PICK more : Quiet(queue, more) /\ \A c \in Elems(more) : \E j \in DOMAIN links : c = UnlinkCall(j)
        BY <1>3, UnlinkTagQuiet
    <2>2. \A c \in Elems(more) : ~StrayLine(c, draft.id)
        BY <2>1 DEF UnlinkCall, StrayLine
    <2>3. UNCHANGED <<rows, lines, strayed>>
        BY <1>3, UnlinkTagQuiet DEF relationVars
    <2> QED BY <2>1, <2>2, <2>3, LineCalm DEF Quiet
<1>4. CASE CloseDialog \/ \E w \in Pickers : OpenDialog(w)
    <2>1. Quiet(queue, <<>>) /\ UNCHANGED <<rows, lines, strayed>> /\ Elems(<<>>) = {}
        BY <1>4, DialogQuiet, Nothing
    <2> QED BY <2>1, LineCalm DEF Quiet
<1>5. CASE SubmitDialog
    <2>1. PICK c : Quiet(queue, <<c>>) /\ Elems(<<c>>) = {c} /\ (~strayed' => ~strayed /\ c.own = draft.id)
        BY <1>5, SubmitQuiet
    <2>2. ~strayed' => \A d \in Elems(<<c>>) : ~StrayLine(d, draft.id)
        BY <2>1 DEF StrayLine
    <2>3. UNCHANGED <<rows, lines>>
        BY <1>5, SubmitQuiet
    <2> QED BY <2>1, <2>2, <2>3, LineCalm DEF Quiet
<1>6. CASE AnswerCreate
    <2>1. PICK more : Quiet(Tail(queue), more) /\ \A c \in Elems(more) : \E r : c = LinkCall(Call.own, r)
        BY <1>6, CreateQuiet
    <2>2. \A c \in Elems(more) : ~StrayLine(c, draft.id)
        BY <2>1 DEF LinkCall, StrayLine
    <2>3. queue # <<>> /\ Call.kind = "create" /\ UNCHANGED strayed
        BY <1>6, CreateQuiet
    <2>4. ~ListLoad(Call, draft.id) /\ Tail(queue) # queue
        BY <2>3, Answered DEF ListLoad
    <2>5. CASE Call.of # "line"
        <3>1. UNCHANGED <<lines, rows>>
            BY <1>6, <2>5, CreateQuiet
        <3> QED BY <2>1, <2>2, <2>3, <2>4, <3>1, LineCalm DEF Quiet
    <2>6. CASE Call.of = "line"
        <3>1. PICK l \in LineIds \ DOMAIN lines : lines' = Extended(lines, l, Call.own) /\ rows' = rows \union {l}
            BY <1>6, <2>6, CreateQuiet
        <3>2. /\ DOMAIN lines' = DOMAIN lines \union {l}
              /\ \A k \in DOMAIN lines' : lines'[k] = IF k = l THEN Call.own ELSE lines[k]
            <4>1. lines' = [k \in DOMAIN lines \union {l} |-> IF k = l THEN Call.own ELSE lines[k]]
                BY <3>1 DEF Extended
            <4> QED BY <4>1
        <3>3. ASSUME rows = LineOf(draft.id), ~StrayLine(Call, draft.id) PROVE rows' = LineOf(draft.id)'
            <4>1. Call.own = draft.id /\ draft'.id = draft.id
                BY <2>1, <2>3, <2>6, <3>3 DEF StrayLine, Quiet
            <4>2. LineOf(draft.id)' = LineOf(draft.id) \union {l}
                BY <3>1, <3>2, <4>1 DEF LineOf
            <4> QED BY <3>1, <3>3, <4>2
        <3> QED BY <2>1, <2>2, <2>3, <2>4, <3>3, LineKept DEF Quiet
    <2> QED BY <2>5, <2>6
<1>7. CASE RejectCreate
    <2>1. /\ Quiet(Tail(queue), <<>>) /\ Elems(<<>>) = {} /\ Call.kind = "create" /\ UNCHANGED <<lines, rows, strayed>>
        BY <1>7, RejectCreateQuiet
    <2>2. ~ListLoad(Call, draft.id)
        BY <2>1 DEF ListLoad
    <2> QED BY <2>1, <2>2, LineCalm DEF Quiet
<1>8. CASE AnswerLinks
    <2>1. Call.kind = "links" /\ UNCHANGED <<lines, rows, strayed>>
        BY <1>8, LinksQuiet
    <2>2. PICK more : Quiet(Tail(queue), more) /\ \A c \in Elems(more) : c.kind = "links"
        BY <1>8, LinksQuiet
    <2>3. ~ListLoad(Call, draft.id) /\ \A c \in Elems(more) : ~StrayLine(c, draft.id)
        BY <2>1, <2>2 DEF ListLoad, StrayLine
    <2> QED BY <2>1, <2>2, <2>3, LineCalm DEF Quiet
<1>9. CASE AnswerLink
    <2>1. Quiet(Tail(queue), <<>>) /\ Elems(<<>>) = {} /\ Call.kind = "link" /\ UNCHANGED <<lines, rows, strayed>>
        BY <1>9, LinkQuiet
    <2>2. ~ListLoad(Call, draft.id)
        BY <2>1 DEF ListLoad
    <2> QED BY <2>1, <2>2, LineCalm DEF Quiet
<1>10. CASE AnswerUnlink
    <2>1. Quiet(Tail(queue), <<>>) /\ Elems(<<>>) = {} /\ Call.kind = "unlink" /\ UNCHANGED <<lines, rows, strayed>>
        BY <1>10, UnlinkQuiet
    <2>2. ~ListLoad(Call, draft.id)
        BY <2>1 DEF ListLoad
    <2> QED BY <2>1, <2>2, LineCalm DEF Quiet
<1>11. CASE RejectLinks
    <2>1. /\ Quiet(Tail(queue), <<>>) /\ Elems(<<>>) = {} /\ Call.kind \in {"links", "link", "unlink"}
          /\ UNCHANGED <<lines, rows, strayed>>
        BY <1>11, RejectLinksQuiet
    <2>2. ~ListLoad(Call, draft.id)
        BY <2>1 DEF ListLoad
    <2> QED BY <2>1, <2>2, LineCalm DEF Quiet
<1>12. CASE \E failed \in BOOLEAN : AnswerLines(failed)
    <2>1. /\ Quiet(Tail(queue), <<>>) /\ Elems(<<>>) = {} /\ Call.kind = "lines" /\ UNCHANGED <<draft, lines, strayed>>
          /\ IF Call.own = draft.id /\ Call.into = "list" THEN faults' = 0 => rows' = LineOf(draft.id)
                                                          ELSE rows' = rows
        BY <1>12, LinesQuiet
    <2>2. LineOf(draft.id)' = LineOf(draft.id)
        BY <2>1 DEF LineOf
    <2> QED BY <2>1, <2>2, LineKept DEF Quiet, ListLoad
<1> QED BY <1>1, <1>2, <1>3, <1>4, <1>5, <1>6, <1>7, <1>8, <1>9, <1>10, <1>11, <1>12 DEF Widgets1

LEMMA LoadsLines ==
    ASSUME TypeInv, UNCHANGED fields, NEW own \in Ids
    PROVE  /\ \A c \in Elems(Loads(own)) : ~StrayLine(c, own)
           /\ HasLines' /\ own # NoId => \E c \in Elems(Loads(own)) : ListLoad(c, own)
<1>1. ListLoad(LoadLines(own, "list"), own)
    BY DEF ListLoad, LoadLines
<1>2. HasLines' = HasLines
    BY DEF HasLines
<1> QED BY <1>1, <1>2, LoadsTyped DEF StrayLine

LEMMA LineAnchor ==
    ASSUME TypeInv, LineInv, Anchored, NEW more, Turn(Tail(queue), more),
           NEW others, \A c \in others : c.kind # "create",
           Elems(more) = others \union (IF Target # draft.id THEN Elems(Loads(Target)) ELSE {})
    PROVE  LineInv'
<1>1. /\ UNCHANGED <<fields, rows, lines, strayed, faults>> /\ Call.kind = "commit" /\ draft' = Seed(Target, Call.body)
      /\ Answering("commit") /\ (Call.id = NoId => HasRoom)
    BY DEF Anchored, Answering
<1>2. Target \in Ids /\ draft'.id = Target
    BY <1>1, WrittenIs DEF Ids
<1>3. \A c \in Elems(more) : ~StrayLine(c, Target)
    BY <1>2, LoadsTyped DEF StrayLine
<1>4. CASE Target = draft.id
    <2>1. ~ListLoad(Call, draft.id)
        BY <1>1 DEF ListLoad
    <2>2. draft'.id = draft.id /\ \A c \in Elems(more) : ~StrayLine(c, draft.id)
        BY <1>2, <1>3, <1>4
    <2> QED BY <1>1, <2>1, <2>2, LineCalm
<1>5. CASE Target # draft.id
    <2>1. HasLines' /\ Target # NoId => \E c \in Elems(more) : ListLoad(c, Target)
        BY <1>1, <1>2, <1>5, LoadsLines
    <2> QED BY <1>2, <1>3, <2>1, LineFresh
<1> QED BY <1>4, <1>5

LEMMA LineSteps ==
    ASSUME TypeInv, LineInv,
           \/ Save \/ ResetForm \/ PressButton \/ PressGenerate \/ AnswerButton \/ AnswerSave \/ RejectCommit \/ Refresh
           \/ (\E failed \in BOOLEAN : AnswerLog(failed) \/ AnswerGenerate(failed))
           \/ (Widgets2 /\ UNCHANGED <<relationVars, pageVars>>)
    PROVE  LineInv'
<1>1. CASE Save
    <2>1. UNCHANGED <<fields, rows, lines, strayed, draft, faults>>
        BY <1>1, SaveStep DEF relationVars
    <2>2. CASE UNCHANGED queue
        BY <2>1, <2>2, SameQueue, LineCalm
    <2>3. CASE ~UNCHANGED queue
        <3>1. PICK c : Turn(queue, <<c>>) /\ Elems(<<c>>) = {c} /\ c.kind = "commit"
            BY <1>1, <2>3, SaveStep
        <3>2. \A d \in Elems(<<c>>) : ~StrayLine(d, draft.id)
            BY <3>1 DEF StrayLine
        <3> QED BY <2>1, <3>1, <3>2, LineCalm
    <2> QED BY <2>2, <2>3
<1>2. CASE ResetForm
    <2>1. UNCHANGED <<fields, rows, lines, strayed, faults>> /\ draft'.id = opened.id
        BY <1>2, ResetStep
    <2>2. PICK more : /\ Turn(queue, more)
                      /\ Elems(more) = IF opened.id # draft.id THEN Elems(Loads(opened.id)) ELSE {}
        BY <1>2, ResetStep
    <2>3. opened.id \in Ids
        BY TypesAre DEF StoreTypeOK, Ids
    <2>4. CASE opened.id = draft.id
        <3>1. Elems(more) = {} /\ draft'.id = draft.id
            BY <2>1, <2>2, <2>4
        <3> QED BY <2>1, <2>2, <3>1, LineCalm
    <2>5. CASE opened.id # draft.id
        <3>1. /\ \A c \in Elems(more) : ~StrayLine(c, draft'.id)
              /\ HasLines' /\ draft'.id # NoId => \E c \in Elems(more) : ListLoad(c, draft'.id)
            BY <2>1, <2>2, <2>3, <2>5, LoadsLines
        <3> QED BY <2>2, <3>1, LineFresh
    <2> QED BY <2>4, <2>5
<1>3. CASE PressButton
    <2>1. UNCHANGED <<fields, rows, lines, strayed, faults>> /\ draft'.id = draft.id
        BY <1>3, PressStep DEF relationVars
    <2>2. PICK c : Turn(queue, <<c>>) /\ Elems(<<c>>) = {c} /\ c.kind = "commit"
        BY <1>3, PressStep
    <2>3. \A d \in Elems(<<c>>) : ~StrayLine(d, draft.id)
        BY <2>2 DEF StrayLine
    <2> QED BY <2>1, <2>2, <2>3, LineCalm
<1>4. CASE PressGenerate
    <2>1. UNCHANGED <<rows, lines, strayed>>
        BY <1>4, PressGenerateQuiet DEF relationVars
    <2>2. PICK c : Quiet(queue, <<c>>) /\ Elems(<<c>>) = {c} /\ c.kind = "generate"
        BY <1>4, PressGenerateQuiet
    <2>3. \A d \in Elems(<<c>>) : ~StrayLine(d, draft.id)
        BY <2>2 DEF StrayLine
    <2> QED BY <2>1, <2>2, <2>3, LineCalm DEF Quiet
<1>5. CASE AnswerButton
    <2>1. PICK more : /\ Turn(Tail(queue), more)
                      /\ Elems(more) = IF Target # draft.id THEN Elems(Loads(Target)) ELSE {}
        BY <1>5, ButtonStep
    <2>2. Anchored
        BY <1>5, ButtonStep
    <2>3. Elems(more) = {} \union (IF Target # draft.id THEN Elems(Loads(Target)) ELSE {})
        BY <2>1
    <2> QED BY <2>1, <2>2, <2>3, LineAnchor
<1>6. CASE AnswerSave
    <2>1. PICK more : /\ Turn(Tail(queue), more)
                      /\ Elems(more) = Elems(LogCalls) \union Elems(FlushCalls)
                                       \union (IF Target # draft.id THEN Elems(Loads(Target)) ELSE {})
        BY <1>6, SavedStep
    <2>2. Anchored /\ Answering("commit")
        BY <1>6, SavedStep DEF Anchored, Answering
    <2>3. \A c \in Elems(LogCalls) : c.kind # "create"
        BY LogOf
    <2>4. ASSUME NEW c \in Elems(FlushCalls) PROVE c.kind # "create"
        <3>1. (\A j : UnlinkCall(j).kind = "unlink") /\ (\A r : LinkCall(Target, r).kind = "link")
            BY DEF UnlinkCall, LinkCall
        <3> QED BY <2>2, <2>4, <3>1, FlushOf
    <2> DEFINE others == Elems(LogCalls) \union Elems(FlushCalls)
    <2>5. \A c \in others : c.kind # "create"
        BY <2>3, <2>4
    <2>6. Elems(more) = others \union (IF Target # draft.id THEN Elems(Loads(Target)) ELSE {})
        BY <2>1
    <2> HIDE DEF others
    <2> QED BY <2>1, <2>2, <2>5, <2>6, LineAnchor
<1>7. CASE RejectCommit
    <2>1. faults' # 0
        BY <1>7, RejectStep
    <2> QED BY <2>1 DEF LineInv
<1>8. CASE Refresh
    <2>1. UNCHANGED <<fields, rows, lines, strayed, faults, queue, draft>>
        BY <1>8, RefreshStep DEF relationVars
    <2> QED BY <2>1, SameQueue, LineCalm
<1>9. CASE \E failed \in BOOLEAN : AnswerLog(failed)
    <2>1. /\ UNCHANGED <<fields, rows, lines, strayed, draft>> /\ Turn(Tail(queue), <<>>) /\ Elems(<<>>) = {}
          /\ IsLog(Call) /\ (faults' = 0 => faults = 0)
        BY <1>9, LogStep DEF relationVars
    <2>2. ~ListLoad(Call, draft.id)
        BY <2>1 DEF IsLog, ListLoad
    <2> QED BY <2>1, <2>2, LineCalm
<1>10. CASE \E failed \in BOOLEAN : AnswerGenerate(failed)
    <2>1. PICK more : /\ Quiet(Tail(queue), more)
                      /\ \A c \in Elems(more) : c = LoadLines(draft.id, "list") /\ draft.id # NoId
                      /\ faults' = 0 /\ draft.id # NoId => LoadLines(draft.id, "list") \in Elems(more)
        BY <1>10, GenerateQuiet
    <2>2. draft'.id = draft.id /\ Turn(Tail(queue), more)
        BY <2>1 DEF Quiet
    <2>3. ListLoad(LoadLines(draft.id, "list"), draft.id) /\ ~StrayLine(LoadLines(draft.id, "list"), draft.id)
        BY DEF ListLoad, LoadLines, StrayLine
    <2> QED BY <2>1, <2>2, <2>3, LineFresh
<1>11. CASE Widgets2 /\ UNCHANGED <<relationVars, pageVars>>
    <2>1. UNCHANGED <<fields, rows, lines, strayed, queue>> /\ draft'.id = draft.id /\ (faults' = 0 => faults = 0)
        BY <1>11, FileStep DEF relationVars
    <2> QED BY <2>1, SameQueue, LineCalm
<1> QED BY <1>1, <1>2, <1>3, <1>4, <1>5, <1>6, <1>7, <1>8, <1>9, <1>10, <1>11

----------------------------------------------------------------------------
(* The tags *)

LEMMA TagParts ==
    ASSUME TypeInv, TagInv, NEW rest, NEW more, Turn(rest, more), UNCHANGED fields,
           faults' = 0 /\ ~muddled' => faults = 0 /\ ~muddled,
           \A c \in Elems(more) : c.kind \in {"link", "unlink"} => c.shown = ~deferred,
           faults' = 0 /\ ~muddled' =>
               /\ deferred => \A c \in Elems(more) : c.kind \notin {"link", "unlink"}
               /\ \A c \in Elems(rest) : c.kind = "links" /\ c.read => RelatedOf(c.own)' = RelatedOf(c.own)
               /\ \A c \in Elems(more) : c.kind = "links" /\ c.read => c.found = RelatedOf(c.own)'
               /\ HasTags /\ draft'.id # NoId => LinksCome(queue', draft'.id, links' = RelatedOf(draft.id)')
    PROVE  TagInv'
<1>1. Elems(queue') = Elems(rest) \union Elems(more) /\ Elems(rest) \subseteq Elems(queue)
    BY TurnElems, KnownTypes
<1>2. deferred' = deferred /\ HasTags' = HasTags
    BY DEF deferred, HasTags
<1>3. ASSUME NEW c \in Elems(queue'), c.kind \in {"link", "unlink"} PROVE c.shown = ~deferred
    BY <1>1, <1>3, Zenon DEF TagInv
<1>4. ASSUME faults' = 0, ~muddled'
      PROVE  /\ deferred => \A c \in Elems(queue') : c.kind \notin {"link", "unlink"}
             /\ \A c \in Elems(queue') : c.kind = "links" /\ c.read => c.found = RelatedOf(c.own)'
             /\ HasTags /\ draft'.id # NoId => LinksCome(queue', draft'.id, links' = RelatedOf(draft.id)')
    <2>1. faults = 0 /\ ~muddled
        BY <1>4
    <2>2. deferred => \A c \in Elems(queue') : c.kind \notin {"link", "unlink"}
        BY <1>1, <1>4, <2>1, Zenon DEF TagInv
    <2>3. ASSUME NEW c \in Elems(queue'), c.kind = "links", c.read PROVE c.found = RelatedOf(c.own)'
        <3>1. CASE c \in Elems(rest)
            BY <1>1, <1>4, <2>1, <2>3, <3>1, Zenon DEF TagInv
        <3>2. CASE c \in Elems(more)
            BY <1>4, <2>3, <3>2, Zenon
        <3> QED BY <1>1, <3>1, <3>2
    <2> QED BY <1>4, <2>2, <2>3, Zenon
<1>5. (faults = 0)' <=> faults' = 0
    OBVIOUS
<1> QED BY <1>2, <1>3, <1>4, Zenon DEF TagInv

LEMMA LinksComeIs ==
    ASSUME NEW q, NEW own, NEW shownNow \in BOOLEAN, NEW U, Elems(q) \subseteq U
    PROVE  LET S == {c \in U : StrayTag(c, own)}
               L == {c \in U : StrayLink(c, own)}
               T == {c \in U : LinkLoad(c, own) /\ ~c.read}
               R == {c \in U : LinkLoad(c, own) /\ c.read}
           IN  LinksCome(q, own, shownNow) <=> \/ shownNow /\ \A c \in Elems(q) : c \notin S /\ c \notin L
                                               \/ Closed(q, S, T)
                                               \/ (\A c \in Elems(q) : c \notin S) /\ Closed(q, L, R)
<1> DEFINE S == {c \in U : StrayTag(c, own)}
           L == {c \in U : StrayLink(c, own)}
           T == {c \in U : LinkLoad(c, own) /\ ~c.read}
           R == {c \in U : LinkLoad(c, own) /\ c.read}
<1>1. \A i \in DOMAIN q : /\ q[i] \in S <=> StrayTag(q[i], own)
                          /\ q[i] \in L <=> StrayLink(q[i], own)
                          /\ q[i] \in T <=> LinkLoad(q[i], own) /\ ~q[i].read
                          /\ q[i] \in R <=> LinkLoad(q[i], own) /\ q[i].read
    BY DEF Elems
<1> HIDE DEF S, L, T, R
<1>2. (\A i \in DOMAIN q : ~StrayTag(q[i], own) /\ ~StrayLink(q[i], own))
        <=> \A c \in Elems(q) : c \notin S /\ c \notin L
    BY <1>1, Zenon DEF Elems
<1>3. (\E k \in DOMAIN q : LinkLoad(q[k], own) /\ ~q[k].read /\ \A i \in DOMAIN q : StrayTag(q[i], own) => i < k)
        <=> Closed(q, S, T)
    BY <1>1, Zenon DEF Closed
<1>4. (\E k \in DOMAIN q : /\ LinkLoad(q[k], own) /\ q[k].read
                           /\ \A i \in DOMAIN q : ~StrayTag(q[i], own) /\ (StrayLink(q[i], own) => i < k))
        <=> (\A c \in Elems(q) : c \notin S) /\ Closed(q, L, R)
    <2>1. (\A i \in DOMAIN q : ~StrayTag(q[i], own)) <=> \A c \in Elems(q) : c \notin S
        BY <1>1, Zenon DEF Elems
    <2>2. (\E k \in DOMAIN q : /\ LinkLoad(q[k], own) /\ q[k].read
                               /\ \A i \in DOMAIN q : ~StrayTag(q[i], own) /\ (StrayLink(q[i], own) => i < k))
            <=> (\A i \in DOMAIN q : ~StrayTag(q[i], own))
                /\ \E k \in DOMAIN q : /\ LinkLoad(q[k], own) /\ q[k].read
                                       /\ \A i \in DOMAIN q : StrayLink(q[i], own) => i < k
        BY Zenon
    <2>3. (\E k \in DOMAIN q : /\ LinkLoad(q[k], own) /\ q[k].read /\ \A i \in DOMAIN q : StrayLink(q[i], own) => i < k)
            <=> Closed(q, L, R)
        BY <1>1, Zenon DEF Closed
    <2> QED BY <2>1, <2>2, <2>3, Zenon
<1> QED BY <1>2, <1>3, <1>4, Zenon DEF LinksCome, S, L, T, R

\* What a step that stays on the record does to the calls the chips wait for.
LEMMA LinksStay ==
    ASSUME TypeInv, NEW own, NEW was \in BOOLEAN, NEW is \in BOOLEAN, LinksCome(queue, own, was),
           NEW rest, NEW more, Turn(rest, more),
           \A c \in Elems(more) : ~StrayTag(c, own) /\ (StrayLink(c, own) => rest # queue /\ StrayTag(Call, own)),
           was /\ (rest = queue \/ (~StrayTag(Call, own) /\ ~StrayLink(Call, own))) => is,
           rest # queue /\ LinkLoad(Call, own) =>
              IF Call.read THEN is ELSE \E c \in Elems(more) : LinkLoad(c, own) /\ c.read
    PROVE  LinksCome(queue', own, is)
<1> DEFINE U == Elems(queue) \union Elems(more)
           S == {c \in U : StrayTag(c, own)}
           L == {c \in U : StrayLink(c, own)}
           T == {c \in U : LinkLoad(c, own) /\ ~c.read}
           R == {c \in U : LinkLoad(c, own) /\ c.read}
<1>1. /\ Elems(queue') = Elems(rest) \union Elems(more) /\ Elems(rest) \subseteq Elems(queue)
      /\ rest = queue \/ Call \in Elems(queue)
    BY TurnElems, KnownTypes
<1>2. Elems(queue) \subseteq U /\ Elems(queue') \subseteq U
    BY <1>1
<1>3. \/ was /\ \A c \in Elems(queue) : c \notin S /\ c \notin L
      \/ Closed(queue, S, T)
      \/ (\A c \in Elems(queue) : c \notin S) /\ Closed(queue, L, R)
    BY <1>2, LinksComeIs
<1>4. (\A c \in Elems(more) : c \notin S) /\ \A c \in Elems(more) : c \in L => rest # queue /\ Call \in S
    BY <1>1
<1>5. /\ was /\ (rest = queue \/ (Call \notin S /\ Call \notin L)) => is
      /\ rest # queue /\ Call \in T => Call \notin S /\ \E c \in Elems(more) : c \in R
      /\ rest # queue /\ Call \in R => is
    <2>1. rest # queue => (Call \in S <=> StrayTag(Call, own)) /\ (Call \in L <=> StrayLink(Call, own))
        BY <1>1
    <2>2. was /\ (rest = queue \/ (Call \notin S /\ Call \notin L)) => is
        BY <2>1
    <2>3. Call \in T => Call \notin S
        BY DEF LinkLoad, StrayTag
    <2>4. rest # queue /\ Call \in T => \E c \in Elems(more) : c \in R
        OBVIOUS
    <2>5. rest # queue /\ Call \in R => is
        OBVIOUS
    <2> QED BY <2>2, <2>3, <2>4, <2>5
<1> HIDE DEF S, L, T, R
<1>6. \/ is /\ \A c \in Elems(queue') : c \notin S /\ c \notin L
      \/ Closed(queue', S, T)
      \/ (\A c \in Elems(queue') : c \notin S) /\ Closed(queue', L, R)
    <2>1. CASE was /\ \A c \in Elems(queue) : c \notin S /\ c \notin L
        BY <1>1, <1>4, <1>5, <2>1, Zenon
    <2>2. CASE Closed(queue, S, T)
        <3>1. \/ Closed(rest, S, T)
              \/ rest # queue /\ Call \in T /\ \A c \in Elems(queue) : c \notin S
            BY <2>2, ClosedLeft, KnownTypes DEF Turn
        <3>2. CASE Closed(rest, S, T)
            BY <1>4, <3>2, ClosedJoined DEF Turn
        <3>3. CASE rest # queue /\ Call \in T /\ \A c \in Elems(queue) : c \notin S
            <4>1. \A c \in Elems(queue') : c \notin S
                BY <1>1, <1>4, <3>3
            <4>2. (\A c \in Elems(more) : c \notin L) /\ \E c \in Elems(more) : c \in R
                BY <1>4, <1>5, <3>3
            <4>3. Closed(queue', L, R)
                BY <4>2, ClosedJoined DEF Turn
            <4> QED BY <4>1, <4>3
        <3> QED BY <3>1, <3>2, <3>3
    <2>3. CASE (\A c \in Elems(queue) : c \notin S) /\ Closed(queue, L, R)
        <3>1. \/ Closed(rest, L, R)
              \/ rest # queue /\ Call \in R /\ \A c \in Elems(queue) : c \notin L
            BY <2>3, ClosedLeft, KnownTypes DEF Turn
        <3>2. \A c \in Elems(more) : c \notin S /\ c \notin L
            BY <1>1, <1>4, <2>3
        <3>3. \A c \in Elems(queue') : c \notin S
            BY <1>1, <2>3, <3>2
        <3>4. CASE Closed(rest, L, R)
            <4>1. Closed(queue', L, R)
                BY <3>2, <3>4, ClosedJoined DEF Turn
            <4> QED BY <3>3, <4>1
        <3>5. CASE rest # queue /\ Call \in R /\ \A c \in Elems(queue) : c \notin L
            <4>1. is /\ \A c \in Elems(queue') : c \notin L
                BY <1>1, <1>5, <3>2, <3>5
            <4> QED BY <3>3, <4>1
        <3> QED BY <3>1, <3>4, <3>5
    <2> QED BY <1>3, <2>1, <2>2, <2>3
<1>7. LinksCome(queue', own, is)
    BY <1>2, <1>6, LinksComeIs DEF S, L, T, R
<1> QED BY <1>7

\* A load that is put behind every call tells the chips.
LEMMA LinksFresh ==
    ASSUME TypeInv, NEW own, NEW is \in BOOLEAN, NEW rest, NEW more, Turn(rest, more),
           \A c \in Elems(more) : ~StrayTag(c, own), \E c \in Elems(more) : LinkLoad(c, own) /\ ~c.read
    PROVE  LinksCome(queue', own, is)
<1> DEFINE U == Elems(queue) \union Elems(more)
           S == {c \in U : StrayTag(c, own)}
           T == {c \in U : LinkLoad(c, own) /\ ~c.read}
<1>1. Elems(queue') \subseteq U
    BY TurnElems, KnownTypes
<1>2. Closed(queue', S, T)
    <2>1. (\A c \in Elems(more) : c \notin S) /\ \E c \in Elems(more) : c \in T
        OBVIOUS
    <2> QED BY <2>1, ClosedJoined DEF Turn
<1> QED BY <1>1, <1>2, LinksComeIs

\* A step that writes and reads no links.
LEMMA TagCalm ==
    ASSUME TypeInv, TagInv, NEW rest, NEW more, Turn(rest, more),
           UNCHANGED <<fields, junctions, links, muddled>>, draft'.id = draft.id, faults' = 0 => faults = 0,
           \A c \in Elems(more) : /\ c.kind \in {"link", "unlink"} => c.shown = ~deferred /\ ~deferred
                                  /\ c.kind # "links" /\ ~StrayTag(c, draft.id)
                                  /\ StrayLink(c, draft.id) => rest # queue /\ StrayTag(Call, draft.id),
           rest # queue => Call.kind # "links"
    PROVE  TagInv'
<1>1. \A own : RelatedOf(own)' = RelatedOf(own)
    BY DEF RelatedOf
<1>2. ASSUME faults' = 0, ~muddled', HasTags, draft'.id # NoId
      PROVE  LinksCome(queue', draft'.id, links' = RelatedOf(draft.id)')
    <2> DEFINE was == (links = RelatedOf(draft.id))
    <2>1. LinksCome(queue, draft.id, was)
        BY <1>2 DEF TagInv
    <2>2. was \in BOOLEAN /\ (links' = RelatedOf(draft.id)') = was
        BY <1>1
    <2> HIDE DEF was
    <2>3. LinksCome(queue', draft.id, was)
        BY <2>1, <2>2, LinksStay DEF LinkLoad
    <2> QED BY <2>2, <2>3
<1> QED BY <1>1, <1>2, TagParts

LEMMA RelatedGrows ==
    ASSUME NEW j, j \notin DOMAIN junctions, NEW own, NEW r,
           DOMAIN junctions' = DOMAIN junctions \union {j}, \A k \in DOMAIN junctions : junctions'[k] = junctions[k],
           junctions'[j].own = own, junctions'[j].related = r
    PROVE  /\ RelatedOf(own)' = Extended(RelatedOf(own), j, r)
           /\ \A other : other # own => RelatedOf(other)' = RelatedOf(other)
<1>1. {k \in DOMAIN junctions' : junctions'[k].own = own} = {k \in DOMAIN junctions : junctions[k].own = own} \union {j}
    OBVIOUS
<1>2. RelatedOf(own)' = [k \in DOMAIN RelatedOf(own) \union {j} |-> IF k = j THEN r ELSE RelatedOf(own)[k]]
    BY <1>1 DEF RelatedOf
<1>3. ASSUME NEW other, other # own PROVE RelatedOf(other)' = RelatedOf(other)
    <2>1. {k \in DOMAIN junctions' : junctions'[k].own = other} = {k \in DOMAIN junctions : junctions[k].own = other}
        BY <1>3
    <2> QED BY <2>1 DEF RelatedOf
<1> QED BY <1>2, <1>3 DEF Extended

LEMMA RelatedShrinks ==
    ASSUME NEW j, NEW own,
           DOMAIN junctions' = DOMAIN junctions \ {j}, \A k \in DOMAIN junctions' : junctions'[k] = junctions[k]
    PROVE  RelatedOf(own)' = [k \in DOMAIN RelatedOf(own) \ {j} |-> RelatedOf(own)[k]]
<1>1. {k \in DOMAIN junctions' : junctions'[k].own = own} = {k \in DOMAIN junctions : junctions[k].own = own} \ {j}
    OBVIOUS
<1> QED BY <1>1 DEF RelatedOf

LEMMA TagAnswers ==
    ASSUME TypeInv, TagInv, AnswerLinks \/ AnswerLink \/ AnswerUnlink \/ RejectLinks, Elsewhere
    PROVE  TagInv'
<1>1. CASE AnswerLinks
    <2>1. queue # <<>> /\ Call.kind = "links" /\ UNCHANGED <<draft, junctions, muddled>>
        BY <1>1, LinksQuiet
    <2>2. Call \in Elems(queue) /\ Tail(queue) # queue
        BY <2>1, Answered
    <2>3. (\A own : RelatedOf(own)' = RelatedOf(own)) /\ RelatedOf(draft.id)' = RelatedOf(draft.id)
        BY <2>1 DEF RelatedOf
    <2> DEFINE was == (links = RelatedOf(draft.id))
               is == (links' = RelatedOf(draft.id)')
    <2>4. was \in BOOLEAN /\ is \in BOOLEAN
        OBVIOUS
    <2>5. ASSUME faults = 0, ~muddled, HasTags, draft.id # NoId PROVE LinksCome(queue, draft.id, was)
        BY <2>5 DEF TagInv
    <2>6. CASE Call.read
        <3>1. Quiet(Tail(queue), <<>>) /\ Elems(<<>>) = {} /\ links' = IF Call.own = draft.id THEN Call.found ELSE links
            BY <1>1, <2>6, LinksQuiet
        <3>2. was => Call.own = draft.id \/ is
            BY <2>3, <3>1
        <3>3. ASSUME faults = 0, ~muddled, Call.own = draft.id PROVE is
            <4>1. Call.found = RelatedOf(Call.own)
                BY <2>1, <2>2, <2>6, <3>3 DEF TagInv
            <4> QED BY <2>3, <3>1, <3>3, <4>1
        <3> HIDE DEF was, is
        <3>4. ASSUME faults' = 0, ~muddled', HasTags, draft.id # NoId PROVE LinksCome(queue', draft.id, is)
            <4>1. faults = 0 /\ ~muddled
                BY <2>1, <3>1, <3>4 DEF Quiet
            <4>2. LinksCome(queue, draft.id, was)
                BY <2>5, <3>4, <4>1
            <4>3. was => is
                BY <3>2, <3>3, <4>1
            <4> QED BY <2>4, <2>6, <3>1, <3>3, <4>1, <4>2, <4>3, LinksStay DEF LinkLoad, Quiet
        <3>5. Turn(Tail(queue), <<>>) /\ UNCHANGED fields /\ draft'.id = draft.id /\ (faults' = 0 => faults = 0)
            BY <3>1 DEF Quiet
        <3> QED BY <2>1, <2>3, <3>1, <3>4, <3>5, TagParts DEF is
    <2>7. CASE ~Call.read
        <3>1. links' = links
            BY <1>1, <2>7, LinksQuiet
        <3>2. PICK c : /\ Quiet(Tail(queue), <<c>>) /\ Elems(<<c>>) = {c}
                       /\ c.kind = "links" /\ c.own = Call.own /\ c.read /\ c.found = RelatedOf(Call.own)
            BY <1>1, <2>7, LinksQuiet
        <3>3. was => is
            BY <2>3, <3>1
        <3> HIDE DEF was, is
        <3>4. Turn(Tail(queue), <<c>>) /\ UNCHANGED fields /\ draft'.id = draft.id /\ (faults' = 0 => faults = 0)
            BY <3>2 DEF Quiet
        <3>5. ASSUME faults' = 0, ~muddled', HasTags, draft.id # NoId PROVE LinksCome(queue', draft.id, is)
            <4>1. LinksCome(queue, draft.id, was)
                BY <2>1, <2>5, <3>4, <3>5
            <4>2. /\ \A d \in Elems(<<c>>) : ~StrayTag(d, draft.id) /\ ~StrayLink(d, draft.id)
                  /\ LinkLoad(Call, draft.id) => \E d \in Elems(<<c>>) : LinkLoad(d, draft.id) /\ d.read
                BY <3>2 DEF StrayTag, StrayLink, LinkLoad
            <4> QED BY <2>4, <2>7, <3>3, <3>4, <4>1, <4>2, LinksStay
        <3>6. \A d \in Elems(<<c>>) : d.kind = "links" /\ d.found = RelatedOf(d.own)'
            BY <2>3, <3>2
        <3> QED BY <2>1, <2>3, <3>4, <3>5, <3>6, TagParts DEF is
    <2> QED BY <2>6, <2>7
<1>2. CASE AnswerLink
    <2>1. /\ Quiet(Tail(queue), <<>>) /\ Elems(<<>>) = {} /\ queue # <<>> /\ Call.kind = "link" /\ UNCHANGED draft
          /\ nextLink' \notin DOMAIN junctions
          /\ DOMAIN junctions' = DOMAIN junctions \union {nextLink'}
          /\ \A j \in DOMAIN junctions : junctions'[j] = junctions[j]
          /\ junctions'[nextLink'].own = Call.own /\ junctions'[nextLink'].related = Call.related
          /\ links' = LinkShown(nextLink', Call.related)
          /\ muddled' = (muddled \/ Reading)
        BY <1>2, LinkQuiet
    <2>2. Call \in Elems(queue) /\ Tail(queue) # queue /\ Elems(Tail(queue)) \subseteq Elems(queue)
        BY <2>1, Answered
    <2>3. RelatedOf(draft.id)' = IF Call.own = draft.id THEN Extended(RelatedOf(draft.id), nextLink', Call.related)
                                                        ELSE RelatedOf(draft.id)
        <3>1. PICK j, mine, r, own : j = nextLink' /\ mine = Call.own /\ r = Call.related /\ own = draft.id
            OBVIOUS
        <3>2. /\ RelatedOf(mine)' = Extended(RelatedOf(mine), j, r)
              /\ \A other : other # mine => RelatedOf(other)' = RelatedOf(other)
            BY <2>1, <3>1, RelatedGrows
        <3>3. RelatedOf(own)' = IF mine = own THEN Extended(RelatedOf(own), j, r) ELSE RelatedOf(own)
            BY <3>2
        <3>4. RelatedOf(draft.id)' = RelatedOf(own)'
            BY <2>1, <3>1 DEF RelatedOf
        <3> QED BY <3>1, <3>3, <3>4
    <2>4. ASSUME faults' = 0, ~muddled'
          PROVE  /\ faults = 0 /\ ~muddled /\ ~deferred
                 /\ \A c \in Elems(queue) : ~(c.kind = "links" /\ c.read)
        <3>1. faults = 0 /\ ~muddled /\ ~Reading
            BY <2>1, <2>4 DEF Quiet
        <3>2. ~deferred
            BY <2>1, <2>2, <3>1 DEF TagInv
        <3>3. \A c \in Elems(queue) : ~(c.kind = "links" /\ c.read)
            BY <3>1 DEF Reading, Elems
        <3> QED BY <3>1, <3>2, <3>3
    <2>5. ASSUME faults' = 0, ~muddled', HasTags, draft.id # NoId
          PROVE  LinksCome(queue', draft.id, links' = RelatedOf(draft.id)')
        <3> DEFINE was == (links = RelatedOf(draft.id))
                   is == (links' = RelatedOf(draft.id)')
        <3>1. LinksCome(queue, draft.id, was)
            BY <2>4, <2>5 DEF TagInv
        <3>2. ASSUME was, ~StrayLink(Call, draft.id) PROVE is
            <4>1. Call.own = draft.id
                BY <2>1, <3>2 DEF StrayLink
            <4>2. Call.shown
                BY <2>1, <2>2, <2>4, <2>5 DEF TagInv
            <4>3. links' = Extended(links, nextLink', Call.related)
                BY <2>1, <4>2 DEF LinkShown
            <4> QED BY <2>3, <3>2, <4>1, <4>3
        <3>3. was \in BOOLEAN /\ is \in BOOLEAN /\ ~LinkLoad(Call, draft.id)
            BY <2>1 DEF LinkLoad
        <3> HIDE DEF was, is
        <3>4. LinksCome(queue', draft.id, is)
            BY <2>1, <2>2, <3>1, <3>2, <3>3, LinksStay DEF Quiet
        <3> QED BY <3>4 DEF is
    <2>6. Turn(Tail(queue), <<>>) /\ UNCHANGED fields /\ draft'.id = draft.id
        BY <2>1 DEF Quiet
    <2> QED BY <2>1, <2>2, <2>4, <2>5, <2>6, TagParts
<1>3. CASE AnswerUnlink
    <2>1. /\ Quiet(Tail(queue), <<>>) /\ Elems(<<>>) = {} /\ queue # <<>> /\ Call.kind = "unlink" /\ UNCHANGED draft
          /\ DOMAIN junctions' = DOMAIN junctions \ {Call.link}
          /\ \A j \in DOMAIN junctions' : junctions'[j] = junctions[j]
          /\ links' = IF Call.shown THEN [j \in DOMAIN links \ {Call.link} |-> links[j]] ELSE links
          /\ muddled' = (muddled \/ Reading)
        BY <1>3, UnlinkQuiet
    <2>2. Call \in Elems(queue) /\ Tail(queue) # queue /\ Elems(Tail(queue)) \subseteq Elems(queue)
        BY <2>1, Answered
    <2>3. RelatedOf(draft.id)' = [k \in DOMAIN RelatedOf(draft.id) \ {Call.link} |-> RelatedOf(draft.id)[k]]
        <3>1. PICK j, own : j = Call.link /\ own = draft.id
            OBVIOUS
        <3>2. RelatedOf(own)' = [k \in DOMAIN RelatedOf(own) \ {j} |-> RelatedOf(own)[k]]
            <4>1. DOMAIN junctions' = DOMAIN junctions \ {j} /\ \A k \in DOMAIN junctions' : junctions'[k] = junctions[k]
                BY <2>1, <3>1
            <4> QED BY <4>1, RelatedShrinks
        <3>3. RelatedOf(draft.id)' = RelatedOf(own)'
            BY <2>1, <3>1 DEF RelatedOf
        <3> QED BY <3>1, <3>2, <3>3
    <2>4. ASSUME faults' = 0, ~muddled'
          PROVE  /\ faults = 0 /\ ~muddled /\ ~deferred
                 /\ \A c \in Elems(queue) : ~(c.kind = "links" /\ c.read)
        <3>1. faults = 0 /\ ~muddled /\ ~Reading
            BY <2>1, <2>4 DEF Quiet
        <3>2. ~deferred
            BY <2>1, <2>2, <3>1 DEF TagInv
        <3>3. \A c \in Elems(queue) : ~(c.kind = "links" /\ c.read)
            BY <3>1 DEF Reading, Elems
        <3> QED BY <3>1, <3>2, <3>3
    <2>5. ASSUME faults' = 0, ~muddled', HasTags, draft.id # NoId
          PROVE  LinksCome(queue', draft.id, links' = RelatedOf(draft.id)')
        <3> DEFINE was == (links = RelatedOf(draft.id))
                   is == (links' = RelatedOf(draft.id)')
        <3>1. LinksCome(queue, draft.id, was)
            BY <2>4, <2>5 DEF TagInv
        <3>2. ASSUME was PROVE is
            <4>2. Call.shown
                BY <2>1, <2>2, <2>4, <2>5 DEF TagInv
            <4>3. links' = [j \in DOMAIN links \ {Call.link} |-> links[j]]
                BY <2>1, <4>2
            <4> QED BY <2>3, <3>2, <4>3
        <3>3. was \in BOOLEAN /\ is \in BOOLEAN /\ ~LinkLoad(Call, draft.id)
            BY <2>1 DEF LinkLoad
        <3> HIDE DEF was, is
        <3>4. LinksCome(queue', draft.id, is)
            BY <2>1, <2>2, <3>1, <3>2, <3>3, LinksStay DEF Quiet
        <3> QED BY <3>4 DEF is
    <2>6. Turn(Tail(queue), <<>>) /\ UNCHANGED fields /\ draft'.id = draft.id
        BY <2>1 DEF Quiet
    <2> QED BY <2>1, <2>2, <2>4, <2>5, <2>6, TagParts
<1>4. CASE RejectLinks
    <2>1. Quiet(Tail(queue), <<>>) /\ Elems(<<>>) = {} /\ muddled' = TRUE
        BY <1>4, RejectLinksQuiet
    <2>2. Turn(Tail(queue), <<>>) /\ UNCHANGED fields
        BY <2>1 DEF Quiet
    <2> QED BY <2>1, <2>2, TagParts
<1> QED BY <1>1, <1>2, <1>3, <1>4

LEMMA TagWidgets ==
    ASSUME TypeInv, TagInv, Widgets1, Elsewhere
    PROVE  TagInv'
<1>1. CASE PickRef \/ ClearRef
    <2>1. Quiet(queue, <<>>) /\ UNCHANGED <<junctions, links, muddled>> /\ Elems(<<>>) = {}
        BY <1>1, RefQuiet, Nothing DEF PickRef, ClearRef, relationVars, tagVars
    <2> QED BY <2>1, TagCalm DEF Quiet
<1>2. CASE AddTag
    <2>1. PICK more : /\ Quiet(queue, more)
                      /\ \A c \in Elems(more) : ~deferred /\ \E r : c = LinkCall(draft.id, r)
        BY <1>2, AddTagQuiet
    <2>2. \A c \in Elems(more) : /\ c.kind = "link" /\ c.shown = ~deferred /\ ~deferred
                                 /\ ~StrayTag(c, draft.id) /\ ~StrayLink(c, draft.id)
        BY <2>1 DEF LinkCall, StrayTag, StrayLink
    <2>3. UNCHANGED <<junctions, links, muddled>>
        BY <1>2, AddTagQuiet DEF relationVars, tagVars
    <2> QED BY <2>1, <2>2, <2>3, TagCalm DEF Quiet
<1>3. CASE UnlinkTag
    <2>1. PICK more : /\ Quiet(queue, more)
                      /\ \A c \in Elems(more) : ~deferred /\ \E j \in DOMAIN links : c = UnlinkCall(j)
        BY <1>3, UnlinkTagQuiet
    <2>2. \A c \in Elems(more) : /\ c.kind = "unlink" /\ c.shown = ~deferred /\ ~deferred
                                 /\ ~StrayTag(c, draft.id) /\ ~StrayLink(c, draft.id)
        BY <2>1 DEF UnlinkCall, StrayTag, StrayLink
    <2>3. UNCHANGED <<junctions, links, muddled>>
        BY <1>3, UnlinkTagQuiet DEF relationVars, tagVars
    <2> QED BY <2>1, <2>2, <2>3, TagCalm DEF Quiet
<1>4. CASE CloseDialog \/ \E w \in Pickers : OpenDialog(w)
    <2>1. Quiet(queue, <<>>) /\ UNCHANGED <<junctions, links, muddled>> /\ Elems(<<>>) = {}
        BY <1>4, DialogQuiet, Nothing DEF tagVars
    <2> QED BY <2>1, TagCalm DEF Quiet
<1>5. CASE SubmitDialog
    <2>1. PICK c : /\ Quiet(queue, <<c>>) /\ Elems(<<c>>) = {c} /\ c.kind = "create"
                   /\ c.of # "line" => c.own = draft.id
        BY <1>5, SubmitQuiet
    <2>2. \A d \in Elems(<<c>>) : d.kind = "create" /\ ~StrayTag(d, draft.id) /\ ~StrayLink(d, draft.id)
        BY <2>1 DEF StrayTag, StrayLink
    <2>3. UNCHANGED <<junctions, links, muddled>>
        BY <1>5, SubmitQuiet DEF tagVars
    <2> QED BY <2>1, <2>2, <2>3, TagCalm DEF Quiet
<1>6. CASE AnswerCreate
    <2>1. PICK more : /\ Quiet(Tail(queue), more)
                      /\ \A c \in Elems(more) : ~deferred /\ Call.of = "tag" /\ \E r : c = LinkCall(Call.own, r)
        BY <1>6, CreateQuiet
    <2>2. queue # <<>> /\ Call.kind = "create" /\ UNCHANGED <<junctions, links, muddled>>
        BY <1>6, CreateQuiet DEF tagVars
    <2>3. Tail(queue) # queue
        BY <2>2, Answered
    <2>4. \A c \in Elems(more) : /\ c.kind = "link" /\ c.shown = ~deferred /\ ~deferred /\ ~StrayTag(c, draft.id)
                                 /\ StrayLink(c, draft.id) => StrayTag(Call, draft.id)
        BY <2>1, <2>2 DEF LinkCall, StrayTag, StrayLink
    <2> QED BY <2>1, <2>2, <2>3, <2>4, TagCalm DEF Quiet
<1>7. CASE RejectCreate
    <2>1. /\ Quiet(Tail(queue), <<>>) /\ Elems(<<>>) = {} /\ Call.kind = "create"
          /\ UNCHANGED <<junctions, links, muddled>>
        BY <1>7, RejectCreateQuiet DEF tagVars
    <2> QED BY <2>1, TagCalm DEF Quiet
<1>8. CASE AnswerLinks \/ AnswerLink \/ AnswerUnlink \/ RejectLinks
    BY <1>8, TagAnswers
<1>9. CASE \E failed \in BOOLEAN : AnswerLines(failed)
    <2>1. /\ Quiet(Tail(queue), <<>>) /\ Elems(<<>>) = {} /\ Call.kind = "lines"
          /\ UNCHANGED <<junctions, links, muddled>>
        BY <1>9, LinesQuiet DEF tagVars
    <2> QED BY <2>1, TagCalm DEF Quiet
<1> QED BY <1>1, <1>2, <1>3, <1>4, <1>5, <1>6, <1>7, <1>8, <1>9 DEF Widgets1

LEMMA LoadsLinks ==
    ASSUME TypeInv, UNCHANGED fields, NEW own \in Ids
    PROVE  /\ \A c \in Elems(Loads(own)) : ~StrayTag(c, own) /\ ~(c.kind = "links" /\ c.read)
                                           /\ c.kind \notin {"link", "unlink"}
           /\ HasTags' /\ own # NoId => \E c \in Elems(Loads(own)) : LinkLoad(c, own) /\ ~c.read
<1>1. LinkLoad(LoadLinks(own), own) /\ ~LoadLinks(own).read
    BY DEF LinkLoad, LoadLinks
<1>2. HasTags' = HasTags
    BY DEF HasTags
<1>3. ASSUME NEW c \in Elems(Loads(own)), c.kind = "links" PROVE ~c.read
    BY <1>1, <1>3, LoadsTyped
<1>4. \A c \in Elems(Loads(own)) : c.kind \in {"links", "lines"}
    BY LoadsTyped
<1>5. own # NoId /\ HasTags => LoadLinks(own) \in Elems(Loads(own))
    BY LoadsTyped
<1> QED BY <1>1, <1>2, <1>3, <1>4, <1>5 DEF StrayTag

LEMMA TagAnchor ==
    ASSUME TypeInv, TagInv, Anchored, faults' = 0 /\ ~muddled' => ~muddled, NEW more, Turn(Tail(queue), more),
           NEW others, \A c \in others : /\ c.kind \notin {"create", "links"}
                                         /\ c.kind \in {"link", "unlink"} => c.shown = ~deferred
                                         /\ ~muddled' => c.kind \notin {"link", "unlink"},
           Elems(more) = others \union (IF Target # draft.id THEN Elems(Loads(Target)) ELSE {})
    PROVE  TagInv'
<1>1. /\ UNCHANGED <<fields, junctions, links, faults>> /\ Call.kind = "commit" /\ draft' = Seed(Target, Call.body)
      /\ Answering("commit") /\ (Call.id = NoId => HasRoom)
    BY DEF Anchored, Answering
<1>2. Target \in Ids /\ draft'.id = Target
    BY <1>1, WrittenIs DEF Ids
<1>3. \A c \in Elems(more) : /\ ~StrayTag(c, Target) /\ ~(c.kind = "links" /\ c.read)
                             /\ c.kind \in {"link", "unlink"} => c \in others
    BY <1>1, <1>2, LoadsLinks DEF StrayTag
<1>4. \A own : RelatedOf(own)' = RelatedOf(own)
    BY <1>1 DEF RelatedOf
<1>5. ASSUME faults' = 0, ~muddled', HasTags, draft'.id # NoId
      PROVE  LinksCome(queue', draft'.id, links' = RelatedOf(draft.id)')
    <2> DEFINE was == (links = RelatedOf(draft.id))
               is == (links' = RelatedOf(draft.id)')
    <2>1. was \in BOOLEAN /\ is \in BOOLEAN
        OBVIOUS
    <2>2. CASE Target = draft.id
        <3>1. LinksCome(queue, draft.id, was)
            BY <1>1, <1>2, <1>5, <2>2 DEF TagInv
        <3>2. RelatedOf(draft.id)' = RelatedOf(draft.id)
            BY <1>1, <1>2, <2>2 DEF RelatedOf
        <3>3. was => is
            BY <1>1, <3>2
        <3>4. ~LinkLoad(Call, draft.id) /\ \A c \in Elems(more) : ~StrayTag(c, draft.id) /\ ~StrayLink(c, draft.id)
            <4>1. \A c \in Elems(more) : c.kind # "link"
                BY <1>3, <1>5
            <4> QED BY <1>1, <1>3, <2>2, <4>1 DEF StrayLink, LinkLoad
        <3> HIDE DEF was, is
        <3>5. LinksCome(queue', draft.id, is)
            BY <2>1, <3>1, <3>3, <3>4, LinksStay
        <3> QED BY <1>2, <2>2, <3>5 DEF is
    <2>3. CASE Target # draft.id
        <3>1. \E c \in Elems(more) : LinkLoad(c, Target) /\ ~c.read
            <4>1. HasTags'
                BY <1>1, <1>5 DEF HasTags
            <4> QED BY <1>1, <1>2, <1>5, <2>3, <4>1, LoadsLinks
        <3> HIDE DEF was, is
        <3>2. LinksCome(queue', Target, is)
            BY <1>3, <2>1, <3>1, LinksFresh
        <3> QED BY <1>2, <3>2 DEF is
    <2> QED BY <2>2, <2>3
<1>6. \A c \in Elems(more) : c.kind \in {"link", "unlink"} => c.shown = ~deferred
    BY <1>3
<1>7. ~muddled' => \A c \in Elems(more) : c.kind \notin {"link", "unlink"}
    BY <1>3
<1> QED BY <1>1, <1>3, <1>4, <1>5, <1>6, <1>7, TagParts

LEMMA FlushCalm ==
    ASSUME TypeInv, Answering("commit")
    PROVE  /\ \A c \in Elems(FlushCalls) : c.kind \in {"link", "unlink"} /\ c.shown = ~deferred
           /\ ~(deferred /\ Call.staged # NothingStaged) => Elems(FlushCalls) = {}
<1>1. /\ \A j : UnlinkCall(j).kind = "unlink" /\ UnlinkCall(j).shown = ~deferred
      /\ \A r : LinkCall(Target, r).kind = "link" /\ LinkCall(Target, r).shown = ~deferred
    BY DEF UnlinkCall, LinkCall
<1>2. \A c \in Elems(FlushCalls) : c.kind \in {"link", "unlink"} /\ c.shown = ~deferred
    BY <1>1, FlushOf
<1>3. ASSUME ~(deferred /\ Call.staged # NothingStaged) PROVE Elems(FlushCalls) = {}
    <2>1. CASE ~deferred
        BY <2>1, FlushOf
    <2>2. CASE deferred
        <3>1. Call.staged.toUnlink = {} /\ Call.staged.toLink = {}
            BY <1>3, <2>2 DEF NothingStaged
        <3> QED BY <2>2, <3>1, FlushOf
    <2> QED BY <2>1, <2>2
<1> QED BY <1>2, <1>3

LEMMA TagSteps ==
    ASSUME TypeInv, TagInv,
           \/ Save \/ ResetForm \/ PressButton \/ PressGenerate \/ AnswerButton \/ AnswerSave \/ RejectCommit \/ Refresh
           \/ (\E failed \in BOOLEAN : AnswerLog(failed) \/ AnswerGenerate(failed))
           \/ (Widgets2 /\ UNCHANGED <<relationVars, pageVars>>)
    PROVE  TagInv'
<1>1. CASE Save
    <2>1. UNCHANGED <<fields, junctions, links, muddled, draft, faults>>
        BY <1>1, SaveStep DEF relationVars, tagVars
    <2>2. CASE UNCHANGED queue
        BY <2>1, <2>2, SameQueue, TagCalm
    <2>3. CASE ~UNCHANGED queue
        <3>1. PICK c : Turn(queue, <<c>>) /\ Elems(<<c>>) = {c} /\ c.kind = "commit"
            BY <1>1, <2>3, SaveStep
        <3>2. \A d \in Elems(<<c>>) : d.kind = "commit" /\ ~StrayTag(d, draft.id) /\ ~StrayLink(d, draft.id)
            BY <3>1 DEF StrayTag, StrayLink
        <3> QED BY <2>1, <3>1, <3>2, TagCalm
    <2> QED BY <2>2, <2>3
<1>2. CASE ResetForm
    <2>1. UNCHANGED <<fields, junctions, links, muddled, faults>> /\ draft'.id = opened.id
        BY <1>2, ResetStep DEF tagVars
    <2>2. PICK more : /\ Turn(queue, more)
                      /\ Elems(more) = IF opened.id # draft.id THEN Elems(Loads(opened.id)) ELSE {}
        BY <1>2, ResetStep
    <2>3. opened.id \in Ids
        BY TypesAre DEF StoreTypeOK, Ids
    <2>4. CASE opened.id = draft.id
        <3>1. Elems(more) = {} /\ draft'.id = draft.id
            BY <2>1, <2>2, <2>4
        <3> QED BY <2>1, <2>2, <3>1, TagCalm
    <2>5. CASE opened.id # draft.id
        <3>1. /\ \A c \in Elems(more) : ~StrayTag(c, draft'.id) /\ ~(c.kind = "links" /\ c.read)
                                        /\ c.kind \notin {"link", "unlink"}
              /\ HasTags' /\ draft'.id # NoId => \E c \in Elems(more) : LinkLoad(c, draft'.id) /\ ~c.read
            BY <2>1, <2>2, <2>3, <2>5, LoadsLinks
        <3>2. \A own : RelatedOf(own)' = RelatedOf(own)
            BY <2>1 DEF RelatedOf
        <3>3. HasTags' = HasTags /\ (links' = RelatedOf(draft.id)') \in BOOLEAN
            BY <2>1 DEF HasTags
        <3>4. HasTags /\ draft'.id # NoId => LinksCome(queue', draft'.id, links' = RelatedOf(draft.id)')
            BY <2>2, <3>1, <3>3, LinksFresh
        <3> QED BY <2>1, <2>2, <3>1, <3>2, <3>4, TagParts
    <2> QED BY <2>4, <2>5
<1>3. CASE PressButton
    <2>1. UNCHANGED <<fields, junctions, links, muddled, faults>> /\ draft'.id = draft.id
        BY <1>3, PressStep DEF relationVars, tagVars
    <2>2. PICK c : Turn(queue, <<c>>) /\ Elems(<<c>>) = {c} /\ c.kind = "commit"
        BY <1>3, PressStep
    <2>3. \A d \in Elems(<<c>>) : d.kind = "commit" /\ ~StrayTag(d, draft.id) /\ ~StrayLink(d, draft.id)
        BY <2>2 DEF StrayTag, StrayLink
    <2> QED BY <2>1, <2>2, <2>3, TagCalm
<1>4. CASE PressGenerate
    <2>1. UNCHANGED <<junctions, links, muddled>>
        BY <1>4, PressGenerateQuiet DEF relationVars, tagVars
    <2>2. PICK c : Quiet(queue, <<c>>) /\ Elems(<<c>>) = {c} /\ c.kind = "generate"
        BY <1>4, PressGenerateQuiet
    <2>3. \A d \in Elems(<<c>>) : d.kind = "generate" /\ ~StrayTag(d, draft.id) /\ ~StrayLink(d, draft.id)
        BY <2>2 DEF StrayTag, StrayLink
    <2> QED BY <2>1, <2>2, <2>3, TagCalm DEF Quiet
<1>5. CASE AnswerButton
    <2>1. PICK more : /\ Turn(Tail(queue), more)
                      /\ Elems(more) = IF Target # draft.id THEN Elems(Loads(Target)) ELSE {}
        BY <1>5, ButtonStep
    <2>2. Anchored /\ UNCHANGED muddled
        BY <1>5, ButtonStep
    <2>3. Elems(more) = {} \union (IF Target # draft.id THEN Elems(Loads(Target)) ELSE {})
        BY <2>1
    <2> QED BY <2>1, <2>2, <2>3, TagAnchor
<1>6. CASE AnswerSave
    <2>1. PICK more : /\ Turn(Tail(queue), more)
                      /\ Elems(more) = Elems(LogCalls) \union Elems(FlushCalls)
                                       \union (IF Target # draft.id THEN Elems(Loads(Target)) ELSE {})
        BY <1>6, SavedStep
    <2>2. /\ Anchored /\ Answering("commit")
          /\ ~muddled' => ~muddled /\ ~(deferred /\ Call.staged # NothingStaged)
        BY <1>6, SavedStep DEF Anchored, Answering
    <2>3. \A c \in Elems(LogCalls) : c.kind = "log"
        BY LogOf
    <2>4. /\ \A c \in Elems(FlushCalls) : c.kind \in {"link", "unlink"} /\ c.shown = ~deferred
          /\ ~muddled' => Elems(FlushCalls) = {}
        BY <2>2, FlushCalm
    <2> DEFINE others == Elems(LogCalls) \union Elems(FlushCalls)
    <2>5. \A c \in others : /\ c.kind \notin {"create", "links"}
                            /\ c.kind \in {"link", "unlink"} => c.shown = ~deferred
                            /\ ~muddled' => c.kind \notin {"link", "unlink"}
        BY <2>3, <2>4
    <2>6. Elems(more) = others \union (IF Target # draft.id THEN Elems(Loads(Target)) ELSE {})
        BY <2>1
    <2> HIDE DEF others
    <2> QED BY <2>1, <2>2, <2>5, <2>6, TagAnchor
<1>7. CASE RejectCommit
    <2>1. /\ faults' # 0 /\ UNCHANGED fields /\ Turn(Tail(queue), <<>>) /\ Elems(<<>>) = {}
        BY <1>7, RejectStep
    <2> QED BY <2>1, TagParts
<1>8. CASE Refresh
    <2>1. UNCHANGED <<fields, junctions, links, muddled, faults, queue, draft>>
        BY <1>8, RefreshStep DEF relationVars, tagVars
    <2> QED BY <2>1, SameQueue, TagCalm
<1>9. CASE \E failed \in BOOLEAN : AnswerLog(failed)
    <2>1. /\ UNCHANGED <<fields, junctions, links, muddled, draft>> /\ Turn(Tail(queue), <<>>) /\ Elems(<<>>) = {}
          /\ IsLog(Call) /\ (faults' = 0 => faults = 0)
        BY <1>9, LogStep DEF relationVars, tagVars
    <2> QED BY <2>1, TagCalm DEF IsLog
<1>10. CASE \E failed \in BOOLEAN : AnswerGenerate(failed)
    <2>1. UNCHANGED <<junctions, links, muddled>> /\ Call.kind = "generate"
        BY <1>10, GenerateQuiet DEF tagVars
    <2>2. PICK more : Quiet(Tail(queue), more) /\ \A c \in Elems(more) : c = LoadLines(draft.id, "list")
        BY <1>10, GenerateQuiet
    <2>3. \A c \in Elems(more) : c.kind = "lines" /\ ~StrayTag(c, draft.id) /\ ~StrayLink(c, draft.id)
        BY <2>2 DEF LoadLines, StrayTag, StrayLink
    <2> QED BY <2>1, <2>2, <2>3, TagCalm DEF Quiet
<1>11. CASE Widgets2 /\ UNCHANGED <<relationVars, pageVars>>
    <2>1. UNCHANGED <<fields, junctions, links, muddled, queue>> /\ draft'.id = draft.id /\ (faults' = 0 => faults = 0)
        BY <1>11, FileStep DEF relationVars, tagVars
    <2> QED BY <2>1, SameQueue, TagCalm
<1> QED BY <1>1, <1>2, <1>3, <1>4, <1>5, <1>6, <1>7, <1>8, <1>9, <1>10, <1>11

----------------------------------------------------------------------------
(* The rows that are known, or staged to go *)

KnownCall(c, n) ==
    /\ c.kind = "links" => DOMAIN c.found \subseteq 1..n
    /\ c.kind \in {"commit", "create"} => c.staged.toUnlink \subseteq 1..n
    /\ c.kind = "unlink" => c.link \in 1..n

LEMMA KnownKept ==
    ASSUME TypeInv, KnownInv, NEW rest, NEW more, Turn(rest, more), nextLink' \in {nextLink, nextLink + 1},
           DOMAIN links' \subseteq 1..nextLink', draft'.staged.toUnlink \subseteq 1..nextLink',
           \A c \in Elems(more) : KnownCall(c, nextLink')
    PROVE  KnownInv'
<1>1. Elems(queue') = Elems(rest) \union Elems(more) /\ Elems(rest) \subseteq Elems(queue)
    BY TurnElems, KnownTypes
<1>2. 1..nextLink \subseteq 1..nextLink'
    <2>1. nextLink \in Nat
        BY FormConstants, LinksTyped
    <2> QED BY <2>1
<1>3. ASSUME NEW c \in Elems(queue') PROVE KnownCall(c, nextLink')
    <2>1. CASE c \in Elems(more)
        BY <2>1
    <2>2. CASE c \in Elems(queue)
        <3>1. KnownCall(c, nextLink)
            BY <2>2 DEF KnownInv, KnownCall
        <3> HIDE DEF KnownInv
        <3> QED BY <1>2, <3>1 DEF KnownCall
    <2> QED BY <1>1, <2>1, <2>2
<1> QED BY <1>3 DEF KnownInv, KnownCall

LEMMA KnownCalm ==
    ASSUME TypeInv, KnownInv, NEW rest, NEW more, Turn(rest, more), UNCHANGED <<nextLink, links>>,
           draft'.staged.toUnlink \subseteq 1..nextLink, \A c \in Elems(more) : KnownCall(c, nextLink)
    PROVE  KnownInv'
<1>1. DOMAIN links \subseteq 1..nextLink
    BY DEF KnownInv
<1> QED BY <1>1, KnownKept

LEMMA KnownWidgets ==
    ASSUME TypeInv, KnownInv, Widgets1, Elsewhere
    PROVE  KnownInv'
<1>0. DOMAIN links \subseteq 1..nextLink /\ draft.staged.toUnlink \subseteq 1..nextLink
    BY DEF KnownInv
<1>1. CASE PickRef \/ ClearRef
    <2>1. /\ Quiet(queue, <<>>) /\ UNCHANGED <<nextLink, links>> /\ draft'.staged = draft.staged /\ Elems(<<>>) = {}
        BY <1>1, RefQuiet, Nothing DEF PickRef, ClearRef, relationVars, tagVars
    <2> QED BY <1>0, <2>1, KnownCalm DEF Quiet
<1>2. CASE AddTag
    <2>1. PICK more : Quiet(queue, more) /\ \A c \in Elems(more) : \E r : c = LinkCall(draft.id, r)
        BY <1>2, AddTagQuiet
    <2>2. \A c \in Elems(more) : KnownCall(c, nextLink)
        BY <2>1 DEF LinkCall, KnownCall
    <2>3. UNCHANGED <<nextLink, links>> /\ draft'.staged.toUnlink = draft.staged.toUnlink
        BY <1>2, AddTagQuiet DEF relationVars, tagVars
    <2> QED BY <1>0, <2>1, <2>2, <2>3, KnownCalm DEF Quiet
<1>3. CASE UnlinkTag
    <2>1. PICK more : Quiet(queue, more) /\ \A c \in Elems(more) : \E j \in DOMAIN links : c = UnlinkCall(j)
        BY <1>3, UnlinkTagQuiet
    <2>2. \A c \in Elems(more) : KnownCall(c, nextLink)
        BY <1>0, <2>1 DEF UnlinkCall, KnownCall
    <2>3. UNCHANGED <<nextLink, links>> /\ draft'.staged.toUnlink \subseteq draft.staged.toUnlink \union DOMAIN links
        BY <1>3, UnlinkTagQuiet DEF relationVars, tagVars
    <2> QED BY <1>0, <2>1, <2>2, <2>3, KnownCalm DEF Quiet
<1>4. CASE CloseDialog \/ \E w \in Pickers : OpenDialog(w)
    <2>1. Quiet(queue, <<>>) /\ UNCHANGED <<nextLink, links, draft>> /\ Elems(<<>>) = {}
        BY <1>4, DialogQuiet, Nothing DEF tagVars
    <2> QED BY <1>0, <2>1, KnownCalm DEF Quiet
<1>5. CASE SubmitDialog
    <2>1. PICK c : Quiet(queue, <<c>>) /\ Elems(<<c>>) = {c} /\ c.kind = "create" /\ c.staged = draft.staged
        BY <1>5, SubmitQuiet
    <2>2. \A d \in Elems(<<c>>) : KnownCall(d, nextLink)
        BY <1>0, <2>1 DEF KnownCall
    <2>3. UNCHANGED <<nextLink, links, draft>>
        BY <1>5, SubmitQuiet DEF tagVars
    <2> QED BY <1>0, <2>1, <2>2, <2>3, KnownCalm DEF Quiet
<1>6. CASE AnswerCreate
    <2>1. PICK more : Quiet(Tail(queue), more) /\ \A c \in Elems(more) : \E r : c = LinkCall(Call.own, r)
        BY <1>6, CreateQuiet
    <2>2. \A c \in Elems(more) : KnownCall(c, nextLink)
        BY <2>1 DEF LinkCall, KnownCall
    <2>3. /\ queue # <<>> /\ Call.kind = "create" /\ UNCHANGED <<nextLink, links>>
          /\ draft'.staged.toUnlink \in {draft.staged.toUnlink, Call.staged.toUnlink}
        BY <1>6, CreateQuiet DEF tagVars
    <2>4. Call.staged.toUnlink \subseteq 1..nextLink
        <3>1. Call \in Elems(queue)
            BY <2>3, Answered
        <3> QED BY <2>3, <3>1 DEF KnownInv
    <2> QED BY <1>0, <2>1, <2>2, <2>3, <2>4, KnownCalm DEF Quiet
<1>7. CASE RejectCreate
    <2>1. Quiet(Tail(queue), <<>>) /\ Elems(<<>>) = {} /\ UNCHANGED <<nextLink, links, draft>>
        BY <1>7, RejectCreateQuiet DEF tagVars
    <2> QED BY <1>0, <2>1, KnownCalm DEF Quiet
<1>8. CASE AnswerLinks
    <2>1. queue # <<>> /\ Call.kind = "links" /\ UNCHANGED <<draft, nextLink>>
        BY <1>8, LinksQuiet
    <2>2. Call \in Elems(queue)
        BY <2>1, Answered
    <2>3. CASE Call.read
        <3>1. Quiet(Tail(queue), <<>>) /\ Elems(<<>>) = {} /\ links' = IF Call.own = draft.id THEN Call.found ELSE links
            BY <1>8, <2>3, LinksQuiet
        <3>2. DOMAIN Call.found \subseteq 1..nextLink
            BY <2>1, <2>2 DEF KnownInv
        <3>3. DOMAIN links' \subseteq 1..nextLink
            BY <1>0, <3>1, <3>2
        <3> QED BY <1>0, <2>1, <3>1, <3>3, KnownKept DEF Quiet
    <2>4. CASE ~Call.read
        <3>1. links' = links
            BY <1>8, <2>4, LinksQuiet
        <3>2. PICK c : /\ Quiet(Tail(queue), <<c>>) /\ Elems(<<c>>) = {c} /\ c.kind = "links"
                       /\ c.found = RelatedOf(Call.own)
            BY <1>8, <2>4, LinksQuiet
        <3>3. \A d \in Elems(<<c>>) : KnownCall(d, nextLink)
            BY <3>2, LinksTyped DEF KnownCall
        <3> QED BY <1>0, <2>1, <3>1, <3>2, <3>3, KnownCalm DEF Quiet
    <2> QED BY <2>3, <2>4
<1>9. CASE AnswerLink
    <2>1. /\ Quiet(Tail(queue), <<>>) /\ Elems(<<>>) = {} /\ UNCHANGED draft
          /\ nextLink' = nextLink + 1 /\ links' = LinkShown(nextLink', Call.related)
        BY <1>9, LinkQuiet
    <2>2. nextLink \in Nat /\ 1..nextLink \subseteq 1..nextLink' /\ nextLink' \in 1..nextLink'
        <3>1. nextLink \in Nat
            BY FormConstants, LinksTyped
        <3> QED BY <2>1, <3>1
    <2>3. DOMAIN links' \subseteq DOMAIN links \union {nextLink'}
        <3>1. DOMAIN Extended(links, nextLink', Call.related) = DOMAIN links \union {nextLink'}
            BY DEF Extended
        <3> QED BY <2>1, <3>1 DEF LinkShown
    <2> QED BY <1>0, <2>1, <2>2, <2>3, KnownKept DEF Quiet
<1>10. CASE AnswerUnlink
    <2>1. /\ Quiet(Tail(queue), <<>>) /\ Elems(<<>>) = {} /\ UNCHANGED <<draft, nextLink>>
          /\ links' = IF Call.shown THEN [j \in DOMAIN links \ {Call.link} |-> links[j]] ELSE links
        BY <1>10, UnlinkQuiet
    <2>2. DOMAIN links' \subseteq DOMAIN links
        BY <2>1
    <2> QED BY <1>0, <2>1, <2>2, KnownKept DEF Quiet
<1>11. CASE RejectLinks
    <2>1. Quiet(Tail(queue), <<>>) /\ Elems(<<>>) = {} /\ UNCHANGED <<nextLink, links, draft>>
        BY <1>11, RejectLinksQuiet
    <2> QED BY <1>0, <2>1, KnownCalm DEF Quiet
<1>12. CASE \E failed \in BOOLEAN : AnswerLines(failed)
    <2>1. Quiet(Tail(queue), <<>>) /\ Elems(<<>>) = {} /\ UNCHANGED <<nextLink, links, draft>>
        BY <1>12, LinesQuiet DEF tagVars
    <2> QED BY <1>0, <2>1, KnownCalm DEF Quiet
<1> QED BY <1>1, <1>2, <1>3, <1>4, <1>5, <1>6, <1>7, <1>8, <1>9, <1>10, <1>11, <1>12 DEF Widgets1

LEMMA LoadsKnown ==
    ASSUME TypeInv, NEW own \in Ids
    PROVE  \A c \in Elems(Loads(own)) : KnownCall(c, nextLink)
<1>1. DOMAIN LoadLinks(own).found = {}
    BY Nothing DEF LoadLinks
<1>2. ASSUME NEW c \in Elems(Loads(own)) PROVE KnownCall(c, nextLink)
    <2>1. c.kind \in {"links", "lines"} /\ (c.kind = "links" => c = LoadLinks(own))
        BY <1>2, LoadsTyped
    <2> QED BY <1>1, <2>1 DEF KnownCall
<1> QED BY <1>2

LEMMA KnownSteps ==
    ASSUME TypeInv, KnownInv,
           \/ Save \/ ResetForm \/ PressButton \/ PressGenerate \/ AnswerButton \/ AnswerSave \/ RejectCommit \/ Refresh
           \/ (\E failed \in BOOLEAN : AnswerLog(failed) \/ AnswerGenerate(failed))
           \/ (Widgets2 /\ UNCHANGED <<relationVars, pageVars>>)
    PROVE  KnownInv'
<1>0. DOMAIN links \subseteq 1..nextLink /\ draft.staged.toUnlink \subseteq 1..nextLink
    BY DEF KnownInv
<1>1. CASE Save
    <2>1. UNCHANGED <<nextLink, links, draft>>
        BY <1>1, SaveStep DEF relationVars, tagVars
    <2>2. CASE UNCHANGED queue
        BY <1>0, <2>1, <2>2, SameQueue, KnownCalm
    <2>3. CASE ~UNCHANGED queue
        <3>1. PICK c : Turn(queue, <<c>>) /\ Elems(<<c>>) = {c} /\ c.kind = "commit" /\ c.staged = draft.staged
            BY <1>1, <2>3, SaveStep
        <3>2. \A d \in Elems(<<c>>) : KnownCall(d, nextLink)
            BY <1>0, <3>1 DEF KnownCall
        <3> QED BY <1>0, <2>1, <3>1, <3>2, KnownCalm
    <2> QED BY <2>2, <2>3
<1>2. CASE ResetForm
    <2>1. UNCHANGED <<nextLink, links>> /\ draft'.staged.toUnlink = {} /\ opened.id \in Ids
        BY <1>2, ResetStep, TypesAre DEF tagVars, StoreTypeOK, Ids
    <2>2. PICK more : /\ Turn(queue, more)
                      /\ Elems(more) = IF opened.id # draft.id THEN Elems(Loads(opened.id)) ELSE {}
        BY <1>2, ResetStep
    <2>3. \A c \in Elems(more) : KnownCall(c, nextLink)
        BY <2>1, <2>2, LoadsKnown
    <2> QED BY <2>1, <2>2, <2>3, KnownCalm
<1>3. CASE PressButton
    <2>1. UNCHANGED <<nextLink, links>> /\ draft'.staged = draft.staged
        BY <1>3, PressStep DEF relationVars, tagVars
    <2>2. PICK c : Turn(queue, <<c>>) /\ Elems(<<c>>) = {c} /\ c.kind = "commit" /\ c.staged = draft.staged
        BY <1>3, PressStep
    <2>3. \A d \in Elems(<<c>>) : KnownCall(d, nextLink)
        BY <1>0, <2>2 DEF KnownCall
    <2> QED BY <1>0, <2>1, <2>2, <2>3, KnownCalm
<1>4. CASE PressGenerate
    <2>1. UNCHANGED <<nextLink, links, draft>>
        BY <1>4, PressGenerateQuiet DEF relationVars, tagVars
    <2>2. PICK c : Quiet(queue, <<c>>) /\ Elems(<<c>>) = {c} /\ c.kind = "generate"
        BY <1>4, PressGenerateQuiet
    <2>3. \A d \in Elems(<<c>>) : KnownCall(d, nextLink)
        BY <2>2 DEF KnownCall
    <2> QED BY <1>0, <2>1, <2>2, <2>3, KnownCalm DEF Quiet
<1>5. CASE AnswerButton
    <2>1. PICK more : /\ Turn(Tail(queue), more)
                      /\ Elems(more) = IF Target # draft.id THEN Elems(Loads(Target)) ELSE {}
        BY <1>5, ButtonStep
    <2>2. UNCHANGED <<nextLink, links>> /\ draft'.staged.toUnlink = {} /\ Target \in Ids
        BY <1>5, ButtonStep, WrittenIs DEF Anchored, Answering, Ids
    <2>3. \A c \in Elems(more) : KnownCall(c, nextLink)
        BY <2>1, <2>2, LoadsKnown
    <2> QED BY <2>1, <2>2, <2>3, KnownCalm
<1>6. CASE AnswerSave
    <2>1. PICK more : /\ Turn(Tail(queue), more)
                      /\ Elems(more) = Elems(LogCalls) \union Elems(FlushCalls)
                                       \union (IF Target # draft.id THEN Elems(Loads(Target)) ELSE {})
        BY <1>6, SavedStep
    <2>2. UNCHANGED <<nextLink, links>> /\ draft'.staged.toUnlink = {} /\ Target \in Ids /\ Answering("commit")
        BY <1>6, SavedStep, WrittenIs DEF Anchored, Answering, Ids
    <2>3. ASSUME NEW c \in Elems(LogCalls) PROVE KnownCall(c, nextLink)
        <3>1. c.kind = "log"
            BY LogOf
        <3> QED BY <3>1 DEF KnownCall
    <2>4. ASSUME NEW c \in Elems(FlushCalls) PROVE KnownCall(c, nextLink)
        <3>1. Call.staged.toUnlink \subseteq 1..nextLink
            BY <2>2, CommitOf DEF KnownInv
        <3>2. (\A j \in Call.staged.toUnlink : KnownCall(UnlinkCall(j), nextLink))
              /\ \A r : KnownCall(LinkCall(Target, r), nextLink)
            BY <3>1 DEF UnlinkCall, LinkCall, KnownCall
        <3> QED BY <2>2, <2>4, <3>2, FlushOf
    <2>5. \A c \in Elems(more) : KnownCall(c, nextLink)
        BY <2>1, <2>2, <2>3, <2>4, LoadsKnown
    <2> QED BY <2>1, <2>2, <2>5, KnownCalm
<1>7. CASE RejectCommit
    <2>1. Turn(Tail(queue), <<>>) /\ Elems(<<>>) = {} /\ UNCHANGED <<nextLink, links, draft>>
        BY <1>7, RejectStep DEF relationVars, tagVars
    <2> QED BY <1>0, <2>1, KnownCalm
<1>8. CASE Refresh
    <2>1. UNCHANGED <<nextLink, links, queue, draft>>
        BY <1>8, RefreshStep DEF relationVars, tagVars
    <2> QED BY <1>0, <2>1, SameQueue, KnownCalm
<1>9. CASE \E failed \in BOOLEAN : AnswerLog(failed)
    <2>1. UNCHANGED <<nextLink, links, draft>> /\ Turn(Tail(queue), <<>>) /\ Elems(<<>>) = {}
        BY <1>9, LogStep DEF relationVars, tagVars
    <2> QED BY <1>0, <2>1, KnownCalm
<1>10. CASE \E failed \in BOOLEAN : AnswerGenerate(failed)
    <2>1. UNCHANGED <<nextLink, links, draft>>
        BY <1>10, GenerateQuiet DEF tagVars
    <2>2. PICK more : Quiet(Tail(queue), more) /\ \A c \in Elems(more) : c = LoadLines(draft.id, "list")
        BY <1>10, GenerateQuiet
    <2>3. \A c \in Elems(more) : KnownCall(c, nextLink)
        BY <2>2 DEF LoadLines, KnownCall
    <2> QED BY <1>0, <2>1, <2>2, <2>3, KnownCalm DEF Quiet
<1>11. CASE Widgets2 /\ UNCHANGED <<relationVars, pageVars>>
    <2>1. UNCHANGED <<nextLink, links, queue>> /\ draft'.staged = draft.staged
        BY <1>11, FileStep DEF relationVars, tagVars
    <2> QED BY <1>0, <2>1, SameQueue, KnownCalm
<1> QED BY <1>1, <1>2, <1>3, <1>4, <1>5, <1>6, <1>7, <1>8, <1>9, <1>10, <1>11

----------------------------------------------------------------------------
(* The tags that were meant *)

MeantCall(c) ==
    /\ ~muddled /\ deferred /\ c.id # NoId /\ c.expected.own = c.id
    /\ c.expected.tags = Kept(c.id, c.staged.toUnlink) \union c.staged.toLink

LEMMA FinalSame ==
    ASSUME IsSeq(queue), NEW rest, NEW more, Turn(rest, more), UNCHANGED junctions, NEW own,
           rest # queue => Call.kind \notin {"link", "unlink"},
           \A c \in Elems(more) : c.kind \notin {"link", "unlink"}
    PROVE  Final(queue, own)' = Final(queue, own)
<1>1. /\ Elems(queue') = Elems(rest) \union Elems(more) /\ Elems(rest) \subseteq Elems(queue)
      /\ Elems(queue) \subseteq Elems(rest) \union {Call}
    BY TurnElems
<1>2. \A c : c.kind \in {"link", "unlink"} => (c \in Elems(queue') <=> c \in Elems(queue))
    <2>1. CASE rest = queue
        BY <1>1, <2>1
    <2>2. CASE rest # queue
        BY <1>1, <2>2
    <2> QED BY <2>1, <2>2
<1>3. /\ {c \in Elems(queue') : c.kind = "unlink"} = {c \in Elems(queue) : c.kind = "unlink"}
      /\ {c \in Elems(queue') : c.kind = "link" /\ c.own = own} = {c \in Elems(queue) : c.kind = "link" /\ c.own = own}
    BY <1>2
<1>4. Unlinked(queue)' = Unlinked(queue) /\ Linked(queue, own)' = Linked(queue, own)
    BY <1>3 DEF Unlinked, Linked
<1>5. Kept(own, Unlinked(queue))' = Kept(own, Unlinked(queue))
    BY <1>4 DEF Kept
<1> QED BY <1>4, <1>5 DEF Final

\* The two parts, for a step that keeps what was meant.
LEMMA MeantParts ==
    ASSUME TypeInv, MeantInv, NEW rest, NEW more, Turn(rest, more), UNCHANGED <<fields, meant>>, faults' = 0 => faults = 0,
           \A own : faults' = 0 /\ deferred => Final(queue, own)' = Final(queue, own),
           faults' = 0 => \A c \in Elems(queue') : IsSave(c) /\ c.expected # Unknown => MeantCall(c)'
    PROVE  MeantInv'
<1>1. deferred' = deferred
    BY DEF deferred
<1>2. ASSUME faults' = 0, meant' # Unknown PROVE deferred' /\ Final(queue, meant.own)' = meant'.tags
    <2>1. deferred /\ Final(queue, meant.own) = meant.tags
        BY <1>2 DEF MeantInv
    <2>2. PICK own : own = meant.own
        OBVIOUS
    <2>3. Final(queue, own)' = Final(queue, own)
        BY <1>2, <2>1
    <2>4. Final(queue, meant.own)' = Final(queue, own)'
        BY <2>2 DEF Final, Kept, Linked, Unlinked
    <2> QED BY <1>1, <2>1, <2>2, <2>3, <2>4
<1>3. ASSUME faults' = 0, NEW c \in Elems(queue'), IsSave(c), c.expected # Unknown
      PROVE  /\ ~muddled' /\ deferred' /\ c.id # NoId /\ c.expected.own = c.id
             /\ c.expected.tags = Kept(c.id, c.staged.toUnlink)' \union c.staged.toLink
    <2>1. MeantCall(c)'
        BY <1>3
    <2> QED BY <2>1 DEF MeantCall
<1> QED BY <1>2, <1>3 DEF MeantInv, Unknown

LEMMA MeantCalm ==
    ASSUME TypeInv, MeantInv, NEW rest, NEW more, Turn(rest, more), UNCHANGED <<fields, junctions, muddled, meant>>,
           faults' = 0 => faults = 0,
           rest # queue => Call.kind \notin {"link", "unlink"},
           deferred => \A c \in Elems(more) : c.kind \notin {"link", "unlink"},
           faults' = 0 => \A c \in Elems(more) : IsSave(c) /\ c.expected # Unknown => MeantCall(c)
    PROVE  MeantInv'
<1>1. \A own : faults' = 0 /\ deferred => Final(queue, own)' = Final(queue, own)
    BY FinalSame, KnownTypes
<1>2. ASSUME faults' = 0, NEW c \in Elems(queue'), IsSave(c), c.expected # Unknown PROVE MeantCall(c)'
    <2>1. c \in Elems(queue) \/ c \in Elems(more)
        BY TurnElems, KnownTypes
    <2>2. MeantCall(c)
        BY <1>2, <2>1 DEF MeantInv, MeantCall
    <2>3. Kept(c.id, c.staged.toUnlink)' = Kept(c.id, c.staged.toUnlink) /\ deferred' = deferred
        BY DEF Kept, deferred
    <2> QED BY <2>2, <2>3 DEF MeantCall
<1> QED BY <1>1, <1>2, MeantParts

\* While a junction write is on its way, no Save that is not answered knows the tags.
LEMMA WritingTags ==
    ASSUME TagInv, MeantInv, faults = 0, Call \in Elems(queue), Call.kind \in {"link", "unlink"},
           NEW c \in Elems(queue), IsSave(c)
    PROVE  c.expected = Unknown
<1>1. c.expected # Unknown => ~muddled /\ deferred
    BY DEF MeantInv
<1>2. ~(~muddled /\ deferred)
    BY DEF TagInv
<1> QED BY <1>1, <1>2

\* The oldest call, which wrote a link or removed one, or found it gone.
LEMMA MeantWrites ==
    ASSUME TypeInv, TagInv, KnownInv, MeantInv, AnswerLink \/ AnswerUnlink \/ RejectLinks, Elsewhere
    PROVE  MeantInv'
<1>0. /\ Quiet(Tail(queue), <<>>) /\ Elems(<<>>) = {} /\ queue # <<>> /\ Call.kind \in {"links", "link", "unlink"}
      /\ faults' = 0 => Call.kind \in {"link", "unlink"}
    BY LinkQuiet, UnlinkQuiet, RejectLinksQuiet
<1>1. /\ Turn(Tail(queue), <<>>) /\ UNCHANGED <<fields, meant>> /\ (faults' = 0 => faults = 0)
      /\ Call \in Elems(queue) /\ Elems(queue) = Elems(Tail(queue)) \union {Call}
      /\ Elems(queue') = Elems(Tail(queue))
    <2>1. Turn(Tail(queue), <<>>) /\ UNCHANGED <<fields, meant>> /\ (faults' = 0 => faults = 0)
        BY <1>0 DEF Quiet
    <2>2. Call \in Elems(queue) /\ Elems(queue) = Elems(Tail(queue)) \union {Call}
        BY <1>0, Answered
    <2>3. Elems(queue') = Elems(Tail(queue)) \union Elems(<<>>)
        BY <2>1, TurnElems, KnownTypes
    <2> QED BY <1>0, <2>1, <2>2, <2>3
<1>2. ASSUME faults' = 0, NEW c \in Elems(queue'), IsSave(c) PROVE c.expected = Unknown
    BY <1>0, <1>1, <1>2, WritingTags
<1>3. ASSUME NEW own, faults' = 0 PROVE Final(queue, own)' = Final(queue, own)
    <2>1. CASE AnswerLink
        <3>1. /\ Call.kind = "link" /\ nextLink' \notin 1..nextLink
              /\ DOMAIN junctions' = DOMAIN junctions \union {nextLink'} /\ nextLink' \notin DOMAIN junctions
              /\ \A j \in DOMAIN junctions : junctions'[j] = junctions[j]
              /\ junctions'[nextLink'].own = Call.own /\ junctions'[nextLink'].related = Call.related
            BY <2>1, LinkQuiet
        <3>2. {c \in Elems(queue') : c.kind = "unlink"} = {c \in Elems(queue) : c.kind = "unlink"}
            BY <1>1, <3>1
        <3>3. Unlinked(queue)' = Unlinked(queue)
            BY <3>2 DEF Unlinked
        <3>4. nextLink' \notin Unlinked(queue)
            BY <3>1 DEF KnownInv, Unlinked
        <3> DEFINE g == Unlinked(queue)
                   was == {k \in DOMAIN junctions : junctions[k].own = own} \ g
                   is == {k \in DOMAIN junctions' : junctions'[k].own = own} \ g
                   come == IF Call.own = own THEN {Call.related} ELSE {}
        <3>5. is = was \union (IF Call.own = own THEN {nextLink'} ELSE {})
            BY <3>1, <3>4
        <3>6. {junctions'[k].related : k \in is} = {junctions[k].related : k \in was} \union come
            <4>1. \A k \in was : junctions'[k].related = junctions[k].related
                BY <3>1
            <4> HIDE DEF was, is
            <4> QED BY <3>1, <3>5, <4>1
        <3>7. Linked(queue, own) = Linked(queue, own)' \union come
            <4>1. {c \in Elems(queue) : c.kind = "link" /\ c.own = own} =
                    {c \in Elems(queue') : c.kind = "link" /\ c.own = own} \union (IF Call.own = own THEN {Call} ELSE {})
                BY <1>1, <3>1
            <4> QED BY <4>1 DEF Linked
        <3>8. Kept(own, Unlinked(queue))' = Kept(own, Unlinked(queue)) \union come
            BY <3>3, <3>6 DEF Kept
        <3> QED BY <3>7, <3>8 DEF Final
    <2>2. CASE AnswerUnlink \/ RejectLinks
        <3>1. /\ Call.kind = "unlink"
              /\ DOMAIN junctions' = DOMAIN junctions \ {Call.link}
              /\ \A j \in DOMAIN junctions' : junctions'[j] = junctions[j]
            <4>1. CASE AnswerUnlink
                BY <4>1, UnlinkQuiet
            <4>2. CASE RejectLinks
                <5>1. junctions' = junctions /\ Call.kind = "unlink" /\ Call.link \notin DOMAIN junctions
                    BY <1>3, <4>2, RejectLinksQuiet
                <5> QED BY <5>1
            <4> QED BY <2>2, <4>1, <4>2
        <3>2. {c \in Elems(queue) : c.kind = "unlink"} = {c \in Elems(queue') : c.kind = "unlink"} \union {Call}
            BY <1>1, <3>1
        <3>3. Unlinked(queue) = Unlinked(queue)' \union {Call.link}
            BY <3>2 DEF Unlinked
        <3>4. {c \in Elems(queue) : c.kind = "link" /\ c.own = own} = {c \in Elems(queue') : c.kind = "link" /\ c.own = own}
            BY <1>1, <3>1
        <3>5. Linked(queue, own)' = Linked(queue, own)
            BY <3>4 DEF Linked
        <3> DEFINE was == {k \in DOMAIN junctions : junctions[k].own = own} \ Unlinked(queue)
                   is == {k \in DOMAIN junctions' : junctions'[k].own = own} \ Unlinked(queue)'
        <3>6. is = was /\ \A k \in is : junctions'[k] = junctions[k]
            BY <3>1, <3>3
        <3>7. {junctions'[k].related : k \in is} = {junctions[k].related : k \in was}
            <4> HIDE DEF was, is
            <4> QED BY <3>6
        <3>8. Kept(own, Unlinked(queue))' = Kept(own, Unlinked(queue))
            BY <3>7 DEF Kept
        <3> QED BY <3>5, <3>8 DEF Final
    <2> QED BY <2>1, <2>2
<1> QED BY <1>1, <1>2, <1>3, MeantParts

LEMMA MeantWidgets ==
    ASSUME TypeInv, TagInv, KnownInv, MeantInv, Widgets1, Elsewhere
    PROVE  MeantInv'
<1>0. UNCHANGED meant
    BY DEF Elsewhere, pageVars
<1>1. CASE PickRef \/ ClearRef
    <2>1. Quiet(queue, <<>>) /\ UNCHANGED <<junctions, muddled>> /\ Elems(<<>>) = {}
        BY <1>1, RefQuiet, Nothing DEF PickRef, ClearRef, relationVars, tagVars
    <2> QED BY <1>0, <2>1, MeantCalm DEF Quiet
<1>2. CASE AddTag
    <2>1. PICK more : Quiet(queue, more) /\ \A c \in Elems(more) : ~deferred /\ \E r : c = LinkCall(draft.id, r)
        BY <1>2, AddTagQuiet
    <2>2. \A c \in Elems(more) : ~IsSave(c)
        BY <2>1 DEF LinkCall, IsSave
    <2>3. UNCHANGED <<junctions, muddled>>
        BY <1>2, AddTagQuiet DEF relationVars, tagVars
    <2> QED BY <1>0, <2>1, <2>2, <2>3, MeantCalm DEF Quiet
<1>3. CASE UnlinkTag
    <2>1. PICK more : /\ Quiet(queue, more)
                      /\ \A c \in Elems(more) : ~deferred /\ \E j \in DOMAIN links : c = UnlinkCall(j)
        BY <1>3, UnlinkTagQuiet
    <2>2. \A c \in Elems(more) : ~IsSave(c)
        BY <2>1 DEF UnlinkCall, IsSave
    <2>3. UNCHANGED <<junctions, muddled>>
        BY <1>3, UnlinkTagQuiet DEF relationVars, tagVars
    <2> QED BY <1>0, <2>1, <2>2, <2>3, MeantCalm DEF Quiet
<1>4. CASE CloseDialog \/ \E w \in Pickers : OpenDialog(w)
    <2>1. Quiet(queue, <<>>) /\ UNCHANGED <<junctions, muddled>> /\ Elems(<<>>) = {}
        BY <1>4, DialogQuiet, Nothing DEF tagVars
    <2> QED BY <1>0, <2>1, MeantCalm DEF Quiet
<1>5. CASE SubmitDialog
    <2>1. PICK c : Quiet(queue, <<c>>) /\ Elems(<<c>>) = {c} /\ c.kind = "create"
        BY <1>5, SubmitQuiet
    <2>2. \A d \in Elems(<<c>>) : d.kind = "create" /\ ~IsSave(d)
        BY <2>1 DEF IsSave
    <2>3. UNCHANGED <<junctions, muddled>>
        BY <1>5, SubmitQuiet DEF tagVars
    <2> QED BY <1>0, <2>1, <2>2, <2>3, MeantCalm DEF Quiet
<1>6. CASE AnswerCreate
    <2>1. PICK more : Quiet(Tail(queue), more) /\ \A c \in Elems(more) : ~deferred /\ \E r : c = LinkCall(Call.own, r)
        BY <1>6, CreateQuiet
    <2>2. \A c \in Elems(more) : ~IsSave(c)
        BY <2>1 DEF LinkCall, IsSave
    <2>3. Call.kind = "create" /\ UNCHANGED <<junctions, muddled>>
        BY <1>6, CreateQuiet DEF tagVars
    <2> QED BY <1>0, <2>1, <2>2, <2>3, MeantCalm DEF Quiet
<1>7. CASE RejectCreate
    <2>1. Quiet(Tail(queue), <<>>) /\ Elems(<<>>) = {} /\ Call.kind = "create" /\ UNCHANGED <<junctions, muddled>>
        BY <1>7, RejectCreateQuiet DEF tagVars
    <2> QED BY <1>0, <2>1, MeantCalm DEF Quiet
<1>8. CASE AnswerLinks
    <2>1. Call.kind = "links" /\ UNCHANGED <<junctions, muddled>>
        BY <1>8, LinksQuiet
    <2>2. PICK more : Quiet(Tail(queue), more) /\ \A c \in Elems(more) : c.kind = "links"
        BY <1>8, LinksQuiet
    <2>3. \A c \in Elems(more) : ~IsSave(c)
        BY <2>2 DEF IsSave
    <2> QED BY <1>0, <2>1, <2>2, <2>3, MeantCalm DEF Quiet
<1>9. CASE AnswerLink \/ AnswerUnlink \/ RejectLinks
    BY <1>9, MeantWrites
<1>10. CASE \E failed \in BOOLEAN : AnswerLines(failed)
    <2>1. Quiet(Tail(queue), <<>>) /\ Elems(<<>>) = {} /\ Call.kind = "lines" /\ UNCHANGED <<junctions, muddled>>
        BY <1>10, LinesQuiet DEF tagVars
    <2> QED BY <1>0, <2>1, MeantCalm DEF Quiet
<1> QED BY <1>1, <1>2, <1>3, <1>4, <1>5, <1>6, <1>7, <1>8, <1>9, <1>10 DEF Widgets1

\* What Save expects of the tags is what its flush will make of them.
LEMMA SaveMeans ==
    ASSUME TypeInv, TagInv, faults = 0, NEW c, c.id = draft.id, c.staged = draft.staged, c.expected = Expected,
           c.expected # Unknown
    PROVE  MeantCall(c)
<1>1. /\ deferred /\ draft.id # NoId /\ ~muddled /\ ~Queued({"links"})
      /\ c.expected.own = c.id /\ c.expected.tags = Visible
    BY ExpectedIs
<1>2. HasTags
    BY <1>1 DEF deferred, HasTags
<1>3. LinksCome(queue, draft.id, links = RelatedOf(draft.id))
    BY <1>1, <1>2 DEF TagInv
<1>4. links = RelatedOf(draft.id)
    <2>1. \A k \in DOMAIN queue : ~LinkLoad(queue[k], draft.id)
        BY <1>1 DEF Queued, LinkLoad
    <2> QED BY <1>3, <2>1, Zenon DEF LinksCome
<1>5. /\ DOMAIN links = {k \in DOMAIN junctions : junctions[k].own = draft.id}
      /\ \A k \in DOMAIN links : links[k] = junctions[k].related
    BY <1>4 DEF RelatedOf
<1>6. {links[j] : j \in DOMAIN links \ draft.staged.toUnlink} = Kept(draft.id, draft.staged.toUnlink)
    BY <1>5 DEF Kept
<1>7. Visible = {links[j] : j \in DOMAIN links \ draft.staged.toUnlink} \union draft.staged.toLink
    BY <1>1 DEF Visible
<1> QED BY <1>1, <1>6, <1>7 DEF MeantCall

LEMMA MeantSaved ==
    ASSUME TypeInv, SaveInv, TagInv, MeantInv, AnswerSave
    PROVE  MeantInv'
<1>1. PICK more : /\ Turn(Tail(queue), more)
                  /\ Elems(more) = Elems(LogCalls) \union Elems(FlushCalls)
                                   \union (IF Target # draft.id THEN Elems(Loads(Target)) ELSE {})
    BY SavedStep
<1>2. /\ UNCHANGED <<fields, junctions, faults>> /\ meant' = Call.expected /\ Target \in Ids
      /\ IsSave(Call) /\ Answering("commit") /\ (Call.id # NoId => Target = Call.id)
    BY SavedStep, WrittenIs DEF Anchored, Answering, Ids, IsSave
<1>3. Call \in Elems(queue) /\ Tail(queue) # queue
    BY <1>2, Answered DEF Answering
<1>4. /\ Elems(queue') = Elems(Tail(queue)) \union Elems(more) /\ Elems(Tail(queue)) \subseteq Elems(queue)
    BY <1>1, TurnElems, KnownTypes
<1>5. /\ \A c \in Elems(LogCalls) : c.kind = "log"
      /\ \A c \in Elems(FlushCalls) : c.kind \in {"link", "unlink"}
      /\ \A c \in Elems(Loads(Target)) : c.kind \in {"links", "lines"}
    BY <1>2, LogOf, FlushCalm, LoadsTyped
<1>6. \A c \in Elems(queue') : ~IsSave(c)
    <2> DEFINE S == {c \in Elems(queue) : IsSave(c)}
    <2>1. Once(queue, S)
        BY DEF SaveInv, SaveOnce, Once
    <2>2. Call \in S
        BY <1>2, <1>3
    <2> HIDE DEF S
    <2>3. \A c \in Elems(Tail(queue)) : c \notin S
        BY <1>1, <1>3, <2>1, <2>2, OnceLeft, KnownTypes DEF Turn
    <2>4. \A c \in Elems(Tail(queue)) : ~IsSave(c)
        BY <1>4, <2>3 DEF S
    <2>5. \A c \in Elems(more) : ~IsSave(c)
        BY <1>1, <1>5 DEF IsSave
    <2> QED BY <1>4, <2>4, <2>5
<1>7. ASSUME faults' = 0, meant' # Unknown PROVE deferred' /\ Final(queue, meant.own)' = meant'.tags
    <2>1. MeantCall(Call) /\ deferred
        BY <1>2, <1>3, <1>7 DEF MeantInv, MeantCall
    <2>2. deferred' = deferred /\ Target = Call.id /\ meant'.own = Target
        BY <1>2, <2>1 DEF MeantCall, deferred
    <2>3. \A c \in Elems(queue) : c.kind \notin {"link", "unlink"}
        BY <1>2, <1>7, <2>1 DEF TagInv, MeantCall
    <2>4. Elems(FlushCalls) = {UnlinkCall(j) : j \in Call.staged.toUnlink}
                              \union {LinkCall(Target, r) : r \in Call.staged.toLink}
        BY <1>2, <2>1, FlushOf
    <2>5. \A c : c.kind \in {"link", "unlink"} => (c \in Elems(queue') <=> c \in Elems(FlushCalls))
        BY <1>1, <1>4, <1>5, <2>3
    <2>6. PICK own : own = Target
        OBVIOUS
    <2>7. /\ \A j : UnlinkCall(j).kind = "unlink" /\ UnlinkCall(j).link = j
          /\ \A r : LinkCall(own, r).kind = "link" /\ LinkCall(own, r).own = own /\ LinkCall(own, r).related = r
        BY DEF UnlinkCall, LinkCall
    <2>8. {c \in Elems(queue') : c.kind = "unlink"} = {UnlinkCall(j) : j \in Call.staged.toUnlink}
        BY <2>4, <2>5, <2>6, <2>7
    <2>9. {c \in Elems(queue') : c.kind = "link" /\ c.own = own} = {LinkCall(own, r) : r \in Call.staged.toLink}
        BY <2>4, <2>5, <2>6, <2>7
    <2>10. Unlinked(queue)' = Call.staged.toUnlink
        <3>1. Unlinked(queue)' = {c.link : c \in {UnlinkCall(j) : j \in Call.staged.toUnlink}}
            BY <2>8 DEF Unlinked
        <3> QED BY <2>7, <3>1
    <2>11. Linked(queue, own)' = Call.staged.toLink
        <3>1. Linked(queue, own)' = {c.related : c \in {LinkCall(own, r) : r \in Call.staged.toLink}}
            BY <2>9 DEF Linked
        <3> QED BY <2>7, <3>1
    <2>12. Kept(own, Unlinked(queue))' = Kept(Call.id, Call.staged.toUnlink)
        BY <1>2, <2>2, <2>6, <2>10 DEF Kept
    <2>13. Final(queue, meant.own)' = Kept(Call.id, Call.staged.toUnlink) \union Call.staged.toLink
        <3>1. Final(queue, meant.own)' = Kept(own, Unlinked(queue))' \union Linked(queue, own)'
            BY <2>2, <2>6 DEF Final, Kept, Linked
        <3> QED BY <2>11, <2>12, <3>1
    <2> QED BY <1>2, <2>1, <2>2, <2>13 DEF MeantCall
<1> QED BY <1>6, <1>7 DEF MeantInv, Unknown

LEMMA MeantSteps ==
    ASSUME TypeInv, SaveInv, TagInv, MeantInv,
           \/ Save \/ ResetForm \/ PressButton \/ PressGenerate \/ AnswerButton \/ AnswerSave \/ RejectCommit \/ Refresh
           \/ (\E failed \in BOOLEAN : AnswerLog(failed) \/ AnswerGenerate(failed))
           \/ (Widgets2 /\ UNCHANGED <<relationVars, pageVars>>)
    PROVE  MeantInv'
<1>1. CASE Save
    <2>1. UNCHANGED <<fields, junctions, muddled, meant, faults>>
        BY <1>1, SaveStep DEF relationVars, tagVars
    <2>2. CASE UNCHANGED queue
        BY <2>1, <2>2, SameQueue, MeantCalm
    <2>3. CASE ~UNCHANGED queue
        <3>1. PICK c : /\ Turn(queue, <<c>>) /\ Elems(<<c>>) = {c} /\ c.kind = "commit"
                       /\ c.id = draft.id /\ c.staged = draft.staged /\ c.expected = Expected
            BY <1>1, <2>3, SaveStep
        <3>2. ASSUME faults' = 0, NEW d \in Elems(<<c>>), d.expected # Unknown PROVE MeantCall(d)
            BY <2>1, <3>1, <3>2, SaveMeans
        <3> QED BY <2>1, <3>1, <3>2, MeantCalm
    <2> QED BY <2>2, <2>3
<1>2. CASE ResetForm
    <2>1. UNCHANGED <<fields, junctions, muddled, meant, faults>> /\ opened.id \in Ids
        BY <1>2, ResetStep, TypesAre DEF tagVars, pageVars, StoreTypeOK, Ids
    <2>2. PICK more : /\ Turn(queue, more)
                      /\ Elems(more) = IF opened.id # draft.id THEN Elems(Loads(opened.id)) ELSE {}
        BY <1>2, ResetStep
    <2>3. \A c \in Elems(more) : c.kind \in {"links", "lines"}
        BY <2>1, <2>2, LoadsTyped
    <2> QED BY <2>1, <2>2, <2>3, MeantCalm DEF IsSave
<1>3. CASE PressButton
    <2>1. UNCHANGED <<fields, junctions, muddled, meant, faults>>
        BY <1>3, PressStep DEF relationVars, tagVars
    <2>2. PICK c : Turn(queue, <<c>>) /\ Elems(<<c>>) = {c} /\ c.kind = "commit" /\ c.by = "button"
        BY <1>3, PressStep
    <2> QED BY <2>1, <2>2, MeantCalm DEF IsSave
<1>4. CASE PressGenerate
    <2>1. UNCHANGED <<junctions, muddled>>
        BY <1>4, PressGenerateQuiet DEF relationVars, tagVars
    <2>2. PICK c : Quiet(queue, <<c>>) /\ Elems(<<c>>) = {c} /\ c.kind = "generate"
        BY <1>4, PressGenerateQuiet
    <2> QED BY <2>1, <2>2, MeantCalm DEF Quiet, IsSave
<1>5. CASE AnswerButton
    <2>1. PICK more : /\ Turn(Tail(queue), more)
                      /\ Elems(more) = IF Target # draft.id THEN Elems(Loads(Target)) ELSE {}
        BY <1>5, ButtonStep
    <2>2. UNCHANGED <<fields, junctions, muddled, meant, faults>> /\ Target \in Ids /\ Call.kind = "commit"
        BY <1>5, ButtonStep, WrittenIs DEF Anchored, Answering, Ids
    <2>3. \A c \in Elems(more) : c.kind \in {"links", "lines"}
        BY <2>1, <2>2, LoadsTyped
    <2> QED BY <2>1, <2>2, <2>3, MeantCalm DEF IsSave
<1>6. CASE AnswerSave
    BY <1>6, MeantSaved
<1>7. CASE RejectCommit
    <2>1. faults' # 0
        BY <1>7, RejectStep
    <2> QED BY <2>1 DEF MeantInv
<1>8. CASE Refresh
    <2>1. UNCHANGED <<fields, junctions, muddled, meant, faults, queue>>
        BY <1>8, RefreshStep DEF relationVars, tagVars
    <2> QED BY <2>1, SameQueue, MeantCalm
<1>9. CASE \E failed \in BOOLEAN : AnswerLog(failed)
    <2>1. /\ UNCHANGED <<fields, junctions, muddled, meant>> /\ Turn(Tail(queue), <<>>) /\ Elems(<<>>) = {}
          /\ IsLog(Call) /\ (faults' = 0 => faults = 0)
        BY <1>9, LogStep DEF relationVars, tagVars
    <2> QED BY <2>1, MeantCalm DEF IsLog
<1>10. CASE \E failed \in BOOLEAN : AnswerGenerate(failed)
    <2>1. UNCHANGED <<junctions, muddled>> /\ Call.kind = "generate"
        BY <1>10, GenerateQuiet DEF tagVars
    <2>2. PICK more : Quiet(Tail(queue), more) /\ \A c \in Elems(more) : c = LoadLines(draft.id, "list")
        BY <1>10, GenerateQuiet
    <2>3. \A c \in Elems(more) : c.kind = "lines"
        BY <2>2 DEF LoadLines
    <2> QED BY <2>1, <2>2, <2>3, MeantCalm DEF Quiet, IsSave
<1>11. CASE Widgets2 /\ UNCHANGED <<relationVars, pageVars>>
    <2>1. UNCHANGED <<fields, junctions, muddled, meant, queue>> /\ (faults' = 0 => faults = 0)
        BY <1>11, FileStep DEF relationVars, tagVars, pageVars
    <2> QED BY <2>1, SameQueue, MeantCalm
<1> QED BY <1>1, <1>2, <1>3, <1>4, <1>5, <1>6, <1>7, <1>8, <1>9, <1>10, <1>11

----------------------------------------------------------------------------
(* The initial states *)

LEMMA InitIs ==
    ASSUME Init
    PROVE  /\ StoreTypeOK /\ opened \in Page /\ draft = Seed(opened.id, opened.values) /\ draft \in Draft
           /\ draft.id = opened.id /\ draft.flag = opened.values.flag /\ draft.staged.toUnlink = {}
           /\ (~HasFile => ~opened.values.flag)
           /\ (opened.id # NoId => opened.id \in DOMAIN records /\ records[opened.id] = opened.values)
           /\ opened.id \in DOMAIN records \union {NoId}
<1>1. /\ fields \in Forms /\ dirty = FALSE /\ ops = 0 /\ faults = 0
      /\ records = [i \in {opened.id} \ {NoId} |-> opened.values]
      /\ draft = Seed(opened.id, opened.values)
    BY DEF Init, StoreInit
<1>2. PICK r \in Related \ Fresh, f \in {FALSE} \union {HasFile} :
         opened \in {[id |-> NoId, values |-> Defaults], [id |-> 1, values |-> [ref |-> r, flag |-> f]]}
    BY DEF Init, StoreInit
<1>3. 1 \in RecordIds /\ NoId \notin RecordIds /\ 0 \in 0..MaxOps /\ 0 \in 0..MaxFaults
    BY FormConstants DEF RecordIds, NoId
<1>4. opened.id \in Ids /\ opened.values \in Stored /\ opened \in Page /\ (~HasFile => ~opened.values.flag)
    <2>1. CASE opened = [id |-> NoId, values |-> Defaults]
        <3>1. Defaults \in Stored /\ Defaults.flag = FALSE /\ NoId \in Ids
            BY DEF Defaults, Stored, Ids
        <3> HIDE DEF Defaults
        <3> QED BY <2>1, <3>1 DEF Page
    <2>2. CASE opened = [id |-> 1, values |-> [ref |-> r, flag |-> f]]
        <3> DEFINE values == [ref |-> r, flag |-> f]
        <3>0. f \in BOOLEAN /\ (~HasFile => ~f)
            <4>1. HasFile \in BOOLEAN
                BY DEF HasFile
            <4>2. f = FALSE \/ f = HasFile
                BY <1>2, Zenon
            <4>3. f \in BOOLEAN
                BY <4>1, <4>2, Zenon
            <4>4. ~HasFile => ~f
                BY <4>2, Zenon
            <4> QED BY <4>3, <4>4
        <3>1. values \in Stored /\ (~HasFile => ~values.flag) /\ 1 \in Ids
            <4>1. values.ref = r /\ values.flag = f
                OBVIOUS
            <4>2. values \in Stored
                BY <1>2, <3>0 DEF Stored
            <4>3. ~HasFile => ~values.flag
                BY <3>0, <4>1, Zenon
            <4> QED BY <1>3, <4>2, <4>3 DEF Ids
        <3>2. opened = [id |-> 1, values |-> values]
            BY <2>2
        <3> HIDE DEF values
        <3> QED BY <3>1, <3>2 DEF Page
    <2> QED BY <1>2, <2>1, <2>2
<1>5. /\ draft \in Draft /\ draft.id = opened.id /\ draft.flag = opened.values.flag /\ draft.staged.toUnlink = {}
    BY <1>1, <1>4, SeedIs
<1>6. /\ DOMAIN records \subseteq RecordIds /\ \A i \in DOMAIN records : records[i] \in Stored
      /\ opened.id # NoId => opened.id \in DOMAIN records /\ records[opened.id] = opened.values
    BY <1>1, <1>4 DEF Ids
<1>7. StoreTypeOK
    BY <1>1, <1>3, <1>4, <1>5, <1>6 DEF StoreTypeOK, Draft, Ids
<1> QED BY <1>1, <1>4, <1>5, <1>6, <1>7

LEMMA InitRelations ==
    ASSUME Init
    PROVE  RelationTypeOK /\ DialogInv
<1>1. PICK linked \in SUBSET {1} :
         /\ linked # {} => opened.id # NoId
         /\ junctions \in [IF HasTags THEN linked ELSE {} -> {[own |-> opened.id, related |-> r] : r \in existing}]
         /\ nextLink = Cardinality(DOMAIN junctions)
         /\ lines = [l \in IF HasLines THEN linked ELSE {} |-> opened.id]
    BY DEF Init, RelationInit
<1>2. /\ existing = Related \ Fresh /\ links = <<>> /\ rows = {} /\ summed = {} /\ dialog = NoDialog
      /\ muddled = FALSE /\ strayed = FALSE
    BY DEF Init, RelationInit
<1>3. DOMAIN junctions \subseteq linked
    BY <1>1
<1>4. DOMAIN junctions \subseteq 1..nextLink /\ nextLink \in 0..MaxLinks
    <2>1. Cardinality({}) = 0 /\ Cardinality({1}) = 1
        BY FS_EmptySet, FS_Singleton
    <2>2. DOMAIN junctions = {} \/ DOMAIN junctions = {1}
        BY <1>3
    <2>3. 0 \in 0..MaxLinks /\ 1 \in 0..MaxLinks
        BY FormConstants
    <2>4. CASE DOMAIN junctions = {}
        <3>1. nextLink = 0
            BY <1>1, <2>1, <2>4
        <3> QED BY <2>3, <2>4, <3>1
    <2>5. CASE DOMAIN junctions = {1}
        <3>1. nextLink = 1
            BY <1>1, <2>1, <2>5
        <3> QED BY <2>3, <2>5, <3>1
    <2> QED BY <2>2, <2>4, <2>5
<1>5. \A j \in DOMAIN junctions : junctions[j] \in [own : RecordIds, related : Related]
    <2> SUFFICES ASSUME NEW j \in DOMAIN junctions
                 PROVE  junctions[j] \in [own : RecordIds, related : Related]
        OBVIOUS
    <2>1. opened.id \in RecordIds
        <3>1. opened.id # NoId /\ opened.id \in Ids
            BY <1>1, <1>3, InitIs DEF Page
        <3> QED BY <3>1 DEF Ids
    <2>2. PICK r \in existing : junctions[j] = [own |-> opened.id, related |-> r]
        BY <1>1
    <2> QED BY <1>2, <2>1, <2>2
<1>6. DOMAIN lines \subseteq LineIds /\ \A l \in DOMAIN lines : lines[l] \in RecordIds
    <2>1. DOMAIN lines \subseteq linked /\ \A l \in DOMAIN lines : lines[l] = opened.id
        BY <1>1
    <2>2. 1 \in LineIds
        BY LineConstants DEF LineIds
    <2>3. linked # {} => opened.id \in RecordIds
        BY <1>1, InitIs DEF Page, Ids
    <2> QED BY <2>1, <2>2, <2>3
<1>7. dialog \in [of : Pickers \union {"nothing"}, at : 0..MaxOps, own : RecordIds \union {NoId}, submitting : BOOLEAN]
    <2>1. 0 \in 0..MaxOps
        BY FormConstants
    <2> QED BY <1>2, <2>1 DEF NoDialog, Pickers
<1>8. DialogInv
    BY <1>2 DEF DialogInv, NoDialog
<1> QED BY <1>2, <1>4, <1>5, <1>6, <1>7, <1>8, NoLinks DEF RelationTypeOK

LEMMA InitFile ==
    ASSUME Init
    PROVE  /\ FileTypeOK /\ torn = FALSE /\ io = NoIO /\ meta = FALSE /\ strokes = FALSE /\ io.served = FALSE
           /\ find = FindFor(opened.id, opened.values.flag) /\ find.read = FALSE
           /\ (HasFile /\ opened.id # NoId => find.own = opened.id /\ find # NoFind)
           /\ (~HasFile \/ opened.id = NoId => find = NoFind /\ files = {})
           /\ NoFind.own = NoId
<1>1. /\ files \in SUBSET {i \in {opened.id} : i # NoId /\ HasFile}
      /\ meta = FALSE /\ io = NoIO /\ strokes = FALSE /\ torn = FALSE
      /\ find = FindFor(opened.id, opened.values.flag)
    BY DEF Init, FileInit
<1>2. opened.id \in Ids /\ opened.values.flag \in BOOLEAN
    BY InitIs DEF Page, Stored
<1>3. /\ NoFind.own = NoId /\ NoFind.read = FALSE /\ NoIO.served = FALSE
      /\ NoFind \in [own : Ids, seen : BOOLEAN, read : BOOLEAN, found : BOOLEAN]
      /\ NoIO \in [op : {"none", "upload", "remove"}, own : Ids, seen : BOOLEAN, served : BOOLEAN]
    BY DEF NoFind, NoIO, Ids
<1>4. CASE HasFile /\ opened.id # NoId
    <2> DEFINE a == [NoFind EXCEPT !.own = opened.id]
               b == [a EXCEPT !.seen = opened.values.flag]
    <2>1. find = b
        BY <1>1, <1>4 DEF FindFor
    <2>2. /\ a \in [own : Ids, seen : BOOLEAN, read : BOOLEAN, found : BOOLEAN]
          /\ a.own = opened.id /\ a.read = FALSE
        BY <1>2, <1>3 DEF NoFind
    <2> HIDE DEF a
    <2>3. /\ b \in [own : Ids, seen : BOOLEAN, read : BOOLEAN, found : BOOLEAN]
          /\ b.own = opened.id /\ b.read = FALSE
        BY <1>2, <2>2
    <2> HIDE DEF b
    <2>4. find # NoFind
        BY <1>3, <1>4, <2>1, <2>3
    <2>5. files \subseteq RecordIds
        BY <1>1, <1>2 DEF Ids
    <2> QED BY <1>1, <1>3, <1>4, <2>1, <2>3, <2>4, <2>5 DEF FileTypeOK, Ids
<1>5. CASE ~HasFile \/ opened.id = NoId
    <2>1. find = NoFind /\ files = {}
        BY <1>1, <1>5 DEF FindFor
    <2> QED BY <1>1, <1>3, <1>5, <2>1 DEF FileTypeOK, Ids
<1> QED BY <1>4, <1>5

LEMMA InitOK ==
    ASSUME Init
    PROVE  IInv
<1>1. /\ queue = Loads(opened.id) /\ submitting = FALSE /\ running = FALSE
      /\ last = opened /\ base = opened.values
      /\ feed = <<>> /\ mute = FALSE /\ broken = FALSE /\ meant = Unknown
    BY DEF Init
<1>2. opened.id \in Ids /\ draft.id = opened.id
    BY InitIs DEF Page
<1>3. /\ IsSeq(queue)
      /\ \A c \in Elems(queue) : /\ CallType(c) /\ c.kind \in {"links", "lines"} /\ c.own = opened.id
                                 /\ c.kind = "links" => c = LoadLinks(opened.id)
      /\ opened.id # NoId /\ HasTags => LoadLinks(opened.id) \in Elems(queue)
      /\ opened.id # NoId /\ HasLines => LoadLines(opened.id, "list") \in Elems(queue)
    BY <1>1, <1>2, LoadsTyped
<1>4. TypeInv
    <2>1. StoreTypeOK /\ RelationTypeOK /\ FileTypeOK /\ DialogInv
        BY InitIs, InitRelations, InitFile
    <2>2. OpenedInv
        BY InitIs, InitFile DEF OpenedInv
    <2>3. PageTypeOK
        <3>1. last \in Page /\ base \in Stored /\ meant \in Meaning
            BY <1>1, InitIs DEF Page, Unknown, Meaning, Ids
        <3>2. IsSeq(feed) /\ \A e \in Elems(feed) : e \in Entry
            BY <1>1, Nothing
        <3> QED BY <1>1, <3>1, <3>2 DEF PageTypeOK
    <2> QED BY <1>3, <2>1, <2>2, <2>3, TypesAre
<1>5. /\ \A i \in DOMAIN queue : queue[i] \in Elems(queue)
      /\ \A c \in Elems(queue) : ~IsSave(c) /\ ~IsLog(c) /\ c.kind \notin {"commit", "link", "unlink", "create"}
    BY <1>3 DEF Elems, IsSave, IsLog
<1>6. SaveInv
    BY <1>5 DEF SaveInv, SaveOnce
<1>7. FlagInv
    <2>1. NoFileInv
        BY <1>5, InitIs, InitFile DEF NoFileInv
    <2>2. draft.id # NoId => records[draft.id].flag = draft.flag
        BY <1>2, InitIs
    <2>3. draft.id # NoId /\ find = NoFind => /\ meta = (draft.id \in files)
                                              /\ draft.flag = (draft.id \in files)
        <3> SUFFICES ASSUME draft.id # NoId, find = NoFind
                     PROVE  meta = (draft.id \in files) /\ draft.flag = (draft.id \in files)
            OBVIOUS
        <3>1. ~HasFile
            BY <1>2, InitFile
        <3>2. files = {} /\ meta = FALSE
            BY <3>1, InitFile
        <3>3. draft.flag = FALSE
            <4>1. draft.flag \in BOOLEAN /\ ~draft.flag
                BY <2>1, <3>1, InitIs DEF NoFileInv, Draft
            <4> QED BY <4>1
        <3>4. (draft.id \in files) = FALSE
            BY <3>2
        <3> QED BY <3>2, <3>3, <3>4
    <2>4. /\ find.read = FALSE /\ io = NoIO /\ io.served = FALSE
          /\ find.own # NoId => find.own = draft.id
        BY <1>2, InitFile
    <2> QED BY <1>5, <2>1, <2>2, <2>3, <2>4 DEF FlagInv
<1>8. LogInv
    <2>1. DOMAIN feed = {} /\ Told = last.values
        BY <1>1, Nothing DEF Told
    <2>2. LogOrder(queue)
        BY <1>5 DEF LogOrder
    <2>3. last.id # NoId => records[last.id] = last.values
        BY <1>1, InitIs
    <2> QED BY <1>1, <1>2, <1>5, <2>1, <2>2, <2>3 DEF LogInv, IsSave
<1>9. LineInv
    <2> SUFFICES ASSUME HasLines, draft.id # NoId
                 PROVE  LinesCome(queue, draft.id, rows = LineOf(draft.id))
        BY DEF LineInv
    <2>1. PICK k \in DOMAIN queue : queue[k] = LoadLines(opened.id, "list")
        BY <1>2, <1>3 DEF Elems
    <2>2. ListLoad(queue[k], draft.id)
        BY <1>2, <2>1 DEF ListLoad, LoadLines
    <2>3. \A i \in DOMAIN queue : ~StrayLine(queue[i], draft.id)
        BY <1>5 DEF StrayLine
    <2> QED BY <2>2, <2>3, Zenon DEF LinesCome
<1>10. \A c \in Elems(queue) : c.kind = "links" => ~c.read /\ DOMAIN c.found = {}
    <2>1. ~LoadLinks(opened.id).read /\ DOMAIN LoadLinks(opened.id).found = {}
        BY Nothing DEF LoadLinks
    <2> QED BY <1>3, <2>1
<1>11. TagInv
    <2>1. ASSUME HasTags, draft.id # NoId
          PROVE  LinksCome(queue, draft.id, links = RelatedOf(draft.id))
        <3>1. PICK k \in DOMAIN queue : queue[k] = LoadLinks(opened.id)
            BY <1>2, <1>3, <2>1 DEF Elems
        <3>2. LinkLoad(queue[k], draft.id) /\ ~queue[k].read
            BY <1>2, <3>1 DEF LinkLoad, LoadLinks
        <3>3. \A i \in DOMAIN queue : ~StrayTag(queue[i], draft.id)
            BY <1>5 DEF StrayTag
        <3> QED BY <3>2, <3>3, Zenon DEF LinksCome
    <2> QED BY <1>5, <1>10, <2>1 DEF TagInv
<1>12. KnownInv
    <2>1. DOMAIN links = {}
        BY Nothing DEF Init, RelationInit
    <2> QED BY <1>5, <1>10, <2>1, InitIs DEF KnownInv
<1>13. MeantInv
    BY <1>1, <1>5 DEF MeantInv
<1> QED BY <1>4, <1>6, <1>7, <1>8, <1>9, <1>11, <1>12, <1>13 DEF IInv

----------------------------------------------------------------------------
(* Every step *)

\* A quiet step keeps the types, the Saves, the log and the flag.
LEMMA QuietKeeps ==
    ASSUME TypeInv, SaveInv, FlagInv, LogInv, NEW rest, NEW more, Quiet(rest, more)
    PROVE  TypeInv' /\ SaveInv' /\ FlagInv' /\ LogInv'
BY QuietTypes, QuietSave, QuietFlag, QuietLog

LEMMA WidgetsQuiet ==
    ASSUME TypeInv, Widgets1, Elsewhere
    PROVE  \E rest, more : Quiet(rest, more)
<1>1. CASE PickRef \/ ClearRef
    BY <1>1, RefQuiet
<1>2. CASE AddTag
    BY <1>2, AddTagQuiet
<1>3. CASE UnlinkTag
    BY <1>3, UnlinkTagQuiet
<1>4. CASE CloseDialog \/ \E w \in Pickers : OpenDialog(w)
    BY <1>4, DialogQuiet
<1>5. CASE SubmitDialog
    BY <1>5, SubmitQuiet
<1>6. CASE AnswerCreate
    BY <1>6, CreateQuiet
<1>7. CASE RejectCreate
    BY <1>7, RejectCreateQuiet
<1>8. CASE AnswerLinks
    BY <1>8, LinksQuiet
<1>9. CASE AnswerLink
    BY <1>9, LinkQuiet
<1>10. CASE AnswerUnlink
    BY <1>10, UnlinkQuiet
<1>11. CASE RejectLinks
    BY <1>11, RejectLinksQuiet
<1>12. CASE \E failed \in BOOLEAN : AnswerLines(failed)
    BY <1>12, LinesQuiet
<1> QED BY <1>1, <1>2, <1>3, <1>4, <1>5, <1>6, <1>7, <1>8, <1>9, <1>10, <1>11, <1>12 DEF Widgets1

LEMMA StepOK ==
    ASSUME IInv, Next
    PROVE  IInv'
<1>0. TypeInv /\ SaveInv /\ FlagInv /\ LogInv /\ LineInv /\ TagInv /\ KnownInv /\ MeantInv
    BY DEF IInv
<1>1. CASE Widgets1 /\ Elsewhere
    <2>1. PICK rest, more : Quiet(rest, more)
        BY <1>0, <1>1, WidgetsQuiet
    <2>2. TypeInv' /\ SaveInv' /\ FlagInv' /\ LogInv'
        BY <1>0, <2>1, QuietKeeps
    <2>3. LineInv' /\ TagInv' /\ KnownInv' /\ MeantInv'
        BY <1>0, <1>1, LineWidgets, TagWidgets, KnownWidgets, MeantWidgets
    <2> QED BY <2>2, <2>3 DEF IInv
<1>2. CASE PressGenerate \/ \E failed \in BOOLEAN : AnswerGenerate(failed)
    <2>1. PICK rest, more : Quiet(rest, more)
        BY <1>0, <1>2, PressGenerateQuiet, GenerateQuiet
    <2>2. TypeInv' /\ SaveInv' /\ FlagInv' /\ LogInv'
        BY <1>0, <2>1, QuietKeeps
    <2>3. LineInv' /\ TagInv' /\ KnownInv' /\ MeantInv'
        BY <1>0, <1>2, LineSteps, TagSteps, KnownSteps, MeantSteps
    <2> QED BY <2>2, <2>3 DEF IInv
<1>3. CASE \/ Save \/ ResetForm \/ PressButton \/ AnswerButton \/ AnswerSave \/ RejectCommit \/ Refresh
           \/ (\E failed \in BOOLEAN : AnswerLog(failed))
           \/ (Widgets2 /\ UNCHANGED <<relationVars, pageVars>>)
    <2>1. TypeInv'
        BY <1>0, <1>3, SaveStep, ResetStep, PressStep, ButtonStep, SavedStep, RejectStep, RefreshStep, LogStep, FileStep
    <2>2. SaveInv'
        BY <1>0, <1>3, SaveSteps
    <2>3. FlagInv'
        BY <1>0, <1>3, PageFlag, ResetFlag, AnswerFlag, RejectFlag, FileFlag
    <2>4. LogInv'
        <3>1. RejectCommit => LogInv'
            BY <1>0, RejectStep, LogOtherwise
        <3> QED BY <1>0, <1>3, <3>1, SaveLog, ResetLog, PressLog, ButtonLog, SavedLog, RefreshLog, LogLog, FileLog
    <2>5. LineInv' /\ TagInv' /\ KnownInv' /\ MeantInv'
        BY <1>0, <1>3, LineSteps, TagSteps, KnownSteps, MeantSteps
    <2> QED BY <2>1, <2>2, <2>3, <2>4, <2>5 DEF IInv
<1> QED BY <1>1, <1>2, <1>3 DEF Next, Elsewhere

LEMMA StutterOK ==
    ASSUME IInv, UNCHANGED vars
    PROVE  IInv'
<1>0. /\ UNCHANGED <<fields, records, opened, draft, dirty, queue, ops, faults>>
      /\ UNCHANGED <<junctions, nextLink, links, muddled, existing, lines, rows, summed, dialog, strayed>>
      /\ UNCHANGED <<files, meta, find, io, strokes, torn>>
      /\ UNCHANGED <<submitting, running, last, feed, base, mute, broken, meant>>
    BY DEF vars, storeVars, relationVars, tagVars, fileVars, pageVars
<1>1. TypeInv'
    BY <1>0 DEF IInv, TypeInv, TypeOK, StoreTypeOK, RelationTypeOK, FileTypeOK, DialogInv, OpenedInv
<1>2. SaveInv'
    BY <1>0 DEF IInv, SaveInv
<1>3. FlagInv'
    BY <1>0 DEF IInv, FlagInv, NoFileInv, HasFile
<1>4. LogInv'
    BY <1>0 DEF IInv, LogInv, Told
<1>5. LineInv'
    BY <1>0 DEF IInv, LineInv, HasLines, LineOf
<1>6. TagInv'
    BY <1>0 DEF IInv, TagInv, HasTags, deferred, RelatedOf
<1>7. KnownInv'
    BY <1>0 DEF IInv, KnownInv
<1>8. MeantInv'
    BY <1>0 DEF IInv, MeantInv, deferred, Final, Kept, Linked, Unlinked
<1> QED BY <1>1, <1>2, <1>3, <1>4, <1>5, <1>6, <1>7, <1>8 DEF IInv

\* What the form knows of the calls on their way holds in every state it reaches.
THEOREM Inductive == Spec => []IInv
<1>1. Init => IInv
    BY InitOK
<1>2. IInv /\ [Next]_vars => IInv'
    BY StepOK, StutterOK
<1> QED BY <1>1, <1>2, PTL DEF Spec

----------------------------------------------------------------------------
(* Theorems *)

\* A clean form's flag says what the anchor of its file holds, for any number of
\* records, uploads and Saves: createFormStore's commit and useFileField's sync
\* write them apart.
THEOREM FlagTellsFileHolds == Spec => []FlagTellsFile
<1>1. IInv => FlagTellsFile
    BY DEF IInv, FlagInv, FlagTellsFile
<1> QED BY <1>1, Inductive, PTL

\* The log of a record leaves no gap, whatever was saved, pressed, reset or
\* refreshed while an entry was on its way (summarizeFieldChanges).
THEOREM LogAccountsForRecordHolds == Spec => []LogAccountsForRecord
<1>1. ASSUME IInv PROVE LogAccountsForRecord
    <2> SUFFICES ASSUME ~broken
                 PROVE  /\ \A i \in DOMAIN feed : feed[i].from = IF i = 1 THEN base ELSE feed[i - 1].to
                        /\ draft.id # NoId /\ ~mute /\ ~Queued({"commit", "log"}) => records[draft.id] = Told
        BY DEF LogAccountsForRecord
    <2>1. /\ \A i \in DOMAIN feed : feed[i].from = IF i = 1 THEN base ELSE feed[i - 1].to
          /\ (\A c \in Elems(queue) : ~IsLog(c)) => last.values = Told
          /\ draft.id # NoId => last.id = draft.id
          /\ last.id # NoId /\ ~mute => records[last.id] = last.values
        BY <1>1 DEF IInv, LogInv
    <2>2. ~Queued({"commit", "log"}) => \A c \in Elems(queue) : ~IsLog(c)
        BY DEF Queued, Elems, IsLog
    <2> QED BY <2>1, <2>2
<1> QED BY <1>1, Inductive, PTL

\* A form with nothing under way shows the links and the lines of its record, in
\* whatever order the reads, the writes and the change of its id were answered
\* (RelationTagsWidget, RelationListWidget).
THEOREM WidgetsShowRowsHolds == Spec => []WidgetsShowRows
<1>1. ASSUME IInv PROVE WidgetsShowRows
    <2> SUFFICES ASSUME queue = <<>>, draft.id # NoId, faults = 0
                 PROVE  /\ HasTags /\ ~muddled => links = RelatedOf(draft.id)
                        /\ HasLines /\ ~strayed => rows = LineOf(draft.id)
        BY DEF WidgetsShowRows
    <2>1. DOMAIN queue = {}
        BY Nothing
    <2>2. \A own, shownNow : LinksCome(queue, own, shownNow) => shownNow
        BY <2>1, Zenon DEF LinksCome
    <2>3. \A own, shownNow : LinesCome(queue, own, shownNow) => shownNow
        BY <2>1, Zenon DEF LinesCome
    <2>4. HasTags /\ ~muddled => LinksCome(queue, draft.id, links = RelatedOf(draft.id))
        BY <1>1 DEF IInv, TagInv
    <2>5. HasLines /\ ~strayed => LinesCome(queue, draft.id, rows = LineOf(draft.id))
        BY <1>1 DEF IInv, LineInv
    <2> QED BY <2>2, <2>3, <2>4, <2>5, Zenon
<1> QED BY <1>1, Inductive, PTL

\* The tags that were on screen when Save was pressed are the record's once its
\* flush is done, for any number of tags, Saves and buttons (flushStagedLinks).
THEOREM StagedTagsReachServerHolds == Spec => []StagedTagsReachServer
<1>1. ASSUME IInv PROVE StagedTagsReachServer
    <2> SUFFICES ASSUME ~Queued({"link", "unlink"}), meant # Unknown, faults = 0
                 PROVE  {RelatedOf(meant.own)[j] : j \in DOMAIN RelatedOf(meant.own)} = meant.tags
        BY DEF StagedTagsReachServer
    <2>1. Final(queue, meant.own) = meant.tags
        BY <1>1 DEF IInv, MeantInv
    <2>2. \A c \in Elems(queue) : c.kind \notin {"link", "unlink"}
        BY DEF Queued, Elems
    <2>3. Unlinked(queue) = {} /\ Linked(queue, meant.own) = {}
        BY <2>2 DEF Unlinked, Linked
    <2>4. {RelatedOf(meant.own)[j] : j \in DOMAIN RelatedOf(meant.own)} = Kept(meant.own, {})
        BY DEF RelatedOf, Kept
    <2> QED BY <2>1, <2>3, <2>4 DEF Final
<1> QED BY <1>1, Inductive, PTL
=============================================================================
