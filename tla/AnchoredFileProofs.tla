------------------------- MODULE AnchoredFileProofs -------------------------
(* Proofs about AnchoredFile for any number of requests, anchors, keys and  *)
(* rows: a row always has its object, an anchor has one row, and the        *)
(* service implements FileSlots.                                            *)
EXTENDS AnchoredFile, TLAPS

Works == [anchor : Anchors \cup {None}, key : Keys \cup {None},
          id : RowIds \cup {None}, old : Keys \cup {None}]

LEMMA WorkTyped ==
  /\ NoReq \in Works
  /\ \A a \in Anchors \cup {None}, k, o \in Keys \cup {None},
        i \in RowIds \cup {None} : Work(a, k, i, o) \in Works
  BY DEF Works, NoReq, Work

LEMMA InitTyped == Init => TypeOK
  BY WorkTyped DEF Init, TypeOK, Works, Steps

\* Rows stay well typed whatever statement is applied.
LEMMA RowsTyped ==
  ASSUME TypeOK, NEW r \in Requests,
         \/ pc[r] = "replace" /\ ReplaceRow(r)
         \/ pc[r] = "create" /\ \E i \in RowIds : InsertRow(r, i)
         \/ pc[r] = "deleteRow" /\ RemoveRow(r)
  PROVE  /\ DOMAIN rows' \subseteq RowIds
         /\ rows' \in [DOMAIN rows' -> [anchor : Anchors, key : Keys]]
  <1>1. CASE pc[r] = "replace" /\ ReplaceRow(r)
    <2>1. Row(rows[req[r].id].anchor, req[r].key)
             \in [anchor : Anchors, key : Keys]
      BY <1>1 DEF TypeOK, ReplaceRow, Row
    <2> QED
      BY <1>1, <2>1 DEF TypeOK, ReplaceRow
  <1>2. CASE pc[r] = "create" /\ \E i \in RowIds : InsertRow(r, i)
    <2>1. Row(req[r].anchor, req[r].key) \in [anchor : Anchors, key : Keys]
      BY <1>2 DEF TypeOK, Row
    <2> QED
      BY <1>2, <2>1 DEF TypeOK, InsertRow
  <1>3. CASE pc[r] = "deleteRow" /\ RemoveRow(r)
    BY <1>3 DEF TypeOK, RemoveRow
  <1> QED
    BY <1>1, <1>2, <1>3

LEMMA NextTyped == TypeOK /\ [Next]_vars => TypeOK'
  <1> SUFFICES ASSUME TypeOK, [Next]_vars PROVE TypeOK'
    OBVIOUS
  <1>0. CASE UNCHANGED vars
    BY <1>0 DEF vars, TypeOK
  <1>1. ASSUME NEW r \in Requests, NEW a \in Anchors, NEW k \in Keys,
               UploadPut(r, a, k)
        PROVE  TypeOK'
    BY <1>1, WorkTyped DEF UploadPut, Started, TypeOK, Works, Steps, Work
  <1>2. ASSUME NEW r \in Requests, NEW k \in Keys, UploadPutFails(r, k)
        PROVE  TypeOK'
    BY <1>2 DEF UploadPutFails, TypeOK
  <1>3. ASSUME NEW r \in Requests, UploadFind(r) PROVE TypeOK'
    <2>1. CASE \E i \in OnAnchor(req[r].anchor) :
                 /\ pc' = [pc EXCEPT ![r] = "replace"]
                 /\ req' = [req EXCEPT ![r] = Work(req[r].anchor, req[r].key,
                                                   i, rows[i].key)]
      <3>1. PICK i \in OnAnchor(req[r].anchor) :
                 /\ pc' = [pc EXCEPT ![r] = "replace"]
                 /\ req' = [req EXCEPT ![r] = Work(req[r].anchor, req[r].key,
                                                   i, rows[i].key)]
        BY <2>1
      <3>2. i \in RowIds /\ rows[i].key \in Keys
        BY DEF OnAnchor, TypeOK
      <3>3. Work(req[r].anchor, req[r].key, i, rows[i].key) \in Works
        BY <3>2, WorkTyped DEF TypeOK
      <3> QED
        BY <1>3, <3>1, <3>2, <3>3
        DEF UploadFind, TypeOK, Works, Steps, Work
    <2>2. CASE pc' = [pc EXCEPT ![r] = "create"] /\ UNCHANGED req
      BY <1>3, <2>2 DEF UploadFind, TypeOK, Steps
    <2> QED
      BY <1>3, <2>1, <2>2 DEF UploadFind
  <1>4. ASSUME NEW r \in Requests, UploadReplace(r) PROVE TypeOK'
    BY <1>4, RowsTyped DEF UploadReplace, TypeOK, Steps
  <1>5. ASSUME NEW r \in Requests, NEW i \in RowIds, UploadCreate(r, i)
        PROVE  TypeOK'
    <2>1. /\ DOMAIN rows' \subseteq RowIds
          /\ rows' \in [DOMAIN rows' -> [anchor : Anchors, key : Keys]]
      BY <1>5, RowsTyped DEF UploadCreate
    <2> QED
      BY <1>5, <2>1, WorkTyped
      DEF UploadCreate, InsertRow, Reply, TypeOK, Works, Steps
  <1>6. ASSUME NEW r \in Requests, NEW i \in RowIds, DeleteFind(r, i)
        PROVE  TypeOK'
    BY <1>6, WorkTyped DEF DeleteFind, Started, TypeOK, Works, Steps, Work
  <1>7. ASSUME NEW r \in Requests, DeleteRow(r) PROVE TypeOK'
    BY <1>7, RowsTyped DEF DeleteRow, TypeOK, Steps
  <1>8. ASSUME NEW r \in Requests, Purge(r) PROVE TypeOK'
    BY <1>8, WorkTyped DEF Purge, Reply, TypeOK, Works, Steps
  <1>9. ASSUME NEW r \in Requests, Abort(r) PROVE TypeOK'
    BY <1>9, WorkTyped DEF Abort, Reply, TypeOK, Works, Steps
  <1>10. ASSUME NEW r \in Requests, AbortAfterWrite(r) PROVE TypeOK'
    <2>1. /\ DOMAIN rows' \subseteq RowIds
          /\ rows' \in [DOMAIN rows' -> [anchor : Anchors, key : Keys]]
      BY <1>10, RowsTyped DEF AbortAfterWrite
    <2>2. usedIds' \subseteq RowIds
      BY <1>10 DEF AbortAfterWrite, InsertRow, TypeOK
    <2> QED
      BY <1>10, <2>1, <2>2, WorkTyped
      DEF AbortAfterWrite, Reply, TypeOK, Works, Steps
  <1> QED
    BY <1>0, <1>1, <1>2, <1>3, <1>4, <1>5, <1>6, <1>7, <1>8, <1>9, <1>10
    DEF Next, Step

\* Every reachable state of the table, the object store and the requests is
\* well typed.
THEOREM TypeCorrect == Spec => []TypeOK
  BY InitTyped, NextTyped, PTL DEF Spec

-----------------------------------------------------------------------------
(* No row without its object.                                              *)

Inductive ==
  TypeOK /\ NoRowWithoutObject /\ OneRowPerAnchor /\ KeysPrivate

LEMMA InitPrivate == Init => Inductive
  BY InitTyped
  DEF Init, Inductive, NoRowWithoutObject, OneRowPerAnchor, KeysPrivate,
      RowKeys, Uploading

\* The three statements a request applies to the table: at most its own key
\* joins the keys of the rows, and the rows stay one per anchor and object.
LEMMA StatementEffect ==
  ASSUME Inductive, NEW r \in Requests,
         \/ pc[r] = "replace" /\ ReplaceRow(r) /\ UNCHANGED usedIds
         \/ pc[r] = "create" /\ \E i \in RowIds : InsertRow(r, i)
         \/ pc[r] = "deleteRow" /\ RemoveRow(r) /\ UNCHANGED usedIds
  PROVE  /\ OneRowPerAnchor'
         /\ DOMAIN rows' \subseteq usedIds'
         /\ RowKeys' \subseteq
              RowKeys \cup (IF Uploading(r) THEN {req[r].key} ELSE {})
         /\ \A i \in DOMAIN rows' :
              \/ i \in DOMAIN rows /\ rows'[i] = rows[i]
              \/ Uploading(r) /\ rows'[i].key = req[r].key
         /\ pc[r] \in {"replace", "deleteRow"} =>
              \A i \in DOMAIN rows' : rows'[i].key # req[r].old
  <1> USE DEF Inductive
  <1>1. CASE pc[r] = "replace" /\ ReplaceRow(r) /\ UNCHANGED usedIds
    <2>1. /\ DOMAIN rows' = DOMAIN rows
          /\ rows'[req[r].id].key = req[r].key
          /\ rows'[req[r].id].anchor = rows[req[r].id].anchor
          /\ \A i \in DOMAIN rows \ {req[r].id} : rows'[i] = rows[i]
      BY <1>1 DEF ReplaceRow, TypeOK, Row
    <2>2. Uploading(r) /\ req[r].key \notin RowKeys
      BY <1>1 DEF KeysPrivate, Uploading
    <2>3. OneRowPerAnchor'
      BY <2>1, <2>2 DEF OneRowPerAnchor, RowKeys
    <2>4. \A i \in DOMAIN rows' : rows'[i].key # req[r].old
      BY <1>1, <2>1, <2>2 DEF KeysPrivate
    <2> QED
      BY <1>1, <2>1, <2>2, <2>3, <2>4 DEF RowKeys, KeysPrivate
  <1>2. CASE pc[r] = "create" /\ \E i \in RowIds : InsertRow(r, i)
    <2>1. PICK n \in RowIds : InsertRow(r, n)
      BY <1>2
    <2>2. /\ DOMAIN rows' = DOMAIN rows \cup {n} /\ n \notin DOMAIN rows
          /\ rows'[n].key = req[r].key /\ rows'[n].anchor = req[r].anchor
          /\ \A i \in DOMAIN rows : rows'[i] = rows[i]
          /\ \A i \in DOMAIN rows : rows[i].anchor # req[r].anchor
      BY <2>1 DEF InsertRow, KeysPrivate, Row, OnAnchor
    <2>3. Uploading(r) /\ req[r].key \notin RowKeys
      BY <1>2 DEF KeysPrivate, Uploading
    <2>4. OneRowPerAnchor'
      BY <2>2, <2>3 DEF OneRowPerAnchor, RowKeys
    <2> QED
      BY <1>2, <2>1, <2>2, <2>3, <2>4 DEF RowKeys, KeysPrivate, InsertRow
  <1>3. CASE pc[r] = "deleteRow" /\ RemoveRow(r) /\ UNCHANGED usedIds
    <2>1. /\ DOMAIN rows' = DOMAIN rows \ {req[r].id}
          /\ \A i \in DOMAIN rows' : rows'[i] = rows[i]
      BY <1>3 DEF RemoveRow
    <2> QED
      BY <1>3, <2>1 DEF RowKeys, KeysPrivate, OneRowPerAnchor, Uploading
  <1> QED
    BY <1>1, <1>2, <1>3

\* After a statement, whether the request goes on to purge or ends.
LEMMA StatementKeeps ==
  ASSUME Inductive, NEW r \in Requests,
         \/ pc[r] = "replace" /\ ReplaceRow(r) /\ UNCHANGED usedIds
         \/ pc[r] = "create" /\ \E i \in RowIds : InsertRow(r, i)
         \/ pc[r] = "deleteRow" /\ RemoveRow(r) /\ UNCHANGED usedIds,
         UNCHANGED <<objects, usedKeys>>,
         \/ Reply(r)
         \/ /\ pc[r] \in {"replace", "deleteRow"}
            /\ pc' = [pc EXCEPT ![r] = "purge"] /\ UNCHANGED req
  PROVE  NoRowWithoutObject' /\ OneRowPerAnchor' /\ KeysPrivate'
  <1> USE DEF Inductive
  <1>1. /\ \A q \in Requests \ {r} : pc'[q] = pc[q] /\ req'[q] = req[q]
        /\ \/ pc'[r] = "idle"
           \/ /\ pc[r] \in {"replace", "deleteRow"}
              /\ pc'[r] = "purge" /\ req'[r] = req[r]
    BY DEF Reply, TypeOK
  <1>2. NoRowWithoutObject'
    BY StatementEffect DEF NoRowWithoutObject, KeysPrivate
  <1>3. \A q \in Requests : Uploading(q)' =>
          /\ q # r /\ Uploading(q) /\ req'[q] = req[q]
          /\ req[q].key \in objects /\ req[q].key \notin RowKeys'
    BY <1>1, StatementEffect DEF KeysPrivate, Uploading
  <1>4. ASSUME NEW q \in Requests,
               pc'[q] \in {"replace", "deleteRow", "purge"}
        PROVE  /\ req'[q].old \in usedKeys'
               /\ \A p \in Requests : Uploading(p)' =>
                    req'[p].key # req'[q].old
               /\ \A i \in DOMAIN rows' : rows'[i].key = req'[q].old =>
                    pc'[q] # "purge" /\ i = req'[q].id
    <2>1. CASE q = r
      BY <1>1, <1>3, <1>4, <2>1, StatementEffect DEF KeysPrivate
    <2>2. CASE q # r
      BY <1>1, <1>3, <1>4, <2>2, StatementEffect DEF KeysPrivate
    <2> QED
      BY <2>1, <2>2
  <1>5. KeysPrivate'
    BY <1>3, <1>4, StatementEffect DEF KeysPrivate
  <1> QED
    BY <1>2, <1>5, StatementEffect

LEMMA NextPrivate == Inductive /\ [Next]_vars => Inductive'
  <1> SUFFICES ASSUME Inductive, [Next]_vars PROVE Inductive'
    OBVIOUS
  <1> USE DEF Inductive
  <1>t. TypeOK'
    BY NextTyped
  <1>0. CASE UNCHANGED vars
    BY <1>t, <1>0
    DEF vars, NoRowWithoutObject, OneRowPerAnchor, KeysPrivate, RowKeys,
        Uploading
  <1>1. ASSUME NEW r \in Requests, NEW a \in Anchors, NEW k \in Keys,
               UploadPut(r, a, k)
        PROVE  Inductive'
    <2>1. /\ \A q \in Requests \ {r} : pc'[q] = pc[q] /\ req'[q] = req[q]
          /\ pc'[r] = "find" /\ req'[r].key = k
      BY <1>1 DEF UploadPut, TypeOK, Work
    <2>2. /\ k \notin usedKeys /\ k \notin RowKeys /\ RowKeys \subseteq objects
          /\ objects \subseteq usedKeys
      BY <1>1 DEF UploadPut, KeysPrivate, NoRowWithoutObject
    <2>3. /\ rows' = rows /\ RowKeys' = RowKeys /\ usedIds' = usedIds
          /\ objects' = objects \cup {k} /\ usedKeys' = usedKeys \cup {k}
      BY <1>1 DEF UploadPut, RowKeys
    <2>4. KeysPrivate'
      BY <2>1, <2>2, <2>3 DEF KeysPrivate, Uploading
    <2> QED
      BY <1>t, <2>2, <2>3, <2>4 DEF NoRowWithoutObject, OneRowPerAnchor
  <1>2. ASSUME NEW r \in Requests, NEW k \in Keys, UploadPutFails(r, k)
        PROVE  Inductive'
    BY <1>t, <1>2
    DEF UploadPutFails, NoRowWithoutObject, OneRowPerAnchor, KeysPrivate,
        RowKeys, Uploading
  <1>3. ASSUME NEW r \in Requests, UploadFind(r) PROVE Inductive'
    <2>1. /\ \A q \in Requests \ {r} : pc'[q] = pc[q] /\ req'[q] = req[q]
          /\ pc[r] = "find" /\ req'[r].key = req[r].key
          /\ pc'[r] \in {"replace", "create"}
          /\ pc'[r] = "replace" =>
               \E i \in DOMAIN rows : req'[r].id = i /\ req'[r].old = rows[i].key
      BY <1>3 DEF UploadFind, TypeOK, OnAnchor, Work
    <2>2. /\ rows' = rows /\ RowKeys' = RowKeys /\ usedIds' = usedIds
          /\ objects' = objects /\ usedKeys' = usedKeys
      BY <1>3 DEF UploadFind, RowKeys
    <2>3. KeysPrivate'
      BY <2>1, <2>2
      DEF KeysPrivate, Uploading, NoRowWithoutObject, OneRowPerAnchor, RowKeys
    <2> QED
      BY <1>t, <2>2, <2>3 DEF NoRowWithoutObject, OneRowPerAnchor
  <1>4. ASSUME NEW r \in Requests, UploadReplace(r) PROVE Inductive'
    BY <1>t, <1>4, StatementKeeps DEF UploadReplace
  <1>5. ASSUME NEW r \in Requests, NEW i \in RowIds, UploadCreate(r, i)
        PROVE  Inductive'
    BY <1>t, <1>5, StatementKeeps DEF UploadCreate
  <1>6. ASSUME NEW r \in Requests, NEW i \in RowIds, DeleteFind(r, i)
        PROVE  Inductive'
    <2>1. /\ \A q \in Requests \ {r} : pc'[q] = pc[q] /\ req'[q] = req[q]
          /\ pc'[r] = "deleteRow" /\ i \in DOMAIN rows
          /\ req'[r].id = i /\ req'[r].old = rows[i].key
      BY <1>6 DEF DeleteFind, TypeOK, Work
    <2>2. /\ rows' = rows /\ RowKeys' = RowKeys /\ usedIds' = usedIds
          /\ objects' = objects /\ usedKeys' = usedKeys
      BY <1>6 DEF DeleteFind, RowKeys
    <2>3. KeysPrivate'
      BY <2>1, <2>2
      DEF KeysPrivate, Uploading, NoRowWithoutObject, OneRowPerAnchor, RowKeys
    <2> QED
      BY <1>t, <2>2, <2>3 DEF NoRowWithoutObject, OneRowPerAnchor
  <1>7. ASSUME NEW r \in Requests, DeleteRow(r) PROVE Inductive'
    BY <1>t, <1>7, StatementKeeps DEF DeleteRow
  <1>8. ASSUME NEW r \in Requests, Purge(r) PROVE Inductive'
    <2>1. /\ \A q \in Requests \ {r} : pc'[q] = pc[q] /\ req'[q] = req[q]
          /\ pc'[r] = "idle" /\ pc[r] = "purge"
      BY <1>8 DEF Purge, Reply, TypeOK
    <2>2. /\ rows' = rows /\ RowKeys' = RowKeys /\ usedIds' = usedIds
          /\ objects' = objects \ {req[r].old} /\ usedKeys' = usedKeys
      BY <1>8 DEF Purge, RowKeys
    <2>3. req[r].old \notin RowKeys
      BY <2>1 DEF KeysPrivate, RowKeys
    <2>4. KeysPrivate'
      BY <2>1, <2>2 DEF KeysPrivate, Uploading
    <2> QED
      BY <1>t, <2>2, <2>3, <2>4 DEF NoRowWithoutObject, OneRowPerAnchor
  <1>9. ASSUME NEW r \in Requests, Abort(r) PROVE Inductive'
    <2>1. /\ \A q \in Requests \ {r} : pc'[q] = pc[q] /\ req'[q] = req[q]
          /\ pc'[r] = "idle"
      BY <1>9 DEF Abort, Reply, TypeOK
    <2> QED
      BY <1>t, <1>9, <2>1
      DEF Abort, KeysPrivate, Uploading, NoRowWithoutObject, OneRowPerAnchor,
          RowKeys
  <1>10. ASSUME NEW r \in Requests, AbortAfterWrite(r) PROVE Inductive'
    BY <1>t, <1>10, StatementKeeps DEF AbortAfterWrite
  <1> QED
    BY <1>0, <1>1, <1>2, <1>3, <1>4, <1>5, <1>6, <1>7, <1>8, <1>9, <1>10
    DEF Next, Step

LEMMA InductiveHolds == Spec => []Inductive
  BY InitPrivate, NextPrivate, PTL DEF Spec

\* However uploads and deletes interleave, and wherever they fail, a row never
\* points at a missing object.
THEOREM RowsHaveObjects == Spec => []NoRowWithoutObject
  BY InductiveHolds, PTL DEF Inductive

\* An anchor has one row, and no two rows share an object.
THEOREM AnchorsHaveOneRow == Spec => []OneRowPerAnchor
  BY InductiveHolds, PTL DEF Inductive

\* Objects waiting for a row, or for removal, are private to their request.
THEOREM KeysArePrivate == Spec => []KeysPrivate
  BY InductiveHolds, PTL DEF Inductive

-----------------------------------------------------------------------------
(* Leaks.                                                                  *)

\* In a clean run at most one request is at work, the row it replaces or deletes
\* is as it was read, and every object is a row's or that request's.
Waits(r, o) ==
  \/ Uploading(r) /\ req[r].key = o
  \/ pc[r] = "purge" /\ req[r].old = o
LeakInv ==
  clean =>
    /\ \A r, q \in Requests : pc[r] # "idle" /\ pc[q] # "idle" => r = q
    /\ \A r \in Requests : pc[r] \in {"replace", "deleteRow"} =>
         req[r].id \in DOMAIN rows /\ rows[req[r].id].key = req[r].old
    /\ \A o \in objects : o \in RowKeys \/ \E r \in Requests : Waits(r, o)

\* A step that leaves the run clean was the only request's, and says where the
\* request stands: enough for the first two parts.
LEMMA AloneKept ==
  ASSUME TypeOK, LeakInv, NEW r \in Requests, Step(r), clean'
  PROVE  /\ clean
         /\ \A q \in Requests \ {r} : pc[q] = "idle" /\ pc'[q] = "idle"
  <1>1. CASE \/ \E a \in Anchors, k \in Keys : UploadPut(r, a, k)
             \/ \E i \in RowIds : DeleteFind(r, i)
    BY <1>1 DEF UploadPut, DeleteFind, Started, TypeOK
  <1>2. CASE \/ UploadFind(r) \/ UploadReplace(r) \/ DeleteRow(r) \/ Purge(r)
             \/ \E i \in RowIds : UploadCreate(r, i)
    <2>1. pc[r] # "idle" /\ clean /\ \A q \in Requests \ {r} : pc'[q] = pc[q]
      BY <1>2
      DEF UploadFind, UploadReplace, DeleteRow, Purge, UploadCreate, Reply, TypeOK
    <2> QED
      BY <2>1 DEF LeakInv
  <1> QED
    BY <1>1, <1>2 DEF Step, UploadPutFails, Abort, AbortAfterWrite

\* With the others idle, LeakInv speaks of the request r alone.
LEMMA LeakInvOfOne ==
  ASSUME NEW r \in Requests, \A q \in Requests \ {r} : pc'[q] = "idle",
         pc'[r] \in {"replace", "deleteRow"} =>
           req'[r].id \in DOMAIN rows' /\ rows'[req'[r].id].key = req'[r].old,
         \A o \in objects' : o \in RowKeys' \/ Waits(r, o)'
  PROVE  LeakInv'
  BY DEF LeakInv

LEMMA NextLeak == Inductive /\ LeakInv /\ [Next]_vars => LeakInv'
  <1> SUFFICES ASSUME Inductive, LeakInv, [Next]_vars, clean' PROVE LeakInv'
    BY DEF LeakInv
  <1>0. CASE UNCHANGED vars
    BY <1>0 DEF vars, LeakInv, RowKeys, Waits, Uploading
  <1>1. ASSUME NEW r \in Requests, Step(r) PROVE LeakInv'
    <2>t. TypeOK /\ RowKeys \subseteq objects
      BY DEF Inductive, NoRowWithoutObject
    <2>a. clean /\ \A q \in Requests \ {r} : pc[q] = "idle" /\ pc'[q] = "idle"
      BY <1>1, <2>t, AloneKept
    <2>o. \A o \in objects : o \in RowKeys \/ Waits(r, o)
      BY <2>a DEF LeakInv, Waits, Uploading
    <2>1. ASSUME NEW a \in Anchors, NEW k \in Keys, UploadPut(r, a, k)
          PROVE  LeakInv'
      <3>1. /\ pc'[r] = "find" /\ req'[r].key = k /\ objects' = objects \cup {k}
            /\ RowKeys' = RowKeys
            /\ pc[r] = "idle"
        BY <2>1, <2>t DEF UploadPut, TypeOK, Work, RowKeys
      <3> QED
        BY <3>1, <2>a, <2>o, LeakInvOfOne DEF Waits, Uploading
    <2>2. CASE UploadFind(r)
      <3>1. /\ pc[r] = "find" /\ pc'[r] \in {"replace", "create"}
            /\ req'[r].key = req[r].key
            /\ UNCHANGED <<rows, objects>> /\ RowKeys' = RowKeys
            /\ pc'[r] = "replace" =>
                 req'[r].id \in DOMAIN rows' /\ rows'[req'[r].id].key = req'[r].old
        BY <2>2, <2>t DEF UploadFind, TypeOK, OnAnchor, Work, RowKeys
      <3> QED
        BY <3>1, <2>a, <2>o, LeakInvOfOne DEF Waits, Uploading
    <2>3. CASE UploadReplace(r)
      <3>1. /\ pc[r] = "replace" /\ pc'[r] = "purge"
            /\ UNCHANGED <<objects, req>>
            /\ DOMAIN rows' = DOMAIN rows
            /\ rows'[req[r].id].key = req[r].key
            /\ \A i \in DOMAIN rows \ {req[r].id} : rows'[i] = rows[i]
        BY <2>3, <2>t DEF UploadReplace, ReplaceRow, TypeOK, Row
      <3>2. req[r].id \in DOMAIN rows /\ rows[req[r].id].key = req[r].old
        BY <3>1, <2>a DEF LeakInv
      <3>3. \A o \in RowKeys : o \in RowKeys' \/ o = req[r].old
        BY <3>1, <3>2 DEF RowKeys
      <3>4. req[r].key \in RowKeys'
        BY <3>1, <3>2 DEF RowKeys
      <3>5. \A o \in objects' : o \in RowKeys' \/ Waits(r, o)'
        BY <3>1, <3>3, <3>4, <2>o DEF Waits, Uploading
      <3> QED
        BY <3>1, <3>5, <2>a, LeakInvOfOne
    <2>4. ASSUME NEW i \in RowIds, UploadCreate(r, i) PROVE LeakInv'
      <3>1. /\ pc[r] = "create" /\ pc'[r] = "idle" /\ objects' = objects
            /\ DOMAIN rows' = DOMAIN rows \cup {i} /\ rows'[i].key = req[r].key
            /\ \A j \in DOMAIN rows \ {i} : rows'[j] = rows[j]
            /\ i \notin DOMAIN rows
        BY <2>4, <2>t
        DEF UploadCreate, InsertRow, Reply, TypeOK, Row, Inductive, KeysPrivate
      <3>2. \A o \in objects' : o \in RowKeys'
        BY <3>1, <2>o DEF Waits, Uploading, RowKeys
      <3> QED
        BY <3>1, <3>2, <2>a, LeakInvOfOne
    <2>5. ASSUME NEW i \in RowIds, DeleteFind(r, i) PROVE LeakInv'
      <3>1. /\ pc[r] = "idle" /\ pc'[r] = "deleteRow"
            /\ UNCHANGED <<rows, objects>> /\ RowKeys' = RowKeys
            /\ req'[r].id \in DOMAIN rows' /\ rows'[req'[r].id].key = req'[r].old
        BY <2>5, <2>t DEF DeleteFind, TypeOK, Work, RowKeys
      <3> QED
        BY <3>1, <2>a, <2>o, LeakInvOfOne DEF Waits, Uploading
    <2>6. CASE DeleteRow(r)
      <3>1. /\ pc[r] = "deleteRow" /\ pc'[r] = "purge"
            /\ UNCHANGED <<objects, req>>
            /\ DOMAIN rows' = DOMAIN rows \ {req[r].id}
            /\ \A i \in DOMAIN rows' : rows'[i] = rows[i]
        BY <2>6, <2>t DEF DeleteRow, RemoveRow, TypeOK
      <3>2. rows[req[r].id].key = req[r].old
        BY <3>1, <2>a DEF LeakInv
      <3>3. \A o \in RowKeys : o \in RowKeys' \/ o = req[r].old
        BY <3>1, <3>2 DEF RowKeys
      <3>5. \A o \in objects' : o \in RowKeys' \/ Waits(r, o)'
        BY <3>1, <3>3, <2>o DEF Waits, Uploading
      <3> QED
        BY <3>1, <3>5, <2>a, LeakInvOfOne
    <2>7. CASE Purge(r)
      <3>1. /\ pc[r] = "purge" /\ pc'[r] = "idle" /\ RowKeys' = RowKeys
            /\ objects' = objects \ {req[r].old}
        BY <2>7, <2>t DEF Purge, Reply, TypeOK, RowKeys
      <3> QED
        BY <3>1, <2>a, <2>o, LeakInvOfOne DEF Waits, Uploading
    <2> QED
      BY <1>1, <2>1, <2>2, <2>3, <2>4, <2>5, <2>6, <2>7
      DEF Step, UploadPutFails, Abort, AbortAfterWrite
  <1> QED
    BY <1>0, <1>1 DEF Next

\* An object that belongs to no row, with nobody at work, is left by a failed call
\* or by two requests that overlapped.
THEOREM LeaksNeedTroubleHolds == Spec => []LeaksNeedTrouble
  <1>1. Init => LeakInv
    BY DEF Init, LeakInv
  <1>2. LeakInv => LeaksNeedTrouble
    BY DEF LeakInv, LeaksNeedTrouble, Waits, Uploading
  <1> QED
    BY <1>1, <1>2, NextLeak, InductiveHolds, PTL DEF Spec

-----------------------------------------------------------------------------
(* The service implements the slots.                                       *)

\* What a reader of an anchor sees is decided by the table alone.
VisibleIsRow ==
  \A a \in Anchors :
    /\ \A i \in DOMAIN rows : rows[i].anchor = a => Visible(a) = rows[i].key
    /\ (\A i \in DOMAIN rows : rows[i].anchor # a) => Visible(a) = None

LEMMA VisibleIsTheRow == Inductive => VisibleIsRow
  <1> SUFFICES ASSUME Inductive, NEW a \in Anchors
               PROVE  /\ \A i \in DOMAIN rows :
                           rows[i].anchor = a => Visible(a) = rows[i].key
                      /\ (\A i \in DOMAIN rows : rows[i].anchor # a)
                           => Visible(a) = None
    BY DEF VisibleIsRow
  <1>1. ASSUME NEW i \in DOMAIN rows, rows[i].anchor = a
        PROVE  Visible(a) = rows[i].key
    <2>1. rows[i].key \in objects
      BY DEF Inductive, NoRowWithoutObject, RowKeys
    <2>2. \A j \in OnAnchor(a) : j = i
      BY <1>1 DEF Inductive, OneRowPerAnchor, OnAnchor
    <2>3. i \in OnAnchor(a)
      BY <1>1 DEF OnAnchor
    <2>4. (CHOOSE j \in OnAnchor(a) : rows[j].key \in objects) = i
      BY <2>1, <2>2, <2>3
    <2> QED
      BY <1>1, <2>1, <2>4 DEF Visible
  <1> QED
    BY <1>1 DEF Visible

LEMMA VisibleIsTheRowNext == Inductive' => VisibleIsRow'
  BY VisibleIsTheRow, PTL

\* A step that leaves the table alone leaves every slot alone.
LEMMA SameRowsSameSlots ==
  ASSUME Inductive, Inductive', rows' = rows
  PROVE  \A a \in Anchors : Visible(a)' = Visible(a)
  BY VisibleIsTheRow, VisibleIsTheRowNext DEF VisibleIsRow

\* A statement changes one slot: to the request's new file, or to none.
LEMMA StatementIsSlotStep ==
  ASSUME Inductive, Inductive', NEW r \in Requests,
         \/ pc[r] = "replace" /\ ReplaceRow(r)
         \/ pc[r] = "create" /\ \E i \in RowIds : InsertRow(r, i)
         \/ pc[r] = "deleteRow" /\ RemoveRow(r)
  PROVE  Slots!Next \/ \A a \in Anchors : Visible(a)' = Visible(a)
  <1> USE VisibleIsTheRow, VisibleIsTheRowNext DEF VisibleIsRow
  <1>0. ASSUME NEW a \in Anchors, Uploading(r),
               \A b \in Anchors \ {a} : Visible(b)' = Visible(b),
               Visible(a)' = req[r].key
        PROVE  Slots!Next
    <2>1. req[r].key \in Keys /\ req[r].key \notin RowKeys
      BY <1>0 DEF Inductive, TypeOK, KeysPrivate, Uploading
    <2>2. \A b \in Anchors : Visible(b) # req[r].key
      BY <2>1, NoneNotKey DEF RowKeys
    <2>3. Slots!Store(a, req[r].key)
      BY <1>0, <2>2 DEF Slots!Store
    <2> QED
      BY <2>1, <2>3 DEF Slots!Next
  <1>1. CASE pc[r] = "replace" /\ ReplaceRow(r)
    <2>0. PICK a \in Anchors : a = rows[req[r].id].anchor
      BY <1>1 DEF Inductive, ReplaceRow, TypeOK
    <2>1. /\ DOMAIN rows' = DOMAIN rows /\ req[r].id \in DOMAIN rows
          /\ rows'[req[r].id].key = req[r].key
          /\ rows'[req[r].id].anchor = a /\ rows[req[r].id].anchor = a
          /\ \A i \in DOMAIN rows \ {req[r].id} : rows'[i] = rows[i]
      BY <1>1, <2>0 DEF Inductive, ReplaceRow, TypeOK, Row
    <2>2. Visible(a)' = req[r].key
      BY <2>1
    <2>3. \A b \in Anchors \ {a} : Visible(b)' = Visible(b)
      BY <2>1
    <2> QED
      BY <1>0, <1>1, <2>1, <2>2, <2>3 DEF Uploading
  <1>2. CASE pc[r] = "create" /\ \E i \in RowIds : InsertRow(r, i)
    <2>0. PICK a \in Anchors : a = req[r].anchor
      BY <1>2 DEF Inductive, TypeOK
    <2>1. PICK n \in RowIds : InsertRow(r, n)
      BY <1>2
    <2>2. /\ DOMAIN rows' = DOMAIN rows \cup {n} /\ n \notin DOMAIN rows
          /\ rows'[n].key = req[r].key /\ rows'[n].anchor = a
          /\ \A i \in DOMAIN rows : rows'[i] = rows[i]
      BY <1>2, <2>0, <2>1 DEF InsertRow, Inductive, KeysPrivate, TypeOK, Row
    <2>3. Visible(a)' = req[r].key
      BY <2>2
    <2>4. \A b \in Anchors \ {a} : Visible(b)' = Visible(b)
      BY <2>2
    <2> QED
      BY <1>0, <1>2, <2>2, <2>3, <2>4 DEF Uploading
  <1>3. CASE pc[r] = "deleteRow" /\ RemoveRow(r)
    <2>1. /\ DOMAIN rows' = DOMAIN rows \ {req[r].id}
          /\ \A i \in DOMAIN rows' : rows'[i] = rows[i]
      BY <1>3 DEF RemoveRow
    <2>2. CASE req[r].id \notin DOMAIN rows
      BY <2>1, <2>2
    <2>3. CASE req[r].id \in DOMAIN rows
      <3>1. PICK a \in Anchors : a = rows[req[r].id].anchor
        BY <2>3 DEF Inductive, TypeOK
      <3>2. \A i \in DOMAIN rows' : rows'[i].anchor # a
        BY <2>1, <2>3, <3>1 DEF Inductive, OneRowPerAnchor
      <3>3. Visible(a)' = None
        BY <3>2
      <3>4. \A b \in Anchors \ {a} : Visible(b)' = Visible(b)
        BY <2>1, <2>3, <3>1
      <3>5. Slots!Remove(a)
        BY <3>3, <3>4 DEF Slots!Remove
      <3> QED
        BY <3>5 DEF Slots!Next
    <2> QED
      BY <2>2, <2>3
  <1> QED
    BY <1>1, <1>2, <1>3

\* The service implements FileSlots: seen through the table and the store,
\* every step stores one file in one slot, empties one slot, or does nothing.
THEOREM ServiceImplementsSlots == Spec => ImplementsSlots
  <1>1. Init => Slots!Init
    BY DEF Init, Slots!Init, Visible
  <1>2. Inductive /\ Inductive' /\ [Next]_vars
          => [Slots!Next]_[a \in Anchors |-> Visible(a)]
    <2> SUFFICES ASSUME Inductive, Inductive', [Next]_vars
                 PROVE  \/ Slots!Next
                        \/ \A a \in Anchors : Visible(a)' = Visible(a)
      OBVIOUS
    <2>1. CASE rows' = rows
      BY <2>1, SameRowsSameSlots
    <2>2. CASE rows' # rows
      <3>1. PICK r \in Requests :
              UploadReplace(r) \/ (\E i \in RowIds : UploadCreate(r, i))
                \/ DeleteRow(r) \/ AbortAfterWrite(r)
        BY <2>2
        DEF Next, Step, vars, UploadPut, UploadPutFails, UploadFind,
            DeleteFind, Purge, Abort
      <3> QED
        BY <3>1, StatementIsSlotStep
        DEF UploadReplace, UploadCreate, DeleteRow, AbortAfterWrite
    <2> QED
      BY <2>1, <2>2
  <1> QED
    BY <1>1, <1>2, InductiveHolds, PTL DEF Spec, ImplementsSlots, Slots!Spec

=============================================================================
