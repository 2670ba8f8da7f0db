---------------------------- MODULE AnchoredFile ----------------------------
(***************************************************************************)
(* Files attached to a field of a record: internal/attachments, and        *)
(* internal/pictures, whose Upload, Find and Delete are the same code      *)
(* behind a MIME whitelist.  The bytes are objects of an S3 store, the     *)
(* metadata is a row of PostgreSQL with a unique index on the anchor; no   *)
(* transaction spans the two, and requests of different users interleave.  *)
(*                                                                         *)
(* Every store or database call is a step of its own and may fail, with or *)
(* without having taken effect; a request that fails, or whose process     *)
(* dies, leaves behind what it did so far.                                 *)
(***************************************************************************)
EXTENDS FiniteSets

CONSTANTS
  Requests,   \* concurrent HTTP requests
  Anchors,    \* (tenant, table, record, field)
  Keys,       \* object keys; the uuid in each makes it fresh
  RowIds,     \* row ids, fresh per insert
  None

ASSUME NoneNotKey == None \notin Keys \cup RowIds \cup Anchors

VARIABLES
  rows,       \* the attachment table: row id -> [anchor, key]
  objects,    \* keys with an object in the store
  usedKeys,   \* keys drawn so far
  usedIds,    \* row ids drawn so far
  pc,         \* where each request is
  req,        \* what it works on: anchor, key, id of the row, old key
  clean       \* auxiliary: no call failed and no two requests overlapped

vars == <<rows, objects, usedKeys, usedIds, pc, req, clean>>

Work(a, k, i, o) == [anchor |-> a, key |-> k, id |-> i, old |-> o]
NoReq == Work(None, None, None, None)

Row(a, k) == [anchor |-> a, key |-> k]
RowKeys == {rows[i].key : i \in DOMAIN rows}

\* FindByAnchor: the rows on an anchor.
OnAnchor(a) == {i \in DOMAIN rows : rows[i].anchor = a}

\* Auxiliary: a request starts; the run stays clean if it is alone.
Started(r) == clean' = (clean /\ \A q \in Requests \ {r} : pc[q] = "idle")

Reply(r) ==
  /\ pc' = [pc EXCEPT ![r] = "idle"]
  /\ req' = [req EXCEPT ![r] = NoReq]

-----------------------------------------------------------------------------
(* POST: Upload.                                                           *)

\* Mutant: the key is not fresh.
UploadPutSameKey(r, a, k) ==
  /\ pc[r] = "idle"
  /\ objects' = objects \cup {k}
  /\ usedKeys' = usedKeys \cup {k}
  /\ pc' = [pc EXCEPT ![r] = "find"]
  /\ req' = [req EXCEPT ![r] = Work(a, k, None, None)]
  /\ Started(r)
  /\ UNCHANGED <<rows, usedIds>>

\* The object lands first, under a fresh key.
UploadPut(r, a, k) ==
  /\ pc[r] = "idle"
  /\ k \notin usedKeys
  /\ objects' = objects \cup {k}
  /\ usedKeys' = usedKeys \cup {k}
  /\ pc' = [pc EXCEPT ![r] = "find"]
  /\ req' = [req EXCEPT ![r] = Work(a, k, None, None)]
  /\ Started(r)
  /\ UNCHANGED <<rows, usedIds>>

\* The put is reported as failed, whether or not the object is there.
UploadPutFails(r, k) ==
  /\ pc[r] = "idle"
  /\ k \notin usedKeys
  /\ usedKeys' = usedKeys \cup {k}
  /\ objects' \in {objects, objects \cup {k}}
  /\ clean' = FALSE
  /\ UNCHANGED <<rows, usedIds, pc, req>>

\* FindByAnchor decides between replacing a row and inserting one.
UploadFind(r) ==
  /\ pc[r] = "find"
  /\ \/ \E i \in OnAnchor(req[r].anchor) :
          /\ pc' = [pc EXCEPT ![r] = "replace"]
          /\ req' = [req EXCEPT ![r] = Work(req[r].anchor, req[r].key, i,
                                           rows[i].key)]
     \/ /\ OnAnchor(req[r].anchor) = {}
        /\ pc' = [pc EXCEPT ![r] = "create"]
        /\ UNCHANGED req
  /\ UNCHANGED <<rows, objects, usedKeys, usedIds, clean>>

\* UPDATE by id: the row, if it still exists, points at the new object.
ReplaceRow(r) ==
  /\ req[r].id \in DOMAIN rows
  /\ rows' = [rows EXCEPT ![req[r].id] = Row(rows[req[r].id].anchor, req[r].key)]

\* Mutant: the replaced object is not purged.
UploadReplaceNoPurge(r) ==
  /\ pc[r] = "replace"
  /\ ReplaceRow(r)
  /\ Reply(r)
  /\ UNCHANGED <<objects, usedKeys, usedIds, clean>>

UploadReplace(r) ==
  /\ pc[r] = "replace"
  /\ ReplaceRow(r)
  /\ pc' = [pc EXCEPT ![r] = "purge"]
  /\ UNCHANGED <<objects, usedKeys, usedIds, req, clean>>

\* Mutant: no unique index.
InsertRowAnyway(r, i) ==
  /\ i \notin usedIds
  /\ usedIds' = usedIds \cup {i}
  /\ rows' = [j \in DOMAIN rows \cup {i} |->
                IF j = i THEN Row(req[r].anchor, req[r].key) ELSE rows[j]]

\* INSERT: the unique index admits one row per anchor.
InsertRow(r, i) ==
  /\ i \notin usedIds
  /\ OnAnchor(req[r].anchor) = {}
  /\ usedIds' = usedIds \cup {i}
  /\ rows' = [j \in DOMAIN rows \cup {i} |->
                IF j = i THEN Row(req[r].anchor, req[r].key) ELSE rows[j]]

UploadCreate(r, i) ==
  /\ pc[r] = "create"
  /\ InsertRow(r, i)
  /\ Reply(r)
  /\ UNCHANGED <<objects, usedKeys, clean>>

-----------------------------------------------------------------------------
(* DELETE.                                                                 *)

\* Mutant: the object goes before the row.
DeleteFindPurgesFirst(r, i) ==
  /\ pc[r] = "idle"
  /\ i \in DOMAIN rows
  /\ objects' = objects \ {rows[i].key}
  /\ pc' = [pc EXCEPT ![r] = "deleteRow"]
  /\ req' = [req EXCEPT ![r] = Work(None, None, i, rows[i].key)]
  /\ Started(r)
  /\ UNCHANGED <<rows, usedKeys, usedIds>>

\* FindInTenant reads the row, and with it the key of the object.
DeleteFind(r, i) ==
  /\ pc[r] = "idle"
  /\ i \in DOMAIN rows
  /\ pc' = [pc EXCEPT ![r] = "deleteRow"]
  /\ req' = [req EXCEPT ![r] = Work(None, None, i, rows[i].key)]
  /\ Started(r)
  /\ UNCHANGED <<rows, objects, usedKeys, usedIds>>

\* The row goes first; deleting a row that is already gone is no error.
RemoveRow(r) == rows' = [j \in DOMAIN rows \ {req[r].id} |-> rows[j]]

DeleteRow(r) ==
  /\ pc[r] = "deleteRow"
  /\ RemoveRow(r)
  /\ pc' = [pc EXCEPT ![r] = "purge"]
  /\ UNCHANGED <<objects, usedKeys, usedIds, req, clean>>

-----------------------------------------------------------------------------
(* The object an upload replaced or a delete orphaned goes last; a failed  *)
(* removal is logged and the request succeeds.                             *)
Purge(r) ==
  /\ pc[r] = "purge"
  /\ objects' = objects \ {req[r].old}
  /\ Reply(r)
  /\ UNCHANGED <<rows, usedKeys, usedIds, clean>>

\* The request ends early at any step: a call failed (an upload losing the
\* race for the unique index included), the client left or the process died.
Abort(r) ==
  /\ pc[r] # "idle"
  /\ Reply(r)
  /\ clean' = FALSE
  /\ UNCHANGED <<rows, objects, usedKeys, usedIds>>

\* The same, but the database had already applied the statement.
AbortAfterWrite(r) ==
  /\ \/ pc[r] = "replace" /\ ReplaceRow(r) /\ UNCHANGED usedIds
     \/ pc[r] = "create" /\ \E i \in RowIds : InsertRow(r, i)
     \/ pc[r] = "deleteRow" /\ RemoveRow(r) /\ UNCHANGED usedIds
  /\ Reply(r)
  /\ clean' = FALSE
  /\ UNCHANGED <<objects, usedKeys>>

-----------------------------------------------------------------------------

Init ==
  /\ rows = [i \in {} |-> Row(None, None)]
  /\ objects = {} /\ usedKeys = {} /\ usedIds = {}
  /\ pc = [r \in Requests |-> "idle"]
  /\ req = [r \in Requests |-> NoReq]
  /\ clean = TRUE

Step(r) ==
  \/ \E a \in Anchors, k \in Keys : UploadPut(r, a, k)
  \/ \E k \in Keys : UploadPutFails(r, k)
  \/ UploadFind(r)
  \/ UploadReplace(r)
  \/ \E i \in RowIds : UploadCreate(r, i) \/ DeleteFind(r, i)
  \/ DeleteRow(r)
  \/ Purge(r)
  \/ Abort(r)
  \/ AbortAfterWrite(r)

Next == \E r \in Requests : Step(r)

Spec == Init /\ [][Next]_vars

-----------------------------------------------------------------------------
(* Properties.                                                             *)

Steps == {"idle", "find", "replace", "create", "deleteRow", "purge"}

\* Every variable has its type.
TypeOK ==
  /\ DOMAIN rows \subseteq RowIds
  /\ rows \in [DOMAIN rows -> [anchor : Anchors, key : Keys]]
  /\ objects \subseteq Keys
  /\ usedKeys \subseteq Keys
  /\ usedIds \subseteq RowIds
  /\ pc \in [Requests -> Steps]
  /\ req \in [Requests -> [anchor : Anchors \cup {None}, key : Keys \cup {None},
                           id : RowIds \cup {None}, old : Keys \cup {None}]]
  /\ \A r \in Requests :
       /\ pc[r] \in {"find", "replace", "create"} =>
            req[r].anchor \in Anchors /\ req[r].key \in Keys
       /\ pc[r] \in {"replace", "deleteRow", "purge"} =>
            req[r].id \in RowIds /\ req[r].old \in Keys
  /\ clean \in BOOLEAN

\* handler.go: "an orphaned object is a leak; a row pointing at a missing
\* object would be a lie": whatever fails and however uploads and deletes of
\* one anchor interleave, the object of every row exists.
NoRowWithoutObject == RowKeys \subseteq objects

\* models.go: one row per anchor, and no two rows share an object (the one
\* replaced first would purge the other's bytes).
OneRowPerAnchor ==
  \A i, j \in DOMAIN rows :
    rows[i].anchor = rows[j].anchor \/ rows[i].key = rows[j].key => i = j

\* Objects leak only through a failed call or an overlap of two requests: with
\* neither so far and no request running, every object belongs to a row.
LeaksNeedTrouble ==
  clean /\ (\A r \in Requests : pc[r] = "idle") => objects \subseteq RowKeys

\* Why rows never dangle: a stored object waiting for its row is nobody
\* else's, and an object about to be purged is of no row and of no upload.
Uploading(r) == pc[r] \in {"find", "replace", "create"}
KeysPrivate ==
  /\ objects \subseteq usedKeys
  /\ DOMAIN rows \subseteq usedIds
  /\ \A r \in Requests : Uploading(r) =>
       /\ req[r].key \in objects \ RowKeys
       /\ \A q \in Requests \ {r} : Uploading(q) => req[q].key # req[r].key
  /\ \A r \in Requests : pc[r] \in {"replace", "deleteRow", "purge"} =>
       /\ req[r].old \in usedKeys
       /\ \A q \in Requests : Uploading(q) => req[q].key # req[r].old
       /\ \A i \in DOMAIN rows : rows[i].key = req[r].old =>
            pc[r] # "purge" /\ i = req[r].id

\* What a reader of an anchor finds: its row's file, if the bytes are there.
Visible(a) ==
  IF \E i \in DOMAIN rows : rows[i].anchor = a /\ rows[i].key \in objects
    THEN rows[CHOOSE i \in OnAnchor(a) : rows[i].key \in objects].key
    ELSE None

Slots == INSTANCE FileSlots
           WITH Files <- Keys, file <- [a \in Anchors |-> Visible(a)]

\* The service implements the slots: through failures and overlaps, each step
\* changes the file of at most one anchor, and only to a file of its own.
ImplementsSlots == Slots!Spec
=============================================================================
