--------------------------- MODULE ListPageProofs ---------------------------
(***************************************************************************)
(* Proofs about the list page, for any records, conditions, saved filters  *)
(* and operations: the bar tells what is applied, and a deletion that was  *)
(* taken back never reaches the server.  The strengthening says where the  *)
(* removal of a filter comes from: every removal on its way was asked for  *)
(* by a banner that ran out, and every filter the page knows, or could     *)
(* recover, is stored or was deleted by such a banner.                     *)
(*                                                                         *)
(* The second half is about the rows: a second invariant, RowInv, says     *)
(* what the calls on their way make of them, so that the last touch of the *)
(* search bar decides what is shown, and a card agrees with the server or  *)
(* with the last move on its way.                                          *)
(***************************************************************************)
EXTENDS ListPage, TLAPS

----------------------------------------------------------------------------
(* The banner never runs both of its callbacks, however many are shown.  The *)
(* strengthening says how the slot and the timer relate: the timer is the    *)
(* newest banner's, and only an open banner is visible or timed.             *)

\* The visible banner is the timed one, the timed one is open, and nothing was
\* written for the banners to come.
ToastInv ==
    /\ ToastTypeOK
    /\ pending # None => pending = timer
    /\ timer # None => fate[timer] = "open"
    /\ \A e \in Toasts : e > shown => fate[e] = "unused"

LEMMA ToastInitOK == ToastInit => ToastInv
BY ToastConstants DEF ToastInit, ToastInv, ToastTypeOK, Toasts, Fate, None

\* Every operation of the store keeps the strengthening, and with it what is settled.
LEMMA ToastStep ==
    ToastInv /\ [ToastNext]_toastVars =>
        /\ ToastInv'
        /\ \A e \in Toasts : fate[e] \in {"recovered", "expired"} => fate'[e] = fate[e]
<1> SUFFICES ASSUME ToastInv, [ToastNext]_toastVars
             PROVE  /\ ToastInv'
                    /\ \A e \in Toasts : fate[e] \in {"recovered", "expired"} => fate'[e] = fate[e]
    OBVIOUS
<1> USE ToastConstants DEF ToastInv, ToastTypeOK, Toasts, Fate, None
<1>1. CASE Show
    <2>1. /\ shown' \in 0..MaxToasts /\ pending' = shown' /\ timer' = shown' /\ shown' # 0
        BY <1>1 DEF Show
    <2>2. fate' \in [Toasts -> Fate] /\ fate'[shown'] = "open"
        BY <1>1, <2>1 DEF Show
    <2>3. \A e \in Toasts : e > shown' => fate'[e] = "unused"
        BY <1>1, <2>1 DEF Show, Displaced
    <2>4. \A e \in Toasts : fate[e] \in {"recovered", "expired"} => fate'[e] = fate[e]
        BY <1>1, <2>1 DEF Show, Displaced
    <2> QED BY <2>1, <2>2, <2>3, <2>4
<1>2. CASE Recover
    BY <1>2 DEF Recover
<1>3. CASE Dismiss
    BY <1>3 DEF Dismiss
<1>4. CASE Expire
    BY <1>4 DEF Expire
<1>5. CASE UNCHANGED toastVars
    BY <1>5 DEF toastVars
<1> QED BY <1>1, <1>2, <1>3, <1>4, <1>5 DEF ToastNext

\* What was recovered stays recovered and what expired stays expired.
THEOREM SettledOnceHolds == ToastSpec => SettledOnce
<1>1. ToastInv /\ [ToastNext]_toastVars
        => [\A e \in Toasts : fate[e] \in {"recovered", "expired"} => fate'[e] = fate[e]]_toastVars
    BY ToastStep
<1>2. ToastInv /\ [ToastNext]_toastVars => ToastInv'
    BY ToastStep
<1> QED BY ToastInitOK, <1>1, <1>2, PTL DEF ToastSpec, SettledOnce

----------------------------------------------------------------------------
(* The bar and the saved filters *)

DeletedBy(f) == \E d \in Toasts : /\ fate[d] = "expired"
                                  /\ undo[d].of = "filter" /\ undo[d].filter = f
Known(f) == f \in store \/ DeletedBy(f)

\* The filters that the calls of q remove.
Removes(q) == {q[i].filter : i \in {j \in DOMAIN q : q[j].kind = "remove"}}

UndoInv ==
    /\ DOMAIN undo = Toasts
    /\ \A e \in Toasts : "of" \in DOMAIN undo[e] /\ (e > shown => undo[e].of = "nothing")
NameInv ==
    /\ NameTellsConditions
    /\ \A e \in Toasts : undo[e].of = "filter" /\ undo[e].was
                            => undo[e].filters = Config[undo[e].filter].filters
QueueInv == \E S : queue \in Seq(S)
RemoveInv == \A f \in Removes(queue) : DeletedBy(f)
KnownInv ==
    /\ \A f \in listed \union {applied} : f = NoFilter \/ Known(f)
    /\ \A e \in Toasts : undo[e].of = "filter" => Known(undo[e].filter)

IInv == ToastInv /\ UndoInv /\ NameInv /\ QueueInv /\ RemoveInv /\ KnownInv

----------------------------------------------------------------------------
(* The queue *)

\* What a step leaves of the queue: a sequence, whose removals are old or in X.
Follows(q, X) == (\E S : q \in Seq(S)) /\ Removes(q) \subseteq Removes(queue) \union X

LEMMA Same ==
    ASSUME QueueInv, NEW X PROVE Follows(queue, X)
BY DEF QueueInv, Follows

LEMMA Appended ==
    ASSUME NEW q, NEW X, Follows(q, X), NEW c, c.kind = "remove" => c.filter \in X
    PROVE  Follows(Append(q, c), X)
<1>1. PICK S : q \in Seq(S)
    BY DEF Follows
<1> DEFINE r == Append(q, c)
<1>2. q \in Seq(S \union {c})
    BY <1>1
<1>3. r \in Seq(S \union {c}) /\ DOMAIN r = DOMAIN q \union {Len(q) + 1}
    BY <1>2
<1>4. \A i \in DOMAIN r : (i \in DOMAIN q /\ r[i] = q[i]) \/ r[i] = c
    BY <1>2
<1> HIDE DEF r
<1>5. Removes(r) \subseteq Removes(q) \union X
    BY <1>3, <1>4 DEF Removes
<1> QED BY <1>3, <1>5 DEF Follows, r

LEMMA Concatenated ==
    ASSUME NEW q, NEW X, Follows(q, X), NEW T, NEW more \in Seq(T), Removes(more) \subseteq X
    PROVE  Follows(q \o more, X)
<1>1. PICK S : q \in Seq(S)
    BY DEF Follows
<1> DEFINE r == q \o more
<1>2. q \in Seq(S \union T) /\ more \in Seq(S \union T)
    BY <1>1
<1>3. r \in Seq(S \union T)
    BY <1>2
<1>4. \A i \in DOMAIN r : \/ i \in DOMAIN q /\ r[i] = q[i]
                          \/ i - Len(q) \in DOMAIN more /\ r[i] = more[i - Len(q)]
    BY <1>2
<1> HIDE DEF r
<1>5. Removes(r) \subseteq Removes(q) \union X
    BY <1>4 DEF Removes
<1> QED BY <1>3, <1>5 DEF Follows, r

LEMMA Answered ==
    ASSUME QueueInv, queue # <<>>
    PROVE  /\ Follows(Tail(queue), {})
           /\ Call.kind = "remove" => Call.filter \in Removes(queue)
<1>1. PICK S : queue \in Seq(S)
    BY DEF QueueInv
<1> DEFINE q == Tail(queue)
<1>2. q \in Seq(S) /\ \A i \in DOMAIN q : i + 1 \in DOMAIN queue /\ q[i] = queue[i + 1]
    BY <1>1
<1>3. 1 \in DOMAIN queue /\ Call = queue[1]
    BY <1>1 DEF Call
<1> HIDE DEF q
<1>4. Removes(q) \subseteq Removes(queue)
    BY <1>2 DEF Removes
<1>5. Call.kind = "remove" => Call.filter \in Removes(queue)
    BY <1>3 DEF Removes
<1> QED BY <1>2, <1>4, <1>5 DEF Follows, q

\* One call, or none, at the end of the queue.
LEMMA MaybeOne ==
    ASSUME NEW q, NEW X, Follows(q, X), NEW c, c.kind = "remove" => c.filter \in X,
           NEW more \in {<<>>, <<c>>}
    PROVE  Follows(q \o more, X)
<1>1. <<c>> \in Seq({c}) /\ <<>> \in Seq({c})
    OBVIOUS
<1>2. Removes(<<>>) = {} /\ Removes(<<c>>) \subseteq X
    BY DEF Removes
<1> QED BY <1>1, <1>2, Concatenated

----------------------------------------------------------------------------
(* The banners *)

\* Whatever the page does, the banner store makes a step of its own or none.
LEMMA ToastSteps == [Next]_vars => [ToastNext]_toastVars
BY DEF Next, User, vars, ToastNext, Type, FireEmpty, FireText, ChangeFilters, ApplySavedFilter,
       OpenGroupField, OpenMenu, SaveCurrentFilters, DeleteSavedFilter, RecoverFilter, Drop, DragOut,
       RecoverDate, SwitchMode, DismissBanner, ExpireBanner, Select, Refresh, AnswerList, AnswerLive,
       AnswerUpdate, RejectUpdate, AnswerSaved, AnswerCreate, AnswerRemove, AnswerDistinct

\* A step that keeps the banners' undo data, asks for removals in X only, and
\* shows no filter that was not known, keeps the strengthening.
LEMMA Keeps ==
    ASSUME IInv, [Next]_vars, UndoInv',
           \A e \in Toasts : undo[e].of = "filter" => undo'[e] = undo[e],
           \A e \in Toasts : undo'[e].of = "filter" => undo'[e] = undo[e] \/ Known(undo'[e].filter),
           NEW X, Follows(queue', X), \A f \in X : DeletedBy(f)',
           \A f \in store : f \in store' \/ DeletedBy(f),
           \A f \in listed' \union {applied'} : f = NoFilter \/ f \in store' \/ Known(f)
    PROVE  ToastInv' /\ QueueInv' /\ RemoveInv' /\ KnownInv'
<1>1. ToastInv' /\ \A e \in Toasts : fate[e] = "expired" => fate'[e] = "expired"
    BY ToastSteps, ToastStep DEF IInv
<1>2. \A f : DeletedBy(f) => DeletedBy(f)'
    BY <1>1 DEF DeletedBy
<1>3. \A f : Known(f) => Known(f)'
    BY <1>2 DEF Known
<1>4. QueueInv' /\ RemoveInv'
    BY <1>2 DEF IInv, Follows, QueueInv, RemoveInv
<1>5. \A f \in listed' \union {applied'} : f = NoFilter \/ Known(f)'
    BY <1>3 DEF Known
<1>6. ASSUME NEW e \in Toasts, undo'[e].of = "filter" PROVE Known(undo[e].filter)'
    <2>1. PICK f : f = undo'[e].filter
        OBVIOUS
    <2>2. Known(f)
        BY <1>6, <2>1 DEF IInv, KnownInv
    <2>3. Known(f)'
        BY <2>2, <1>3
    <2> QED BY <2>1, <2>3 DEF Known, DeletedBy
<1> QED BY <1>1, <1>4, <1>5, <1>6 DEF KnownInv

\* A step that leaves the banners and their undo data alone.
LEMMA KeepsPage ==
    ASSUME IInv, [Next]_vars, UNCHANGED <<shown, undo>>, NameTellsConditions',
           NEW X, Follows(queue', X), \A f \in X : DeletedBy(f)',
           \A f \in store : f \in store' \/ DeletedBy(f),
           \A f \in listed' \union {applied'} : f = NoFilter \/ f \in store' \/ Known(f)
    PROVE  IInv'
<1>1. UndoInv' /\ NameInv'
    BY DEF IInv, UndoInv, NameInv
<1>2. \A e \in Toasts : undo'[e] = undo[e]
    OBVIOUS
<1> QED BY <1>1, <1>2, Keeps DEF IInv

\* A step about nothing that the strengthening speaks of, calls apart.
LEMMA KeepsQueue ==
    ASSUME IInv, [Next]_vars, UNCHANGED <<shown, undo, store, listed, applied, filters>>,
           Follows(queue', {})
    PROVE  IInv'
<1>1. NameTellsConditions'
    BY DEF IInv, NameInv, NameTellsConditions
<1>2. \A f \in listed' \union {applied'} : f = NoFilter \/ Known(f)
    BY DEF IInv, KnownInv
<1> QED BY <1>1, <1>2, KeepsPage

LEMMA InitOK == Init => IInv
<1> SUFFICES ASSUME Init PROVE IInv
    OBVIOUS
<1>1. ToastInv
    BY ToastInitOK DEF Init
<1>2. /\ DOMAIN undo = Toasts /\ shown = 0
      /\ \A e \in Toasts : undo[e] = NoUndo
    BY DEF Init, ToastInit
<1>3. UndoInv
    BY <1>2 DEF UndoInv, NoUndo
<1>4. NameInv /\ KnownInv
    BY <1>2 DEF Init, NameInv, NameTellsConditions, KnownInv, NoUndo
<1>5. QueueInv /\ RemoveInv
    <2>1. queue = <<>> /\ <<>> \in Seq({})
        BY DEF Init
    <2> QED BY <2>1 DEF QueueInv, RemoveInv, Removes
<1> QED BY <1>1, <1>3, <1>4, <1>5 DEF IInv

----------------------------------------------------------------------------
(* The actions *)

\* Typing, dropping a card, selecting, refreshing, and the answers about rows.
LEMMA RowSteps ==
    ASSUME IInv, Next,
           \/ \E t \in {"empty", "text"} : Type(t)
           \/ FireEmpty \/ FireText \/ OpenMenu \/ Select \/ Refresh \/ DismissBanner
           \/ \E f \in GroupFields : OpenGroupField(f)
           \/ \E s \in Saved : SaveCurrentFilters(s)
           \/ \E r \in Ids, v \in Columns : Drop(r, v)
           \/ AnswerUpdate \/ RejectUpdate
           \/ \E failed \in BOOLEAN : AnswerList(failed) \/ AnswerLive(failed) \/ AnswerDistinct(failed)
    PROVE  IInv'
<1> DEFINE Page == UNCHANGED <<shown, undo, store, listed, applied, filters>>
<1>q. QueueInv /\ Follows(queue, {})
    BY Same DEF IInv
<1>1. CASE (\E t \in {"empty", "text"} : Type(t)) \/ FireEmpty \/ Select \/ Refresh \/ DismissBanner
    <2>1. Page /\ queue' = queue
        BY <1>1 DEF Type, FireEmpty, Select, Refresh, DismissBanner, Dismiss, toastVars, searchVars
    <2> QED BY <1>q, <2>1, KeepsQueue
<1>2. ASSUME NEW c, Page, queue' = Append(queue, c), c.kind # "remove" PROVE IInv'
    BY <1>q, <1>2, Appended, KeepsQueue
<1>3. ASSUME Page, queue # <<>>, queue' = Tail(queue) PROVE IInv'
    BY <1>q, <1>3, Answered, KeepsQueue
<1>4. CASE FireText \/ OpenMenu
    <2>1. Page /\ (queue' = Append(queue, LiveCall(1, <<>>)) \/ queue' = Append(queue, SavedCall))
        BY <1>4 DEF FireText, OpenMenu, toastVars, searchVars
    <2>2. LiveCall(1, <<>>).kind # "remove" /\ SavedCall.kind # "remove"
        BY DEF LiveCall, SavedCall
    <2> HIDE DEF Page
    <2> QED BY <2>1, <2>2, <1>2
<1>5. ASSUME NEW f \in GroupFields, OpenGroupField(f) PROVE IInv'
    <2>1. Page /\ queue' = Append(queue, DistinctCall(f))
        BY <1>5 DEF OpenGroupField, toastVars, searchVars
    <2> QED BY <2>1, <1>2 DEF DistinctCall
<1>6. ASSUME NEW s \in Saved, SaveCurrentFilters(s) PROVE IInv'
    <2>1. Page /\ queue' = Append(queue, CreateCall(s))
        BY <1>6 DEF SaveCurrentFilters, toastVars, searchVars
    <2> QED BY <2>1, <1>2 DEF CreateCall
<1>7. ASSUME NEW r \in Ids, NEW v \in Columns, Drop(r, v) PROVE IInv'
    <2>1. Page /\ queue' = Append(queue, UpdateCall(r, mode, v, rows, mount))
        BY <1>7 DEF Drop, toastVars, searchVars
    <2> QED BY <2>1, <1>2 DEF UpdateCall
<1>8. ASSUME \/ AnswerUpdate \/ RejectUpdate
             \/ \E failed \in BOOLEAN : AnswerList(failed) \/ AnswerDistinct(failed)
      PROVE  IInv'
    <2>1. Page /\ queue # <<>> /\ queue' = Tail(queue)
        BY <1>8 DEF AnswerUpdate, RejectUpdate, AnswerList, AnswerDistinct, Answering,
                    toastVars, searchVars
    <2> QED BY <2>1, <1>3
<1>9. ASSUME NEW failed \in BOOLEAN, AnswerLive(failed) PROVE IInv'
    <2> DEFINE found == IF failed THEN Call.found ELSE Merging(Call.found, Fetched(Hits[Call.at]))
               c == LiveCall(Call.at + 1, found)
    <2>1. Page /\ queue # <<>>
        BY <1>9 DEF AnswerLive, Answering, toastVars, searchVars
    <2>2. queue' = Tail(queue) \/ queue' = Append(Tail(queue), c)
        BY <1>9 DEF AnswerLive
    <2>3. c.kind # "remove"
        BY DEF LiveCall
    <2>4. Follows(Tail(queue), {})
        BY <1>q, <2>1, Answered
    <2> HIDE DEF c
    <2>5. CASE queue' = Append(Tail(queue), c)
        BY <2>1, <2>3, <2>4, <2>5, Appended, KeepsQueue
    <2> QED BY <2>1, <2>2, <2>5, <1>3
<1> QED BY <1>1, <1>4, <1>5, <1>6, <1>7, <1>8, <1>9

\* Conditions chosen by hand drop the name, a saved filter brings its own.
LEMMA FilterSteps ==
    ASSUME IInv, Next, ChangeFilters \/ \E s \in Saved : ApplySavedFilter(s)
    PROVE  IInv'
<1>q. QueueInv /\ Follows(queue, {})
    BY Same DEF IInv
<1>1. UNCHANGED <<shown, undo, store, listed>>
    BY DEF ChangeFilters, ApplySavedFilter, toastVars
<1>2. CASE ChangeFilters
    <2>1. applied' = NoFilter /\ queue' = Append(queue, ListCall(filters'))
        BY <1>2 DEF ChangeFilters, ByHand, ApplyFilters
    <2>2. Follows(queue', {})
        BY <1>q, <2>1, Appended DEF ListCall
    <2>3. \A f \in listed' \union {applied'} : f = NoFilter \/ f \in store' \/ Known(f)
        BY <1>1, <2>1 DEF IInv, KnownInv
    <2> QED BY <1>1, <2>1, <2>2, <2>3, KeepsPage DEF NameTellsConditions
<1>3. ASSUME NEW s \in Saved, ApplySavedFilter(s) PROVE IInv'
    <2>1. applied' = s /\ filters' = Config[s].filters /\ s \in listed
        BY <1>3 DEF ApplySavedFilter, ApplyFilters
    <2>2. Follows(queue', {})
        <3> DEFINE first == ListCall(Config[s].filters)
                   field == Config[s].groupBy
        <3>1. queue' = (queue \o <<first>>) \o GroupCalls(field)
            BY <1>3 DEF ApplySavedFilter
        <3>2. first.kind # "remove" /\ DistinctCall(field).kind # "remove"
            BY DEF ListCall, DistinctCall
        <3>3. GroupCalls(field) \in {<<>>, <<DistinctCall(field)>>}
            BY DEF GroupCalls
        <3> HIDE DEF first, field
        <3>4. Follows(queue \o <<first>>, {})
            BY <1>q, <3>2, MaybeOne
        <3> QED BY <3>1, <3>2, <3>3, <3>4, MaybeOne
    <2>3. \A f \in listed' \union {applied'} : f = NoFilter \/ f \in store' \/ Known(f)
        BY <1>1, <2>1 DEF IInv, KnownInv
    <2> QED BY <1>1, <2>1, <2>2, <2>3, KeepsPage DEF NameTellsConditions
<1> QED BY <1>2, <1>3

\* The answers about saved filters: what the server lists it stores, and it
\* removes only what a banner that ran out asked it to.
LEMMA SavedSteps ==
    ASSUME IInv, Next, NEW failed \in BOOLEAN,
           AnswerSaved(failed) \/ AnswerCreate(failed) \/ AnswerRemove(failed)
    PROVE  IInv'
<1>1. /\ UNCHANGED <<shown, undo, applied, filters>> /\ queue # <<>> /\ queue' = Tail(queue)
      /\ listed' \subseteq listed \union store \union store'
    BY DEF AnswerSaved, AnswerCreate, AnswerRemove, Answering, toastVars, searchVars
<1>2. Follows(queue', {}) /\ (Call.kind = "remove" => Call.filter \in Removes(queue))
    BY <1>1, Answered DEF IInv
<1>3. \A f \in store : f \in store' \/ DeletedBy(f)
    BY <1>2 DEF IInv, RemoveInv, AnswerSaved, AnswerCreate, AnswerRemove, Answering
<1>4. \A f \in listed' \union {applied'} : f = NoFilter \/ f \in store' \/ Known(f)
    BY <1>1 DEF IInv, KnownInv, Known
<1>5. NameTellsConditions'
    BY <1>1 DEF IInv, NameInv, NameTellsConditions
<1> QED BY <1>1, <1>2, <1>3, <1>4, <1>5, KeepsPage

----------------------------------------------------------------------------
(* The actions that show, recover or expire a banner *)

\* The banner a new one displaces runs out, and its deletion is asked for.
LEMMA DisplacedExpires ==
    ASSUME IInv, Show, UndoInv',
           \A e \in Toasts : e # shown' => undo'[e] = undo[e]
    PROVE  /\ shown' = shown + 1 /\ shown' \in Toasts /\ undo[shown'].of = "nothing"
           /\ Displacing \in {<<>>, <<RemoveCall(undo[Displaced].filter)>>}
           /\ \A f : Displacing # <<>> /\ f = undo[Displaced].filter => DeletedBy(f)'
<1>1. shown' = shown + 1 /\ shown' \in Toasts /\ shown \in Nat /\ undo[shown'].of = "nothing"
    BY ToastConstants DEF IInv, ToastInv, ToastTypeOK, UndoInv, Show, Toasts
<1>2. Displacing \in {<<>>, <<RemoveCall(undo[Displaced].filter)>>}
    BY DEF Displacing
<1>3. ASSUME Displaced # None, undo[Displaced].of = "filter", NEW f, f = undo[Displaced].filter
      PROVE  DeletedBy(f)'
    <2>1. Displaced \in Toasts /\ Displaced # shown' /\ Displaced \in Nat
        BY <1>1, <1>3, ToastConstants DEF IInv, ToastInv, ToastTypeOK, Displaced, Toasts, None
    <2>2. PICK d : d = Displaced
        OBVIOUS
    <2>3. fate'[d] = "expired" /\ undo'[d] = undo[d]
        BY <2>1, <2>2 DEF Show
    <2> QED BY <1>3, <2>1, <2>2, <2>3 DEF DeletedBy
<1> QED BY <1>1, <1>2, <1>3 DEF Displacing

\* Deleting a saved filter shows a banner that would bring it back as it was.
LEMMA DeleteStep ==
    ASSUME IInv, Next, NEW s \in Saved, DeleteSavedFilter(s)
    PROVE  IInv'
<1> DEFINE new == [of |-> "filter", filter |-> s, was |-> applied = s, filters |-> filters, group |-> group]
<1>1. /\ Show /\ undo' = [undo EXCEPT ![shown'] = new] /\ store' = store
      /\ listed' \subseteq listed
      /\ \/ applied = s /\ applied' = NoFilter
         \/ applied # s /\ UNCHANGED <<applied, filters>>
    BY DEF DeleteSavedFilter, ApplyFilters
<1>2. new.of = "filter" /\ new.filter = s /\ "of" \in DOMAIN new /\ new.filters = filters
      /\ (new.was => applied = s)
    OBVIOUS
<1>3. shown' = shown + 1 /\ shown' \in Toasts /\ shown \in Nat
    BY <1>1, ToastConstants DEF IInv, ToastInv, ToastTypeOK, Show, Toasts
<1> HIDE DEF new
<1>4. DOMAIN undo' = Toasts /\ undo'[shown'] = new /\ \A e \in Toasts : e # shown' => undo'[e] = undo[e]
    BY <1>1, <1>3 DEF IInv, UndoInv
<1>5. UndoInv'
    BY <1>2, <1>3, <1>4 DEF IInv, UndoInv, Toasts
<1>6. NameInv'
    <2>1. NameTellsConditions'
        BY <1>1 DEF IInv, NameInv, NameTellsConditions
    <2>2. new.was => new.filters = Config[new.filter].filters
        BY <1>2, ListConstants DEF IInv, NameInv, NameTellsConditions
    <2>3. ASSUME NEW e \in Toasts, undo'[e].of = "filter", undo'[e].was
          PROVE  undo'[e].filters = Config[undo'[e].filter].filters
        BY <1>4, <2>2, <2>3 DEF IInv, NameInv
    <2> QED BY <2>1, <2>3 DEF NameInv
<1>7. /\ undo[shown'].of = "nothing"
      /\ Displacing \in {<<>>, <<RemoveCall(undo[Displaced].filter)>>}
      /\ \A f : Displacing # <<>> /\ f = undo[Displaced].filter => DeletedBy(f)'
    BY <1>1, <1>4, <1>5, DisplacedExpires
<1>8. PICK X : Follows(queue', X) /\ \A f \in X : DeletedBy(f)'
    <2> DEFINE reload == IF applied = s THEN <<ListCall({})>> ELSE <<>>
               X == IF Displacing = <<>> THEN {} ELSE {undo[Displaced].filter}
    <2>1. queue' = (queue \o reload) \o Displacing
        BY DEF DeleteSavedFilter
    <2>2. Follows(queue, X) /\ reload \in {<<>>, <<ListCall({})>>} /\ ListCall({}).kind # "remove"
        BY Same DEF IInv, ListCall
    <2> HIDE DEF reload
    <2>3. Follows(queue \o reload, X)
        BY <2>2, MaybeOne
    <2>4. Follows(queue', X)
        <3>1. CASE Displacing = <<>>
            <4>1. Displacing \in {<<>>, <<ListCall({})>>}
                BY <3>1
            <4> QED BY <2>1, <2>2, <2>3, <4>1, MaybeOne
        <3>2. CASE Displacing # <<>>
            <4> DEFINE c == RemoveCall(undo[Displaced].filter)
            <4>1. c.filter \in X
                BY <3>2 DEF RemoveCall
            <4>2. Displacing \in {<<>>, <<c>>}
                BY <1>7
            <4> HIDE DEF c, X
            <4> QED BY <2>1, <2>3, <4>1, <4>2, MaybeOne
        <3> QED BY <3>1, <3>2
    <2>5. \A f \in X : DeletedBy(f)'
        BY <1>7
    <2> QED BY <2>4, <2>5
<1>9. /\ \A e \in Toasts : undo[e].of = "filter" => undo'[e] = undo[e]
      /\ \A e \in Toasts : undo'[e].of = "filter" => undo'[e] = undo[e] \/ Known(undo'[e].filter)
    <2>1. Known(s)
        <3>1. s \in listed \union {applied} /\ s # NoFilter
            BY ListConstants DEF DeleteSavedFilter
        <3> QED BY <3>1 DEF IInv, KnownInv
    <2> QED BY <1>2, <1>4, <1>7, <2>1
<1>10. \A f \in listed' \union {applied'} : f = NoFilter \/ f \in store' \/ Known(f)
    BY <1>1 DEF IInv, KnownInv
<1>11. ToastInv' /\ QueueInv' /\ RemoveInv' /\ KnownInv'
    BY <1>1, <1>5, <1>8, <1>9, <1>10, Keeps
<1> QED BY <1>5, <1>6, <1>11 DEF IInv

\* Recovering it applies the conditions the banner kept.
LEMMA RecoverFilterStep ==
    ASSUME IInv, Next, RecoverFilter
    PROVE  IInv'
<1> DEFINE u == undo[pending]
<1>1. UNCHANGED <<shown, undo, store>> /\ u.of = "filter" /\ pending \in Toasts
    BY ToastConstants
    DEF RecoverFilter, Recover, IInv, ToastInv, ToastTypeOK, Toasts, None
<1>2. Known(u.filter) /\ (u.was => u.filters = Config[u.filter].filters)
    BY <1>1 DEF IInv, KnownInv, NameInv
<1>3. /\ listed' = listed \union {u.filter}
      /\ \/ u.was /\ applied' = u.filter /\ filters' = u.filters
         \/ UNCHANGED <<applied, filters>>
    BY DEF RecoverFilter, ApplyFilters
<1>4. NameTellsConditions'
    BY <1>2, <1>3 DEF IInv, NameInv, NameTellsConditions
<1>5. Follows(queue', {})
    <2> DEFINE first == ListCall(u.filters)
               second == DistinctCall(u.group)
    <2>1. queue' = queue \/ queue' = (queue \o <<first>>) \o GroupCalls(u.group)
        BY DEF RecoverFilter
    <2>2. first.kind # "remove" /\ second.kind # "remove" /\ GroupCalls(u.group) \in {<<>>, <<second>>}
        BY DEF ListCall, DistinctCall, GroupCalls
    <2>3. Follows(queue, {})
        BY Same DEF IInv
    <2> HIDE DEF first, second, u
    <2>4. Follows(queue \o <<first>>, {})
        BY <2>2, <2>3, MaybeOne
    <2> QED BY <2>1, <2>2, <2>3, <2>4, MaybeOne
<1>6. \A f \in listed' \union {applied'} : f = NoFilter \/ f \in store' \/ Known(f)
    BY <1>2, <1>3 DEF IInv, KnownInv
<1> QED BY <1>1, <1>4, <1>5, <1>6, KeepsPage

\* A banner that runs out is what asks for its deletion.
LEMMA ExpireStep ==
    ASSUME IInv, Next, ExpireBanner
    PROVE  IInv'
<1>1. /\ UNCHANGED <<shown, undo, store, listed, applied, filters>> /\ timer \in Toasts
      /\ fate' = [fate EXCEPT ![timer] = "expired"] /\ fate \in [Toasts -> Fate]
    BY ToastConstants
    DEF ExpireBanner, Expire, IInv, ToastInv, ToastTypeOK, Toasts, None, searchVars
<1>2. PICK d : d = timer
    OBVIOUS
<1>3. ASSUME undo[d].of = "filter", NEW f, f = undo[d].filter PROVE DeletedBy(f)'
    <2>1. d \in Toasts /\ fate'[d] = "expired" /\ undo'[d] = undo[d]
        BY <1>1, <1>2
    <2> QED BY <1>3, <2>1 DEF DeletedBy
<1>4. PICK X : Follows(queue', X) /\ \A f \in X : DeletedBy(f)'
    <2>1. CASE undo[d].of = "filter"
        <3> DEFINE c == RemoveCall(undo[d].filter)
        <3>1. queue' = Append(queue, c) /\ c.filter \in {undo[d].filter}
            BY <2>1, <1>2 DEF ExpireBanner, RemoveCall
        <3> HIDE DEF c
        <3>2. Follows(queue', {undo[d].filter})
            BY <3>1, Same, Appended DEF IInv
        <3> QED BY <3>2, <2>1, <1>3
    <2>2. CASE undo[d].of # "filter"
        <3>1. queue' = queue /\ Follows(queue, {})
            BY <2>2, <1>2, Same DEF ExpireBanner, IInv
        <3> QED BY <3>1
    <2> QED BY <2>1, <2>2
<1>5. NameTellsConditions' /\ \A f \in listed' \union {applied'} : f = NoFilter \/ f \in store' \/ Known(f)
    BY <1>1 DEF IInv, NameInv, NameTellsConditions, KnownInv
<1> QED BY <1>1, <1>4, <1>5, KeepsPage

\* A date dragged out of the calendar takes the slot of the banner before it.
LEMMA DragOutStep ==
    ASSUME IInv, Next, NEW r \in Ids, DragOut(r)
    PROVE  IInv'
<1> DEFINE new == [of |-> "date", id |-> r, date |-> rows[r]["calendar"], mount |-> mount, seen |-> rows]
<1>1. /\ Show /\ undo' = [undo EXCEPT ![shown'] = new]
      /\ UNCHANGED <<store, listed, applied, filters>>
    BY DEF DragOut, searchVars
<1>2. new.of = "date" /\ "of" \in DOMAIN new
    OBVIOUS
<1>3. shown' = shown + 1 /\ shown' \in Toasts /\ shown \in Nat
    BY <1>1, ToastConstants DEF IInv, ToastInv, ToastTypeOK, Show, Toasts
<1> HIDE DEF new
<1>4. DOMAIN undo' = Toasts /\ undo'[shown'] = new /\ \A e \in Toasts : e # shown' => undo'[e] = undo[e]
    BY <1>1, <1>3 DEF IInv, UndoInv
<1>5. UndoInv'
    BY <1>2, <1>3, <1>4 DEF IInv, UndoInv, Toasts
<1>6. NameInv'
    BY <1>1, <1>2, <1>4 DEF IInv, NameInv, NameTellsConditions
<1>7. /\ undo[shown'].of = "nothing"
      /\ Displacing \in {<<>>, <<RemoveCall(undo[Displaced].filter)>>}
      /\ \A f : Displacing # <<>> /\ f = undo[Displaced].filter => DeletedBy(f)'
    BY <1>1, <1>4, <1>5, DisplacedExpires
<1>8. PICK X : Follows(queue', X) /\ \A f \in X : DeletedBy(f)'
    <2> DEFINE move == UpdateCall(r, "calendar", NoValue, rows, mount)
               X == IF Displacing = <<>> THEN {} ELSE {undo[Displaced].filter}
    <2>1. queue' = Append(queue, move) \o Displacing
        BY DEF DragOut
    <2>2. Follows(queue, X) /\ move.kind # "remove"
        BY Same DEF IInv, UpdateCall
    <2> HIDE DEF move
    <2>3. Follows(Append(queue, move), X)
        BY <2>2, Appended
    <2>4. Follows(queue', X)
        <3>1. CASE Displacing = <<>>
            <4>1. Displacing \in {<<>>, <<move>>}
                BY <3>1
            <4> QED BY <2>1, <2>2, <2>3, <4>1, MaybeOne
        <3>2. CASE Displacing # <<>>
            <4> DEFINE c == RemoveCall(undo[Displaced].filter)
            <4>1. c.filter \in X
                BY <3>2 DEF RemoveCall
            <4>2. Displacing \in {<<>>, <<c>>}
                BY <1>7
            <4> HIDE DEF c, X
            <4> QED BY <2>1, <2>3, <4>1, <4>2, MaybeOne
        <3> QED BY <3>1, <3>2
    <2>5. \A f \in X : DeletedBy(f)'
        BY <1>7
    <2> QED BY <2>4, <2>5
<1>9. /\ \A e \in Toasts : undo[e].of = "filter" => undo'[e] = undo[e]
      /\ \A e \in Toasts : undo'[e].of = "filter" => undo'[e] = undo[e]
    BY <1>2, <1>4, <1>7
<1>10. \A f \in listed' \union {applied'} : f = NoFilter \/ f \in store' \/ Known(f)
    BY <1>1 DEF IInv, KnownInv
<1>11. ToastInv' /\ QueueInv' /\ RemoveInv' /\ KnownInv'
    BY <1>1, <1>5, <1>8, <1>9, <1>10, Keeps
<1> QED BY <1>5, <1>6, <1>11 DEF IInv

LEMMA RecoverDateStep ==
    ASSUME IInv, Next, RecoverDate
    PROVE  IInv'
<1>1. UNCHANGED <<shown, undo, store, listed, applied, filters>>
    BY DEF RecoverDate, Recover, searchVars
<1> DEFINE u == undo[pending]
           seen == IF u.mount = mount THEN rows ELSE u.seen
           move == UpdateCall(u.id, "calendar", u.date, seen, u.mount)
<1>2. queue' = queue \/ queue' = Append(queue, move)
    BY DEF RecoverDate
<1>3. Follows(queue', {})
    <2>1. move.kind # "remove" /\ Follows(queue, {})
        BY Same DEF IInv, UpdateCall
    <2> HIDE DEF move
    <2> QED BY <1>2, <2>1, Appended
<1> QED BY <1>1, <1>3, KeepsQueue

\* Leaving a board keeps what it last rendered for the banners it showed.
LEMMA SwitchStep ==
    ASSUME IInv, Next, NEW m \in Modes, SwitchMode(m)
    PROVE  IInv'
<1>1. UNCHANGED <<toastVars, store, listed, applied, filters, queue>>
    BY DEF SwitchMode, searchVars
<1>2. /\ DOMAIN undo' = Toasts
      /\ \A e \in Toasts : \/ undo'[e] = undo[e]
                           \/ undo[e].of = "date" /\ undo'[e] = [undo[e] EXCEPT !.seen = rows]
    BY DEF SwitchMode
<1>3. \A e \in Toasts : "of" \in DOMAIN undo'[e] /\ undo'[e].of = undo[e].of
    <2> SUFFICES ASSUME NEW e \in Toasts PROVE "of" \in DOMAIN undo'[e] /\ undo'[e].of = undo[e].of
        OBVIOUS
    <2>1. "of" \in DOMAIN undo[e]
        BY DEF IInv, UndoInv
    <2>2. "of" \in DOMAIN [undo[e] EXCEPT !.seen = rows] /\ [undo[e] EXCEPT !.seen = rows].of = undo[e].of
        BY <2>1, Zenon
    <2> QED BY <1>2, <2>1, <2>2, Zenon
<1>4. \A e \in Toasts : undo'[e].of = "filter" => undo'[e] = undo[e]
    BY <1>2, <1>3
<1>5. UndoInv' /\ NameInv'
    BY <1>1, <1>2, <1>3, <1>4 DEF IInv, UndoInv, NameInv, NameTellsConditions, toastVars
<1>6. Follows(queue', {}) /\ \A f \in listed' \union {applied'} : f = NoFilter \/ f \in store' \/ Known(f)
    BY <1>1, Same DEF IInv, KnownInv
<1>7. ToastInv' /\ QueueInv' /\ RemoveInv' /\ KnownInv'
    BY <1>1, <1>3, <1>4, <1>5, <1>6, Keeps
<1> QED BY <1>5, <1>7 DEF IInv

LEMMA StepOK == IInv /\ [Next]_vars => IInv'
<1>1. ASSUME IInv, UNCHANGED vars PROVE IInv'
    <2>1. UNCHANGED <<shown, undo, store, listed, applied, filters, queue>>
        BY <1>1 DEF vars, toastVars, searchVars
    <2> QED BY <1>1, <2>1, Same, KeepsQueue DEF IInv
<1>2. ASSUME IInv, Next PROVE IInv'
    <2>1. CASE User
        BY <1>2, <2>1, RowSteps, FilterSteps, DeleteStep, RecoverFilterStep, DragOutStep,
           RecoverDateStep, SwitchStep DEF User
    <2>2. CASE FireEmpty \/ FireText \/ ExpireBanner \/ Refresh \/ AnswerUpdate \/ RejectUpdate
        BY <1>2, <2>2, RowSteps, ExpireStep
    <2>3. ASSUME NEW failed \in BOOLEAN,
                 \/ AnswerList(failed) \/ AnswerLive(failed) \/ AnswerSaved(failed)
                 \/ AnswerCreate(failed) \/ AnswerRemove(failed) \/ AnswerDistinct(failed)
          PROVE  IInv'
        BY <1>2, <2>3, RowSteps, SavedSteps
    <2> QED BY <1>2, <2>1, <2>2, <2>3 DEF Next
<1> QED BY <1>1, <1>2

----------------------------------------------------------------------------
(* What the rows on screen will be.  The calls that set them are answered   *)
(* in the order they were made, a typed search one field at a time, at the  *)
(* end of the queue again.                                                  *)

\* Nothing on its way sets the rows.
NoneComes(q) == \A j \in DOMAIN q : q[j].kind \notin {"list", "live"}

\* The last call that sets the rows is the list i, which selects S.
ListComes(q, i, S) ==
    /\ q[i].kind = "list" /\ Selects(q[i].filters) = S
    /\ \A j \in DOMAIN q : q[j].kind # "live" /\ (q[j].kind = "list" => j <= i)

\* The last search to end is i: every other one has gone further, or as far and
\* is ahead of it.  Ended, it has found S.
LiveComes(q, i, S) ==
    /\ q[i].kind = "live"
    /\ DOMAIN q[i].found \union UNION {Hits[k] : k \in q[i].at..Len(LiveFields)} = S
    /\ \A j \in DOMAIN q : q[j].kind = "list" => j < i
    /\ \A j \in DOMAIN q : q[j].kind = "live" /\ j # i => q[j].at > q[i].at \/ (q[j].at = q[i].at /\ j < i)

Coming(q, shownNow, S) ==
    \/ NoneComes(q) /\ shownNow = S
    \/ \E i \in DOMAIN q : ListComes(q, i, S) \/ LiveComes(q, i, S)

\* Unless a call failed or an older search was under way, the last touch of the
\* bar decides what is shown in the end.
TouchInv ==
    ~disturbed /\ ~crossed =>
        /\ typed.text = "off" => Coming(queue, DOMAIN rows, asked)
        /\ typed.text = "empty" => asked = Ids /\ DOMAIN typed.fallback = Ids
        /\ typed.text = "text" => asked = Found

----------------------------------------------------------------------------
(* What the cards on a board show: the value of the last move on its way,   *)
(* or the server's.                                                         *)

Moves(q, i, r, b) == q[i].kind = "update" /\ q[i].id = r /\ q[i].board = b

\* The value of r on board b when the calls before the n-th one are answered.
Says(q, n, stored, r, b, v) ==
    \/ \E i \in DOMAIN q : /\ i < n /\ Moves(q, i, r, b) /\ q[i].value = v
                           /\ \A j \in DOMAIN q : i < j /\ j < n => ~Moves(q, j, r, b)
    \/ (\A i \in DOMAIN q : i < n => ~Moves(q, i, r, b)) /\ v = stored[r][b]

\* Every card shows what it was moved to last; a move knows the value it replaced
\* and is ahead of every call that will set the rows; a search under way has found
\* what the server stores, and nothing while a move is on its way.
BoardAgrees(q, cards, stored) ==
    /\ \A r \in DOMAIN cards, b \in Boards : Says(q, Len(q) + 1, stored, r, b, cards[r][b])
    /\ \A i \in DOMAIN q : q[i].kind = "update" =>
          /\ Says(q, i, stored, q[i].id, q[i].board, q[i].previous[q[i].id][q[i].board])
          /\ \A j \in DOMAIN q : q[j].kind \in {"list", "live"} => i < j
          /\ \A j \in DOMAIN q : q[j].kind = "live" => DOMAIN q[j].found = {}
    /\ \A j \in DOMAIN q : q[j].kind = "live" => \A r \in DOMAIN q[j].found : q[j].found[r] = stored[r]

BoardInv == ~stale => BoardAgrees(queue, rows, server)

----------------------------------------------------------------------------
(* What the calls carry *)

IsSeq(q) == \E S : q \in Seq(S)

CallType(c, m) ==
    /\ c.kind = "live" => c.at \in 1..Len(LiveFields) /\ c.found \in Rows
    /\ c.kind = "update" => /\ c.id \in Ids /\ c.board \in Boards /\ c.value \in Columns
                            /\ c.previous \in Rows /\ c.id \in DOMAIN c.previous /\ c.mount \in 0..m
CallTypes(q, m) == \A i \in DOMAIN q : CallType(q[i], m)

RowTypes ==
    /\ server \in [Ids -> Record] /\ page \in [Ids -> Record] /\ rows \in Rows
    /\ mode \in Modes /\ mount \in Nat
    /\ typed = Idle \/ (typed.text \in {"empty", "text"} /\ typed.fallback \in Rows)

\* A banner that offers a date back speaks of the calendar that showed it.
DateInv ==
    \A e \in Toasts : undo[e].of = "date" =>
        /\ undo[e].id \in Ids /\ undo[e].date \in Columns /\ undo[e].seen \in Rows
        /\ undo[e].mount \in 0..mount /\ (undo[e].mount = mount => mode = "calendar")

RowInv == RowTypes /\ CallTypes(queue, mount) /\ DateInv /\ TouchInv /\ BoardInv

----------------------------------------------------------------------------
(* Calls at the end of the queue, and the one at its head *)

\* p is q with calls after it that neither set rows nor move a card.
Quieter(q, p) ==
    /\ IsSeq(q) /\ IsSeq(p) /\ Len(q) <= Len(p)
    /\ \A i \in DOMAIN q : p[i] = q[i]
    /\ \A i \in DOMAIN p \ DOMAIN q : p[i].kind \notin {"list", "live", "update"}

LEMMA QuietNone ==
    ASSUME NEW q, IsSeq(q) PROVE Quieter(q, q)
BY DEF Quieter, IsSeq

LEMMA Longer ==
    ASSUME NEW q, IsSeq(q), NEW c
    PROVE  /\ IsSeq(Append(q, c)) /\ DOMAIN q = 1..Len(q) /\ Len(q) \in Nat
           /\ Len(Append(q, c)) = Len(q) + 1 /\ DOMAIN Append(q, c) = 1..(Len(q) + 1)
           /\ \A i \in DOMAIN q : Append(q, c)[i] = q[i]
           /\ Append(q, c)[Len(q) + 1] = c
<1>1. PICK S : q \in Seq(S)
    BY DEF IsSeq
<1>2. q \in Seq(S \union {c})
    BY <1>1
<1>3. Append(q, c) \in Seq(S \union {c})
    BY <1>2
<1> QED BY <1>2, <1>3 DEF IsSeq

LEMMA Popped ==
    ASSUME NEW q, IsSeq(q), q # <<>>
    PROVE  /\ IsSeq(Tail(q)) /\ DOMAIN q = 1..Len(q) /\ Len(q) \in Nat \ {0}
           /\ Len(Tail(q)) = Len(q) - 1 /\ DOMAIN Tail(q) = 1..(Len(q) - 1)
           /\ \A i \in DOMAIN Tail(q) : Tail(q)[i] = q[i + 1]
           /\ Head(q) = q[1] /\ 1 \in DOMAIN q
<1>1. PICK S : q \in Seq(S)
    BY DEF IsSeq
<1>2. Tail(q) \in Seq(S)
    BY <1>1
<1> QED BY <1>1, <1>2 DEF IsSeq

LEMMA QuietMore ==
    ASSUME NEW q, NEW p, Quieter(q, p), NEW c, c.kind \notin {"list", "live", "update"},
           NEW more \in {<<>>, <<c>>}
    PROVE  Quieter(q, Append(p, c)) /\ Quieter(q, p \o more)
<1> DEFINE r == Append(p, c)
<1>1. /\ IsSeq(r) /\ DOMAIN p = 1..Len(p) /\ Len(p) \in Nat /\ Len(r) = Len(p) + 1 /\ DOMAIN r = 1..(Len(p) + 1)
      /\ (\A i \in DOMAIN p : r[i] = p[i]) /\ r[Len(p) + 1] = c
    BY Longer DEF Quieter
<1>2. DOMAIN q = 1..Len(q) /\ Len(q) \in Nat
    BY DEF Quieter, IsSeq
<1>3. p \o <<>> = p /\ p \o <<c>> = r
    BY DEF Quieter, IsSeq
<1> HIDE DEF r
<1>4. \A i \in DOMAIN q : i \in DOMAIN p /\ r[i] = q[i]
    BY <1>1, <1>2 DEF Quieter
<1>5. \A i \in DOMAIN r \ DOMAIN q : r[i].kind \notin {"list", "live", "update"}
    BY <1>1, <1>2 DEF Quieter
<1>6. Quieter(q, r)
    BY <1>1, <1>2, <1>4, <1>5 DEF Quieter
<1> QED BY <1>3, <1>6 DEF r

LEMMA QuietTypes ==
    ASSUME NEW q, NEW p, Quieter(q, p), NEW m, CallTypes(q, m)
    PROVE  CallTypes(p, m)
BY DEF Quieter, CallTypes, CallType

\* Calls that set no rows leave what is coming.
LEMMA QuietComes ==
    ASSUME NEW q, NEW p, Quieter(q, p), NEW F, NEW S, Coming(q, F, S)
    PROVE  Coming(p, F, S)
<1>1. DOMAIN q = 1..Len(q) /\ DOMAIN p = 1..Len(p) /\ Len(q) \in Nat /\ Len(p) \in Nat /\ Len(q) <= Len(p)
    BY DEF Quieter, IsSeq
<1>2. /\ \A i \in DOMAIN q : i \in DOMAIN p /\ p[i] = q[i]
      /\ \A i \in DOMAIN p : i \in DOMAIN q \/ p[i].kind \notin {"list", "live"}
    BY <1>1 DEF Quieter
<1>3. CASE NoneComes(q) /\ F = S
    BY <1>2, <1>3 DEF Coming, NoneComes
<1>4. ASSUME NEW i \in DOMAIN q, ListComes(q, i, S) PROVE Coming(p, F, S)
    <2>1. ListComes(p, i, S)
        BY <1>2, <1>4 DEF ListComes
    <2> QED BY <1>2, <2>1 DEF Coming
<1>5. ASSUME NEW i \in DOMAIN q, LiveComes(q, i, S) PROVE Coming(p, F, S)
    <2>1. LiveComes(p, i, S)
        BY <1>2, <1>5 DEF LiveComes
    <2> QED BY <1>2, <2>1 DEF Coming
<1> QED BY <1>3, <1>4, <1>5 DEF Coming

\* A filter applied while no search is under way has the last word.
LEMMA ListComesLast ==
    ASSUME NEW q, IsSeq(q), \A j \in DOMAIN q : q[j].kind # "live", NEW F, NEW shownNow
    PROVE  Coming(Append(q, ListCall(F)), shownNow, Selects(F))
<1> DEFINE c == ListCall(F)
           p == Append(q, c)
<1>1. /\ DOMAIN q = 1..Len(q) /\ Len(q) \in Nat /\ DOMAIN p = 1..(Len(q) + 1)
      /\ (\A i \in DOMAIN q : p[i] = q[i]) /\ p[Len(q) + 1] = c
    BY Longer
<1>2. c.kind = "list" /\ c.filters = F
    BY DEF ListCall
<1> HIDE DEF p, c
<1>3. \A j \in DOMAIN p : p[j].kind # "live" /\ j <= Len(q) + 1
    BY <1>1, <1>2
<1>4. Len(q) + 1 \in DOMAIN p
    BY <1>1
<1>5. ListComes(p, Len(q) + 1, Selects(F))
    BY <1>1, <1>2, <1>3 DEF ListComes
<1>6. Coming(p, shownNow, Selects(F))
    BY <1>4, <1>5 DEF Coming
<1> QED BY <1>6 DEF p, c

\* A search that starts has the last word: the ones under way end before it.
LEMMA SearchComesLast ==
    ASSUME NEW q, IsSeq(q), NEW m, CallTypes(q, m), NEW shownNow
    PROVE  Coming(Append(q, LiveCall(1, <<>>)), shownNow, Found)
<1> DEFINE c == LiveCall(1, <<>>)
           p == Append(q, c)
           n == Len(q) + 1
<1>1. /\ DOMAIN q = 1..Len(q) /\ Len(q) \in Nat /\ DOMAIN p = 1..n
      /\ (\A i \in DOMAIN q : p[i] = q[i]) /\ p[n] = c
    BY Longer
<1>2. c.kind = "live" /\ c.at = 1 /\ DOMAIN c.found = {}
    BY DEF LiveCall
<1>3. {Hits[k] : k \in 1..Len(LiveFields)} = {Hits[k] : k \in DOMAIN Hits}
    BY ListConstants
<1> HIDE DEF p, c
<1>4. n \in DOMAIN p /\ \A j \in DOMAIN p : j # n => j \in DOMAIN q /\ j < n /\ p[j] = q[j]
    BY <1>1
<1>5. \A j \in DOMAIN q : q[j].kind = "live" => q[j].at >= 1
    BY DEF CallTypes, CallType
<1>6. \A j \in DOMAIN p : /\ p[j].kind = "list" => j < n
                          /\ p[j].kind = "live" /\ j # n => p[j].at > 1 \/ (p[j].at = 1 /\ j < n)
    <2> SUFFICES ASSUME NEW j \in DOMAIN p, j # n
                 PROVE  j < n /\ (p[j].kind = "live" => p[j].at > 1 \/ p[j].at = 1)
        BY <1>1, <1>2
    <2>1. j \in DOMAIN q /\ j < n /\ p[j] = q[j]
        BY <1>4
    <2>2. p[j].kind = "live" => p[j].at \in Nat /\ p[j].at >= 1
        BY <2>1, <1>5 DEF CallTypes, CallType
    <2> QED BY <2>1, <2>2
<1>7. LiveComes(p, n, Found)
    BY <1>1, <1>2, <1>3, <1>6 DEF LiveComes, Found
<1>8. Coming(p, shownNow, Found)
    BY <1>4, <1>7 DEF Coming
<1> QED BY <1>8 DEF p, c

\* The call at the head is answered, and it set no rows.
LEMMA PoppedComes ==
    ASSUME NEW q, IsSeq(q), q # <<>>, Head(q).kind \notin {"list", "live"},
           NEW F, NEW S, Coming(q, F, S)
    PROVE  Coming(Tail(q), F, S)
<1> DEFINE p == Tail(q)
<1>1. /\ IsSeq(p) /\ DOMAIN q = 1..Len(q) /\ Len(q) \in Nat \ {0} /\ DOMAIN p = 1..(Len(q) - 1)
      /\ (\A i \in DOMAIN p : p[i] = q[i + 1]) /\ Head(q) = q[1]
    BY Popped
<1> HIDE DEF p
<1>2. /\ \A i \in DOMAIN p : i + 1 \in DOMAIN q /\ p[i] = q[i + 1]
      /\ \A i \in DOMAIN q : q[i].kind \in {"list", "live"} => i - 1 \in DOMAIN p /\ p[i - 1] = q[i] /\ i - 1 \in Nat
    BY <1>1
<1>3. CASE NoneComes(q) /\ F = S
    BY <1>2, <1>3 DEF Coming, NoneComes, p
<1>4. ASSUME NEW i \in DOMAIN q, ListComes(q, i, S) PROVE Coming(p, F, S)
    <2>1. i - 1 \in DOMAIN p /\ p[i - 1] = q[i]
        BY <1>2, <1>4 DEF ListComes
    <2>2. \A j \in DOMAIN p : p[j].kind # "live" /\ (p[j].kind = "list" => j <= i - 1)
        BY <1>1, <1>2, <1>4 DEF ListComes
    <2>3. ListComes(p, i - 1, S)
        BY <1>4, <2>1, <2>2 DEF ListComes
    <2> QED BY <2>1, <2>3 DEF Coming
<1>5. ASSUME NEW i \in DOMAIN q, LiveComes(q, i, S) PROVE Coming(p, F, S)
    <2>1. i - 1 \in DOMAIN p /\ p[i - 1] = q[i]
        BY <1>2, <1>5 DEF LiveComes
    <2>2. \A j \in DOMAIN p : p[j].kind = "list" => j < i - 1
        BY <1>1, <1>2, <1>5 DEF LiveComes
    <2>3. \A j \in DOMAIN p : p[j].kind = "live" /\ j # i - 1 => p[j].at > q[i].at \/ (p[j].at = q[i].at /\ j < i - 1)
        BY <1>1, <1>2, <1>5 DEF LiveComes
    <2>4. LiveComes(p, i - 1, S)
        BY <1>5, <2>1, <2>2, <2>3 DEF LiveComes
    <2> QED BY <2>1, <2>4 DEF Coming
<1> QED BY <1>3, <1>4, <1>5 DEF Coming, p

\* A list is answered: its selection is shown, unless another call is to come.
LEMMA ListedComes ==
    ASSUME NEW q, IsSeq(q), q # <<>>, Head(q).kind = "list", NEW F, NEW S, Coming(q, F, S)
    PROVE  Coming(Tail(q), Selects(Head(q).filters), S)
<1> DEFINE p == Tail(q)
           sel == Selects(Head(q).filters)
<1>1. /\ IsSeq(p) /\ DOMAIN q = 1..Len(q) /\ Len(q) \in Nat \ {0} /\ DOMAIN p = 1..(Len(q) - 1)
      /\ (\A i \in DOMAIN p : p[i] = q[i + 1]) /\ Head(q) = q[1] /\ 1 \in DOMAIN q
    BY Popped
<1> HIDE DEF p
<1>2. /\ \A i \in DOMAIN p : i + 1 \in DOMAIN q /\ p[i] = q[i + 1]
      /\ \A i \in DOMAIN q : i # 1 => i - 1 \in DOMAIN p /\ p[i - 1] = q[i] /\ i - 1 \in Nat
    BY <1>1
<1>3. ~NoneComes(q)
    BY <1>1 DEF NoneComes
<1>4. ASSUME NEW i \in DOMAIN q, ListComes(q, i, S), i = 1 PROVE Coming(p, sel, S)
    <2>1. \A j \in DOMAIN p : p[j].kind # "live" /\ p[j].kind # "list"
        BY <1>1, <1>2, <1>4 DEF ListComes
    <2> QED BY <1>1, <1>4, <2>1 DEF Coming, NoneComes, ListComes
<1>5. ASSUME NEW i \in DOMAIN q, ListComes(q, i, S), i # 1 PROVE Coming(p, sel, S)
    <2>1. i - 1 \in DOMAIN p /\ p[i - 1] = q[i]
        BY <1>2, <1>5
    <2>2. \A j \in DOMAIN p : p[j].kind # "live" /\ (p[j].kind = "list" => j <= i - 1)
        BY <1>1, <1>2, <1>5 DEF ListComes
    <2>3. ListComes(p, i - 1, S)
        BY <1>5, <2>1, <2>2 DEF ListComes
    <2> QED BY <2>1, <2>3 DEF Coming
<1>6. ASSUME NEW i \in DOMAIN q, LiveComes(q, i, S) PROVE Coming(p, sel, S)
    <2>1. i - 1 \in DOMAIN p /\ p[i - 1] = q[i]
        BY <1>1, <1>2, <1>6 DEF LiveComes
    <2>2. ASSUME NEW j \in DOMAIN p, p[j].kind = "list" PROVE j < i - 1
        <3>1. j + 1 \in DOMAIN q /\ q[j + 1].kind = "list"
            BY <1>2, <2>2
        <3>2. j + 1 < i
            BY <1>6, <3>1 DEF LiveComes
        <3> QED BY <1>1, <3>2
    <2>3. ASSUME NEW j \in DOMAIN p, p[j].kind = "live", j # i - 1
          PROVE  p[j].at > q[i].at \/ (p[j].at = q[i].at /\ j < i - 1)
        <3>1. j + 1 \in DOMAIN q /\ q[j + 1] = p[j] /\ j + 1 # i /\ j \in Nat /\ i \in Nat
            BY <1>1, <1>2, <2>3
        <3>2. p[j].at > q[i].at \/ (p[j].at = q[i].at /\ j + 1 < i)
            BY <1>6, <2>3, <3>1 DEF LiveComes
        <3> QED BY <3>1, <3>2
    <2>4. LiveComes(p, i - 1, S)
        BY <1>6, <2>1, <2>2, <2>3 DEF LiveComes
    <2> QED BY <2>1, <2>4 DEF Coming
<1> QED BY <1>3, <1>4, <1>5, <1>6 DEF Coming, p

\* A field is answered: with the last one the search has ended, and if it had the
\* last word it has found what was asked for; before it, the search goes on behind
\* the other calls.
LEMMA SearchedComes ==
    ASSUME NEW q, IsSeq(q), q # <<>>, NEW m, CallTypes(q, m), Head(q).kind = "live",
           NEW F, NEW S, Coming(q, F, S),
           NEW found, DOMAIN found = DOMAIN Head(q).found \union Hits[Head(q).at]
    PROVE  /\ Head(q).at = Len(LiveFields) => Coming(Tail(q), DOMAIN found, S)
           /\ Head(q).at # Len(LiveFields) => Coming(Append(Tail(q), LiveCall(Head(q).at + 1, found)), F, S)
<1> DEFINE t == Tail(q)
           n == Len(q)
           c == LiveCall(Head(q).at + 1, found)
           p == Append(t, c)
<1>1. /\ IsSeq(t) /\ DOMAIN q = 1..n /\ n \in Nat \ {0} /\ Len(t) = n - 1 /\ DOMAIN t = 1..(n - 1)
      /\ (\A i \in DOMAIN t : t[i] = q[i + 1]) /\ Head(q) = q[1] /\ 1 \in DOMAIN q
    BY Popped
<1>2. /\ DOMAIN p = 1..n /\ p[n] = c /\ \A i \in DOMAIN t : p[i] = t[i]
    BY <1>1, Longer
<1>3. c.kind = "live" /\ c.at = q[1].at + 1 /\ c.found = found
    BY <1>1 DEF LiveCall
<1>4. q[1].at \in 1..Len(LiveFields) /\ Len(LiveFields) \in Nat
    BY <1>1, ListConstants DEF CallTypes, CallType
<1>5. \A i \in DOMAIN q : q[i].kind = "live" => q[i].at \in 1..Len(LiveFields)
    BY DEF CallTypes, CallType
<1> HIDE DEF p, c, t
<1>6. /\ \A i \in DOMAIN t : i \in 1..(n - 1) /\ i + 1 \in DOMAIN q /\ i + 1 # 1 /\ t[i] = q[i + 1]
      /\ \A i \in DOMAIN q : i # 1 => i - 1 \in DOMAIN t /\ t[i - 1] = q[i] /\ i - 1 \in Nat
    BY <1>1
<1>7. ~NoneComes(q)
    BY <1>1 DEF NoneComes
<1>8. PICK i \in DOMAIN q : LiveComes(q, i, S)
    BY <1>1, <1>7 DEF Coming, ListComes
<1>9. ASSUME q[1].at = Len(LiveFields) PROVE Coming(t, DOMAIN found, S)
    <2>1. CASE i = 1
        <3>1. \A j \in DOMAIN t : t[j].kind # "list" /\ t[j].kind # "live"
            <4> SUFFICES ASSUME NEW j \in DOMAIN t PROVE t[j].kind # "list" /\ t[j].kind # "live"
                OBVIOUS
            <4>1. j + 1 \in DOMAIN q /\ j + 1 > 1 /\ t[j] = q[j + 1]
                BY <1>1, <1>6
            <4>2. q[j + 1].kind # "list"
                BY <1>8, <2>1, <4>1 DEF LiveComes
            <4>3. q[j + 1].kind = "live" => q[j + 1].at \in 1..Len(LiveFields) /\ q[j + 1].at > Len(LiveFields)
                BY <1>5, <1>8, <1>9, <2>1, <4>1 DEF LiveComes
            <4> QED BY <1>4, <4>1, <4>2, <4>3
        <3>2. UNION {Hits[k] : k \in q[1].at..Len(LiveFields)} = Hits[q[1].at]
            <4>1. q[1].at..Len(LiveFields) = {q[1].at}
                BY <1>4, <1>9
            <4> QED BY <4>1
        <3>3. DOMAIN found = S
            BY <1>1, <1>8, <2>1, <3>2 DEF LiveComes
        <3> QED BY <3>1, <3>3 DEF Coming, NoneComes
    <2>2. CASE i # 1
        <3>1. i - 1 \in DOMAIN t /\ t[i - 1] = q[i]
            BY <1>6, <2>2
        <3>2. \A j \in DOMAIN t : t[j].kind = "list" => j < i - 1
            BY <1>1, <1>6, <1>8 DEF LiveComes
        <3>3. \A j \in DOMAIN t : t[j].kind = "live" /\ j # i - 1 => t[j].at > q[i].at \/ (t[j].at = q[i].at /\ j < i - 1)
            BY <1>1, <1>6, <1>8 DEF LiveComes
        <3>4. LiveComes(t, i - 1, S)
            BY <1>8, <3>1, <3>2, <3>3 DEF LiveComes
        <3> QED BY <3>1, <3>4 DEF Coming
    <2> QED BY <2>1, <2>2
<1>10. ASSUME q[1].at # Len(LiveFields) PROVE Coming(p, F, S)
    <2>1. /\ n \in DOMAIN p
          /\ \A j \in DOMAIN p : j = n \/ (j \in DOMAIN t /\ p[j] = q[j + 1] /\ j + 1 \in DOMAIN q /\ j < n)
        BY <1>1, <1>2, <1>6
    <2>2. CASE i = 1
        <3>1. \A j \in DOMAIN p : p[j].kind = "list" => j < n
            BY <1>1, <1>2, <1>3, <2>1
        <3>2. ASSUME NEW j \in DOMAIN p, p[j].kind = "live", j # n
              PROVE  p[j].at > p[n].at \/ (p[j].at = p[n].at /\ j < n)
            <4>1. p[j] = q[j + 1] /\ j + 1 \in DOMAIN q /\ j < n /\ j + 1 # 1
                BY <1>1, <2>1, <3>2
            <4>2. q[j + 1].at > q[1].at
                <5>1. ~(j + 1 < 1)
                    BY <1>1, <4>1
                <5> QED BY <1>8, <2>2, <3>2, <4>1, <5>1 DEF LiveComes
            <4>3. q[j + 1].at \in Nat /\ q[1].at \in Nat
                BY <1>4, <1>5, <3>2, <4>1
            <4> QED BY <1>2, <1>3, <4>1, <4>2, <4>3
        <3>3. DOMAIN found \union UNION {Hits[k] : k \in (q[1].at + 1)..Len(LiveFields)} = S
            <4>1. q[1].at..Len(LiveFields) = {q[1].at} \union ((q[1].at + 1)..Len(LiveFields))
                BY <1>4
            <4>2. UNION {Hits[k] : k \in q[1].at..Len(LiveFields)}
                    = Hits[q[1].at] \union UNION {Hits[k] : k \in (q[1].at + 1)..Len(LiveFields)}
                BY <4>1
            <4> QED BY <1>1, <1>8, <2>2, <4>2 DEF LiveComes
        <3>4. LiveComes(p, n, S)
            BY <1>2, <1>3, <3>1, <3>2, <3>3 DEF LiveComes
        <3> QED BY <2>1, <3>4 DEF Coming
    <2>3. CASE i # 1
        <3>1. i - 1 \in DOMAIN p /\ p[i - 1] = q[i] /\ i - 1 \in Nat
            BY <1>1, <1>2, <1>6, <2>3
        <3>2. \A j \in DOMAIN p : p[j].kind = "list" => j < i - 1
            BY <1>1, <1>2, <1>3, <1>8, <2>1 DEF LiveComes
        <3>3. ASSUME NEW j \in DOMAIN p, p[j].kind = "live", j # i - 1
              PROVE  p[j].at > q[i].at \/ (p[j].at = q[i].at /\ j < i - 1)
            <4>1. CASE j = n
                <5>1. q[1].at > q[i].at \/ q[1].at = q[i].at
                    BY <1>1, <1>8, <2>3 DEF LiveComes
                <5>2. q[1].at \in Nat /\ q[i].at \in Nat
                    BY <1>4, <1>5, <1>8 DEF LiveComes
                <5> QED BY <1>2, <1>3, <4>1, <5>1, <5>2
            <4>2. CASE j # n
                BY <1>1, <1>8, <2>1, <3>3, <4>2 DEF LiveComes
            <4> QED BY <4>1, <4>2
        <3>4. LiveComes(p, i - 1, S)
            BY <1>8, <3>1, <3>2, <3>3 DEF LiveComes
        <3> QED BY <3>1, <3>4 DEF Coming
    <2> QED BY <2>2, <2>3
<1> QED BY <1>1, <1>9, <1>10 DEF p, t, c

----------------------------------------------------------------------------
(* How the cards and the server stay in agreement *)

LEMMA QuietAgrees ==
    ASSUME NEW q, NEW p, Quieter(q, p), NEW cards, NEW stored, BoardAgrees(q, cards, stored)
    PROVE  BoardAgrees(p, cards, stored)
<1>1. DOMAIN q = 1..Len(q) /\ DOMAIN p = 1..Len(p) /\ Len(q) \in Nat /\ Len(p) \in Nat /\ Len(q) <= Len(p)
    BY DEF Quieter, IsSeq
<1>2. /\ \A i \in DOMAIN q : i \in DOMAIN p /\ p[i] = q[i] /\ i < Len(q) + 1 /\ i < Len(p) + 1
      /\ \A i \in DOMAIN p : i \in DOMAIN q \/ p[i].kind \notin {"list", "live", "update"}
    BY <1>1 DEF Quieter
<1>3. \A i \in DOMAIN p : \A r, b : Moves(p, i, r, b) <=> i \in DOMAIN q /\ Moves(q, i, r, b)
    BY <1>2 DEF Moves
<1>4. ASSUME NEW r \in DOMAIN cards, NEW b \in Boards PROVE Says(p, Len(p) + 1, stored, r, b, cards[r][b])
    <2>1. Says(q, Len(q) + 1, stored, r, b, cards[r][b])
        BY DEF BoardAgrees
    <2> QED BY <1>2, <1>3, <2>1 DEF Says
<1>5. ASSUME NEW i \in DOMAIN p, p[i].kind = "update"
      PROVE  /\ Says(p, i, stored, p[i].id, p[i].board, p[i].previous[p[i].id][p[i].board])
             /\ \A j \in DOMAIN p : p[j].kind \in {"list", "live"} => i < j
             /\ \A j \in DOMAIN p : p[j].kind = "live" => DOMAIN p[j].found = {}
    <2>1. i \in DOMAIN q /\ q[i] = p[i]
        BY <1>2, <1>5
    <2>2. Says(q, i, stored, q[i].id, q[i].board, q[i].previous[q[i].id][q[i].board])
        BY <1>5, <2>1 DEF BoardAgrees
    <2>3. Says(p, i, stored, q[i].id, q[i].board, q[i].previous[q[i].id][q[i].board])
        BY <1>2, <1>3, <2>2 DEF Says
    <2>4. /\ \A j \in DOMAIN p : p[j].kind \in {"list", "live"} => i < j
          /\ \A j \in DOMAIN p : p[j].kind = "live" => DOMAIN p[j].found = {}
        BY <1>2, <1>5, <2>1 DEF BoardAgrees
    <2> QED BY <2>1, <2>3, <2>4
<1>6. \A j \in DOMAIN p : p[j].kind = "live" => \A r \in DOMAIN p[j].found : p[j].found[r] = stored[r]
    BY <1>2 DEF BoardAgrees
<1> QED BY <1>4, <1>5, <1>6 DEF BoardAgrees

\* Where no move is on its way, agreement is what the board and a search show.
LEMMA StillAgrees ==
    ASSUME NEW q, IsSeq(q), \A i \in DOMAIN q : q[i].kind # "update", NEW cards, NEW stored,
           \A r \in DOMAIN cards : cards[r] = stored[r],
           \A j \in DOMAIN q : q[j].kind = "live" => \A r \in DOMAIN q[j].found : q[j].found[r] = stored[r]
    PROVE  BoardAgrees(q, cards, stored)
BY DEF BoardAgrees, Says, Moves

\* A call that sets the rows joins the queue.
LEMMA AskedAgrees ==
    ASSUME NEW q, IsSeq(q), NEW c, c.kind \in {"list", "live"}, c.kind = "live" => DOMAIN c.found = {},
           NEW cards, NEW stored, BoardAgrees(q, cards, stored)
    PROVE  BoardAgrees(Append(q, c), cards, stored)
<1> DEFINE p == Append(q, c)
<1>1. /\ DOMAIN q = 1..Len(q) /\ Len(q) \in Nat /\ DOMAIN p = 1..(Len(q) + 1) /\ Len(p) = Len(q) + 1
      /\ (\A i \in DOMAIN q : p[i] = q[i]) /\ p[Len(q) + 1] = c
    BY Longer
<1> HIDE DEF p
<1>2. /\ \A i \in DOMAIN q : i \in DOMAIN p /\ p[i] = q[i] /\ i < Len(q) + 1 /\ i < Len(p) + 1
      /\ \A i \in DOMAIN p : i \in DOMAIN q \/ (i = Len(q) + 1 /\ p[i] = c)
    BY <1>1
<1>3. \A i \in DOMAIN p : \A r, b : Moves(p, i, r, b) <=> i \in DOMAIN q /\ Moves(q, i, r, b)
    BY <1>2 DEF Moves
<1>4. ASSUME NEW r \in DOMAIN cards, NEW b \in Boards PROVE Says(p, Len(p) + 1, stored, r, b, cards[r][b])
    <2>1. Says(q, Len(q) + 1, stored, r, b, cards[r][b])
        BY DEF BoardAgrees
    <2> QED BY <1>2, <1>3, <2>1 DEF Says
<1>5. ASSUME NEW i \in DOMAIN p, p[i].kind = "update"
      PROVE  /\ Says(p, i, stored, p[i].id, p[i].board, p[i].previous[p[i].id][p[i].board])
             /\ \A j \in DOMAIN p : p[j].kind \in {"list", "live"} => i < j
             /\ \A j \in DOMAIN p : p[j].kind = "live" => DOMAIN p[j].found = {}
    <2>1. i \in DOMAIN q /\ q[i] = p[i] /\ i < Len(q) + 1
        BY <1>2, <1>5
    <2>2. Says(q, i, stored, q[i].id, q[i].board, q[i].previous[q[i].id][q[i].board])
        BY <1>5, <2>1 DEF BoardAgrees
    <2>3. Says(p, i, stored, q[i].id, q[i].board, q[i].previous[q[i].id][q[i].board])
        BY <1>2, <1>3, <2>2 DEF Says
    <2>4. /\ \A j \in DOMAIN p : p[j].kind \in {"list", "live"} => i < j
          /\ \A j \in DOMAIN p : p[j].kind = "live" => DOMAIN p[j].found = {}
        BY <1>2, <1>5, <2>1 DEF BoardAgrees
    <2> QED BY <2>1, <2>3, <2>4
<1>6. \A j \in DOMAIN p : p[j].kind = "live" => \A r \in DOMAIN p[j].found : p[j].found[r] = stored[r]
    BY <1>2 DEF BoardAgrees
<1> QED BY <1>4, <1>5, <1>6 DEF BoardAgrees, p

\* A card is moved, and the move joins the queue: no call that sets the rows is
\* ahead of it.
LEMMA MovedAgrees ==
    ASSUME NEW q, IsSeq(q), NoneComes(q), NEW cards \in Rows, NEW stored, BoardAgrees(q, cards, stored),
           NEW r \in DOMAIN cards, NEW b \in Boards, NEW v \in Columns, NEW from
    PROVE  LET moved == [cards EXCEPT ![r] = [cards[r] EXCEPT ![b] = v]]
           IN  BoardAgrees(Append(q, UpdateCall(r, b, v, cards, from)), moved, stored)
<1> DEFINE c == UpdateCall(r, b, v, cards, from)
           p == Append(q, c)
           n == Len(q) + 1
           moved == [cards EXCEPT ![r] = [cards[r] EXCEPT ![b] = v]]
<1>1. /\ DOMAIN q = 1..Len(q) /\ Len(q) \in Nat /\ DOMAIN p = 1..n /\ Len(p) = n
      /\ (\A i \in DOMAIN q : p[i] = q[i]) /\ p[n] = c
    BY Longer
<1>2. c.kind = "update" /\ c.id = r /\ c.board = b /\ c.value = v /\ c.previous = cards
    BY DEF UpdateCall
<1>3. /\ DOMAIN moved = DOMAIN cards /\ moved[r][b] = v
      /\ \A s \in DOMAIN cards, a \in Boards : s # r \/ a # b => moved[s][a] = cards[s][a]
    <2>1. cards[r] \in [Boards -> Columns] /\ DOMAIN cards[r] = Boards
        BY DEF Rows, Record
    <2> QED BY <2>1
<1> HIDE DEF p, c, moved
<1>4. /\ n \in DOMAIN p /\ \A i \in DOMAIN q : i \in DOMAIN p /\ p[i] = q[i] /\ i < n /\ i < n + 1 /\ i \in Nat
      /\ \A i \in DOMAIN p : i \in DOMAIN q \/ i = n
    BY <1>1
<1>5. /\ \A i \in DOMAIN q : \A s, a : Moves(p, i, s, a) <=> Moves(q, i, s, a)
      /\ \A s, a : Moves(p, n, s, a) <=> s = r /\ a = b
    BY <1>1, <1>2, <1>4 DEF Moves
<1>6. ASSUME NEW s \in DOMAIN moved, NEW a \in Boards PROVE Says(p, n + 1, stored, s, a, moved[s][a])
    <2>1. CASE s = r /\ a = b
        <3>1. n < n + 1 /\ \A j \in DOMAIN p : ~(n < j /\ j < n + 1)
            BY <1>1
        <3> QED BY <1>1, <1>2, <1>3, <1>4, <1>5, <2>1, <3>1 DEF Says
    <2>2. CASE s # r \/ a # b
        <3>1. Says(q, n, stored, s, a, cards[s][a]) /\ moved[s][a] = cards[s][a]
            BY <1>3, <2>2 DEF BoardAgrees
        <3>2. ~Moves(p, n, s, a)
            BY <1>5, <2>2
        <3> QED BY <1>4, <1>5, <3>1, <3>2 DEF Says
    <2> QED BY <2>1, <2>2
<1>7. ASSUME NEW i \in DOMAIN p, p[i].kind = "update"
      PROVE  Says(p, i, stored, p[i].id, p[i].board, p[i].previous[p[i].id][p[i].board])
    <2>1. CASE i = n
        <3>1. Says(q, n, stored, r, b, cards[r][b])
            BY DEF BoardAgrees
        <3>2. \A j \in DOMAIN p : j < n => j \in DOMAIN q
            BY <1>1
        <3>3. Says(p, n, stored, r, b, cards[r][b])
            BY <1>4, <1>5, <3>1, <3>2 DEF Says
        <3> QED BY <1>1, <1>2, <2>1, <3>3
    <2>2. CASE i \in DOMAIN q
        <3>1. Says(q, i, stored, q[i].id, q[i].board, q[i].previous[q[i].id][q[i].board]) /\ p[i] = q[i]
            BY <1>4, <1>7, <2>2 DEF BoardAgrees
        <3>2. \A j \in DOMAIN p : j < i => j \in DOMAIN q
            BY <1>1, <2>2
        <3>3. Says(p, i, stored, q[i].id, q[i].board, q[i].previous[q[i].id][q[i].board])
            BY <1>4, <1>5, <3>1, <3>2 DEF Says
        <3> QED BY <3>1, <3>3
    <2> QED BY <1>4, <2>1, <2>2
<1>8. NoneComes(p)
    BY <1>1, <1>2, <1>4 DEF NoneComes
<1>9. BoardAgrees(p, moved, stored)
    BY <1>1, <1>6, <1>7, <1>8 DEF BoardAgrees, NoneComes
<1> QED BY <1>9 DEF p, c, moved

\* The call at the head is answered: what it wrote is what is stored now.
LEMMA SaysNext ==
    ASSUME NEW q, IsSeq(q), q # <<>>, NEW n \in Nat \ {0}, NEW r, NEW b, NEW v, NEW stored, NEW next,
           Says(q, n + 1, stored, r, b, v),
           next[r][b] = IF Moves(q, 1, r, b) THEN q[1].value ELSE stored[r][b]
    PROVE  Says(Tail(q), n, next, r, b, v)
<1> DEFINE p == Tail(q)
<1>1. /\ DOMAIN q = 1..Len(q) /\ Len(q) \in Nat \ {0} /\ DOMAIN p = 1..(Len(q) - 1)
      /\ (\A i \in DOMAIN p : p[i] = q[i + 1]) /\ 1 \in DOMAIN q
    BY Popped
<1> HIDE DEF p
<1>2. /\ \A i \in DOMAIN p : i + 1 \in DOMAIN q /\ i \in Nat
      /\ \A i \in DOMAIN q : i # 1 => i - 1 \in DOMAIN p /\ i - 1 \in Nat /\ i \in Nat /\ p[i - 1] = q[i]
    BY <1>1
<1>3. \A i \in DOMAIN p : Moves(p, i, r, b) <=> Moves(q, i + 1, r, b)
    BY <1>1 DEF Moves
<1>4. ASSUME NEW i \in DOMAIN q, i < n + 1, Moves(q, i, r, b), q[i].value = v,
             \A j \in DOMAIN q : i < j /\ j < n + 1 => ~Moves(q, j, r, b)
      PROVE  Says(p, n, next, r, b, v)
    <2>1. \A j \in DOMAIN p : i < j + 1 /\ j < n => ~Moves(p, j, r, b)
        BY <1>2, <1>3, <1>4
    <2>2. CASE i = 1
        <3>1. \A j \in DOMAIN p : j < n => ~Moves(p, j, r, b)
            BY <1>1, <2>1, <2>2
        <3> QED BY <1>4, <2>2, <3>1 DEF Says
    <2>3. CASE i # 1
        <3>1. i - 1 \in DOMAIN p /\ i - 1 < n /\ p[i - 1] = q[i]
            BY <1>2, <1>4, <2>3
        <3>2. Moves(p, i - 1, r, b)
            BY <1>4, <3>1 DEF Moves
        <3>3. \A j \in DOMAIN p : i - 1 < j /\ j < n => ~Moves(p, j, r, b)
            BY <1>2, <2>1, <2>3
        <3> QED BY <1>4, <3>1, <3>2, <3>3 DEF Says
    <2> QED BY <2>2, <2>3
<1>5. ASSUME \A i \in DOMAIN q : i < n + 1 => ~Moves(q, i, r, b), v = stored[r][b]
      PROVE  Says(p, n, next, r, b, v)
    <2>1. \A j \in DOMAIN p : j < n => ~Moves(p, j, r, b)
        BY <1>2, <1>3, <1>5
    <2>2. ~Moves(q, 1, r, b)
        BY <1>1, <1>5
    <2> QED BY <1>5, <2>1, <2>2 DEF Says
<1> QED BY <1>4, <1>5 DEF Says, p

LEMMA AnsweredAgrees ==
    ASSUME NEW q, IsSeq(q), q # <<>>, NEW m, CallTypes(q, m), NEW cards \in Rows, NEW stored, NEW next,
           BoardAgrees(q, cards, stored),
           \A r \in Ids, b \in Boards :
               next[r][b] = IF Moves(q, 1, r, b) THEN q[1].value ELSE stored[r][b],
           q[1].kind # "update" => next = stored
    PROVE  BoardAgrees(Tail(q), cards, next)
<1> DEFINE p == Tail(q)
<1>1. /\ DOMAIN q = 1..Len(q) /\ Len(q) \in Nat \ {0} /\ DOMAIN p = 1..(Len(q) - 1) /\ Len(p) = Len(q) - 1
      /\ (\A i \in DOMAIN p : p[i] = q[i + 1]) /\ 1 \in DOMAIN q
    BY Popped
<1> HIDE DEF p
<1>2. \A i \in DOMAIN p : i + 1 \in DOMAIN q /\ p[i] = q[i + 1] /\ i \in Nat \ {0}
    BY <1>1
<1>3. ASSUME NEW r \in DOMAIN cards, NEW b \in Boards PROVE Says(p, Len(p) + 1, next, r, b, cards[r][b])
    <2>1. r \in Ids
        BY DEF Rows
    <2>2. Says(q, Len(q) + 1, stored, r, b, cards[r][b])
        BY DEF BoardAgrees
    <2>3. Len(p) + 1 = Len(q)
        BY <1>1
    <2> QED BY <1>1, <2>1, <2>2, <2>3, SaysNext DEF p
<1>4. ASSUME NEW i \in DOMAIN p, p[i].kind = "update"
      PROVE  /\ Says(p, i, next, p[i].id, p[i].board, p[i].previous[p[i].id][p[i].board])
             /\ \A j \in DOMAIN p : p[j].kind \in {"list", "live"} => i < j
             /\ \A j \in DOMAIN p : p[j].kind = "live" => DOMAIN p[j].found = {}
    <2> DEFINE c == p[i]
    <2>1. c = q[i + 1] /\ i + 1 \in DOMAIN q /\ i \in Nat \ {0}
        BY <1>2
    <2>2. c.id \in Ids /\ c.board \in Boards
        BY <1>4, <2>1 DEF CallTypes, CallType
    <2>3. Says(q, i + 1, stored, c.id, c.board, c.previous[c.id][c.board])
        BY <1>4, <2>1 DEF BoardAgrees
    <2>4. Says(p, i, next, c.id, c.board, c.previous[c.id][c.board])
        <3> HIDE DEF c
        <3> QED BY <2>1, <2>2, <2>3, SaysNext DEF p
    <2>5. \A j \in DOMAIN p : p[j].kind \in {"list", "live"} => i < j
        <3> SUFFICES ASSUME NEW j \in DOMAIN p, p[j].kind \in {"list", "live"} PROVE i < j
            OBVIOUS
        <3>1. i + 1 < j + 1
            BY <1>2, <1>4, <2>1 DEF BoardAgrees
        <3> QED BY <1>2, <3>1
    <2>6. \A j \in DOMAIN p : p[j].kind = "live" => DOMAIN p[j].found = {}
        BY <1>2, <1>4, <2>1 DEF BoardAgrees
    <2> QED BY <2>4, <2>5, <2>6
<1>5. ASSUME NEW j \in DOMAIN p, p[j].kind = "live", NEW r \in DOMAIN p[j].found PROVE p[j].found[r] = next[r]
    <2>1. j + 1 \in DOMAIN q /\ q[j + 1] = p[j]
        BY <1>2
    <2>2. q[1].kind # "update"
        BY <1>1, <1>5, <2>1 DEF BoardAgrees
    <2> QED BY <1>5, <2>1, <2>2 DEF BoardAgrees
<1> QED BY <1>3, <1>4, <1>5 DEF BoardAgrees, p

\* The board puts back the list it moved the card in: nothing else had changed it.
LEMMA RolledBackAgrees ==
    ASSUME NEW q, IsSeq(q), q # <<>>, NEW m, CallTypes(q, m), NEW cards \in Rows, NEW stored \in [Ids -> Record],
           BoardAgrees(q, cards, stored), q[1].kind = "update",
           \A i \in DOMAIN Tail(q) : Tail(q)[i].kind # "update",
           cards = [q[1].previous EXCEPT ![q[1].id] = [@ EXCEPT ![q[1].board] = q[1].value]]
    PROVE  BoardAgrees(Tail(q), q[1].previous, stored)
<1> DEFINE p == Tail(q)
           c == q[1]
           was == c.previous
<1>1. /\ DOMAIN q = 1..Len(q) /\ Len(q) \in Nat \ {0} /\ DOMAIN p = 1..(Len(q) - 1) /\ IsSeq(p)
      /\ (\A i \in DOMAIN p : p[i] = q[i + 1]) /\ 1 \in DOMAIN q
    BY Popped
<1>2. c.id \in Ids /\ c.board \in Boards /\ was \in Rows /\ c.id \in DOMAIN was /\ c.value \in Columns
    BY <1>1 DEF CallTypes, CallType
<1>3. /\ DOMAIN cards = DOMAIN was /\ DOMAIN was \subseteq Ids
      /\ \A r \in DOMAIN was : was[r] \in Record
      /\ \A r \in DOMAIN was, b \in Boards : r # c.id \/ b # c.board => cards[r][b] = was[r][b]
    <2>1. DOMAIN was \subseteq Ids /\ \A r \in DOMAIN was : was[r] \in Record
        BY <1>2 DEF Rows
    <2>2. was[c.id] \in [Boards -> Columns]
        BY <1>2, <2>1 DEF Record
    <2> HIDE DEF c, was
    <2>3. cards = [was EXCEPT ![c.id] = [was[c.id] EXCEPT ![c.board] = c.value]]
        BY DEF c, was
    <2> QED BY <1>2, <2>1, <2>2, <2>3 DEF Record
<1>4. \A i \in DOMAIN q : q[i].kind = "update" => i = 1
    <2> SUFFICES ASSUME NEW i \in DOMAIN q, i # 1 PROVE q[i].kind # "update"
        OBVIOUS
    <2>1. i - 1 \in DOMAIN p /\ p[i - 1] = q[i]
        BY <1>1
    <2> QED BY <2>1
<1> HIDE DEF p, c, was
<1>5. ASSUME NEW r \in DOMAIN was PROVE was[r] = stored[r]
    <2>1. ASSUME NEW b \in Boards PROVE was[r][b] = stored[r][b]
        <3>1. CASE r = c.id /\ b = c.board
            <4>1. Says(q, 1, stored, c.id, c.board, was[c.id][c.board])
                BY <1>1 DEF BoardAgrees, c, was
            <4>2. \A i \in DOMAIN q : ~(i < 1)
                BY <1>1
            <4> QED BY <3>1, <4>1, <4>2 DEF Says
        <3>2. CASE r # c.id \/ b # c.board
            <4>1. Says(q, Len(q) + 1, stored, r, b, cards[r][b])
                BY <1>3 DEF BoardAgrees
            <4>2. \A i \in DOMAIN q : ~Moves(q, i, r, b)
                BY <1>4, <3>2 DEF Moves, c
            <4>3. cards[r][b] = stored[r][b]
                BY <4>1, <4>2 DEF Says
            <4> QED BY <1>3, <3>2, <4>3
        <3> QED BY <3>1, <3>2
    <2>2. was[r] \in [Boards -> Columns] /\ stored[r] \in [Boards -> Columns]
        BY <1>3 DEF Record
    <2> QED BY <2>1, <2>2
<1>6. \A j \in DOMAIN p : p[j].kind = "live" => \A r \in DOMAIN p[j].found : p[j].found[r] = stored[r]
    <2> SUFFICES ASSUME NEW j \in DOMAIN p, p[j].kind = "live" PROVE DOMAIN p[j].found = {}
        OBVIOUS
    <2>1. j + 1 \in DOMAIN q /\ q[j + 1] = p[j]
        BY <1>1
    <2> QED BY <1>1, <2>1 DEF BoardAgrees
<1>7. \A i \in DOMAIN p : p[i].kind # "update"
    BY DEF p
<1> QED BY <1>1, <1>5, <1>6, <1>7, StillAgrees DEF p, c, was

----------------------------------------------------------------------------
(* The actions, for the rows on screen *)

LEMMA QueueIsSeq == IInv => IsSeq(queue)
BY DEF IInv, QueueInv, IsSeq

\* A step about something else.
LEMMA RowsQuiet ==
    ASSUME IInv, RowInv, Quieter(queue, queue'), \A e \in Toasts : undo'[e].of = "date" => undo'[e] = undo[e],
           UNCHANGED <<server, page, rows, typed, asked, crossed, disturbed, stale, mode, mount>>
    PROVE  RowInv'
<1>1. RowTypes' /\ DateInv'
    BY DEF RowInv, RowTypes, DateInv
<1>2. CallTypes(queue', mount')
    BY QuietTypes DEF RowInv
<1>3. TouchInv'
    <2>1. Coming(queue, DOMAIN rows, asked) => Coming(queue', DOMAIN rows, asked)
        BY QuietComes
    <2> QED BY <2>1 DEF RowInv, TouchInv
<1>4. BoardInv'
    <2>1. BoardAgrees(queue, rows, server) => BoardAgrees(queue', rows, server)
        BY QuietAgrees
    <2> QED BY <2>1 DEF RowInv, BoardInv
<1> QED BY <1>1, <1>2, <1>3, <1>4 DEF RowInv

\* A touch of the bar that asks for a list.
LEMMA RowsTouched ==
    ASSUME IInv, RowInv, NEW F, Quieter(Append(queue, ListCall(F)), queue'),
           \A e \in Toasts : undo'[e].of = "date" => undo'[e] = undo[e],
           UNCHANGED <<server, page, rows, typed, stale, mode, mount>>,
           asked' = Selects(F), crossed' = Searching
    PROVE  RowInv'
<1> DEFINE p == Append(queue, ListCall(F))
<1>1. RowTypes' /\ DateInv'
    BY DEF RowInv, RowTypes, DateInv
<1>2. CallTypes(queue', mount')
    <2>1. CallType(ListCall(F), mount)
        BY DEF ListCall, CallType
    <2>2. CallTypes(p, mount)
        <3> HIDE DEF p
        <3>1. \A i \in DOMAIN p : (i \in DOMAIN queue /\ p[i] = queue[i]) \/ p[i] = ListCall(F)
            BY QueueIsSeq, Longer DEF p
        <3> QED BY <2>1, <3>1 DEF RowInv, CallTypes
    <2> QED BY <2>2, QuietTypes
<1>3. TouchInv'
    <2> SUFFICES ASSUME ~Searching PROVE typed.text = "off" /\ Coming(queue', DOMAIN rows, Selects(F))
        BY DEF TouchInv
    <2>1. typed.text = "off" /\ \A j \in DOMAIN queue : queue[j].kind # "live"
        BY DEF Searching, Queued
    <2>2. Coming(p, DOMAIN rows, Selects(F))
        BY <2>1, QueueIsSeq, ListComesLast
    <2> QED BY <2>1, <2>2, QuietComes
<1>4. BoardInv'
    <2> SUFFICES ASSUME BoardAgrees(queue, rows, server) PROVE BoardAgrees(queue', rows, server)
        BY DEF RowInv, BoardInv
    <2>1. ListCall(F).kind = "list"
        BY DEF ListCall
    <2>2. BoardAgrees(p, rows, server)
        BY <2>1, QueueIsSeq, AskedAgrees
    <2> QED BY <2>2, QuietAgrees
<1> QED BY <1>1, <1>2, <1>3, <1>4 DEF RowInv

\* A call that sets no rows and moves no card is answered.
LEMMA RowsPopped ==
    ASSUME IInv, RowInv, queue # <<>>, queue' = Tail(queue), Call.kind \notin {"list", "live", "update"},
           UNCHANGED <<server, page, rows, typed, asked, crossed, disturbed, stale, mode, mount, undo>>
    PROVE  RowInv'
<1>q. IsSeq(queue) /\ Call = Head(queue) /\ Head(queue) = queue[1]
    BY QueueIsSeq, Popped DEF Call
<1>1. RowTypes' /\ DateInv'
    BY DEF RowInv, RowTypes, DateInv
<1>2. CallTypes(queue', mount')
    BY <1>q, Popped DEF RowInv, CallTypes
<1>3. TouchInv'
    <2>1. Coming(queue, DOMAIN rows, asked) => Coming(queue', DOMAIN rows, asked)
        BY <1>q, PoppedComes
    <2> QED BY <2>1 DEF RowInv, TouchInv
<1>4. BoardInv'
    <2> SUFFICES ASSUME BoardAgrees(queue, rows, server) PROVE BoardAgrees(queue', rows, server)
        BY DEF RowInv, BoardInv
    <2>1. \A r \in Ids, b \in Boards : ~Moves(queue, 1, r, b)
        BY <1>q DEF Moves
    <2> QED BY <1>q, <2>1, AnsweredAgrees DEF RowInv, RowTypes
<1> QED BY <1>1, <1>2, <1>3, <1>4 DEF RowInv

\* A move joins the queue: what sets the rows is as it was.
LEMMA MoveComes ==
    ASSUME NEW q, IsSeq(q), NEW c, c.kind = "update", NEW F, NEW S, Coming(q, F, S)
    PROVE  Coming(Append(q, c), F, S)
<1> DEFINE p == Append(q, c)
<1>1. /\ DOMAIN q = 1..Len(q) /\ Len(q) \in Nat /\ DOMAIN p = 1..(Len(q) + 1)
      /\ (\A i \in DOMAIN q : p[i] = q[i]) /\ p[Len(q) + 1] = c
    BY Longer
<1> HIDE DEF p
<1>2. /\ \A i \in DOMAIN q : i \in DOMAIN p /\ p[i] = q[i]
      /\ \A i \in DOMAIN p : i \in DOMAIN q \/ p[i].kind \notin {"list", "live"}
    BY <1>1
<1>3. CASE NoneComes(q) /\ F = S
    BY <1>2, <1>3 DEF Coming, NoneComes, p
<1>4. ASSUME NEW i \in DOMAIN q, ListComes(q, i, S) PROVE Coming(p, F, S)
    <2>1. ListComes(p, i, S)
        BY <1>2, <1>4 DEF ListComes
    <2> QED BY <1>2, <2>1 DEF Coming
<1>5. ASSUME NEW i \in DOMAIN q, LiveComes(q, i, S) PROVE Coming(p, F, S)
    <2>1. LiveComes(p, i, S)
        BY <1>2, <1>5 DEF LiveComes
    <2> QED BY <1>2, <2>1 DEF Coming
<1> QED BY <1>3, <1>4, <1>5 DEF Coming, p

LEMMA MoveTypes ==
    ASSUME NEW q, IsSeq(q), NEW m, CallTypes(q, m), NEW c, CallType(c, m)
    PROVE  CallTypes(Append(q, c), m)
<1> DEFINE p == Append(q, c)
<1>1. \A i \in DOMAIN p : (i \in DOMAIN q /\ p[i] = q[i]) \/ p[i] = c
    BY Longer
<1> HIDE DEF p
<1>2. CallTypes(p, m)
    BY <1>1 DEF CallTypes
<1> QED BY <1>2 DEF p

LEMMA RowsMoved ==
    ASSUME IInv, RowInv, NEW r \in Ids, NEW v \in Columns, MoveField(r, v), DateInv',
           UNCHANGED <<server, page, typed, asked, crossed, disturbed, mode, mount>>,
           Quieter(Append(queue, UpdateCall(r, mode, v, rows, mount)), queue')
    PROVE  RowInv'
<1> DEFINE c == UpdateCall(r, mode, v, rows, mount)
           moved == [rows EXCEPT ![r] = [rows[r] EXCEPT ![mode] = v]]
<1>1. /\ mode \in Boards /\ r \in DOMAIN rows /\ rows' = moved
      /\ stale' = (stale \/ Queued({"list", "live"}))
    BY DEF MoveField, SetRows
<1>2. rows \in Rows /\ server \in [Ids -> Record] /\ mount \in 0..mount
    BY DEF RowInv, RowTypes
<1>3. moved \in Rows /\ DOMAIN moved = DOMAIN rows
    <2>1. PICK T \in SUBSET Ids : rows \in [T -> Record]
        BY <1>2 DEF Rows
    <2>2. rows[r] \in Record
        BY <1>1, <2>1
    <2>3. [rows[r] EXCEPT ![mode] = v] \in Record
        BY <1>1, <2>2 DEF Record
    <2>4. moved \in [T -> Record] /\ DOMAIN moved = T /\ DOMAIN rows = T
        BY <1>1, <2>1, <2>3
    <2> HIDE DEF moved
    <2> QED BY <2>4 DEF Rows
<1>4. CallType(c, mount) /\ c.kind = "update"
    BY <1>1, <1>2 DEF CallType, UpdateCall
<1> HIDE DEF moved
<1>5. RowTypes'
    BY <1>1, <1>3 DEF RowInv, RowTypes
<1>6. CallTypes(queue', mount')
    BY <1>4, QueueIsSeq, MoveTypes, QuietTypes DEF RowInv
<1>7. TouchInv'
    <2>1. ASSUME Coming(queue, DOMAIN rows, asked) PROVE Coming(queue', DOMAIN rows, asked)
        <3>1. Coming(Append(queue, c), DOMAIN rows, asked)
            BY <1>4, <2>1, QueueIsSeq, MoveComes
        <3> QED BY <3>1, QuietComes
    <2> QED BY <1>1, <1>3, <2>1 DEF RowInv, TouchInv
<1>8. BoardInv'
    <2> SUFFICES ASSUME ~stale, ~Queued({"list", "live"}) PROVE BoardAgrees(queue', rows', server)
        BY <1>1 DEF BoardInv
    <2>1. BoardAgrees(queue, rows, server) /\ NoneComes(queue)
        BY DEF RowInv, BoardInv, Queued, NoneComes
    <2>2. BoardAgrees(Append(queue, c), moved, server)
        BY <1>1, <1>2, <2>1, QueueIsSeq, MovedAgrees DEF moved
    <2> QED BY <1>1, <2>2, QuietAgrees
<1> QED BY <1>5, <1>6, <1>7, <1>8 DEF RowInv

\* Boxes, menus, banners and filters saved: nothing about the rows.
LEMMA RowsApart ==
    ASSUME IInv, RowInv,
           \/ Select \/ DismissBanner \/ ExpireBanner \/ OpenMenu
           \/ \E f \in GroupFields : OpenGroupField(f)
           \/ \E s \in Saved : SaveCurrentFilters(s)
    PROVE  RowInv'
<1> DEFINE Frame == UNCHANGED <<server, page, rows, typed, asked, crossed, disturbed, stale, mode, mount, undo>>
<1>q. Quieter(queue, queue)
    BY QueueIsSeq, QuietNone
<1>1. ASSUME NEW c, c.kind \notin {"list", "live", "update"}, queue' \in {queue, Append(queue, c)}, Frame
      PROVE  RowInv'
    <2>1. Quieter(queue, queue')
        BY <1>q, <1>1, QuietMore
    <2> QED BY <1>1, <2>1, RowsQuiet
<1>2. CASE Select \/ DismissBanner
    <2>1. Frame /\ queue' = queue
        BY <1>2 DEF Select, DismissBanner, searchVars
    <2> QED BY <1>q, <2>1, RowsQuiet
<1>3. CASE ExpireBanner
    <2>1. Frame /\ queue' \in {queue, Append(queue, RemoveCall(undo[timer].filter))}
        BY <1>3 DEF ExpireBanner, searchVars
    <2> QED BY <1>1, <2>1 DEF RemoveCall
<1>4. CASE OpenMenu
    <2>1. Frame /\ queue' = Append(queue, SavedCall)
        BY <1>4 DEF OpenMenu, searchVars
    <2> QED BY <1>1, <2>1 DEF SavedCall
<1>5. ASSUME NEW f \in GroupFields, OpenGroupField(f) PROVE RowInv'
    <2>1. Frame /\ queue' = Append(queue, DistinctCall(f))
        BY <1>5 DEF OpenGroupField
    <2> QED BY <1>1, <2>1 DEF DistinctCall
<1>6. ASSUME NEW s \in Saved, SaveCurrentFilters(s) PROVE RowInv'
    <2>1. Frame /\ queue' = Append(queue, CreateCall(s))
        BY <1>6 DEF SaveCurrentFilters, searchVars
    <2> QED BY <1>1, <2>1 DEF CreateCall
<1> QED BY <1>2, <1>3, <1>4, <1>5, <1>6

\* Filters applied by hand or by name.
LEMMA RowsFiltered ==
    ASSUME IInv, RowInv, ChangeFilters \/ \E s \in Saved : ApplySavedFilter(s)
    PROVE  RowInv'
<1> DEFINE Frame == UNCHANGED <<server, page, rows, typed, stale, mode, mount, undo>>
<1>1. CASE ChangeFilters
    <2>1. /\ Frame /\ queue' = Append(queue, ListCall(filters'))
          /\ asked' = Selects(filters') /\ crossed' = Searching
        BY <1>1 DEF ChangeFilters, ByHand, ApplyFilters
    <2>2. Quieter(queue', queue')
        BY <2>1, QueueIsSeq, Longer, QuietNone
    <2> QED BY <2>1, <2>2, RowsTouched
<1>2. ASSUME NEW s \in Saved, ApplySavedFilter(s) PROVE RowInv'
    <2> DEFINE F == Config[s].filters
               field == Config[s].groupBy
               first == Append(queue, ListCall(F))
    <2>1. /\ Frame /\ queue' = queue \o <<ListCall(F)>> \o GroupCalls(field)
          /\ asked' = Selects(F) /\ crossed' = Searching
        BY <1>2 DEF ApplySavedFilter, ApplyFilters
    <2>2. queue \o <<ListCall(F)>> = first
        BY QueueIsSeq DEF IsSeq
    <2>3. GroupCalls(field) \in {<<>>, <<DistinctCall(field)>>} /\ DistinctCall(field).kind = "distinct"
        BY DEF GroupCalls, DistinctCall
    <2>4. Quieter(first, first)
        BY QueueIsSeq, Longer, QuietNone
    <2>5. Quieter(first, queue')
        <3> HIDE DEF first, field
        <3> QED BY <2>1, <2>2, <2>3, <2>4, QuietMore
    <2> QED BY <2>1, <2>5, RowsTouched
<1> QED BY <1>1, <1>2

\* The banner displaced by a new one asks for one deletion at most.
LEMMA DisplacingIsQuiet ==
    ASSUME NEW q, NEW p, Quieter(q, p)
    PROVE  Quieter(q, p \o Displacing)
<1>1. Displacing \in {<<>>, <<RemoveCall(undo[Displaced].filter)>>}
    BY DEF Displacing
<1> DEFINE c == RemoveCall(undo[Displaced].filter)
<1>2. c.kind = "remove"
    BY DEF RemoveCall
<1> HIDE DEF c
<1>3. Displacing \in {<<>>, <<c>>}
    BY <1>1 DEF c
<1> QED BY <1>2, <1>3, QuietMore

\* The new banner took a number nobody had.
LEMMA NewBanner ==
    ASSUME IInv, Show, NEW new, undo' = [undo EXCEPT ![shown'] = new]
    PROVE  /\ shown' \in Toasts /\ undo'[shown'] = new
           /\ \A e \in Toasts : e # shown' => undo'[e] = undo[e]
<1>1. shown' \in Toasts
    BY ToastConstants DEF IInv, ToastInv, ToastTypeOK, Show, Toasts
<1> QED BY <1>1 DEF IInv, UndoInv

LEMMA RowsDeleted ==
    ASSUME IInv, RowInv, NEW s \in Saved, DeleteSavedFilter(s)
    PROVE  RowInv'
<1> DEFINE new == [of |-> "filter", filter |-> s, was |-> applied = s, filters |-> filters, group |-> group]
<1>1. /\ UNCHANGED <<server, page, rows, typed, stale, mode, mount>>
      /\ Show /\ undo' = [undo EXCEPT ![shown'] = new]
    BY DEF DeleteSavedFilter
<1>2. new.of = "filter"
    OBVIOUS
<1> HIDE DEF new
<1>3. \A e \in Toasts : undo'[e].of = "date" => undo'[e] = undo[e]
    BY <1>1, <1>2, NewBanner
<1>4. CASE applied = s
    <2> DEFINE first == Append(queue, ListCall({}))
    <2>1. queue' = queue \o <<ListCall({})>> \o Displacing /\ asked' = Selects({}) /\ crossed' = Searching
        BY <1>4 DEF DeleteSavedFilter, ApplyFilters
    <2>2. queue \o <<ListCall({})>> = first
        BY QueueIsSeq DEF IsSeq
    <2>3. Quieter(first, first)
        BY QueueIsSeq, Longer, QuietNone
    <2>4. Quieter(first, queue')
        BY <2>1, <2>2, <2>3, DisplacingIsQuiet
    <2> QED BY <1>1, <1>3, <2>1, <2>4, RowsTouched
<1>5. CASE applied # s
    <2>1. queue' = queue \o <<>> \o Displacing /\ UNCHANGED <<asked, crossed, disturbed>>
        BY <1>5 DEF DeleteSavedFilter
    <2>2. queue \o <<>> = queue
        BY QueueIsSeq DEF IsSeq
    <2>3. Quieter(queue, queue')
        BY <2>1, <2>2, QueueIsSeq, QuietNone, DisplacingIsQuiet
    <2> QED BY <1>1, <1>3, <2>1, <2>3, RowsQuiet
<1> QED BY <1>4, <1>5

LEMMA RowsRecovered ==
    ASSUME IInv, RowInv, RecoverFilter
    PROVE  RowInv'
<1> DEFINE u == undo[pending]
<1>1. UNCHANGED <<server, page, rows, typed, stale, mode, mount, undo>>
    BY DEF RecoverFilter
<1>2. CASE u.was
    <2> DEFINE first == Append(queue, ListCall(u.filters))
               c == DistinctCall(u.group)
    <2>1. /\ queue' = queue \o <<ListCall(u.filters)>> \o GroupCalls(u.group)
          /\ asked' = Selects(u.filters) /\ crossed' = Searching
        BY <1>2 DEF RecoverFilter, ApplyFilters
    <2>2. queue \o <<ListCall(u.filters)>> = first
        BY QueueIsSeq DEF IsSeq
    <2>3. GroupCalls(u.group) \in {<<>>, <<c>>} /\ c.kind = "distinct"
        BY DEF GroupCalls, DistinctCall
    <2>4. Quieter(first, first)
        BY QueueIsSeq, Longer, QuietNone
    <2>5. Quieter(first, queue')
        <3> HIDE DEF first, u, c
        <3> QED BY <2>1, <2>2, <2>3, <2>4, QuietMore
    <2> QED BY <1>1, <2>1, <2>5, RowsTouched
<1>3. CASE ~u.was
    <2>1. queue' = queue /\ UNCHANGED <<asked, crossed, disturbed>>
        BY <1>3 DEF RecoverFilter
    <2> QED BY <1>1, <2>1, QueueIsSeq, QuietNone, RowsQuiet
<1> QED BY <1>2, <1>3

LEMMA RowsOfSaved ==
    ASSUME IInv, RowInv, NEW failed \in BOOLEAN,
           AnswerSaved(failed) \/ AnswerCreate(failed) \/ AnswerRemove(failed) \/ AnswerDistinct(failed)
    PROVE  RowInv'
<1>1. /\ queue # <<>> /\ queue' = Tail(queue) /\ Call.kind \in {"saved", "create", "remove", "distinct"}
      /\ UNCHANGED <<server, page, rows, typed, asked, crossed, disturbed, stale, mode, mount, undo>>
    BY DEF AnswerSaved, AnswerCreate, AnswerRemove, AnswerDistinct, Answering, searchVars
<1> QED BY <1>1, RowsPopped

LEMMA RowsTyped ==
    ASSUME IInv, RowInv, NEW t \in {"empty", "text"}, Type(t)
    PROVE  RowInv'
<1>1. /\ UNCHANGED <<server, page, rows, queue, stale, mode, mount, undo>>
      /\ typed' = [text |-> t, fallback |-> page]
      /\ asked' = (IF t = "text" THEN Found ELSE Ids)
    BY DEF Type
<1>2. page \in Rows /\ DOMAIN page = Ids
    BY DEF RowInv, RowTypes, Rows
<1>3. RowTypes' /\ DateInv' /\ BoardInv' /\ CallTypes(queue', mount')
    BY <1>1, <1>2 DEF RowInv, RowTypes, DateInv, BoardInv
<1>4. TouchInv'
    BY <1>1, <1>2 DEF TouchInv
<1> QED BY <1>3, <1>4 DEF RowInv

LEMMA RowsEmptied ==
    ASSUME IInv, RowInv, FireEmpty
    PROVE  RowInv'
<1>1. /\ UNCHANGED <<server, page, queue, mode, mount, undo, asked, disturbed>>
      /\ typed.text = "empty" /\ typed' = Idle /\ rows' = typed.fallback
      /\ crossed' = (crossed \/ Queued({"list", "live"}))
      /\ stale' = (Queued({"update"}) \/ typed.fallback # server \/ (stale /\ Queued({"list", "live"})))
    BY DEF FireEmpty, SetRows
<1>2. typed.fallback \in Rows
    BY <1>1 DEF RowInv, RowTypes, Idle
<1>3. RowTypes' /\ DateInv' /\ CallTypes(queue', mount')
    BY <1>1, <1>2 DEF RowInv, RowTypes, DateInv
<1>4. TouchInv'
    <2> SUFFICES ASSUME ~disturbed, ~crossed, ~Queued({"list", "live"})
                 PROVE  Coming(queue, DOMAIN typed.fallback, asked)
        BY <1>1 DEF TouchInv, Idle
    <2>1. asked = Ids /\ DOMAIN typed.fallback = Ids
        BY <1>1 DEF RowInv, TouchInv
    <2> QED BY <2>1 DEF Coming, NoneComes, Queued
<1>5. BoardInv'
    <2> SUFFICES ASSUME ~Queued({"update"}), typed.fallback = server, ~stale \/ ~Queued({"list", "live"})
                 PROVE  BoardAgrees(queue, server, server)
        BY <1>1 DEF BoardInv
    <2>1. \A j \in DOMAIN queue : queue[j].kind = "live"
            => \A r \in DOMAIN queue[j].found : queue[j].found[r] = server[r]
        BY DEF RowInv, BoardInv, BoardAgrees, Queued
    <2>2. \A j \in DOMAIN queue : queue[j].kind # "update"
        BY DEF Queued
    <2> QED BY <2>1, <2>2, QueueIsSeq, StillAgrees
<1> QED BY <1>3, <1>4, <1>5 DEF RowInv

LEMMA RowsSearched ==
    ASSUME IInv, RowInv, FireText
    PROVE  RowInv'
<1> DEFINE c == LiveCall(1, <<>>)
<1>1. /\ UNCHANGED <<server, page, rows, mode, mount, undo, asked, crossed, disturbed, stale>>
      /\ typed.text = "text" /\ typed' = Idle /\ queue' = Append(queue, c)
    BY DEF FireText
<1>2. CallType(c, mount) /\ c.kind = "live" /\ DOMAIN c.found = {}
    <2>1. <<>> \in Rows /\ DOMAIN <<>> = {}
        <3>1. <<>> \in [{} -> Record]
            OBVIOUS
        <3> QED BY <3>1 DEF Rows
    <2>2. 1 \in 1..Len(LiveFields)
        BY ListConstants
    <2> QED BY <2>1, <2>2 DEF LiveCall, CallType
<1> HIDE DEF c
<1>3. RowTypes' /\ DateInv'
    BY <1>1 DEF RowInv, RowTypes, DateInv
<1>4. CallTypes(queue', mount')
    BY <1>1, <1>2, QueueIsSeq, MoveTypes DEF RowInv
<1>5. TouchInv'
    <2>1. ~disturbed /\ ~crossed => asked = Found
        BY <1>1 DEF RowInv, TouchInv
    <2>2. Coming(queue', DOMAIN rows, Found)
        BY <1>1, QueueIsSeq, SearchComesLast DEF RowInv, c
    <2> QED BY <1>1, <2>1, <2>2 DEF TouchInv, Idle
<1>6. BoardInv'
    <2>1. BoardAgrees(queue, rows, server) => BoardAgrees(queue', rows, server)
        BY <1>1, <1>2, QueueIsSeq, AskedAgrees
    <2> QED BY <1>1, <2>1 DEF RowInv, BoardInv
<1> QED BY <1>3, <1>4, <1>5, <1>6 DEF RowInv

LEMMA RowsReloaded ==
    ASSUME IInv, RowInv, Refresh
    PROVE  RowInv'
<1>1. /\ UNCHANGED <<server, queue, mode, mount, undo, typed>> /\ page' = server /\ rows' = server
      /\ disturbed' = TRUE /\ stale' = (Queued({"update"}) \/ (stale /\ Queued({"list", "live"})))
    BY DEF Refresh, SetRows, searchVars
<1>2. RowTypes' /\ DateInv' /\ CallTypes(queue', mount') /\ TouchInv'
    BY <1>1 DEF RowInv, RowTypes, DateInv, TouchInv, Rows
<1>3. BoardInv'
    <2> SUFFICES ASSUME ~Queued({"update"}), ~stale \/ ~Queued({"list", "live"})
                 PROVE  BoardAgrees(queue, server, server)
        BY <1>1 DEF BoardInv
    <2>1. \A j \in DOMAIN queue : queue[j].kind = "live"
            => \A r \in DOMAIN queue[j].found : queue[j].found[r] = server[r]
        BY DEF RowInv, BoardInv, BoardAgrees, Queued
    <2>2. \A j \in DOMAIN queue : queue[j].kind # "update"
        BY DEF Queued
    <2> QED BY <2>1, <2>2, QueueIsSeq, StillAgrees
<1> QED BY <1>2, <1>3 DEF RowInv

LEMMA RowsDropped ==
    ASSUME IInv, RowInv, NEW r \in Ids, NEW v \in Columns, Drop(r, v)
    PROVE  RowInv'
<1>1. /\ MoveField(r, v) /\ queue' = Append(queue, UpdateCall(r, mode, v, rows, mount))
      /\ UNCHANGED <<server, page, typed, asked, crossed, disturbed, mode, mount, undo>>
    BY DEF Drop, searchVars
<1>2. Quieter(queue', queue') /\ DateInv'
    BY <1>1, QueueIsSeq, Longer, QuietNone DEF RowInv, DateInv
<1> QED BY <1>1, <1>2, RowsMoved

LEMMA RowsDraggedOut ==
    ASSUME IInv, RowInv, NEW r \in Ids, DragOut(r)
    PROVE  RowInv'
<1> DEFINE new == [of |-> "date", id |-> r, date |-> rows[r]["calendar"], mount |-> mount, seen |-> rows]
           p == Append(queue, UpdateCall(r, "calendar", NoValue, rows, mount))
<1>1. /\ mode = "calendar" /\ MoveField(r, NoValue) /\ Show /\ undo' = [undo EXCEPT ![shown'] = new]
      /\ queue' = p \o Displacing
      /\ UNCHANGED <<server, page, typed, asked, crossed, disturbed, mode, mount>>
    BY DEF DragOut, searchVars
<1>2. /\ new.of = "date" /\ new.id \in Ids /\ new.date \in Columns /\ new.seen \in Rows /\ new.mount \in 0..mount
    <2>1. rows \in Rows /\ r \in DOMAIN rows /\ mount \in Nat
        BY <1>1 DEF RowInv, RowTypes, MoveField
    <2>2. rows[r] \in [Boards -> Columns] /\ "calendar" \in Boards
        BY <2>1 DEF Rows, Record, Boards
    <2>3. new.date \in Columns
        BY <2>2
    <2> QED BY <2>1, <2>3
<1> HIDE DEF new
<1>3. DateInv'
    <2>1. undo'[shown'] = new /\ \A e \in Toasts : e # shown' => undo'[e] = undo[e]
        BY <1>1, NewBanner
    <2> QED BY <1>1, <1>2, <2>1 DEF RowInv, DateInv
<1>4. Quieter(p, queue')
    BY <1>1, QueueIsSeq, Longer, QuietNone, DisplacingIsQuiet
<1> QED BY <1>1, <1>3, <1>4, RowsMoved DEF Columns

LEMMA RowsDateBack ==
    ASSUME IInv, RowInv, RecoverDate
    PROVE  RowInv'
<1> DEFINE u == undo[pending]
           seen == IF u.mount = mount THEN rows ELSE u.seen
           c == UpdateCall(u.id, "calendar", u.date, seen, u.mount)
<1>1. /\ pending \in Toasts /\ u.of = "date"
      /\ UNCHANGED <<server, page, typed, asked, crossed, disturbed, mode, mount, undo>>
    BY ToastConstants DEF RecoverDate, Recover, IInv, ToastInv, ToastTypeOK, Toasts, None, searchVars
<1>2. \/ UNCHANGED <<rows, queue, stale>>
      \/ /\ u.id \in DOMAIN seen /\ queue' = Append(queue, c)
         /\ \/ u.mount = mount /\ MoveField(u.id, u.date)
            \/ u.mount # mount /\ stale' = TRUE /\ rows' = rows
    BY DEF RecoverDate
<1>3. /\ u.id \in Ids /\ u.date \in Columns /\ u.seen \in Rows
      /\ u.mount \in 0..mount /\ (u.mount = mount => mode = "calendar")
    BY <1>1 DEF RowInv, DateInv
<1>4. DateInv' /\ IsSeq(queue)
    BY <1>1, QueueIsSeq DEF RowInv, DateInv
<1>5. CASE UNCHANGED <<rows, queue, stale>>
    BY <1>1, <1>4, <1>5, QuietNone, RowsQuiet
<1>6. CASE queue' = Append(queue, c) /\ u.mount = mount /\ MoveField(u.id, u.date)
    <2>1. c = UpdateCall(u.id, mode, u.date, rows, mount)
        BY <1>3, <1>6
    <2>2. Quieter(queue', queue')
        BY <1>4, <1>6, Longer, QuietNone
    <2> HIDE DEF c
    <2>3. PICK r \in Ids, v \in Columns : r = u.id /\ v = u.date
        BY <1>3
    <2> QED BY <1>1, <1>4, <1>6, <2>1, <2>2, <2>3, RowsMoved
<1>7. CASE u.id \in DOMAIN seen /\ queue' = Append(queue, c) /\ u.mount # mount /\ stale' = TRUE /\ rows' = rows
    <2>1. CallType(c, mount) /\ c.kind = "update"
        BY <1>3, <1>7 DEF CallType, UpdateCall, Boards
    <2> HIDE DEF c
    <2>2. RowTypes' /\ BoardInv'
        BY <1>1, <1>7 DEF RowInv, RowTypes, BoardInv
    <2>3. CallTypes(queue', mount')
        BY <1>1, <1>4, <1>7, <2>1, MoveTypes DEF RowInv
    <2>4. TouchInv'
        <3>1. Coming(queue, DOMAIN rows, asked) => Coming(queue', DOMAIN rows, asked)
            BY <1>4, <1>7, <2>1, MoveComes
        <3> QED BY <1>1, <1>7, <3>1 DEF RowInv, TouchInv
    <2> QED BY <1>4, <2>2, <2>3, <2>4 DEF RowInv
<1> QED BY <1>2, <1>5, <1>6, <1>7

LEMMA RowsSwitched ==
    ASSUME IInv, RowInv, NEW m \in Modes, SwitchMode(m)
    PROVE  RowInv'
<1>1. /\ UNCHANGED <<server, page, rows, queue, typed, asked, crossed, disturbed, stale>>
      /\ mode' = m /\ mount' = mount + 1 /\ mount \in Nat /\ rows \in Rows
      /\ \A e \in Toasts : \/ undo'[e] = undo[e]
                           \/ undo[e].of = "date" /\ undo'[e] = [undo[e] EXCEPT !.seen = rows]
    BY DEF SwitchMode, searchVars, RowInv, RowTypes
<1>2. RowTypes' /\ TouchInv' /\ BoardInv'
    BY <1>1 DEF RowInv, RowTypes, TouchInv, BoardInv
<1>3. CallTypes(queue', mount')
    BY <1>1 DEF RowInv, CallTypes, CallType
<1>4. DateInv'
    <2> SUFFICES ASSUME NEW e \in Toasts, undo'[e].of = "date"
                 PROVE  /\ undo'[e].id \in Ids /\ undo'[e].date \in Columns /\ undo'[e].seen \in Rows
                        /\ undo'[e].mount \in 0..mount' /\ undo'[e].mount # mount'
        BY DEF DateInv
    <2>1. CASE undo'[e] = undo[e]
        BY <1>1, <2>1 DEF RowInv, DateInv
    <2>2. CASE undo[e].of = "date" /\ undo'[e] = [undo[e] EXCEPT !.seen = rows]
        <3>1. undo[e].id \in Ids /\ undo[e].date \in Columns /\ undo[e].seen \in Rows /\ undo[e].mount \in 0..mount
            BY <2>2 DEF RowInv, DateInv
        <3>2. /\ undo'[e].id = undo[e].id /\ undo'[e].date = undo[e].date /\ undo'[e].mount = undo[e].mount
              /\ undo'[e].seen = rows \/ undo'[e].seen = undo[e].seen
            BY <2>2
        <3> QED BY <1>1, <3>1, <3>2
    <2> QED BY <1>1, <2>1, <2>2
<1> QED BY <1>2, <1>3, <1>4 DEF RowInv

----------------------------------------------------------------------------
(* The answers that set rows, or write a moved card *)

\* While what is shown can be trusted, a call that sets rows is at the head only
\* when no move is on its way.
LEMMA NoMoveBehind ==
    ASSUME NEW q, IsSeq(q), q # <<>>, NEW cards, NEW stored, BoardAgrees(q, cards, stored),
           q[1].kind \in {"list", "live"}
    PROVE  \A i \in DOMAIN q : q[i].kind # "update"
<1> SUFFICES ASSUME NEW i \in DOMAIN q, q[i].kind = "update" PROVE FALSE
    OBVIOUS
<1>1. i \in 1..Len(q) /\ 1 \in DOMAIN q
    BY Popped
<1>2. i < 1
    BY <1>1 DEF BoardAgrees
<1> QED BY <1>1, <1>2

LEMMA RowsListed ==
    ASSUME IInv, RowInv, NEW failed \in BOOLEAN, AnswerList(failed)
    PROVE  RowInv'
<1> DEFINE new == Fetched(Selects(Call.filters))
<1>1. /\ queue # <<>> /\ Call.kind = "list" /\ queue' = Tail(queue)
      /\ UNCHANGED <<server, page, mode, mount, typed, asked, crossed, undo>>
      /\ \/ failed /\ UNCHANGED <<rows, stale>>
         \/ ~failed /\ rows' = new /\ stale' = (stale /\ Queued({"update", "live"}))
    BY DEF AnswerList, Answering, SetRows, searchVars
<1>d. ~disturbed' => ~disturbed /\ ~failed
    BY Zenon DEF AnswerList
<1>q. IsSeq(queue) /\ IsSeq(queue') /\ Call = Head(queue) /\ Call = queue[1]
    BY <1>1, QueueIsSeq, Popped DEF Call
<1>2. CallTypes(queue', mount')
    BY <1>1, <1>q, Popped DEF RowInv, CallTypes
<1>3. new \in Rows /\ DOMAIN new = Selects(Call.filters) /\ \A r \in DOMAIN new : new[r] = server[r]
    <2>1. Selects(Call.filters) \in SUBSET Ids
        BY DEF Selects
    <2>2. new \in [Selects(Call.filters) -> Record]
        BY <2>1 DEF Fetched, RowInv, RowTypes
    <2> QED BY <2>1, <2>2 DEF Fetched, Rows
<1> HIDE DEF new
<1>4. RowTypes' /\ DateInv'
    BY <1>1, <1>3 DEF RowInv, RowTypes, DateInv
<1>5. TouchInv'
    <2> SUFFICES ASSUME ~failed, Coming(queue, DOMAIN rows, asked) PROVE Coming(queue', DOMAIN new, asked)
        BY <1>1, <1>d DEF RowInv, TouchInv
    <2> QED BY <1>1, <1>3, <1>q, ListedComes
<1>6. BoardInv'
    <2>1. ASSUME ~stale PROVE \A i \in DOMAIN queue : queue[i].kind # "update"
        BY <1>1, <1>q, <2>1, NoMoveBehind DEF RowInv, BoardInv
    <2>2. \A i \in DOMAIN queue' : i + 1 \in DOMAIN queue /\ queue'[i] = queue[i + 1]
        BY <1>1, <1>q, Popped
    <2>3. CASE failed
        <3>1. \A r \in Ids, b \in Boards : ~Moves(queue, 1, r, b)
            BY <1>1, <1>q DEF Moves
        <3>2. BoardAgrees(queue, rows, server) => BoardAgrees(queue', rows, server)
            BY <1>1, <1>q, <3>1, AnsweredAgrees DEF RowInv, RowTypes
        <3> QED BY <1>1, <2>3, <3>2 DEF RowInv, BoardInv
    <2>4. CASE ~failed
        <3> SUFFICES ASSUME ~(stale /\ Queued({"update", "live"})) PROVE BoardAgrees(queue', new, server)
            BY <1>1, <2>4 DEF BoardInv
        <3>1. \A i \in DOMAIN queue : queue[i].kind # "update"
            BY <2>1 DEF Queued
        <3>2. \A j \in DOMAIN queue : queue[j].kind = "live"
                => \A r \in DOMAIN queue[j].found : queue[j].found[r] = server[r]
            BY DEF RowInv, BoardInv, BoardAgrees, Queued
        <3> QED BY <1>3, <1>q, <2>2, <3>1, <3>2, StillAgrees
    <2> QED BY <2>3, <2>4
<1> QED BY <1>2, <1>4, <1>5, <1>6 DEF RowInv

\* What a search found before is kept, and what the next field finds is added.
LEMMA FoundMore ==
    ASSUME NEW f \in Rows, NEW g \in Rows
    PROVE  Merging(f, g) \in Rows /\ DOMAIN Merging(f, g) = DOMAIN f \union DOMAIN g
<1>1. PICK A \in SUBSET Ids, B \in SUBSET Ids : f \in [A -> Record] /\ g \in [B -> Record]
    BY DEF Rows
<1>2. Merging(f, g) \in [A \union B -> Record]
    BY <1>1 DEF Merging
<1>3. A \union B \in SUBSET Ids
    OBVIOUS
<1> QED BY <1>2, <1>3, Zenon DEF Rows, Merging

\* With no move on its way, agreeing is showing what the server stores.
LEMMA AgreesStill ==
    ASSUME NEW q, IsSeq(q), \A i \in DOMAIN q : q[i].kind # "update", NEW cards \in Rows,
           NEW stored \in [Ids -> Record], BoardAgrees(q, cards, stored)
    PROVE  \A r \in DOMAIN cards : cards[r] = stored[r]
<1> SUFFICES ASSUME NEW r \in DOMAIN cards PROVE cards[r] = stored[r]
    OBVIOUS
<1>1. cards[r] \in Record /\ stored[r] \in Record
    BY DEF Rows
<1>2. ASSUME NEW b \in Boards PROVE cards[r][b] = stored[r][b]
    <2>1. Says(q, Len(q) + 1, stored, r, b, cards[r][b])
        BY DEF BoardAgrees
    <2>2. \A i \in DOMAIN q : ~Moves(q, i, r, b)
        BY DEF Moves
    <2> QED BY <2>1, <2>2, Zenon DEF Says
<1> QED BY <1>1, <1>2 DEF Record

LEMMA RowsFound ==
    ASSUME IInv, RowInv, NEW failed \in BOOLEAN, AnswerLive(failed)
    PROVE  RowInv'
<1> DEFINE more == Fetched(Hits[Call.at])
           found == IF failed THEN Call.found ELSE Merging(Call.found, more)
           next == LiveCall(Call.at + 1, found)
           over == Call.at = Len(LiveFields)
<1>1. /\ queue # <<>> /\ Call.kind = "live"
      /\ UNCHANGED <<server, page, mode, mount, typed, asked, crossed, undo, stale>>
      /\ \/ over /\ queue' = Tail(queue) /\ rows' = found
         \/ ~over /\ queue' = Append(Tail(queue), next) /\ UNCHANGED rows
    BY DEF AnswerLive, Answering, SetRows, searchVars
<1>d. ~disturbed' => ~disturbed /\ ~failed
    BY Zenon DEF AnswerLive
<1>q. /\ IsSeq(queue) /\ IsSeq(Tail(queue)) /\ Call = Head(queue) /\ Call = queue[1] /\ 1 \in DOMAIN queue
      /\ \A i \in DOMAIN Tail(queue) : i + 1 \in DOMAIN queue /\ Tail(queue)[i] = queue[i + 1]
    BY <1>1, QueueIsSeq, Popped DEF Call
<1>2. Call.at \in 1..Len(LiveFields) /\ Call.found \in Rows /\ Len(LiveFields) \in Nat
    BY <1>1, <1>q, ListConstants DEF RowInv, CallTypes, CallType
<1>3. Hits[Call.at] \in SUBSET Ids
    BY <1>2, ListConstants
<1>4. more \in Rows /\ DOMAIN more = Hits[Call.at] /\ \A r \in DOMAIN more : more[r] = server[r]
    <2>1. more \in [Hits[Call.at] -> Record]
        BY <1>3 DEF Fetched, RowInv, RowTypes
    <2> QED BY <1>3, <2>1 DEF Fetched, Rows
<1> HIDE DEF more
<1>5. found \in Rows /\ (~failed => DOMAIN found = DOMAIN Call.found \union Hits[Call.at])
    BY <1>2, <1>4, FoundMore
<1>6. (\A r \in DOMAIN Call.found : Call.found[r] = server[r]) => \A r \in DOMAIN found : found[r] = server[r]
    BY <1>4 DEF Merging
<1> HIDE DEF found
<1>7. /\ IsSeq(queue')
      /\ \A i \in DOMAIN queue' :
            (i \in DOMAIN Tail(queue) /\ queue'[i] = queue[i + 1]) \/ (~over /\ queue'[i] = next)
    <2> HIDE DEF next, over
    <2>1. CASE over
        BY <1>1, <1>q, <2>1
    <2>2. CASE ~over
        <3>1. queue' = Append(Tail(queue), next)
            BY <1>1, <2>2
        <3>2. \A i \in DOMAIN queue' : i \in DOMAIN Tail(queue) \/ i = Len(Tail(queue)) + 1
            BY <1>q, <3>1, Longer
        <3> QED BY <1>q, <2>2, <3>1, <3>2, Longer
    <2> QED BY <2>1, <2>2
<1>8. ~over => CallType(next, mount)
    BY <1>2, <1>5 DEF CallType, LiveCall
<1>9. CallTypes(queue', mount')
    <2> HIDE DEF next
    <2> QED BY <1>1, <1>q, <1>7, <1>8 DEF RowInv, CallTypes
<1>10. RowTypes' /\ DateInv'
    BY <1>1, <1>5 DEF RowInv, RowTypes, DateInv
<1>11. TouchInv'
    <2> SUFFICES ASSUME ~failed, Coming(queue, DOMAIN rows, asked) PROVE Coming(queue', DOMAIN rows', asked)
        BY <1>1, <1>d DEF RowInv, TouchInv
    <2>1. DOMAIN found = DOMAIN Head(queue).found \union Hits[Head(queue).at]
        BY <1>5, <1>q
    <2>2. /\ over => Coming(Tail(queue), DOMAIN found, asked)
          /\ ~over => Coming(Append(Tail(queue), next), DOMAIN rows, asked)
        BY <1>1, <1>q, <2>1, SearchedComes DEF RowInv
    <2> HIDE DEF next, over
    <2> QED BY <1>1, <2>2
<1>12. BoardInv'
    <2> SUFFICES ASSUME BoardAgrees(queue, rows, server) PROVE BoardAgrees(queue', rows', server)
        BY <1>1 DEF RowInv, BoardInv
    <2>1. \A i \in DOMAIN queue : queue[i].kind # "update"
        BY <1>1, <1>q, NoMoveBehind
    <2>2. \A r \in DOMAIN rows : rows[r] = server[r]
        BY <1>q, <2>1, AgreesStill DEF RowInv, RowTypes
    <2>3. \A j \in DOMAIN queue : queue[j].kind = "live"
            => \A r \in DOMAIN queue[j].found : queue[j].found[r] = server[r]
        BY DEF BoardAgrees
    <2>4. \A r \in DOMAIN found : found[r] = server[r]
        BY <1>1, <1>6, <1>q, <2>3
    <2>5. next.kind = "live" /\ next.found = found
        BY DEF LiveCall
    <2> HIDE DEF next, over
    <2>6. \A i \in DOMAIN queue' : queue'[i].kind # "update"
        BY <1>7, <1>q, <2>1, <2>5
    <2>7. \A j \in DOMAIN queue' : queue'[j].kind = "live"
            => \A r \in DOMAIN queue'[j].found : queue'[j].found[r] = server[r]
        BY <1>7, <1>q, <2>3, <2>4, <2>5
    <2>8. \A r \in DOMAIN rows' : rows'[r] = server[r]
        BY <1>1, <2>2, <2>4
    <2> QED BY <1>7, <2>6, <2>7, <2>8, StillAgrees
<1> QED BY <1>9, <1>10, <1>11, <1>12 DEF RowInv

\* The oldest call, a move, as it is stored.
LEMMA WrittenSays ==
    ASSUME IInv, RowInv, Answering("update")
    PROVE  /\ queue # <<>> /\ IsSeq(queue) /\ Call = Head(queue) /\ Call = queue[1] /\ 1 \in DOMAIN queue
           /\ CallTypes(Tail(queue), mount) /\ Call.previous \in Rows /\ Written \in [Ids -> Record]
           /\ \A r \in Ids, b \in Boards : Written[r][b] = IF Moves(queue, 1, r, b) THEN Call.value ELSE server[r][b]
<1>1. queue # <<>> /\ IsSeq(queue) /\ Call = Head(queue) /\ Call = queue[1] /\ Call.kind = "update"
    BY QueueIsSeq, Popped DEF Answering, Call
<1>2. 1 \in DOMAIN queue /\ \A i \in DOMAIN Tail(queue) : i + 1 \in DOMAIN queue /\ Tail(queue)[i] = queue[i + 1]
    BY <1>1, Popped
<1>3. CallTypes(Tail(queue), mount)
    BY <1>2 DEF RowInv, CallTypes
<1>4. Call.id \in Ids /\ Call.board \in Boards /\ Call.value \in Columns /\ Call.previous \in Rows
    BY <1>1, <1>2 DEF RowInv, CallTypes, CallType
<1>5. server \in [Ids -> Record] /\ server[Call.id] \in Record
    BY <1>4 DEF RowInv, RowTypes
<1> DEFINE card == [server[Call.id] EXCEPT ![Call.board] = Call.value]
<1>6. /\ card \in Record
      /\ \A b \in Boards : card[b] = IF b = Call.board THEN Call.value ELSE server[Call.id][b]
    BY <1>4, <1>5 DEF Record
<1>7. Written = [server EXCEPT ![Call.id] = card]
    BY <1>5 DEF Written
<1> HIDE DEF card
<1>8. Written \in [Ids -> Record] /\ \A r \in Ids : Written[r] = IF r = Call.id THEN card ELSE server[r]
    BY <1>4, <1>5, <1>6, <1>7
<1>9. ASSUME NEW r \in Ids, NEW b \in Boards
      PROVE  Written[r][b] = IF Moves(queue, 1, r, b) THEN Call.value ELSE server[r][b]
    BY <1>1, <1>6, <1>8 DEF Moves
<1> QED BY <1>1, <1>2, <1>3, <1>4, <1>8, <1>9

LEMMA RowsWritten ==
    ASSUME IInv, RowInv, AnswerUpdate
    PROVE  RowInv'
<1>1. /\ Answering("update") /\ Call.kind = "update" /\ queue' = Tail(queue) /\ server' = Written
      /\ UNCHANGED <<page, rows, mode, mount, typed, asked, crossed, undo, disturbed, stale>>
    BY DEF AnswerUpdate, Answering, searchVars
<1>2. RowTypes' /\ DateInv' /\ CallTypes(queue', mount')
    BY <1>1, WrittenSays DEF RowInv, RowTypes, DateInv
<1>3. TouchInv'
    <2>1. Coming(queue, DOMAIN rows, asked) => Coming(queue', DOMAIN rows, asked)
        BY <1>1, WrittenSays, PoppedComes
    <2> QED BY <1>1, <2>1 DEF RowInv, TouchInv
<1>4. BoardInv'
    <2>1. BoardAgrees(queue, rows, server) => BoardAgrees(Tail(queue), rows, Written)
        BY <1>1, WrittenSays, AnsweredAgrees DEF RowInv, RowTypes
    <2> QED BY <1>1, <2>1 DEF RowInv, BoardInv
<1> QED BY <1>2, <1>3, <1>4 DEF RowInv

\* A refused move, or one whose answer was lost, puts the whole list back.
LEMMA RowsRejected ==
    ASSUME IInv, RowInv, RejectUpdate
    PROVE  RowInv'
<1>1. /\ Answering("update") /\ Call.kind = "update" /\ queue' = Tail(queue) /\ server' \in {server, Written}
      /\ rows' = Call.previous \/ rows' = rows
      /\ UNCHANGED <<page, mode, mount, typed, asked, crossed, undo>>
    BY DEF RejectUpdate, Answering, SetRows, searchVars
<1>d. ~disturbed' => ~disturbed /\ DOMAIN rows' = DOMAIN rows
    BY Zenon DEF RejectUpdate
<1>s. ~stale' => /\ ~stale /\ server' = server /\ rows' = Call.previous
                 /\ \A i \in DOMAIN Tail(queue) : Tail(queue)[i].kind # "update"
                 /\ rows = [Call.previous EXCEPT ![Call.id] = [@ EXCEPT ![Call.board] = Call.value]]
    BY DEF RejectUpdate, SetRows
<1>2. RowTypes' /\ DateInv' /\ CallTypes(queue', mount')
    BY <1>1, WrittenSays DEF RowInv, RowTypes, DateInv
<1>3. TouchInv'
    <2>1. Coming(queue, DOMAIN rows, asked) => Coming(queue', DOMAIN rows, asked)
        BY <1>1, WrittenSays, PoppedComes
    <2> QED BY <1>1, <1>d, <2>1 DEF RowInv, TouchInv
<1>4. BoardInv'
    <2> SUFFICES ASSUME ~stale' PROVE BoardAgrees(Tail(queue), Call.previous, server)
        BY <1>1, <1>s DEF BoardInv
    <2>1. BoardAgrees(queue, rows, server) /\ CallTypes(queue, mount) /\ rows \in Rows /\ server \in [Ids -> Record]
        BY <1>s DEF RowInv, RowTypes, BoardInv
    <2> QED BY <1>1, <1>s, <2>1, WrittenSays, RolledBackAgrees
<1> QED BY <1>2, <1>3, <1>4 DEF RowInv

----------------------------------------------------------------------------

LEMMA RowInit == Init => RowInv
<1> SUFFICES ASSUME Init PROVE RowInv
    OBVIOUS
<1>1. /\ queue = <<>> /\ page = server /\ rows = server /\ asked = Ids /\ mode \in Modes /\ mount = 0
      /\ typed = Idle /\ undo = [e \in Toasts |-> NoUndo] /\ server \in [Ids -> {[b \in Boards |-> v] : v \in Values}]
    BY DEF Init
<1>2. server \in [Ids -> Record]
    <2>1. \A v \in Values : [b \in Boards |-> v] \in Record
        BY DEF Record, Columns
    <2>2. {[b \in Boards |-> v] : v \in Values} \subseteq Record
        BY <2>1
    <2> HIDE DEF Record
    <2> QED BY <1>1, <2>2
<1>3. rows \in Rows /\ DOMAIN rows = Ids
    BY <1>1, <1>2 DEF Rows
<1>4. IsSeq(queue) /\ DOMAIN queue = {}
    BY <1>1 DEF IsSeq
<1>5. CallTypes(queue, mount) /\ RowTypes /\ DateInv
    BY <1>1, <1>2, <1>3, <1>4 DEF CallTypes, RowTypes, DateInv, NoUndo
<1>6. TouchInv
    BY <1>1, <1>3, <1>4 DEF TouchInv, Coming, NoneComes, Idle
<1>7. BoardInv
    BY <1>1, <1>4, StillAgrees DEF BoardInv
<1> QED BY <1>5, <1>6, <1>7 DEF RowInv

LEMMA RowNext == IInv /\ RowInv /\ [Next]_vars => RowInv'
<1>1. ASSUME IInv, RowInv, UNCHANGED vars PROVE RowInv'
    <2>1. /\ UNCHANGED <<server, page, rows, typed, asked, crossed, disturbed, stale, mode, mount>>
          /\ queue' = queue /\ undo' = undo
        BY <1>1 DEF vars, searchVars
    <2>2. Quieter(queue, queue')
        BY <1>1, <2>1, QueueIsSeq, QuietNone
    <2> QED BY <1>1, <2>1, <2>2, RowsQuiet
<1>2. ASSUME IInv, RowInv, Next PROVE RowInv'
    <2>1. CASE User
        <3>1. \/ (\E t \in {"empty", "text"} : Type(t))
              \/ ChangeFilters \/ OpenMenu \/ RecoverFilter \/ RecoverDate \/ DismissBanner \/ Select
              \/ (\E s \in Saved : ApplySavedFilter(s) \/ SaveCurrentFilters(s) \/ DeleteSavedFilter(s))
              \/ (\E f \in GroupFields : OpenGroupField(f))
              \/ (\E r \in Ids : DragOut(r) \/ \E v \in Columns : Drop(r, v))
              \/ (\E m \in Modes : SwitchMode(m))
            BY <2>1 DEF User
        <3> QED BY <1>2, <3>1, RowsTyped, RowsApart, RowsFiltered, RowsRecovered, RowsDateBack, RowsDeleted,
                   RowsDraggedOut, RowsDropped, RowsSwitched, Zenon
    <2>2. CASE FireEmpty \/ FireText \/ ExpireBanner \/ Refresh \/ AnswerUpdate \/ RejectUpdate
        BY <1>2, <2>2, RowsEmptied, RowsSearched, RowsApart, RowsReloaded, RowsWritten, RowsRejected
    <2>3. ASSUME NEW failed \in BOOLEAN,
                 \/ AnswerList(failed) \/ AnswerLive(failed) \/ AnswerSaved(failed)
                 \/ AnswerCreate(failed) \/ AnswerRemove(failed) \/ AnswerDistinct(failed)
          PROVE  RowInv'
        BY <1>2, <2>3, RowsListed, RowsFound, RowsOfSaved
    <2> QED BY <1>2, <2>1, <2>2, <2>3 DEF Next
<1> QED BY <1>1, <1>2

----------------------------------------------------------------------------

LEMMA Inductive == Spec => []IInv
BY InitOK, StepOK, PTL DEF Spec

\* The bar names a saved filter only while that filter's conditions are applied,
\* through typed searches, deletions, recoveries and failed calls.
THEOREM NameTellsConditionsHolds == Spec => []NameTellsConditions
<1>1. IInv => NameTellsConditions
    BY DEF IInv, NameInv
<1> QED BY <1>1, Inductive, PTL

\* A saved filter whose deletion was taken back stays on the server, and no call
\* on its way removes it, unless another banner that ran out deleted it.
THEOREM RecoveredIsKeptHolds == Spec => []RecoveredIsKept
<1>1. IInv => RecoveredIsKept
    <2> SUFFICES ASSUME IInv, NEW e \in Toasts, fate[e] = "recovered", undo[e].of = "filter",
                        ~DeletedBy(undo[e].filter)
                 PROVE  /\ undo[e].filter \in store
                        /\ \A i \in DOMAIN queue : queue[i] # RemoveCall(undo[e].filter)
        BY DEF RecoveredIsKept, DeletedBy
    <2>1. undo[e].filter \in store
        BY DEF IInv, KnownInv, Known
    <2>2. ASSUME NEW i \in DOMAIN queue, queue[i] = RemoveCall(undo[e].filter) PROVE FALSE
        <3>1. queue[i].kind = "remove" /\ queue[i].filter = undo[e].filter
            BY <2>2 DEF RemoveCall
        <3>2. undo[e].filter \in Removes(queue)
            BY <3>1 DEF Removes
        <3> QED BY <3>2 DEF IInv, RemoveInv
    <2> QED BY <2>1, <2>2
<1> QED BY <1>1, Inductive, PTL

LEMMA RowsInductive == Spec => []RowInv
<1>1. Spec => []IInv
    BY Inductive
<1> QED BY <1>1, RowInit, RowNext, PTL DEF Spec

\* Once everything is answered the grid shows what the last touch of the search
\* bar asks for, however the lists, the searches and the moves were interleaved,
\* when no older search was under way and no call failed since.
THEOREM CalmTouchWinsHolds == Spec => []CalmTouchWins
<1>1. RowInv => CalmTouchWins
    <2> SUFFICES ASSUME RowInv, Quiet, ~disturbed, ~crossed PROVE DOMAIN rows = asked
        BY DEF CalmTouchWins
    <2>1. NoneComes(queue) /\ typed.text = "off"
        BY DEF Quiet, Queued, NoneComes, Idle
    <2>2. Coming(queue, DOMAIN rows, asked)
        BY <2>1 DEF RowInv, TouchInv
    <2> QED BY <2>1, <2>2 DEF Coming, NoneComes, ListComes, LiveComes
<1> QED BY <1>1, RowsInductive, PTL

\* With no write under way every card shows what the server stores, refused moves
\* included, unless the history says why it may not.
THEOREM BoardShowsServerHolds == Spec => []BoardShowsServer
<1>1. IInv /\ RowInv => BoardShowsServer
    <2> SUFFICES ASSUME IInv, RowInv, ~stale, ~Queued({"update"})
                 PROVE  \A r \in DOMAIN rows : rows[r] = server[r]
        BY DEF BoardShowsServer
    <2>1. \A i \in DOMAIN queue : queue[i].kind # "update"
        BY DEF Queued
    <2>2. BoardAgrees(queue, rows, server) /\ rows \in Rows /\ server \in [Ids -> Record]
        BY DEF RowInv, RowTypes, BoardInv
    <2> QED BY <2>1, <2>2, QueueIsSeq, AgreesStill
<1> QED BY <1>1, Inductive, RowsInductive, PTL

\* Shared by both uses of the banner, its callbacks stay exclusive.
THEOREM PageSettlesOnce == Spec => SettledOnce
<1>1. IInv /\ [Next]_vars
        => [\A e \in Toasts : fate[e] \in {"recovered", "expired"} => fate'[e] = fate[e]]_toastVars
    BY ToastSteps, ToastStep DEF IInv
<1> QED BY <1>1, Inductive, PTL DEF Spec, SettledOnce
=============================================================================
