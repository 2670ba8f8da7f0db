------------------------------ MODULE Sessions ------------------------------
(***************************************************************************)
(* The session of one user: Go's refresh tokens (refresh_store.go, the     *)
(* login, refresh and logout handlers), the cookies of the user's          *)
(* browsers, and the three places of the Next server that spend a refresh  *)
(* token: proxy.ts ahead of every page, the shared refresh of ApiClient.ts *)
(* behind a 401, and the /api/auth routes.                                 *)
(*                                                                         *)
(* A token carries its user and the second it was issued and nothing else  *)
(* (token.go), so a token IS that second: two issued in one second are one *)
(* and the same.  0 stands for no token.                                   *)
(***************************************************************************)
EXTENDS Naturals, Sequences

CONSTANTS
    Browsers,    \* the user's browsers, one cookie jar each
    Requests,    \* the HTTP requests they send
    AccessTTL,   \* seconds an access token is accepted
    RefreshTTL,  \* seconds a refresh token is accepted
    Recent,      \* how many of the newest rows Validate looks at (ten)
    MaxNow,      \* bound of the clock
    MaxFaults    \* bound on failed or unanswered calls to Go

ASSUME SessionConstants ==
    /\ AccessTTL \in Nat /\ RefreshTTL \in Nat /\ Recent \in Nat \ {0}
    /\ MaxNow \in Nat \ {0} /\ MaxFaults \in Nat
    /\ 0 \notin Requests

VARIABLES
    now,      \* the clock
    rows,     \* refresh_tokens, oldest first: the token and whether it is live
    jar,      \* browser -> its two session cookies
    pc,       \* request -> where it stands
    caller,   \* request -> who asked Go for new tokens on its behalf
    seen,     \* request -> the live rows its open transaction revokes
    req,      \* request -> what it carries
    flight,   \* inflightRefresh: the request whose refresh is in flight, or none
    faults,   \* calls to Go that failed so far
    overlap,  \* history: two Save transactions were open at once
    calm,     \* history: one browser, one request at a time, no fault
    over      \* history: every session was ended and no exchange was open then

ghosts == <<overlap, calm, over>>
vars == <<now, rows, jar, pc, caller, seen, req, flight, faults, ghosts>>

None == 0
Token == 0..MaxNow
Row == [token : Token \ {None}, live : BOOLEAN]
Cookies == [access : Token, refresh : Token]
NoCookies == [access |-> None, refresh |-> None]

\* A page is rendered by the server and cannot write cookies, an action (Server
\* Action or /api route) can, the print page carries a token of its own.
DataKind == {"page", "action", "print"}
Kind == DataKind \union {"login", "logout", "refresh"}
Pc == {"new", "proxy", "call", "validate", "revoke", "save", "commit", "wait", "retry", "respond", "end"}
Caller == {"proxy", "client", "route"}
\* joined: it awaited the refresh of another request.  refused: its own refresh,
\* or the one it awaited, was turned down.
Request == [kind : Kind, from : Browsers, store : Cookies, wrote : {"nothing", "set", "clear"},
            issued : Token, joined : BOOLEAN, refused : BOOLEAN]

Carried(kind, b, store) == [kind |-> kind, from |-> b, store |-> store, wrote |-> "nothing",
                            issued |-> None, joined |-> FALSE, refused |-> FALSE]

TypeOK ==
    /\ now \in 1..MaxNow
    /\ rows \in Seq(Row)
    /\ jar \in [Browsers -> Cookies]
    /\ pc \in [Requests -> Pc]
    /\ caller \in [Requests -> Caller]
    /\ seen \in [Requests -> SUBSET Nat]
    /\ req \in [Requests -> Request]
    /\ flight \in Requests \union {None}
    /\ faults \in 0..MaxFaults
    /\ overlap \in BOOLEAN /\ calm \in BOOLEAN /\ over \in BOOLEAN

\* A first login in second 1 left one live token and its cookies.
Init ==
    /\ now = 1
    /\ rows = <<[token |-> 1, live |-> TRUE]>>
    /\ \E first \in Browsers :
        /\ jar = [b \in Browsers |-> IF b = first THEN [access |-> 1, refresh |-> 1] ELSE NoCookies]
        /\ req = [r \in Requests |-> Carried("page", first, NoCookies)]
    /\ pc = [r \in Requests |-> "new"]
    /\ caller = [r \in Requests |-> "route"]
    /\ seen = [r \in Requests |-> {}]
    /\ flight = None /\ faults = 0
    /\ overlap = FALSE /\ calm = TRUE /\ over = FALSE

----------------------------------------------------------------------------
(* Go *)

Live == {i \in DOMAIN rows : rows[i].live}
Accepted(access) == access # None /\ now <= access + AccessTTL
Unexpired(refresh) == refresh # None /\ now <= refresh + RefreshTTL

\* The rows Validate compares: the newest Recent ones whose hash matches.
Matching(token) == {i \in DOMAIN rows : i + Recent > Len(rows) /\ rows[i].token = token}
Newest(S) == {i \in S : \A j \in S : j <= i}

Revoked(S) == [i \in DOMAIN rows |-> [token |-> rows[i].token, live |-> rows[i].live /\ i \notin S]]

\* An exchange that has been accepted and whose Save has not committed yet.
Exchanging == {r \in Requests : pc[r] \in {"save", "commit"}}

----------------------------------------------------------------------------
(* The Next server.  Settle hands the answer of Go to whoever asked for it: *)
(* "ok" with the new tokens, "no" for an error response, "thrown" when the  *)
(* call itself failed.                                                      *)

Answer == {"ok", "no", "thrown"}

\* Mutant: the rotated refresh token is not stored.
WithAccessOnly(r, write) ==
    [req[r] EXCEPT !.wrote = write,
                   !.store = CASE write = "set" -> [@ EXCEPT !.access = req[r].issued]
                               [] write = "clear" -> NoCookies
                               [] OTHER -> @]

\* setSessionCookies and clearSessionCookies, on the cookies a request carries.
With(r, write) ==
    [req[r] EXCEPT !.wrote = write,
                   !.store = CASE write = "set" -> [access |-> req[r].issued, refresh |-> req[r].issued]
                               [] write = "clear" -> NoCookies
                               [] OTHER -> @]

\* Mutant: a refresh that fails settles for its own request only.
SettleClientAlone(r, answer) ==
    /\ flight' = None
    /\ pc' = [pc EXCEPT ![r] = IF answer = "ok" THEN "retry" ELSE "respond"]
    /\ req' = [req EXCEPT ![r] = With(r, IF answer = "ok" THEN "set" ELSE "clear")]

\* refreshSession settles: its own request wrote the new cookies, the ones that
\* awaited it hold the cookies they came with.  clearSession follows a refusal.
SettleClient(r, answer) ==
    LET settled == {q \in Requests : q = r \/ pc[q] = "wait"}
    IN  /\ flight' = None
        /\ pc' = [q \in Requests |-> IF q \notin settled THEN pc[q]
                                     ELSE IF answer = "ok" THEN "retry" ELSE "respond"]
        /\ req' = [q \in Requests |->
                     CASE q \notin settled -> req[q]
                       [] q \in settled /\ answer = "ok" -> IF q = r THEN With(q, "set") ELSE req[q]
                       [] q \in settled /\ answer = "no" -> [With(q, "clear") EXCEPT !.refused = TRUE]
                       [] q \in settled /\ answer = "thrown" -> [req[q] EXCEPT !.refused = TRUE]]

\* proxy.ts: any failure clears both cookies, and the request goes on.
SettleProxy(r, answer) ==
    /\ pc' = [pc EXCEPT ![r] = "call"]
    /\ req' = [req EXCEPT ![r] = With(r, IF answer = "ok" THEN "set" ELSE "clear")]
    /\ UNCHANGED flight

\* The login route leaves the cookies alone when Go refuses, the refresh route
\* clears them if it had one to spend; the logout route clears them in any case.
SettleRoute(r, answer) ==
    /\ pc' = [pc EXCEPT ![r] = "respond"]
    /\ req' = [req EXCEPT ![r] = With(r, CASE req[r].kind = "logout" -> "clear"
                                           [] req[r].kind # "logout" /\ answer = "ok" -> "set"
                                           [] req[r].kind = "refresh" /\ answer # "ok" /\ req[r].store.refresh # None -> "clear"
                                           [] OTHER -> "nothing")]
    /\ UNCHANGED flight

Settle(r, answer) ==
    /\ \/ caller[r] = "client" /\ SettleClient(r, answer)
       \/ caller[r] = "proxy" /\ SettleProxy(r, answer)
       \/ caller[r] = "route" /\ SettleRoute(r, answer)
    /\ UNCHANGED caller

\* A browser sends a request, with the cookies it holds.
Send(r, b, kind, store, next) ==
    /\ pc[r] = "new"
    /\ pc' = [pc EXCEPT ![r] = next]
    /\ req' = [req EXCEPT ![r] = Carried(kind, b, store)]
    /\ calm' = (/\ calm
                /\ \A q \in Requests : pc[q] \in {"new", "end"}
                /\ \A c \in Browsers \ {b} : jar[c] = NoCookies)
    /\ over' = (over /\ kind # "login")
    /\ UNCHANGED <<now, rows, jar, caller, seen, flight, faults, overlap>>

\* A page or an action; proxy.ts is ahead of everything but /api/auth.
Browse(r, b, kind) == Send(r, b, kind, IF kind = "print" THEN NoCookies ELSE jar[b], "proxy")
\* The login form, with credentials Go accepts (a refusal changes nothing).
Login(r, b) == Send(r, b, "login", jar[b], "save")
\* The logout of the top bar.
Logout(r, b) == Send(r, b, "logout", jar[b], "revoke")
\* POST /api/auth/refresh.
RefreshRoute(r, b) == Send(r, b, "refresh", jar[b], "validate")

\* proxy(): an absent access cookie and a present refresh cookie mean "rotate".
Proxy(r) ==
    /\ pc[r] = "proxy"
    /\ IF req[r].store.access # None \/ req[r].store.refresh = None
       THEN /\ pc' = [pc EXCEPT ![r] = "call"]
            /\ UNCHANGED caller
       ELSE /\ pc' = [pc EXCEPT ![r] = "validate"]
            /\ caller' = [caller EXCEPT ![r] = "proxy"]
    /\ UNCHANGED <<now, rows, jar, seen, req, flight, faults, ghosts>>

\* fetchWithRefresh on a token Go accepts, or where a 401 fails closed: a page
\* cannot write cookies, and a token of its own has no session behind it.
DataCall(r) ==
    /\ pc[r] = "call"
    /\ Accepted(req[r].store.access) \/ req[r].kind # "action"
    /\ pc' = [pc EXCEPT ![r] = "respond"]
    /\ UNCHANGED <<now, rows, jar, caller, seen, req, flight, faults, ghosts>>

\* Mutant: every 401 refreshes on its own.
RefreshAlone(r) ==
    /\ pc[r] = "call" /\ ~Accepted(req[r].store.access) /\ req[r].kind = "action"
    /\ pc' = [pc EXCEPT ![r] = "validate"]
    /\ caller' = [caller EXCEPT ![r] = "client"]
    /\ flight' = r
    /\ UNCHANGED <<now, rows, jar, seen, req, faults, ghosts>>

\* fetchWithRefresh on a 401: join the refresh in flight or start one.  Without a
\* refresh cookie Go refuses it (refreshSession answers false itself).
Refresh(r) ==
    /\ pc[r] = "call" /\ ~Accepted(req[r].store.access) /\ req[r].kind = "action"
    /\ IF flight # None
       THEN /\ pc' = [pc EXCEPT ![r] = "wait"]
            /\ req' = [req EXCEPT ![r].joined = TRUE]
            /\ UNCHANGED <<caller, flight>>
       ELSE /\ pc' = [pc EXCEPT ![r] = "validate"]
            /\ caller' = [caller EXCEPT ![r] = "client"]
            /\ flight' = r
            /\ UNCHANGED req
    /\ UNCHANGED <<now, rows, jar, seen, faults, ghosts>>

\* The retry after a refresh, with the request's own cookies.
Retry(r) ==
    /\ pc[r] = "retry"
    /\ pc' = [pc EXCEPT ![r] = "respond"]
    /\ req' = [req EXCEPT ![r] = IF Accepted(@.store.access) THEN @ ELSE With(r, "clear")]
    /\ UNCHANGED <<now, rows, jar, caller, seen, flight, faults, ghosts>>

\* The response reaches the browser, with the cookies it sets or deletes.
Respond(r) ==
    /\ pc[r] = "respond"
    /\ jar' = IF req[r].wrote = "nothing" THEN jar ELSE [jar EXCEPT ![req[r].from] = req[r].store]
    /\ pc' = [pc EXCEPT ![r] = "end"]
    /\ caller' = [caller EXCEPT ![r] = "route"]
    /\ seen' = [seen EXCEPT ![r] = {}]
    /\ req' = [req EXCEPT ![r] = Carried("page", @.from, NoCookies)]
    /\ UNCHANGED <<now, rows, flight, faults, ghosts>>

----------------------------------------------------------------------------
(* Go's handlers, one action per statement they send to the database *)

\* Refresh, up to Validate: no token, an expired or an unknown one is refused.
Refuse(r) ==
    /\ pc[r] = "validate"
    /\ ~Unexpired(req[r].store.refresh) \/ Matching(req[r].store.refresh) = {}
    /\ Settle(r, "no")
    /\ UNCHANGED <<now, rows, jar, seen, faults, ghosts>>

\* Mutant: a revoked token is as good as a live one.
ValidateRevoked(r) ==
    /\ pc[r] = "validate" /\ Unexpired(req[r].store.refresh) /\ Matching(req[r].store.refresh) # {}
    /\ pc' = [pc EXCEPT ![r] = "save"]
    /\ UNCHANGED <<now, rows, jar, caller, seen, req, flight, faults, ghosts>>

\* A live one is accepted, a revoked one is a replay.
Validate(r) ==
    LET token == req[r].store.refresh
        found == Matching(token)
    IN  /\ pc[r] = "validate" /\ Unexpired(token) /\ found # {}
        /\ IF \E i \in Newest(found) : rows[i].live
           THEN pc' = [pc EXCEPT ![r] = "save"]
           ELSE pc' = [pc EXCEPT ![r] = "revoke"]
        /\ UNCHANGED <<now, rows, jar, caller, seen, req, flight, faults, ghosts>>

\* What RevokeAll does: every row of the user is revoked.
EndSessions ==
    /\ rows' = Revoked(DOMAIN rows)
    /\ over' = (Exchanging = {})

\* RevokeAll, after a replay or for a logout with a token Go can parse.
RevokeAll(r) ==
    /\ pc[r] = "revoke"
    /\ IF Unexpired(req[r].store.refresh) THEN EndSessions ELSE UNCHANGED <<rows, over>>
    /\ Settle(r, "no")
    /\ UNCHANGED <<now, jar, seen, faults, overlap, calm>>

\* Save issues a token and opens its transaction: the UPDATE revokes the live
\* rows that are committed when it starts.
SaveRevoke(r) ==
    /\ pc[r] = "save"
    /\ pc' = [pc EXCEPT ![r] = "commit"]
    /\ seen' = [seen EXCEPT ![r] = Live]
    /\ req' = [req EXCEPT ![r].issued = now]
    /\ overlap' = (overlap \/ \E q \in Requests : pc[q] = "commit")
    /\ UNCHANGED <<now, rows, jar, caller, flight, faults, calm, over>>

\* Mutant: the old tokens stay.
SaveCommitKeeps(r) ==
    /\ pc[r] = "commit"
    /\ rows' = Append(rows, [token |-> req[r].issued, live |-> TRUE])
    /\ Settle(r, "ok")
    /\ UNCHANGED <<now, jar, seen, faults, ghosts>>

\* The rows once Save has committed.
Saved(r) == Append(Revoked(seen[r]), [token |-> req[r].issued, live |-> TRUE])

SaveCommit(r) ==
    /\ pc[r] = "commit"
    /\ rows' = Saved(r)
    /\ Settle(r, "ok")
    /\ UNCHANGED <<now, jar, seen, faults, ghosts>>

\* A statement fails: the transaction is rolled back and Go answers 500.  An
\* error of RevokeAll is ignored: Go answers as if the sessions were revoked.
GoFails(r) ==
    /\ faults < MaxFaults /\ pc[r] \in {"validate", "revoke", "save", "commit"}
    /\ faults' = faults + 1 /\ calm' = FALSE
    /\ Settle(r, "no")
    /\ UNCHANGED <<now, rows, jar, seen, overlap, over>>

\* Go is not reached, or dies before the statement is done: fetch throws.
GoUnreachable(r) ==
    /\ faults < MaxFaults /\ pc[r] \in {"validate", "revoke", "save", "commit"}
    /\ faults' = faults + 1 /\ calm' = FALSE
    /\ Settle(r, "thrown")
    /\ UNCHANGED <<now, rows, jar, seen, overlap, over>>

\* The statement is done and its answer is lost: the database's, and Go answers
\* an error, or that of Go, and fetch throws.
AnswerLost(r) ==
    /\ faults < MaxFaults
    /\ faults' = faults + 1 /\ calm' = FALSE
    /\ \/ pc[r] = "commit" /\ rows' = Saved(r) /\ UNCHANGED over
       \/ pc[r] = "revoke" /\ Unexpired(req[r].store.refresh) /\ EndSessions
    /\ \E answer \in {"no", "thrown"} : Settle(r, answer)
    /\ UNCHANGED <<now, jar, seen, overlap>>

----------------------------------------------------------------------------
Tick ==
    /\ now < MaxNow
    /\ now' = now + 1
    /\ UNCHANGED <<rows, jar, pc, caller, seen, req, flight, faults, ghosts>>

\* The access cookie lives as long as its token, counted from a later instant.
DropAccess(b) ==
    /\ jar[b].access # None /\ ~Accepted(jar[b].access)
    /\ jar' = [jar EXCEPT ![b].access = None]
    /\ UNCHANGED <<now, rows, pc, caller, seen, req, flight, faults, ghosts>>

Step(r) ==
    \/ Proxy(r) \/ DataCall(r) \/ Refresh(r) \/ Retry(r) \/ Respond(r)
    \/ Refuse(r) \/ Validate(r) \/ RevokeAll(r) \/ SaveRevoke(r) \/ SaveCommit(r)

Next ==
    \/ Tick
    \/ \E b \in Browsers : DropAccess(b)
    \/ \E r \in Requests, b \in Browsers :
        Login(r, b) \/ Logout(r, b) \/ RefreshRoute(r, b) \/ \E kind \in DataKind : Browse(r, b, kind)
    \/ \E r \in Requests : Step(r) \/ GoFails(r) \/ GoUnreachable(r) \/ AnswerLost(r)

\* A request that was sent is worked on; nothing makes a user send one.
Fairness == \A r \in Requests : WF_vars(Step(r))
Spec == Init /\ [][Next]_vars /\ Fairness

----------------------------------------------------------------------------
(* Properties *)

\* One user has one live refresh token: Save revokes every other (refresh_store.go),
\* unless two of its transactions were open at once.
OneLiveSession == overlap \/ \A i, j \in Live : i = j

\* A browser that is alone, sends one request at a time and meets no failed call
\* never loses its session before it expires: whenever it is at rest, the refresh
\* cookie it holds is one Go accepts.  (ApiClient.ts and proxy.ts refresh only
\* where the rotated cookie can be written.)
CalmSessionSurvives ==
    calm /\ (\A r \in Requests : pc[r] \in {"new", "end"}) =>
        \A b \in Browsers : LET token == jar[b].refresh
                            IN  Unexpired(token) => \A i \in Newest(Matching(token)) : rows[i].live

\* Once every session was ended, by a logout or by a replayed token, with no
\* exchange open at that moment, no token is live until somebody logs in.
EndedStaysEnded == over => Live = {}

\* However many requests meet a 401 at once, ApiClient.ts has one refresh in flight.
ClientExchange == {r \in Requests : caller[r] = "client" /\ pc[r] \in {"validate", "revoke", "save", "commit"}}
SharedRefresh == \A r, q \in ClientExchange : r = q

\* Every request that was sent is answered: a refresh in flight always settles,
\* whatever Go does, and releases the requests that await it.
RequestsAreAnswered == \A r \in Requests : pc[r] # "new" ~> pc[r] = "end"

\* ApiClient.ts clears the session when the refresh failed; a request that awaited
\* a refresh which succeeded keeps its session.
JoinerKeepsSession ==
    \A r \in Requests : req[r].joined /\ req[r].kind = "action" /\ req[r].wrote = "clear" => req[r].refused
=============================================================================
