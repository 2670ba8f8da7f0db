--------------------------- MODULE SessionsProofs ---------------------------
(***************************************************************************)
(* Proofs about Sessions, for any number of browsers, requests, seconds    *)
(* and failed calls.  The inductive invariant has one named part for each  *)
(* theorem; what Settle may change is one lemma, cited by every action     *)
(* that hands on an answer of Go.                                          *)
(***************************************************************************)
EXTENDS Sessions, TLAPS

Settled == {"call", "retry", "respond"}

\* A request whose refresh ApiClient.ts has in flight is the one inflightRefresh names.
FlightInv ==
    /\ \A r \in Requests : pc[r] = "new" => caller[r] = "route"
    /\ \A r \in ClientExchange : flight = r

\* While one Save is open, and no second one, it has seen every live row.
LiveInv ==
    ~overlap => /\ \A i, j \in Live : i = j
                /\ \A r \in Requests : pc[r] = "commit" => Live \subseteq seen[r]
                /\ \A r, q \in Requests : pc[r] = "commit" /\ pc[q] = "commit" => r = q

EndedInv == over => Live = {} /\ Exchanging = {}

\* A Save that is open has issued its token.
IssuedInv == \A r \in Requests : pc[r] = "commit" => req[r].issued # None

IInv == TypeOK /\ IssuedInv /\ FlightInv /\ LiveInv /\ EndedInv

-----------------------------------------------------------------------------
(* What the helpers return *)

LEMMA WithType ==
    ASSUME TypeOK, NEW r \in Requests, NEW write \in {"nothing", "set", "clear"}
    PROVE  /\ With(r, write) \in Request
           /\ [With(r, write) EXCEPT !.refused = TRUE] \in Request
  <1> DEFINE store == CASE write = "set" -> [access |-> req[r].issued, refresh |-> req[r].issued]
                        [] write = "clear" -> NoCookies
                        [] OTHER -> req[r].store
  <1>1. req[r] \in Request
    BY DEF TypeOK
  <1>2. store \in Cookies
    <2>1. req[r].store \in Cookies /\ req[r].issued \in Token
      BY <1>1 DEF Request
    <2>2. [access |-> req[r].issued, refresh |-> req[r].issued] \in Cookies /\ NoCookies \in Cookies
      BY <2>1, SessionConstants DEF Cookies, NoCookies, Token, None
    <2> QED BY <2>1, <2>2
  <1>3. With(r, write) = [req[r] EXCEPT !.wrote = write, !.store = store]
    BY DEF With
  <1> HIDE DEF store
  <1>4. With(r, write) \in Request
    BY <1>1, <1>2, <1>3, Zenon DEF Request
  <1>5. [With(r, write) EXCEPT !.refused = TRUE] \in Request
    BY <1>4, Zenon DEF Request
  <1> QED BY <1>4, <1>5

LEMMA CarriedType ==
    ASSUME NEW kind \in Kind, NEW b \in Browsers, NEW store \in Cookies
    PROVE  Carried(kind, b, store) \in Request
  BY SessionConstants DEF Carried, Request, Token, None

LEMMA NoCookiesType == NoCookies \in Cookies
  BY SessionConstants DEF NoCookies, Cookies, Token, None

\* Revoking rows keeps their number and their tokens.
LEMMA RevokedRows ==
    ASSUME TypeOK, NEW S
    PROVE  /\ Revoked(S) \in Seq(Row)
           /\ DOMAIN Revoked(S) = DOMAIN rows
           /\ Len(Revoked(S)) = Len(rows)
           /\ \A i \in DOMAIN rows : Revoked(S)[i].live <=> (rows[i].live /\ i \notin S)
  <1>1. rows \in Seq(Row) /\ DOMAIN rows = 1..Len(rows) /\ Len(rows) \in Nat
    BY DEF TypeOK
  <1>2. \A i \in DOMAIN rows : rows[i] \in Row
    BY <1>1
  <1>3. \A i \in DOMAIN rows : [token |-> rows[i].token, live |-> rows[i].live /\ i \notin S] \in Row
    BY <1>2 DEF Row
  <1>4. Revoked(S) \in [1..Len(rows) -> Row]
    BY <1>1, <1>3 DEF Revoked
  <1>5. Revoked(S) \in Seq(Row) /\ Len(Revoked(S)) = Len(rows)
    BY <1>1, <1>4
  <1>6. \A i \in DOMAIN rows : Revoked(S)[i].live <=> (rows[i].live /\ i \notin S)
    BY DEF Revoked
  <1> QED BY <1>1, <1>4, <1>5, <1>6

-----------------------------------------------------------------------------
\* Handing on an answer moves the request, and those that awaited it, out of the
\* exchange; only the shared refresh gives up inflightRefresh.
LEMMA SettleEffect ==
    ASSUME TypeOK, NEW r \in Requests, NEW answer \in Answer, Settle(r, answer)
    PROVE  /\ caller' = caller
           /\ pc' \in [Requests -> Pc]
           /\ pc'[r] \in Settled
           /\ \A q \in Requests : pc'[q] = pc[q] \/ pc'[q] \in Settled
           /\ flight' = flight \/ (caller[r] = "client" /\ flight' = None)
           /\ req' \in [Requests -> Request]
           /\ \A q \in Requests : pc'[q] = "commit" => req'[q] = req[q]
  <1>1. CASE caller[r] = "client" /\ SettleClient(r, answer)
    <2> DEFINE settled == {q \in Requests : q = r \/ pc[q] = "wait"}
    <2>1. pc' = [q \in Requests |-> IF q \notin settled THEN pc[q]
                                    ELSE IF answer = "ok" THEN "retry" ELSE "respond"]
      BY <1>1 DEF SettleClient
    <2>2. req' \in [Requests -> Request]
      <3>1. \A q \in Requests : [req[q] EXCEPT !.refused = TRUE] \in Request /\ req[q] \in Request
        BY Zenon DEF TypeOK, Request
      <3>2. \A q \in Requests : With(q, "set") \in Request /\ [With(q, "clear") EXCEPT !.refused = TRUE] \in Request
        BY WithType
      <3> QED BY <1>1, <3>1, <3>2, Zenon DEF SettleClient, Answer
    <2>3. \A q \in Requests \ settled : req'[q] = req[q]
      BY <1>1, Zenon DEF SettleClient
    <2> QED BY <1>1, <2>1, <2>2, <2>3 DEF Settle, SettleClient, TypeOK, Pc, Settled
  <1>2. CASE caller[r] = "proxy" /\ SettleProxy(r, answer)
    <2>1. pc' = [pc EXCEPT ![r] = "call"] /\ flight' = flight
      BY <1>2 DEF SettleProxy
    <2>2. req' \in [Requests -> Request] /\ \A q \in Requests \ {r} : req'[q] = req[q]
      BY <1>2, WithType, Zenon DEF SettleProxy, TypeOK
    <2> QED BY <2>1, <2>2 DEF TypeOK, Pc, Settled, Settle
  <1>3. CASE caller[r] = "route" /\ SettleRoute(r, answer)
    <2>1. pc' = [pc EXCEPT ![r] = "respond"] /\ flight' = flight
      BY <1>3 DEF SettleRoute
    <2>2. PICK write \in {"nothing", "set", "clear"} : req' = [req EXCEPT ![r] = With(r, write)]
      BY <1>3, Zenon DEF SettleRoute
    <2>3. req' \in [Requests -> Request] /\ \A q \in Requests \ {r} : req'[q] = req[q]
      BY <2>2, WithType, Zenon DEF TypeOK
    <2> QED BY <2>1, <2>3 DEF TypeOK, Pc, Settled, Settle
  <1> QED BY <1>1, <1>2, <1>3 DEF Settle

-----------------------------------------------------------------------------
(* The steps of a browser and of the Next server that ask Go for nothing *)

LEMMA SendStep ==
    ASSUME IInv, NEW r \in Requests, NEW b \in Browsers, NEW kind \in Kind, NEW store \in Cookies,
           NEW next \in {"proxy", "save", "revoke", "validate"}, next = "save" => kind = "login",
           Send(r, b, kind, store, next)
    PROVE  IInv'
  <1> USE SessionConstants DEF IInv
  <1>1. TypeOK'
    BY CarriedType DEF Send, TypeOK, Pc
  <1>2. IssuedInv'
    BY <1>1 DEF Send, IssuedInv, TypeOK
  <1>3. FlightInv'
    BY <1>1 DEF Send, FlightInv, ClientExchange, TypeOK
  <1>4. LiveInv'
    BY <1>1 DEF Send, LiveInv, Live, TypeOK, ghosts
  <1>5. EndedInv'
    BY <1>1 DEF Send, EndedInv, Live, Exchanging, TypeOK, ghosts
  <1> QED BY <1>1, <1>2, <1>3, <1>4, <1>5

LEMMA ProxyStep ==
    ASSUME IInv, NEW r \in Requests, Proxy(r)
    PROVE  IInv'
  <1> USE SessionConstants DEF IInv
  <1>1. TypeOK'
    BY DEF Proxy, TypeOK, Pc, Caller, ghosts
  <1>2. IssuedInv'
    BY <1>1 DEF Proxy, IssuedInv, TypeOK
  <1>3. FlightInv'
    BY <1>1 DEF Proxy, FlightInv, ClientExchange, TypeOK
  <1>4. LiveInv'
    BY <1>1 DEF Proxy, LiveInv, Live, TypeOK, ghosts
  <1>5. EndedInv'
    BY <1>1 DEF Proxy, EndedInv, Live, Exchanging, TypeOK, ghosts
  <1> QED BY <1>1, <1>2, <1>3, <1>4, <1>5

LEMMA DataCallStep ==
    ASSUME IInv, NEW r \in Requests, DataCall(r)
    PROVE  IInv'
  <1> USE SessionConstants DEF IInv
  <1>1. TypeOK'
    BY DEF DataCall, TypeOK, Pc, ghosts
  <1>2. IssuedInv'
    BY <1>1 DEF DataCall, IssuedInv, TypeOK
  <1>3. FlightInv'
    BY <1>1 DEF DataCall, FlightInv, ClientExchange, TypeOK
  <1>4. LiveInv'
    BY <1>1 DEF DataCall, LiveInv, Live, TypeOK, ghosts
  <1>5. EndedInv'
    BY <1>1 DEF DataCall, EndedInv, Live, Exchanging, TypeOK, ghosts
  <1> QED BY <1>1, <1>2, <1>3, <1>4, <1>5

LEMMA RefreshStep ==
    ASSUME IInv, NEW r \in Requests, Refresh(r)
    PROVE  IInv'
  <1> USE SessionConstants DEF IInv
  <1>0. req' \in [Requests -> Request] /\ \A q \in Requests : req'[q].issued = req[q].issued
    <2> DEFINE new == [req[r] EXCEPT !.joined = TRUE]
    <2>1. req[r] \in Request
      BY DEF TypeOK
    <2>2. new \in Request /\ new.issued = req[r].issued
      BY <2>1, Zenon DEF Request
    <2>3. req' = req \/ req' = [req EXCEPT ![r] = new]
      BY Zenon DEF Refresh
    <2> HIDE DEF new
    <2> QED BY <2>2, <2>3 DEF TypeOK
  <1>a. PICK next \in {"wait", "validate"} : pc' = [pc EXCEPT ![r] = next]
    BY Zenon DEF Refresh
  <1>b. /\ pc[r] = "call"
        /\ UNCHANGED <<now, rows, jar, seen, faults, overlap, calm, over>>
        /\ \/ UNCHANGED <<caller, flight>> /\ next = "wait"
           \/ flight = None /\ flight' = r /\ caller' = [caller EXCEPT ![r] = "client"]
    BY <1>a, Zenon DEF Refresh, ghosts, TypeOK
  <1>1. TypeOK'
    BY <1>0, <1>a, <1>b DEF TypeOK, Pc, Caller
  <1>2. IssuedInv'
    BY <1>0, <1>a, <1>b DEF IssuedInv, TypeOK
  <1>3. FlightInv'
    BY <1>a, <1>b DEF FlightInv, ClientExchange, TypeOK, None
  <1>4. LiveInv'
    BY <1>a, <1>b DEF LiveInv, Live, TypeOK
  <1>5. EndedInv'
    BY <1>a, <1>b DEF EndedInv, Live, Exchanging, TypeOK
  <1> QED BY <1>1, <1>2, <1>3, <1>4, <1>5

LEMMA RetryStep ==
    ASSUME IInv, NEW r \in Requests, Retry(r)
    PROVE  IInv'
  <1> USE SessionConstants DEF IInv
  <1>0. req' \in [Requests -> Request] /\ \A q \in Requests \ {r} : req'[q] = req[q]
    BY WithType, Zenon DEF Retry, TypeOK
  <1>a. /\ pc' = [pc EXCEPT ![r] = "respond"]
        /\ UNCHANGED <<now, rows, jar, caller, seen, flight, faults, overlap, calm, over>>
    BY Zenon DEF Retry, ghosts
  <1>1. TypeOK'
    BY <1>0, <1>a DEF TypeOK, Pc
  <1>2. IssuedInv'
    BY <1>0, <1>a DEF IssuedInv, TypeOK
  <1>3. FlightInv'
    BY <1>a DEF FlightInv, ClientExchange, TypeOK
  <1>4. LiveInv'
    BY <1>a DEF LiveInv, Live, TypeOK
  <1>5. EndedInv'
    BY <1>a DEF EndedInv, Live, Exchanging, TypeOK
  <1> QED BY <1>1, <1>2, <1>3, <1>4, <1>5

LEMMA RespondStep ==
    ASSUME IInv, NEW r \in Requests, Respond(r)
    PROVE  IInv'
  <1> USE SessionConstants DEF IInv
  <1>0. req[r].from \in Browsers /\ req[r].store \in Cookies
    BY DEF TypeOK, Request
  <1>a. req' \in [Requests -> Request] /\ \A q \in Requests \ {r} : req'[q] = req[q]
    <2>1. Carried("page", req[r].from, NoCookies) \in Request
      BY <1>0, CarriedType, NoCookiesType DEF Kind, DataKind
    <2> QED BY <2>1 DEF Respond, TypeOK
  <1>b. jar' \in [Browsers -> Cookies]
    BY <1>0 DEF Respond, TypeOK
  <1>1. TypeOK'
    BY <1>a, <1>b DEF Respond, TypeOK, Pc, Caller, ghosts
  <1>2. IssuedInv'
    BY <1>1, <1>a DEF Respond, IssuedInv, TypeOK
  <1>3. FlightInv'
    BY <1>1 DEF Respond, FlightInv, ClientExchange, TypeOK
  <1>4. LiveInv'
    BY <1>1 DEF Respond, LiveInv, Live, TypeOK, ghosts
  <1>5. EndedInv'
    BY <1>1 DEF Respond, EndedInv, Live, Exchanging, TypeOK, ghosts
  <1> QED BY <1>1, <1>2, <1>3, <1>4, <1>5

LEMMA TickStep ==
    ASSUME IInv, Tick
    PROVE  IInv'
  <1> USE SessionConstants DEF IInv
  <1>0. now' \in 1..MaxNow
    BY DEF Tick, TypeOK
  <1>1. TypeOK'
    BY <1>0 DEF Tick, TypeOK, ghosts
  <1>2. IssuedInv'
    BY <1>1 DEF Tick, IssuedInv, TypeOK
  <1>3. FlightInv'
    BY <1>1 DEF Tick, FlightInv, ClientExchange, TypeOK
  <1>4. LiveInv'
    BY <1>1 DEF Tick, LiveInv, Live, TypeOK, ghosts
  <1>5. EndedInv'
    BY <1>1 DEF Tick, EndedInv, Live, Exchanging, TypeOK, ghosts
  <1> QED BY <1>1, <1>2, <1>3, <1>4, <1>5

LEMMA DropAccessStep ==
    ASSUME IInv, NEW b \in Browsers, DropAccess(b)
    PROVE  IInv'
  <1> USE SessionConstants DEF IInv
  <1>0. [jar[b] EXCEPT !.access = None] \in Cookies
    <2>1. jar[b] \in Cookies /\ None \in Token
      BY DEF TypeOK, Token, None
    <2> QED BY <2>1, Zenon DEF Cookies
  <1>a. jar' \in [Browsers -> Cookies]
    BY <1>0, Zenon DEF DropAccess, TypeOK
  <1>b. UNCHANGED <<now, rows, pc, caller, seen, req, flight, faults, overlap, calm, over>>
    BY Zenon DEF DropAccess, ghosts
  <1>1. TypeOK'
    BY <1>a, <1>b DEF TypeOK
  <1>2. IssuedInv'
    BY <1>b DEF IssuedInv, TypeOK
  <1>3. FlightInv'
    BY <1>b DEF FlightInv, ClientExchange, TypeOK
  <1>4. LiveInv'
    BY <1>b DEF LiveInv, Live, TypeOK
  <1>5. EndedInv'
    BY <1>b DEF EndedInv, Live, Exchanging, TypeOK
  <1> QED BY <1>1, <1>2, <1>3, <1>4, <1>5

-----------------------------------------------------------------------------
(* The steps of Go's handlers *)

LEMMA RefuseStep ==
    ASSUME IInv, NEW r \in Requests, Refuse(r)
    PROVE  IInv'
  <1> USE SessionConstants DEF IInv
  <1>s. /\ caller' = caller /\ pc' \in [Requests -> Pc] /\ pc'[r] \in Settled
        /\ \A q \in Requests : pc'[q] = pc[q] \/ pc'[q] \in Settled
        /\ flight' = flight \/ (caller[r] = "client" /\ flight' = None)
        /\ req' \in [Requests -> Request]
        /\ \A q \in Requests : pc'[q] = "commit" => req'[q] = req[q]
    BY SettleEffect DEF Refuse, Answer
  <1>p. pc[r] \in {"validate", "revoke", "save", "commit"} /\ rows' = rows /\ seen' = seen /\ overlap' = overlap /\ over' = over
    BY DEF Refuse, ghosts
  <1>1. TypeOK'
    BY <1>s DEF Refuse, TypeOK, ghosts
  <1>2. IssuedInv'
    BY <1>s DEF IssuedInv, Settled
  <1>3. FlightInv'
    BY <1>s, <1>p DEF FlightInv, ClientExchange, Settled
  <1>4. LiveInv'
    BY <1>s, <1>p DEF LiveInv, Live, Settled
  <1>5. EndedInv'
    BY <1>s, <1>p DEF EndedInv, Live, Exchanging, Settled
  <1> QED BY <1>1, <1>2, <1>3, <1>4, <1>5

LEMMA GoFailsStep ==
    ASSUME IInv, NEW r \in Requests, GoFails(r)
    PROVE  IInv'
  <1> USE SessionConstants DEF IInv
  <1>s. /\ caller' = caller /\ pc' \in [Requests -> Pc] /\ pc'[r] \in Settled
        /\ \A q \in Requests : pc'[q] = pc[q] \/ pc'[q] \in Settled
        /\ flight' = flight \/ (caller[r] = "client" /\ flight' = None)
        /\ req' \in [Requests -> Request]
        /\ \A q \in Requests : pc'[q] = "commit" => req'[q] = req[q]
    BY SettleEffect DEF GoFails, Answer
  <1>p. pc[r] \in {"validate", "revoke", "save", "commit"} /\ rows' = rows /\ seen' = seen /\ overlap' = overlap /\ over' = over
    BY DEF GoFails, ghosts
  <1>1. TypeOK'
    <2>1. faults' \in 0..MaxFaults
      BY DEF GoFails, TypeOK
    <2>2. calm' = FALSE /\ UNCHANGED <<now, rows, jar, seen, overlap, over>>
      BY DEF GoFails
    <2> QED BY <2>1, <2>2, <1>s, Zenon DEF TypeOK
  <1>2. IssuedInv'
    BY <1>s DEF IssuedInv, Settled
  <1>3. FlightInv'
    BY <1>s, <1>p DEF FlightInv, ClientExchange, Settled
  <1>4. LiveInv'
    BY <1>s, <1>p DEF LiveInv, Live, Settled
  <1>5. EndedInv'
    BY <1>s, <1>p DEF EndedInv, Live, Exchanging, Settled
  <1> QED BY <1>1, <1>2, <1>3, <1>4, <1>5

LEMMA GoUnreachableStep ==
    ASSUME IInv, NEW r \in Requests, GoUnreachable(r)
    PROVE  IInv'
  <1> USE SessionConstants DEF IInv
  <1>s. /\ caller' = caller /\ pc' \in [Requests -> Pc] /\ pc'[r] \in Settled
        /\ \A q \in Requests : pc'[q] = pc[q] \/ pc'[q] \in Settled
        /\ flight' = flight \/ (caller[r] = "client" /\ flight' = None)
        /\ req' \in [Requests -> Request]
        /\ \A q \in Requests : pc'[q] = "commit" => req'[q] = req[q]
    BY SettleEffect DEF GoUnreachable, Answer
  <1>p. pc[r] \in {"validate", "revoke", "save", "commit"} /\ rows' = rows /\ seen' = seen /\ overlap' = overlap /\ over' = over
    BY DEF GoUnreachable, ghosts
  <1>1. TypeOK'
    <2>1. faults' \in 0..MaxFaults
      BY DEF GoUnreachable, TypeOK
    <2>2. calm' = FALSE /\ UNCHANGED <<now, rows, jar, seen, overlap, over>>
      BY DEF GoUnreachable
    <2> QED BY <2>1, <2>2, <1>s, Zenon DEF TypeOK
  <1>2. IssuedInv'
    BY <1>s DEF IssuedInv, Settled
  <1>3. FlightInv'
    BY <1>s, <1>p DEF FlightInv, ClientExchange, Settled
  <1>4. LiveInv'
    BY <1>s, <1>p DEF LiveInv, Live, Settled
  <1>5. EndedInv'
    BY <1>s, <1>p DEF EndedInv, Live, Exchanging, Settled
  <1> QED BY <1>1, <1>2, <1>3, <1>4, <1>5

LEMMA ValidateStep ==
    ASSUME IInv, NEW r \in Requests, Validate(r)
    PROVE  IInv'
  <1> USE SessionConstants DEF IInv
  <1> DEFINE found == Matching(req[r].store.refresh)
  <1>p. PICK next \in {"save", "revoke"} :
          /\ pc[r] = "validate" /\ pc' = [pc EXCEPT ![r] = next]
          /\ next = "save" => Live # {}
          /\ UNCHANGED <<now, rows, jar, caller, seen, req, flight, faults, overlap, calm, over>>
    <2>1. (\E i \in Newest(found) : rows[i].live) => Live # {}
      BY DEF Newest, Matching, Live
    <2> QED BY <2>1, Zenon DEF Validate, ghosts
  <1>1. TypeOK'
    BY <1>p DEF TypeOK, Pc
  <1>2. IssuedInv'
    BY <1>p DEF IssuedInv, TypeOK
  <1>3. FlightInv'
    BY <1>p DEF FlightInv, ClientExchange, TypeOK
  <1>4. LiveInv'
    BY <1>p DEF LiveInv, Live, TypeOK
  <1>5. EndedInv'
    BY <1>p DEF EndedInv, Live, Exchanging, TypeOK
  <1> QED BY <1>1, <1>2, <1>3, <1>4, <1>5

\* Revoking every row, whatever is answered, if anything.
LEMMA EndingStep ==
    ASSUME IInv, NEW r \in Requests, pc[r] = "revoke", NEW answer \in Answer, Settle(r, answer),
           EndSessions \/ UNCHANGED <<rows, over>>, faults' \in 0..MaxFaults, calm' \in BOOLEAN,
           UNCHANGED <<now, jar, seen, overlap>>
    PROVE  IInv'
  <1> USE SessionConstants DEF IInv
  <1>s. /\ caller' = caller /\ pc' \in [Requests -> Pc] /\ pc'[r] \in Settled
        /\ \A q \in Requests : pc'[q] = pc[q] \/ pc'[q] \in Settled
        /\ flight' = flight \/ (caller[r] = "client" /\ flight' = None)
        /\ req' \in [Requests -> Request]
        /\ \A q \in Requests : pc'[q] = "commit" => req'[q] = req[q]
    BY SettleEffect
  <1>p. pc[r] = "revoke" /\ seen' = seen /\ overlap' = overlap
    OBVIOUS
  <1>r. \/ rows' = rows /\ over' = over
        \/ rows' = Revoked(DOMAIN rows) /\ over' = (Exchanging = {}) /\ Live' = {}
    <2>1. rows' = Revoked(DOMAIN rows) => Live' = {}
      BY RevokedRows DEF Live
    <2> QED BY <2>1 DEF EndSessions
  <1>l. Live' \subseteq Live
    BY <1>r DEF Live
  <1>1. TypeOK'
    <2>1. rows' \in Seq(Row)
      BY <1>r, RevokedRows DEF TypeOK
    <2>2. over' \in BOOLEAN
      BY <1>r DEF TypeOK
    <2>3. /\ UNCHANGED <<now, jar, seen, overlap>>
          /\ faults' \in 0..MaxFaults /\ calm' \in BOOLEAN
      OBVIOUS
    <2> QED BY <2>1, <2>2, <2>3, <1>s, Zenon DEF TypeOK
  <1>2. IssuedInv'
    BY <1>s DEF IssuedInv, Settled
  <1>3. FlightInv'
    BY <1>s, <1>p DEF FlightInv, ClientExchange, Settled
  <1>4. LiveInv'
    BY <1>s, <1>p, <1>l DEF LiveInv, Settled
  <1>5. EndedInv'
    <2>1. Exchanging' \subseteq Exchanging
      BY <1>s DEF Exchanging, Settled
    <2>2. over' => (over \/ (Exchanging = {} /\ Live' = {}))
      BY <1>r
    <2> QED BY <2>1, <2>2, <1>l DEF EndedInv
  <1> QED BY <1>1, <1>2, <1>3, <1>4, <1>5

LEMMA RevokeAllStep ==
    ASSUME IInv, NEW r \in Requests, RevokeAll(r)
    PROVE  IInv'
  <1>1. /\ pc[r] = "revoke" /\ Settle(r, "no")
        /\ EndSessions \/ UNCHANGED <<rows, over>>
        /\ UNCHANGED <<now, jar, seen, overlap>>
    BY DEF RevokeAll
  <1>2. faults' \in 0..MaxFaults /\ calm' \in BOOLEAN
    BY DEF RevokeAll, IInv, TypeOK
  <1> QED BY <1>1, <1>2, EndingStep DEF Answer

LEMMA SaveRevokeStep ==
    ASSUME IInv, NEW r \in Requests, SaveRevoke(r)
    PROVE  IInv'
  <1> USE SessionConstants DEF IInv
  <1>i. /\ req' \in [Requests -> Request] /\ req'[r].issued = now
        /\ \A q \in Requests \ {r} : req'[q] = req[q]
    <2>1. req[r] \in Request /\ now \in Token
      BY DEF TypeOK, Token
    <2>2. [req[r] EXCEPT !.issued = now] \in Request /\ [req[r] EXCEPT !.issued = now].issued = now
      BY <2>1, Zenon DEF Request
    <2>3. req' = [req EXCEPT ![r] = [req[r] EXCEPT !.issued = now]]
      BY Zenon DEF SaveRevoke
    <2> QED BY <2>2, <2>3, Zenon DEF TypeOK
  <1>p. /\ pc[r] = "save" /\ pc' = [pc EXCEPT ![r] = "commit"] /\ seen' = [seen EXCEPT ![r] = Live]
        /\ overlap' = (overlap \/ \E q \in Requests : pc[q] = "commit")
        /\ UNCHANGED <<now, rows, jar, caller, flight, faults, calm, over>>
    BY Zenon DEF SaveRevoke
  <1>l. Live \subseteq Nat
    BY DEF Live, TypeOK
  <1>1. TypeOK'
    BY <1>i, <1>p, <1>l DEF TypeOK, Pc
  <1>2. IssuedInv'
    <2>1. now # None
      BY DEF TypeOK, None
    <2> QED BY <2>1, <1>i, <1>p DEF IssuedInv, TypeOK
  <1>3. FlightInv'
    BY <1>p DEF FlightInv, ClientExchange, TypeOK
  <1>4. LiveInv'
    BY <1>p DEF LiveInv, Live, TypeOK
  <1>5. EndedInv'
    BY <1>p DEF EndedInv, Live, Exchanging, TypeOK
  <1> QED BY <1>1, <1>2, <1>3, <1>4, <1>5

\* Committing a Save, whatever is answered, if anything.
LEMMA SavingStep ==
    ASSUME IInv, NEW r \in Requests, pc[r] = "commit", NEW answer \in Answer, Settle(r, answer),
           rows' = Saved(r), faults' \in 0..MaxFaults, calm' \in BOOLEAN,
           UNCHANGED <<now, jar, seen, overlap, over>>
    PROVE  IInv'
  <1> USE SessionConstants DEF IInv
  <1>s. /\ caller' = caller /\ pc' \in [Requests -> Pc] /\ pc'[r] \in Settled
        /\ \A q \in Requests : pc'[q] = pc[q] \/ pc'[q] \in Settled
        /\ flight' = flight \/ (caller[r] = "client" /\ flight' = None)
        /\ req' \in [Requests -> Request]
        /\ \A q \in Requests : pc'[q] = "commit" => req'[q] = req[q]
    BY SettleEffect
  <1>p. /\ pc[r] = "commit" /\ UNCHANGED <<now, jar, seen, overlap, over>>
        /\ faults' \in 0..MaxFaults /\ calm' \in BOOLEAN
    OBVIOUS
  <1>r. rows' \in Seq(Row) /\ \A i \in Live' : i = Len(rows) + 1 \/ (i \in Live /\ i \notin seen[r])
    <2> DEFINE new == [token |-> req[r].issued, live |-> TRUE]
               old == Revoked(seen[r])
    <2>1. new \in Row
      <3>1. req[r].issued \in Token /\ req[r].issued # None
        BY <1>p DEF TypeOK, Request, IssuedInv
      <3> QED BY <3>1 DEF Row
    <2>2. old \in Seq(Row) /\ Len(old) = Len(rows) /\ DOMAIN rows = 1..Len(rows) /\ Len(rows) \in Nat
      BY RevokedRows DEF TypeOK
    <2>3. rows' = Append(old, new)
      BY DEF Saved
    <2>4. \A i \in DOMAIN rows : old[i].live => i \in Live /\ i \notin seen[r]
      BY RevokedRows DEF Live
    <2> HIDE DEF new, old
    <2>5. /\ rows' \in Seq(Row) /\ DOMAIN rows' = 1..(Len(rows) + 1)
          /\ \A i \in 1..Len(rows) : rows'[i] = old[i]
      BY <2>1, <2>2, <2>3
    <2> QED BY <2>2, <2>4, <2>5 DEF Live
  <1>1. TypeOK'
    BY <1>s, <1>r, <1>p, Zenon DEF TypeOK
  <1>2. IssuedInv'
    BY <1>s DEF IssuedInv, Settled
  <1>3. FlightInv'
    BY <1>s, <1>p DEF FlightInv, ClientExchange, Settled
  <1>4. LiveInv'
    <2> SUFFICES ASSUME ~overlap PROVE LiveInv'
      BY <1>p DEF LiveInv
    <2>1. Live \subseteq seen[r] /\ \A q \in Requests : pc[q] = "commit" => q = r
      BY <1>p DEF LiveInv
    <2>2. \A i \in Live' : i = Len(rows) + 1
      BY <2>1, <1>r
    <2>3. \A q \in Requests : pc'[q] # "commit"
      BY <2>1, <1>s DEF Settled
    <2> QED BY <2>2, <2>3 DEF LiveInv
  <1>5. EndedInv'
    <2>1. r \in Exchanging
      BY <1>p DEF Exchanging
    <2> QED BY <2>1, <1>p DEF EndedInv
  <1> QED BY <1>1, <1>2, <1>3, <1>4, <1>5

LEMMA SaveCommitStep ==
    ASSUME IInv, NEW r \in Requests, SaveCommit(r)
    PROVE  IInv'
  <1>1. /\ pc[r] = "commit" /\ Settle(r, "ok") /\ rows' = Saved(r)
        /\ UNCHANGED <<now, jar, seen, overlap, over>>
    BY DEF SaveCommit, ghosts
  <1>2. faults' \in 0..MaxFaults /\ calm' \in BOOLEAN
    BY DEF SaveCommit, ghosts, IInv, TypeOK
  <1> QED BY <1>1, <1>2, SavingStep DEF Answer

LEMMA AnswerLostStep ==
    ASSUME IInv, NEW r \in Requests, AnswerLost(r)
    PROVE  IInv'
  <1>1. PICK answer \in {"no", "thrown"} : Settle(r, answer)
    BY DEF AnswerLost
  <1>2. UNCHANGED <<now, jar, seen, overlap>> /\ calm' \in BOOLEAN /\ answer \in Answer
    BY DEF AnswerLost, Answer
  <1>5. faults' \in 0..MaxFaults
    <2>1. faults < MaxFaults /\ faults' = faults + 1 /\ faults \in 0..MaxFaults
      BY DEF AnswerLost, IInv, TypeOK
    <2> QED BY <2>1, SessionConstants
  <1>3. CASE pc[r] = "commit" /\ rows' = Saved(r) /\ UNCHANGED over
    BY <1>1, <1>2, <1>3, <1>5, SavingStep
  <1>4. CASE pc[r] = "revoke" /\ EndSessions
    BY <1>1, <1>2, <1>4, <1>5, EndingStep
  <1> QED BY <1>3, <1>4 DEF AnswerLost

-----------------------------------------------------------------------------
(* A calm history: one browser, one request at a time, no failed call.  The *)
(* cookie that counts is the one the browser will hold when the request is  *)
(* answered.                                                                *)

Working == {r \in Requests : pc[r] \notin {"new", "end"}}
Exchange == {"validate", "revoke", "save", "commit"}

\* If Go would look at the token at all, the newest row it looks at is live.
Good(rs, n, token) ==
    token # None /\ n <= token + RefreshTTL =>
        \A i \in DOMAIN rs :
            /\ i + Recent > Len(rs) /\ rs[i].token = token
            /\ \A j \in DOMAIN rs : j + Recent > Len(rs) /\ rs[j].token = token => j <= i
            => rs[i].live

\* An exchange of an /api/auth route is a login, a logout or a refresh, and has
\* written no cookie yet; only the last two show Go the token they came with.
RouteInv ==
    \A r \in Requests : caller[r] = "route" /\ pc[r] \in Exchange =>
        /\ req[r].wrote = "nothing"
        /\ pc[r] \in {"validate", "revoke"} => req[r].kind \in {"logout", "refresh"}

Holds(r) ==
    /\ \A b \in Browsers \ {req[r].from} : jar[b] = NoCookies
    /\ req[r].wrote = "nothing" => Good(rows, now, jar[req[r].from].refresh)
    /\ req[r].wrote = "set" => Good(rows, now, req[r].store.refresh)
    /\ req[r].wrote = "clear" => req[r].store = NoCookies

CalmInv ==
    calm => /\ \A r, q \in Working : r = q
            /\ Working = {} => \A b \in Browsers : Good(rows, now, jar[b].refresh)
            /\ \A r \in Working : Holds(r)

LEMMA NoTokenIsGood == \A rs, n : Good(rs, n, NoCookies.refresh)
  BY DEF Good, NoCookies

LEMMA GoodLater ==
    ASSUME NEW rs, NEW n \in Nat, NEW later \in Nat, n <= later, NEW token \in Nat, Good(rs, n, token)
    PROVE  Good(rs, later, token)
  BY SessionConstants DEF Good

LEMMA NewTokenIsGood ==
    ASSUME NEW rs \in Seq(Row), NEW row \in Row, row.live, NEW n
    PROVE  Good(Append(rs, row), n, row.token)
  <1> DEFINE new == Append(rs, row)
  <1>1. Len(rs) \in Nat /\ DOMAIN new = 1..(Len(rs) + 1) /\ Len(new) = Len(rs) + 1 /\ new[Len(rs) + 1] = row
    OBVIOUS
  <1> HIDE DEF new
  <1>2. (Len(rs) + 1) + Recent > Len(new)
    BY <1>1, SessionConstants
  <1>3. ASSUME NEW i \in DOMAIN new,
               \A j \in DOMAIN new : j + Recent > Len(new) /\ new[j].token = row.token => j <= i
        PROVE  new[i].live
    <2>1. i = Len(rs) + 1
      <3>1. Len(rs) + 1 <= i /\ Len(rs) + 1 \in DOMAIN new
        BY <1>1, <1>2, <1>3
      <3> QED BY <1>1, <3>1
    <2> QED BY <1>1, <2>1
  <1>4. Good(new, n, row.token)
    BY <1>3, Zenon DEF Good
  <1> QED BY <1>4 DEF new

\* An answer of Go changes the cookies of the request that asked and of those that
\* awaited it: they are rotated, deleted, or left as the request came with them.
LEMMA SettleCookies ==
    ASSUME TypeOK, NEW r \in Requests, NEW answer \in Answer, Settle(r, answer)
    PROVE  /\ \A q \in Requests \ {r} : pc[q] # "wait" => pc'[q] = pc[q] /\ req'[q] = req[q]
           /\ answer # "thrown" =>
                /\ req'[r].from = req[r].from
                /\ \/ req'[r].wrote = "clear" /\ req'[r].store = NoCookies
                   \/ answer = "ok" /\ req'[r].wrote = "set" /\ req'[r].store.refresh = req[r].issued
                   \/ /\ answer = "no" /\ caller[r] = "route" /\ req'[r].wrote = "nothing"
                      /\ req[r].kind # "logout" /\ (req[r].kind = "refresh" => req[r].store.refresh = None)
  <1>1. req[r] \in Request /\ req \in [Requests -> Request] /\ pc \in [Requests -> Pc]
    BY DEF TypeOK
  <1>2. /\ With(r, "set").from = req[r].from /\ With(r, "set").wrote = "set"
        /\ With(r, "set").store.refresh = req[r].issued
    BY <1>1 DEF With, Request
  <1>3. ASSUME NEW f \in {With(r, "clear"), [With(r, "clear") EXCEPT !.refused = TRUE]}
        PROVE  f.from = req[r].from /\ f.wrote = "clear" /\ f.store = NoCookies
    BY <1>1, <1>3 DEF With, Request
  <1>4. With(r, "nothing").from = req[r].from /\ With(r, "nothing").wrote = "nothing"
    BY <1>1 DEF With, Request
  <1>5. CASE caller[r] = "client" /\ SettleClient(r, answer)
    <2>1. \A q \in Requests \ {r} : pc[q] # "wait" => pc'[q] = pc[q] /\ req'[q] = req[q]
      BY <1>5, Zenon DEF SettleClient
    <2>2. answer = "ok" => req'[r] = With(r, "set")
      BY <1>5, Zenon DEF SettleClient
    <2>3. answer = "no" => req'[r] = [With(r, "clear") EXCEPT !.refused = TRUE]
      BY <1>5, Zenon DEF SettleClient
    <2> QED BY <1>2, <1>3, <2>1, <2>2, <2>3 DEF Answer
  <1>6. CASE caller[r] = "proxy" /\ SettleProxy(r, answer)
    <2>1. pc' = [pc EXCEPT ![r] = "call"] /\ req' = [req EXCEPT ![r] = With(r, IF answer = "ok" THEN "set" ELSE "clear")]
      BY <1>6 DEF SettleProxy
    <2>2. \A q \in Requests \ {r} : pc'[q] = pc[q] /\ req'[q] = req[q]
      BY <1>1, <2>1
    <2>3. req'[r] = IF answer = "ok" THEN With(r, "set") ELSE With(r, "clear")
      BY <1>1, <2>1
    <2> QED BY <1>2, <1>3, <2>2, <2>3 DEF Answer
  <1>7. CASE caller[r] = "route" /\ SettleRoute(r, answer)
    <2>1. PICK write \in {"nothing", "set", "clear"} :
             /\ pc' = [pc EXCEPT ![r] = "respond"] /\ req' = [req EXCEPT ![r] = With(r, write)]
             /\ write = "set" => answer = "ok"
             /\ write = "nothing" => /\ req[r].kind # "logout" /\ answer # "ok"
                                     /\ req[r].kind = "refresh" => req[r].store.refresh = None
      BY <1>7, Zenon DEF SettleRoute
    <2>2. \A q \in Requests \ {r} : pc'[q] = pc[q] /\ req'[q] = req[q]
      BY <1>1, <2>1
    <2>3. req'[r] = With(r, write)
      BY <1>1, <2>1
    <2> QED BY <1>2, <1>3, <1>4, <1>7, <2>1, <2>2, <2>3 DEF Answer
  <1> QED BY <1>5, <1>6, <1>7 DEF Settle

\* While a calm history has a request under way, it has no other, so it is enough
\* to say what that one holds.
LEMMA OneWorker ==
    ASSUME TypeOK, CalmInv, NEW r \in Working, calm' => calm,
           \A q \in Requests \ {r} : pc[q] # "wait" => pc'[q] = pc[q],
           calm' => pc'[r] \notin {"new", "end"} /\ Holds(r)'
    PROVE  CalmInv'
  <1> SUFFICES ASSUME calm' PROVE CalmInv'
    BY DEF CalmInv
  <1>1. \A q \in Requests \ {r} : pc[q] \in {"new", "end"}
    BY DEF CalmInv, Working
  <1>2. Working' = {r}
    BY <1>1 DEF Working
  <1> QED BY <1>2 DEF CalmInv

\* An answer that leaves the cookies alone leaves Go's rows alone too.
LEMMA SettleCalm ==
    ASSUME TypeOK, RouteInv, CalmInv, NEW r \in Requests, pc[r] \in Exchange, NEW answer \in Answer,
           Settle(r, answer), UNCHANGED <<now, jar>>, calm' => calm /\ answer # "thrown",
           calm' /\ answer = "no" => rows' = rows \/ (pc[r] = "revoke" /\ req[r].store.refresh # None),
           answer = "ok" => Good(rows', now', req[r].issued)
    PROVE  RouteInv' /\ CalmInv'
  <1>1. /\ caller' = caller /\ pc'[r] \in Settled
        /\ \A q \in Requests : pc'[q] = pc[q] \/ pc'[q] \in Settled
    BY SettleEffect
  <1>2. /\ \A q \in Requests \ {r} : pc[q] # "wait" => pc'[q] = pc[q] /\ req'[q] = req[q]
        /\ answer # "thrown" =>
             /\ req'[r].from = req[r].from
             /\ \/ req'[r].wrote = "clear" /\ req'[r].store = NoCookies
                \/ answer = "ok" /\ req'[r].wrote = "set" /\ req'[r].store.refresh = req[r].issued
                \/ /\ answer = "no" /\ caller[r] = "route" /\ req'[r].wrote = "nothing"
                   /\ req[r].kind # "logout" /\ (req[r].kind = "refresh" => req[r].store.refresh = None)
    BY SettleCookies
  <1>3. RouteInv'
    <2> SUFFICES ASSUME NEW q \in Requests, caller'[q] = "route", pc'[q] \in Exchange
                 PROVE  /\ req'[q].wrote = "nothing"
                        /\ pc'[q] \in {"validate", "revoke"} => req'[q].kind \in {"logout", "refresh"}
      BY DEF RouteInv
    <2>1. q # r /\ pc'[q] = pc[q]
      BY <1>1 DEF Settled, Exchange
    <2>2. req'[q] = req[q] /\ pc[q] \in Exchange /\ caller[q] = "route"
      BY <1>1, <1>2, <2>1 DEF Exchange
    <2> QED BY <2>1, <2>2 DEF RouteInv
  <1>4. r \in Working
    BY DEF Working, Exchange
  <1>5. ASSUME calm' PROVE Holds(r)'
    <2>1. Holds(r) /\ answer # "thrown"
      BY <1>4, <1>5 DEF CalmInv
    <2>2. \A b \in Browsers \ {req'[r].from} : jar'[b] = NoCookies
      BY <1>2, <2>1 DEF Holds
    <2>3. CASE req'[r].wrote = "clear" /\ req'[r].store = NoCookies
      BY <2>2, <2>3 DEF Holds
    <2>4. CASE answer = "ok" /\ req'[r].wrote = "set" /\ req'[r].store.refresh = req[r].issued
      BY <2>2, <2>4 DEF Holds
    <2>5. CASE /\ answer = "no" /\ caller[r] = "route" /\ req'[r].wrote = "nothing"
               /\ req[r].kind # "logout" /\ (req[r].kind = "refresh" => req[r].store.refresh = None)
      <3>1. req[r].wrote = "nothing" /\ (pc[r] \in {"validate", "revoke"} => req[r].kind \in {"logout", "refresh"})
        BY <2>5 DEF RouteInv
      <3>2. rows' = rows
        BY <1>5, <2>5, <3>1
      <3>3. Good(rows, now, jar[req[r].from].refresh)
        BY <2>1, <3>1 DEF Holds
      <3>4. Good(rows', now', jar'[req'[r].from].refresh)
        BY <1>2, <2>1, <3>2, <3>3
      <3> QED BY <2>2, <2>5, <3>4 DEF Holds
    <2> QED BY <1>2, <2>1, <2>3, <2>4, <2>5
  <1>6. CalmInv'
    BY <1>1, <1>2, <1>4, <1>5, OneWorker DEF Settled
  <1> QED BY <1>3, <1>6

-----------------------------------------------------------------------------
(* What every step keeps of a calm history *)

CInv == IInv /\ RouteInv /\ CalmInv

LEMMA CalmSend ==
    ASSUME CInv, NEW r \in Requests, NEW b \in Browsers, NEW kind \in Kind, NEW store \in Cookies,
           NEW next \in {"proxy", "save", "revoke", "validate"}, next = "save" => kind = "login",
           next \in {"revoke", "validate"} => kind \in {"logout", "refresh"},
           Send(r, b, kind, store, next)
    PROVE  RouteInv' /\ CalmInv'
  <1> USE DEF CInv, IInv
  <1>1. /\ pc[r] = "new" /\ pc \in [Requests -> Pc] /\ req \in [Requests -> Request]
        /\ pc' = [pc EXCEPT ![r] = next] /\ req' = [req EXCEPT ![r] = Carried(kind, b, store)]
        /\ UNCHANGED <<now, rows, jar, caller>>
        /\ calm' => /\ calm /\ (\A q \in Requests : pc[q] \in {"new", "end"})
                    /\ \A c \in Browsers \ {b} : jar[c] = NoCookies
    BY DEF Send, TypeOK
  <1>2. req'[r] = Carried(kind, b, store) /\ Carried(kind, b, store).kind = kind
        /\ Carried(kind, b, store).from = b /\ Carried(kind, b, store).wrote = "nothing"
    BY <1>1 DEF Carried
  <1>3. RouteInv'
    BY <1>1, <1>2 DEF RouteInv, Exchange
  <1>4. ASSUME calm' PROVE CalmInv'
    <2>1. Working = {} /\ Working' = {r}
      BY <1>1, <1>4 DEF Working
    <2>2. Good(rows, now, jar[b].refresh)
      BY <1>1, <1>4, <2>1 DEF CalmInv
    <2>3. Holds(r)'
      BY <1>1, <1>2, <1>4, <2>2 DEF Holds
    <2> QED BY <2>1, <2>3 DEF CalmInv
  <1> QED BY <1>3, <1>4 DEF CalmInv

\* A request that moves on without writing a cookie or asking Go for an answer.
LEMMA CalmQuiet ==
    ASSUME CInv, NEW r \in Working, NEW next \in Pc \ {"new", "end"}, pc' = [pc EXCEPT ![r] = next],
           UNCHANGED <<now, rows, jar, calm>>, \A q \in Requests \ {r} : caller'[q] = caller[q],
           \A q \in Requests : /\ req'[q].from = req[q].from /\ req'[q].kind = req[q].kind
                               /\ req'[q].store = req[q].store /\ req'[q].wrote = req[q].wrote,
           caller'[r] = "route" /\ next \in Exchange =>
               /\ caller[r] = "route" /\ pc[r] \in Exchange
               /\ next \in {"validate", "revoke"} => pc[r] \in {"validate", "revoke"}
    PROVE  RouteInv' /\ CalmInv'
  <1> USE DEF CInv, IInv
  <1>1. pc \in [Requests -> Pc] /\ r \in Requests
    BY DEF TypeOK, Working
  <1>2. RouteInv'
    BY <1>1 DEF RouteInv
  <1>3. ASSUME calm' PROVE Holds(r)'
    <2>1. Holds(r)
      BY <1>3 DEF CalmInv
    <2> QED BY <1>1, <2>1 DEF Holds
  <1>4. CalmInv'
    BY <1>1, <1>3, OneWorker
  <1> QED BY <1>2, <1>4

LEMMA CalmProxy ==
    ASSUME CInv, NEW r \in Requests, Proxy(r)
    PROVE  RouteInv' /\ CalmInv'
  <1>1. PICK next \in {"call", "validate"} :
           /\ pc[r] = "proxy" /\ pc' = [pc EXCEPT ![r] = next] /\ UNCHANGED <<now, rows, jar, req, calm>>
           /\ caller' = caller \/ caller' = [caller EXCEPT ![r] = "proxy"]
           /\ next = "validate" => caller' = [caller EXCEPT ![r] = "proxy"]
    BY Zenon DEF Proxy, ghosts
  <1>2. r \in Working /\ caller \in [Requests -> Caller]
    BY <1>1 DEF Working, CInv, IInv, TypeOK
  <1> QED BY <1>1, <1>2, CalmQuiet DEF Pc, Exchange

LEMMA CalmDataCall ==
    ASSUME CInv, NEW r \in Requests, DataCall(r)
    PROVE  RouteInv' /\ CalmInv'
  <1>1. pc[r] = "call" /\ pc' = [pc EXCEPT ![r] = "respond"] /\ UNCHANGED <<now, rows, jar, caller, req, calm>>
    BY DEF DataCall, ghosts
  <1>2. r \in Working
    BY <1>1 DEF Working
  <1> QED BY <1>1, <1>2, CalmQuiet DEF Pc, Exchange

LEMMA CalmRefresh ==
    ASSUME CInv, NEW r \in Requests, Refresh(r)
    PROVE  RouteInv' /\ CalmInv'
  <1>1. req \in [Requests -> Request] /\ caller \in [Requests -> Caller]
    BY DEF CInv, IInv, TypeOK
  <1>2. /\ pc[r] = "call" /\ UNCHANGED <<now, rows, jar, calm>>
        /\ \/ pc' = [pc EXCEPT ![r] = "wait"] /\ caller' = caller /\ req' = [req EXCEPT ![r].joined = TRUE]
           \/ pc' = [pc EXCEPT ![r] = "validate"] /\ caller' = [caller EXCEPT ![r] = "client"] /\ req' = req
    BY Zenon DEF Refresh, ghosts
  <1>3. \A q \in Requests : /\ req'[q].from = req[q].from /\ req'[q].kind = req[q].kind
                            /\ req'[q].store = req[q].store /\ req'[q].wrote = req[q].wrote
    BY <1>1, <1>2 DEF Request
  <1>4. r \in Working
    BY <1>2 DEF Working
  <1>5. CASE pc' = [pc EXCEPT ![r] = "wait"] /\ caller' = caller
    BY <1>2, <1>3, <1>4, <1>5, CalmQuiet DEF Pc, Exchange
  <1>6. CASE pc' = [pc EXCEPT ![r] = "validate"] /\ caller' = [caller EXCEPT ![r] = "client"]
    BY <1>1, <1>2, <1>3, <1>4, <1>6, CalmQuiet DEF Pc, Exchange
  <1> QED BY <1>2, <1>5, <1>6

LEMMA CalmValidate ==
    ASSUME CInv, NEW r \in Requests, Validate(r)
    PROVE  RouteInv' /\ CalmInv'
  <1>1. PICK next \in {"save", "revoke"} :
           /\ pc[r] = "validate" /\ pc' = [pc EXCEPT ![r] = next]
           /\ UNCHANGED <<now, rows, jar, caller, req, calm>>
    BY Zenon DEF Validate, ghosts
  <1>2. r \in Working
    BY <1>1 DEF Working
  <1> QED BY <1>1, <1>2, CalmQuiet DEF Pc, Exchange

LEMMA CalmSaveRevoke ==
    ASSUME CInv, NEW r \in Requests, SaveRevoke(r)
    PROVE  RouteInv' /\ CalmInv'
  <1>1. req \in [Requests -> Request]
    BY DEF CInv, IInv, TypeOK
  <1>2. /\ pc[r] = "save" /\ pc' = [pc EXCEPT ![r] = "commit"] /\ req' = [req EXCEPT ![r].issued = now]
        /\ UNCHANGED <<now, rows, jar, caller, calm>>
    BY Zenon DEF SaveRevoke
  <1>3. \A q \in Requests : /\ req'[q].from = req[q].from /\ req'[q].kind = req[q].kind
                            /\ req'[q].store = req[q].store /\ req'[q].wrote = req[q].wrote
    BY <1>1, <1>2 DEF Request
  <1>4. r \in Working
    BY <1>2 DEF Working
  <1> QED BY <1>2, <1>3, <1>4, CalmQuiet DEF Pc, Exchange

LEMMA CalmRetry ==
    ASSUME CInv, NEW r \in Requests, Retry(r)
    PROVE  RouteInv' /\ CalmInv'
  <1>1. req \in [Requests -> Request] /\ req[r] \in Request /\ pc \in [Requests -> Pc]
    BY DEF CInv, IInv, TypeOK
  <1>2. /\ pc[r] = "retry" /\ pc' = [pc EXCEPT ![r] = "respond"] /\ UNCHANGED <<now, rows, jar, caller, calm>>
        /\ req' = req \/ req' = [req EXCEPT ![r] = With(r, "clear")]
    <2>1. req' = [req EXCEPT ![r] = IF Accepted(req[r].store.access) THEN req[r] ELSE With(r, "clear")]
      BY Zenon DEF Retry
    <2> QED BY <1>1, <2>1, Zenon DEF Retry, ghosts
  <1>3. r \in Working
    BY <1>2 DEF Working
  <1>4. CASE req' = req
    BY <1>2, <1>3, <1>4, CalmQuiet DEF Pc, Exchange
  <1>5. CASE req' = [req EXCEPT ![r] = With(r, "clear")]
    <2>1. With(r, "clear").from = req[r].from /\ With(r, "clear").wrote = "clear" /\ With(r, "clear").store = NoCookies
      BY <1>1 DEF With, Request
    <2>2. RouteInv'
      BY <1>1, <1>2, <1>5 DEF CInv, RouteInv, Exchange
    <2>3. ASSUME calm' PROVE Holds(r)'
      <3>1. Holds(r)
        BY <1>2, <1>3, <2>3 DEF CInv, CalmInv
      <3>2. req'[r] = With(r, "clear")
        BY <1>1, <1>5
      <3> QED BY <1>2, <2>1, <3>1, <3>2 DEF Holds
    <2>4. CalmInv'
      BY <1>1, <1>2, <1>3, <2>3, OneWorker DEF CInv, IInv
    <2> QED BY <2>2, <2>4
  <1> QED BY <1>2, <1>4, <1>5

\* The browser takes over what the answered request held.
LEMMA CalmRespond ==
    ASSUME CInv, NEW r \in Requests, Respond(r)
    PROVE  RouteInv' /\ CalmInv'
  <1> USE DEF CInv, IInv
  <1>1. /\ pc[r] = "respond" /\ pc' = [pc EXCEPT ![r] = "end"] /\ UNCHANGED <<now, rows, calm>>
        /\ jar' = IF req[r].wrote = "nothing" THEN jar ELSE [jar EXCEPT ![req[r].from] = req[r].store]
        /\ caller' = [caller EXCEPT ![r] = "route"] /\ \A q \in Requests \ {r} : req'[q] = req[q]
        /\ pc \in [Requests -> Pc] /\ caller \in [Requests -> Caller]
    BY DEF Respond, TypeOK, ghosts
  <1>2. jar \in [Browsers -> Cookies] /\ req[r].from \in Browsers /\ req[r].wrote \in {"nothing", "set", "clear"}
    BY DEF TypeOK, Request
  <1>3. RouteInv'
    BY <1>1 DEF RouteInv, Exchange
  <1>4. ASSUME calm' PROVE CalmInv'
    <2>1. r \in Working
      BY <1>1 DEF Working
    <2>2. Holds(r) /\ \A q \in Requests \ {r} : pc[q] \in {"new", "end"}
      BY <1>1, <1>4, <2>1 DEF CalmInv, Working
    <2>3. Working' = {}
      BY <1>1, <2>2 DEF Working
    <2>4. ASSUME NEW b \in Browsers PROVE Good(rows, now, jar'[b].refresh)
      <3>1. CASE b # req[r].from
        BY <1>1, <1>2, <2>2, <3>1, NoTokenIsGood DEF Holds
      <3>2. CASE b = req[r].from
        BY <1>1, <1>2, <2>2, <3>2, NoTokenIsGood DEF Holds
      <3> QED BY <3>1, <3>2
    <2> QED BY <1>1, <2>3, <2>4 DEF CalmInv
  <1> QED BY <1>3, <1>4 DEF CalmInv

LEMMA CalmRefuse ==
    ASSUME CInv, NEW r \in Requests, Refuse(r)
    PROVE  RouteInv' /\ CalmInv'
  BY SettleCalm DEF CInv, IInv, Refuse, Exchange, Answer, ghosts

LEMMA CalmRevokeAll ==
    ASSUME CInv, NEW r \in Requests, RevokeAll(r)
    PROVE  RouteInv' /\ CalmInv'
  BY SettleCalm DEF CInv, IInv, RevokeAll, EndSessions, Exchange, Answer, Unexpired

LEMMA CalmSaveCommit ==
    ASSUME CInv, NEW r \in Requests, SaveCommit(r)
    PROVE  RouteInv' /\ CalmInv'
  <1> DEFINE new == [token |-> req[r].issued, live |-> TRUE]
  <1>1. pc[r] = "commit" /\ Settle(r, "ok") /\ UNCHANGED <<now, jar, calm>> /\ rows' = Append(Revoked(seen[r]), new)
    BY DEF SaveCommit, Saved, ghosts
  <1>2. Revoked(seen[r]) \in Seq(Row)
    BY RevokedRows DEF CInv, IInv
  <1>3. new \in Row /\ new.live /\ new.token = req[r].issued
    <2>1. req[r].issued \in Token /\ req[r].issued # None
      BY <1>1 DEF CInv, IInv, TypeOK, Request, IssuedInv
    <2> QED BY <2>1 DEF Row
  <1> HIDE DEF new
  <1>4. Good(rows', now', req[r].issued)
    BY <1>1, <1>2, <1>3, NewTokenIsGood
  <1> QED BY <1>1, <1>4, SettleCalm DEF CInv, IInv, Exchange, Answer

LEMMA CalmFault ==
    ASSUME CInv, NEW r \in Requests, GoFails(r) \/ GoUnreachable(r) \/ AnswerLost(r)
    PROVE  RouteInv' /\ CalmInv'
  <1>1. PICK answer \in {"no", "thrown"} :
           Settle(r, answer) /\ pc[r] \in Exchange /\ calm' = FALSE /\ UNCHANGED <<now, jar>>
    BY DEF GoFails, GoUnreachable, AnswerLost, Exchange
  <1> QED BY <1>1, SettleCalm DEF CInv, IInv, Answer

LEMMA CalmTick ==
    ASSUME CInv, Tick
    PROVE  RouteInv' /\ CalmInv'
  <1> USE DEF CInv, IInv
  <1>1. /\ now \in Nat /\ now' \in Nat /\ now <= now'
        /\ UNCHANGED <<rows, jar, pc, caller, req, calm>>
    BY DEF Tick, TypeOK, ghosts
  <1>2. RouteInv'
    BY <1>1 DEF RouteInv
  <1>3. \A token \in Nat : Good(rows, now, token) => Good(rows, now', token)
    BY <1>1, GoodLater
  <1>4. \A b \in Browsers : jar[b].refresh \in Nat
    BY DEF TypeOK, Cookies, Token
  <1>5. \A r \in Requests : req[r].store.refresh \in Nat /\ req[r].from \in Browsers
    BY DEF TypeOK, Request, Cookies, Token
  <1>6. Working' = Working
    BY <1>1 DEF Working
  <1>7. \A r \in Working : Holds(r) => Holds(r)'
    BY <1>1, <1>3, <1>4, <1>5 DEF Holds, Working
  <1>8. CalmInv'
    BY <1>1, <1>3, <1>4, <1>6, <1>7 DEF CalmInv
  <1> QED BY <1>2, <1>8

LEMMA CalmDropAccess ==
    ASSUME CInv, NEW b \in Browsers, DropAccess(b)
    PROVE  RouteInv' /\ CalmInv'
  <1> USE DEF CInv, IInv
  <1>1. /\ UNCHANGED <<now, rows, pc, caller, req, calm>> /\ jar \in [Browsers -> Cookies]
        /\ jar[b].access # None /\ jar' = [jar EXCEPT ![b].access = None]
    BY DEF DropAccess, TypeOK, ghosts
  <1>2. RouteInv'
    BY <1>1 DEF RouteInv
  <1>3. \A c \in Browsers : jar'[c].refresh = jar[c].refresh /\ (jar[c] = NoCookies => jar'[c] = NoCookies)
    BY <1>1 DEF Cookies, NoCookies
  <1>4. Working' = Working /\ \A r \in Requests : req[r].from \in Browsers
    BY <1>1 DEF Working, TypeOK, Request
  <1>5. \A r \in Working : Holds(r) => Holds(r)'
    BY <1>1, <1>3, <1>4 DEF Holds, Working
  <1>6. CalmInv'
    BY <1>1, <1>3, <1>4, <1>5 DEF CalmInv
  <1> QED BY <1>2, <1>6

LEMMA CalmInit == Init => RouteInv /\ CalmInv
  <1> SUFFICES ASSUME Init PROVE RouteInv /\ CalmInv
    OBVIOUS
  <1>1. RouteInv /\ Working = {}
    BY DEF Init, RouteInv, Exchange, Working
  <1>2. ASSUME NEW b \in Browsers PROVE Good(rows, now, jar[b].refresh)
    <2>1. jar[b].refresh = 1 \/ jar[b].refresh = None
      BY DEF Init, NoCookies
    <2>2. rows = <<[token |-> 1, live |-> TRUE]>>
      BY DEF Init
    <2> QED BY <2>1, <2>2 DEF Good
  <1> QED BY <1>1, <1>2 DEF CalmInv

LEMMA CalmNext == CInv /\ [Next]_vars => RouteInv' /\ CalmInv'
  <1> SUFFICES ASSUME CInv, [Next]_vars PROVE RouteInv' /\ CalmInv'
    OBVIOUS
  <1>1. CASE Tick
    BY <1>1, CalmTick
  <1>2. CASE \E b \in Browsers : DropAccess(b)
    BY <1>2, CalmDropAccess
  <1>3. CASE \E r \in Requests, b \in Browsers :
               \/ Login(r, b) \/ Logout(r, b) \/ RefreshRoute(r, b)
               \/ \E kind \in DataKind : Browse(r, b, kind)
    <2>1. \A b \in Browsers : jar[b] \in Cookies
      BY DEF CInv, IInv, TypeOK
    <2>2. ASSUME NEW r \in Requests, NEW b \in Browsers, Login(r, b) PROVE RouteInv' /\ CalmInv'
      BY <2>1, <2>2, CalmSend DEF Login, Kind
    <2>3. ASSUME NEW r \in Requests, NEW b \in Browsers, Logout(r, b) PROVE RouteInv' /\ CalmInv'
      BY <2>1, <2>3, CalmSend DEF Logout, Kind
    <2>4. ASSUME NEW r \in Requests, NEW b \in Browsers, RefreshRoute(r, b) PROVE RouteInv' /\ CalmInv'
      BY <2>1, <2>4, CalmSend DEF RefreshRoute, Kind
    <2>5. ASSUME NEW r \in Requests, NEW b \in Browsers, NEW kind \in DataKind, Browse(r, b, kind)
          PROVE  RouteInv' /\ CalmInv'
      BY <2>1, <2>5, NoCookiesType, CalmSend DEF Browse, Kind
    <2> QED BY <1>3, <2>2, <2>3, <2>4, <2>5
  <1>4. CASE \E r \in Requests : Step(r)
    BY <1>4, CalmProxy, CalmDataCall, CalmRefresh, CalmRetry, CalmRespond,
       CalmRefuse, CalmValidate, CalmRevokeAll, CalmSaveRevoke, CalmSaveCommit DEF Step
  <1>5. CASE \E r \in Requests : GoFails(r) \/ GoUnreachable(r) \/ AnswerLost(r)
    BY <1>5, CalmFault
  <1>6. CASE UNCHANGED vars
    BY <1>6 DEF vars, ghosts, CInv, RouteInv, CalmInv, Holds, Working
  <1> QED BY <1>1, <1>2, <1>3, <1>4, <1>5, <1>6 DEF Next

-----------------------------------------------------------------------------
(* The theorems *)

LEMMA InitInv == Init => IInv
  <1> SUFFICES ASSUME Init PROVE IInv
    OBVIOUS
  <1> USE SessionConstants
  <1>0. PICK first \in Browsers :
          /\ jar = [b \in Browsers |-> IF b = first THEN [access |-> 1, refresh |-> 1] ELSE NoCookies]
          /\ req = [r \in Requests |-> Carried("page", first, NoCookies)]
    BY DEF Init
  <1>1. rows \in Seq(Row)
    BY DEF Init, Row, Token, None
  <1>2. jar \in [Browsers -> Cookies]
    BY <1>0, NoCookiesType DEF Cookies, Token
  <1>3. req \in [Requests -> Request]
    BY <1>0, CarriedType, NoCookiesType DEF Kind, DataKind
  <1>4. TypeOK
    <2>1. now \in 1..MaxNow /\ faults \in 0..MaxFaults
      BY DEF Init
    <2>2. pc \in [Requests -> Pc] /\ caller \in [Requests -> Caller] /\ seen \in [Requests -> SUBSET Nat]
      BY DEF Init, Pc, Caller
    <2>3. flight \in Requests \union {None} /\ overlap \in BOOLEAN /\ calm \in BOOLEAN /\ over \in BOOLEAN
      BY DEF Init
    <2> QED BY <1>1, <1>2, <1>3, <2>1, <2>2, <2>3, Zenon DEF TypeOK
  <1>5. IssuedInv /\ FlightInv /\ LiveInv /\ EndedInv
    BY DEF Init, IssuedInv, FlightInv, LiveInv, EndedInv, ClientExchange, Live
  <1> QED BY <1>4, <1>5 DEF IInv

LEMMA StepInv == IInv /\ [Next]_vars => IInv'
  <1> SUFFICES ASSUME IInv, [Next]_vars PROVE IInv'
    OBVIOUS
  <1>1. CASE Tick
    BY <1>1, TickStep
  <1>2. CASE \E b \in Browsers : DropAccess(b)
    BY <1>2, DropAccessStep
  <1>3. CASE \E r \in Requests, b \in Browsers :
               \/ Login(r, b) \/ Logout(r, b) \/ RefreshRoute(r, b)
               \/ \E kind \in DataKind : Browse(r, b, kind)
    <2>1. \A b \in Browsers : jar[b] \in Cookies
      BY DEF IInv, TypeOK
    <2>2. ASSUME NEW r \in Requests, NEW b \in Browsers, Login(r, b) PROVE IInv'
      BY <2>1, <2>2, SendStep DEF Login, Kind
    <2>3. ASSUME NEW r \in Requests, NEW b \in Browsers, Logout(r, b) PROVE IInv'
      BY <2>1, <2>3, SendStep DEF Logout, Kind
    <2>4. ASSUME NEW r \in Requests, NEW b \in Browsers, RefreshRoute(r, b) PROVE IInv'
      BY <2>1, <2>4, SendStep DEF RefreshRoute, Kind
    <2>5. ASSUME NEW r \in Requests, NEW b \in Browsers, NEW kind \in DataKind, Browse(r, b, kind) PROVE IInv'
      BY <2>1, <2>5, NoCookiesType, SendStep DEF Browse, Kind
    <2> QED BY <1>3, <2>2, <2>3, <2>4, <2>5
  <1>4. CASE \E r \in Requests : Step(r)
    BY <1>4, ProxyStep, DataCallStep, RefreshStep, RetryStep, RespondStep,
       RefuseStep, ValidateStep, RevokeAllStep, SaveRevokeStep, SaveCommitStep DEF Step
  <1>5. CASE \E r \in Requests : GoFails(r) \/ GoUnreachable(r) \/ AnswerLost(r)
    BY <1>5, GoFailsStep, GoUnreachableStep, AnswerLostStep
  <1>6. CASE UNCHANGED vars
    BY <1>6 DEF vars, ghosts, IInv, TypeOK, IssuedInv, FlightInv, LiveInv, EndedInv, Live, Exchanging, ClientExchange
  <1> QED BY <1>1, <1>2, <1>3, <1>4, <1>5, <1>6 DEF Next

LEMMA Invariance == Spec => []IInv
  BY InitInv, StepInv, PTL DEF Spec

\* Every variable stays in its type, for every number of browsers and requests.
THEOREM SessionTypes == Spec => []TypeOK
  BY Invariance, PTL DEF IInv

\* One user has one live refresh token unless two Saves were open at once
\* (Save of refresh_store.go).
THEOREM OneLiveSessionHolds == Spec => []OneLiveSession
  <1>1. IInv => OneLiveSession
    BY DEF IInv, LiveInv, OneLiveSession
  <1> QED BY <1>1, Invariance, PTL

\* After a logout or a replay with no exchange open, no token is live until a login
\* (Validate, RevokeAll and Logout of internal/auth).
THEOREM EndedStaysEndedHolds == Spec => []EndedStaysEnded
  <1>1. IInv => EndedStaysEnded
    BY DEF IInv, EndedInv, EndedStaysEnded
  <1> QED BY <1>1, Invariance, PTL

\* ApiClient.ts has one refresh in flight, whatever number of requests meet a 401.
THEOREM SharedRefreshHolds == Spec => []SharedRefresh
  <1>1. IInv => SharedRefresh
    BY DEF IInv, FlightInv, SharedRefresh
  <1> QED BY <1>1, Invariance, PTL

\* A browser alone, one request at a time and no failed call: at rest, the refresh
\* cookie is one Go accepts until it expires (proxy.ts, ApiClient.ts, /api/auth).
THEOREM CalmSessionSurvivesHolds == Spec => []CalmSessionSurvives
  <1>1. Init => CInv
    BY InitInv, CalmInit DEF CInv
  <1>2. CInv /\ [Next]_vars => CInv'
    BY StepInv, CalmNext DEF CInv
  <1>3. CInv => CalmSessionSurvives
    <2> SUFFICES ASSUME CInv, calm, \A r \in Requests : pc[r] \in {"new", "end"}, NEW b \in Browsers,
                        Unexpired(jar[b].refresh), NEW i \in Newest(Matching(jar[b].refresh))
                 PROVE  rows[i].live
      BY DEF CalmSessionSurvives
    <2>1. Working = {}
      BY DEF Working
    <2>2. Good(rows, now, jar[b].refresh)
      BY <2>1 DEF CInv, CalmInv
    <2> QED BY <2>2 DEF Good, Unexpired, Newest, Matching
  <1> QED BY <1>1, <1>2, <1>3, PTL DEF Spec
=============================================================================
